----------------------------- MODULE Deployment -----------------------------
(***************************************************************************)
(* The service as main.go puts it together for Env = "prod": the handlers  *)
(* (Service) call the methods of PostgresStorage itself, each request in a *)
(* goroutine of its own, which is the storage's caller.  A handler's own   *)
(* steps are those of Service; where Service lets the promised storage     *)
(* take its one step, here the connection, the statement, the commit and   *)
(* the answer of the server take theirs.                                   *)
(***************************************************************************)
EXTENDS PostgresStorage

CONSTANTS Requests, Absent, Malformed, MaxInt     \* see Service

VARIABLES stage, req, resp, changes, told, deletes   \* see Service

Handlers == INSTANCE ServiceProofs
               WITH rows <- table, fresh <- StoreFresh, phase <- StorePhase

handlerVars == <<stage, req, resp, changes, told, deletes>>
allVars == <<vars, handlerVars>>

(* What Service assumes of its constants.                                  *)
ASSUME DeploymentAssumption ==
    /\ Requests \subseteq Handlers!Request
    /\ Absent # Malformed
    /\ {Absent, Malformed} \cap (Services \cup Users \cup Date \cup Int) = {}
    /\ NilUser \in Users
    /\ MaxInt \in Nat
    /\ \A r \in Requests : Handlers!Valid(r) => Handlers!CallOf(r) \in Calls

DeployInit ==
    /\ Init
    /\ stage = [p \in Procs |-> "idle"]
    /\ req = [p \in Procs |-> Handlers!NoRequest]
    /\ resp = [p \in Procs |-> Handlers!NoResponse]
    /\ changes = [p \in Procs |-> 0]
    /\ told = {}
    /\ deletes = {}

(* A request refused, and a response written or lost, leave the storage be.*)
Refuse(p, r) == UNCHANGED vars /\ Handlers!Refuse(p, r)
Deliver(p) == UNCHANGED vars /\ Handlers!Deliver(p)
Lose(p) == UNCHANGED vars /\ Handlers!Lose(p)

Forward(p, r) == Invoke(p, Handlers!CallOf(r)) /\ Handlers!HandOver(p, r)
Serve(p) == Step(p) /\ Handlers!Wait(p)
Respond(p) == Close(p) /\ Handlers!Render(p)

DeployNext == \E p \in Procs :
    \/ \E r \in Requests : Refuse(p, r) \/ Forward(p, r)
    \/ Serve(p) \/ Respond(p) \/ Deliver(p) \/ Lose(p)

DeploySpec == DeployInit /\ [][DeployNext]_allVars

(* The fairness of PostgresStorage, and a response ends: it is written, or *)
(* WriteTimeout passes.  Nobody has to send a request.                     *)
Proceed(p) == (Served(p) /\ pc[p] # "closing" /\ Handlers!Wait(p)) \/ Respond(p)
DeployFairness == \A p \in Procs :
    /\ WF_allVars(Proceed(p))
    /\ WF_allVars(DeadlockVictim(p) /\ Handlers!Wait(p))
    /\ SF_allVars(Unblocked(p) /\ Handlers!Wait(p))
    /\ WF_allVars(Deliver(p) \/ Lose(p))

FairDeploySpec == DeploySpec /\ DeployFairness

(***************************************************************************)
(* Correctness.                                                            *)
(***************************************************************************)

(* The handlers over Postgres behave like the handlers over the storage    *)
(* they were written for.                                                  *)
ServiceSpec == Handlers!Spec

(* A client that reads its response slowly, or not at all, keeps no        *)
(* connection of the pool and no row or key of the table from others, and  *)
(* what it is being told has been decided: its method has returned.        *)
RepliesHoldNothing == \A p \in Procs :
    stage[p] # "storing" => p \notin conns /\ wr[p] = NoWrite /\ \A q \in Procs : p \notin WaitsFor(q)

(* A subscription a client was told of is found by every later request for *)
(* it, whatever breaks or races, until a client asks to delete it.         *)
ToldIsFound == [][\A p \in Procs :
    ret[p].err # "notfound" /\ ret'[p].err = "notfound" =>
        \A t \in told : t[1] = call[p].id => t[1] \in deletes]_allVars

(* Every request gets its response or times out, although requests wait    *)
(* for connections, rows and keys, and for the deadlock detector.          *)
EveryRequestAnswered == \A p \in Procs : stage[p] # "idle" ~> stage[p] = "idle"

=============================================================================
