-------------------------- MODULE DeploymentProofs --------------------------
(***************************************************************************)
(* The handlers over PostgresStorage implement the handlers over the       *)
(* storage PostgresStorage promises to be (ServiceSpec), so the theorems   *)
(* of ServiceProofs are theorems about the table of Postgres.              *)
(***************************************************************************)
EXTENDS Deployment, PostgresStorageProofs

(***************************************************************************)
(* SubscriptionStore as Service sees it and as PostgresStorage sees it.    *)
(***************************************************************************)
LEMMA SameHandlerData ==
    /\ \A e : Handlers!Store!Err(e) = Store!Err(e)
    /\ \A i : Handlers!Store!OkId(i) = Store!OkId(i)
    /\ \A rs : Handlers!Store!OkRows(rs) = Store!OkRows(rs)
    /\ Handlers!Store!NoReply = Store!NoReply /\ Handlers!Store!NoCall = Store!NoCall
    /\ Handlers!Store!Ids = Store!Ids
  BY DEF Handlers!Store!Err, Store!Err, Handlers!Store!OkId, Store!OkId, Handlers!Store!OkRows,
     Store!OkRows, Handlers!Store!NoReply, Store!NoReply, Handlers!Store!NoCall, Store!NoCall,
     Handlers!Store!Ids, Store!Ids, Handlers!Store!Seen, Store!Seen, Handlers!Store!AsRead,
     Store!AsRead, Handlers!Store!Month, Store!Month

LEMMA SameHandlerRows ==
    /\ Handlers!Store!Day = Store!Day /\ Handlers!Store!Row = Store!Row
    /\ \A d : Handlers!Store!Column(d) = Store!Column(d)
    /\ \A x, y : Handlers!Store!Later(x, y) <=> Store!Later(x, y)
    /\ \A row : Handlers!Store!Key(row) = Store!Key(row)
    /\ \A row : Handlers!Store!ValidRow(row) <=> Store!ValidRow(row)
    /\ \A c : Handlers!Store!NewRow(c) = Store!NewRow(c)
    /\ \A row, c : Handlers!Store!Merged(row, c) = Store!Merged(row, c)
    /\ \A t, i : Handlers!Store!Live(t, i) <=> Store!Live(t, i)
  <1>1. Handlers!Store!Day = Store!Day
    <2>1. Handlers!Store!LastYear = Store!LastYear
      BY SMT DEF Handlers!Store!LastYear, Store!LastYear
    <2>2. Handlers!Store!Years = Store!Years
      BY <2>1 DEF Handlers!Store!Years, Store!Years
    <2> QED
      BY <2>2 DEF Handlers!Store!Day, Store!Day, Handlers!Store!LengthOf, Store!LengthOf
  <1>2. Handlers!Store!Row = Store!Row
    BY <1>1 DEF Handlers!Store!Row, Store!Row, Handlers!Store!ColumnInt, Store!ColumnInt
  <1>3. \A d : Handlers!Store!Column(d) = Store!Column(d)
    BY DEF Handlers!Store!Column, Store!Column
  <1>4. \A x, y : Handlers!Store!Later(x, y) <=> Store!Later(x, y)
    BY DEF Handlers!Store!Later, Store!Later, Handlers!Store!GreaterThan, Store!GreaterThan
  <1>5. /\ \A row : Handlers!Store!Key(row) = Store!Key(row)
        /\ \A row : Handlers!Store!ValidRow(row) <=> Store!ValidRow(row)
        /\ \A t, i : Handlers!Store!Live(t, i) <=> Store!Live(t, i)
    BY <1>4 DEF Handlers!Store!Key, Store!Key, Handlers!Store!ValidRow, Store!ValidRow,
       Handlers!Store!Live, Store!Live, Handlers!Store!Ids, Store!Ids
  <1>6. /\ \A c : Handlers!Store!NewRow(c) = Store!NewRow(c)
        /\ \A row, c : Handlers!Store!Merged(row, c) = Store!Merged(row, c)
    BY <1>3 DEF Handlers!Store!NewRow, Store!NewRow, Handlers!Store!Merged, Store!Merged,
       Handlers!Store!ZeroDate, Store!ZeroDate
  <1> QED
    BY <1>1, <1>2, <1>3, <1>4, <1>5, <1>6

LEMMA SameHandlerAnswers ==
    /\ \A t, c : Handlers!Store!Answers(t, c) = Store!Answers(t, c)
    /\ \A c, r : Handlers!Store!BrokenReplies(c, r) = Store!BrokenReplies(c, r)
  <1>1. \A t : Handlers!Store!Entries(t) = Store!Entries(t)
    BY SameHandlerData DEF Handlers!Store!Entries, Store!Entries
  <1>2. \A t, c : Handlers!Store!GetAnswers(t, c) = Store!GetAnswers(t, c)
    BY SameHandlerRows DEF Handlers!Store!GetAnswers, Store!GetAnswers
  <1>3. \A c : Handlers!Store!Mispaired(c) <=> Store!Mispaired(c)
    BY DEF Handlers!Store!Mispaired, Store!Mispaired
  <1>4. \A n, l, o : Handlers!Store!PageSize(n, l, o) = Store!PageSize(n, l, o)
    BY DEF Handlers!Store!PageSize, Store!PageSize
  <1>5. \A t, c : Handlers!Store!ListAnswers(t, c) = Store!ListAnswers(t, c)
    <2>1. \A S : Handlers!Store!Cardinality(S) = Store!Cardinality(S)
      BY DEF Handlers!Store!Cardinality, Store!Cardinality
    <2> QED
      BY <1>1, <1>3, <1>4, <2>1 DEF Handlers!Store!ListAnswers, Store!ListAnswers
  <1>6. \A d : Handlers!Store!StorableDate(d) <=> Store!StorableDate(d)
    BY SameHandlerRows DEF Handlers!Store!StorableDate, Store!StorableDate
  <1>7. \A row, c : Handlers!Store!Matches(row, c) <=> Store!Matches(row, c)
    BY SameHandlerRows DEF Handlers!Store!Matches, Store!Matches, Handlers!Store!ServiceColumn,
       Store!ServiceColumn
  <1>8. \A t, c : Handlers!Store!FilterAnswers(t, c) = Store!FilterAnswers(t, c)
    BY <1>1, <1>6, <1>7 DEF Handlers!Store!FilterAnswers, Store!FilterAnswers,
       Handlers!Store!FilterDates, Store!FilterDates
  <1>9. \A t, c : Handlers!Store!Answers(t, c) = Store!Answers(t, c)
    BY <1>2, <1>5, <1>8 DEF Handlers!Store!Answers, Store!Answers
  <1>10. \A c, r : Handlers!Store!BrokenReplies(c, r) = Store!BrokenReplies(c, r)
    BY SameHandlerData DEF Handlers!Store!BrokenReplies, Store!BrokenReplies
  <1> QED
    BY <1>9, <1>10

(* The steps a call may take between its start and its return.             *)
StoreWork(p) ==
    \/ Store!Create(p) \/ Store!CreateConflict(p) \/ Store!Update(p) \/ Store!Delete(p)
    \/ Store!NotFound(p) \/ Store!Read(p) \/ Store!Fail(p) \/ Store!Degrade(p)
HandlersStoreWork(p) ==
    \/ Handlers!Store!Create(p) \/ Handlers!Store!CreateConflict(p) \/ Handlers!Store!Update(p)
    \/ Handlers!Store!Delete(p) \/ Handlers!Store!NotFound(p) \/ Handlers!Store!Read(p)
    \/ Handlers!Store!Fail(p) \/ Handlers!Store!Degrade(p)

LEMMA SameSteps ==
    ASSUME NEW p \in Procs
    PROVE  /\ \A c : Store!Invoke(p, c) => Handlers!Store!Invoke(p, c)
           /\ StoreWork(p) => HandlersStoreWork(p)
           /\ Store!Return(p) => Handlers!Store!Return(p)
  <1> USE SameHandlerData, SameHandlerRows, SameHandlerAnswers
  <1>1. \A r : Store!TakeEffect(p, r) => Handlers!Store!TakeEffect(p, r)
    BY DEF Store!TakeEffect, Handlers!Store!TakeEffect
  <1>2. \A k, e : Handlers!Store!KeyInUse(k, e) <=> Store!KeyInUse(k, e)
    BY DEF Store!KeyInUse, Handlers!Store!KeyInUse
  <1>3. Store!RowsUnchanged => Handlers!Store!RowsUnchanged
    BY DEF Store!RowsUnchanged, Handlers!Store!RowsUnchanged
  <1>4. \A c : Store!Invoke(p, c) => Handlers!Store!Invoke(p, c)
    BY DEF Store!Invoke, Handlers!Store!Invoke
  <1>5. Store!Return(p) => Handlers!Store!Return(p)
    BY DEF Store!Return, Handlers!Store!Return
  <1>6. Store!Create(p) => Handlers!Store!Create(p)
    BY <1>1, <1>2 DEF Store!Create, Handlers!Store!Create
  <1>7. Store!CreateConflict(p) => Handlers!Store!CreateConflict(p)
    BY <1>1, <1>2, <1>3 DEF Store!CreateConflict, Handlers!Store!CreateConflict
  <1>8. Store!Update(p) => Handlers!Store!Update(p)
    BY <1>1, <1>2 DEF Store!Update, Handlers!Store!Update
  <1>9. Store!Delete(p) => Handlers!Store!Delete(p)
    BY <1>1 DEF Store!Delete, Handlers!Store!Delete
  <1>10. Store!NotFound(p) => Handlers!Store!NotFound(p)
    BY <1>1 DEF Store!NotFound, Handlers!Store!NotFound
  <1>11. Store!Read(p) => Handlers!Store!Read(p)
    BY <1>1 DEF Store!Read, Handlers!Store!Read
  <1>12. Store!Fail(p) => Handlers!Store!Fail(p)
    BY <1>1, <1>3 DEF Store!Fail, Handlers!Store!Fail
  <1>13. Store!Degrade(p) => Handlers!Store!Degrade(p)
    BY DEF Store!Degrade, Handlers!Store!Degrade
  <1> QED
    BY <1>4, <1>5, <1>6, <1>7, <1>8, <1>9, <1>10, <1>11, <1>12, <1>13
    DEF StoreWork, HandlersStoreWork

LEMMA StepWork ==
    ASSUME IInv, NEW p \in Procs, Step(p)
    PROVE  StoreWork(p) \/ UNCHANGED <<table, StoreFresh, StorePhase, call, ret>>
  <1>1. CASE Reject(p) \/ AcquireFails(p) \/ Refused(p) \/ InsertExhausted(p) \/ InsertRejected(p)
               \/ UpdateRejected(p) \/ DeadlockVictim(p) \/ ConnLost(p)
    BY <1>1, RefuseStep DEF StoreWork
  <1>2. CASE Acquire(p) \/ Insert(p) \/ LockForUpdate(p) \/ LockForDelete(p) \/ PlaceKey(p)
               \/ Receive(p)
    BY <1>2, StutterStep
  <1>3. CASE Missing(p) \/ SelectNone(p) \/ DuplicateKey(p) \/ Commit(p) \/ Select(p)
               \/ ReplyLost(p)
    BY <1>3, MissingStep, DuplicateStep, CommitStep, SelectStep, ReplyLostStep DEF StoreWork
  <1> QED
    BY <1>1, <1>2, <1>3 DEF Step

(***************************************************************************)
(* The invariant: a request is in a method of the storage exactly while    *)
(* its handler waits for it.                                               *)
(***************************************************************************)
Handling == \A p \in Procs : stage[p] = "storing" <=> pc[p] # "idle"

DeployIInv ==
    /\ IInv /\ PoolInv /\ Handling
    /\ stage \in [Procs -> {"idle", "storing", "replying"}]
    /\ changes \in [Procs -> Nat]

(* Every step of the deployment is one of PostgresStorage or none of its.  *)
LEMMA DeployStepIsStorageStep ==
    ASSUME [DeployNext]_allVars PROVE [Next]_vars
  <1>1. CASE UNCHANGED allVars
    BY <1>1 DEF allVars
  <1>2. ASSUME NEW p \in Procs, NEW r \in Requests, Forward(p, r) PROVE Next
    <2>1. Handlers!Valid(r) /\ Invoke(p, Handlers!CallOf(r))
      BY <1>2 DEF Forward, Handlers!HandOver
    <2>2. Handlers!CallOf(r) \in Calls
      BY <2>1, DeploymentAssumption
    <2> QED
      BY <2>1, <2>2 DEF Next
  <1>3. ASSUME NEW p \in Procs, Serve(p) \/ Respond(p) PROVE Next
    BY <1>3 DEF Serve, Respond, Next
  <1>4. ASSUME NEW p \in Procs, NEW r \in Requests, Refuse(p, r) PROVE UNCHANGED vars
    BY <1>4 DEF Refuse
  <1>5. ASSUME NEW p \in Procs, Deliver(p) \/ Lose(p) PROVE UNCHANGED vars
    BY <1>5 DEF Deliver, Lose
  <1> QED
    BY <1>1, <1>2, <1>3, <1>4, <1>5 DEF DeployNext

LEMMA StepStaysBusy ==
    ASSUME TypeOK, NEW p \in Procs, Step(p)
    PROVE  /\ pc[p] # "idle" /\ pc'[p] # "idle"
           /\ \A q \in Procs \ {p} : pc'[q] = pc[q]
  <1>1. PICK l \in PCs : l # "idle" /\ pc[p] # "idle" /\ pc' = [pc EXCEPT ![p] = l]
    BY DEF Step, Reject, Acquire, AcquireFails, Admitted, Refused, InsertExhausted, InsertRejected,
       Insert, Missing, UpdateRejected, LockForUpdate, LockForDelete, Accepted, PlaceKey, DuplicateKey,
       AtKey, DeadlockVictim, Commit, Select, SelectNone, Receive, ConnLost, ReplyLost, GiveUp, Answer,
       Goto, PCs
  <1> QED
    BY <1>1 DEF TypeOK

LEMMA DeployInductive == DeployIInv /\ [DeployNext]_allVars => DeployIInv'
  <1> SUFFICES ASSUME DeployIInv, [DeployNext]_allVars PROVE DeployIInv'
    OBVIOUS
  <1>1. IInv' /\ PoolInv'
    BY DeployStepIsStorageStep, NextIInv, NextPoolInv DEF DeployIInv, IInv
  <1> DEFINE Rest == /\ Handling
                     /\ stage \in [Procs -> {"idle", "storing", "replying"}]
                     /\ changes \in [Procs -> Nat]
  <1>2. TypeOK /\ Rest
    BY DEF DeployIInv, IInv
  <1>3. ASSUME UNCHANGED allVars PROVE Rest'
    BY <1>2, <1>3 DEF allVars, vars, handlerVars, Handling
  <1>4. ASSUME NEW p \in Procs, NEW r \in Requests, Refuse(p, r) PROVE Rest'
    BY <1>2, <1>4 DEF Refuse, Handlers!Refuse, vars, Handling
  <1>5. ASSUME NEW p \in Procs, NEW r \in Requests, Forward(p, r) PROVE Rest'
    <2>1. pc'[p] # "idle" /\ \A q \in Procs \ {p} : pc'[q] = pc[q]
      BY <1>2, <1>5 DEF Forward, Invoke, Goto, TypeOK
    <2>2. stage' = [stage EXCEPT ![p] = "storing"] /\ changes' = changes
      BY <1>5 DEF Forward, Handlers!HandOver
    <2> QED
      BY <1>2, <2>1, <2>2 DEF Handling
  <1>6. ASSUME NEW p \in Procs, Serve(p) PROVE Rest'
    <2>1. pc[p] # "idle" /\ pc'[p] # "idle" /\ \A q \in Procs \ {p} : pc'[q] = pc[q]
      BY <1>2, <1>6, StepStaysBusy DEF Serve
    <2>2. stage' = stage /\ changes' \in [Procs -> Nat]
      BY <1>2, <1>6 DEF Serve, Handlers!Wait
    <2> QED
      BY <1>2, <2>1, <2>2 DEF Handling
  <1>7. ASSUME NEW p \in Procs, Respond(p) PROVE Rest'
    <2>1. pc'[p] = "idle" /\ \A q \in Procs \ {p} : pc'[q] = pc[q]
      BY <1>2, <1>7 DEF Respond, Close, Goto, TypeOK
    <2>2. stage' = [stage EXCEPT ![p] = "replying"] /\ changes' = changes
      BY <1>7 DEF Respond, Handlers!Render
    <2> QED
      BY <1>2, <2>1, <2>2 DEF Handling
  <1>8. ASSUME NEW p \in Procs, Deliver(p) \/ Lose(p) PROVE Rest'
    <2>1. /\ stage[p] = "replying" /\ stage' = [stage EXCEPT ![p] = "idle"]
          /\ changes' = [changes EXCEPT ![p] = 0] /\ pc' = pc
      BY <1>8 DEF Deliver, Lose, Handlers!Deliver, Handlers!Lose, Handlers!Done, vars
    <2>2. pc[p] = "idle"
      BY <1>2, <2>1 DEF Handling
    <2>3. \A q \in Procs : stage'[q] = "storing" <=> pc[q] # "idle"
      BY <1>2, <2>1, <2>2 DEF Handling
    <2>4. changes' \in [Procs -> Nat]
      BY <1>2, <2>1
    <2> QED
      BY <1>2, <2>1, <2>3, <2>4 DEF Handling
  <1>9. Rest'
    BY <1>3, <1>4, <1>5, <1>6, <1>7, <1>8 DEF DeployNext
  <1> QED
    BY <1>1, <1>9 DEF DeployIInv

LEMMA DeployInvariance == DeploySpec => []DeployIInv
  <1>1. DeployInit => DeployIInv
    BY InitIInv, InitPoolInv DEF DeployInit, DeployIInv, Handling, Init
  <1> QED
    BY <1>1, DeployInductive, PTL DEF DeploySpec

(* Composed with the handlers, PostgresStorage takes no step it does not   *)
(* take by itself: all its theorems hold here.                             *)
THEOREM StorageKept == DeploySpec => Spec
  <1>1. DeployInit => Init
    BY DEF DeployInit
  <1> QED
    BY <1>1, DeployStepIsStorageStep, PTL DEF DeploySpec, Spec

(***************************************************************************)
(* The handlers over Postgres implement the handlers over the promise.     *)
(***************************************************************************)
LEMMA DeployInitRefines == DeployInit => Handlers!Init
  <1>1. Init => Handlers!Store!Init
    BY InitRefines, SameHandlerData DEF Store!Init, Handlers!Store!Init
  <1> QED
    BY <1>1 DEF DeployInit, Handlers!Init

LEMMA ServeRefines ==
    ASSUME DeployIInv, NEW p \in Procs, Serve(p)
    PROVE  Handlers!StoreStep(p) \/ UNCHANGED Handlers!vars
  <1>1. IInv /\ Step(p) /\ Handlers!Wait(p) /\ changes \in [Procs -> Nat]
    BY DEF Serve, DeployIInv
  <1>2. CASE StoreWork(p)
    <2>1. HandlersStoreWork(p)
      BY <1>2, SameSteps
    <2> QED
      BY <1>1, <2>1 DEF HandlersStoreWork, Handlers!StoreStep
  <1>3. CASE UNCHANGED <<table, StoreFresh, StorePhase, call, ret>>
    <2>1. changes' = changes
      BY <1>1, <1>3 DEF Handlers!Wait
    <2> QED
      BY <1>1, <1>3, <2>1 DEF Handlers!Wait, Handlers!vars
  <1> QED
    BY <1>1, <1>2, <1>3, StepWork

LEMMA DeployNextRefines == DeployIInv /\ [DeployNext]_allVars => [Handlers!Next]_Handlers!vars
  <1> SUFFICES ASSUME DeployIInv, [DeployNext]_allVars
               PROVE  Handlers!Next \/ UNCHANGED Handlers!vars
    OBVIOUS
  <1>0. IInv
    BY DEF DeployIInv
  <1>1. ASSUME UNCHANGED allVars PROVE UNCHANGED Handlers!vars
    BY <1>1 DEF allVars, vars, handlerVars, Handlers!vars, StoreFresh, StorePhase
  <1>2. ASSUME NEW p \in Procs, NEW r \in Requests, Refuse(p, r) PROVE Handlers!Next
    BY <1>2 DEF Refuse, Handlers!Next
  <1>3. ASSUME NEW p \in Procs, NEW r \in Requests, Forward(p, r) PROVE Handlers!Next
    <2>1. Handlers!HandOver(p, r) /\ Invoke(p, Handlers!CallOf(r))
      BY <1>3 DEF Forward
    <2>2. Handlers!CallOf(r) \in Calls
      BY <2>1, DeploymentAssumption DEF Handlers!HandOver
    <2>3. Handlers!Store!Invoke(p, Handlers!CallOf(r))
      BY <1>0, <2>1, <2>2, InvokeStep, SameSteps
    <2> QED
      BY <2>1, <2>3 DEF Handlers!Forward, Handlers!Next
  <1>4. ASSUME NEW p \in Procs, Serve(p) PROVE Handlers!Next \/ UNCHANGED Handlers!vars
    BY <1>4, ServeRefines DEF Handlers!Next
  <1>5. ASSUME NEW p \in Procs, Respond(p) PROVE Handlers!Next
    <2>1. Handlers!Store!Return(p) /\ Handlers!Render(p)
      BY <1>0, <1>5, CloseStep, SameSteps DEF Respond
    <2> QED
      BY <2>1 DEF Handlers!Respond, Handlers!Next
  <1>6. ASSUME NEW p \in Procs, Deliver(p) \/ Lose(p) PROVE Handlers!Next
    BY <1>6 DEF Deliver, Lose, Handlers!Next
  <1> QED
    BY <1>1, <1>2, <1>3, <1>4, <1>5, <1>6 DEF DeployNext

(* The handlers over Postgres behave like the handlers over a storage in   *)
(* which every call takes effect in one step.                              *)
THEOREM ServiceImplemented == DeploySpec => ServiceSpec
  BY DeployInitRefines, DeployNextRefines, DeployInvariance, PTL
  DEF DeploySpec, ServiceSpec, Handlers!Spec

(* What Service assumes of its constants, under which its theorems hold.   *)
LEMMA HandlersAssumptions ==
    /\ /\ Env \in {"dev", "prod"}
       /\ MaxInteger \in Nat \ {0}
       /\ NoRow \notin Handlers!Row
       /\ NoValue \notin Nat \cup Services
       /\ Calls \subseteq Handlers!Call
    /\ /\ Requests \subseteq Handlers!Request
       /\ Absent # Malformed
       /\ {Absent, Malformed} \cap (Services \cup Users \cup Handlers!Date \cup Int) = {}
       /\ NilUser \in Users
       /\ MaxInt \in Nat
    /\ \A r \in Requests : Handlers!Valid(r) => Handlers!CallOf(r) \in Calls
  <1>1. Handlers!Row = Row /\ Handlers!Date = Date
    <2>1. Handlers!LastYear = LastYear
      BY SMT DEF Handlers!LastYear, LastYear
    <2>2. Handlers!Years = Years
      BY <2>1 DEF Handlers!Years, Years
    <2>3. Handlers!Day = Day
      BY <2>2 DEF Handlers!Day, Day, Handlers!LengthOf, LengthOf
    <2> QED
      BY <2>3 DEF Handlers!Row, Row, Handlers!ColumnInt, ColumnInt, Handlers!Date, Date
  <1>2. Handlers!Call = Call
    BY <1>1 DEF Handlers!Call, Call, Handlers!CreateCall, CreateCall, Handlers!UpdateCall, UpdateCall,
       Handlers!IdCall, IdCall, Handlers!ListCall, ListCall, Handlers!FilterCall, FilterCall
  <1> QED
    BY <1>1, <1>2, DataAssumption, DeploymentAssumption

(* What statuses and totals tell, and what acknowledged creates promise,   *)
(* is true of the table of Postgres.                                       *)
THEOREM PromisesKept ==
    DeploySpec => /\ []Handlers!StatusTellsEffect
                  /\ []Handlers!Acknowledged
                  /\ []Handlers!StoredRowsSane
                  /\ []Handlers!TotalAsAsked
                  /\ Handlers!TotalExact
                  /\ Handlers!TotalNotNegative
  BY HandlersAssumptions, ServiceImplemented, Handlers!StatusHonest, Handlers!AcknowledgedStay,
     Handlers!RowsSane, Handlers!TotalsAsAsked, Handlers!TotalsExact, Handlers!TotalsNotNegative,
     PTL DEF ServiceSpec

(* While the table of Postgres has few enough rows, 60 at the real widths, *)
(* every total told is the sum of what the rows read cost, whatever years  *)
(* and prices they have, and none is negative.                             *)
THEOREM TotalsOfFewRows ==
    DeploySpec /\ []Handlers!FewRows => [][Handlers!SumTold]_Handlers!vars
  BY HandlersAssumptions, ServiceImplemented, Handlers!FewRowsTotals, PTL DEF ServiceSpec

(* A request that is being answered, however slowly, keeps nothing of the  *)
(* database from others.                                                   *)
THEOREM Released == DeploySpec => []RepliesHoldNothing
  <1>1. DeployIInv => RepliesHoldNothing
    <2> SUFFICES ASSUME DeployIInv, NEW p \in Procs, stage[p] # "storing"
                 PROVE  p \notin conns /\ wr[p] = NoWrite /\ \A q \in Procs : p \notin WaitsFor(q)
      BY DEF RepliesHoldNothing
    <2>1. pc[p] = "idle" /\ IInv /\ PoolInv
      BY DEF DeployIInv, Handling
    <2>2. p \notin conns
      BY <2>1 DEF PoolInv, PoolAccounted
    <2>3. wr[p] = NoWrite
      BY <2>1 DEF IInv, WritesSound, WritesInProgress
    <2>4. p \notin WaitsFor(p)
      BY <2>1 DEF WaitsFor
    <2>5. ASSUME NEW q \in Procs \ {p} PROVE p \notin WaitsFor(q)
      BY <2>1, WaitedFor
    <2> QED
      BY <2>2, <2>3, <2>4, <2>5
  <1> QED
    BY <1>1, DeployInvariance, PTL

(***************************************************************************)
(* Not found.                                                              *)
(***************************************************************************)
LEMMA NotFoundReplies ==
    ASSUME IInv, NEW q \in Procs, Step(q) \/ Close(q),
           NEW p \in Procs, ret[p].err # "notfound", ret'[p].err = "notfound"
    PROVE  ~Live(table, call[p].id)
  <1> DEFINE Answered == \E r : ret' = [ret EXCEPT ![q] = r] /\ r.err # "notfound"
  <1>1. ret = [x \in Procs |-> ret[x]]
    BY DEF IInv, TypeOK
  <1>2. CASE Missing(q) \/ SelectNone(q)
    <2>1. ~Live(table, call[q].id) /\ ret' = [ret EXCEPT ![q] = Err("notfound")]
      BY <1>2 DEF Missing, SelectNone, GiveUp, Answer
    <2> QED
      BY <1>1, <2>1
  <1>3. ASSUME Answered PROVE FALSE
    BY <1>1, <1>3
  <1>4. ASSUME ret' = ret PROVE FALSE
    BY <1>4
  <1>5. CASE Reject(q) \/ AcquireFails(q) \/ Refused(q) \/ InsertExhausted(q) \/ InsertRejected(q)
               \/ UpdateRejected(q) \/ DuplicateKey(q) \/ DeadlockVictim(q) \/ ConnLost(q)
    <2>1. \E e \in {"exists", "other"} : ret' = [ret EXCEPT ![q] = Err(e)]
      BY <1>5 DEF Reject, AcquireFails, Refused, InsertExhausted, InsertRejected, UpdateRejected,
         DuplicateKey, DeadlockVictim, ConnLost, GiveUp, Answer
    <2> QED
      BY <1>3, <2>1 DEF Err
  <1>6. CASE Commit(q) \/ Select(q) \/ Close(q)
    BY <1>3, <1>6 DEF Commit, Select, Close, OkId, OkRows, NoReply
  <1>7. CASE ReplyLost(q)
    <2>1. PICK r \in BrokenReplies(call[q], ret[q]) : ret' = [ret EXCEPT ![q] = r]
      BY <1>7 DEF ReplyLost, GiveUp, Answer
    <2>2. r.err # "notfound"
      BY DEF BrokenReplies, NoReply, OkId, Err
    <2> QED
      BY <1>3, <2>1, <2>2
  <1>8. CASE Acquire(q) \/ Insert(q) \/ LockForUpdate(q) \/ LockForDelete(q) \/ PlaceKey(q)
               \/ Receive(q)
    BY <1>4, <1>8 DEF Acquire, Insert, LockForUpdate, LockForDelete, PlaceKey, Receive
  <1> QED
    BY <1>2, <1>5, <1>6, <1>7, <1>8 DEF Step

(* A client that was told of a subscription is not told it is missing      *)
(* before somebody asked to delete it.                                     *)
THEOREM Found == DeploySpec => ToldIsFound
  <1> DEFINE NotLost == \A p \in Procs :
               ret[p].err # "notfound" /\ ret'[p].err = "notfound" =>
                   \A t \in told : t[1] = call[p].id => t[1] \in deletes
  <1>1. DeployIInv /\ Handlers!Acknowledged /\ [DeployNext]_allVars => [NotLost]_allVars
    <2> SUFFICES ASSUME DeployIInv, Handlers!Acknowledged, DeployNext,
                        NEW p \in Procs, ret[p].err # "notfound", ret'[p].err = "notfound",
                        NEW t \in told, t[1] = call[p].id
                 PROVE  t[1] \in deletes
      OBVIOUS
    <2>1. ~Live(table, call[p].id)
      <3>1. ASSUME NEW q \in Procs, Serve(q) \/ Respond(q) PROVE Step(q) \/ Close(q)
        BY <3>1 DEF Serve, Respond
      <3>2. ASSUME NEW q \in Procs, NEW r \in Requests, Refuse(q, r) \/ Forward(q, r)
            PROVE  ret' = ret
        BY <3>2 DEF Refuse, Forward, Invoke, vars
      <3>3. ASSUME NEW q \in Procs, Deliver(q) \/ Lose(q) PROVE ret' = ret
        BY <3>3 DEF Deliver, Lose, vars
      <3> QED
        BY <3>1, <3>2, <3>3, NotFoundReplies DEF DeployNext, DeployIInv
    <2>2. t[1] \notin deletes => Handlers!Live(table, t[1])
      BY DEF Handlers!Acknowledged
    <2> QED
      BY <2>1, <2>2 DEF Handlers!Live, Live, Handlers!Ids, Ids
  <1> QED
    BY <1>1, DeployInvariance, PromisesKept, PTL DEF DeploySpec, ToldIsFound
=============================================================================
