------------------------- MODULE SubscriptionStore -------------------------
(***************************************************************************)
(* What the storage promises to the handlers: every call takes effect at   *)
(* most once, in one step somewhere between its start and its return, on   *)
(* the rows as they are at that step.  A reply "ok", "exists" or           *)
(* "notfound" tells what happened in that step; any other error promises   *)
(* nothing, the call may have taken effect or not.  A list or a filter     *)
(* that returns "ok" may have lost rows on the way.                        *)
(***************************************************************************)
EXTENDS Subscriptions

CONSTANT Procs    \* concurrent callers, one per request being served

VARIABLES rows,   \* id -> row or NoRow
          fresh,  \* ids that may still be given to a row; one is given only once
          phase,  \* per caller: "idle", "called" or "applied"
          call,   \* per caller: its current call
          ret     \* per caller: the reply of that call, once applied

vars == <<rows, fresh, phase, call, ret>>

Init ==
    /\ rows = [i \in Ids |-> NoRow]
    /\ fresh = Ids
    /\ phase = [p \in Procs |-> "idle"]
    /\ call = [p \in Procs |-> NoCall]
    /\ ret = [p \in Procs |-> NoReply]

Invoke(p, c) ==
    /\ phase[p] = "idle"
    /\ phase' = [phase EXCEPT ![p] = "called"]
    /\ call' = [call EXCEPT ![p] = c]
    /\ UNCHANGED <<rows, fresh, ret>>

(* The step in which the call takes effect and its reply r is fixed.       *)
TakeEffect(p, r) ==
    /\ phase[p] = "called"
    /\ phase' = [phase EXCEPT ![p] = "applied"]
    /\ ret' = [ret EXCEPT ![p] = r]
    /\ UNCHANGED call

(* A failed create may have used ids up.                                   *)
RowsUnchanged == rows' = rows /\ fresh' \in SUBSET fresh

KeyInUse(key, except) ==
    \E i \in Ids : i # except /\ Live(rows, i) /\ Key(rows[i]) = key

Create(p) ==
    /\ call[p].op = "create"
    /\ NewRow(call[p]) \in Row /\ ValidRow(NewRow(call[p]))
    /\ ~KeyInUse(Key(NewRow(call[p])), 0)
    /\ \E i \in fresh :
          /\ rows' = [rows EXCEPT ![i] = NewRow(call[p])]
          /\ fresh' = fresh \ {i}
          /\ TakeEffect(p, OkId(i))

CreateConflict(p) ==
    /\ call[p].op = "create"
    /\ KeyInUse(Key(NewRow(call[p])), 0)
    /\ RowsUnchanged
    /\ TakeEffect(p, Err("exists"))

Update(p) ==
    LET c == call[p]
    IN  /\ c.op = "update"
        /\ Live(rows, c.id)
        /\ Merged(rows[c.id], c) \in Row /\ ValidRow(Merged(rows[c.id], c))
        /\ ~KeyInUse(Key(Merged(rows[c.id], c)), c.id)
        /\ rows' = [rows EXCEPT ![c.id] = Merged(rows[c.id], c)]
        /\ TakeEffect(p, OkId(0))
        /\ UNCHANGED fresh

Delete(p) ==
    /\ call[p].op = "delete"
    /\ Live(rows, call[p].id)
    /\ rows' = [rows EXCEPT ![call[p].id] = NoRow]
    /\ TakeEffect(p, OkId(0))
    /\ UNCHANGED fresh

NotFound(p) ==
    /\ call[p].op \in {"update", "delete", "get"}
    /\ ~Live(rows, call[p].id)
    /\ TakeEffect(p, Err("notfound"))
    /\ UNCHANGED <<rows, fresh>>

Read(p) ==
    /\ call[p].op \in {"get", "list", "filter"}
    /\ \E rs \in Answers(rows, call[p]) : TakeEffect(p, OkRows(rs))
    /\ UNCHANGED <<rows, fresh>>

(* The reading of the rows fails on the way, which the caller is not told. *)
ReadPart(p) ==
    /\ call[p].op \in {"list", "filter"} /\ ~Mispaired(call[p])
    /\ \E rs \in Parts(rows, call[p]) : TakeEffect(p, OkRows(rs))
    /\ UNCHANGED <<rows, fresh>>

Fail(p) ==
    /\ TakeEffect(p, Err("other"))
    /\ RowsUnchanged

(* The reply is lost after the call took effect.                           *)
Degrade(p) ==
    /\ phase[p] = "applied"
    /\ \E r \in BrokenReplies(call[p], ret[p]) : ret' = [ret EXCEPT ![p] = r]
    /\ UNCHANGED <<rows, fresh, phase, call>>

Return(p) ==
    /\ phase[p] = "applied"
    /\ phase' = [phase EXCEPT ![p] = "idle"]
    /\ call' = [call EXCEPT ![p] = NoCall]
    /\ ret' = [ret EXCEPT ![p] = NoReply]
    /\ UNCHANGED <<rows, fresh>>

Next == \E p \in Procs :
    \/ \E c \in Calls : Invoke(p, c)
    \/ Create(p) \/ CreateConflict(p) \/ Update(p) \/ Delete(p)
    \/ NotFound(p) \/ Read(p) \/ ReadPart(p) \/ Fail(p) \/ Degrade(p) \/ Return(p)

Spec == Init /\ [][Next]_vars

=============================================================================
