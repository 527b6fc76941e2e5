--------------------------- MODULE ServiceProofs ---------------------------
(***************************************************************************)
(* Theorems about Service, for any requests, callers, ids and users.  The  *)
(* invariant follows a request through its stages: what its storage call   *)
(* has done so far is what the reply, and then the status, will say.       *)
(***************************************************************************)
EXTENDS Service, DatesProofs, SubscriptionsProofs, FiniteSetTheorems

(***************************************************************************)
(* The inductive invariant.                                                *)
(***************************************************************************)
Writes == {"create", "update", "delete"}

Typed ==
    /\ rows \in [Ids -> Row \cup {NoRow}]
    /\ fresh \subseteq Ids
    /\ phase \in [Procs -> {"idle", "called", "applied"}]
    /\ call = [p \in Procs |-> call[p]]
    /\ ret = [p \in Procs |-> ret[p]]
    /\ stage \in [Procs -> {"idle", "storing", "replying"}]
    /\ req \in [Procs -> Requests \cup {NoRequest}]
    /\ resp = [p \in Procs |-> resp[p]]
    /\ changes \in [Procs -> Nat]
    /\ told \subseteq Ids \X Users

(* Where a request is in its handler and in the storage.                   *)
InStep == \A p \in Procs :
    /\ stage[p] = "storing" <=> phase[p] # "idle"
    /\ stage[p] = "storing" =>
          /\ req[p] \in Requests /\ Valid(req[p]) /\ call[p] = CallOf(req[p])
          /\ resp[p] = NoResponse
          /\ req[p].op = "delete" => req[p].id \in deletes
    /\ stage[p] = "idle" => req[p] = NoRequest /\ resp[p] = NoResponse /\ changes[p] = 0
    /\ phase[p] = "called" => changes[p] = 0

(* What the reply, still in the storage, says of the changes made.         *)
ReplyTellsEffect == \A p \in Procs : phase[p] = "applied" =>
    /\ changes[p] <= 1
    /\ ret[p].err \in {"exists", "notfound"} => changes[p] = 0
    /\ req[p].op \notin Writes => changes[p] = 0
    /\ ret[p].err = "ok" /\ req[p].op \in {"create", "delete"} => changes[p] = 1

FreshFree == \A i \in fresh : ~Live(rows, i)

(* Nobody else has the id, and only a delete takes it away.                *)
Owned(i, u) == i \notin deletes => Live(rows, i) /\ rows[i].user = u
IdsOwned ==
    /\ \A p \in Procs : phase[p] = "applied" /\ req[p].op = "create" /\ ret[p].err = "ok" =>
          ret[p].id \in Ids /\ Owned(ret[p].id, req[p].user)
    /\ \A p \in Procs : resp[p].status = 201 =>
          resp[p].id \in Ids /\ req[p].user \in Users /\ Owned(resp[p].id, req[p].user)
    /\ Acknowledged

IInv == /\ Typed /\ InStep /\ ReplyTellsEffect /\ StatusTellsEffect
        /\ FreshFree /\ IdsOwned /\ StoredRowsSane

(***************************************************************************)
(* Requests, calls and rows.                                               *)
(***************************************************************************)
LEMMA RequestOps ==
    ASSUME NEW r \in Requests
    PROVE  r.op \in {"create", "update", "get", "delete", "list", "total"}
  BY RequestAssumption DEF Request, CreateRequest, UpdateRequest, IdRequest, ListRequest, TotalRequest

LEMMA RequestPrice ==
    ASSUME NEW r \in Requests, r.op \in {"create", "update"}
    PROVE  r.price \in Int
  BY RequestAssumption DEF Request, CreateRequest, UpdateRequest, IdRequest, ListRequest, TotalRequest

LEMMA CallArgs ==
    ASSUME NEW r \in Requests, Valid(r)
    PROVE  /\ CallOf(r).op = IF r.op = "total" THEN "filter" ELSE r.op
           /\ r.op = "create" => CallOf(r).user = r.user /\ r.user \in Users /\ CallOf(r).price >= 0
           /\ r.op = "update" => CallOf(r).price >= 0
           /\ r.op = "delete" => CallOf(r).id = r.id
  <1>1. CASE r.op = "create"
    BY <1>1 DEF Valid, ValidCreate, CallOf, CreateArgs
  <1>2. CASE r.op = "update"
    BY <1>2 DEF Valid, ValidUpdate, CallOf, UpdateArgs
  <1>3. CASE r.op \in {"get", "delete"}
    BY <1>3 DEF CallOf
  <1>4. CASE r.op = "list"
    BY <1>4 DEF CallOf, ListArgs
  <1>5. CASE r.op = "total"
    BY <1>5 DEF CallOf, FilterArgs
  <1> QED
    BY RequestOps, <1>1, <1>2, <1>3, <1>4, <1>5

LEMMA ValidIsSane ==
    ASSUME NEW row \in Row, ValidRow(row), row.price >= 0
    PROVE  SaneRow(row)
  <1>1. row.start \in Day /\ row.end \in Day /\ Later(row.end, row.start)
    BY DEF Row, ValidRow
  <1>2. ~GreaterThan(Month(row.start), Month(row.end))
    BY <1>1, LaterMonths
  <1> QED
    BY <1>1, <1>2 DEF SaneRow, AsRead

LEMMA RowIsNoNoRow == ASSUME NEW row \in Row PROVE row # NoRow
  BY DataAssumption

(***************************************************************************)
(* The storage's steps.  A quiet one leaves the rows alone.                *)
(***************************************************************************)
Others(p) ==    \* what a step of p's call leaves alone
    /\ stage' = stage /\ req' = req /\ resp' = resp /\ told' = told /\ deletes' = deletes
    /\ call' = call
    /\ \A q \in Procs \ {p} : phase'[q] = phase[q] /\ ret'[q] = ret[q] /\ changes'[q] = changes[q]
    /\ phase[p] \in {"called", "applied"} /\ phase'[p] = "applied"
    /\ phase' \in [Procs -> {"idle", "called", "applied"}]
    /\ ret' = [q \in Procs |-> ret'[q]]
    /\ changes' \in [Procs -> Nat]
    /\ req[p] \in Requests /\ Valid(req[p]) /\ call[p] = CallOf(req[p])

QuietStep(p) ==
    /\ rows' = rows /\ fresh' \subseteq fresh /\ changes'[p] = changes[p]
    /\ \/ /\ phase[p] = "called"
          /\ ret'[p].err = "ok" => req[p].op \notin Writes
       \/ /\ phase[p] = "applied"
          /\ ret'[p].err \in {"ok", "other"}
          /\ ret'[p].err = "ok" => req[p].op \notin Writes

CreateStep(p) == \E i \in fresh :
    /\ phase[p] = "called" /\ req[p].op = "create"
    /\ NewRow(call[p]) \in Row /\ ValidRow(NewRow(call[p]))
    /\ rows' = [rows EXCEPT ![i] = NewRow(call[p])]
    /\ fresh' = fresh \ {i}
    /\ ret'[p] = OkId(i)
    /\ changes'[p] = changes[p] + 1

UpdateStep(p) == \E i \in Ids :
    /\ phase[p] = "called" /\ req[p].op = "update" /\ Live(rows, i)
    /\ Merged(rows[i], call[p]) \in Row /\ ValidRow(Merged(rows[i], call[p]))
    /\ rows' = [rows EXCEPT ![i] = Merged(rows[i], call[p])]
    /\ fresh' = fresh
    /\ ret'[p] = OkId(0)
    /\ changes'[p] \in {0, 1}

DeleteStep(p) ==
    /\ phase[p] = "called" /\ req[p].op = "delete" /\ Live(rows, req[p].id)
    /\ rows' = [rows EXCEPT ![req[p].id] = NoRow]
    /\ fresh' = fresh
    /\ ret'[p] = OkId(0)
    /\ changes'[p] = changes[p] + 1

LEMMA SameStore ==
    /\ \A t, i : Store!Live(t, i) <=> Live(t, i)
    /\ \A d : Store!Column(d) = Column(d)
    /\ \A x, y : Store!Later(x, y) <=> Later(x, y)
    /\ \A c : Store!NewRow(c) = NewRow(c)
    /\ \A row, c : Store!Merged(row, c) = Merged(row, c)
    /\ \A row : Store!ValidRow(row) <=> ValidRow(row)
    /\ Store!Row = Row /\ Store!Ids = Ids
    /\ \A e : Store!Err(e) = Err(e)
    /\ \A i : Store!OkId(i) = OkId(i)
    /\ \A rs : Store!OkRows(rs) = OkRows(rs)
    /\ \A c, r : Store!BrokenReplies(c, r) = BrokenReplies(c, r)
  <1>1. /\ \A t, i : Store!Live(t, i) <=> Live(t, i)
        /\ Store!Ids = Ids
        /\ \A e : Store!Err(e) = Err(e)
        /\ \A i : Store!OkId(i) = OkId(i)
    BY DEF Store!Live, Live, Store!Ids, Ids, Store!Err, Err, Store!OkId, OkId
  <1>2. /\ \A d : Store!Column(d) = Column(d)
        /\ \A x, y : Store!Later(x, y) <=> Later(x, y)
    BY DEF Store!Column, Column, Store!Later, Later, Store!GreaterThan, GreaterThan
  <1>3. /\ \A c : Store!NewRow(c) = NewRow(c)
        /\ \A row, c : Store!Merged(row, c) = Merged(row, c)
        /\ \A row : Store!ValidRow(row) <=> ValidRow(row)
    BY <1>2 DEF Store!NewRow, NewRow, Store!Merged, Merged, Store!ZeroDate, ZeroDate,
       Store!ValidRow, ValidRow
  <1>4. Store!Row = Row
    <2>1. Store!LastYear = LastYear
      BY SMT DEF Store!LastYear, LastYear
    <2>2. Store!Years = Years
      BY <2>1 DEF Store!Years, Years
    <2>3. Store!Day = Day
      BY <2>2 DEF Store!Day, Day, Store!LengthOf, LengthOf
    <2> QED
      BY <2>3 DEF Store!Row, Row, Store!ColumnInt, ColumnInt
  <1>5. \A rs : Store!OkRows(rs) = OkRows(rs)
    BY DEF Store!OkRows, OkRows, Store!Seen, Seen, Store!AsRead, AsRead, Store!Month, Month
  <1>6. \A c, r : Store!BrokenReplies(c, r) = BrokenReplies(c, r)
    BY <1>1 DEF Store!BrokenReplies, BrokenReplies, Store!NoReply, NoReply
  <1> QED
    BY <1>1, <1>2, <1>3, <1>4, <1>5, <1>6

(* TakeEffect's part of a step.                                            *)
LEMMA Effect ==
    ASSUME IInv, NEW p \in Procs, StoreStep(p), NEW r, Store!TakeEffect(p, r)
    PROVE  Others(p) /\ phase[p] = "called" /\ ret'[p] = r /\ changes[p] = 0
  <1>1. stage[p] = "storing" /\ phase[p] = "called" /\ changes[p] = 0
    BY DEF StoreStep, Wait, Store!TakeEffect, IInv, InStep
  <1>2. /\ phase' = [phase EXCEPT ![p] = "applied"] /\ ret' = [ret EXCEPT ![p] = r] /\ call' = call
        /\ stage' = stage /\ req' = req /\ resp' = resp /\ told' = told /\ deletes' = deletes
        /\ changes' = [changes EXCEPT ![p] = IF rows' = rows THEN @ ELSE @ + 1]
    BY DEF StoreStep, Wait, Store!TakeEffect
  <1>3. req[p] \in Requests /\ Valid(req[p]) /\ call[p] = CallOf(req[p])
    BY <1>1 DEF IInv, InStep
  <1>4. phase \in [Procs -> {"idle", "called", "applied"}] /\ ret = [q \in Procs |-> ret[q]]
        /\ changes \in [Procs -> Nat]
    BY DEF IInv, Typed
  <1> QED
    BY <1>1, <1>2, <1>3, <1>4 DEF Others

(* Every step of the storage is one of the four kinds.                     *)
LEMMA StepKinds ==
    ASSUME IInv, NEW p \in Procs, StoreStep(p)
    PROVE  Others(p) /\ (QuietStep(p) \/ CreateStep(p) \/ UpdateStep(p) \/ DeleteStep(p))
  <1>0. /\ stage[p] = "storing" /\ req[p] \in Requests /\ Valid(req[p]) /\ call[p] = CallOf(req[p])
        /\ changes' = [changes EXCEPT ![p] = IF rows' = rows THEN @ ELSE @ + 1]
        /\ changes \in [Procs -> Nat]
    BY DEF StoreStep, Wait, IInv, InStep, Typed
  <1>a. req[p].op \in Writes => call[p].op = req[p].op
    BY <1>0, CallArgs DEF Writes
  <1>b. call[p].op \in Writes => req[p].op = call[p].op
    BY <1>0, CallArgs, RequestOps DEF Writes
  <1>c. rows' = rows => changes'[p] = changes[p]
    BY <1>0
  <1>d. rows' # rows => changes'[p] = changes[p] + 1
    BY <1>0
  <1>1. CASE Store!Create(p)
    <2>1. PICK i \in fresh :
             /\ rows' = [rows EXCEPT ![i] = NewRow(call[p])]
             /\ fresh' = fresh \ {i}
             /\ Store!TakeEffect(p, OkId(i))
      BY <1>1, SameStore DEF Store!Create
    <2>2. /\ call[p].op = "create" /\ NewRow(call[p]) \in Row /\ ValidRow(NewRow(call[p]))
      BY <1>1, SameStore DEF Store!Create
    <2>3. Others(p) /\ phase[p] = "called" /\ ret'[p] = OkId(i)
      BY <2>1, Effect
    <2>4. rows' # rows
      <3>1. i \in Ids /\ rows[i] = NoRow
        BY DEF IInv, Typed, FreshFree, Live
      <3>2. rows'[i] = NewRow(call[p])
        BY <2>1, <3>1 DEF IInv, Typed
      <3> QED
        BY <2>2, <3>1, <3>2, RowIsNoNoRow
    <2> QED
      BY <1>b, <1>d, <2>1, <2>2, <2>3, <2>4 DEF CreateStep, Writes
  <1>2. CASE Store!CreateConflict(p)
    <2>1. Store!TakeEffect(p, Err("exists")) /\ rows' = rows /\ fresh' \subseteq fresh
      BY <1>2, SameStore DEF Store!CreateConflict, Store!RowsUnchanged
    <2>2. Others(p) /\ phase[p] = "called" /\ ret'[p] = Err("exists")
      BY <2>1, Effect
    <2> QED
      BY <1>c, <2>1, <2>2 DEF QuietStep, Err
  <1>3. CASE Store!Update(p)
    <2> DEFINE i == call[p].id
    <2>1. /\ call[p].op = "update" /\ Live(rows, i)
          /\ Merged(rows[i], call[p]) \in Row /\ ValidRow(Merged(rows[i], call[p]))
          /\ rows' = [rows EXCEPT ![i] = Merged(rows[i], call[p])]
          /\ fresh' = fresh
          /\ Store!TakeEffect(p, OkId(0))
      BY <1>3, SameStore DEF Store!Update
    <2>2. Others(p) /\ phase[p] = "called" /\ ret'[p] = OkId(0) /\ changes[p] = 0
      BY <2>1, Effect
    <2>3. i \in Ids
      BY <2>1 DEF Live
    <2>4. changes'[p] \in {0, 1}
      BY <1>c, <1>d, <2>2
    <2>5. req[p].op = "update"
      BY <1>b, <2>1 DEF Writes
    <2> HIDE DEF i
    <2> QED
      BY <2>1, <2>2, <2>3, <2>4, <2>5 DEF UpdateStep
  <1>4. CASE Store!Delete(p)
    <2>1. /\ call[p].op = "delete" /\ Live(rows, call[p].id)
          /\ rows' = [rows EXCEPT ![call[p].id] = NoRow]
          /\ fresh' = fresh
          /\ Store!TakeEffect(p, OkId(0))
      BY <1>4, SameStore DEF Store!Delete
    <2>2. Others(p) /\ phase[p] = "called" /\ ret'[p] = OkId(0)
      BY <2>1, Effect
    <2>3. req[p].op = "delete" /\ call[p].id = req[p].id
      BY <1>0, <1>b, <2>1, CallArgs DEF Writes
    <2>4. rows' # rows
      <3>1. call[p].id \in Ids /\ rows[call[p].id] # NoRow /\ DOMAIN rows = Ids
        BY <2>1 DEF Live, IInv, Typed
      <3>2. rows'[call[p].id] = NoRow
        BY <2>1, <3>1
      <3> QED
        BY <3>1, <3>2
    <2> QED
      BY <1>d, <2>1, <2>2, <2>3, <2>4 DEF DeleteStep
  <1>5. CASE Store!NotFound(p)
    <2>1. Store!TakeEffect(p, Err("notfound")) /\ rows' = rows /\ fresh' = fresh
      BY <1>5, SameStore DEF Store!NotFound
    <2>2. Others(p) /\ phase[p] = "called" /\ ret'[p] = Err("notfound")
      BY <2>1, Effect
    <2> QED
      BY <1>c, <2>1, <2>2 DEF QuietStep, Err
  <1>6. CASE Store!Read(p)
    <2>1. PICK rs \in Store!Answers(rows, call[p]) : Store!TakeEffect(p, OkRows(rs))
      BY <1>6, SameStore DEF Store!Read
    <2>2. call[p].op \in {"get", "list", "filter"} /\ rows' = rows /\ fresh' = fresh
      BY <1>6 DEF Store!Read
    <2>3. Others(p) /\ phase[p] = "called"
      BY <2>1, Effect
    <2> QED
      BY <1>a, <1>c, <2>2, <2>3 DEF QuietStep, Writes
  <1>7. CASE Store!ReadPart(p)
    <2>1. PICK rs \in Store!Parts(rows, call[p]) : Store!TakeEffect(p, OkRows(rs))
      BY <1>7, SameStore DEF Store!ReadPart
    <2>2. call[p].op \in {"get", "list", "filter"} /\ rows' = rows /\ fresh' = fresh
      BY <1>7 DEF Store!ReadPart
    <2>3. Others(p) /\ phase[p] = "called"
      BY <2>1, Effect
    <2> QED
      BY <1>a, <1>c, <2>2, <2>3 DEF QuietStep, Writes
  <1>8. CASE Store!Fail(p)
    <2>1. Store!TakeEffect(p, Err("other")) /\ rows' = rows /\ fresh' \subseteq fresh
      BY <1>8, SameStore DEF Store!Fail, Store!RowsUnchanged
    <2>2. Others(p) /\ phase[p] = "called" /\ ret'[p] = Err("other")
      BY <2>1, Effect
    <2> QED
      BY <1>c, <2>1, <2>2 DEF QuietStep, Err
  <1>9. CASE Store!Degrade(p)
    <2>1. PICK r \in BrokenReplies(call[p], ret[p]) : ret' = [ret EXCEPT ![p] = r]
      BY <1>9, SameStore DEF Store!Degrade
    <2>2. /\ phase[p] = "applied" /\ rows' = rows /\ fresh' = fresh /\ phase' = phase /\ call' = call
          /\ stage' = stage /\ req' = req /\ resp' = resp /\ told' = told /\ deletes' = deletes
          /\ changes' = changes
      BY <1>9, <1>0 DEF Store!Degrade, StoreStep, Wait
    <2>3. r.err \in {"ok", "other"} /\ (r.err = "ok" => call[p].op \in {"list", "filter"})
      BY DEF BrokenReplies, NoReply, OkId, Err
    <2>4. Others(p) /\ ret'[p] = r
      BY <1>0, <2>1, <2>2 DEF Others, IInv, Typed
    <2> QED
      BY <1>a, <1>c, <2>2, <2>3, <2>4 DEF QuietStep, Writes
  <1> QED
    BY <1>1, <1>2, <1>3, <1>4, <1>5, <1>6, <1>7, <1>8, <1>9 DEF StoreStep, Wait

(***************************************************************************)
(* What the steps of the storage preserve.                                 *)
(***************************************************************************)
Kinds(p) == QuietStep(p) \/ CreateStep(p) \/ UpdateStep(p) \/ DeleteStep(p)

(* At most one row changes: an unassigned id gets a sane row, a live row   *)
(* gets a sane one of the same user, or a row some client asked to delete  *)
(* goes.                                                                   *)
LEMMA RowChange ==
    ASSUME IInv, NEW p \in Procs, Others(p), Kinds(p), NEW i \in Ids
    PROVE  \/ rows'[i] = rows[i]
           \/ /\ rows'[i] \in Row /\ ValidRow(rows'[i]) /\ rows'[i].price >= 0
              /\ i \notin fresh'
              /\ IF Live(rows, i) THEN rows'[i].user = rows[i].user ELSE i \in fresh
           \/ rows'[i] = NoRow /\ i \in deletes /\ i \notin fresh'
  <1>0. /\ rows \in [Ids -> Row \cup {NoRow}] /\ fresh \subseteq Ids
        /\ req[p] \in Requests /\ Valid(req[p]) /\ call[p] = CallOf(req[p])
    BY DEF IInv, Typed, Others
  <1>1. CASE QuietStep(p)
    BY <1>1 DEF QuietStep
  <1>2. CASE CreateStep(p)
    <2>1. PICK j \in fresh :
             /\ req[p].op = "create"
             /\ NewRow(call[p]) \in Row /\ ValidRow(NewRow(call[p]))
             /\ rows' = [rows EXCEPT ![j] = NewRow(call[p])] /\ fresh' = fresh \ {j}
      BY <1>2 DEF CreateStep
    <2>2. NewRow(call[p]).price >= 0
      BY <1>0, <2>1, CallArgs DEF NewRow
    <2>3. ~Live(rows, j)
      BY DEF IInv, FreshFree
    <2> QED
      BY <1>0, <2>1, <2>2, <2>3
  <1>3. CASE UpdateStep(p)
    <2>1. PICK j \in Ids :
             /\ req[p].op = "update" /\ Live(rows, j)
             /\ Merged(rows[j], call[p]) \in Row /\ ValidRow(Merged(rows[j], call[p]))
             /\ rows' = [rows EXCEPT ![j] = Merged(rows[j], call[p])] /\ fresh' = fresh
      BY <1>3 DEF UpdateStep
    <2>2. Merged(rows[j], call[p]).price >= 0 /\ Merged(rows[j], call[p]).user = rows[j].user
      BY <1>0, <2>1, CallArgs DEF Merged
    <2>3. j \notin fresh'
      BY <2>1 DEF IInv, FreshFree
    <2> QED
      BY <1>0, <2>1, <2>2, <2>3
  <1>4. CASE DeleteStep(p)
    <2>1. /\ req[p].op = "delete" /\ Live(rows, req[p].id) /\ fresh' = fresh
          /\ rows' = [rows EXCEPT ![req[p].id] = NoRow]
      BY <1>4 DEF DeleteStep
    <2>2. req[p].id \in deletes
      <3>1. phase[p] \in {"called", "applied"}
        BY DEF Others
      <3> QED
        BY <2>1, <3>1 DEF IInv, InStep
    <2>3. req[p].id \notin fresh'
      BY <2>1 DEF IInv, FreshFree
    <2> QED
      BY <1>0, <2>1, <2>2, <2>3
  <1> QED
    BY <1>1, <1>2, <1>3, <1>4 DEF Kinds

LEMMA RowsShape ==
    ASSUME IInv, NEW p \in Procs, Others(p), Kinds(p)
    PROVE  /\ rows' \in [Ids -> Row \cup {NoRow}]
           /\ fresh' \subseteq fresh
  <1>0. rows \in [Ids -> Row \cup {NoRow}]
    BY DEF IInv, Typed
  <1>1. fresh' \subseteq fresh
    BY DEF Kinds, QuietStep, CreateStep, UpdateStep, DeleteStep
  <1>2. CASE QuietStep(p)
    BY <1>0, <1>1, <1>2 DEF QuietStep
  <1>3. CASE CreateStep(p)
    BY <1>0, <1>1, <1>3 DEF CreateStep
  <1>4. CASE UpdateStep(p)
    BY <1>0, <1>1, <1>4 DEF UpdateStep
  <1>5. CASE DeleteStep(p)
    BY <1>0, <1>1, <1>5 DEF DeleteStep
  <1> QED
    BY <1>2, <1>3, <1>4, <1>5 DEF Kinds

LEMMA OwnedStays ==
    ASSUME IInv, NEW p \in Procs, Others(p), Kinds(p), NEW i \in Ids, NEW u, Owned(i, u)
    PROVE  Owned(i, u)'
  <1>1. deletes' = deletes
    BY DEF Others
  <1>2. SUFFICES ASSUME i \notin deletes PROVE Live(rows', i) /\ rows'[i].user = u
    BY <1>1 DEF Owned
  <1>3. Live(rows, i) /\ rows[i].user = u
    BY <1>2 DEF Owned
  <1>4. \/ rows'[i] = rows[i]
        \/ rows'[i] \in Row /\ rows'[i].user = rows[i].user
    BY <1>2, <1>3, RowChange
  <1> QED
    BY <1>3, <1>4, RowIsNoNoRow DEF Live

LEMMA StoreStepPreserves ==
    ASSUME IInv, NEW p \in Procs, Others(p), Kinds(p)
    PROVE  IInv'
  <1>0. /\ stage' = stage /\ req' = req /\ resp' = resp /\ told' = told /\ deletes' = deletes
        /\ call' = call
        /\ \A q \in Procs \ {p} : phase'[q] = phase[q] /\ ret'[q] = ret[q] /\ changes'[q] = changes[q]
        /\ phase[p] \in {"called", "applied"} /\ phase'[p] = "applied"
        /\ req[p] \in Requests
    BY DEF Others
  <1>s. stage[p] = "storing" /\ resp[p] = NoResponse /\ changes[p] \in Nat
    BY <1>0 DEF IInv, InStep, Typed
  <1>1. Typed'
    BY RowsShape, <1>0 DEF IInv, Typed, Others
  <1>2. InStep'
    BY <1>0, <1>s DEF IInv, InStep
  <1>3. /\ changes'[p] <= 1
        /\ ret'[p].err \in {"exists", "notfound"} => changes'[p] = 0
        /\ req[p].op \notin Writes => changes'[p] = 0
        /\ ret'[p].err = "ok" /\ req[p].op \in {"create", "delete"} => changes'[p] = 1
    <2>1. phase[p] = "called" => changes[p] = 0
      BY DEF IInv, InStep
    <2>2. phase[p] = "applied" =>
             changes[p] <= 1 /\ (req[p].op \notin Writes => changes[p] = 0)
      BY DEF IInv, ReplyTellsEffect
    <2>3. CASE QuietStep(p)
      BY <1>0, <1>s, <2>1, <2>2, <2>3 DEF QuietStep, Writes
    <2>4. CASE CreateStep(p)
      BY <1>s, <2>1, <2>4 DEF CreateStep, OkId, Writes
    <2>5. CASE UpdateStep(p)
      BY <1>s, <2>1, <2>5 DEF UpdateStep, OkId, Writes
    <2>6. CASE DeleteStep(p)
      BY <1>s, <2>1, <2>6 DEF DeleteStep, OkId, Writes
    <2> QED
      BY <2>3, <2>4, <2>5, <2>6 DEF Kinds
  <1>4. ReplyTellsEffect'
    BY <1>0, <1>3 DEF IInv, ReplyTellsEffect
  <1>5. StatusTellsEffect'
    <2>1. resp[p].status = 0
      BY <1>s DEF NoResponse, Response
    <2>2. req[p].op \in {"get", "list", "total"} => changes'[p] = 0
      BY <1>3 DEF Writes
    <2> QED
      BY <1>0, <1>3, <2>1, <2>2 DEF IInv, StatusTellsEffect
  <1>6. FreshFree'
    <2>1. ASSUME NEW i \in fresh', Live(rows', i) PROVE FALSE
      <3>1. i \in fresh /\ i \in Ids
        BY RowsShape DEF IInv, Typed
      <3>2. ~Live(rows, i)
        BY <3>1 DEF IInv, FreshFree
      <3>3. rows'[i] = rows[i]
        BY <2>1, <3>1, RowChange
      <3> QED
        BY <2>1, <3>2, <3>3 DEF Live
    <2> QED
      BY <2>1 DEF FreshFree
  <1>7. IdsOwned'
    <2>1. ASSUME NEW q \in Procs, phase'[q] = "applied", req[q].op = "create", ret'[q].err = "ok"
          PROVE  (ret[q].id \in Ids /\ Owned(ret[q].id, req[q].user))'
      <3>1. CASE q # p \/ QuietStep(p)
        <4>1. q # p
          BY <1>0, <2>1, <3>1 DEF QuietStep, Writes
        <4>2. phase[q] = "applied" /\ ret'[q] = ret[q]
          BY <1>0, <2>1, <4>1
        <4>3. ret[q].id \in Ids /\ Owned(ret[q].id, req[q].user)
          BY <2>1, <4>2 DEF IInv, IdsOwned
        <4>4. Owned(ret[q].id, req[q].user)'
          <5> DEFINE i == ret[q].id
                     u == req[q].user
          <5>1. i \in Ids /\ Owned(i, u)
            BY <4>3
          <5> HIDE DEF i, u
          <5> QED
            BY <1>0, <4>2, <5>1, OwnedStays DEF i, u, Owned
        <4> QED
          BY <4>2, <4>3, <4>4 DEF Owned
      <3>2. CASE q = p /\ CreateStep(p)
        <4>1. PICK i \in fresh :
                 /\ NewRow(call[p]) \in Row
                 /\ rows' = [rows EXCEPT ![i] = NewRow(call[p])] /\ ret'[p] = OkId(i)
          BY <3>2 DEF CreateStep
        <4>2. i \in Ids /\ rows'[i] = NewRow(call[p])
          BY <4>1 DEF IInv, Typed
        <4>3. NewRow(call[p]).user = req[p].user
          BY <2>1, <3>2, CallArgs DEF NewRow, Others
        <4>4. ret'[p].id = i
          BY <4>1 DEF OkId
        <4> QED
          BY <1>0, <3>2, <4>1, <4>2, <4>3, <4>4, RowIsNoNoRow DEF Owned, Live
      <3>3. CASE q = p /\ (UpdateStep(p) \/ DeleteStep(p))
        BY <2>1, <3>3 DEF UpdateStep, DeleteStep
      <3> QED
        BY <3>1, <3>2, <3>3 DEF Kinds
    <2>2. ASSUME NEW q \in Procs, resp[q].status = 201
          PROVE  resp[q].id \in Ids /\ req[q].user \in Users /\ Owned(resp[q].id, req[q].user)'
      <3> DEFINE i == resp[q].id
                 u == req[q].user
      <3>1. i \in Ids /\ u \in Users /\ Owned(i, u)
        BY <2>2 DEF IInv, IdsOwned
      <3>2. resp' = resp /\ req' = req
        BY <1>0
      <3> HIDE DEF i, u
      <3> QED
        BY <3>1, <3>2, OwnedStays DEF i, u, Owned
    <2>3. ASSUME NEW t \in told PROVE Owned(t[1], t[2])'
      <3> DEFINE i == t[1]
                 u == t[2]
      <3>1. i \in Ids /\ Owned(i, u)
        BY DEF IInv, Typed, IdsOwned, Acknowledged, Owned
      <3> HIDE DEF i, u
      <3> QED
        BY <3>1, OwnedStays DEF i, u
    <2>4. Acknowledged'
      BY <1>0, <2>3 DEF Acknowledged, Owned
    <2> QED
      BY <1>0, <2>1, <2>2, <2>4 DEF IdsOwned
  <1>8. StoredRowsSane'
    <2>1. ASSUME NEW i \in Ids, Live(rows', i)
          PROVE  SaneRow(rows'[i])
      <3>1. CASE rows'[i] = rows[i]
        BY <2>1, <3>1 DEF IInv, StoredRowsSane, Live
      <3>2. CASE rows'[i] \in Row /\ ValidRow(rows'[i]) /\ rows'[i].price >= 0
        BY <3>2, ValidIsSane
      <3>3. CASE rows'[i] = NoRow
        BY <2>1, <3>3 DEF Live
      <3> QED
        BY <3>1, <3>2, <3>3, RowChange
    <2> QED
      BY <2>1 DEF StoredRowsSane, Live
  <1> QED
    BY <1>1, <1>2, <1>4, <1>5, <1>6, <1>7, <1>8 DEF IInv

(***************************************************************************)
(* What the handlers' own steps preserve: they leave the rows alone.       *)
(***************************************************************************)
LEMMA InitIInv ==
    ASSUME Init
    PROVE  IInv
  <1>1. /\ rows = [i \in Ids |-> NoRow] /\ fresh = Ids /\ told = {} /\ deletes = {}
        /\ phase = [p \in Procs |-> "idle"] /\ stage = [p \in Procs |-> "idle"]
        /\ req = [p \in Procs |-> NoRequest] /\ resp = [p \in Procs |-> NoResponse]
        /\ changes = [p \in Procs |-> 0]
        /\ call = [p \in Procs |-> Store!NoCall] /\ ret = [p \in Procs |-> Store!NoReply]
    BY SameStore DEF Init, Store!Init
  <1>2. \A i \in Ids : ~Live(rows, i)
    BY <1>1 DEF Live
  <1>3. NoResponse.status = 0 /\ NoRequest.op = "none"
    BY DEF NoResponse, Response, NoRequest
  <1>4. Typed /\ InStep /\ ReplyTellsEffect
    BY <1>1 DEF Typed, InStep, ReplyTellsEffect
  <1>5. StatusTellsEffect
    BY <1>1, <1>3 DEF StatusTellsEffect
  <1>6. FreshFree /\ IdsOwned /\ StoredRowsSane
    BY <1>1, <1>2, <1>3 DEF FreshFree, IdsOwned, Acknowledged, StoredRowsSane
  <1> QED
    BY <1>4, <1>5, <1>6 DEF IInv

(* Rows and earlier promises are as before; deletes may have grown.        *)
LEMMA RowsAsBefore ==
    ASSUME IInv, rows' = rows, fresh' = fresh, deletes \subseteq deletes'
    PROVE  /\ FreshFree' /\ StoredRowsSane'
           /\ \A i, u : Owned(i, u) => Owned(i, u)'
  <1>1. FreshFree'
    BY DEF IInv, FreshFree, Live
  <1>2. StoredRowsSane'
    BY DEF IInv, StoredRowsSane, Live
  <1>3. ASSUME NEW i, NEW u, Owned(i, u) PROVE Owned(i, u)'
    BY <1>3 DEF Owned, Live
  <1> QED
    BY <1>1, <1>2, <1>3

LEMMA RefusePreserves ==
    ASSUME IInv, NEW p \in Procs, NEW r \in Requests, Refuse(p, r)
    PROVE  IInv'
  <1>1. /\ stage[p] = "idle" /\ ~Valid(r)
        /\ stage' = [stage EXCEPT ![p] = "replying"]
        /\ req' = [req EXCEPT ![p] = r]
        /\ resp' = [resp EXCEPT ![p] = Refusal]
        /\ rows' = rows /\ fresh' = fresh /\ phase' = phase /\ call' = call /\ ret' = ret
        /\ changes' = changes /\ told' = told /\ deletes' = deletes
    BY DEF Refuse
  <1>2. Typed'
    BY <1>1 DEF IInv, Typed
  <1>3. changes[p] = 0 /\ phase[p] = "idle"
    BY <1>1 DEF IInv, InStep, Typed
  <1>4. \A q \in Procs \ {p} : stage'[q] = stage[q] /\ req'[q] = req[q] /\ resp'[q] = resp[q]
    BY <1>1 DEF IInv, Typed
  <1>5. stage'[p] = "replying" /\ req'[p] = r /\ resp'[p] = Refusal
    BY <1>1 DEF IInv, Typed
  <1>6. Refusal.status = 400
    BY DEF Refusal, Response
  <1>7. InStep' /\ ReplyTellsEffect'
    BY <1>1, <1>3, <1>4, <1>5 DEF IInv, InStep, ReplyTellsEffect
  <1>8. StatusTellsEffect'
    BY <1>1, <1>3, <1>4, <1>5, <1>6 DEF IInv, StatusTellsEffect
  <1>9. IdsOwned'
    BY <1>1, <1>3, <1>4, <1>5, <1>6 DEF IInv, IdsOwned, Acknowledged, Owned, Live
  <1> QED
    BY <1>1, <1>2, <1>7, <1>8, <1>9, RowsAsBefore DEF IInv

LEMMA ForwardPreserves ==
    ASSUME IInv, NEW p \in Procs, NEW r \in Requests, Forward(p, r)
    PROVE  IInv'
  <1>1. /\ stage[p] = "idle" /\ Valid(r)
        /\ stage' = [stage EXCEPT ![p] = "storing"]
        /\ req' = [req EXCEPT ![p] = r]
        /\ phase' = [phase EXCEPT ![p] = "called"]
        /\ call' = [call EXCEPT ![p] = CallOf(r)]
        /\ deletes' = IF r.op = "delete" THEN deletes \cup {r.id} ELSE deletes
        /\ rows' = rows /\ fresh' = fresh /\ ret' = ret /\ resp' = resp
        /\ changes' = changes /\ told' = told
    BY DEF Forward, HandOver, Store!Invoke
  <1>2. Typed'
    BY <1>1 DEF IInv, Typed
  <1>3. changes[p] = 0 /\ resp[p] = NoResponse
    BY <1>1 DEF IInv, InStep
  <1>4. \A q \in Procs \ {p} :
           stage'[q] = stage[q] /\ req'[q] = req[q] /\ phase'[q] = phase[q] /\ call'[q] = call[q]
    BY <1>1 DEF IInv, Typed
  <1>5. stage'[p] = "storing" /\ req'[p] = r /\ phase'[p] = "called" /\ call'[p] = CallOf(r)
    BY <1>1 DEF IInv, Typed
  <1>6. deletes \subseteq deletes' /\ (r.op = "delete" => r.id \in deletes')
    BY <1>1
  <1>7. NoResponse.status = 0
    BY DEF NoResponse, Response
  <1>8. InStep' /\ ReplyTellsEffect'
    BY <1>1, <1>3, <1>4, <1>5, <1>6 DEF IInv, InStep, ReplyTellsEffect
  <1>9. StatusTellsEffect'
    BY <1>1, <1>3, <1>4, <1>5, <1>7 DEF IInv, StatusTellsEffect
  <1>10. IdsOwned'
    BY <1>1, <1>3, <1>4, <1>5, <1>6, <1>7 DEF IInv, IdsOwned, Acknowledged, Owned, Live
  <1> QED
    BY <1>1, <1>2, <1>6, <1>8, <1>9, <1>10, RowsAsBefore DEF IInv

(* The status of a write says what its reply says.                         *)
LEMMA StatusMeaning ==
    ASSUME NEW r \in Requests, NEW reply
    PROVE  LET resp_ == ResponseTo(r, reply)
               s == resp_.status
           IN  /\ s # 400
               /\ s \in {404, 409} => reply.err \in {"exists", "notfound"}
               /\ s = 201 => r.op = "create" /\ reply.err = "ok" /\ resp_.id = reply.id
               /\ s = 200 => r.op # "create" /\ reply.err = "ok"
  <1>1. ResponseTo(r, reply).status = StatusOf(r, reply.err)
    BY DEF ResponseTo, Response, StatusOf
  <1>2. StatusOf(r, reply.err) = 201 => ResponseTo(r, reply).id = reply.id
    BY DEF ResponseTo, Response
  <1> QED
    BY <1>1, <1>2 DEF StatusOf

LEMMA RespondPreserves ==
    ASSUME IInv, NEW p \in Procs, Respond(p)
    PROVE  IInv'
  <1> DEFINE answer == ResponseTo(req[p], ret[p])
  <1>1. /\ stage[p] = "storing" /\ phase[p] = "applied"
        /\ stage' = [stage EXCEPT ![p] = "replying"]
        /\ resp' = [resp EXCEPT ![p] = answer]
        /\ phase' = [phase EXCEPT ![p] = "idle"]
        /\ call' = [call EXCEPT ![p] = Store!NoCall]
        /\ ret' = [ret EXCEPT ![p] = Store!NoReply]
        /\ rows' = rows /\ fresh' = fresh /\ req' = req /\ changes' = changes
        /\ told' = told /\ deletes' = deletes
    BY DEF Respond, Render, Store!Return
  <1>2. Typed'
    BY <1>1 DEF IInv, Typed
  <1>3. \A q \in Procs \ {p} : /\ stage'[q] = stage[q] /\ resp'[q] = resp[q] /\ phase'[q] = phase[q]
                               /\ call'[q] = call[q] /\ ret'[q] = ret[q]
    BY <1>1 DEF IInv, Typed
  <1>4. stage'[p] = "replying" /\ resp'[p] = answer /\ phase'[p] = "idle"
    BY <1>1 DEF IInv, Typed
  <1>5. req[p] \in Requests /\ Valid(req[p])
    BY <1>1 DEF IInv, InStep
  <1>6. /\ answer.status # 400
        /\ answer.status \in {404, 409} => ret[p].err \in {"exists", "notfound"}
        /\ answer.status = 201 => req[p].op = "create" /\ ret[p].err = "ok" /\ answer.id = ret[p].id
        /\ answer.status = 200 => req[p].op # "create" /\ ret[p].err = "ok"
    BY <1>5, StatusMeaning
  <1> HIDE DEF answer
  <1>7. InStep' /\ ReplyTellsEffect'
    BY <1>1, <1>3, <1>4 DEF IInv, InStep, ReplyTellsEffect
  <1>8. /\ changes[p] <= 1
        /\ ret[p].err \in {"exists", "notfound"} => changes[p] = 0
        /\ req[p].op \in {"get", "list", "total"} => changes[p] = 0
        /\ ret[p].err = "ok" /\ req[p].op \in {"create", "delete"} => changes[p] = 1
    BY <1>1 DEF IInv, ReplyTellsEffect, Writes
  <1>9. StatusTellsEffect'
    BY <1>1, <1>3, <1>4, <1>6, <1>8 DEF IInv, StatusTellsEffect
  <1>10. answer.status = 201 => /\ answer.id \in Ids /\ req[p].user \in Users
                                /\ Owned(answer.id, req[p].user)
    BY <1>1, <1>5, <1>6, CallArgs DEF IInv, IdsOwned
  <1>11. IdsOwned'
    BY <1>1, <1>3, <1>4, <1>10 DEF IInv, IdsOwned, Acknowledged, Owned, Live
  <1> QED
    BY <1>1, <1>2, <1>7, <1>9, <1>11, RowsAsBefore DEF IInv

LEMMA DonePreserves ==
    ASSUME IInv, NEW p \in Procs, Deliver(p) \/ Lose(p)
    PROVE  IInv'
  <1>1. /\ stage[p] = "replying"
        /\ stage' = [stage EXCEPT ![p] = "idle"]
        /\ req' = [req EXCEPT ![p] = NoRequest]
        /\ resp' = [resp EXCEPT ![p] = NoResponse]
        /\ changes' = [changes EXCEPT ![p] = 0]
        /\ rows' = rows /\ fresh' = fresh /\ phase' = phase /\ call' = call /\ ret' = ret
        /\ deletes' = deletes
    BY DEF Deliver, Lose, Done
  <1>2. \/ told' = told
        \/ resp[p].status = 201 /\ told' = told \cup {<<resp[p].id, req[p].user>>}
    BY DEF Deliver, Lose
  <1>3. resp[p].status = 201 => /\ resp[p].id \in Ids /\ req[p].user \in Users
                                /\ Owned(resp[p].id, req[p].user)
    BY DEF IInv, IdsOwned
  <1>4. told' \subseteq Ids \X Users
    BY <1>2, <1>3 DEF IInv, Typed
  <1>5. Typed'
    BY <1>1, <1>4 DEF IInv, Typed
  <1>6. \A q \in Procs \ {p} : /\ stage'[q] = stage[q] /\ req'[q] = req[q]
                               /\ resp'[q] = resp[q] /\ changes'[q] = changes[q]
    BY <1>1 DEF IInv, Typed
  <1>7. /\ stage'[p] = "idle" /\ req'[p] = NoRequest /\ resp'[p] = NoResponse /\ changes'[p] = 0
        /\ phase[p] = "idle"
    BY <1>1 DEF IInv, Typed, InStep
  <1>8. NoResponse.status = 0
    BY DEF NoResponse, Response
  <1>9. InStep' /\ ReplyTellsEffect'
    BY <1>1, <1>6, <1>7 DEF IInv, InStep, ReplyTellsEffect
  <1>10. StatusTellsEffect'
    BY <1>6, <1>7, <1>8 DEF IInv, StatusTellsEffect
  <1>11. Acknowledged'
    <2>1. \A t \in told : Owned(t[1], t[2])
      BY DEF IInv, IdsOwned, Acknowledged, Owned
    <2>2. \A t \in told' : Owned(t[1], t[2])
      BY <1>2, <1>3, <2>1
    <2> QED
      BY <1>1, <2>2 DEF Acknowledged, Owned, Live
  <1>12. IdsOwned'
    BY <1>1, <1>6, <1>7, <1>8, <1>11 DEF IInv, IdsOwned, Owned, Live
  <1> QED
    BY <1>1, <1>5, <1>9, <1>10, <1>12, RowsAsBefore DEF IInv

LEMMA StutterPreserves == ASSUME IInv, UNCHANGED vars PROVE IInv'
  BY DEF vars, IInv, Typed, InStep, ReplyTellsEffect, StatusTellsEffect, FreshFree, IdsOwned,
     Owned, Acknowledged, StoredRowsSane, Live

(***************************************************************************)
(* Theorems.                                                               *)
(***************************************************************************)

(* The invariant holds in every reachable state.                           *)
THEOREM Inductive == Spec => []IInv
  <1>1. Init => IInv
    BY InitIInv
  <1>2. IInv /\ [Next]_vars => IInv'
    <2> SUFFICES ASSUME IInv, [Next]_vars PROVE IInv'
      OBVIOUS
    <2>1. CASE UNCHANGED vars
      BY <2>1, StutterPreserves
    <2>2. ASSUME NEW p \in Procs, NEW r \in Requests, Refuse(p, r) PROVE IInv'
      BY <2>2, RefusePreserves
    <2>3. ASSUME NEW p \in Procs, NEW r \in Requests, Forward(p, r) PROVE IInv'
      BY <2>3, ForwardPreserves
    <2>4. ASSUME NEW p \in Procs, StoreStep(p) PROVE IInv'
      <3>1. Others(p) /\ Kinds(p)
        BY <2>4, StepKinds DEF Kinds
      <3> QED
        BY <3>1, StoreStepPreserves
    <2>5. ASSUME NEW p \in Procs, Respond(p) PROVE IInv'
      BY <2>5, RespondPreserves
    <2>6. ASSUME NEW p \in Procs, Deliver(p) \/ Lose(p) PROVE IInv'
      BY <2>6, DonePreserves
    <2> QED
      BY <2>1, <2>2, <2>3, <2>4, <2>5, <2>6 DEF Next
  <1> QED
    BY <1>1, <1>2, PTL DEF Spec

(* The status of a response tells what the request changed.                *)
THEOREM StatusHonest == Spec => []StatusTellsEffect
  <1>1. IInv => StatusTellsEffect
    BY DEF IInv
  <1> QED
    BY <1>1, Inductive, PTL

(* An id told to a client stays its user's until a client asks to delete   *)
(* it.                                                                     *)
THEOREM AcknowledgedStay == Spec => []Acknowledged
  <1>1. IInv => Acknowledged
    BY DEF IInv, IdsOwned
  <1> QED
    BY <1>1, Inductive, PTL

(* Handlers and database together keep every stored row sane.              *)
THEOREM RowsSane == Spec => []StoredRowsSane
  <1>1. IInv => StoredRowsSane
    BY DEF IInv
  <1> QED
    BY <1>1, Inductive, PTL

(***************************************************************************)
(* What a total counts.                                                    *)
(***************************************************************************)
Asked(r, e) ==
    /\ AsWritten(r.start) => ~GreaterThan(r.start, e[2].start)
    /\ AsWritten(r.end) => GreaterThan(r.end, e[2].end)
    /\ r.user \in {Absent, NilUser} \/ e[2].user = r.user

(* A date Postgres takes as it is written is the first day of its month.   *)
LEMMA FirstOfMonth ==
    ASSUME NEW d \in Date, AsWritten(d)
    PROVE  Column(d).day = 1 /\ Column(d).month = d.month /\ Column(d).year = d.year
  <1>1. CASE Env = "prod" /\ d.year < 100
    <2>1. Month(Column(d)).year = 2001
      BY <1>1 DEF Column, Month
    <2> QED
      BY <1>1, <2>1 DEF AsWritten
  <1>2. CASE ~(Env = "prod" /\ d.year < 100)
    BY <1>2 DEF Column
  <1> QED
    BY <1>1, <1>2

(* The WHERE clause of the query made for a total selects what was asked.  *)
LEMMA MatchesAsAsked ==
    ASSUME NEW r \in Requests, Valid(r), r.op = "total",
           NEW i, NEW row \in Row, Store!Matches(row, CallOf(r))
    PROVE  Asked(r, <<i, AsRead(row)>>)
  <1>1. /\ CallOf(r).start = r.start /\ CallOf(r).end = r.end
        /\ CallOf(r).user = IF r.user = Absent THEN NilUser ELSE r.user
    BY DEF CallOf, FilterArgs
  <1>2. /\ Later(row.start, Column(r.start)) /\ Later(Column(r.end), row.end)
        /\ r.user \in {Absent, NilUser} \/ row.user = r.user
    BY <1>1, SameStore DEF Store!Matches
  <1>3. r.start \in Date /\ r.end \in Date
    BY DEF Valid, ValidTotal
  <1>4. /\ row.start.month \in Int /\ row.start.year \in Int
        /\ row.end.month \in Int /\ row.end.year \in Int /\ row.end.day \in 1..31
    BY DayFields DEF Row
  <1>5. ASSUME AsWritten(r.start) PROVE ~GreaterThan(r.start, Month(row.start))
    BY <1>2, <1>3, <1>4, <1>5, FirstOfMonth DEF Later, GreaterThan, Month, Date
  <1>6. ASSUME AsWritten(r.end) PROVE GreaterThan(r.end, Month(row.end))
    BY <1>2, <1>3, <1>4, <1>6, FirstOfMonth DEF Later, GreaterThan, Month, Date
  <1> QED
    BY <1>2, <1>5, <1>6 DEF Asked, AsRead

LEMMA StoreEntries ==
    /\ Store!Entries(rows) = Entries(rows)
    /\ Typed => \A e \in Entries(rows) : e[2] \in Row
  <1>1. Store!Entries(rows) = Entries(rows)
    BY DEF Store!Entries, Entries, Store!Ids, Ids
  <1>2. ASSUME Typed, NEW e \in Entries(rows) PROVE e[2] \in Row
    <2>1. PICK i \in Ids : rows[i] # NoRow /\ e = <<i, rows[i]>>
      BY DEF Entries
    <2> QED
      BY <1>2, <2>1 DEF Typed
  <1> QED
    BY <1>1, <1>2

(* Every answer of the storage to such a query, a broken one included.     *)
LEMMA RepliesAsAsked ==
    ASSUME IInv, TotalAsAsked, NEW p \in Procs, StoreStep(p), req[p].op = "total",
           NEW e \in ret'[p].rows
    PROVE  Asked(req[p], e)
  <1>1. req[p] \in Requests /\ Valid(req[p]) /\ call[p] = CallOf(req[p])
    BY DEF StoreStep, Wait, IInv, InStep
  <1>2. call[p].op = "filter"
    BY <1>1, CallArgs
  <1>3. CASE Store!Read(p)
    <2>1. PICK rs \in Store!Answers(rows, call[p]) : Store!TakeEffect(p, OkRows(rs))
      BY <1>3, SameStore DEF Store!Read
    <2>2. PICK f \in rs : e = <<f[1], AsRead(f[2])>>
      BY <2>1, Effect DEF OkRows, Seen
    <2>3. f[2] \in Row /\ Store!Matches(f[2], call[p])
      BY <1>2, <2>1, <2>2, StoreEntries DEF IInv, Store!Answers, Store!FilterAnswers
    <2> QED
      BY <1>1, <2>2, <2>3, MatchesAsAsked
  <1>4. CASE Store!ReadPart(p)
    <2>1. PICK rs \in Store!Parts(rows, call[p]) : Store!TakeEffect(p, OkRows(rs))
      BY <1>4, SameStore DEF Store!ReadPart
    <2>2. PICK f \in rs : e = <<f[1], AsRead(f[2])>>
      BY <2>1, Effect DEF OkRows, Seen
    <2>3. f[2] \in Row /\ Store!Matches(f[2], call[p])
      BY <1>2, <2>1, <2>2, StoreEntries DEF IInv, Store!Parts
    <2> QED
      BY <1>1, <2>2, <2>3, MatchesAsAsked
  <1>5. CASE Store!Degrade(p)
    <2>1. PICK r \in BrokenReplies(call[p], ret[p]) : ret' = [ret EXCEPT ![p] = r]
      BY <1>5, SameStore DEF Store!Degrade
    <2>2. phase[p] = "applied" /\ ret'[p] = r
      BY <1>5, <2>1 DEF Store!Degrade, IInv, Typed
    <2>3. e \in ret[p].rows
      BY <1>2, <2>1, <2>2 DEF BrokenReplies, NoReply, OkId
    <2> QED
      BY <2>2, <2>3 DEF TotalAsAsked, Asked
  <1>6. CASE Store!Fail(p)
    <2>1. Store!TakeEffect(p, Err("other"))
      BY <1>6, SameStore DEF Store!Fail
    <2>2. ret'[p] = Err("other")
      BY <2>1, Effect
    <2> QED
      BY <2>2 DEF Err
  <1> QED
    BY <1>2, <1>3, <1>4, <1>5, <1>6
    DEF StoreStep, Wait, Store!Create, Store!CreateConflict, Store!Update, Store!Delete, Store!NotFound

LEMMA NextAsAsked == IInv /\ TotalAsAsked /\ [Next]_vars => TotalAsAsked'
  <1> SUFFICES ASSUME IInv, TotalAsAsked, [Next]_vars, NEW q \in Procs,
                      req'[q].op = "total", phase'[q] = "applied", NEW e \in ret'[q].rows
               PROVE  Asked(req'[q], e)
    BY DEF TotalAsAsked, Asked
  <1>1. ASSUME req'[q] = req[q], phase'[q] = phase[q], ret'[q] = ret[q] PROVE Asked(req'[q], e)
    BY <1>1 DEF TotalAsAsked, Asked
  <1>2. CASE UNCHANGED vars
    BY <1>1, <1>2 DEF vars
  <1>3. ASSUME NEW p \in Procs, NEW r \in Requests, Refuse(p, r) PROVE Asked(req'[q], e)
    <2>1. stage[p] = "idle" /\ phase' = phase /\ ret' = ret /\ req' = [req EXCEPT ![p] = r]
      BY <1>3 DEF Refuse
    <2>2. p # q
      BY <2>1 DEF IInv, InStep
    <2> QED
      BY <1>1, <2>1, <2>2 DEF IInv, Typed
  <1>4. ASSUME NEW p \in Procs, NEW r \in Requests, Forward(p, r) PROVE Asked(req'[q], e)
    <2>1. /\ phase' = [phase EXCEPT ![p] = "called"] /\ req' = [req EXCEPT ![p] = r]
          /\ ret' = ret
      BY <1>4 DEF Forward, HandOver, Store!Invoke
    <2> QED
      BY <1>1, <2>1 DEF IInv, Typed
  <1>5. ASSUME NEW p \in Procs, StoreStep(p) PROVE Asked(req'[q], e)
    <2>1. Others(p)
      BY <1>5, StepKinds
    <2>2. CASE p = q
      BY <1>5, <2>1, <2>2, RepliesAsAsked DEF Others
    <2>3. CASE p # q
      BY <1>1, <2>1, <2>3 DEF Others
    <2> QED
      BY <2>2, <2>3
  <1>6. ASSUME NEW p \in Procs, Respond(p) PROVE Asked(req'[q], e)
    <2>1. /\ phase' = [phase EXCEPT ![p] = "idle"] /\ req' = req
          /\ ret' = [ret EXCEPT ![p] = Store!NoReply]
      BY <1>6 DEF Respond, Render, Store!Return
    <2> QED
      BY <1>1, <2>1 DEF IInv, Typed
  <1>7. ASSUME NEW p \in Procs, Deliver(p) \/ Lose(p) PROVE Asked(req'[q], e)
    <2>1. stage[p] = "replying" /\ phase' = phase /\ ret' = ret /\ req' = [req EXCEPT ![p] = NoRequest]
      BY <1>7 DEF Deliver, Lose, Done
    <2>2. p # q
      BY <2>1 DEF IInv, InStep
    <2> QED
      BY <1>1, <2>1, <2>2 DEF IInv, Typed
  <1> QED
    BY <1>2, <1>3, <1>4, <1>5, <1>6, <1>7 DEF Next

(* A total counts only subscriptions of the period and the user asked for. *)
THEOREM TotalsAsAsked == Spec => []TotalAsAsked
  <1>1. Init => TotalAsAsked
    BY DEF Init, Store!Init, TotalAsAsked
  <1> QED
    BY <1>1, Inductive, NextAsAsked, PTL DEF Spec

(***************************************************************************)
(* The sum of calculateTotalCostFiltered.  The fold that SumOf is defined  *)
(* by takes any element first; that it is the sum all the same takes       *)
(* induction over the set of rows, made here from least counterexamples.   *)
(***************************************************************************)
LEMMA LeastNumber ==
    ASSUME NEW N, N \subseteq Nat, N # {}
    PROVE  \E n \in N : \A m \in N : n <= m
  <1> DEFINE Inits == {0..n : n \in N}
  <1>1. Inits \subseteq FiniteSubsetsOf(Nat) /\ Inits # {}
    <2>1. \A n \in N : 0..n \subseteq Nat /\ IsFiniteSet(0..n)
      BY FS_Interval
    <2> QED
      BY <2>1 DEF FiniteSubsetsOf
  <1>2. PICK x \in Inits : \A y \in Inits : <<y, x>> \notin StrictSubsetOrdering(Nat)
    <2> HIDE DEF Inits
    <2> QED
      BY <1>1, WFMin, FS_StrictSubsetOrderingWellFounded
  <1>3. PICK n \in N : x = 0..n
    OBVIOUS
  <1>4. ASSUME NEW m \in N, ~(n <= m) PROVE FALSE
    <2>1. 0..m \in Inits
      OBVIOUS
    <2>2. 0..m \subseteq 0..n /\ 0..m # 0..n /\ 0..m \subseteq Nat /\ 0..n \subseteq Nat
      <3>1. m \in Int /\ n \in Int /\ m < n
        BY <1>4
      <3>2. n \in 0..n /\ n \notin 0..m
        BY <3>1, <1>4
      <3> QED
        BY <3>1, <3>2
    <2>3. <<0..m, x>> \in StrictSubsetOrdering(Nat)
      BY <1>3, <2>2 DEF StrictSubsetOrdering
    <2> QED
      BY <1>2, <2>1, <2>3
  <1> QED
    BY <1>4

Pick(s) == CHOOSE e \in s : TRUE
Summing(f, D) == f = [s \in D |-> IF s = {} THEN 0 ELSE Cost(Pick(s)[2]) + f[s \ {Pick(s)}]]

(* A finite set has such a function.  It is built one size of set at a     *)
(* time: were there a size beyond which it cannot be, take the least.      *)
LEMMA SummingExists ==
    ASSUME NEW S, IsFiniteSet(S)
    PROVE  \E f : Summing(f, SUBSET S)
  <1> DEFINE Next1(f, s) == IF s = {} THEN 0 ELSE Cost(Pick(s)[2]) + f[s \ {Pick(s)}]
             UpTo(f, k) == \A s \in SUBSET S : Cardinality(s) <= k => f[s] = Next1(f, s)
             Hard == {k \in Nat : ~\E f : UpTo(f, k)}
  <1>1. \A s \in SUBSET S : IsFiniteSet(s) /\ Cardinality(s) \in Nat /\ Cardinality(s) <= Cardinality(S)
    BY FS_Subset, FS_CardinalityType
  <1>2. \A s \in SUBSET S : s # {} =>
           /\ Pick(s) \in s /\ s \ {Pick(s)} \in SUBSET S
           /\ Cardinality(s \ {Pick(s)}) = Cardinality(s) - 1
    BY <1>1, FS_RemoveElement DEF Pick
  <1>3. Hard = {}
    <2> SUFFICES ASSUME Hard # {} PROVE FALSE
      OBVIOUS
    <2>1. PICK k \in Hard : \A m \in Hard : k <= m
      <3> HIDE DEF UpTo
      <3>1. Hard \subseteq Nat
        OBVIOUS
      <3> HIDE DEF Hard
      <3> QED
        BY <3>1, LeastNumber
    <2>2. k \in Nat /\ ~\E f : UpTo(f, k)
      OBVIOUS
    <2>3. CASE k = 0
      <3> DEFINE f == [s \in SUBSET S |-> 0]
      <3>1. ASSUME NEW s \in SUBSET S, Cardinality(s) <= 0 PROVE f[s] = Next1(f, s)
        BY <1>1, <3>1, FS_EmptySet
      <3> QED
        BY <2>2, <2>3, <3>1
    <2>4. CASE k # 0
      <3>1. k - 1 \in Nat /\ k - 1 \notin Hard
        <4>1. k - 1 \in Nat /\ ~(k <= k - 1)
          BY <2>2, <2>4
        <4> HIDE DEF Hard
        <4> QED
          BY <2>1, <4>1
      <3>2. PICK f : UpTo(f, k - 1)
        BY <3>1
      <3> DEFINE g == [s \in SUBSET S |-> IF Cardinality(s) <= k - 1 THEN f[s] ELSE Next1(f, s)]
      <3>3. ASSUME NEW s \in SUBSET S, Cardinality(s) <= k PROVE g[s] = Next1(g, s)
        <4>1. g[s] = Next1(f, s)
          BY <3>2
        <4>2. CASE s = {}
          BY <4>1, <4>2
        <4>3. CASE s # {}
          <5> DEFINE t == s \ {Pick(s)}
          <5>1. t \in SUBSET S /\ Cardinality(t) <= k - 1
            BY <1>1, <1>2, <2>2, <3>3, <4>3
          <5>2. g[t] = f[t]
            BY <5>1
          <5> HIDE DEF g
          <5> QED
            BY <4>1, <4>3, <5>2
        <4> QED
          BY <4>2, <4>3
      <3> QED
        <4> HIDE DEF g, Next1
        <4> QED
          BY <2>2, <3>3
    <2> QED
      BY <2>3, <2>4
  <1>4. PICK f : UpTo(f, Cardinality(S))
    <2>1. Cardinality(S) \in Nat
      BY FS_CardinalityType
    <2> QED
      BY <1>3, <2>1
  <1> DEFINE g == [s \in SUBSET S |-> f[s]]
  <1>5. ASSUME NEW s \in SUBSET S PROVE g[s] = Next1(g, s)
    BY <1>1, <1>2, <1>4
  <1>6. Summing(g, SUBSET S)
    BY <1>5 DEF Summing
  <1> QED
    BY <1>6

LEMMA SumOfIsSumming ==
    ASSUME NEW rs, IsFiniteSet(rs)
    PROVE  \E f : Summing(f, SUBSET rs) /\ SumOf(rs) = f[rs]
  <1>1. SumOf(rs) = (CHOOSE f : Summing(f, SUBSET rs))[rs]
    BY DEF SumOf, Summing, Pick, MapThenSumSet, MapThenFoldSet
  <1> QED
    BY <1>1, SummingExists

LEMMA SummingUnique ==
    ASSUME NEW A, NEW B, NEW f, NEW g, Summing(f, SUBSET A), Summing(g, SUBSET B),
           NEW S, IsFiniteSet(S), S \subseteq A, S \subseteq B
    PROVE  f[S] = g[S]
  <1> DEFINE Bad == {s \in SUBSET S : f[s] # g[s]}
  <1> SUFFICES ASSUME Bad # {} PROVE FALSE
    OBVIOUS
  <1>1. PICK T \in Bad : \A U \in Bad : U \subseteq T => U = T
    <2>1. Bad \subseteq SUBSET S
      OBVIOUS
    <2> HIDE DEF Bad
    <2> QED
      BY <2>1, LeastSet
  <1>2. T \in SUBSET A /\ T \in SUBSET B /\ f[T] # g[T]
    OBVIOUS
  <1>3. T # {}
    BY <1>2 DEF Summing
  <1>4. Pick(T) \in T
    BY <1>3 DEF Pick
  <1>5. f[T \ {Pick(T)}] = g[T \ {Pick(T)}]
    BY <1>1, <1>4
  <1>6. f[T] = Cost(Pick(T)[2]) + f[T \ {Pick(T)}]
    BY <1>2, <1>3 DEF Summing
  <1>7. g[T] = Cost(Pick(T)[2]) + g[T \ {Pick(T)}]
    BY <1>2, <1>3 DEF Summing
  <1> QED
    BY <1>2, <1>5, <1>6, <1>7

(* The sum taken one element at a time.                                    *)
LEMMA SumOfPick ==
    ASSUME NEW rs, IsFiniteSet(rs)
    PROVE  SumOf(rs) = IF rs = {} THEN 0 ELSE Cost(Pick(rs)[2]) + SumOf(rs \ {Pick(rs)})
  <1>1. PICK f : Summing(f, SUBSET rs) /\ SumOf(rs) = f[rs]
    BY SumOfIsSumming
  <1>2. SumOf(rs) = IF rs = {} THEN 0 ELSE Cost(Pick(rs)[2]) + f[rs \ {Pick(rs)}]
    BY <1>1 DEF Summing
  <1> DEFINE rest == rs \ {Pick(rs)}
  <1>3. IsFiniteSet(rest)
    BY FS_RemoveElement
  <1>4. PICK g : Summing(g, SUBSET rest) /\ SumOf(rest) = g[rest]
    BY <1>3, SumOfIsSumming
  <1>5. f[rest] = g[rest]
    <2>1. rest \subseteq rs
      OBVIOUS
    <2> HIDE DEF rest
    <2>2. Summing(f, SUBSET rs) /\ Summing(g, SUBSET rest) /\ rest \subseteq rest
      BY <1>1, <1>4
    <2> QED
      BY ONLY <1>3, <2>1, <2>2, SummingUnique
  <1> QED
    BY <1>2, <1>4, <1>5

Priced(rs) == \A e \in rs : Cost(e[2]) \in Int

LEMMA SumOfInt ==
    ASSUME NEW rs, IsFiniteSet(rs), Priced(rs)
    PROVE  SumOf(rs) \in Int
  <1> DEFINE Bad == {s \in SUBSET rs : SumOf(s) \notin Int}
  <1> SUFFICES ASSUME Bad # {} PROVE FALSE
    OBVIOUS
  <1>1. PICK T \in Bad : \A U \in Bad : U \subseteq T => U = T
    <2>1. Bad \subseteq SUBSET rs
      OBVIOUS
    <2> HIDE DEF Bad
    <2> QED
      BY <2>1, LeastSet
  <1>2. IsFiniteSet(T)
    BY FS_Subset
  <1>3. T # {}
    BY <1>2, SumOfPick
  <1>4. Pick(T) \in T
    BY <1>3 DEF Pick
  <1>5. SumOf(T \ {Pick(T)}) \in Int
    BY <1>1, <1>4
  <1> QED
    BY <1>2, <1>3, <1>4, <1>5, SumOfPick DEF Priced

(* The order in which the rows are added makes no difference.              *)
LEMMA SumOfAnyOrder ==
    ASSUME NEW rs, IsFiniteSet(rs), Priced(rs), NEW e \in rs
    PROVE  SumOf(rs) = Cost(e[2]) + SumOf(rs \ {e})
  <1> DEFINE Bad == {s \in SUBSET rs : \E x \in s : SumOf(s) # Cost(x[2]) + SumOf(s \ {x})}
  <1> SUFFICES ASSUME Bad # {} PROVE FALSE
    OBVIOUS
  <1>1. PICK T \in Bad : \A U \in Bad : U \subseteq T => U = T
    <2>1. Bad \subseteq SUBSET rs
      OBVIOUS
    <2> HIDE DEF Bad
    <2> QED
      BY <2>1, LeastSet
  <1>2. PICK x \in T : SumOf(T) # Cost(x[2]) + SumOf(T \ {x})
    OBVIOUS
  <1> DEFINE y == Pick(T)
  <1>3. y \in T
    BY <1>2 DEF Pick
  <1>4. IsFiniteSet(T) /\ T \in SUBSET rs
    BY FS_Subset
  <1>5. SumOf(T) = Cost(y[2]) + SumOf(T \ {y})
    BY <1>2, <1>4, SumOfPick
  <1>6. x # y
    BY <1>2, <1>5
  <1> HIDE DEF y
  <1>7. \A u \in T : \A v \in T \ {u} : SumOf(T \ {u}) = Cost(v[2]) + SumOf((T \ {u}) \ {v})
    <2> SUFFICES ASSUME NEW u \in T, NEW v \in T \ {u}
                 PROVE  SumOf(T \ {u}) = Cost(v[2]) + SumOf((T \ {u}) \ {v})
      OBVIOUS
    <2>1. T \ {u} \notin Bad
      <3> HIDE DEF Bad
      <3> QED
        BY <1>1
    <2> QED
      BY <1>4, <2>1
  <1>8. /\ SumOf(T \ {y}) = Cost(x[2]) + SumOf((T \ {y}) \ {x})
        /\ SumOf(T \ {x}) = Cost(y[2]) + SumOf((T \ {x}) \ {y})
    <2>1. x \in T \ {y} /\ y \in T \ {x}
      BY <1>3, <1>6
    <2> QED
      BY <1>7, <2>1
  <1>9. SumOf((T \ {y}) \ {x}) = SumOf((T \ {x}) \ {y})
    <2>1. (T \ {y}) \ {x} = (T \ {x}) \ {y}
      OBVIOUS
    <2> QED
      BY <2>1
  <1>10. Cost(x[2]) \in Int /\ Cost(y[2]) \in Int /\ SumOf((T \ {x}) \ {y}) \in Int
    <2>1. IsFiniteSet((T \ {x}) \ {y}) /\ Priced((T \ {x}) \ {y})
      BY <1>4, FS_Subset DEF Priced
    <2> QED
      BY <1>2, <1>3, <1>4, <2>1, SumOfInt DEF Priced
  <1> DEFINE a == Cost(x[2])
             b == Cost(y[2])
             c == SumOf((T \ {x}) \ {y})
  <1> HIDE DEF a, b, c
  <1>11. a \in Int /\ b \in Int /\ c \in Int
    BY <1>10 DEF a, b, c
  <1>12. SumOf(T) = b + (a + c) /\ SumOf(T \ {x}) = b + c /\ SumOf(T) # a + SumOf(T \ {x})
    BY <1>2, <1>5, <1>8, <1>9 DEF a, b, c
  <1> QED
    BY <1>11, <1>12

LEMMA Distribute ==
    ASSUME NEW a \in Int, NEW b \in Int, NEW c \in Int
    PROVE  /\ a * (b + c) = a * b + a * c /\ (b + c) * a = b * a + c * a
           /\ a * (b - c) = a * b - a * c /\ a * b = b * a /\ a * b \in Int
  BY SMT

(* What n rows cost, when n times each is at most MaxInt, is at most       *)
(* MaxInt.                                                                 *)
LEMMA SumOfBound ==
    ASSUME NEW rs, IsFiniteSet(rs), NEW n \in Nat, NEW m \in Nat,
           \A e \in rs : Cost(e[2]) \in Nat /\ n * Cost(e[2]) <= m
    PROVE  SumOf(rs) \in Nat /\ n * SumOf(rs) <= Cardinality(rs) * m
  <1> DEFINE Good(s) == SumOf(s) \in Nat /\ n * SumOf(s) <= Cardinality(s) * m
             Bad == {s \in SUBSET rs : ~Good(s)}
  <1> SUFFICES ASSUME Bad # {} PROVE FALSE
    OBVIOUS
  <1>1. PICK T \in Bad : \A U \in Bad : U \subseteq T => U = T
    <2>1. Bad \subseteq SUBSET rs
      OBVIOUS
    <2> HIDE DEF Bad
    <2> QED
      BY <2>1, LeastSet
  <1>2. IsFiniteSet(T) /\ Cardinality(T) \in Nat /\ T \in SUBSET rs
    BY FS_Subset, FS_CardinalityType
  <1>3. CASE T = {}
    <2>1. SumOf(T) = 0 /\ Cardinality(T) = 0
      BY <1>2, <1>3, SumOfPick, FS_EmptySet
    <2> QED
      BY <1>1, <2>1
  <1>4. CASE T # {}
    <2> DEFINE x == Pick(T)
               a == Cost(x[2])
               b == SumOf(T \ {x})
               k == Cardinality(T)
    <2>1. x \in T
      BY <1>4 DEF Pick
    <2>2. Good(T \ {x})
      <3>1. T \ {x} \notin Bad
        <4> HIDE DEF Bad, x
        <4> QED
          BY <1>1, <2>1
      <3> QED
        BY <1>2, <3>1
    <2>3. Cardinality(T \ {x}) = k - 1
      BY <1>2, <2>1, FS_RemoveElement
    <2>4. SumOf(T) = a + b
      BY <1>2, <1>4, SumOfPick
    <2>5. a \in Nat /\ n * a <= m /\ b \in Nat /\ n * b <= (k - 1) * m /\ k \in Nat
      BY <1>2, <2>1, <2>2, <2>3
    <2>6. Cardinality(T) = k
      OBVIOUS
    <2> HIDE DEF x, a, b, k
    <2>7. n * (a + b) = n * a + n * b /\ (k - 1) * m = k * m - m
      BY <2>5, Distribute
    <2>8. n * (a + b) <= k * m /\ a + b \in Nat
      <3>1. n * a \in Int /\ n * b \in Int /\ k * m \in Int
        BY <2>5, Distribute
      <3> QED
        BY <2>5, <2>7, <3>1
    <2> QED
      BY <1>1, <2>4, <2>6, <2>8
  <1> QED
    BY <1>3, <1>4

LEMMA SumOfFits ==
    ASSUME NEW rs, IsFiniteSet(rs), Fits(rs), \A e \in rs : Cost(e[2]) \in Nat
    PROVE  SumOf(rs) \in 0..MaxInt
  <1> DEFINE n == Cardinality(rs)
             s == SumOf(rs)
  <1>1. n \in Nat /\ MaxInt \in Nat
    BY FS_CardinalityType, RequestAssumption
  <1>2. s \in Nat /\ n * s <= n * MaxInt
    BY <1>1, SumOfBound DEF Fits
  <1>3. CASE n = 0
    <2>1. s = 0
      BY <1>3, FS_EmptySet, SumOfPick
    <2> QED
      BY <1>1, <2>1
  <1>4. CASE n # 0
    <2> HIDE DEF n, s
    <2>1. SUFFICES ASSUME s > MaxInt PROVE FALSE
      BY <1>1, <1>2 DEF s
    <2>2. s - MaxInt \in Nat \ {0} /\ n \in Nat \ {0}
      BY <1>1, <1>2, <1>4, <2>1
    <2>3. n * (s - MaxInt) > 0
      BY <2>2
    <2>4. n * (s - MaxInt) = n * s - n * MaxInt /\ n * s \in Int /\ n * MaxInt \in Int
      BY <1>1, <1>2, Distribute
    <2> QED
      BY <1>2, <2>3, <2>4
  <1> QED
    BY <1>3, <1>4

(* Go's int: a number that fits is left alone, and wrapping the operands   *)
(* of + and * changes nothing once the result is wrapped.                  *)
LEMMA WrappedFits ==
    ASSUME NEW n \in Int
    PROVE  /\ Wrapped(n) \in -MaxInt - 1 .. MaxInt
           /\ n \in -MaxInt - 1 .. MaxInt => Wrapped(n) = n
  <1> DEFINE w == 2 * MaxInt + 2
  <1>1. MaxInt \in Nat /\ w \in Nat \ {0}
    BY RequestAssumption
  <1>2. \A k \in Int : k % w \in 0..(w - 1) /\ (k \in 0..(w - 1) => k % w = k)
    <2> HIDE DEF w
    <2> QED
      BY <1>1
  <1>3. (n + MaxInt + 1) % w \in 0..(w - 1)
    BY <1>1, <1>2
  <1>4. n \in -MaxInt - 1 .. MaxInt => (n + MaxInt + 1) % w = n + MaxInt + 1
    <2>1. n \in -MaxInt - 1 .. MaxInt => n + MaxInt + 1 \in 0..(w - 1)
      BY <1>1
    <2>2. n + MaxInt + 1 \in Int
      BY <1>1
    <2> HIDE DEF w
    <2> QED
      BY <1>2, <2>1, <2>2
  <1> HIDE DEF w
  <1>5. Wrapped(n) = ((n + MaxInt + 1) % w) - MaxInt - 1 /\ w = 2 * MaxInt + 2
    BY DEF Wrapped, w
  <1> QED
    BY <1>1, <1>3, <1>4, <1>5

LEMMA Division ==
    ASSUME NEW a \in Int, NEW w \in Nat \ {0}
    PROVE  a \div w \in Int /\ a % w \in 0..(w - 1) /\ a = w * (a \div w) + (a % w)
  BY SMT

LEMMA SameRemainder ==
    ASSUME NEW a \in Int, NEW k \in Int, NEW w \in Nat \ {0}
    PROVE  (a + k * w) % w = a % w
  <1> DEFINE b == a + k * w
             q == b \div w
             r == b % w
             p == a \div w
             s == a % w
  <1>1. b \in Int /\ k * w \in Int
    BY Distribute
  <1>2. q \in Int /\ r \in 0..(w - 1) /\ b = w * q + r
    BY <1>1, Division
  <1>3. p \in Int /\ s \in 0..(w - 1) /\ a = w * p + s
    BY Division
  <1>4. b = a + k * w
    OBVIOUS
  <1> HIDE DEF b, q, r, p, s
  <1>5. w * ((q - p) - k) = s - r
    <2>1. w * ((q - p) - k) = w * (q - p) - w * k /\ w * (q - p) = w * q - w * p /\ w * k = k * w
      BY <1>2, <1>3, Distribute
    <2>2. w * q \in Int /\ w * p \in Int /\ k * w \in Int
      BY <1>1, <1>2, <1>3, Distribute
    <2> QED
      BY <1>2, <1>3, <1>4, <2>1, <2>2
  <1>6. s - r < w /\ r - s < w
    BY <1>2, <1>3
  <1>7. (q - p) - k = 0
    <2> DEFINE d == (q - p) - k
    <2>1. d \in Int /\ w * d < w /\ w * d > -w
      BY <1>2, <1>3, <1>5, <1>6
    <2> HIDE DEF d
    <2>2. ASSUME d >= 1 PROVE FALSE
      <3>1. w * (d - 1) >= 0 /\ w * (d - 1) = w * d - w * 1 /\ w * d \in Int
        BY <2>1, <2>2, Distribute
      <3> QED
        BY <2>1, <3>1
    <2>3. ASSUME d <= -1 PROVE FALSE
      <3>1. w * (-1 - d) >= 0 /\ w * (-1 - d) = w * (-1) - w * d /\ w * d \in Int
        BY <2>1, <2>3, Distribute
      <3> QED
        BY <2>1, <3>1
    <2> QED
      BY <2>1, <2>2, <2>3 DEF d
  <1>8. s = r
    BY <1>2, <1>3, <1>5, <1>7
  <1> QED
    BY <1>8 DEF b, r, s

LEMMA WrappedShift ==
    ASSUME NEW n \in Int
    PROVE  \E k \in Int : Wrapped(n) = n + k * (2 * MaxInt + 2)
  <1> DEFINE w == 2 * MaxInt + 2
             m == n + MaxInt + 1
  <1>1. MaxInt \in Nat /\ w \in Nat \ {0} /\ m \in Int
    BY RequestAssumption
  <1>2. m \div w \in Int /\ m % w \in Int /\ m = w * (m \div w) + (m % w)
    <2> HIDE DEF w, m
    <2> QED
      BY <1>1, Division
  <1>3. Wrapped(n) = (m % w) - MaxInt - 1 /\ m = n + MaxInt + 1
    BY DEF Wrapped
  <1> DEFINE k == -(m \div w)
  <1>4. k \in Int /\ k * w = -(w * (m \div w)) /\ w * (m \div w) \in Int
    <2> HIDE DEF w, m
    <2> QED
      BY <1>1, <1>2, Distribute
  <1>5. Wrapped(n) = n + k * w
    <2> HIDE DEF w, m, k
    <2> QED
      BY <1>1, <1>2, <1>3, <1>4
  <1> QED
    BY <1>4, <1>5

LEMMA WrappedSame ==
    ASSUME NEW n \in Int, NEW k \in Int
    PROVE  Wrapped(n + k * (2 * MaxInt + 2)) = Wrapped(n)
  <1> DEFINE w == 2 * MaxInt + 2
             m == n + MaxInt + 1
  <1>1. MaxInt \in Nat /\ w \in Nat \ {0} /\ m \in Int
    BY RequestAssumption
  <1>2. (m + k * w) % w = m % w /\ k * w \in Int
    <2> HIDE DEF w, m
    <2>1. (m + k * w) % w = m % w
      BY <1>1, SameRemainder
    <2>2. k * w \in Int
      BY <1>1
    <2> QED
      BY <2>1, <2>2
  <1>3. (n + k * w) + MaxInt + 1 = m + k * w
    <2> HIDE DEF w
    <2> QED
      BY <1>1, <1>2
  <1> QED
    BY <1>2, <1>3 DEF Wrapped

LEMMA WrapOnce ==
    ASSUME NEW a \in Int, NEW b \in Int
    PROVE  /\ Wrapped(Wrapped(a) + b) = Wrapped(a + b)
           /\ Wrapped(a + Wrapped(b)) = Wrapped(a + b)
           /\ Wrapped(a * Wrapped(b)) = Wrapped(a * b)
  <1> DEFINE w == 2 * MaxInt + 2
  <1>1. w \in Int
    BY RequestAssumption
  <1>2. PICK k \in Int : Wrapped(a) = a + k * w
    BY WrappedShift
  <1>3. PICK l \in Int : Wrapped(b) = b + l * w
    BY WrappedShift
  <1>4. k * w \in Int /\ l * w \in Int /\ a * l \in Int
    <2> HIDE DEF w
    <2> QED
      BY <1>1, Distribute
  <1>5. Wrapped(a) + b = (a + b) + k * w /\ a + Wrapped(b) = (a + b) + l * w
    <2> HIDE DEF w
    <2> QED
      BY <1>2, <1>3, <1>4
  <1>6. a * Wrapped(b) = a * b + (a * l) * w
    <2> HIDE DEF w
    <2>1. a * (b + l * w) = a * b + a * (l * w)
      BY <1>4, Distribute
    <2>2. a * (l * w) = (a * l) * w
      BY <1>1, SMT
    <2> QED
      BY <1>3, <2>1, <2>2
  <1>7. a + b \in Int /\ a * b \in Int
    BY Distribute
  <1> QED
    BY <1>4, <1>5, <1>6, <1>7, WrappedSame

(* TotalCost is what the loop of calculateTotalCostFiltered computes, which *)
(* wraps around at every * and every +, in whatever order the rows come.   *)
THEOREM TotalByLoop ==
    ASSUME NEW rs, IsFiniteSet(rs), Priced(rs)
    PROVE  IF rs = {} THEN TotalCost(rs) = 0
           ELSE \A e \in rs :
                   TotalCost(rs) = Wrapped(TotalCost(rs \ {e}) + Wrapped(Cost(e[2])))
  <1>1. CASE rs = {}
    <2>1. SumOf(rs) = 0
      BY <1>1, SumOfPick
    <2>2. 0 \in -MaxInt - 1 .. MaxInt
      BY RequestAssumption
    <2> QED
      BY <1>1, <2>1, <2>2, WrappedFits DEF TotalCost
  <1>2. ASSUME NEW e \in rs
        PROVE  TotalCost(rs) = Wrapped(TotalCost(rs \ {e}) + Wrapped(Cost(e[2])))
    <2> DEFINE a == SumOf(rs \ {e})
               b == Cost(e[2])
    <2>1. IsFiniteSet(rs \ {e}) /\ Priced(rs \ {e})
      BY FS_Subset DEF Priced
    <2>2. a \in Int /\ b \in Int
      BY <2>1, SumOfInt DEF Priced
    <2>3. SumOf(rs) = b + a
      BY SumOfAnyOrder
    <2> HIDE DEF a, b
    <2>4. Wrapped(a) \in Int
      BY <2>2, WrappedFits, RequestAssumption
    <2>5. Wrapped(Wrapped(a) + Wrapped(b)) = Wrapped(Wrapped(a) + b)
      BY <2>2, <2>4, WrapOnce
    <2>6. Wrapped(Wrapped(a) + b) = Wrapped(a + b) /\ a + b = b + a
      BY <2>2, WrapOnce
    <2>7. TotalCost(rs \ {e}) = Wrapped(a)
      BY DEF TotalCost, a
    <2> QED
      BY <2>3, <2>5, <2>6, <2>7 DEF TotalCost, b
  <1> QED
    BY <1>1, <1>2

(***************************************************************************)
(* What calls and responses hold.  A second invariant, on top of IInv.     *)
(***************************************************************************)
SaneEntries(rs) ==
    /\ rs \subseteq Ids \X Subscription /\ IsFiniteSet(rs)
    /\ \A e \in rs : e[2].price >= 0

Sane ==
    /\ ret \in [Procs -> Reply] /\ \A p \in Procs : SaneEntries(ret[p].rows)
    /\ call \in [Procs -> Call \cup {NoCall}]
    /\ resp \in [Procs -> ResponseType]
    /\ deletes \subseteq Int

LEMMA IdsFinite == IsFiniteSet(Ids) /\ Ids \subseteq Int /\ 0 \in 0..MaxInteger /\ Ids \subseteq 0..MaxInteger
  BY DataAssumption, FS_Interval DEF Ids

LEMMA SaneSubset ==
    ASSUME NEW rs, SaneEntries(rs), NEW part \in SUBSET rs
    PROVE  SaneEntries(part) /\ Cardinality(part) \in Nat /\ Cardinality(part) <= Cardinality(rs)
  BY FS_Subset, FS_CardinalityType DEF SaneEntries

LEMMA EntriesSane ==
    ASSUME Typed, StoredRowsSane
    PROVE  /\ SaneEntries(Seen(Entries(rows))) /\ IsFiniteSet(Entries(rows))
           /\ Cardinality(Seen(Entries(rows))) <= Cardinality(Entries(rows))
  <1> DEFINE live == {j \in Ids : rows[j] # NoRow}
             f == [j \in live |-> <<j, rows[j]>>]
             g == [e \in Entries(rows) |-> <<e[1], AsRead(e[2])>>]
  <1>1. IsFiniteSet(live)
    BY IdsFinite, FS_Subset
  <1>2. f \in Surjection(live, Entries(rows))
    BY DEF Surjection, Entries
  <1>3. IsFiniteSet(Entries(rows))
    BY <1>1, <1>2, FS_Surjection
  <1>4. g \in Surjection(Entries(rows), Seen(Entries(rows)))
    BY DEF Surjection, Seen
  <1>5. /\ IsFiniteSet(Seen(Entries(rows)))
        /\ Cardinality(Seen(Entries(rows))) <= Cardinality(Entries(rows))
    BY <1>3, <1>4, FS_Surjection
  <1>6. \A e \in Entries(rows) : e[1] \in Ids /\ e[2] \in Row /\ e[2].price >= 0
    BY DEF Typed, StoredRowsSane, SaneRow, Live, Entries
  <1>7. \A e \in Seen(Entries(rows)) : e \in Ids \X Subscription /\ e[2].price >= 0
    <2>1. \A row : AsRead(row).price = row.price
      BY DEF AsRead
    <2> QED
      BY <1>6, <2>1, ReadTyped DEF Seen
  <1> QED
    BY <1>3, <1>5, <1>7 DEF SaneEntries

(* What a sane row costs is a natural number.                              *)
LEMMA CostNat ==
    ASSUME NEW sub \in Subscription, sub.price >= 0
    PROVE  Cost(sub) \in Nat
  <1>1. sub.price \in Nat
    BY DataAssumption DEF Subscription, ColumnInt
  <1>2. Months(sub.start) \in Int /\ Months(sub.end) \in Int
    BY YearsBounded DEF Subscription, StoredMonth, Months
  <1>3. MonthsBetween(sub.start, sub.end) \in Nat
    BY <1>2 DEF MonthsBetween
  <1> DEFINE a == sub.price
             b == MonthsBetween(sub.start, sub.end)
  <1> HIDE DEF a, b
  <1>4. a * b \in Nat
    BY <1>1, <1>3 DEF a, b
  <1> QED
    BY <1>4 DEF a, b, Cost

LEMMA SaneCosts ==
    ASSUME NEW rs, SaneEntries(rs)
    PROVE  /\ \A e \in rs : Cost(e[2]) \in Nat
           /\ Priced(rs) /\ SumOf(rs) \in Int /\ TotalCost(rs) \in Int
  <1>1. \A e \in rs : e[2] \in Subscription /\ e[2].price >= 0
    BY DEF SaneEntries
  <1>2. \A e \in rs : Cost(e[2]) \in Nat
    BY <1>1, CostNat
  <1>3. Priced(rs) /\ IsFiniteSet(rs)
    BY <1>2 DEF Priced, SaneEntries
  <1>4. SumOf(rs) \in Int
    BY <1>3, SumOfInt
  <1>5. Wrapped(SumOf(rs)) \in -MaxInt - 1 .. MaxInt
    BY <1>4, WrappedFits
  <1> QED
    BY <1>2, <1>3, <1>4, <1>5, RequestAssumption DEF TotalCost

(* The rows a step of the storage answers with are among the stored ones,  *)
(* or among those it had answered with before the connection broke.        *)
LEMMA AnsweredRows ==
    ASSUME IInv, Sane, NEW p \in Procs, StoreStep(p)
    PROVE  /\ ret'[p] \in [err : Errors, id : 0..MaxInteger, rows : {ret'[p].rows}]
           /\ \/ ret'[p].rows \subseteq Seen(Entries(rows))
              \/ ret'[p].rows \subseteq ret[p].rows
  <1> DEFINE Goal == /\ ret'[p] \in [err : Errors, id : 0..MaxInteger, rows : {ret'[p].rows}]
                     /\ \/ ret'[p].rows \subseteq Seen(Entries(rows))
                        \/ ret'[p].rows \subseteq ret[p].rows
  <1>1. ASSUME NEW i \in fresh \cup {0}, Store!TakeEffect(p, OkId(i)) PROVE Goal
    <2>1. i \in 0..MaxInteger
      BY IdsFinite DEF IInv, Typed
    <2> QED
      BY <1>1, <2>1, Effect DEF OkId, Errors
  <1>2. ASSUME NEW e \in Errors, Store!TakeEffect(p, Err(e)) PROVE Goal
    BY <1>2, IdsFinite, Effect DEF Err, Errors
  <1>3. ASSUME NEW rs \in SUBSET Entries(rows), Store!TakeEffect(p, OkRows(rs)) PROVE Goal
    <2>1. ret'[p] = OkRows(rs) /\ Seen(rs) \subseteq Seen(Entries(rows))
      BY <1>3, Effect DEF Seen
    <2> QED
      BY <2>1, IdsFinite DEF OkRows, Errors
  <1>4. CASE Store!Create(p)
    BY <1>1, <1>4, SameStore DEF Store!Create
  <1>5. CASE Store!CreateConflict(p)
    BY <1>2, <1>5, SameStore DEF Store!CreateConflict, Errors
  <1>6. CASE Store!Update(p) \/ Store!Delete(p)
    BY <1>1, <1>6, SameStore DEF Store!Update, Store!Delete
  <1>7. CASE Store!NotFound(p)
    BY <1>2, <1>7, SameStore DEF Store!NotFound, Errors
  <1>8. CASE Store!Fail(p)
    BY <1>2, <1>8, SameStore DEF Store!Fail, Errors
  <1>9. Store!Entries(rows) = Entries(rows)
    BY DEF Store!Entries, Entries, Store!Ids, Ids
  <1>10. CASE Store!Read(p)
    <2>1. PICK rs \in Store!Answers(rows, call[p]) : Store!TakeEffect(p, OkRows(rs))
      BY <1>10, SameStore DEF Store!Read
    <2>2. rs \subseteq Entries(rows)
      <3>1. CASE call[p].op = "get"
        <4>1. Live(rows, call[p].id) /\ rs = {<<call[p].id, rows[call[p].id]>>}
          BY <2>1, <3>1, SameStore DEF Store!Answers, Store!GetAnswers
        <4> QED
          BY <4>1 DEF Live, Entries
      <3>2. CASE call[p].op = "list"
        BY <1>9, <2>1, <3>2 DEF Store!Answers, Store!ListAnswers
      <3>3. CASE call[p].op = "filter"
        BY <1>9, <2>1, <3>3 DEF Store!Answers, Store!FilterAnswers
      <3> QED
        BY <1>10, <3>1, <3>2, <3>3 DEF Store!Read
    <2> QED
      BY <1>3, <2>1, <2>2
  <1>11. CASE Store!ReadPart(p)
    <2>1. PICK rs \in Store!Parts(rows, call[p]) : Store!TakeEffect(p, OkRows(rs))
      BY <1>11, SameStore DEF Store!ReadPart
    <2>2. rs \subseteq Entries(rows)
      BY <1>9, <2>1 DEF Store!Parts
    <2> QED
      BY <1>3, <2>1, <2>2
  <1>12. CASE Store!Degrade(p)
    <2>1. PICK r \in BrokenReplies(call[p], ret[p]) : ret' = [ret EXCEPT ![p] = r]
      BY <1>12, SameStore DEF Store!Degrade
    <2>2. ret'[p] = r
      BY <2>1 DEF IInv, Typed
    <2> QED
      BY <2>1, <2>2, IdsFinite DEF BrokenReplies, NoReply, OkId, Err, Errors
  <1> QED
    BY <1>4, <1>5, <1>6, <1>7, <1>8, <1>10, <1>11, <1>12 DEF StoreStep, Wait

LEMMA ResponseTyped ==
    ASSUME NEW r \in Requests, NEW reply \in Reply, SaneEntries(reply.rows)
    PROVE  ResponseTo(r, reply) \in ResponseType
  <1>1. StatusOf(r, reply.err) \in Statuses
    BY DEF StatusOf, Statuses
  <1>2. reply.id \in 0..MaxInteger /\ reply.rows \in SUBSET (Ids \X Subscription) /\ 0 \in 0..MaxInteger
    BY IdsFinite DEF Reply
  <1>3. TotalCost(reply.rows) \in Int
    BY SaneCosts
  <1>4. \A s \in Statuses, i \in 0..MaxInteger, rs \in SUBSET (Ids \X Subscription), n \in Int :
           Response(s, i, rs, n) \in ResponseType
    BY DEF Response, ResponseType
  <1>5. CASE StatusOf(r, reply.err) = 201
    <2>1. ResponseTo(r, reply) = Response(201, reply.id, {}, 0)
      BY <1>5 DEF ResponseTo
    <2> QED
      BY <1>2, <1>4, <2>1 DEF Statuses
  <1>6. CASE StatusOf(r, reply.err) = 200 /\ r.op = "total"
    <2>1. ResponseTo(r, reply) = Response(200, 0, {}, TotalCost(reply.rows))
      BY <1>6 DEF ResponseTo
    <2> QED
      BY <1>2, <1>3, <1>4, <2>1 DEF Statuses
  <1>7. CASE StatusOf(r, reply.err) = 200 /\ r.op # "total"
    <2>1. ResponseTo(r, reply) = Response(200, 0, reply.rows, 0)
      BY <1>7 DEF ResponseTo
    <2> QED
      BY <1>2, <1>4, <2>1 DEF Statuses
  <1>8. CASE StatusOf(r, reply.err) \notin {200, 201}
    <2>1. ResponseTo(r, reply) = Response(StatusOf(r, reply.err), 0, {}, 0)
      BY <1>8 DEF ResponseTo
    <2> QED
      BY <1>1, <1>2, <1>4, <2>1
  <1> QED
    BY <1>5, <1>6, <1>7, <1>8

LEMMA NoResponseTyped == NoResponse \in ResponseType /\ Refusal \in ResponseType
  BY IdsFinite DEF NoResponse, Refusal, Response, ResponseType, Statuses

LEMMA DeleteId ==
    ASSUME NEW r \in Requests, Valid(r), r.op = "delete"
    PROVE  r.id \in Int
  <1>1. r.id \in Int \cup {Malformed}
    BY RequestAssumption DEF Request, CreateRequest, UpdateRequest, IdRequest, ListRequest, TotalRequest
  <1> QED
    BY <1>1 DEF Valid, ValidId

LEMMA StoreStepSane ==
    ASSUME IInv, Sane, NEW p \in Procs, StoreStep(p)
    PROVE  Sane'
  <1>1. Others(p)
    BY StepKinds
  <1>2. SaneEntries(ret'[p].rows)
    <2>1. SaneEntries(Seen(Entries(rows))) /\ SaneEntries(ret[p].rows)
      BY EntriesSane DEF IInv, Sane
    <2> QED
      BY <2>1, AnsweredRows, SaneSubset
  <1>3. ret'[p] \in Reply
    <2>1. ret'[p].rows \in SUBSET (Ids \X Subscription)
      BY <1>2 DEF SaneEntries
    <2> QED
      BY <2>1, AnsweredRows DEF Reply
  <1>4. \A q \in Procs : ret'[q] \in Reply /\ SaneEntries(ret'[q].rows)
    BY <1>1, <1>2, <1>3 DEF Others, Sane
  <1>5. ret' \in [Procs -> Reply]
    BY <1>1, <1>4 DEF Others
  <1> QED
    BY <1>1, <1>4, <1>5 DEF Others, Sane

LEMMA NextSane == IInv /\ Sane /\ [Next]_vars => Sane'
  <1> SUFFICES ASSUME IInv, Sane, [Next]_vars PROVE Sane'
    OBVIOUS
  <1>1. CASE UNCHANGED vars
    BY <1>1 DEF vars, Sane
  <1>2. ASSUME NEW p \in Procs, NEW r \in Requests, Refuse(p, r) PROVE Sane'
    BY <1>2, NoResponseTyped DEF Refuse, Sane
  <1>3. ASSUME NEW p \in Procs, NEW r \in Requests, Forward(p, r) PROVE Sane'
    <2>1. /\ Valid(r) /\ call' = [call EXCEPT ![p] = CallOf(r)] /\ ret' = ret /\ resp' = resp
          /\ deletes' = IF r.op = "delete" THEN deletes \cup {r.id} ELSE deletes
      BY <1>3 DEF Forward, HandOver, Store!Invoke
    <2>2. CallOf(r) \in Call
      BY <2>1, CallsAssumption, DataAssumption
    <2>3. deletes' \subseteq Int
      BY <2>1, DeleteId DEF Sane
    <2> QED
      BY <2>1, <2>2, <2>3 DEF Sane
  <1>4. ASSUME NEW p \in Procs, StoreStep(p) PROVE Sane'
    BY <1>4, StoreStepSane
  <1>5. ASSUME NEW p \in Procs, Respond(p) PROVE Sane'
    <2>1. /\ call' = [call EXCEPT ![p] = NoCall] /\ ret' = [ret EXCEPT ![p] = NoReply]
          /\ resp' = [resp EXCEPT ![p] = ResponseTo(req[p], ret[p])] /\ deletes' = deletes
          /\ stage[p] = "storing"
      BY <1>5 DEF Respond, Render, Store!Return, Store!NoCall, NoCall, Store!NoReply, NoReply,
                  Store!OkId, OkId
    <2>2. ResponseTo(req[p], ret[p]) \in ResponseType
      BY <2>1, ResponseTyped DEF IInv, InStep, Sane
    <2>3. NoReply \in Reply /\ SaneEntries(NoReply.rows)
      BY IdsFinite, FS_EmptySet DEF NoReply, OkId, Reply, Errors, SaneEntries
    <2>4. \A q \in Procs : ret'[q] \in Reply /\ SaneEntries(ret'[q].rows)
      BY <2>1, <2>3 DEF Sane
    <2> QED
      BY <2>1, <2>2, <2>3, <2>4 DEF Sane
  <1>6. ASSUME NEW p \in Procs, Deliver(p) \/ Lose(p) PROVE Sane'
    BY <1>6, NoResponseTyped DEF Deliver, Lose, Done, Sane
  <1> QED
    BY <1>1, <1>2, <1>3, <1>4, <1>5, <1>6 DEF Next

LEMMA AlwaysSane == Spec => [](IInv /\ Sane)
  <1>1. Init => Sane
    <2>1. /\ Store!NoReply \in Reply /\ SaneEntries(Store!NoReply.rows) /\ Store!NoCall = NoCall
      BY IdsFinite, FS_EmptySet
      DEF Store!NoReply, Store!OkId, Reply, Errors, SaneEntries, Store!NoCall, NoCall
    <2> QED
      BY <2>1, NoResponseTyped DEF Init, Store!Init, Sane
  <1> QED
    BY <1>1, Inductive, NextSane, PTL DEF Spec

(* Every reachable state of Service is well typed: what the storage gets   *)
(* is a call of Repo, what the client gets a documented kind of response.  *)
THEOREM TypeCorrect == Spec => []TypeOK
  <1>1. IInv /\ Sane => TypeOK
    BY DEF IInv, Typed, Sane, TypeOK
  <1> QED
    BY <1>1, AlwaysSane, PTL

(***************************************************************************)
(* What a total says.                                                      *)
(***************************************************************************)

(* The step in which a request is answered.                                *)
LEMMA AnswerStep ==
    ASSUME IInv, [Next]_vars, NEW p \in Procs, Answered(p)
    PROVE  /\ resp'[p] = ResponseTo(req[p], ret[p])
           /\ req[p] \in Requests
  <1>1. Respond(p)
    <2>1. stage' # stage
      BY DEF Answered
    <2>2. ASSUME NEW q \in Procs, NEW r \in Requests, Refuse(q, r) \/ Forward(q, r) PROVE FALSE
      BY <2>2 DEF Answered, Refuse, Forward, HandOver, IInv, Typed
    <2>3. ASSUME NEW q \in Procs, StoreStep(q) PROVE FALSE
      BY <2>1, <2>3 DEF StoreStep, Wait
    <2>4. ASSUME NEW q \in Procs, Deliver(q) \/ Lose(q) PROVE FALSE
      BY <2>4 DEF Answered, Deliver, Lose, Done, IInv, Typed
    <2>5. ASSUME NEW q \in Procs, Respond(q) PROVE q = p
      BY <2>5 DEF Answered, Respond, Render, IInv, Typed
    <2> QED
      BY <2>1, <2>2, <2>3, <2>4, <2>5 DEF Next, vars
  <1> QED
    BY <1>1 DEF Answered, Respond, Render, IInv, Typed, InStep

(* A total is exact unless Go's int wraps around.                          *)
THEOREM TotalsExact == Spec => TotalExact
  <1>1. ASSUME IInv, Sane, [Next]_vars, NEW p \in Procs, Answered(p), req[p].op = "total",
               ret[p].err = "ok", Fits(ret[p].rows)
        PROVE  resp'[p].status = 200 /\ resp'[p].total = SumOf(ret[p].rows)
    <2>1. resp'[p] = ResponseTo(req[p], ret[p])
      BY <1>1, AnswerStep
    <2>2. resp'[p] = Response(200, 0, {}, TotalCost(ret[p].rows))
      BY <1>1, <2>1 DEF ResponseTo, StatusOf
    <2>3. SumOf(ret[p].rows) \in 0..MaxInt
      <3>1. SaneEntries(ret[p].rows)
        BY <1>1 DEF Sane
      <3> QED
        BY <1>1, <3>1, SaneCosts, SumOfFits DEF SaneEntries
    <2>4. TotalCost(ret[p].rows) = SumOf(ret[p].rows)
      BY <2>3, WrappedFits, RequestAssumption DEF TotalCost
    <2> QED
      BY <2>2, <2>4 DEF Response
  <1>2. IInv /\ Sane /\ [Next]_vars =>
           [\A p \in Procs :
               Answered(p) /\ req[p].op = "total" /\ ret[p].err = "ok" /\ Fits(ret[p].rows) =>
                   resp'[p].status = 200 /\ resp'[p].total = SumOf(ret[p].rows)]_vars
    BY <1>1
  <1> QED
    BY <1>2, AlwaysSane, PTL DEF Spec, TotalExact

LEMMA FittingTotal ==
    ASSUME NEW r \in Requests, NEW reply \in Reply, SaneEntries(reply.rows), Fits(reply.rows)
    PROVE  ResponseTo(r, reply).total >= 0
  <1>1. SumOf(reply.rows) \in 0..MaxInt
    BY SaneCosts, SumOfFits DEF SaneEntries
  <1>2. TotalCost(reply.rows) >= 0
    BY <1>1, WrappedFits, RequestAssumption DEF TotalCost
  <1>3. ResponseTo(r, reply).total \in {0, TotalCost(reply.rows)}
    BY DEF ResponseTo, Response
  <1> QED
    BY <1>2, <1>3

(* No total of rows whose sum cannot wrap around is negative: none of them *)
(* has a price or a span below zero.  Without that hypothesis a total can  *)
(* be, since nothing in the code limits the number of rows.                *)
THEOREM TotalsNotNegative == Spec => TotalNotNegative
  <1>1. ASSUME IInv, Sane, [Next]_vars, NEW p \in Procs, Answered(p), Fits(ret[p].rows)
        PROVE  resp'[p].total >= 0
    BY <1>1, AnswerStep, FittingTotal DEF Sane
  <1>2. IInv /\ Sane /\ [Next]_vars =>
           [\A p \in Procs :
               Answered(p) /\ req[p].op = "total" /\ Fits(ret[p].rows) => resp'[p].total >= 0]_vars
    BY <1>1
  <1> QED
    BY <1>2, AlwaysSane, PTL DEF Spec, TotalNotNegative

(***************************************************************************)
(* What keeps totals from wrapping: few rows.  A price is as wide as its   *)
(* column, and a subscription lasts at most the years a date column holds. *)
(***************************************************************************)
DearestCost == MaxInteger * (12 * LastYear)
FewRows == Cardinality(Entries(rows)) * DearestCost <= MaxInt

(* The rows are such that no total of them wraps around.                   *)
TableFits == Fits(Seen(Entries(rows)))
RepliesFit == \A p \in Procs : Fits(ret[p].rows)

LEMMA TimesMonotone ==
    ASSUME NEW a \in Nat, NEW b \in Nat, NEW c \in Nat, a <= b
    PROVE  a * c <= b * c /\ c * a <= c * b
  <1>1. b - a \in Nat
    OBVIOUS
  <1>2. (b - a) * c >= 0
    BY <1>1
  <1>3. (b - a) * c = b * c - a * c /\ a * c \in Int /\ b * c \in Int
    OBVIOUS
  <1> QED
    BY <1>2, <1>3

LEMMA FitsSubset ==
    ASSUME NEW rs, SaneEntries(rs), Fits(rs), NEW part \in SUBSET rs
    PROVE  Fits(part)
  <1> SUFFICES ASSUME NEW e \in part PROVE Cardinality(part) * Cost(e[2]) <= MaxInt
    BY DEF Fits
  <1> DEFINE n == Cardinality(rs)
             k == Cardinality(part)
             c == Cost(e[2])
  <1>1. n \in Nat /\ k \in Nat /\ k <= n
    BY SaneSubset, FS_CardinalityType DEF SaneEntries
  <1>2. c \in Nat /\ n * c <= MaxInt /\ MaxInt \in Nat
    BY SaneCosts, RequestAssumption DEF Fits
  <1> HIDE DEF n, k, c
  <1>3. k * c <= n * c /\ n * c \in Int /\ k * c \in Int
    BY <1>1, <1>2, TimesMonotone
  <1> QED
    BY <1>2, <1>3 DEF k, c

LEMMA DearestCostBounds ==
    ASSUME NEW sub \in Subscription, sub.price >= 0
    PROVE  Cost(sub) \in Nat /\ Cost(sub) <= DearestCost
  <1> DEFINE a == sub.price
             b == MonthsBetween(sub.start, sub.end)
             m == 12 * LastYear
  <1>1. a \in Nat /\ a <= MaxInteger /\ MaxInteger \in Nat
    BY DataAssumption DEF Subscription, ColumnInt
  <1>2. b \in Nat /\ b <= m /\ m \in Nat
    <2>1. ASSUME NEW d \in StoredMonth
          PROVE  Months(d) \in Int /\ 13 <= Months(d) /\ Months(d) <= 12 * LastYear + 12
      <3>1. d.month \in 1..12 /\ d.year \in Years
        BY DEF StoredMonth
      <3> QED
        BY <3>1, YearsBounded DEF Months
    <2>2. sub.start \in StoredMonth /\ sub.end \in StoredMonth
      BY DEF Subscription
    <2>3. /\ Months(sub.start) \in Int /\ Months(sub.end) \in Int
          /\ 13 <= Months(sub.start) /\ Months(sub.start) <= 12 * LastYear + 12
          /\ 13 <= Months(sub.end) /\ Months(sub.end) <= 12 * LastYear + 12
      BY <2>1, <2>2
    <2> QED
      BY <2>3, YearsBounded DEF MonthsBetween
  <1> HIDE DEF a, b, m
  <1>3. a * b <= a * m /\ a * m <= MaxInteger * m
    BY <1>1, <1>2, TimesMonotone
  <1>4. a * b \in Int /\ a * m \in Int /\ MaxInteger * m \in Int
    BY <1>1, <1>2
  <1>5. a * b <= MaxInteger * m
    BY <1>3, <1>4
  <1> QED
    BY <1>5, CostNat DEF a, b, m, Cost, DearestCost

LEMMA FewRowsFit == Typed /\ StoredRowsSane /\ FewRows => TableFits
  <1> SUFFICES ASSUME Typed, StoredRowsSane, FewRows, NEW e \in Seen(Entries(rows))
               PROVE  Cardinality(Seen(Entries(rows))) * Cost(e[2]) <= MaxInt
    BY DEF TableFits, Fits
  <1> DEFINE n == Cardinality(Entries(rows))
             k == Cardinality(Seen(Entries(rows)))
             c == Cost(e[2])
  <1>1. n \in Nat /\ k \in Nat /\ k <= n /\ c \in Nat /\ c <= DearestCost
    BY EntriesSane, FS_CardinalityType, DearestCostBounds DEF SaneEntries
  <1>2. DearestCost \in Nat /\ MaxInt \in Nat /\ n * DearestCost <= MaxInt
    <2>1. MaxInteger \in Nat /\ 12 * LastYear \in Nat
      BY DataAssumption, YearsBounded
    <2> QED
      BY <2>1, RequestAssumption DEF DearestCost, FewRows
  <1> HIDE DEF n, k, c
  <1>3. /\ k * c <= n * c /\ n * c <= n * DearestCost
        /\ k * c \in Int /\ n * c \in Int /\ n * DearestCost \in Int
    BY <1>1, <1>2, TimesMonotone
  <1> QED
    BY <1>2, <1>3 DEF n, k, c

LEMMA NextFits ==
    ASSUME IInv, Sane, TableFits, RepliesFit, [Next]_vars
    PROVE  RepliesFit'
  <1>0. Fits({})
    BY DEF Fits
  <1>1. ASSUME UNCHANGED ret PROVE RepliesFit'
    BY <1>1 DEF RepliesFit, Fits
  <1>2. ASSUME NEW p \in Procs, StoreStep(p) PROVE RepliesFit'
    <2>1. Others(p)
      BY <1>2, StepKinds
    <2>2. Fits(ret'[p].rows)
      <3>1. /\ SaneEntries(Seen(Entries(rows))) /\ Fits(Seen(Entries(rows)))
            /\ SaneEntries(ret[p].rows) /\ Fits(ret[p].rows)
        BY EntriesSane DEF IInv, Sane, TableFits, RepliesFit
      <3> QED
        BY <1>2, <3>1, AnsweredRows, FitsSubset
    <2> QED
      BY <2>1, <2>2 DEF Others, RepliesFit
  <1>3. ASSUME NEW p \in Procs, Respond(p) PROVE RepliesFit'
    <2>1. ret' = [ret EXCEPT ![p] = Store!NoReply] /\ Store!NoReply.rows = {}
      BY <1>3 DEF Respond, Store!Return, Store!NoReply, Store!OkId
    <2> QED
      BY <1>0, <2>1 DEF IInv, Typed, RepliesFit
  <1> QED
    BY <1>1, <1>2, <1>3
    DEF Next, vars, Refuse, Forward, HandOver, Store!Invoke, Deliver, Lose, Done

LEMMA Fitting == Spec /\ []TableFits => []RepliesFit
  <1>1. Init => RepliesFit
    BY DEF Init, Store!Init, Store!NoReply, Store!OkId, RepliesFit, Fits
  <1>2. IInv /\ Sane /\ TableFits /\ RepliesFit /\ [Next]_vars => RepliesFit'
    BY NextFits
  <1> QED
    BY <1>1, <1>2, AlwaysSane, PTL DEF Spec

(* While the table has at most MaxInt / DearestCost rows, every total told *)
(* is the sum of the rows read, and so not negative.  That is 60 rows with *)
(* an INTEGER of 32 bits, an int of 64 and the DATE of Postgres, whatever  *)
(* they hold: the most expensive ones that can be stored.                  *)
SumTold == \A p \in Procs :
    Answered(p) /\ req[p].op = "total" /\ ret[p].err = "ok" =>
        resp'[p].total = SumOf(ret[p].rows) /\ resp'[p].total >= 0
THEOREM FewRowsTotals == Spec /\ []FewRows => [][SumTold]_vars
  <1>1. IInv /\ FewRows => TableFits
    BY FewRowsFit DEF IInv
  <1>2. Spec /\ []FewRows => []RepliesFit
    BY <1>1, Inductive, Fitting, PTL
  <1> DEFINE Exact == \A p \in Procs :
                 Answered(p) /\ req[p].op = "total" /\ ret[p].err = "ok" /\ Fits(ret[p].rows) =>
                     resp'[p].status = 200 /\ resp'[p].total = SumOf(ret[p].rows)
             NotNegative == \A p \in Procs :
                 Answered(p) /\ req[p].op = "total" /\ Fits(ret[p].rows) => resp'[p].total >= 0
  <1>3. RepliesFit /\ [Exact]_vars /\ [NotNegative]_vars => [SumTold]_vars
    BY DEF RepliesFit, SumTold
  <1>4. Spec => [][Exact]_vars /\ [][NotNegative]_vars
    BY TotalsExact, TotalsNotNegative DEF TotalExact, TotalNotNegative
  <1> QED
    BY <1>2, <1>3, <1>4, PTL
=============================================================================
