------------------------ MODULE SqliteStorageProofs ------------------------
(***************************************************************************)
(* Theorems about SqliteStorage, for any set of callers, calls and ids.    *)
(***************************************************************************)
EXTENDS SqliteStorage, SubscriptionsProofs, FiniteSetTheorems

(***************************************************************************)
(* The inductive invariant: what LocksHold says of each caller, and what   *)
(* its program counter says of its other variables.                        *)
(***************************************************************************)
Shape(p) ==
    /\ wr[p] = NoWrite <=> ~Writer(p)
    /\ pc[p] # "idle" => call[p] \in Calls
    /\ pc[p] \notin {"idle", "reject", "closing"} => ~Mispaired(call[p])
    /\ pc[p] = "reading" => ~Writes(p) /\ (Paged(call[p]) \/ skip[p] = 0)
    /\ pc[p] \notin {"reading", "closing"} => got[p] = {}
Sound(p) ==
    /\ Writer(p) => ChangeCurrent(p)
    /\ pc[p] = "reading" => Steady(p) /\ (Paged(call[p]) => PageRight(p))
IdsDrawn == \A i \in Ids : Live(table, i) => i <= seq

IInv ==
    /\ TypeOK
    /\ \A p \in Procs : Shape(p) /\ Sound(p)
    /\ OneWriter
    /\ UniqueSubscription
    /\ IdsDrawn

(***************************************************************************)
(* Typing.                                                                 *)
(***************************************************************************)
LEMMA OpKinds ==
    ASSUME NEW c \in Calls
    PROVE  c.op \in {"create", "update", "delete", "get", "list", "filter"}
  BY DataAssumption DEF Call, CreateCall, UpdateCall, IdCall, ListCall, FilterCall

(* A version that passes the CHECKs is a row.                              *)
LEMMA VersionIsRow ==
    ASSUME TypeOK, NEW p \in Procs, call[p] \in Calls, call[p].op \in {"create", "update"},
           call[p].op = "update" => Live(table, call[p].id)
    PROVE  /\ Fits(Version(p)) => Version(p) \in Row
           /\ call[p].op = "update" =>
                 table[call[p].id] \in Row /\ Version(p).user = table[call[p].id].user
  <1>1. CASE call[p].op = "create"
    <2>1. Fits(NewRow(call[p])) => NewRow(call[p]) \in Row
      BY <1>1, CallFields, ColumnAssumption DEF Fits, NewRow, Row, CreateCall
    <2> QED
      BY <1>1, <2>1 DEF Version
  <1>2. CASE call[p].op = "update"
    <2>1. call[p].id \in Ids /\ table[call[p].id] \in Row
      BY <1>2 DEF Live, TypeOK
    <2>2. /\ Fits(Merged(table[call[p].id], call[p])) => Merged(table[call[p].id], call[p]) \in Row
          /\ Merged(table[call[p].id], call[p]).user = table[call[p].id].user
      BY <1>2, <2>1, CallFields, ColumnAssumption
      DEF Fits, Merged, Row, UpdateCall
    <2> QED
      BY <1>2, <2>1, <2>2 DEF Version
  <1> QED
    BY <1>1, <1>2

LEMMA VersionTyped ==
    ASSUME TypeOK, NEW p \in Procs, HasTarget(p), call[p].op # "delete"
    PROVE  /\ call[p] \in Calls /\ call[p].op \in {"create", "update"}
           /\ Fits(Version(p)) => Version(p) \in Row
           /\ Target(p) \in Ids
           /\ call[p].op = "update" =>
                 table[call[p].id] \in Row /\ Version(p).user = table[call[p].id].user
  <1>1. call[p] \in Calls /\ call[p].op \in {"create", "update"}
    BY DEF TypeOK, HasTarget, MayWrite, Writes, NoCall
  <1>2. Target(p) \in Ids /\ (call[p].op = "update" => Live(table, call[p].id))
    BY <1>1 DEF HasTarget, Target, Live
  <1> QED
    BY <1>1, <1>2, VersionIsRow

LEMMA InitTypeOK == Init => TypeOK
  BY RepliesTyped, IdFacts DEF Init, TypeOK, PCs, Write, NoWrite

LEMMA GiveUpTyped ==
    ASSUME TypeOK, NEW p \in Procs, NEW r \in Reply, GiveUp(p, r)
    PROVE  TypeOK'
  <1>1. NoWrite \in Write /\ "closing" \in PCs
    BY IdFacts DEF NoWrite, Write, PCs
  <1> QED
    BY <1>1 DEF TypeOK, GiveUp, Answer, Goto, readVars

Gives(p) ==
    \/ Reject(p) \/ Fails(p) \/ Locked(p) \/ Missing(p) \/ InsertExhausted(p) \/ Rejected(p)
    \/ DuplicateKey(p) \/ BusyCommit(p) \/ EndRead(p) \/ ReadFails(p)

LEMMA GivesUp ==
    ASSUME TypeOK, NEW p \in Procs, Gives(p)
    PROVE  /\ \E r \in Reply : GiveUp(p, r)
           /\ pc[p] \notin {"idle", "closing"}
  <1>1. /\ \A e \in Errors : Err(e) \in Reply
        /\ OkRows({}) \in Reply /\ OkRows(got[p]) \in Reply
    BY RepliesTyped DEF TypeOK
  <1>2. {"other", "exists", "notfound"} \subseteq Errors
    BY DEF Errors
  <1>3. pc[p] \notin {"idle", "closing"}
    BY DEF Gives, Reject, Fails, Locked, Missing, InsertExhausted, Rejected, DuplicateKey,
       HasTarget, MayWrite, BusyCommit, EndRead, ReadFails
  <1>4. \E r \in Reply : GiveUp(p, r)
    BY <1>1, <1>2 DEF Gives, Reject, Fails, Locked, Missing, InsertExhausted, Rejected,
       DuplicateKey, BusyCommit, EndRead, ReadFails, BrokenRead
  <1> QED
    BY <1>3, <1>4

LEMMA NextTypeOK == IInv /\ [Next]_vars => TypeOK'
  <1> SUFFICES ASSUME IInv, TypeOK, [Next]_vars PROVE TypeOK'
    BY DEF IInv
  <1> USE IdFacts
  <1>1. ASSUME NEW p \in Procs, NEW c \in Calls, Invoke(p, c) PROVE TypeOK'
    BY <1>1 DEF Invoke, Goto, PCs, readVars, TypeOK
  <1>2. ASSUME NEW p \in Procs, Gives(p) PROVE TypeOK'
    BY <1>2, GivesUp, GiveUpTyped
  <1>3. ASSUME NEW p \in Procs, Put(p) PROVE TypeOK'
    <2>1. [id |-> Target(p), row |-> Version(p)] \in Write
      BY <1>3, VersionTyped DEF Put, Write, Ids
    <2> QED
      BY <1>3, <2>1 DEF Put, Change, Goto, PCs, readVars, TypeOK
  <1>4. ASSUME NEW p \in Procs, Delete(p) PROVE TypeOK'
    <2>1. [id |-> Target(p), row |-> NoRow] \in Write
      BY <1>4 DEF Delete, HasTarget, Target, Live, Write, Ids
    <2> QED
      BY <1>4, <2>1 DEF Delete, Change, Goto, PCs, readVars, TypeOK
  <1>5. ASSUME NEW p \in Procs, AskExclusive(p) PROVE TypeOK'
    BY <1>5 DEF AskExclusive, Goto, PCs, readVars, TypeOK
  <1>6. ASSUME NEW p \in Procs, Commit(p) PROVE TypeOK'
    <2>1. wr[p] \in Write /\ NoWrite \in Write
      BY DEF TypeOK, Write, NoWrite
    <2>2. wr[p].row \in Row \cup {NoRow} /\ wr[p].id \in 0..MaxInteger
      BY <2>1 DEF Write
    <2>3. OkId(IF call[p].op = "create" THEN wr[p].id ELSE 0) \in Reply
      BY <2>2, RepliesTyped
    <2> QED
      BY <1>6, <2>1, <2>2, <2>3 DEF Commit, Answer, Goto, PCs, readVars, TypeOK
  <1>7. ASSUME NEW p \in Procs, StartRead(p) PROVE TypeOK'
    <2>1. (IF Paged(call[p]) THEN call[p].offset ELSE 0) \in Nat
      <3> SUFFICES ASSUME Paged(call[p]) PROVE call[p].offset \in Nat
        OBVIOUS
      <3>1. call[p] \in Calls /\ call[p].op = "list" /\ call[p].limit # NoValue
        BY DEF Paged, TypeOK, NoCall
      <3>2. call[p].offset # NoValue
        BY <1>7, <3>1 DEF StartRead, MayRead, IInv, Shape, Mispaired
      <3> QED
        BY <3>1, <3>2, CallFields DEF ListCall
    <2> QED
      BY <1>7, <2>1 DEF StartRead, Goto, PCs, TypeOK
  <1>8. ASSUME NEW p \in Procs, NextRow(p) PROVE TypeOK'
    <2>1. PICK i \in Ahead(p) :
             /\ todo' = [todo EXCEPT ![p] = @ \ {i}]
             /\ IF skip[p] > 0
                THEN skip' = [skip EXCEPT ![p] = @ - 1] /\ UNCHANGED got
                ELSE got' = [got EXCEPT ![p] = @ \cup {<<i, table[i]>>}] /\ UNCHANGED skip
      BY <1>8 DEF NextRow
    <2>2. i \in Ids /\ <<i, table[i]>> \in Ids \X Row
      BY <2>1 DEF Ahead, Selected, Live, TypeOK
    <2>3. skip[p] \in Nat /\ (skip[p] > 0 => skip[p] - 1 \in Nat)
      BY DEF TypeOK
    <2>4. todo' \in [Procs -> SUBSET Ids]
      BY <2>1 DEF TypeOK
    <2>5. got' \in [Procs -> SUBSET (Ids \X Row)] /\ skip' \in [Procs -> Nat]
      BY <2>1, <2>2, <2>3 DEF TypeOK
    <2> QED
      BY <1>8, <2>4, <2>5 DEF NextRow, TypeOK
  <1>9. ASSUME NEW p \in Procs, Close(p) PROVE TypeOK'
    BY <1>9, RepliesTyped DEF Close, Goto, PCs, TypeOK
  <1>10. CASE UNCHANGED vars
    BY <1>10 DEF vars, TypeOK
  <1> QED
    BY <1>1, <1>2, <1>3, <1>4, <1>5, <1>6, <1>7, <1>8, <1>9, <1>10 DEF Next, Gives

(***************************************************************************)
(* The invariant.  A step of p that leaves the table alone leaves alone    *)
(* what is known of the other callers.                                     *)
(***************************************************************************)
Same(q) ==
    /\ pc'[q] = pc[q] /\ call'[q] = call[q] /\ wr'[q] = wr[q]
    /\ todo'[q] = todo[q] /\ skip'[q] = skip[q] /\ got'[q] = got[q]

LEMMA Frame ==
    ASSUME NEW q \in Procs, Same(q), Shape(q), Sound(q), UNCHANGED <<table, seq>>
    PROVE  Shape(q)' /\ Sound(q)'
  <1>1. Shape(q)'
    BY DEF Same, Shape, Writer, Writes
  <1>2. Writer(q)' => ChangeCurrent(q)'
    BY DEF Same, Sound, Writer, Writes, ChangeCurrent, Target, NewId, Version, KeyInUse
  <1>3. pc'[q] = "reading" => Steady(q)'
    BY DEF Same, Sound, Steady, Selected
  <1>4. Scanned(q)' = Scanned(q)
    BY DEF Same, Scanned
  <1>5. pc'[q] = "reading" /\ Paged(call'[q]) => PageRight(q)'
    BY <1>4 DEF Same, Sound, PageRight
  <1> QED
    BY <1>1, <1>2, <1>3, <1>5 DEF Sound

LEMMA Quiet ==
    ASSUME IInv, TypeOK', NEW p \in Procs, UNCHANGED <<table, seq>>,
           \A q \in Procs \ {p} : Same(q), Shape(p)', Sound(p)',
           Writer(p)' => \A q \in Procs \ {p} : ~Writer(q)
    PROVE  IInv'
  <1>1. \A q \in Procs : Shape(q)' /\ Sound(q)'
    BY Frame DEF IInv
  <1>2. OneWriter'
    BY DEF IInv, OneWriter, Writer, Same
  <1>3. UniqueSubscription' /\ IdsDrawn'
    BY DEF IInv, UniqueSubscription, IdsDrawn
  <1> QED
    BY <1>1, <1>2, <1>3 DEF IInv

LEMMA InvGives ==
    ASSUME IInv, TypeOK', NEW p \in Procs, Gives(p)
    PROVE  IInv'
  <1>1. PICK r \in Reply : GiveUp(p, r)
    BY GivesUp DEF IInv
  <1>2. pc[p] # "idle" /\ pc'[p] = "closing" /\ call'[p] = call[p] /\ wr'[p] = NoWrite
        /\ UNCHANGED <<table, seq>> /\ \A q \in Procs \ {p} : Same(q)
    BY <1>1, GivesUp DEF GiveUp, Answer, Goto, readVars, IInv, TypeOK, Same
  <1>3. Shape(p)' /\ Sound(p)' /\ ~Writer(p)'
    BY <1>2 DEF IInv, Shape, Sound, Writer
  <1> QED
    BY <1>2, <1>3, Quiet

LEMMA InvInvoke ==
    ASSUME IInv, TypeOK', NEW p \in Procs, NEW c \in Calls, Invoke(p, c)
    PROVE  IInv'
  <1>1. /\ pc'[p] = (IF Mispaired(c) THEN "reject" ELSE "ready") /\ pc[p] = "idle"
        /\ call'[p] = c /\ wr'[p] = wr[p] /\ got'[p] = got[p]
        /\ UNCHANGED <<table, seq>> /\ \A q \in Procs \ {p} : Same(q)
    BY DEF Invoke, Goto, readVars, IInv, TypeOK, Same
  <1>2. Shape(p)' /\ Sound(p)' /\ ~Writer(p)'
    BY <1>1 DEF IInv, Shape, Sound, Writer
  <1> QED
    BY <1>1, <1>2, Quiet

LEMMA InvClose ==
    ASSUME IInv, TypeOK', NEW p \in Procs, Close(p)
    PROVE  IInv'
  <1>1. /\ pc'[p] = "idle" /\ pc[p] = "closing" /\ wr'[p] = wr[p] /\ got'[p] = {}
        /\ UNCHANGED <<table, seq>> /\ \A q \in Procs \ {p} : Same(q)
    BY DEF Close, Goto, IInv, TypeOK, Same
  <1>2. Shape(p)' /\ Sound(p)' /\ ~Writer(p)'
    BY <1>1 DEF IInv, Shape, Sound, Writer
  <1> QED
    BY <1>1, <1>2, Quiet

LEMMA InvChange ==
    ASSUME IInv, TypeOK', NEW p \in Procs, Put(p) \/ Delete(p)
    PROVE  IInv'
  <1>1. PICK row \in Row \cup {NoRow} : Change(p, row)
               /\ IF call[p].op = "delete" THEN row = NoRow
                  ELSE row = Version(p) /\ Fits(row) /\ ~KeyInUse(Key(row), Target(p))
    BY VersionTyped DEF Put, Delete, IInv
  <1>2. HasTarget(p) /\ pc[p] = "ready" /\ Writes(p) /\ \A q \in Procs : ~Writer(q)
    BY DEF Put, Delete, HasTarget, MayWrite
  <1>3. /\ pc'[p] = "reserved" /\ call'[p] = call[p] /\ got'[p] = got[p] /\ todo'[p] = todo[p]
        /\ wr'[p] = [id |-> Target(p), row |-> row]
        /\ UNCHANGED <<table, seq>> /\ \A q \in Procs \ {p} : Same(q)
    BY <1>1 DEF Change, Goto, readVars, IInv, TypeOK, Same
  <1>4. Target(p) \in Ids /\ Target(p) # 0
    BY <1>2, IdFacts DEF HasTarget, Target, Live
  <1>5. Shape(p)'
    <2>1. wr'[p] # NoWrite
      BY <1>3, <1>4 DEF NoWrite
    <2> QED
      BY <1>2, <1>3, <2>1 DEF IInv, Shape, Writer
  <1>6. ChangeCurrent(p)'
    <2>1. Target(p)' = Target(p) /\ Writes(p)' /\ Version(p)' = Version(p)
      BY <1>2, <1>3 DEF Target, NewId, Writes, Version
    <2>2. KeyInUse(Key(row), Target(p))' = KeyInUse(Key(row), Target(p))
      BY <1>3, <2>1 DEF KeyInUse
    <2>3. call[p].op # "create" => Live(table, call[p].id)
      BY <1>2 DEF HasTarget
    <2> QED
      BY <1>1, <1>3, <1>4, <2>1, <2>2, <2>3 DEF ChangeCurrent, KeyInUse
  <1>7. Sound(p)'
    BY <1>3, <1>6 DEF Sound
  <1> QED
    BY <1>2, <1>3, <1>5, <1>7, Quiet

LEMMA InvAskExclusive ==
    ASSUME IInv, TypeOK', NEW p \in Procs, AskExclusive(p)
    PROVE  IInv'
  <1>1. /\ pc'[p] = "pending" /\ pc[p] = "reserved" /\ call'[p] = call[p] /\ wr'[p] = wr[p]
        /\ got'[p] = got[p] /\ UNCHANGED <<table, seq>> /\ \A q \in Procs \ {p} : Same(q)
    BY DEF AskExclusive, Goto, readVars, IInv, TypeOK, Same
  <1>2. Shape(p)' /\ Writer(p)
    BY <1>1 DEF IInv, Shape, Writer, Writes
  <1>3. ChangeCurrent(p)'
    BY <1>1, <1>2 DEF IInv, Sound, ChangeCurrent, Writes, Target, NewId, Version, KeyInUse
  <1>4. Sound(p)'
    BY <1>1, <1>3 DEF Sound
  <1>5. \A q \in Procs \ {p} : ~Writer(q)
    BY <1>2 DEF IInv, OneWriter
  <1> QED
    BY <1>1, <1>2, <1>4, <1>5, Quiet

(* Nobody reads and nobody else writes when p commits.                     *)
LEMMA InvCommit ==
    ASSUME IInv, TypeOK', NEW p \in Procs, Commit(p)
    PROVE  IInv'
  <1> DEFINE i == wr[p].id
             row == wr[p].row
  <1>1. /\ pc[p] = "pending" /\ Writer(p) /\ \A q \in Procs : pc[q] # "reading"
        /\ table' = [table EXCEPT ![i] = row]
        /\ seq' = IF call[p].op = "create" THEN i ELSE seq
    BY DEF Commit, Readers, Writer
  <1>2. ChangeCurrent(p) /\ i \in Ids
    BY <1>1 DEF IInv, Sound, ChangeCurrent
  <1>3. pc'[p] = "closing" /\ call'[p] = call[p] /\ wr'[p] = NoWrite /\ got'[p] = got[p]
        /\ \A q \in Procs \ {p} : Same(q)
    BY DEF Commit, Answer, Goto, readVars, IInv, TypeOK, Same
  <1>4. \A q \in Procs \ {p} : ~Writer(q)
    BY <1>1 DEF IInv, OneWriter
  <1>5. \A q \in Procs : Shape(q)' /\ Sound(q)' /\ ~Writer(q)'
    BY <1>1, <1>3, <1>4 DEF IInv, Shape, Sound, Writer, Writes, Same
  <1>6. table' \in [Ids -> Row \cup {NoRow}] /\ table'[i] = row
        /\ \A j \in Ids \ {i} : table'[j] = table[j]
    BY <1>1, <1>2 DEF IInv, TypeOK
  <1>7. Live(table', i) => row # NoRow /\ ~KeyInUse(Key(row), i)
    BY <1>2, <1>6 DEF ChangeCurrent, Live
  <1>8. UniqueSubscription'
    <2> SUFFICES ASSUME NEW j \in Ids, NEW k \in Ids, Live(table', j), Live(table', k),
                        Key(table'[j]) = Key(table'[k])
                 PROVE  j = k
      BY DEF UniqueSubscription
    <2>1. CASE j # i /\ k # i
      BY <2>1, <1>6 DEF Live, IInv, UniqueSubscription
    <2>2. CASE j = i /\ k # i
      BY <2>2, <1>6, <1>7 DEF Live, KeyInUse
    <2>3. CASE j # i /\ k = i
      BY <2>3, <1>6, <1>7 DEF Live, KeyInUse
    <2> QED
      BY <2>1, <2>2, <2>3
  <1>9. IdsDrawn'
    <2>1. seq \in Nat /\ (call[p].op = "create" => i = seq + 1)
          /\ (call[p].op # "create" => Live(table, i))
      BY <1>2, IdFacts DEF ChangeCurrent, Target, NewId, IInv, TypeOK
    <2>2. ASSUME NEW j \in Ids, Live(table', j) PROVE j <= seq'
      <3>0. j \in Nat /\ (j # i => j <= seq)
        BY <2>2, <1>6, IdFacts DEF Live, IInv, IdsDrawn
      <3>1. CASE call[p].op = "create"
        BY <3>0, <3>1, <2>1, <1>1
      <3>2. CASE call[p].op # "create"
        BY <3>0, <3>2, <2>1, <1>1, <1>2 DEF IInv, IdsDrawn
      <3> QED
        BY <3>1, <3>2
    <2> QED
      BY <2>2 DEF IdsDrawn
  <1> QED
    BY <1>5, <1>8, <1>9 DEF IInv, OneWriter

(***************************************************************************)
(* The scan of a reader.                                                   *)
(***************************************************************************)
LEMMA EntriesFinite ==
    ASSUME NEW t, NEW S, S \subseteq Entries(t)
    PROVE  IsFiniteSet(S) /\ Cardinality(S) \in Nat /\ Cardinality(S) <= Cardinality(Entries(t))
  <1> DEFINE live == {j \in Ids : t[j] # NoRow}
             f == [j \in live |-> <<j, t[j]>>]
  <1>1. IsFiniteSet(Ids)
    BY IdFacts, FS_Interval DEF Ids
  <1>2. IsFiniteSet(live)
    BY <1>1, FS_Subset
  <1>3. f \in Surjection(live, Entries(t))
    BY DEF Surjection, Entries
  <1>4. IsFiniteSet(Entries(t))
    BY <1>2, <1>3, FS_Surjection
  <1> QED
    BY <1>4, FS_Subset, FS_CardinalityType

LEMMA PageFields ==
    ASSUME IInv, NEW p \in Procs, Paged(call[p]), pc[p] \in {"ready", "reading"}
    PROVE  call[p].limit \in Nat /\ call[p].offset \in Nat
  <1>1. call[p] \in Calls /\ ~Mispaired(call[p]) /\ call[p].op = "list" /\ call[p].limit # NoValue
    BY DEF IInv, Shape, Paged
  <1> QED
    BY <1>1, CallFields DEF Mispaired, ListCall

(* PageSize before any row was scanned.                                    *)
LEMMA PageStart ==
    ASSUME NEW limit \in Nat, NEW offset \in Nat
    PROVE  PageSize(0, limit, offset) = 0 /\ ~(0 > offset) /\ offset - 0 = offset
  BY DEF PageSize

LEMMA InvStartRead ==
    ASSUME IInv, TypeOK', NEW p \in Procs, StartRead(p)
    PROVE  IInv'
  <1>1. /\ pc[p] = "ready" /\ pc'[p] = "reading" /\ call'[p] = call[p] /\ wr'[p] = wr[p]
        /\ got'[p] = got[p] /\ todo'[p] = Ids /\ ~Writes(p)
        /\ skip'[p] = (IF Paged(call[p]) THEN call[p].offset ELSE 0)
        /\ UNCHANGED <<table, seq>> /\ \A q \in Procs \ {p} : Same(q)
    BY DEF StartRead, MayRead, Goto, readVars, IInv, TypeOK, Same
  <1>2. got[p] = {}
    BY <1>1 DEF IInv, Shape
  <1>3. Shape(p)' /\ ~Writer(p)'
    BY <1>1 DEF IInv, Shape, Writer, Writes
  <1>4. Steady(p)'
    BY <1>1, <1>2 DEF Steady
  <1>5. ASSUME Paged(call[p]) PROVE PageRight(p)'
    <2>1. Scanned(p)' = {}
      BY <1>1 DEF Scanned, Entries
    <2>2. Cardinality(Scanned(p)') = 0 /\ Cardinality(got'[p]) = 0
      BY <1>1, <1>2, <2>1, FS_EmptySet
    <2>3. call[p].limit \in Nat /\ call[p].offset \in Nat
      BY <1>1, <1>5, PageFields
    <2>4. PageSize(0, call[p].limit, call[p].offset) = 0 /\ ~(0 > call[p].offset)
          /\ call[p].offset - 0 = call[p].offset
      BY <2>3, PageStart
    <2> QED
      BY <1>1, <1>5, <2>2, <2>4 DEF PageRight
  <1>6. Sound(p)'
    BY <1>1, <1>3, <1>4, <1>5 DEF Sound
  <1> QED
    BY <1>1, <1>3, <1>6, Quiet

LEMMA InvNextRow ==
    ASSUME IInv, TypeOK', NEW p \in Procs, NextRow(p)
    PROVE  IInv'
  <1>1. PICK i \in Ahead(p) :
             /\ todo' = [todo EXCEPT ![p] = @ \ {i}]
             /\ IF skip[p] > 0
                THEN skip' = [skip EXCEPT ![p] = @ - 1] /\ UNCHANGED got
                ELSE got' = [got EXCEPT ![p] = @ \cup {<<i, table[i]>>}] /\ UNCHANGED skip
    BY DEF NextRow
  <1> DEFINE c == call[p]
             e == <<i, table[i]>>
  <1>2. /\ pc[p] = "reading" /\ ~Full(p) /\ UNCHANGED <<table, seq, pc, call, wr>>
        /\ todo'[p] = todo[p] \ {i} /\ \A q \in Procs \ {p} : Same(q)
        /\ IF skip[p] > 0 THEN skip'[p] = skip[p] - 1 /\ got'[p] = got[p]
           ELSE got'[p] = got[p] \cup {e} /\ skip'[p] = skip[p]
    <2>1. todo'[p] = todo[p] \ {i} /\ \A q \in Procs \ {p} : todo'[q] = todo[q]
      BY <1>1 DEF IInv, TypeOK
    <2>2. /\ \A q \in Procs \ {p} : skip'[q] = skip[q] /\ got'[q] = got[q]
          /\ IF skip[p] > 0 THEN skip'[p] = skip[p] - 1 /\ got'[p] = got[p]
             ELSE got'[p] = got[p] \cup {e} /\ skip'[p] = skip[p]
      BY <1>1 DEF IInv, TypeOK
    <2> QED
      BY <2>1, <2>2 DEF NextRow, Same
  <1>3. i \in todo[p] /\ Selected(c, i) /\ i \in Ids /\ e \in Entries(table)
    BY DEF Ahead, Selected, Live, Entries
  <1>4. Steady(p) /\ (Paged(c) => PageRight(p)) /\ ~Writer(p) /\ ~Writes(p) /\ Shape(p)
    BY <1>2 DEF IInv, Sound, Shape, Writer
  <1>5. Shape(p)' /\ ~Writer(p)'
    BY <1>2, <1>4 DEF Shape, Writer, Writes
  <1>6. ~Paged(c) => skip[p] = 0
    BY <1>2 DEF IInv, Shape
  <1>7. Steady(p)'
    BY <1>2, <1>3, <1>4, <1>6 DEF Steady, Selected
  <1>8. ASSUME Paged(c) PROVE PageRight(p)'
    <2> DEFINE n == Cardinality(Scanned(p))
    <2>1. Scanned(p)' = Scanned(p) \cup {e} /\ e \notin Scanned(p)
      BY <1>2, <1>3 DEF Scanned, Entries
    <2>2. n \in Nat /\ IsFiniteSet(Scanned(p))
      BY EntriesFinite DEF Scanned
    <2>3. Cardinality(Scanned(p)') = n + 1
      BY <2>1, <2>2, FS_AddElement
    <2>4. got[p] \subseteq Entries(table) /\ e \notin got[p]
      <3>1. \A x \in got[p] : x = <<x[1], x[2]>>
        BY DEF IInv, TypeOK
      <3> QED
        BY <1>3, <1>4, <3>1 DEF Steady, Selected, Live, Entries
    <2>5. IsFiniteSet(got[p]) /\ Cardinality(got[p] \cup {e}) = Cardinality(got[p]) + 1
      BY <2>4, EntriesFinite, FS_AddElement
    <2>6. /\ Cardinality(got[p]) = PageSize(n, c.limit, c.offset) /\ Cardinality(got[p]) # c.limit
          /\ skip[p] = IF n > c.offset THEN 0 ELSE c.offset - n
      BY <1>2, <1>4, <1>8 DEF PageRight, Full
    <2>7. c.limit \in Nat /\ c.offset \in Nat
      BY <1>2, <1>8, PageFields
    <2>p. /\ n < c.offset => PageSize(n + 1, c.limit, c.offset) = 0
                             /\ PageSize(n, c.limit, c.offset) = 0
          /\ n >= c.offset /\ PageSize(n, c.limit, c.offset) # c.limit =>
                 PageSize(n + 1, c.limit, c.offset) = PageSize(n, c.limit, c.offset) + 1
      <3> HIDE DEF n, c
      <3> QED
        BY <2>2, <2>7 DEF PageSize
    <2>8. CASE skip[p] > 0
      <3>1. n < c.offset /\ got'[p] = got[p]
        BY <1>2, <2>2, <2>6, <2>7, <2>8
      <3>2. skip'[p] = c.offset - (n + 1) /\ ~(n + 1 > c.offset)
        BY <1>2, <2>2, <2>6, <2>7, <2>8, <3>1
      <3>3. PageSize(n + 1, c.limit, c.offset) = 0 /\ Cardinality(got'[p]) = 0
        BY <2>6, <2>p, <3>1
      <3> QED
        BY <1>2, <2>3, <3>2, <3>3 DEF PageRight
    <2>9. CASE ~(skip[p] > 0)
      <3>1. n >= c.offset /\ n + 1 > c.offset
        BY <2>2, <2>6, <2>7, <2>9
      <3>2. got'[p] = got[p] \cup {e} /\ skip'[p] = 0
        BY <1>2, <2>2, <2>6, <2>7, <2>9
      <3>3. Cardinality(got'[p]) = PageSize(n + 1, c.limit, c.offset)
        BY <2>5, <2>6, <2>p, <3>1, <3>2
      <3> QED
        BY <1>2, <2>3, <3>1, <3>2, <3>3 DEF PageRight
    <2> QED
      BY <2>8, <2>9
  <1>9. Sound(p)'
    BY <1>2, <1>5, <1>7, <1>8 DEF Sound
  <1> QED
    BY <1>2, <1>5, <1>9, Quiet

LEMMA InitIInv == Init => IInv
  <1> SUFFICES ASSUME Init PROVE IInv
    OBVIOUS
  <1>1. \A i \in Ids : ~Live(table, i)
    BY DEF Init, Live
  <1>2. \A p \in Procs : Shape(p) /\ Sound(p) /\ ~Writer(p)
    BY DEF Init, Shape, Sound, Writer
  <1> QED
    BY <1>1, <1>2, InitTypeOK DEF IInv, OneWriter, UniqueSubscription, IdsDrawn

LEMMA NextIInv == IInv /\ [Next]_vars => IInv'
  <1> SUFFICES ASSUME IInv, [Next]_vars, TypeOK' PROVE IInv'
    BY NextTypeOK
  <1>1. CASE UNCHANGED vars
    <2>1. \A q \in Procs : Same(q)
      BY <1>1 DEF vars, Same
    <2>2. UNCHANGED <<table, seq>>
      BY <1>1 DEF vars
    <2>3. \A q \in Procs : Shape(q)' /\ Sound(q)'
      BY <2>1, <2>2, Frame DEF IInv
    <2> QED
      BY <2>1, <2>2, <2>3 DEF IInv, OneWriter, UniqueSubscription, IdsDrawn, Writer, Same
  <1>2. ASSUME NEW p \in Procs, Gives(p) PROVE IInv'
    BY <1>2, InvGives
  <1> QED
    BY <1>1, <1>2, InvInvoke, InvClose, InvChange, InvAskExclusive, InvCommit, InvStartRead,
       InvNextRow DEF Next, Gives

LEMMA Invariance == Spec => []IInv
  BY InitIInv, NextIInv, PTL DEF Spec

(* Every reachable state of the SQLite storage is well typed: no row that  *)
(* the CHECKs of the table refuse is ever stored, so every row can be read.*)
THEOREM TypeCorrect == Spec => []TypeOK
  <1>1. IInv => TypeOK
    BY DEF IInv
  <1> QED
    BY <1>1, Invariance, PTL

(* At most one row per user and service, for any number of callers.        *)
THEOREM Unique == Spec => []UniqueSubscription
  <1>1. IInv => UniqueSubscription
    BY DEF IInv
  <1> QED
    BY <1>1, Invariance, PTL

(* One writer at a time, and what it and the readers have seen stays true  *)
(* until they end.                                                         *)
THEOREM Locks == Spec => []LocksHold
  <1>1. IInv => LocksHold
    BY DEF IInv, Sound, LocksHold
  <1> QED
    BY <1>1, Invariance, PTL

(***************************************************************************)
(* Ids.                                                                    *)
(***************************************************************************)
LEMMA CommitKinds ==
    ASSUME IInv, NEW p \in Procs, Commit(p)
    PROVE  LET i == wr[p].id
           IN  /\ i \in Ids /\ table' = [table EXCEPT ![i] = wr[p].row]
               /\ \/ /\ call[p].op = "create" /\ i = seq + 1 /\ seq' = seq + 1
                     /\ ~Live(table, i) /\ wr[p].row = NewRow(call[p])
                  \/ /\ call[p].op = "update" /\ i = call[p].id /\ seq' = seq /\ Live(table, i)
                     /\ wr[p].row = Merged(table[i], call[p])
                  \/ /\ call[p].op = "delete" /\ i = call[p].id /\ seq' = seq /\ Live(table, i)
                     /\ wr[p].row = NoRow
  <1>1. Writer(p) /\ ChangeCurrent(p) /\ seq \in Nat
    BY IdFacts DEF Commit, Writer, IInv, Sound, TypeOK
  <1>2. call[p].op = "create" => ~Live(table, seq + 1)
    BY <1>1 DEF IInv, IdsDrawn, Live
  <1> QED
    BY <1>1, <1>2 DEF Commit, ChangeCurrent, Writes, Target, NewId, Version

LEMMA NextKeepsIdentity == IInv /\ [Next]_vars => IdentityKept
  <1> SUFFICES ASSUME IInv, [Next]_vars, NEW i \in Ids
               PROVE  UserKept(i) /\ (Retired(i) => Retired(i)')
    BY DEF IdentityKept
  <1>1. CASE UNCHANGED <<table, seq>>
    BY <1>1 DEF UserKept, Retired, Live
  <1>2. ASSUME NEW p \in Procs, Commit(p) PROVE UserKept(i) /\ (Retired(i) => Retired(i)')
    <2> DEFINE k == wr[p].id
    <2>1. seq \in Nat /\ table \in [Ids -> Row \cup {NoRow}] /\ i \in Nat
      BY IdFacts DEF IInv, TypeOK
    <2>2. CASE i # k
      <3>1. table'[i] = table[i] /\ (seq' = seq \/ seq' = seq + 1)
        BY <1>2, <2>1, <2>2, CommitKinds
      <3> QED
        BY <2>1, <3>1 DEF UserKept, Retired, Live
    <2>3. CASE i = k
      <3>1. table'[i] = wr[p].row
        BY <1>2, <2>1, <2>3, CommitKinds
      <3>2. CASE call[p].op = "create"
        BY <1>2, <2>1, <2>3, <3>2, CommitKinds DEF UserKept, Retired
      <3>3. CASE call[p].op = "update"
        <4>1. Live(table, i) /\ table'[i] = Merged(table[i], call[p])
          BY <1>2, <2>3, <3>1, <3>3, CommitKinds
        <4>2. table'[i].user = table[i].user
          BY <4>1 DEF Merged
        <4>3. seq' = seq
          BY <1>2, <3>3, CommitKinds
        <4> QED
          BY <4>1, <4>2, <4>3 DEF UserKept, Retired
      <3>4. CASE call[p].op = "delete"
        BY <1>2, <2>1, <2>3, <3>1, <3>4, CommitKinds DEF UserKept, Retired, Live
      <3> QED
        BY <1>2, <3>2, <3>3, <3>4, CommitKinds
    <2> QED
      BY <2>2, <2>3
  <1>3. ASSUME NEW p \in Procs, Gives(p) PROVE UNCHANGED <<table, seq>>
    BY <1>3, GivesUp DEF GiveUp, IInv
  <1> QED
    BY <1>1, <1>2, <1>3 DEF Next, Gives, Invoke, Put, Delete, Change, AskExclusive, StartRead,
       NextRow, Close, vars

(* An id stands for one subscription for ever.                             *)
THEOREM Identity == Spec => IdentityStable
  <1>1. IInv /\ [Next]_vars => [IdentityKept]_vars
    BY NextKeepsIdentity
  <1> QED
    BY <1>1, Invariance, PTL DEF Spec, IdentityStable

(***************************************************************************)
(* SqliteStorage implements SubscriptionStore.  The two use the same data. *)
(***************************************************************************)
LEMMA SameData ==
    /\ \A e : Store!Err(e) = Err(e)
    /\ \A i : Store!OkId(i) = OkId(i)
    /\ \A rs : Store!OkRows(rs) = OkRows(rs)
    /\ Store!NoReply = NoReply /\ Store!NoCall = NoCall
    /\ Store!Ids = Ids
    /\ \A c : Store!Mispaired(c) <=> Mispaired(c)
  BY DEF Store!Err, Err, Store!OkId, OkId, Store!OkRows, OkRows, Store!NoReply, NoReply,
     Store!NoCall, NoCall, Store!Ids, Ids, Store!Mispaired, Mispaired,
     Store!Seen, Seen, Store!AsRead, AsRead, Store!Month, Month

LEMMA SameRows ==
    /\ Store!Row = Row
    /\ \A d : Store!Column(d) = Column(d)
    /\ \A x, y : Store!Later(x, y) <=> Later(x, y)
    /\ \A row : Store!Key(row) = Key(row)
    /\ \A row : Store!ValidRow(row) <=> ValidRow(row)
    /\ \A c : Store!NewRow(c) = NewRow(c)
    /\ \A row, c : Store!Merged(row, c) = Merged(row, c)
    /\ \A t, i : Store!Live(t, i) <=> Live(t, i)
    /\ \A key, except : Store!KeyInUse(key, except) <=> KeyInUse(key, except)
  <1>1. Store!Row = Row
    <2>1. Store!LastYear = LastYear
      BY SMT DEF Store!LastYear, LastYear
    <2>2. Store!Years = Years
      BY <2>1 DEF Store!Years, Years
    <2>3. Store!Day = Day
      BY <2>2 DEF Store!Day, Day, Store!LengthOf, LengthOf
    <2> QED
      BY <2>3 DEF Store!Row, Row, Store!ColumnInt, ColumnInt
  <1>2. \A d : Store!Column(d) = Column(d)
    BY DEF Store!Column, Column
  <1>3. \A x, y : Store!Later(x, y) <=> Later(x, y)
    BY DEF Store!Later, Later, Store!GreaterThan, GreaterThan
  <1>4. /\ \A row : Store!Key(row) = Key(row)
        /\ \A row : Store!ValidRow(row) <=> ValidRow(row)
        /\ \A t, i : Store!Live(t, i) <=> Live(t, i)
        /\ \A key, except : Store!KeyInUse(key, except) <=> KeyInUse(key, except)
    BY <1>3 DEF Store!Key, Key, Store!ValidRow, ValidRow, Store!Live, Live, Store!Ids, Ids,
       Store!KeyInUse, KeyInUse
  <1>5. /\ \A c : Store!NewRow(c) = NewRow(c)
        /\ \A row, c : Store!Merged(row, c) = Merged(row, c)
    BY <1>2 DEF Store!NewRow, NewRow, Store!Merged, Merged, Store!ZeroDate, ZeroDate
  <1> QED
    BY <1>1, <1>2, <1>3, <1>4, <1>5

LEMMA SameReads ==
    /\ \A t : Store!Entries(t) = Entries(t)
    /\ \A S : Store!Cardinality(S) = Cardinality(S)
    /\ \A n, l, o : Store!PageSize(n, l, o) = PageSize(n, l, o)
    /\ \A c : Store!FilterDates(c)
    /\ \A row, c : Store!Matches(row, c) <=> Matches(row, c)
  <1>1. \A t : Store!Entries(t) = Entries(t)
    BY SameData DEF Store!Entries, Entries
  <1>2. \A S : Store!Cardinality(S) = Cardinality(S)
    BY DEF Store!Cardinality, Cardinality
  <1>3. \A n, l, o : Store!PageSize(n, l, o) = PageSize(n, l, o)
    BY DEF Store!PageSize, PageSize
  <1>4. \A c : Store!FilterDates(c)
    BY EnvAssumption DEF Store!FilterDates
  <1>5. \A row, c : Store!Matches(row, c) <=> Matches(row, c)
    BY SameRows DEF Store!Matches, Matches, Store!ServiceColumn, ServiceColumn
  <1> QED
    BY <1>1, <1>2, <1>3, <1>4, <1>5

(***************************************************************************)
(* What a read that ends, or fails on the way, has read.                   *)
(***************************************************************************)
LEMMA GotEntries ==
    ASSUME IInv, NEW p \in Procs, pc[p] = "reading"
    PROVE  /\ got[p] \subseteq Entries(table)
           /\ \A e \in got[p] : Selected(call[p], e[1]) /\ e[2] = table[e[1]]
           /\ \A e \in Entries(table) : e[1] \in Ids /\ e = <<e[1], table[e[1]]>>
           /\ Steady(p)
  <1>1. Steady(p) /\ \A e \in got[p] : e = <<e[1], e[2]>> /\ e[1] \in Ids
    BY DEF IInv, Sound, TypeOK
  <1> QED
    BY <1>1 DEF Steady, Selected, Live, Entries

LEMMA PagedGot ==
    ASSUME IInv, NEW p \in Procs, pc[p] = "reading", Paged(call[p])
    PROVE  LET size == PageSize(Cardinality(Entries(table)), call[p].limit, call[p].offset)
           IN  /\ Cardinality(got[p]) <= size
               /\ (Full(p) \/ Ahead(p) = {}) => Cardinality(got[p]) = size
  <1> DEFINE n == Cardinality(Scanned(p))
             m == Cardinality(Entries(table))
             c == call[p]
  <1>1. Cardinality(got[p]) = PageSize(n, c.limit, c.offset)
    BY DEF IInv, Sound, PageRight
  <1>2. n \in Nat /\ m \in Nat /\ m >= n
    BY EntriesFinite DEF Scanned
  <1>3. c.limit \in Nat /\ c.offset \in Nat
    BY PageFields
  <1>4. /\ PageSize(n, c.limit, c.offset) <= PageSize(m, c.limit, c.offset)
        /\ PageSize(n, c.limit, c.offset) = c.limit => PageSize(m, c.limit, c.offset) = c.limit
    <2> HIDE DEF n, m, c
    <2> QED
      BY <1>2, <1>3 DEF PageSize
  <1>5. CASE Full(p)
    BY <1>1, <1>4, <1>5 DEF Full
  <1>6. CASE Ahead(p) = {}
    <2>1. Scanned(p) = Entries(table)
      BY <1>6, GotEntries DEF Scanned, Ahead, Selected, Paged, Entries, Live
    <2> QED
      BY <1>1, <1>4, <2>1
  <1> QED
    BY <1>1, <1>4, <1>5, <1>6

LEMMA PartRead ==
    ASSUME IInv, NEW p \in Procs, call[p].op \in {"list", "filter"}, NEW rs,
           \/ rs = {} /\ pc[p] = "ready"
           \/ rs = got[p] /\ pc[p] = "reading"
    PROVE  rs \in Store!Parts(table, call[p])
  <1>1. rs \subseteq Entries(table)
    BY GotEntries
  <1>2. CASE Paged(call[p])
    <2>1. Cardinality(rs) <= PageSize(Cardinality(Entries(table)), call[p].limit, call[p].offset)
      <3>1. CASE pc[p] = "reading"
        BY <1>2, <3>1, PagedGot
      <3>2. CASE pc[p] = "ready"
        <4>1. rs = {} /\ Cardinality(rs) = 0 /\ Cardinality(Entries(table)) \in Nat
          BY <3>2, FS_EmptySet, EntriesFinite
        <4>2. call[p].limit \in Nat /\ call[p].offset \in Nat
          BY <1>2, <3>2, PageFields
        <4> QED
          BY <4>1, <4>2 DEF PageSize
      <3> QED
        BY <3>1, <3>2
    <2> QED
      BY <1>1, <1>2, <2>1, SameReads DEF Store!Parts, Paged
  <1>3. CASE ~Paged(call[p])
    <2>1. \A e \in rs : call[p].op = "filter" => Matches(e[2], call[p])
      BY GotEntries DEF Selected
    <2> QED
      BY <1>1, <1>3, <2>1, SameReads DEF Store!Parts, Paged
  <1> QED
    BY <1>2, <1>3

LEMMA WholeRead ==
    ASSUME IInv, NEW p \in Procs, pc[p] = "reading", Full(p) \/ Ahead(p) = {},
           call[p].op = "get" => got[p] # {}
    PROVE  got[p] \in Store!Answers(table, call[p]) /\ call[p].op \in {"get", "list", "filter"}
  <1> DEFINE c == call[p]
  <1>1. c \in Calls /\ ~Mispaired(c) /\ c.op \in {"get", "list", "filter"}
    BY OpKinds DEF IInv, Shape, Writes
  <1>2. CASE Paged(c)
    <2>1. Cardinality(got[p]) = PageSize(Cardinality(Entries(table)), c.limit, c.offset)
          /\ got[p] \subseteq Entries(table)
      BY <1>2, PagedGot, GotEntries
    <2> QED
      BY <1>1, <1>2, <2>1, SameReads, SameData DEF Paged, Store!Answers, Store!ListAnswers
  <1>3. CASE ~Paged(c)
    <2>1. \A i \in Ids : Selected(c, i) => <<i, table[i]>> \in got[p]
      BY <1>3, GotEntries DEF Full, Ahead, Steady
    <2>2. CASE c.op = "list"
      <3>1. got[p] = Entries(table)
        BY <2>1, <2>2, GotEntries DEF Selected, Live, Entries
      <3> QED
        BY <1>1, <1>3, <2>2, <3>1, SameReads, SameData DEF Paged, Store!Answers, Store!ListAnswers
    <2>3. CASE c.op = "filter"
      <3>1. got[p] = {e \in Entries(table) : Matches(e[2], c)}
        <4>1. \A e \in Entries(table) : Matches(e[2], c) => e \in got[p]
          BY <2>1, <2>3, GotEntries DEF Selected, Live, Entries
        <4>2. \A e \in got[p] : e \in Entries(table) /\ Matches(e[2], c)
          BY <2>3, GotEntries DEF Selected
        <4> QED
          BY <4>1, <4>2
      <3> QED
        BY <2>3, <3>1, SameReads DEF Store!Answers, Store!FilterAnswers
    <2>4. CASE c.op = "get"
      <3>1. PICK e \in got[p] : TRUE
        BY <2>4
      <3>2. \A x \in got[p] : x = <<c.id, table[c.id]>> /\ Live(table, c.id)
        BY <2>4, GotEntries DEF Selected
      <3>3. got[p] = {<<c.id, table[c.id]>>}
        BY <3>1, <3>2
      <3> QED
        BY <2>4, <3>1, <3>2, <3>3, SameRows DEF Store!Answers, Store!GetAnswers
    <2> QED
      BY <1>1, <2>2, <2>3, <2>4
  <1> QED
    BY <1>1, <1>2, <1>3

(* A filter by service that has read its last row has the rows asked for.  *)
THEOREM ServiceFilter == Spec => []ServiceFilterHonoured
  <1>1. ASSUME IInv, NEW p \in Procs, call[p].op = "filter", call[p].service # NoValue,
               pc[p] = "reading", Ahead(p) = {}
        PROVE  got[p] = {e \in Entries(table) :
                           /\ e[2].service = call[p].service
                           /\ call[p].user = NilUser \/ e[2].user = call[p].user
                           /\ Later(e[2].start, Column(call[p].start))
                           /\ Later(Column(call[p].end), e[2].end)}
    <2> DEFINE c == call[p]
    <2>1. \A e \in Entries(table) : Matches(e[2], c) => e \in got[p]
      BY <1>1, GotEntries DEF Ahead, Steady, Paged, Selected, Live, Entries
    <2>2. \A e \in got[p] : e \in Entries(table) /\ Matches(e[2], c)
      BY <1>1, GotEntries DEF Selected
    <2>3. \A row : Matches(row, c) <=>
             /\ row.service = c.service
             /\ c.user = NilUser \/ row.user = c.user
             /\ Later(row.start, Column(c.start)) /\ Later(Column(c.end), row.end)
      BY <1>1, EnvAssumption DEF Matches, ServiceColumn
    <2> QED
      BY <2>1, <2>2, <2>3
  <1>2. IInv => ServiceFilterHonoured
    BY <1>1 DEF ServiceFilterHonoured
  <1> QED
    BY <1>2, Invariance, PTL

LEMMA RowWritten ==
    ASSUME IInv, NEW p \in Procs, Writer(p), call[p].op # "delete"
    PROVE  wr[p].row \in Row
  <1>1. ChangeCurrent(p) /\ call[p] \in Calls
    BY DEF IInv, Sound, Shape, Writer
  <1>2. call[p].op \in {"create", "update"} /\ wr[p].row = Version(p) /\ Fits(Version(p))
        /\ (call[p].op # "create" => Live(table, call[p].id))
    BY <1>1 DEF ChangeCurrent, Writes
  <1> QED
    BY <1>1, <1>2, VersionIsRow DEF IInv

(***************************************************************************)
(* Every step maps to a step of the store or to a stutter.                 *)
(***************************************************************************)
LEMMA PhaseStep ==
    ASSUME IInv, NEW p \in Procs, NEW l, pc' = [pc EXCEPT ![p] = l]
    PROVE  StorePhase' = [StorePhase EXCEPT ![p] = PhaseOf(l)] /\ StorePhase[p] = PhaseOf(pc[p])
  BY DEF IInv, TypeOK, StorePhase

LEMMA Phases ==
    ASSUME IInv, NEW p \in Procs
    PROVE  /\ pc' = [pc EXCEPT ![p] = "idle"] => StorePhase' = [StorePhase EXCEPT ![p] = "idle"]
           /\ pc' = [pc EXCEPT ![p] = "closing"] => StorePhase' = [StorePhase EXCEPT ![p] = "applied"]
           /\ \A l \in PCs \ {"idle", "closing"} : pc' = [pc EXCEPT ![p] = l] =>
                 StorePhase' = [StorePhase EXCEPT ![p] = "called"]
           /\ pc[p] = "idle" => StorePhase[p] = "idle"
           /\ pc[p] = "closing" => StorePhase[p] = "applied"
           /\ pc[p] \notin {"idle", "closing"} => StorePhase[p] = "called"
  <1>1. /\ PhaseOf("idle") = "idle" /\ PhaseOf("closing") = "applied"
        /\ \A l : l \notin {"idle", "closing"} => PhaseOf(l) = "called"
    BY DEF PhaseOf
  <1>2. ASSUME pc' = [pc EXCEPT ![p] = "idle"]
        PROVE  StorePhase' = [StorePhase EXCEPT ![p] = "idle"]
    <2>1. StorePhase' = [StorePhase EXCEPT ![p] = PhaseOf("idle")]
      BY <1>2, PhaseStep
    <2> QED
      BY <1>1, <2>1
  <1>3. ASSUME pc' = [pc EXCEPT ![p] = "closing"]
        PROVE  StorePhase' = [StorePhase EXCEPT ![p] = "applied"]
    <2>1. StorePhase' = [StorePhase EXCEPT ![p] = PhaseOf("closing")]
      BY <1>3, PhaseStep
    <2> QED
      BY <1>1, <2>1
  <1>4. ASSUME NEW l \in PCs \ {"idle", "closing"}, pc' = [pc EXCEPT ![p] = l]
        PROVE  StorePhase' = [StorePhase EXCEPT ![p] = "called"]
    <2>1. PhaseOf(l) = "called"
      BY <1>1
    <2>2. StorePhase' = [StorePhase EXCEPT ![p] = PhaseOf(l)]
      BY <1>4, PhaseStep
    <2> QED
      BY <2>1, <2>2
  <1>5. StorePhase[p] = PhaseOf(pc[p])
    BY DEF IInv, TypeOK, StorePhase
  <1> QED
    BY <1>1, <1>2, <1>3, <1>4, <1>5

(* What every step shares in which a call ends without a change.           *)
LEMMA EndStep ==
    ASSUME IInv, NEW p \in Procs, NEW r, GiveUp(p, r), pc[p] \notin {"idle", "closing"}
    PROVE  Store!TakeEffect(p, r) /\ UNCHANGED <<table, StoreFresh>>
  <1>1. pc' = [pc EXCEPT ![p] = "closing"] /\ pc[p] \in PCs \ {"idle", "closing"}
        /\ ret' = [ret EXCEPT ![p] = r] /\ UNCHANGED <<table, seq, call>>
    BY DEF GiveUp, Answer, Goto, IInv, TypeOK
  <1>2. StorePhase' = [StorePhase EXCEPT ![p] = "applied"] /\ StorePhase[p] = "called"
    BY <1>1, Phases
  <1> QED
    BY <1>1, <1>2 DEF Store!TakeEffect, StoreFresh

LEMMA FailStep ==
    ASSUME IInv, NEW p \in Procs, GiveUp(p, Err("other")), pc[p] \notin {"idle", "closing"}
    PROVE  Store!Fail(p)
  BY EndStep, SameData DEF Store!Fail, Store!RowsUnchanged

LEMMA BrokenStep ==
    ASSUME IInv, NEW p \in Procs, ~Writes(p), NEW rs, GiveUp(p, BrokenRead(p, rs)),
           \/ rs = {} /\ pc[p] = "ready"
           \/ rs = got[p] /\ pc[p] = "reading"
    PROVE  Store!Fail(p) \/ Store!ReadPart(p)
  <1>1. CASE call[p].op = "get"
    BY <1>1, FailStep DEF BrokenRead
  <1>2. CASE call[p].op # "get"
    <2>1. call[p].op \in {"list", "filter"} /\ ~Mispaired(call[p])
      BY <1>2, OpKinds DEF IInv, Shape, Writes
    <2>2. rs \in Store!Parts(table, call[p])
      BY <2>1, PartRead
    <2>3. Store!TakeEffect(p, OkRows(rs)) /\ UNCHANGED <<table, StoreFresh>>
      BY <1>2, EndStep DEF BrokenRead
    <2> QED
      BY <2>1, <2>2, <2>3, SameData DEF Store!ReadPart
  <1> QED
    BY <1>1, <1>2

LEMMA DuplicateStep ==
    ASSUME IInv, NEW p \in Procs, DuplicateKey(p)
    PROVE  Store!CreateConflict(p) \/ Store!Fail(p)
  <1>1. HasTarget(p) /\ pc[p] = "ready" /\ KeyInUse(Key(Version(p)), Target(p))
        /\ GiveUp(p, Err(IF call[p].op = "create" THEN "exists" ELSE "other"))
    BY DEF DuplicateKey, HasTarget, MayWrite
  <1>2. CASE call[p].op # "create"
    BY <1>1, <1>2, FailStep
  <1>3. CASE call[p].op = "create"
    <2>1. KeyInUse(Key(NewRow(call[p])), 0)
      BY <1>1, <1>3, IdFacts DEF KeyInUse, Version
    <2>2. Store!TakeEffect(p, Err("exists")) /\ UNCHANGED <<table, StoreFresh>>
      BY <1>1, <1>3, EndStep
    <2> QED
      BY <1>3, <2>1, <2>2, SameRows, SameData DEF Store!CreateConflict, Store!RowsUnchanged
  <1> QED
    BY <1>2, <1>3

LEMMA EndReadStep ==
    ASSUME IInv, NEW p \in Procs, EndRead(p)
    PROVE  Store!Read(p) \/ Store!NotFound(p)
  <1>1. pc[p] = "reading" /\ (Full(p) \/ Ahead(p) = {})
    BY DEF EndRead
  <1>2. CASE call[p].op = "get" /\ got[p] = {}
    <2>1. ~Live(table, call[p].id)
      <3>1. Ahead(p) = {} /\ Steady(p)
        BY <1>1, <1>2, GotEntries DEF Full, Paged
      <3> QED
        BY <1>2, <3>1 DEF Steady, Ahead, Selected, Paged, Live
    <2>2. Store!TakeEffect(p, Err("notfound")) /\ UNCHANGED <<table, StoreFresh>>
      BY <1>1, <1>2, EndStep DEF EndRead
    <2> QED
      BY <1>2, <2>1, <2>2, SameRows, SameData DEF Store!NotFound
  <1>3. CASE ~(call[p].op = "get" /\ got[p] = {})
    <2>1. got[p] \in Store!Answers(table, call[p]) /\ call[p].op \in {"get", "list", "filter"}
      BY <1>1, <1>3, WholeRead
    <2>2. Store!TakeEffect(p, OkRows(got[p])) /\ UNCHANGED <<table, StoreFresh>>
      BY <1>1, <1>3, EndStep DEF EndRead
    <2> QED
      BY <2>1, <2>2, SameData DEF Store!Read
  <1> QED
    BY <1>2, <1>3

LEMMA GivesStep ==
    ASSUME IInv, NEW p \in Procs, Gives(p)
    PROVE  Store!Next
  <1>1. CASE Reject(p) \/ Fails(p) \/ InsertExhausted(p) \/ Rejected(p) \/ BusyCommit(p)
    <2>1. GiveUp(p, Err("other")) /\ pc[p] \notin {"idle", "closing"}
      BY <1>1 DEF Reject, Fails, InsertExhausted, Rejected, HasTarget, MayWrite, BusyCommit
    <2> QED
      BY <2>1, FailStep DEF Store!Next
  <1>2. CASE Locked(p) /\ Writes(p)
    <2>1. GiveUp(p, Err("other")) /\ pc[p] = "ready"
      BY <1>2 DEF Locked
    <2> QED
      BY <2>1, FailStep DEF Store!Next
  <1>3. CASE Locked(p) /\ ~Writes(p)
    BY <1>3, BrokenStep DEF Locked, Store!Next
  <1>4. CASE ReadFails(p)
    <2>1. ~Writes(p)
      BY <1>4 DEF ReadFails, IInv, Shape
    <2> QED
      BY <1>4, <2>1, BrokenStep DEF ReadFails, Store!Next
  <1>5. CASE Missing(p)
    <2>1. GiveUp(p, Err("notfound")) /\ pc[p] = "ready" /\ ~Live(table, call[p].id)
          /\ call[p].op \in {"update", "delete"}
      BY <1>5 DEF Missing, MayWrite
    <2>2. Store!TakeEffect(p, Err("notfound")) /\ UNCHANGED <<table, StoreFresh>>
      BY <2>1, EndStep
    <2> QED
      BY <2>1, <2>2, SameRows, SameData DEF Store!NotFound, Store!Next
  <1>6. CASE DuplicateKey(p)
    BY <1>6, DuplicateStep DEF Store!Next
  <1>7. CASE EndRead(p)
    BY <1>7, EndReadStep DEF Store!Next
  <1> QED
    BY <1>1, <1>2, <1>3, <1>4, <1>5, <1>6, <1>7 DEF Gives

LEMMA CommitStep ==
    ASSUME IInv, NEW p \in Procs, Commit(p)
    PROVE  Store!Create(p) \/ Store!Update(p) \/ Store!Delete(p)
  <1> DEFINE i == wr[p].id
             c == call[p]
  <1>1. /\ pc[p] = "pending" /\ pc' = [pc EXCEPT ![p] = "closing"] /\ call' = call
        /\ ret' = [ret EXCEPT ![p] = OkId(IF c.op = "create" THEN i ELSE 0)]
    BY DEF Commit, Answer, Goto
  <1>2. StorePhase' = [StorePhase EXCEPT ![p] = "applied"] /\ StorePhase[p] = "called"
    BY <1>1, Phases DEF PCs
  <1>3. Store!TakeEffect(p, OkId(IF c.op = "create" THEN i ELSE 0))
    BY <1>1, <1>2 DEF Store!TakeEffect
  <1>4. i \in Ids /\ table' = [table EXCEPT ![i] = wr[p].row] /\ seq \in Nat
    BY CommitKinds, IdFacts DEF IInv, TypeOK
  <1>5. c.op # "delete" => /\ wr[p].row \in Row \cup {NoRow} /\ ValidRow(wr[p].row)
                           /\ ~KeyInUse(Key(wr[p].row), i)
    <2>1. ChangeCurrent(p) /\ wr[p] \in Write
      BY <1>1 DEF IInv, Sound, Writer, TypeOK
    <2> QED
      BY <2>1 DEF ChangeCurrent, Fits, Write
  <1>6. CASE c.op = "create"
    <2>1. /\ i = seq + 1 /\ seq' = seq + 1 /\ ~Live(table, i) /\ wr[p].row = NewRow(c)
      BY <1>6, CommitKinds
    <2>2. StoreFresh' = StoreFresh \ {i} /\ i \in StoreFresh
      <3>1. Ids \subseteq Nat /\ i \in Ids /\ seq \in Nat /\ i = seq + 1 /\ seq' = seq + 1
        BY <1>4, <2>1, IdFacts
      <3> HIDE DEF i
      <3>2. \A j \in Nat : j > seq + 1 <=> j > seq /\ j # seq + 1
        <4>1. seq \in Nat
          BY <3>1
        <4> QED
          BY <4>1
      <3>3. \A j \in Ids : j > seq' <=> j > seq /\ j # i
        BY <3>1, <3>2
      <3>4. i > seq
        BY <3>1
      <3> QED
        BY <3>1, <3>3, <3>4 DEF StoreFresh
    <2>3. ~KeyInUse(Key(NewRow(c)), 0)
      BY <1>5, <1>6, <2>1 DEF KeyInUse
    <2>4. NewRow(c) \in Row
      BY <1>1, <1>6, RowWritten, <2>1 DEF Writer
    <2> QED
      BY <1>3, <1>4, <1>5, <1>6, <2>1, <2>2, <2>3, <2>4, SameRows, SameData DEF Store!Create
  <1>7. CASE c.op = "update"
    <2>1. /\ i = c.id /\ seq' = seq /\ Live(table, i) /\ wr[p].row = Merged(table[i], c)
      BY <1>7, CommitKinds
    <2>2. Merged(table[i], c) \in Row
      BY <1>1, <1>7, RowWritten, <2>1 DEF Writer
    <2> QED
      BY <1>3, <1>4, <1>5, <1>7, <2>1, <2>2, SameRows, SameData DEF Store!Update, StoreFresh
  <1>8. CASE c.op = "delete"
    <2>1. /\ i = c.id /\ seq' = seq /\ Live(table, i) /\ wr[p].row = NoRow
      BY <1>8, CommitKinds
    <2> QED
      BY <1>3, <1>4, <1>8, <2>1, SameRows, SameData DEF Store!Delete, StoreFresh
  <1> QED
    BY <1>6, <1>7, <1>8, CommitKinds

(* Steps the store does not see.                                           *)
LEMMA StutterStep ==
    ASSUME IInv, NEW p \in Procs,
           Put(p) \/ Delete(p) \/ AskExclusive(p) \/ StartRead(p) \/ NextRow(p)
    PROVE  UNCHANGED <<table, StoreFresh, StorePhase, call, ret>>
  <1>1. UNCHANGED <<table, seq, call, ret>>
    BY DEF Put, Delete, Change, AskExclusive, StartRead, NextRow
  <1>2. CASE NextRow(p)
    BY <1>1, <1>2 DEF NextRow, StorePhase, StoreFresh
  <1>3. CASE ~NextRow(p)
    <2>1. PICK l \in {"reserved", "pending", "reading"} :
             pc' = [pc EXCEPT ![p] = l] /\ pc[p] \in {"ready", "reserved"}
      BY <1>3 DEF Put, Delete, HasTarget, MayWrite, Change, AskExclusive, StartRead, MayRead, Goto
    <2>2. StorePhase' = [StorePhase EXCEPT ![p] = "called"] /\ StorePhase[p] = "called"
      BY <2>1, Phases DEF PCs
    <2> QED
      BY <1>1, <2>2 DEF StorePhase, StoreFresh
  <1> QED
    BY <1>2, <1>3

LEMMA InvokeStep ==
    ASSUME IInv, NEW p \in Procs, NEW c \in Calls, Invoke(p, c)
    PROVE  Store!Invoke(p, c)
  <1>1. /\ pc[p] = "idle" /\ call' = [call EXCEPT ![p] = c] /\ UNCHANGED <<table, seq, ret>>
        /\ (pc' = [pc EXCEPT ![p] = "reject"] \/ pc' = [pc EXCEPT ![p] = "ready"])
    BY DEF Invoke, Goto
  <1>2. StorePhase' = [StorePhase EXCEPT ![p] = "called"] /\ StorePhase[p] = "idle"
    BY <1>1, Phases DEF PCs
  <1> QED
    BY <1>1, <1>2 DEF Store!Invoke, StoreFresh

LEMMA CloseStep ==
    ASSUME IInv, NEW p \in Procs, Close(p)
    PROVE  Store!Return(p)
  <1>1. /\ pc[p] = "closing" /\ pc' = [pc EXCEPT ![p] = "idle"] /\ UNCHANGED <<table, seq>>
        /\ call' = [call EXCEPT ![p] = NoCall] /\ ret' = [ret EXCEPT ![p] = NoReply]
    BY DEF Close, Goto
  <1>2. StorePhase' = [StorePhase EXCEPT ![p] = "idle"] /\ StorePhase[p] = "applied"
    BY <1>1, Phases
  <1> QED
    BY <1>1, <1>2, SameData DEF Store!Return, StoreFresh

LEMMA InitRefines == Init => Store!Init
  <1> SUFFICES ASSUME Init PROVE Store!Init
    OBVIOUS
  <1>1. StoreFresh = Ids
    <2>1. seq = 0 /\ \A i \in Ids : i > 0
      BY IdFacts DEF Init
    <2> QED
      BY <2>1 DEF StoreFresh
  <1>2. StorePhase = [p \in Procs |-> "idle"]
    BY DEF Init, StorePhase, PhaseOf
  <1> QED
    BY <1>1, <1>2, SameData DEF Init, Store!Init

LEMMA NextRefines == IInv /\ [Next]_vars => [Store!Next]_Store!vars
  <1> SUFFICES ASSUME IInv, [Next]_vars
               PROVE  Store!Next \/ UNCHANGED <<table, StoreFresh, StorePhase, call, ret>>
    BY DEF Store!vars
  <1>1. CASE UNCHANGED vars
    BY <1>1 DEF vars, StorePhase, StoreFresh
  <1>2. ASSUME NEW p \in Procs, NEW c \in Calls, Invoke(p, c) PROVE Store!Next
    BY <1>2, InvokeStep DEF Store!Next
  <1>3. ASSUME NEW p \in Procs, Gives(p) PROVE Store!Next
    BY <1>3, GivesStep
  <1>4. ASSUME NEW p \in Procs,
               Put(p) \/ Delete(p) \/ AskExclusive(p) \/ StartRead(p) \/ NextRow(p)
        PROVE  UNCHANGED <<table, StoreFresh, StorePhase, call, ret>>
    BY <1>4, StutterStep
  <1>5. ASSUME NEW p \in Procs, Commit(p) \/ Close(p) PROVE Store!Next
    BY <1>5, CommitStep, CloseStep DEF Store!Next
  <1> QED
    BY <1>1, <1>2, <1>3, <1>4, <1>5 DEF Next, Gives

(* Every call of the SQLite storage takes effect in one step, its commit   *)
(* or the end of its row loop: SqliteStorage implements SubscriptionStore. *)
THEOREM Implements == Spec => StoreSpec
  BY InitRefines, NextRefines, Invariance, PTL DEF Spec, StoreSpec, Store!Spec

=============================================================================
