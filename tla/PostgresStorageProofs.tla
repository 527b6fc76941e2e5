----------------------- MODULE PostgresStorageProofs -----------------------
(***************************************************************************)
(* Theorems about PostgresStorage, for any set of callers, calls, ids and  *)
(* any pool size.                                                          *)
(***************************************************************************)
EXTENDS PostgresStorage, SubscriptionsProofs, FiniteSetTheorems

(* The rows statements make are typed.                                     *)
LEMMA NewRowTyped ==
    ASSUME NEW c \in Calls, c.op = "create", Encodes(c), DatesParse(c)
    PROVE  NewRow(c) \in Row
  BY CallFields DEF NewRow, Row, CreateCall, Encodes, DatesParse, StorableDate

LEMMA MergedTyped ==
    ASSUME NEW c \in Calls, c.op = "update", Encodes(c), DatesParse(c), NEW row \in Row
    PROVE  Merged(row, c) \in Row /\ Merged(row, c).user = row.user
  BY CallFields DEF Merged, Row, UpdateCall, Encodes, DatesParse, StorableDate

(***************************************************************************)
(* Typing.                                                                 *)
(***************************************************************************)

LEMMA WriteFields ==
    ASSUME TypeOK, NEW p \in Procs
    PROVE  wr[p].id \in 0..MaxInteger /\ wr[p].id \in Nat /\ wr[p].row \in Row \cup {NoRow}
  <1>1. wr[p] \in Write
    BY DEF TypeOK
  <1> QED
    BY <1>1, IdFacts DEF Write

LEMMA InitTypeOK == Init => TypeOK
  BY RepliesTyped, DataAssumption DEF Init, TypeOK, PCs, Write, NoWrite, Ids

LEMMA GiveUpTyped ==
    ASSUME TypeOK, NEW p \in Procs, NEW r \in Reply, GiveUp(p, r), seq' \in 0..MaxInteger
    PROVE  TypeOK'
  <1>1. NoWrite \in Write
    BY IdFacts DEF NoWrite, Write
  <1>2. "closing" \in PCs
    BY DEF PCs
  <1> QED
    BY <1>1, <1>2 DEF TypeOK, GiveUp, Answer, Goto

LEMMA AcceptedCall ==
    ASSUME TypeOK, NEW p \in Procs, NEW ops, Accepted(p, ops),
           "none" \notin ops
    PROVE  /\ call[p] \in Calls /\ pc[p] = "exec"
           /\ call[p].op \in ops /\ Encodes(call[p]) /\ DatesParse(call[p])
  BY DEF TypeOK, Accepted, NoCall

LEMMA NextTypeOK == TypeOK /\ [Next]_vars => TypeOK'
  <1> SUFFICES ASSUME TypeOK, [Next]_vars PROVE TypeOK'
    OBVIOUS
  <1> USE IdFacts
  <1>errors. /\ Err("other") \in Reply /\ Err("exists") \in Reply /\ Err("notfound") \in Reply
             /\ seq \in 0..MaxInteger /\ (seq < MaxInteger => seq + 1 \in 0..MaxInteger)
    BY RepliesTyped DEF Errors, TypeOK
  <1>1. ASSUME NEW p \in Procs, NEW c \in Calls, Invoke(p, c) PROVE TypeOK'
    <2>1. queue' \in Seq(Procs)
      <3>1. queue' = Append(queue, p) \/ queue' = queue
        BY <1>1 DEF Invoke
      <3>2. queue \in Seq(Procs)
        BY DEF TypeOK
      <3> QED
        BY <3>1, <3>2
    <2>2. \E l \in PCs : Goto(p, l)
      BY <1>1 DEF Invoke, PCs
    <2> QED
      BY <1>1, <2>1, <2>2 DEF Invoke, Goto, TypeOK
  <1>2. ASSUME NEW p \in Procs, Reject(p) \/ Refused(p) \/ InsertExhausted(p) \/ InsertRejected(p)
                    \/ Missing(p) \/ UpdateRejected(p) \/ DuplicateKey(p) \/ DeadlockVictim(p)
                    \/ ConnLost(p)
        PROVE  TypeOK'
    <2>1. seq' \in 0..MaxInteger
      BY <1>2, <1>errors DEF Reject, Refused, InsertExhausted, InsertRejected, Missing,
         UpdateRejected, DuplicateKey, DeadlockVictim, ConnLost
    <2>2. \E r \in Reply : GiveUp(p, r)
      BY <1>2, <1>errors DEF Reject, Refused, InsertExhausted, InsertRejected, Missing,
         UpdateRejected, DuplicateKey, DeadlockVictim, ConnLost
    <2> QED
      BY <2>1, <2>2, GiveUpTyped
  <1>3. ASSUME NEW p \in Procs, Acquire(p) PROVE TypeOK'
    BY <1>3 DEF Acquire, Admitted, Goto, TypeOK, PCs
  <1>4. ASSUME NEW p \in Procs, AcquireFails(p) PROVE TypeOK'
    BY <1>4, <1>errors DEF AcquireFails, Admitted, Answer, Goto, TypeOK, PCs
  <1>5. ASSUME NEW p \in Procs, Insert(p) PROVE TypeOK'
    <2>1. NewRow(call[p]) \in Row
      BY <1>5, AcceptedCall, NewRowTyped DEF Insert
    <2>2. [id |-> seq + 1, row |-> NewRow(call[p])] \in Write
      BY <1>5, <2>1, <1>errors DEF Insert, Write
    <2> QED
      BY <1>5, <2>2, <1>errors DEF Insert, Goto, TypeOK, PCs
  <1>6. ASSUME NEW p \in Procs, LockForUpdate(p) PROVE TypeOK'
    <2>1. table[call[p].id] \in Row /\ call[p].id \in Ids
      BY <1>6 DEF LockForUpdate, Live, TypeOK
    <2>2. Merged(table[call[p].id], call[p]) \in Row
      BY <1>6, <2>1, AcceptedCall, MergedTyped DEF LockForUpdate
    <2>3. [id |-> call[p].id, row |-> Merged(table[call[p].id], call[p])] \in Write
      BY <2>1, <2>2 DEF Write, Ids
    <2> QED
      BY <1>6, <2>3 DEF LockForUpdate, Goto, TypeOK, PCs
  <1>7. ASSUME NEW p \in Procs, LockForDelete(p) PROVE TypeOK'
    <2>1. [id |-> call[p].id, row |-> NoRow] \in Write
      BY <1>7 DEF LockForDelete, Live, Write, Ids
    <2> QED
      BY <1>7, <2>1 DEF LockForDelete, Goto, TypeOK, PCs
  <1>8. ASSUME NEW p \in Procs, PlaceKey(p) PROVE TypeOK'
    BY <1>8 DEF PlaceKey, Goto, TypeOK, PCs
  <1>9. ASSUME NEW p \in Procs, Commit(p) PROVE TypeOK'
    <2>1. wr[p].row \in Row \cup {NoRow} /\ wr[p].id \in 0..MaxInteger /\ NoWrite \in Write
      BY WriteFields DEF Write, NoWrite
    <2>2. OkId(IF call[p].op = "create" THEN wr[p].id ELSE 0) \in Reply
      BY <2>1, RepliesTyped, IdFacts
    <2> QED
      BY <1>9, <2>1, <2>2 DEF Commit, Goto, TypeOK, PCs
  <1>10. ASSUME NEW p \in Procs, Select(p) PROVE TypeOK'
    <2>1. PICK rs \in Answers(table, call[p]) :
             snap' = [snap EXCEPT ![p] = rs] /\ ret' = [ret EXCEPT ![p] = OkRows(rs)]
      BY <1>10 DEF Select
    <2>2. rs \in SUBSET (Ids \X Row)
      <3>1. call[p] \in Calls /\ call[p].op \in {"get", "list", "filter"}
        BY <1>10, AcceptedCall DEF Select
      <3> QED
        BY <3>1, AnswersTyped DEF TypeOK
    <2>3. OkRows(rs) \in Reply
      BY <2>2, RepliesTyped
    <2> QED
      BY <1>10, <2>1, <2>2, <2>3 DEF Select, Goto, TypeOK, PCs
  <1>11. ASSUME NEW p \in Procs, SelectNone(p) PROVE TypeOK'
    BY <1>11, <1>errors DEF SelectNone, Goto, TypeOK, PCs
  <1>12. ASSUME NEW p \in Procs, Receive(p) PROVE TypeOK'
    BY <1>12 DEF Receive, Goto, TypeOK, PCs
  <1>13. ASSUME NEW p \in Procs, ReplyLost(p) PROVE TypeOK'
    <2>1. \E r \in Reply : GiveUp(p, r)
      BY <1>13, RepliesTyped DEF ReplyLost, TypeOK
    <2> QED
      BY <1>13, <2>1, GiveUpTyped, <1>errors DEF ReplyLost
  <1>14. ASSUME NEW p \in Procs, Close(p) PROVE TypeOK'
    BY <1>14, RepliesTyped DEF Close, Goto, TypeOK, PCs
  <1>15. CASE UNCHANGED vars
    BY <1>15 DEF vars, TypeOK
  <1> QED
    BY <1>1, <1>2, <1>3, <1>4, <1>5, <1>6, <1>7, <1>8, <1>9, <1>10, <1>11, <1>12, <1>13, <1>14,
       <1>15 DEF Next, Step

(* The variables keep their types: in particular every stored price fits   *)
(* INTEGER and every stored date is one a DATE column can hold, whatever   *)
(* the handlers passed on.                                                 *)
THEOREM TypeCorrect == Spec => []TypeOK
  BY InitTypeOK, NextTypeOK, PTL DEF Spec

(***************************************************************************)
(* The inductive invariant.  UniqueSubscription alone is not inductive: a  *)
(* commit keeps it only because the keys in the index are free             *)
(* (PlacedKeysFree), and that only because an update's version is made of  *)
(* the row it replaces and no other transaction changes that row.          *)
(***************************************************************************)
IInv == TypeOK /\ WritesSound /\ UniqueSubscription /\ EndAfterStart

LEMMA InitIInv == Init => IInv
  <1> SUFFICES ASSUME Init PROVE IInv
    OBVIOUS
  <1>1. TypeOK
    BY InitTypeOK
  <1>2. UniqueSubscription /\ EndAfterStart
    BY DEF Init, UniqueSubscription, EndAfterStart, Live
  <1>3. WritesSound
    BY IdFacts DEF Init, WritesSound, IdsDrawn, WritesInProgress, OneWriterPerRow, PlacedKeysFree,
       Placed, NoWrite, Live
  <1> QED
    BY <1>1, <1>2, <1>3 DEF IInv

(* A step that changes no committed row and lets no new version appear     *)
(* keeps the invariant: each transaction goes on as it was or is gone.     *)
LEMMA FewerWrites ==
    ASSUME IInv, TypeOK', table' = table, seq' >= seq,
           \A q \in Procs :
              \/ wr'[q] = NoWrite /\ pc'[q] \notin {"key", "commit"}
              \/ wr'[q] = wr[q] /\ pc'[q] = pc[q] /\ call'[q] = call[q]
    PROVE  IInv'
  <1>1. UniqueSubscription' /\ EndAfterStart'
    BY DEF IInv, UniqueSubscription, EndAfterStart, Live, Key
  <1>2. IdsDrawn'
    <2>1. ASSUME NEW q \in Procs PROVE wr'[q].id <= seq'
      <3>1. seq \in Nat /\ seq' \in Nat
        BY IdFacts DEF IInv, TypeOK
      <3>2. wr[q].id \in Nat /\ wr[q].id <= seq
        BY WriteFields DEF IInv, WritesSound, IdsDrawn
      <3> QED
        BY <3>1, <3>2 DEF NoWrite
    <2>2. ASSUME NEW i \in Ids, Live(table', i) PROVE i <= seq'
      <3>1. i <= seq /\ i \in Nat /\ seq \in Nat /\ seq' \in Nat
        BY <2>2, IdFacts DEF IInv, TypeOK, WritesSound, IdsDrawn
      <3> QED
        BY <3>1
    <2> QED
      BY <2>1, <2>2 DEF IdsDrawn
  <1>3. WritesInProgress'
    BY DEF IInv, WritesSound, WritesInProgress, NoWrite
  <1>4. \A p \in Procs : wr'[p] # NoWrite => VersionCurrent(p)'
    BY DEF IInv, WritesSound, VersionCurrent, Live
  <1>5. OneWriterPerRow'
    BY DEF IInv, WritesSound, OneWriterPerRow, WritesInProgress, NoWrite
  <1>6. PlacedKeysFree'
    BY DEF IInv, WritesSound, PlacedKeysFree, Placed, KeyTaken, Live, Key
  <1> QED
    BY <1>1, <1>2, <1>3, <1>4, <1>5, <1>6 DEF IInv, WritesSound

(* A transaction that holds no row version takes w: of a row no other      *)
(* transaction changes, and not yet in the index.                          *)
LEMMA OneMoreWrite ==
    ASSUME IInv, TypeOK', NEW p \in Procs, NEW w \in Write, NEW l \in {"key", "commit"},
           table' = table, call' = call, seq' >= seq,
           wr' = [wr EXCEPT ![p] = w], pc' = [pc EXCEPT ![p] = l], pc[p] = "exec",
           w.id \in 1..seq', \A q \in Procs \ {p} : wr[q].id # w.id,
           VersionCurrent(p)',
           l = "key" => call[p].op \in {"create", "update"},
           l = "commit" => call[p].op = "delete" /\ w.row = NoRow
    PROVE  IInv'
  <1>0. /\ TypeOK /\ WritesInProgress /\ OneWriterPerRow /\ PlacedKeysFree /\ IdsDrawn
        /\ seq \in Nat /\ seq' \in Nat
    BY IdFacts DEF IInv, WritesSound, TypeOK
  <1>1. UniqueSubscription' /\ EndAfterStart'
    BY DEF IInv, UniqueSubscription, EndAfterStart, Live, Key
  <1>2. wr'[p] = w /\ \A q \in Procs \ {p} : wr'[q] = wr[q] /\ pc'[q] = pc[q]
    BY <1>0 DEF TypeOK
  <1>3. w # NoWrite /\ w.id # 0 /\ pc'[p] = l
    BY <1>0 DEF NoWrite, TypeOK
  <1>4. IdsDrawn'
    <2>1. ASSUME NEW q \in Procs PROVE wr'[q].id <= seq'
      BY <1>0, <1>2, WriteFields DEF IdsDrawn
    <2>2. ASSUME NEW i \in Ids, Live(table', i) PROVE i <= seq'
      BY <2>2, <1>0, IdFacts DEF IdsDrawn
    <2> QED
      BY <2>1, <2>2 DEF IdsDrawn
  <1>5. WritesInProgress'
    BY <1>0, <1>2, <1>3 DEF WritesInProgress, NoWrite
  <1>6. \A q \in Procs : wr'[q] # NoWrite => VersionCurrent(q)'
    BY <1>0, <1>2 DEF IInv, WritesSound, VersionCurrent, Live
  <1>7. OneWriterPerRow'
    BY <1>0, <1>2 DEF OneWriterPerRow
  <1>8. PlacedKeysFree'
    <2>1. \A q \in Procs : Placed(q)' => q # p /\ Placed(q)
      BY <1>2, <1>3 DEF Placed
    <2> QED
      BY <2>1, <1>0, <1>2 DEF PlacedKeysFree, KeyTaken, Live, Key
  <1> QED
    BY <1>1, <1>4, <1>5, <1>6, <1>7, <1>8 DEF IInv, WritesSound

LEMMA NextIInv == IInv /\ [Next]_vars => IInv'
  <1> SUFFICES ASSUME IInv, [Next]_vars PROVE IInv'
    OBVIOUS
  <1> USE IdFacts
  <1>typed. TypeOK /\ TypeOK'
    BY NextTypeOK DEF IInv
  <1>seq. seq \in Nat /\ seq' \in Nat
    BY <1>typed DEF TypeOK
  <1>sound. WritesInProgress /\ OneWriterPerRow /\ PlacedKeysFree /\ IdsDrawn
    BY DEF IInv, WritesSound
  <1>1. ASSUME NEW p \in Procs, \E c \in Calls : Invoke(p, c) PROVE IInv'
    <2>1. /\ table' = table /\ seq' = seq /\ wr' = wr /\ wr[p] = NoWrite
          /\ \E l \in {"reject", "acquire"} : pc' = [pc EXCEPT ![p] = l]
          /\ \E c \in Calls : call' = [call EXCEPT ![p] = c]
      BY <1>1, <1>sound DEF Invoke, Goto, WritesInProgress
    <2> QED
      BY <2>1, <1>typed, <1>seq, FewerWrites DEF TypeOK
  <1>2. ASSUME NEW p \in Procs, NEW r, GiveUp(p, r), seq' >= seq PROVE IInv'
    BY <1>2, <1>typed, FewerWrites DEF GiveUp, Answer, Goto, TypeOK
  <1>3. ASSUME NEW p \in Procs, Reject(p) \/ Refused(p) \/ InsertExhausted(p) \/ InsertRejected(p)
                    \/ Missing(p) \/ UpdateRejected(p) \/ DuplicateKey(p) \/ DeadlockVictim(p)
                    \/ ConnLost(p) \/ ReplyLost(p)
        PROVE  IInv'
    <2>1. seq' >= seq /\ \E r : GiveUp(p, r)
      BY <1>3, <1>seq DEF Reject, Refused, InsertExhausted, InsertRejected, Missing,
         UpdateRejected, DuplicateKey, DeadlockVictim, ConnLost, ReplyLost
    <2> QED
      BY <2>1, <1>2
  <1>4. ASSUME NEW p \in Procs, Acquire(p) \/ AcquireFails(p) \/ Select(p) \/ SelectNone(p)
                    \/ Receive(p)
        PROVE  IInv'
    <2>1. /\ table' = table /\ seq' = seq /\ wr' = wr /\ call' = call
          /\ pc[p] \notin {"key", "commit"}
          /\ \E l \in {"exec", "closing", "read"} : pc' = [pc EXCEPT ![p] = l]
      BY <1>4 DEF Acquire, AcquireFails, Admitted, Select, SelectNone, Receive, Accepted, Answer, Goto
    <2>2. PICK l \in {"exec", "closing", "read"} : pc' = [pc EXCEPT ![p] = l]
      BY <2>1
    <2>3. pc \in [Procs -> PCs] /\ wr[p] = NoWrite
      BY <2>1, <1>typed, <1>sound DEF TypeOK, WritesInProgress
    <2> QED
      BY <2>1, <2>2, <2>3, <1>typed, <1>seq, <1>sound, FewerWrites DEF TypeOK, WritesInProgress
  <1>5. ASSUME NEW p \in Procs, Close(p) PROVE IInv'
    BY <1>5, <1>typed, <1>seq, <1>sound, FewerWrites DEF Close, Goto, TypeOK, WritesInProgress
  <1>6. ASSUME NEW p \in Procs, Insert(p) PROVE IInv'
    <2> DEFINE w == [id |-> seq + 1, row |-> NewRow(call[p])]
    <2>1. call[p] \in Calls /\ pc[p] = "exec" /\ call[p].op = "create"
      BY <1>6, <1>typed, AcceptedCall DEF Insert
    <2>2. w \in Write /\ w.row # NoRow
      BY <1>6, <1>typed, <2>1, AcceptedCall, NewRowTyped, <1>seq, DataAssumption DEF Insert, Write
    <2>3. wr'[p] = w /\ ~Live(table, seq + 1)
      BY <1>6, <1>sound, <1>seq, <1>typed DEF Insert, IdsDrawn, TypeOK
    <2>4. VersionCurrent(p)'
      BY <1>6, <2>1, <2>2, <2>3 DEF Insert, VersionCurrent, Live
    <2>5. \A q \in Procs \ {p} : wr[q].id # w.id
      BY <1>sound, <1>seq, <1>typed, WriteFields DEF IdsDrawn
    <2>6. /\ table' = table /\ call' = call /\ wr' = [wr EXCEPT ![p] = w]
          /\ pc' = [pc EXCEPT ![p] = "key"] /\ seq' >= seq /\ w.id \in 1..seq'
      BY <1>6, <1>seq DEF Insert, Goto
    <2> HIDE DEF w
    <2> QED
      BY <1>typed, <2>1, <2>2, <2>4, <2>5, <2>6, OneMoreWrite
  <1>7. ASSUME NEW p \in Procs, LockForUpdate(p) PROVE IInv'
    <2> DEFINE i == call[p].id
               w == [id |-> i, row |-> Merged(table[i], call[p])]
    <2>1. call[p] \in Calls /\ pc[p] = "exec" /\ call[p].op = "update"
      BY <1>7, <1>typed, AcceptedCall DEF LockForUpdate
    <2>2. wr' = [wr EXCEPT ![p] = w] /\ wr'[p] = w
      BY <1>7, <1>typed DEF LockForUpdate, TypeOK
    <2>3. w \in Write /\ w.row # NoRow
      <3>1. i \in Ids /\ table[i] \in Row
        BY <1>7, <1>typed DEF LockForUpdate, Live, TypeOK
      <3>2. Merged(table[i], call[p]) \in Row
        BY <1>7, <1>typed, <3>1, AcceptedCall, MergedTyped DEF LockForUpdate
      <3>3. w \in Write
        BY <3>1, <3>2 DEF Write, Ids
      <3> QED
        BY <3>2, <3>3, DataAssumption
    <2>4. VersionCurrent(p)'
      BY <1>7, <2>1, <2>2, <2>3 DEF LockForUpdate, VersionCurrent, Live
    <2>5. w.id \in 1..seq'
      <3>1. call[p].id \in Ids /\ Live(table, call[p].id) /\ seq' = seq
        BY <1>7 DEF LockForUpdate, Live
      <3>2. call[p].id \in 1..seq
        BY <3>1, <1>sound, <1>seq DEF IdsDrawn, Ids
      <3> QED
        BY <3>1, <3>2
    <2>6. \A q \in Procs \ {p} : wr[q].id # w.id
      BY <1>7 DEF LockForUpdate, RowHolders
    <2>7. /\ table' = table /\ call' = call /\ seq' >= seq
          /\ pc' = [pc EXCEPT ![p] = "key"]
      BY <1>7, <1>seq DEF LockForUpdate, Goto
    <2>8. w.row = NoRow \/ call[p].op = "update"
      BY <2>1
    <2> HIDE DEF w
    <2> QED
      BY <1>typed, <2>1, <2>2, <2>3, <2>4, <2>5, <2>6, <2>7, <2>8, OneMoreWrite
  <1>8. ASSUME NEW p \in Procs, LockForDelete(p) PROVE IInv'
    <2> DEFINE w == [id |-> call[p].id, row |-> NoRow]
    <2>1. pc[p] = "exec" /\ call[p].op = "delete"
      BY <1>8, <1>typed, AcceptedCall DEF LockForDelete
    <2>2. wr' = [wr EXCEPT ![p] = w] /\ wr'[p] = w
      BY <1>8, <1>typed DEF LockForDelete, TypeOK
    <2>3. w \in Write
      BY <1>8 DEF LockForDelete, Live, Write, Ids
    <2>4. VersionCurrent(p)'
      BY <1>8, <2>1, <2>2 DEF LockForDelete, VersionCurrent, Live
    <2>5. w.id \in 1..seq'
      <3>1. call[p].id \in Ids /\ Live(table, call[p].id) /\ seq' = seq
        BY <1>8 DEF LockForDelete, Live
      <3>2. call[p].id \in 1..seq
        BY <3>1, <1>sound, <1>seq DEF IdsDrawn, Ids
      <3> QED
        BY <3>1, <3>2
    <2>6. \A q \in Procs \ {p} : wr[q].id # w.id
      BY <1>8 DEF LockForDelete, RowHolders
    <2>7. /\ table' = table /\ call' = call /\ seq' >= seq
          /\ pc' = [pc EXCEPT ![p] = "commit"]
      BY <1>8, <1>seq DEF LockForDelete, Goto
    <2>8. w.row = NoRow \/ call[p].op = "update"
      BY <2>1
    <2> HIDE DEF w
    <2> QED
      BY <1>typed, <2>1, <2>2, <2>3, <2>4, <2>5, <2>6, <2>7, <2>8, OneMoreWrite
  <1>9. ASSUME NEW p \in Procs, PlaceKey(p) PROVE IInv'
    <2>1. /\ table' = table /\ seq' = seq /\ wr' = wr /\ call' = call
          /\ pc[p] = "key" /\ pc'[p] = "commit"
          /\ \A q \in Procs \ {p} : pc'[q] = pc[q]
      BY <1>9, <1>typed DEF PlaceKey, AtKey, Goto, TypeOK
    <2>2. UniqueSubscription' /\ EndAfterStart' /\ IdsDrawn' /\ OneWriterPerRow'
      BY <2>1, <1>sound DEF IInv, UniqueSubscription, EndAfterStart, IdsDrawn, OneWriterPerRow,
         Live, Key
    <2>3. WritesInProgress'
      BY <2>1, <1>sound DEF WritesInProgress
    <2>4. \A q \in Procs : wr'[q] # NoWrite => VersionCurrent(q)'
      BY <2>1 DEF IInv, WritesSound, VersionCurrent, Live
    <2>5. PlacedKeysFree'
      <3>1. ~KeyTaken(p) /\ \A q \in Procs \ {p} : Placed(q) => Key(wr[q].row) # Key(wr[p].row)
        BY <1>9 DEF PlaceKey, AtKey, KeyHolders
      <3>2. \A q \in Procs \ {p} : Placed(q)' <=> Placed(q)
        BY <2>1 DEF Placed
      <3>3. \A q \in Procs : KeyTaken(q)' <=> KeyTaken(q)
        BY <2>1 DEF KeyTaken, Live
      <3> QED
        BY <2>1, <3>1, <3>2, <3>3, <1>sound DEF PlacedKeysFree
    <2> QED
      BY <1>typed, <2>2, <2>3, <2>4, <2>5 DEF IInv, WritesSound
  <1>10. ASSUME NEW p \in Procs, Commit(p) PROVE IInv'
    <2> DEFINE i == wr[p].id
    <2>1. /\ pc[p] = "commit" /\ table' = [table EXCEPT ![i] = wr[p].row]
          /\ wr'[p] = NoWrite /\ pc'[p] = "committed" /\ seq' = seq /\ call' = call
          /\ \A q \in Procs \ {p} : wr'[q] = wr[q] /\ pc'[q] = pc[q]
      BY <1>10, <1>typed DEF Commit, Goto, TypeOK
    <2>2. wr[p] # NoWrite /\ i \in Ids /\ i <= seq /\ VersionCurrent(p)
      BY <2>1, <1>sound, <1>typed, WriteFields DEF IInv, WritesSound, WritesInProgress, Ids, IdsDrawn
    <2>3. table'[i] = wr[p].row /\ \A j \in Ids \ {i} : table'[j] = table[j]
      BY <2>1, <2>2, <1>typed DEF TypeOK
    <2>4. wr[p].row # NoRow => Placed(p) /\ ~KeyTaken(p) /\ ValidRow(wr[p].row)
      BY <2>1, <2>2, <1>sound DEF Placed, PlacedKeysFree, VersionCurrent
    <2>5. UniqueSubscription'
      BY <2>3, <2>4 DEF IInv, UniqueSubscription, KeyTaken, Live
    <2>6. EndAfterStart'
      <3> SUFFICES ASSUME NEW j \in Ids, Live(table', j)
                   PROVE  /\ Later(table'[j].end, table'[j].start)
                          /\ Months(table'[j].start) <= Months(table'[j].end)
        BY DEF EndAfterStart
      <3>1. CASE j = i
        <4>1. wr[p].row \in Row /\ ValidRow(wr[p].row)
          BY <3>1, <2>3, <2>4, <1>typed, WriteFields DEF Live
        <4> QED
          BY <4>1, <3>1, <2>3, LaterMonths DEF ValidRow, Row
      <3>2. CASE j # i
        BY <3>2, <2>3 DEF IInv, EndAfterStart, Live
      <3> QED
        BY <3>1, <3>2
    <2>7. IdsDrawn'
      <3>1. \A q \in Procs : wr'[q].id <= seq'
        BY <2>1, <1>sound, <1>seq DEF IdsDrawn, NoWrite
      <3> QED
        BY <3>1, <2>1, <2>2, <2>3, <1>sound DEF IdsDrawn, Live
    <2>8. WritesInProgress'
      BY <2>1, <1>sound DEF WritesInProgress, NoWrite
    <2>9. OneWriterPerRow'
      BY <2>1, <1>sound DEF OneWriterPerRow, WritesInProgress, NoWrite
    <2>10. ASSUME NEW q \in Procs, wr'[q] # NoWrite
           PROVE  q # p /\ wr[q].id # i /\ (wr[q].id \in Ids => table'[wr[q].id] = table[wr[q].id])
      BY <2>10, <2>1, <2>2, <2>3, <1>sound DEF OneWriterPerRow
    <2>11. \A q \in Procs : wr'[q] # NoWrite => VersionCurrent(q)'
      BY <2>10, <2>1 DEF IInv, WritesSound, VersionCurrent, Live
    <2>12. PlacedKeysFree'
      <3>1. \A q \in Procs : Placed(q)' => q # p /\ Placed(q)
        BY <2>1 DEF Placed
      <3>2. ASSUME NEW q \in Procs, Placed(q)', KeyTaken(q)' PROVE FALSE
        <4>1. q # p /\ Placed(q) /\ wr'[q] = wr[q] /\ ~KeyTaken(q)
          BY <3>1, <3>2, <2>1, <1>sound DEF PlacedKeysFree
        <4>2. PICK j \in Ids : j # wr[q].id /\ Live(table', j) /\ Key(table'[j]) = Key(wr[q].row)
          BY <3>2, <4>1 DEF KeyTaken
        <4>3. CASE j = i
          BY <4>1, <4>2, <4>3, <2>3, <2>4, <1>sound DEF Live, PlacedKeysFree
        <4>4. CASE j # i
          BY <4>1, <4>2, <4>4, <2>3 DEF Live, KeyTaken
        <4> QED
          BY <4>3, <4>4
      <3> QED
        BY <3>1, <3>2, <2>1, <1>sound DEF PlacedKeysFree
    <2> QED
      BY <1>typed, <2>5, <2>6, <2>7, <2>8, <2>9, <2>11, <2>12 DEF IInv, WritesSound
  <1>11. CASE UNCHANGED vars
    BY <1>11, <1>typed, <1>seq, FewerWrites DEF vars
  <1> QED
    BY <1>1, <1>3, <1>4, <1>5, <1>6, <1>7, <1>8, <1>9, <1>10, <1>11 DEF Next, Step

LEMMA Invariance == Spec => []IInv
  BY InitIInv, NextIInv, PTL DEF Spec

(* No two stored subscriptions share service and user.                     *)
THEOREM Unique == Spec => []UniqueSubscription
  BY Invariance, PTL DEF IInv

(* Every stored subscription ends on a later day than it starts, and in a  *)
(* month that is not earlier.                                              *)
THEOREM Ends == Spec => []EndAfterStart
  BY Invariance, PTL DEF IInv

(* No update is lost: what a transaction is about to commit was made of    *)
(* the committed row, which it alone changes.                              *)
THEOREM Writes == Spec => []WritesSound
  BY Invariance, PTL DEF IInv

(***************************************************************************)
(* Deadlocks.  A transaction that others wait for has a version; if it     *)
(* waits itself, that version still waits for its key; and nobody waits    *)
(* for the new row of a create before its key is in the index.             *)
(***************************************************************************)
LEMMA WaitedFor ==
    ASSUME IInv, NEW p \in Procs, NEW q \in Procs \ {p}, p \in WaitsFor(q)
    PROVE  pc[p] = "commit" \/ (pc[p] = "key" /\ call[p].op = "update")
  <1>1. (wr[p].id \in Ids /\ Live(table, wr[p].id)) \/ Placed(p)
    <2>1. CASE pc[q] = "key"
      BY <2>1 DEF WaitsFor, KeyHolders, Live
    <2>2. CASE pc[q] = "exec" /\ call[q].op \in {"update", "delete"}
      BY <2>2 DEF WaitsFor, RowHolders, Live
    <2> QED
      BY <2>1, <2>2 DEF WaitsFor
  <1>2. CASE Placed(p)
    BY <1>2 DEF Placed
  <1>3. CASE wr[p].id \in Ids /\ Live(table, wr[p].id)
    <2>1. wr[p] # NoWrite
      BY <1>3, IdFacts DEF NoWrite
    <2>2. VersionCurrent(p) /\ pc[p] \in {"key", "commit"}
      BY <2>1 DEF IInv, WritesSound, WritesInProgress
    <2>3. pc[p] = "key" => call[p].op \in {"create", "update"}
      BY DEF IInv, WritesSound, WritesInProgress
    <2> QED
      BY <1>3, <2>2, <2>3 DEF VersionCurrent
  <1> QED
    BY <1>1, <1>2, <1>3

(* A create or a delete is never the victim of the deadlock detector.      *)
THEOREM Deadlocks == Spec => []OnlyUpdatesDeadlock
  <1>1. ASSUME IInv, NEW p \in Procs, Deadlocked(p) PROVE call[p].op = "update"
    <2>1. WaitsFor(p) # {}
      <3> SUFFICES ASSUME WaitsFor(p) = {} PROVE FALSE
        OBVIOUS
      <3> QED
        BY <1>1 DEF Deadlocked
    <2>2. p \notin WaitsFor(p) /\ \A q \in Procs : WaitsFor(q) \subseteq Procs
      BY DEF WaitsFor, KeyHolders, RowHolders
    <2>3. PICK q \in Procs \ {p} : p \in WaitsFor(q)
      <3> SUFFICES ASSUME \A q \in Procs \ {p} : p \notin WaitsFor(q) PROVE FALSE
        OBVIOUS
      <3> DEFINE S == Procs \ {p}
      <3>1. S \in SUBSET Procs /\ p \notin S
        OBVIOUS
      <3>2. WaitsFor(p) \subseteq S /\ \A q \in S : WaitsFor(q) \subseteq S
        BY <2>2
      <3> QED
        BY <1>1, <3>1, <3>2 DEF Deadlocked
    <2>4. pc[p] # "commit"
      BY <2>1 DEF WaitsFor
    <2> QED
      BY <1>1, <2>3, <2>4, WaitedFor
  <1>2. IInv => OnlyUpdatesDeadlock
    BY <1>1 DEF OnlyUpdatesDeadlock
  <1> QED
    BY <1>2, Invariance, PTL

(***************************************************************************)
(* Identity.                                                               *)
(***************************************************************************)
LEMMA NextKeepsUser ==
    ASSUME IInv, [Next]_vars, NEW i \in Ids
    PROVE  UserKept(i)
  <1>1. CASE table' = table
    BY <1>1 DEF UserKept
  <1>2. CASE table' # table
    <2>1. PICK p \in Procs : Commit(p)
      BY <1>2 DEF Next, Step, vars, Invoke, Reject, Acquire, AcquireFails, Refused, InsertExhausted,
         InsertRejected, Insert, Missing, UpdateRejected, LockForUpdate, LockForDelete, PlaceKey,
         DuplicateKey, DeadlockVictim, Select, SelectNone, Receive, ConnLost, ReplyLost, Close, GiveUp
    <2>2. table' = [table EXCEPT ![wr[p].id] = wr[p].row] /\ table \in [Ids -> Row \cup {NoRow}]
      BY <2>1 DEF Commit, IInv, TypeOK
    <2>3. CASE i # wr[p].id
      BY <2>2, <2>3 DEF UserKept
    <2>4. CASE i = wr[p].id
      <3>1. wr[p] # NoWrite
        BY <2>1 DEF Commit, IInv, WritesSound, WritesInProgress
      <3>2. VersionCurrent(p)
        BY <3>1 DEF IInv, WritesSound
      <3>3. table'[i] = wr[p].row
        BY <2>2, <2>4
      <3> QED
        BY <2>4, <3>2, <3>3 DEF VersionCurrent, Live, Merged, UserKept
    <2> QED
      BY <2>3, <2>4
  <1> QED
    BY <1>1, <1>2

(* A step takes a retired id back only by storing a row or a version there.*)
LEMMA RetiredUntouched ==
    ASSUME IInv, NEW i \in Ids, Retired(i),
           seq' \in Nat, seq' >= seq, table'[i] = table[i],
           \A q \in Procs : wr'[q].id # i
    PROVE  Retired(i)'
  <1>1. seq \in Nat /\ i \in Nat
    BY IdFacts DEF IInv, TypeOK
  <1>2. i <= seq'
    BY <1>1 DEF Retired
  <1> QED
    BY <1>2 DEF Retired, Live

LEMMA RetiredElsewhere ==
    ASSUME IInv, NEW i \in Ids, Retired(i), NEW p \in Procs,
           NEW w, w.id # i, wr' = [wr EXCEPT ![p] = w]
    PROVE  \A q \in Procs : wr'[q].id # i
  <1> SUFFICES ASSUME NEW q \in Procs PROVE wr'[q].id # i
    OBVIOUS
  <1>1. wr'[q] = IF q = p THEN w ELSE wr[q]
    BY DEF IInv, TypeOK
  <1>2. wr[q].id # i
    BY DEF Retired
  <1> QED
    BY <1>1, <1>2

LEMMA NextKeepsRetired ==
    ASSUME IInv, [Next]_vars, NEW i \in Ids, Retired(i)
    PROVE  Retired(i)'
  <1> USE DEF GiveUp
  <1>1. seq \in Nat /\ i \in Nat /\ i # 0 /\ NoWrite.id = 0 /\ NoWrite.id # i
    BY IdFacts DEF IInv, TypeOK, NoWrite
  <1>2. ASSUME NEW p \in Procs, wr' = [wr EXCEPT ![p] = NoWrite], table' = table,
               seq' = seq \/ seq' = seq + 1
        PROVE  Retired(i)'
    <2>1. \A q \in Procs : wr'[q].id # i
      BY <1>1, <1>2, RetiredElsewhere
    <2>2. seq' \in Nat /\ seq' >= seq
      BY <1>1, <1>2
    <2> QED
      BY <1>2, <2>1, <2>2, RetiredUntouched
  <1>3. ASSUME NEW p \in Procs,
               \/ Reject(p) \/ Refused(p) \/ InsertExhausted(p) \/ InsertRejected(p)
               \/ Missing(p) \/ UpdateRejected(p) \/ DuplicateKey(p) \/ DeadlockVictim(p)
               \/ ConnLost(p) \/ ReplyLost(p)
        PROVE  Retired(i)'
    BY <1>2, <1>3 DEF Reject, Refused, InsertExhausted, InsertRejected, Missing, UpdateRejected,
       DuplicateKey, DeadlockVictim, ConnLost, ReplyLost
  <1>4. ASSUME NEW p \in Procs, Insert(p) PROVE Retired(i)'
    <2> DEFINE w == [id |-> seq + 1, row |-> NewRow(call[p])]
    <2>1. seq' = seq + 1 /\ table' = table /\ wr' = [wr EXCEPT ![p] = w]
      BY <1>4 DEF Insert
    <2>2. w.id # i
      BY <1>1 DEF Retired
    <2>3. \A q \in Procs : wr'[q].id # i
      BY <2>1, <2>2, RetiredElsewhere
    <2>4. seq' \in Nat /\ seq' >= seq
      BY <1>1, <2>1
    <2> QED
      BY <2>1, <2>3, <2>4, RetiredUntouched
  <1>5. ASSUME NEW p \in Procs, LockForUpdate(p) \/ LockForDelete(p) PROVE Retired(i)'
    <2>1. Live(table, call[p].id) /\ seq' = seq /\ table' = table
      BY <1>5 DEF LockForUpdate, LockForDelete
    <2>2. PICK w : wr' = [wr EXCEPT ![p] = w] /\ w.id = call[p].id
      BY <1>5 DEF LockForUpdate, LockForDelete
    <2>3. w.id # i
      BY <2>1, <2>2 DEF Retired
    <2>4. \A q \in Procs : wr'[q].id # i
      BY <2>2, <2>3, RetiredElsewhere
    <2>5. seq' \in Nat /\ seq' >= seq
      BY <1>1, <2>1
    <2> QED
      BY <2>1, <2>4, <2>5, RetiredUntouched
  <1>6. ASSUME NEW p \in Procs, Commit(p) PROVE Retired(i)'
    <2>1. table' = [table EXCEPT ![wr[p].id] = wr[p].row] /\ table \in [Ids -> Row \cup {NoRow}]
          /\ wr' = [wr EXCEPT ![p] = NoWrite] /\ seq' = seq
      BY <1>6 DEF Commit, IInv, TypeOK
    <2>2. table'[i] = table[i]
      BY <2>1 DEF Retired
    <2>3. \A q \in Procs : wr'[q].id # i
      BY <1>1, <2>1, RetiredElsewhere
    <2>4. seq' \in Nat /\ seq' >= seq
      BY <1>1, <2>1
    <2> QED
      BY <2>2, <2>3, <2>4, RetiredUntouched
  <1>7. ASSUME UNCHANGED <<table, seq, wr>> PROVE Retired(i)'
    BY <1>7 DEF Retired, Live
  <1>8. ASSUME NEW p \in Procs,
               \/ \E c \in Calls : Invoke(p, c)
               \/ Acquire(p) \/ AcquireFails(p) \/ PlaceKey(p)
               \/ Select(p) \/ SelectNone(p) \/ Receive(p) \/ Close(p)
        PROVE  Retired(i)'
    BY <1>7, <1>8 DEF Invoke, Acquire, AcquireFails, PlaceKey, Select, SelectNone, Receive, Close
  <1> QED
    BY <1>3, <1>4, <1>5, <1>6, <1>7, <1>8 DEF Next, Step, vars

LEMMA NextKeepsIdentity == IInv /\ [Next]_vars => IdentityKept
  BY NextKeepsUser, NextKeepsRetired DEF IdentityKept

(* An id stands for one subscription for ever.                             *)
THEOREM Identity == Spec => IdentityStable
  <1>1. IInv /\ [Next]_vars => [IdentityKept]_vars
    BY NextKeepsIdentity
  <1> QED
    BY <1>1, Invariance, PTL DEF Spec, IdentityStable

(***************************************************************************)
(* The pool.                                                               *)
(***************************************************************************)
Connected == {"exec", "key", "commit", "committed", "read"}
PoolInv == IsFiniteSet(conns) /\ PoolAccounted

LEMMA InitPoolInv == Init => PoolInv
  BY FS_EmptySet, PoolAssumption DEF Init, PoolInv, PoolAccounted

(* A caller moves on with, or without, the connection it has.              *)
LEMMA PoolUntouched ==
    ASSUME TypeOK, PoolInv, conns' = conns, queue' = queue, NEW p \in Procs, NEW l \in PCs,
           pc' = [pc EXCEPT ![p] = l],
           pc[p] # "acquire", l # "acquire",
           l \in Connected => p \in conns,
           p \in conns => l \in Connected \cup {"closing"}
    PROVE  PoolInv'
  BY DEF PoolInv, PoolAccounted, TypeOK, Connected

Waits(q) == \E n \in DOMAIN queue : queue[n] = q

(* The first of the queue leaves it, the others stay.                      *)
LEMMA QueueTail ==
    ASSUME TypeOK, PoolInv, NEW p \in Procs, Admitted(p)
    PROVE  /\ \A q \in Procs : Waits(q)' <=> q # p /\ Waits(q)
           /\ \A m, n \in DOMAIN queue' : queue'[m] = queue'[n] => m = n
  <1>1. queue \in Seq(Procs) /\ queue # <<>> /\ queue' = Tail(queue) /\ queue[1] = p
    BY DEF TypeOK, Admitted
  <1>2. DOMAIN queue = 1..Len(queue) /\ Len(queue) \in Nat /\ Len(queue) >= 1
    BY <1>1
  <1>3. DOMAIN queue' = 1..Len(queue) - 1 /\ \A n \in DOMAIN queue' : queue'[n] = queue[n + 1]
    BY <1>1, <1>2
  <1>4. \A m, n \in DOMAIN queue : queue[m] = queue[n] => m = n
    BY DEF PoolInv, PoolAccounted
  <1>5. \A m, n \in DOMAIN queue' : queue'[m] = queue'[n] => m = n
    BY <1>2, <1>3, <1>4
  <1>6. ASSUME NEW q \in Procs, Waits(q)' PROVE q # p /\ Waits(q)
    <2>1. PICK n \in DOMAIN queue' : queue'[n] = q
      BY <1>6 DEF Waits
    <2>2. n + 1 \in DOMAIN queue /\ n + 1 # 1 /\ queue[n + 1] = q /\ 1 \in DOMAIN queue
      BY <2>1, <1>2, <1>3
    <2> QED
      BY <2>2, <1>1, <1>4 DEF Waits
  <1>7. ASSUME NEW q \in Procs, q # p, Waits(q) PROVE Waits(q)'
    <2>1. PICK n \in DOMAIN queue : queue[n] = q
      BY <1>7 DEF Waits
    <2>2. n - 1 \in DOMAIN queue' /\ queue'[n - 1] = q
      BY <2>1, <1>1, <1>2, <1>3, <1>7
    <2> QED
      BY <2>2 DEF Waits
  <1> QED
    BY <1>5, <1>6, <1>7

LEMMA QueueAppend ==
    ASSUME TypeOK, PoolInv, NEW p \in Procs, pc[p] = "idle", queue' = Append(queue, p)
    PROVE  /\ \A q \in Procs : Waits(q)' <=> q = p \/ Waits(q)
           /\ \A m, n \in DOMAIN queue' : queue'[m] = queue'[n] => m = n
  <1>1. queue \in Seq(Procs) /\ ~Waits(p)
    BY DEF TypeOK, PoolInv, PoolAccounted, Waits
  <1>2. /\ DOMAIN queue = 1..Len(queue) /\ Len(queue) \in Nat
        /\ DOMAIN queue' = 1..Len(queue) + 1
        /\ queue'[Len(queue) + 1] = p
        /\ \A n \in DOMAIN queue : queue'[n] = queue[n]
    BY <1>1
  <1>3. \A n \in DOMAIN queue' : n \in DOMAIN queue \/ n = Len(queue) + 1
    BY <1>2
  <1>4. DOMAIN queue \subseteq DOMAIN queue' /\ Len(queue) + 1 \in DOMAIN queue'
    BY <1>2
  <1>5. \A q \in Procs : Waits(q)' <=> q = p \/ Waits(q)
    BY <1>2, <1>3, <1>4 DEF Waits
  <1>6. \A m, n \in DOMAIN queue' : queue'[m] = queue'[n] => m = n
    BY <1>1, <1>2, <1>3 DEF PoolInv, PoolAccounted, Waits
  <1> QED
    BY <1>5, <1>6

LEMMA NextPoolInv == TypeOK /\ PoolInv /\ [Next]_vars => PoolInv'
  <1> SUFFICES ASSUME TypeOK, PoolInv, [Next]_vars PROVE PoolInv'
    OBVIOUS
  <1>1. ASSUME NEW p \in Procs, NEW c \in Calls, Invoke(p, c) PROVE PoolInv'
    <2>1. pc[p] = "idle" /\ p \notin conns /\ conns' = conns
      BY <1>1 DEF Invoke, PoolInv, PoolAccounted
    <2>2. CASE Mispaired(c)
      BY <1>1, <2>1, <2>2, PoolUntouched DEF Invoke, Goto, PCs, Connected
    <2>3. CASE ~Mispaired(c)
      <3>1. pc' = [pc EXCEPT ![p] = "acquire"] /\ queue' = Append(queue, p)
        BY <1>1, <2>3 DEF Invoke, Goto
      <3>2. \A q \in Procs : pc'[q] = IF q = p THEN "acquire" ELSE pc[q]
        BY <3>1 DEF TypeOK
      <3>3. /\ \A q \in Procs : Waits(q)' <=> q = p \/ Waits(q)
            /\ \A m, n \in DOMAIN queue' : queue'[m] = queue'[n] => m = n
        BY <2>1, <3>1, QueueAppend
      <3>4. \A q \in Procs : pc'[q] = "acquire" <=> Waits(q)'
        BY <3>2, <3>3 DEF PoolInv, PoolAccounted, Waits
      <3> QED
        BY <2>1, <3>2, <3>3, <3>4 DEF PoolInv, PoolAccounted, TypeOK, Waits
    <2> QED
      BY <2>2, <2>3
  <1>2. ASSUME NEW p \in Procs, Acquire(p) PROVE PoolInv'
    <2>1. /\ Admitted(p) /\ conns' = conns \cup {p} /\ pc' = [pc EXCEPT ![p] = "exec"]
          /\ pc[p] = "acquire" /\ p \notin conns
      BY <1>2 DEF Acquire, Admitted, Goto, PoolInv, PoolAccounted
    <2>2. IsFiniteSet(conns') /\ Cardinality(conns') <= MaxConns
      <3>1. IsFiniteSet(conns') /\ Cardinality(conns') = Cardinality(conns) + 1
        BY <2>1, FS_AddElement DEF PoolInv
      <3>2. Cardinality(conns) \in Nat /\ Cardinality(conns) < MaxConns
        BY <2>1, FS_CardinalityType DEF PoolInv, Admitted
      <3> QED
        BY <3>1, <3>2, PoolAssumption
    <2> QED
      BY <2>1, <2>2, QueueTail DEF PoolInv, PoolAccounted, TypeOK, Waits
  <1>3. ASSUME NEW p \in Procs, AcquireFails(p) PROVE PoolInv'
    <2>1. /\ Admitted(p) /\ conns' = conns /\ pc' = [pc EXCEPT ![p] = "closing"]
          /\ pc[p] = "acquire" /\ p \notin conns
      BY <1>3 DEF AcquireFails, Admitted, Answer, Goto, PoolInv, PoolAccounted
    <2> QED
      BY <2>1, QueueTail DEF PoolInv, PoolAccounted, TypeOK, Waits
  <1>4. ASSUME NEW p \in Procs, Close(p) PROVE PoolInv'
    <2>1. /\ conns' = conns \ {p} /\ queue' = queue
          /\ pc' = [pc EXCEPT ![p] = "idle"] /\ pc[p] = "closing"
      BY <1>4 DEF Close, Goto
    <2>2. IsFiniteSet(conns') /\ Cardinality(conns') <= MaxConns
      <3>1. IsFiniteSet(conns') /\ Cardinality(conns') <= Cardinality(conns)
        BY <2>1, FS_Subset DEF PoolInv
      <3>2. /\ Cardinality(conns) \in Nat /\ Cardinality(conns') \in Nat
            /\ Cardinality(conns) <= MaxConns
        BY <3>1, FS_CardinalityType DEF PoolInv, PoolAccounted
      <3> QED
        BY <3>1, <3>2, PoolAssumption
    <2> QED
      BY <2>1, <2>2 DEF PoolInv, PoolAccounted, TypeOK
  <1>5. ASSUME NEW p \in Procs, Reject(p) PROVE PoolInv'
    <2>1. pc[p] = "reject" /\ p \notin conns
      BY <1>5 DEF Reject, PoolInv, PoolAccounted
    <2> QED
      BY <1>5, <2>1, PoolUntouched DEF Reject, GiveUp, Answer, Goto, PCs, Connected
  <1>6. ASSUME NEW p \in Procs,
               Refused(p) \/ InsertExhausted(p) \/ InsertRejected(p) \/ Insert(p) \/ Missing(p)
                 \/ UpdateRejected(p) \/ LockForUpdate(p) \/ LockForDelete(p) \/ PlaceKey(p)
                 \/ DuplicateKey(p) \/ DeadlockVictim(p) \/ Commit(p) \/ Select(p) \/ SelectNone(p)
                 \/ Receive(p) \/ ConnLost(p) \/ ReplyLost(p)
        PROVE  PoolInv'
    <2>1. pc[p] \in Connected
      BY <1>6 DEF Refused, InsertExhausted, InsertRejected, Insert, Missing, UpdateRejected,
         LockForUpdate, LockForDelete, PlaceKey, DuplicateKey, AtKey, DeadlockVictim, Commit, Select,
         SelectNone, Receive, ConnLost, ReplyLost, Accepted, Connected
    <2>2. conns' = conns /\ queue' = queue
      BY <1>6 DEF Refused, InsertExhausted, InsertRejected, Insert, Missing, UpdateRejected,
         LockForUpdate, LockForDelete, PlaceKey, DuplicateKey, DeadlockVictim, Commit, Select,
         SelectNone, Receive, ConnLost, ReplyLost, GiveUp
    <2>3. PICK l \in Connected \cup {"closing"} : pc' = [pc EXCEPT ![p] = l]
      BY <1>6 DEF Refused, InsertExhausted, InsertRejected, Insert, Missing, UpdateRejected,
         LockForUpdate, LockForDelete, PlaceKey, DuplicateKey, DeadlockVictim, Commit, Select,
         SelectNone, Receive, ConnLost, ReplyLost, GiveUp, Answer, Goto, Connected
    <2>4. p \in conns
      BY <2>1 DEF PoolInv, PoolAccounted, Connected
    <2> QED
      BY <2>1, <2>2, <2>3, <2>4, PoolUntouched DEF Connected, PCs
  <1>7. CASE UNCHANGED vars
    BY <1>7 DEF vars, PoolInv, PoolAccounted
  <1> QED
    BY <1>1, <1>2, <1>3, <1>4, <1>5, <1>6, <1>7 DEF Next, Step

(* The pool of MaxConns connections never shrinks: only a caller inside a  *)
(* method holds one, and the queue holds exactly the callers waiting.      *)
THEOREM Pool == Spec => []PoolAccounted
  <1>1. Init => TypeOK /\ PoolInv
    BY InitTypeOK, InitPoolInv
  <1>2. TypeOK /\ PoolInv /\ [Next]_vars => TypeOK' /\ PoolInv'
    BY NextTypeOK, NextPoolInv
  <1>3. PoolInv => PoolAccounted
    BY DEF PoolInv
  <1> QED
    BY <1>1, <1>2, <1>3, PTL DEF Spec
(***************************************************************************)
(* Progress.  Take callers none of which can go on, closed under what they *)
(* wait for.  One of them holds a connection, or the first of the queue    *)
(* would get one; it waits in the server, for updates that wait for their  *)
(* keys; and in a smallest closed set of these each waits for itself, so   *)
(* the detector ends it.                                                   *)
(***************************************************************************)

(* Updates of a finite set that wait for one another: some are deadlocked. *)
LEMMA CircleFound ==
    ASSUME NEW K \in SUBSET Procs, IsFiniteSet(K), K # {},
           \A k \in K : WaitsFor(k) # {} /\ WaitsFor(k) \subseteq K
    PROVE  \E k \in K : Deadlocked(k)
  <1> DEFINE Closed == {T \in SUBSET K : T # {} /\ \A t \in T : WaitsFor(t) \subseteq T}
  <1>1. PICK T \in Closed : \A U \in Closed : U \subseteq T => U = T
    <2>1. Closed \subseteq SUBSET K /\ K \in Closed
      OBVIOUS
    <2> HIDE DEF Closed
    <2> QED
      BY <2>1, LeastSet
  <1>2. PICK t \in T : TRUE
    OBVIOUS
  <1>3. ASSUME NEW S \in SUBSET Procs, WaitsFor(t) \subseteq S,
               \A q \in S : WaitsFor(q) \subseteq S
        PROVE  t \in S
    <2>1. WaitsFor(t) \subseteq T /\ WaitsFor(t) # {}
      BY <1>1
    <2>2. T \cap S \in Closed
      BY <1>1, <1>3, <2>1
    <2>3. T \cap S = T
      BY <1>1, <2>2
    <2> QED
      BY <1>2, <2>3
  <1> QED
    BY <1>1, <1>2, <1>3 DEF Deadlocked

LEMMA SomeoneReady ==
    ASSUME IInv, PoolInv, NEW p \in Procs, pc[p] # "idle",
           NEW S \in SUBSET Procs, p \in S, \A q \in S : Awaits(q) \subseteq S
    PROVE  \E q \in S : Ready(q)
  <1> SUFFICES ASSUME \A q \in S : ~Ready(q) PROVE FALSE
    OBVIOUS
  <1>1. ASSUME NEW q \in S, pc[q] # "idle", pc[q] # "acquire"
        PROVE  pc[q] \in {"exec", "key"} /\ WaitsFor(q) # {} /\ WaitsFor(q) \subseteq S
    <2>1. pc[q] \in PCs
      BY DEF IInv, TypeOK
    <2> QED
      BY <1>1, <2>1 DEF PCs, Ready, Awaits
  <1>2. \E q \in S : pc[q] # "idle" /\ pc[q] # "acquire"
    <2>1. CASE pc[p] # "acquire"
      BY <2>1
    <2>2. CASE pc[p] = "acquire" /\ Cardinality(conns) < MaxConns
      <3>1. Head(queue) \in S
        BY <2>2 DEF Awaits
      <3>2. queue \in Seq(Procs) /\ \E n \in DOMAIN queue : queue[n] = p
        BY <2>2 DEF IInv, TypeOK, PoolInv, PoolAccounted
      <3>3. 1 \in DOMAIN queue /\ queue[1] = Head(queue)
        BY <3>2
      <3>4. pc[Head(queue)] = "acquire"
        BY <3>1, <3>3 DEF PoolInv, PoolAccounted
      <3> QED
        BY <2>2, <3>1, <3>4 DEF Ready
    <2>3. CASE pc[p] = "acquire" /\ ~(Cardinality(conns) < MaxConns)
      <3>1. conns \subseteq S
        BY <2>3 DEF Awaits
      <3>2. conns # {}
        BY <2>3, FS_EmptySet, PoolAssumption
      <3> QED
        BY <3>1, <3>2 DEF PoolInv, PoolAccounted
    <2> QED
      BY <2>1, <2>2, <2>3
  <1> DEFINE K == {q \in S : pc[q] = "key"}
  <1>3. ASSUME NEW q \in S, pc[q] # "idle", pc[q] # "acquire"
        PROVE  WaitsFor(q) # {} /\ WaitsFor(q) \subseteq K
    <2>1. WaitsFor(q) # {} /\ WaitsFor(q) \subseteq S /\ WaitsFor(q) \subseteq Procs \ {q}
      BY <1>1, <1>3 DEF WaitsFor, KeyHolders, RowHolders
    <2>2. ASSUME NEW r \in WaitsFor(q) PROVE pc[r] = "key"
      <3>1. r \in S /\ r \in Procs /\ q \in Procs \ {r}
        BY <2>1
      <3>2. pc[r] = "commit" \/ pc[r] = "key"
        BY <3>1, WaitedFor
      <3> QED
        BY <3>1, <3>2 DEF Ready
    <2> QED
      BY <2>1, <2>2
  <1>4. K # {} /\ \A k \in K : WaitsFor(k) # {} /\ WaitsFor(k) \subseteq K
    BY <1>2, <1>3
  <1>5. IsFiniteSet(K)
    <2>1. K \subseteq conns
      BY DEF PoolInv, PoolAccounted
    <2> QED
      BY <2>1, FS_Subset DEF PoolInv
  <1>6. PICK k \in K : Deadlocked(k)
    <2>1. K \in SUBSET Procs
      OBVIOUS
    <2> HIDE DEF K
    <2> QED
      BY <1>4, <1>5, <2>1, CircleFound
  <1> QED
    BY <1>6 DEF Ready

(* No caller waits for ever for want of somebody who can go on, whatever   *)
(* the number of callers and of connections.                               *)
THEOREM Progress == Spec => []NobodyStranded
  <1>1. Spec => []PoolInv
    <2>1. Init => TypeOK /\ PoolInv
      BY InitTypeOK, InitPoolInv
    <2>2. TypeOK /\ PoolInv /\ [Next]_vars => TypeOK' /\ PoolInv'
      BY NextTypeOK, NextPoolInv
    <2> QED
      BY <2>1, <2>2, PTL DEF Spec
  <1>2. IInv /\ PoolInv => NobodyStranded
    BY SomeoneReady DEF NobodyStranded
  <1> QED
    BY <1>1, <1>2, Invariance, PTL

(***************************************************************************)
(* PostgresStorage implements SubscriptionStore, for any set of callers,   *)
(* calls, ids and any pool size.  The invariant is used at two steps: a    *)
(* commit of a create or update needs its key to be free and its version   *)
(* to be made of the current row, and "already exists" needs the row that  *)
(* has the key to be committed.                                            *)
(***************************************************************************)
LEMMA PhaseStep ==
    ASSUME TypeOK, NEW p \in Procs, NEW l \in PCs, pc' = [pc EXCEPT ![p] = l]
    PROVE  StorePhase' = [StorePhase EXCEPT ![p] = PhaseOf(l)] /\ StorePhase[p] = PhaseOf(pc[p])
  BY DEF TypeOK, StorePhase

LEMMA Phases ==
    /\ PhaseOf("idle") = "idle"
    /\ \A l \in {"committed", "read", "closing"} : PhaseOf(l) = "applied"
    /\ \A l \in {"reject", "acquire", "exec", "key", "commit"} : PhaseOf(l) = "called"
  BY DEF PhaseOf

(***************************************************************************)
(* What steps do to the ids that may still be assigned.                    *)
(***************************************************************************)
LEMMA FreshUnchanged ==
    ASSUME IInv, seq' = seq, wr' = wr,
           \A q \in Procs : wr[q] # NoWrite => call'[q] = call[q]
    PROVE  StoreFresh' = StoreFresh
  BY IdFacts DEF IInv, WritesSound, WritesInProgress, StoreFresh

LEMMA FreshShrinks ==
    ASSUME IInv, NEW p \in Procs, seq' \in Nat, seq' >= seq, call' = call,
           wr' = [wr EXCEPT ![p] = NoWrite]
    PROVE  StoreFresh' \in SUBSET StoreFresh
  <1>1. \A q \in Procs : wr'[q] = NoWrite \/ wr'[q] = wr[q]
    BY DEF IInv, TypeOK
  <1>2. seq \in Nat /\ \A i \in Ids : i \in Nat /\ i # 0
    BY IdFacts DEF IInv, TypeOK
  <1>3. \A i \in Ids : i > seq' => i > seq
    BY <1>2
  <1> QED
    BY <1>1, <1>2, <1>3 DEF StoreFresh, NoWrite

LEMMA FreshInsert ==
    ASSUME IInv, NEW p \in Procs, Insert(p)
    PROVE  StoreFresh' = StoreFresh
  <1>1. /\ seq \in Nat /\ seq' = seq + 1 /\ wr[p] = NoWrite /\ call' = call /\ call[p].op = "create"
        /\ wr'[p].id = seq + 1
        /\ \A q \in Procs \ {p} : wr'[q] = wr[q]
    BY IdFacts DEF Insert, Accepted, IInv, WritesSound, WritesInProgress, TypeOK
  <1>2. ASSUME NEW i \in Ids
        PROVE  i \in StoreFresh' <=> i \in StoreFresh
    <2>1. i \in Nat /\ i # 0
      BY IdFacts
    <2>2. i > seq <=> i > seq + 1 \/ i = seq + 1
      BY <2>1, <1>1
    <2>3. wr[p].id # i
      BY <1>1, <2>1 DEF NoWrite
    <2>4. (\E q \in Procs : call[q].op = "create" /\ wr'[q].id = i)
            <=> (i = seq + 1 \/ \E q \in Procs : call[q].op = "create" /\ wr[q].id = i)
      BY <1>1, <2>3
    <2> QED
      BY <1>1, <2>2, <2>4 DEF StoreFresh
  <1> QED
    BY <1>2 DEF StoreFresh

(***************************************************************************)
(* The two specifications use the same data.                               *)
(***************************************************************************)
LEMMA SameData ==
    /\ \A e : Store!Err(e) = Err(e)
    /\ \A i : Store!OkId(i) = OkId(i)
    /\ \A rs : Store!OkRows(rs) = OkRows(rs)
    /\ Store!NoReply = NoReply /\ Store!NoCall = NoCall
    /\ Store!Ids = Ids
  BY DEF Store!Err, Err, Store!OkId, OkId, Store!OkRows, OkRows, Store!NoReply, NoReply,
     Store!NoCall, NoCall, Store!Ids, Ids, Store!Seen, Seen, Store!AsRead, AsRead,
     Store!Month, Month

LEMMA SameRows ==
    /\ Store!Day = Day /\ Store!Row = Row
    /\ \A d : Store!Column(d) = Column(d)
    /\ \A x, y : Store!Later(x, y) <=> Later(x, y)
    /\ \A row : Store!Key(row) = Key(row)
    /\ \A row : Store!ValidRow(row) <=> ValidRow(row)
    /\ \A c : Store!NewRow(c) = NewRow(c)
    /\ \A row, c : Store!Merged(row, c) = Merged(row, c)
    /\ \A t, i : Store!Live(t, i) <=> Live(t, i)
  <1>1. Store!Day = Day
    <2>1. Store!LastYear = LastYear
      BY SMT DEF Store!LastYear, LastYear
    <2>2. Store!Years = Years
      BY <2>1 DEF Store!Years, Years
    <2> QED
      BY <2>2 DEF Store!Day, Day, Store!LengthOf, LengthOf
  <1>2. Store!Row = Row
    BY <1>1 DEF Store!Row, Row, Store!ColumnInt, ColumnInt
  <1>3. \A d : Store!Column(d) = Column(d)
    BY DEF Store!Column, Column
  <1>4. \A x, y : Store!Later(x, y) <=> Later(x, y)
    BY DEF Store!Later, Later, Store!GreaterThan, GreaterThan
  <1>5. /\ \A row : Store!Key(row) = Key(row)
        /\ \A row : Store!ValidRow(row) <=> ValidRow(row)
        /\ \A t, i : Store!Live(t, i) <=> Live(t, i)
    BY <1>4 DEF Store!Key, Key, Store!ValidRow, ValidRow, Store!Live, Live, Store!Ids, Ids
  <1>6. /\ \A c : Store!NewRow(c) = NewRow(c)
        /\ \A row, c : Store!Merged(row, c) = Merged(row, c)
    BY <1>3 DEF Store!NewRow, NewRow, Store!Merged, Merged, Store!ZeroDate, ZeroDate
  <1> QED
    BY <1>1, <1>2, <1>3, <1>4, <1>5, <1>6

LEMMA SameAnswers ==
    /\ \A t, c : Store!Answers(t, c) = Answers(t, c)
    /\ \A c, r : Store!BrokenReplies(c, r) = BrokenReplies(c, r)
  <1>1. \A t : Store!Entries(t) = Entries(t)
    BY SameData DEF Store!Entries, Entries
  <1>2. \A t, c : Store!GetAnswers(t, c) = GetAnswers(t, c)
    BY SameRows DEF Store!GetAnswers, GetAnswers
  <1>3. \A c : Store!Mispaired(c) <=> Mispaired(c)
    BY DEF Store!Mispaired, Mispaired
  <1>4. \A n, l, o : Store!PageSize(n, l, o) = PageSize(n, l, o)
    BY DEF Store!PageSize, PageSize
  <1>5. \A t, c : Store!ListAnswers(t, c) = ListAnswers(t, c)
    <2>1. \A S : Store!Cardinality(S) = Cardinality(S)
      BY DEF Store!Cardinality, Cardinality
    <2> QED
      BY <1>1, <1>3, <1>4, <2>1 DEF Store!ListAnswers, ListAnswers
  <1>6. \A d : Store!StorableDate(d) <=> StorableDate(d)
    BY SameRows DEF Store!StorableDate, StorableDate
  <1>7. \A row, c : Store!Matches(row, c) <=> Matches(row, c)
    BY SameRows DEF Store!Matches, Matches, Store!ServiceColumn, ServiceColumn
  <1>8. \A t, c : Store!FilterAnswers(t, c) = FilterAnswers(t, c)
    BY <1>1, <1>6, <1>7 DEF Store!FilterAnswers, FilterAnswers, Store!FilterDates, FilterDates
  <1>9. \A t, c : Store!Answers(t, c) = Answers(t, c)
    BY <1>2, <1>5, <1>8 DEF Store!Answers, Answers
  <1>10. \A c, r : Store!BrokenReplies(c, r) = BrokenReplies(c, r)
    BY SameData DEF Store!BrokenReplies, BrokenReplies
  <1> QED
    BY <1>9, <1>10

(***************************************************************************)
(* Every step maps to a step of the store or to a stutter.                 *)
(***************************************************************************)

(* A call that fails anywhere before it takes effect.                      *)
LEMMA FailStep ==
    ASSUME IInv, NEW p \in Procs, seq' \in Nat, seq' >= seq,
           pc[p] \in {"reject", "acquire", "exec", "key", "commit"},
           Answer(p, Err("other")), table' = table, call' = call,
           wr' = [wr EXCEPT ![p] = NoWrite]
    PROVE  Store!Fail(p)
  <1>1. StoreFresh' \in SUBSET StoreFresh
    BY FreshShrinks
  <1>2. StorePhase' = [StorePhase EXCEPT ![p] = "applied"] /\ StorePhase[p] = "called"
    BY PhaseStep, Phases DEF IInv, Answer, Goto, PCs
  <1> QED
    BY <1>1, <1>2, SameData DEF Store!Fail, Store!TakeEffect, Store!RowsUnchanged, Answer

LEMMA CommitStep ==
    ASSUME IInv, NEW p \in Procs, Commit(p)
    PROVE  Store!Create(p) \/ Store!Update(p) \/ Store!Delete(p)
  <1> DEFINE i == wr[p].id
             c == call[p]
  <1>1. /\ pc[p] = "commit" /\ seq' = seq /\ call' = call /\ wr' = [wr EXCEPT ![p] = NoWrite]
        /\ table' = [table EXCEPT ![i] = wr[p].row]
        /\ ret' = [ret EXCEPT ![p] = OkId(IF c.op = "create" THEN i ELSE 0)]
    BY DEF Commit, Goto
  <1>w. wr[p] # NoWrite /\ i \in Ids /\ i <= seq /\ VersionCurrent(p)
    <2>1. wr[p] # NoWrite /\ i # 0 /\ i <= seq /\ VersionCurrent(p)
      BY <1>1 DEF IInv, WritesSound, WritesInProgress, IdsDrawn
    <2> QED
      BY <2>1, WriteFields DEF IInv, Ids
  <1>2. StorePhase' = [StorePhase EXCEPT ![p] = "applied"] /\ StorePhase[p] = "called"
    <2>1. TypeOK /\ pc' = [pc EXCEPT ![p] = "committed"] /\ "committed" \in PCs
      BY DEF IInv, Commit, Goto, PCs
    <2> QED
      BY <1>1, <2>1, PhaseStep, Phases
  <1>3. \A q \in Procs \ {p} : wr'[q] = wr[q] /\ wr[q].id # i
    BY <1>1, <1>w DEF IInv, TypeOK, WritesSound, OneWriterPerRow
  <1>4. wr'[p].id = 0 /\ 0 \notin Ids
    BY <1>1, IdFacts DEF IInv, TypeOK, NoWrite
  <1>5. c.op \in {"create", "update"} => wr[p].row # NoRow /\ ValidRow(wr[p].row) /\ ~KeyTaken(p)
    BY <1>1, <1>w DEF VersionCurrent, Placed, IInv, WritesSound, PlacedKeysFree
  <1>r. c.op \in {"create", "update"} => wr[p].row \in Row
    BY <1>1, <1>5, WriteFields DEF IInv
  <1>6. CASE c.op = "create"
    <2>1. StoreFresh' = StoreFresh \ {i} /\ i \in StoreFresh
      <3>1. seq \in Nat /\ i \in Nat /\ ~(i > seq)
        <4>1. seq \in Nat
          BY IdFacts DEF IInv, TypeOK
        <4>2. i \in Nat /\ i <= seq
          BY <1>w, IdFacts
        <4> HIDE DEF i
        <4> QED
          BY <4>1, <4>2
      <3>2. i \in StoreFresh
        BY <1>6, <1>w DEF StoreFresh
      <3>3. i \notin StoreFresh'
        BY <1>1, <1>w, <1>3, <1>4, <3>1 DEF StoreFresh
      <3>4. \A j \in Ids \ {i} : (\E q \in Procs : call'[q].op = "create" /\ wr'[q].id = j)
                              <=> (\E q \in Procs : call[q].op = "create" /\ wr[q].id = j)
        BY <1>1, <1>3, <1>4
      <3> QED
        BY <1>1, <3>2, <3>3, <3>4 DEF StoreFresh
    <2>2. ~Store!KeyInUse(Key(NewRow(c)), 0)
      BY <1>6, <1>w, <1>5, SameRows, SameData DEF Store!KeyInUse, KeyTaken, VersionCurrent
    <2>3. wr[p].row = NewRow(c)
      BY <1>6, <1>w DEF VersionCurrent
    <2> QED
      BY <1>1, <1>2, <1>5, <1>6, <1>r, <2>1, <2>2, <2>3, SameRows, SameData
      DEF Store!Create, Store!TakeEffect
  <1>7. c.op # "create" => StoreFresh' = StoreFresh
    <2> SUFFICES ASSUME c.op # "create" PROVE StoreFresh' = StoreFresh
      OBVIOUS
    <2>1. \A q \in Procs, j \in Ids : call'[q].op = "create" /\ wr'[q].id = j
                                <=> call[q].op = "create" /\ wr[q].id = j
      BY <1>1, <1>3
    <2> QED
      BY <1>1, <2>1 DEF StoreFresh
  <1>8. CASE c.op = "update"
    <2>1. Live(table, c.id) /\ i = c.id /\ wr[p].row = Merged(table[i], c)
      BY <1>8, <1>w DEF VersionCurrent
    <2>2. ~Store!KeyInUse(Key(Merged(table[i], c)), i)
      BY <1>5, <1>8, <2>1, SameRows, SameData DEF Store!KeyInUse, KeyTaken
    <2> QED
      BY <1>1, <1>2, <1>5, <1>7, <1>8, <1>r, <2>1, <2>2, SameRows, SameData
      DEF Store!Update, Store!TakeEffect
  <1>9. CASE c.op = "delete"
    <2>1. Live(table, c.id) /\ i = c.id /\ wr[p].row = NoRow
      BY <1>9, <1>w DEF VersionCurrent
    <2> QED
      BY <1>1, <1>2, <1>7, <1>9, <2>1, SameRows, SameData DEF Store!Delete, Store!TakeEffect
  <1> QED
    BY <1>w, <1>6, <1>8, <1>9 DEF VersionCurrent

LEMMA MissingStep ==
    ASSUME IInv, NEW p \in Procs, Missing(p) \/ SelectNone(p)
    PROVE  Store!NotFound(p)
  <1>1. /\ pc[p] = "exec" /\ call[p].op \in {"update", "delete", "get"}
        /\ ~Live(table, call[p].id)
        /\ table' = table /\ call' = call /\ seq' = seq
        /\ ret' = [ret EXCEPT ![p] = Err("notfound")]
        /\ (pc' = [pc EXCEPT ![p] = "closing"] \/ pc' = [pc EXCEPT ![p] = "read"])
    BY DEF Missing, SelectNone, Accepted, GiveUp, Answer, Goto
  <1>2. wr[p] = NoWrite
    BY <1>1 DEF IInv, WritesSound, WritesInProgress
  <1>3. wr' = wr
    BY <1>2 DEF Missing, SelectNone, GiveUp, IInv, TypeOK
  <1>4. StoreFresh' = StoreFresh
    BY <1>1, <1>3, FreshUnchanged
  <1>5. StorePhase' = [StorePhase EXCEPT ![p] = "applied"] /\ StorePhase[p] = "called"
    <2>1. TypeOK /\ "closing" \in PCs /\ "read" \in PCs
      BY DEF IInv, PCs
    <2> QED
      BY <1>1, <2>1, PhaseStep, Phases
  <1> QED
    BY <1>1, <1>4, <1>5, SameRows, SameData DEF Store!NotFound, Store!TakeEffect

LEMMA DuplicateStep ==
    ASSUME IInv, NEW p \in Procs, DuplicateKey(p)
    PROVE  Store!CreateConflict(p) \/ Store!Fail(p)
  <1>1. /\ pc[p] = "key" /\ KeyTaken(p) /\ seq' \in Nat /\ seq' >= seq /\ table' = table /\ call' = call
        /\ wr' = [wr EXCEPT ![p] = NoWrite]
        /\ Answer(p, Err(IF call[p].op = "create" THEN "exists" ELSE "other"))
    BY IdFacts DEF DuplicateKey, AtKey, GiveUp, IInv, TypeOK
  <1>2. CASE call[p].op # "create"
    <2>1. pc[p] \in {"reject", "acquire", "exec", "key", "commit"} /\ Answer(p, Err("other"))
      BY <1>1, <1>2
    <2> QED
      BY <1>1, <2>1, FailStep
  <1>3. CASE call[p].op = "create"
    <2>1. wr[p] # NoWrite /\ VersionCurrent(p)
      BY <1>1 DEF IInv, WritesSound, WritesInProgress
    <2>2. wr[p].row = NewRow(call[p])
      BY <1>3, <2>1 DEF VersionCurrent
    <2>3. Store!KeyInUse(Key(NewRow(call[p])), 0)
      <3>1. PICK j \in Ids : Live(table, j) /\ Key(table[j]) = Key(NewRow(call[p]))
        BY <1>1, <2>2 DEF KeyTaken
      <3> QED
        BY <3>1, IdFacts, SameRows, SameData DEF Store!KeyInUse
    <2>4. StoreFresh' \in SUBSET StoreFresh
      BY <1>1, FreshShrinks
    <2>5. StorePhase' = [StorePhase EXCEPT ![p] = "applied"] /\ StorePhase[p] = "called"
      BY <1>1, PhaseStep, Phases DEF IInv, Answer, Goto, PCs
    <2> QED
      BY <1>1, <1>3, <2>3, <2>4, <2>5, SameRows, SameData
      DEF Store!CreateConflict, Store!RowsUnchanged, Store!TakeEffect, Answer
  <1> QED
    BY <1>2, <1>3

LEMMA SelectStep ==
    ASSUME IInv, NEW p \in Procs, Select(p)
    PROVE  Store!Read(p)
  <1>1. /\ pc[p] = "exec" /\ call[p].op \in {"get", "list", "filter"}
        /\ table' = table /\ call' = call /\ seq' = seq /\ wr' = wr
        /\ \E rs \in Answers(table, call[p]) : ret' = [ret EXCEPT ![p] = OkRows(rs)]
        /\ pc' = [pc EXCEPT ![p] = "read"]
    BY DEF Select, Accepted, Goto
  <1>2. StoreFresh' = StoreFresh
    BY <1>1, FreshUnchanged
  <1>3. StorePhase' = [StorePhase EXCEPT ![p] = "applied"] /\ StorePhase[p] = "called"
    BY <1>1, PhaseStep, Phases DEF IInv, PCs
  <1>4. PICK rs \in Answers(table, call[p]) : ret' = [ret EXCEPT ![p] = OkRows(rs)]
    BY <1>1
  <1>5. rs \in Store!Answers(table, call[p]) /\ Store!OkRows(rs) = OkRows(rs)
    <2>1. rs \in Answers(table, call[p])
      BY <1>4
    <2>2. Store!Answers(table, call[p]) = Answers(table, call[p])
      BY SameAnswers
    <2>3. Store!OkRows(rs) = OkRows(rs)
      BY SameData
    <2> QED
      BY <2>1, <2>2, <2>3
  <1>6. Store!TakeEffect(p, Store!OkRows(rs))
    BY <1>1, <1>3, <1>4, <1>5 DEF Store!TakeEffect
  <1> QED
    BY <1>1, <1>2, <1>5, <1>6 DEF Store!Read

LEMMA ReplyLostStep ==
    ASSUME IInv, NEW p \in Procs, ReplyLost(p)
    PROVE  Store!Degrade(p)
  <1>1. /\ pc[p] \in {"committed", "read"} /\ table' = table /\ call' = call /\ seq' = seq
        /\ \E r \in BrokenReplies(call[p], ret[p]) : ret' = [ret EXCEPT ![p] = r]
        /\ pc' = [pc EXCEPT ![p] = "closing"]
    BY DEF ReplyLost, GiveUp, Answer, Goto
  <1>2. wr[p] = NoWrite
    BY <1>1 DEF IInv, WritesSound, WritesInProgress
  <1>3. wr' = wr
    BY <1>2 DEF ReplyLost, GiveUp, IInv, TypeOK
  <1>4. StoreFresh' = StoreFresh
    BY <1>1, <1>3, FreshUnchanged
  <1>5. StorePhase' = [StorePhase EXCEPT ![p] = "applied"] /\ StorePhase[p] = "applied"
    <2>1. TypeOK /\ "closing" \in PCs
      BY DEF IInv, PCs
    <2>2. StorePhase' = [StorePhase EXCEPT ![p] = PhaseOf("closing")] /\ StorePhase[p] = PhaseOf(pc[p])
      BY <1>1, <2>1, PhaseStep
    <2>3. PhaseOf("closing") = "applied" /\ PhaseOf(pc[p]) = "applied"
      BY <1>1, Phases
    <2> QED
      BY <2>2, <2>3
  <1>6. StorePhase' = StorePhase
    BY <1>5 DEF StorePhase
  <1> QED
    BY <1>1, <1>4, <1>5, <1>6, SameAnswers DEF Store!Degrade

(* Steps the store does not see.                                           *)
LEMMA StutterStep ==
    ASSUME IInv, NEW p \in Procs,
           Acquire(p) \/ Insert(p) \/ LockForUpdate(p) \/ LockForDelete(p) \/ PlaceKey(p)
             \/ Receive(p) \/ UNCHANGED vars
    PROVE  UNCHANGED <<table, StoreFresh, StorePhase, call, ret>>
  <1>1. UNCHANGED <<table, call, ret>>
    BY DEF Acquire, Insert, LockForUpdate, LockForDelete, PlaceKey, Receive, vars
  <1>2. StorePhase' = StorePhase
    <2>1. CASE UNCHANGED vars
      BY <2>1 DEF vars, StorePhase
    <2>2. CASE Receive(p)
      <3>1. pc[p] \in {"committed", "read"} /\ pc' = [pc EXCEPT ![p] = "closing"]
        BY <2>2 DEF Receive, Goto
      <3> QED
        BY <3>1, Phases DEF StorePhase, IInv, TypeOK
    <2>3. ASSUME NEW l \in {"exec", "key", "commit"}, pc' = [pc EXCEPT ![p] = l],
                 pc[p] \in {"acquire", "exec", "key"}
          PROVE  StorePhase' = StorePhase
      BY <2>3, Phases DEF StorePhase, IInv, TypeOK
    <2> QED
      BY <2>1, <2>2, <2>3 DEF Acquire, Admitted, Insert, LockForUpdate, LockForDelete, Accepted,
         PlaceKey, AtKey, Goto
  <1>3. StoreFresh' = StoreFresh
    <2>1. CASE Insert(p)
      BY <2>1, FreshInsert
    <2>2. CASE LockForUpdate(p) \/ LockForDelete(p)
      <3>1. seq' = seq /\ call' = call /\ call[p].op # "create" /\ \E w : wr' = [wr EXCEPT ![p] = w]
        BY <2>2 DEF LockForUpdate, LockForDelete, Accepted
      <3>2. \A q \in Procs, i \in Ids : call'[q].op = "create" /\ wr'[q].id = i
                                  <=> call[q].op = "create" /\ wr[q].id = i
        BY <3>1 DEF IInv, TypeOK
      <3> QED
        BY <3>1, <3>2 DEF StoreFresh
    <2>3. CASE Acquire(p) \/ PlaceKey(p) \/ Receive(p) \/ UNCHANGED vars
      BY <2>3, FreshUnchanged DEF Acquire, PlaceKey, Receive, vars
    <2> QED
      BY <2>1, <2>2, <2>3
  <1> QED
    BY <1>1, <1>2, <1>3

LEMMA InvokeStep ==
    ASSUME IInv, NEW p \in Procs, NEW c \in Calls, Invoke(p, c)
    PROVE  Store!Invoke(p, c)
  <1>1. /\ pc[p] = "idle" /\ call' = [call EXCEPT ![p] = c]
        /\ table' = table /\ seq' = seq /\ wr' = wr /\ ret' = ret
        /\ (pc' = [pc EXCEPT ![p] = "reject"] \/ pc' = [pc EXCEPT ![p] = "acquire"])
    BY DEF Invoke, Goto
  <1>2. StorePhase' = [StorePhase EXCEPT ![p] = "called"] /\ StorePhase[p] = "idle"
    <2>1. TypeOK /\ "reject" \in PCs /\ "acquire" \in PCs
      BY DEF IInv, PCs
    <2> QED
      BY <1>1, <2>1, PhaseStep, Phases
  <1>3. StoreFresh' = StoreFresh
    <2>1. wr[p] = NoWrite
      BY <1>1 DEF IInv, WritesSound, WritesInProgress
    <2> QED
      BY <1>1, <2>1, FreshUnchanged DEF IInv, TypeOK
  <1> QED
    BY <1>1, <1>2, <1>3 DEF Store!Invoke

LEMMA CloseStep ==
    ASSUME IInv, NEW p \in Procs, Close(p)
    PROVE  Store!Return(p)
  <1>1. /\ pc[p] = "closing" /\ call' = [call EXCEPT ![p] = NoCall]
        /\ table' = table /\ seq' = seq /\ wr' = wr /\ ret' = [ret EXCEPT ![p] = NoReply]
        /\ pc' = [pc EXCEPT ![p] = "idle"]
    BY DEF Close, Goto
  <1>2. StorePhase' = [StorePhase EXCEPT ![p] = "idle"] /\ StorePhase[p] = "applied"
    <2>1. TypeOK /\ "idle" \in PCs
      BY DEF IInv, PCs
    <2> QED
      BY <1>1, <2>1, PhaseStep, Phases
  <1>3. StoreFresh' = StoreFresh
    <2>1. wr[p] = NoWrite
      BY <1>1 DEF IInv, WritesSound, WritesInProgress
    <2> QED
      BY <1>1, <2>1, FreshUnchanged DEF IInv, TypeOK
  <1> QED
    BY <1>1, <1>2, <1>3, SameData DEF Store!Return

LEMMA RefuseStep ==
    ASSUME IInv, NEW p \in Procs,
           Reject(p) \/ AcquireFails(p) \/ Refused(p) \/ InsertExhausted(p) \/ InsertRejected(p)
             \/ UpdateRejected(p) \/ DeadlockVictim(p) \/ ConnLost(p)
    PROVE  Store!Fail(p)
  <1>1. seq' \in Nat /\ seq' >= seq
    <2>1. seq \in Nat
      BY IdFacts DEF IInv, TypeOK
    <2> QED
      BY <2>1 DEF Reject, AcquireFails, Refused, InsertExhausted, InsertRejected,
         UpdateRejected, DeadlockVictim, ConnLost
  <1>2. pc[p] \in {"reject", "acquire", "exec", "key", "commit"}
    BY DEF Reject, AcquireFails, Admitted, Refused, InsertExhausted, InsertRejected,
       UpdateRejected, Accepted, DeadlockVictim, ConnLost
  <1>3. Answer(p, Err("other")) /\ table' = table /\ call' = call
    BY DEF Reject, AcquireFails, Refused, InsertExhausted, InsertRejected,
       UpdateRejected, DeadlockVictim, ConnLost, GiveUp
  <1>4. wr' = [wr EXCEPT ![p] = NoWrite]
    <2>1. CASE AcquireFails(p)
      <3>1. wr' = wr /\ wr[p] = NoWrite
        BY <2>1 DEF AcquireFails, Admitted, IInv, WritesSound, WritesInProgress
      <3> QED
        BY <3>1 DEF IInv, TypeOK
    <2> QED
      BY <2>1 DEF Reject, Refused, InsertExhausted, InsertRejected,
         UpdateRejected, DeadlockVictim, ConnLost, GiveUp
  <1> QED
    BY <1>1, <1>2, <1>3, <1>4, FailStep

LEMMA InitRefines == Init => Store!Init
  <1> SUFFICES ASSUME Init PROVE Store!Init
    OBVIOUS
  <1>1. StoreFresh = Ids
    <2>1. seq = 0 /\ \A i \in Ids : i > 0
      BY IdFacts DEF Init
    <2> QED
      BY <2>1 DEF StoreFresh
  <1>2. StorePhase = [p \in Procs |-> "idle"]
    BY Phases DEF Init, StorePhase
  <1> QED
    BY <1>1, <1>2, SameData DEF Init, Store!Init

LEMMA NextRefines == IInv /\ [Next]_vars => [Store!Next]_Store!vars
  <1> SUFFICES ASSUME IInv, [Next]_vars
               PROVE  Store!Next \/ UNCHANGED <<table, StoreFresh, StorePhase, call, ret>>
    BY DEF Store!vars
  <1>1. CASE UNCHANGED vars
    BY <1>1, FreshUnchanged DEF vars, StorePhase
  <1>2. ASSUME NEW p \in Procs, NEW c \in Calls, Invoke(p, c) PROVE Store!Next
    BY <1>2, InvokeStep DEF Store!Next
  <1>3. ASSUME NEW p \in Procs,
               Reject(p) \/ AcquireFails(p) \/ Refused(p) \/ InsertExhausted(p) \/ InsertRejected(p)
                 \/ UpdateRejected(p) \/ DeadlockVictim(p) \/ ConnLost(p)
        PROVE  Store!Next
    BY <1>3, RefuseStep DEF Store!Next
  <1>4. ASSUME NEW p \in Procs,
               Acquire(p) \/ Insert(p) \/ LockForUpdate(p) \/ LockForDelete(p) \/ PlaceKey(p)
                 \/ Receive(p)
        PROVE  UNCHANGED <<table, StoreFresh, StorePhase, call, ret>>
    BY <1>4, StutterStep
  <1>5. ASSUME NEW p \in Procs,
               Missing(p) \/ SelectNone(p) \/ DuplicateKey(p) \/ Commit(p) \/ Select(p)
                 \/ ReplyLost(p) \/ Close(p)
        PROVE  Store!Next
    BY <1>5, MissingStep, DuplicateStep, CommitStep, SelectStep, ReplyLostStep, CloseStep
    DEF Store!Next
  <1> QED
    BY <1>1, <1>2, <1>3, <1>4, <1>5 DEF Next, Step

(* Every call of the storage takes effect in one step between its start    *)
(* and its return: PostgresStorage implements SubscriptionStore.           *)
THEOREM Implements == Spec => StoreSpec
  BY InitRefines, NextRefines, Invariance, PTL DEF Spec, StoreSpec, Store!Spec
=============================================================================
