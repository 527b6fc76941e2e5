-------------------------- MODULE PostgresStorage --------------------------
(***************************************************************************)
(* internal/storage/postgres/postgres.go: concurrent callers, a bounded    *)
(* connection pool, and the Postgres server as the statements use it (READ *)
(* COMMITTED transactions of one statement, row locks, unique index,       *)
(* SERIAL sequence, deadlock detector).  One action per round trip to the  *)
(* server or per outcome of one, so calls interleave between round trips.  *)
(*                                                                         *)
(* A caller is at pc                                                       *)
(*   "idle"       outside any method                                       *)
(*   "reject"     the arguments fail the method's own validation           *)
(*   "acquire"    waiting for a connection of the pool                     *)
(*   "exec"       holding one, about to run its statement                  *)
(*   "key"        INSERT/UPDATE running: row checked and locked, the new   *)
(*                version about to enter the unique index                  *)
(*   "commit"     statement done, about to commit                          *)
(*   "committed"  committed by the server, the client does not know        *)
(*   "read"       SELECT run by the server, rows on their way              *)
(*   "closing"    reply known, deferred Rollback / release to do           *)
(***************************************************************************)
EXTENDS Subscriptions, Sequences

CONSTANTS Procs,      \* concurrent callers, one per request being served
          MaxConns    \* pool size

ASSUME EnvAssumption == Env = "prod"
ASSUME PoolAssumption == MaxConns \in Nat \ {0}

VARIABLES table,  \* the committed rows: id -> row or NoRow
          seq,    \* last value of the id sequence
          conns,  \* callers that hold a connection
          queue,  \* callers waiting for one, first come first served
          pc, call,
          wr,     \* per caller: its uncommitted row version
          snap,   \* per caller: the rows its SELECT selected
          ret     \* per caller: the reply, once known to the server

vars == <<table, seq, conns, queue, pc, call, wr, snap, ret>>

PCs == {"idle", "reject", "acquire", "exec", "key", "commit", "committed", "read", "closing"}

NoWrite == [id |-> 0, row |-> NoRow]
Write == [id : 0..MaxInteger, row : Row \cup {NoRow}]

TypeOK ==
    /\ table \in [Ids -> Row \cup {NoRow}]
    /\ seq \in 0..MaxInteger
    /\ conns \subseteq Procs
    /\ queue \in Seq(Procs)
    /\ pc \in [Procs -> PCs]
    /\ call \in [Procs -> Calls \cup {NoCall}]
    /\ wr \in [Procs -> Write]
    /\ snap \in [Procs -> SUBSET (Ids \X Row)]
    /\ ret \in [Procs -> Reply]

Init ==
    /\ table = [i \in Ids |-> NoRow]
    /\ seq = 0
    /\ conns = {}
    /\ queue = <<>>
    /\ pc = [p \in Procs |-> "idle"]
    /\ call = [p \in Procs |-> NoCall]
    /\ wr = [p \in Procs |-> NoWrite]
    /\ snap = [p \in Procs |-> {}]
    /\ ret = [p \in Procs |-> NoReply]

Goto(p, l) == pc' = [pc EXCEPT ![p] = l]
Answer(p, r) == Goto(p, "closing") /\ ret' = [ret EXCEPT ![p] = r]

(* A failing method returns r; the server has rolled its statement back.   *)
GiveUp(p, r) ==
    /\ Answer(p, r)
    /\ wr' = [wr EXCEPT ![p] = NoWrite]
    /\ UNCHANGED <<table, conns, queue, call, snap>>

(***************************************************************************)
(* Entering a method and getting a connection.                             *)
(***************************************************************************)

Invoke(p, c) ==
    /\ pc[p] = "idle"
    /\ call' = [call EXCEPT ![p] = c]
    /\ IF Mispaired(c) THEN Goto(p, "reject") /\ UNCHANGED queue
       ELSE Goto(p, "acquire") /\ queue' = Append(queue, p)
    /\ UNCHANGED <<table, seq, conns, wr, snap, ret>>

Reject(p) == pc[p] = "reject" /\ GiveUp(p, Err("other")) /\ UNCHANGED seq

(* The pool hands its connections out in order of arrival, with no timeout *)
(* (context.Background()).                                                 *)
Admitted(p) ==
    /\ pc[p] = "acquire" /\ queue # <<>> /\ Head(queue) = p
    /\ Cardinality(conns) < MaxConns
    /\ queue' = Tail(queue)

Acquire(p) ==
    /\ Admitted(p)
    /\ conns' = conns \cup {p}
    /\ Goto(p, "exec")
    /\ UNCHANGED <<table, seq, call, wr, snap, ret>>

(* Dialling a new connection fails: the slot stays free.                   *)
AcquireFails(p) ==
    /\ Admitted(p)
    /\ Answer(p, Err("other"))
    /\ UNCHANGED <<table, seq, conns, call, wr, snap>>

(***************************************************************************)
(* The statement.                                                          *)
(***************************************************************************)

(* Parameters pgx cannot encode as INTEGER, or (of an INSERT or UPDATE)    *)
(* date literals the server refuses.                                       *)
SlipEncodes(c) == c.op \in {"update", "delete", "get"} => c.id \in ColumnInt  \* no price check
Encodes(c) ==
    /\ c.op \in {"update", "delete", "get"} => c.id \in ColumnInt
    /\ c.op \in {"create", "update"} => c.price \in ColumnInt
DatesParse(c) ==
    /\ c.op \in {"create", "update"} => StorableDate(c.start)
    /\ c.op = "create" => StorableDate(c.end)
    /\ c.op = "update" => c.end = ZeroDate \/ StorableDate(c.end)

Refused(p) ==
    /\ pc[p] = "exec"
    /\ ~(Encodes(call[p]) /\ DatesParse(call[p]))
    /\ GiveUp(p, Err("other"))
    /\ UNCHANGED seq

Accepted(p, ops) ==
    /\ pc[p] = "exec" /\ call[p].op \in ops
    /\ Encodes(call[p]) /\ DatesParse(call[p])

(* INSERT: the id is drawn from the sequence before the CHECK is evaluated *)
(* and is never given back.                                                *)
SlipInsertExhausted(p) ==   \* off by one
    /\ Accepted(p, {"create"})
    /\ seq > MaxInteger
    /\ GiveUp(p, Err("other"))
    /\ UNCHANGED seq
InsertExhausted(p) ==
    /\ Accepted(p, {"create"})
    /\ seq = MaxInteger
    /\ GiveUp(p, Err("other"))
    /\ UNCHANGED seq

InsertRejected(p) ==
    /\ Accepted(p, {"create"})
    /\ seq < MaxInteger
    /\ seq' = seq + 1
    /\ ~ValidRow(NewRow(call[p]))
    /\ GiveUp(p, Err("other"))

(* A slip the runs must detect: the id is the first one no row has.        *)
SlipInsert(p) ==
    /\ Accepted(p, {"create"})
    /\ ValidRow(NewRow(call[p]))
    /\ \E i \in Ids :
          /\ ~Live(table, i) /\ \A j \in Ids : ~Live(table, j) => i <= j
          /\ wr' = [wr EXCEPT ![p] = [id |-> i, row |-> NewRow(call[p])]]
          /\ seq' = IF i > seq THEN i ELSE seq
    /\ Goto(p, "key")
    /\ UNCHANGED <<table, conns, queue, call, snap, ret>>

Insert(p) ==
    /\ Accepted(p, {"create"})
    /\ seq < MaxInteger
    /\ seq' = seq + 1
    /\ ValidRow(NewRow(call[p]))
    /\ wr' = [wr EXCEPT ![p] = [id |-> seq + 1, row |-> NewRow(call[p])]]
    /\ Goto(p, "key")
    /\ UNCHANGED <<table, conns, queue, call, snap, ret>>

(* UPDATE and DELETE look the row up among the committed ones, and wait    *)
(* for a transaction that has changed it.                                  *)
RowHolders(p, i) == {q \in Procs \ {p} : wr[q].id = i}

SlipMissing(p) ==  \* RowsAffected is not looked at
    /\ Accepted(p, {"update", "delete"})
    /\ ~Live(table, call[p].id)
    /\ GiveUp(p, OkId(0))
    /\ UNCHANGED seq
Missing(p) ==
    /\ Accepted(p, {"update", "delete"})
    /\ ~Live(table, call[p].id)
    /\ GiveUp(p, Err("notfound"))
    /\ UNCHANGED seq

(* check_end_after_start is evaluated on the new version of the row, with  *)
(* the stored end date when the call brings none, before the row is locked.*)
UpdateRejected(p) ==
    /\ Accepted(p, {"update"})
    /\ Live(table, call[p].id)
    /\ ~ValidRow(Merged(table[call[p].id], call[p]))
    /\ GiveUp(p, Err("other"))
    /\ UNCHANGED seq

(* A slip the runs must detect: the new version is made of the row as read *)
(* before the transaction that holds it ends.                              *)
SlipLockForUpdate(p) ==
    LET i == call[p].id
    IN  /\ Accepted(p, {"update"})
        /\ Live(table, i)
        /\ ValidRow(Merged(table[i], call[p]))
        /\ wr' = [wr EXCEPT ![p] = [id |-> i, row |-> Merged(table[i], call[p])]]
        /\ Goto(p, "key")
        /\ UNCHANGED <<table, seq, conns, queue, call, snap, ret>>

LockForUpdate(p) ==
    LET i == call[p].id
    IN  /\ Accepted(p, {"update"})
        /\ Live(table, i) /\ RowHolders(p, i) = {}
        /\ ValidRow(Merged(table[i], call[p]))
        /\ wr' = [wr EXCEPT ![p] = [id |-> i, row |-> Merged(table[i], call[p])]]
        /\ Goto(p, "key")
        /\ UNCHANGED <<table, seq, conns, queue, call, snap, ret>>

LockForDelete(p) ==
    LET i == call[p].id
    IN  /\ Accepted(p, {"delete"})
        /\ Live(table, i) /\ RowHolders(p, i) = {}
        /\ wr' = [wr EXCEPT ![p] = [id |-> i, row |-> NoRow]]
        /\ Goto(p, "commit")
        /\ UNCHANGED <<table, seq, conns, queue, call, snap, ret>>

(***************************************************************************)
(* The unique index.  The new version waits for every transaction that     *)
(* changed the row holding its key, or has put the key in the index.       *)
(***************************************************************************)
SlipPlaced(q) == pc[q] \in {"key", "commit"} /\ wr[q].row # NoRow  \* enters before it asks
Placed(q) == pc[q] = "commit" /\ wr[q].row # NoRow
SlipKeyHolders(p) ==  \* asks only about committed rows
    {q \in Procs \ {p} : Live(table, wr[q].id) /\ Key(table[wr[q].id]) = Key(wr[p].row)}
KeyHolders(p) ==
    {q \in Procs \ {p} :
        \/ Live(table, wr[q].id) /\ Key(table[wr[q].id]) = Key(wr[p].row)
        \/ Placed(q) /\ Key(wr[q].row) = Key(wr[p].row)}

KeyTaken(p) ==
    \E j \in Ids : j # wr[p].id /\ Live(table, j) /\ Key(table[j]) = Key(wr[p].row)

AtKey(p) == pc[p] = "key" /\ KeyHolders(p) = {}

PlaceKey(p) ==
    /\ AtKey(p) /\ ~KeyTaken(p)
    /\ Goto(p, "commit")
    /\ UNCHANGED <<table, seq, conns, queue, call, wr, snap, ret>>

(* Only CreateSubscription tells 23505 from other errors.                  *)
DuplicateKey(p) ==
    /\ AtKey(p) /\ KeyTaken(p)
    /\ GiveUp(p, Err(IF call[p].op = "create" THEN "exists" ELSE "other"))
    /\ UNCHANGED seq

(* Who waits for whom inside the server.  The detector ends a transaction  *)
(* that waits, directly or not, for itself.                                *)
WaitsFor(p) ==
    CASE pc[p] = "key" -> KeyHolders(p)
      [] pc[p] = "exec" /\ call[p].op \in {"update", "delete"} ->
            IF Live(table, call[p].id) THEN RowHolders(p, call[p].id) ELSE {}
      [] OTHER -> {}

Deadlocked(p) ==
    \A S \in SUBSET Procs :
        WaitsFor(p) \subseteq S /\ (\A q \in S : WaitsFor(q) \subseteq S) => p \in S

DeadlockVictim(p) ==
    /\ pc[p] \in {"exec", "key"} /\ Deadlocked(p)
    /\ GiveUp(p, Err("other"))
    /\ UNCHANGED seq

(***************************************************************************)
(* Commit, reads, lost connections, return.                                *)
(***************************************************************************)
Commit(p) ==
    /\ pc[p] = "commit"
    /\ table' = [table EXCEPT ![wr[p].id] = wr[p].row]
    /\ wr' = [wr EXCEPT ![p] = NoWrite]
    /\ Goto(p, "committed")
    /\ ret' = [ret EXCEPT ![p] = OkId(IF call[p].op = "create" THEN wr[p].id ELSE 0)]
    /\ UNCHANGED <<seq, conns, queue, call, snap>>

Select(p) ==
    /\ Accepted(p, {"get", "list", "filter"})
    /\ \E rs \in Answers(table, call[p]) :
          /\ snap' = [snap EXCEPT ![p] = rs]
          /\ ret' = [ret EXCEPT ![p] = OkRows(rs)]
    /\ Goto(p, "read")
    /\ UNCHANGED <<table, seq, conns, queue, call, wr>>

(* SELECT of one row finds none: pgx.ErrNoRows.                            *)
SelectNone(p) ==
    /\ Accepted(p, {"get"})
    /\ ~Live(table, call[p].id)
    /\ ret' = [ret EXCEPT ![p] = Err("notfound")]
    /\ Goto(p, "read")
    /\ UNCHANGED <<table, seq, conns, queue, call, wr, snap>>

Receive(p) ==
    /\ pc[p] \in {"committed", "read"}
    /\ Goto(p, "closing")
    /\ UNCHANGED <<table, seq, conns, queue, call, wr, snap, ret>>

(* The connection breaks before the server has done what the call asks:    *)
(* the transaction is rolled back.                                         *)
ConnLost(p) ==
    /\ pc[p] \in {"exec", "key", "commit"}
    /\ GiveUp(p, Err("other"))
    /\ UNCHANGED seq

(* It breaks later: the reply is lost, or rows of it.                      *)
ReplyLost(p) ==
    /\ pc[p] \in {"committed", "read"}
    /\ \E r \in BrokenReplies(call[p], ret[p]) : GiveUp(p, r)
    /\ UNCHANGED seq

(* Deferred Rollback or end of the rows: the connection goes back to the   *)
(* pool, the method returns.                                               *)
SlipClose(p) ==  \* returns "not found" without the deferred Rollback
    /\ pc[p] = "closing"
    /\ conns' = IF ret[p].err = "notfound" THEN conns ELSE conns \ {p}
    /\ Goto(p, "idle")
    /\ call' = [call EXCEPT ![p] = NoCall]
    /\ snap' = [snap EXCEPT ![p] = {}]
    /\ ret' = [ret EXCEPT ![p] = NoReply]
    /\ UNCHANGED <<table, seq, queue, wr>>
Close(p) ==
    /\ pc[p] = "closing"
    /\ conns' = conns \ {p}
    /\ Goto(p, "idle")
    /\ call' = [call EXCEPT ![p] = NoCall]
    /\ snap' = [snap EXCEPT ![p] = {}]
    /\ ret' = [ret EXCEPT ![p] = NoReply]
    /\ UNCHANGED <<table, seq, queue, wr>>

(* What happens to a call between its start and its return.               *)
Step(p) ==
    \/ Reject(p) \/ Acquire(p) \/ AcquireFails(p)
    \/ Refused(p) \/ InsertExhausted(p) \/ InsertRejected(p) \/ Insert(p)
    \/ Missing(p) \/ UpdateRejected(p) \/ LockForUpdate(p) \/ LockForDelete(p)
    \/ PlaceKey(p) \/ DuplicateKey(p) \/ DeadlockVictim(p)
    \/ Commit(p) \/ Select(p) \/ SelectNone(p) \/ Receive(p)
    \/ ConnLost(p) \/ ReplyLost(p)

Next == \E p \in Procs : (\E c \in Calls : Invoke(p, c)) \/ Step(p) \/ Close(p)

Spec == Init /\ [][Next]_vars

(* Requests keep being served: the pool is first come first served, the    *)
(* server answers, and the deadlock detector runs.  A statement that waits *)
(* for a row or a key (Unblocked) is woken and tries again each time its   *)
(* holder ends; it is not overtaken for ever.  Nothing forces a failure of *)
(* a connection.                                                           *)
Unblocked(p) == LockForUpdate(p) \/ LockForDelete(p) \/ PlaceKey(p) \/ DuplicateKey(p)
Served(p) ==
    \/ Reject(p) \/ Acquire(p) \/ Refused(p)
    \/ InsertExhausted(p) \/ InsertRejected(p) \/ Insert(p) \/ Missing(p) \/ UpdateRejected(p)
    \/ Commit(p) \/ Select(p) \/ SelectNone(p) \/ Receive(p) \/ Close(p)

Fairness == \A p \in Procs :
    WF_vars(Served(p)) /\ WF_vars(DeadlockVictim(p)) /\ SF_vars(Unblocked(p))

FairSpec == Spec /\ Fairness

(***************************************************************************)
(* Correctness.                                                            *)
(***************************************************************************)

(* No two rows belong to one user and service, whatever calls race: a      *)
(* create or an update that enters the index waits for, and is decided by, *)
(* every transaction that may free or take its key.                        *)
UniqueSubscription ==
    \A i, j \in Ids :
        Live(table, i) /\ Live(table, j) /\ Key(table[i]) = Key(table[j]) => i = j

(* Every stored row ends on a later day than it starts, also when an update*)
(* keeps the stored end date while another update of the row changes it.   *)
(* (The months are as ordered, and differ unless the days do: two dates of *)
(* two-digit years may be days of one month.)                              *)
EndAfterStart == \A i \in Ids : Live(table, i) =>
    /\ Later(table[i].end, table[i].start)
    /\ Months(table[i].start) <= Months(table[i].end)

(* Every early return gives its connection back and no caller waits in the *)
(* queue twice or after it was served: the pool of MaxConns never shrinks. *)
PoolAccounted ==
    /\ Cardinality(conns) <= MaxConns
    /\ \A p \in conns : pc[p] \in {"exec", "key", "commit", "committed", "read", "closing"}
    /\ \A p \in Procs :
          /\ pc[p] \in {"exec", "key", "commit", "committed", "read"} => p \in conns
          /\ pc[p] = "acquire" <=> \E n \in DOMAIN queue : queue[n] = p
    /\ \A m, n \in DOMAIN queue : queue[m] = queue[n] => m = n

(* No caller waits for something that cannot happen: following what each   *)
(* caller waits for, a connection, a row or a key, one always comes to a   *)
(* caller that can go on, if only as the victim of the deadlock detector.  *)
(* It does go on without a failure of a connection (ReadyMoves).           *)
Ready(p) ==
    \/ pc[p] \in {"reject", "commit", "committed", "read", "closing"}
    \/ pc[p] = "acquire" /\ Head(queue) = p /\ Cardinality(conns) < MaxConns
    \/ pc[p] \in {"exec", "key"} /\ (WaitsFor(p) = {} \/ Deadlocked(p))
Awaits(p) ==
    IF pc[p] # "acquire" THEN WaitsFor(p)
    ELSE IF Cardinality(conns) < MaxConns THEN {Head(queue)} ELSE conns
NobodyStranded == \A p \in Procs : pc[p] # "idle" =>
    \A S \in SUBSET Procs :
        p \in S /\ (\A q \in S : Awaits(q) \subseteq S) => \E q \in S : Ready(q)
ReadyMoves ==
    \A p \in Procs : Ready(p) => ENABLED (Served(p) \/ Unblocked(p) \/ DeadlockVictim(p))

(* What a transaction is about to commit still fits the committed table:   *)
(* a create's id is its own, an update's version is made of the row as it  *)
(* is now (no lost update), each row is changed by one transaction at a    *)
(* time, and a key that entered the index belongs to no other row.         *)
IdsDrawn ==
    /\ \A i \in Ids : Live(table, i) => i <= seq
    /\ \A p \in Procs : wr[p].id <= seq
WritesInProgress == \A p \in Procs :
    /\ wr[p] # NoWrite <=> pc[p] \in {"key", "commit"}
    /\ wr[p] # NoWrite <=> wr[p].id # 0
    /\ pc[p] = "key" => call[p].op \in {"create", "update"}
    /\ pc[p] = "commit" => call[p].op \in {"create", "update", "delete"}
VersionCurrent(p) ==
    LET c == call[p]
        i == wr[p].id
    IN  \/ /\ c.op = "create" /\ ~Live(table, i)
           /\ wr[p].row = NewRow(c) /\ wr[p].row # NoRow /\ ValidRow(wr[p].row)
        \/ /\ c.op = "update" /\ i = c.id /\ Live(table, i)
           /\ wr[p].row = Merged(table[i], c) /\ wr[p].row # NoRow /\ ValidRow(wr[p].row)
        \/ c.op = "delete" /\ i = c.id /\ Live(table, i) /\ wr[p].row = NoRow
OneWriterPerRow ==
    \A p, q \in Procs : wr[p] # NoWrite /\ wr[p].id = wr[q].id => p = q
PlacedKeysFree == \A p \in Procs : Placed(p) =>
    /\ ~KeyTaken(p)
    /\ \A q \in Procs : Placed(q) /\ Key(wr[q].row) = Key(wr[p].row) => p = q
WritesSound ==
    /\ IdsDrawn
    /\ WritesInProgress
    /\ \A p \in Procs : wr[p] # NoWrite => VersionCurrent(p)
    /\ OneWriterPerRow
    /\ PlacedKeysFree

(* The only transactions that can wait for each other in a circle are      *)
(* updates that exchange keys; a create or a delete is never a victim.     *)
OnlyUpdatesDeadlock == \A p \in Procs : Deadlocked(p) => call[p].op = "update"

(* An id stands for one subscription for ever: its user never changes, and *)
(* the id of a deleted subscription or a failed create is never given to a *)
(* later create.                                                           *)
Retired(i) == i <= seq /\ ~Live(table, i) /\ \A p \in Procs : wr[p].id # i
UserKept(i) == Live(table, i) /\ Live(table', i) => table'[i].user = table[i].user
IdentityKept == \A i \in Ids : UserKept(i) /\ (Retired(i) => Retired(i)')
IdentityStable == [][IdentityKept]_vars

(* The storage implements SubscriptionStore: every call takes effect in    *)
(* one step, a commit or the snapshot of a SELECT.  Ids drawn from the     *)
(* sequence stay assignable until the transaction that drew them ends.     *)
StoreFresh ==
    {i \in Ids : i > seq \/ \E p \in Procs : call[p].op = "create" /\ wr[p].id = i}
PhaseOf(l) ==
    CASE l = "idle" -> "idle"
      [] l \in {"committed", "read", "closing"} -> "applied"
      [] OTHER -> "called"
StorePhase == [p \in Procs |-> PhaseOf(pc[p])]
Store == INSTANCE SubscriptionStore
            WITH rows <- table, fresh <- StoreFresh, phase <- StorePhase
StoreSpec == Store!Spec

(* Every call returns, however calls wait for connections, rows and keys.  *)
EveryCallReturns == \A p \in Procs : pc[p] # "idle" ~> pc[p] = "idle"

(* list.go:40 "Data about all subscriptions got": a list without limit     *)
(* that returns no error returns every row its SELECT selected.            *)
ListIsComplete ==
    \A p \in Procs :
        pc[p] = "closing" /\ call[p].op = "list" /\ ret[p].err = "ok" => ret[p].rows = Seen(snap[p])

(* total_cost.go:26 "Subscription service name (optional)": the SELECT of  *)
(* a filter by service alone has selected the service's rows of the period *)
(* (of one caller alone, so that the rows are still what it has seen).     *)
ServiceFilterHonoured == \A p \in Procs :
    LET c == call[p]
    IN  pc[p] = "read" /\ c.op = "filter" /\ c.user = NilUser /\ c.service # NoValue =>
            snap[p] = {e \in Entries(table) :
                         /\ e[2].service = c.service
                         /\ Later(e[2].start, Column(c.start)) /\ Later(Column(c.end), e[2].end)}

(* model.go:71 "Convert to string in ISO format YYYY-MM-DD": a row a create*)
(* stored is read back with the months the create was called with.         *)
MonthsKept == \A p \in Procs :
    pc[p] = "committed" /\ call[p].op = "create" =>
        \A e \in Seen(Entries(table)) :
            e[1] = ret[p].id => e[2].start = call[p].start /\ e[2].end = call[p].end

=============================================================================
