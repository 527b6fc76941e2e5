--------------------------- MODULE SqliteStorage ---------------------------
(***************************************************************************)
(* internal/storage/sqlite/sqlite.go: concurrent callers over one database *)
(* file.  Every method runs one autocommit statement, each on a connection *)
(* of its own (the pool of database/sql has no limit), so what orders the  *)
(* calls is SQLite's lock on the file (rollback journal): readers share    *)
(* it, one writer at a time reserves it, and to commit it shuts out new    *)
(* readers and waits for the others.  Who does not get the lock tries      *)
(* again for 5 s (the driver's busy_timeout) and then fails with           *)
(* SQLITE_BUSY.                                                            *)
(*                                                                         *)
(* A caller is at pc                                                       *)
(*   "idle"      outside any method                                        *)
(*   "reject"    the arguments fail the method's own validation            *)
(*   "ready"     statement prepared, not yet holding a lock                *)
(*   "reserved"  writer: change made, not committed, readers may start     *)
(*   "pending"   writer: no new readers, waiting for the others to end     *)
(*   "reading"   reader in its row loop                                    *)
(*   "closing"   lock released, reply known                                *)
(***************************************************************************)
EXTENDS Subscriptions

CONSTANT Procs    \* concurrent callers, one per request being served

ASSUME EnvAssumption == Env = "dev"

(* Dates are compared as the text ToStringISO prints, in which years of    *)
(* four and months of two digits are in the order of Later: the bound of   *)
(* the filter dates modelled.  A column is as wide as Go's int.            *)
TextOrdered(d) == d.year \in 1000..9999 /\ d.month \in 0..99
ASSUME ColumnAssumption == \A c \in Calls :
    /\ c.op = "filter" => TextOrdered(c.start) /\ TextOrdered(c.end)
    /\ c.op \in {"create", "update"} => c.price \in ColumnInt

VARIABLES table,  \* the committed rows: id -> row or NoRow
          seq,    \* AUTOINCREMENT's last committed id
          pc, call,
          wr,     \* per writer: its uncommitted change
          todo,   \* per reader: the ids its scan has not come to
          skip,   \* per reader: how many rows OFFSET still drops
          got,    \* per reader: the rows appended so far
          ret     \* per caller: the reply, once known

vars == <<table, seq, pc, call, wr, todo, skip, got, ret>>
readVars == <<todo, skip, got>>

PCs == {"idle", "reject", "ready", "reserved", "pending", "reading", "closing"}

NoWrite == [id |-> 0, row |-> NoRow]
Write == [id : 0..MaxInteger, row : Row \cup {NoRow}]

TypeOK ==
    /\ table \in [Ids -> Row \cup {NoRow}]
    /\ seq \in 0..MaxInteger
    /\ pc \in [Procs -> PCs]
    /\ call \in [Procs -> Calls \cup {NoCall}]
    /\ wr \in [Procs -> Write]
    /\ todo \in [Procs -> SUBSET Ids]
    /\ skip \in [Procs -> Nat]
    /\ got \in [Procs -> SUBSET (Ids \X Row)]
    /\ ret \in [Procs -> Reply]

Init ==
    /\ table = [i \in Ids |-> NoRow]
    /\ seq = 0
    /\ pc = [p \in Procs |-> "idle"]
    /\ call = [p \in Procs |-> NoCall]
    /\ wr = [p \in Procs |-> NoWrite]
    /\ todo = [p \in Procs |-> {}]
    /\ skip = [p \in Procs |-> 0]
    /\ got = [p \in Procs |-> {}]
    /\ ret = [p \in Procs |-> NoReply]

Goto(p, l) == pc' = [pc EXCEPT ![p] = l]
Answer(p, r) == Goto(p, "closing") /\ ret' = [ret EXCEPT ![p] = r]

(* The method returns r; a change not committed is rolled back with the    *)
(* id AUTOINCREMENT had given it.                                          *)
GiveUp(p, r) ==
    /\ Answer(p, r)
    /\ wr' = [wr EXCEPT ![p] = NoWrite]
    /\ UNCHANGED <<table, seq, call, readVars>>

Invoke(p, c) ==
    /\ pc[p] = "idle"
    /\ call' = [call EXCEPT ![p] = c]
    /\ Goto(p, IF Mispaired(c) THEN "reject" ELSE "ready")
    /\ UNCHANGED <<table, seq, wr, readVars, ret>>

Reject(p) == pc[p] = "reject" /\ GiveUp(p, Err("other"))

(* Prepare fails, or the file cannot be read or written.                   *)
Fails(p) == pc[p] \in {"ready", "reserved", "pending"} /\ GiveUp(p, Err("other"))

(***************************************************************************)
(* The lock of the file.                                                   *)
(***************************************************************************)
Writer(p) == pc[p] \in {"reserved", "pending"}
Writes(p) == call[p].op \in {"create", "update", "delete"}

SlipMayWrite(p) ==   \* writers are not kept apart until they commit
    pc[p] = "ready" /\ Writes(p) /\ ~\E q \in Procs : pc[q] = "pending"
MayWrite(p) == pc[p] = "ready" /\ Writes(p) /\ ~\E q \in Procs : Writer(q)
MayRead(p) == pc[p] = "ready" /\ ~Writes(p) /\ ~\E q \in Procs : pc[q] = "pending"

(* What a read error becomes: Scan of a single row returns it, but it only *)
(* ends the row loop of a list or filter, which never asks for rows.Err(). *)
BrokenRead(p, rs) == IF call[p].op = "get" THEN Err("other") ELSE OkRows(rs)

(* The busy timeout before any lock.  stmt.Query does not touch the file,  *)
(* the first rows.Next does: a list or filter finds no rows.               *)
SlipLocked(p) ==   \* a writer tries for ever
    /\ pc[p] = "ready" /\ ~Writes(p) /\ ~MayRead(p)
    /\ GiveUp(p, BrokenRead(p, {}))
Locked(p) ==
    /\ pc[p] = "ready" /\ ~MayWrite(p) /\ ~MayRead(p)
    /\ GiveUp(p, IF Writes(p) THEN Err("other") ELSE BrokenRead(p, {}))

(***************************************************************************)
(* INSERT, UPDATE and DELETE.                                              *)
(***************************************************************************)
SlipNewId == IF \E i \in Ids : Live(table, i)    \* a rowid without AUTOINCREMENT
             THEN (CHOOSE i \in Ids : Live(table, i) /\ \A j \in Ids : Live(table, j) => j <= i) + 1
             ELSE 1
NewId == seq + 1

(* UPDATE and DELETE find no row: RowsAffected is 0.                       *)
SlipMissing(p) ==   \* RowsAffected is not looked at
    /\ MayWrite(p) /\ call[p].op \in {"update", "delete"}
    /\ ~Live(table, call[p].id)
    /\ GiveUp(p, OkId(0))
Missing(p) ==
    /\ MayWrite(p) /\ call[p].op \in {"update", "delete"}
    /\ ~Live(table, call[p].id)
    /\ GiveUp(p, Err("notfound"))

(* No id is left: SQLITE_FULL, before the CHECKs are evaluated.            *)
InsertExhausted(p) ==
    /\ MayWrite(p) /\ call[p].op = "create"
    /\ NewId \notin Ids
    /\ GiveUp(p, Err("other"))

(* The version of the row an INSERT or UPDATE makes, and its id.           *)
Target(p) == IF call[p].op = "create" THEN NewId ELSE call[p].id
Version(p) == IF call[p].op = "create" THEN NewRow(call[p]) ELSE Merged(table[call[p].id], call[p])
HasTarget(p) ==
    /\ MayWrite(p)
    /\ IF call[p].op = "create" THEN NewId \in Ids ELSE Live(table, call[p].id)

(* The CHECKs of the table, then its unique index.                         *)
SlipFits(row) == ValidRow(row)   \* the column takes any text
Fits(row) == row.start \in Day /\ row.end \in Day /\ ValidRow(row)
KeyInUse(key, except) ==
    \E i \in Ids : i # except /\ Live(table, i) /\ Key(table[i]) = key

Rejected(p) ==
    /\ HasTarget(p) /\ call[p].op # "delete"
    /\ ~Fits(Version(p))
    /\ GiveUp(p, Err("other"))

(* Only CreateSubscription looks at ErrConstraintUnique.                   *)
DuplicateKey(p) ==
    /\ HasTarget(p) /\ call[p].op # "delete"
    /\ Fits(Version(p)) /\ KeyInUse(Key(Version(p)), Target(p))
    /\ GiveUp(p, Err(IF call[p].op = "create" THEN "exists" ELSE "other"))

Change(p, row) ==
    /\ wr' = [wr EXCEPT ![p] = [id |-> Target(p), row |-> row]]
    /\ Goto(p, "reserved")
    /\ UNCHANGED <<table, seq, call, readVars, ret>>

Put(p) ==    \* INSERT or UPDATE
    /\ HasTarget(p) /\ call[p].op # "delete"
    /\ Fits(Version(p)) /\ ~KeyInUse(Key(Version(p)), Target(p))
    /\ Change(p, Version(p))

Delete(p) ==
    /\ HasTarget(p) /\ call[p].op = "delete"
    /\ Change(p, NoRow)

AskExclusive(p) ==
    /\ pc[p] = "reserved"
    /\ Goto(p, "pending")
    /\ UNCHANGED <<table, seq, call, wr, readVars, ret>>

Readers == {q \in Procs : pc[q] = "reading"}

(* Readers outlast the busy timeout.                                       *)
BusyCommit(p) == pc[p] = "pending" /\ Readers # {} /\ GiveUp(p, Err("other"))

SlipCommit(p) ==   \* does not wait for the readers
    /\ pc[p] = "pending"
    /\ table' = [table EXCEPT ![wr[p].id] = wr[p].row]
    /\ seq' = IF call[p].op = "create" THEN wr[p].id ELSE seq
    /\ wr' = [wr EXCEPT ![p] = NoWrite]
    /\ Answer(p, OkId(IF call[p].op = "create" THEN wr[p].id ELSE 0))
    /\ UNCHANGED <<call, readVars>>
Commit(p) ==
    /\ pc[p] = "pending" /\ Readers = {}
    /\ table' = [table EXCEPT ![wr[p].id] = wr[p].row]
    /\ seq' = IF call[p].op = "create" THEN wr[p].id ELSE seq
    /\ wr' = [wr EXCEPT ![p] = NoWrite]
    /\ Answer(p, OkId(IF call[p].op = "create" THEN wr[p].id ELSE 0))
    /\ UNCHANGED <<call, readVars>>

(***************************************************************************)
(* SELECT: rows come one by one, in no order the statement asks for.       *)
(***************************************************************************)
Paged(c) == c.op = "list" /\ c.limit # NoValue
Selected(c, i) ==
    /\ Live(table, i)
    /\ c.op = "get" => i = c.id
    /\ c.op = "filter" => Matches(table[i], c)

StartRead(p) ==
    /\ MayRead(p)
    /\ todo' = [todo EXCEPT ![p] = Ids]
    /\ skip' = [skip EXCEPT ![p] = IF Paged(call[p]) THEN call[p].offset ELSE 0]
    /\ Goto(p, "reading")
    /\ UNCHANGED <<table, seq, call, wr, got, ret>>

Ahead(p) == {i \in todo[p] : Selected(call[p], i)}
Full(p) == Paged(call[p]) /\ Cardinality(got[p]) = call[p].limit

NextRow(p) ==
    /\ pc[p] = "reading" /\ ~Full(p)
    /\ \E i \in Ahead(p) :
          /\ todo' = [todo EXCEPT ![p] = @ \ {i}]
          /\ IF skip[p] > 0
             THEN skip' = [skip EXCEPT ![p] = @ - 1] /\ UNCHANGED got
             ELSE got' = [got EXCEPT ![p] = @ \cup {<<i, table[i]>>}] /\ UNCHANGED skip
    /\ UNCHANGED <<table, seq, pc, call, wr, ret>>

EndRead(p) ==
    /\ pc[p] = "reading" /\ (Full(p) \/ Ahead(p) = {})
    /\ GiveUp(p, IF call[p].op = "get" /\ got[p] = {} THEN Err("notfound") ELSE OkRows(got[p]))

ReadFails(p) == pc[p] = "reading" /\ GiveUp(p, BrokenRead(p, got[p]))

Close(p) ==
    /\ pc[p] = "closing"
    /\ Goto(p, "idle")
    /\ call' = [call EXCEPT ![p] = NoCall]
    /\ todo' = [todo EXCEPT ![p] = {}]
    /\ skip' = [skip EXCEPT ![p] = 0]
    /\ got' = [got EXCEPT ![p] = {}]
    /\ ret' = [ret EXCEPT ![p] = NoReply]
    /\ UNCHANGED <<table, seq, wr>>

Next == \E p \in Procs :
    \/ \E c \in Calls : Invoke(p, c)
    \/ Reject(p) \/ Fails(p) \/ Locked(p)
    \/ Missing(p) \/ InsertExhausted(p) \/ Rejected(p) \/ DuplicateKey(p) \/ Put(p) \/ Delete(p)
    \/ AskExclusive(p) \/ BusyCommit(p) \/ Commit(p)
    \/ StartRead(p) \/ NextRow(p) \/ EndRead(p) \/ ReadFails(p) \/ Close(p)

Spec == Init /\ [][Next]_vars

(* Goroutines are scheduled, and who waits for the lock has it or the busy *)
(* timeout in the end.  Nothing forces a failure of the file.              *)
Proceeds(p) ==
    \/ Reject(p) \/ Locked(p)
    \/ Missing(p) \/ InsertExhausted(p) \/ Rejected(p) \/ DuplicateKey(p) \/ Put(p) \/ Delete(p)
    \/ AskExclusive(p) \/ BusyCommit(p) \/ Commit(p)
    \/ StartRead(p) \/ NextRow(p) \/ EndRead(p) \/ Close(p)

FairSpec == Spec /\ \A p \in Procs : WF_vars(Proceeds(p))

(***************************************************************************)
(* Correctness.                                                            *)
(***************************************************************************)

(* No two rows belong to one user and service: the index is asked when the *)
(* statement runs, and nobody may write until the change is committed.     *)
UniqueSubscription ==
    \A i, j \in Ids :
        Live(table, i) /\ Live(table, j) /\ Key(table[i]) = Key(table[j]) => i = j

(* What the lock of the file protects: one writer at a time, whose change  *)
(* still fits the committed table (its id is new or its row as it was read,*)
(* its key free), and readers whose rows stay the table's until their loop *)
(* ends, LIMIT and OFFSET counting exactly the rows the scan came to.      *)
OneWriter == \A p, q \in Procs : Writer(p) /\ Writer(q) => p = q
ChangeCurrent(p) ==
    LET c == call[p]
    IN  /\ Writes(p) /\ wr[p].id = Target(p) /\ wr[p].id \in Ids
        /\ c.op # "create" => Live(table, c.id)
        /\ c.op = "delete" => wr[p].row = NoRow
        /\ c.op # "delete" => /\ wr[p].row = Version(p)
                              /\ Fits(wr[p].row) /\ ~KeyInUse(Key(wr[p].row), wr[p].id)
Steady(p) ==
    /\ \A e \in got[p] : e[1] \notin todo[p] /\ Selected(call[p], e[1]) /\ e[2] = table[e[1]]
    /\ Paged(call[p]) \/ \A i \in Ids : Selected(call[p], i) =>
                             i \in todo[p] \/ <<i, table[i]>> \in got[p]
Scanned(p) == {e \in Entries(table) : e[1] \notin todo[p]}
PageRight(p) ==
    LET c == call[p]
        n == Cardinality(Scanned(p))
    IN  /\ Cardinality(got[p]) = PageSize(n, c.limit, c.offset)
        /\ skip[p] = IF n > c.offset THEN 0 ELSE c.offset - n
LocksHold ==
    /\ OneWriter
    /\ \A p \in Procs : Writer(p) => ChangeCurrent(p)
    /\ \A p \in Procs : pc[p] = "reading" => Steady(p) /\ (Paged(call[p]) => PageRight(p))

(* A filter by service returns the rows of that service in the period, and *)
(* of the user if one is given: the condition Postgres gets wrong.         *)
ServiceFilterHonoured == \A p \in Procs :
    LET c == call[p]
    IN  c.op = "filter" /\ c.service # NoValue /\ pc[p] = "reading" /\ Ahead(p) = {} =>
            got[p] = {e \in Entries(table) :
                        /\ e[2].service = c.service
                        /\ c.user = NilUser \/ e[2].user = c.user
                        /\ Later(e[2].start, Column(c.start)) /\ Later(Column(c.end), e[2].end)}

(* An id stands for one subscription for ever: its user never changes, and *)
(* the id of a deleted subscription is never given to a later create.  (The*)
(* id of a create that was rolled back is: nobody was told of it.)         *)
Retired(i) == i <= seq /\ ~Live(table, i)
UserKept(i) == Live(table, i) /\ Live(table', i) => table'[i].user = table[i].user
IdentityKept == \A i \in Ids : UserKept(i) /\ (Retired(i) => Retired(i)')
IdentityStable == [][IdentityKept]_vars

(* The storage implements SubscriptionStore: a write takes effect when it  *)
(* commits, a read when it ends.                                           *)
StoreFresh == {i \in Ids : i > seq}
PhaseOf(l) == CASE l = "idle" -> "idle" [] l = "closing" -> "applied" [] OTHER -> "called"
StorePhase == [p \in Procs |-> PhaseOf(pc[p])]
Store == INSTANCE SubscriptionStore
            WITH rows <- table, fresh <- StoreFresh, phase <- StorePhase
StoreSpec == Store!Spec

(* Every call returns: a writer that readers and other writers keep from   *)
(* the file gives up, and so does a reader a writer shuts out.             *)
EveryCallReturns == \A p \in Procs : pc[p] # "idle" ~> pc[p] = "idle"

=============================================================================
