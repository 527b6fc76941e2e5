# The subscription service in TLA+

The repository is a REST service that keeps subscriptions (service, user, monthly price, first
and last month) in Postgres or, for development, in SQLite. This directory holds a model of it,
the runs that check the model with TLC, and theorems about it checked with TLAPS.

## Inventory

| Part | Code | State | Operations | Talks to |
|---|---|---|---|---|
| Dates | `internal/model/model.go` | none | `AddDate`, `GreaterThan`, `MonthsBetween`, parsing, printing | used by handlers and storages |
| HTTP handlers | `internal/http-server/handlers` | none beyond the request | create, read, update, delete, list, total cost | call the `Repo` interface (`cmd/main.go:122`), one call per request |
| Postgres storage | `internal/storage/postgres` | the table, its id sequence, the pool | the six methods of `Repo` | pgx pool, Postgres server |
| SQLite storage | `internal/storage/sqlite` | the table, the database file's lock | the same six | `database/sql`, SQLite |
| Start and shutdown | `cmd/main.go`, both `NewStorage` | listener, signal channel, pool | start, serve, `Shutdown`, `Close` | all of the above |
| Configuration | `internal/config` | the `Config` value | `Load`, `validateCfg` | read once by `main` |
| Request logging | `internal/http-server/middleware/logger` | none | log a line | wraps every handler |

Every request runs in a goroutine of its own; the only state requests share is the database and
the connection pool. What is hard is therefore in the storage (in Postgres, transactions that meet
at a row, at a key of the unique index or at the pool, and connections that break before, during or
after a commit; in SQLite, everybody who meets at the one lock of the file, and errors that end a
list) and in the end of the process, which comes while requests are in flight. The methods use `context.Background()`, so no call has a deadline although the response
has one (`WriteTimeout`). `PROJECT.json` lists each such hazard at its line, with the properties
that would catch it.

What makes each part correct:

- **Dates**: arithmetic agrees with month numbers; the handlers' order is the database's order.
- **Storages**: each call takes effect once, atomically, or not at all; a reply "ok", "exists" or
  "not found" is true at that instant; one row per user and service; ids are never reused; the
  pool never leaks; every call returns.
- **Handlers**: a total counts what was asked for; the status never denies an effect that took place; what a client was told of
  stays; no row is stored that the handlers and the database together should refuse.
- **Start and shutdown**: accepted requests finish before the storage is closed; a process asked to
  stop stops; starting ends, and no request waits for ever for a connection that cannot come.
- **Configuration**: each missing key gets its own default; what is accepted is complete.

## Modules

| Module | Models |
|---|---|
| `Dates` | `model.go` as operators, over all integers: nothing in the code confines a month to 1..12 |
| `DateWalk` | a chain of `AddDate` steps, to compare the operators with plain arithmetic |
| `Subscriptions` | rows, calls and replies, what a date column takes (`Column`), and what a SELECT may answer on a given table; `Env` is the environment, on which `Column`, `ServiceColumn` and `FilterDates` depend |
| `SubscriptionStore` | abstract: what a storage promises its callers |
| `PostgresStorage` | `postgres.go`, the pool and the server as the statements use it; implements `SubscriptionStore` |
| `SqliteStorage` | `sqlite.go`, its table and SQLite's lock on the file; implements `SubscriptionStore` |
| `Service` | the handlers over `SubscriptionStore`: validation, call, status, lost responses |
| `Deployment` | the handlers of `Service` over `PostgresStorage` itself, as `main.go` joins them; implements `Service` |
| `Config` | `config.go`: what `Load` accepts and makes of a file |
| `Lifecycle` | `main.go` with both `NewStorage` and `Close`, over the requests of client connections |
| `SubscriptionsProofs`, `DatesProofs`, `DateWalkProofs`, `PostgresStorageProofs`, `SqliteStorageProofs`, `ServiceProofs`, `DeploymentProofs`, `LifecycleProofs` | theorems |
| `MCSubscriptions` | rows and calls the runs of both storages use |
| `MC...` | constants for TLC |

`Lifecycle` extends `Config`: the configuration a process gets is `Loaded(file)`. Nothing else is
shared between `Lifecycle` and the storages; two facts link them. `NewStorage` hands out no pool
without room for a connection (`PoolUsable`, by the theorem `PoolOpened`), which is what
PostgresStorage assumes (`PoolAssumption`); and a call of Postgres returns (`EveryCallReturns` of
PostgresStorage), which is what the fairness of `Lifecycle` assumes.

Names beginning with `Slip` are plausible mistakes in the definition that follows them. No
specification uses them; putting one in the place of its definition must break a property.

### Dates in the columns

`ToStringISO` (`model.go:72`) prints a month as its first day, and does not pad the year. In Postgres
the text goes into a DATE, a column of days. With the server's default `DateStyle` (ISO, MDY) a first
number of one or two digits is a month: `05-12` is sent as `12-05-01` and stored as 2001-12-05.
`Column` says what becomes of a date: years 1..12 are days of that month of 2001, the other two-digit
years are refused, and years 100 to 5874897, the last of a DATE, are taken as they are. So a stored
row holds days (`Day`), `ValidRow` is the CHECK on days, and a reply holds the months they are read
back as (`AsRead`). The CHECKs of SQLite's table (`sqlite/migrations/000001_init_mg.up.sql:6-26`) keep
years other than 2000..2100 out.

### PostgresStorage and the code

| Action | Code |
|---|---|
| `Invoke`, `Reject` | a method is called; `GetSubscriptions` checks its arguments (303-309) |
| `Acquire`, `AcquireFails` | `pool.Begin` (91, 215, 266) or `pool.Query` (161, 320, 365) gets a connection, or dialling one fails |
| `Refused` | pgx cannot encode an argument, or the server refuses a date |
| `Insert`, `InsertRejected`, `InsertExhausted` | the INSERT up to the index: id drawn, CHECK evaluated (107-114) |
| `LockForUpdate`, `UpdateRejected`, `LockForDelete`, `Missing` | UPDATE (224-246) and DELETE (264-285) find, wait for and lock their row |
| `PlaceKey`, `DuplicateKey`, `DeadlockVictim` | the new version enters the unique index, waits for it, or loses |
| `Commit`, `Receive`, `ReplyLost` | COMMIT at the server (133, 248, 287), then at the client |
| `Select`, `SelectNone` | the three SELECTs take their snapshot |
| `ConnLost` | the connection breaks before COMMIT: rolled back |
| `Close` | the deferred `Rollback`, or the end of the rows, gives the connection back; the method returns |

`table` holds committed rows only; `wr[p]` is the version a transaction has not committed yet.
The server is Postgres at READ COMMITTED: an UPDATE or DELETE waits for the transaction that
changed its row and then looks at the row again, so the version is made at the step that locks.
A new key waits for every transaction that has put it in the index or may free it. Postgres
itself, pgx and pgxpool are external: they are modelled from what the code asks of them.

A list or filter that succeeds may have lost rows (`BrokenReplies`), because
`getSubscriptionsFromPgRows` does not look at `rows.Err()`. The abstract storage says so too.

### SqliteStorage and the code

| Action | Code |
|---|---|
| `Invoke`, `Reject` | a method is called; `GetSubscriptions` checks its arguments (225-231) |
| `Fails` | `Prepare` fails (52-56), or the file cannot be read or written |
| `Locked` | the busy timeout passes before the statement has any lock: `Exec` (62, 163, 200) and `Scan` (101) return it, `rows.Next` (307) swallows it |
| `Missing`, `InsertExhausted`, `Rejected`, `DuplicateKey` | the statement changes nothing: `RowsAffected` is 0 (175, 212), no id is left, a CHECK, the unique index (64) |
| `Put`, `Delete` | the statement changes its row, under the RESERVED lock |
| `AskExclusive`, `BusyCommit`, `Commit` | the autocommit: new readers are shut out, the others waited for, in vain or not |
| `StartRead`, `NextRow`, `EndRead`, `ReadFails` | a SELECT holds its lock from its first row to its last (304-346), `LIMIT` and `OFFSET` counting on the way |
| `Close` | the method returns |

`table` and `seq` are the file as committed; `wr[p]` is the change of the one writer. `todo[p]` are
the ids the scan of a reader has not come to, in no order: no statement asks for one. SQLite and
`database/sql` are external, modelled from what the code asks of them: rollback journal, a
connection for each call that asks for one (no limit is set), the driver's busy timeout of 5 s. Dates
are text there; `ToStringISO` prints at least four and two digits, and for the filter dates
modelled (`TextOrdered`) the order of the text is `GreaterThan`'s.

### Config, Lifecycle and the code

| Definition or action | Code |
|---|---|
| `Loadable`, `Accepted` | the errors of `Load` (`config.go:44-81`) and the checks of `validateCfg` |
| `HTTPServer`, `StorageCfg` | the defaults; a missing `idle_timeout` sets `timeout` (98) |
| `Load`, `LoadFails` | `main.go:28-33` |
| `OpenSqlite` | `sqlite.NewStorage`, which opens no file yet |
| `NoSecrets`, `BadUrl`, `OpenPool`, `Retry`, `OutOfAttempts` | `postgres.NewStorage`; `MaxConns` is the size cut to int32 (62) |
| `Notify`, `Start` | `main.go:76-92` |
| `SignalKills`, `Signal` | a signal before `Notify`, and one after it, for which the channel has room once |
| `Stop`, `Drained`, `Expire` | `<-done` and `Shutdown` with its limit of 10 s (95-106) |
| `BeginClose`, `Return` | the deferred `Close` (51, 61) and the end of the process |
| `Listen` | `ListenAndServe`, whose address may be in use (88) |
| `CloseIdle`, `Accept`, `ReadRequest`, `MarkActive`, `Hangup`, `Reply` | net/http's connection states |
| `Refuse`, `Ask`, `Call`, `CallFails`, `CallReturns` | a handler that answers by itself, or calls the storage through the pool |

Three facts about the libraries matter. `Shutdown` closes the connections net/http has not marked
active, and it marks a connection only after it has read the head of a request: a request read at
that moment is served, but its client gets no answer (`dropped`). `pgxpool.Close` waits for the
connections in use, `database/sql`'s `Close` does not. From the begin of either no call gets a
connection. `sent`, `expired` and `cut` are history variables; no guard reads them.

### Service and the code

`Refuse` is a handler that answers 400 by itself, `Forward` one that calls the storage with
`CallOf(r)`, `StoreStep` what the storage then does, `Respond` the mapping of the method's error
to a status (`StatusOf`) and of its rows to the body. `Deliver` and `Lose` end a request with and
without the client seeing the response (`WriteTimeout`, `cmd/main.go:83`, or a client that left).
`changes`, `told` and `deletes` are history variables; no guard reads them. Handlers share
nothing but the storage, so one step per handler stage loses no interleaving. A body `null` is the
body with every field missing. Both storages implement SubscriptionStore; that the composition
with one of them behaves like `Service` is a theorem about `Deployment`.

### Deployment and the code

`main` gives the handlers a storage (`cmd/main.go:56-71`), net/http runs each request in a goroutine
of its own, and the method a handler calls runs in that goroutine: a request is a caller of
PostgresStorage. `Forward`, `StoreStep` and `Respond` of `Service` are each the step of a handler (`HandOver`,
`Wait`, `Render`) joined with one of the abstract storage. `Deployment` joins the same halves with
PostgresStorage instead: `Forward` is `HandOver` with `Invoke`, `Serve` is `Wait` with any step of the
method (`Step`: the pool, the statement, the locks, the commit, the broken connections), `Respond` is `Render` with
`Close`. So the handlers are written once, and neither module says anything the other two do not.

## Runs

| Run | Question | Bounds | States |
|---|---|---|---|
| `date_walk` | is date arithmetic exact? | 2023..2026, steps of up to 25 months and one year either way | 1,140 |
| `postgres_writes` | do racing writes keep rows, keys and ids right; can somebody always go on? | 3 callers, 2 connections, 2 services, 2 ids | 175,016 |
| `postgres_calls` | does every kind of call, refused ones included, keep the promise (`StoreSpec`); does the pool leak, is everybody served by one connection? | 2 callers, 1 connection | 154,478 |
| `deployment` | do the handlers over Postgres behave like `Service`; do responses hold nothing; is every request answered, deadlocks included? | 2 requests at a time, 7 kinds, 2 connections, 2 ids | 184,632 |
| `sqlite` | does the lock keep rows, keys, ids and pages right, is the promise kept, does every call return? | 2 callers, 2 services, 2 ids | 160,459 |
| `service` | do statuses, totals and promises to clients hold? | 2 requests at a time, 22 kinds, 2 ids, an int of -8..7 | 839,621 |
| `lifecycle` | how may a process start, serve and stop? | 2 connections, 16 configurations, int32 of -4..3 | 8,827 |
| `list_truncated` | finding | 1 caller | |
| `service_filter` | finding | 1 caller | |
| `short_year` | finding | 1 caller | |
| `idle_timeout` | finding | 1 file | |
| `total_wraps` | finding | 1 request, an int of -3..2 | |

The bounds are small but not below what the properties need. Two ids are enough for the one
deadlock there is (two rows that exchange keys), for a failed create between two others, and for
the sequence to run out. Three writers are enough for a holder, a waiter and one who frees the
key. The ids are the bound of all runs: with `MaxInteger = 2` at most two creates ever get one, which
stands for an exhausted SERIAL as well. One user is enough in the Postgres runs, since the
statements treat the user as a part of the key only; the service run has two, one of them the nil
UUID. The deployment run adds what the single modules cannot have, the response that is still being written when
others call: creates of two keys, one refused, updates that exchange the keys of two rows, a delete and a get
are what two requests need to meet at a key, at a row and in a deadlock; the theorems cover any requests. Callers are interchangeable, so runs without liveness use symmetry.
Years are 2024 and 2025, and 12 for the years the DATE column takes for another date; a month 13 stands for every date a
column refuses. The int of the service run is narrow enough for the total of two rows to wrap around. One connection
(`postgres_calls`) makes everybody wait for the pool, but no two transactions ever overlap there: what
happens when they do is checked by `postgres_writes` and `deployment` and proved by the theorems. In SQLite two callers
are enough for what the lock has to keep apart (two writers, a writer and a reader, in either order);
the theorems cover any number. In `lifecycle` the configurations are one of each environment, one
that each check of `Load` refuses, and pool sizes and attempts of each sign, those that a narrow
int32 cuts to 0, 1 and a negative number included; two connections are enough for one that holds
the only connection of a pool and one that waits for it. Every run of the storages and handlers
checks deadlock, since the service never has to stop; the two of `Lifecycle` do not, since the
process ends.

### Fairness

`FairSpec` of PostgresStorage asks for three things. *WF of each caller's own steps*: goroutines are scheduled, the
server answers, and the pool serves its waiters in the order of arrival (pgxpool's semaphore is a
FIFO queue, and `queue` models it). *WF of the deadlock detector*: Postgres runs it after
`deadlock_timeout`. *SF of a blocked statement*: each time the holder of its row or key ends, the
server wakes it, and Postgres queues the waiters of a row, so it is not passed over for ever even
though others may lock the row in between. Connection failures are never assumed, nor that
they stop.

`FairDeploySpec` is the same three with a handler that waits for its method, and *WF of the end of a response*:
it is written, or `WriteTimeout` passes. No client has to send a request, and no response has to
arrive.

`FairSpec` of SqliteStorage is *WF of each caller's own steps*: goroutines are scheduled, and who
waits for the lock gets it or its busy timeout in the end. Failures of the file are not among them.

`FairSpec` of Lifecycle is *WF of main and of the listener* (scheduled; `Expire` is the timer of
`Shutdown`), *WF of a handler's own steps*, *SF of getting a connection* (the pool serves its waiters
in order) and *WF of a return from Postgres* (shown by `postgres_calls`, and with deadlocks
by `deployment`),
but not of a return from SQLite, signals, clients or malformed URLs.

### Findings

- `service_filter`: `postgres.go:362` compares the service name with `user_id`, so a total cost
  filtered by service is 0. The run stores a row of the service, asks for it, and the SELECT selects nothing. The unit
  test with the right answer (`postgres_test.go:537`) ignores the result of its comparison.
- `list_truncated`: a connection that breaks while rows arrive turns a list, or a total, into a
  successful shorter one (`postgres.go:383`). The loop of SQLite does the same (`sqlite.go:307`), where
  no connection has to break: a list that waits for the lock of the file for more than the busy
  timeout is a success with no rows (`Locked`). SubscriptionStore says so (`ReadPart`).
- `short_year`: `ToStringISO` does not pad the year to the YYYY its comment promises (`model.go:71`), so a
  subscription from `05-12` to `06-12` is stored from 2001-12-05 to 2001-12-06 and read back as `12-2001` for both.
- `idle_timeout`: without `idle_timeout` the request timeout becomes 30 s, whatever the file says, and
  the idle timeout stays 0 (`config.go:98`). net/http then takes the read timeout for it, so idle
  connections do end after 30 s; it is the timeout of requests that is wrong.
- `total_wraps`: the total is summed in `int` (`total_cost.go:170`), and SQLite's prices are as wide, so
  one row wraps it around. Over Postgres, whose prices have 32 bits, it takes some sixty of the
  dearest rows (`FewRowsTotals`).

Modelled without a claim to hold them against: a month 13 in a total-cost request gives 200 and a
total of 0 (the error of the query surfaces in `rows.Err()`), equal dates in a create give 500,
create answers 400 though its API annotations (`create.go:56-59`) list no error but 404, 409 and 500,
pages have no order, `limit=0&offset=0` returns everything, a total asked for the nil UUID counts
everybody's subscriptions and a two-digit year asks Postgres for another period (`TotalAsAsked`
excepts both), a listen that fails leaves a process that serves nothing until it gets a signal, a
second signal during `Shutdown` is ignored.

## Theorems

All hold for any callers, calls, ids, users, services, pool size, configurations and connections, under the assumptions
`DataAssumption` (`Env` is one of the two; `MaxInteger` is positive; the markers are not data; calls
are well formed), `PoolAssumption` (at least one connection), `RequestAssumption` (requests are
well formed), `CallsAssumption` (the storage's calls are the ones handlers make), `DeploymentAssumption` (both,
for the deployed service), `EnvAssumption` (a
storage runs in its own environment), `ColumnAssumption` (SqliteStorage: filter dates are
`TextOrdered`, prices as wide as Go's int), `WalkAssumption` (walks start on the calendar and take whole
years and months), `ConfigAssumption` and `LifecycleAssumption` (files are
configurations or unusable, connections finite in number).

- **DatesProofs**. `AddDateMoves`, `GreaterThanOrders`, `DefaultEndIsLater`, `MonthsBetweenSpan`:
  for all dates and arguments, over unbounded integers. They rest on `GoDivision`: quotient and
  remainder still make up the number although Go truncates.
- **DateWalkProofs**. `NeverOffCalendar`, `StepsExact`, `ComparisonsAgree`, `SpansAgree`: the same for
  a chain of `AddDate` of any length, from one invariant (both ends of the last step are calendar
  dates, and as far apart as the step says).
- **PostgresStorageProofs**. `TypeCorrect`, `Unique`, `Ends`, `Writes`, `Identity`. `Ends` is about
  days: the months of a row are never in the wrong order, but with two-digit years they may be the same. Uniqueness of
  the committed table is not inductive: a commit could spoil it. The invariant adds what is true
  of a transaction between its statement and its commit (`WritesSound`): its version is made of the
  row as it is now, nobody else has the row, and a key it has put in the index belongs to no
  other row and to no other transaction. A commit by one caller keeps that true for the others
  because a version is made only once its row is free, and a key placed only once nobody holds it.
  `Pool` has an invariant of its own about `conns`, `queue` and `pc`. `Deadlocks` needs one fact
  (`WaitedFor`): whoever is waited for is committing, or is an update waiting for its key; so in a
  circle, where everybody is waited for and waits, there are only updates. `Progress` is freedom from
  deadlock without `ENABLED`: every set of callers closed under what its members wait for (`Awaits`)
  contains one that is `Ready`. If none were, some member would hold a connection, those it
  waits for would all be updates at their key (`WaitedFor`), finite in number because they hold
  connections, and in a smallest closed set of these each waits for itself (`CircleFound`): the
  detector's victim, which is `Ready`. That a `Ready` caller has a step to take, with no
  failure, is `ReadyMoves`, which the run checks.
  `Implements == Spec => StoreSpec`, at the end of the module. The mapping takes `table` to `rows`,
  `pc` to `phase`, and to `fresh` the ids above the sequence and those drawn by a create still
  running. COMMIT, the snapshot of a SELECT and the failures are the steps that take effect;
  everything else is a stutter. Two steps need the invariant: a commit must find its key free and
  its row unchanged, and "already exists" needs a committed row with that key.
- **SqliteStorageProofs**. `TypeCorrect`, `Unique`, `Locks`, `Identity`, `ServiceFilter`, `Implements`, from one invariant:
  `LocksHold`, what `pc` says of the other variables (`Shape`), and that no live id is above `seq`.
  `LocksHold` is what makes uniqueness inductive here: the index is asked when the statement runs,
  the row is committed later, and nobody else wrote in between. A page is right because rows in
  `got` and rows skipped together count the rows scanned. A write takes effect in the abstract
  storage when it commits, a read when it ends; a read cut short is a `ReadPart`.
- **ServiceProofs**. `StatusHonest`, `AcknowledgedStay`, `RowsSane`, from one invariant that
  follows a request through its stages: what the call changed is what the reply says, then what
  the status says; and an id in a reply or told to a client is live unless a delete was asked for.
  `TotalsAsAsked` is inductive relative to it: the rows of a reply match the request they are for.
  `TypeCorrect` adds a second invariant, `Sane`: a reply carries
  finitely many entries, of typed rows whose costs are natural numbers, so that their sum is a number.
  `TotalByLoop` says that `TotalCost`, defined as one sum cut to `int` at its end, is what the Go loop
  computes, which wraps at each `*` and `+`, in whatever order the rows come. `TotalsExact` and
  `TotalsNotNegative` say when it is the number meant: when n rows read cost at most `MaxInt / n` each (`Fits`);
  no row ever costs less than nothing. Nothing in the code bounds the number of rows, so without that hypothesis
  both fail, as `total_wraps` shows. On 64 bits it is a mild one: at a price of
  10,000 and a span of ten years it allows more than seven million million rows. `FewRowsTotals` needs no more than
  a number of rows: no price is above `MaxInteger` and no span above the years of a DATE
  (`DearestCostBounds`), so whatever the prices and dates, up to `MaxInt / (MaxInteger * 12 * 5874897)` rows, 60 with the
  32 and 64 bits of Postgres and Go, each total is the sum of the rows read and not negative
  (`SumTold`). `RowsSane` means days as `Ends` does, and the months a row is read back with.
- **DeploymentProofs**. `StorageKept == DeploySpec => Spec`: a handler calls its storage as PostgresStorage
  assumes, so every theorem about PostgresStorage holds in the service. `ServiceImplemented ==
  DeploySpec => ServiceSpec`: the mapping is that of `Implements`, and the handlers' variables are their own.
  Every step of a method is either one that takes effect in the abstract storage (`StoreWork`) or a stutter there that
  leaves the table as it is, so that `changes` counts the same in both (`ServeRefines`). The
  invariant joins those of PostgresStorage and its pool with `Handling`: a method is running for exactly the
  requests that are "storing". Without it nothing would say that a request being answered is done with the database.
  From there `PromisesKept` (totals that are not negative included) and `TotalsOfFewRows` are the theorems of ServiceProofs, read through the
  instance, about the table of Postgres. Two theorems are about the composition alone. `Released`: who is not "storing" holds no
  connection, no row and no key, so a slow client keeps nobody waiting. `Found`: "not found" is only answered
  about an id that no row has at that step (`NotFoundReplies`), and by `Acknowledged` a told id has one
  until somebody asks to delete it.
- **LifecycleProofs**. `TypeCorrect` (with `LoadedComplete`: what `Load` accepts it completes),
  `GracefulStop`, `Statements`. The invariant adds what each phase of `main` excludes (`Phased`): nothing
  is served before `Start`, nothing accepted after `Stop`, `main` leaves `Shutdown` only when nobody
  is served or the limit passed, and no request starts on a connection that is closed by then.
  `Signals` needs no more: a signal sent is in the channel until `main` has taken it. `PoolOpened`:
  the size a pool is opened with, cut to 32 bits as it is, allows a connection, and the calls in
  flight are never more than it allows. Its invariant adds that there is no pool
  before `main` has opened one.

Sums over sets of rows are defined with a fold of the community modules, a recursion over sets. The
library's induction theorems cannot be instantiated here (they take a predicate as a parameter), so
the lemmas about sums argue by a least counterexample: of the finite sets for which the claim fails
one has no smaller one inside it (`LeastSet`, from the well-founded order of finite sets), and taking
one row away gives it. That is first-order and within reach; `Progress` uses the same lemma.

Only model-checked: the liveness properties `EveryCallReturns` (of both storages), `EveryRequestAnswered`,
`SignalEndsProcess`, `StartEnds` and `EveryRequestEnds`, since the provers do not take fairness apart;
`ReadyMoves`, which is about `ENABLED`; and the runs of the findings.
Every other property of a run has a theorem.

## Not modelled

- Parsing and printing beyond what they accept: the two integers of a date, whether a UUID or number
  parses. JSON layout, error texts, log lines, request ids.
- Panics (`middleware.Recoverer`): no handler path panics in the model. Unknown routes (404).
- A COMMIT the server carries out after the client has given up on it with an error: `ConnLost` is a rollback at
  once, `ReplyLost` a commit whose answer is lost. A server with another `DateStyle`.
- Crash of the Postgres server: a broken connection covers what callers see of it. Crash of the
  process (SIGKILL, power) with SQLite, whose journal is rolled back by the next one to open the
  file: no code of the repository takes part.
- SQLite's prepared statements, which the methods never close: a leak of memory, with no limit that a
  call would meet.
- Request logging (`middleware/logger`), which passes every request on; generated code (`docs`,
  `mocks`); YAML parsing; the time a timeout takes.

## Plan

1. Done: `Dates`, `Subscriptions`, `SubscriptionStore`, `PostgresStorage`, `Service` and their proofs.
2. Done: `SqliteStorage` against `SubscriptionStore`, `Lifecycle`, `Config`, and their proofs; the
   wrapping total at SQLite's widths; `Deadlocks`.
3. Done: sums over rows (`TotalByLoop`, `TotalsExact`, `TotalsNotNegative`), `TypeOK` of `Service`,
   `DateWalk` for any chain, freedom from deadlock (`Progress`), `Signals`, `PoolOpened`.
4. Done: the handlers composed with `PostgresStorage` itself (`Deployment`), so that `Acknowledged`,
   `StatusTellsEffect` and the totals are theorems about its table; totals of few rows (`FewRowsTotals`).
5. Left: the same composition with `SqliteStorage`, which implements the same SubscriptionStore. Its
   totals need the hypothesis `TableFits`, since its prices are as wide as Go's int.
