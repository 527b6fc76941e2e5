----------------------------- MODULE Lifecycle -----------------------------
(***************************************************************************)
(* cmd/main.go: one process from its start to its end.  main loads the     *)
(* configuration, makes the storage (NewStorage of either package), starts *)
(* a goroutine that listens, and waits for a signal; then Shutdown waits   *)
(* for the requests being served, 10 s at most, and the deferred Close     *)
(* closes the storage.  Meanwhile every connection has a goroutine that    *)
(* serves its requests one after the other.  main is at                    *)
(*   "load"      before or in config.Load                                  *)
(*   "storage"   in NewStorage                                             *)
(*   "routing"   storage open, signals not yet asked for                   *)
(*   "starting"  signal.Notify called, the listener not yet started        *)
(*   "waiting"   for a signal                                              *)
(*   "draining"  in Shutdown                                               *)
(*   "closing"   in the deferred Close                                     *)
(*   "exited"    the process has ended                                     *)
(* net/http, pgxpool and database/sql are modelled by what main relies on. *)
(***************************************************************************)
EXTENDS Config, FiniteSets

CONSTANTS Files,     \* what CONFIG_PATH may name when the process starts
          Conns,     \* client connections open at a time
          Half       \* int32 is -Half..Half - 1

ASSUME LifecycleAssumption ==
    /\ Files \subseteq Config \cup {NoFile}
    /\ IsFiniteSet(Conns)
    /\ Half \in Nat \ {0}

VARIABLES main,
          file, cfg,  \* the configuration file; what Load made of it
          secrets,    \* are PG_USER and PG_PASS set?
          left,       \* attempts NewStorage has left
          store,      \* "none", "open" or "closed"
          listener,   \* "none", "starting", "listening", "failed" or "stopped"
          sent,       \* history: the process was asked to stop
          done,       \* the channel of size 1: does it hold a signal?
          conn,       \* per connection: what its goroutine does, see below
          expired,    \* did Shutdown give up?
          dropped,    \* connections Shutdown closed under the request they read
          cut         \* history: what the requests cut off by the end were doing

vars == <<main, file, cfg, secrets, left, store, listener, sent, done, conn, expired, dropped, cut>>
started == <<file, cfg, secrets, left>>

InProd == cfg # NoFile /\ cfg.env = "prod"

MainPCs == {"load", "storage", "routing", "starting", "waiting", "draining", "closing", "exited"}
(* A connection is closed, idle (or new: nothing read yet), has a request  *)
(* read that net/http has not yet marked active, or is active with its     *)
(* handler before, in or after its storage call; "asking" waits for a      *)
(* connection of the pool.                                                 *)
ConnStates == {"closed", "idle", "read", "running", "asking", "calling", "replying"}
Serving == {"read", "running", "asking", "calling", "replying"}

TypeOK ==
    /\ main \in MainPCs
    /\ file \in Files
    /\ cfg \in {c \in Config : Complete(c)} \cup {NoFile}
    /\ secrets \in BOOLEAN
    /\ left \in Int
    /\ store \in {"none", "open", "closed"}
    /\ listener \in {"none", "starting", "listening", "failed", "stopped"}
    /\ sent \in BOOLEAN /\ done \in BOOLEAN /\ expired \in BOOLEAN
    /\ conn \in [Conns -> ConnStates]
    /\ dropped \subseteq Conns
    /\ cut \in SUBSET (Conns \X Serving)

Init ==
    /\ main = "load"
    /\ file \in Files /\ secrets \in BOOLEAN
    /\ cfg = NoFile
    /\ left = 0
    /\ store = "none" /\ listener = "none"
    /\ sent = FALSE /\ done = FALSE /\ expired = FALSE
    /\ conn = [c \in Conns |-> "closed"]
    /\ dropped = {} /\ cut = {}

(* The process ends, and every goroutine with it.                          *)
Exit ==
    /\ main' = "exited"
    /\ cut' = {<<c, conn[c]>> : c \in {d \in Conns : conn[d] \in Serving}}
    /\ conn' = [c \in Conns |-> "closed"]
    /\ listener' = IF listener = "none" THEN "none" ELSE "stopped"

(***************************************************************************)
(* Start.                                                                  *)
(***************************************************************************)
Load ==
    /\ main = "load" /\ Loadable(file)
    /\ cfg' = Loaded(file)
    /\ left' = Loaded(file).pgConnectionAttempts
    /\ main' = "storage"
    /\ UNCHANGED <<file, secrets, store, listener, sent, done, conn, expired, dropped, cut>>

LoadFails ==
    /\ main = "load" /\ ~Loadable(file)
    /\ Exit
    /\ UNCHANGED <<started, store, sent, done, expired, dropped>>

(* sqlite.NewStorage opens no file yet and fails on nothing else.          *)
OpenSqlite ==
    /\ main = "storage" /\ ~InProd
    /\ store' = "open"
    /\ main' = "routing"
    /\ UNCHANGED <<started, listener, sent, done, conn, expired, dropped, cut>>

(* The variables of the environment, and the URL made of them.             *)
NoSecrets ==
    /\ main = "storage" /\ InProd /\ ~secrets
    /\ Exit
    /\ UNCHANGED <<started, store, sent, done, expired, dropped>>
BadUrl ==
    /\ main = "storage" /\ InProd /\ secrets
    /\ left = cfg.pgConnectionAttempts
    /\ Exit
    /\ UNCHANGED <<started, store, sent, done, expired, dropped>>

(* One turn of the attempts loop.  The pool connects when it is first used,*)
(* so all NewWithConfig can refuse is its size, and that for ever.         *)
Int32(n) == ((n + Half) % (2 * Half)) - Half
MaxConns == Int32(cfg.pgMaxPoolSize)
SlipPoolMade == cfg.pgMaxPoolSize # 0   \* trusts the configured size
PoolMade == MaxConns >= 1
Attempting == main = "storage" /\ InProd /\ secrets

OpenPool ==
    /\ Attempting /\ left > 0 /\ PoolMade
    /\ store' = "open"
    /\ main' = "routing"
    /\ UNCHANGED <<started, listener, sent, done, conn, expired, dropped, cut>>

SlipRetry ==    \* i is not counted down
    /\ Attempting /\ left > 0 /\ ~PoolMade
    /\ left' = left
    /\ UNCHANGED <<main, file, cfg, secrets, store, listener, sent, done, conn, expired, dropped, cut>>
Retry ==
    /\ Attempting /\ left > 0 /\ ~PoolMade
    /\ left' = left - 1
    /\ UNCHANGED <<main, file, cfg, secrets, store, listener, sent, done, conn, expired, dropped, cut>>

OutOfAttempts ==
    /\ Attempting /\ left <= 0
    /\ Exit
    /\ UNCHANGED <<started, store, sent, done, expired, dropped>>

Notify ==
    /\ main = "routing"
    /\ main' = "starting"
    /\ UNCHANGED <<started, store, listener, sent, done, conn, expired, dropped, cut>>

(* go srv.ListenAndServe()                                                 *)
Start ==
    /\ main = "starting"
    /\ listener' = "starting"
    /\ main' = "waiting"
    /\ UNCHANGED <<started, store, sent, done, conn, expired, dropped, cut>>

(***************************************************************************)
(* Signals and the end.                                                    *)
(***************************************************************************)

(* Before Notify a signal ends the process.  After it, the channel keeps   *)
(* one, and one that does not fit is dropped.                              *)
SignalKills ==
    /\ main \in {"load", "storage", "routing"}
    /\ sent' = TRUE
    /\ Exit
    /\ UNCHANGED <<started, store, done, expired, dropped>>
SlipSignal ==   \* the channel keeps none: it is lost if main is not receiving
    /\ main \notin {"load", "storage", "routing", "exited"}
    /\ sent' = TRUE
    /\ done' = (main = "waiting")
    /\ UNCHANGED <<main, started, store, listener, conn, expired, dropped, cut>>
Signal ==
    /\ main \notin {"load", "storage", "routing", "exited"}
    /\ sent' = TRUE
    /\ done' = TRUE
    /\ UNCHANGED <<main, started, store, listener, conn, expired, dropped, cut>>

(* <-done, and Shutdown: no more connections are accepted.                 *)
SlipStop ==   \* no Shutdown
    /\ main = "waiting" /\ done
    /\ done' = FALSE
    /\ listener' = IF listener = "failed" THEN "failed" ELSE "stopped"
    /\ main' = "closing"
    /\ UNCHANGED <<started, store, sent, conn, expired, dropped, cut>>
Stop ==
    /\ main = "waiting" /\ done
    /\ done' = FALSE
    /\ listener' = IF listener = "failed" THEN "failed" ELSE "stopped"
    /\ main' = "draining"
    /\ UNCHANGED <<started, store, sent, conn, expired, dropped, cut>>

(* Shutdown closes the connections it takes for idle: those net/http has   *)
(* not marked active, even when their next request is being read.          *)
CloseIdle(c) ==
    /\ main = "draining" /\ conn[c] \in {"idle", "read"} /\ c \notin dropped
    /\ conn' = [conn EXCEPT ![c] = IF @ = "idle" THEN "closed" ELSE @]
    /\ dropped' = IF conn[c] = "idle" THEN dropped ELSE dropped \cup {c}
    /\ UNCHANGED <<main, started, store, listener, sent, done, expired, cut>>

Quiescent == \A c \in Conns : conn[c] = "closed" \/ c \in dropped
Drained ==
    /\ main = "draining" /\ Quiescent
    /\ main' = "closing"
    /\ UNCHANGED <<started, store, listener, sent, done, conn, expired, dropped, cut>>

(* Shutdown returns the context's error after 10 s.                        *)
Expire ==
    /\ main = "draining" /\ ~Quiescent
    /\ expired' = TRUE
    /\ main' = "closing"
    /\ UNCHANGED <<started, store, listener, sent, done, conn, dropped, cut>>

(* The deferred Close.  From its start on no call gets a connection.  The  *)
(* pool's waits for the connections in use, database/sql's does not.       *)
BeginClose ==
    /\ main = "closing" /\ store = "open"
    /\ store' = "closed"
    /\ UNCHANGED <<main, started, listener, sent, done, conn, expired, dropped, cut>>

Calling == {c \in Conns : conn[c] = "calling"}
SlipReturn ==   \* Close is not deferred
    /\ main = "closing"
    /\ Exit
    /\ UNCHANGED <<started, store, sent, done, expired, dropped>>
Return ==
    /\ main = "closing" /\ store = "closed"
    /\ InProd => Calling = {}
    /\ Exit
    /\ UNCHANGED <<started, store, sent, done, expired, dropped>>

(***************************************************************************)
(* The listener and the connections.                                       *)
(***************************************************************************)
Listen ==
    /\ listener = "starting" /\ main # "exited"
    /\ listener' \in {"listening", "failed"}    \* the address may be in use
    /\ UNCHANGED <<main, started, store, sent, done, conn, expired, dropped, cut>>

Accept(c) ==
    /\ listener = "listening" /\ conn[c] = "closed"
    /\ conn' = [conn EXCEPT ![c] = "idle"]
    /\ UNCHANGED <<main, started, store, listener, sent, done, expired, dropped, cut>>

Becomes(c, from, to) ==
    /\ main # "exited"
    /\ conn[c] = from
    /\ conn' = [conn EXCEPT ![c] = to]
    /\ UNCHANGED <<main, started, store, listener, sent, done, expired, dropped, cut>>

ReadRequest(c) == Becomes(c, "idle", "read")
MarkActive(c) == Becomes(c, "read", "running")

(* The client leaves, or ReadTimeout or IdleTimeout passes.                *)
Hangup(c) ==
    /\ main # "exited" /\ conn[c] \in {"idle", "read"}
    /\ conn' = [conn EXCEPT ![c] = "closed"]
    /\ dropped' = dropped \ {c}
    /\ UNCHANGED <<main, started, store, listener, sent, done, expired, cut>>

(* The handler answers by itself, or calls the storage, which has to get a *)
(* connection; a closed storage gives none.                                *)
Refuse(c) == Becomes(c, "running", "replying")
Ask(c) == Becomes(c, "running", "asking")
Call(c) ==
    /\ store = "open"
    /\ InProd => Cardinality(Calling) < MaxConns
    /\ Becomes(c, "asking", "calling")
CallFails(c) ==
    /\ InProd => Cardinality(Calling) < MaxConns
    /\ Becomes(c, "asking", "replying")
CallReturns(c) == Becomes(c, "calling", "replying")

(* The response is written; once Shutdown began the connection is closed.  *)
Reply(c) ==
    /\ main # "exited" /\ conn[c] = "replying"
    /\ conn' = [conn EXCEPT ![c] =
                    IF main \in {"draining", "closing"} \/ c \in dropped THEN "closed" ELSE "idle"]
    /\ dropped' = dropped \ {c}
    /\ UNCHANGED <<main, started, store, listener, sent, done, expired, cut>>

MainStep ==
    \/ Load \/ LoadFails \/ OpenSqlite \/ NoSecrets \/ OpenPool \/ Retry \/ OutOfAttempts
    \/ Notify \/ Start \/ Stop \/ Drained \/ Expire \/ BeginClose \/ Return
ConnStep(c) ==
    \/ CloseIdle(c) \/ Accept(c) \/ Hangup(c) \/ ReadRequest(c) \/ MarkActive(c)
    \/ Refuse(c) \/ Ask(c) \/ Call(c) \/ CallFails(c) \/ CallReturns(c) \/ Reply(c)
Next == MainStep \/ BadUrl \/ SignalKills \/ Signal \/ Listen \/ \E c \in Conns : ConnStep(c)

Spec == Init /\ [][Next]_vars

(* Goroutines are scheduled and timers fire; the pool serves its waiters   *)
(* in the order they came; a call of Postgres returns (EveryCallReturns of *)
(* PostgresStorage), which is not asked of SQLite's.  Clients and signals  *)
(* come when they like, and nothing forces a malformed URL.                *)
FairSpec ==
    /\ Spec
    /\ WF_vars(MainStep) /\ WF_vars(Listen)
    /\ \A c \in Conns :
          /\ WF_vars(MarkActive(c) \/ Refuse(c) \/ Ask(c) \/ Reply(c))
          /\ SF_vars(Call(c) \/ CallFails(c))
          /\ WF_vars(InProd /\ CallReturns(c))

(***************************************************************************)
(* Correctness.                                                            *)
(***************************************************************************)

(* No request is cut off by the end of the process, or has the storage     *)
(* closed under its handler, unless Shutdown's 10 s had passed or net/http *)
(* had taken its connection for idle.                                      *)
Graceful ==
    /\ store = "closed" => \A c \in Conns : conn[c] \in Serving => expired \/ c \in dropped
    /\ \A e \in cut : expired \/ e[1] \in dropped

(* Even then no call of Postgres is cut off: Close waits for the pool's    *)
(* connections.                                                            *)
StatementsFinish == InProd => \A e \in cut : e[2] # "calling"

(* A pool NewStorage hands out can have a connection, whatever the size    *)
(* configured is cut to, and never has more than that in use.              *)
PoolUsable ==
    InProd /\ store # "none" => MaxConns >= 1 /\ Cardinality(Calling) <= MaxConns

(* A signal is never forgotten, at whatever point of the start it comes,   *)
(* and nothing else makes the service shut down.                           *)
SignalKept ==
    /\ sent => \/ main \in {"starting", "waiting"} /\ done
               \/ main \in {"draining", "closing", "exited"}
    /\ done \/ main \in {"draining", "closing"} => sent

(* A process asked to stop stops: a signal that comes before main waits    *)
(* for it is kept, and nothing main waits for afterwards lasts for ever.   *)
SignalEndsProcess == sent ~> main = "exited"

(* The attempts of NewStorage end, whatever the configuration.             *)
StartEnds == <>(main \notin {"load", "storage", "routing", "starting"})

(* Every request ends, since NewStorage hands out no pool that can have no *)
(* connection, and Close lets go who waits for one; only a call of SQLite  *)
(* may last.                                                               *)
EveryRequestEnds == \A c \in Conns :
    conn[c] \in Serving ~> conn[c] \notin Serving \/ (~InProd /\ conn[c] = "calling")

(* config.go:92 "key 'timeout' of tag 'http_server' not set, use default   *)
(* '4s'" and config.go:97 "key 'idle_timeout' of tag 'http_server' not     *)
(* set, use default '30s'".                                                *)
TimeoutsAsLogged == cfg # NoFile =>
    /\ cfg.timeout = Default(file.timeout, 4)
    /\ cfg.idleTimeout = Default(file.idleTimeout, 30)

=============================================================================
