-------------------------- MODULE LifecycleProofs --------------------------
(***************************************************************************)
(* Safety of start and shutdown, for any configuration, any number of      *)
(* connections and any width of int32.                                     *)
(***************************************************************************)
EXTENDS Lifecycle, TLAPS, FiniteSetTheorems

(***************************************************************************)
(* The inductive invariant: nothing is served before main starts the       *)
(* listener or accepted after it stops it; main leaves Shutdown only with  *)
(* nobody served or at the limit, and no one can start a request on a      *)
(* connection that was not there then.                                     *)
(***************************************************************************)
BeforeStart == main \in {"load", "storage", "routing", "starting"}
Excused == expired \/ \A c \in Conns : conn[c] = "closed" \/ c \in dropped

Phased ==
    /\ BeforeStart => /\ listener = "none" /\ store # "closed"
                      /\ \A c \in Conns : conn[c] = "closed"
    /\ main \in {"draining", "closing", "exited"} => listener # "listening"
    /\ main \in {"draining", "closing"} => listener # "starting"
    /\ main \notin {"closing", "exited"} => store # "closed"
    /\ main = "closing" => Excused
    /\ main = "exited" => \A c \in Conns : conn[c] = "closed"
    /\ main # "exited" => cut = {}

IInv == TypeOK /\ Phased /\ Graceful /\ StatementsFinish

(***************************************************************************)
(* Typing.                                                                 *)
(***************************************************************************)

LEMMA DefaultSet == \A n, d \in Int : d # 0 => Default(n, d) \in Int \ {0}
  BY DEF Default

(* Whatever Load accepts it completes.                                     *)
LEMMA LoadedComplete ==
    ASSUME NEW f \in Config, Accepted(f)
    PROVE  Loaded(f) \in Config /\ Complete(Loaded(f))
  <1> DEFINE a == IF f.address = "" THEN DefaultAddress ELSE f.address
             t == IF f.idleTimeout = 0 THEN 30 ELSE Default(f.timeout, 4)
             h == HTTPServer(f)
  <1>0. h = [f EXCEPT !.address = a, !.timeout = t]
    BY DEF HTTPServer
  <1>1. a \in Names /\ a # "" /\ t \in Int /\ t # 0
    <2>0. f.address \in Names \cup {""}
      BY DEF Config
    <2>1. f.timeout \in Int
      BY DEF Config
    <2>2. a \in Names /\ a # ""
      BY <2>0, ConfigAssumption
    <2>3. Default(f.timeout, 4) \in Int /\ Default(f.timeout, 4) # 0
      BY <2>1 DEF Default
    <2>4. t \in Int /\ t # 0
      BY <2>3
    <2> QED
      BY <2>2, <2>4
  <1> HIDE DEF a, t, h
  <1>2. h \in Config /\ Accepted(h) /\ h.address # "" /\ h.timeout # 0
    BY <1>0, <1>1 DEF Config, Accepted
  <1>3. CASE h.env # "prod"
    BY <1>2, <1>3 DEF StorageCfg, Complete, Loaded, h
  <1>4. CASE h.env = "prod"
    <2> DEFINE size == Default(h.pgMaxPoolSize, 1)
               tries == Default(h.pgConnectionAttempts, 3)
               pause == Default(h.pgConnectionTimeout, 30)
               g == StorageCfg(h)
    <2>0. g = [h EXCEPT !.pgMaxPoolSize = size, !.pgConnectionAttempts = tries,
                        !.pgConnectionTimeout = pause]
      BY <1>4 DEF StorageCfg
    <2>1. size \in Int \ {0} /\ tries \in Int \ {0} /\ pause \in Int \ {0}
      <3>1. h.pgMaxPoolSize \in Int /\ h.pgConnectionAttempts \in Int /\ h.pgConnectionTimeout \in Int
        BY <1>2 DEF Config
      <3>2. size \in Int \ {0}
        BY <3>1, DefaultSet
      <3>3. tries \in Int \ {0}
        BY <3>1, DefaultSet
      <3>4. pause \in Int \ {0}
        BY <3>1, DefaultSet
      <3> QED
        BY <3>2, <3>3, <3>4
    <2> HIDE DEF size, tries, pause, g
    <2>2. g \in Config /\ Complete(g)
      BY <1>2, <1>4, <2>0, <2>1 DEF Config, Complete, Accepted
    <2> QED
      BY <2>2 DEF Loaded, g, h
  <1> QED
    BY <1>3, <1>4

Exits == LoadFails \/ NoSecrets \/ BadUrl \/ OutOfAttempts \/ Return \/ SignalKills

LEMMA ExitStep ==
    ASSUME TypeOK, Exits
    PROVE  Exit /\ UNCHANGED <<started, store, expired, dropped, done>> /\ sent' \in BOOLEAN
  BY DEF Exits, LoadFails, NoSecrets, BadUrl, OutOfAttempts, Return, SignalKills, TypeOK

(* Steps of a connection change that connection only.                      *)
LEMMA ConnStepShape ==
    ASSUME IInv, TypeOK, NEW c \in Conns, ConnStep(c)
    PROVE  /\ \E s \in ConnStates : conn' = [conn EXCEPT ![c] = s]
           /\ dropped' \subseteq Conns
           /\ main # "exited"
           /\ UNCHANGED <<main, started, store, listener, sent, done, expired, cut>>
  <1>1. CASE CloseIdle(c)
    BY <1>1 DEF CloseIdle, TypeOK, ConnStates
  <1>2. CASE Reply(c)
    BY <1>2 DEF Reply, TypeOK, ConnStates
  <1>3. CASE Hangup(c)
    BY <1>3 DEF Hangup, TypeOK, ConnStates
  <1>4. CASE Accept(c)
    BY <1>4 DEF Accept, IInv, Phased, TypeOK, ConnStates
  <1>5. ASSUME NEW from, NEW to \in ConnStates, Becomes(c, from, to)
        PROVE  /\ conn' = [conn EXCEPT ![c] = to] /\ dropped' \subseteq Conns /\ main # "exited"
               /\ UNCHANGED <<main, started, store, listener, sent, done, expired, cut>>
    BY <1>5 DEF Becomes, TypeOK
  <1> QED
    BY <1>1, <1>2, <1>3, <1>4, <1>5
    DEF ConnStep, ReadRequest, MarkActive, Refuse, Ask, Call, CallFails, CallReturns, ConnStates

LEMMA InitTypeOK == Init => TypeOK
  <1> SUFFICES ASSUME Init PROVE TypeOK
    OBVIOUS
  <1>1. conn \in [Conns -> ConnStates]
    BY DEF Init, ConnStates
  <1>2. cut \in SUBSET (Conns \X Serving) /\ dropped \subseteq Conns
    BY DEF Init
  <1>3. cfg \in {c \in Config : Complete(c)} \cup {NoFile} /\ left \in Int
    BY DEF Init
  <1> QED
    BY <1>1, <1>2, <1>3 DEF Init, TypeOK, MainPCs

LEMMA ExitTyped ==
    ASSUME TypeOK, Exits
    PROVE  TypeOK'
  <1>1. cut' \in SUBSET (Conns \X Serving)
    BY ExitStep DEF Exit
  <1>2. conn' \in [Conns -> ConnStates]
    BY ExitStep DEF Exit, ConnStates
  <1>3. main' \in MainPCs /\ listener' \in {"none", "starting", "listening", "failed", "stopped"}
    BY ExitStep DEF Exit, MainPCs
  <1> QED
    BY <1>1, <1>2, <1>3, ExitStep DEF TypeOK, started

LEMMA NextTypeOK == IInv /\ [Next]_vars => TypeOK'
  <1> SUFFICES ASSUME IInv, TypeOK, [Next]_vars PROVE TypeOK'
    BY DEF IInv
  <1>1. CASE Load
    <2>1. file \in Config
      BY <1>1, LifecycleAssumption DEF Load, Loadable, TypeOK
    <2>2. Loaded(file) \in Config /\ Complete(Loaded(file))
      BY <1>1, <2>1, LoadedComplete DEF Load, Loadable
    <2>3. Loaded(file).pgConnectionAttempts \in Int
      BY <2>2 DEF Config
    <2> QED
      BY <1>1, <2>2, <2>3 DEF Load, TypeOK, MainPCs
  <1>2. CASE Exits
    BY <1>2, ExitTyped
  <1>3. CASE OpenSqlite \/ OpenPool \/ Notify \/ Start
    BY <1>3 DEF OpenSqlite, OpenPool, Notify, Start, started, TypeOK, MainPCs
  <1>4. CASE Retry
    <2>1. left' \in Int
      BY <1>4 DEF Retry, TypeOK
    <2> QED
      BY <1>4, <2>1 DEF Retry, TypeOK
  <1>5. CASE Stop \/ Drained \/ BeginClose
    BY <1>5 DEF Stop, Drained, BeginClose, started, TypeOK, MainPCs
  <1>6. CASE Expire \/ Signal
    BY <1>6 DEF Expire, Signal, started, TypeOK, MainPCs
  <1>7. CASE Listen
    BY <1>7 DEF Listen, started, TypeOK
  <1>8. ASSUME NEW c \in Conns, ConnStep(c) PROVE TypeOK'
    BY <1>8, ConnStepShape DEF started, TypeOK
  <1>9. CASE UNCHANGED vars
    BY <1>9 DEF vars, TypeOK
  <1> QED
    BY <1>1, <1>2, <1>3, <1>4, <1>5, <1>6, <1>7, <1>8, <1>9 DEF Next, MainStep, Exits

(***************************************************************************)
(* The invariant.                                                          *)
(***************************************************************************)
LEMMA InitInv == Init => IInv
  <1> SUFFICES ASSUME Init PROVE IInv
    OBVIOUS
  <1>1. Phased
    BY DEF Init, Phased, BeforeStart
  <1> QED
    BY <1>1, InitTypeOK DEF Init, IInv, Graceful, StatementsFinish

(* The process may end before it serves anybody, or after Close.           *)
LEMMA InvExit ==
    ASSUME IInv, TypeOK', Exits
    PROVE  IInv'
  <1>1. Exit /\ UNCHANGED <<cfg, store, expired, dropped>>
    BY ExitStep DEF IInv, started
  <1>2. Excused /\ (InProd => \A c \in Conns : conn[c] # "calling")
    <2>1. CASE Return
      BY <2>1 DEF Return, Calling, IInv, Phased
    <2>2. CASE ~Return
      <3>1. BeforeStart
        BY <2>2 DEF Exits, LoadFails, NoSecrets, BadUrl, Attempting, OutOfAttempts, SignalKills,
           BeforeStart
      <3> QED
        BY <3>1 DEF IInv, Phased, Excused
    <2> QED
      BY <2>1, <2>2
  <1>3. main' = "exited" /\ listener' \in {"none", "stopped"} /\ \A c \in Conns : conn'[c] = "closed"
    BY <1>1 DEF Exit
  <1>4. Phased'
    BY <1>3 DEF Phased, BeforeStart
  <1>5. \A e \in cut' : (expired \/ e[1] \in dropped) /\ (InProd => e[2] # "calling")
    <2>1. "closed" \notin Serving
      BY DEF Serving
    <2> QED
      BY <1>1, <1>2, <2>1 DEF Exit, Excused
  <1>6. Graceful'
    BY <1>1, <1>3, <1>5 DEF Graceful, Serving
  <1>7. StatementsFinish'
    BY <1>1, <1>5 DEF StatementsFinish, InProd
  <1> QED
    BY <1>4, <1>6, <1>7 DEF IInv

(* No step of a connection opens it or starts serving it once main stopped *)
(* the listener, unless it was there before.                               *)
LEMMA InvConn ==
    ASSUME IInv, TypeOK', NEW c \in Conns, ConnStep(c)
    PROVE  IInv'
  <1>1. PICK s \in ConnStates : conn' = [conn EXCEPT ![c] = s]
    BY ConnStepShape DEF IInv
  <1>2. main # "exited" /\ UNCHANGED <<main, started, store, listener, sent, done, expired, cut>>
    BY ConnStepShape DEF IInv
  <1>3. /\ conn'[c] = s /\ \A d \in Conns \ {c} : conn'[d] = conn[d]
    BY <1>1 DEF IInv, TypeOK
  <1>4. /\ conn[c] = "closed" => listener = "listening" /\ s \notin Serving
        /\ \A d \in Conns \ {c} : d \in dropped <=> d \in dropped'
        /\ s # "closed" /\ c \in dropped => c \in dropped'
    <2>1. CASE CloseIdle(c)
      BY <1>3, <2>1 DEF CloseIdle, IInv, TypeOK
    <2>2. CASE Reply(c)
      BY <1>3, <2>2 DEF Reply, IInv, TypeOK
    <2>3. CASE Hangup(c)
      BY <1>3, <2>3 DEF Hangup, IInv, TypeOK
    <2>4. CASE Accept(c)
      BY <1>3, <2>4 DEF Accept, IInv, TypeOK, Serving
    <2>5. ASSUME NEW from \in ConnStates \ {"closed"}, NEW to, Becomes(c, from, to)
          PROVE  conn[c] # "closed" /\ dropped' = dropped
      BY <2>5 DEF Becomes
    <2> QED
      BY <2>1, <2>2, <2>3, <2>4, <2>5
      DEF ConnStep, ReadRequest, MarkActive, Refuse, Ask, Call, CallFails, CallReturns, ConnStates
  <1>5. Phased'
    <2>1. ~BeforeStart
      BY <1>1, <1>3, <1>4 DEF IInv, Phased, ConnStep, CloseIdle, Accept, Hangup
    <2>2. Excused /\ main = "closing" => Excused'
      BY <1>2, <1>3, <1>4 DEF IInv, Phased, Excused
    <2> QED
      BY <1>2, <2>1, <2>2 DEF IInv, Phased, BeforeStart
  <1>6. Graceful'
    <2>1. cut' = {}
      BY <1>2 DEF IInv, Phased
    <2>2. ASSUME store = "closed", NEW d \in Conns, conn'[d] \in Serving
          PROVE  expired \/ d \in dropped'
      <3>1. expired \/ conn[d] = "closed" \/ d \in dropped
        BY <1>2, <2>2 DEF IInv, Phased, Excused
      <3>2. "closed" \notin Serving
        BY DEF Serving
      <3> QED
        BY <1>2, <1>3, <1>4, <2>2, <3>1, <3>2
    <2> QED
      BY <1>2, <2>1, <2>2 DEF Graceful
  <1>7. StatementsFinish'
    BY <1>2 DEF IInv, Phased, StatementsFinish
  <1> QED
    BY <1>5, <1>6, <1>7 DEF IInv

LEMMA NextInv == IInv /\ [Next]_vars => IInv'
  <1> SUFFICES ASSUME IInv, TypeOK', [Next]_vars PROVE IInv'
    BY NextTypeOK
  <1>1. CASE Exits
    BY <1>1, InvExit
  <1>2. ASSUME NEW c \in Conns, ConnStep(c) PROVE IInv'
    BY <1>2, InvConn
  <1>3. CASE Load \/ OpenSqlite \/ OpenPool \/ Retry \/ Notify \/ Start
    BY <1>3 DEF Load, OpenSqlite, OpenPool, Retry, Attempting, Notify, Start, started, IInv, Phased,
       BeforeStart, Graceful, StatementsFinish
  <1>4. CASE Stop \/ Drained \/ Expire \/ BeginClose
    BY <1>4 DEF Stop, Drained, Quiescent, Expire, BeginClose, started, IInv, Phased, BeforeStart,
       Excused, Graceful, Serving, StatementsFinish, InProd
  <1>5. CASE Signal \/ Listen
    BY <1>5 DEF Signal, Listen, started, IInv, Phased, BeforeStart, Excused, Graceful,
       StatementsFinish, InProd
  <1>6. CASE UNCHANGED vars
    BY <1>6 DEF vars, IInv, Phased, BeforeStart, Excused, Graceful, StatementsFinish, InProd
  <1> QED
    BY <1>1, <1>2, <1>3, <1>4, <1>5, <1>6 DEF Next, MainStep, Exits

LEMMA Invariance == Spec => []IInv
  BY InitInv, NextInv, PTL DEF Spec

(* Every state is well typed; what Load hands to main has no key unset     *)
(* that it has a default for.                                              *)
THEOREM TypeCorrect == Spec => []TypeOK
  <1>1. IInv => TypeOK
    BY DEF IInv
  <1> QED
    BY <1>1, Invariance, PTL

(* No request loses its storage or is cut off by the end of the process    *)
(* unless Shutdown's limit passed or its connection was taken for idle.    *)
THEOREM GracefulStop == Spec => []Graceful
  <1>1. IInv => Graceful
    BY DEF IInv
  <1> QED
    BY <1>1, Invariance, PTL

(* The end of the process never cuts off a call of Postgres.               *)
THEOREM Statements == Spec => []StatementsFinish
  <1>1. IInv => StatementsFinish
    BY DEF IInv
  <1> QED
    BY <1>1, Invariance, PTL

(* No signal is lost: main, once it waits for one, finds it.               *)
THEOREM Signals == Spec => []SignalKept
  <1>1. Init => SignalKept
    BY DEF Init, SignalKept
  <1>2. IInv /\ SignalKept /\ [Next]_vars => SignalKept'
    <2> SUFFICES ASSUME IInv, SignalKept, [Next]_vars PROVE SignalKept'
      OBVIOUS
    <2>1. CASE Exits
      <3>1. main' = "exited" /\ done' = done /\ (sent' = sent \/ sent')
        BY <2>1 DEF Exits, LoadFails, NoSecrets, BadUrl, OutOfAttempts, SignalKills, Return, Exit
      <3> QED
        BY <3>1 DEF SignalKept
    <2>2. ASSUME NEW c \in Conns, ConnStep(c) PROVE SignalKept'
      BY <2>2, ConnStepShape DEF IInv, SignalKept
    <2>3. CASE Load \/ OpenSqlite \/ OpenPool \/ Retry \/ Notify \/ Start
      BY <2>3 DEF Load, OpenSqlite, OpenPool, Retry, Attempting, Notify, Start, SignalKept
    <2>4. CASE Stop \/ Drained \/ Expire \/ BeginClose \/ Signal \/ Listen
      BY <2>4 DEF Stop, Drained, Expire, BeginClose, Signal, Listen, SignalKept, IInv, TypeOK, MainPCs
    <2>5. CASE UNCHANGED vars
      BY <2>5 DEF vars, SignalKept
    <2> QED
      BY <2>1, <2>2, <2>3, <2>4, <2>5 DEF Next, MainStep, Exits
  <1> QED
    BY <1>1, <1>2, Invariance, PTL DEF Spec

(***************************************************************************)
(* The pool.                                                               *)
(***************************************************************************)
PoolInv == PoolUsable /\ (main \in {"load", "storage"} => store = "none")

LEMMA CallingFinite ==
    /\ IsFiniteSet(Calling) /\ Cardinality(Calling) \in Nat
    /\ \A S \in SUBSET Calling : Cardinality(S) \in Nat /\ Cardinality(S) <= Cardinality(Calling)
  <1>1. IsFiniteSet(Calling)
    BY LifecycleAssumption, FS_Subset DEF Calling
  <1> QED
    BY <1>1, FS_Subset, FS_CardinalityType

LEMMA MaxConnsInt == ASSUME TypeOK, InProd PROVE MaxConns \in Int
  <1>1. cfg.pgMaxPoolSize \in Int
    BY DEF TypeOK, InProd, Config
  <1> QED
    BY <1>1, LifecycleAssumption DEF MaxConns, Int32

(* A step that takes no connection keeps the pool as it was.               *)
LEMMA PoolKept ==
    ASSUME IInv, PoolInv, cfg' = cfg, store # "none" \/ store' = "none",
           Calling' \in SUBSET Calling,
           main' \in {"load", "storage"} => store' = "none"
    PROVE  PoolInv'
  <1>1. ASSUME InProd, store # "none"
        PROVE  MaxConns >= 1 /\ Cardinality(Calling') <= MaxConns
    <2>1. MaxConns >= 1 /\ Cardinality(Calling) <= MaxConns /\ MaxConns \in Int
      BY <1>1, MaxConnsInt DEF PoolInv, PoolUsable, IInv
    <2> QED
      BY <2>1, CallingFinite
  <1> QED
    BY <1>1 DEF PoolInv, PoolUsable, InProd, MaxConns

LEMMA NextPoolInv == IInv /\ PoolInv /\ [Next]_vars => PoolInv'
  <1> SUFFICES ASSUME IInv, PoolInv, [Next]_vars PROVE PoolInv'
    OBVIOUS
  <1>1. CASE Exits
    <2>1. main' = "exited" /\ store' = store /\ cfg' = cfg /\ Calling' = {}
      BY <1>1, ExitStep DEF IInv, Exit, started, Calling
    <2> QED
      BY <2>1, PoolKept
  <1>2. CASE Load
    BY <1>2 DEF Load, PoolInv, PoolUsable
  <1>3. CASE OpenSqlite
    BY <1>3 DEF OpenSqlite, started, PoolInv, PoolUsable, InProd
  <1>4. CASE OpenPool
    <2>1. MaxConns' = MaxConns /\ MaxConns >= 1 /\ main' = "routing"
      BY <1>4 DEF OpenPool, PoolMade, MaxConns, started
    <2>2. Calling' = {}
      BY <1>4 DEF OpenPool, Attempting, IInv, Phased, BeforeStart, Calling
    <2>3. Cardinality(Calling') = 0 /\ MaxConns \in Int
      BY <1>4, <2>2, FS_EmptySet, MaxConnsInt DEF IInv, OpenPool, Attempting
    <2> QED
      BY <2>1, <2>3 DEF PoolInv, PoolUsable
  <1>5. CASE Retry \/ Notify \/ Start \/ Stop \/ Drained \/ Expire \/ Signal \/ Listen
    <2>1. /\ cfg' = cfg /\ store' = store /\ conn' = conn
          /\ main' = main \/ main' \notin {"load", "storage"}
      BY <1>5 DEF Retry, Notify, Start, Stop, Drained, Expire, Signal, Listen, started
    <2>2. Calling' = Calling
      BY <2>1 DEF Calling
    <2> QED
      BY <2>1, <2>2, PoolKept DEF PoolInv
  <1>6. CASE BeginClose
    BY <1>6, PoolKept DEF BeginClose, started, Calling
  <1>7. ASSUME NEW c \in Conns, ConnStep(c) PROVE PoolInv'
    <2>1. UNCHANGED <<main, cfg, store>>
      BY <1>7, ConnStepShape DEF IInv, started
    <2>2. CASE Call(c)
      <3>1. Calling' = Calling \cup {c} /\ c \notin Calling
        BY <2>2 DEF Call, Becomes, Calling, IInv, TypeOK
      <3>2. Cardinality(Calling') = Cardinality(Calling) + 1
        BY <3>1, CallingFinite, FS_AddElement
      <3>3. InProd => Cardinality(Calling) < MaxConns /\ MaxConns \in Int
        BY <2>2, MaxConnsInt DEF Call, IInv
      <3> QED
        BY <2>1, <3>2, <3>3, CallingFinite DEF PoolInv, PoolUsable, InProd, MaxConns
    <2>3. CASE ~Call(c)
      <3>1. PICK s \in ConnStates \ {"calling"} : conn' = [conn EXCEPT ![c] = s]
        BY <1>7, <2>3 DEF ConnStep, CloseIdle, Accept, Hangup, ReadRequest, MarkActive, Refuse, Ask,
           CallFails, CallReturns, Reply, Becomes, ConnStates, IInv, TypeOK
      <3>2. Calling' \in SUBSET Calling
        BY <3>1 DEF Calling, IInv, TypeOK
      <3> QED
        BY <2>1, <3>2, PoolKept DEF PoolInv
    <2> QED
      BY <2>2, <2>3
  <1>8. CASE UNCHANGED vars
    BY <1>8, PoolKept DEF vars, Calling, PoolInv
  <1> QED
    BY <1>1, <1>2, <1>3, <1>4, <1>5, <1>6, <1>7, <1>8 DEF Next, MainStep, Exits

(* What PostgresStorage assumes of its pool: it has room for a connection. *)
THEOREM PoolOpened == Spec => []PoolUsable
  <1>1. Init => PoolInv
    BY DEF Init, PoolInv, PoolUsable
  <1>2. PoolInv => PoolUsable
    BY DEF PoolInv
  <1> QED
    BY <1>1, <1>2, NextPoolInv, Invariance, PTL DEF Spec

=============================================================================
