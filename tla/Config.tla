------------------------------- MODULE Config -------------------------------
(***************************************************************************)
(* internal/config/config.go: what Load makes of the file CONFIG_PATH      *)
(* names.  A key missing in the file has Go's zero value, "" or 0, as has  *)
(* one that is set to it.  Durations are in seconds, names and paths       *)
(* abstract.                                                               *)
(***************************************************************************)
EXTENDS Integers

CONSTANTS NoFile,          \* no CONFIG_PATH, no such file, not readable or not parsable
          Names,           \* hosts, addresses and paths (non-empty strings)
          DefaultAddress   \* 0.0.0.0:8082

Config == [env : {"dev", "prod", "other", ""}, address : Names \cup {""},
           timeout : Int, idleTimeout : Int, storagePath : Names \cup {""},
           pgHost : Names \cup {""}, pgPort : Int, pgDbName : Names \cup {""},
           pgMaxPoolSize : Int, pgConnectionAttempts : Int, pgConnectionTimeout : Int]

ASSUME ConfigAssumption ==
    /\ NoFile \notin Config
    /\ "" \notin Names /\ DefaultAddress \in Names

Default(n, d) == IF n = 0 THEN d ELSE n

(* The defaults of the HTTP server.  A missing idle_timeout resets timeout.*)
HTTPServer(c) ==
    [c EXCEPT !.address = IF c.address = "" THEN DefaultAddress ELSE c.address,
              !.timeout = IF c.idleTimeout = 0 THEN 30 ELSE Default(c.timeout, 4)]

(* handleDevEnv and handleProdEnv: the required keys ...                   *)
Accepted(c) ==
    \/ c.env = "dev" /\ c.storagePath # ""
    \/ c.env = "prod" /\ c.pgHost # "" /\ c.pgPort # 0 /\ c.pgDbName # ""

(* ... and the defaults of the others.  A negative number is kept.         *)
SlipStorageCfg(c) ==   \* forgets the default of the attempts
    IF c.env # "prod" THEN c
    ELSE [c EXCEPT !.pgMaxPoolSize = Default(c.pgMaxPoolSize, 1),
                   !.pgConnectionTimeout = Default(c.pgConnectionTimeout, 30)]
StorageCfg(c) ==
    IF c.env # "prod" THEN c
    ELSE [c EXCEPT !.pgMaxPoolSize = Default(c.pgMaxPoolSize, 1),
                   !.pgConnectionAttempts = Default(c.pgConnectionAttempts, 3),
                   !.pgConnectionTimeout = Default(c.pgConnectionTimeout, 30)]

(* Load: the configuration main gets of a file it accepts.                 *)
Loadable(f) == f # NoFile /\ Accepted(f)
Loaded(f) == StorageCfg(HTTPServer(f))

(* No key that Load has a default for is left unset, idle_timeout excepted.*)
Complete(c) ==
    /\ Accepted(c)
    /\ c.address # "" /\ c.timeout # 0
    /\ c.env = "prod" =>
          0 \notin {c.pgMaxPoolSize, c.pgConnectionAttempts, c.pgConnectionTimeout}

=============================================================================
