---------------------------- MODULE MCLifecycle ----------------------------
(* Lifecycle with an int32 of -4..3: configurations of both environments,  *)
(* one that each check of Load refuses, and pool sizes and attempts that   *)
(* only NewStorage refuses, those that int32 cuts to 0, 1 or -3 included.  *)
EXTENDS Lifecycle

NamesMC == {"db", "0.0.0.0:8082"}

Dev == [env |-> "dev", address |-> "", timeout |-> 8, idleTimeout |-> 10,
        storagePath |-> "db", pgHost |-> "", pgPort |-> 0, pgDbName |-> "",
        pgMaxPoolSize |-> 0, pgConnectionAttempts |-> 0, pgConnectionTimeout |-> 0]
Prod == [Dev EXCEPT !.env = "prod", !.storagePath = "", !.pgHost = "db", !.pgPort = 5432,
                    !.pgDbName = "db"]
Pool(size, attempts) == [Prod EXCEPT !.pgMaxPoolSize = size, !.pgConnectionAttempts = attempts]

FilesMC == {
    NoFile, Dev, [Dev EXCEPT !.timeout = 0], [Dev EXCEPT !.storagePath = ""],
    [Dev EXCEPT !.env = ""], [Dev EXCEPT !.env = "other"],
    Prod, [Prod EXCEPT !.pgHost = ""], [Prod EXCEPT !.pgPort = 0], [Prod EXCEPT !.pgDbName = ""],
    Pool(2, 1), Pool(9, 1), Pool(8, 2), Pool(5, 0), Pool(-1, 1), Pool(1, -1)}
FilesFinding == {[Dev EXCEPT !.idleTimeout = 0]}
=============================================================================
