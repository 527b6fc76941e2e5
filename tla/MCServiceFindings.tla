------------------------- MODULE MCServiceFindings -------------------------
(* Service with a create and a total over the columns of SQLite, which are *)
(* as wide as Go's int: one row is enough to wrap the total around.        *)
EXTENDS MCService

WrapRequests == {CreateReq(s1, 2, u1, Mon(1), Mon(3)), TotalReq(Mon(4), u1, s1)}
WrapCalls == {CallOf(r) : r \in WrapRequests}
=============================================================================
