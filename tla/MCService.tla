----------------------------- MODULE MCService -----------------------------
(* Service with two requests at a time over two ids and one user besides   *)
(* the nil one.  For each handler: a request that succeeds, one that each  *)
(* kind of check refuses, and one that only the database refuses (equal    *)
(* dates, a month 13, a kept end date before the new start).  Dates of the *)
(* year 12 are days of December 2001 to Postgres.  Go's int is of 4 bits,  *)
(* so that the total of two rows may wrap around.                          *)
EXTENDS Service, TLC

CONSTANTS s1, s2, u1

Symmetry == Permutations(Procs)

ServicesMC == {s1, s2}
UsersMC == {u1, NilUser}

Mon(m) == [month |-> m, year |-> 2025]
InYear12(m) == [month |-> m, year |-> 12]
CreateReq(s, price, u, start, end) ==
    [op |-> "create", body |-> "json", service |-> s, price |-> price, user |-> u,
     start |-> start, end |-> end]
UpdateReq(id, s, price, start, end) ==
    [op |-> "update", id |-> id, body |-> "json", service |-> s, price |-> price,
     start |-> start, end |-> end]
TotalOf(start, end, u, s) ==
    [op |-> "total", start |-> start, end |-> end, user |-> u, service |-> s]
TotalReq(end, u, s) == TotalOf([month |-> 12, year |-> 2024], end, u, s)

CreateRequests == {
    CreateReq(s1, 1, u1, Mon(2), Absent), CreateReq(s1, 2, NilUser, Mon(1), Mon(3)),
    CreateReq(s2, 1, u1, Mon(2), Mon(2)), CreateReq(s1, 1, u1, Mon(3), Mon(1)),
    CreateReq(s1, -1, u1, Mon(1), Mon(3)), CreateReq(s1, 1, u1, InYear12(5), Absent),
    CreateReq(s1, 1, Malformed, Mon(1), Absent)}
UpdateRequests == {
    UpdateReq(1, s1, 2, Mon(1), Mon(3)), UpdateReq(1, s1, 1, Mon(2), Absent),
    UpdateReq(2, s1, -1, Mon(1), Absent), UpdateReq(1, s1, 1, Malformed, Absent)}
OtherRequests == {
    [op |-> "delete", id |-> 1], [op |-> "get", id |-> 1], [op |-> "get", id |-> Malformed],
    [op |-> "list", limit |-> Absent, offset |-> Absent], [op |-> "list", limit |-> 1, offset |-> 0],
    [op |-> "list", limit |-> 1, offset |-> Absent], [op |-> "list", limit |-> -1, offset |-> 0],
    TotalReq(Mon(4), u1, Absent), TotalReq(Mon(4), Absent, Absent),
    TotalReq(Mon(13), Absent, Absent), TotalOf(InYear12(4), InYear12(7), Absent, Absent)}

RequestsMC == CreateRequests \cup UpdateRequests \cup OtherRequests
CallsMC == {CallOf(r) : r \in {q \in RequestsMC : Valid(q)}}
=============================================================================
