-------------------------- MODULE MCSubscriptions --------------------------
(* The data the storages are run on: two services of one user, and calls   *)
(* that meet: creates of one key, updates that exchange the keys of two    *)
(* rows or keep a stored end date, calls that each check of the database   *)
(* or of the driver refuses.  The two-digit year of ShortYear is another   *)
(* date to Postgres, and none to SQLite.                                   *)
EXTENDS Subscriptions, TLC

CONSTANTS s1, s2, u1

ServicesMC == {s1, s2}
UsersMC == {u1}

Mon(m) == [month |-> m, year |-> 2025]
CreateOf(s, from, to) == [op |-> "create", service |-> s, price |-> 1, user |-> u1,
                          start |-> Mon(from), end |-> Mon(to)]
UpdateOf(i, s, from, end) == [op |-> "update", id |-> i, service |-> s, price |-> 1,
                              start |-> Mon(from), end |-> end]
IdOf(op, i) == [op |-> op, id |-> i]
ListOf(limit, offset) == [op |-> "list", limit |-> limit, offset |-> offset]
FilterOf(end, u, s) == [op |-> "filter", start |-> [month |-> 12, year |-> 2024],
                        end |-> Mon(end), user |-> u, service |-> s]

WriteCalls == {
    CreateOf(s1, 1, 3), CreateOf(s2, 1, 3),
    UpdateOf(1, s2, 1, Mon(2)), UpdateOf(1, s1, 2, ZeroDate), UpdateOf(2, s1, 2, ZeroDate),
    IdOf("delete", 1)}
RefusedCalls == {
    CreateOf(s1, 2, 2), CreateOf(s1, 13, 14), UpdateOf(1, s1, 3, ZeroDate),
    IdOf("get", MaxInteger + 1), FilterOf(13, NilUser, NoValue)}
ShortYear == [CreateOf(s1, 1, 3) EXCEPT !.start = [month |-> 5, year |-> 12],
                                        !.end = [month |-> 6, year |-> 12]]
TooDear == [CreateOf(s1, 1, 3) EXCEPT !.price = MaxInteger + 1]
ReadCalls == {
    IdOf("get", 1), ListOf(NoValue, NoValue), ListOf(1, 1), ListOf(1, NoValue),
    FilterOf(4, u1, NoValue)}
=============================================================================
