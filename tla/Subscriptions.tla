--------------------------- MODULE Subscriptions ---------------------------
(***************************************************************************)
(* The data every storage of the service shares: subscription rows, the    *)
(* calls the handlers make (methods of the Repo interface of cmd/main.go)  *)
(* and the replies they get.  Service names, user ids and dates stay       *)
(* abstract as far as the SQL statements do not look into them.            *)
(***************************************************************************)
EXTENDS Dates, FiniteSets

CONSTANTS Env,        \* "dev" (SQLite) or "prod" (Postgres)
          Services,   \* service names (non-empty strings)
          Users,      \* uuids a subscription may belong to
          NilUser,    \* uuid.Nil; also "no user filter", and may be in Users
          MaxInteger, \* largest value of an INTEGER column
          NoValue,    \* a nil *int or *string argument
          NoRow,      \* an id that no row has
          Calls       \* the calls the environment makes

ColumnInt == -MaxInteger - 1 .. MaxInteger
Ids == 1..MaxInteger

(* What a date column holds.  A month is stored as the first of its days,  *)
(* but ToStringISO does not pad the year: the DATE of Postgres (DateStyle  *)
(* ISO, MDY) takes a text whose first number has one or two digits for     *)
(* month-day-year, so that 05-12, sent as 12-05-01, becomes 2001-12-05.    *)
(* The columns of SQLite are text with a CHECK of years and months.        *)
LastYear == 5874897     \* of a DATE
Years == IF Env = "prod" THEN 1..LastYear ELSE 2000..2100
LengthOf(month) ==      \* in 2001
    IF month = 2 THEN 28 ELSE IF month \in {4, 6, 9, 11} THEN 30 ELSE 31
Day == {x \in [day : 1..31, month : 1..12, year : Years] : x.day <= LengthOf(x.month)}
Column(d) ==
    IF Env = "prod" /\ d.year < 100
    THEN [day |-> d.month, month |-> d.year, year |-> 2001]
    ELSE [day |-> 1, month |-> d.month, year |-> d.year]

(* A date literal ToStringISO prints that a date column takes.             *)
StorableDate(d) == Column(d) \in Day

Later(x, y) ==          \* the order of the columns
    GreaterThan(x, y) \/ (x.year = y.year /\ x.month = y.month /\ x.day > y.day)

Row == [service : Services, price : ColumnInt, user : Users, start : Day, end : Day]

Key(row) == <<row.service, row.user>>          \* unique_subscription
SlipValidRow(row) == ~Later(row.start, row.end)   \* a CHECK with >=
ValidRow(row) == Later(row.end, row.start)     \* check_end_after_start

(* DateFromStringISO: a row is read back with the months of its dates.     *)
Month(x) == [month |-> x.month, year |-> x.year]
AsRead(row) == [service |-> row.service, price |-> row.price, user |-> row.user,
                start |-> Month(row.start), end |-> Month(row.end)]
StoredMonth == [month : 1..12, year : Years]
Subscription == [service : Services, price : ColumnInt, user : Users,
                 start : StoredMonth, end : StoredMonth]

CreateCall == [op : {"create"}, service : Services, price : Int, user : Users,
               start : Date, end : Date]
UpdateCall == [op : {"update"}, id : Int, service : Services, price : Int,
               start : Date, end : Date]
IdCall     == [op : {"delete", "get"}, id : Int]
ListCall   == [op : {"list"}, limit : Nat \cup {NoValue}, offset : Nat \cup {NoValue}]
FilterCall == [op : {"filter"}, start : Date, end : Date, user : Users \cup {NilUser},
               service : Services \cup {NoValue}]
Call == CreateCall \cup UpdateCall \cup IdCall \cup ListCall \cup FilterCall

NoCall == [op |-> "none"]   \* of a caller outside any method

ASSUME DataAssumption ==
    /\ Env \in {"dev", "prod"}
    /\ MaxInteger \in Nat \ {0}
    /\ NoRow \notin Row
    /\ NoValue \notin Nat \cup Services
    /\ Calls \subseteq Call

(* What a method returns: an error of storage.go or another one, the new   *)
(* id (CreateSubscription), the rows read.                                 *)
Errors == {"ok", "exists", "notfound", "other"}
Reply == [err : Errors, id : 0..MaxInteger, rows : SUBSET (Ids \X Subscription)]

OkId(i)    == [err |-> "ok", id |-> i, rows |-> {}]
Seen(rs)   == {<<e[1], AsRead(e[2])>> : e \in rs}
OkRows(rs) == [err |-> "ok", id |-> 0, rows |-> Seen(rs)]
Err(e)     == [err |-> e, id |-> 0, rows |-> {}]
NoReply    == OkId(0)     \* the zero values of the results, before the call ends

(* The row an INSERT writes, and the one an UPDATE makes of the stored     *)
(* row: the zero end date leaves the column out of the statement.          *)
NewRow(c) == [service |-> c.service, price |-> c.price, user |-> c.user,
              start |-> Column(c.start), end |-> Column(c.end)]
Merged(row, c) ==
    [service |-> c.service, price |-> c.price, user |-> row.user, start |-> Column(c.start),
     end |-> IF c.end = ZeroDate THEN row.end ELSE Column(c.end)]

(* A table maps ids to rows.                                               *)
Live(table, i) == i \in Ids /\ table[i] # NoRow
Entries(table) == {<<i, table[i]>> : i \in {j \in Ids : table[j] # NoRow}}

(* GetSubscriptions wants limit and offset both set or both nil.           *)
Mispaired(c) == c.op = "list" /\ (c.limit = NoValue) # (c.offset = NoValue)

(* What LIMIT and OFFSET leave of n rows.                                  *)
PageSize(n, limit, offset) ==
    LET rest == IF n > offset THEN n - offset ELSE 0
    IN  IF rest < limit THEN rest ELSE limit

(* A slip the runs must detect: the service filter of Postgres.            *)
SlipServiceColumn(row) == row.user

(* The column the service filter of FilterSubscriptions looks at.          *)
ServiceColumn(row) == IF Env = "prod" THEN row.user ELSE row.service

(* The WHERE clause FilterSubscriptions builds.  SQLite compares the dates *)
(* as text, see SqliteStorage.                                             *)
Matches(row, c) ==
    /\ Later(row.start, Column(c.start)) /\ Later(Column(c.end), row.end)
    /\ c.user = NilUser \/ row.user = c.user
    /\ c.service = NoValue \/ ServiceColumn(row) = c.service

(* The answers a read may give on a table.  The SELECTs have no ORDER BY:  *)
(* a page is any set of rows of the right size.  A filter date no DATE of  *)
(* Postgres can hold is an error of the query that only ends the row loop. *)
GetAnswers(table, c) ==
    IF Live(table, c.id) THEN {{<<c.id, table[c.id]>>}} ELSE {}
ListAnswers(table, c) ==
    LET all == Entries(table)
    IN  IF Mispaired(c) THEN {}
        ELSE IF c.limit = NoValue THEN {all}
        ELSE {rs \in SUBSET all :
                Cardinality(rs) = PageSize(Cardinality(all), c.limit, c.offset)}
FilterDates(c) == Env = "prod" => StorableDate(c.start) /\ StorableDate(c.end)
FilterAnswers(table, c) == {{e \in Entries(table) : FilterDates(c) /\ Matches(e[2], c)}}

Answers(table, c) ==
    CASE c.op = "get"    -> GetAnswers(table, c)
      [] c.op = "list"   -> ListAnswers(table, c)
      [] c.op = "filter" -> FilterAnswers(table, c)

(* What a list or filter may return when an error of a row ends its loop.  *)
Parts(table, c) ==
    LET all == Entries(table)
    IN  IF c.op = "list" /\ c.limit # NoValue
        THEN {rs \in SUBSET all :
                Cardinality(rs) <= PageSize(Cardinality(all), c.limit, c.offset)}
        ELSE {rs \in SUBSET all : \A e \in rs : c.op = "filter" => FilterDates(c) /\ Matches(e[2], c)}

(* What becomes of reply r when the connection breaks under it: an error,  *)
(* but a list or filter returns the rows it has (rows.Err is not checked). *)
SlipBrokenReplies(c, r) ==   \* any error of the row of a get is "not found"
    IF c.op \in {"list", "filter"} THEN {[NoReply EXCEPT !.rows = rs] : rs \in SUBSET r.rows}
    ELSE {Err(IF c.op = "get" THEN "notfound" ELSE "other")}
BrokenReplies(c, r) ==
    IF c.op \in {"list", "filter"} THEN {[NoReply EXCEPT !.rows = rs] : rs \in SUBSET r.rows}
    ELSE {Err("other")}

=============================================================================
