------------------------ MODULE SubscriptionsProofs ------------------------
(***************************************************************************)
(* Facts about the data both storages share, and one about finite sets.    *)
(***************************************************************************)
EXTENDS Subscriptions, TLAPS, FiniteSetTheorems

(* A call has the fields of its operation.                                 *)
LEMMA CallFields ==
    ASSUME NEW c \in Calls
    PROVE  /\ c.op = "create" => c \in CreateCall
           /\ c.op = "update" => c \in UpdateCall
           /\ c.op \in {"delete", "get"} => c \in IdCall
           /\ c.op = "list" => c \in ListCall
           /\ c.op = "filter" => c \in FilterCall
  BY DataAssumption DEF Call, CreateCall, UpdateCall, IdCall, ListCall, FilterCall

(* An id beyond those any row has is not 0 and fits INTEGER.               *)
LEMMA IdFacts ==
    /\ MaxInteger \in Nat /\ MaxInteger >= 1
    /\ Ids \subseteq Nat \ {0} /\ 0 \notin Ids
    /\ \A n \in 0..MaxInteger : n < MaxInteger => n + 1 \in Ids
  BY DataAssumption DEF Ids

LEMMA AnswersTyped ==
    ASSUME NEW t \in [Ids -> Row \cup {NoRow}], NEW c \in Calls,
           c.op \in {"get", "list", "filter"}, NEW rs \in Answers(t, c)
    PROVE  rs \in SUBSET (Ids \X Row)
  <1>1. Entries(t) \subseteq Ids \X Row
    BY DEF Entries
  <1>2. CASE c.op = "get"
    BY <1>2 DEF Answers, GetAnswers, Live
  <1>3. CASE c.op = "list"
    <2>1. rs \in ListAnswers(t, c)
      BY <1>3 DEF Answers
    <2> QED
      BY <2>1, <1>1 DEF ListAnswers
  <1>4. CASE c.op = "filter"
    <2>1. rs \in FilterAnswers(t, c)
      BY <1>4 DEF Answers
    <2> QED
      BY <2>1, <1>1 DEF FilterAnswers
  <1> QED
    BY <1>2, <1>3, <1>4

(* A day of a column has a month of the calendar, in a year of the column. *)
LEMMA YearsBounded ==
    /\ LastYear \in Nat
    /\ \A y \in Years : y \in Int /\ 1 <= y /\ y <= LastYear
  <1>1. LastYear \in Nat /\ LastYear >= 2100
    BY SMT DEF LastYear
  <1> QED
    BY <1>1 DEF Years

LEMMA DayFields ==
    ASSUME NEW x \in Day
    PROVE  /\ x.day \in 1..31 /\ x.month \in 1..12 /\ x.year \in Years /\ x.year \in Int
           /\ Month(x) \in StoredMonth /\ Months(x) \in Int
  <1>1. x.day \in 1..31 /\ x.month \in 1..12 /\ x.year \in Years
    BY DEF Day
  <1>2. x.year \in Int
    BY <1>1, YearsBounded
  <1>3. Month(x) \in StoredMonth
    BY <1>1 DEF Month, StoredMonth
  <1> QED
    BY <1>1, <1>2, <1>3 DEF Months

(* A later day is in the same month or in a later one.                     *)
LEMMA LaterMonths ==
    ASSUME NEW x \in Day, NEW y \in Day, Later(x, y)
    PROVE  Months(y) <= Months(x) /\ ~GreaterThan(Month(y), Month(x))
  <1>1. /\ x.month \in 1..12 /\ x.year \in Int
        /\ y.month \in 1..12 /\ y.year \in Int
    BY DayFields
  <1>2. x.year > y.year \/ (x.year = y.year /\ x.month >= y.month)
    BY <1>1 DEF Later, GreaterThan
  <1>3. Months(y) <= Months(x)
    BY <1>1, <1>2 DEF Months
  <1>4. /\ Month(x).month = x.month /\ Month(x).year = x.year
        /\ Month(y).month = y.month /\ Month(y).year = y.year
    BY DEF Month
  <1> QED
    BY <1>1, <1>2, <1>3, <1>4 DEF GreaterThan

LEMMA ReadTyped == \A row \in Row : AsRead(row) \in Subscription
  BY DayFields DEF AsRead, Row, Subscription

LEMMA SeenTyped == \A rs \in SUBSET (Ids \X Row) : Seen(rs) \in SUBSET (Ids \X Subscription)
  BY ReadTyped DEF Seen

LEMMA RepliesTyped ==
    /\ \A e \in Errors : Err(e) \in Reply
    /\ \A i \in 0..MaxInteger : OkId(i) \in Reply
    /\ \A rs \in SUBSET (Ids \X Row) : OkRows(rs) \in Reply
    /\ NoReply \in Reply
    /\ \A c, r : r \in Reply => BrokenReplies(c, r) \subseteq Reply
  <1>1. /\ \A e \in Errors : Err(e) \in Reply
        /\ \A i \in 0..MaxInteger : OkId(i) \in Reply
        /\ \A rs \in SUBSET (Ids \X Row) : OkRows(rs) \in Reply
    BY IdFacts, SeenTyped DEF Err, OkId, OkRows, Reply, Errors
  <1>2. NoReply \in Reply
    BY <1>1, IdFacts DEF NoReply
  <1>3. ASSUME NEW c, NEW r \in Reply
        PROVE  BrokenReplies(c, r) \subseteq Reply
    <2>1. \A rs \in SUBSET r.rows : [NoReply EXCEPT !.rows = rs] \in Reply
      BY <1>2 DEF Reply
    <2> QED
      BY <1>1, <2>1 DEF BrokenReplies, Errors
  <1> QED
    BY <1>1, <1>2, <1>3

(* Of the bad ones among the subsets of a finite set, one has no bad       *)
(* subset of its own.                                                      *)
LEMMA LeastSet ==
    ASSUME NEW S, IsFiniteSet(S), NEW Bad, Bad \subseteq SUBSET S, Bad # {}
    PROVE  \E T \in Bad : \A U \in Bad : U \subseteq T => U = T
  <1>1. Bad \subseteq FiniteSubsetsOf(S)
    BY FS_FiniteSubsetsOfFinite
  <1>2. PICK T \in Bad : \A U \in Bad : <<U, T>> \notin StrictSubsetOrdering(S)
    BY <1>1, WFMin, FS_StrictSubsetOrderingWellFounded
  <1> QED
    BY <1>2 DEF StrictSubsetOrdering

=============================================================================
