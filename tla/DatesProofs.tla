---------------------------- MODULE DatesProofs ----------------------------
(***************************************************************************)
(* The date arithmetic of model.go, for all dates and all arguments.       *)
(***************************************************************************)
EXTENDS Dates, TLAPS

(* Go's division truncates, but quotient and remainder still make up the   *)
(* number.                                                                 *)
LEMMA GoDivision ==
    ASSUME NEW n \in Int
    PROVE  /\ GoQuo12(n) \in Int /\ GoRem12(n) \in -11..11
           /\ 12 * GoQuo12(n) + GoRem12(n) = n
  <1>1. \A k \in Nat : k \div 12 \in Nat /\ k % 12 \in 0..11 /\ k = 12 * (k \div 12) + (k % 12)
    BY SMT
  <1>2. CASE n >= 0
    BY <1>1, <1>2 DEF GoQuo12, GoRem12
  <1>3. CASE n < 0
    <2>1. -n \in Nat
      BY <1>3
    <2>2. PICK m \in Nat : m = -n
      BY <2>1
    <2>3. m \div 12 \in Nat /\ m % 12 \in 0..11 /\ m = 12 * (m \div 12) + (m % 12)
      BY <1>1
    <2>4. GoQuo12(n) = -(m \div 12) /\ GoRem12(n) = -(m % 12)
      BY <1>3, <2>2 DEF GoQuo12, GoRem12
    <2> QED
      BY <2>2, <2>3, <2>4
  <1> QED
    BY <1>2, <1>3

(* AddDate of a calendar date is a calendar date, years and months away.   *)
THEOREM AddDateMoves ==
    ASSUME NEW d, Calendar(d), NEW years \in Int, NEW months \in Int
    PROVE  /\ Calendar(AddDate(d, years, months))
           /\ Months(AddDate(d, years, months)) = Months(d) + 12 * years + months
  <1> DEFINE q == GoQuo12(months)
             r == GoRem12(months)
             e == [month |-> d.month + r, year |-> d.year + years + q]
  <1>1. q \in Int /\ r \in -11..11 /\ 12 * q + r = months
    BY GoDivision
  <1>2. d.month \in 1..12 /\ d.year \in Int
    BY DEF Calendar, Date
  <1>3. /\ e \in Date /\ e.month \in -10..23
        /\ 12 * e.year + e.month = Months(d) + 12 * years + months
    <2> HIDE DEF q, r
    <2>1. e.month = d.month + r /\ e.year = d.year + years + q
      OBVIOUS
    <2>2. e \in Date
      BY <1>1, <1>2 DEF Date
    <2>3. e.month \in -10..23
      BY <2>1, <1>1, <1>2
    <2>4. 12 * e.year + e.month = 12 * d.year + d.month + 12 * years + (12 * q + r)
      BY <2>1, <1>1, <1>2
    <2> QED
      BY <2>2, <2>3, <2>4, <1>1 DEF Months
  <1>4. AddDate(d, years, months) = CarryDown(CarryUp(e))
    BY DEF AddDate
  <1> HIDE DEF e, q, r
  <1> DEFINE u == CarryUp(e)
  <1>5. u \in Date /\ u.month \in -10..12 /\ 12 * u.year + u.month = 12 * e.year + e.month
    BY <1>3 DEF CarryUp, Date
  <1> HIDE DEF u
  <1>6. CASE u.month > 0
    <2>1. CarryDown(u) = u /\ u.month \in 1..12
      BY <1>5, <1>6 DEF CarryDown, Date
    <2> QED
      BY <2>1, <1>3, <1>4, <1>5 DEF Calendar, Months, u
  <1>7. CASE u.month <= 0
    <2>1. CarryDown(u) = [month |-> u.month + 12, year |-> u.year - 1]
      BY <1>7 DEF CarryDown
    <2>2. Calendar(CarryDown(u)) /\ Months(CarryDown(u)) = 12 * u.year + u.month
      BY <2>1, <1>5, <1>7 DEF Calendar, Date, Months
    <2> QED
      BY <2>2, <1>3, <1>4, <1>5 DEF u
  <1> QED
    BY <1>5, <1>6, <1>7 DEF Date

(* GreaterThan orders calendar dates as the database orders months.        *)
THEOREM GreaterThanOrders ==
    ASSUME NEW d, NEW e, Calendar(d), Calendar(e)
    PROVE  GreaterThan(d, e) <=> Months(d) > Months(e)
  BY DEF Calendar, Date, GreaterThan, Months

(* A create without an end date makes a subscription that the database's   *)
(* check_end_after_start takes: the default end is one month later.        *)
THEOREM DefaultEndIsLater ==
    ASSUME NEW d, Calendar(d)
    PROVE  Calendar(DefaultEnd(d)) /\ Months(DefaultEnd(d)) = Months(d) + 1
  <1>1. Months(d) \in Int
    BY DEF Calendar, Date, Months
  <1> QED
    BY <1>1, AddDateMoves DEF DefaultEnd

(* MonthsBetween counts the months AddDate moved.                          *)
THEOREM MonthsBetweenSpan ==
    ASSUME NEW d, Calendar(d), NEW months \in Nat
    PROVE  /\ MonthsBetween(d, AddDate(d, 0, months)) = months
           /\ MonthsBetween(AddDate(d, 0, months), d) = months
  <1>1. Months(d) \in Int
    BY DEF Calendar, Date, Months
  <1> QED
    BY <1>1, AddDateMoves DEF MonthsBetween

=============================================================================
