------------------------------- MODULE Dates -------------------------------
(***************************************************************************)
(* The month-granular dates of internal/model/model.go.  A Date is a pair  *)
(* of Go ints; nothing in the type or in DateFromString confines the month *)
(* to 1..12, so Date is every pair of integers and Calendar(d) says that d *)
(* names a month of the calendar.                                          *)
(***************************************************************************)
EXTENDS Integers

Date == [month : Int, year : Int]

(* Date{}: what the handlers pass for "no end date".                       *)
ZeroDate == [month |-> 0, year |-> 0]

Calendar(d) == d \in Date /\ d.month \in 1..12

(* 12*Year + Month, the number MonthsBetween compares dates by.            *)
Months(d) == 12 * d.year + d.month

(* A slip the runs must detect: rounding down where Go truncates.          *)
SlipQuo12(n) == n \div 12

(* Go's / and % by 12 truncate toward zero, TLA+'s \div and % round down.  *)
GoQuo12(n) == IF n >= 0 THEN n \div 12 ELSE -((-n) \div 12)
GoRem12(n) == IF n >= 0 THEN n % 12 ELSE -((-n) % 12)

(* Plausible slips in the corrections below, which the runs must detect.   *)
SlipCarryDown(d) == IF d.month < 0 THEN [month |-> d.month + 12, year |-> d.year - 1] ELSE d
SlipGreaterThan(d, other) == d.year > other.year \/ d.month > other.month
SlipMonthsBetween(d1, d2) == 12 * (d1.year - d2.year) + (d1.month - d2.month)

(* The two corrections at the end of AddDate: one up, then one down.       *)
CarryUp(d) == IF d.month > 12 THEN [month |-> d.month - 12, year |-> d.year + 1] ELSE d
CarryDown(d) == IF d.month <= 0 THEN [month |-> d.month + 12, year |-> d.year - 1] ELSE d

AddDate(d, years, months) ==
    CarryDown(CarryUp([month |-> d.month + GoRem12(months),
                       year  |-> d.year + years + GoQuo12(months)]))

GreaterThan(d, other) ==
    \/ d.year > other.year
    \/ d.year = other.year /\ d.month > other.month

MonthsBetween(d1, d2) ==
    LET diff == Months(d1) - Months(d2)
    IN  IF diff >= 0 THEN diff ELSE -diff

(* prepareSubscriptionSpec: a subscription without an end lasts one month. *)
DefaultEnd(start) == AddDate(start, 0, 1)

=============================================================================
