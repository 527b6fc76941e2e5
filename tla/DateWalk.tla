------------------------------ MODULE DateWalk ------------------------------
(***************************************************************************)
(* A walk over the calendar by AddDate, the way a chain of renewals moves  *)
(* a date: every state holds the date reached and the arguments of the     *)
(* step that reached it from `from`.  The invariants compare AddDate,      *)
(* GreaterThan and MonthsBetween with plain arithmetic on month numbers.   *)
(***************************************************************************)
EXTENDS Dates

CONSTANTS StartDates,   \* where a walk may begin
          YearSteps,    \* years arguments of AddDate
          MonthSteps,   \* months arguments of AddDate
          MinYear, MaxYear  \* the walk stays within these years

ASSUME WalkAssumption ==
    /\ \A d \in StartDates : Calendar(d)
    /\ YearSteps \subseteq Int /\ MonthSteps \subseteq Int

VARIABLES from, date, years, months

vars == <<from, date, years, months>>

Init ==
    /\ date \in StartDates
    /\ from = date
    /\ years = 0 /\ months = 0

Add(y, m) ==
    /\ AddDate(date, y, m).year \in MinYear..MaxYear
    /\ from' = date
    /\ date' = AddDate(date, y, m)
    /\ years' = y /\ months' = m

Next == \E y \in YearSteps, m \in MonthSteps : Add(y, m)

Spec == Init /\ [][Next]_vars

(* The date is a calendar month however often AddDate was applied, for     *)
(* negative and multi-year steps too (model.go AddDate).                   *)
StaysOnCalendar == Calendar(date)

(* AddDate moves exactly 12*years+months months, across year boundaries    *)
(* in both directions.                                                     *)
AddDateExact == Months(date) = Months(from) + 12 * years + months

(* GreaterThan orders calendar dates as their month numbers do: the        *)
(* handlers' start/end comparison agrees with the database's.              *)
OrderAgrees ==
    /\ GreaterThan(date, from) <=> Months(date) > Months(from)
    /\ GreaterThan(from, date) <=> Months(from) > Months(date)

(* MonthsBetween, the multiplier of calculateTotalCostFiltered, counts the *)
(* months AddDate moved whichever way it is asked.                         *)
SpanAgrees ==
    LET moved == 12 * years + months
    IN  MonthsBetween(from, date) = MonthsBetween(date, from)
        /\ MonthsBetween(from, date) \in {moved, -moved}

=============================================================================
