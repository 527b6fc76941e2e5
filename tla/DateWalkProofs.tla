--------------------------- MODULE DateWalkProofs ---------------------------
(***************************************************************************)
(* What the walk shows for a few steps over a few years, for every         *)
(* calendar date and every step: AddDate, GreaterThan and MonthsBetween    *)
(* agree with each other however long a chain of them becomes.             *)
(***************************************************************************)
EXTENDS DateWalk, DatesProofs

(* Both ends of the last step are calendar dates, that step apart.         *)
IInv ==
    /\ Calendar(from) /\ Calendar(date)
    /\ years \in Int /\ months \in Int
    /\ AddDateExact

LEMMA MonthsInt == ASSUME NEW d, Calendar(d) PROVE Months(d) \in Int
  BY DEF Calendar, Date, Months

LEMMA StepPreserves ==
    ASSUME IInv, NEW y \in YearSteps, NEW m \in MonthSteps, Add(y, m)
    PROVE  IInv'
  <1>1. from' = date /\ date' = AddDate(date, y, m) /\ years' = y /\ months' = m
    BY DEF Add
  <1>2. y \in Int /\ m \in Int /\ Calendar(date)
    BY WalkAssumption DEF IInv
  <1>3. Calendar(AddDate(date, y, m))
        /\ Months(AddDate(date, y, m)) = Months(date) + 12 * y + m
    BY <1>2, AddDateMoves
  <1> QED
    BY <1>1, <1>2, <1>3 DEF IInv, AddDateExact

(* The invariant holds all along every walk, of any steps and any length.  *)
THEOREM Inductive == Spec => []IInv
  <1>1. Init => IInv
    <2> SUFFICES ASSUME Init PROVE IInv
      OBVIOUS
    <2>1. Calendar(date) /\ from = date /\ years = 0 /\ months = 0
      BY WalkAssumption DEF Init
    <2> QED
      BY <2>1, MonthsInt DEF IInv, AddDateExact
  <1>2. IInv /\ [Next]_vars => IInv'
    <2> SUFFICES ASSUME IInv, [Next]_vars PROVE IInv'
      OBVIOUS
    <2>1. CASE UNCHANGED vars
      BY <2>1 DEF vars, IInv, AddDateExact
    <2> QED
      BY <2>1, StepPreserves DEF Next
  <1> QED
    BY <1>1, <1>2, PTL DEF Spec

(* No chain of AddDate, of either sign and any length, leaves the          *)
(* calendar.                                                               *)
THEOREM NeverOffCalendar == Spec => []StaysOnCalendar
  <1>1. IInv => StaysOnCalendar
    BY DEF IInv, StaysOnCalendar
  <1> QED
    BY <1>1, Inductive, PTL

(* Every step of a walk moves exactly the years and months it was given.   *)
THEOREM StepsExact == Spec => []AddDateExact
  <1>1. IInv => AddDateExact
    BY DEF IInv
  <1> QED
    BY <1>1, Inductive, PTL

(* The handlers' comparison of the two ends of any step is the database's. *)
THEOREM ComparisonsAgree == Spec => []OrderAgrees
  <1>1. IInv => OrderAgrees
    BY GreaterThanOrders DEF IInv, OrderAgrees
  <1> QED
    BY <1>1, Inductive, PTL

(* MonthsBetween of the two ends of a step is its length, in either order. *)
THEOREM SpansAgree == Spec => []SpanAgrees
  <1>1. IInv => SpanAgrees
    <2> SUFFICES ASSUME IInv PROVE SpanAgrees
      OBVIOUS
    <2>1. /\ Months(from) \in Int /\ Months(date) \in Int /\ years \in Int /\ months \in Int
          /\ Months(date) = Months(from) + 12 * years + months
      BY MonthsInt DEF IInv, AddDateExact
    <2> QED
      BY <2>1 DEF SpanAgrees, MonthsBetween
  <1> QED
    BY <1>1, Inductive, PTL

=============================================================================
