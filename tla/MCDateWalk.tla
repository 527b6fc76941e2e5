----------------------------- MODULE MCDateWalk -----------------------------
(* DateWalk over four years, with steps that end on, just before and just  *)
(* past a year boundary in both directions, and of more than a year.       *)
EXTENDS DateWalk

StartDatesMC == [month : {1, 12}, year : {2024}]
YearStepsMC == -1..1
MonthStepsMC == {-25, -13, -12, -11, -1, 0, 1, 11, 12, 13, 25}
=============================================================================
