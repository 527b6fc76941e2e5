SPECIFICATION Spec
CONSTANTS
    StartDates <- StartDatesMC
    YearSteps <- YearStepsMC
    MonthSteps <- MonthStepsMC
    MinYear = 2023
    MaxYear = 2026
INVARIANTS
    StaysOnCalendar
    AddDateExact
    OrderAgrees
    SpanAgrees
