\* Every day of two years, ranges up to two months long.
SPECIFICATION Spec
CONSTANTS
    FirstDay <- MCFirstDay
    LastDay <- MCLastDay
    Lengths = {0, 1, 6, 30, 59}
INVARIANTS
    MonthRangeExact
    WeekIsIso
    TextRangeExact
    WholeDays
CHECK_DEADLOCK FALSE
