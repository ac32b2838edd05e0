SPECIFICATION Spec
CONSTANTS
    Months = 48
    FirstWeekday = 4
    MaxRuns = 14
    Kinds = {"NONE", "DAILY", "WEEKLY", "MONTHLY", "YEARLY", "CUSTOM"}
    Intervals = {1, 2, 3}
    Weekends = {TRUE, FALSE}
    MonthStart <- MCMonthStart
    Rules <- MCRules
    Starts <- MCStarts
CHECK_DEADLOCK FALSE
INVARIANTS TypeOK MonthlyNoDrift YearlyNoDrift WeeklyComplete WorkingDays
PROPERTY AlwaysForward
