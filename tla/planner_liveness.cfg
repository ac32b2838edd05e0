SPECIFICATION FairSpec
CONSTANTS
    None = None
    Series = {s1}
    Procs = {j, u}
    Jobs = {j}
    JobOps = {"sync"}
    UserOps = {"attach", "deleteSeries"}
    MaxDay = 1
    Step = 1
    CreateDays = 0
    EndAfter = 0
    MaxSeq = 2
    MaxRows = 10
    MaxSkip = 1
    MaxFaults = 1
    Ops <- MCOps
    Days <- MCDays
    NextDue <- MCNextDue
    DueOf <- MCDueOf
PROPERTIES DueRunsGenerated PendingRunsGetCards DeletedSeriesLeavesNothing
