SPECIFICATION Spec
CONSTANTS
    None = None
    Series = {s1}
    Procs = {j, u}
    Jobs = {j}
    JobOps = {"cron"}
    UserOps = {"cron", "attach"}
    MaxDay = 1
    Step = 1
    CreateDays = 0
    EndAfter = 0
    MaxSeq = 2
    MaxRows = 8
    MaxSkip = 1
    MaxFaults = 0
    Ops <- MCOps
    Days <- MCDays
    NextDue <- MCNextDue
    DueOf <- MCDueOf
INVARIANT OneCardPerRun
