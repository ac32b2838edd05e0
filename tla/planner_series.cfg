SPECIFICATION Spec
CONSTANTS
    None = None
    Series = {s1, s2}
    Procs = {j, u}
    Jobs = {j}
    JobOps = {"sync"}
    UserOps = {"attach", "detach", "duplicate", "status"}
    MaxDay = 1
    Step = 1
    CreateDays = 1
    EndAfter = 0
    MaxSeq = 2
    MaxRows = 5
    MaxSkip = 1
    MaxFaults = 0
    Ops <- MCOps
    Days <- MCDays
    NextDue <- MCNextDue
    DueOf <- MCDueOf
INVARIANTS OnSchedule NoDateLost
