SPECIFICATION Spec
CONSTANTS
    None = None
    Series = {s1}
    Procs = {p1, p2}
    Jobs = {p1}
    JobOps = {"cron"}
    UserOps = {"cron", "attach", "skip", "deleteCard", "pause"}
    MaxDay = 2
    Step = 1
    CreateDays = 1
    EndAfter = 2
    MaxSeq = 3
    MaxRows = 7
    MaxSkip = 2
    MaxFaults = 1
    Ops <- MCOps
    Days <- MCDays
    NextDue <- MCNextDue
    DueOf <- MCDueOf
INVARIANTS TypeOK OnSchedule OneRunPerDate NoDateLost RunAgreesWithCard EndsAfterOccurrences
PROPERTIES KeepsLedger
