SPECIFICATION FairSpec
CONSTANTS
    None = None
    Sold = {"pro"}
    Procs = {j, u}
    Jobs = {j}
    JobOps = {"job", "sync", "admin", "webhook"}
    UserOps = {"trial", "order", "verify", "cancel", "downgrade"}
    TrialDays = 1
    MaxMembers = 2
    Horizon = 1
    MaxOrders = 1
    MaxInvoices = 1
    MaxFaults = 1
    Ops <- MCOps
INVARIANTS TypeOK PlanHasReason InvoicedAsCharged
PROPERTIES PlanStaysInForce KeepsBook TrialsEnd
