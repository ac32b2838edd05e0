SPECIFICATION Spec
CONSTANTS
    None = None
    Users = {a}
    Subs = {s}
    Procs = {u}
    Jobs = {}
    JobOps = {"cron"}
    UserOps = {"order", "verify", "apple", "notification", "cron"}
    Legacy = {}
    Owners = {}
    Top = 2
    MaxRedemptions = 1
    Month = 2
    Horizon = 3
    MaxOrders = 1
    MaxCharges = 2
    MaxFaults = 0
    Ops <- MCOps
    Notices <- MCNotices
    Shops <- MCShops
INVARIANT HighestActivePlanWins
