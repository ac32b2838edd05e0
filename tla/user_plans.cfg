SPECIFICATION FairSpec
CONSTANTS
    None = None
    Users = {a, b}
    Subs = {s}
    Procs = {j, u}
    Jobs = {j}
    JobOps = {"verify", "coupon", "cron"}
    UserOps = {"order", "coupon", "admin", "apple", "notification"}
    Legacy = {a}
    Owners = {a, b}
    Top = 1
    MaxRedemptions = 1
    Month = 1
    Horizon = 1
    MaxOrders = 1
    MaxCharges = 1
    MaxFaults = 1
    Ops <- MCOps
    Notices <- MCNotices
    Shops <- MCShops
INVARIANTS TypeOK PlansHaveSources CouponOverrunBounded
PROPERTY ExpiredPlansEnd
