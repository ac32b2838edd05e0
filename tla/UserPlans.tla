----------------------------- MODULE UserPlans -----------------------------
(***************************************************************************)
(* The plans of the users: orders paid through Razorpay, coupons, Apple    *)
(* subscriptions, and the job that ends expired plans.  One row of users   *)
(* holds the plan of a user whatever it comes from.  A process is one      *)
(* request or job in progress, one action is what it does between two      *)
(* awaits; no code path opens a transaction or locks a row.                *)
(*                                                                         *)
(* A plan is its index in PLAN_ORDER, and time counts days.  Razorpay and  *)
(* the App Store are outside: an order is paid, a subscription is bought,  *)
(* renewed, refunded.  What a request says is what its client chose to     *)
(* say: a verification names a plan and a coupon of its own, and any       *)
(* notification may arrive at any time, late, out of order, several times, *)
(* never, or of a period that Apple has not charged.                       *)
(***************************************************************************)
EXTENDS Integers, FiniteSets

CONSTANTS
    Users,
    Subs,             \* Apple subscriptions (original transaction ids)
    Procs,            \* requests and jobs that may be in progress at once
    Ops,              \* the entry points each process may call, "coupon" with one
    Shops,            \* how an installation may be set up: whether it sells through Apple,
                      \* has a coupon, and whether that takes the whole price off
    Legacy,           \* users whose plan was stored before it had a source
    Owners,           \* users whose workspace has a subscription from the start
    Top,              \* the highest plan on sale
    MaxRedemptions,   \* maxRedemptions of the coupon
    Notices,          \* the notifications that may arrive
    Month,            \* what one payment buys
    Horizon,          \* bound: days
    MaxOrders,        \* bound: Razorpay orders
    MaxCharges,       \* bound: periods charged by Apple
    MaxFaults,        \* bound: handlers that fail
    None

ASSUME UserPlansAssumption ==
    /\ Shops \subseteq [apple : BOOLEAN, coupon : BOOLEAN, full : BOOLEAN]
    /\ None \notin Nat /\ None \notin Users /\ None \notin {"razorpay", "apple"}
    /\ Legacy \subseteq Users /\ Owners \subseteq Users /\ Top \in 1..2
    /\ \A p, q \in Procs : "admin" \in Ops[p] \cap Ops[q] => p = q
    /\ IsFiniteSet(Procs) /\ Procs # {} /\ MaxRedemptions \in Nat \ {0}
    /\ Month \in Nat \ {0}
    /\ Horizon \in Nat /\ MaxOrders \in Nat /\ MaxCharges \in Nat /\ MaxFaults \in Nat

VARIABLES
    now,
    shop,        \* how this installation is set up
    user,        \* the plan columns of users
    workspace,   \* the plan of the subscription of the workspace a user owns
    apple,       \* apple_subscriptions, by original transaction id
    coupon,      \* the row of coupon_codes
    redemptions, \* the rows of coupon_redemptions
    orders,      \* Razorpay's orders
    store,       \* the App Store's view of each subscription
    pc, loc,     \* where each process is, and what it remembers
    bought,      \* history: <<user, plan, end>> of each activation
    charged,     \* history: <<subscription, end>> of each period Apple charged
    missed,      \* history: redemptions that redemptionCount does not show
    misled,      \* history: subscriptions of which a period nobody was charged was told
    faults

outside == <<shop, orders, store, charged>>
tables  == <<user, workspace, apple, coupon, redemptions>>
history == <<bought, missed, misled>>
vars    == <<now, tables, outside, pc, loc, history, faults>>

Free   == 0
Silver == 1
Plans  == Free..Top

UserRow  == [plan : Plans, expires : Nat \cup {None}, source : {"razorpay", "apple", None}]
Redemption == [id : Nat, user : Users]
AppleRow == [user : Users, plan : Plans, active : BOOLEAN, expires : Nat \cup {None}]
Order    == [id : Nat, user : Users, plan : Plans, coupon : BOOLEAN, paid : BOOLEAN]

\* What Apple or a notification says of a subscription.
\* The plan of a product that is not on sale is Free; an expiry may be missing.
Transaction == [sub : Subs, plan : Plans, expires : Nat \cup {None}, revoked : BOOLEAN]
Message     == [ends : BOOLEAN, tx : Transaction]

ASSUME NoticesAssumption == Notices \subseteq Message

ASSUME NoneAssumption == None \notin AppleRow

FreeRow == [plan |-> Free, expires |-> None, source |-> None]

Fresh == [kind |-> "none", user |-> None, plan |-> Free, coupon |-> FALSE, tx |-> None,
          row |-> None, at |-> 0, count |-> 0, copy |-> FreeRow, best |-> FreeRow, rows |-> {}]

Init ==
    /\ now = 0
    /\ user = [u \in Users |-> IF u \in Legacy
                  THEN [plan |-> Silver, expires |-> 0, source |-> None] ELSE FreeRow]
    /\ workspace = [u \in Users |-> IF u \in Owners THEN user[u].plan ELSE None]
    /\ apple = [s \in Subs |-> None]
    /\ shop \in Shops
    /\ coupon = [active |-> TRUE, count |-> 0]
    /\ redemptions = {}
    /\ orders = {} /\ store = [s \in Subs |-> None]
    /\ pc = [p \in Procs |-> "idle"] /\ loc = [p \in Procs |-> Fresh]
    /\ bought = {} /\ missed = 0 /\ misled = {} /\ charged = {} /\ faults = 0

-----------------------------------------------------------------------------
Goto(p, label) == pc' = [pc EXCEPT ![p] = label]

Remember(p, l) == loc' = [loc EXCEPT ![p] = l]

Finish(p) == Goto(p, "idle") /\ Remember(p, Fresh)

\* resolveEffectivePlan
Effective(row) ==
    IF row.plan # Free /\ row.expires # None /\ row.expires < now THEN Free ELSE row.plan

\* hasUserRedeemed
Redeemed(u) == \E r \in redemptions : r.user = u

\* Mutant: the limit is checked with > instead of >=.
CouponValidAtLimit == shop.coupon /\ coupon.active /\ coupon.count <= MaxRedemptions

\* The checks of validateForPlan on the row of the coupon, if there is one.
CouponValid == shop.coupon /\ coupon.active /\ coupon.count < MaxRedemptions

-----------------------------------------------------------------------------
(* createOrder and verifyPayment *)

\* assertCanUpgrade
StartOrder(p) ==
    /\ "order" \in Ops[p] /\ pc[p] = "idle"
    /\ \E u \in Users, plan \in Plans \ {Free}, c \in BOOLEAN :
          /\ c => "coupon" \in Ops[p]
          /\ plan > Effective(user[u])
          /\ Remember(p, [Fresh EXCEPT !.kind = "order", !.user = u, !.plan = plan, !.coupon = c])
          /\ Goto(p, IF c THEN "coupon" ELSE "charge")
    /\ UNCHANGED <<now, tables, outside, history, faults>>

\* Mutant: the signature of the payment is not checked.
StartVerifyUnsigned(p) ==
    /\ "verify" \in Ops[p] /\ pc[p] = "idle"
    /\ \E o \in orders, u \in Users, plan \in Plans \ {Free}, c \in BOOLEAN :
          /\ c => "coupon" \in Ops[p]
          /\ plan > Effective(user[u])
          /\ Remember(p, [Fresh EXCEPT !.kind = "verify", !.user = u, !.plan = plan, !.coupon = c])
          /\ Goto(p, IF c THEN "coupon" ELSE "activate")
    /\ UNCHANGED <<now, tables, outside, history, faults>>

\* verifyPayment.  The signature shows that an order was paid; the plan and the
\* coupon are those of the request, the user is the one of the session, and the
\* code compares none of them with the order.
StartVerify(p) ==
    /\ "verify" \in Ops[p] /\ pc[p] = "idle"
    /\ \E o \in orders, u \in Users, plan \in Plans \ {Free}, c \in BOOLEAN :
          /\ o.paid
          /\ c => "coupon" \in Ops[p]
          /\ plan > Effective(user[u])
          /\ Remember(p, [Fresh EXCEPT !.kind = "verify", !.user = u, !.plan = plan, !.coupon = c])
          /\ Goto(p, IF c THEN "coupon" ELSE "activate")
    /\ UNCHANGED <<now, tables, outside, history, faults>>

\* validateForPlan, for the price ("coupon", "used") and again in redeem
\* ("redeem", "again"): the row of the coupon first, then the redemptions.
CheckCoupon(p) ==
    /\ pc[p] \in {"coupon", "redeem"}
    /\ IF CouponValid
       THEN Goto(p, IF pc[p] = "coupon" THEN "used" ELSE "again") /\ loc' = loc
       ELSE Finish(p)
    /\ UNCHANGED <<now, tables, outside, history, faults>>

CheckUsed(p) ==
    /\ pc[p] \in {"used", "again"}
    /\ IF Redeemed(loc[p].user) THEN Finish(p)
       ELSE /\ loc' = loc
            /\ Goto(p, IF pc[p] = "again" THEN "record"
                       ELSE IF loc[p].kind = "order" /\ ~shop.full THEN "charge" ELSE "redeem")
    /\ UNCHANGED <<now, tables, outside, history, faults>>

RecordRedemption(p) ==
    /\ pc[p] = "record"
    /\ redemptions' = redemptions \cup
                       {[id |-> Cardinality(redemptions), user |-> loc[p].user]}
    /\ Goto(p, "count")
    /\ UNCHANGED <<now, user, workspace, apple, coupon, outside, loc, history, faults>>

CountRedemption(p) ==
    /\ pc[p] = "count"
    /\ coupon' = [coupon EXCEPT !.count = coupon.count + 1]
    /\ Goto(p, "activate")
    /\ UNCHANGED <<now, user, workspace, apple, redemptions, outside, loc, history, faults>>

\* createUserPlanOrder, which Razorpay may refuse.
Charge(p) ==
    /\ pc[p] = "charge"
    /\ \/ orders' = orders
       \/ /\ Cardinality(orders) < MaxOrders
          /\ orders' = orders \cup {[id |-> Cardinality(orders), user |-> loc[p].user,
                                     plan |-> loc[p].plan, coupon |-> loc[p].coupon,
                                     paid |-> FALSE]}
    /\ Finish(p)
    /\ UNCHANGED <<now, tables, shop, store, charged, history, faults>>

-----------------------------------------------------------------------------
(* activatePlan, recomputeEffectivePlan and what follows both *)

\* Mutant: the billing source is set to the entry point.
ActivateEntryPoint(p) ==
    /\ pc[p] = "activate"
    /\ IF loc[p].plan < Effective(user[loc[p].user]) THEN Finish(p)
       ELSE /\ Goto(p, "save")
            /\ Remember(p, [Fresh EXCEPT !.kind = loc[p].kind, !.user = loc[p].user,
                              !.best = [plan |-> loc[p].plan, expires |-> now + Month,
                                        source |-> loc[p].kind]])
    /\ UNCHANGED <<now, tables, outside, history, faults>>

\* Never down, unless the plan has expired in the meantime.
Activate(p) ==
    /\ pc[p] = "activate"
    /\ IF loc[p].plan < Effective(user[loc[p].user]) THEN Finish(p)
       ELSE /\ Goto(p, "save")
            /\ Remember(p, [Fresh EXCEPT !.kind = loc[p].kind, !.user = loc[p].user,
                              !.best = [plan |-> loc[p].plan, expires |-> now + Month,
                                        source |-> "razorpay"]])
    /\ UNCHANGED <<now, tables, outside, history, faults>>

ReadUser(p) ==
    /\ pc[p] = "read"
    /\ Remember(p, [loc[p] EXCEPT !.copy = user[loc[p].user], !.at = now])
    /\ Goto(p, "rows")
    /\ UNCHANGED <<now, tables, outside, history, faults>>

AppleCandidates(l) ==
    {[plan |-> apple[s].plan, expires |-> apple[s].expires, source |-> "apple"] :
        s \in {t \in Subs : /\ apple[t] # None /\ apple[t].user = l.user
                            /\ apple[t].active /\ apple[t].plan # Free
                            /\ apple[t].expires = None \/ apple[t].expires > l.at}}

\* Mutant: the row counts whatever its source.
RowCandidatesAnySource(l) ==
    {row \in {[l.copy EXCEPT !.source = "razorpay"]} :
        /\ l.copy.plan # Free /\ (l.copy.expires = None \/ l.copy.expires > l.at)}

\* The plan on the user row counts as Razorpay's when it says so, or, with no
\* source, when Apple has none.
RowCandidates(l) ==
    {row \in {[l.copy EXCEPT !.source = "razorpay"]} :
        /\ l.copy.plan # Free /\ (l.copy.expires = None \/ l.copy.expires > l.at)
        /\ \/ l.copy.source = "razorpay"
           \/ l.copy.source = None /\ AppleCandidates(l) = {}}

End(row) == IF row.expires = None THEN 0 ELSE row.expires

\* The sort by rank, then by expiry; of equals the first, and Apple's come first.
Before(c, d) ==
    \/ c.plan > d.plan
    \/ c.plan = d.plan /\ End(c) > End(d)
    \/ c.plan = d.plan /\ End(c) = End(d) /\ (c.source = "apple" \/ d.source = "razorpay")

Best(cs) == {c \in cs : \A d \in cs : Before(c, d)}

PickPlan(p) ==
    /\ pc[p] = "rows"
    /\ LET cs == AppleCandidates(loc[p]) \cup RowCandidates(loc[p]) IN
       \E row \in (IF cs = {} THEN {FreeRow} ELSE Best(cs)) :
          Remember(p, [loc[p] EXCEPT !.best = row, !.copy = FreeRow, !.at = 0])
    /\ Goto(p, "save")
    /\ UNCHANGED <<now, tables, outside, history, faults>>

SavePlan(p) ==
    LET l == loc[p] IN
    /\ pc[p] = "save"
    /\ user' = [user EXCEPT ![l.user] = l.best]
    /\ bought' = IF l.kind \in {"order", "verify"}
                 THEN bought \cup {<<l.user, l.best.plan, l.best.expires>>} ELSE bought
    /\ Goto(p, "sync")
    /\ UNCHANGED <<now, workspace, apple, coupon, redemptions, outside, loc, missed, misled, faults>>

\* syncUserPlanToOwnedOrganizations: a subscription found with its plan
\* relation loaded keeps that plan when it is saved; a missing one is created.
Sync(p) ==
    LET l == loc[p] IN
    /\ pc[p] = "sync"
    /\ workspace' = IF workspace[l.user] = None
                    THEN [workspace EXCEPT ![l.user] = l.best.plan] ELSE workspace
    /\ IF l.kind = "cron"
       THEN Goto(p, "next") /\ Remember(p, [Fresh EXCEPT !.kind = "cron", !.rows = l.rows])
       ELSE Finish(p)
    /\ UNCHANGED <<now, user, apple, coupon, redemptions, outside, history, faults>>

-----------------------------------------------------------------------------
(* downgradeExpiredUsers *)

Expired(u) == user[u].plan # Free /\ user[u].expires # None /\ user[u].expires < now

\* Mutant: the job only looks for plans that name Razorpay.
StartCronRazorpay(p) ==
    /\ "cron" \in Ops[p] /\ pc[p] = "idle"
    /\ Remember(p, [Fresh EXCEPT !.kind = "cron",
                                 !.rows = {u \in Users : Expired(u) /\ user[u].source = "razorpay"}])
    /\ Goto(p, "next")
    /\ UNCHANGED <<now, tables, outside, history, faults>>

StartCron(p) ==
    /\ "cron" \in Ops[p] /\ pc[p] = "idle"
    /\ Remember(p, [Fresh EXCEPT !.kind = "cron", !.rows = {u \in Users : Expired(u)}])
    /\ Goto(p, "next")
    /\ UNCHANGED <<now, tables, outside, history, faults>>

NextExpired(p) ==
    /\ pc[p] = "next"
    /\ \E u \in loc[p].rows :
          Remember(p, [loc[p] EXCEPT !.user = u, !.rows = loc[p].rows \ {u}])
    /\ Goto(p, "read")
    /\ UNCHANGED <<now, tables, outside, history, faults>>

EndCron(p) ==
    /\ pc[p] = "next" /\ loc[p].rows = {}
    /\ Finish(p)
    /\ UNCHANGED <<now, tables, outside, history, faults>>

-----------------------------------------------------------------------------
(* verifyApplePurchase and handleAppleNotification *)

\* toVerified
Verified(tx) == ~tx.revoked /\ tx.plan # Free /\ (tx.expires = None \/ tx.expires > now)

StartApple(p) ==
    /\ "apple" \in Ops[p] /\ pc[p] = "idle" /\ shop.apple
    /\ \E u \in Users, s \in Subs :
          /\ store[s] # None /\ Verified(store[s])
          /\ Remember(p, [Fresh EXCEPT !.kind = "apple", !.user = u, !.tx = store[s]])
    /\ Goto(p, "upsert")
    /\ UNCHANGED <<now, tables, outside, history, faults>>

\* A subscription stays with the account that was the first to link it.
Upsert(p) ==
    LET tx == loc[p].tx IN
    /\ pc[p] = "upsert"
    /\ IF apple[tx.sub] # None /\ apple[tx.sub].user # loc[p].user
       THEN Finish(p) /\ apple' = apple
       ELSE /\ apple' = [apple EXCEPT ![tx.sub] =
                           [user |-> loc[p].user, plan |-> tx.plan, active |-> TRUE,
                            expires |-> tx.expires]]
            /\ Goto(p, "read") /\ loc' = loc
    /\ UNCHANGED <<now, user, workspace, coupon, redemptions, outside, history, faults>>

\* EXPIRED, REVOKE, REFUND and GRACE_PERIOD_EXPIRED end the subscription; the
\* others make it active, also when it does not verify, but then the plan of
\* the row stays.  One about a subscription nobody has linked is ignored.  The
\* payload is read without a look at its signature.
StartNotification(p) ==
    /\ "notification" \in Ops[p] /\ pc[p] = "idle"
    /\ \E m \in Notices :
          LET row == apple[m.tx.sub] IN
          /\ row # None
          /\ Remember(p, [Fresh EXCEPT !.kind = IF m.ends THEN "apple" ELSE "renewal",
                                       !.user = row.user, !.row = row, !.tx = m.tx])
          /\ Goto(p, IF m.ends THEN "end" ELSE IF Verified(m.tx) THEN "upsert" ELSE "keep")
          /\ misled' = IF <<m.tx.sub, m.tx.expires>> \in charged THEN misled
                       ELSE misled \cup {m.tx.sub}
    /\ UNCHANGED <<now, tables, outside, bought, missed, faults>>

\* The save of the row as it was read, with the status and the expiry that were
\* told, if one was.
SaveNotified(p) ==
    LET l == loc[p] IN
    /\ pc[p] \in {"end", "keep"}
    /\ apple' = [apple EXCEPT ![l.tx.sub] =
                   [l.row EXCEPT !.active = (pc[p] = "keep"),
                                 !.expires = IF l.tx.expires = None THEN @ ELSE l.tx.expires]]
    /\ Remember(p, [Fresh EXCEPT !.kind = "apple", !.user = l.user])
    /\ Goto(p, "read")
    /\ UNCHANGED <<now, user, workspace, coupon, redemptions, outside, history, faults>>

-----------------------------------------------------------------------------
(* The admin, the outside, time and failures *)

\* setActive, and delete, which only deactivates: the row that was read is saved
\* whole, with the count it had then.
StartAdmin(p) ==
    /\ "admin" \in Ops[p] /\ pc[p] = "idle" /\ shop.coupon
    /\ Remember(p, [Fresh EXCEPT !.kind = "admin", !.count = coupon.count])
    /\ Goto(p, "saveCoupon")
    /\ UNCHANGED <<now, tables, outside, history, faults>>

SaveCoupon(p) ==
    /\ pc[p] = "saveCoupon"
    /\ \E on \in BOOLEAN :
          coupon' = [coupon EXCEPT !.active = on, !.count = loc[p].count]
    /\ missed' = missed + (coupon.count - loc[p].count)
    /\ Finish(p)
    /\ UNCHANGED <<now, user, workspace, apple, redemptions, outside, bought, misled, faults>>

PayOrder ==
    /\ \E o \in orders : ~o.paid /\ orders' = (orders \ {o}) \cup {[o EXCEPT !.paid = TRUE]}
    /\ UNCHANGED <<now, tables, shop, store, charged, pc, loc, history, faults>>

\* Apple charges a period: the first one, or one that follows the last.
StoreCharge ==
    /\ \E s \in Subs, plan \in Plans \ {Free} :
          LET from == IF store[s] # None /\ store[s].expires > now THEN store[s].expires ELSE now
              tx   == [sub |-> s, plan |-> plan, expires |-> from + Month, revoked |-> FALSE]
          IN  /\ shop.apple /\ Cardinality(charged) < MaxCharges
              /\ store' = [store EXCEPT ![s] = tx]
              /\ charged' = charged \cup {<<s, from + Month>>}
    /\ UNCHANGED <<now, tables, shop, orders, pc, loc, history, faults>>

\* A subscription is refunded, or withdrawn.
StoreRevoke ==
    /\ \E s \in Subs : /\ store[s] # None
                       /\ store' = [store EXCEPT ![s].revoked = TRUE]
    /\ UNCHANGED <<now, tables, shop, orders, charged, pc, loc, history, faults>>

NextDay ==
    /\ now < Horizon
    /\ now' = now + 1
    /\ UNCHANGED <<tables, outside, pc, loc, history, faults>>

\* A statement of a handler throws, or the process dies under it.  Only the
\* renewal notification catches: it saves the row it has read after all.
Fail(p) ==
    /\ faults < MaxFaults /\ pc[p] # "idle"
    /\ faults' = faults + 1
    /\ \/ Finish(p)
       \/ loc[p].kind = "renewal" /\ pc[p] # "keep" /\ Goto(p, "keep") /\ loc' = loc
    /\ missed' = IF pc[p] = "count" THEN missed + 1 ELSE missed
    /\ UNCHANGED <<now, tables, outside, bought, misled>>

-----------------------------------------------------------------------------
Start(p) ==
    StartOrder(p) \/ StartVerify(p) \/ StartCron(p) \/ StartApple(p) \/ StartNotification(p)
    \/ StartAdmin(p)

Continue(p) ==
    \/ CheckCoupon(p) \/ CheckUsed(p) \/ RecordRedemption(p) \/ CountRedemption(p)
    \/ Charge(p) \/ Activate(p) \/ ReadUser(p) \/ PickPlan(p) \/ SavePlan(p) \/ Sync(p)
    \/ NextExpired(p) \/ EndCron(p) \/ Upsert(p) \/ SaveNotified(p) \/ SaveCoupon(p)

Next ==
    \/ \E p \in Procs : Start(p) \/ Continue(p) \/ Fail(p)
    \/ PayOrder \/ StoreCharge \/ StoreRevoke \/ NextDay

Spec == Init /\ [][Next]_vars

\* A handler that has begun goes on, and the daily job runs for ever.
FairSpec ==
    /\ Spec
    /\ \A p \in Procs : WF_vars(pc[p] # "idle" /\ Continue(p))
    /\ SF_vars(\E p \in Procs : StartCron(p))
-----------------------------------------------------------------------------
(* What the plans promise *)

Labels == {"idle", "coupon", "used", "redeem", "again", "record", "count", "charge", "activate",
           "read", "rows", "save", "sync", "next", "upsert", "end", "keep",
           "saveCoupon"}

LocalRow ==
    [kind : {"none", "order", "verify", "cron", "apple", "renewal", "admin"},
     user : Users \cup {None}, plan : Plans,
     coupon : BOOLEAN, tx : Transaction \cup {None}, row : AppleRow \cup {None}, at : Nat,
     count : Nat, copy : UserRow, best : UserRow, rows : SUBSET Users]

\* Every table holds rows of its own columns, every handler is at a known await.
TypeOK ==
    /\ now \in Nat /\ faults \in Nat
    /\ user \in [Users -> UserRow] /\ workspace \in [Users -> Plans \cup {None}]
    /\ apple \in [Subs -> AppleRow \cup {None}]
    /\ shop \in Shops /\ coupon \in [active : BOOLEAN, count : Nat]
    /\ redemptions \subseteq Redemption /\ missed \in Int /\ misled \subseteq Subs
    /\ orders \subseteq Order /\ store \in [Subs -> Transaction \cup {None}]
    /\ pc \in [Procs -> Labels] /\ loc \in [Procs -> LocalRow]

\* The plan a user had before plans had a source.
Stored(u, row) == u \in Legacy /\ row.plan = Silver /\ row.expires = 0

\* What an activation rests on: an order somebody has paid, or a redemption of
\* a coupon that takes the whole price off.
Covered(u) == (\E o \in orders : o.paid) \/ (shop.full /\ Redeemed(u))

\* A subscription that Apple has sold and this user has linked, with the end of
\* a period Apple charged, or of one that a notification made up.
FromApple(u, row) ==
    \E s \in Subs :
        /\ apple[s] # None /\ apple[s].user = u
        /\ \E c \in charged : c[1] = s
        /\ <<s, row.expires>> \in charged \/ s \in misled

Backed(u, row) ==
    /\ row.plan = Free => row = FreeRow
    /\ row.source = None => row.plan = Free \/ Stored(u, row)
    /\ row.source = "razorpay" => Stored(u, row) \/ <<u, row.plan, row.expires>> \in bought
    /\ row.source = "apple" => FromApple(u, row)

\* The plan on a user row, with its end, is one that was activated for this user,
\* or that a subscription this user has linked gives; and an activation had an
\* order that was paid, or a coupon that pays in full.  However late or stale
\* the handler that wrote it, no recomputation makes a plan, prolongs one or
\* moves it to another source.  That the order was for this plan and this user
\* is not promised: the code does not look.
PlansHaveSources ==
    /\ \A u \in Users : Backed(u, user[u])
    /\ \A b \in bought : Covered(b[1])

\* Handlers past the last check of the limit that have not recorded their
\* redemption, and those that have, but have not counted it.
Redeeming == {p \in Procs : pc[p] \in {"again", "record"}}
Counting  == {p \in Procs : pc[p] = "count"}

\* maxRedemptions: more redemptions than the limit have no other causes than
\* handlers in progress at once, by less than their number, and counts that were
\* missed: a failure before the increment, or an admin who saved an old count.
CouponOverrunBounded ==
    Cardinality(redemptions) + Cardinality(Redeeming)
        <= MaxRedemptions + Cardinality(Procs) - 1 + missed

\* plan-expiry.cron.ts: an expired plan does not stay on the row for ever.
ExpiredPlansEnd == \A u \in Users : []<>~Expired(u)

-----------------------------------------------------------------------------
(* What comments of the code say and the runs refute *)

Quiet == \A p \in Procs : pc[p] = "idle"

\* recomputeEffectivePlan: "Highest active plan wins across Razorpay (user
\* row) and Apple subscriptions."  When no handler runs, nobody is on a lower
\* plan than one activated for a payment that still covers the day.
HighestActivePlanWins ==
    Quiet => \A b \in bought : b[3] > now => Effective(user[b[1]]) >= b[2]
=============================================================================
