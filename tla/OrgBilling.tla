----------------------------- MODULE OrgBilling -----------------------------
(***************************************************************************)
(* The billing of one workspace: its row of subscriptions, the orders it   *)
(* pays through Razorpay, the rows of payments and invoices, the trial and *)
(* the hourly job that ends it.  A process is one request, webhook or job  *)
(* in progress, one action is what it does between two awaits.  Nothing is *)
(* locked, and a save writes the whole row as it was read: whatever has    *)
(* changed since is undone.                                                *)
(*                                                                         *)
(* Razorpay is outside: its orders are paid or not.  What a request says is *)
(* what its sender chose to say: a verification names a plan of its own    *)
(* beside an order that was paid, and a webhook may come from anybody, at  *)
(* any time, of any order that has a row of payments, several times or     *)
(* never, true or not.  Time counts days.                                  *)
(***************************************************************************)
EXTENDS Naturals, FiniteSets

CONSTANTS
    Sold,             \* the plans on sale
    Procs,            \* requests and jobs that may be in progress at once
    Ops,              \* the entry points each process may call
    TrialDays,        \* the length of a trial
    MaxMembers,       \* bound: active members of the workspace
    Horizon,          \* bound: days
    MaxOrders,        \* bound: Razorpay orders
    MaxInvoices,      \* bound: invoices at which no verification begins
    MaxFaults,        \* bound: handlers that fail
    None

ASSUME OrgBillingAssumption ==
    /\ None \notin Nat /\ "free" \notin Sold
    /\ IsFiniteSet(Procs) /\ TrialDays \in Nat \ {0} /\ MaxMembers \in Nat \ {0}
    /\ Horizon \in Nat /\ MaxOrders \in Nat /\ MaxInvoices \in Nat /\ MaxFaults \in Nat

VARIABLES
    now,
    members,      \* active members: usage.users.current
    sub,          \* the row of subscriptions
    payments,     \* the rows of payments, by order
    invoices,     \* the rows of invoices
    orders,       \* Razorpay's orders
    pc, loc,      \* where each process is, and what it remembers
    granted,      \* history: plans assigned by an administrator
    tried,        \* history: plans a trial was started for
    kept,         \* history: plans whose running trial a save has taken the end off
    overtaken,    \* history: requests that were in progress when a plan came into force
    verified,     \* history: orders whose verification has begun
    shown,        \* history: plans named by a verification
    repeated,     \* history: orders whose verification has begun again
    spoiled,      \* history: orders whose payment row was marked failed
    faults

history == <<granted, tried, kept, overtaken, verified, shown, repeated, spoiled>>
vars    == <<now, members, sub, payments, invoices, orders, pc, loc, history, faults>>

Plans == Sold \cup {"free"}

Subscription == [plan : Plans, status : {"TRIAL", "ACTIVE", "CANCELLED"},
                 trialEnds : Nat \cup {None}]
\* seats is userCount in the metadata of the payment.
Payment == [status : {"PENDING", "SUCCESS", "FAILED"}, seats : Nat \cup {None}]

ASSUME NoneIsNoPayment == None \notin Payment

Order   == [id : Nat, plan : Sold, seats : Nat, paid : BOOLEAN]
Invoice == [id : Nat, order : Nat, seats : Nat]

\* ensureFreeSubscription
FreeRow == [plan |-> "free", status |-> "ACTIVE", trialEnds |-> None]

Fresh == [kind |-> "none", plan |-> "free", order |-> None, seats |-> None,
          copy |-> FreeRow, row |-> None]

Init ==
    /\ now = 0 /\ members = 1
    /\ sub = FreeRow
    /\ payments = [o \in 1..MaxOrders |-> None]
    /\ invoices = {} /\ orders = {}
    /\ pc = [p \in Procs |-> "idle"] /\ loc = [p \in Procs |-> Fresh]
    /\ granted = {} /\ tried = {} /\ kept = {} /\ overtaken = {}
    /\ verified = {} /\ shown = {} /\ repeated = {} /\ spoiled = {} /\ faults = 0

-----------------------------------------------------------------------------
tables  == <<sub, payments, invoices>>
outside == <<members, orders>>

Goto(p, label) == pc' = [pc EXCEPT ![p] = label]

Remember(p, l) == loc' = [loc EXCEPT ![p] = l]

\* The row that was read, and the plan, are not used again.
Forget(p) == Remember(p, [loc[p] EXCEPT !.copy = FreeRow, !.plan = "free"])

Begin(p, op, label, l) ==
    /\ op \in Ops[p] /\ pc[p] = "idle"
    /\ Remember(p, l) /\ Goto(p, label)

Done(p) == Goto(p, "idle") /\ Remember(p, Fresh)

Finish(p) == Done(p) /\ overtaken' = overtaken \ {p}

\* getOrganizationUsage and getFeatureFlags: the plan whose limits apply.
Effective ==
    IF sub.status = "TRIAL" /\ sub.trialEnds # None /\ sub.trialEnds <= now
    THEN "free" ELSE sub.plan

OnTrial(row) == row.status = "TRIAL"

\* A plan that no trial limits and nobody has cancelled.
InForce(row) == row.status = "ACTIVE" /\ row.plan # "free"

\* The save of the whole row.  The requests in progress have not seen it.  A
\* handler that sets every column of Subscription remembers no copy: what it
\* has read of them is not written back.
Save(p, row) ==
    /\ sub' = row
    /\ overtaken' = IF InForce(row) THEN {q \in Procs \ {p} : pc[q] # "idle"} ELSE {}

\* The save of a row that was read on trial takes the end off the trial.
Keep(row) == kept' = IF OnTrial(row) THEN kept \cup {row.plan} ELSE kept

-----------------------------------------------------------------------------
(* startTrial *)

\* Mutant: a workspace on a paid plan is not refused.
StartTrialAlways(p) ==
    /\ sub.status # "TRIAL"
    /\ \E plan \in Sold :
          Begin(p, "trial", "trial", [Fresh EXCEPT !.kind = "trial", !.plan = plan])
    /\ UNCHANGED <<now, tables, outside, history, faults>>

StartTrial(p) ==
    /\ sub.status # "TRIAL"
    /\ sub.status = "ACTIVE" => sub.plan = "free"
    /\ \E plan \in Sold :
          Begin(p, "trial", "trial", [Fresh EXCEPT !.kind = "trial", !.plan = plan])
    /\ UNCHANGED <<now, tables, outside, history, faults>>

SaveTrial(p) ==
    /\ pc[p] = "trial"
    /\ Save(p, [plan |-> loc[p].plan, status |-> "TRIAL", trialEnds |-> now + TrialDays])
    /\ tried' = tried \cup {loc[p].plan}
    /\ Done(p)
    /\ UNCHANGED <<now, payments, invoices, outside, granted, kept, verified, shown, repeated, spoiled,
                   faults>>

-----------------------------------------------------------------------------
(* createOrder *)

\* The seats are counted first and charged for below.  An order of another
\* workspace, which a verification here may name too, is as one of another day:
\* the members may have been any number.
StartOrder(p) ==
    /\ Cardinality(orders) < MaxOrders
    /\ \E plan \in Sold :
          Begin(p, "order", "razorpay",
                [Fresh EXCEPT !.kind = "order", !.plan = plan, !.seats = members])
    /\ UNCHANGED <<now, tables, outside, history, faults>>

\* Razorpay creates the order, or refuses it (also at the bound on orders).
CreateOrder(p) ==
    LET id == Cardinality(orders) + 1 IN
    /\ pc[p] = "razorpay"
    /\ \/ Finish(p) /\ orders' = orders
       \/ /\ id <= MaxOrders
          /\ orders' = orders \cup {[id |-> id, plan |-> loc[p].plan, seats |-> loc[p].seats,
                                     paid |-> FALSE]}
          /\ Remember(p, [loc[p] EXCEPT !.order = id])
          /\ Goto(p, "pend") /\ overtaken' = overtaken
    /\ UNCHANGED <<now, tables, members, granted, tried, kept, verified, shown, repeated, spoiled,
                   faults>>

\* Mutant: the seats are not kept with the payment.
PendWithoutSeats(p) ==
    /\ pc[p] = "pend"
    /\ payments' = [payments EXCEPT ![loc[p].order] = [status |-> "PENDING", seats |-> None]]
    /\ Finish(p)
    /\ UNCHANGED <<now, sub, invoices, outside, granted, tried, kept, verified, shown, repeated, spoiled,
                   faults>>

PendPayment(p) ==
    /\ pc[p] = "pend"
    /\ payments' = [payments EXCEPT ![loc[p].order] =
                      [status |-> "PENDING", seats |-> loc[p].seats]]
    /\ Finish(p)
    /\ UNCHANGED <<now, sub, invoices, outside, granted, tried, kept, verified, shown, repeated, spoiled,
                   faults>>

-----------------------------------------------------------------------------
(* verifyPayment *)

\* Mutant: the signature of the payment is not checked.
StartVerifyUnsigned(p) ==
    /\ Cardinality(invoices) < MaxInvoices
    /\ \E o \in orders, plan \in Plans :
          /\ Begin(p, "verify", "activate", [Fresh EXCEPT !.kind = "verify", !.plan = plan,
                                                         !.order = o.id])
          /\ verified' = verified \cup {o.id} /\ shown' = shown \cup ({plan} \cap Sold)
          /\ repeated' = IF o.id \in verified THEN repeated \cup {o.id} ELSE repeated
    /\ UNCHANGED <<now, tables, outside, granted, tried, kept, overtaken, spoiled, faults>>

\* The signature shows that the order is paid.  The plan is the one the request
\* names, free or sold: the code compares neither it nor the workspace with the
\* order.  Nothing refuses an order that was verified before.
StartVerify(p) ==
    /\ Cardinality(invoices) < MaxInvoices
    /\ \E o \in orders, plan \in Plans :
          /\ o.paid
          /\ Begin(p, "verify", "activate", [Fresh EXCEPT !.kind = "verify", !.plan = plan,
                                                         !.order = o.id])
          /\ verified' = verified \cup {o.id} /\ shown' = shown \cup ({plan} \cap Sold)
          /\ repeated' = IF o.id \in verified THEN repeated \cup {o.id} ELSE repeated
    /\ UNCHANGED <<now, tables, outside, granted, tried, kept, overtaken, spoiled, faults>>

Activate(p) ==
    /\ pc[p] = "activate"
    /\ Save(p, [plan |-> loc[p].plan, status |-> "ACTIVE", trialEnds |-> None])
    /\ Goto(p, "reload") /\ Forget(p)
    /\ UNCHANGED <<now, payments, invoices, outside, granted, tried, kept, verified, shown, repeated,
                   spoiled, faults>>

Reload(p) ==
    /\ pc[p] = "reload"
    /\ Remember(p, [loc[p] EXCEPT !.copy = sub])
    /\ Goto(p, "payment")
    /\ UNCHANGED <<now, tables, outside, history, faults>>

\* Mutant: the seats are counted anew, not read off the payment.
FindPaymentAnew(p) ==
    /\ pc[p] = "payment"
    /\ Remember(p, [loc[p] EXCEPT !.seats = None])
    /\ Goto(p, IF payments[loc[p].order] = None THEN "count" ELSE "settle")
    /\ UNCHANGED <<now, tables, outside, history, faults>>

\* The seats of the order are read off the metadata before these are replaced.
FindPayment(p) ==
    LET row == payments[loc[p].order] IN
    /\ pc[p] = "payment"
    /\ Remember(p, [loc[p] EXCEPT !.seats = IF row = None THEN None ELSE row.seats])
    /\ Goto(p, IF row = None THEN "count" ELSE "settle")
    /\ UNCHANGED <<now, tables, outside, history, faults>>

\* Mutant: without a snapshot the members are not counted again.
SettleWithoutCount(p) ==
    /\ pc[p] = "settle"
    /\ payments' = [payments EXCEPT ![loc[p].order] = [status |-> "SUCCESS", seats |-> None]]
    /\ Goto(p, "seats") /\ loc' = loc
    /\ UNCHANGED <<now, sub, invoices, outside, history, faults>>

Settle(p) ==
    /\ pc[p] = "settle"
    /\ payments' = [payments EXCEPT ![loc[p].order] = [status |-> "SUCCESS", seats |-> None]]
    /\ Goto(p, IF loc[p].seats = None THEN "count" ELSE "seats") /\ loc' = loc
    /\ UNCHANGED <<now, sub, invoices, outside, history, faults>>

CountSeats(p) ==
    /\ pc[p] = "count"
    /\ Remember(p, [loc[p] EXCEPT !.seats = members])
    /\ Goto(p, "seats")
    /\ UNCHANGED <<now, tables, outside, history, faults>>

\* The save of the row as it was reloaded, with its plan: only the seats in its
\* metadata, which this module leaves out, are new.
SaveSeats(p) ==
    /\ pc[p] = "seats"
    /\ Save(p, loc[p].copy)
    /\ Goto(p, "invoice") /\ Forget(p)
    /\ UNCHANGED <<now, payments, invoices, outside, granted, tried, kept, verified, shown, repeated,
                   spoiled, faults>>

CreateInvoice(p) ==
    /\ pc[p] = "invoice"
    /\ invoices' = invoices \cup {[id |-> Cardinality(invoices), order |-> loc[p].order,
                                   seats |-> loc[p].seats]}
    /\ Finish(p)
    /\ UNCHANGED <<now, sub, payments, outside, granted, tried, kept, verified, shown, repeated, spoiled,
                   faults>>

-----------------------------------------------------------------------------
(* cancelSubscription, downgradeToFree, and the hourly job *)

StartCancel(p) ==
    /\ Begin(p, "cancel", "cancel", [Fresh EXCEPT !.kind = "cancel", !.copy = sub])
    /\ UNCHANGED <<now, tables, outside, history, faults>>

SaveCancelled(p) ==
    /\ pc[p] = "cancel"
    /\ Save(p, [loc[p].copy EXCEPT !.status = "CANCELLED"])
    /\ Keep(loc[p].copy)
    /\ Goto(p, "free") /\ Forget(p)
    /\ UNCHANGED <<now, payments, invoices, outside, granted, tried, verified, shown, repeated,
                   spoiled, faults>>

StartDowngrade(p) ==
    /\ Begin(p, "downgrade", "free", [Fresh EXCEPT !.kind = "downgrade"])
    /\ UNCHANGED <<now, tables, outside, history, faults>>

\* handleTrialExpiry, when findExpiredTrials has found this workspace.
StartJob(p) ==
    /\ sub.status = "TRIAL" /\ sub.trialEnds # None /\ sub.trialEnds <= now
    /\ Begin(p, "job", "free", [Fresh EXCEPT !.kind = "job"])
    /\ UNCHANGED <<now, tables, outside, history, faults>>

ReadForFree(p) ==
    /\ pc[p] = "free"
    /\ Goto(p, "saveFree") /\ loc' = loc
    /\ UNCHANGED <<now, tables, outside, history, faults>>

\* Mutant: the trial is not taken off the row.
SaveFreeOnTrial(p) ==
    /\ pc[p] = "saveFree"
    /\ Save(p, [sub EXCEPT !.plan = "free"])
    /\ Done(p)
    /\ UNCHANGED <<now, payments, invoices, outside, granted, tried, kept, verified, shown, repeated,
                   spoiled, faults>>

SaveFree(p) ==
    /\ pc[p] = "saveFree"
    /\ Save(p, FreeRow)
    /\ Done(p)
    /\ UNCHANGED <<now, payments, invoices, outside, granted, tried, kept, verified, shown, repeated,
                   spoiled, faults>>

-----------------------------------------------------------------------------
(* adminSetOrganizationPlan, and the sync of the owner's plan *)

StartGrant(p) ==
    /\ \E plan \in Plans :
          Begin(p, "admin", "grant", [Fresh EXCEPT !.kind = "admin", !.plan = plan])
    /\ UNCHANGED <<now, tables, outside, history, faults>>

\* The status is ACTIVE: the only caller gives no other.
SaveGrant(p) ==
    /\ pc[p] = "grant"
    /\ Save(p, [plan |-> loc[p].plan, status |-> "ACTIVE", trialEnds |-> None])
    /\ granted' = granted \cup ({loc[p].plan} \cap Sold)
    /\ Done(p)
    /\ UNCHANGED <<now, payments, invoices, outside, tried, kept, verified, shown, repeated, spoiled,
                   faults>>

\* syncUserPlanToOwnedOrganizations, at the end of every change of the owner's
\* plan: the row was found with its plan relation and keeps that plan.
StartSync(p) ==
    /\ Begin(p, "sync", "sync", [Fresh EXCEPT !.kind = "sync", !.copy = sub])
    /\ UNCHANGED <<now, tables, outside, history, faults>>

SaveSync(p) ==
    /\ pc[p] = "sync"
    /\ Save(p, [loc[p].copy EXCEPT !.status = "ACTIVE", !.trialEnds = None])
    /\ Keep(loc[p].copy)
    /\ Done(p)
    /\ UNCHANGED <<now, payments, invoices, outside, granted, tried, verified, shown, repeated, spoiled,
                   faults>>

-----------------------------------------------------------------------------
(* handleRazorpayWebhook *)

\* A payment.captured of a payment that has succeeded is ignored; a payment.failed
\* is not.  The signature is looked at only if the request has one.
StartWebhook(p) ==
    /\ \E id \in 1..MaxOrders, ok \in BOOLEAN :
          LET row == payments[id] IN
          /\ row # None
          /\ ok => row.status # "SUCCESS"
          /\ Begin(p, "webhook", IF ok THEN "captured" ELSE "failed",
                   [Fresh EXCEPT !.kind = "webhook", !.order = id, !.row = row])
    /\ UNCHANGED <<now, tables, outside, history, faults>>

\* subscription.cancelled.  The column it is looked up in holds the id of the
\* payment of a verification, so that none of Razorpay's own finds a row.
StartEnded(p) ==
    /\ verified # {}
    /\ Begin(p, "webhook", "free", [Fresh EXCEPT !.kind = "webhook"])
    /\ UNCHANGED <<now, tables, outside, history, faults>>

SaveCaptured(p) ==
    /\ pc[p] = "captured"
    /\ payments' = [payments EXCEPT ![loc[p].order] = [loc[p].row EXCEPT !.status = "SUCCESS"]]
    /\ Finish(p)
    /\ UNCHANGED <<now, sub, invoices, outside, granted, tried, kept, verified, shown, repeated, spoiled,
                   faults>>

\* The metadata become those of the failed attempt.
SaveFailed(p) ==
    /\ pc[p] = "failed"
    /\ payments' = [payments EXCEPT ![loc[p].order] = [status |-> "FAILED", seats |-> None]]
    /\ spoiled' = spoiled \cup {loc[p].order}
    /\ Finish(p)
    /\ UNCHANGED <<now, sub, invoices, outside, granted, tried, kept, verified, shown, repeated, faults>>

-----------------------------------------------------------------------------
(* Razorpay, the members, time, failures *)

\* The client pays an order once createOrder has answered.
Answered(o) == \A p \in Procs : ~(pc[p] = "pend" /\ loc[p].order = o.id)

PayOrder ==
    /\ \E o \in orders :
          /\ ~o.paid /\ Answered(o)
          /\ orders' = (orders \ {o}) \cup {[o EXCEPT !.paid = TRUE]}
    /\ UNCHANGED <<now, tables, members, pc, loc, history, faults>>

JoinOrLeave ==
    /\ members' \in 1..MaxMembers
    /\ UNCHANGED <<now, tables, orders, pc, loc, history, faults>>

NextDay ==
    /\ now < Horizon
    /\ now' = now + 1
    /\ UNCHANGED <<tables, outside, pc, loc, history, faults>>

\* A statement of a handler throws, or the process dies under it.  One that has
\* written nothing yet leaves no trace: these need no action.
Fail(p) ==
    /\ faults < MaxFaults
    /\ pc[p] \in {"pend", "reload", "payment", "settle", "count", "seats", "invoice", "free",
                  "saveFree"}
    /\ faults' = faults + 1
    /\ Finish(p)
    /\ UNCHANGED <<now, tables, outside, granted, tried, kept, verified, shown, repeated, spoiled>>

-----------------------------------------------------------------------------
Start(p) ==
    StartTrial(p) \/ StartOrder(p) \/ StartVerify(p) \/ StartCancel(p) \/ StartDowngrade(p)
    \/ StartJob(p) \/ StartGrant(p) \/ StartSync(p) \/ StartWebhook(p)
    \/ StartEnded(p)

Continue(p) ==
    \/ SaveTrial(p) \/ CreateOrder(p) \/ PendPayment(p)
    \/ Activate(p) \/ Reload(p) \/ FindPayment(p) \/ Settle(p) \/ CountSeats(p) \/ SaveSeats(p)
    \/ CreateInvoice(p) \/ SaveCancelled(p) \/ ReadForFree(p) \/ SaveFree(p)
    \/ SaveGrant(p) \/ SaveSync(p) \/ SaveCaptured(p) \/ SaveFailed(p)

Next ==
    \/ \E p \in Procs : Start(p) \/ Continue(p) \/ Fail(p)
    \/ PayOrder \/ JoinOrLeave \/ NextDay

Spec == Init /\ [][Next]_vars

\* A handler that has begun goes on, and the hourly job runs for ever.
FairSpec ==
    /\ Spec
    /\ \A p \in Procs : WF_vars(pc[p] # "idle" /\ Continue(p))
    /\ SF_vars(\E p \in Procs : StartJob(p))
-----------------------------------------------------------------------------
(* What the billing promises *)

Labels == {"idle", "trial", "razorpay", "pend", "activate", "reload", "payment", "settle",
           "count", "seats", "invoice", "cancel", "free", "saveFree", "grant", "sync",
           "captured", "failed"}

Kinds == {"none", "trial", "order", "verify", "cancel", "downgrade", "job", "admin", "sync",
          "webhook"}

LocalRow == [kind : Kinds, plan : Plans, order : Nat \cup {None}, seats : Nat \cup {None},
             copy : Subscription, row : Payment \cup {None}]

\* Every table holds rows of its own columns, every handler is at a known await.
TypeOK ==
    /\ now \in Nat /\ members \in Nat /\ faults \in Nat
    /\ sub \in Subscription
    /\ payments \in [1..MaxOrders -> Payment \cup {None}]
    /\ invoices \subseteq Invoice /\ orders \subseteq Order
    /\ pc \in [Procs -> Labels] /\ loc \in [Procs -> LocalRow]
    /\ granted \subseteq Sold /\ tried \subseteq Sold /\ kept \subseteq Plans
    /\ overtaken \subseteq Procs
    /\ verified \subseteq Nat /\ shown \subseteq Sold /\ repeated \subseteq Nat /\ spoiled \subseteq Nat

\* A verification has named the plan, and it had a paid order to show.
Shown(plan) == plan \in shown /\ \E o \in orders : o.paid

\* The limits of a plan apply to a workspace only if a verification with a paid
\* order named it, an administrator assigned it, or a trial of it still runs: a
\* trial that is over leaves nothing, whichever stale row was written over which,
\* unless the sync of the owner's plan or a cancellation had saved its row without
\* an end.  That the order was for this plan is not promised: the code does not look.
PlanHasReason ==
    LET plan == Effective IN
    \/ plan = "free" \/ plan \in granted \/ Shown(plan)
    \/ plan \in tried /\ (sub.status = "TRIAL" \/ plan \in kept)

\* The end of the plan was asked for: by the owner, the administrator, a webhook
\* of a cancelled subscription, or a verification that names the free plan.
AsksForFree(l, label) ==
    \/ l.kind \in {"cancel", "downgrade", "admin", "webhook"}
    \/ label = "activate" /\ l.plan = "free"

\* A plan that was paid for or assigned stays in force: no request that begins
\* after it takes the plan away, other than one that asks for that.
PlanStaysInForce ==
    [][InForce(sub) /\ ~InForce(sub') =>
          \E p \in Procs : pc'[p] # pc[p] /\ (AsksForFree(loc[p], pc[p]) \/ p \in overtaken)]_vars

\* verifyPayment: "the invoice matches what was actually charged even if org
\* membership changed since createOrder", and its payment has succeeded.  The
\* exceptions are a second verification, a row that was never inserted, and
\* a webhook that calls an attempt failed.
InvoicedAsCharged ==
    \A i \in invoices, o \in orders :
        i.order = o.id =>
            \/ o.paid /\ i.seats = o.seats /\ payments[o.id] # None
                      /\ payments[o.id].status = "SUCCESS"
            \/ o.paid /\ (o.id \in spoiled \cup repeated \/ payments[o.id] = None)

\* The orders of which a row written over by a report of failure, a second
\* verification, or a row that was never inserted leaves the seats open.
Loose == spoiled \cup repeated \cup {id \in verified : payments[id] = None}

Book == INSTANCE OrderBook
        WITH book <- orders, confirmed <- verified, loose <- Loose,
             bills <- invoices

\* The order, the client's payment and verifyPayment, with the webhooks that may
\* come between, keep the book of OrderBook: nothing of an order changes but that
\* it is paid, and an order verified once is invoiced once at most, for the seats
\* it was charged for, however the rows of payments were written in between.
KeepsBook == Book!Spec

TrialOver == sub.status = "TRIAL" /\ sub.trialEnds # None /\ sub.trialEnds <= now

\* The hourly job: a trial that is over does not stay on the row for ever.
TrialsEnd == []<>~TrialOver
-----------------------------------------------------------------------------
(* The inductive invariant behind PlanHasReason and PlanStaysInForce: not    *)
(* only the row but every copy of it that a handler may still write back    *)
(* has a plan somebody answers for, and a handler that could take a plan in *)
(* force away without having seen it is among the overtaken.                *)

Lawful(row) ==
    \/ row.plan = "free" \/ row.plan \in granted \/ Shown(row.plan)
    \/ row.plan \in tried /\ (OnTrial(row) \/ row.plan \in kept)

HoldsOrder == {"pend", "activate", "reload", "payment", "settle", "count", "seats", "invoice",
               "captured", "failed"}

\* What a handler at an await remembers.
Good(l, label) ==
    /\ Lawful(l.copy)
    /\ label \in HoldsOrder => l.order \in 1..MaxOrders
    /\ label \in {"razorpay", "pend", "seats", "invoice"} => l.seats \in Nat
    /\ label \in {"trial", "razorpay"} => l.plan \in Sold
    /\ label = "activate" => l.kind = "verify" /\ (l.plan = "free" \/ Shown(l.plan))
    /\ label = "captured" => l.row # None
    /\ label = "cancel" => l.kind = "cancel"
    /\ label = "grant" => l.kind = "admin"
    /\ label \in {"free", "saveFree"} => l.kind \in {"cancel", "downgrade", "job", "webhook"}

\* A plan in force and what a handler that has not seen it may do to it.
Safe(p, l, label) ==
    InForce(sub) =>
        /\ label = "trial" => p \in overtaken
        /\ label \in {"free", "saveFree"} /\ l.kind = "job" => p \in overtaken
        /\ label \in {"payment", "settle", "count", "seats"} => p \in overtaken \/ InForce(l.copy)
        /\ label = "sync" => p \in overtaken \/ l.copy.plan # "free"

TablesOK ==
    /\ Lawful(sub)
    /\ IsFiniteSet(orders) /\ IsFiniteSet(invoices)
    /\ \A o \in orders : o.id \in 1..MaxOrders

IInv ==
    /\ TypeOK /\ TablesOK
    /\ \A p \in Procs : Good(loc[p], pc[p]) /\ Safe(p, loc[p], pc[p])
-----------------------------------------------------------------------------
(* The inductive invariant behind InvoicedAsCharged: the seats of an order  *)
(* travel from the order to its row of payments, from there to the one      *)
(* verification that reads them before it takes them off the row, or to a   *)
(* webhook that puts the row back as it was, and so to the invoice.         *)

\* The orders InvoicedAsCharged leaves out.
Excepted == spoiled \cup repeated

Reading   == {"activate", "reload", "payment"}
Verifying == Reading \cup {"settle", "count", "seats", "invoice"}

Known(id) == \E o \in orders : o.id = id

\* The verification of the order has read the seats off its payment.
SeatsTaken(o) ==
    /\ o.id \in verified
    /\ \A p \in Procs : loc[p].order = o.id => pc[p] \notin Reading

PaymentOK(o) ==
    LET row == payments[o.id] IN
    \/ o.id \in Excepted \/ row = None \/ row.seats = o.seats
    \/ row.status = "SUCCESS" /\ SeatsTaken(o)

\* The seats to put on an invoice of the order.
Charged(o, seats) ==
    \/ o.id \in Excepted \/ payments[o.id] = None
    \/ seats = o.seats /\ payments[o.id].status = "SUCCESS"

\* What a handler at an await remembers of its order.
HandlerOK(l, label, o) ==
    /\ label = "pend" => ~o.paid /\ l.seats = o.seats
    /\ label \in Verifying => o.id \in verified
    /\ label \in {"settle", "captured", "failed"} => payments[o.id] # None
    /\ label = "captured" => o.id \in Excepted \/ l.row.seats = o.seats
    /\ label = "settle" => o.id \in Excepted \/ l.seats = o.seats
    /\ label = "count" => o.id \in Excepted \/ payments[o.id] = None
    /\ label \in {"seats", "invoice"} => Charged(o, l.seats)

OrdersOK ==
    /\ \A o \in orders : o.id <= Cardinality(orders)
    /\ \A o, q \in orders : o.id = q.id => o = q
    /\ \A id \in 1..MaxOrders : payments[id] # None => Known(id)
    /\ \A id \in verified : \E o \in orders : o.id = id /\ o.paid
    /\ \A o \in orders : PaymentOK(o)

InvoicesOK ==
    \A i \in invoices :
        i.order \in verified /\ \A o \in orders : i.order = o.id => Charged(o, i.seats)

BillsOK ==
    /\ OrdersOK /\ InvoicesOK
    /\ \A p \in Procs : loc[p].order # None => Known(loc[p].order)
    /\ \A p \in Procs, o \in orders : loc[p].order = o.id => HandlerOK(loc[p], pc[p], o)
    /\ \A p, q \in Procs :
          p # q /\ pc[p] \in Verifying /\ pc[q] \in Verifying /\ loc[p].order = loc[q].order
              => loc[p].order \in repeated
-----------------------------------------------------------------------------
(* What KeepsBook needs besides: an order that has its invoice is verified  *)
(* no more, or is verified again.                                           *)

BookOK ==
    \A p \in Procs, i \in invoices :
        pc[p] \in Verifying /\ loc[p].order = i.order => i.order \in repeated
=============================================================================
