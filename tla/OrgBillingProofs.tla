-------------------------- MODULE OrgBillingProofs --------------------------
(* Proofs about OrgBilling: what the billing of a workspace keeps for any   *)
(* number of requests, jobs, orders and days.                               *)
EXTENDS OrgBilling, FiniteSetTheorems, TLAPS

-----------------------------------------------------------------------------
(* What every step keeps *)

\* The history of what justifies a plan only grows, and a paid order stays paid.
Grows ==
    /\ granted \subseteq granted' /\ tried \subseteq tried' /\ kept \subseteq kept'
    /\ \A plan \in Sold : Shown(plan) => Shown(plan)'

LEMMA LawfulStays ==
    ASSUME Grows, NEW row \in Subscription, Lawful(row)
    PROVE  Lawful(row)'
<1>1. row.plan \in Plans
  BY DEF Subscription
<1>2. CASE row.plan = "free"
  BY <1>2 DEF Lawful
<1>3. CASE row.plan \in Sold
  BY <1>3 DEF Lawful, Grows, OnTrial
<1> QED BY <1>1, <1>2, <1>3 DEF Plans

LEMMA GoodStays ==
    ASSUME Grows, NEW l \in LocalRow, NEW label, Good(l, label)
    PROVE  Good(l, label)'
<1>1. Lawful(l.copy)'
  BY LawfulStays DEF Good, LocalRow
<1>2. label = "activate" => l.plan = "free" \/ Shown(l.plan)'
  <2>1. l.plan \in Plans
    BY DEF LocalRow
  <2> QED BY <2>1 DEF Good, Grows, Plans
<1> QED BY <1>1, <1>2 DEF Good

\* The parts of the invariant for one process.
LEMMA LocalFacts ==
    ASSUME IInv, NEW p \in Procs
    PROVE  /\ loc[p] \in LocalRow /\ pc[p] \in Labels /\ Good(loc[p], pc[p])
           /\ Safe(p, loc[p], pc[p])
           /\ sub \in Subscription /\ Lawful(sub) /\ now \in Nat /\ members \in Nat
           /\ payments \in [1..MaxOrders -> Payment \cup {None}]
BY DEF IInv, TypeOK, TablesOK

LEMMA FreshOK ==
    /\ Fresh \in LocalRow /\ FreeRow \in Subscription /\ Fresh.copy = FreeRow
    /\ FreeRow.plan = "free" /\ FreeRow.status = "ACTIVE"
    /\ Lawful(FreeRow) /\ Good(Fresh, "idle")
BY DEF Fresh, FreeRow, LocalRow, Kinds, Plans, Subscription, Lawful, Good, HoldsOrder

-----------------------------------------------------------------------------
(* Steps that leave the subscription alone *)

\* The step of a process that leaves the subscription alone.
LEMMA QuietStep ==
    ASSUME IInv, NEW p \in Procs, NEW l \in LocalRow, NEW label \in Labels,
           pc' = [pc EXCEPT ![p] = label], loc' = [loc EXCEPT ![p] = l],
           Good(l, label) \/ Good(l, label)', Safe(p, l, label),
           overtaken' = overtaken \/ (label = "idle" /\ overtaken' = overtaken \ {p}),
           UNCHANGED <<sub, granted, tried, kept>>,
           \A plan \in Sold : Shown(plan) => Shown(plan)',
           now' \in Nat, members' \in Nat, faults' \in Nat,
           payments' \in [1..MaxOrders -> Payment \cup {None}],
           invoices' \subseteq Invoice, IsFiniteSet(invoices'),
           orders' \subseteq Order, IsFiniteSet(orders'), \A o \in orders' : o.id \in 1..MaxOrders,
           shown' \subseteq Sold, verified' \subseteq Nat, repeated' \subseteq Nat, spoiled' \subseteq Nat
    PROVE  IInv'
<1>1. Grows
  BY DEF Grows
<1>2. TypeOK'
  BY DEF IInv, TypeOK
<1>3. TablesOK'
  BY <1>1, LawfulStays DEF IInv, TablesOK, TypeOK
<1>4. ASSUME NEW q \in Procs PROVE Good(loc[q], pc[q])' /\ Safe(q, loc[q], pc[q])'
  <2>1. CASE q = p
    <3>1. loc'[q] = l /\ pc'[q] = label
      BY <2>1 DEF IInv, TypeOK
    <3>2. Good(l, label)'
      BY <1>1, GoodStays
    <3>3. Safe(p, l, label)'
      BY DEF Safe
    <3> QED BY <2>1, <3>1, <3>2, <3>3
  <2>2. CASE q # p
    <3>1. PICK m \in LocalRow, lab \in Labels : m = loc[q] /\ lab = pc[q]
      BY LocalFacts
    <3>2. loc'[q] = m /\ pc'[q] = lab
      BY <2>2, <3>1 DEF IInv, TypeOK
    <3>3. Good(m, lab) /\ Safe(q, m, lab)
      BY <3>1 DEF IInv
    <3>4. Good(m, lab)'
      BY <1>1, <3>3, GoodStays
    <3>5. q \in overtaken => q \in overtaken'
      BY <2>2
    <3>6. Safe(q, m, lab)'
      BY <3>3, <3>5 DEF Safe, InForce
    <3> QED BY <3>2, <3>4, <3>6
  <2> QED BY <2>1, <2>2
<1> QED BY <1>2, <1>3, <1>4 DEF IInv
\* A step that reads, and writes no table.
LEMMA ReadStep ==
    ASSUME IInv, NEW p \in Procs, NEW l \in LocalRow, NEW label \in Labels,
           pc' = [pc EXCEPT ![p] = label], loc' = [loc EXCEPT ![p] = l],
           Good(l, label) \/ Good(l, label)', Safe(p, l, label),
           overtaken' = overtaken \/ (label = "idle" /\ overtaken' = overtaken \ {p}),
           UNCHANGED <<now, tables, outside, granted, tried, kept, spoiled>>, faults' \in Nat,
           shown \subseteq shown', shown' \subseteq Sold,
           verified' \subseteq Nat, repeated' \subseteq Nat
    PROVE  IInv'
<1>1. \A plan \in Sold : Shown(plan) => Shown(plan)'
  BY DEF outside, Shown
<1>2. /\ now' \in Nat /\ members' \in Nat /\ payments' \in [1..MaxOrders -> Payment \cup {None}]
      /\ invoices' \subseteq Invoice /\ IsFiniteSet(invoices')
      /\ orders' \subseteq Order /\ IsFiniteSet(orders') /\ \A o \in orders' : o.id \in 1..MaxOrders
      /\ UNCHANGED sub /\ spoiled' \subseteq Nat
  BY DEF IInv, TypeOK, TablesOK, tables, outside
<1> QED BY <1>1, <1>2, QuietStep

\* A request, webhook or job begins.
LEMMA StartKeeps ==
    ASSUME IInv, NEW p \in Procs, Start(p)
    PROVE  IInv'
<1>1. PICK l \in LocalRow, label \in Labels :
         /\ pc' = [pc EXCEPT ![p] = label] /\ loc' = [loc EXCEPT ![p] = l]
         /\ (Good(l, label) \/ Good(l, label)') /\ Safe(p, l, label)
         /\ verified' \subseteq Nat /\ repeated' \subseteq Nat
         /\ shown \subseteq shown' /\ shown' \subseteq Sold
  <2>1. /\ Fresh \in LocalRow /\ sub \in Subscription /\ Lawful(sub) /\ Lawful(FreeRow)
        /\ verified \subseteq Nat /\ repeated \subseteq Nat /\ members \in Nat
        /\ payments \in [1..MaxOrders -> Payment \cup {None}] /\ Fresh.copy = FreeRow
        /\ shown \subseteq Sold
    BY FreshOK, LocalFacts DEF IInv, TypeOK
  <2>2. CASE StartTrial(p)
    <3>1. PICK plan, l :
             /\ plan \in Sold
             /\ l = [Fresh EXCEPT !.kind = "trial", !.plan = plan]
             /\ Begin(p, "trial", "trial", l)
      BY <2>2 DEF StartTrial
    <3>2. l \in LocalRow /\ l.copy = FreeRow /\ l.plan = plan
      BY <2>1, <3>1 DEF LocalRow, Kinds, Plans
    <3>3. ~InForce(sub) /\ UNCHANGED <<verified, shown, repeated>>
      BY <2>2 DEF StartTrial, InForce, history
    <3>4. Good(l, "trial") /\ Safe(p, l, "trial") /\ "trial" \in Labels
      BY <2>1, <3>1, <3>2, <3>3 DEF Good, Safe, HoldsOrder, Labels
    <3> QED BY <2>1, <3>1, <3>2, <3>3, <3>4 DEF Begin, Remember, Goto
  <2>3. CASE StartOrder(p)
    <3>1. PICK plan, l :
             /\ plan \in Sold
             /\ l = [Fresh EXCEPT !.kind = "order", !.plan = plan, !.seats = members]
             /\ Begin(p, "order", "razorpay", l)
      BY <2>3 DEF StartOrder
    <3>2. l \in LocalRow /\ l.copy = FreeRow /\ l.plan = plan /\ l.seats = members
      BY <2>1, <3>1 DEF LocalRow, Kinds, Plans
    <3>3. UNCHANGED <<verified, shown, repeated>>
      BY <2>3 DEF StartOrder, history
    <3>4. Good(l, "razorpay") /\ Safe(p, l, "razorpay") /\ "razorpay" \in Labels
      BY <2>1, <3>1, <3>2 DEF Good, Safe, HoldsOrder, Labels
    <3> QED BY <2>1, <3>1, <3>2, <3>3, <3>4 DEF Begin, Remember, Goto
  <2>4. CASE StartVerify(p)
    <3>1. PICK o, plan, l :
             /\ o \in orders /\ plan \in Plans
             /\ l = [Fresh EXCEPT !.kind = "verify", !.plan = plan, !.order = o.id]
             /\ Begin(p, "verify", "activate", l) /\ o.paid
             /\ verified' = verified \cup {o.id} /\ shown' = shown \cup ({plan} \cap Sold)
             /\ repeated' = IF o.id \in verified THEN repeated \cup {o.id} ELSE repeated
      BY <2>4 DEF StartVerify
    <3>2. /\ o.id \in Nat /\ o.id \in 1..MaxOrders
          /\ pc' = [pc EXCEPT ![p] = "activate"] /\ loc' = [loc EXCEPT ![p] = l]
      BY <3>1 DEF IInv, TypeOK, TablesOK, Order, Begin, Remember, Goto
    <3>3. /\ l \in LocalRow /\ l.copy = FreeRow /\ l.plan = plan /\ l.order = o.id
          /\ l.kind = "verify"
      BY <2>1, <3>1, <3>2 DEF LocalRow, Kinds
    <3>4. Lawful(l.copy)' /\ (l.plan = "free" \/ Shown(l.plan)')
      <4>1. orders' = orders
        BY <2>4 DEF StartVerify, outside
      <4>2. plan \in Sold => Shown(plan)'
        BY <3>1, <4>1 DEF Shown
      <4> QED BY <2>1, <3>1, <3>3, <4>2 DEF Plans, Lawful, FreeRow
    <3>5. Good(l, "activate")' /\ Safe(p, l, "activate") /\ "activate" \in Labels
      BY <3>2, <3>3, <3>4 DEF Good, Safe, HoldsOrder, Labels
    <3>6. /\ verified' \subseteq Nat /\ repeated' \subseteq Nat
          /\ shown \subseteq shown' /\ shown' \subseteq Sold
      BY <2>1, <3>1, <3>2
    <3> QED BY <3>2, <3>3, <3>5, <3>6
  <2>5. CASE StartCancel(p) \/ StartDowngrade(p) \/ StartJob(p) \/ StartSync(p) \/ StartEnded(p)
    <3>1. UNCHANGED <<verified, shown, repeated>>
      BY <2>5 DEF StartCancel, StartDowngrade, StartJob, StartSync, StartEnded, history
    <3>2. PICK l, label :
             /\ pc' = [pc EXCEPT ![p] = label] /\ loc' = [loc EXCEPT ![p] = l]
             /\ \/ l = [Fresh EXCEPT !.kind = "cancel", !.copy = sub] /\ label = "cancel"
                \/ l = [Fresh EXCEPT !.kind = "downgrade"] /\ label = "free"
                \/ l = [Fresh EXCEPT !.kind = "job"] /\ label = "free" /\ ~InForce(sub)
                \/ l = [Fresh EXCEPT !.kind = "sync", !.copy = sub] /\ label = "sync"
                \/ l = [Fresh EXCEPT !.kind = "webhook"] /\ label = "free"
      BY <2>5 DEF StartCancel, StartDowngrade, StartJob, StartSync, StartEnded, InForce, Begin,
                  Remember, Goto
    <3>3. /\ l \in LocalRow /\ l.copy \in {sub, FreeRow} /\ label \in {"cancel", "free", "sync"}
          /\ label = "cancel" => l.kind = "cancel"
          /\ label = "free" => l.kind \in {"downgrade", "webhook"} \/ (l.kind = "job" /\ ~InForce(sub))
          /\ label = "sync" => l.copy = sub
      BY <2>1, <3>2 DEF LocalRow, Kinds
    <3>4. Good(l, label) /\ Safe(p, l, label) /\ label \in Labels
      BY <2>1, <3>3 DEF Good, Safe, HoldsOrder, Labels, InForce
    <3> QED BY <2>1, <3>1, <3>2, <3>3, <3>4
  <2>6. CASE StartGrant(p)
    <3>1. PICK plan, l :
             /\ plan \in Plans
             /\ l = [Fresh EXCEPT !.kind = "admin", !.plan = plan]
             /\ Begin(p, "admin", "grant", l)
      BY <2>6 DEF StartGrant
    <3>2. l \in LocalRow /\ l.copy = FreeRow /\ l.kind = "admin"
      BY <2>1, <3>1 DEF LocalRow, Kinds
    <3>3. UNCHANGED <<verified, shown, repeated>>
      BY <2>6 DEF StartGrant, history
    <3>4. Good(l, "grant") /\ Safe(p, l, "grant") /\ "grant" \in Labels
      BY <2>1, <3>2 DEF Good, Safe, HoldsOrder, Labels
    <3> QED BY <2>1, <3>1, <3>2, <3>3, <3>4 DEF Begin, Remember, Goto
  <2>7. CASE StartWebhook(p)
    <3>1. PICK id, row, l, label :
             /\ id \in 1..MaxOrders
             /\ row = payments[id] /\ row # None
             /\ label \in {"captured", "failed"}
             /\ l = [Fresh EXCEPT !.kind = "webhook", !.order = id, !.row = row]
             /\ Begin(p, "webhook", label, l)
      BY <2>7 DEF StartWebhook
    <3>2. id \in Nat /\ row \in Payment
      BY <2>1, <3>1
    <3>3. l \in LocalRow /\ l.copy = FreeRow /\ l.order = id /\ l.row = row
      BY <2>1, <3>1, <3>2 DEF LocalRow, Kinds
    <3>4. UNCHANGED <<verified, shown, repeated>>
      BY <2>7 DEF StartWebhook, history
    <3>5. Good(l, label) /\ Safe(p, l, label) /\ label \in Labels
      BY <2>1, <3>1, <3>3 DEF Good, Safe, HoldsOrder, Labels
    <3> QED BY <2>1, <3>1, <3>3, <3>4, <3>5 DEF Begin, Remember, Goto
  <2> QED BY <2>2, <2>3, <2>4, <2>5, <2>6, <2>7 DEF Start
<1>2. /\ UNCHANGED <<now, tables, outside, granted, tried, kept, overtaken, spoiled, faults>>
  BY DEF Start, StartTrial, StartOrder, StartVerify, StartCancel, StartDowngrade, StartJob,
         StartGrant, StartSync, StartWebhook, StartEnded, history
<1>3. faults' \in Nat
  BY <1>2 DEF IInv, TypeOK
<1> QED BY <1>1, <1>2, <1>3, ReadStep
\* A handler reads the subscription, a payment or the members, or fails.
LEMMA ReadKeeps ==
    ASSUME IInv, NEW p \in Procs,
           Reload(p) \/ FindPayment(p) \/ CountSeats(p) \/ ReadForFree(p) \/ Fail(p)
    PROVE  IInv'
<1>0. /\ loc[p] \in LocalRow /\ Good(loc[p], pc[p]) /\ Safe(p, loc[p], pc[p])
      /\ sub \in Subscription /\ Lawful(sub) /\ members \in Nat
      /\ payments \in [1..MaxOrders -> Payment \cup {None}]
      /\ verified \subseteq Nat /\ repeated \subseteq Nat /\ faults \in Nat /\ shown \subseteq Sold
  BY LocalFacts DEF IInv, TypeOK
<1>1. PICK l \in LocalRow, label \in Labels :
         /\ pc' = [pc EXCEPT ![p] = label] /\ loc' = [loc EXCEPT ![p] = l]
         /\ Good(l, label) /\ Safe(p, l, label)
         /\ overtaken' = overtaken \/ (label = "idle" /\ overtaken' = overtaken \ {p})
         /\ faults' \in Nat
  <2>1. CASE Reload(p)
    <3>1. PICK l : l = [loc[p] EXCEPT !.copy = sub] /\ loc' = [loc EXCEPT ![p] = l]
      BY <2>1 DEF Reload, Remember
    <3>2. /\ l \in LocalRow /\ l.copy = sub /\ l.order = loc[p].order
      BY <1>0, <3>1 DEF LocalRow
    <3>3. /\ pc[p] = "reload" /\ pc' = [pc EXCEPT ![p] = "payment"]
          /\ UNCHANGED <<overtaken, faults>> /\ "payment" \in Labels
      BY <2>1 DEF Reload, Goto, history, Labels
    <3>4. Good(l, "payment") /\ Safe(p, l, "payment")
      BY <1>0, <3>2, <3>3 DEF Good, Safe, HoldsOrder
    <3> QED BY <1>0, <3>1, <3>2, <3>3, <3>4
  <2>2. CASE FindPayment(p)
    <3>1. loc[p].order \in 1..MaxOrders /\ pc[p] = "payment"
      BY <1>0, <2>2 DEF FindPayment, Good, HoldsOrder
    <3>2. PICK row \in Payment \cup {None} : row = payments[loc[p].order]
      BY <1>0, <3>1
    <3>3. PICK seats \in Nat \cup {None} : seats = IF row = None THEN None ELSE row.seats
      BY DEF Payment
    <3>4. PICK l : l = [loc[p] EXCEPT !.seats = seats] /\ loc' = [loc EXCEPT ![p] = l]
      BY <2>2, <3>2, <3>3 DEF FindPayment, Remember
    <3>5. l \in LocalRow /\ l.copy = loc[p].copy /\ l.order = loc[p].order
      BY <1>0, <3>4 DEF LocalRow
    <3>6. PICK label \in {"count", "settle"} : pc' = [pc EXCEPT ![p] = label]
      BY <2>2 DEF FindPayment, Goto
    <3>7. Good(l, label) /\ Safe(p, l, label) /\ label \in Labels
      BY <1>0, <3>1, <3>5 DEF Good, Safe, HoldsOrder, Labels
    <3>8. UNCHANGED <<overtaken, faults>>
      BY <2>2 DEF FindPayment, history
    <3> QED BY <1>0, <3>4, <3>5, <3>6, <3>7, <3>8
  <2>3. CASE CountSeats(p)
    <3>1. PICK l : l = [loc[p] EXCEPT !.seats = members] /\ loc' = [loc EXCEPT ![p] = l]
      BY <2>3 DEF CountSeats, Remember
    <3>2. l \in LocalRow /\ l.copy = loc[p].copy /\ l.order = loc[p].order /\ l.seats = members
      BY <1>0, <3>1 DEF LocalRow
    <3>3. /\ pc[p] = "count" /\ pc' = [pc EXCEPT ![p] = "seats"]
          /\ UNCHANGED <<overtaken, faults>> /\ "seats" \in Labels
      BY <2>3 DEF CountSeats, Goto, history, Labels
    <3>4. Good(l, "seats") /\ Safe(p, l, "seats")
      BY <1>0, <3>2, <3>3 DEF Good, Safe, HoldsOrder
    <3> QED BY <1>0, <3>1, <3>2, <3>3, <3>4
  <2>4. CASE ReadForFree(p)
    <3>1. PICK l : l = loc[p]
      OBVIOUS
    <3>2. loc' = [loc EXCEPT ![p] = l]
      BY <2>4, <3>1 DEF ReadForFree, IInv, TypeOK
    <3>3. /\ pc[p] = "free" /\ pc' = [pc EXCEPT ![p] = "saveFree"]
          /\ UNCHANGED <<overtaken, faults>> /\ "saveFree" \in Labels
      BY <2>4 DEF ReadForFree, Goto, history, Labels
    <3>4. Good(l, "saveFree") /\ Safe(p, l, "saveFree")
      BY <1>0, <3>1, <3>3 DEF Good, Safe, HoldsOrder
    <3> QED BY <1>0, <3>1, <3>2, <3>3, <3>4
  <2>5. CASE Fail(p)
    <3>1. /\ pc' = [pc EXCEPT ![p] = "idle"] /\ loc' = [loc EXCEPT ![p] = Fresh]
          /\ overtaken' = overtaken \ {p} /\ faults' \in Nat
      BY <1>0, <2>5 DEF Fail, Finish, Done, Goto, Remember
    <3>2. "idle" \in Labels /\ Safe(p, Fresh, "idle")
      BY DEF Labels, Safe
    <3> QED BY <3>1, <3>2, FreshOK
  <2> QED BY <2>1, <2>2, <2>3, <2>4, <2>5
<1>2. UNCHANGED <<now, tables, outside, granted, tried, kept, spoiled, verified, shown, repeated>>
  BY DEF Reload, FindPayment, CountSeats, ReadForFree, Fail, history
<1> QED BY <1>0, <1>1, <1>2, ReadStep

-----------------------------------------------------------------------------
(* Orders, payments and invoices *)

\* The rows of payments and invoices and the orders are no part of what
\* answers for a plan, except that a paid order stays paid.
LEMMA MoneyKeeps ==
    ASSUME IInv, NEW p \in Procs,
           \/ CreateOrder(p) \/ PendPayment(p) \/ Settle(p) \/ CreateInvoice(p)
           \/ SaveCaptured(p) \/ SaveFailed(p)
    PROVE  IInv'
<1>0. /\ loc[p] \in LocalRow /\ Good(loc[p], pc[p]) /\ Safe(p, loc[p], pc[p])
      /\ now \in Nat /\ members \in Nat /\ faults \in Nat
      /\ payments \in [1..MaxOrders -> Payment \cup {None}]
      /\ invoices \subseteq Invoice /\ IsFiniteSet(invoices)
      /\ orders \subseteq Order /\ IsFiniteSet(orders) /\ \A o \in orders : o.id \in 1..MaxOrders
      /\ verified \subseteq Nat /\ repeated \subseteq Nat /\ spoiled \subseteq Nat
      /\ shown \subseteq Sold
  BY LocalFacts DEF IInv, TypeOK, TablesOK
<1>1. /\ UNCHANGED <<now, sub, granted, tried, kept, members, verified, shown, repeated, faults>>
  BY DEF CreateOrder, PendPayment, Settle, CreateInvoice, SaveCaptured, SaveFailed, outside, tables,
         history
<1>2. Fresh \in LocalRow /\ "idle" \in Labels /\ Good(Fresh, "idle") /\ Safe(p, Fresh, "idle")
  BY FreshOK DEF Labels, Safe
<1>3. CASE CreateOrder(p)
  <2>1. UNCHANGED <<payments, invoices, spoiled>> /\ pc[p] = "razorpay"
    BY <1>3 DEF CreateOrder, tables
  <2>2. CASE Finish(p) /\ orders' = orders
    <3>1. /\ pc' = [pc EXCEPT ![p] = "idle"] /\ loc' = [loc EXCEPT ![p] = Fresh]
          /\ overtaken' = overtaken \ {p}
      BY <2>2 DEF Finish, Done, Goto, Remember
    <3>2. \A plan \in Sold : Shown(plan) => Shown(plan)'
      BY <1>1, <2>2 DEF Shown
    <3> QED BY <1>0, <1>1, <1>2, <2>1, <2>2, <3>1, <3>2, QuietStep
  <2>3. CASE \E o : /\ orders' = orders \cup {o}
                    /\ o = [id |-> Cardinality(orders) + 1, plan |-> loc[p].plan,
                            seats |-> loc[p].seats, paid |-> FALSE]
                    /\ Cardinality(orders) + 1 <= MaxOrders
                    /\ Remember(p, [loc[p] EXCEPT !.order = Cardinality(orders) + 1])
                    /\ Goto(p, "pend") /\ overtaken' = overtaken
    <3>1. PICK id : id = Cardinality(orders) + 1
      OBVIOUS
    <3>2. PICK o, l : /\ orders' = orders \cup {o} /\ id <= MaxOrders
                      /\ o = [id |-> id, plan |-> loc[p].plan, seats |-> loc[p].seats, paid |-> FALSE]
                      /\ l = [loc[p] EXCEPT !.order = id]
                      /\ loc' = [loc EXCEPT ![p] = l] /\ pc' = [pc EXCEPT ![p] = "pend"]
                      /\ overtaken' = overtaken
      BY <2>3, <3>1 DEF Remember, Goto
    <3>3. id \in Nat /\ id \in 1..MaxOrders
      BY <1>0, <3>1, <3>2, FS_CardinalityType, OrgBillingAssumption
    <3>4. loc[p].plan \in Sold /\ loc[p].seats \in Nat
      BY <1>0, <2>1 DEF Good
    <3>5. o \in Order /\ o.id = id
      BY <3>2, <3>3, <3>4 DEF Order
    <3>6. l \in LocalRow /\ l.copy = loc[p].copy /\ l.order = id /\ l.seats = loc[p].seats
      BY <1>0, <3>2, <3>3 DEF LocalRow
    <3>7. Good(l, "pend") /\ Safe(p, l, "pend") /\ "pend" \in Labels
      BY <1>0, <3>3, <3>4, <3>6 DEF Good, Safe, HoldsOrder, Labels
    <3>8. IsFiniteSet(orders')
      BY <1>0, <3>2, FS_AddElement
    <3>9. \A plan \in Sold : Shown(plan) => Shown(plan)'
      BY <1>1, <3>2 DEF Shown
    <3>10. orders' \subseteq Order /\ \A q \in orders' : q.id \in 1..MaxOrders
      BY <1>0, <3>2, <3>3, <3>5
    <3> QED BY <1>0, <1>1, <2>1, <3>2, <3>6, <3>7, <3>8, <3>9, <3>10, QuietStep
  <2> QED BY <1>3, <2>2, <2>3 DEF CreateOrder
<1>4. CASE PendPayment(p) \/ SaveCaptured(p) \/ SaveFailed(p)
  <2>1. /\ pc' = [pc EXCEPT ![p] = "idle"] /\ loc' = [loc EXCEPT ![p] = Fresh]
        /\ overtaken' = overtaken \ {p} /\ UNCHANGED <<orders, invoices>>
    BY <1>4 DEF PendPayment, SaveCaptured, SaveFailed, Finish, Done, Goto, Remember, outside
  <2>2. PICK row \in Payment : payments' = [payments EXCEPT ![loc[p].order] = row]
    <3>1. CASE PendPayment(p)
      <4>1. [status |-> "PENDING", seats |-> loc[p].seats] \in Payment
        BY <1>0, <3>1 DEF PendPayment, Good, Payment
      <4> QED BY <3>1, <4>1 DEF PendPayment
    <3>2. CASE SaveCaptured(p)
      <4>1. loc[p].row \in Payment
        BY <1>0, <3>2 DEF SaveCaptured, Good, LocalRow
      <4>2. [loc[p].row EXCEPT !.status = "SUCCESS"] \in Payment
        BY <4>1 DEF Payment
      <4> QED BY <3>2, <4>2 DEF SaveCaptured
    <3>3. CASE SaveFailed(p)
      <4>1. [status |-> "FAILED", seats |-> None] \in Payment
        BY DEF Payment
      <4> QED BY <3>3, <4>1 DEF SaveFailed
    <3> QED BY <1>4, <3>1, <3>2, <3>3
  <2>3. payments' \in [1..MaxOrders -> Payment \cup {None}]
    BY <1>0, <2>2
  <2>4. spoiled' \subseteq Nat
    <3>1. spoiled' = spoiled \/ (pc[p] = "failed" /\ spoiled' = spoiled \cup {loc[p].order})
      BY <1>4 DEF PendPayment, SaveCaptured, SaveFailed
    <3>2. pc[p] = "failed" => loc[p].order \in Nat
      BY <1>0 DEF Good, HoldsOrder
    <3> QED BY <1>0, <3>1, <3>2
  <2>5. \A plan \in Sold : Shown(plan) => Shown(plan)'
    BY <1>1, <2>1 DEF Shown
  <2> QED BY <1>0, <1>1, <1>2, <2>1, <2>3, <2>4, <2>5, QuietStep
<1>5. CASE Settle(p)
  <2>1. PICK label \in {"count", "seats"} :
           /\ pc' = [pc EXCEPT ![p] = label] /\ (label = "seats" => loc[p].seats # None)
    BY <1>5 DEF Settle, Goto
  <2>2. /\ pc[p] = "settle" /\ UNCHANGED <<invoices, orders, overtaken, spoiled>>
        /\ payments' = [payments EXCEPT ![loc[p].order] = [status |-> "SUCCESS", seats |-> None]]
    BY <1>5 DEF Settle, outside, history
  <2>3. loc' = [loc EXCEPT ![p] = loc[p]]
    BY <1>5 DEF Settle, IInv, TypeOK
  <2>4. [status |-> "SUCCESS", seats |-> None] \in Payment
    BY DEF Payment
  <2>5. payments' \in [1..MaxOrders -> Payment \cup {None}]
    BY <1>0, <2>2, <2>4
  <2>6. /\ loc[p].order \in 1..MaxOrders /\ Lawful(loc[p].copy)
        /\ label = "seats" => loc[p].seats \in Nat
    BY <1>0, <2>1, <2>2 DEF Good, HoldsOrder, LocalRow
  <2>7. Good(loc[p], label)
    BY <2>1, <2>6 DEF Good, HoldsOrder
  <2>8. Safe(p, loc[p], label) /\ label \in Labels
    BY <1>0, <2>1, <2>2 DEF Safe, Labels
  <2>9. \A plan \in Sold : Shown(plan) => Shown(plan)'
    BY <1>1, <2>2 DEF Shown
  <2> QED BY <1>0, <1>1, <2>1, <2>2, <2>3, <2>5, <2>7, <2>8, <2>9, QuietStep
<1>6. CASE CreateInvoice(p)
  <2>1. /\ pc' = [pc EXCEPT ![p] = "idle"] /\ loc' = [loc EXCEPT ![p] = Fresh]
        /\ overtaken' = overtaken \ {p} /\ UNCHANGED <<orders, payments, spoiled>>
        /\ pc[p] = "invoice"
    BY <1>6 DEF CreateInvoice, Finish, Done, Goto, Remember, outside
  <2>2. PICK i : /\ i = [id |-> Cardinality(invoices), order |-> loc[p].order, seats |-> loc[p].seats]
                 /\ invoices' = invoices \cup {i}
    BY <1>6 DEF CreateInvoice
  <2>3. Cardinality(invoices) \in Nat /\ IsFiniteSet(invoices')
    <3>1. Cardinality(invoices) \in Nat
      BY <1>0, FS_CardinalityType
    <3>2. IsFiniteSet(invoices \cup {i})
      BY <1>0, FS_AddElement
    <3> QED BY <2>2, <3>1, <3>2
  <2>4. loc[p].order \in Nat /\ loc[p].seats \in Nat
    BY <1>0, <2>1 DEF Good, HoldsOrder
  <2>5. invoices' \subseteq Invoice
    BY <1>0, <2>2, <2>3, <2>4 DEF Invoice
  <2>6. \A plan \in Sold : Shown(plan) => Shown(plan)'
    BY <1>1, <2>1 DEF Shown
  <2> QED BY <1>0, <1>1, <1>2, <2>1, <2>3, <2>5, <2>6, QuietStep
<1> QED BY <1>3, <1>4, <1>5, <1>6
-----------------------------------------------------------------------------
(* The saves of the subscription *)

\* A save of a lawful row: where it brings a plan into force, every handler
\* in progress becomes one of the overtaken.
LEMMA SaveStep ==
    ASSUME IInv, NEW p \in Procs, NEW l \in LocalRow, NEW label \in {"idle", "reload", "invoice", "free"},
           NEW row \in Subscription, Save(p, row), Grows, Lawful(row)', Good(l, label),
           pc' = [pc EXCEPT ![p] = label], loc' = [loc EXCEPT ![p] = l],
           label = "free" => l.kind # "job",
           UNCHANGED <<now, payments, invoices, outside, verified, shown, repeated, spoiled, faults>>,
           granted' \subseteq Sold, tried' \subseteq Sold, kept' \subseteq Plans
    PROVE  IInv'
<1>1. sub' = row /\ overtaken' = IF InForce(row) THEN {q \in Procs \ {p} : pc[q] # "idle"} ELSE {}
  BY DEF Save
<1>2. /\ pc' \in [Procs -> Labels] /\ loc' \in [Procs -> LocalRow] /\ overtaken' \subseteq Procs
  BY <1>1 DEF IInv, TypeOK, Labels
<1>3. TypeOK'
  BY <1>1, <1>2 DEF IInv, TypeOK, outside
<1>4. TablesOK'
  BY <1>1 DEF IInv, TablesOK, outside
<1>5. ASSUME NEW q \in Procs PROVE Good(loc[q], pc[q])' /\ Safe(q, loc[q], pc[q])'
  <2>1. CASE q = p
    <3>1. loc'[q] = l /\ pc'[q] = label
      BY <2>1 DEF IInv, TypeOK
    <3>2. Good(l, label)'
      BY GoodStays
    <3>3. Safe(p, l, label)'
      BY DEF Safe
    <3> QED BY <2>1, <3>1, <3>2, <3>3
  <2>2. CASE q # p
    <3>1. PICK m \in LocalRow, lab \in Labels : m = loc[q] /\ lab = pc[q]
      BY LocalFacts
    <3>2. loc'[q] = m /\ pc'[q] = lab
      BY <2>2, <3>1 DEF IInv, TypeOK
    <3>3. Good(m, lab)'
      BY <3>1, GoodStays DEF IInv
    <3>4. InForce(row) /\ lab # "idle" => q \in overtaken'
      BY <1>1, <2>2, <3>1
    <3>5. Safe(q, m, lab)'
      BY <1>1, <3>4 DEF Safe, InForce
    <3> QED BY <3>2, <3>3, <3>5
  <2> QED BY <2>1, <2>2
<1> QED BY <1>3, <1>4, <1>5 DEF IInv

\* A copy that is remembered no more.
LEMMA Forgotten ==
    ASSUME NEW l \in LocalRow
    PROVE  /\ [l EXCEPT !.copy = FreeRow, !.plan = "free"] \in LocalRow
           /\ [l EXCEPT !.copy = FreeRow, !.plan = "free"].copy = FreeRow
           /\ [l EXCEPT !.copy = FreeRow, !.plan = "free"].order = l.order
           /\ [l EXCEPT !.copy = FreeRow, !.plan = "free"].seats = l.seats
           /\ [l EXCEPT !.copy = FreeRow, !.plan = "free"].kind = l.kind
BY FreshOK DEF LocalRow, Plans

\* What every save of a handler knows.
LEMMA SaveFacts ==
    ASSUME IInv, NEW p \in Procs
    PROVE  /\ loc[p] \in LocalRow /\ Good(loc[p], pc[p]) /\ loc[p].copy \in Subscription
           /\ Lawful(loc[p].copy) /\ loc[p].plan \in Plans /\ now \in Nat
           /\ granted \subseteq Sold /\ tried \subseteq Sold /\ kept \subseteq Plans
           /\ UNCHANGED <<orders, shown>> => \A plan \in Sold : Shown(plan) => Shown(plan)'
BY LocalFacts DEF IInv, TypeOK, Good, LocalRow, Shown

\* The requests and the job that end after their save.
LEMMA LastSaveKeeps ==
    ASSUME IInv, NEW p \in Procs, SaveTrial(p) \/ SaveFree(p) \/ SaveGrant(p) \/ SaveSync(p)
    PROVE  IInv'
<1>1. PICK c, plan : c = loc[p].copy /\ plan = loc[p].plan
  OBVIOUS
<1>2. /\ c \in Subscription /\ Lawful(c) /\ plan \in Plans /\ now \in Nat
      /\ granted \subseteq Sold /\ tried \subseteq Sold /\ kept \subseteq Plans
  BY <1>1, SaveFacts
<1>3. /\ pc' = [pc EXCEPT ![p] = "idle"] /\ loc' = [loc EXCEPT ![p] = Fresh]
      /\ UNCHANGED <<now, payments, invoices, outside, verified, shown, repeated, spoiled, faults>>
  BY DEF SaveTrial, SaveFree, SaveGrant, SaveSync, Done, Goto, Remember
<1>4. \A x \in Sold : Shown(x) => Shown(x)'
  BY <1>3, SaveFacts DEF outside
<1>5. PICK row \in Subscription : /\ Save(p, row) /\ Grows /\ Lawful(row)'
                                 /\ granted' \subseteq Sold /\ tried' \subseteq Sold /\ kept' \subseteq Plans
  <2>1. CASE SaveTrial(p)
    <3>1. pc[p] = "trial" /\ plan \in Sold
      BY <1>1, <2>1, SaveFacts DEF SaveTrial, Good
    <3>2. PICK ends : ends = now + TrialDays
      OBVIOUS
    <3>3. ends \in Nat
      BY <1>2, <3>2, OrgBillingAssumption
    <3>4. PICK row : /\ row = [plan |-> plan, status |-> "TRIAL", trialEnds |-> ends]
                     /\ Save(p, row)
      BY <1>1, <2>1, <3>2 DEF SaveTrial
    <3>5. row \in Subscription /\ row.plan = plan /\ row.status = "TRIAL"
      BY <1>2, <3>3, <3>4 DEF Subscription
    <3>6. tried' = tried \cup {plan} /\ UNCHANGED <<granted, kept>>
      BY <1>1, <2>1 DEF SaveTrial
    <3>7. Grows /\ Lawful(row)'
      BY <1>4, <3>5, <3>6 DEF Grows, Lawful, OnTrial
    <3> QED BY <1>2, <3>1, <3>4, <3>5, <3>6, <3>7
  <2>2. CASE SaveFree(p)
    <3>1. PICK row : row = FreeRow /\ Save(p, row)
      BY <1>1, <2>2 DEF SaveFree
    <3>2. row \in Subscription /\ row.plan = "free"
      BY <3>1, FreshOK
    <3>3. UNCHANGED <<granted, tried, kept>>
      BY <2>2 DEF SaveFree
    <3>4. Grows /\ Lawful(row)'
      BY <1>4, <3>2, <3>3 DEF Grows, Lawful
    <3> QED BY <1>2, <3>1, <3>2, <3>3, <3>4
  <2>3. CASE SaveGrant(p)
    <3>1. PICK row : /\ row = [plan |-> plan, status |-> "ACTIVE", trialEnds |-> None]
                     /\ Save(p, row)
      BY <1>1, <2>3 DEF SaveGrant
    <3>2. row \in Subscription /\ row.plan = plan
      BY <1>2, <3>1 DEF Subscription
    <3>3. granted' = granted \cup ({plan} \cap Sold) /\ UNCHANGED <<tried, kept>>
      BY <1>1, <2>3 DEF SaveGrant
    <3>4. plan = "free" \/ plan \in granted'
      BY <1>2, <3>3 DEF Plans
    <3>5. Grows /\ Lawful(row)'
      BY <1>4, <3>2, <3>3, <3>4 DEF Grows, Lawful
    <3> QED BY <1>2, <3>1, <3>2, <3>3, <3>5
  <2>4. CASE SaveSync(p)
    <3>1. PICK row : /\ row = [c EXCEPT !.status = "ACTIVE", !.trialEnds = None]
                     /\ Save(p, row)
      BY <1>1, <2>4 DEF SaveSync
    <3>2. row \in Subscription /\ row.plan = c.plan
      BY <1>2, <3>1 DEF Subscription
    <3>3. /\ kept' = IF OnTrial(c) THEN kept \cup {c.plan} ELSE kept
          /\ UNCHANGED <<granted, tried>>
      BY <1>1, <2>4 DEF SaveSync, Keep
    <3>4. Grows
      BY <1>4, <3>3 DEF Grows
    <3>5. Lawful(c)' /\ (OnTrial(c) => c.plan \in kept') /\ c.plan \in Plans
      BY <1>2, <3>3, <3>4, LawfulStays DEF Subscription
    <3>6. Lawful(row)'
      BY <3>2, <3>5 DEF Lawful
    <3> QED BY <1>2, <3>1, <3>2, <3>3, <3>4, <3>5, <3>6
  <2> QED BY <2>1, <2>2, <2>3, <2>4
<1> QED BY <1>3, <1>5, FreshOK, SaveStep

\* The activation of the plan of a verification, the second save that follows it, and the
\* first of the two saves of a cancellation.
LEMMA MiddleSaveKeeps ==
    ASSUME IInv, NEW p \in Procs, Activate(p) \/ SaveSeats(p) \/ SaveCancelled(p)
    PROVE  IInv'
<1>1. PICK c, plan : c = loc[p].copy /\ plan = loc[p].plan
  OBVIOUS
<1>2. /\ c \in Subscription /\ Lawful(c) /\ plan \in Plans /\ loc[p] \in LocalRow
      /\ granted \subseteq Sold /\ tried \subseteq Sold /\ kept \subseteq Plans
  BY <1>1, SaveFacts
<1>3. /\ UNCHANGED <<now, payments, invoices, outside, verified, shown, repeated, spoiled, faults,
                     granted, tried>>
  BY DEF Activate, SaveSeats, SaveCancelled
<1>4. \A x \in Sold : Shown(x) => Shown(x)'
  BY <1>3, SaveFacts DEF outside
<1>5. PICK l : /\ l = [loc[p] EXCEPT !.copy = FreeRow, !.plan = "free"] /\ loc' = [loc EXCEPT ![p] = l]
  BY DEF Activate, SaveSeats, SaveCancelled, Forget, Remember
<1>6. /\ l \in LocalRow /\ l.copy = FreeRow /\ l.order = loc[p].order /\ l.seats = loc[p].seats
      /\ l.kind = loc[p].kind /\ Lawful(l.copy)
  BY <1>2, <1>5, Forgotten, FreshOK
<1>7. CASE Activate(p)
  <2>1. /\ pc[p] = "activate" /\ pc' = [pc EXCEPT ![p] = "reload"] /\ UNCHANGED kept
    BY <1>7 DEF Activate, Goto
  <2>2. (plan = "free" \/ Shown(plan)) /\ l.order \in 1..MaxOrders
    BY <1>1, <1>6, <2>1, SaveFacts DEF Good, HoldsOrder
  <2>3. PICK row : /\ row = [plan |-> plan, status |-> "ACTIVE", trialEnds |-> None]
                   /\ Save(p, row)
    BY <1>1, <1>7 DEF Activate
  <2>4. row \in Subscription /\ row.plan = plan
    BY <1>2, <2>3 DEF Subscription
  <2>5. Grows
    BY <1>3, <1>4, <2>1 DEF Grows
  <2>6. Lawful(row)'
    BY <1>2, <1>4, <2>2, <2>4 DEF Lawful, Plans
  <2>7. Good(l, "reload")
    BY <1>6, <2>2 DEF Good, HoldsOrder
  <2> QED BY <1>2, <1>3, <1>5, <1>6, <2>1, <2>3, <2>4, <2>5, <2>6, <2>7, SaveStep
<1>8. CASE SaveSeats(p)
  <2>1. /\ pc[p] = "seats" /\ pc' = [pc EXCEPT ![p] = "invoice"] /\ UNCHANGED kept
        /\ Save(p, c)
    BY <1>1, <1>8 DEF SaveSeats, Goto
  <2>2. l.order \in 1..MaxOrders /\ l.seats \in Nat
    BY <1>6, <2>1, SaveFacts DEF Good, HoldsOrder
  <2>3. Grows
    BY <1>3, <1>4, <2>1 DEF Grows
  <2>4. Lawful(c)'
    BY <1>2, <2>3, LawfulStays
  <2>5. Good(l, "invoice")
    BY <1>6, <2>2 DEF Good, HoldsOrder
  <2> QED BY <1>2, <1>3, <1>5, <1>6, <2>1, <2>3, <2>4, <2>5, SaveStep
<1>9. CASE SaveCancelled(p)
  <2>1. /\ pc[p] = "cancel" /\ pc' = [pc EXCEPT ![p] = "free"]
        /\ kept' = IF OnTrial(c) THEN kept \cup {c.plan} ELSE kept
    BY <1>1, <1>9 DEF SaveCancelled, Goto, Keep
  <2>2. PICK row : row = [c EXCEPT !.status = "CANCELLED"] /\ Save(p, row)
    BY <1>1, <1>9 DEF SaveCancelled
  <2>3. row \in Subscription /\ row.plan = c.plan
    BY <1>2, <2>2 DEF Subscription
  <2>4. Grows
    BY <1>3, <1>4, <2>1 DEF Grows
  <2>5. Lawful(c)' /\ (OnTrial(c) => c.plan \in kept') /\ c.plan \in Plans
    BY <1>2, <2>1, <2>4, LawfulStays DEF Subscription
  <2>6. Lawful(row)'
    BY <2>3, <2>5 DEF Lawful
  <2>7. l.kind = "cancel"
    BY <1>6, <2>1, SaveFacts DEF Good
  <2>8. Good(l, "free")
    BY <1>6, <2>7 DEF Good, HoldsOrder
  <2>9. kept' \subseteq Plans
    BY <1>2, <2>1, <2>5
  <2> QED BY <1>2, <1>3, <1>5, <1>6, <2>1, <2>2, <2>3, <2>4, <2>6, <2>7, <2>8, <2>9, SaveStep
<1> QED BY <1>7, <1>8, <1>9

-----------------------------------------------------------------------------
(* Razorpay, the members and time *)

LEMMA BystanderKeeps ==
    ASSUME IInv, PayOrder \/ JoinOrLeave \/ NextDay \/ UNCHANGED vars
    PROVE  IInv'
<1>1. UNCHANGED <<tables, pc, loc, history, faults>>
  BY DEF PayOrder, JoinOrLeave, NextDay, vars, tables
<1>2. /\ orders' \subseteq Order /\ IsFiniteSet(orders')
      /\ \A o \in orders' : o.id \in 1..MaxOrders
      /\ \A plan \in Sold : Shown(plan) => Shown(plan)'
  <2>0. /\ orders \subseteq Order /\ IsFiniteSet(orders) /\ shown' = shown
        /\ \A o \in orders : o.id \in 1..MaxOrders
    BY <1>1 DEF IInv, TypeOK, TablesOK, history
  <2>1. CASE PayOrder
    <3>1. PICK o, q :
             /\ o \in orders /\ ~o.paid
             /\ q = [o EXCEPT !.paid = TRUE]
             /\ orders' = (orders \ {o}) \cup {q}
      BY <2>1 DEF PayOrder
    <3>2. q \in Order /\ q.id = o.id /\ q.paid /\ o.id \in 1..MaxOrders
      BY <2>0, <3>1 DEF Order
    <3>3. IsFiniteSet(orders')
      <4>1. IsFiniteSet(orders \ {o})
        BY <2>0, FS_Subset
      <4> QED BY <3>1, <4>1, FS_AddElement
    <3>4. \A plan \in Sold : Shown(plan) => Shown(plan)'
      BY <2>0, <3>1, <3>2 DEF Shown
    <3> QED BY <2>0, <3>1, <3>2, <3>3, <3>4
  <2>2. CASE JoinOrLeave \/ NextDay \/ UNCHANGED vars
    <3>1. orders' = orders
      BY <2>2 DEF JoinOrLeave, NextDay, vars, outside
    <3>2. \A plan \in Sold : Shown(plan) => Shown(plan)'
      BY <2>0, <3>1 DEF Shown
    <3>3. IsFiniteSet(orders')
      BY <2>0, <3>1
    <3>4. orders' \subseteq Order /\ \A o \in orders' : o.id \in 1..MaxOrders
      BY <2>0, <3>1
    <3> QED BY <3>2, <3>3, <3>4
  <2> QED BY <2>1, <2>2
<1>3. now' \in Nat /\ members' \in Nat
  BY OrgBillingAssumption DEF PayOrder, JoinOrLeave, NextDay, vars, outside, IInv, TypeOK
<1>4. TypeOK'
  BY <1>1, <1>2, <1>3 DEF IInv, TypeOK, tables, history
<1>5. Grows
  BY <1>1, <1>2 DEF Grows, history
<1>6. TablesOK'
  BY <1>1, <1>2, <1>5, LawfulStays DEF IInv, TypeOK, TablesOK, tables
<1>7. ASSUME NEW q \in Procs PROVE Good(loc[q], pc[q])' /\ Safe(q, loc[q], pc[q])'
  <2>1. PICK m \in LocalRow, lab \in Labels : m = loc[q] /\ lab = pc[q]
    BY LocalFacts
  <2>2. loc'[q] = m /\ pc'[q] = lab /\ Good(m, lab) /\ Safe(q, m, lab)
    BY <1>1, <2>1 DEF IInv
  <2>3. Good(m, lab)'
    BY <1>5, <2>2, GoodStays
  <2>4. Safe(q, m, lab)'
    BY <1>1, <2>2 DEF Safe, InForce, tables, history
  <2> QED BY <2>2, <2>3, <2>4
<1> QED BY <1>4, <1>6, <1>7 DEF IInv

-----------------------------------------------------------------------------
(* The theorems *)

\* A workspace begins on the free plan with nothing in progress.
THEOREM InitIInv == Init => IInv
<1> SUFFICES ASSUME Init PROVE IInv
  OBVIOUS
<1>1. /\ sub = FreeRow /\ pc = [p \in Procs |-> "idle"] /\ loc = [p \in Procs |-> Fresh]
      /\ orders = {} /\ invoices = {} /\ "idle" \in Labels
  BY DEF Init, Labels
<1>2. TypeOK
  BY <1>1, FreshOK DEF Init, TypeOK
<1>3. TablesOK
  BY <1>1, FreshOK, FS_EmptySet DEF TablesOK
<1>4. \A p \in Procs : Good(loc[p], pc[p]) /\ Safe(p, loc[p], pc[p])
  BY <1>1, FreshOK DEF Safe
<1> QED BY <1>2, <1>3, <1>4 DEF IInv

\* Every step of every request, webhook and job keeps the invariant.
THEOREM StepIInv == IInv /\ [Next]_vars => IInv'
<1> SUFFICES ASSUME IInv, [Next]_vars PROVE IInv'
  OBVIOUS
<1>1. ASSUME NEW p \in Procs, Start(p) PROVE IInv'
  BY <1>1, StartKeeps
<1>2. ASSUME NEW p \in Procs, Continue(p) PROVE IInv'
  BY <1>2, LastSaveKeeps, MiddleSaveKeeps, MoneyKeeps, ReadKeeps DEF Continue
<1>3. ASSUME NEW p \in Procs, Fail(p) PROVE IInv'
  BY <1>3, ReadKeeps
<1>4. CASE PayOrder \/ JoinOrLeave \/ NextDay \/ UNCHANGED vars
  BY <1>4, BystanderKeeps
<1> QED BY <1>1, <1>2, <1>3, <1>4 DEF Next

THEOREM Invariance == Spec => []IInv
<1> QED BY InitIInv, StepIInv, PTL DEF Spec

\* The tables keep their columns and the handlers their awaits.
THEOREM BillingTypeCorrect == Spec => []TypeOK
<1>1. IInv => TypeOK
  BY DEF IInv
<1> QED BY <1>1, Invariance, PTL

\* However stale the rows that are written back, the plan whose limits apply was
\* named by a verification with a paid order, assigned, or is on a running trial.
THEOREM PlansAreAnsweredFor == Spec => []PlanHasReason
<1>1. IInv => PlanHasReason
  BY DEF IInv, TablesOK, Lawful, OnTrial, PlanHasReason, Effective
<1> QED BY <1>1, Invariance, PTL

\* The step that takes a plan in force away is one of a handler that was asked for
\* it, or of one the plan overtook.
LEMMA StepKeepsPlan ==
    ASSUME IInv, [Next]_vars, InForce(sub), ~InForce(sub')
    PROVE  \E p \in Procs : pc'[p] # pc[p] /\ (AsksForFree(loc[p], pc[p]) \/ p \in overtaken)
<1>0. sub' # sub
  OBVIOUS
<1>1. PICK p \in Procs :
         \/ SaveTrial(p) \/ SaveFree(p) \/ SaveGrant(p) \/ SaveSync(p)
         \/ Activate(p) \/ SaveSeats(p) \/ SaveCancelled(p)
  BY <1>0
  DEF Next, Start, Continue, StartTrial, StartOrder, StartVerify, StartCancel, StartDowngrade, StartJob,
      StartGrant, StartSync, StartWebhook, StartEnded, CreateOrder, PendPayment, Reload, FindPayment, Settle,
      CountSeats, CreateInvoice, ReadForFree, SaveCaptured, SaveFailed, Fail, PayOrder,
      JoinOrLeave, NextDay, vars, tables
<1>2. Good(loc[p], pc[p]) /\ Safe(p, loc[p], pc[p]) /\ loc[p].copy \in Subscription
  BY LocalFacts, SaveFacts
<1>3. pc[p] # "idle" /\ \E label \in {"idle", "reload", "invoice", "free"} :
                            pc' = [pc EXCEPT ![p] = label] /\ label # pc[p]
  BY <1>1 DEF SaveTrial, SaveFree, SaveGrant, SaveSync, Activate, SaveSeats, SaveCancelled, Done, Goto
<1>4. pc'[p] # pc[p]
  BY <1>3 DEF IInv, TypeOK
<1>5. AsksForFree(loc[p], pc[p]) \/ p \in overtaken
  <2>1. CASE SaveTrial(p)
    BY <1>2, <2>1 DEF SaveTrial, Safe
  <2>2. CASE SaveFree(p)
    BY <1>2, <2>2 DEF SaveFree, Safe, Good, AsksForFree
  <2>3. CASE SaveGrant(p)
    BY <1>2, <2>3 DEF SaveGrant, Good, AsksForFree
  <2>4. CASE SaveCancelled(p)
    BY <1>2, <2>4 DEF SaveCancelled, Good, AsksForFree
  <2>5. CASE SaveSeats(p)
    <3>1. pc[p] = "seats" /\ sub' = loc[p].copy
      BY <2>5 DEF SaveSeats, Save
    <3> QED BY <1>2, <3>1 DEF Safe
  <2>6. CASE SaveSync(p)
    <3>1. pc[p] = "sync" /\ sub' = [loc[p].copy EXCEPT !.status = "ACTIVE", !.trialEnds = None]
      BY <2>6 DEF SaveSync, Save
    <3>2. sub'.status = "ACTIVE" /\ sub'.plan = loc[p].copy.plan
      BY <1>2, <3>1 DEF Subscription
    <3>3. sub'.plan = "free"
      BY <3>2 DEF InForce
    <3> QED BY <1>2, <3>1, <3>2, <3>3 DEF Safe
  <2>7. CASE Activate(p)
    <3>1. /\ pc[p] = "activate"
          /\ sub' = [plan |-> loc[p].plan, status |-> "ACTIVE", trialEnds |-> None]
      BY <2>7 DEF Activate, Save
    <3>2. sub'.status = "ACTIVE" /\ sub'.plan = loc[p].plan
      BY <1>2, <3>1 DEF Subscription
    <3>3. loc[p].plan = "free"
      BY <3>2 DEF InForce
    <3> QED BY <3>1, <3>3 DEF AsksForFree
  <2> QED BY <1>1, <2>1, <2>2, <2>3, <2>4, <2>5, <2>6, <2>7
<1> QED BY <1>4, <1>5

\* A plan in force is not lost to a request or a job that begins after it.
THEOREM PlansStayInForce == Spec => PlanStaysInForce
<1>1. IInv /\ [Next]_vars =>
        [InForce(sub) /\ ~InForce(sub') =>
            \E p \in Procs : pc'[p] # pc[p] /\ (AsksForFree(loc[p], pc[p]) \/ p \in overtaken)]_vars
  BY StepKeepsPlan
<1> QED BY <1>1, Invariance, PTL DEF Spec, PlanStaysInForce

-----------------------------------------------------------------------------
(* Orders, payments and invoices *)

\* Whatever a step does to the payments, the verifications that have begun find
\* theirs as they left it, or the order is one of the excepted.
Onward ==
    /\ orders' = orders
    /\ verified \subseteq verified' /\ repeated \subseteq repeated' /\ spoiled \subseteq spoiled'
    /\ \A o \in orders : payments[o.id] # None => payments'[o.id] # None
    /\ \A o \in orders :
          o.id \in verified =>
              \/ o.id \in Excepted'
              \/ /\ payments[o.id] = None => payments'[o.id] = None
                 /\ payments[o.id].status = "SUCCESS" => payments'[o.id].status = "SUCCESS"

LEMMA ChargedStays ==
    ASSUME Onward, NEW o \in orders, o.id \in verified, NEW seats, Charged(o, seats)
    PROVE  Charged(o, seats)'
BY DEF Onward, Charged, Excepted

LEMMA HandlerStays ==
    ASSUME Onward, NEW o \in orders, NEW l, NEW label, HandlerOK(l, label, o)
    PROVE  HandlerOK(l, label, o)'
<1>1. Excepted \subseteq Excepted'
  BY DEF Onward, Excepted
<1>2. label \in {"seats", "invoice"} => Charged(o, l.seats)'
  BY ChargedStays DEF HandlerOK, Verifying
<1>3. label = "count" => o.id \in verified
  BY DEF HandlerOK, Verifying
<1>4. label = "count" => o.id \in Excepted' \/ payments'[o.id] = None
  BY <1>1, <1>3 DEF Onward, HandlerOK
<1> QED BY <1>1, <1>2, <1>4 DEF Onward, HandlerOK

LEMMA OrderFacts ==
    ASSUME IInv
    PROVE  /\ orders \subseteq Order /\ \A o \in orders : o.id \in 1..MaxOrders /\ o.id \in Nat /\ o.id # None
           /\ IsFiniteSet(orders)
           /\ payments \in [1..MaxOrders -> Payment \cup {None}]
           /\ DOMAIN pc = Procs /\ DOMAIN loc = Procs
BY OrgBillingAssumption DEF IInv, TypeOK, TablesOK, Order

\* The rows that follow an order stay right when one handler moves.
LEMMA BillsStep ==
    ASSUME IInv, BillsOK, Onward, NEW p \in Procs, NEW l, NEW label,
           pc' = [pc EXCEPT ![p] = label], loc' = [loc EXCEPT ![p] = l],
           l.order # None => Known(l.order),
           \A o \in orders : l.order = o.id => HandlerOK(l, label, o)',
           \A q \in Procs \ {p} :
               label \in Verifying /\ pc[q] \in Verifying /\ l.order = loc[q].order
                   => l.order \in repeated',
           \A id \in 1..MaxOrders : payments'[id] # None => Known(id),
           \A id \in verified' : \E o \in orders : o.id = id /\ o.paid,
           \A o \in orders : PaymentOK(o)',
           InvoicesOK'
    PROVE  BillsOK'
<1>1. OrdersOK'
  <2>1. orders' = orders
    BY DEF Onward
  <2>2. \A id : Known(id)' = Known(id)
    BY <2>1 DEF Known
  <2> QED BY <2>1, <2>2 DEF BillsOK, OrdersOK
<1>2. ASSUME NEW q \in Procs, q # p PROVE pc'[q] = pc[q] /\ loc'[q] = loc[q]
  BY <1>2, OrderFacts
<1>3. pc'[p] = label /\ loc'[p] = l
  BY OrderFacts
<1>4. ASSUME NEW q \in Procs PROVE (loc[q].order # None => Known(loc[q].order))'
  <2>1. loc'[q].order # None => Known(loc'[q].order)
    BY <1>2, <1>3 DEF BillsOK
  <2> QED BY <2>1 DEF Known, Onward
<1>5. ASSUME NEW q \in Procs, NEW o \in orders', loc'[q].order = o.id
      PROVE  HandlerOK(loc[q], pc[q], o)'
  <2>1. o \in orders
    BY DEF Onward
  <2>2. CASE q = p
    BY <1>3, <1>5, <2>1, <2>2
  <2>3. CASE q # p
    <3>1. PICK m, lab : m = loc[q] /\ lab = pc[q]
      OBVIOUS
    <3>2. HandlerOK(m, lab, o)
      BY <1>2, <1>5, <2>1, <2>3, <3>1 DEF BillsOK
    <3>3. HandlerOK(m, lab, o)'
      BY <2>1, <3>2, HandlerStays
    <3> QED BY <1>2, <2>3, <3>1, <3>3
  <2> QED BY <2>2, <2>3
<1>6. ASSUME NEW q \in Procs, NEW r \in Procs, q # r, pc'[q] \in Verifying, pc'[r] \in Verifying,
             loc'[q].order = loc'[r].order
      PROVE  loc'[q].order \in repeated'
  <2>1. CASE q # p /\ r # p
    BY <1>2, <1>6, <2>1 DEF BillsOK, Onward
  <2>2. CASE q = p
    BY <1>2, <1>3, <1>6, <2>2
  <2>3. CASE r = p
    BY <1>2, <1>3, <1>6, <2>3
  <2> QED BY <2>1, <2>2, <2>3
<1> QED BY <1>1, <1>4, <1>5, <1>6 DEF BillsOK

\* The seats that are off a payment are off it until the next verification.
LEMMA SeatsStayTaken ==
    ASSUME IInv, NEW p \in Procs, NEW l, NEW label,
           pc' = [pc EXCEPT ![p] = label], loc' = [loc EXCEPT ![p] = l],
           verified \subseteq verified',
           label \in Reading => pc[p] \in Reading /\ l.order = loc[p].order,
           NEW o \in orders, SeatsTaken(o)
    PROVE  SeatsTaken(o)'
<1>1. ASSUME NEW q \in Procs, loc'[q].order = o.id PROVE pc'[q] \notin Reading
  <2>1. CASE q = p
    BY <1>1, <2>1, OrderFacts DEF SeatsTaken
  <2>2. CASE q # p
    BY <1>1, <2>2, OrderFacts DEF SeatsTaken
  <2> QED BY <2>1, <2>2
<1> QED BY <1>1 DEF SeatsTaken

bills == <<payments, invoices, orders, verified, repeated, spoiled>>

\* A handler moves and leaves the payments and invoices alone.
LEMMA QuietBills ==
    ASSUME IInv, BillsOK, UNCHANGED bills, NEW p \in Procs, NEW l, NEW label,
           pc' = [pc EXCEPT ![p] = label], loc' = [loc EXCEPT ![p] = l],
           l.order # None => Known(l.order),
           \A o \in orders : l.order = o.id => HandlerOK(l, label, o),
           label \in Verifying => pc[p] \in Verifying /\ l.order = loc[p].order,
           label \in Reading => pc[p] \in Reading
    PROVE  BillsOK'
<1>1. Onward
  BY DEF Onward, bills, Excepted
<1>2. \A o \in orders : l.order = o.id => HandlerOK(l, label, o)'
  BY <1>1, HandlerStays
<1>3. \A q \in Procs \ {p} :
          label \in Verifying /\ pc[q] \in Verifying /\ l.order = loc[q].order
              => l.order \in repeated'
  BY DEF BillsOK, bills
<1>4. \A id \in 1..MaxOrders : payments'[id] # None => Known(id)
  BY DEF BillsOK, OrdersOK, bills
<1>5. \A id \in verified' : \E o \in orders : o.id = id /\ o.paid
  BY DEF BillsOK, OrdersOK, bills
<1>6. ASSUME NEW o \in orders PROVE PaymentOK(o)'
  <2>1. PaymentOK(o)
    BY DEF BillsOK, OrdersOK
  <2>2. SeatsTaken(o) => SeatsTaken(o)'
    <3>1. label \in Reading => pc[p] \in Reading /\ l.order = loc[p].order
      BY DEF Verifying
    <3> QED BY <3>1, SeatsStayTaken DEF bills
  <2> QED BY <2>1, <2>2 DEF PaymentOK, bills, Excepted
<1>7. InvoicesOK'
  BY DEF BillsOK, InvoicesOK, bills, Charged, Excepted
<1> QED BY <1>1, <1>2, <1>3, <1>4, <1>5, <1>6, <1>7, BillsStep

\* A handler that has to do with no order, or is done.
LEMMA NoOrder ==
    ASSUME IInv, BillsOK, UNCHANGED bills, NEW p \in Procs, NEW l, NEW label,
           pc' = [pc EXCEPT ![p] = label], loc' = [loc EXCEPT ![p] = l],
           l.order = None, label \notin Verifying
    PROVE  BillsOK'
<1>1. \A o \in orders : l.order = o.id => HandlerOK(l, label, o)
  BY OrderFacts
<1>2. label \notin Reading
  BY DEF Verifying
<1> QED BY <1>1, <1>2, QuietBills

\* A request that names no order, and a webhook.
LEMMA StartBills ==
    ASSUME IInv, BillsOK, NEW p \in Procs, Start(p), ~StartVerify(p)
    PROVE  BillsOK'
<1>1. UNCHANGED bills
  BY DEF Start, StartTrial, StartOrder, StartCancel, StartDowngrade, StartJob, StartGrant,
         StartSync, StartWebhook, StartEnded, bills, tables, outside, history
<1>2. CASE StartWebhook(p)
  <2>1. PICK id, row, l, label :
           /\ id \in 1..MaxOrders
           /\ row = payments[id] /\ row # None
           /\ (label = "captured" /\ row.status # "SUCCESS") \/ label = "failed"
           /\ l = [Fresh EXCEPT !.kind = "webhook", !.order = id, !.row = row]
           /\ Begin(p, "webhook", label, l)
    BY <1>2 DEF StartWebhook
  <2>2. l.order = id /\ l.row = row
    BY <2>1 DEF Fresh
  <2>3. Known(l.order)
    BY <2>1, <2>2 DEF BillsOK, OrdersOK
  <2>4. ASSUME NEW o \in orders, l.order = o.id PROVE HandlerOK(l, label, o)
    <3>1. PaymentOK(o) /\ payments[o.id] = row
      BY <2>1, <2>2, <2>4 DEF BillsOK, OrdersOK
    <3>2. label = "captured" => o.id \in Excepted \/ row.seats = o.seats
      BY <2>1, <3>1 DEF PaymentOK
    <3> QED BY <2>1, <2>2, <3>1, <3>2 DEF HandlerOK, Verifying, Reading
  <2>5. label \notin Verifying /\ label \notin Reading
    BY <2>1 DEF Verifying, Reading
  <2>6. pc' = [pc EXCEPT ![p] = label] /\ loc' = [loc EXCEPT ![p] = l]
    BY <2>1 DEF Begin, Goto, Remember
  <2> QED BY <1>1, <2>3, <2>4, <2>5, <2>6, QuietBills
<1>3. CASE ~StartWebhook(p)
  <2>1. PICK l, label :
           /\ pc' = [pc EXCEPT ![p] = label] /\ loc' = [loc EXCEPT ![p] = l]
           /\ label \in {"trial", "razorpay", "cancel", "free", "grant", "sync"}
           /\ l.order = None
    <3>1. CASE StartTrial(p)
      <4>1. PICK plan, l : /\ l = [Fresh EXCEPT !.kind = "trial", !.plan = plan]
                           /\ Begin(p, "trial", "trial", l)
        BY <3>1 DEF StartTrial
      <4>2. l.order = None
        BY <4>1 DEF Fresh
      <4> QED BY <4>1, <4>2 DEF Begin, Goto, Remember
    <3>2. CASE StartOrder(p)
      <4>1. PICK plan, l : /\ l = [Fresh EXCEPT !.kind = "order", !.plan = plan, !.seats = members]
                           /\ Begin(p, "order", "razorpay", l)
        BY <3>2 DEF StartOrder
      <4>2. l.order = None
        BY <4>1 DEF Fresh
      <4> QED BY <4>1, <4>2 DEF Begin, Goto, Remember
    <3>3. CASE StartGrant(p)
      <4>1. PICK plan, l : /\ l = [Fresh EXCEPT !.kind = "admin", !.plan = plan]
                           /\ Begin(p, "admin", "grant", l)
        BY <3>3 DEF StartGrant
      <4>2. l.order = None
        BY <4>1 DEF Fresh
      <4> QED BY <4>1, <4>2 DEF Begin, Goto, Remember
    <3>4. CASE StartCancel(p) \/ StartDowngrade(p) \/ StartJob(p) \/ StartSync(p) \/ StartEnded(p)
      <4>1. PICK l, label :
               /\ \/ l = [Fresh EXCEPT !.kind = "cancel", !.copy = sub]
                  \/ l = [Fresh EXCEPT !.kind = "downgrade"]
                  \/ l = [Fresh EXCEPT !.kind = "job"]
                  \/ l = [Fresh EXCEPT !.kind = "sync", !.copy = sub]
                  \/ l = [Fresh EXCEPT !.kind = "webhook"]
               /\ label \in {"cancel", "free", "sync"}
               /\ pc' = [pc EXCEPT ![p] = label] /\ loc' = [loc EXCEPT ![p] = l]
        BY <3>4 DEF StartCancel, StartDowngrade, StartJob, StartSync, StartEnded, Begin, Goto, Remember
      <4>2. l.order = None
        BY <4>1 DEF Fresh
      <4> QED BY <4>1, <4>2
    <3> QED BY <1>3, <3>1, <3>2, <3>3, <3>4 DEF Start
  <2>2. label \notin Verifying
    BY <2>1 DEF Verifying, Reading
  <2> QED BY <1>1, <2>1, <2>2, NoOrder
<1> QED BY <1>2, <1>3

\* A verification begins: it is the only one of its order, or a repeated one.
LEMMA VerifyBills ==
    ASSUME IInv, BillsOK, NEW p \in Procs, StartVerify(p)
    PROVE  BillsOK'
<1>1. PICK o, plan, l :
         /\ o \in orders /\ o.paid
         /\ l = [Fresh EXCEPT !.kind = "verify", !.plan = plan, !.order = o.id]
         /\ Begin(p, "verify", "activate", l)
         /\ verified' = verified \cup {o.id}
         /\ repeated' = IF o.id \in verified THEN repeated \cup {o.id} ELSE repeated
  BY DEF StartVerify
<1>2. UNCHANGED <<payments, invoices, orders, spoiled>> /\ l.order = o.id
  <2>1. UNCHANGED <<payments, invoices, orders, spoiled>>
    BY DEF StartVerify, tables, outside
  <2> QED BY <1>1, <2>1 DEF Fresh
<1>3. Onward
  BY <1>1, <1>2 DEF Onward
<1>4. ASSUME NEW q \in orders, l.order = q.id PROVE HandlerOK(l, "activate", q)'
  BY <1>1, <1>2, <1>4 DEF HandlerOK
<1>5. ASSUME NEW q \in Procs \ {p}, pc[q] \in Verifying, l.order = loc[q].order
      PROVE  l.order \in repeated'
  <2>1. HandlerOK(loc[q], pc[q], o)
    BY <1>1, <1>2, <1>5 DEF BillsOK
  <2> QED BY <1>1, <1>2, <1>5, <2>1 DEF HandlerOK
<1>6. /\ pc' = [pc EXCEPT ![p] = "activate"] /\ loc' = [loc EXCEPT ![p] = l]
      /\ Known(l.order)
  BY <1>1, <1>2 DEF Begin, Goto, Remember, Known
<1>7. \A id \in 1..MaxOrders : payments'[id] # None => Known(id)
  BY <1>2 DEF BillsOK, OrdersOK
<1>8. \A id \in verified' : \E q \in orders : q.id = id /\ q.paid
  BY <1>1 DEF BillsOK, OrdersOK
<1>9. ASSUME NEW q \in orders PROVE PaymentOK(q)'
  <2>1. PaymentOK(q)
    BY DEF BillsOK, OrdersOK
  <2>2. CASE SeatsTaken(q)
    <3>1. CASE q.id = o.id
      BY <1>1, <2>2, <3>1 DEF SeatsTaken, PaymentOK, Excepted
    <3>2. CASE q.id # o.id
      <4>1. SeatsTaken(q)'
        <5>1. ASSUME NEW r \in Procs, loc'[r].order = q.id PROVE pc'[r] \notin Reading
          BY <1>2, <1>6, <2>2, <3>2, <5>1, OrderFacts DEF SeatsTaken
        <5> QED BY <1>1, <2>2, <5>1 DEF SeatsTaken
      <4> QED BY <1>1, <1>2, <2>1, <4>1 DEF PaymentOK, Excepted
    <3> QED BY <3>1, <3>2
  <2>3. CASE ~SeatsTaken(q)
    BY <1>1, <1>2, <2>1, <2>3 DEF PaymentOK, Excepted
  <2> QED BY <2>2, <2>3
<1>10. InvoicesOK'
  BY <1>1, <1>2 DEF BillsOK, InvoicesOK, Charged, Excepted
<1> QED BY <1>3, <1>4, <1>5, <1>6, <1>7, <1>8, <1>9, <1>10, BillsStep

\* The awaits of a verification that write no payment, and those of the handlers
\* that have no order.
LEMMA AwaitBills ==
    ASSUME IInv, BillsOK, NEW p \in Procs,
           \/ SaveTrial(p) \/ SaveFree(p) \/ SaveGrant(p) \/ SaveSync(p) \/ SaveCancelled(p)
           \/ ReadForFree(p) \/ Activate(p) \/ Reload(p) \/ FindPayment(p) \/ CountSeats(p)
           \/ SaveSeats(p) \/ Fail(p) \/ (Finish(p) /\ UNCHANGED bills)
    PROVE  BillsOK'
<1>0. /\ loc[p] \in LocalRow /\ Good(loc[p], pc[p])
      /\ payments \in [1..MaxOrders -> Payment \cup {None}]
  BY LocalFacts
<1>1. UNCHANGED bills
  BY DEF SaveTrial, SaveFree, SaveGrant, SaveSync, SaveCancelled, ReadForFree, Activate, Reload,
         FindPayment, CountSeats, SaveSeats, Fail, bills, tables, outside, history
<1>2. loc[p].order # None => Known(loc[p].order)
  BY DEF BillsOK
<1>3. \A o \in orders : loc[p].order = o.id => HandlerOK(loc[p], pc[p], o)
  BY DEF BillsOK
<1>4. CASE \/ SaveTrial(p) \/ SaveFree(p) \/ SaveGrant(p) \/ SaveSync(p) \/ Fail(p) \/ Finish(p)
  <2>1. pc' = [pc EXCEPT ![p] = "idle"] /\ loc' = [loc EXCEPT ![p] = Fresh]
    BY <1>4 DEF SaveTrial, SaveFree, SaveGrant, SaveSync, Fail, Finish, Done, Goto, Remember
  <2>2. Fresh.order = None /\ "idle" \notin Verifying
    BY DEF Fresh, Verifying, Reading
  <2> QED BY <1>1, <2>1, <2>2, NoOrder
<1>5. CASE SaveCancelled(p) \/ ReadForFree(p) \/ Activate(p) \/ Reload(p)
  <2>1. PICK l, label :
           /\ pc' = [pc EXCEPT ![p] = label] /\ loc' = [loc EXCEPT ![p] = l]
           /\ label \in {"free", "saveFree", "reload", "payment"}
           /\ label \in {"reload", "payment"} => pc[p] \in {"activate", "reload"}
           /\ l \in {loc[p], [loc[p] EXCEPT !.copy = FreeRow, !.plan = "free"], [loc[p] EXCEPT !.copy = sub]}
    BY <1>5 DEF IInv, TypeOK, SaveCancelled, ReadForFree, Activate, Reload, Forget, Remember, Goto
  <2>2. l.order = loc[p].order
    BY <1>0, <2>1 DEF LocalRow
  <2>3. \A o \in orders : l.order = o.id => HandlerOK(l, label, o)
    BY <1>3, <2>1, <2>2 DEF HandlerOK, Verifying, Reading
  <2>4. /\ label \in Verifying => pc[p] \in Verifying
        /\ label \in Reading => pc[p] \in Reading
    BY <2>1 DEF Verifying, Reading
  <2> QED BY <1>1, <1>2, <2>1, <2>2, <2>3, <2>4, QuietBills
<1>6. CASE FindPayment(p)
  <2>1. PICK row, seats, l, label :
           /\ row = payments[loc[p].order]
           /\ seats = IF row = None THEN None ELSE row.seats
           /\ label = IF row = None THEN "count" ELSE "settle"
           /\ l = [loc[p] EXCEPT !.seats = seats]
           /\ pc' = [pc EXCEPT ![p] = label] /\ loc' = [loc EXCEPT ![p] = l]
    BY <1>6 DEF FindPayment, Remember, Goto
  <2>2. l.order = loc[p].order /\ l.seats = seats /\ pc[p] = "payment"
    BY <1>0, <1>6, <2>1 DEF LocalRow, FindPayment
  <2>3. ASSUME NEW o \in orders, l.order = o.id PROVE HandlerOK(l, label, o)
    <3>1. PaymentOK(o) /\ o.id \in verified /\ payments[o.id] = row
      BY <1>3, <2>1, <2>2, <2>3 DEF BillsOK, OrdersOK, HandlerOK, Verifying, Reading
    <3>2. ~SeatsTaken(o)
      BY <2>2, <2>3 DEF SeatsTaken, Reading
    <3>3. row # None => o.id \in Excepted \/ seats = o.seats
      BY <2>1, <3>1, <3>2 DEF PaymentOK
    <3> QED BY <2>1, <2>2, <3>1, <3>3 DEF HandlerOK
  <2>4. label \in Verifying /\ label \notin Reading /\ pc[p] \in Verifying
    BY <2>1, <2>2 DEF Verifying, Reading
  <2> QED BY <1>1, <1>2, <2>1, <2>2, <2>3, <2>4, QuietBills
<1>7. CASE CountSeats(p)
  <2>1. PICK l :
           /\ l = [loc[p] EXCEPT !.seats = members] /\ pc[p] = "count"
           /\ pc' = [pc EXCEPT ![p] = "seats"] /\ loc' = [loc EXCEPT ![p] = l]
    BY <1>7 DEF CountSeats, Remember, Goto
  <2>2. l.order = loc[p].order
    BY <1>0, <2>1 DEF LocalRow
  <2>3. \A o \in orders : l.order = o.id => HandlerOK(l, "seats", o)
    BY <1>3, <2>1, <2>2 DEF HandlerOK, Charged, Verifying, Reading
  <2>4. "seats" \notin Reading /\ pc[p] \in Verifying
    BY <2>1 DEF Verifying, Reading
  <2> QED BY <1>1, <1>2, <2>1, <2>2, <2>3, <2>4, QuietBills
<1>8. CASE SaveSeats(p)
  <2>1. PICK l :
           /\ l = [loc[p] EXCEPT !.copy = FreeRow, !.plan = "free"] /\ pc[p] = "seats"
           /\ pc' = [pc EXCEPT ![p] = "invoice"] /\ loc' = [loc EXCEPT ![p] = l]
    BY <1>8 DEF SaveSeats, Forget, Remember, Goto
  <2>2. l.order = loc[p].order /\ l.seats = loc[p].seats
    BY <1>0, <2>1 DEF LocalRow
  <2>3. \A o \in orders : l.order = o.id => HandlerOK(l, "invoice", o)
    BY <1>3, <2>1, <2>2 DEF HandlerOK, Verifying, Reading
  <2>4. "invoice" \notin Reading /\ pc[p] \in Verifying
    BY <2>1 DEF Verifying, Reading
  <2> QED BY <1>1, <1>2, <2>1, <2>2, <2>3, <2>4, QuietBills
<1> QED BY <1>4, <1>5, <1>6, <1>7, <1>8

\* A step that writes the row of one payment.
LEMMA PaymentStep ==
    ASSUME IInv, BillsOK, NEW p \in Procs, NEW l, NEW label, NEW o \in orders, NEW row \in Payment,
           pc' = [pc EXCEPT ![p] = label], loc' = [loc EXCEPT ![p] = l],
           payments' = [payments EXCEPT ![o.id] = row],
           UNCHANGED <<invoices, orders, verified, repeated>>, spoiled \subseteq spoiled',
           label \in {"idle", "count", "seats"},
           label = "idle" => l.order = None,
           label # "idle" => pc[p] \in Verifying /\ l.order = o.id /\ l.order = loc[p].order,
           label # "idle" => HandlerOK(l, label, o)',
           o.id \in verified =>
              \/ o.id \in Excepted'
              \/ payments[o.id] # None /\ row.status = "SUCCESS",
           PaymentOK(o)'
    PROVE  BillsOK'
<1>0. row # None /\ o.id \in 1..MaxOrders /\ payments'[o.id] = row
      /\ \A q \in orders : q.id # o.id => payments'[q.id] = payments[q.id]
  BY OrderFacts, NoneIsNoPayment
<1>1. Onward
  BY <1>0 DEF Onward
<1>2. \A q \in orders : q.id = o.id => q = o
  BY DEF BillsOK, OrdersOK
<1>3. \A q \in orders : l.order = q.id => HandlerOK(l, label, q)'
  BY <1>2, OrderFacts
<1>4. \A q \in Procs \ {p} :
          label \in Verifying /\ pc[q] \in Verifying /\ l.order = loc[q].order
              => l.order \in repeated'
  <2>1. label = "idle" => label \notin Verifying
    BY DEF Verifying, Reading
  <2> QED BY <2>1 DEF BillsOK
<1>5. l.order # None => Known(l.order)
  BY DEF Known
<1>6. \A id \in 1..MaxOrders : payments'[id] # None => Known(id)
  BY <1>0, OrderFacts DEF BillsOK, OrdersOK, Known
<1>7. \A id \in verified' : \E q \in orders : q.id = id /\ q.paid
  BY DEF BillsOK, OrdersOK
<1>8. ASSUME NEW q \in orders PROVE PaymentOK(q)'
  <2>1. CASE q = o
    BY <2>1
  <2>2. CASE q # o
    <3>1. PaymentOK(q) /\ payments'[q.id] = payments[q.id]
      BY <1>0, <1>2, <2>2 DEF BillsOK, OrdersOK
    <3>2. SeatsTaken(q) => SeatsTaken(q)'
      <4>1. label \notin Reading
        BY DEF Reading
      <4> QED BY <4>1, SeatsStayTaken
    <3> QED BY <3>1, <3>2 DEF PaymentOK, Excepted
  <2> QED BY <2>1, <2>2
<1>9. InvoicesOK'
  <2>1. ASSUME NEW i \in invoices, NEW q \in orders, i.order = q.id PROVE Charged(q, i.seats)'
    <3>1. q.id \in verified /\ Charged(q, i.seats)
      BY <2>1 DEF BillsOK, InvoicesOK
    <3> QED BY <1>1, <3>1, ChargedStays
  <2> QED BY <2>1 DEF BillsOK, InvoicesOK
<1> QED BY <1>1, <1>3, <1>4, <1>5, <1>6, <1>7, <1>8, <1>9, BillsStep

\* createOrder pends the payment, a verification settles it, a webhook writes it.
LEMMA PayBills ==
    ASSUME IInv, BillsOK, NEW p \in Procs,
           PendPayment(p) \/ Settle(p) \/ SaveCaptured(p) \/ SaveFailed(p)
    PROVE  BillsOK'
<1>0. /\ loc[p] \in LocalRow /\ Good(loc[p], pc[p])
      /\ payments \in [1..MaxOrders -> Payment \cup {None}]
  BY LocalFacts
<1>1. UNCHANGED <<invoices, orders, verified, repeated>> /\ spoiled \subseteq spoiled'
  BY DEF PendPayment, Settle, SaveCaptured, SaveFailed, outside, history
<1>2. pc[p] \in {"pend", "settle", "captured", "failed"}
  BY DEF PendPayment, Settle, SaveCaptured, SaveFailed
<1>3. PICK o \in orders : o.id = loc[p].order
  <2>1. loc[p].order # None
    BY <1>0, <1>2, OrgBillingAssumption DEF Good, HoldsOrder
  <2> QED BY <2>1 DEF BillsOK, Known
<1>4. HandlerOK(loc[p], pc[p], o) /\ PaymentOK(o) /\ o.id \in 1..MaxOrders
  BY <1>3, OrderFacts DEF BillsOK, OrdersOK
<1>5. o.id \in verified => o.paid
  BY DEF BillsOK, OrdersOK
<1>6. ASSUME pc' = [pc EXCEPT ![p] = "idle"], loc' = [loc EXCEPT ![p] = Fresh],
             NEW row \in Payment, payments' = [payments EXCEPT ![o.id] = row],
             \/ o.id \in Excepted'
             \/ row.seats = o.seats /\ o.id \notin verified
             \/ row.seats = o.seats /\ payments[o.id] # None /\ row.status = "SUCCESS"
      PROVE  BillsOK'
  <2>1. payments'[o.id] = row
    BY <1>0, <1>4, <1>6
  <2>2. PaymentOK(o)'
    BY <1>6, <2>1 DEF PaymentOK
  <2>3. Fresh.order = None
    BY DEF Fresh
  <2>4. "idle" \notin Verifying
    BY DEF Verifying, Reading
  <2> QED BY <1>1, <1>6, <2>2, <2>3, <2>4, PaymentStep
<1>7. CASE PendPayment(p)
  <2>1. PICK row : /\ row = [status |-> "PENDING", seats |-> loc[p].seats]
                   /\ payments' = [payments EXCEPT ![o.id] = row]
    BY <1>3, <1>7 DEF PendPayment
  <2>2. pc[p] = "pend" /\ pc' = [pc EXCEPT ![p] = "idle"] /\ loc' = [loc EXCEPT ![p] = Fresh]
    BY <1>7 DEF PendPayment, Finish, Done, Goto, Remember
  <2>3. row \in Payment /\ row.seats = o.seats /\ o.id \notin verified
    BY <1>0, <1>4, <1>5, <2>1, <2>2 DEF Good, Payment, HandlerOK
  <2> QED BY <1>6, <2>1, <2>2, <2>3
<1>8. CASE SaveCaptured(p)
  <2>1. PICK row : /\ row = [loc[p].row EXCEPT !.status = "SUCCESS"]
                   /\ payments' = [payments EXCEPT ![o.id] = row]
    BY <1>3, <1>8 DEF SaveCaptured
  <2>2. /\ pc[p] = "captured" /\ pc' = [pc EXCEPT ![p] = "idle"] /\ loc' = [loc EXCEPT ![p] = Fresh]
        /\ UNCHANGED spoiled
    BY <1>8 DEF SaveCaptured, Finish, Done, Goto, Remember
  <2>3. loc[p].row \in Payment
    BY <1>0, <2>2 DEF Good, LocalRow
  <2>4. row \in Payment /\ row.status = "SUCCESS" /\ row.seats = loc[p].row.seats
    BY <2>1, <2>3 DEF Payment
  <2>5. payments[o.id] # None /\ (o.id \in Excepted' \/ row.seats = o.seats)
    BY <1>1, <1>4, <2>2, <2>4 DEF HandlerOK, Excepted
  <2> QED BY <1>6, <2>1, <2>2, <2>4, <2>5
<1>9. CASE SaveFailed(p)
  <2>1. PICK row : /\ row = [status |-> "FAILED", seats |-> None]
                   /\ payments' = [payments EXCEPT ![o.id] = row]
    BY <1>3, <1>9 DEF SaveFailed
  <2>2. /\ pc' = [pc EXCEPT ![p] = "idle"] /\ loc' = [loc EXCEPT ![p] = Fresh]
        /\ spoiled' = spoiled \cup {o.id}
    BY <1>3, <1>9 DEF SaveFailed, Finish, Done, Goto, Remember
  <2>3. row \in Payment /\ o.id \in Excepted'
    BY <2>1, <2>2 DEF Payment, Excepted
  <2> QED BY <1>6, <2>1, <2>2, <2>3
<1>10. CASE Settle(p)
  <2>1. PICK l, row, label :
           /\ l = loc[p] /\ row = [status |-> "SUCCESS", seats |-> None]
           /\ payments' = [payments EXCEPT ![o.id] = row]
           /\ label = IF loc[p].seats = None THEN "count" ELSE "seats"
           /\ pc' = [pc EXCEPT ![p] = label]
    BY <1>3, <1>10 DEF Settle, Goto
  <2>2. /\ pc[p] = "settle" /\ loc' = [loc EXCEPT ![p] = l] /\ UNCHANGED spoiled
    BY <1>10, <2>1, OrderFacts DEF Settle, IInv, TypeOK, history
  <2>3. row \in Payment /\ payments'[o.id] = row /\ row # None /\ row.status = "SUCCESS"
    <3>1. row \in Payment
      BY <2>1 DEF Payment
    <3> QED BY <1>0, <1>4, <2>1, <3>1, NoneIsNoPayment
  <2>4. /\ o.id \in verified /\ payments[o.id] # None
        /\ o.id \in Excepted \/ l.seats = o.seats
    BY <1>4, <2>1, <2>2 DEF HandlerOK, Verifying
  <2>5. Excepted' = Excepted /\ pc[p] \in Verifying
    BY <1>1, <2>2 DEF Excepted, Verifying
  <2>6. o.seats # None
    BY OrgBillingAssumption, OrderFacts DEF Order
  <2>7. HandlerOK(l, label, o)'
    <3>1. Charged(o, l.seats)'
      BY <1>1, <2>3, <2>4, <2>5 DEF Charged
    <3>2. label = "count" => o.id \in Excepted'
      BY <2>1, <2>4, <2>5, <2>6
    <3>3. label \in {"count", "seats"} /\ o.id \in verified'
      BY <1>1, <2>1, <2>4
    <3> QED BY <3>1, <3>2, <3>3 DEF HandlerOK
  <2>8. PaymentOK(o)'
    <3>1. CASE o.id \in Excepted
      BY <2>5, <3>1 DEF PaymentOK
    <3>2. CASE o.id \notin Excepted
      <4>1. ASSUME NEW q \in Procs, loc'[q].order = o.id PROVE pc'[q] \notin Reading
        <5>1. CASE q = p
          BY <2>1, <5>1, OrderFacts DEF Reading
        <5>2. CASE q # p
          <6>1. loc[q].order = loc[p].order /\ pc'[q] = pc[q]
            BY <1>3, <2>1, <2>2, <4>1, <5>2, OrderFacts
          <6>2. pc[q] \notin Verifying
            BY <1>3, <2>5, <3>2, <5>2, <6>1 DEF BillsOK, Excepted
          <6> QED BY <6>1, <6>2 DEF Verifying
        <5> QED BY <5>1, <5>2
      <4>2. SeatsTaken(o)'
        BY <1>1, <2>4, <4>1 DEF SeatsTaken
      <4> QED BY <2>3, <4>2 DEF PaymentOK
    <3> QED BY <3>1, <3>2
  <2>9. label \in {"count", "seats"}
    BY <2>1
  <2> QED BY <1>1, <1>3, <2>1, <2>2, <2>3, <2>4, <2>5, <2>7, <2>8, <2>9, PaymentStep
<1> QED BY <1>7, <1>8, <1>9, <1>10

LEMMA InvoiceBills ==
    ASSUME IInv, BillsOK, NEW p \in Procs, CreateInvoice(p)
    PROVE  BillsOK'
<1>1. /\ UNCHANGED <<payments, orders, verified, repeated, spoiled>> /\ pc[p] = "invoice"
      /\ pc' = [pc EXCEPT ![p] = "idle"] /\ loc' = [loc EXCEPT ![p] = Fresh]
  BY DEF CreateInvoice, Finish, Done, Goto, Remember, outside
<1>2. PICK i : /\ i = [id |-> Cardinality(invoices), order |-> loc[p].order, seats |-> loc[p].seats]
               /\ invoices' = invoices \cup {i}
  BY DEF CreateInvoice
<1>3. i.order = loc[p].order /\ i.seats = loc[p].seats
  BY <1>2
<1>4. \A q \in orders : i.order = q.id => Charged(q, i.seats) /\ i.order \in verified
  BY <1>1, <1>3 DEF BillsOK, HandlerOK, Verifying
<1>5. PICK o \in orders : o.id = i.order
  <2>1. loc[p].order # None
    BY <1>1, LocalFacts, OrgBillingAssumption DEF Good, HoldsOrder
  <2> QED BY <1>3, <2>1 DEF BillsOK, Known
<1>6. InvoicesOK'
  BY <1>1, <1>2, <1>4, <1>5 DEF BillsOK, InvoicesOK, Charged, Excepted
<1>7. Onward
  BY <1>1 DEF Onward
<1>8. Fresh.order = None /\ "idle" \notin Verifying /\ "idle" \notin Reading
  BY DEF Fresh, Verifying, Reading
<1>9. \A q \in orders : Fresh.order = q.id => HandlerOK(Fresh, "idle", q)'
  BY <1>8, OrderFacts
<1>10. ASSUME NEW q \in orders PROVE PaymentOK(q)'
  <2>1. PaymentOK(q)
    BY DEF BillsOK, OrdersOK
  <2>2. SeatsTaken(q) => SeatsTaken(q)'
    BY <1>1, <1>8, SeatsStayTaken
  <2> QED BY <1>1, <2>1, <2>2 DEF PaymentOK, Excepted
<1>11. /\ \A id \in 1..MaxOrders : payments'[id] # None => Known(id)
       /\ \A id \in verified' : \E q \in orders : q.id = id /\ q.paid
  BY <1>1 DEF BillsOK, OrdersOK
<1> QED BY <1>1, <1>6, <1>7, <1>8, <1>9, <1>10, <1>11, BillsStep

\* Razorpay's new order: no payment, invoice or handler knows its number.
LEMMA OrderBills ==
    ASSUME IInv, BillsOK, NEW p \in Procs, CreateOrder(p)
    PROVE  BillsOK'
<1>0. /\ loc[p] \in LocalRow /\ Good(loc[p], pc[p])
      /\ payments \in [1..MaxOrders -> Payment \cup {None}]
  BY LocalFacts
<1>1. UNCHANGED <<payments, invoices, verified, repeated, spoiled>> /\ pc[p] = "razorpay"
  BY DEF CreateOrder, tables
<1>2. CASE Finish(p) /\ orders' = orders
  BY <1>1, <1>2, AwaitBills DEF bills
<1>3. CASE ~(Finish(p) /\ orders' = orders)
  <2>1. PICK id, o, l :
           /\ id = Cardinality(orders) + 1 /\ id <= MaxOrders
           /\ o = [id |-> id, plan |-> loc[p].plan, seats |-> loc[p].seats, paid |-> FALSE]
           /\ l = [loc[p] EXCEPT !.order = id]
           /\ orders' = orders \cup {o}
           /\ pc' = [pc EXCEPT ![p] = "pend"] /\ loc' = [loc EXCEPT ![p] = l]
    BY <1>3 DEF CreateOrder, Remember, Goto
  <2>2. /\ o.id = id /\ o.seats = loc[p].seats /\ ~o.paid
        /\ l.order = id /\ l.seats = loc[p].seats
    BY <1>0, <2>1 DEF LocalRow
  <2>3. Cardinality(orders) \in Nat /\ id \in 1..MaxOrders /\ id # None
    BY <2>1, FS_CardinalityType, OrderFacts, OrgBillingAssumption
  <2>4. \A q \in orders : q.id < id
    BY <2>1, <2>3, OrderFacts DEF BillsOK, OrdersOK
  <2>5. Cardinality(orders') = id
    <3>1. o \notin orders
      BY <2>2, <2>3, <2>4
    <3> QED BY <2>1, <3>1, FS_AddElement, OrderFacts
  <2>6. /\ \A k : Known(k) => Known(k)'
        /\ Known(id)' /\ ~Known(id)
    BY <2>1, <2>2, <2>3, <2>4, OrderFacts DEF Known
  <2>7. id \notin verified
    BY <2>6 DEF BillsOK, OrdersOK, Known
  <2>8. payments[id] = None
    BY <2>3, <2>6 DEF BillsOK, OrdersOK
  <2>9. ASSUME NEW q \in Procs, q # p
        PROVE pc'[q] = pc[q] /\ loc'[q] = loc[q] /\ loc[q].order # id
    BY <2>1, <2>3, <2>6, <2>9, OrderFacts DEF BillsOK
  <2>10. pc'[p] = "pend" /\ loc'[p] = l
    BY <2>1, OrderFacts
  <2>11. "pend" \notin Verifying /\ "pend" \notin Reading
    BY DEF Verifying, Reading
  <2>12. OrdersOK'
    <3>1. \A q \in orders' : q.id <= Cardinality(orders')
      BY <2>1, <2>2, <2>3, <2>4, <2>5, OrderFacts
    <3>2. ASSUME NEW q \in orders', NEW r \in orders', q.id = r.id PROVE q = r
      <4>1. CASE q = o \/ r = o
        <5>1. orders' = orders \cup {o} /\ o.id = id /\ \A x \in orders : x.id # id
          BY <2>1, <2>2, <2>6 DEF Known
        <5> QED BY <3>2, <4>1, <5>1
      <4>2. CASE q \in orders /\ r \in orders
        BY <3>2, <4>2 DEF BillsOK, OrdersOK
      <4> QED BY <2>1, <4>1, <4>2
    <3>3. \A k \in 1..MaxOrders : payments'[k] # None => Known(k)'
      BY <1>1, <2>6 DEF BillsOK, OrdersOK
    <3>4. \A k \in verified' : \E q \in orders' : q.id = k /\ q.paid
      BY <1>1, <2>1 DEF BillsOK, OrdersOK
    <3>5. ASSUME NEW q \in orders' PROVE PaymentOK(q)'
      <4>1. CASE q = o
        BY <1>1, <2>2, <2>8, <4>1 DEF PaymentOK
      <4>2. CASE q \in orders
        <5>1. PaymentOK(q)
          BY <4>2 DEF BillsOK, OrdersOK
        <5>2. SeatsTaken(q) => SeatsTaken(q)'
          BY <1>1, <2>1, <2>11, <4>2, SeatsStayTaken
        <5> QED BY <1>1, <5>1, <5>2 DEF PaymentOK, Excepted
      <4> QED BY <2>1, <4>1, <4>2
    <3> QED BY <3>1, <3>2, <3>3, <3>4, <3>5 DEF OrdersOK
  <2>13. InvoicesOK'
    <3>1. ASSUME NEW i \in invoices PROVE i.order # id
      BY <2>7, <3>1 DEF BillsOK, InvoicesOK
    <3> QED BY <1>1, <2>1, <2>2, <3>1 DEF BillsOK, InvoicesOK, Charged, Excepted
  <2>14. ASSUME NEW q \in Procs PROVE (loc[q].order # None => Known(loc[q].order))'
    <3>1. CASE q = p
      BY <2>2, <2>6, <2>10, <3>1
    <3>2. CASE q # p
      <4>1. PICK k : k = loc[q].order
        OBVIOUS
      <4>2. k # None => Known(k)
        BY <4>1 DEF BillsOK
      <4> QED BY <2>6, <2>9, <3>2, <4>1, <4>2
    <3> QED BY <3>1, <3>2
  <2>15. ASSUME NEW q \in Procs, NEW r \in orders', loc'[q].order = r.id
         PROVE  HandlerOK(loc[q], pc[q], r)'
    <3>1. CASE q = p
      <4>1. r = o
        BY <2>1, <2>2, <2>3, <2>4, <2>10, <2>15, <3>1, OrderFacts
      <4> QED BY <2>2, <2>10, <2>11, <3>1, <4>1 DEF HandlerOK
    <3>2. CASE q # p
      <4>1. r \in orders /\ loc[q].order = r.id
        BY <2>1, <2>2, <2>9, <2>15, <3>2
      <4>2. HandlerOK(loc[q], pc[q], r)
        BY <4>1 DEF BillsOK
      <4> QED BY <1>1, <2>9, <3>2, <4>2 DEF HandlerOK, Charged, Excepted
    <3> QED BY <3>1, <3>2
  <2>16. ASSUME NEW q \in Procs, NEW r \in Procs, q # r, pc'[q] \in Verifying, pc'[r] \in Verifying,
               loc'[q].order = loc'[r].order
        PROVE  loc'[q].order \in repeated'
    <3>1. q # p /\ r # p
      BY <2>10, <2>11, <2>16
    <3> QED BY <1>1, <2>9, <2>16, <3>1 DEF BillsOK
  <2> QED BY <2>12, <2>13, <2>14, <2>15, <2>16 DEF BillsOK
<1> QED BY <1>2, <1>3

\* The client pays an order that no request still pends.
LEMMA PaidBills ==
    ASSUME IInv, BillsOK, PayOrder
    PROVE  BillsOK'
<1>1. PICK o, q :
         /\ o \in orders /\ ~o.paid /\ Answered(o)
         /\ q = [o EXCEPT !.paid = TRUE]
         /\ orders' = (orders \ {o}) \cup {q}
  BY DEF PayOrder
<1>2. UNCHANGED <<payments, invoices, pc, loc, verified, repeated, spoiled>>
  BY DEF PayOrder, tables, history
<1>3. q.id = o.id /\ q.seats = o.seats /\ q.paid /\ o.id \in 1..MaxOrders
  BY <1>1, OrderFacts DEF Order
<1>4. \A r \in orders : r.id = o.id => r = o
  BY <1>1 DEF BillsOK, OrdersOK
<1>5. Cardinality(orders') = Cardinality(orders)
  <2>1. q \notin orders
    BY <1>1, <1>3, <1>4
  <2>2. IsFiniteSet(orders \ {o}) /\ Cardinality(orders \ {o}) = Cardinality(orders) - 1
    BY <1>1, FS_RemoveElement, OrderFacts
  <2>3. Cardinality((orders \ {o}) \cup {q}) = Cardinality(orders \ {o}) + 1
    BY <2>1, <2>2, FS_AddElement
  <2>4. Cardinality(orders) \in Nat
    BY FS_CardinalityType, OrderFacts
  <2> QED BY <1>1, <2>2, <2>3, <2>4
<1>6. \A k : Known(k) => Known(k)'
  BY <1>1, <1>3 DEF Known
<1>7. ASSUME NEW r \in orders'
      PROVE  \E x \in orders : x.id = r.id /\ x.seats = r.seats /\ (r = x \/ r = q)
  BY <1>1, <1>3
<1>8. OrdersOK'
  <2>1. \A r \in orders' : r.id <= Cardinality(orders')
    BY <1>5, <1>7 DEF BillsOK, OrdersOK
  <2>2. ASSUME NEW r \in orders', NEW x \in orders', r.id = x.id PROVE r = x
    <3>1. CASE r = q \/ x = q
      BY <1>1, <1>3, <1>4, <2>2, <3>1
    <3>2. CASE r \in orders /\ x \in orders
      BY <2>2, <3>2 DEF BillsOK, OrdersOK
    <3> QED BY <1>1, <3>1, <3>2
  <2>3. \A k \in 1..MaxOrders : payments'[k] # None => Known(k)'
    BY <1>2, <1>6 DEF BillsOK, OrdersOK
  <2>4. \A k \in verified' : \E r \in orders' : r.id = k /\ r.paid
    BY <1>1, <1>2 DEF BillsOK, OrdersOK
  <2>5. ASSUME NEW r \in orders' PROVE PaymentOK(r)'
    <3>1. PICK x \in orders : x.id = r.id /\ x.seats = r.seats
      BY <1>7
    <3>2. PaymentOK(x)
      BY DEF BillsOK, OrdersOK
    <3> QED BY <1>2, <3>1, <3>2 DEF PaymentOK, SeatsTaken, Excepted
  <2> QED BY <2>1, <2>2, <2>3, <2>4, <2>5 DEF OrdersOK
<1>9. InvoicesOK'
  <2>1. ASSUME NEW i \in invoices, NEW r \in orders', i.order = r.id PROVE Charged(r, i.seats)'
    <3>1. PICK x \in orders : x.id = r.id /\ x.seats = r.seats
      BY <1>7
    <3>2. Charged(x, i.seats)
      BY <2>1, <3>1 DEF BillsOK, InvoicesOK
    <3> QED BY <1>2, <3>1, <3>2 DEF Charged, Excepted
  <2> QED BY <1>2, <2>1 DEF BillsOK, InvoicesOK
<1>10. ASSUME NEW p \in Procs PROVE (loc[p].order # None => Known(loc[p].order))'
  <2>1. PICK k : k = loc[p].order
    OBVIOUS
  <2>2. k # None => Known(k)
    BY <2>1 DEF BillsOK
  <2> QED BY <1>2, <1>6, <2>1, <2>2
<1>11. ASSUME NEW p \in Procs, NEW r \in orders', loc'[p].order = r.id
       PROVE  HandlerOK(loc[p], pc[p], r)'
  <2>1. PICK x \in orders : x.id = r.id /\ x.seats = r.seats /\ (r = x \/ r = q)
    BY <1>7
  <2>2. HandlerOK(loc[p], pc[p], x)
    BY <1>2, <1>11, <2>1 DEF BillsOK
  <2>3. pc[p] = "pend" => r = x
    BY <1>1, <1>2, <1>3, <1>11, <2>1 DEF Answered
  <2> QED BY <1>2, <2>1, <2>2, <2>3 DEF HandlerOK, Charged, Excepted
<1>12. \A p, r \in Procs :
          p # r /\ pc'[p] \in Verifying /\ pc'[r] \in Verifying /\ loc'[p].order = loc'[r].order
              => loc'[p].order \in repeated'
  BY <1>2 DEF BillsOK
<1> QED BY <1>8, <1>9, <1>10, <1>11, <1>12 DEF BillsOK

LEMMA IdleBills ==
    ASSUME IInv, BillsOK, JoinOrLeave \/ NextDay \/ UNCHANGED vars
    PROVE  BillsOK'
<1>1. UNCHANGED <<payments, invoices, orders, verified, repeated, spoiled, pc, loc>>
  BY DEF JoinOrLeave, NextDay, vars, tables, outside, history
<1> QED BY <1>1 DEF BillsOK, OrdersOK, InvoicesOK, PaymentOK, SeatsTaken, HandlerOK, Charged,
                    Known, Excepted

\* There is nothing to charge before the first order.
THEOREM InitBills == Init => BillsOK
<1> SUFFICES ASSUME Init PROVE BillsOK
  OBVIOUS
<1>1. \A p \in Procs : loc[p].order = None /\ pc[p] = "idle"
  BY DEF Init, Fresh
<1>2. "idle" \notin Verifying
  BY DEF Verifying, Reading
<1> QED BY <1>1, <1>2 DEF Init, BillsOK, OrdersOK, InvoicesOK

\* Every step keeps the payments and invoices in agreement with the orders.
THEOREM StepBills == IInv /\ BillsOK /\ [Next]_vars => BillsOK'
<1> SUFFICES ASSUME IInv, BillsOK, [Next]_vars PROVE BillsOK'
  OBVIOUS
<1>1. ASSUME NEW p \in Procs, Start(p) PROVE BillsOK'
  BY <1>1, StartBills, VerifyBills
<1>2. ASSUME NEW p \in Procs, Continue(p) \/ Fail(p) PROVE BillsOK'
  BY <1>2, AwaitBills, PayBills, InvoiceBills, OrderBills DEF Continue
<1>3. CASE PayOrder \/ JoinOrLeave \/ NextDay \/ UNCHANGED vars
  BY <1>3, PaidBills, IdleBills
<1> QED BY <1>1, <1>2, <1>3 DEF Next

THEOREM BillsInvariance == Spec => []BillsOK
<1> QED BY InitBills, StepBills, Invariance, PTL DEF Spec

\* However the webhooks, the verification and the members' changes interleave, the
\* invoice of an order that was verified once and whose attempts did not fail
\* has the seats of the order.
THEOREM InvoicesAreAsCharged == Spec => []InvoicedAsCharged
<1>1. BillsOK => InvoicedAsCharged
  <2> SUFFICES ASSUME BillsOK, NEW i \in invoices, NEW o \in orders, i.order = o.id
               PROVE  \/ o.paid /\ i.seats = o.seats /\ payments[o.id] # None
                                /\ payments[o.id].status = "SUCCESS"
                      \/ o.paid /\ (o.id \in spoiled \cup repeated \/ payments[o.id] = None)
    BY DEF InvoicedAsCharged
  <2>1. o.id \in verified /\ Charged(o, i.seats)
    BY DEF BillsOK, InvoicesOK
  <2>2. o.paid
    BY <2>1 DEF BillsOK, OrdersOK
  <2> QED BY <2>1, <2>2 DEF Charged, Excepted
<1> QED BY <1>1, BillsInvariance, PTL

-----------------------------------------------------------------------------
(* The book of the orders *)

\* A handler moves: to a verification it was already in, or of an order that
\* has no invoice yet.
LEMMA BookMoves ==
    ASSUME IInv, BookOK, NEW p \in Procs, NEW l, NEW label,
           pc' = [pc EXCEPT ![p] = label], loc' = [loc EXCEPT ![p] = l],
           repeated \subseteq repeated', UNCHANGED invoices,
           label \in Verifying =>
              \/ pc[p] \in Verifying /\ l.order = loc[p].order
              \/ \A i \in invoices : i.order = l.order => i.order \in repeated'
    PROVE  BookOK'
<1>1. pc'[p] = label /\ loc'[p] = l
  BY OrderFacts
<1>2. ASSUME NEW q \in Procs, q # p PROVE pc'[q] = pc[q] /\ loc'[q] = loc[q]
  BY <1>2, OrderFacts
<1>3. ASSUME NEW q \in Procs, NEW i \in invoices, pc'[q] \in Verifying, loc'[q].order = i.order
      PROVE  i.order \in repeated'
  <2>1. CASE q = p
    BY <1>1, <1>3, <2>1 DEF BookOK
  <2>2. CASE q # p
    BY <1>2, <1>3, <2>2 DEF BookOK
  <2> QED BY <2>1, <2>2
<1> QED BY <1>3 DEF BookOK

LEMMA StartBook ==
    ASSUME IInv, BillsOK, BookOK, NEW p \in Procs, Start(p)
    PROVE  BookOK'
<1>1. UNCHANGED invoices /\ repeated \subseteq repeated'
  BY DEF Start, StartTrial, StartOrder, StartVerify, StartCancel, StartDowngrade, StartJob,
         StartGrant, StartSync, StartWebhook, StartEnded, tables, outside, history
<1>2. CASE StartVerify(p)
  <2>1. PICK o, plan, l :
           /\ l = [Fresh EXCEPT !.kind = "verify", !.plan = plan, !.order = o.id]
           /\ pc' = [pc EXCEPT ![p] = "activate"] /\ loc' = [loc EXCEPT ![p] = l]
           /\ repeated' = IF o.id \in verified THEN repeated \cup {o.id} ELSE repeated
    BY <1>2 DEF StartVerify, Begin, Goto, Remember
  <2>2. l.order = o.id
    BY <2>1 DEF Fresh
  <2>3. \A i \in invoices : i.order = l.order => i.order \in repeated'
    BY <2>1, <2>2 DEF BillsOK, InvoicesOK
  <2> QED BY <1>1, <2>1, <2>3, BookMoves
<1>3. CASE ~StartVerify(p)
  <2>1. PICK l, label :
           /\ pc' = [pc EXCEPT ![p] = label] /\ loc' = [loc EXCEPT ![p] = l]
           /\ label \in {"trial", "razorpay", "cancel", "free", "grant", "sync", "captured", "failed"}
    BY <1>3 DEF Start, StartTrial, StartOrder, StartCancel, StartDowngrade, StartJob, StartGrant,
                StartSync, StartWebhook, StartEnded, Begin, Goto, Remember
  <2>2. label \notin Verifying
    BY <2>1 DEF Verifying, Reading
  <2> QED BY <1>1, <2>1, <2>2, BookMoves
<1> QED BY <1>2, <1>3

\* The handlers go on, short of the invoice.
LEMMA AwaitBook ==
    ASSUME IInv, BookOK, NEW p \in Procs, Continue(p) \/ Fail(p), ~CreateInvoice(p)
    PROVE  BookOK'
<1>1. UNCHANGED <<invoices, repeated>>
  BY DEF Continue, SaveTrial, CreateOrder, PendPayment, Activate, Reload, FindPayment, Settle,
         CountSeats, SaveSeats, SaveCancelled, ReadForFree, SaveFree, SaveGrant, SaveSync,
         SaveCaptured, SaveFailed, Fail, tables, outside, history
<1>2. loc[p] \in LocalRow /\ loc = [loc EXCEPT ![p] = loc[p]]
  BY LocalFacts DEF IInv, TypeOK
<1>3. CASE \/ Activate(p) \/ Reload(p) \/ FindPayment(p) \/ Settle(p) \/ CountSeats(p) \/ SaveSeats(p)
  <2>1. PICK l, label :
           /\ pc' = [pc EXCEPT ![p] = label] /\ loc' = [loc EXCEPT ![p] = l]
           /\ label \in {"reload", "payment", "count", "settle", "seats", "invoice"}
           /\ \/ l = loc[p]
              \/ l = [loc[p] EXCEPT !.copy = FreeRow, !.plan = "free"]
              \/ l = [loc[p] EXCEPT !.copy = sub]
              \/ \E seats : l = [loc[p] EXCEPT !.seats = seats]
    <3>1. CASE Activate(p) \/ SaveSeats(p)
      BY <3>1 DEF Activate, SaveSeats, Forget, Remember, Goto
    <3>2. CASE Reload(p) \/ Settle(p)
      BY <1>2, <3>2 DEF Reload, Settle, Remember, Goto
    <3>3. CASE FindPayment(p) \/ CountSeats(p)
      BY <3>3 DEF FindPayment, CountSeats, Remember, Goto
    <3> QED BY <1>3, <3>1, <3>2, <3>3
  <2>2. pc[p] \in Verifying
    BY <1>3 DEF Activate, Reload, FindPayment, Settle, CountSeats, SaveSeats, Verifying, Reading
  <2>3. l.order = loc[p].order
    BY <1>2, <2>1 DEF LocalRow
  <2> QED BY <1>1, <2>1, <2>2, <2>3, BookMoves
<1>4. CASE \/ SaveTrial(p) \/ CreateOrder(p) \/ PendPayment(p) \/ SaveCancelled(p) \/ ReadForFree(p)
          \/ SaveFree(p) \/ SaveGrant(p) \/ SaveSync(p) \/ SaveCaptured(p) \/ SaveFailed(p) \/ Fail(p)
  <2>1. PICK l, label :
           /\ pc' = [pc EXCEPT ![p] = label] /\ loc' = [loc EXCEPT ![p] = l]
           /\ label \in {"idle", "pend", "free", "saveFree"}
    BY <1>2, <1>4 DEF SaveTrial, CreateOrder, PendPayment, SaveCancelled, ReadForFree, SaveFree, SaveGrant,
                SaveSync, SaveCaptured, SaveFailed, Fail, Finish, Done, Forget, Remember, Goto
  <2>2. label \notin Verifying
    BY <2>1 DEF Verifying, Reading
  <2> QED BY <1>1, <2>1, <2>2, BookMoves
<1> QED BY <1>3, <1>4 DEF Continue

\* The verification that bills is over, and another of the order makes it a repeated one.
LEMMA InvoiceBook ==
    ASSUME IInv, BillsOK, BookOK, NEW p \in Procs, CreateInvoice(p)
    PROVE  BookOK'
<1>1. /\ repeated' = repeated /\ pc[p] = "invoice"
      /\ pc' = [pc EXCEPT ![p] = "idle"] /\ loc' = [loc EXCEPT ![p] = Fresh]
  BY DEF CreateInvoice, Finish, Done, Goto, Remember, outside
<1>2. PICK i : i.order = loc[p].order /\ invoices' = invoices \cup {i}
  BY DEF CreateInvoice
<1>3. pc'[p] = "idle" /\ "idle" \notin Verifying /\ pc[p] \in Verifying
  BY <1>1, OrderFacts DEF Verifying, Reading
<1>4. ASSUME NEW q \in Procs, q # p PROVE pc'[q] = pc[q] /\ loc'[q] = loc[q]
  BY <1>1, <1>4, OrderFacts
<1>5. ASSUME NEW q \in Procs, NEW k \in invoices', pc'[q] \in Verifying, loc'[q].order = k.order
      PROVE  k.order \in repeated'
  <2>1. q # p /\ pc[q] \in Verifying /\ loc[q].order = k.order
    BY <1>3, <1>4, <1>5
  <2>2. CASE k \in invoices
    BY <1>1, <2>1, <2>2 DEF BookOK
  <2>3. CASE k = i
    BY <1>1, <1>2, <1>3, <2>1, <2>3 DEF BillsOK
  <2> QED BY <1>2, <2>2, <2>3
<1> QED BY <1>5 DEF BookOK

\* Every step keeps BookOK.
THEOREM StepBook == IInv /\ BillsOK /\ BookOK /\ [Next]_vars => BookOK'
<1> SUFFICES ASSUME IInv, BillsOK, BookOK, [Next]_vars PROVE BookOK'
  OBVIOUS
<1>1. ASSUME NEW p \in Procs, Start(p) \/ Continue(p) \/ Fail(p) PROVE BookOK'
  BY <1>1, StartBook, AwaitBook, InvoiceBook
<1>2. CASE PayOrder \/ JoinOrLeave \/ NextDay \/ UNCHANGED vars
  <2>1. UNCHANGED <<pc, loc, invoices, repeated>>
    BY <1>2 DEF PayOrder, JoinOrLeave, NextDay, vars, tables, outside, history
  <2> QED BY <2>1 DEF BookOK
<1> QED BY <1>1, <1>2 DEF Next

THEOREM BookInvariance == Spec => [](IInv /\ BillsOK /\ BookOK)
<1>1. Init => BookOK
  BY DEF Init, BookOK, Verifying, Reading
<1> QED BY <1>1, StepBook, BillsInvariance, Invariance, PTL DEF Spec

\* What the book does not see.
LEMMA BookStutter ==
    ASSUME UNCHANGED <<orders, verified, repeated, spoiled, invoices>>,
           \A id \in verified : (payments'[id] = None) = (payments[id] = None)
    PROVE  UNCHANGED Book!bvars
<1>1. Loose' = Loose
  BY DEF Loose
<1> QED BY <1>1 DEF Book!bvars

\* The row of a payment that is written: that of an order not yet verified, or
\* one that was there.
LEMMA RowsStay ==
    ASSUME IInv, BillsOK, NEW p \in Procs,
           PendPayment(p) \/ Settle(p) \/ SaveCaptured(p) \/ SaveFailed(p)
    PROVE  /\ \A id \in verified : (payments'[id] = None) = (payments[id] = None)
           /\ UNCHANGED <<orders, verified, repeated, invoices>>
<1>1. /\ loc[p] \in LocalRow /\ Good(loc[p], pc[p]) /\ pc[p] \in {"pend", "settle", "captured", "failed"}
      /\ payments \in [1..MaxOrders -> Payment \cup {None}]
  BY LocalFacts DEF PendPayment, Settle, SaveCaptured, SaveFailed
<1>2. PICK row : payments' = [payments EXCEPT ![loc[p].order] = row] /\ row # None
  <2>1. CASE PendPayment(p)
    <3>1. PICK row : row = [status |-> "PENDING", seats |-> loc[p].seats]
      OBVIOUS
    <3>2. row \in Payment
      BY <1>1, <2>1, <3>1 DEF PendPayment, Good, Payment
    <3>3. payments' = [payments EXCEPT ![loc[p].order] = row]
      BY <2>1, <3>1 DEF PendPayment
    <3> QED BY <3>2, <3>3, NoneIsNoPayment
  <2>2. CASE Settle(p)
    <3>1. PICK row : row = [status |-> "SUCCESS", seats |-> None]
      OBVIOUS
    <3>2. row \in Payment
      BY <3>1 DEF Payment
    <3>3. payments' = [payments EXCEPT ![loc[p].order] = row]
      BY <2>2, <3>1 DEF Settle
    <3> QED BY <3>2, <3>3, NoneIsNoPayment
  <2>3. CASE SaveCaptured(p)
    <3>1. pc[p] = "captured"
      BY <2>3 DEF SaveCaptured
    <3>2. PICK r \in Payment : r = loc[p].row
      BY <1>1, <3>1 DEF Good, LocalRow
    <3>3. [r EXCEPT !.status = "SUCCESS"] \in Payment
      BY DEF Payment
    <3> QED BY <2>3, <3>2, <3>3, NoneIsNoPayment DEF SaveCaptured
  <2>4. CASE SaveFailed(p)
    <3>1. PICK row : row = [status |-> "FAILED", seats |-> None]
      OBVIOUS
    <3>2. row \in Payment
      BY <3>1 DEF Payment
    <3>3. payments' = [payments EXCEPT ![loc[p].order] = row]
      BY <2>4, <3>1 DEF SaveFailed
    <3> QED BY <3>2, <3>3, NoneIsNoPayment
  <2> QED BY <2>1, <2>2, <2>3, <2>4
<1>3. loc[p].order \in verified => payments[loc[p].order] # None
  <2>1. ASSUME loc[p].order \in verified PROVE payments[loc[p].order] # None
    <3>1. PICK o \in orders : o.id = loc[p].order /\ o.paid
      BY <2>1 DEF BillsOK, OrdersOK
    <3>2. HandlerOK(loc[p], pc[p], o)
      BY <3>1 DEF BillsOK
    <3> QED BY <1>1, <3>1, <3>2 DEF HandlerOK
  <2> QED BY <2>1
<1>4. ASSUME NEW id \in verified PROVE id \in 1..MaxOrders
  BY OrderFacts DEF BillsOK, OrdersOK
<1>5. ASSUME NEW id \in verified PROVE (payments'[id] = None) = (payments[id] = None)
  <2>1. CASE id = loc[p].order
    BY <1>1, <1>2, <1>3, <1>4, <2>1
  <2>2. CASE id # loc[p].order
    BY <1>1, <1>2, <1>4, <2>2
  <2> QED BY <2>1, <2>2
<1>6. UNCHANGED <<orders, verified, repeated, invoices>>
  BY DEF PendPayment, Settle, SaveCaptured, SaveFailed, outside, history
<1> QED BY <1>5, <1>6

\* A payment.failed, late, true or not, loosens its order.
LEMMA FailureLoosens ==
    ASSUME IInv, BillsOK, NEW p \in Procs, SaveFailed(p)
    PROVE  Book!MarkFailed
<1>1. /\ \A id \in verified : (payments'[id] = None) = (payments[id] = None)
      /\ UNCHANGED <<orders, verified, repeated, invoices>>
  BY RowsStay
<1>2. pc[p] = "failed" /\ spoiled' = spoiled \cup {loc[p].order}
  BY DEF SaveFailed
<1>3. PICK o \in orders : o.id = loc[p].order
  <2>1. loc[p].order # None
    BY <1>2, LocalFacts, OrgBillingAssumption DEF Good, HoldsOrder
  <2> QED BY <2>1 DEF BillsOK, Known
<1>4. {id \in verified' : payments'[id] = None} = {id \in verified : payments[id] = None}
  BY <1>1
<1>5. Loose' = Loose \cup {o.id}
  BY <1>1, <1>2, <1>3, <1>4 DEF Loose
<1> QED BY <1>1, <1>5 DEF Book!MarkFailed

\* Razorpay numbers its orders.
LEMMA OrderPlaced ==
    ASSUME IInv, BillsOK, NEW p \in Procs, CreateOrder(p), orders' # orders
    PROVE  Book!Place
<1>1. UNCHANGED <<payments, invoices, verified, repeated, spoiled>>
  BY DEF CreateOrder, tables
<1>2. PICK id, o : /\ id = Cardinality(orders) + 1 /\ orders' = orders \cup {o}
                   /\ o = [id |-> id, plan |-> loc[p].plan, seats |-> loc[p].seats, paid |-> FALSE]
  BY DEF CreateOrder
<1>3. o.id = id /\ ~o.paid /\ o \in orders'
  BY <1>2
<1>4. Cardinality(orders) \in Nat
  BY FS_CardinalityType, OrderFacts
<1>5. \A q \in orders : q.id # id
  BY <1>2, <1>4, OrderFacts DEF BillsOK, OrdersOK
<1>6. Loose' = Loose
  BY <1>1 DEF Loose
<1> QED BY <1>1, <1>2, <1>3, <1>5, <1>6 DEF Book!Place

\* The client pays.
LEMMA ClientPays ==
    ASSUME PayOrder
    PROVE  Book!Pay
<1>1. UNCHANGED <<payments, invoices, verified, repeated, spoiled>>
  BY DEF PayOrder, tables, history
<1>2. Loose' = Loose
  BY <1>1 DEF Loose
<1> QED BY <1>1, <1>2 DEF PayOrder, Book!Pay

\* The customer returns: an order that was verified before becomes loose, and so
\* does one that has no row.
LEMMA VerificationConfirms ==
    ASSUME IInv, NEW p \in Procs, StartVerify(p)
    PROVE  Book!Confirm
<1>1. PICK o \in orders :
         /\ o.paid /\ verified' = verified \cup {o.id}
         /\ repeated' = IF o.id \in verified THEN repeated \cup {o.id} ELSE repeated
  BY DEF StartVerify
<1>2. UNCHANGED <<orders, payments, invoices, spoiled>>
  BY DEF StartVerify, tables, outside
<1>3. Loose' \in {Loose, Loose \cup {o.id}}
  <2>1. Loose \subseteq Loose'
    BY <1>1, <1>2 DEF Loose
  <2>2. Loose' \subseteq Loose \cup {o.id}
    BY <1>1, <1>2 DEF Loose
  <2> QED BY <2>1, <2>2
<1>4. o.id \in verified => o.id \in Loose'
  BY <1>1 DEF Loose
<1> QED BY <1>1, <1>2, <1>3, <1>4 DEF Book!Confirm

\* The invoice of an order that is not loose is its first, and for its seats.
LEMMA InvoiceIsBilled ==
    ASSUME IInv, BillsOK, BookOK, NEW p \in Procs, CreateInvoice(p)
    PROVE  Book!Bill
<1>1. UNCHANGED <<orders, payments, verified, repeated, spoiled>> /\ pc[p] = "invoice"
  BY DEF CreateInvoice, outside
<1>2. PICK b : /\ b.order = loc[p].order /\ b.seats = loc[p].seats
               /\ invoices' = invoices \cup {b} /\ b \in invoices'
  BY DEF CreateInvoice
<1>3. PICK o \in orders : o.id = loc[p].order
  <2>1. loc[p].order # None
    BY <1>1, LocalFacts, OrgBillingAssumption DEF Good, HoldsOrder
  <2> QED BY <2>1 DEF BillsOK, Known
<1>4. pc[p] \in Verifying
  BY <1>1 DEF Verifying
<1>5. o.id \in verified /\ Charged(o, b.seats)
  BY <1>1, <1>2, <1>3, <1>4 DEF BillsOK, HandlerOK
<1>6. o.id \notin Loose => b.seats = o.seats
  BY <1>5 DEF Charged, Loose, Excepted
<1>7. o.id \notin Loose => \A c \in invoices : c.order # o.id
  BY <1>3, <1>4 DEF BookOK, Loose
<1>8. Loose' = Loose
  BY <1>1 DEF Loose
<1> QED BY <1>1, <1>2, <1>3, <1>5, <1>6, <1>7, <1>8 DEF Book!Bill

\* Every step of the billing is a step of the book or leaves it alone.
THEOREM BookStep == IInv /\ BillsOK /\ BookOK /\ [Next]_vars => [Book!Next]_Book!bvars
<1> SUFFICES ASSUME IInv, BillsOK, BookOK, [Next]_vars PROVE [Book!Next]_Book!bvars
  OBVIOUS
<1>1. ASSUME NEW p \in Procs, Start(p) PROVE [Book!Next]_Book!bvars
  <2>1. CASE StartVerify(p)
    BY <2>1, VerificationConfirms DEF Book!Next
  <2>2. CASE ~StartVerify(p)
    <3>1. UNCHANGED <<orders, verified, repeated, spoiled, invoices, payments>>
      BY <1>1, <2>2 DEF Start, StartTrial, StartOrder, StartCancel, StartDowngrade, StartJob,
         StartGrant, StartSync, StartWebhook, StartEnded, tables, outside, history
    <3> QED BY <3>1, BookStutter
  <2> QED BY <2>1, <2>2
<1>2. ASSUME NEW p \in Procs, Continue(p) \/ Fail(p) PROVE [Book!Next]_Book!bvars
  <2>1. CASE CreateOrder(p)
    <3>1. UNCHANGED <<payments, invoices, verified, repeated, spoiled>>
      BY <2>1 DEF CreateOrder, tables
    <3> QED BY <2>1, <3>1, OrderPlaced, BookStutter DEF Book!Next
  <2>2. CASE SaveFailed(p)
    BY <2>2, FailureLoosens DEF Book!Next
  <2>3. CASE PendPayment(p) \/ Settle(p) \/ SaveCaptured(p)
    <3>1. spoiled' = spoiled
      BY <2>3 DEF PendPayment, Settle, SaveCaptured, history
    <3> QED BY <2>3, <3>1, RowsStay, BookStutter
  <2>4. CASE CreateInvoice(p)
    BY <2>4, InvoiceIsBilled DEF Book!Next
  <2>5. CASE \/ SaveTrial(p) \/ SaveCancelled(p) \/ ReadForFree(p) \/ SaveFree(p) \/ SaveGrant(p)
            \/ SaveSync(p) \/ Activate(p) \/ Reload(p) \/ FindPayment(p) \/ CountSeats(p)
            \/ SaveSeats(p) \/ Fail(p)
    <3>1. UNCHANGED <<orders, verified, repeated, spoiled, invoices, payments>>
      BY <2>5 DEF SaveTrial, SaveCancelled, ReadForFree, SaveFree, SaveGrant, SaveSync, Activate,
         Reload, FindPayment, CountSeats, SaveSeats, Fail, tables, outside, history
    <3> QED BY <3>1, BookStutter
  <2> QED BY <1>2, <2>1, <2>2, <2>3, <2>4, <2>5 DEF Continue
<1>3. CASE PayOrder
  BY <1>3, ClientPays DEF Book!Next
<1>4. CASE JoinOrLeave \/ NextDay \/ UNCHANGED vars
  <2>1. UNCHANGED <<orders, verified, repeated, spoiled, invoices, payments>>
    BY <1>4 DEF JoinOrLeave, NextDay, vars, tables, outside, history
  <2> QED BY <2>1, BookStutter
<1> QED BY <1>1, <1>2, <1>3, <1>4 DEF Next

\* The billing, with its stale rows, late webhooks, repeated verifications and
\* failures, implements the book of the orders.
THEOREM BillingKeepsBook == Spec => KeepsBook
<1>1. Init => Book!Init
  BY DEF Init, Book!Init, Loose
<1> QED BY <1>1, BookStep, BookInvariance, PTL DEF Spec, KeepsBook, Book!Spec
=============================================================================
