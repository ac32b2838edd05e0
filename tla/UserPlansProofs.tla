-------------------------- MODULE UserPlansProofs --------------------------
(* Proofs about UserPlans: for any number of users, subscriptions, processes *)
(* and days, rows keep their types, every plan has the source its row names, *)
(* and the overrun of a coupon is bounded.                                   *)
EXTENDS UserPlans, TLAPS, FiniteSetTheorems

-----------------------------------------------------------------------------
(* The inductive invariant *)

SomeOrderPaid == \E o \in orders : o.paid

\* Apple has sold the subscription, and e is the end of a period it charged or
\* of one that a notification made up.
Told(s, e) == (\E c \in charged : c[1] = s) /\ (<<s, e>> \in charged \/ s \in misled)

Linked(s, u) == apple[s] # None /\ apple[s].user = u

\* Awaits between the start of an order or a verification and its activation.
Paying == {"coupon", "used", "redeem", "again", "record", "count", "charge", "activate"}

Redeemers == {"redeem", "again", "record", "count", "activate"}

\* What a process remembers where it is: who it serves and where the plan it
\* brings comes from, however long ago it read the tables.
Good(l, label) ==
    /\ label \notin {"idle", "next", "saveCoupon"} => l.user \in Users
    /\ label \in Paying => l.kind \in {"order", "verify"} /\ l.plan # Free
    /\ label = "next" => l.kind = "cron"
    /\ label \in {"read", "rows", "upsert", "end", "keep"} => l.kind \notin {"order", "verify"}
    /\ l.kind = "verify" => SomeOrderPaid
    /\ l.kind = "order" /\ label \in Redeemers => shop.full
    /\ label = "count" \/ (l.kind = "order" /\ label = "activate") => Redeemed(l.user)
    /\ label = "rows" => Backed(l.user, l.copy)
    /\ label = "save" =>
          IF l.kind \in {"order", "verify"}
          THEN Covered(l.user) /\ l.best.plan # Free /\ l.best.source = "razorpay"
          ELSE Backed(l.user, l.best)
    /\ label \in {"upsert", "end", "keep"} \/ l.kind = "renewal" =>
          l.user \in Users /\ l.tx \in Transaction /\ Told(l.tx.sub, l.tx.expires)
    /\ label \in {"end", "keep"} \/ l.kind = "renewal" =>
          l.row \in AppleRow /\ l.row.user = l.user
          /\ Linked(l.tx.sub, l.user) /\ Told(l.tx.sub, l.row.expires)

\* The part of TypeOK about everything but the processes.
RowsTyped ==
    /\ now \in Nat /\ faults \in Nat
    /\ user \in [Users -> UserRow] /\ workspace \in [Users -> Plans \cup {None}]
    /\ apple \in [Subs -> AppleRow \cup {None}]
    /\ shop \in Shops /\ coupon \in [active : BOOLEAN, count : Nat]
    /\ redemptions \subseteq Redemption /\ missed \in Int /\ misled \subseteq Subs
    /\ orders \subseteq Order /\ store \in [Subs -> Transaction \cup {None}]
    /\ IsFiniteSet(orders) /\ IsFiniteSet(redemptions)

\* What the tables say of a period was told, what Apple says was charged.
RowsCharged ==
    /\ \A s \in Subs : apple[s] # None => Told(s, apple[s].expires)
    /\ \A s \in Subs : store[s] # None =>
          /\ store[s].sub = s /\ store[s].expires \in Nat
          /\ <<s, store[s].expires>> \in charged

ProcsGood ==
    /\ pc \in [Procs -> Labels] /\ loc \in [Procs -> LocalRow]
    /\ \A p \in Procs : Good(loc[p], pc[p])

IInv == RowsTyped /\ RowsCharged /\ PlansHaveSources /\ ProcsGood

-----------------------------------------------------------------------------
(* What every step keeps *)

\* Payments, redemptions, activations, charged periods and linked subscriptions
\* are never taken back.
Grows ==
    /\ charged \subseteq charged' /\ redemptions \subseteq redemptions'
    /\ bought \subseteq bought' /\ misled \subseteq misled'
    /\ shop' = shop
    /\ SomeOrderPaid => SomeOrderPaid'
    /\ \A s \in Subs : apple[s] # None => apple'[s] # None /\ apple'[s].user = apple[s].user

LEMMA RedeemedStays ==
    ASSUME Grows, NEW u, Redeemed(u) PROVE Redeemed(u)'
  BY DEF Grows, Redeemed

LEMMA CoveredStays ==
    ASSUME Grows, NEW u, Covered(u) PROVE Covered(u)'
<1>1. CASE SomeOrderPaid
  BY <1>1 DEF Grows, Covered, SomeOrderPaid
<1>2. CASE shop.full /\ Redeemed(u)
  BY <1>2, RedeemedStays DEF Grows, Covered
<1> QED BY <1>1, <1>2 DEF Covered, SomeOrderPaid

LEMMA ToldStays ==
    ASSUME Grows, NEW s, NEW e, Told(s, e) PROVE Told(s, e)'
  BY DEF Grows, Told

LEMMA LinkedStays ==
    ASSUME Grows, NEW s \in Subs, NEW u, Linked(s, u) PROVE Linked(s, u)'
  BY DEF Grows, Linked

LEMMA BackedStays ==
    ASSUME Grows, NEW u, NEW row, Backed(u, row) PROVE Backed(u, row)'
<1>1. Stored(u, row)' <=> Stored(u, row)
  BY DEF Stored
<1>2. row.source = "razorpay" => Stored(u, row)' \/ <<u, row.plan, row.expires>> \in bought'
  BY <1>1 DEF Backed, Grows
<1>3. row.source = "apple" => FromApple(u, row)'
  <2>1. SUFFICES ASSUME FromApple(u, row) PROVE FromApple(u, row)'
    BY DEF Backed
  <2>2. PICK s \in Subs : Linked(s, u) /\ Told(s, row.expires)
    BY <2>1 DEF FromApple, Linked, Told
  <2>3. Linked(s, u)' /\ Told(s, row.expires)'
    BY <2>2, LinkedStays, ToldStays
  <2> QED BY <2>3 DEF FromApple, Linked, Told
<1> QED BY <1>1, <1>2, <1>3 DEF Backed

\* The rows of users and the activations, if neither is written.
LEMMA SourcesStay ==
    ASSUME Grows, PlansHaveSources, UNCHANGED <<user, bought>> PROVE PlansHaveSources'
<1>1. ASSUME NEW u \in Users PROVE Backed(u, user[u])'
  <2>1. PICK row : row = user[u]
    OBVIOUS
  <2>2. Backed(u, row)'
    BY <2>1, BackedStays DEF PlansHaveSources
  <2>3. user'[u] = row
    BY <2>1
  <2> QED BY <2>2, <2>3 DEF Backed, Stored, FromApple
<1>2. ASSUME NEW b \in bought' PROVE Covered(b[1])'
  <2>1. PICK u : u = b[1]
    OBVIOUS
  <2>2. Covered(u)'
    BY <2>1, CoveredStays DEF PlansHaveSources
  <2> QED BY <2>1, <2>2
<1> QED BY <1>1, <1>2 DEF PlansHaveSources

LEMMA GoodStays ==
    ASSUME Grows, NEW l \in LocalRow, NEW label, Good(l, label) PROVE Good(l, label)'
<1>1. l.kind = "verify" => SomeOrderPaid'
  BY DEF Good, Grows
<1>2. label = "count" \/ (l.kind = "order" /\ label = "activate") => Redeemed(l.user)'
  BY RedeemedStays DEF Good
<1>3. label = "rows" => Backed(l.user, l.copy)'
  BY BackedStays DEF Good
<1>4. label = "save" => IF l.kind \in {"order", "verify"}
                        THEN Covered(l.user)' /\ l.best.plan # Free /\ l.best.source = "razorpay"
                        ELSE Backed(l.user, l.best)'
  BY BackedStays, CoveredStays DEF Good
<1>5. l.kind = "order" /\ label \in Redeemers => shop'.full
  BY DEF Good, Grows
<1>6. label \in {"upsert", "end", "keep"} \/ l.kind = "renewal" =>
          l.user \in Users /\ l.tx \in Transaction /\ Told(l.tx.sub, l.tx.expires)'
  BY ToldStays DEF Good
<1>7. label \in {"end", "keep"} \/ l.kind = "renewal" =>
          l.row \in AppleRow /\ l.row.user = l.user
          /\ Linked(l.tx.sub, l.user)' /\ Told(l.tx.sub, l.row.expires)'
  <2>1. SUFFICES ASSUME label \in {"end", "keep"} \/ l.kind = "renewal"
                 PROVE  /\ l.row \in AppleRow /\ l.row.user = l.user
                        /\ Linked(l.tx.sub, l.user)' /\ Told(l.tx.sub, l.row.expires)'
    OBVIOUS
  <2>2. /\ l.row \in AppleRow /\ l.row.user = l.user /\ l.tx \in Transaction
        /\ Linked(l.tx.sub, l.user) /\ Told(l.tx.sub, l.row.expires)
    BY <2>1 DEF Good
  <2>3. l.tx.sub \in Subs
    BY <2>2 DEF Transaction
  <2> QED BY <2>2, <2>3, LinkedStays, ToldStays
<1> QED BY <1>1, <1>2, <1>3, <1>4, <1>5, <1>6, <1>7 DEF Good

-----------------------------------------------------------------------------
(* The shape of a step *)

LEMMA GoodAt ==
    ASSUME NEW q, NEW l, NEW label, loc'[q] = l, pc'[q] = label, Good(l, label)'
    PROVE  Good(loc[q], pc[q])'
  BY DEF Good, SomeOrderPaid, Covered, Redeemed, Backed, Stored, FromApple, Told, Linked

\* A step of p that leaves good tables and gives p something good to remember.
LEMMA ProcessStep ==
    ASSUME IInv, Grows, RowsTyped', RowsCharged', PlansHaveSources',
           NEW p \in Procs, NEW l \in LocalRow, NEW label \in Labels,
           pc' = [pc EXCEPT ![p] = label], loc' = [loc EXCEPT ![p] = l], Good(l, label)'
    PROVE  IInv'
<1>1. pc' \in [Procs -> Labels] /\ loc' \in [Procs -> LocalRow]
  BY DEF IInv, ProcsGood
<1>2. ASSUME NEW q \in Procs PROVE Good(loc[q], pc[q])'
  <2>1. CASE q = p
    <3>1. pc'[q] = label /\ loc'[q] = l
      BY <2>1 DEF IInv, ProcsGood
    <3> QED BY <3>1, GoodAt
  <2>2. CASE q # p
    <3>1. PICK m, x : m = loc[q] /\ x = pc[q]
      OBVIOUS
    <3>2. pc'[q] = x /\ loc'[q] = m /\ Good(m, x) /\ m \in LocalRow
      BY <2>2, <3>1 DEF IInv, ProcsGood
    <3>3. Good(m, x)'
      BY <3>2, GoodStays
    <3> QED BY <3>2, <3>3, GoodAt
  <2> QED BY <2>1, <2>2
<1> QED BY <1>1, <1>2 DEF IInv, ProcsGood

\* A step of p that leaves the tables alone.
LEMMA LocalStep ==
    ASSUME IInv, UNCHANGED <<now, tables, outside, history>>, faults' \in Nat,
           NEW p \in Procs, NEW l \in LocalRow, NEW label \in Labels,
           pc' = [pc EXCEPT ![p] = label], loc' = [loc EXCEPT ![p] = l], Good(l, label)
    PROVE  IInv'
<1> USE DEF tables, outside, history
<1>1. Grows
  BY DEF Grows, SomeOrderPaid
<1>2. RowsTyped'
  BY DEF IInv, RowsTyped
<1>3. RowsCharged'
  BY DEF IInv, RowsCharged, Told
<1>4. PlansHaveSources'
  BY <1>1, SourcesStay DEF IInv
<1>5. Good(l, label)'
  BY <1>1, GoodStays
<1> QED BY <1>1, <1>2, <1>3, <1>4, <1>5, ProcessStep

LEMMA FreshGood == Fresh \in LocalRow /\ FreeRow \in UserRow /\ Good(Fresh, "idle")
  BY UserPlansAssumption DEF Fresh, LocalRow, FreeRow, UserRow, Plans, Free, Good, Paying

\* What the invariant says of one process.
LEMMA LocalFacts ==
    ASSUME IInv, NEW p \in Procs
    PROVE  /\ loc[p] \in LocalRow /\ pc[p] \in Labels /\ Good(loc[p], pc[p])
           /\ loc = [loc EXCEPT ![p] = loc[p]] /\ pc = [pc EXCEPT ![p] = pc[p]]
  BY DEF IInv, ProcsGood

LEMMA FinishStep ==
    ASSUME IInv, NEW p \in Procs, Finish(p), UNCHANGED <<now, tables, outside, history>>,
           faults' \in Nat
    PROVE  IInv'
  BY LocalStep, FreshGood DEF Finish, Goto, Remember, Labels

-----------------------------------------------------------------------------
(* Orders, verifications and coupons *)

LEMMA StartOrderStep == ASSUME IInv, NEW p \in Procs, StartOrder(p) PROVE IInv'
<1>1. PICK u \in Users, plan \in Plans \ {Free}, c \in BOOLEAN :
         /\ loc' = [loc EXCEPT ![p] = [Fresh EXCEPT !.kind = "order", !.user = u, !.plan = plan,
                                                    !.coupon = c]]
         /\ pc' = [pc EXCEPT ![p] = IF c THEN "coupon" ELSE "charge"]
  BY DEF StartOrder, Remember, Goto
<1> DEFINE l == [Fresh EXCEPT !.kind = "order", !.user = u, !.plan = plan, !.coupon = c]
           label == IF c THEN "coupon" ELSE "charge"
<1>2. l \in LocalRow /\ l.kind = "order" /\ l.user = u /\ l.plan = plan
  BY FreshGood DEF LocalRow
<1>3. label \in {"coupon", "charge"} /\ label \in Labels
  BY DEF Labels
<1>4. Good(l, label)
  BY <1>2, <1>3 DEF Good, Paying, Redeemers
<1>5. UNCHANGED <<now, tables, outside, history>> /\ faults' \in Nat
  BY DEF StartOrder, history, IInv, RowsTyped
<1> HIDE DEF l, label
<1> QED BY <1>1, <1>2, <1>3, <1>4, <1>5, LocalStep DEF l, label

LEMMA StartVerifyStep == ASSUME IInv, NEW p \in Procs, StartVerify(p) PROVE IInv'
<1>1. PICK o \in orders, u \in Users, plan \in Plans \ {Free}, c \in BOOLEAN :
         /\ o.paid
         /\ loc' = [loc EXCEPT ![p] = [Fresh EXCEPT !.kind = "verify", !.user = u, !.plan = plan,
                                                    !.coupon = c]]
         /\ pc' = [pc EXCEPT ![p] = IF c THEN "coupon" ELSE "activate"]
  BY DEF StartVerify, Remember, Goto
<1> DEFINE l == [Fresh EXCEPT !.kind = "verify", !.user = u, !.plan = plan, !.coupon = c]
           label == IF c THEN "coupon" ELSE "activate"
<1>2. l \in LocalRow /\ l.kind = "verify" /\ l.user = u /\ l.plan = plan
  BY FreshGood DEF LocalRow
<1>3. label \in {"coupon", "activate"} /\ label \in Labels
  BY DEF Labels
<1>4. SomeOrderPaid
  BY <1>1 DEF SomeOrderPaid
<1>5. Good(l, label)
  BY <1>2, <1>3, <1>4 DEF Good, Paying, Redeemers
<1>6. UNCHANGED <<now, tables, outside, history>> /\ faults' \in Nat
  BY DEF StartVerify, history, IInv, RowsTyped
<1> HIDE DEF l, label
<1> QED BY <1>1, <1>2, <1>3, <1>5, <1>6, LocalStep DEF l, label

LEMMA CheckCouponStep == ASSUME IInv, NEW p \in Procs, CheckCoupon(p) PROVE IInv'
<1>1. UNCHANGED <<now, tables, outside, history>> /\ faults' \in Nat
  BY DEF CheckCoupon, history, IInv, RowsTyped
<1>2. CASE Finish(p)
  BY <1>1, <1>2, FinishStep
<1>3. CASE ~Finish(p)
  <2> DEFINE label == IF pc[p] = "coupon" THEN "used" ELSE "again"
  <2>1. pc' = [pc EXCEPT ![p] = label] /\ loc' = [loc EXCEPT ![p] = loc[p]]
    BY <1>3, LocalFacts DEF CheckCoupon, Goto
  <2>2. Good(loc[p], label) /\ label \in Labels
    BY LocalFacts DEF CheckCoupon, Good, Paying, Redeemers, Labels
  <2> HIDE DEF label
  <2> QED BY <1>1, <2>1, <2>2, LocalFacts, LocalStep
<1> QED BY <1>2, <1>3

LEMMA CheckUsedStep == ASSUME IInv, NEW p \in Procs, CheckUsed(p) PROVE IInv'
<1>1. UNCHANGED <<now, tables, outside, history>> /\ faults' \in Nat
  BY DEF CheckUsed, history, IInv, RowsTyped
<1>2. CASE Finish(p)
  BY <1>1, <1>2, FinishStep
<1>3. CASE ~Finish(p)
  <2> DEFINE label == IF pc[p] = "again" THEN "record"
                      ELSE IF loc[p].kind = "order" /\ ~shop.full THEN "charge" ELSE "redeem"
  <2>1. pc' = [pc EXCEPT ![p] = label] /\ loc' = [loc EXCEPT ![p] = loc[p]]
    BY <1>3, LocalFacts DEF CheckUsed, Goto
  <2>2. Good(loc[p], label) /\ label \in Labels
    BY LocalFacts DEF CheckUsed, Good, Paying, Redeemers, Labels
  <2> HIDE DEF label
  <2> QED BY <1>1, <2>1, <2>2, LocalFacts, LocalStep
<1> QED BY <1>2, <1>3

LEMMA RecordRedemptionStep == ASSUME IInv, NEW p \in Procs, RecordRedemption(p) PROVE IInv'
<1> DEFINE r == [id |-> Cardinality(redemptions), user |-> loc[p].user]
<1>1. loc[p].user \in Users /\ Good(loc[p], "record")
  BY LocalFacts DEF RecordRedemption, Good
<1>2. redemptions' = redemptions \cup {r} /\ r \in Redemption /\ IsFiniteSet(redemptions')
  <2>1. IsFiniteSet(redemptions) /\ Cardinality(redemptions) \in Nat
    BY FS_CardinalityType DEF IInv, RowsTyped
  <2>2. IsFiniteSet(redemptions \cup {r})
    BY <2>1, FS_AddElement
  <2> QED BY <1>1, <2>1, <2>2 DEF RecordRedemption, Redemption
<1>3. Grows
  BY <1>2 DEF Grows, SomeOrderPaid, RecordRedemption, outside, history
<1>4. RowsTyped'
  BY <1>2 DEF IInv, RowsTyped, RecordRedemption, outside, history
<1>5. RowsCharged'
  BY DEF IInv, RowsCharged, Told, history, RecordRedemption, outside
<1>6. PlansHaveSources'
  BY <1>3, SourcesStay DEF IInv, RecordRedemption, history
<1>7. Redeemed(loc[p].user)'
  BY <1>2 DEF Redeemed, RecordRedemption
<1>8. pc' = [pc EXCEPT ![p] = "count"] /\ loc' = [loc EXCEPT ![p] = loc[p]]
  BY LocalFacts DEF RecordRedemption, Goto
<1>9. PICK l : l = loc[p]
  OBVIOUS
<1>10. Good(l, "record")'
  BY <1>1, <1>3, <1>9, LocalFacts, GoodStays
<1>11. Redeemed(l.user)'
  BY <1>7, <1>9 DEF RecordRedemption
<1>12. Good(l, "count")'
  BY <1>10, <1>11 DEF Good, Paying, Redeemers
<1> QED BY <1>3, <1>4, <1>5, <1>6, <1>8, <1>9, <1>12, LocalFacts, ProcessStep DEF Labels

LEMMA CountRedemptionStep == ASSUME IInv, NEW p \in Procs, CountRedemption(p) PROVE IInv'
<1>1. coupon' \in [active : BOOLEAN, count : Nat]
  BY DEF CountRedemption, IInv, RowsTyped
<1>2. Grows
  BY <1>1 DEF Grows, SomeOrderPaid, CountRedemption, outside, history
<1>3. RowsTyped'
  BY <1>1 DEF IInv, RowsTyped, CountRedemption, outside, history
<1>4. RowsCharged'
  BY DEF IInv, RowsCharged, Told, history, CountRedemption, outside
<1>5. PlansHaveSources'
  BY <1>2, SourcesStay DEF IInv, CountRedemption, history
<1>6. pc' = [pc EXCEPT ![p] = "activate"] /\ loc' = [loc EXCEPT ![p] = loc[p]]
  BY LocalFacts DEF CountRedemption, Goto
<1>7. Good(loc[p], "activate")
  BY LocalFacts DEF CountRedemption, Good, Paying, Redeemers
<1>8. PICK l : l = loc[p]
  OBVIOUS
<1>9. Good(l, "activate")'
  BY <1>2, <1>7, <1>8, LocalFacts, GoodStays
<1> QED BY <1>2, <1>3, <1>4, <1>5, <1>6, <1>8, <1>9, LocalFacts, ProcessStep DEF Labels

LEMMA ChargeStep == ASSUME IInv, NEW p \in Procs, Charge(p) PROVE IInv'
<1> DEFINE o == [id |-> Cardinality(orders), user |-> loc[p].user, plan |-> loc[p].plan,
                 coupon |-> loc[p].coupon, paid |-> FALSE]
<1>1. CASE orders' = orders
  BY <1>1, FinishStep DEF Charge, tables, outside, history, IInv, RowsTyped
<1>2. CASE orders' = orders \cup {o}
  <2>1. IsFiniteSet(orders) /\ Cardinality(orders) \in Nat /\ orders \subseteq Order
    BY FS_CardinalityType DEF IInv, RowsTyped
  <2>2. IsFiniteSet(orders')
    BY <1>2, <2>1, FS_AddElement
  <2>3. loc[p].user \in Users /\ loc[p].plan \in Plans /\ loc[p].coupon \in BOOLEAN
    BY LocalFacts DEF Charge, Good, LocalRow
  <2>4. o \in Order
    BY <2>1, <2>3 DEF Order
  <2>5. Grows
    BY <1>2 DEF Grows, SomeOrderPaid, Charge, tables, history
  <2>6. RowsTyped'
    BY <1>2, <2>1, <2>2, <2>4 DEF IInv, RowsTyped, Charge, tables, history
  <2>7. RowsCharged'
    BY DEF IInv, RowsCharged, Told, history, Charge, tables
  <2>8. PlansHaveSources'
    BY <2>5, SourcesStay DEF IInv, Charge, history, tables
  <2>9. Good(Fresh, "idle")'
    BY <2>5, FreshGood, GoodStays
  <2> QED BY <2>5, <2>6, <2>7, <2>8, <2>9, FreshGood, ProcessStep
          DEF Charge, Finish, Goto, Remember, Labels
<1> QED BY <1>1, <1>2 DEF Charge

-----------------------------------------------------------------------------
(* The plan of a user *)

LEMMA ActivateStep == ASSUME IInv, NEW p \in Procs, Activate(p) PROVE IInv'
<1>1. UNCHANGED <<now, tables, outside, history>> /\ faults' \in Nat
  BY DEF Activate, history, IInv, RowsTyped
<1>2. CASE Finish(p)
  BY <1>1, <1>2, FinishStep
<1>3. CASE ~Finish(p)
  <2> DEFINE row == [plan |-> loc[p].plan, expires |-> now + Month, source |-> "razorpay"]
             l == [Fresh EXCEPT !.kind = loc[p].kind, !.user = loc[p].user, !.best = row]
  <2>1. pc' = [pc EXCEPT ![p] = "save"] /\ loc' = [loc EXCEPT ![p] = l]
    BY <1>3 DEF Activate, Goto, Remember
  <2>2. loc[p].plan \in Plans /\ loc[p] \in LocalRow /\ Good(loc[p], "activate")
    BY LocalFacts DEF Activate, LocalRow
  <2>3. row \in UserRow
    BY <2>2, UserPlansAssumption DEF UserRow, IInv, RowsTyped
  <2>4. l \in LocalRow /\ l.best = row /\ l.user = loc[p].user /\ l.kind = loc[p].kind
    BY <2>2, <2>3, FreshGood DEF LocalRow
  <2>5. /\ Covered(loc[p].user) /\ loc[p].plan # Free /\ loc[p].user \in Users
        /\ loc[p].kind \in {"order", "verify"} /\ (loc[p].kind = "verify" => SomeOrderPaid)
    BY <2>2 DEF Good, Paying, Redeemers, Covered, SomeOrderPaid
  <2>6. row.plan = loc[p].plan /\ row.source = "razorpay"
    OBVIOUS
  <2>7. Good(l, "save")
    BY <2>4, <2>5, <2>6 DEF Good, Paying, Redeemers
  <2> HIDE DEF l, row
  <2> QED BY <1>1, <2>1, <2>4, <2>7, LocalStep DEF Labels
<1> QED BY <1>2, <1>3

LEMMA ReadUserStep == ASSUME IInv, NEW p \in Procs, ReadUser(p) PROVE IInv'
<1> DEFINE l == [loc[p] EXCEPT !.copy = user[loc[p].user], !.at = now]
<1>1. UNCHANGED <<now, tables, outside, history>> /\ faults' \in Nat
  BY DEF ReadUser, history, IInv, RowsTyped
<1>2. loc[p] \in LocalRow /\ Good(loc[p], "read") /\ loc[p].user \in Users
  BY LocalFacts DEF ReadUser, Good
<1>3. user[loc[p].user] \in UserRow /\ now \in Nat /\ Backed(loc[p].user, user[loc[p].user])
  BY <1>2 DEF IInv, RowsTyped, PlansHaveSources
<1>4. l \in LocalRow /\ l.copy = user[loc[p].user] /\ l.user = loc[p].user
      /\ l.kind = loc[p].kind /\ l.plan = loc[p].plan /\ l.tx = loc[p].tx /\ l.row = loc[p].row
  BY <1>2, <1>3 DEF LocalRow
<1>5. Good(l, "rows")
  BY <1>2, <1>3, <1>4 DEF Good, Paying, Redeemers
<1>6. pc' = [pc EXCEPT ![p] = "rows"] /\ loc' = [loc EXCEPT ![p] = l]
  BY DEF ReadUser, Goto, Remember
<1> HIDE DEF l
<1> QED BY <1>1, <1>4, <1>5, <1>6, LocalStep DEF Labels

\* A candidate is a row the user is entitled to.
LEMMA CandidatesBacked ==
    ASSUME IInv, NEW l \in LocalRow, l.user \in Users, Backed(l.user, l.copy),
           NEW c \in AppleCandidates(l) \cup RowCandidates(l)
    PROVE  c \in UserRow /\ Backed(l.user, c)
<1>1. CASE c \in AppleCandidates(l)
  <2>1. PICK s \in Subs :
           /\ apple[s] # None /\ apple[s].user = l.user /\ apple[s].plan # Free
           /\ c = [plan |-> apple[s].plan, expires |-> apple[s].expires, source |-> "apple"]
    BY <1>1 DEF AppleCandidates
  <2>2. apple[s] \in AppleRow /\ Told(s, apple[s].expires)
    BY <2>1 DEF IInv, RowsTyped, RowsCharged
  <2>3. c \in UserRow
    BY <2>1, <2>2 DEF AppleRow, UserRow
  <2>4. FromApple(l.user, c)
    BY <2>1, <2>2 DEF FromApple, Told
  <2>5. c.source = "apple" /\ c.plan # Free
    BY <2>1
  <2>6. Backed(l.user, c)
    BY <2>4, <2>5, UserPlansAssumption DEF Backed
  <2> QED BY <2>3, <2>6
<1>2. CASE c \in RowCandidates(l)
  <2>1. /\ c = [l.copy EXCEPT !.source = "razorpay"] /\ l.copy.plan # Free
        /\ l.copy.source = "razorpay" \/ l.copy.source = None
    BY <1>2 DEF RowCandidates
  <2>2. l.copy \in UserRow
    BY DEF LocalRow
  <2>3. /\ c \in UserRow /\ c.source = "razorpay"
        /\ c.plan = l.copy.plan /\ c.expires = l.copy.expires
    BY <2>1, <2>2 DEF UserRow
  <2>4. Stored(l.user, l.copy) \/ <<l.user, l.copy.plan, l.copy.expires>> \in bought
    BY <2>1 DEF Backed
  <2>5. Backed(l.user, c)
    BY <2>1, <2>3, <2>4, UserPlansAssumption DEF Backed, Stored
  <2> QED BY <2>3, <2>5
<1> QED BY <1>1, <1>2

LEMMA PickPlanStep == ASSUME IInv, NEW p \in Procs, PickPlan(p) PROVE IInv'
<1>1. UNCHANGED <<now, tables, outside, history>> /\ faults' \in Nat
  BY DEF PickPlan, history, IInv, RowsTyped
<1>2. loc[p] \in LocalRow /\ Good(loc[p], "rows") /\ loc[p].user \in Users
      /\ Backed(loc[p].user, loc[p].copy)
  BY LocalFacts DEF PickPlan, Good
<1> DEFINE cs == AppleCandidates(loc[p]) \cup RowCandidates(loc[p])
<1>3. PICK row \in (IF cs = {} THEN {FreeRow} ELSE Best(cs)) :
         loc' = [loc EXCEPT ![p] = [loc[p] EXCEPT !.best = row, !.copy = FreeRow, !.at = 0]]
  BY DEF PickPlan, Remember
<1>4. row = FreeRow \/ row \in cs
  BY <1>3 DEF Best
<1>5. Backed(loc[p].user, FreeRow)
  BY UserPlansAssumption DEF Backed, FreeRow
<1>6. row \in UserRow /\ Backed(loc[p].user, row)
  BY <1>2, <1>4, <1>5, FreshGood, CandidatesBacked
<1> HIDE DEF cs
<1> DEFINE l == [loc[p] EXCEPT !.best = row, !.copy = FreeRow, !.at = 0]
<1>7. l \in LocalRow /\ l.best = row /\ l.user = loc[p].user
      /\ l.kind = loc[p].kind /\ l.plan = loc[p].plan /\ l.tx = loc[p].tx /\ l.row = loc[p].row
  BY <1>2, <1>6, FreshGood DEF LocalRow
<1>8. Good(l, "save")
  BY <1>2, <1>6, <1>7 DEF Good, Paying, Redeemers
<1>9. pc' = [pc EXCEPT ![p] = "save"] /\ loc' = [loc EXCEPT ![p] = l]
  BY <1>3 DEF PickPlan, Goto
<1> HIDE DEF l
<1> QED BY <1>1, <1>7, <1>8, <1>9, LocalStep DEF Labels

LEMMA SavePlanStep == ASSUME IInv, NEW p \in Procs, SavePlan(p) PROVE IInv'
<1>1. PICK l : l = loc[p]
  OBVIOUS
<1>2. l \in LocalRow /\ Good(l, "save") /\ l.user \in Users /\ l.best \in UserRow
  BY <1>1, LocalFacts DEF SavePlan, Good, LocalRow
<1>3. /\ user' = [user EXCEPT ![l.user] = l.best]
      /\ bought' = IF l.kind \in {"order", "verify"}
                   THEN bought \cup {<<l.user, l.best.plan, l.best.expires>>} ELSE bought
  BY <1>1 DEF SavePlan
<1>4. Grows
  BY <1>3 DEF Grows, SomeOrderPaid, SavePlan, outside
<1>5. RowsTyped'
  BY <1>2, <1>3 DEF IInv, RowsTyped, SavePlan, outside
<1>6. RowsCharged'
  BY DEF IInv, RowsCharged, Told, SavePlan, outside
<1>7. Backed(l.user, l.best)'
  <2>1. CASE l.kind \in {"order", "verify"}
    <3>1. l.best.plan # Free /\ l.best.source = "razorpay"
      BY <1>2, <2>1 DEF Good
    <3> QED BY <1>3, <2>1, <3>1, UserPlansAssumption DEF Backed
  <2>2. CASE l.kind \notin {"order", "verify"}
    BY <1>2, <1>4, <2>2, BackedStays DEF Good
  <2> QED BY <2>1, <2>2
<1>8. ASSUME NEW u \in Users PROVE Backed(u, user[u])'
  <2>1. PICK row : row = user'[u]
    OBVIOUS
  <2>2. Backed(u, row)'
    <3>1. CASE u = l.user
      BY <1>2, <1>3, <1>7, <2>1, <3>1 DEF IInv, RowsTyped
    <3>2. CASE u # l.user
      <4>1. row = user[u]
        BY <1>3, <2>1, <3>2 DEF IInv, RowsTyped
      <4>2. Backed(u, row)
        BY <4>1 DEF IInv, PlansHaveSources
      <4> QED BY <1>4, <4>2, BackedStays
    <3> QED BY <3>1, <3>2
  <2> QED BY <2>1, <2>2 DEF Backed, Stored, FromApple
<1>9. ASSUME NEW b \in bought' PROVE Covered(b[1])'
  <2>1. PICK u : u = b[1]
    OBVIOUS
  <2>2. Covered(u)
    BY <1>2, <1>3, <2>1 DEF IInv, PlansHaveSources, Good
  <2>3. Covered(u)'
    BY <1>4, <2>2, CoveredStays
  <2> QED BY <2>1, <2>3
<1>10. PlansHaveSources'
  BY <1>8, <1>9 DEF PlansHaveSources
<1>11. Good(l, "save")'
  BY <1>2, <1>4, GoodStays
<1>12. Good(l, "sync")'
  BY <1>11 DEF Good, Paying, Redeemers
<1>13. pc' = [pc EXCEPT ![p] = "sync"] /\ loc' = [loc EXCEPT ![p] = l]
  BY <1>1, LocalFacts DEF SavePlan, Goto
<1> QED BY <1>2, <1>4, <1>5, <1>6, <1>10, <1>12, <1>13, ProcessStep DEF Labels

LEMMA SyncStep == ASSUME IInv, NEW p \in Procs, Sync(p) PROVE IInv'
<1>1. loc[p] \in LocalRow /\ Good(loc[p], "sync") /\ loc[p].user \in Users
      /\ loc[p].best.plan \in Plans
  BY LocalFacts DEF Sync, Good, LocalRow, UserRow
<1>2. workspace' \in [Users -> Plans \cup {None}]
  BY <1>1 DEF Sync, IInv, RowsTyped
<1>3. Grows
  BY DEF Grows, SomeOrderPaid, Sync, outside, history
<1>4. RowsTyped'
  BY <1>2 DEF IInv, RowsTyped, Sync, outside, history
<1>5. RowsCharged'
  BY DEF IInv, RowsCharged, Told, history, Sync, outside
<1>6. PlansHaveSources'
  BY <1>3, SourcesStay DEF IInv, Sync, history
<1>7. CASE Finish(p)
  <2>1. Good(Fresh, "idle")'
    BY <1>3, FreshGood, GoodStays
  <2> QED BY <1>3, <1>4, <1>5, <1>6, <1>7, <2>1, FreshGood, ProcessStep
          DEF Finish, Goto, Remember, Labels
<1>8. CASE ~Finish(p)
  <2>1. PICK l : l = [Fresh EXCEPT !.kind = "cron", !.rows = loc[p].rows]
    OBVIOUS
  <2>2. pc' = [pc EXCEPT ![p] = "next"] /\ loc' = [loc EXCEPT ![p] = l]
    BY <1>8, <2>1 DEF Sync, Goto, Remember
  <2>3. l \in LocalRow /\ l.kind = "cron"
    BY <1>1, <2>1, FreshGood DEF LocalRow
  <2>4. Good(l, "next")
    BY <2>3 DEF Good, Paying, Redeemers
  <2>5. Good(l, "next")'
    BY <1>3, <2>3, <2>4, GoodStays
  <2> QED BY <1>3, <1>4, <1>5, <1>6, <2>2, <2>3, <2>5, ProcessStep DEF Labels
<1> QED BY <1>7, <1>8

-----------------------------------------------------------------------------
(* The daily job and the administrator *)

LEMMA StartCronStep == ASSUME IInv, NEW p \in Procs, StartCron(p) PROVE IInv'
<1> DEFINE l == [Fresh EXCEPT !.kind = "cron", !.rows = {u \in Users : Expired(u)}]
<1>1. l \in LocalRow /\ l.kind = "cron"
  BY FreshGood DEF LocalRow
<1>2. Good(l, "next")
  BY <1>1 DEF Good, Paying, Redeemers
<1>3. pc' = [pc EXCEPT ![p] = "next"] /\ loc' = [loc EXCEPT ![p] = l]
  BY DEF StartCron, Goto, Remember
<1>4. UNCHANGED <<now, tables, outside, history>> /\ faults' \in Nat
  BY DEF StartCron, history, IInv, RowsTyped
<1> HIDE DEF l
<1> QED BY <1>1, <1>2, <1>3, <1>4, LocalStep DEF Labels

LEMMA NextExpiredStep == ASSUME IInv, NEW p \in Procs, NextExpired(p) PROVE IInv'
<1>1. PICK u \in loc[p].rows :
         loc' = [loc EXCEPT ![p] = [loc[p] EXCEPT !.user = u, !.rows = loc[p].rows \ {u}]]
  BY DEF NextExpired, Remember
<1> DEFINE l == [loc[p] EXCEPT !.user = u, !.rows = loc[p].rows \ {u}]
<1>2. loc[p] \in LocalRow /\ Good(loc[p], "next") /\ u \in Users
  BY LocalFacts DEF NextExpired, LocalRow
<1>3. l \in LocalRow /\ l.user = u /\ l.kind = loc[p].kind /\ l.plan = loc[p].plan
      /\ l.tx = loc[p].tx /\ l.row = loc[p].row
  BY <1>2 DEF LocalRow
<1>4. Good(l, "read")
  BY <1>2, <1>3 DEF Good, Paying, Redeemers
<1>5. pc' = [pc EXCEPT ![p] = "read"] /\ loc' = [loc EXCEPT ![p] = l]
  BY <1>1 DEF NextExpired, Goto
<1>6. UNCHANGED <<now, tables, outside, history>> /\ faults' \in Nat
  BY DEF NextExpired, history, IInv, RowsTyped
<1> HIDE DEF l
<1> QED BY <1>3, <1>4, <1>5, <1>6, LocalStep DEF Labels

LEMMA EndCronStep == ASSUME IInv, NEW p \in Procs, EndCron(p) PROVE IInv'
  BY FinishStep DEF EndCron, history, IInv, RowsTyped

LEMMA StartAdminStep == ASSUME IInv, NEW p \in Procs, StartAdmin(p) PROVE IInv'
<1> DEFINE l == [Fresh EXCEPT !.kind = "admin", !.count = coupon.count]
<1>1. l \in LocalRow /\ l.kind = "admin"
  BY FreshGood DEF LocalRow, IInv, RowsTyped
<1>2. Good(l, "saveCoupon")
  BY <1>1 DEF Good, Paying, Redeemers
<1>3. pc' = [pc EXCEPT ![p] = "saveCoupon"] /\ loc' = [loc EXCEPT ![p] = l]
  BY DEF StartAdmin, Goto, Remember
<1>4. UNCHANGED <<now, tables, outside, history>> /\ faults' \in Nat
  BY DEF StartAdmin, history, IInv, RowsTyped
<1> HIDE DEF l
<1> QED BY <1>1, <1>2, <1>3, <1>4, LocalStep DEF Labels

LEMMA SaveCouponStep == ASSUME IInv, NEW p \in Procs, SaveCoupon(p) PROVE IInv'
<1>1. PICK on \in BOOLEAN : coupon' = [coupon EXCEPT !.active = on, !.count = loc[p].count]
  BY DEF SaveCoupon
<1>2. loc[p].count \in Nat
  BY LocalFacts DEF LocalRow
<1>3. coupon' \in [active : BOOLEAN, count : Nat]
  BY <1>1, <1>2 DEF IInv, RowsTyped
<1>4. missed' \in Int
  BY <1>2 DEF SaveCoupon, IInv, RowsTyped
<1>5. Grows
  BY <1>3 DEF Grows, SomeOrderPaid, SaveCoupon, outside, history
<1>6. RowsTyped'
  BY <1>3, <1>4 DEF IInv, RowsTyped, SaveCoupon, outside
<1>7. RowsCharged'
  BY DEF IInv, RowsCharged, Told, SaveCoupon, outside
<1>8. PlansHaveSources'
  BY <1>5, SourcesStay DEF IInv, SaveCoupon, history
<1>9. Good(Fresh, "idle")'
  BY <1>5, FreshGood, GoodStays
<1> QED BY <1>5, <1>6, <1>7, <1>8, <1>9, FreshGood, ProcessStep
        DEF SaveCoupon, Finish, Goto, Remember, Labels

-----------------------------------------------------------------------------
(* Apple *)

LEMMA StartAppleStep == ASSUME IInv, NEW p \in Procs, StartApple(p) PROVE IInv'
<1>1. PICK u \in Users, s \in Subs :
         /\ store[s] # None
         /\ loc' = [loc EXCEPT ![p] = [Fresh EXCEPT !.kind = "apple", !.user = u,
                                                    !.tx = store[s]]]
  BY DEF StartApple, Remember
<1> DEFINE l == [Fresh EXCEPT !.kind = "apple", !.user = u, !.tx = store[s]]
<1>2. store[s] \in Transaction /\ Told(store[s].sub, store[s].expires)
  <2>1. store[s] \in Transaction /\ store[s].sub = s /\ <<s, store[s].expires>> \in charged
    BY <1>1 DEF IInv, RowsTyped, RowsCharged
  <2> QED BY <2>1 DEF Told
<1>3. l \in LocalRow /\ l.kind = "apple" /\ l.user = u /\ l.tx = store[s]
  BY <1>2, FreshGood DEF LocalRow
<1>4. Good(l, "upsert")
  BY <1>2, <1>3 DEF Good, Paying, Redeemers
<1>5. pc' = [pc EXCEPT ![p] = "upsert"] /\ loc' = [loc EXCEPT ![p] = l]
  BY <1>1 DEF StartApple, Goto
<1>6. UNCHANGED <<now, tables, outside, history>> /\ faults' \in Nat
  BY DEF StartApple, history, IInv, RowsTyped
<1> HIDE DEF l
<1> QED BY <1>3, <1>4, <1>5, <1>6, LocalStep DEF Labels

\* What is told of a subscription somebody has linked is charged, or misleads.
LEMMA StartNotificationStep == ASSUME IInv, NEW p \in Procs, StartNotification(p) PROVE IInv'
<1>1. PICK m \in Notices :
         /\ apple[m.tx.sub] # None
         /\ loc' = [loc EXCEPT ![p] = [Fresh EXCEPT !.kind = IF m.ends THEN "apple" ELSE "renewal",
                                                    !.user = apple[m.tx.sub].user,
                                                    !.row = apple[m.tx.sub],
                                                    !.tx = m.tx]]
         /\ pc' = [pc EXCEPT ![p] = IF m.ends THEN "end"
                                    ELSE IF Verified(m.tx) THEN "upsert" ELSE "keep"]
         /\ misled' = IF <<m.tx.sub, m.tx.expires>> \in charged THEN misled
                      ELSE misled \cup {m.tx.sub}
  BY DEF StartNotification, Remember, Goto
<1> DEFINE kind == IF m.ends THEN "apple" ELSE "renewal"
           label == IF m.ends THEN "end" ELSE IF Verified(m.tx) THEN "upsert" ELSE "keep"
           l == [Fresh EXCEPT !.kind = kind, !.user = apple[m.tx.sub].user,
                              !.row = apple[m.tx.sub], !.tx = m.tx]
<1>2. m.tx \in Transaction /\ m.tx.sub \in Subs
  BY NoticesAssumption DEF Message, Transaction
<1>3. apple[m.tx.sub] \in AppleRow /\ apple[m.tx.sub].user \in Users
  BY <1>1, <1>2 DEF IInv, RowsTyped, AppleRow
<1>4. kind \in {"apple", "renewal"} /\ label \in {"end", "upsert", "keep"}
  OBVIOUS
<1>5. loc' = [loc EXCEPT ![p] = l] /\ pc' = [pc EXCEPT ![p] = label]
  BY <1>1
<1>6. UNCHANGED <<now, tables, outside, bought, missed, faults>>
  BY DEF StartNotification
<1> HIDE DEF kind, label
<1>7. l \in LocalRow /\ l.kind = kind /\ l.user = apple[m.tx.sub].user /\ l.tx = m.tx
      /\ l.row = apple[m.tx.sub]
  BY <1>2, <1>3, <1>4, FreshGood DEF LocalRow
<1>8. Grows /\ misled' \subseteq Subs
  BY <1>1, <1>2, <1>6 DEF Grows, SomeOrderPaid, tables, outside, IInv, RowsTyped
<1>9. RowsTyped'
  BY <1>6, <1>8 DEF IInv, RowsTyped, tables, outside
<1>10. RowsCharged'
  <2>1. ASSUME NEW s \in Subs, apple[s] # None PROVE Told(s, apple[s].expires)'
    <3>1. PICK e : e = apple[s].expires
      OBVIOUS
    <3>2. Told(s, e)'
      BY <1>8, <2>1, <3>1, ToldStays DEF IInv, RowsCharged
    <3> QED BY <1>6, <3>1, <3>2 DEF tables
  <2> QED BY <1>6, <2>1 DEF IInv, RowsCharged, tables, outside
<1>11. PlansHaveSources'
  BY <1>6, <1>8, SourcesStay DEF IInv, tables
<1>12. Told(m.tx.sub, apple[m.tx.sub].expires)' /\ Told(m.tx.sub, m.tx.expires)'
       /\ Linked(m.tx.sub, apple[m.tx.sub].user)'
  <2>1. PICK s, e, f, u : /\ s = m.tx.sub /\ e = apple[m.tx.sub].expires /\ f = m.tx.expires
                          /\ u = apple[m.tx.sub].user
    OBVIOUS
  <2>2. Told(s, e) /\ Linked(s, u) /\ s \in Subs
    BY <1>1, <1>2, <2>1 DEF IInv, RowsCharged, Linked
  <2>3. Told(s, e)' /\ Linked(s, u)'
    BY <1>8, <2>2, ToldStays, LinkedStays
  <2>4. Told(s, f)'
    BY <1>1, <1>6, <2>1, <2>3 DEF Told, outside
  <2> QED BY <1>6, <2>1, <2>3, <2>4 DEF tables
<1>13. PICK k, x : k = l /\ x = label
  OBVIOUS
<1>14. Good(k, x)'
  <2>1. k.user \in Users /\ k.row \in AppleRow /\ k.row.user = k.user /\ k.tx \in Transaction
        /\ k.kind \in {"apple", "renewal"} /\ x \in {"end", "upsert", "keep"}
    BY <1>2, <1>3, <1>4, <1>7, <1>13
  <2>2. Told(k.tx.sub, k.row.expires)' /\ Told(k.tx.sub, k.tx.expires)' /\ Linked(k.tx.sub, k.user)'
    BY <1>6, <1>7, <1>12, <1>13 DEF tables
  <2> QED BY <2>1, <2>2 DEF Good, Paying, Redeemers
<1>15. k \in LocalRow /\ x \in Labels
  BY <1>4, <1>7, <1>13 DEF Labels
<1>16. loc' = [loc EXCEPT ![p] = k] /\ pc' = [pc EXCEPT ![p] = x]
  BY <1>5, <1>13
<1> QED BY <1>8, <1>9, <1>10, <1>11, <1>14, <1>15, <1>16, ProcessStep

\* A row of apple_subscriptions is written for the user who has it.
LEMMA AppleStep ==
    ASSUME IInv, NEW p \in Procs, NEW s \in Subs, NEW row \in AppleRow, Told(s, row.expires),
           apple[s] = None \/ apple[s].user = row.user, apple' = [apple EXCEPT ![s] = row],
           UNCHANGED <<now, user, workspace, coupon, redemptions, outside, history, faults>>
    PROVE  Grows /\ RowsTyped' /\ RowsCharged' /\ PlansHaveSources' /\ Linked(s, row.user)'
<1> USE NoneAssumption
<1>1. apple'[s] = row /\ \A t \in Subs \ {s} : apple'[t] = apple[t]
  BY DEF IInv, RowsTyped
<1>2. Grows /\ Linked(s, row.user)'
  BY <1>1 DEF Grows, SomeOrderPaid, Linked, outside, history
<1>3. RowsTyped'
  BY DEF IInv, RowsTyped, outside, history
<1>4. \A t \in Subs : apple'[t] # None => Told(t, apple'[t].expires)
  BY <1>1 DEF IInv, RowsCharged
<1>5. RowsCharged'
  BY <1>4 DEF IInv, RowsCharged, Told, outside, history
<1>6. PlansHaveSources'
  BY <1>2, SourcesStay DEF IInv, history
<1> QED BY <1>2, <1>3, <1>5, <1>6

LEMMA UpsertStep == ASSUME IInv, NEW p \in Procs, Upsert(p) PROVE IInv'
<1>1. CASE Finish(p) /\ apple' = apple
  BY <1>1, FinishStep DEF Upsert, tables, history, IInv, RowsTyped
<1>2. CASE ~(Finish(p) /\ apple' = apple)
  <2>1. PICK l : l = loc[p]
    OBVIOUS
  <2>2. /\ l \in LocalRow /\ Good(l, "upsert") /\ l.user \in Users /\ l.tx \in Transaction
        /\ l.tx.sub \in Subs /\ Told(l.tx.sub, l.tx.expires)
    BY <2>1, LocalFacts DEF Upsert, Good, Transaction
  <2> DEFINE row == [user |-> l.user, plan |-> l.tx.plan, active |-> TRUE,
                     expires |-> l.tx.expires]
  <2>3. row \in AppleRow /\ row.expires = l.tx.expires /\ row.user = l.user
    BY <2>2 DEF AppleRow, Transaction
  <2>4. apple' = [apple EXCEPT ![l.tx.sub] = row]
        /\ (apple[l.tx.sub] = None \/ apple[l.tx.sub].user = l.user)
    BY <1>2, <2>1 DEF Upsert
  <2> HIDE DEF row
  <2>5. Grows /\ RowsTyped' /\ RowsCharged' /\ PlansHaveSources'
    BY <2>2, <2>3, <2>4, AppleStep DEF Upsert
  <2>6. Good(l, "upsert")'
    BY <2>2, <2>5, GoodStays
  <2>7. Good(l, "read")'
    BY <2>6 DEF Good, Paying, Redeemers
  <2>8. pc' = [pc EXCEPT ![p] = "read"] /\ loc' = [loc EXCEPT ![p] = l]
    BY <1>2, <2>1, LocalFacts DEF Upsert, Goto
  <2> QED BY <2>2, <2>5, <2>7, <2>8, ProcessStep DEF Labels
<1> QED BY <1>1, <1>2

LEMMA SaveNotifiedStep == ASSUME IInv, NEW p \in Procs, SaveNotified(p) PROVE IInv'
<1>1. PICK l, label : l = loc[p] /\ label = pc[p]
  OBVIOUS
<1>2. /\ l \in LocalRow /\ Good(l, label) /\ label \in {"end", "keep"} /\ l.user \in Users
      /\ l.tx \in Transaction /\ l.tx.sub \in Subs /\ l.row \in AppleRow /\ l.row.user = l.user
      /\ Told(l.tx.sub, l.tx.expires) /\ Told(l.tx.sub, l.row.expires) /\ Linked(l.tx.sub, l.user)
  BY <1>1, LocalFacts DEF SaveNotified, Good, Transaction
<1> DEFINE row == [l.row EXCEPT !.active = (label = "keep"),
                                !.expires = IF l.tx.expires = None THEN @ ELSE l.tx.expires]
           k == [Fresh EXCEPT !.kind = "apple", !.user = l.user]
<1>3. row \in AppleRow /\ row.user = l.user /\ Told(l.tx.sub, row.expires)
  BY <1>2 DEF AppleRow, Transaction
<1>4. apple' = [apple EXCEPT ![l.tx.sub] = row]
  BY <1>1 DEF SaveNotified
<1> HIDE DEF row
<1>5. Grows /\ RowsTyped' /\ RowsCharged' /\ PlansHaveSources'
  <2>1. apple[l.tx.sub].user = row.user
    BY <1>2, <1>3 DEF Linked
  <2>2. UNCHANGED <<now, user, workspace, coupon, redemptions, outside, history, faults>>
    BY DEF SaveNotified
  <2> QED BY <1>2, <1>3, <1>4, <2>1, <2>2, AppleStep
<1>6. k \in LocalRow /\ k.kind = "apple" /\ k.user = l.user
  BY <1>2, FreshGood DEF LocalRow
<1>7. Good(k, "read")
  BY <1>2, <1>6 DEF Good, Paying, Redeemers
<1>8. Good(k, "read")'
  BY <1>5, <1>6, <1>7, GoodStays
<1>9. pc' = [pc EXCEPT ![p] = "read"] /\ loc' = [loc EXCEPT ![p] = k]
  BY <1>1 DEF SaveNotified, Goto, Remember
<1> HIDE DEF k
<1> QED BY <1>5, <1>6, <1>8, <1>9, ProcessStep DEF Labels

-----------------------------------------------------------------------------
(* The outside, time and failures *)

\* A step of no process that leaves the users and the coupon alone.
LEMMA OutsideStep ==
    ASSUME IInv, Grows, RowsTyped', RowsCharged', UNCHANGED <<user, bought, pc, loc>>
    PROVE  IInv'
<1>1. PlansHaveSources'
  BY SourcesStay DEF IInv
<1>2. ASSUME NEW q \in Procs PROVE Good(loc[q], pc[q])'
  <2>1. PICK l, label : l = loc[q] /\ label = pc[q]
    OBVIOUS
  <2>2. loc'[q] = l /\ pc'[q] = label /\ Good(l, label) /\ l \in LocalRow
    BY <2>1 DEF IInv, ProcsGood
  <2>3. Good(l, label)'
    BY <2>2, GoodStays
  <2> QED BY <2>2, <2>3, GoodAt
<1> QED BY <1>1, <1>2 DEF IInv, ProcsGood

LEMMA PayOrderStep == ASSUME IInv, PayOrder PROVE IInv'
<1>1. PICK o \in orders : orders' = (orders \ {o}) \cup {[o EXCEPT !.paid = TRUE]}
  BY DEF PayOrder
<1> DEFINE paid == [o EXCEPT !.paid = TRUE]
<1>2. o \in Order /\ orders \subseteq Order /\ IsFiniteSet(orders)
  BY DEF IInv, RowsTyped
<1>3. paid \in Order /\ paid.paid
  BY <1>2 DEF Order
<1>4. IsFiniteSet(orders')
  BY <1>1, <1>2, FS_RemoveElement, FS_AddElement
<1> HIDE DEF paid
<1>5. orders' = (orders \ {o}) \cup {paid}
  BY <1>1 DEF paid
<1>6. SomeOrderPaid'
  BY <1>3, <1>5 DEF SomeOrderPaid
<1>7. Grows
  BY <1>6 DEF Grows, PayOrder, tables, history
<1>8. RowsTyped'
  BY <1>2, <1>3, <1>4, <1>5 DEF IInv, RowsTyped, PayOrder, tables, history
<1>9. RowsCharged'
  BY DEF IInv, RowsCharged, Told, PayOrder, tables, history
<1> QED BY <1>7, <1>8, <1>9, OutsideStep DEF PayOrder, tables, history

\* The App Store writes a period that was charged.
LEMMA StoreStep ==
    ASSUME IInv, NEW s \in Subs, NEW tx \in Transaction, tx.sub = s, tx.expires \in Nat,
           store' = [store EXCEPT ![s] = tx],
           charged \subseteq charged', <<s, tx.expires>> \in charged',
           UNCHANGED <<now, tables, shop, orders, pc, loc, history, faults>>
    PROVE  IInv'
<1>1. Grows
  BY DEF Grows, SomeOrderPaid, tables, history
<1>2. RowsTyped'
  BY DEF IInv, RowsTyped, tables, history
<1>3. \A t \in Subs : store'[t] # None =>
          /\ store'[t].sub = t /\ store'[t].expires \in Nat
          /\ <<t, store'[t].expires>> \in charged'
  BY DEF IInv, RowsTyped, RowsCharged
<1>4. (\A t \in Subs : apple[t] # None => Told(t, apple[t].expires))'
  <2>1. ASSUME NEW t \in Subs, NEW e, Told(t, e) PROVE Told(t, e)'
    BY <1>1, <2>1, ToldStays
  <2> QED BY <2>1 DEF IInv, RowsCharged, tables, Told, history
<1>5. RowsCharged'
  BY <1>3, <1>4 DEF RowsCharged, Told
<1> QED BY <1>1, <1>2, <1>5, OutsideStep DEF tables, history

LEMMA StoreChargeStep == ASSUME IInv, StoreCharge PROVE IInv'
<1>1. PICK s \in Subs, plan \in Plans \ {Free} :
         LET from == IF store[s] # None /\ store[s].expires > now THEN store[s].expires ELSE now
             tx   == [sub |-> s, plan |-> plan, expires |-> from + Month, revoked |-> FALSE]
         IN  /\ store' = [store EXCEPT ![s] = tx]
             /\ charged' = charged \cup {<<s, from + Month>>}
  BY DEF StoreCharge
<1> DEFINE from == IF store[s] # None /\ store[s].expires > now THEN store[s].expires ELSE now
           tx   == [sub |-> s, plan |-> plan, expires |-> from + Month, revoked |-> FALSE]
<1>2. from \in Nat
  BY DEF IInv, RowsTyped, RowsCharged
<1> HIDE DEF from
<1>3. tx \in Transaction /\ tx.sub = s /\ tx.expires = from + Month /\ tx.expires \in Nat
  BY <1>2, UserPlansAssumption DEF Transaction
<1>4. store' = [store EXCEPT ![s] = tx] /\ charged' = charged \cup {<<s, tx.expires>>}
  BY <1>1 DEF from
<1> HIDE DEF tx
<1> QED BY <1>3, <1>4, StoreStep DEF StoreCharge

LEMMA StoreRevokeStep == ASSUME IInv, StoreRevoke PROVE IInv'
<1>1. PICK s \in Subs : store[s] # None /\ store' = [store EXCEPT ![s].revoked = TRUE]
  BY DEF StoreRevoke
<1> DEFINE tx == [store[s] EXCEPT !.revoked = TRUE]
<1>2. store[s] \in Transaction /\ store[s].sub = s /\ store[s].expires \in Nat
      /\ <<s, store[s].expires>> \in charged
  BY <1>1 DEF IInv, RowsTyped, RowsCharged
<1>3. tx \in Transaction /\ tx.sub = s /\ tx.expires = store[s].expires
  BY <1>2 DEF Transaction
<1>4. store' = [store EXCEPT ![s] = tx]
  BY <1>1
<1> HIDE DEF tx
<1> QED BY <1>2, <1>3, <1>4, StoreStep DEF StoreRevoke

LEMMA NextDayStep == ASSUME IInv, NextDay PROVE IInv'
<1>1. Grows
  BY DEF Grows, SomeOrderPaid, NextDay, tables, outside, history
<1>2. RowsTyped'
  BY DEF IInv, RowsTyped, NextDay, tables, outside, history
<1>3. RowsCharged'
  BY DEF IInv, RowsCharged, Told, history, NextDay, tables, outside
<1> QED BY <1>1, <1>2, <1>3, OutsideStep DEF NextDay, tables, history

LEMMA FailStep == ASSUME IInv, NEW p \in Procs, Fail(p) PROVE IInv'
<1>1. Grows
  BY DEF Grows, SomeOrderPaid, Fail, tables, outside
<1>2. RowsTyped'
  BY DEF IInv, RowsTyped, Fail, tables, outside
<1>3. RowsCharged'
  BY DEF IInv, RowsCharged, Told, Fail, tables, outside
<1>4. PlansHaveSources'
  BY <1>1, SourcesStay DEF IInv, Fail, tables
<1>5. CASE Finish(p)
  <2>1. Good(Fresh, "idle")'
    BY <1>1, FreshGood, GoodStays
  <2> QED BY <1>1, <1>2, <1>3, <1>4, <1>5, <2>1, FreshGood, ProcessStep
          DEF Finish, Goto, Remember, Labels
<1>6. CASE loc[p].kind = "renewal" /\ pc[p] # "keep" /\ Goto(p, "keep") /\ loc' = loc
  <2>1. PICK l : l = loc[p]
    OBVIOUS
  <2>2. l \in LocalRow /\ Good(l, "keep") /\ loc' = [loc EXCEPT ![p] = l]
    BY <1>6, <2>1, LocalFacts DEF Good, Paying, Redeemers
  <2>3. Good(l, "keep")'
    BY <1>1, <2>2, GoodStays
  <2> QED BY <1>1, <1>2, <1>3, <1>4, <1>6, <2>2, <2>3, ProcessStep DEF Goto, Labels
<1> QED BY <1>5, <1>6 DEF Fail

-----------------------------------------------------------------------------
(* The theorems *)

\* The empty database, with the legacy plans, satisfies the invariant.
THEOREM InitIInv == Init => IInv
<1> SUFFICES ASSUME Init PROVE IInv
  OBVIOUS
<1>1. user \in [Users -> UserRow]
  BY UserPlansAssumption, FreshGood DEF Init, UserRow, Plans, Free, Silver
<1>2. workspace \in [Users -> Plans \cup {None}]
  BY <1>1 DEF Init, UserRow
<1>3. shop \in Shops /\ coupon \in [active : BOOLEAN, count : Nat]
  BY DEF Init
<1>4. /\ now \in Nat /\ faults \in Nat /\ missed \in Int /\ redemptions \subseteq Redemption
      /\ orders \subseteq Order /\ misled \subseteq Subs
      /\ IsFiniteSet(orders) /\ IsFiniteSet(redemptions)
  BY FS_EmptySet DEF Init
<1>5. apple \in [Subs -> AppleRow \cup {None}] /\ store \in [Subs -> Transaction \cup {None}]
  BY DEF Init
<1>6. RowsTyped
  BY <1>1, <1>2, <1>3, <1>4, <1>5 DEF RowsTyped
<1>7. RowsCharged
  BY DEF Init, RowsCharged
<1>8. PlansHaveSources
  BY UserPlansAssumption DEF Init, PlansHaveSources, Backed, Stored, FreeRow, Free, Silver
<1>9. ProcsGood
  BY FreshGood DEF Init, ProcsGood, Labels
<1> QED BY <1>6, <1>7, <1>8, <1>9 DEF IInv

\* A step that changes nothing.
LEMMA StutterStep == ASSUME IInv, UNCHANGED vars PROVE IInv'
<1> USE DEF vars, tables, outside, history
<1>1. Grows
  BY DEF Grows, SomeOrderPaid
<1>2. RowsTyped'
  BY DEF IInv, RowsTyped
<1>3. RowsCharged'
  BY DEF IInv, RowsCharged, Told
<1> QED BY <1>1, <1>2, <1>3, OutsideStep

\* Every step of every request, job, customer, store or failure keeps it.
THEOREM StepIInv == IInv /\ [Next]_vars => IInv'
<1> SUFFICES ASSUME IInv, [Next]_vars PROVE IInv'
  OBVIOUS
<1>1. ASSUME NEW p \in Procs, Start(p) PROVE IInv'
  BY <1>1, StartOrderStep, StartVerifyStep, StartCronStep, StartAppleStep,
     StartNotificationStep, StartAdminStep DEF Start
<1>2. ASSUME NEW p \in Procs, Continue(p) PROVE IInv'
  BY <1>2, CheckCouponStep, CheckUsedStep, RecordRedemptionStep, CountRedemptionStep,
     ChargeStep, ActivateStep, ReadUserStep, PickPlanStep, SavePlanStep, SyncStep,
     NextExpiredStep, EndCronStep, UpsertStep, SaveNotifiedStep, SaveCouponStep DEF Continue
<1> QED BY <1>1, <1>2, FailStep, PayOrderStep, StoreChargeStep, StoreRevokeStep,
           NextDayStep, StutterStep DEF Next

\* The invariant holds in every reachable state.
THEOREM Invariance == Spec => []IInv
  BY InitIInv, StepIInv, PTL DEF Spec

\* The type invariant of the plans, for every value of the constants.
THEOREM TypeCorrect == Spec => []TypeOK
<1>1. IInv => TypeOK
  BY DEF IInv, RowsTyped, ProcsGood, TypeOK
<1> QED BY <1>1, Invariance, PTL

\* Whatever the order of payments, requests, notifications, jobs and failures, the
\* plan on a user row and its end come from the source the row names: one
\* activation after a payment, or a subscription the user has linked.
THEOREM PlansComeFromSources == Spec => []PlansHaveSources
<1>1. IInv => PlansHaveSources
  BY DEF IInv
<1> QED BY <1>1, Invariance, PTL

-----------------------------------------------------------------------------
(* The count of the coupon *)

\* Handlers between the last check of the limit and the increment.
Busy == Redeeming \cup Counting

\* An administrator saves a count that has not gone down since it was read.
AdminsBehind ==
    \A p \in Procs : pc[p] = "saveCoupon" => "admin" \in Ops[p] /\ loc[p].count <= coupon.count

\* Redemptions have ids of their own; each is counted, about to be, or missed; and
\* a handler that passed the check stood below the limit.
Counts ==
    /\ \A r \in redemptions : r.id < Cardinality(redemptions)
    /\ Cardinality(redemptions) = coupon.count + Cardinality(Counting) + missed
    /\ coupon.count + Cardinality(Busy) <= MaxRedemptions + Cardinality(Procs) - 1
    /\ AdminsBehind

Numbers ==
    /\ coupon.count \in Nat /\ missed \in Int /\ IsFiniteSet(redemptions)
    /\ Cardinality(redemptions) \in Nat
    /\ IsFiniteSet(Counting) /\ Cardinality(Counting) \in Nat
    /\ IsFiniteSet(Redeeming) /\ Cardinality(Redeeming) \in Nat
    /\ IsFiniteSet(Busy) /\ Cardinality(Busy) \in Nat /\ Cardinality(Busy) <= Cardinality(Procs)
    /\ Cardinality(Busy) = Cardinality(Redeeming) + Cardinality(Counting)
    /\ Cardinality(Procs) \in Nat \ {0} /\ MaxRedemptions \in Nat \ {0}

LEMMA NumbersOK == ASSUME IInv PROVE Numbers
<1>1. coupon.count \in Nat /\ missed \in Int /\ IsFiniteSet(redemptions)
  BY DEF IInv, RowsTyped
<1>2. Busy \in SUBSET Procs /\ Redeeming \in SUBSET Procs /\ Counting \in SUBSET Procs
  BY DEF Busy, Redeeming, Counting
<1>3. IsFiniteSet(Procs) /\ Procs # {} /\ MaxRedemptions \in Nat \ {0}
  BY UserPlansAssumption
<1>4. /\ IsFiniteSet(Busy) /\ IsFiniteSet(Redeeming) /\ IsFiniteSet(Counting)
      /\ Cardinality(Busy) <= Cardinality(Procs)
  BY <1>2, <1>3, FS_Subset
<1>5. Redeeming \cap Counting = {}
  BY DEF Redeeming, Counting
<1>6. Cardinality(Redeeming \cap Counting) = 0
  BY <1>5, FS_EmptySet
<1>7. Cardinality(Busy) = Cardinality(Redeeming) + Cardinality(Counting) - 0
  BY <1>4, <1>6, FS_Union DEF Busy
<1>8. /\ Cardinality(Busy) \in Nat /\ Cardinality(Redeeming) \in Nat
      /\ Cardinality(Counting) \in Nat /\ Cardinality(redemptions) \in Nat
      /\ Cardinality(Procs) \in Nat
  BY <1>1, <1>3, <1>4, FS_CardinalityType
<1>9. Cardinality(Procs) # 0
  BY <1>3, FS_EmptySet
<1> QED BY <1>1, <1>3, <1>4, <1>7, <1>8, <1>9 DEF Numbers

\* A step that touches no count and lets no process pass the check.
LEMMA CountsStay ==
    ASSUME IInv, Counts, UNCHANGED <<redemptions, missed>>, coupon'.count = coupon.count,
           Counting' = Counting, Busy' \subseteq Busy, AdminsBehind'
    PROVE  Counts'
<1>1. Cardinality(Busy') <= Cardinality(Busy) /\ Cardinality(Busy') \in Nat
  BY NumbersOK, FS_Subset, FS_CardinalityType DEF Numbers
<1> HIDE DEF Busy, Counting
<1> QED BY <1>1, NumbersOK DEF Counts, Numbers

\* What a step of p does to the others.
LEMMA MoveStep ==
    ASSUME IInv, NEW p \in Procs, NEW label, Goto(p, label), loc' = loc \/ \E l : Remember(p, l)
    PROVE  pc'[p] = label /\ \A q \in Procs \ {p} : pc'[q] = pc[q] /\ loc'[q] = loc[q]
  BY DEF IInv, ProcsGood, Goto, Remember

\* A step of p that neither passes the check nor records, counts or saves.
LEMMA QuietStep ==
    ASSUME IInv, Counts, NEW p \in Procs, pc[p] # "count", NEW label,
           label \notin {"again", "record", "count", "saveCoupon"}, Goto(p, label),
           loc' = loc \/ \E l : Remember(p, l), UNCHANGED <<redemptions, missed>>,
           coupon'.count = coupon.count
    PROVE  Counts'
<1>1. pc'[p] = label /\ \A q \in Procs \ {p} : pc'[q] = pc[q] /\ loc'[q] = loc[q]
  BY MoveStep
<1>2. Counting' = Counting /\ Busy' \subseteq Busy
  BY <1>1 DEF Counting, Redeeming, Busy
<1>3. AdminsBehind'
  BY <1>1 DEF Counts, AdminsBehind
<1> QED BY <1>2, <1>3, CountsStay

LEMMA FinishCounts ==
    ASSUME IInv, Counts, NEW p \in Procs, pc[p] # "count", Finish(p),
           UNCHANGED <<redemptions, missed>>, coupon'.count = coupon.count
    PROVE  Counts'
  BY QuietStep DEF Finish

LEMMA StartCounts ==
    ASSUME IInv, Counts, NEW p \in Procs, Start(p), ~StartAdmin(p) PROVE Counts'
<1> USE QuietStep DEF tables, history
<1>1. CASE StartOrder(p)
  <2>1. Goto(p, "coupon") \/ Goto(p, "charge")
    BY <1>1 DEF StartOrder
  <2>2. \E l : Remember(p, l)
    BY <1>1 DEF StartOrder
  <2> QED BY <1>1, <2>1, <2>2 DEF StartOrder
<1>2. CASE StartVerify(p)
  <2>1. Goto(p, "coupon") \/ Goto(p, "activate")
    BY <1>2 DEF StartVerify
  <2>2. \E l : Remember(p, l)
    BY <1>2 DEF StartVerify
  <2> QED BY <1>2, <2>1, <2>2 DEF StartVerify
<1>3. CASE StartCron(p)
  BY <1>3 DEF StartCron
<1>4. CASE StartApple(p)
  <2>1. \E l : Remember(p, l)
    BY <1>4 DEF StartApple
  <2> QED BY <1>4, <2>1 DEF StartApple
<1>5. CASE StartNotification(p)
  <2>1. Goto(p, "end") \/ Goto(p, "upsert") \/ Goto(p, "keep")
    BY <1>5 DEF StartNotification
  <2>2. \E l : Remember(p, l)
    BY <1>5 DEF StartNotification
  <2> QED BY <1>5, <2>1, <2>2 DEF StartNotification
<1> QED BY <1>1, <1>2, <1>3, <1>4, <1>5 DEF Start

LEMMA PlanCounts ==
    ASSUME IInv, Counts, NEW p \in Procs,
           \/ Charge(p) \/ Activate(p) \/ ReadUser(p) \/ PickPlan(p) \/ SavePlan(p) \/ Sync(p)
           \/ NextExpired(p) \/ EndCron(p) \/ Upsert(p) \/ SaveNotified(p)
    PROVE  Counts'
<1> USE QuietStep, FinishCounts DEF tables, history
<1>1. CASE Charge(p)
  BY <1>1 DEF Charge
<1>2. CASE Activate(p)
  BY <1>2 DEF Activate
<1>3. CASE ReadUser(p)
  BY <1>3 DEF ReadUser
<1>4. CASE PickPlan(p)
  <2>1. \E l : Remember(p, l)
    BY <1>4 DEF PickPlan
  <2> QED BY <1>4, <2>1 DEF PickPlan
<1>5. CASE SavePlan(p)
  BY <1>5 DEF SavePlan
<1>6. CASE Sync(p)
  BY <1>6 DEF Sync
<1>7. CASE NextExpired(p)
  <2>1. \E l : Remember(p, l)
    BY <1>7 DEF NextExpired
  <2> QED BY <1>7, <2>1 DEF NextExpired
<1>8. CASE EndCron(p)
  BY <1>8 DEF EndCron
<1>9. CASE Upsert(p)
  BY <1>9 DEF Upsert
<1>10. CASE SaveNotified(p)
  BY <1>10 DEF SaveNotified
<1> QED BY <1>1, <1>2, <1>3, <1>4, <1>5, <1>6, <1>7, <1>8, <1>9, <1>10

\* The check of the limit lets a process pass only below it.
LEMMA CheckCounts == ASSUME IInv, Counts, NEW p \in Procs, CheckCoupon(p) PROVE Counts'
<1> USE DEF tables, history
<1>1. CASE Finish(p)
  BY <1>1, FinishCounts DEF CheckCoupon
<1>2. CASE Goto(p, "used") /\ loc' = loc
  BY <1>2, QuietStep DEF CheckCoupon
<1>3. CASE CouponValid /\ pc[p] = "redeem" /\ Goto(p, "again") /\ loc' = loc
  <2>1. pc'[p] = "again" /\ \A q \in Procs \ {p} : pc'[q] = pc[q] /\ loc'[q] = loc[q]
    BY <1>3, MoveStep
  <2>2. Counting' = Counting /\ Busy' \in SUBSET Procs
    BY <1>3, <2>1 DEF Counting, Busy, Redeeming
  <2>3. Cardinality(Busy') <= Cardinality(Procs) /\ Cardinality(Busy') \in Nat
    BY <2>2, UserPlansAssumption, FS_Subset, FS_CardinalityType
  <2>4. AdminsBehind'
    BY <2>1 DEF AdminsBehind, Counts, CheckCoupon
  <2> HIDE DEF Busy, Counting
  <2> QED BY <1>3, <2>2, <2>3, <2>4, NumbersOK DEF Counts, Numbers, CheckCoupon, CouponValid
<1> QED BY <1>1, <1>2, <1>3 DEF CheckCoupon

LEMMA CheckUsedCounts == ASSUME IInv, Counts, NEW p \in Procs, CheckUsed(p) PROVE Counts'
<1> USE DEF tables, history
<1>1. CASE Finish(p)
  BY <1>1, FinishCounts DEF CheckUsed
<1>2. CASE (Goto(p, "charge") \/ Goto(p, "redeem")) /\ loc' = loc
  BY <1>2, QuietStep DEF CheckUsed
<1>3. CASE pc[p] = "again" /\ Goto(p, "record") /\ loc' = loc
  <2>1. pc'[p] = "record" /\ \A q \in Procs \ {p} : pc'[q] = pc[q] /\ loc'[q] = loc[q]
    BY <1>3, MoveStep
  <2>2. Counting' = Counting /\ Busy' \subseteq Busy
    BY <1>3, <2>1 DEF Counting, Busy, Redeeming
  <2>3. AdminsBehind'
    BY <2>1 DEF AdminsBehind, Counts, CheckUsed
  <2> QED BY <2>2, <2>3, CountsStay DEF CheckUsed
<1> QED BY <1>1, <1>2, <1>3 DEF CheckUsed

LEMMA RecordCounts == ASSUME IInv, Counts, NEW p \in Procs, RecordRedemption(p) PROVE Counts'
<1> DEFINE r == [id |-> Cardinality(redemptions), user |-> loc[p].user]
<1>1. redemptions' = redemptions \cup {r} /\ r \notin redemptions
  BY NumbersOK DEF RecordRedemption, Counts, Numbers
<1>2. Cardinality(redemptions') = Cardinality(redemptions) + 1
  BY <1>1, NumbersOK, FS_AddElement DEF Numbers
<1>3. \A x \in redemptions' : x.id < Cardinality(redemptions')
  <2>1. \A x \in redemptions : x.id \in Nat /\ x.id < Cardinality(redemptions)
    BY DEF IInv, RowsTyped, Redemption, Counts
  <2> QED BY <1>1, <1>2, <2>1, NumbersOK DEF Numbers
<1>4. pc'[p] = "count" /\ \A q \in Procs \ {p} : pc'[q] = pc[q] /\ loc'[q] = loc[q]
  BY MoveStep DEF RecordRedemption
<1>5. pc[p] = "record" /\ Busy' = Busy /\ Counting' = Counting \cup {p} /\ p \notin Counting
  BY <1>4 DEF RecordRedemption, Busy, Redeeming, Counting
<1>6. Cardinality(Counting') = Cardinality(Counting) + 1
  BY <1>5, NumbersOK, FS_AddElement DEF Numbers
<1>7. AdminsBehind' /\ coupon' = coupon /\ missed' = missed
  BY <1>4 DEF AdminsBehind, Counts, RecordRedemption, history
<1> HIDE DEF Busy, Counting
<1> QED BY <1>2, <1>3, <1>5, <1>6, <1>7, NumbersOK DEF Counts, Numbers

\* A process leaves "count", with the increment or without.
LEMMA LeaveCount ==
    ASSUME IInv, Counts, NEW p \in Procs, pc[p] = "count", NEW label, Goto(p, label),
           label \in {"activate", "idle"}, loc' = loc \/ \E l : Remember(p, l),
           redemptions' = redemptions,
           \/ coupon'.count = coupon.count + 1 /\ missed' = missed
           \/ coupon'.count = coupon.count /\ missed' = missed + 1
    PROVE  Counts'
<1>1. pc'[p] = label /\ \A q \in Procs \ {p} : pc'[q] = pc[q] /\ loc'[q] = loc[q]
  BY MoveStep
<1>2. /\ Counting' = Counting \ {p} /\ p \in Counting
      /\ Busy' = Busy \ {p} /\ p \in Busy
  BY <1>1 DEF Busy, Redeeming, Counting
<1>3. /\ Cardinality(Counting') = Cardinality(Counting) - 1
      /\ Cardinality(Busy') = Cardinality(Busy) - 1
  BY <1>2, NumbersOK, FS_RemoveElement DEF Numbers
<1>4. AdminsBehind'
  <2>1. \A q \in Procs : loc[q].count \in Nat
    BY LocalFacts DEF LocalRow
  <2> QED BY <1>1, <2>1, NumbersOK DEF AdminsBehind, Counts, Numbers
<1> HIDE DEF Busy, Counting
<1> QED BY <1>3, <1>4, NumbersOK DEF Counts, Numbers

LEMMA CountCounts == ASSUME IInv, Counts, NEW p \in Procs, CountRedemption(p) PROVE Counts'
<1>1. coupon'.count = coupon.count + 1
  BY DEF CountRedemption, IInv, RowsTyped
<1> QED BY <1>1, LeaveCount DEF CountRedemption, history

LEMMA StartAdminCounts == ASSUME IInv, Counts, NEW p \in Procs, StartAdmin(p) PROVE Counts'
<1> DEFINE l == [Fresh EXCEPT !.kind = "admin", !.count = coupon.count]
<1>1. "admin" \in Ops[p] /\ pc[p] = "idle" /\ Remember(p, l) /\ Goto(p, "saveCoupon")
  BY DEF StartAdmin
<1>2. l.count = coupon.count
  BY DEF Fresh
<1> HIDE DEF l
<1>3. /\ pc'[p] = "saveCoupon" /\ loc'[p] = l
      /\ \A q \in Procs \ {p} : pc'[q] = pc[q] /\ loc'[q] = loc[q]
  BY <1>1 DEF Goto, Remember, IInv, ProcsGood
<1>4. Counting' = Counting /\ Busy' \subseteq Busy
  BY <1>1, <1>3 DEF Counting, Redeeming, Busy
<1>5. UNCHANGED <<coupon, redemptions, missed>>
  BY DEF StartAdmin, tables, history
<1>6. AdminsBehind'
  BY <1>1, <1>2, <1>3, <1>5, NumbersOK DEF Counts, AdminsBehind, Numbers
<1> QED BY <1>4, <1>5, <1>6, CountsStay

\* Nobody else holds a count, so that the one saved can only lower it.
LEMMA SaveCouponCounts == ASSUME IInv, Counts, NEW p \in Procs, SaveCoupon(p) PROVE Counts'
<1>1. pc[p] = "saveCoupon" /\ Goto(p, "idle") /\ Remember(p, Fresh)
  BY DEF SaveCoupon, Finish
<1>2. pc'[p] = "idle" /\ \A q \in Procs \ {p} : pc'[q] = pc[q] /\ loc'[q] = loc[q]
  BY <1>1, MoveStep
<1>3. Counting' = Counting /\ Busy' = Busy
  BY <1>1, <1>2 DEF Counting, Redeeming, Busy
<1>4. /\ coupon'.count = loc[p].count /\ loc[p].count \in Nat
      /\ missed' = missed + (coupon.count - loc[p].count) /\ redemptions' = redemptions
  <2>1. loc[p].count \in Nat
    BY LocalFacts DEF LocalRow
  <2>2. PICK on \in BOOLEAN : coupon' = [coupon EXCEPT !.active = on, !.count = loc[p].count]
    BY DEF SaveCoupon
  <2>3. coupon'.count = loc[p].count
    BY <2>2 DEF IInv, RowsTyped
  <2> QED BY <2>1, <2>3 DEF SaveCoupon
<1>5. loc[p].count <= coupon.count /\ "admin" \in Ops[p]
  BY <1>1 DEF Counts, AdminsBehind
<1>6. AdminsBehind'
  <2>1. \A q \in Procs \ {p} : pc[q] # "saveCoupon"
    BY <1>5, UserPlansAssumption DEF Counts, AdminsBehind
  <2> QED BY <1>2, <2>1 DEF AdminsBehind
<1> HIDE DEF Busy, Counting
<1> QED BY <1>3, <1>4, <1>5, <1>6, NumbersOK DEF Counts, Numbers

LEMMA FailCounts == ASSUME IInv, Counts, NEW p \in Procs, Fail(p) PROVE Counts'
<1>1. redemptions' = redemptions /\ coupon'.count = coupon.count
  BY DEF Fail, tables
<1>2. CASE pc[p] = "count"
  <2>1. Finish(p)
    BY <1>2, LocalFacts DEF Fail, Good, Paying
  <2> QED BY <1>1, <1>2, <2>1, LeaveCount DEF Fail, Finish
<1>3. CASE pc[p] # "count"
  <2>1. UNCHANGED <<redemptions, missed>>
    BY <1>1, <1>3 DEF Fail
  <2> QED BY <1>1, <1>3, <2>1, QuietStep, FinishCounts DEF Fail
<1> QED BY <1>2, <1>3

\* A step of no process.
LEMMA OutsideCounts ==
    ASSUME IInv, Counts, UNCHANGED <<redemptions, missed, coupon, pc, loc>> PROVE Counts'
<1>1. Counting' = Counting /\ Busy' \subseteq Busy /\ AdminsBehind'
  BY DEF Counting, Redeeming, Busy, Counts, AdminsBehind
<1> QED BY <1>1, CountsStay

\* Every step keeps the accounts of the coupon.
LEMMA StepCounts == IInv /\ Counts /\ [Next]_vars => Counts'
<1> SUFFICES ASSUME IInv, Counts, [Next]_vars PROVE Counts'
  OBVIOUS
<1>1. ASSUME NEW p \in Procs, Start(p) PROVE Counts'
  BY <1>1, StartCounts, StartAdminCounts
<1>2. ASSUME NEW p \in Procs, Continue(p) PROVE Counts'
  BY <1>2, CheckCounts, CheckUsedCounts, RecordCounts, CountCounts, PlanCounts,
     SaveCouponCounts DEF Continue
<1>3. CASE PayOrder \/ StoreCharge \/ StoreRevoke \/ NextDay \/ UNCHANGED vars
  BY <1>3, OutsideCounts
     DEF PayOrder, StoreCharge, StoreRevoke, NextDay, vars, tables, history
<1> QED BY <1>1, <1>2, <1>3, FailCounts DEF Next

LEMMA InitCounts == Init => Counts
<1> SUFFICES ASSUME Init PROVE Counts
  OBVIOUS
<1>1. IInv
  BY InitIInv
<1>2. Counting = {} /\ Busy = {} /\ redemptions = {} /\ missed = 0 /\ AdminsBehind
  BY DEF Init, Counting, Redeeming, Busy, AdminsBehind
<1>3. coupon.count = 0
  BY DEF Init
<1>4. Cardinality(Counting) = 0 /\ Cardinality(Busy) = 0 /\ Cardinality(redemptions) = 0
  BY <1>2, FS_EmptySet
<1>5. \A r \in redemptions : r.id < Cardinality(redemptions)
  BY <1>2
<1>6. coupon.count + Cardinality(Busy) <= MaxRedemptions + Cardinality(Procs) - 1
  BY <1>1, <1>3, <1>4, NumbersOK DEF Numbers
<1>7. Cardinality(redemptions) = coupon.count + Cardinality(Counting) + missed
  BY <1>2, <1>3, <1>4
<1> QED BY <1>2, <1>5, <1>6, <1>7 DEF Counts

\* However many redeem one coupon at once, the limit is passed by less than the
\* handlers in progress and the counts that were missed.
THEOREM CouponBounded == Spec => []CouponOverrunBounded
<1>1. IInv /\ Counts => CouponOverrunBounded
  <2> SUFFICES ASSUME IInv, Counts PROVE CouponOverrunBounded
    OBVIOUS
  <2>1. Cardinality(Redeeming) \in Nat /\ Numbers
    BY NumbersOK DEF Numbers
  <2> HIDE DEF Busy, Counting
  <2> QED BY <2>1 DEF Counts, Numbers, CouponOverrunBounded
<1> QED BY <1>1, InitIInv, StepIInv, InitCounts, StepCounts, PTL DEF Spec
=============================================================================
