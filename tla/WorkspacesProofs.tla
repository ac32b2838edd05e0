-------------------------- MODULE WorkspacesProofs --------------------------
(* Proofs about Workspaces: for any number of people, invitations and        *)
(* requests in progress, settled invitations stay settled and nobody holds   *)
(* more seats than there are requests.                                       *)
EXTENDS Workspaces, FiniteSetTheorems, Integers, TLAPS

-----------------------------------------------------------------------------
(* What every step keeps *)

LEMMA Facts ==
    ASSUME IInv, NEW p \in Procs
    PROVE  /\ loc[p] \in LocalRow /\ pc[p] \in Labels /\ Good(loc[p], pc[p]) /\ Unseen(p)
           /\ loc = [loc EXCEPT ![p] = loc[p]]
           /\ accounts \in [People -> {"none", "live", "gone"}] /\ rows \subseteq Member
           /\ joins \in Nat /\ \A r \in rows : r.id < joins
           /\ invites \in [1..MaxInvites -> Invite \cup {None}]
           /\ overtaken \subseteq Procs /\ faults \in Nat
BY DEF IInv, TypeOK

LEMMA FreshOK ==
    /\ Fresh \in LocalRow /\ Fresh.invite = None /\ "idle" \in Labels
    /\ Good(Fresh, "idle")
BY DEF Fresh, LocalRow, Labels, Good, OnInvite

\* Seats are freed, or nothing happens to them, unless a request is to enter.
LEMMA SeatsStay ==
    ASSUME IInv, NEW p \in Procs, NEW l \in LocalRow, NEW label \in Labels \ {"join"},
           pc' = [pc EXCEPT ![p] = label], loc' = [loc EXCEPT ![p] = l], rows' \subseteq rows,
           NEW u \in People
    PROVE  SeatsOK(u)'
<1>1. RowsOf(u)' \subseteq RowsOf(u)
  BY DEF RowsOf
<1>2. Joining(u)' \subseteq Joining(u)
  BY DEF Joining, IInv, TypeOK
<1>3. /\ IsFiniteSet(RowsOf(u))
      /\ Cardinality(RowsOf(u)) + Cardinality(Joining(u)) <= Cardinality(Procs)
  BY DEF IInv, SeatsOK
<1>4. IsFiniteSet(Joining(u)) /\ Cardinality(Procs) \in Nat
  BY WorkspacesAssumption, FS_Subset, FS_CardinalityType DEF Joining
<1>5. IsFiniteSet(RowsOf(u)') /\ Cardinality(RowsOf(u)') <= Cardinality(RowsOf(u))
  BY <1>1, <1>3, FS_Subset
<1>6. IsFiniteSet(Joining(u)') /\ Cardinality(Joining(u)') <= Cardinality(Joining(u))
  BY <1>2, <1>4, FS_Subset
<1>7. /\ Cardinality(RowsOf(u)) \in Nat /\ Cardinality(RowsOf(u)') \in Nat
      /\ Cardinality(Joining(u)) \in Nat /\ Cardinality(Joining(u)') \in Nat
  BY <1>3, <1>4, <1>5, <1>6, FS_CardinalityType
<1>8. Cardinality(RowsOf(u)') + Cardinality(Joining(u)') <= Cardinality(Procs)
  BY <1>3, <1>4, <1>5, <1>6, <1>7
<1> QED BY <1>5, <1>8 DEF SeatsOK

\* A step of one request: the others are as good as they were, and each one
\* whose invitation it settles is among the overtaken.
LEMMA RequestStep ==
    ASSUME IInv, NEW p \in Procs, NEW l \in LocalRow, NEW label \in Labels,
           pc' = [pc EXCEPT ![p] = label], loc' = [loc EXCEPT ![p] = l],
           accounts' \in [People -> {"none", "live", "gone"}],
           rows' \subseteq Member, joins' \in Nat, \A r \in rows' : r.id < joins',
           invites' \in [1..MaxInvites -> Invite \cup {None}], Sent \subseteq Sent',
           overtaken' \subseteq Procs, faults' \in Nat,
           Good(l, label)', label \in OnInvite /\ Settled(l.invite)' => p \in overtaken',
           \A q \in Procs \ {p} : q \in overtaken => q \in overtaken',
           \A q \in Procs \ {p} : pc[q] \in OnInvite /\ Settled(loc[q].invite)'
              => Settled(loc[q].invite) \/ q \in overtaken',
           \A u \in People : SeatsOK(u)'
    PROVE  IInv'
<1>1. TypeOK'
  BY DEF IInv, TypeOK
<1>2. ASSUME NEW q \in Procs PROVE Good(loc[q], pc[q])' /\ Unseen(q)'
  <2>1. CASE q = p
    <3>1. loc'[q] = l /\ pc'[q] = label
      BY <2>1 DEF IInv, TypeOK
    <3> QED BY <2>1, <3>1 DEF Unseen, Settled
  <2>2. CASE q # p
    <3>1. PICK m \in LocalRow, lab \in Labels : m = loc[q] /\ lab = pc[q]
      BY Facts
    <3>2. loc'[q] = m /\ pc'[q] = lab
      BY <2>2, <3>1 DEF IInv, TypeOK
    <3>3. Good(m, lab) /\ Unseen(q)
      BY <3>1 DEF IInv
    <3>4. Good(m, lab)'
      BY <3>3 DEF Good
    <3>5. lab \in OnInvite /\ Settled(m.invite)' => q \in overtaken'
      BY <2>2, <3>1, <3>3 DEF Unseen
    <3>6. Unseen(q)'
      BY <3>2, <3>5 DEF Unseen, Settled
    <3> QED BY <3>2, <3>4, <3>6
  <2> QED BY <2>1, <2>2
<1> QED BY <1>1, <1>2 DEF IInv

\* A step that writes neither an invitation nor a membership.
LEMMA ReadStep ==
    ASSUME IInv, NEW p \in Procs, NEW l \in LocalRow, NEW label \in Labels \ {"join"},
           pc' = [pc EXCEPT ![p] = label], loc' = [loc EXCEPT ![p] = l],
           UNCHANGED tables, faults' \in Nat, Good(l, label),
           label \in OnInvite /\ Settled(l.invite) => p \in overtaken',
           overtaken' = overtaken \/ overtaken' = overtaken \ {p}
    PROVE  IInv'
<1>1. UNCHANGED <<accounts, rows, joins, invites>>
  BY DEF tables
<1>2. \A u \in People : SeatsOK(u)'
  BY <1>1, SeatsStay
<1>3. Good(l, label)' /\ Sent' = Sent
  BY <1>1 DEF Good, Sent
<1>4. label \in OnInvite /\ Settled(l.invite)' => p \in overtaken'
  BY <1>1 DEF Settled
<1>5. /\ accounts' \in [People -> {"none", "live", "gone"}]
      /\ rows' \subseteq Member /\ joins' \in Nat /\ \A r \in rows' : r.id < joins'
  BY <1>1, Facts
<1>6. invites' \in [1..MaxInvites -> Invite \cup {None}] /\ overtaken' \subseteq Procs
  BY <1>1, Facts
<1>7. \A q \in Procs \ {p} : q \in overtaken => q \in overtaken'
  OBVIOUS
<1>8. \A q \in Procs \ {p} : pc[q] \in OnInvite /\ Settled(loc[q].invite)'
              => Settled(loc[q].invite) \/ q \in overtaken'
  BY <1>1 DEF Settled
<1> QED BY <1>2, <1>3, <1>4, <1>5, <1>6, <1>7, <1>8, RequestStep

-----------------------------------------------------------------------------
(* Requests begin, and read *)

LEMMA StartKeeps ==
    ASSUME IInv, NEW p \in Procs, Start(p)
    PROVE  IInv'
<1>1. PICK l, label : /\ Begin(p, label, l) /\ label \in Labels \ {"join"} /\ l \in LocalRow
                      /\ Good(l, label) /\ (label \in OnInvite => ~Settled(l.invite))
  <2>0. /\ invites \in [1..MaxInvites -> Invite \cup {None}] /\ rows \subseteq Member
        /\ Fresh \in LocalRow /\ Fresh.invite = None
    BY Facts, FreshOK
  <2>1. CASE StartInvite(p)
    <3>1. PICK u, l : u \in People /\ l = [Fresh EXCEPT !.user = u] /\ Begin(p, "pending", l)
      BY <2>1 DEF StartInvite
    <3>2. l \in LocalRow /\ l.user = u /\ l.invite = None
      BY <2>0, <3>1 DEF LocalRow
    <3>3. Good(l, "pending") /\ "pending" \in Labels \ {"join"} /\ "pending" \notin OnInvite
      BY <3>1, <3>2 DEF Good, Labels, OnInvite
    <3> QED BY <3>1, <3>2, <3>3
  <2>2. CASE StartAccept(p) \/ StartCancel(p)
    <3>1. PICK i \in Sent :
             /\ invites[i].status = "PENDING"
             /\ \/ Begin(p, "member", [Fresh EXCEPT !.user = invites[i].user, !.invite = i])
                \/ Begin(p, "cancel", [Fresh EXCEPT !.user = invites[i].user, !.invite = i])
      BY <2>2 DEF StartAccept, StartCancel
    <3>2. PICK l : l = [Fresh EXCEPT !.user = invites[i].user, !.invite = i]
      OBVIOUS
    <3>3. PICK label \in {"member", "cancel"} : Begin(p, label, l)
      BY <3>1, <3>2
    <3>4. i \in 1..MaxInvites /\ invites[i] \in Invite /\ invites[i].user \in People
      BY <2>0, <3>1 DEF Sent, Invite
    <3>5. l \in LocalRow /\ l.user \in People /\ l.invite = i
      BY <2>0, <3>2, <3>4 DEF LocalRow
    <3>6. Good(l, label) /\ label \in Labels \ {"join"} /\ ~Settled(l.invite)
      BY <3>1, <3>3, <3>5 DEF Good, Labels, Settled
    <3> QED BY <3>3, <3>5, <3>6
  <2>3. CASE StartExpire(p) \/ StartResend(p)
    <3>1. PICK i \in Sent :
             /\ invites[i].status \in {"PENDING", "EXPIRED"}
             /\ \/ Begin(p, "expire", [Fresh EXCEPT !.invite = i])
                \/ Begin(p, "resend", [Fresh EXCEPT !.invite = i])
      BY <2>3 DEF StartExpire, StartResend
    <3>2. PICK l : l = [Fresh EXCEPT !.invite = i]
      OBVIOUS
    <3>3. PICK label \in {"expire", "resend"} : Begin(p, label, l)
      BY <3>1, <3>2
    <3>4. i \in 1..MaxInvites
      BY DEF Sent
    <3>5. l \in LocalRow /\ l.invite = i
      BY <2>0, <3>2, <3>4 DEF LocalRow
    <3>6. Good(l, label) /\ label \in Labels \ {"join"} /\ ~Settled(l.invite)
      BY <3>1, <3>3, <3>5 DEF Good, Labels, Settled
    <3> QED BY <3>3, <3>5, <3>6
  <2>4. CASE StartRemove(p)
    <3>1. PICK r, l : r \in rows /\ l = [Fresh EXCEPT !.row = r.id] /\ Begin(p, "remove", l)
      BY <2>4 DEF StartRemove
    <3>2. r.id \in Nat
      BY <3>1, <2>0 DEF Member
    <3>3. l \in LocalRow /\ l.invite = None
      BY <2>0, <3>1, <3>2 DEF LocalRow
    <3>4. Good(l, "remove") /\ "remove" \in Labels \ {"join"} /\ "remove" \notin OnInvite
      BY <3>3 DEF Good, Labels, OnInvite
    <3> QED BY <3>1, <3>3, <3>4
  <2> QED BY <2>1, <2>2, <2>3, <2>4 DEF Start
<1>2. faults' \in Nat /\ UNCHANGED <<tables, overtaken>>
  BY <1>1, Facts DEF Begin
<1> QED BY <1>1, <1>2, ReadStep DEF Begin, Goto, Remember

\* A request ends.
LEMMA FinishKeeps ==
    ASSUME IInv, NEW p \in Procs, Finish(p), UNCHANGED tables, faults' \in Nat
    PROVE  IInv'
<1>1. "idle" \in Labels \ {"join"} /\ "idle" \notin OnInvite
  BY DEF Labels, OnInvite
<1> QED BY <1>1, FreshOK, ReadStep DEF Finish, Done, Goto, Remember

\* The reads that lead to another await, or end the request.
LEMMA ReadKeeps ==
    ASSUME IInv, NEW p \in Procs,
           FindPending(p) \/ CheckSeats(p) \/ FindInvitee(p) \/ FindMemberships(p) \/ Fail(p)
    PROVE  IInv'
<1>1. UNCHANGED tables /\ faults' \in Nat
  BY Facts DEF FindPending, CheckSeats, FindInvitee, FindMemberships, Fail
<1>2. CASE Finish(p)
  BY <1>1, <1>2, FinishKeeps
<1>3. CASE ~Finish(p)
  <2>1. PICK l, label : /\ pc' = [pc EXCEPT ![p] = label] /\ loc' = [loc EXCEPT ![p] = l]
                        /\ overtaken' = overtaken
                        /\ \/ pc[p] = "pending" /\ label = "seats" /\ l = loc[p]
                           \/ pc[p] = "seats" /\ label = "send" /\ l = loc[p]
                           \/ pc[p] = "invitee" /\ label = "memberships" /\ l = loc[p]
                           \/ pc[p] = "memberships" /\ label = "delete" /\ l = loc[p]
    BY <1>3, Facts DEF FindPending, CheckSeats, FindInvitee, FindMemberships, Fail, Goto, Remember
  <2>2. loc[p] \in LocalRow /\ Good(loc[p], pc[p])
    BY Facts
  <2>3. l \in LocalRow /\ Good(l, label) /\ label \in Labels \ {"join"} /\ label \notin OnInvite
    BY <2>1, <2>2 DEF Good, Labels, OnInvite
  <2> QED BY <1>1, <2>1, <2>3, ReadStep
<1> QED BY <1>2, <1>3
-----------------------------------------------------------------------------
(* Writes to the invitations *)

\* A request on an invitation writes its status and goes on; one that settles
\* it makes the other requests on it the overtaken.
LEMMA StatusStep ==
    ASSUME IInv, NEW p \in Procs, NEW l \in LocalRow, NEW label \in Labels \ OnInvite,
           pc' = [pc EXCEPT ![p] = label], loc' = [loc EXCEPT ![p] = l],
           NEW i \in Sent, loc[p].invite = i, NEW x \in Invite,
           invites' = [invites EXCEPT ![i] = x], UNCHANGED <<accounts, rows, joins, faults>>,
           Good(l, label),
           \/ x.status \notin {"ACCEPTED", "CANCELLED"} /\ overtaken' = overtaken \ {p}
           \/ overtaken' = (overtaken \cup Overtake(i)) \ {p}
    PROVE  IInv'
<1>1. /\ accounts' \in [People -> {"none", "live", "gone"}]
      /\ rows' \subseteq Member /\ joins' \in Nat /\ \A r \in rows' : r.id < joins'
      /\ faults' \in Nat /\ invites \in [1..MaxInvites -> Invite \cup {None}]
      /\ overtaken \subseteq Procs
  BY Facts
<1>2. i \in 1..MaxInvites /\ invites' \in [1..MaxInvites -> Invite \cup {None}]
  BY <1>1 DEF Sent
<1>3. PICK y \in Invite : y = x /\ invites'[i] = y
  BY <1>1, <1>2
<1>4. x # None
  BY InviteAssumption
<1>5. Sent \subseteq Sent'
  BY <1>1, <1>2, <1>4 DEF Sent
<1>6. Good(l, label)'
  BY <1>5 DEF Good
<1>7. "join" \in OnInvite
  BY DEF OnInvite
<1>8. \A u \in People : SeatsOK(u)'
  BY <1>7, SeatsStay
<1>9. overtaken' \subseteq Procs
  BY <1>1 DEF Overtake
<1>10. \A q \in Procs \ {p} : q \in overtaken => q \in overtaken'
  OBVIOUS
<1>11. ASSUME NEW q \in Procs \ {p}, pc[q] \in OnInvite, Settled(loc[q].invite)'
       PROVE  Settled(loc[q].invite) \/ q \in overtaken'
  <2>1. PICK j : j = loc[q].invite
    OBVIOUS
  <2>2. loc'[q] = loc[q]
    BY DEF IInv, TypeOK
  <2>3. invites'[j] # None /\ invites'[j].status \in {"ACCEPTED", "CANCELLED"}
    BY <1>11, <2>1, <2>2 DEF Settled
  <2>4. CASE j # i
    <3>1. j \in Sent
      BY <1>11, <2>1, Facts DEF Good
    <3>2. invites'[j] = invites[j]
      BY <1>1, <2>4, <3>1 DEF Sent
    <3> QED BY <2>1, <2>3, <3>2 DEF Settled
  <2>5. CASE j = i
    <3>1. x.status \in {"ACCEPTED", "CANCELLED"}
      BY <1>3, <2>3, <2>5
    <3>2. pc[q] # "idle"
      BY <1>11 DEF OnInvite
    <3> QED BY <2>1, <2>5, <3>1, <3>2 DEF Overtake
  <2> QED BY <2>4, <2>5
<1> QED BY <1>1, <1>2, <1>5, <1>6, <1>8, <1>9, <1>10, <1>11, RequestStep

LEMMA StatusKeeps ==
    ASSUME IInv, NEW p \in Procs,
           Accepted(p) \/ SaveExpired(p) \/ SaveCancelled(p) \/ SaveResent(p)
    PROVE  IInv'
<1>1. PICK i \in Sent : i = loc[p].invite
  BY Facts DEF Accepted, SaveExpired, SaveCancelled, SaveResent, Good, OnInvite
<1>2. invites[i] \in Invite /\ loc[p] \in LocalRow
  BY Facts DEF Sent
<1>3. UNCHANGED <<accounts, rows, joins, faults>>
  BY DEF Accepted, SaveExpired, SaveCancelled, SaveResent
<1>4. "idle" \in Labels \ OnInvite /\ "invitee" \in Labels \ OnInvite
  BY DEF Labels, OnInvite
<1>5. CASE Accepted(p)
  <2>1. PICK x : x = [invites[i] EXCEPT !.status = "ACCEPTED"] /\ invites' = [invites EXCEPT ![i] = x]
    BY <1>1, <1>5 DEF Accepted, SetStatus
  <2>2. x \in Invite
    BY <1>2, <2>1 DEF Invite
  <2>3. /\ pc' = [pc EXCEPT ![p] = "idle"] /\ loc' = [loc EXCEPT ![p] = Fresh]
        /\ overtaken' = (overtaken \cup Overtake(i)) \ {p}
    BY <1>1, <1>5 DEF Accepted, Done, Goto, Remember
  <2> QED BY <1>1, <1>3, <1>4, <2>1, <2>2, <2>3, FreshOK, StatusStep
<1>6. CASE SaveCancelled(p)
  <2>1. PICK x : x = [invites[i] EXCEPT !.status = "CANCELLED"] /\ invites' = [invites EXCEPT ![i] = x]
    BY <1>1, <1>6 DEF SaveCancelled, SetStatus
  <2>2. x \in Invite
    BY <1>2, <2>1 DEF Invite
  <2>3. /\ pc' = [pc EXCEPT ![p] = "invitee"] /\ loc' = [loc EXCEPT ![p] = loc[p]]
        /\ overtaken' = (overtaken \cup Overtake(i)) \ {p} /\ pc[p] = "cancel"
    BY <1>1, <1>6, Facts DEF SaveCancelled, Goto
  <2>4. Good(loc[p], "invitee")
    BY <2>3, Facts DEF Good, OnInvite
  <2> QED BY <1>1, <1>2, <1>3, <1>4, <2>1, <2>2, <2>3, <2>4, StatusStep
<1>7. CASE SaveExpired(p) \/ SaveResent(p)
  <2>1. PICK x \in Invite : /\ invites' = [invites EXCEPT ![i] = x]
                           /\ x.status \notin {"ACCEPTED", "CANCELLED"}
    <3>1. CASE SaveExpired(p)
      <4>1. PICK x : /\ x = [invites[i] EXCEPT !.status = "EXPIRED"]
                     /\ invites' = [invites EXCEPT ![i] = x]
        BY <1>1, <3>1 DEF SaveExpired, SetStatus
      <4>2. x \in Invite /\ x.status = "EXPIRED"
        BY <1>2, <4>1 DEF Invite
      <4> QED BY <4>1, <4>2
    <3>2. CASE SaveResent(p)
      <4>1. invites' = [[invites EXCEPT ![i] = [invites[i] EXCEPT !.status = "PENDING"]]
                          EXCEPT ![i] = [@ EXCEPT !.late = FALSE]]
        BY <1>1, <3>2 DEF SaveResent
      <4>2. PICK y : y = [invites[i] EXCEPT !.status = "PENDING"]
        OBVIOUS
      <4>3. PICK x : x = [y EXCEPT !.late = FALSE]
        OBVIOUS
      <4>4. y \in Invite /\ y.status = "PENDING"
        BY <1>2, <4>2 DEF Invite
      <4>5. x \in Invite /\ x.status = "PENDING"
        BY <4>3, <4>4 DEF Invite
      <4>6. invites' = [invites EXCEPT ![i] = x]
        BY <4>1, <4>2, <4>3, Facts DEF Sent
      <4> QED BY <4>5, <4>6
    <3> QED BY <1>7, <3>1, <3>2
  <2>2. /\ pc' = [pc EXCEPT ![p] = "idle"] /\ loc' = [loc EXCEPT ![p] = Fresh]
        /\ overtaken' = overtaken \ {p}
    BY <1>7 DEF SaveExpired, SaveResent, Finish, Done, Goto, Remember
  <2> QED BY <1>1, <1>3, <1>4, <2>1, <2>2, FreshOK, StatusStep
<1> QED BY <1>5, <1>6, <1>7

\* A new invitation is sent for an address, under the next id.
LEMMA SendKeeps ==
    ASSUME IInv, NEW p \in Procs, SendInvite(p)
    PROVE  IInv'
<1>1. PICK i : i = Cardinality(Sent) + 1
  OBVIOUS
<1>2. PICK x : /\ x = [user |-> loc[p].user, status |-> "PENDING", late |-> FALSE]
               /\ invites' = IF i > MaxInvites THEN invites ELSE [invites EXCEPT ![i] = x]
  BY <1>1 DEF SendInvite
<1>3. /\ accounts' \in [People -> {"none", "live", "gone"}]
      /\ rows' \subseteq Member /\ joins' \in Nat /\ \A r \in rows' : r.id < joins'
      /\ faults' \in Nat /\ invites \in [1..MaxInvites -> Invite \cup {None}]
      /\ overtaken \subseteq Procs /\ rows' = rows /\ loc[p].user \in People
  BY Facts DEF SendInvite, Good
<1>4. x \in Invite /\ x.status = "PENDING" /\ x # None
  <2>1. x \in Invite /\ x.status = "PENDING"
    BY <1>2, <1>3 DEF Invite
  <2>2. None # x
    BY <2>1, InviteAssumption
  <2> QED BY <2>1, <2>2
<1>5. IsFiniteSet(Sent) /\ i \in Nat \ {0}
  <2>1. IsFiniteSet(1..MaxInvites)
    BY FS_Interval, WorkspacesAssumption
  <2>2. IsFiniteSet(Sent)
    BY <2>1, FS_Subset DEF Sent
  <2> QED BY <1>1, <2>2, FS_CardinalityType
<1>6. invites' \in [1..MaxInvites -> Invite \cup {None}] /\ Sent \subseteq Sent'
  BY <1>2, <1>3, <1>4 DEF Sent
<1>7. \A j \in Sent : Settled(j)' => Settled(j)
  BY <1>2, <1>3, <1>4 DEF Sent, Settled
<1>8. /\ pc' = [pc EXCEPT ![p] = "idle"] /\ loc' = [loc EXCEPT ![p] = Fresh]
      /\ overtaken' = overtaken \ {p}
  BY DEF SendInvite, Finish, Done, Goto, Remember
<1>9. "idle" \in Labels \ {"join"} /\ "idle" \notin OnInvite /\ Good(Fresh, "idle")'
  BY DEF Labels, OnInvite, Good, Fresh
<1>10. \A u \in People : SeatsOK(u)'
  BY <1>3, <1>8, <1>9, FreshOK, SeatsStay
<1>11. ASSUME NEW q \in Procs \ {p}, pc[q] \in OnInvite, Settled(loc[q].invite)'
       PROVE  Settled(loc[q].invite)
  <2>1. PICK j \in Sent : j = loc[q].invite
    BY <1>11, Facts DEF Good
  <2>2. loc'[q] = loc[q]
    BY <1>8 DEF IInv, TypeOK
  <2> QED BY <1>7, <1>11, <2>1, <2>2 DEF Settled
<1>12. overtaken' \subseteq Procs /\ \A q \in Procs \ {p} : q \in overtaken => q \in overtaken'
  BY <1>3, <1>8
<1> QED BY <1>3, <1>6, <1>8, <1>9, <1>10, <1>11, <1>12, FreshOK, RequestStep

-----------------------------------------------------------------------------
(* Acceptances enter people *)

\* The requests entering a person are at most all requests.
LEMMA JoiningFinite ==
    ASSUME NEW u \in People
    PROVE  /\ IsFiniteSet(Joining(u)) /\ Cardinality(Joining(u)) \in Nat
           /\ Cardinality(Joining(u)) <= Cardinality(Procs) /\ Cardinality(Procs) \in Nat
<1>1. Joining(u) \subseteq Procs
  BY DEF Joining
<1>2. IsFiniteSet(Procs)
  BY WorkspacesAssumption
<1>3. IsFiniteSet(Joining(u)) /\ Cardinality(Joining(u)) <= Cardinality(Procs)
  BY <1>1, <1>2, FS_Subset
<1> QED BY <1>2, <1>3, FS_CardinalityType

\* A request that finds the person no member goes on to enter them.
LEMMA FindKeeps ==
    ASSUME IInv, NEW p \in Procs, FindMember(p)
    PROVE  IInv'
<1>1. UNCHANGED <<accounts, rows, joins, invites, loc, overtaken, faults>> /\ pc[p] = "member"
  BY DEF FindMember, tables
<1>2. PICK l \in LocalRow : l = loc[p]
  BY Facts
<1>3. loc' = [loc EXCEPT ![p] = l] /\ Good(l, "member")
  BY <1>1, <1>2, Facts
<1>4. CASE RowsOf(loc[p].user) # {}
  <2>1. pc' = [pc EXCEPT ![p] = "accepted"]
    BY <1>4 DEF FindMember, Goto
  <2>2. "accepted" \in Labels \ {"join"} /\ Good(l, "accepted")
    BY <1>3 DEF Labels, Good, OnInvite
  <2>3. Settled(l.invite) => p \in overtaken'
    BY <1>1, <1>2, Facts DEF Unseen, OnInvite
  <2> QED BY <1>1, <1>3, <2>1, <2>2, <2>3, Facts, ReadStep DEF tables
<1>5. CASE RowsOf(loc[p].user) = {}
  <2>1. pc' = [pc EXCEPT ![p] = "join"]
    BY <1>5 DEF FindMember, Goto
  <2>2. "join" \in Labels /\ Good(l, "join") /\ l.user \in People
    BY <1>3 DEF Labels, Good, OnInvite
  <2>3. Good(l, "join")' /\ Sent' = Sent
    BY <1>1, <2>2 DEF Good, Sent
  <2>4. Settled(l.invite)' => p \in overtaken'
    BY <1>1, <1>2, Facts DEF Unseen, OnInvite, Settled
  <2>5. ASSUME NEW u \in People PROVE SeatsOK(u)'
    <3>1. RowsOf(u)' = RowsOf(u) /\ SeatsOK(u)
      BY <1>1 DEF RowsOf, IInv
    <3>2. CASE u = l.user
      <4>1. RowsOf(u)' = {}
        BY <1>2, <1>5, <3>1, <3>2
      <4>2. IsFiniteSet(RowsOf(u)') /\ Cardinality(RowsOf(u)') = 0
        BY <4>1, FS_EmptySet
      <4>3. Joining(u)' \subseteq Procs /\ IsFiniteSet(Procs)
        BY WorkspacesAssumption DEF Joining
      <4>4. Cardinality(Joining(u)') <= Cardinality(Procs) /\ IsFiniteSet(Joining(u)')
        BY <4>3, FS_Subset
      <4>5. Cardinality(Joining(u)') \in Nat /\ Cardinality(Procs) \in Nat
        BY <4>3, <4>4, FS_CardinalityType
      <4>6. Cardinality(RowsOf(u)') + Cardinality(Joining(u)') <= Cardinality(Procs)
        BY <4>2, <4>4, <4>5
      <4> QED BY <4>2, <4>6 DEF SeatsOK
    <3>3. CASE u # l.user
      <4>1. Joining(u)' = Joining(u)
        BY <1>1, <1>2, <2>1, <3>3 DEF Joining, IInv, TypeOK
      <4> QED BY <3>1, <4>1 DEF SeatsOK
    <3> QED BY <3>2, <3>3
  <2>6. /\ accounts' \in [People -> {"none", "live", "gone"}]
        /\ rows' \subseteq Member /\ joins' \in Nat /\ \A r \in rows' : r.id < joins'
        /\ invites' \in [1..MaxInvites -> Invite \cup {None}]
        /\ overtaken' \subseteq Procs /\ faults' \in Nat
    BY <1>1, Facts
  <2>7. \A q \in Procs \ {p} : pc[q] \in OnInvite /\ Settled(loc[q].invite)'
              => Settled(loc[q].invite) \/ q \in overtaken'
    BY <1>1 DEF Settled
  <2> QED BY <1>1, <1>3, <2>1, <2>2, <2>3, <2>4, <2>5, <2>6, <2>7, RequestStep
<1> QED BY <1>4, <1>5

\* The person is entered: one request less is to enter them, and they hold
\* one seat more.
LEMMA JoinKeeps ==
    ASSUME IInv, NEW p \in Procs, Join(p)
    PROVE  IInv'
<1>1. CASE accounts[loc[p].user] # "live"
  BY <1>1, Facts, FinishKeeps DEF Join, tables
<1>2. CASE accounts[loc[p].user] = "live"
  <2>1. PICK l, r :
           /\ l \in LocalRow
           /\ l = loc[p] /\ loc' = [loc EXCEPT ![p] = l]
           /\ r = [id |-> joins, user |-> l.user]
    BY <1>2, Facts DEF Join
  <2>2. /\ rows' = rows \cup {r} /\ joins' = joins + 1 /\ pc' = [pc EXCEPT ![p] = "accepted"]
        /\ UNCHANGED <<accounts, invites, loc, overtaken, faults>> /\ pc[p] = "join"
    BY <1>2, <2>1 DEF Join, Goto
  <2>3. Good(l, "join") /\ l.user \in People /\ r \in Member /\ r.id = joins /\ r.user = l.user
    BY <2>1, <2>2, Facts DEF Good, Member
  <2>4. rows' \subseteq Member /\ joins' \in Nat /\ \A x \in rows' : x.id < joins'
    <3>1. joins \in Nat /\ rows \subseteq Member /\ \A x \in rows : x.id < joins
      BY Facts
    <3>2. ASSUME NEW x \in rows' PROVE x.id < joins'
      <4>1. CASE x = r
        BY <2>2, <2>3, <3>1, <4>1
      <4>2. CASE x \in rows
        BY <2>2, <3>1, <4>2 DEF Member
      <4> QED BY <2>2, <4>1, <4>2
    <3> QED BY <2>2, <2>3, <3>1, <3>2
  <2>5. Good(l, "accepted")' /\ Sent' = Sent /\ "accepted" \in Labels
    BY <2>2, <2>3 DEF Good, Sent, OnInvite, Labels
  <2>6. Settled(l.invite)' => p \in overtaken'
    BY <2>1, <2>2, Facts DEF Unseen, OnInvite, Settled
  <2>7. ASSUME NEW u \in People PROVE SeatsOK(u)'
    <3>1. /\ IsFiniteSet(RowsOf(u))
          /\ Cardinality(RowsOf(u)) + Cardinality(Joining(u)) <= Cardinality(Procs)
      BY DEF IInv, SeatsOK
    <3>2. Cardinality(RowsOf(u)) \in Nat
      BY <3>1, FS_CardinalityType
    <3>3. CASE u = l.user
      <4>1. RowsOf(u)' = RowsOf(u) \cup {r}
        BY <2>2, <2>3, <3>3 DEF RowsOf
      <4>2. r \notin RowsOf(u)
        BY <2>3, Facts DEF RowsOf, Member
      <4>3. /\ IsFiniteSet(RowsOf(u)')
            /\ Cardinality(RowsOf(u)') = Cardinality(RowsOf(u)) + 1
        BY <3>1, <4>1, <4>2, FS_AddElement
      <4>4. p \in Joining(u) /\ Joining(u)' = Joining(u) \ {p}
        BY <2>1, <2>2, <3>3 DEF Joining, IInv, TypeOK
      <4>5. /\ IsFiniteSet(Joining(u)')
            /\ Cardinality(Joining(u)') = Cardinality(Joining(u)) - 1
        BY <4>4, JoiningFinite, FS_RemoveElement
      <4>6. Cardinality(RowsOf(u)') + Cardinality(Joining(u)') <= Cardinality(Procs)
        BY <3>1, <3>2, <4>3, <4>5, JoiningFinite
      <4> QED BY <4>3, <4>6 DEF SeatsOK
    <3>4. CASE u # l.user
      <4>1. RowsOf(u)' = RowsOf(u)
        BY <2>2, <2>3, <3>4 DEF RowsOf
      <4>2. Joining(u)' = Joining(u)
        BY <2>1, <2>2, <3>4 DEF Joining, IInv, TypeOK
      <4> QED BY <3>1, <4>1, <4>2 DEF SeatsOK
    <3> QED BY <3>3, <3>4
  <2>8. /\ accounts' \in [People -> {"none", "live", "gone"}]
        /\ invites' \in [1..MaxInvites -> Invite \cup {None}]
        /\ overtaken' \subseteq Procs /\ faults' \in Nat
    BY <2>2, Facts
  <2>9. \A q \in Procs \ {p} : pc[q] \in OnInvite /\ Settled(loc[q].invite)'
              => Settled(loc[q].invite) \/ q \in overtaken'
    BY <2>2 DEF Settled
  <2> QED BY <2>1, <2>2, <2>4, <2>5, <2>6, <2>7, <2>8, <2>9, RequestStep
<1> QED BY <1>1, <1>2

-----------------------------------------------------------------------------
(* Memberships end *)

\* A request that removes memberships, and ends.
LEMMA ShrinkKeeps ==
    ASSUME IInv, NEW p \in Procs, Finish(p), rows' \subseteq rows,
           accounts' \in [People -> {"none", "live", "gone"}],
           UNCHANGED <<joins, invites, faults>>
    PROVE  IInv'
<1>1. /\ pc' = [pc EXCEPT ![p] = "idle"] /\ loc' = [loc EXCEPT ![p] = Fresh]
      /\ overtaken' = overtaken \ {p}
  BY DEF Finish, Done, Goto, Remember
<1>2. "idle" \in Labels \ {"join"} /\ "idle" \notin OnInvite /\ Good(Fresh, "idle")'
  BY DEF Labels, OnInvite, Good, Fresh
<1>3. \A u \in People : SeatsOK(u)'
  BY <1>1, <1>2, FreshOK, SeatsStay
<1>4. /\ rows' \subseteq Member /\ joins' \in Nat /\ \A r \in rows' : r.id < joins'
      /\ invites' \in [1..MaxInvites -> Invite \cup {None}]
      /\ overtaken' \subseteq Procs /\ faults' \in Nat
  BY <1>1, Facts
<1>5. Sent \subseteq Sent'
  BY DEF Sent
<1>6. /\ \A q \in Procs \ {p} : q \in overtaken => q \in overtaken'
      /\ \A q \in Procs \ {p} : pc[q] \in OnInvite /\ Settled(loc[q].invite)'
              => Settled(loc[q].invite) \/ q \in overtaken'
  BY <1>1 DEF Settled
<1> QED BY <1>1, <1>2, <1>3, <1>4, <1>5, <1>6, FreshOK, RequestStep

LEMMA EndKeeps ==
    ASSUME IInv, NEW p \in Procs, DeleteAccount(p) \/ SaveRemoved(p)
    PROVE  IInv'
<1>1. accounts \in [People -> {"none", "live", "gone"}]
  BY Facts
<1>2. CASE DeleteAccount(p)
  <2>1. accounts' \in [People -> {"none", "live", "gone"}] /\ rows' \subseteq rows
    BY <1>1, <1>2 DEF DeleteAccount
  <2> QED BY <1>2, <2>1, ShrinkKeeps DEF DeleteAccount
<1>3. CASE SaveRemoved(p)
  BY <1>1, <1>3, ShrinkKeeps DEF SaveRemoved
<1> QED BY <1>2, <1>3

-----------------------------------------------------------------------------
(* Every step *)

\* Steps of no request: nothing that was settled changes.
LEMMA OutsideKeeps ==
    ASSUME IInv, SignUp \/ TimePasses \/ UNCHANGED vars
    PROVE  IInv'
<1>1. /\ UNCHANGED <<rows, joins, pc, loc, overtaken, faults>>
      /\ accounts' \in [People -> {"none", "live", "gone"}]
      /\ \/ invites' = invites
         \/ \E i \in Sent : invites' = [invites EXCEPT ![i].late = TRUE]
  BY DEF SignUp, TimePasses, vars, IInv, TypeOK
<1>2. /\ invites' \in [1..MaxInvites -> Invite \cup {None}] /\ Sent' = Sent
      /\ \A j \in Sent : Settled(j)' => Settled(j)
  <2>1. CASE invites' = invites
    BY <2>1 DEF Sent, Settled, IInv, TypeOK
  <2>2. CASE \E i \in Sent : invites' = [invites EXCEPT ![i].late = TRUE]
    <3>1. PICK i, x :
             /\ i \in Sent
             /\ x = [invites[i] EXCEPT !.late = TRUE]
             /\ invites' = [invites EXCEPT ![i] = x]
      BY <2>2
    <3>2. invites \in [1..MaxInvites -> Invite \cup {None}] /\ invites[i] \in Invite
      BY <3>1 DEF Sent, IInv, TypeOK
    <3>3. x \in Invite /\ x.status = invites[i].status
      BY <3>1, <3>2 DEF Invite
    <3>4. x # None
      BY <3>3, InviteAssumption
    <3> QED BY <3>1, <3>2, <3>3, <3>4 DEF Sent, Settled
  <2> QED BY <1>1, <2>1, <2>2
<1>3. TypeOK'
  BY <1>1, <1>2 DEF IInv, TypeOK
<1>4. ASSUME NEW q \in Procs PROVE Good(loc[q], pc[q])' /\ Unseen(q)'
  <2>1. Good(loc[q], pc[q]) /\ Unseen(q)
    BY Facts
  <2>2. PICK m, lab : m = loc[q] /\ lab = pc[q]
    OBVIOUS
  <2>3. Good(m, lab)'
    BY <1>2, <2>1, <2>2 DEF Good
  <2>4. lab \in OnInvite => m.invite \in Sent
    BY <2>1, <2>2 DEF Good
  <2> QED BY <1>1, <1>2, <2>1, <2>2, <2>3, <2>4 DEF Unseen
<1>5. ASSUME NEW u \in People PROVE SeatsOK(u)'
  BY <1>1 DEF IInv, SeatsOK, RowsOf, Joining
<1> QED BY <1>3, <1>4, <1>5 DEF IInv

\* The invariant holds when the service starts on empty tables.
THEOREM InitIInv == Init => IInv
<1> SUFFICES ASSUME Init PROVE IInv
  OBVIOUS
<1>1. /\ TypeOK /\ rows = {} /\ \A p \in Procs : pc[p] = "idle" /\ loc[p] = Fresh
  BY FreshOK, WorkspacesAssumption DEF Init, TypeOK
<1>2. \A p \in Procs : Good(loc[p], pc[p]) /\ Unseen(p)
  BY <1>1, FreshOK DEF Unseen, OnInvite
<1>3. ASSUME NEW u \in People PROVE SeatsOK(u)
  <2>1. RowsOf(u) = {}
    BY <1>1 DEF RowsOf
  <2>2. IsFiniteSet(RowsOf(u)) /\ Cardinality(RowsOf(u)) = 0
    BY <2>1, FS_EmptySet
  <2> QED BY <2>2, JoiningFinite DEF SeatsOK
<1> QED BY <1>1, <1>2, <1>3 DEF IInv

\* Every step keeps the invariant.
THEOREM StepIInv == IInv /\ [Next]_vars => IInv'
<1> SUFFICES ASSUME IInv, [Next]_vars PROVE IInv'
  OBVIOUS
<1>1. CASE SignUp \/ TimePasses \/ UNCHANGED vars
  BY <1>1, OutsideKeeps
<1>2. ASSUME NEW p \in Procs, Start(p) PROVE IInv'
  BY <1>2, StartKeeps
<1>3. ASSUME NEW p \in Procs, Fail(p) PROVE IInv'
  BY <1>3, ReadKeeps
<1>4. ASSUME NEW p \in Procs, Continue(p) PROVE IInv'
  <2>1. CASE FindPending(p) \/ CheckSeats(p) \/ FindInvitee(p) \/ FindMemberships(p)
    BY <2>1, ReadKeeps
  <2>2. CASE Accepted(p) \/ SaveExpired(p) \/ SaveCancelled(p) \/ SaveResent(p)
    BY <2>2, StatusKeeps
  <2>3. CASE SendInvite(p)
    BY <2>3, SendKeeps
  <2>4. CASE FindMember(p)
    BY <2>4, FindKeeps
  <2>5. CASE Join(p)
    BY <2>5, JoinKeeps
  <2>6. CASE DeleteAccount(p) \/ SaveRemoved(p)
    BY <2>6, EndKeeps
  <2> QED BY <1>4, <2>1, <2>2, <2>3, <2>4, <2>5, <2>6 DEF Continue
<1> QED BY <1>1, <1>2, <1>3, <1>4 DEF Next

THEOREM Invariance == Spec => []IInv
BY InitIInv, StepIInv, PTL DEF Spec

\* Every table of the workspace holds rows of its columns.
THEOREM WorkspaceTypeCorrect == Spec => []TypeOK
<1>1. IInv => TypeOK
  BY DEF IInv
<1> QED BY <1>1, Invariance, PTL

\* However many acceptances overlap, a person never holds more seats than
\* there are requests in progress.
THEOREM SeatsAreBounded == Spec => []SeatsPerPerson
<1>1. IInv => SeatsPerPerson
  <2> SUFFICES ASSUME IInv, NEW u \in People
               PROVE  Cardinality(RowsOf(u)) <= Cardinality(Procs)
    BY DEF SeatsPerPerson
  <2>1. /\ IsFiniteSet(RowsOf(u))
        /\ Cardinality(RowsOf(u)) + Cardinality(Joining(u)) <= Cardinality(Procs)
    BY DEF IInv, SeatsOK
  <2>2. Cardinality(RowsOf(u)) \in Nat
    BY <2>1, FS_CardinalityType
  <2> QED BY <2>1, <2>2, JoiningFinite
<1> QED BY <1>1, Invariance, PTL

-----------------------------------------------------------------------------
(* What a step may never do *)

\* A request that moves and changes an invitation that is settled, or enters
\* somebody for it, was on it already when it was settled.
LEMMA SettledStep ==
    ASSUME IInv, Next, NEW p \in Procs, NEW i \in 1..MaxInvites,
           pc'[p] # pc[p], loc[p].invite = i, Settled(i),
           invites'[i] # invites[i] \/ ~(rows' \subseteq rows)
    PROVE  p \in overtaken
<1> SUFFICES pc[p] \in OnInvite
  BY Facts DEF Unseen
<1>1. ~(SignUp \/ TimePasses)
  BY DEF SignUp, TimePasses
<1>2. i # None /\ loc[p].invite # None
  BY WorkspacesAssumption
<1>3. PICK q \in Procs : Start(q) \/ Continue(q) \/ Fail(q)
  BY <1>1 DEF Next
<1>4. \E label : pc' = [pc EXCEPT ![q] = label]
  BY <1>3 DEF Start, Continue, Fail, StartInvite, StartAccept, StartExpire, StartCancel,
       StartResend, StartRemove, Begin, FindPending, CheckSeats, SendInvite, FindMember, Join,
       Accepted, SaveExpired, SaveCancelled, FindInvitee, FindMemberships, DeleteAccount,
       SaveResent, SaveRemoved, Finish, Done, Goto
<1>5. q = p
  BY <1>4 DEF IInv, TypeOK
<1>6. ~(Start(p) \/ Fail(p) \/ FindPending(p) \/ CheckSeats(p) \/ FindInvitee(p)
        \/ FindMemberships(p) \/ FindMember(p))
  BY DEF Start, Fail, StartInvite, StartAccept, StartExpire, StartCancel, StartResend,
       StartRemove, Begin, FindPending, CheckSeats, FindInvitee, FindMemberships, FindMember, tables
<1>7. ~(DeleteAccount(p) \/ SaveRemoved(p))
  BY DEF DeleteAccount, SaveRemoved
<1>8. ~SendInvite(p)
  <2>1. SendInvite(p) => loc[p].invite = None
    BY Facts DEF SendInvite, Good
  <2> QED BY <1>2, <2>1
<1>9. Join(p) \/ Accepted(p) \/ SaveExpired(p) \/ SaveCancelled(p) \/ SaveResent(p)
  BY <1>3, <1>5, <1>6, <1>7, <1>8 DEF Continue
<1> QED BY <1>9 DEF Join, Accepted, SaveExpired, SaveCancelled, SaveResent, OnInvite

\* A settled invitation stays settled, but for requests already under way.
THEOREM SettledInvitations == Spec => SettledStaysSettled
<1>1. IInv /\ [Next]_vars =>
        [\A p \in Procs, i \in 1..MaxInvites :
            /\ pc'[p] # pc[p] /\ loc[p].invite = i
            /\ Settled(i)
            /\ invites'[i] # invites[i] \/ ~(rows' \subseteq rows)
            => p \in overtaken]_vars
  BY SettledStep
<1> QED BY <1>1, Invariance, PTL DEF Spec, SettledStaysSettled
=============================================================================
