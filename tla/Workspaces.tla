----------------------------- MODULE Workspaces -----------------------------
(***************************************************************************)
(* The people of one workspace: its invitations, the memberships that come *)
(* of them, and the accounts of the people invited.  A process is one      *)
(* request, one action is what it does between two awaits; a request reads *)
(* an invitation, and writes its status later without looking again.       *)
(*                                                                         *)
(* The owner holds one more seat, which nothing takes away.  A membership  *)
(* that was removed is never read again, so rows has the ACTIVE ones.  The *)
(* migrations put no unique key on (organization, user).  The people have  *)
(* no other workspace.                                                     *)
(***************************************************************************)
EXTENDS Naturals, FiniteSets

CONSTANTS
    People,           \* the addresses that are invited
    SeatLimit,        \* the members the plan of the workspace allows
    Procs,            \* requests that may be in progress at once
    MaxInvites,       \* bound: invitations sent
    MaxJoins,         \* bound: memberships at which nobody new accepts
    MaxFaults,        \* bound: requests that fail
    None

ASSUME WorkspacesAssumption ==
    /\ None \notin Nat /\ None \notin People
    /\ IsFiniteSet(Procs) /\ SeatLimit \in Nat
    /\ MaxInvites \in Nat /\ MaxJoins \in Nat /\ MaxFaults \in Nat

VARIABLES
    accounts,     \* whether a person has no account yet, one, or one no more
    rows,         \* the ACTIVE rows of organization_members
    joins,        \* the rows ever inserted, for their ids
    invites,      \* the rows of organization_invitations, by id
    pc, loc,      \* where each request is, and what it remembers
    overtaken,    \* history: requests on an invitation that was settled under them
    faults

vars == <<accounts, rows, joins, invites, pc, loc, overtaken, faults>>

Member == [id : Nat, user : People]
\* late: the time in expires_at has passed.
Invite == [user : People, status : {"PENDING", "ACCEPTED", "CANCELLED", "EXPIRED"},
           late : BOOLEAN]

\* null is no row.
ASSUME InviteAssumption == None \notin Invite

Fresh == [user |-> None, invite |-> None, row |-> None]

Init ==
    /\ accounts = [u \in People |-> "none"]
    /\ rows = {} /\ joins = 0
    /\ invites = [i \in 1..MaxInvites |-> None]
    /\ pc = [p \in Procs |-> "idle"] /\ loc = [p \in Procs |-> Fresh]
    /\ overtaken = {} /\ faults = 0

-----------------------------------------------------------------------------
tables == <<accounts, rows, joins, invites>>

Sent == {i \in 1..MaxInvites : invites[i] # None}

RowsOf(u) == {r \in rows : r.user = u}

Goto(p, label) == pc' = [pc EXCEPT ![p] = label]

Remember(p, l) == loc' = [loc EXCEPT ![p] = l]

Begin(p, label, l) ==
    /\ pc[p] = "idle"
    /\ Goto(p, label) /\ Remember(p, l)
    /\ UNCHANGED <<tables, overtaken, faults>>

Done(p) == Goto(p, "idle") /\ Remember(p, Fresh)

Finish(p) == Done(p) /\ overtaken' = overtaken \ {p}

SetStatus(i, status) == invites' = [invites EXCEPT ![i].status = status]

\* The other requests on the invitation have not seen its new status.
Overtake(i) == {q \in Procs : pc[q] # "idle" /\ loc[q].invite = i}

-----------------------------------------------------------------------------
(* createInvitation *)

StartInvite(p) ==
    \E u \in People :
        /\ RowsOf(u) = {}
        /\ Begin(p, "pending", [Fresh EXCEPT !.user = u])

FindPending(p) ==
    /\ pc[p] = "pending"
    /\ IF \E i \in Sent : invites[i].user = loc[p].user /\ invites[i].status = "PENDING"
       THEN Finish(p)
       ELSE Goto(p, "seats") /\ UNCHANGED <<loc, overtaken>>
    /\ UNCHANGED <<tables, faults>>

\* assertMemberLimit counts the ACTIVE members, the owner among them, and not
\* the invitations that are pending.
CheckSeats(p) ==
    /\ pc[p] = "seats"
    /\ IF Cardinality(rows) + 2 > SeatLimit
       THEN Finish(p)
       ELSE Goto(p, "send") /\ UNCHANGED <<loc, overtaken>>
    /\ UNCHANGED <<tables, faults>>

\* At the bound on invitations nothing is sent.
SendInvite(p) ==
    LET i == Cardinality(Sent) + 1 IN
    /\ pc[p] = "send"
    /\ invites' = IF i > MaxInvites THEN invites
                  ELSE [invites EXCEPT ![i] =
                          [user |-> loc[p].user, status |-> "PENDING", late |-> FALSE]]
    /\ Finish(p)
    /\ UNCHANGED <<accounts, rows, joins, faults>>

-----------------------------------------------------------------------------
(* validateToken and acceptInvitation *)

\* Mutant: an invitation that is no longer pending is accepted.
AcceptAny(p) ==
    \E i \in Sent :
        /\ joins < MaxJoins
        /\ ~invites[i].late /\ accounts[invites[i].user] = "live"
        /\ Begin(p, "member", [Fresh EXCEPT !.user = invites[i].user, !.invite = i])

\* The request comes from the account the invitation was sent to.
StartAccept(p) ==
    \E i \in Sent :
        /\ joins < MaxJoins
        /\ invites[i].status = "PENDING" /\ ~invites[i].late
        /\ accounts[invites[i].user] = "live"
        /\ Begin(p, "member", [Fresh EXCEPT !.user = invites[i].user, !.invite = i])

\* Mutant: the members are not searched.
FindNoMember(p) ==
    /\ pc[p] = "member"
    /\ Goto(p, "join")
    /\ UNCHANGED <<tables, loc, overtaken, faults>>

FindMember(p) ==
    /\ pc[p] = "member"
    /\ Goto(p, IF RowsOf(loc[p].user) = {} THEN "join" ELSE "accepted")
    /\ UNCHANGED <<tables, loc, overtaken, faults>>

\* Mutant: the id of the membership is not a new one.
JoinReusingId(p) ==
    /\ pc[p] = "join" /\ accounts[loc[p].user] = "live"
    /\ rows' = rows \cup {[id |-> joins, user |-> loc[p].user]}
    /\ Goto(p, "accepted")
    /\ UNCHANGED <<accounts, joins, invites, loc, overtaken, faults>>

\* The foreign key refuses a membership of an account that is gone.
Join(p) ==
    /\ pc[p] = "join"
    /\ IF accounts[loc[p].user] = "live"
       THEN /\ rows' = rows \cup {[id |-> joins, user |-> loc[p].user]}
            /\ joins' = joins + 1
            /\ Goto(p, "accepted") /\ UNCHANGED <<loc, overtaken>>
       ELSE Finish(p) /\ UNCHANGED <<rows, joins>>
    /\ UNCHANGED <<accounts, invites, faults>>

Accepted(p) ==
    /\ pc[p] = "accepted"
    /\ SetStatus(loc[p].invite, "ACCEPTED")
    /\ overtaken' = (overtaken \cup Overtake(loc[p].invite)) \ {p}
    /\ Done(p)
    /\ UNCHANGED <<accounts, rows, joins, faults>>

\* Whoever validates or lists an invitation that is late marks it.
StartExpire(p) ==
    \E i \in Sent :
        /\ invites[i].status = "PENDING" /\ invites[i].late
        /\ Begin(p, "expire", [Fresh EXCEPT !.invite = i])

SaveExpired(p) ==
    /\ pc[p] = "expire"
    /\ SetStatus(loc[p].invite, "EXPIRED")
    /\ Finish(p)
    /\ UNCHANGED <<accounts, rows, joins, faults>>

-----------------------------------------------------------------------------
(* cancelInvitation and resendInvitation *)

StartCancel(p) ==
    \E i \in Sent :
        /\ invites[i].status = "PENDING"
        /\ Begin(p, "cancel", [Fresh EXCEPT !.user = invites[i].user, !.invite = i])

SaveCancelled(p) ==
    /\ pc[p] = "cancel"
    /\ SetStatus(loc[p].invite, "CANCELLED")
    /\ overtaken' = (overtaken \cup Overtake(loc[p].invite)) \ {p}
    /\ Goto(p, "invitee") /\ loc' = loc
    /\ UNCHANGED <<accounts, rows, joins, faults>>

FindInvitee(p) ==
    /\ pc[p] = "invitee"
    /\ IF accounts[loc[p].user] = "live"
       THEN Goto(p, "memberships") /\ UNCHANGED <<loc, overtaken>>
       ELSE Finish(p)
    /\ UNCHANGED <<tables, faults>>

FindMemberships(p) ==
    /\ pc[p] = "memberships"
    /\ IF RowsOf(loc[p].user) = {}
       THEN Goto(p, "delete") /\ UNCHANGED <<loc, overtaken>>
       ELSE Finish(p)
    /\ UNCHANGED <<tables, faults>>

\* The memberships go with the account.  A reference to it elsewhere may keep
\* it, which the code accepts.
DeleteAccount(p) ==
    LET u == loc[p].user IN
    /\ pc[p] = "delete"
    /\ \/ accounts' = [accounts EXCEPT ![u] = "gone"] /\ rows' = rows \ RowsOf(u)
       \/ UNCHANGED <<accounts, rows>>
    /\ Finish(p)
    /\ UNCHANGED <<joins, invites, faults>>

StartResend(p) ==
    \E i \in Sent :
        /\ invites[i].status \in {"PENDING", "EXPIRED"}
        /\ Begin(p, "resend", [Fresh EXCEPT !.invite = i])

\* updateTokenAndExpiry
SaveResent(p) ==
    /\ pc[p] = "resend"
    /\ invites' = [invites EXCEPT ![loc[p].invite].status = "PENDING",
                                  ![loc[p].invite].late = FALSE]
    /\ Finish(p)
    /\ UNCHANGED <<accounts, rows, joins, faults>>

-----------------------------------------------------------------------------
(* removeMember, sign-up, time, failures *)

StartRemove(p) ==
    \E r \in rows : Begin(p, "remove", [Fresh EXCEPT !.row = r.id])

\* A row that is gone is not updated.
SaveRemoved(p) ==
    /\ pc[p] = "remove"
    /\ rows' = {r \in rows : r.id # loc[p].row}
    /\ Finish(p)
    /\ UNCHANGED <<accounts, joins, invites, faults>>

\* An address signs up once: what a second account would do is left out.
SignUp ==
    /\ \E u \in People :
          accounts[u] = "none" /\ accounts' = [accounts EXCEPT ![u] = "live"]
    /\ UNCHANGED <<rows, joins, invites, pc, loc, overtaken, faults>>

TimePasses ==
    /\ \E i \in Sent : ~invites[i].late /\ invites' = [invites EXCEPT ![i].late = TRUE]
    /\ UNCHANGED <<accounts, rows, joins, pc, loc, overtaken, faults>>

\* A statement throws, or the process dies, after something was written; a
\* request that has written nothing leaves no trace and needs no action.
Fail(p) ==
    /\ faults < MaxFaults
    /\ pc[p] \in {"accepted", "invitee", "memberships", "delete"}
    /\ faults' = faults + 1
    /\ Finish(p)
    /\ UNCHANGED tables

-----------------------------------------------------------------------------
Start(p) ==
    \/ StartInvite(p) \/ StartAccept(p) \/ StartExpire(p) \/ StartCancel(p)
    \/ StartResend(p) \/ StartRemove(p)

Continue(p) ==
    \/ FindPending(p) \/ CheckSeats(p) \/ SendInvite(p)
    \/ FindMember(p) \/ Join(p) \/ Accepted(p) \/ SaveExpired(p)
    \/ SaveCancelled(p) \/ FindInvitee(p) \/ FindMemberships(p) \/ DeleteAccount(p)
    \/ SaveResent(p) \/ SaveRemoved(p)

Next ==
    \/ \E p \in Procs : Start(p) \/ Continue(p) \/ Fail(p)
    \/ SignUp \/ TimePasses

Spec == Init /\ [][Next]_vars

-----------------------------------------------------------------------------
(* What the workspace promises its people *)

Labels == {"idle", "pending", "seats", "send", "member", "join", "accepted", "expire",
           "cancel", "invitee", "memberships", "delete", "resend", "remove"}

LocalRow == [user : People \cup {None}, invite : 1..MaxInvites \cup {None},
             row : Nat \cup {None}]

\* Every table holds rows of its own columns, a request that works on an
\* invitation works on one that was sent, and ids of memberships are not reused.
TypeOK ==
    /\ accounts \in [People -> {"none", "live", "gone"}]
    /\ rows \subseteq Member /\ joins \in Nat
    /\ \A r \in rows : r.id < joins
    /\ invites \in [1..MaxInvites -> Invite \cup {None}]
    /\ pc \in [Procs -> Labels] /\ loc \in [Procs -> LocalRow]
    /\ overtaken \subseteq Procs /\ faults \in Nat

Settled(i) == invites[i] # None /\ invites[i].status \in {"ACCEPTED", "CANCELLED"}

\* An invitation that was accepted or cancelled admits nobody and is not sent
\* again, except by a request that was in progress when it was settled.
SettledStaysSettled ==
    [][\A p \in Procs, i \in 1..MaxInvites :
          /\ pc'[p] # pc[p] /\ loc[p].invite = i
          /\ Settled(i)
          /\ invites'[i] # invites[i] \/ ~(rows' \subseteq rows)
          => p \in overtaken]_vars

\* Acceptances that overlap may enter a person several times, since no key
\* refuses it, but never more often than there are requests in progress.
SeatsPerPerson == \A u \in People : Cardinality(RowsOf(u)) <= Cardinality(Procs)

-----------------------------------------------------------------------------
(* The inductive invariant behind them: what a request remembers, that      *)
(* one whose invitation is settled is among the overtaken, and that a       *)
(* request about to enter a person already counts for the seats.            *)

OnInvite == {"member", "join", "accepted", "expire", "cancel", "resend"}

\* What a request at an await remembers.
Good(l, label) ==
    /\ label \in OnInvite => l.invite \in Sent
    /\ label \in {"pending", "seats", "send", "remove"} => l.invite = None
    /\ label \in {"pending", "seats", "send", "member", "join", "cancel", "invitee",
                 "memberships", "delete"} => l.user \in People

Unseen(p) == pc[p] \in OnInvite /\ Settled(loc[p].invite) => p \in overtaken

Joining(u) == {p \in Procs : pc[p] = "join" /\ loc[p].user = u}

SeatsOK(u) ==
    /\ IsFiniteSet(RowsOf(u))
    /\ Cardinality(RowsOf(u)) + Cardinality(Joining(u)) <= Cardinality(Procs)

IInv ==
    /\ TypeOK
    /\ \A p \in Procs : Good(loc[p], pc[p]) /\ Unseen(p)
    /\ \A u \in People : SeatsOK(u)
=============================================================================
