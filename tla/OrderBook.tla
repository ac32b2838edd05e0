----------------------------- MODULE OrderBook -----------------------------
(* What the billing promises of the orders of a workspace, with no request, *)
(* webhook, payment row or subscription: an order is placed, it is paid,    *)
(* the customer returns with it, and it is billed.  Nothing in the book is  *)
(* taken back, and a bill is for the seats of its order and the only one of *)
(* it, unless the order is loose: it was returned with twice, its payment   *)
(* was marked failed, or nothing was kept of it when it was placed.         *)

VARIABLES
    book,         \* the orders: [id, plan, seats, paid]
    confirmed,    \* orders the customer has returned with
    loose,        \* orders a bill is not tied to
    bills         \* the bills: [id, order, seats]

bvars == <<book, confirmed, loose, bills>>

Init == book = {} /\ confirmed = {} /\ loose = {} /\ bills = {}

Place ==
    /\ \E o \in book' :
          /\ ~o.paid /\ \A q \in book : q.id # o.id
          /\ book' = book \cup {o}
    /\ UNCHANGED <<confirmed, loose, bills>>

Pay ==
    /\ \E o \in book : ~o.paid /\ book' = (book \ {o}) \cup {[o EXCEPT !.paid = TRUE]}
    /\ UNCHANGED <<confirmed, loose, bills>>

\* Whether anything was kept of the order shows when the customer returns.
Confirm ==
    /\ \E o \in book :
          /\ o.paid
          /\ confirmed' = confirmed \cup {o.id}
          /\ loose' \in {loose, loose \cup {o.id}}
          /\ o.id \in confirmed => o.id \in loose'
    /\ UNCHANGED <<book, bills>>

\* A payment is marked failed, truly or not, before or after the order is paid.
MarkFailed ==
    /\ \E o \in book : loose' = loose \cup {o.id}
    /\ UNCHANGED <<book, confirmed, bills>>

Bill ==
    /\ \E o \in book, b \in bills' :
          /\ o.id \in confirmed /\ b.order = o.id
          /\ o.id \notin loose => b.seats = o.seats /\ \A c \in bills : c.order # o.id
          /\ bills' = bills \cup {b}
    /\ UNCHANGED <<book, confirmed, loose>>

Next == Place \/ Pay \/ Confirm \/ MarkFailed \/ Bill

Spec == Init /\ [][Next]_bvars
=============================================================================
