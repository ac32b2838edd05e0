---------------------------- MODULE MCUserPlans ----------------------------
(* Small instances of UserPlans for TLC: the processes in Jobs make the     *)
(* calls of JobOps, the others those of UserOps.                            *)
EXTENDS UserPlans

CONSTANTS Jobs, JobOps, UserOps

\* Selling through Apple, with a coupon for a part of the price, or for all of it.
MCShops ==
    {[apple |-> TRUE, coupon |-> FALSE, full |-> FALSE]}
    \cup [apple : {FALSE}, coupon : {TRUE}, full : BOOLEAN]

MCOps == [p \in Procs |-> IF p \in Jobs THEN JobOps ELSE UserOps]

\* A renewal without an end, one of a product that is not on sale, and an end.
MCNotices ==
    [ends : {FALSE}, tx : [sub : Subs, plan : {Top}, revoked : {FALSE}, expires : {None}]]
    \cup [ends : BOOLEAN, tx : [sub : Subs, plan : {Free}, revoked : {FALSE}, expires : {Month}]]
=============================================================================
