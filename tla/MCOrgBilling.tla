---------------------------- MODULE MCOrgBilling ----------------------------
(* Small instances of OrgBilling for TLC: the processes in Jobs make the    *)
(* calls of JobOps, the others those of UserOps.                            *)
EXTENDS OrgBilling

CONSTANTS Jobs, JobOps, UserOps

MCOps == [p \in Procs |-> IF p \in Jobs THEN JobOps ELSE UserOps]
=============================================================================
