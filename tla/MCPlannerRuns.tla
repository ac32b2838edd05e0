--------------------------- MODULE MCPlannerRuns ---------------------------
(* Small instances of PlannerRuns for TLC: days 0..MaxDay and a rule that   *)
(* moves the due date by Step days.  The processes in Jobs make the calls   *)
(* of JobOps, the others those of UserOps.                                  *)
EXTENDS PlannerRuns

CONSTANTS MaxDay, Step, Jobs, JobOps, UserOps

MCOps     == [p \in Procs |-> IF p \in Jobs THEN JobOps ELSE UserOps]
MCDays    == 0..MaxDay
MCNextDue == [d \in 0..(MaxDay + MaxSeq * Step) |-> d + Step]
MCDueOf   == [d \in 0..MaxDay |-> [k \in 1..(MaxSeq + 1) |-> d + (k - 1) * Step]]
=============================================================================
