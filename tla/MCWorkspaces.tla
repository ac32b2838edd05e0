---------------------------- MODULE MCWorkspaces ----------------------------
(* Small instances of Workspaces for TLC. *)
EXTENDS Workspaces, TLC

PeopleSymmetry == Permutations(People) \cup Permutations(Procs)
=============================================================================
