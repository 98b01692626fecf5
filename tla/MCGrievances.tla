---------------------------- MODULE MCGrievances ----------------------------
(* A municipality whose rules route to the clerk's queue, with or without naming an officer. *)
EXTENDS Grievances, TLC

MCRoutings == [role : {"municipality_clerk"}, assigned : BOOLEAN]

Symmetric == Permutations(Requests) \cup Permutations(Cases)
=============================================================================
