---------------------------- MODULE MCEvCharging ----------------------------
(* EvCharging with interchangeable chargers, citizens, sessions and handlers. *)
EXTENDS EvCharging, TLC

Symmetric == Permutations(Chargers) \cup Permutations(Citizens) \cup Permutations(SessionIds)
             \cup Permutations(Requests)
=============================================================================
