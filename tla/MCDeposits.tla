----------------------------- MODULE MCDeposits -----------------------------
(* Deposits over interchangeable rows and handlers. *)
EXTENDS Deposits, TLC

Symmetric == Permutations(DepositIds) \cup Permutations(DispatchIds) \cup Permutations(Requests)
=============================================================================
