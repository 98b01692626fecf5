------------------------------ MODULE MCLeases ------------------------------
(* Leases of one asset, billed by the daily run, with the fees its invoices have shown. *)
EXTENDS LeasesHistory, TLC

Symmetric == Permutations(InvoiceIds) \cup Permutations(PaymentIds) \cup Permutations(Requests)
=============================================================================
