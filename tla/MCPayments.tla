----------------------------- MODULE MCPayments -----------------------------
(* Payments on one application of a dual-fee or of a deferred service, beside *)
(* an application of a service whose upfront fee is free.                     *)
EXTENDS Payments

CONSTANT free

MixedSchedule    == [a \in Applications |-> IF a = free THEN "upfront_only" ELSE "upfront_and_deferred"]
DeferredSchedule == [a \in Applications |-> "deferred_only"]
PricedLines      == {l \in Lines : l[1] # free}
=============================================================================
