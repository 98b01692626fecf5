----------------------------- MODULE MCBookings -----------------------------
(* Bookings of one municipality: a hall with a security deposit, and an ambulance without. *)
EXTENDS Bookings, TLC

CONSTANTS hall, van, anita, bimal

OneSlot  == {1}
TwoSlots == 1..2

MCDepositDue == [a \in Assets |-> IF a = hall THEN 2 ELSE 0]
MCRent       == [a \in Assets |-> IF a = hall THEN 1 ELSE 2]
MCSubsidy    == [a \in Assets |-> 1]
MCApplicant  == [a \in Applications |-> anita]

Symmetric == Permutations(ReservationIds) \cup Permutations(DepositIds) \cup Permutations(PaymentIds)
             \cup Permutations(Requests)

\* Without applications the citizens are interchangeable as well.
SymmetricCitizens == Symmetric \cup Permutations(Citizens)
=============================================================================
