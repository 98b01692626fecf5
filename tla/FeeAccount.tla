----------------------------- MODULE FeeAccount -----------------------------
(***************************************************************************)
(* What the payment tables promise a fee line, without handlers, snapshots  *)
(* or keys: one attempt at a time, and an attempt that leaves the slot has  *)
(* been posted to the line it was opened for.                               *)
(***************************************************************************)
CONSTANTS Lines, PaymentIds, None

VARIABLES
  slot,     \* the attempt awaiting completion on each line, or None
  posted,   \* the payments posted to each line
  used      \* the payments that have a row

accountVars == <<slot, posted, used>>

Init ==
  /\ slot = [l \in Lines |-> None]
  /\ posted = [l \in Lines |-> {}]
  /\ used = {}

\* A fresh payment takes the empty slot of a line.
Open(l, p) ==
  /\ slot[l] = None
  /\ p \notin used
  /\ slot' = [slot EXCEPT ![l] = p]
  /\ used' = used \cup {p}
  /\ UNCHANGED posted

\* The attempt in the slot is captured: it is posted and the slot is free again.
Capture(l) ==
  /\ slot[l] # None
  /\ posted' = [posted EXCEPT ![l] = @ \cup {slot[l]}]
  /\ slot' = [slot EXCEPT ![l] = None]
  /\ UNCHANGED used

Next ==
  \/ \E l \in Lines, p \in PaymentIds : Open(l, p)
  \/ \E l \in Lines : Capture(l)

Spec == Init /\ [][Next]_accountVars

=============================================================================
