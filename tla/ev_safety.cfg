SPECIFICATION Spec
CONSTANTS
  Chargers = {c1, c2}
  Citizens = {anita, bimal}
  SessionIds = {s1, s2}
  PaymentIds = {p1}
  Keys = {k1}
  Requests = {r1, r2}
  None = None
SYMMETRY Symmetric
CHECK_DEADLOCK FALSE
INVARIANTS TypeOK ExclusiveUse CompletedIsPaid ExpiredHoldsDoNotBlock
