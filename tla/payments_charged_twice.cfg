SPECIFICATION Spec
CONSTANTS
  Applications = {app}
  Keys = {k1}
  PaymentIds = {p1, p2}
  Requests = {r1, r2}
  Schedule <- DeferredSchedule
  Payable <- PricedLines
  MaxCrashes = 0
  free = free
  None = None
CHECK_DEADLOCK FALSE
INVARIANT FeeLineChargedOnce
