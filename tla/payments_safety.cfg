SPECIFICATION FairSpec
CONSTANTS
  Applications = {app, free}
  Keys = {k1, k2}
  PaymentIds = {p1, p2}
  Requests = {r1, r2}
  Schedule <- MixedSchedule
  Payable <- PricedLines
  MaxCrashes = 1
  free = free
  None = None
CHECK_DEADLOCK FALSE
INVARIANTS TypeOK OneActiveAttempt BooksBalance PaidLineIsSettled SubmittedImpliesCollected
PROPERTIES KeyBindsOnce ImplementsFeeAccount CollectionReachesSnapshot
