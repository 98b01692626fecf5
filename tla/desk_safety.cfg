SPECIFICATION FairSpec
CONSTANTS
  Applications = {a1}
  CitizenPayments = {p1}
  Requests = {r1, r2}
  MaxCrashes = 1
  MaxElsewhere = 1
  None = None
CHECK_DEADLOCK FALSE
INVARIANTS TypeOK WorkIsPaidFor StagesInOrder QuietIsConsistent
PROPERTIES CollectedMovesOn
