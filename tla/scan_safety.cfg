SPECIFICATION FairSpec
CONSTANTS
  photo = photo
  Documents = {d1}
  Fields = {photo}
  FieldOf <- MCFieldOf
  Requests = {r1, r2}
  Workers = {w1, w2}
  IntentLimit = 1
  Attempts = 2
  MaxStalls = 1
  MaxFaults = 2
  MaxPuts = 2
  None = None
CHECK_DEADLOCK FALSE
INVARIANTS TypeOK AwaitedVerdictHasJob SubmittedFieldsClean
PROPERTIES VerdictStands QueuedIsDecided
