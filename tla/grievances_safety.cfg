SPECIFICATION Spec
CONSTANTS
  Cases = {g1, g2}
  Requests = {r1, r2}
  Routings <- MCRoutings
  MaxCalls = 7
  None = None
SYMMETRY Symmetric
CHECK_DEADLOCK FALSE
INVARIANTS TypeOK NumbersAreDense QuietIsConsistent 
