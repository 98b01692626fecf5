SPECIFICATION Spec
CONSTANTS
  DepositIds = {d1, d2}
  DispatchIds = {x1, x2, x3}
  Requests = {r1, r2}
  None = None
SYMMETRY Symmetric
CHECK_DEADLOCK FALSE
INVARIANTS TypeOK DispatchBacksDeposit OneOpenDispatch
