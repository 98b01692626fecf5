SPECIFICATION Spec
CONSTANTS
  hall = hall
  van = van
  anita = anita
  bimal = bimal
  Assets = {hall}
  Fleet = {}
  MaxEmergency = 1
  Slots <- TwoSlots
  DepositDue <- MCDepositDue
  Rent <- MCRent
  Subsidy <- MCSubsidy
  Citizens = {anita, bimal}
  Applications = {}
  Applicant <- MCApplicant
  ReservationIds = {b1, b2}
  DepositIds = {d1, d2}
  PaymentIds = {p1}
  ManualNumbers = {0}
  Requests = {r1, r2}
  None = None
SYMMETRY SymmetricCitizens
CHECK_DEADLOCK FALSE
INVARIANTS TypeOK NoOverlap
PROPERTY ConfirmedWhenSecured
