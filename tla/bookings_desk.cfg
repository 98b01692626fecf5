SPECIFICATION Spec
CONSTANTS
  hall = hall
  van = van
  anita = anita
  bimal = bimal
  Assets = {hall, van}
  Fleet = {van}
  MaxEmergency = 1
  Slots <- OneSlot
  DepositDue <- MCDepositDue
  Rent <- MCRent
  Subsidy <- MCSubsidy
  Citizens = {anita}
  Applications = {a1}
  Applicant <- MCApplicant
  ReservationIds = {b1, b2}
  DepositIds = {d1}
  PaymentIds = {p1}
  ManualNumbers = {}
  Requests = {r1, r2}
  None = None
SYMMETRY Symmetric
CHECK_DEADLOCK FALSE
INVARIANT NoOverlap
PROPERTY ConfirmedWhenSecured
