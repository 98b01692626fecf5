SPECIFICATION FairHistorySpec
CONSTANTS
  Assets = {shop}
  AgreementIds = {g1}
  InvoiceIds = {i1, i2}
  PaymentIds = {p1, p2}
  Runs = {cron}
  Requests = {r1, r2}
  Rent = 2
  ColumnFees = {0, 1}
  LegacyFees = {0, 2}
  LastPeriod = 2
  None = None
INVARIANTS TypeOK PaidIsCollected BilledWithoutGaps ChargesAreShown
PROPERTY PeriodsAreBilled
