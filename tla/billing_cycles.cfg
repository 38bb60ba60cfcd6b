SPECIFICATION Spec
CONSTANTS
  Plans = {p, q}
  PricedPlans = {p}
  Accounts = {a, b}
  InvoiceIds = {i, j}
  Sessions = {}
  OperatorStatuses = {"closed"}
  ChargeOutcomes = {TRUE, FALSE}
  PeriodLength = 1
  Grace = 0
  None = None
  MaxTime = 2
  MaxFailures = 1
  MaxCrashes = 1
SYMMETRY Ids
INVARIANTS TypeOK LedgerConsistent NoPeriodSkipped BilledOnce LastDecisionHolds ChargedIsInvoiced NoStrandedTenant
