SPECIFICATION Spec
CONSTANTS
  Plans = {p}
  PricedPlans = {p}
  Accounts = {a}
  InvoiceIds = {i, j}
  Sessions = {}
  OperatorStatuses = {"closed"}
  ChargeOutcomes = {FALSE}
  PeriodLength = 1
  Grace = 0
  None = None
  MaxTime = 2
  MaxFailures = 0
  MaxCrashes = 1
INVARIANT BilledOncePerPeriod
