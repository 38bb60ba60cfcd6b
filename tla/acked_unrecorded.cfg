SPECIFICATION Spec
CONSTANTS
  Plans = {p}
  PricedPlans = {p}
  Accounts = {a}
  InvoiceIds = {i}
  Sessions = {s}
  OperatorStatuses = {"closed"}
  ChargeOutcomes = {FALSE}
  PeriodLength = 1
  Grace = 0
  None = None
  MaxTime = 1
  MaxFailures = 1
  MaxCrashes = 0
INVARIANT RetriedSafely
