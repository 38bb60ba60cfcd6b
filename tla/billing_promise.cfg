SPECIFICATION FairSpec
CONSTANTS
  Plans = {p}
  PricedPlans = {p}
  Accounts = {a, b}
  InvoiceIds = {i, j}
  Sessions = {s}
  OperatorStatuses = {"closed"}
  ChargeOutcomes = {TRUE, FALSE}
  PeriodLength = 1
  Grace = 0
  None = None
  MaxTime = 1
  MaxFailures = 0
  MaxCrashes = 1
PROPERTIES PromiseKept PaidIsAcked
