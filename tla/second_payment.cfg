SPECIFICATION Spec
CONSTANTS
  Plans = {p}
  PricedPlans = {p}
  Accounts = {a}
  InvoiceIds = {i}
  Sessions = {s, r}
  OperatorStatuses = {"closed"}
  ChargeOutcomes = {FALSE}
  PeriodLength = 1
  Grace = 0
  None = None
  MaxTime = 0
  MaxFailures = 0
  MaxCrashes = 0
INVARIANT EveryReceiptRecorded
