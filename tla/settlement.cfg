SPECIFICATION CheckoutSpec
CONSTANTS
  Plans = {p}
  PricedPlans = {p}
  Accounts = {a}
  InvoiceIds = {i, j}
  Sessions = {s, r}
  OperatorStatuses = {"closed"}
  ChargeOutcomes = {FALSE}
  PeriodLength = 1
  Grace = 0
  None = None
  MaxTime = 0
  MaxFailures = 2
  MaxCrashes = 1
  Registered = {"manual", "stripe", "bitcoin"}
  MinConfirmations = 0
  MaxConfirmations = 1
SYMMETRY Ids
INVARIANTS OutsideOK PaidIsCollected MoneyIsNoticed PaidHasPayment AckedIsRecorded LedgerConsistent
PROPERTIES PaidIsFinal ServicePromise
