SPECIFICATION FairSpec
CONSTANTS
  Nodes = {n}
  Accounts = {a, b}
  Blocks = {x}
  Requests = {q, r}
  Size = 1
  Quota = 1
  DirectAmounts = {1, 3}
  MaxInt = 3
  None = None
  MaxFailures = 1
  MaxCrashes = 1
  MaxDirect = 2
INVARIANTS TypeOK QuotaHeld StoredIsCharged ChargedOnce
PROPERTY Answered
