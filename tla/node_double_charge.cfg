SPECIFICATION Spec
CONSTANTS
  Nodes = {n}
  Accounts = {a}
  Blocks = {x}
  Requests = {q, r}
  Size = 1
  Quota = 2
  DirectAmounts = {}
  MaxInt = 3
  None = None
  MaxFailures = 0
  MaxCrashes = 0
  MaxDirect = 0
INVARIANT NeverChargedTwice
SYMMETRY Ids
