SPECIFICATION Spec
CONSTANTS
  N = 2
  Files = {f}
  Chunks = 1
  Blocks <- FileBlocks
  Clients = {c}
  None = None
  MaxFaults = 1
  MaxFailures = 0
SYMMETRY ClientIds
INVARIANT HealedGood
CHECK_DEADLOCK FALSE
