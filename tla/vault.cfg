SPECIFICATION Spec
CONSTANTS
  N = 3
  Files = {f}
  Chunks = 1
  Blocks <- FileBlocks
  Clients = {c, d}
  None = None
  MaxFaults = 2
  MaxFailures = 2
SYMMETRY ClientIds
INVARIANTS TypeOK Redundant Failover HealedPresence ManifestLast
CHECK_DEADLOCK FALSE
