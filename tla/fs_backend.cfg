SPECIFICATION Spec
CONSTANTS
  Writers = {u, v, w}
  Pieces = 3
  MaxPuts = 6
  MaxCuts = 3
SYMMETRY WriterIds
INVARIANTS TornOnlyIfOverlapped TornOnlyInWriting AnsweredIsPresent
PROPERTY KeepsPromise
CHECK_DEADLOCK FALSE
