SPECIFICATION Spec
CONSTANTS
  Fields <- BothFields
  Lengths = {1, 2}
  Thresholds = {1, 2, 3}
  Parts = {2, 3, 4}
  Strays <- StrayLines
  SplitWidth = 2
  MaxDealt = 2
  MaxDrawn = 2
  MaxPasted = 3
CHECK_DEADLOCK FALSE
INVARIANTS TypeOK FieldArithmetic AnyKRecover FewerConceal NeverPanics
