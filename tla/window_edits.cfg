SPECIFICATION Spec
CONSTANTS
  Items = {i1, i2}
  HeadFed = TRUE
  MaxAttempts = 2
  BatchCap = 1
  Backfilled = {i1}
  MaxEdits = 2
  MaxStops = 1
PROPERTY VerdictsStand
CHECK_DEADLOCK FALSE
