SPECIFICATION FairSpec
CONSTANTS
  Items = {i1, i2, i3}
  HeadFed = FALSE
  MaxAttempts = 2
  BatchCap = 2
  Backfilled = {}
  MaxEdits = 0
  MaxStops = 1
INVARIANTS NoOrphan DrainStaysOut DeliveredOnce
PROPERTIES ArrivalsSettle ImplementsLedger
CHECK_DEADLOCK FALSE
