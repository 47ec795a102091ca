SPECIFICATION Spec
CONSTANTS
  h = h
  r = r
  q = q
  Nobody = Nobody
  Source = {h}
  Poller = {w1, w2}
  MaxPosts = 4
  Home <- PagedHome
  Kind <- PagedKind
  PageSize = 3
  MaxPages = 3
  Retention = 2
  MaxTime = 2
  MaxInserts = 2
  MaxLapses = 1
  MaxCrashes = 1
  MaxEdits = 0
SYMMETRY Interchangeable
INVARIANTS NothingStranded NothingMissed TriggeredOnce
CHECK_DEADLOCK FALSE
