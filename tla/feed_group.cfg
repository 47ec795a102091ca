SPECIFICATION Spec
CONSTANTS
  h = h
  r = r
  q = q
  Nobody = Nobody
  Source = {r, q}
  Poller = {w1}
  MaxPosts = 3
  Home <- GroupHome
  Kind <- GroupKind
  PageSize = 3
  MaxPages = 2
  Retention = 0
  MaxTime = 2
  MaxInserts = 2
  MaxLapses = 0
  MaxCrashes = 1
  MaxEdits = 1
INVARIANTS NothingStranded
CHECK_DEADLOCK FALSE
