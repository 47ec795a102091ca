SPECIFICATION FairSpec
CONSTANTS
  NoDrain = NoDrain
  Items = {i1, i2}
  ChainLength = 1
  Outbound = {1}
  Rejections = {"gated"}
  Drains = {d1, d2}
  Concurrency = 1
  SingleFlight = TRUE
  MaxAttempts = 2
  Stale = 2
  MaxCall = 1
  MaxGap = 1
  MaxStops = 2
INVARIANTS NoFalseReap FenceIsOwn
PROPERTY RunsSettle
