SPECIFICATION Spec
CONSTANTS
  NoDrain = NoDrain
  Items = {i1}
  ChainLength = 2
  Outbound = {2}
  Rejections = {"errored"}
  Drains = {d1, d2}
  Concurrency = 2
  SingleFlight = FALSE
  MaxAttempts = 3
  Stale = 2
  MaxCall = 1
  MaxGap = 1
  MaxStops = 1
INVARIANTS TypeOK PostsWithinAttempts AuditBeforeVerdict CompletedMeansFinal NoStalledChain
PROPERTY ImplementsLedger
