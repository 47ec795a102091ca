SPECIFICATION FairSpec
CONSTANTS
  Items = {1, 2}
  ChainLength = 3
  Rejections = {}
  Target = 2
  Workers = {w1}
  SingleFlight = TRUE
  MaxAttempts = 2
INVARIANTS RegeneratedStays SourceCovered
PROPERTY JobSettles
