SPECIFICATION Spec
CONSTANTS
  Items = {1}
  ChainLength = 3
  Rejections = {}
  Target = 2
  Workers = {w1}
  SingleFlight = TRUE
  MaxAttempts = 1
INVARIANT ChainRefilled
