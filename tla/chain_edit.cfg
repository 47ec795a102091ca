SPECIFICATION Spec
CONSTANTS
  step1 = step1
  step2 = step2
  step3 = step3
  Nobody = Nobody
  Action = {step1, step2, step3}
  Item = {i1}
  Editor = {e1, e2}
  Initial <- TwoSteps
  MaxEdits = 2
  MaxLapses = 1
SYMMETRY Interchangeable
INVARIANTS ReadIsCurrent DenseRanks NeverCollides GatesUnshifted
PROPERTY OthersKeepOrder
CHECK_DEADLOCK FALSE
