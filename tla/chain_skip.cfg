SPECIFICATION Spec
CONSTANTS
  step1 = step1
  step2 = step2
  step3 = step3
  Nobody = Nobody
  Action = {step1, step2, step3}
  Item = {i1}
  Editor = {e1}
  Initial <- ThreeSteps
  MaxEdits = 1
  MaxLapses = 0
INVARIANT FilterGates
CHECK_DEADLOCK FALSE
