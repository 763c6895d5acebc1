SPECIFICATION Spec
CONSTANTS
  a = a
  b = b
  c = c
  Processes = {a, b, c}
  Nobody = Nobody
  Values = {0, 1}
  Sizes = {1, 2}
  Plans <- MCPlans
INVARIANTS
  AssertionsHold
  AgreeWhenQuiet
  ViewAgrees
  OneOwner
CHECK_DEADLOCK FALSE
