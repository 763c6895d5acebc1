SPECIFICATION FairSpec
CONSTANTS
  a = a
  b = b
  Sources <- TwoSources
  MaxTime = 2
  MaxCalls = 3
  MaxLives = 2
  Never = 9
CHECK_DEADLOCK FALSE
INVARIANTS NothingRunsOfTheDead NoWakeUpIsLost NeverOversleeps AsyncInOrder
PROPERTIES AskedIsDone DestructionEnds
