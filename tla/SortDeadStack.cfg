SPECIFICATION Spec
CONSTANTS
  K = 2
  Inputs <- MCInputs
  SAMPLE_SIZE = 3
  LastSplitter = 5
  Garbage = 0
  StackSurvives = FALSE
CHECK_DEADLOCK FALSE
INVARIANT SortedOutput
