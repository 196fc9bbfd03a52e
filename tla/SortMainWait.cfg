SPECIFICATION FairSpec
CONSTANTS
  K = 2
  Inputs <- MCInputs
  SAMPLE_SIZE = 3
  LastSplitter = 5
  Garbage = 0
  StackSurvives = TRUE
CHECK_DEADLOCK FALSE
PROPERTY MainUnlocked
