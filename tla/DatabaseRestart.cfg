\* The server of the database crashes and is started again.
CONSTANTS
  Client = {"c1", "c2"}
  MAX_STUDENT = 1
  nb_request = 1
  max_request = 2
  MaxCrash = 1
  Station = {"s1"}
  Listener = {"l1"}
  Name = {"city", "other"}
  NameOf <- MCNameOf
  MaxSub = 1
  Capacity = 1
  K = 3
  Inputs <- MCInputs
  SAMPLE_SIZE = 3
  LastSplitter = 5
SPECIFICATION Spec
INVARIANTS
  OwnQueue
CHECK_DEADLOCK FALSE
