\* Tcp with a connecting endpoint and a bound one; no rare coincidence.
CONSTANTS
  Systems = {"tcp"}
  Rare = {}
  Accept = {"a1", "a2"}
  MaxCall = 2
  HsRoom = 1
  MaxMem = 3
  MaxMsg = 4
  MaxBind = 2
  Overlap = FALSE
  MaxSize = 5
  Cut = FALSE
  MaxFrame = 3
  MaxHs = 30
  MaxResponse = 20
  LeastHs = 8
  LeastResponse = 5
  MaxFrames = 3
SPECIFICATION FairSpec
PROPERTY LossNoticed
CHECK_DEADLOCK FALSE
