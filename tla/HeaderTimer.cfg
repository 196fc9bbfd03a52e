\* Tcp; the socket may have sent or received while the timer of the header
\* exchange is being stopped.
CONSTANTS
  Systems = {"tcp"}
  Rare = {"timer"}
  Accept = {"a1", "a2"}
  MaxCall = 2
  HsRoom = 1
  MaxMem = 3
  MaxMsg = 4
  MaxBind = 2
  Overlap = FALSE
  MaxSize = 5
  Cut = FALSE
  MaxFrame = 3
  MaxHs = 30
  MaxResponse = 20
  LeastHs = 8
  LeastResponse = 5
  MaxFrames = 3
SPECIFICATION Spec
INVARIANT NoBadEvent
CHECK_DEADLOCK FALSE
