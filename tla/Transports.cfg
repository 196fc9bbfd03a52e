\* A connecting endpoint and a bound one with up to two connections; inproc with
\* a queue of three messages; three frames of every kind; handshakes in a
\* buffer that the long ones overflow.
CONSTANTS
  Systems = {"tcp", "ipc", "ws", "inproc", "frames", "handshake"}
  Rare = {}
  Accept = {"a1", "a2"}
  MaxCall = 2
  HsRoom = 1
  MaxMem = 3
  MaxMsg = 4
  MaxBind = 2
  Overlap = FALSE
  MaxSize = 5
  Cut = FALSE
  MaxFrame = 3
  MaxHs = 30
  MaxResponse = 20
  LeastHs = 8
  LeastResponse = 5
  MaxFrames = 3
SPECIFICATION FairSpec
INVARIANTS
  NoBadEvent
  StackInStep
  Transferred
PROPERTIES
  Recovers
CHECK_DEADLOCK FALSE
