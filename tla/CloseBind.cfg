CONSTANTS
  Systems = {"core"}
  Thread = {"t1", "t2"}
  Main = "t1"
  MAX_SOCKETS = 2
  MaxSock = 2
  MaxEp = 1
  Lazy = {1}
  Beside = {"in", "out", "shutdown", "bind"}
  NoPipe = NoPipe
  SLOTS = 2
  Cap = 1
  MaxFault = 1
  MaxReq = 2
  MaxSurvey = 2
  PREFIX_MAX = 1
  SPARSE_MAX = 2
  MaxSubs = 5
SPECIFICATION Spec
INVARIANT NoBadAction
CHECK_DEADLOCK FALSE
