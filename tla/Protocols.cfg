\* Two threads and two sockets; request/reply with two requests and one fault, two
\* surveys of two respondents, five topologies of the other patterns, five
\* subscriptions at a time in a trie whose limits are small enough to be met, a
\* device with sockets of every kind, and two chunks of memory.
CONSTANTS
  Systems = {"core", "one", "two", "survey1", "survey2", "patterns", "trie",
           "device", "memory"}
  Thread = {"t1", "t2"}
  Main = "t1"
  MAX_SOCKETS = 2
  MaxSock = 2
  MaxEp = 1
  Lazy = {1}
  Beside = {"in", "out", "shutdown"}
  NoPipe = NoPipe
  SLOTS = 2
  Cap = 1
  MaxFault = 1
  MaxReq = 2
  MaxSurvey = 2
  PREFIX_MAX = 1
  SPARSE_MAX = 2
  MaxSubs = 5
SPECIFICATION FairSpec
INVARIANTS
  NoBadAction
  SlotsRight
  WakeupKept
  OwnReply
  OwnResponses
  OnceInOrder
  Balanced
  MatchRight
PROPERTIES
  DialogueEnds
  CloseReturns
CHECK_DEADLOCK FALSE
