\* The open mailbox: a ring of 7 bytes and messages of 1 to 5, so that a few
\* of them wrap.  The system: two processes with a task each.
CONSTANTS
  a = a
  b = b
  c = c
  d = d
  e = e
  A = A
  B = B
  NoMsg = NoMsg
  Msg = {a, b, c, d}
  Sender = {A, B}
  Handled = {a, c}
  Ignored = {d}
  Outstanding = 4
  HDR = 1
  Q_SIZE = 8
  msg_size <- MCsize
  from <- MCfrom
  P1 = P1
  P2 = P2
  t1 = t1
  t2 = t2
  Process = {P1, P2}
  Creator = P1
  Task = {t1, t2}
  Home <- MCHome
  MAX_TASK = 4
  MaxMsg = 1
  EarlyAcquire = FALSE
  Halves = {"open", "closed", "system"}
SPECIFICATION TasksFairSpec
INVARIANTS
  TypeOK
  RingLayout
  LiveIntact
  DispatchOnHead
  EmptyAccepts
  ClosedCloneFaithful
  ClosedNeverRefused
  SystemTypeOK
  UniqueTaskIDs
  DestroyCleans
PROPERTIES
  Fifo
  ClosedDelivered
  ClosedFairFifo
  MessageNoticed
  DestroyEnds
CHECK_DEADLOCK FALSE
