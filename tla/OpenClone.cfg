\* The open mailbox alone.
CONSTANTS
  a = a
  b = b
  c = c
  d = d
  e = e
  A = A
  B = B
  NoMsg = NoMsg
  Msg = {a, b, c, d}
  Sender = {A, B}
  Handled = {a, c}
  Ignored = {d}
  Outstanding = 4
  HDR = 1
  Q_SIZE = 8
  msg_size <- MCsize
  from <- MCfrom
  P1 = P1
  P2 = P2
  t1 = t1
  t2 = t2
  Process = {P1, P2}
  Creator = P1
  Task = {t1, t2}
  Home <- MCHome
  MAX_TASK = 4
  MaxMsg = 1
  EarlyAcquire = FALSE
  Halves = {"open"}
SPECIFICATION TasksSpec
INVARIANT CloneFaithful
