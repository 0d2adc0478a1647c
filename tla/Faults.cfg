\* One network thread, a peer that resets its connection one that stalls, and one
\* whose request HttpParser may not survive.
CONSTANTS
  Conns = {c1, c2, c3}
  Fds = {f1, f2}
  Threads = {t1}
  Listen = Listen
  NoConn = NoConn
  Resets = {c1}
  Slow = {c1, c2}
  Split = {}
  Fatal = {c3}
  RespLen = 2
  MaxSize = 2
  MaxEvents = 3
SPECIFICATION FairSpec
INVARIANTS NoTotalHang StallsHarmNoOther
PROPERTIES InsertReplaces GetReturns
\* The program is at rest once every peer has been served.
CHECK_DEADLOCK FALSE
