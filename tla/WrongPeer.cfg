\* A reset leaves a response behind, the descriptor is reused.
CONSTANTS
  Conns = {c1, c2}
  Fds = {f1}
  Threads = {t1}
  Listen = Listen
  NoConn = NoConn
  Resets = {c1}
  Slow = {}
  Split = {}
  Fatal = {}
  RespLen = 2
  MaxSize = 2
  MaxEvents = 3
SPECIFICATION Spec
INVARIANTS OwnResponse
\* The program is at rest once every peer has been served.
CHECK_DEADLOCK FALSE
