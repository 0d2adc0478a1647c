\* A response is interrupted by a full send buffer.
CONSTANTS
  Conns = {c1, c2}
  Fds = {f1}
  Threads = {t1}
  Listen = Listen
  NoConn = NoConn
  Resets = {}
  Slow = {c1}
  Split = {}
  Fatal = {}
  RespLen = 2
  MaxSize = 2
  MaxEvents = 3
SPECIFICATION Spec
INVARIANTS OwnResponse
\* The program is at rest once every peer has been served.
CHECK_DEADLOCK FALSE
