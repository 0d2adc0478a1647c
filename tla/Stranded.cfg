\* The only descriptor is in use when a second peer connects, and free again later.
CONSTANTS
  Conns = {c1, c2}
  Fds = {f1}
  Threads = {t1}
  Listen = Listen
  NoConn = NoConn
  Resets = {}
  Slow = {}
  Split = {}
  Fatal = {}
  RespLen = 2
  MaxSize = 2
  MaxEvents = 3
SPECIFICATION FairSpec
PROPERTIES NotLeftPending
\* The program is at rest once every peer has been served.
CHECK_DEADLOCK FALSE
