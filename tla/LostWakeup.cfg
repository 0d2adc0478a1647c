\* Two network threads sleep, the wrong one is notified.
CONSTANTS
  Conns = {c1, c2}
  Fds = {f1, f2}
  Threads = {t1, t2}
  Listen = Listen
  NoConn = NoConn
  Resets = {}
  Slow = {}
  Split = {}
  Fatal = {}
  RespLen = 2
  MaxSize = 2
  MaxEvents = 3
SPECIFICATION FairSpec
PROPERTIES FilledInWakes
\* The program is at rest once every peer has been served.
CHECK_DEADLOCK FALSE
