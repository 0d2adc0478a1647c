\* A reset makes the thread close the descriptor of an event it handled before.
CONSTANTS
  Conns = {c1, c2, c3, c4}
  Fds = {f1, f2}
  Threads = {t1}
  Listen = Listen
  NoConn = NoConn
  Resets = {c1}
  Slow = {}
  Split = {}
  Fatal = {}
  RespLen = 2
  MaxSize = 2
  MaxEvents = 3
SPECIFICATION Spec
PROPERTIES PostsWhatItReceived
\* The program is at rest once every peer has been served.
CHECK_DEADLOCK FALSE
