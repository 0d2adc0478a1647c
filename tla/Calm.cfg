\* Two network threads, peers that neither reset nor stall; one may send its
\* request in two parts, or one that HttpParser does not survive.
CONSTANTS
  Conns = {c1, c2, c3}
  Fds = {f1, f2}
  Threads = {t1, t2}
  Listen = Listen
  NoConn = NoConn
  Resets = {}
  Slow = {}
  Split = {c1}
  Fatal = {c1}
  RespLen = 2
  MaxSize = 2
  MaxEvents = 3
SPECIFICATION Spec
INVARIANTS
  TypeOK CalmInv ServiceInv OwnResponse NoDangling NoTotalHang ReceivedNormally
  EndsByRequest
PROPERTY IsService
SYMMETRY Symmetry
\* The program is at rest once every peer has been served.
CHECK_DEADLOCK FALSE
