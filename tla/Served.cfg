\* One network thread, enough descriptors, a request that may come in two parts,
\* and one that HttpParser may not survive.
CONSTANTS
  Conns = {c1, c2}
  Fds = {f1, f2}
  Threads = {t1}
  Listen = Listen
  NoConn = NoConn
  Resets = {}
  Slow = {}
  Split = {c1}
  Fatal = {c2}
  RespLen = 3
  MaxSize = 2
  MaxEvents = 1
SPECIFICATION FairSpec
PROPERTIES EveryoneAccepted EveryRequestAnswered FinReleases PartReleases
\* The program is at rest once every peer has been served.
CHECK_DEADLOCK FALSE
