CONSTANTS
  Producers = {p1, p2, p3}
  Consumers = {c1}
  Messages = {m1, m2}
  MaxQueue = 3
  Free = Free
  NoMsg = NoMsg
SPECIFICATION FairSpec
INVARIANTS TypeOK NoUnderflow NoLostWakeup
PROPERTIES IsFifoChannel EveryMessageTaken
\* A torn deque ends the modelled part of a run.
CHECK_DEADLOCK FALSE
