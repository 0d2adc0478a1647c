---------------------------- MODULE SocketsProofs ----------------------------
(***************************************************************************)
(* The bookkeeping of Sockets is consistent whatever program makes the     *)
(* calls: a connection never has two descriptors, nor one while it is in   *)
(* the backlog, and only open descriptors are registered.                  *)
(***************************************************************************)
EXTENDS Sockets, TLAPS

\* Nothing is open, registered or pending at the start.
LEMMA InitTypeOK == SocketConstants /\ Init => TypeOK
  BY DEF SocketConstants, Init, TypeOK, Open

\* Events of a peer leave descriptors and registrations alone.
LEMMA PeerTypeOK ==
  ASSUME SocketConstants, TypeOK, NEW c \in Conns, Peer(c)
  PROVE  TypeOK'
  <1>0. Listen \notin Fds /\ NoConn \notin Conns
    BY DEF SocketConstants
  <1> USE <1>0 DEF TypeOK, Open, Edge
  <1>1. CASE Connect(c)
    <2>1. /\ peer[c] = "idle" /\ peer' = [peer EXCEPT ![c] = "open"]
          /\ backlog' = backlog \cup {c}
          /\ ready' \in [Threads -> SUBSET (Fds \cup {Listen})]
          /\ UNCHANGED <<cut, reset, room, sock, interest>>
      BY <1>1 DEF Connect
    <2>2. \A fd \in Fds : sock[fd] # c
      BY <2>1
    <2> QED
      BY <2>1, <2>2, ZenonT(60)
  <1>2. CASE Request(c)
    BY <1>2 DEF Request
  <1>6. CASE RequestPart(c)
    BY <1>6 DEF RequestPart
  <1>3. CASE Fin(c)
    BY <1>3 DEF Fin
  <1>4. CASE Reset(c)
    BY <1>4 DEF Reset
  <1>5. CASE Drain(c)
    BY <1>5 DEF Drain
  <1> QED
    BY <1>1, <1>2, <1>3, <1>4, <1>5, <1>6 DEF Peer

\* A registration by thread t adds x to what is registered, at most.
RegisteredBy(t, x) ==
  /\ interest' \in [Threads -> [Fds \cup {Listen} -> {"none", "in", "out"}]]
  /\ ready' \in [Threads -> SUBSET (Fds \cup {Listen})]
  /\ \A u \in Threads, y \in Fds :
       interest'[u][y] # "none" => interest[u][y] # "none" \/ (u = t /\ y = x)

\* That is all Register changes.
LEMMA RegisterFacts ==
  ASSUME TypeOK, NEW t \in Threads, NEW x \in Fds \cup {Listen}, NEW c,
         NEW i \in {"none", "in", "out"}, Register(t, x, c, i)
  PROVE  RegisteredBy(t, x)
  <1> DEFINE Kinds == {"none", "in", "out"}
  <1>1. interest' \in [Threads -> [Fds \cup {Listen} -> Kinds]]
    BY DEF TypeOK, Register
  <1>2. ready' \in [Threads -> SUBSET (Fds \cup {Listen})]
    BY DEF TypeOK, Register
  <1>3. ASSUME NEW u \in Threads, NEW y \in Fds, interest'[u][y] # "none",
               u # t \/ y # x
        PROVE  interest[u][y] # "none"
    BY <1>3 DEF TypeOK, Register
  <1> QED
    BY <1>1, <1>2, <1>3 DEF RegisteredBy

\* Every system call keeps the bookkeeping consistent.
LEMMA NextTypeOK == SocketConstants /\ TypeOK /\ [Next]_vars => TypeOK'
  <1> SUFFICES ASSUME SocketConstants, TypeOK, [Next]_vars PROVE TypeOK'
    OBVIOUS
  <1>0. Listen \notin Fds /\ NoConn \notin Conns
    BY DEF SocketConstants
  <1> USE <1>0
  <1>1. ASSUME NEW t \in Threads, WatchListen(t)
        PROVE  TypeOK'
    <2>1. Register(t, Listen, NoConn, "in")
      BY <1>1 DEF WatchListen
    <2>2. RegisteredBy(t, Listen)
      BY <2>1, RegisterFacts
    <2> QED
      BY <1>1, <2>2, ZenonT(60) DEF WatchListen, TypeOK, Open, RegisteredBy
  <1>2. ASSUME NEW t \in Threads, NEW entries \in SUBSET ready[t], Harvest(t, entries)
        PROVE  TypeOK'
    BY <1>2 DEF Harvest, TypeOK, Open
  <1>3. ASSUME NEW t \in Threads, NEW fd \in Fds, NEW i \in {"none", "in", "out"},
               EpollCtl(t, fd, i)
        PROVE  TypeOK'
    <2>1. CASE interest[t][fd] = "none"
      BY <1>3, <2>1 DEF EpollCtl, TypeOK, Open
    <2>2. CASE interest[t][fd] # "none"
      <3>1. Register(t, fd, sock[fd], i)
        BY <1>3, <2>2 DEF EpollCtl
      <3>2. RegisteredBy(t, fd)
        BY <3>1, RegisterFacts
      <3> QED
        BY <1>3, <2>2, <3>2, ZenonT(60) DEF EpollCtl, TypeOK, Open, RegisteredBy
    <2> QED
      BY <2>1, <2>2
  <1>4. ASSUME NEW t \in Threads, NEW fd \in Fds, EpollAdd(t, fd)
        PROVE  TypeOK'
    <2>1. CASE ~Open(fd)
      BY <1>4, <2>1 DEF EpollAdd, TypeOK, Open
    <2>2. CASE Open(fd)
      <3>1. Register(t, fd, sock[fd], "in")
        BY <1>4, <2>2 DEF EpollAdd
      <3>2. RegisteredBy(t, fd)
        BY <3>1, RegisterFacts
      <3> QED
        BY <1>4, <2>2, <3>2 DEF EpollAdd, TypeOK, Open, RegisteredBy
    <2> QED
      BY <2>1, <2>2
  <1>9. ASSUME NEW fd \in Fds, NEW c \in Conns, Accept(c, fd)
        PROVE  TypeOK'
    <2> USE DEF TypeOK, Open
    <2>1. /\ UNCHANGED <<peer, cut, reset, room, interest, ready>>
          /\ backlog' = backlog \ {c} /\ c \in backlog
          /\ sock' = [sock EXCEPT ![fd] = c] /\ sock[fd] = NoConn
      BY <1>9 DEF Accept
    <2>2. \A gd \in Fds : sock'[gd] = IF gd = fd THEN c ELSE sock[gd]
      BY <2>1
    <2>3. sock' \in [Fds -> Conns \cup {NoConn}]
      BY <2>1
    <2>4. \A gd \in Fds : Open(gd)' =>
              sock'[gd] \notin backlog' /\ peer'[sock'[gd]] # "idle"
      BY <2>1, <2>2
    <2>5. \A gd, hd \in Fds : Open(gd)' /\ sock'[gd] = sock'[hd] => gd = hd
      BY <2>1, <2>2
    <2>6. \A u \in Threads, gd \in Fds : interest'[u][gd] # "none" => Open(gd)'
      BY <2>1, <2>2
    <2> QED
      BY <2>1, <2>3, <2>4, <2>5, <2>6
  <1>5. ASSUME NEW fd \in Fds, Receive(fd)
        PROVE  TypeOK'
    <2> USE DEF TypeOK, Open
    <2>1. CASE peer[sock[fd]] = "sent"
      BY <1>5, <2>1, ZenonT(60) DEF Receive, RecvFails
    <2>2. CASE peer[sock[fd]] = "part"
      <3>1. sock[fd] \in Split /\ sock[fd] \in Conns
        BY <1>5, <2>2 DEF Receive, RecvFails
      <3>2. /\ peer' = [peer EXCEPT ![sock[fd]] = "open"]
            /\ cut' = cut \cup {sock[fd]}
            /\ UNCHANGED <<reset, room, backlog, sock, interest, ready>>
        BY <1>5, <2>2 DEF Receive
      <3>3. cut' \in SUBSET Split
        BY <3>1, <3>2
      <3> QED
        BY <3>1, <3>2, <3>3
    <2> QED
      BY <1>5, <2>1, <2>2 DEF Receive
  <1>6. ASSUME NEW fd \in Fds, FillUp(fd)
        PROVE  TypeOK'
    BY <1>6 DEF FillUp, SendFails, TypeOK, Open
  <1>7. ASSUME NEW fd \in Fds, Close(fd)
        PROVE  TypeOK'
    BY <1>7 DEF Close, TypeOK, Open
  <1>8. CASE UNCHANGED vars
    BY <1>8 DEF vars, TypeOK, Open
  <1> QED
    BY <1>1, <1>2, <1>3, <1>4, <1>5, <1>6, <1>7, <1>8, <1>9, PeerTypeOK
    DEF Next

\* No connection has two descriptors, and none is left registered after close.
THEOREM TypeCorrect ==
  ASSUME SocketConstants
  PROVE  Spec => []TypeOK
  BY InitTypeOK, NextTypeOK, PTL DEF Spec
==============================================================================
