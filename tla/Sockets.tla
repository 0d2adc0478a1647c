------------------------------ MODULE Sockets ------------------------------
(***************************************************************************)
(* The operating system as NetServer.cpp uses it: the peers, the listening *)
(* socket with its backlog, the descriptor table, and one edge-triggered   *)
(* epoll instance per network thread.  None of it is code of the program.  *)
(*                                                                         *)
(* epoll: a registration joins the ready list when it is added or modified *)
(* while its condition holds, and at every edge (data, end of file, reset, *)
(* room in the send buffer, a new connection).  epoll_wait takes entries   *)
(* off the ready list and reports those whose condition holds then; until  *)
(* the next edge they are not reported again.  A reset is reported         *)
(* whatever was asked for, together with other bits ("err" below).         *)
(* A descriptor leaves every epoll instance when it is closed.             *)
(***************************************************************************)
CONSTANTS
  Conns,     \* the connections peers ever make
  Fds,       \* descriptors for accepted sockets: the limit of the process
  Threads,   \* the network threads, each with its own epoll instance
  Listen,    \* _serverSocket
  NoConn,    \* the descriptor is not open
  Resets,    \* the connections a peer may reset
  Slow,      \* the connections whose send buffer may fill up
  Split      \* the connections whose request may arrive in two parts

\* What the theorems about this module suppose of the constants.
SocketConstants ==
  /\ Listen \notin Fds
  /\ NoConn \notin Conns
  /\ Resets \subseteq Conns
  /\ Slow \subseteq Conns
  /\ Split \subseteq Conns

VARIABLES
  peer,      \* "idle", "open", "part" or all of a request "sent" (and not
             \* received yet), "taken" by recv, or "fin"
  cut,       \* the connections of which recv took the first part of a request
  reset,     \* the connections their peer has reset
  room,      \* send buffer: "fresh", "full", or "drained" after being full
  backlog,   \* connections accept has not returned yet
  sock,      \* the connection behind each descriptor, or NoConn
  interest,  \* per thread and descriptor: "none", "in" or "out"
  ready      \* the ready list of each thread's epoll instance

vars == <<peer, cut, reset, room, backlog, sock, interest, ready>>

Init ==
  /\ peer = [c \in Conns |-> "idle"]
  /\ cut = {}
  /\ reset = {}
  /\ room = [c \in Conns |-> "fresh"]
  /\ backlog = {}
  /\ sock = [fd \in Fds |-> NoConn]
  /\ interest = [t \in Threads |-> [x \in Fds \cup {Listen} |-> "none"]]
  /\ ready = [t \in Threads |-> {}]

Open(fd) == sock[fd] # NoConn

\* What poll reports of connection c to a registration for i, or "none".
Polled(c, i) ==
  CASE i = "none" -> "none"
    [] i # "none" /\ c \in reset -> "err"
    [] i = "in" /\ c \notin reset ->
         IF peer[c] \in {"part", "sent", "fin"} THEN "in" ELSE "none"
    [] i = "out" /\ c \notin reset ->
         IF room[c] # "full" THEN "out" ELSE "none"

\* The event epoll_wait reports to thread t for x, or "none".
Event(t, x) ==
  IF x = Listen THEN IF backlog # {} THEN "in" ELSE "none"
                ELSE Polled(sock[x], interest[t][x])

\* An edge of kind i on connection c reaches the registrations that ask for it.
Edge(c, i) ==
  ready' = [t \in Threads |-> ready[t] \cup
              {fd \in Fds : sock[fd] = c /\ interest[t][fd] \in i}]
------------------------------------------------------------------------------
\* The peers.

\* The handshake is over: every epoll instance that watches _serverSocket
\* gets the edge.
Connect(c) ==
  /\ peer[c] = "idle"
  /\ peer' = [peer EXCEPT ![c] = "open"]
  /\ backlog' = backlog \cup {c}
  /\ ready' = [t \in Threads |-> ready[t] \cup
                 (IF interest[t][Listen] = "in" THEN {Listen} ELSE {})]
  /\ UNCHANGED <<cut, reset, room, sock, interest>>

\* The first part of a request arrives.
RequestPart(c) ==
  /\ c \in Split \ cut
  /\ peer[c] = "open" /\ c \notin reset
  /\ peer' = [peer EXCEPT ![c] = "part"]
  /\ Edge(c, {"in"})
  /\ UNCHANGED <<cut, reset, room, backlog, sock, interest>>

\* The request arrives in one piece, or what is left of it does.
Request(c) ==
  /\ peer[c] \in {"open", "part"} /\ c \notin reset
  /\ peer' = [peer EXCEPT ![c] = "sent"]
  /\ Edge(c, {"in"})
  /\ UNCHANGED <<cut, reset, room, backlog, sock, interest>>

\* The peer closes without having sent a request, or the rest of it.
Fin(c) ==
  /\ peer[c] = "open" /\ c \notin reset
  /\ peer' = [peer EXCEPT ![c] = "fin"]
  /\ Edge(c, {"in"})
  /\ UNCHANGED <<cut, reset, room, backlog, sock, interest>>

Reset(c) ==
  /\ c \in Resets \ reset
  /\ c \in backlog \/ \E fd \in Fds : sock[fd] = c
  /\ reset' = reset \cup {c}
  /\ Edge(c, {"in", "out"})
  /\ UNCHANGED <<peer, cut, room, backlog, sock, interest>>

\* The peer reads, and the send buffer has room again.
Drain(c) ==
  /\ room[c] = "full"
  /\ room' = [room EXCEPT ![c] = "drained"]
  /\ Edge(c, {"out"})
  /\ UNCHANGED <<peer, cut, reset, backlog, sock, interest>>

Peer(c) ==
  \/ Connect(c) \/ RequestPart(c) \/ Request(c) \/ Fin(c)
  \/ Reset(c) \/ Drain(c)
------------------------------------------------------------------------------
\* The system calls of the server.

\* A registration of x, which is connection c, for i by thread t.
Register(t, x, c, i) ==
  /\ interest' = [interest EXCEPT ![t][x] = i]
  /\ ready' = [ready EXCEPT ![t] =
       IF (IF x = Listen THEN backlog # {} ELSE Polled(c, i) # "none")
         THEN @ \cup {x} ELSE @ \ {x}]

\* EPOLL_CTL_ADD of _serverSocket.
WatchListen(t) ==
  /\ Register(t, Listen, NoConn, "in")
  /\ UNCHANGED <<peer, cut, reset, room, backlog, sock>>

\* EPOLL_CTL_MOD to "in" or "out", or EPOLL_CTL_DEL; it fails without effect
\* if fd is not registered with the epoll instance of thread t.
EpollCtl(t, fd, i) ==
  /\ IF interest[t][fd] = "none"
       THEN UNCHANGED <<interest, ready>>
       ELSE Register(t, fd, sock[fd], i)
  /\ UNCHANGED <<peer, cut, reset, room, backlog, sock>>

\* EPOLL_CTL_ADD of an accepted socket for EPOLLIN; it fails without effect if
\* the descriptor has been closed.
EpollAdd(t, fd) ==
  /\ IF Open(fd) THEN Register(t, fd, sock[fd], "in")
                 ELSE UNCHANGED <<interest, ready>>
  /\ UNCHANGED <<peer, cut, reset, room, backlog, sock>>

\* accept returns connection c on descriptor fd.
Accept(c, fd) ==
  /\ c \in backlog
  /\ ~Open(fd)
  /\ backlog' = backlog \ {c}
  /\ sock' = [sock EXCEPT ![fd] = c]
  /\ UNCHANGED <<peer, cut, reset, room, interest, ready>>

\* accept fails: nothing is pending, or no descriptor is free.
AcceptFails == backlog = {} \/ \A fd \in Fds : Open(fd)

\* close; EBADF, and no effect, if the descriptor is not open.
Close(fd) ==
  /\ sock' = [sock EXCEPT ![fd] = NoConn]
  /\ interest' = [t \in Threads |-> [interest[t] EXCEPT ![fd] = "none"]]
  /\ ready' = [t \in Threads |-> ready[t] \ {fd}]
  /\ UNCHANGED <<peer, cut, reset, room, backlog>>

\* epoll_wait of thread t takes entries off its ready list.
Harvest(t, entries) ==
  /\ ready' = [ready EXCEPT ![t] = @ \ entries]
  /\ UNCHANGED <<peer, cut, reset, room, backlog, sock, interest>>

\* recv fails or finds the end of file: fd is not open, the peer has reset the
\* connection, or closed it.
RecvFails(fd) == Open(fd) => sock[fd] \in reset \/ peer[sock[fd]] = "fin"

\* recv returns what has arrived of the request; the rest may follow.
Receive(fd) ==
  LET c == sock[fd] IN
  /\ ~RecvFails(fd)
  /\ \/ peer[c] = "sent" /\ peer' = [peer EXCEPT ![c] = "taken"] /\ UNCHANGED cut
     \/ peer[c] = "part" /\ peer' = [peer EXCEPT ![c] = "open"] /\ cut' = cut \cup {c}
  /\ UNCHANGED <<reset, room, backlog, sock, interest, ready>>

\* send fails: the peer has reset the connection, or fd is not open.
SendFails(fd) == ~Open(fd) \/ sock[fd] \in reset

\* The send buffer of the connection behind fd is full.  It fills up only once
\* per connection, which bounds how often a response is interrupted.
FillUp(fd) ==
  /\ ~SendFails(fd)
  /\ sock[fd] \in Slow /\ room[sock[fd]] # "drained"
  /\ room' = [room EXCEPT ![sock[fd]] = "full"]
  /\ UNCHANGED <<peer, cut, reset, backlog, sock, interest, ready>>

\* What peers and any program that keeps to these calls can do.
Next ==
  \/ \E c \in Conns : Peer(c)
  \/ \E t \in Threads :
       \/ WatchListen(t)
       \/ \E entries \in SUBSET ready[t] : Harvest(t, entries)
       \/ \E fd \in Fds :
            \/ \E i \in {"none", "in", "out"} : EpollCtl(t, fd, i)
            \/ EpollAdd(t, fd)
  \/ \E fd \in Fds :
       \/ \E c \in Conns : Accept(c, fd)
       \/ Receive(fd) \/ FillUp(fd) \/ Close(fd)

Spec == Init /\ [][Next]_vars
------------------------------------------------------------------------------
\* Every variable holds a value of its kind; a connection has at most one
\* descriptor and none while it is in the backlog; what is registered is open.
TypeOK ==
  /\ peer \in [Conns -> {"idle", "open", "part", "sent", "taken", "fin"}]
  /\ cut \in SUBSET Split
  /\ reset \in SUBSET Resets
  /\ room \in [Conns -> {"fresh", "full", "drained"}]
  /\ backlog \in SUBSET Conns
  /\ sock \in [Fds -> Conns \cup {NoConn}]
  /\ interest \in [Threads -> [Fds \cup {Listen} -> {"none", "in", "out"}]]
  /\ ready \in [Threads -> SUBSET (Fds \cup {Listen})]
  /\ \A c \in Conns : peer[c] = "part" => c \in Split
  /\ \A c \in backlog : peer[c] # "idle"
  /\ \A fd \in Fds : Open(fd) => sock[fd] \notin backlog /\ peer[sock[fd]] # "idle"
  /\ \A fd, gd \in Fds : Open(fd) /\ sock[fd] = sock[gd] => fd = gd
  /\ \A t \in Threads, fd \in Fds : interest[t][fd] # "none" => Open(fd)
==============================================================================
