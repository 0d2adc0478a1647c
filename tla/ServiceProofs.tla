--------------------------- MODULE ServiceProofs ---------------------------
(***************************************************************************)
(* Until some peer resets its connection, the message under a descriptor   *)
(* is for its present owner, and every peer is sent units of its own       *)
(* response only, whoever lets its send buffer fill up.  Until some peer   *)
(* does that, too, the program does as Service says: every peer is sent    *)
(* its own response, in order and in full, before it is closed.            *)
(***************************************************************************)
EXTENDS ArrivalProofs

\* A state as it is while nobody has reset a connection.
Calm == TypeOK /\ CalmInv /\ ServiceInv /\ reset = {}

\* No send buffer has been full yet; and no connection was reset either.
Fresh == \A c \in Conns : room[c] = "fresh"
Steady == reset = {} /\ Fresh

\* A message is owed only where there is a connection.
LEMMA OwedOpen ==
  ASSUME Calm, NEW fd \in Fds, Owed(fd)
  PROVE  sock[fd] \in Conns /\ OS!Open(fd)
  <1> USE NetServerConstants DEF Calm, ServiceInv, MessageInv, TypeOK, NetTypeOK
  <1>1. CASE map[fd] # NoConn
    BY <1>1 DEF OneMessage, TCPDataSend!TypeOK, OS!Open
  <1>2. CASE worker.fd = fd
    <2>1. worker.req = sock[fd] /\ worker.stage # "pop"
      BY <1>2 DEF OneMessage, WorkerTypeOK
    <2>2. worker.req \in Conns
      BY <2>1 DEF ArrivalInv, Deaths, WorkerTypeOK, Requests, OS!TypeOK
    <2> QED
      BY <2>1, <2>2 DEF OS!Open
  <1>3. ASSUME NEW i \in DOMAIN queue, queue[i][1] = fd
        PROVE  sock[fd] # NoConn
    BY <1>3 DEF OneMessage, ArrivalInv, ReceivedNormally
  <1> QED
    BY <1>1, <1>2, <1>3 DEF Owed, OS!TypeOK, OS!Open

\* Who writes to a descriptor is the only one that has it registered.
LEMMA WritesAlone ==
  ASSUME Calm, NEW t \in Threads, NEW fd \in Fds, Writes(t, fd)
  PROVE  /\ interest[t][fd] = "out"
         /\ sock[fd] \in Conns /\ OS!Open(fd)
         /\ \A u \in Threads : interest[u][fd] # "none" => u = t
  <1>1. interest[t][fd] = "out"
    BY DEF Calm, CalmInv, LoopInv, InHand, Writes
  <1> QED
    BY <1>1 DEF Calm, CalmInv, LoopInv, OneOwner, TypeOK, NetTypeOK, OS!TypeOK, OS!Open

\* Whoever waits to read a descriptor is the first to do so.
LEMMA NothingBeforeRead ==
  ASSUME Calm, NEW t \in Threads, NEW fd \in Fds,
         interest[t][fd] = "in", pc[t] = "epoll"
  PROVE  /\ sock[fd] \in Conns /\ OS!Open(fd)
         /\ ~Owed(fd) /\ sock[fd] \notin cut /\ stream[sock[fd]] = <<>>
         /\ \A u \in Threads : ~Writes(u, fd)
  <1>1. sock[fd] \in Conns /\ OS!Open(fd)
    BY DEF Calm, TypeOK, NetTypeOK, OS!TypeOK, OS!Open
  <1>2. \A u \in Threads : interest[u][fd] # "none" => u = t
    BY DEF Calm, CalmInv, LoopInv, OneOwner
  <1>3. ~Received(fd)
    BY <1>2 DEF Received, Calm, CalmInv, LoopInv, InHand
  <1>4. \A u \in Threads : ~Writes(u, fd)
    BY <1>2, WritesAlone
  <1> QED
    BY <1>1, <1>3, <1>4 DEF Calm, ServiceInv, MessageInv, OwedWhereReceived, Streams

\* Different descriptors are different connections.
LEMMA OtherSocket ==
  ASSUME Calm, NEW fd \in Fds, NEW gd \in Fds, OS!Open(fd), gd # fd
  PROVE  sock[gd] # sock[fd]
  BY DEF Calm, TypeOK, NetTypeOK, OS!TypeOK

\* What has been sent to a peer, it keeps.
LEMMA SentFrame ==
  ASSUME NEW c \in Conns, stream'[c] = stream[c],
         room'[c] = "fresh" => room[c] = "fresh"
  PROVE  /\ OnlyOwn(c) => OnlyOwn(c)'
         /\ \A n : Sent(c, n) => Sent(c, n)'
  BY DEF Sent, OnlyOwn, Response

\* A step that moves no descriptor, sends nothing, owes nothing new and leaves
\* those that write where they are.
LEMMA Frame ==
  ASSUME Calm, OneMessage',
         UNCHANGED <<sock, cut, stream, msg, sent>>,
         \A c \in Conns : room'[c] = "fresh" => room[c] = "fresh",
         \A c \in Conns : peer[c] \in {"taken", "fin"} => peer'[c] = peer[c],
         \A c \in Conns : c \in backlog' \/ peer'[c] = "idle" <=>
                            c \in backlog \/ peer[c] = "idle",
         \A fd \in Fds : Owed(fd)' => Owed(fd),
         \A fd \in Fds : Received(fd) => Received(fd)',
         \A fd \in Fds : map[fd] # NoConn => map'[fd] = map[fd],
         \A t \in Threads :
           \/ pc'[t] = pc[t] /\ clientSocket'[t] = clientSocket[t]
           \/ /\ pc[t] \notin {"send", "done", "close"}
              /\ pc'[t] \notin {"send", "done", "close"},
         \A t \in Threads : it'[t] # "dangling"
  PROVE  MessageInv'
  <1> USE DEF Calm, ServiceInv, MessageInv
  <1>1. OwedWhereReceived'
    <2>1. ASSUME NEW fd \in Fds, Owed(fd)
          PROVE  /\ Received(fd)'
                 /\ peer'[sock[fd]] = "taken" \/ sock[fd] \in cut
                 /\ \A t \in Threads : pc'[t] = "close" => clientSocket'[t] # fd
      BY <2>1, OwedOpen DEF OwedWhereReceived
    <2>2. \A fd \in Fds : sock[fd] \in cut => Received(fd)'
      BY DEF OwedWhereReceived
    <2> QED
      BY <2>1, <2>2 DEF OwedWhereReceived
  <1>2. \A t \in Threads, fd \in Fds :
          /\ Writes(t, fd)' <=> Writes(t, fd)
          /\ Writes(t, fd) => pc'[t] = pc[t]
    BY DEF Writes
  <1>3. \A c \in Conns : /\ OnlyOwn(c) => OnlyOwn(c)'
                         /\ \A n : Sent(c, n) => Sent(c, n)'
    BY SentFrame
  <1>4. InWriting'
    <2> SUFFICES ASSUME NEW t \in Threads, NEW fd \in Fds, Writes(t, fd)
                 PROVE  /\ msg'[t] = sock'[fd]
                        /\ Sent(sock[fd], sent[t])'
                        /\ pc'[t] \in {"send", "done"} => map'[fd] = sock'[fd]
                        /\ pc'[t] \in {"done", "close"} => sent'[t] = RespLen
      BY <1>2 DEF InWriting
    <2>1. pc'[t] = pc[t] /\ sock[fd] \in Conns /\ sock[fd] # NoConn
      BY <1>2, WritesAlone DEF OS!Open
    <2>2. /\ msg[t] = sock[fd]
          /\ Sent(sock[fd], sent[t])
          /\ pc[t] \in {"send", "done"} => map[fd] = sock[fd]
          /\ pc[t] \in {"done", "close"} => sent[t] = RespLen
      BY DEF InWriting
    <2>3. Sent(sock[fd], sent[t])'
      BY <1>3, <2>1, <2>2
    <2> QED
      BY <2>1, <2>2, <2>3
  <1>5. Streams'
    <2>1. Done' = Done
      BY DEF Done, Closed
    <2>2. ASSUME NEW c \in Done
          PROVE  Sent(c, RespLen)' \/ (peer'[c] = "fin" /\ c \notin cut /\ stream[c] = <<>>)
      <3>1. c \in Conns
        BY DEF Done
      <3> QED
        BY <1>3, <3>1 DEF Streams
    <2>3. ASSUME NEW fd \in Fds, OS!Open(fd), stream[sock[fd]] # <<>>
          PROVE  /\ Received(fd)'
                 /\ room'[sock[fd]] = "fresh" => \E t \in Threads : Writes(t, fd)'
      <3>1. sock[fd] \in Conns
        BY <2>3 DEF TypeOK, NetTypeOK, OS!TypeOK, OS!Open
      <3> QED
        BY <1>2, <2>3, <3>1 DEF Streams
    <2>4. \A c \in Conns : OnlyOwn(c)'
      BY <1>3 DEF Streams
    <2> QED
      BY <2>1, <2>2, <2>3, <2>4 DEF Streams, OS!Open
  <1>6. NoDangling'
    BY DEF NoDangling
  <1> QED
    BY <1>1, <1>4, <1>5, <1>6
------------------------------------------------------------------------------
\* The steps of a network thread that only take it round its loop.
LEMMA QuietThread ==
  ASSUME Calm, UNCHANGED worker, NEW t \in Threads,
         \/ StartServer(t) \/ EpollWait(t) \/ HandleListen(t) \/ AcceptLock(t)
         \/ SetNonblocking(t) \/ AddSocket(t) \/ AcceptBreak(t) \/ Rearm(t)
         \/ GetMsgTest(t) \/ \E fd \in Fds : WriteHandle(t, fd)
  PROVE  MessageInv'
  <1> USE DEF Calm
  <1>1. /\ UNCHANGED <<queue, worker, map, sock, cut, room, peer, backlog>>
        /\ UNCHANGED <<stream, msg, sent>>
    BY DEF StartServer, EpollWait, HandleListen, AcceptLock, SetNonblocking, AddSocket,
           AcceptBreak, Rearm, GetMsgTest, WriteHandle, OS!WatchListen, OS!Harvest,
           OS!EpollAdd, OS!EpollCtl, TCPDataSend!MsgGetTest, TCPDataSend!MsgGetCall,
           kernel, mapVars, local, writing
  <1>2. \A u \in Threads : u # t => pc'[u] = pc[u] /\ clientSocket'[u] = clientSocket[u]
    BY DEF StartServer, EpollWait, HandleListen, AcceptLock, SetNonblocking, AddSocket,
           AcceptBreak, Rearm, GetMsgTest, WriteHandle, SetSocket, Goto, local,
           TypeOK, NetTypeOK, LocalTypeOK
  <1>3. /\ pc[t] \notin {"send", "done", "close"}
        /\ pc'[t] \notin {"send", "done", "close"}
        /\ pc[t] = "mod" => Rearm(t)
    BY DEF StartServer, EpollWait, HandleListen, AcceptLock, SetNonblocking, AddSocket,
           AcceptBreak, Rearm, GetMsgTest, WriteHandle, Goto, local,
           TypeOK, NetTypeOK, LocalTypeOK
  <1>4. \A u \in Threads : it'[u] # "dangling"
    <2>1. \A u \in Threads : it'[u] \in {it[u], "live"}
      BY DEF StartServer, EpollWait, HandleListen, AcceptLock, SetNonblocking, AddSocket,
             AcceptBreak, Rearm, GetMsgTest, WriteHandle, TCPDataSend!MsgGetTest,
             TCPDataSend!MsgGetCall, mapVars, TypeOK, NetTypeOK, TCPDataSend!TypeOK
    <2> QED
      BY <2>1 DEF ServiceInv, MessageInv, NoDangling
  <1>5. ASSUME NEW u \in Threads, NEW fd \in Fds, interest[u][fd] = "out"
        PROVE  interest'[u][fd] = "out"
    <2>1. CASE StartServer(t)
      <3>1. interest' = [interest EXCEPT ![t][Listen] = "in"]
        BY <2>1 DEF StartServer, OS!WatchListen, OS!Register
      <3> QED
        BY <1>5, <3>1, NetServerConstants DEF TypeOK, NetTypeOK, OS!TypeOK
    <2>2. CASE AddSocket(t)
      <3>1. /\ interest' = [interest EXCEPT ![t][accepted[t]] = "in"]
            /\ interest[u][accepted[t]] = "none"
        BY <2>2 DEF AddSocket, OS!EpollAdd, OS!Register, CalmInv, NewSockets
      <3> QED
        BY <1>5, <3>1 DEF TypeOK, NetTypeOK, OS!TypeOK
    <2>3. CASE Rearm(t)
      <3>1. \/ interest' = interest
            \/ /\ pc[t] = "mod"
               /\ interest' = [interest EXCEPT ![t][clientSocket[t]] = "out"]
        BY <2>3 DEF Rearm, OS!EpollCtl, OS!Register, CalmInv, LoopInv, InHand
      <3> QED
        BY <1>5, <3>1 DEF TypeOK, NetTypeOK, OS!TypeOK
    <2>4. CASE interest' = interest
      BY <1>5, <2>4
    <2> QED
      BY <2>1, <2>2, <2>3, <2>4
      DEF EpollWait, HandleListen, AcceptLock, SetNonblocking, AcceptBreak, GetMsgTest,
          WriteHandle, OS!Harvest, kernel
  <1>6. ASSUME NEW fd \in Fds, Received(fd)
        PROVE  Received(fd)'
    <2>1. CASE Rearm(t) /\ pc[t] = "mod" /\ clientSocket[t] = fd
      <3>1. interest[t][fd] = "in"
        BY <2>1 DEF CalmInv, LoopInv, InHand
      <3>2. interest'[t][fd] = "out"
        BY <2>1, <3>1 DEF Rearm, OS!EpollCtl, OS!Register, TypeOK, NetTypeOK, OS!TypeOK
      <3> QED
        BY <3>2 DEF Received
    <2>2. CASE ~(pc[t] = "mod" /\ clientSocket[t] = fd)
      BY <1>2, <1>5, <1>6, <2>2 DEF Received
    <2> QED
      BY <1>3, <2>1, <2>2
  <1>7. OneMessage'
    BY <1>1 DEF ServiceInv, MessageInv, OneMessage
  <1> QED
    BY <1>1, <1>2, <1>3, <1>4, <1>6, <1>7, OwedFrame, Frame

\* A peer moves no descriptor, and un-does nothing that has been received.
LEMMA PeersKeepMessages ==
  ASSUME Calm, UNCHANGED worker, Peers \/ \E t \in Threads : Wakeup(t)
  PROVE  MessageInv'
  <1> USE DEF Calm
  <1>1. /\ UNCHANGED <<queue, worker, map, it, sock, interest, cut, pc, clientSocket>>
        /\ UNCHANGED <<stream, msg, sent>>
    BY DEF Peers, OS!Peer, OS!Connect, OS!RequestPart, OS!Request, OS!Fin, OS!Reset,
           OS!Drain, Wakeup, TCPDataSend!SpuriousWakeup, kernel, mapVars, local, writing
  <1>2. ASSUME NEW c \in Conns
        PROVE  /\ room'[c] = "fresh" => room[c] = "fresh"
               /\ peer[c] \in {"taken", "fin"} => peer'[c] = peer[c]
               /\ c \in backlog' \/ peer'[c] = "idle" <=> c \in backlog \/ peer[c] = "idle"
    BY DEF Peers, OS!Peer, OS!Connect, OS!RequestPart, OS!Request, OS!Fin, OS!Reset,
           OS!Drain, Wakeup, kernel, TypeOK, NetTypeOK, OS!TypeOK
  <1>3. OneMessage' /\ \A t \in Threads : it'[t] # "dangling"
    BY <1>1 DEF ServiceInv, MessageInv, OneMessage, NoDangling
  <1>4. \A fd \in Fds : Received(fd)' <=> Received(fd)
    BY <1>1 DEF Received
  <1> QED
    BY <1>1, <1>2, <1>3, <1>4, OwedFrame, Frame

\* The HTTP thread carries the one message of a descriptor on.
LEMMA HttpKeepsMessages ==
  ASSUME Calm, HttpServer
  PROVE  MessageInv'
  <1> USE NetServerConstants DEF Calm, TypeOK, NetTypeOK
  <1>1. UNCHANGED <<kernel, local>>
    BY DEF HttpServer, RecvRequestData, InsertErase, InsertMsg
  <1>2. SUFFICES /\ OneMessage'
                 /\ \A fd \in Fds : Owed(fd)' => Owed(fd)
                 /\ \A fd \in Fds : map[fd] # NoConn => map'[fd] = map[fd]
                 /\ it' = it
    <2>1. \A fd \in Fds : Received(fd)' <=> Received(fd)
      BY <1>1 DEF Received, kernel, local
    <2>2. \A t \in Threads : it[t] # "dangling"
      BY DEF ServiceInv, MessageInv, NoDangling
    <2> QED
      BY <1>1, <2>1, <2>2, Frame DEF kernel, local, writing
  <1>3. CASE RecvRequestData
    <2>1. /\ queue # <<>> /\ queue' = Tail(queue) /\ worker.fd = NoConn
          /\ worker'.fd = Head(queue)[1] /\ worker'.req = Head(queue)[2]
          /\ UNCHANGED <<map, it, sock>>
      BY <1>3 DEF RecvRequestData, WorkerTypeOK, mapVars, kernel
    <2>2. /\ 1 \in DOMAIN queue /\ Head(queue) = queue[1]
          /\ \A i \in DOMAIN queue' : /\ i + 1 \in DOMAIN queue /\ i + 1 # 1
                                      /\ queue'[i] = queue[i + 1]
      BY <2>1, HeadTailProperties, EmptySeq, LenProperties DEF LocalTypeOK
    <2>3. OneMessage'
      <3>1. ASSUME NEW i \in DOMAIN queue'
            PROVE  /\ queue'[i][2] = sock'[queue'[i][1]]
                   /\ worker'.fd # queue'[i][1] /\ map'[queue'[i][1]] = NoConn
                   /\ \A j \in DOMAIN queue' : queue'[i][1] = queue'[j][1] => i = j
        <4>1. \A j \in DOMAIN queue' : j \in Int
          BY <2>1, HeadTailProperties, LenProperties DEF LocalTypeOK
        <4> QED
          BY <2>1, <2>2, <3>1, <4>1 DEF ServiceInv, MessageInv, OneMessage
      <3>2. worker'.req = sock'[worker'.fd] /\ map'[worker'.fd] = NoConn
        BY <2>1, <2>2 DEF ServiceInv, MessageInv, OneMessage
      <3>3. \A fd \in Fds : map'[fd] \in {NoConn, sock'[fd]}
        BY <2>1 DEF ServiceInv, MessageInv, OneMessage
      <3> QED
        BY <3>1, <3>2, <3>3 DEF OneMessage
    <2> QED
      BY <2>1, <2>2, <2>3 DEF Owed
  <1>4. CASE InsertErase
    <2>1. /\ worker.fd \in Fds /\ map[worker.fd] = NoConn
      BY <1>4 DEF InsertErase, WorkerTypeOK, ServiceInv, MessageInv, OneMessage
    <2>2. map' = map
      BY <1>4, <2>1 DEF InsertErase, TCPDataSend!Erase, TCPDataSend!TypeOK
    <2>3. it' = it
      BY <1>4, <2>1 DEF InsertErase, TCPDataSend!Erase, TCPDataSend!TypeOK
    <2>4. worker'.fd = worker.fd /\ worker'.req = worker.req /\ queue' = queue
      BY <1>4 DEF InsertErase, WorkerTypeOK
    <2>5. sock' = sock
      BY <1>1 DEF kernel
    <2>6. OneMessage'
      BY <2>2, <2>4, <2>5 DEF ServiceInv, MessageInv, OneMessage
    <2> QED
      BY <2>2, <2>3, <2>4, <2>6 DEF Owed
  <1>5. CASE InsertMsg
    <2>1. /\ worker.fd \in Fds /\ map[worker.fd] = NoConn
          /\ worker.req = sock[worker.fd]
      BY <1>5 DEF InsertMsg, WorkerTypeOK, ServiceInv, MessageInv, OneMessage
    <2>2. /\ map' = [map EXCEPT ![worker.fd] = worker.req]
          /\ it' = it /\ queue' = queue /\ worker'.fd = NoConn /\ sock' = sock
      BY <1>1, <1>5, <2>1 DEF InsertMsg, TCPDataSend!MsgInsert, TCPDataSend!TypeOK, kernel
    <2>3. \A fd \in Fds : map'[fd] = IF fd = worker.fd THEN worker.req ELSE map[fd]
      BY <2>2 DEF TCPDataSend!TypeOK
    <2>4. \A i \in DOMAIN queue : queue[i][1] \in Fds
      BY LenProperties, ElementOfSeq DEF LocalTypeOK
    <2>5. OneMessage'
      BY <2>1, <2>2, <2>3, <2>4 DEF ServiceInv, MessageInv, OneMessage
    <2>6. \A fd \in Fds : Owed(fd)' => Owed(fd)
      BY <2>2, <2>3 DEF Owed
    <2> QED
      BY <2>1, <2>2, <2>3, <2>5, <2>6
  <1> QED
    BY <1>3, <1>4, <1>5 DEF HttpServer

\* accept: nobody has asked for anything yet.
LEMMA AcceptKeepsMessages ==
  ASSUME Calm, UNCHANGED worker, NEW t \in Threads, AcceptOne(t)
  PROVE  MessageInv'
  <1> USE DEF Calm, TypeOK, NetTypeOK
  <1>1. PICK c \in backlog, fd \in Fds : OS!Accept(c, fd)
    BY DEF AcceptOne
  <1>2. /\ sock[fd] = NoConn /\ c \in Conns /\ sock'[fd] = c
        /\ \A gd \in Fds : gd # fd => sock'[gd] = sock[gd]
        /\ backlog' = backlog \ {c}
        /\ UNCHANGED <<peer, cut, room, interest>>
    BY <1>1 DEF OS!Accept, OS!Open, OS!TypeOK
  <1>3. /\ UNCHANGED <<queue, worker, map, it, clientSocket, stream, msg, sent>>
        /\ \A u \in Threads : u # t => pc'[u] = pc[u]
        /\ pc[t] = "accepting" /\ pc'[t] = "nonblock"
    BY DEF AcceptOne, mapVars, writing, Goto, LocalTypeOK
  <1>4. ~Owed(fd) /\ \A gd \in Fds : Owed(gd)' <=> Owed(gd)
    BY <1>2, <1>3, OwedOpen, OwedFrame DEF OS!Open
  <1>5. \A gd \in Fds : Received(gd)' <=> Received(gd)
    BY <1>2, <1>3 DEF Received
  <1>6. \A u \in Threads, gd \in Fds : Writes(u, gd)' <=> Writes(u, gd)
    BY <1>3 DEF Writes
  <1>7. \A u \in Threads, gd \in Fds : Writes(u, gd) => gd # fd /\ pc'[u] = pc[u]
    BY <1>2, <1>3, WritesAlone DEF OS!Open, Writes
  <1>8. stream[c] = <<>> /\ c \notin cut
    BY <1>1, <1>2 DEF ServiceInv, MessageInv, Streams
  <1>9. OneMessage'
    <2>1. \A i \in DOMAIN queue : queue[i][1] \in Fds \ {fd}
      BY <1>4, LenProperties, ElementOfSeq DEF Owed, LocalTypeOK
    <2>2. worker.fd # fd /\ map[fd] = NoConn
      BY <1>4 DEF Owed
    <2> QED
      BY <1>2, <1>3, <2>1, <2>2 DEF ServiceInv, MessageInv, OneMessage
  <1>10. OwedWhereReceived'
    <2>1. ASSUME NEW gd \in Fds, Owed(gd)
          PROVE  /\ Received(gd)
                 /\ peer'[sock'[gd]] = "taken" \/ sock'[gd] \in cut'
                 /\ \A u \in Threads : pc'[u] = "close" => clientSocket'[u] # gd
      <3>1. sock'[gd] = sock[gd]
        BY <1>2, <1>4, <2>1
      <3>2. \A u \in Threads : pc'[u] = "close" => pc[u] = "close"
        BY <1>3
      <3> QED
        BY <1>2, <1>3, <2>1, <3>1, <3>2
        DEF ServiceInv, MessageInv, OwedWhereReceived
    <2>2. \A gd \in Fds : sock'[gd] \in cut' => Received(gd)
      BY <1>2, <1>8 DEF ServiceInv, MessageInv, OwedWhereReceived
    <2> QED
      BY <1>4, <1>5, <2>1, <2>2 DEF OwedWhereReceived
  <1>11. \A d \in Conns : /\ OnlyOwn(d) => OnlyOwn(d)'
                          /\ \A n : Sent(d, n) => Sent(d, n)'
    BY <1>2, <1>3, SentFrame
  <1>12. InWriting'
    <2> SUFFICES ASSUME NEW u \in Threads, NEW gd \in Fds, Writes(u, gd)
                 PROVE  /\ msg'[u] = sock'[gd]
                        /\ Sent(sock[gd], sent[u])'
                        /\ pc'[u] \in {"send", "done"} => map'[gd] = sock'[gd]
                        /\ pc'[u] \in {"done", "close"} => sent'[u] = RespLen
      BY <1>6 DEF InWriting
    <2>1. sock'[gd] = sock[gd] /\ pc'[u] = pc[u] /\ sock[gd] \in Conns
      BY <1>2, <1>7, WritesAlone
    <2>2. /\ msg[u] = sock[gd]
          /\ Sent(sock[gd], sent[u])
          /\ pc[u] \in {"send", "done"} => map[gd] = sock[gd]
          /\ pc[u] \in {"done", "close"} => sent[u] = RespLen
      BY DEF ServiceInv, MessageInv, InWriting
    <2>3. Sent(sock[gd], sent[u])'
      BY <1>3, <1>11, <2>1, <2>2
    <2> QED
      BY <1>3, <2>1, <2>2, <2>3
  <1>13. Streams'
    <2>1. Done' = Done
      <3>1. \A d \in Conns : d # c => (Closed(d)' <=> Closed(d))
        BY <1>2, NetServerConstants DEF Closed
      <3>2. ~Closed(c)'
        BY <1>2 DEF Closed
      <3> QED
        BY <1>2, <3>1, <3>2 DEF Done
    <2>2. ASSUME NEW d \in Done
          PROVE  \/ Sent(d, RespLen)'
                 \/ peer'[d] = "fin" /\ d \notin cut' /\ stream'[d] = <<>>
      <3>1. d \in Conns
        BY DEF Done
      <3> QED
        BY <1>2, <1>3, <1>11, <3>1 DEF ServiceInv, MessageInv, Streams
    <2>3. ASSUME NEW gd \in Fds, OS!Open(gd)', stream[sock'[gd]] # <<>>
          PROVE  /\ Received(gd)
                 /\ room[sock'[gd]] = "fresh" => \E u \in Threads : Writes(u, gd)
      <3>1. gd # fd
        BY <1>2, <1>8, <2>3
      <3> QED
        BY <1>2, <2>3, <3>1 DEF ServiceInv, MessageInv, Streams, OS!Open
    <2>4. \A d \in Conns : d \in backlog' \/ peer'[d] = "idle" =>
                             stream[d] = <<>> /\ d \notin cut
      BY <1>2 DEF ServiceInv, MessageInv, Streams
    <2>5. \A d \in Conns : OnlyOwn(d)'
      BY <1>11 DEF ServiceInv, MessageInv, Streams
    <2> QED
      BY <1>2, <1>3, <1>5, <1>6, <2>1, <2>2, <2>3, <2>4, <2>5 DEF Streams
  <1>14. NoDangling'
    BY <1>3 DEF ServiceInv, MessageInv, NoDangling
  <1> QED
    BY <1>9, <1>10, <1>12, <1>13, <1>14 DEF MessageInv

\* close by the thread that has the descriptor registered, when nothing is owed
\* there and the response has been sent in full or not at all.
LEMMA CloseKeepsMessages ==
  ASSUME Calm, UNCHANGED worker, NEW t \in Threads, NEW fd \in Fds,
         UNCHANGED <<map, it, queue, stream>>,
         OS!Close(fd), sock[fd] \in Conns, ~Owed(fd),
         \/ Sent(sock[fd], RespLen)
         \/ /\ peer[sock[fd]] = "fin" /\ sock[fd] \notin cut
            /\ stream[sock[fd]] = <<>>,
         \A u \in Threads : u # t => /\ pc'[u] = pc[u] /\ ~Writes(u, fd)
                                   /\ clientSocket'[u] = clientSocket[u]
                                   /\ msg'[u] = msg[u] /\ sent'[u] = sent[u],
         pc[t] = "epoll" \/ Writes(t, fd),
         pc'[t] \in {"epoll", "del"}
  PROVE  MessageInv'
  <1> USE DEF Calm, TypeOK, NetTypeOK
  <1>1. /\ sock'[fd] = NoConn
        /\ \A gd \in Fds : gd # fd => sock'[gd] = sock[gd]
        /\ \A u \in Threads, gd \in Fds : gd # fd => interest'[u][gd] = interest[u][gd]
        /\ UNCHANGED <<peer, cut, room, backlog>>
    BY DEF OS!Close, OS!TypeOK
  <1>2. \A gd \in Fds : Owed(gd)' <=> Owed(gd)
    BY OwedFrame
  <1>3. ASSUME NEW gd \in Fds, gd # fd, Received(gd)
        PROVE  Received(gd)'
    BY <1>1, <1>3 DEF Received, Writes
  <1>4. \A u \in Threads, gd \in Fds :
          /\ Writes(u, gd)' => u # t /\ gd # fd /\ Writes(u, gd)
          /\ gd # fd /\ Writes(u, gd) => u # t /\ Writes(u, gd)'
    BY DEF Writes
  <1>5. OneMessage'
    <2>1. \A i \in DOMAIN queue : queue[i][1] \in Fds \ {fd}
      BY LenProperties, ElementOfSeq DEF Owed, LocalTypeOK
    <2>2. worker.fd # fd /\ map[fd] = NoConn
      BY DEF Owed
    <2> QED
      BY <1>1, <2>1, <2>2 DEF ServiceInv, MessageInv, OneMessage
  <1>6. OwedWhereReceived'
    <2>1. ASSUME NEW gd \in Fds, Owed(gd)
          PROVE  /\ Received(gd)'
                 /\ peer'[sock'[gd]] = "taken" \/ sock'[gd] \in cut'
                 /\ \A u \in Threads : pc'[u] = "close" => clientSocket'[u] # gd
      <3>1. gd # fd /\ sock'[gd] = sock[gd]
        BY <1>1, <2>1
      <3>2. \A u \in Threads : pc'[u] = "close" => u # t /\ pc[u] = "close"
        OBVIOUS
      <3> QED
        BY <1>1, <1>3, <2>1, <3>1, <3>2
        DEF ServiceInv, MessageInv, OwedWhereReceived
    <2>2. ASSUME NEW gd \in Fds, sock'[gd] \in cut'
          PROVE  Received(gd)'
      <3>1. gd # fd
        BY <1>1, <2>2, NetServerConstants DEF OS!TypeOK
      <3> QED
        BY <1>1, <1>3, <2>2, <3>1 DEF ServiceInv, MessageInv, OwedWhereReceived
    <2> QED
      BY <1>2, <2>1, <2>2 DEF OwedWhereReceived
  <1>7. \A d \in Conns : /\ OnlyOwn(d) => OnlyOwn(d)'
                         /\ \A n : Sent(d, n) => Sent(d, n)'
    BY <1>1, SentFrame
  <1>8. InWriting'
    <2> SUFFICES ASSUME NEW u \in Threads, NEW gd \in Fds, Writes(u, gd)'
                 PROVE  /\ msg'[u] = sock'[gd]
                        /\ Sent(sock[gd], sent[u])'
                        /\ pc'[u] \in {"send", "done"} => map'[gd] = sock'[gd]
                        /\ pc'[u] \in {"done", "close"} => sent'[u] = RespLen
      BY DEF InWriting
    <2>1. /\ sock'[gd] = sock[gd] /\ pc'[u] = pc[u] /\ Writes(u, gd)
          /\ msg'[u] = msg[u] /\ sent'[u] = sent[u]
      BY <1>1, <1>4
    <2>2. /\ msg[u] = sock[gd]
          /\ Sent(sock[gd], sent[u])
          /\ pc[u] \in {"send", "done"} => map[gd] = sock[gd]
          /\ pc[u] \in {"done", "close"} => sent[u] = RespLen
      BY <2>1 DEF ServiceInv, MessageInv, InWriting
    <2>3. sock[gd] \in Conns
      BY <2>1, WritesAlone
    <2>4. Sent(sock[gd], sent[u])'
      <3>1. PICK d \in Conns : d = sock[gd]
        BY <2>3
      <3>2. PICK n : n = sent[u]
        OBVIOUS
      <3>3. Sent(d, n)
        BY <2>2, <3>1, <3>2, Zenon
      <3>4. Sent(d, n)'
        BY <1>7, <3>3, Zenon
      <3> QED
        BY <2>1, <3>1, <3>2, <3>4, Zenon
    <2> QED
      BY <2>1, <2>2, <2>4
  <1>9. Streams'
    <2>1. ASSUME NEW d \in Done'
          PROVE  \/ Sent(d, RespLen)'
                 \/ peer'[d] = "fin" /\ d \notin cut' /\ stream'[d] = <<>>
      <3>1. d \in Conns /\ (d \in Done \/ d = sock[fd])
        BY <1>1 DEF Done, Closed
      <3>2. \/ Sent(d, RespLen)
            \/ peer[d] = "fin" /\ d \notin cut /\ stream[d] = <<>>
        BY <3>1 DEF ServiceInv, MessageInv, Streams
      <3>3. Sent(d, RespLen) => Sent(d, RespLen)'
        BY <1>7, <3>1, Zenon
      <3>4. peer'[d] = peer[d] /\ (d \in cut' <=> d \in cut) /\ stream'[d] = stream[d]
        BY <1>1
      <3> QED
        BY <3>2, <3>3, <3>4, Zenon
    <2>2. ASSUME NEW gd \in Fds, OS!Open(gd)', stream[sock'[gd]] # <<>>
          PROVE  /\ Received(gd)'
                 /\ room[sock'[gd]] = "fresh" => (\E u \in Threads : Writes(u, gd))'
      <3>1. gd # fd
        BY <1>1, <2>2 DEF OS!Open
      <3>2. /\ Received(gd)
            /\ room[sock'[gd]] = "fresh" => \E u \in Threads : Writes(u, gd)
        BY <1>1, <2>2, <3>1 DEF ServiceInv, MessageInv, Streams, OS!Open
      <3> QED
        BY <1>3, <1>4, <3>1, <3>2
    <2>3. \A d \in Conns : d \in backlog' \/ peer'[d] = "idle" =>
                             stream[d] = <<>> /\ d \notin cut
      BY <1>1 DEF ServiceInv, MessageInv, Streams
    <2>4. \A d \in Conns : OnlyOwn(d)'
      BY <1>7 DEF ServiceInv, MessageInv, Streams
    <2> QED
      BY <1>1, <2>1, <2>2, <2>3, <2>4 DEF Streams
  <1>10. NoDangling'
    BY DEF ServiceInv, MessageInv, NoDangling
  <1> QED
    BY <1>5, <1>6, <1>8, <1>9, <1>10 DEF MessageInv

\* recv and PostMsg: the first message for the descriptor.
LEMMA ReadKeepsMessages ==
  ASSUME Calm, UNCHANGED worker, NEW t \in Threads, NEW fd \in Fds,
         ReadRequest(t, fd)
  PROVE  MessageInv'
  <1> USE DEF Calm, TypeOK, NetTypeOK
  <1> DEFINE c == sock[fd]
  <1>1. pc[t] = "epoll" /\ interest[t][fd] = "in"
    BY ReadableOpen DEF ReadRequest, Take
  <1>2. /\ c \in Conns /\ OS!Open(fd) /\ ~Owed(fd) /\ c \notin cut /\ stream[c] = <<>>
        /\ \A u \in Threads : ~Writes(u, fd)
    BY <1>1, NothingBeforeRead
  <1>3. /\ UNCHANGED <<sock, interest, room, backlog, map, it, stream, msg, sent>>
        /\ queue' = Append(queue, <<fd, c>>)
        /\ \/ cut' = cut /\ peer' = [peer EXCEPT ![c] = "taken"]
           \/ cut' = cut \cup {c} /\ peer' = [peer EXCEPT ![c] = "open"]
    BY DEF ReadRequest, OS!Receive, mapVars, writing
  <1>4. /\ \A u \in Threads : u # t => /\ pc'[u] = pc[u]
                                      /\ clientSocket'[u] = clientSocket[u]
        /\ pc'[t] = "mod" /\ clientSocket'[t] = fd
    BY DEF ReadRequest, Goto, SetSocket, LocalTypeOK
  <1>5. \A gd \in Fds : gd # fd => sock[gd] # c
    BY <1>2, OtherSocket
  <1>6. /\ DOMAIN queue = 1 .. Len(queue) /\ Len(queue) \in Nat
        /\ DOMAIN queue' = 1 .. Len(queue) + 1
        /\ \A i \in DOMAIN queue : queue'[i] = queue[i] /\ queue[i][1] \in Fds \ {fd}
        /\ queue'[Len(queue) + 1] = <<fd, c>>
    <2>1. queue \in Seq(Fds \X Requests) /\ <<fd, c>> \in Fds \X Requests
      BY <1>2 DEF LocalTypeOK, Requests
    <2>2. \A i \in DOMAIN queue : queue[i][1] \in Fds \ {fd}
      BY <1>2, <2>1, LenProperties, ElementOfSeq DEF Owed
    <2> QED
      BY <1>3, <2>1, <2>2, AppendProperties, LenProperties
  <1>7. \A gd \in Fds : Owed(gd)' <=> Owed(gd) \/ gd = fd
    <2>1. \A gd \in Fds : (\E i \in DOMAIN queue' : queue'[i][1] = gd) <=>
                            \/ \E i \in DOMAIN queue : queue[i][1] = gd
                            \/ gd = fd
      BY <1>6
    <2> QED
      BY <1>3, <2>1 DEF Owed
  <1>8. /\ \A gd \in Fds : Received(gd) => Received(gd)'
        /\ Received(fd)'
    BY <1>1, <1>3, <1>4 DEF Received
  <1>9. \A u \in Threads, gd \in Fds : Writes(u, gd)' <=> Writes(u, gd) /\ u # t
    BY <1>4 DEF Writes
  <1>10. \A gd \in Fds : ~Writes(t, gd)
    BY <1>1 DEF Writes
  <1>11. OneMessage'
    <2>1. worker.fd # fd /\ map[fd] = NoConn
      BY <1>2 DEF Owed
    <2>2. ASSUME NEW i \in DOMAIN queue'
          PROVE  /\ queue'[i][2] = sock[queue'[i][1]]
                 /\ worker.fd # queue'[i][1] /\ map[queue'[i][1]] = NoConn
                 /\ \A j \in DOMAIN queue' : queue'[i][1] = queue'[j][1] => i = j
      BY <1>6, <2>1 DEF ServiceInv, MessageInv, OneMessage
    <2> QED
      BY <1>3, <2>2 DEF ServiceInv, MessageInv, OneMessage
  <1>12. OwedWhereReceived'
    <2>1. peer'[c] = "taken" \/ c \in cut'
      BY <1>2, <1>3 DEF OS!TypeOK
    <2>2. \A u \in Threads : pc'[u] = "close" => clientSocket'[u] # fd
      BY <1>2, <1>4 DEF Writes
    <2>3. ASSUME NEW gd \in Fds, Owed(gd)
          PROVE  /\ Received(gd)'
                 /\ peer'[sock[gd]] = "taken" \/ sock[gd] \in cut'
                 /\ \A u \in Threads : pc'[u] = "close" => clientSocket'[u] # gd
      <3>1. sock[gd] # c /\ sock[gd] \in Conns
        BY <1>2, <1>5, <2>3, OwedOpen
      <3>2. peer'[sock[gd]] = peer[sock[gd]] /\ cut \subseteq cut'
        BY <1>3, <3>1 DEF OS!TypeOK
      <3> QED
        BY <1>4, <1>8, <2>3, <3>2 DEF ServiceInv, MessageInv, OwedWhereReceived
    <2>4. ASSUME NEW gd \in Fds, sock[gd] \in cut'
          PROVE  Received(gd)'
      BY <1>3, <1>5, <1>8, <2>4 DEF ServiceInv, MessageInv, OwedWhereReceived
    <2> QED
      BY <1>3, <1>7, <1>8, <2>1, <2>2, <2>3, <2>4 DEF OwedWhereReceived
  <1>13. \A d \in Conns : /\ OnlyOwn(d) => OnlyOwn(d)'
                          /\ \A n : Sent(d, n) => Sent(d, n)'
    BY <1>3, SentFrame
  <1>14. InWriting'
    <2> SUFFICES ASSUME NEW u \in Threads, NEW gd \in Fds, Writes(u, gd), u # t
                 PROVE  /\ msg'[u] = sock'[gd]
                        /\ Sent(sock[gd], sent[u])'
                        /\ pc'[u] \in {"send", "done"} => map'[gd] = sock'[gd]
                        /\ pc'[u] \in {"done", "close"} => sent'[u] = RespLen
      BY <1>9 DEF InWriting
    <2>1. /\ msg[u] = sock[gd]
          /\ Sent(sock[gd], sent[u])
          /\ pc[u] \in {"send", "done"} => map[gd] = sock[gd]
          /\ pc[u] \in {"done", "close"} => sent[u] = RespLen
      BY DEF ServiceInv, MessageInv, InWriting
    <2>2. sock[gd] \in Conns
      BY WritesAlone
    <2>3. Sent(sock[gd], sent[u])'
      BY <1>3, <1>13, <2>1, <2>2
    <2> QED
      BY <1>3, <1>4, <2>1, <2>3
  <1>15. Streams'
    <2>1. ASSUME NEW d \in Conns, d \in backlog' \/ peer'[d] = "idle"
          PROVE  stream[d] = <<>> /\ d \notin cut'
      <3>1. c \notin backlog /\ peer[c] # "idle"
        BY <1>2 DEF OS!TypeOK
      <3>2. d # c /\ (d \in backlog \/ peer[d] = "idle")
        BY <1>2, <1>3, <2>1, <3>1 DEF OS!TypeOK
      <3> QED
        BY <1>3, <3>2 DEF ServiceInv, MessageInv, Streams
    <2>2. ASSUME NEW d \in Done'
          PROVE  \/ Sent(d, RespLen)'
                 \/ peer'[d] = "fin" /\ d \notin cut' /\ stream'[d] = <<>>
      <3>1. d \in Conns /\ d # c /\ peer'[d] # "idle" /\ d \notin backlog /\ Closed(d)
        BY <1>3 DEF Done, Closed
      <3>2. peer'[d] = peer[d] /\ (d \in cut' <=> d \in cut)
        BY <1>3, <3>1 DEF OS!TypeOK
      <3>3. d \in Done
        BY <3>1, <3>2 DEF Done
      <3> QED
        BY <1>3, <1>13, <3>1, <3>2, <3>3 DEF ServiceInv, MessageInv, Streams
    <2>3. ASSUME NEW gd \in Fds, OS!Open(gd), stream[sock[gd]] # <<>>
          PROVE  /\ Received(gd)'
                 /\ room[sock[gd]] = "fresh" => (\E u \in Threads : Writes(u, gd))'
      BY <1>8, <1>9, <1>10, <2>3 DEF ServiceInv, MessageInv, Streams
    <2>4. \A d \in Conns : OnlyOwn(d)'
      BY <1>13 DEF ServiceInv, MessageInv, Streams
    <2> QED
      BY <1>3, <2>1, <2>2, <2>3, <2>4 DEF Streams, OS!Open
  <1>16. NoDangling'
    BY <1>3 DEF ServiceInv, MessageInv, NoDangling
  <1> QED
    BY <1>11, <1>12, <1>14, <1>15, <1>16 DEF MessageInv
------------------------------------------------------------------------------
\* GetMsg returns the response for the connection that has the descriptor.
LEMMA CopyKeepsMessages ==
  ASSUME Calm, UNCHANGED worker, NEW t \in Threads, GetMsgCopy(t)
  PROVE  MessageInv'
  <1> USE DEF Calm, TypeOK, NetTypeOK
  <1> DEFINE fd == clientSocket[t]
  <1>1. /\ pc[t] = "get" /\ fd \in Fds /\ index[t] = fd
        /\ UNCHANGED <<kernel, queue, map, clientSocket, stream>>
    BY DEF GetMsgCopy, TCPDataSend!MsgGetCopy, LocalTypeOK
  <1>2. PICK c \in Conns : TCPDataSend!MsgGetCopy(t, c) /\ msg' = [msg EXCEPT ![t] = c]
    BY DEF GetMsgCopy
  <1>3. it[t] = "live" /\ c = map[fd]
    BY <1>1, <1>2
    DEF TCPDataSend!MsgGetCopy, TCPDataSend!TypeOK, ServiceInv, MessageInv, NoDangling
  <1>4. c = sock[fd] /\ map[fd] # NoConn
    BY <1>1, <1>2, <1>3, NetServerConstants DEF ServiceInv, MessageInv, OneMessage
  <1>5. /\ \A u \in Threads : u # t => /\ pc'[u] = pc[u] /\ msg'[u] = msg[u]
                                      /\ sent'[u] = sent[u]
        /\ pc'[t] = "send" /\ msg'[t] = c /\ sent'[t] = 0
    BY <1>2 DEF GetMsgCopy, Goto, LocalTypeOK
  <1>6. /\ \A u \in Threads, gd \in Fds :
             Writes(u, gd)' <=> Writes(u, gd) \/ (u = t /\ gd = fd)
        /\ \A gd \in Fds : ~Writes(t, gd)
    BY <1>1, <1>5 DEF Writes
  <1>7. \A u \in Threads : ~Writes(u, fd)
    <2>1. interest[t][fd] = "out"
      BY <1>1 DEF CalmInv, LoopInv, InHand
    <2> QED
      BY <1>1, <1>6, <2>1, WritesAlone
  <1>8. Sent(c, 0)
    <2>1. OS!Open(fd) /\ c \in Conns
      BY <1>1, <1>2, <1>4, NetServerConstants DEF OS!Open
    <2>2. room[c] = "fresh" => stream[c] = <<>>
      BY <1>1, <1>4, <1>7, <2>1 DEF ServiceInv, MessageInv, Streams
    <2>3. Len(stream[c]) \in Nat
      BY <2>1, LenProperties DEF LocalTypeOK
    <2> QED
      BY <2>2, <2>3 DEF Sent
  <1>9. \A gd \in Fds : Owed(gd)' <=> Owed(gd)
    BY <1>1, OwedFrame
  <1>10. \A gd \in Fds : Received(gd)' <=> Received(gd)
    BY <1>1, <1>5 DEF Received, kernel
  <1>11. OneMessage'
    BY <1>1 DEF kernel, ServiceInv, MessageInv, OneMessage
  <1>12. OwedWhereReceived'
    BY <1>1, <1>5, <1>9, <1>10 DEF kernel, ServiceInv, MessageInv, OwedWhereReceived
  <1>13. \A d \in Conns : /\ OnlyOwn(d) => OnlyOwn(d)'
                          /\ \A n : Sent(d, n) => Sent(d, n)'
    BY <1>1, SentFrame DEF kernel
  <1>14. InWriting'
    <2> SUFFICES ASSUME NEW u \in Threads, NEW gd \in Fds, Writes(u, gd)'
                 PROVE  /\ msg'[u] = sock'[gd]
                        /\ Sent(sock[gd], sent[u])'
                        /\ pc'[u] \in {"send", "done"} => map'[gd] = sock'[gd]
                        /\ pc'[u] \in {"done", "close"} => sent'[u] = RespLen
      BY DEF InWriting
    <2>1. UNCHANGED <<sock, stream, map>>
      BY <1>1 DEF kernel
    <2>2. CASE Writes(u, gd)
      <3>1. u # t
        BY <1>6, <2>2
      <3>2. /\ msg[u] = sock[gd]
            /\ Sent(sock[gd], sent[u])
            /\ pc[u] \in {"send", "done"} => map[gd] = sock[gd]
            /\ pc[u] \in {"done", "close"} => sent[u] = RespLen
        BY <2>2 DEF ServiceInv, MessageInv, InWriting
      <3>3. sock[gd] \in Conns
        BY <2>2, WritesAlone
      <3>4. Sent(sock[gd], sent[u])'
        BY <1>5, <1>13, <2>1, <3>1, <3>2, <3>3
      <3> QED
        BY <1>5, <2>1, <3>1, <3>2, <3>4
    <2>3. CASE u = t /\ gd = fd
      <3>1. Sent(c, 0)'
        BY <1>8, <1>13
      <3>2. sock'[gd] = c /\ sent'[u] = 0
        BY <1>4, <1>5, <2>1, <2>3
      <3>3. Sent(sock[gd], sent[u])'
        BY <3>1, <3>2
      <3> QED
        BY <1>3, <1>4, <1>5, <2>1, <2>3, <3>3
    <2> QED
      BY <1>6, <2>2, <2>3
  <1>15. Streams'
    <2>1. UNCHANGED <<peer, cut, room, backlog, sock, stream>> /\ Done' = Done
      BY <1>1 DEF kernel, Done, Closed
    <2>2. ASSUME NEW d \in Done
          PROVE  Sent(d, RespLen)' \/ (peer[d] = "fin" /\ d \notin cut /\ stream[d] = <<>>)
      <3>1. d \in Conns
        BY DEF Done
      <3> QED
        BY <1>13, <3>1 DEF ServiceInv, MessageInv, Streams
    <2>3. \A d \in Conns : OnlyOwn(d)'
      BY <1>13 DEF ServiceInv, MessageInv, Streams
    <2> QED
      BY <1>6, <1>10, <2>1, <2>2, <2>3 DEF ServiceInv, MessageInv, Streams, OS!Open
  <1>16. NoDangling'
    BY <1>2 DEF TCPDataSend!MsgGetCopy, TCPDataSend!TypeOK, ServiceInv, MessageInv,
                NoDangling
  <1> QED
    BY <1>11, <1>12, <1>14, <1>15, <1>16 DEF MessageInv

\* A response is its units, from the first to the last.
LEMMA WholeResponse ==
  ASSUME NEW c \in Conns
  PROVE  /\ Response(c) \in Seq(Conns \X (1 .. RespLen))
         /\ Len(Response(c)) = RespLen
         /\ SubSeq(Response(c), 1, RespLen) = Response(c)
  <1>1. Response(c) \in Seq(Conns \X (1 .. RespLen)) /\ Len(Response(c)) = RespLen
    BY NetServerConstants DEF Response
  <1> QED
    BY <1>1, SubSeqFull

\* Whatever has the units of a beginning of a response, and no others, is that
\* beginning.
LEMMA Beginning ==
  ASSUME NEW c \in Conns, NEW n \in 0 .. RespLen,
         NEW s \in Seq(Conns \X (1 .. RespLen)),
         Len(s) = n, \A i \in 1 .. n : s[i] = Response(c)[i]
  PROVE  s = SubSeq(Response(c), 1, n)
  <1> DEFINE r == SubSeq(Response(c), 1, n)
  <1>1. \A i \in 1 .. n : Response(c)[i] \in Conns \X (1 .. RespLen)
    BY NetServerConstants DEF Response
  <1>2. 1 \in Int /\ n \in Int /\ n >= 0
    BY NetServerConstants
  <1>3. /\ r \in Seq(Conns \X (1 .. RespLen))
        /\ Len(r) = n
        /\ \A i \in 1 .. n : r[i] = Response(c)[i]
    BY <1>1, <1>2, SubSeqProperties
  <1> HIDE DEF r
  <1>4. Len(s) = Len(r) /\ \A i \in 1 .. Len(s) : s[i] = r[i]
    BY <1>3
  <1> QED
    BY <1>3, <1>4, SeqEqual DEF r

\* The units of a response that one send takes.
LEMMA UnitsOfPart ==
  ASSUME NEW c \in Conns, NEW x \in Nat, NEW y \in x .. RespLen
  PROVE  /\ SubSeq(Response(c), x + 1, y) \in Seq(Conns \X (1 .. RespLen))
         /\ Len(SubSeq(Response(c), x + 1, y)) = y - x
         /\ \A i \in 1 .. y - x : SubSeq(Response(c), x + 1, y)[i] = Response(c)[x + i]
  <1>1. \A i \in x + 1 .. y : Response(c)[i] \in Conns \X (1 .. RespLen)
    BY NetServerConstants DEF Response
  <1>2. x + 1 \in Int /\ y \in Int /\ x \in Int /\ x <= y
    BY NetServerConstants
  <1>3. /\ SubSeq(Response(c), x + 1, y) \in Seq(Conns \X (1 .. RespLen))
        /\ Len(SubSeq(Response(c), x + 1, y))
             = IF x + 1 <= y THEN y - (x + 1) + 1 ELSE 0
        /\ \A i \in 1 .. y - (x + 1) + 1 :
             SubSeq(Response(c), x + 1, y)[i] = Response(c)[x + 1 + i - 1]
    BY <1>1, <1>2, SubSeqProperties
  <1>4. y - (x + 1) + 1 = y - x /\ \A i \in Int : x + 1 + i - 1 = x + i
    BY <1>2
  <1> QED
    BY <1>2, <1>3, <1>4

Continues(c, x, y) == stream'[c] = stream[c] \o SubSeq(Response(c), x + 1, y)

\* The next units continue what was sent.
LEMMA SentGrows ==
  ASSUME NEW c \in Conns, NEW x \in Nat, NEW y \in x .. RespLen,
         stream[c] \in Seq(Conns \X (1 .. RespLen)),
         Continues(c, x, y),
         room'[c] = room[c], Sent(c, x), OnlyOwn(c)
  PROVE  Sent(c, y)' /\ OnlyOwn(c)'
  <1> DEFINE Unit == Conns \X (1 .. RespLen)
  <1>1. PICK s \in Seq(Unit) : s = stream[c]
    OBVIOUS
  <1>2. PICK p \in Seq(Unit) : p = SubSeq(Response(c), x + 1, y)
    BY UnitsOfPart
  <1> HIDE DEF Unit
  <1>3. Len(p) = y - x /\ \A i \in 1 .. y - x : p[i] = Response(c)[x + i]
    BY <1>2, UnitsOfPart
  <1>4. PICK u \in Seq(Unit) : u = s \o p
    BY ConcatProperties
  <1>5. stream'[c] = u
    BY <1>1, <1>2, <1>4 DEF Continues
  <1>6. PICK k \in Nat : k = Len(s)
    BY LenProperties
  <1>7. Len(u) = k + (y - x)
    <2>1. Len(s \o p) = Len(s) + Len(p)
      BY ConcatProperties
    <2> QED
      BY <1>3, <1>4, <1>6, <2>1
  <1>8. /\ \A i \in 1 .. k : u[i] = s[i]
        /\ \A i \in k + 1 .. k + (y - x) : u[i] = p[i - k]
    <2>1. \A i \in 1 .. Len(s) + Len(p) :
            (s \o p)[i] = IF i <= Len(s) THEN s[i] ELSE p[i - Len(s)]
      BY ConcatProperties
    <2>2. \A i \in 1 .. k + (y - x) : u[i] = IF i <= k THEN s[i] ELSE p[i - k]
      BY <1>3, <1>4, <1>6, <2>1
    <2>3. k <= k + (y - x)
      BY NetServerConstants
    <2> QED
      BY <2>2, <2>3
  <1>9. DOMAIN s = 1 .. k /\ DOMAIN u = 1 .. k + (y - x)
    BY <1>6, <1>7, LenProperties
  <1>10. /\ x <= k /\ \A i \in 1 .. x : s[k - x + i] = Response(c)[i]
         /\ room[c] = "fresh" => k = x
         /\ \A i \in 1 .. k : s[i][1] = c
    BY <1>1, <1>6, <1>9 DEF Sent, OnlyOwn
  <1>11. /\ \A i \in 1 .. y : u[k - x + i] = Response(c)[i]
         /\ \A i \in 1 .. k + (y - x) : u[i][1] = c
    <2> USE <1>3, <1>8, <1>10, NetServerConstants
    <2>1. ASSUME NEW i \in 1 .. y
          PROVE  u[k - x + i] = Response(c)[i]
      <3>1. k - x + i \in 1 .. k + (y - x)
        OBVIOUS
      <3>2. CASE i <= x
        <4>1. i \in 1 .. x /\ k - x + i \in 1 .. k
          BY <3>2
        <4> QED
          BY <3>1, <4>1
      <3>3. CASE i > x
        <4>1. /\ k - x + i \in k + 1 .. k + (y - x) /\ (k - x + i) - k = i - x
              /\ i - x \in 1 .. y - x /\ x + (i - x) = i
          BY <3>3
        <4>2. u[k - x + i] = p[i - x]
          BY <3>1, <4>1
        <4>3. p[i - x] = Response(c)[x + (i - x)]
          BY <4>1
        <4> QED
          BY <4>1, <4>2, <4>3
      <3> QED
        BY <3>2, <3>3
    <2>2. ASSUME NEW i \in 1 .. k + (y - x)
          PROVE  u[i][1] = c
      <3>1. CASE i <= k
        <4>1. i \in 1 .. k
          BY <3>1
        <4> QED
          BY <3>1, <4>1
      <3>2. CASE ~(i <= k)
        <4>1. /\ i \in k + 1 .. k + (y - x) /\ i - k \in 1 .. y - x
              /\ x + (i - k) \in 1 .. RespLen
          BY <3>2
        <4>2. PICK j \in 1 .. RespLen : j = x + (i - k)
          BY <4>1
        <4>3. u[i] = Response(c)[j]
          BY <3>2, <4>1, <4>2
        <4>4. Response(c)[j][1] = c
          BY DEF Response
        <4> QED
          BY <4>3, <4>4, Zenon
      <3> QED
        BY <3>1, <3>2
    <2> QED
      BY <2>1, <2>2
  <1>12. y <= k + (y - x) /\ (room[c] = "fresh" => k + (y - x) = y)
    BY <1>10, NetServerConstants
  <1>13. Sent(c, y)'
    <2>1. ASSUME NEW i \in 1 .. y
          PROVE  u[Len(u) - y + i] = Response(c)[i]
      <3>1. Len(u) - y + i = k - x + i
        BY <1>7, NetServerConstants
      <3> QED
        BY <1>11, <3>1
    <2> QED
      BY <1>5, <1>7, <1>12, <2>1 DEF Sent, Response
  <1>14. OnlyOwn(c)'
    BY <1>5, <1>9, <1>11 DEF OnlyOwn
  <1> QED
    BY <1>13, <1>14

\* send: the next units, to the peer whose response it is; and nothing before them
\* was sent twice, if the send buffer was never full.
LEMMA SendKeepsMessages ==
  ASSUME Calm, UNCHANGED worker, NEW t \in Threads, SendSome(t)
  PROVE  /\ MessageInv'
         /\ \E c \in Conns, n \in 1 .. RespLen :
              /\ ~Closed(c) /\ (peer[c] = "taken" \/ c \in cut)
              /\ room[c] = "fresh" =>
                   /\ n > Len(stream[c])
                   /\ stream' = [stream EXCEPT ![c] = SubSeq(Response(c), 1, n)]
  <1> USE NetServerConstants DEF Calm, TypeOK, NetTypeOK
  <1>1. PICK fd \in Fds : fd = clientSocket[t] /\ pc[t] = "send" /\ Writes(t, fd)
    BY DEF SendSome, Writes, LocalTypeOK
  <1>2. PICK c \in Conns : c = sock[fd]
    BY <1>1, WritesAlone
  <1>3. /\ UNCHANGED <<kernel, mapVars, queue, clientSocket, msg>>
        /\ UNCHANGED <<peer, cut, room, backlog, sock, interest>>
        /\ UNCHANGED <<map, it>>
    BY DEF SendSome, kernel, mapVars
  <1>4. OS!Open(fd) /\ \A u \in Threads : Writes(u, fd) => u = t
    BY <1>1, WritesAlone
  <1>5. msg[t] = c /\ map[fd] = c /\ Sent(c, sent[t])
    BY <1>1, <1>2 DEF ServiceInv, MessageInv, InWriting
  <1>6. PICK x \in Nat, y \in 1 .. RespLen :
          /\ x = sent[t] /\ x < y
          /\ sent' = [sent EXCEPT ![t] = y]
          /\ stream' = [stream EXCEPT ![c] = @ \o SubSeq(Response(c), x + 1, y)]
          /\ pc' = [pc EXCEPT ![t] = IF y = RespLen THEN "done" ELSE "send"]
    <2>1. PICK n \in 1 .. MaxSize :
            /\ sent[t] + n <= RespLen
            /\ sent' = [sent EXCEPT ![t] = @ + n]
            /\ stream' = [stream EXCEPT ![c] =
                 @ \o SubSeq(Response(c), sent[t] + 1, sent[t] + n)]
            /\ pc' = [pc EXCEPT ![t] = IF sent[t] + n = RespLen THEN "done" ELSE "send"]
      BY <1>1, <1>2, <1>5 DEF SendSome, Goto
    <2>2. sent[t] \in Nat /\ sent[t] + n \in 1 .. RespLen /\ sent[t] < sent[t] + n
      BY <2>1 DEF LocalTypeOK
    <2> QED
      BY <2>1, <2>2
  <1>7. /\ stream'[c] = stream[c] \o SubSeq(Response(c), x + 1, y)
        /\ \A d \in Conns : d # c => stream'[d] = stream[d]
    BY <1>6 DEF LocalTypeOK
  <1>8. /\ Sent(c, y)'
        /\ \A d \in Conns : OnlyOwn(d)'
        /\ \A d \in Conns : d # c => \A n : Sent(d, n) => Sent(d, n)'
    <2>1. \A d \in Conns : OnlyOwn(d)
      BY DEF ServiceInv, MessageInv, Streams
    <2>2. Sent(c, y)' /\ OnlyOwn(c)'
      <3>1. stream[c] \in Seq(Conns \X (1 .. RespLen)) /\ Sent(c, x) /\ y \in x .. RespLen
        BY <1>5, <1>6 DEF LocalTypeOK
      <3> QED
        BY <1>3, <1>7, <2>1, <3>1, SentGrows DEF Continues
    <2>3. \A d \in Conns : d # c => /\ OnlyOwn(d)'
                                    /\ \A n : Sent(d, n) => Sent(d, n)'
      BY <1>3, <1>7, <2>1, SentFrame
    <2> QED
      BY <2>2, <2>3
  <1>9. /\ \A u \in Threads : u # t => pc'[u] = pc[u] /\ sent'[u] = sent[u]
        /\ pc'[t] \in {"send", "done"} /\ sent'[t] = y
        /\ pc'[t] = "done" => y = RespLen
    BY <1>6 DEF LocalTypeOK
  <1>10. \A u \in Threads, gd \in Fds : Writes(u, gd)' <=> Writes(u, gd)
    BY <1>1, <1>3, <1>9 DEF Writes
  <1>11. \A gd \in Fds :
           (Owed(gd)' <=> Owed(gd)) /\ (Received(gd)' <=> Received(gd))
    BY <1>1, <1>3, <1>9, OwedFrame DEF Received
  <1>12. OneMessage'
    BY <1>3 DEF ServiceInv, MessageInv, OneMessage
  <1>13. OwedWhereReceived'
    <2>1. ASSUME NEW gd \in Fds, Owed(gd)
          PROVE  /\ Received(gd)
                 /\ peer[sock[gd]] = "taken" \/ sock[gd] \in cut
                 /\ \A u \in Threads : pc'[u] = "close" => clientSocket[u] # gd
      <3>1. \A u \in Threads : pc'[u] = "close" => pc[u] = "close"
        BY <1>9
      <3> QED
        BY <2>1, <3>1 DEF ServiceInv, MessageInv, OwedWhereReceived
    <2>2. \A gd \in Fds : sock[gd] \in cut => Received(gd)
      BY DEF ServiceInv, MessageInv, OwedWhereReceived
    <2> QED
      BY <1>3, <1>11, <2>1, <2>2 DEF OwedWhereReceived
  <1>14. InWriting'
    <2> SUFFICES ASSUME NEW u \in Threads, NEW gd \in Fds, Writes(u, gd)'
                 PROVE  /\ msg'[u] = sock'[gd]
                        /\ Sent(sock[gd], sent[u])'
                        /\ pc'[u] \in {"send", "done"} => map'[gd] = sock'[gd]
                        /\ pc'[u] \in {"done", "close"} => sent'[u] = RespLen
      BY DEF InWriting
    <2>1. Writes(u, gd)
      BY <1>10
    <2>2. CASE u # t
      <3>1. sock[gd] # c /\ sock[gd] \in Conns
        BY <1>1, <1>2, <1>4, <2>1, <2>2, OtherSocket, WritesAlone
      <3>2. /\ msg[u] = sock[gd]
            /\ Sent(sock[gd], sent[u])
            /\ pc[u] \in {"send", "done"} => map[gd] = sock[gd]
            /\ pc[u] \in {"done", "close"} => sent[u] = RespLen
        BY <2>1 DEF ServiceInv, MessageInv, InWriting
      <3>3. Sent(sock[gd], sent[u])'
        BY <1>3, <1>8, <1>9, <2>2, <3>1, <3>2
      <3> QED
        BY <1>3, <1>9, <2>2, <3>2, <3>3
    <2>3. CASE u = t
      <3>1. gd = fd
        BY <1>1, <2>1, <2>3 DEF Writes
      <3>2. Sent(sock[gd], sent[u])'
        BY <1>2, <1>3, <1>8, <1>9, <2>3, <3>1
      <3> QED
        BY <1>2, <1>3, <1>5, <1>9, <2>3, <3>1, <3>2
    <2> QED
      BY <2>2, <2>3
  <1>15. Streams'
    <2>1. Done' = Done
      BY <1>3 DEF Done, Closed
    <2>2. ASSUME NEW d \in Done
          PROVE  Sent(d, RespLen)' \/ (peer[d] = "fin" /\ d \notin cut /\ stream'[d] = <<>>)
      <3>1. d \in Conns /\ d # c
        BY <1>2 DEF Done, Closed
      <3> QED
        BY <1>7, <1>8, <3>1 DEF ServiceInv, MessageInv, Streams
    <2>3. ASSUME NEW gd \in Fds, OS!Open(gd), stream'[sock[gd]] # <<>>
          PROVE  /\ Received(gd)
                 /\ room[sock[gd]] = "fresh" => \E u \in Threads : Writes(u, gd)
      <3>1. CASE gd = fd
        <4>1. interest[t][fd] = "out"
          BY <1>1, WritesAlone
        <4> QED
          BY <1>1, <3>1, <4>1 DEF Received
      <3>2. CASE gd # fd
        <4>1. stream'[sock[gd]] = stream[sock[gd]]
          BY <1>2, <1>4, <1>7, <2>3, <3>2, OtherSocket DEF OS!TypeOK, OS!Open
        <4> QED
          BY <2>3, <4>1 DEF ServiceInv, MessageInv, Streams
      <3> QED
        BY <3>1, <3>2
    <2>4. ASSUME NEW d \in Conns, d \in backlog \/ peer[d] = "idle"
          PROVE  stream'[d] = <<>> /\ d \notin cut
      <3>1. d # c
        BY <1>2, <1>4, <2>4 DEF OS!TypeOK
      <3> QED
        BY <1>7, <2>4, <3>1 DEF ServiceInv, MessageInv, Streams
    <2> QED
      BY <1>3, <1>8, <1>10, <1>11, <2>1, <2>2, <2>3, <2>4 DEF Streams, OS!Open
  <1>16. NoDangling'
    BY <1>3 DEF ServiceInv, MessageInv, NoDangling
  <1>17. ~Closed(c) /\ (peer[c] = "taken" \/ c \in cut)
    <2>1. Owed(fd)
      BY <1>5 DEF Owed
    <2> QED
      BY <1>2, <2>1 DEF Closed, ServiceInv, MessageInv, OwedWhereReceived
  <1>18. ASSUME room[c] = "fresh"
         PROVE  /\ y > Len(stream[c])
                /\ stream' = [stream EXCEPT ![c] = SubSeq(Response(c), 1, y)]
    <2>1. stream'[c] \in Seq(Conns \X (1 .. RespLen))
      <3>1. stream[c] \in Seq(Conns \X (1 .. RespLen)) /\ y \in x .. RespLen
        BY <1>6 DEF LocalTypeOK
      <3>2. SubSeq(Response(c), x + 1, y) \in Seq(Conns \X (1 .. RespLen))
        BY <3>1, UnitsOfPart
      <3> QED
        BY <1>7, <3>1, <3>2, ConcatProperties
    <2>2. Len(stream[c]) = x
      BY <1>5, <1>6, <1>18 DEF Sent
    <2>3. Len(stream'[c]) = y /\ \A i \in 1 .. y : stream'[c][i] = Response(c)[i]
      <3>1. Len(stream'[c]) = y
        BY <1>3, <1>8, <1>18 DEF Sent
      <3>2. \A i \in 1 .. y : stream'[c][Len(stream'[c]) - y + i] = Response(c)[i]
        BY <1>8 DEF Sent, Response
      <3>3. \A i \in 1 .. y : y - y + i = i
        OBVIOUS
      <3> QED
        BY <3>1, <3>2, <3>3
    <2>4. stream'[c] = SubSeq(Response(c), 1, y)
      <3>1. y \in 0 .. RespLen
        OBVIOUS
      <3> QED
        BY <2>1, <2>3, <3>1, Beginning
    <2>5. stream' = [stream EXCEPT ![c] = stream'[c]]
      BY <1>6 DEF LocalTypeOK
    <2> QED
      BY <1>6, <2>2, <2>4, <2>5
  <1> QED
    BY <1>12, <1>13, <1>14, <1>15, <1>16, <1>17, <1>18 DEF MessageInv

\* EAGAIN: the thread stops writing, and the message is kept for a next time.
LEMMA AgainKeepsMessages ==
  ASSUME Calm, UNCHANGED worker, NEW t \in Threads, SendAgain(t)
  PROVE  MessageInv'
  <1> USE NetServerConstants DEF Calm, TypeOK, NetTypeOK
  <1>1. PICK fd \in Fds : fd = clientSocket[t] /\ pc[t] = "send" /\ Writes(t, fd)
    BY DEF SendAgain, Writes, LocalTypeOK
  <1>2. PICK c \in Conns : c = sock[fd]
    BY <1>1, WritesAlone
  <1>3. /\ room'[c] = "full" /\ \A d \in Conns : d # c => room'[d] = room[d]
        /\ UNCHANGED <<peer, cut, backlog, sock, interest, map, it, queue>>
        /\ UNCHANGED <<clientSocket, stream>>
    BY <1>1, <1>2 DEF SendAgain, OS!FillUp, OS!TypeOK, mapVars
  <1>4. /\ pc'[t] = "epoll"
        /\ \A u \in Threads : u # t => /\ pc'[u] = pc[u] /\ msg'[u] = msg[u]
                                      /\ sent'[u] = sent[u]
    BY DEF SendAgain, Goto, LocalTypeOK
  <1>5. OS!Open(fd) /\ interest[t][fd] = "out"
    BY <1>1, WritesAlone
  <1>6. \A u \in Threads, gd \in Fds : Writes(u, gd)' <=> Writes(u, gd) /\ u # t
    BY <1>3, <1>4 DEF Writes
  <1>7. \A gd \in Fds : Writes(t, gd) => gd = fd
    BY <1>1 DEF Writes
  <1>8. \A gd \in Fds :
          (Owed(gd)' <=> Owed(gd)) /\ (Received(gd)' <=> Received(gd))
    BY <1>1, <1>3, <1>4, OwedFrame DEF Received
  <1>9. \A d \in Conns : /\ OnlyOwn(d) => OnlyOwn(d)'
                         /\ \A n : Sent(d, n) => Sent(d, n)'
    BY <1>3, SentFrame
  <1>10. OneMessage'
    BY <1>3 DEF ServiceInv, MessageInv, OneMessage
  <1>11. OwedWhereReceived'
    BY <1>3, <1>4, <1>8 DEF ServiceInv, MessageInv, OwedWhereReceived
  <1>12. InWriting'
    <2> SUFFICES ASSUME NEW u \in Threads, NEW gd \in Fds, Writes(u, gd), u # t
                 PROVE  /\ msg'[u] = sock'[gd]
                        /\ Sent(sock[gd], sent[u])'
                        /\ pc'[u] \in {"send", "done"} => map'[gd] = sock'[gd]
                        /\ pc'[u] \in {"done", "close"} => sent'[u] = RespLen
      BY <1>6 DEF InWriting
    <2>1. /\ msg[u] = sock[gd]
          /\ Sent(sock[gd], sent[u])
          /\ pc[u] \in {"send", "done"} => map[gd] = sock[gd]
          /\ pc[u] \in {"done", "close"} => sent[u] = RespLen
      BY DEF ServiceInv, MessageInv, InWriting
    <2>2. sock[gd] \in Conns
      BY WritesAlone
    <2>3. Sent(sock[gd], sent[u])'
      BY <1>3, <1>4, <1>9, <2>1, <2>2
    <2> QED
      BY <1>3, <1>4, <2>1, <2>3
  <1>13. Streams'
    <2>1. Done' = Done
      BY <1>3 DEF Done, Closed
    <2>2. ASSUME NEW d \in Done
          PROVE  Sent(d, RespLen)' \/ (peer[d] = "fin" /\ d \notin cut /\ stream[d] = <<>>)
      <3>1. d \in Conns
        BY DEF Done
      <3> QED
        BY <1>9, <3>1 DEF ServiceInv, MessageInv, Streams
    <2>3. ASSUME NEW gd \in Fds, OS!Open(gd), stream[sock[gd]] # <<>>
          PROVE  /\ Received(gd)
                 /\ room'[sock[gd]] = "fresh" =>
                      \E u \in Threads : Writes(u, gd) /\ u # t
      <3>1. CASE gd = fd
        BY <1>2, <1>3, <2>3, <3>1 DEF ServiceInv, MessageInv, Streams
      <3>2. CASE gd # fd
        <4>1. room'[sock[gd]] = room[sock[gd]]
          BY <1>2, <1>3, <1>5, <2>3, <3>2, OtherSocket DEF OS!TypeOK, OS!Open
        <4> QED
          BY <1>7, <2>3, <3>2, <4>1 DEF ServiceInv, MessageInv, Streams
      <3> QED
        BY <3>1, <3>2
    <2>4. \A d \in Conns : OnlyOwn(d)'
      BY <1>9 DEF ServiceInv, MessageInv, Streams
    <2>5. \A d \in Conns : d \in backlog \/ peer[d] = "idle" =>
                             stream[d] = <<>> /\ d \notin cut
      BY DEF ServiceInv, MessageInv, Streams
    <2> QED
      BY <1>3, <1>6, <1>8, <2>1, <2>2, <2>3, <2>4, <2>5 DEF Streams, OS!Open
  <1>14. NoDangling'
    BY <1>3 DEF ServiceInv, MessageInv, NoDangling
  <1> QED
    BY <1>10, <1>11, <1>12, <1>13, <1>14 DEF MessageInv

\* DeleteMsg after the last unit: the message was the only one, and nobody else
\* was about to read it.
LEMMA DoneKeepsMessages ==
  ASSUME Calm, UNCHANGED worker, NEW t \in Threads, SendDone(t)
  PROVE  MessageInv'
  <1> USE NetServerConstants DEF Calm, TypeOK, NetTypeOK
  <1> DEFINE fd == clientSocket[t]
  <1>1. /\ pc[t] = "done" /\ fd \in Fds /\ Writes(t, fd)
        /\ UNCHANGED <<kernel, queue, clientSocket, msg, sent, stream>>
        /\ TCPDataSend!Erase(fd)
    BY DEF SendDone, Writes, writing, LocalTypeOK
  <1>2. /\ sock[fd] \in Conns
        /\ \A u \in Threads : interest[u][fd] # "none" => u = t
    BY <1>1, WritesAlone
  <1>3. map[fd] = sock[fd] /\ map[fd] # NoConn
    BY <1>1, <1>2 DEF ServiceInv, MessageInv, InWriting
  <1>4. \A gd \in Fds : map'[gd] = IF gd = fd THEN NoConn ELSE map[gd]
    BY <1>1 DEF TCPDataSend!Erase, TCPDataSend!TypeOK
  <1>5. /\ \A u \in Threads : u # t => pc'[u] = pc[u]
        /\ pc'[t] = "close"
    BY DEF SendDone, Goto, LocalTypeOK
  <1>6. \A u \in Threads, gd \in Fds : Writes(u, gd)' <=> Writes(u, gd)
    BY <1>1, <1>5 DEF Writes
  <1>7. \A gd \in Fds : Owed(gd)' => gd # fd /\ Owed(gd)
    BY <1>1, <1>3, <1>4 DEF Owed, ServiceInv, MessageInv, OneMessage
  <1>8. \A gd \in Fds : Received(gd)' <=> Received(gd)
    BY <1>1, <1>5 DEF Received, kernel
  <1>9. OneMessage'
    <2>1. \A i \in DOMAIN queue : queue[i][1] \in Fds
      BY LenProperties, ElementOfSeq DEF LocalTypeOK
    <2> QED
      BY <1>1, <1>4, <2>1 DEF kernel, ServiceInv, MessageInv, OneMessage
  <1>10. OwedWhereReceived'
    <2>1. ASSUME NEW gd \in Fds, Owed(gd)'
          PROVE  /\ Received(gd)'
                 /\ peer[sock[gd]] = "taken" \/ sock[gd] \in cut
                 /\ \A u \in Threads : pc'[u] = "close" => clientSocket[u] # gd
      <3>1. Owed(gd) /\ gd # fd
        BY <1>7, <2>1
      <3>2. /\ Received(gd)
            /\ peer[sock[gd]] = "taken" \/ sock[gd] \in cut
            /\ \A u \in Threads : pc[u] = "close" => clientSocket[u] # gd
        BY <3>1 DEF ServiceInv, MessageInv, OwedWhereReceived
      <3> QED
        BY <1>5, <1>8, <3>1, <3>2
    <2> QED
      BY <1>1, <1>8, <2>1 DEF kernel, ServiceInv, MessageInv, OwedWhereReceived
  <1>11. \A d \in Conns : /\ OnlyOwn(d) => OnlyOwn(d)'
                          /\ \A n : Sent(d, n) => Sent(d, n)'
    BY <1>1, SentFrame DEF kernel
  <1>12. InWriting'
    <2> SUFFICES ASSUME NEW u \in Threads, NEW gd \in Fds, Writes(u, gd)'
                 PROVE  /\ msg'[u] = sock'[gd]
                        /\ Sent(sock[gd], sent[u])'
                        /\ pc'[u] \in {"send", "done"} => map'[gd] = sock'[gd]
                        /\ pc'[u] \in {"done", "close"} => sent'[u] = RespLen
      BY DEF InWriting
    <2>1. Writes(u, gd) /\ UNCHANGED <<sock, stream, msg, sent>>
      BY <1>1, <1>6 DEF kernel
    <2>2. /\ msg[u] = sock[gd]
          /\ Sent(sock[gd], sent[u])
          /\ pc[u] \in {"send", "done"} => map[gd] = sock[gd]
          /\ pc[u] \in {"done", "close"} => sent[u] = RespLen
      BY <2>1 DEF ServiceInv, MessageInv, InWriting
    <2>3. u # t => gd # fd
      BY <1>1, <1>2, <2>1, WritesAlone
    <2>4. sock[gd] \in Conns
      BY <2>1, WritesAlone
    <2>5. Sent(sock[gd], sent[u])'
      BY <1>11, <2>1, <2>2, <2>4
    <2> QED
      BY <1>1, <1>4, <1>5, <2>1, <2>2, <2>3, <2>5
  <1>13. Streams'
    <2>1. UNCHANGED <<peer, cut, room, backlog, sock, stream>> /\ Done' = Done
      BY <1>1 DEF kernel, Done, Closed
    <2>2. ASSUME NEW d \in Done
          PROVE  Sent(d, RespLen)' \/ (peer[d] = "fin" /\ d \notin cut /\ stream[d] = <<>>)
      <3>1. d \in Conns
        BY DEF Done
      <3> QED
        BY <1>11, <3>1 DEF ServiceInv, MessageInv, Streams
    <2>3. \A d \in Conns : OnlyOwn(d)'
      BY <1>11 DEF ServiceInv, MessageInv, Streams
    <2> QED
      BY <1>6, <1>8, <2>1, <2>2, <2>3 DEF ServiceInv, MessageInv, Streams, OS!Open
  <1>14. NoDangling'
    <2>1. ASSUME NEW u \in Threads, index[u] = fd
          PROVE  FALSE
      <3>1. pc[u] = "get" /\ clientSocket[u] = fd
        BY <1>1, <2>1 DEF LocalTypeOK
      <3>2. interest[u][fd] = "out" /\ u # t
        BY <1>1, <3>1 DEF CalmInv, LoopInv, InHand
      <3> QED
        BY <1>2, <3>2
    <2> QED
      BY <1>1, <2>1 DEF TCPDataSend!Erase, ServiceInv, MessageInv, NoDangling
  <1> QED
    BY <1>9, <1>10, <1>12, <1>13, <1>14 DEF MessageInv

\* The end of WriteHandle closes the descriptor of a peer that has its response.
LEMMA CloseFinds ==
  ASSUME Calm, NEW t \in Threads, CloseSocket(t)
  PROVE  \E fd \in Fds :
           /\ fd = clientSocket[t] /\ Writes(t, fd) /\ OS!Close(fd)
           /\ sock[fd] \in Conns /\ ~Owed(fd)
           /\ Sent(sock[fd], RespLen)
  <1> USE NetServerConstants DEF Calm, TypeOK, NetTypeOK
  <1> DEFINE fd == clientSocket[t]
  <1>1. pc[t] = "close" /\ fd \in Fds /\ Writes(t, fd) /\ OS!Close(fd)
    BY DEF CloseSocket, Writes, LocalTypeOK
  <1>2. sock[fd] \in Conns
    BY <1>1, WritesAlone
  <1>3. ~Owed(fd)
    BY <1>1 DEF ServiceInv, MessageInv, OwedWhereReceived
  <1>4. Sent(sock[fd], RespLen)
    BY <1>1 DEF ServiceInv, MessageInv, InWriting
  <1> QED
    BY <1>1, <1>2, <1>3, <1>4

\* ReadHandle closes the descriptor of a peer that closed before it asked.
LEMMA ReadFailsFinds ==
  ASSUME Calm, NEW t \in Threads, NEW fd \in Fds, ReadFails(t, fd)
  PROVE  /\ pc[t] = "epoll" /\ OS!Close(fd) /\ sock[fd] \in Conns /\ ~Owed(fd)
         /\ peer[sock[fd]] = "fin" /\ sock[fd] \notin cut
         /\ stream[sock[fd]] = <<>>
         /\ \A u \in Threads : ~Writes(u, fd)
  <1>1. /\ pc[t] = "epoll" /\ <<fd, "in">> \in events[t]
        /\ OS!RecvFails(fd) /\ OS!Close(fd)
    BY DEF ReadFails, Take
  <1>2. interest[t][fd] = "in" /\ OS!Open(fd)
    BY <1>1, ReadableOpen DEF Calm
  <1> QED
    BY <1>1, <1>2, NothingBeforeRead DEF Calm, OS!RecvFails

\* Both leave the messages of the other descriptors alone.
LEMMA ClosesKeepMessages ==
  ASSUME Calm, UNCHANGED worker, NEW t \in Threads,
         CloseSocket(t) \/ \E fd \in Fds : ReadFails(t, fd)
  PROVE  MessageInv'
  <1>1. CASE CloseSocket(t)
    <2>1. PICK fd \in Fds : /\ fd = clientSocket[t] /\ Writes(t, fd) /\ OS!Close(fd)
                            /\ sock[fd] \in Conns /\ ~Owed(fd)
                            /\ Sent(sock[fd], RespLen)
      BY <1>1, CloseFinds
    <2>2. \A u \in Threads : u # t => ~Writes(u, fd)
      BY <2>1, WritesAlone
    <2>3. /\ UNCHANGED <<map, it, queue, stream>>
          /\ \A u \in Threads : u # t => /\ pc'[u] = pc[u]
                                        /\ clientSocket'[u] = clientSocket[u]
                                        /\ msg'[u] = msg[u] /\ sent'[u] = sent[u]
          /\ pc'[t] = "epoll"
      BY <1>1 DEF CloseSocket, Goto, mapVars, Calm, TypeOK, NetTypeOK, LocalTypeOK
    <2> QED
      BY <2>1, <2>2, <2>3, CloseKeepsMessages
  <1>2. ASSUME NEW fd \in Fds, ReadFails(t, fd)
        PROVE  MessageInv'
    <2>1. /\ UNCHANGED <<map, it, queue, stream>>
          /\ \A u \in Threads : u # t => /\ pc'[u] = pc[u]
                                        /\ clientSocket'[u] = clientSocket[u]
                                        /\ msg'[u] = msg[u] /\ sent'[u] = sent[u]
          /\ pc'[t] = "del"
      BY <1>2 DEF ReadFails, SetSocket, Goto, mapVars, writing,
                  Calm, TypeOK, NetTypeOK, LocalTypeOK
    <2> QED
      BY <1>2, <2>1, ReadFailsFinds, CloseKeepsMessages
  <1> QED
    BY <1>1, <1>2

\* What cannot happen before somebody resets: recv that finds nothing, and every way
\* of send or epoll_wait to fail but for a full buffer.
LEMMA NoTrouble ==
  ASSUME Calm, NEW t \in Threads
  PROVE  /\ ~SendError(t)
         /\ \A fd \in Fds : ~ReadNothing(t, fd) /\ ~HandleUnknown(t, fd)
  <1>1. ~SendError(t) /\ \A fd \in Fds : ~HandleUnknown(t, fd)
    BY NoErrors DEF Calm
  <1>2. \A fd \in Fds : ~ReadNothing(t, fd)
    BY ReadFindsSomething DEF Calm, ServiceInv
  <1> QED
    BY <1>1, <1>2

\* No step takes the invariant away while nobody has reset a connection.
LEMMA NextMessageInv ==
  ASSUME Calm, [Next]_vars
  PROVE  MessageInv'
  <1>1. ASSUME NEW t \in Threads, Thread(t), UNCHANGED worker
        PROVE  MessageInv'
    <2>1. CASE \/ StartServer(t) \/ EpollWait(t) \/ HandleListen(t) \/ AcceptLock(t)
               \/ SetNonblocking(t) \/ AddSocket(t) \/ AcceptBreak(t) \/ Rearm(t)
               \/ GetMsgTest(t) \/ \E fd \in Fds : WriteHandle(t, fd)
      BY <1>1, <2>1, QuietThread
    <2>2. CASE AcceptOne(t)
      BY <1>1, <2>2, AcceptKeepsMessages
    <2>3. CASE CloseSocket(t) \/ \E fd \in Fds : ReadFails(t, fd)
      BY <1>1, <2>3, ClosesKeepMessages
    <2>4. CASE \E fd \in Fds : ReadRequest(t, fd)
      BY <1>1, <2>4, ReadKeepsMessages
    <2>5. CASE GetMsgCopy(t)
      BY <1>1, <2>5, CopyKeepsMessages
    <2>6. CASE SendSome(t)
      BY <1>1, <2>6, SendKeepsMessages
    <2>7. CASE SendDone(t)
      BY <1>1, <2>7, DoneKeepsMessages
    <2>8. CASE SendAgain(t)
      BY <1>1, <2>8, AgainKeepsMessages
    <2> QED
      BY <1>1, <2>1, <2>2, <2>3, <2>4, <2>5, <2>6, <2>7, <2>8, NoTrouble DEF Thread
  <1>2. ASSUME UNCHANGED worker, Peers \/ \E t \in Threads : Wakeup(t)
        PROVE  MessageInv'
    BY <1>2, PeersKeepMessages
  <1>3. CASE HttpServer
    BY <1>3, HttpKeepsMessages
  <1>4. CASE UNCHANGED vars
    <2> USE <1>4 DEF vars, kernel, mapVars, local, writing
    <2>1. OneMessage' /\ \A t \in Threads : it'[t] # "dangling"
      BY DEF Calm, ServiceInv, MessageInv, OneMessage, NoDangling
    <2>2. \A fd \in Fds : (Owed(fd)' <=> Owed(fd)) /\ (Received(fd)' <=> Received(fd))
      BY DEF Owed, Received
    <2> QED
      BY <2>1, <2>2, Frame
  <1> QED
    BY <1>1, <1>2, <1>3, <1>4 DEF Next, NetThread, HttpThread

\* The invariant of the messages, until somebody resets.
THEOREM ServiceInvariance == Spec => [](reset = {} => ServiceInv)
  <1>1. Init => MessageInv
    <2> SUFFICES ASSUME Init PROVE MessageInv
      OBVIOUS
    <2> USE DEF Init, NetInit, OS!Init, TCPDataSend!Init, OS!Open
    <2>1. OneMessage /\ NoDangling /\ InWriting
      BY NetServerConstants DEF OneMessage, NoDangling, InWriting, Writes
    <2>2. OwedWhereReceived
      BY NetServerConstants DEF OwedWhereReceived, Owed
    <2>3. Done = {} /\ \A c \in Conns : OnlyOwn(c)
      BY DEF Done, OnlyOwn
    <2>4. Streams
      BY <2>3 DEF Streams
    <2> QED
      BY <2>1, <2>2, <2>4 DEF MessageInv
  <1>2. TypeOK /\ reset = {} /\ CalmInv /\ ArrivalInv /\ MessageInv /\ [Next]_vars
          => MessageInv'
    BY NextMessageInv DEF Calm, ServiceInv
  <1>3. ServiceInv <=> ArrivalInv /\ MessageInv
    BY DEF ServiceInv
  <1>4. TypeOK /\ [Next]_vars /\ (reset = {})' => reset = {}
    BY ResetsStay
  <1> QED
    BY <1>1, <1>2, <1>3, <1>4, TypeCorrect, CalmInvariance, ArrivalInvariance, PTL DEF Spec

\* A peer whose send buffer was never full has been sent the beginning of its response.
LEMMA ExactBeginning ==
  ASSUME Calm, NEW c \in Conns, room[c] = "fresh"
  PROVE  \E n \in 0 .. RespLen : stream[c] = SubSeq(Response(c), 1, n)
  <1> USE NetServerConstants DEF Calm, TypeOK, NetTypeOK
  <1>1. ASSUME NEW n \in 0 .. RespLen, Sent(c, n)
        PROVE  stream[c] = SubSeq(Response(c), 1, n)
    <2>1. stream[c] \in Seq(Conns \X (1 .. RespLen))
      BY DEF LocalTypeOK
    <2>2. Len(stream[c]) = n
      BY <1>1 DEF Sent
    <2>3. \A i \in 1 .. n : stream[c][i] = Response(c)[i]
      <3>1. \A i \in 1 .. n : stream[c][n - n + i] = Response(c)[i]
        BY <1>1, <2>2 DEF Sent
      <3>2. \A i \in 1 .. n : n - n + i = i
        OBVIOUS
      <3> QED
        BY <3>1, <3>2
    <2> QED
      BY <2>1, <2>2, <2>3, Beginning
  <1>2. 0 \in 0 .. RespLen /\ RespLen \in 0 .. RespLen
    OBVIOUS
  <1>3. CASE stream[c] = <<>>
    <2>1. SubSeq(Response(c), 1, 0) = <<>>
      BY SubSeqEmpty
    <2> QED
      BY <1>2, <1>3, <2>1
  <1>4. CASE stream[c] # <<>> /\ ~Closed(c)
    <2>1. PICK fd \in Fds : sock[fd] = c
      BY <1>4 DEF Closed
    <2>2. PICK t \in Threads : Writes(t, fd)
      BY <1>4, <2>1 DEF ServiceInv, MessageInv, Streams, OS!Open
    <2>3. sent[t] \in 0 .. RespLen /\ Sent(c, sent[t])
      BY <2>1, <2>2 DEF ServiceInv, MessageInv, InWriting, LocalTypeOK
    <2> QED
      BY <1>1, <2>3
  <1>5. CASE stream[c] # <<>> /\ Closed(c)
    <2>1. c \in Done
      BY <1>5 DEF Done, ServiceInv, MessageInv, Streams
    <2>2. Sent(c, RespLen)
      BY <1>5, <2>1 DEF ServiceInv, MessageInv, Streams
    <2> QED
      BY <1>1, <1>2, <2>2
  <1> QED
    BY <1>3, <1>4, <1>5

\* As long as no peer resets, and whoever stalls: every peer is sent units of its own
\* response only, and the whole of it at last before it is closed; and exactly that,
\* if its own send buffer was never full.
THEOREM StallsOnlyRepeat == Spec => []StallsHarmNoOther
  <1>1. TypeOK /\ (reset = {} => CalmInv /\ ServiceInv) => StallsHarmNoOther
    <2> SUFFICES ASSUME Calm
                 PROVE  /\ \A c \in Conns : OnlyOwn(c)
                        /\ \A c \in Asked \cap Done : Sent(c, RespLen)
                        /\ \A c \in Conns : room[c] = "fresh" =>
                             \E n \in 0 .. RespLen : stream[c] = SubSeq(Response(c), 1, n)
      BY DEF Calm, StallsHarmNoOther
    <2>1. \A c \in Conns : OnlyOwn(c)
      BY DEF Calm, ServiceInv, MessageInv, Streams
    <2>2. \A c \in Asked \cap Done : Sent(c, RespLen)
      BY DEF Calm, ServiceInv, MessageInv, Streams, Asked
    <2> QED
      BY <2>1, <2>2, ExactBeginning
  <1> QED
    BY <1>1, TypeCorrect, CalmInvariance, ServiceInvariance, PTL

\* Until some peer resets or stalls, every peer is sent, from the first byte on, the
\* response to its own request: nobody else's, nothing twice, nothing left out.
THEOREM OwnResponses == Spec => [](Steady => OwnResponse)
  <1>1. TypeOK /\ Steady /\ CalmInv /\ ServiceInv => OwnResponse
    BY ExactBeginning DEF Calm, Steady, Fresh, OwnResponse
  <1>2. Steady => reset = {}
    BY DEF Steady
  <1> QED
    BY <1>1, <1>2, TypeCorrect, CalmInvariance, ServiceInvariance, PTL

\* Until some peer resets, no response is erased while a network thread is about to
\* copy it, although MsgGet has left the critical section.
THEOREM IteratorsLive == Spec => [](reset = {} => NoDangling)
  <1>1. ServiceInv => NoDangling
    BY DEF ServiceInv, MessageInv
  <1> QED
    BY <1>1, ServiceInvariance, PTL
------------------------------------------------------------------------------
\* A send buffer that fills up is noticed.
LEMMA FullSeen ==
  ASSUME TypeOK, NEW fd \in Fds, OS!FillUp(fd)
  PROVE  ~Fresh'
  <1>1. sock[fd] \in Conns /\ room'[sock[fd]] = "full"
    BY DEF OS!FillUp, OS!SendFails, OS!Open, OS!TypeOK, TypeOK, NetTypeOK
  <1> QED
    BY <1>1 DEF Fresh

\* Before an undisturbed state there are only undisturbed ones.
LEMMA SteadyBefore == TypeOK /\ [Next]_vars /\ Steady' => Steady
  <1> SUFFICES ASSUME TypeOK, [Next]_vars, Steady' PROVE Steady
    OBVIOUS
  <1>1. [OS!Next]_kernel
    BY UsesSockets
  <1>2. \A fd \in Fds : ~OS!FillUp(fd)
    BY FullSeen DEF Steady
  <1>3. \A c \in Conns : ~OS!Drain(c)
    BY DEF OS!Drain, OS!TypeOK, TypeOK, NetTypeOK, Steady, Fresh
  <1>4. room' = room
    BY <1>1, <1>2, <1>3
    DEF kernel, OS!Next, OS!Peer, OS!Connect, OS!RequestPart, OS!Request, OS!Fin,
        OS!Reset, OS!WatchListen, OS!Harvest, OS!EpollCtl, OS!EpollAdd, OS!Accept,
        OS!Receive, OS!Close
  <1> QED
    BY <1>4, ResetsStay DEF Steady, Fresh

\* A step that moves no descriptor, receives nothing and sends nothing.
LEMMA Silent ==
  ASSUME UNCHANGED <<peer, cut, backlog, sock, stream>>
  PROVE  UNCHANGED <<Asked, Done, stream>>
  BY DEF Asked, Done, Closed

\* A peer asks, or does what the service does not speak of.
LEMMA PeersStep ==
  ASSUME Calm, Peers
  PROVE  [Promise!Next]_<<Asked, Done, stream>>
  <1> USE DEF Calm, TypeOK, NetTypeOK
  <1>1. UNCHANGED <<sock, cut, stream>>
    BY DEF Peers, OS!Peer, OS!Connect, OS!RequestPart, OS!Request, OS!Fin, OS!Reset,
           OS!Drain, local, writing
  <1>2. ASSUME NEW c \in Conns, OS!Connect(c)
        PROVE  UNCHANGED <<Asked, Done>>
    <2>1. /\ peer[c] = "idle" /\ peer'[c] = "open" /\ c \in backlog'
          /\ \A d \in Conns : d # c => /\ peer'[d] = peer[d]
                                       /\ d \in backlog' <=> d \in backlog
      BY <1>2 DEF OS!Connect, OS!TypeOK
    <2> QED
      BY <1>1, <2>1 DEF Asked, Done, Closed
  <1>3. ASSUME NEW c \in Conns, OS!Fin(c)
        PROVE  UNCHANGED <<Asked, Done>>
    <2>1. /\ peer[c] = "open" /\ peer'[c] = "fin" /\ backlog' = backlog
          /\ \A d \in Conns : d # c => peer'[d] = peer[d]
      BY <1>3 DEF OS!Fin, OS!TypeOK
    <2> QED
      BY <1>1, <2>1 DEF Asked, Done, Closed
  <1>4. ASSUME NEW c \in Conns, OS!RequestPart(c) \/ OS!Request(c)
        PROVE  Promise!Ask(c) \/ UNCHANGED <<Asked, Done>>
    <2>1. /\ peer[c] \in {"open", "part"} /\ peer'[c] \in {"part", "sent"}
          /\ backlog' = backlog
          /\ \A d \in Conns : d # c => peer'[d] = peer[d]
      BY <1>4 DEF OS!RequestPart, OS!Request, OS!TypeOK
    <2>2. UNCHANGED Done /\ Asked' = Asked \cup {c}
      BY <1>1, <2>1 DEF Asked, Done, Closed
    <2>3. CASE c \in Asked
      BY <2>2, <2>3
    <2>4. CASE c \notin Asked
      BY <1>1, <2>2, <2>4 DEF Promise!Ask
    <2> QED
      BY <2>3, <2>4
  <1>5. ASSUME NEW c \in Conns, OS!Reset(c) \/ OS!Drain(c)
        PROVE  UNCHANGED <<Asked, Done>>
    <2>1. UNCHANGED <<peer, cut, backlog, sock, stream>>
      BY <1>1, <1>5 DEF OS!Reset, OS!Drain
    <2> QED
      BY <2>1, Silent
  <1> QED
    BY <1>1, <1>2, <1>3, <1>4, <1>5 DEF Peers, OS!Peer, Promise!Next

\* Whoever has a descriptor is not done, and is when it is closed.
LEMMA CloseStep ==
  ASSUME Calm, NEW fd \in Fds, OS!Close(fd), sock[fd] \in Conns, stream' = stream,
         stream[sock[fd]] = Response(sock[fd]) \/ sock[fd] \notin Asked
  PROVE  Promise!Finish(sock[fd])
  <1> USE NetServerConstants DEF Calm, TypeOK, NetTypeOK
  <1> DEFINE c == sock[fd]
  <1>1. /\ sock'[fd] = NoConn
        /\ \A gd \in Fds : gd # fd => sock'[gd] = sock[gd]
        /\ UNCHANGED <<peer, cut, backlog>>
    BY DEF OS!Close, OS!TypeOK
  <1>2. peer[c] # "idle" /\ c \notin backlog /\ \A gd \in Fds : gd # fd => sock[gd] # c
    BY OtherSocket DEF OS!TypeOK, OS!Open
  <1>3. ~Closed(c) /\ \A d \in Conns : Closed(d)' <=> Closed(d) \/ d = c
    BY <1>1, <1>2 DEF Closed
  <1>4. c \notin Done /\ Done' = Done \cup {c}
    BY <1>1, <1>2, <1>3 DEF Done
  <1>5. Asked' = Asked
    BY <1>1 DEF Asked
  <1> QED
    BY <1>4, <1>5 DEF Promise!Finish

\* A network thread sends, closes, or does what the service does not speak of.
LEMMA ThreadStep ==
  ASSUME Calm, Fresh', UNCHANGED worker, NEW t \in Threads, Thread(t)
  PROVE  [Promise!Next]_<<Asked, Done, stream>>
  <1> USE NetServerConstants DEF Calm, TypeOK, NetTypeOK
  <1>1. CASE \/ StartServer(t) \/ EpollWait(t) \/ HandleListen(t) \/ AcceptLock(t)
             \/ SetNonblocking(t) \/ AddSocket(t) \/ AcceptBreak(t) \/ Rearm(t)
             \/ GetMsgTest(t) \/ GetMsgCopy(t) \/ SendDone(t)
             \/ \E fd \in Fds : WriteHandle(t, fd)
    <2>1. UNCHANGED <<peer, cut, backlog, sock, stream>>
      BY <1>1
      DEF StartServer, EpollWait, HandleListen, AcceptLock, SetNonblocking, AddSocket,
          AcceptBreak, Rearm, GetMsgTest, GetMsgCopy, SendDone, WriteHandle,
          OS!WatchListen, OS!Harvest, OS!EpollAdd, OS!EpollCtl, kernel, local, writing
    <2> QED
      BY <2>1, Silent
  <1>2. CASE AcceptOne(t)
    <2>1. PICK c \in backlog, fd \in Fds : OS!Accept(c, fd)
      BY <1>2 DEF AcceptOne
    <2>2. /\ sock[fd] = NoConn /\ sock'[fd] = c /\ c \in Conns
          /\ \A gd \in Fds : gd # fd => sock'[gd] = sock[gd]
          /\ backlog' = backlog \ {c}
          /\ UNCHANGED <<peer, cut, stream>>
      BY <1>2, <2>1 DEF AcceptOne, writing, OS!Accept, OS!Open, OS!TypeOK
    <2>3. \A d \in Conns : d # c => (Closed(d)' <=> Closed(d))
      BY <2>2 DEF Closed
    <2>4. ~Closed(c)'
      BY <2>2 DEF Closed
    <2> QED
      BY <2>1, <2>2, <2>3, <2>4 DEF Asked, Done
  <1>3. ASSUME NEW fd \in Fds, ReadRequest(t, fd)
        PROVE  UNCHANGED <<Asked, Done, stream>>
    <2> DEFINE c == sock[fd]
    <2>1. c \in Conns
      BY <1>3, ReadableOpen DEF ReadRequest, Take
    <2>2. /\ \/ peer[c] = "sent" /\ peer'[c] = "taken" /\ cut' = cut
             \/ peer[c] = "part" /\ peer'[c] = "open" /\ cut' = cut \cup {c}
          /\ \A d \in Conns : d # c => peer'[d] = peer[d]
          /\ UNCHANGED <<backlog, sock, stream>>
      BY <1>3, <2>1 DEF ReadRequest, OS!Receive, writing, OS!TypeOK
    <2> QED
      BY <2>1, <2>2 DEF Asked, Done, Closed
  <1>4. CASE SendSome(t)
    <2>1. room' = room
      BY <1>4 DEF SendSome, kernel
    <2>2. PICK c \in Conns, n \in 1 .. RespLen :
            /\ ~Closed(c) /\ (peer[c] = "taken" \/ c \in cut)
            /\ n > Len(stream[c])
            /\ stream' = [stream EXCEPT ![c] = SubSeq(Response(c), 1, n)]
      BY <1>4, <2>1, SendKeepsMessages DEF Fresh
    <2>3. c \in Asked \ Done
      BY <2>2 DEF Asked, Done
    <2>4. Len(Response(c)) = RespLen
      BY WholeResponse
    <2>5. n \in Len(stream[c]) + 1 .. Len(Response(c))
      BY <2>2, <2>4, LenProperties DEF LocalTypeOK
    <2>6. UNCHANGED <<Asked, Done>>
      BY <1>4 DEF SendSome, kernel, Asked, Done, Closed
    <2>7. Promise!Send(c)
      BY <2>2, <2>3, <2>5, <2>6 DEF Promise!Send
    <2> QED
      BY <2>7 DEF Promise!Next
  <1>5. CASE CloseSocket(t)
    <2>1. PICK fd \in Fds : OS!Close(fd) /\ sock[fd] \in Conns /\ Sent(sock[fd], RespLen)
      BY <1>5, CloseFinds
    <2>2. PICK c \in Conns : c = sock[fd]
      BY <2>1
    <2>3. UNCHANGED stream /\ room' = room
      BY <1>5, <2>1 DEF CloseSocket, OS!Close
    <2>4. stream[c] = Response(c)
      <3>1. stream[c] \in Seq(Conns \X (1 .. RespLen)) /\ RespLen \in 0 .. RespLen
        BY DEF LocalTypeOK
      <3>2. Len(stream[c]) = RespLen
        BY <2>1, <2>2, <2>3 DEF Sent, Fresh
      <3>3. \A i \in 1 .. RespLen : stream[c][RespLen - RespLen + i] = Response(c)[i]
        BY <2>1, <2>2, <3>2 DEF Sent
      <3>4. \A i \in 1 .. RespLen : RespLen - RespLen + i = i
        OBVIOUS
      <3>5. \A i \in 1 .. RespLen : stream[c][i] = Response(c)[i]
        BY <3>3, <3>4
      <3> QED
        BY <3>1, <3>2, <3>5, Beginning, WholeResponse
    <2> QED
      BY <2>1, <2>2, <2>3, <2>4, CloseStep DEF Promise!Next
  <1>6. ASSUME NEW fd \in Fds, ReadFails(t, fd)
        PROVE  Promise!Next
    <2>1. /\ OS!Close(fd) /\ sock[fd] \in Conns /\ peer[sock[fd]] = "fin"
          /\ sock[fd] \notin cut
      BY <1>6, ReadFailsFinds
    <2>2. sock[fd] \notin Asked
      BY <2>1 DEF Asked
    <2>3. stream' = stream
      BY <1>6 DEF ReadFails, writing
    <2> QED
      BY <2>1, <2>2, <2>3, CloseStep DEF Promise!Next
  <1>7. ~SendAgain(t)
    BY FullSeen DEF SendAgain, LocalTypeOK
  <1> QED
    BY <1>1, <1>2, <1>3, <1>4, <1>5, <1>6, <1>7, NoTrouble DEF Thread

\* Every step until some peer resets or stalls is one that Service allows.
LEMMA NextPromise ==
  TypeOK /\ CalmInv /\ ServiceInv /\ Steady /\ Steady' /\ [Next]_vars
    => [Promise!Next]_<<Asked, Done, stream>>
  <1> SUFFICES ASSUME Calm, Fresh', [Next]_vars
               PROVE  [Promise!Next]_<<Asked, Done, stream>>
    BY DEF Calm, Steady
  <1>1. CASE UNCHANGED <<kernel, local>>
    BY <1>1, Silent DEF kernel, local, writing
  <1> QED
    BY <1>1, PeersStep, ThreadStep
    DEF Next, NetThread, HttpThread, HttpServer, RecvRequestData, InsertErase,
        InsertMsg, Wakeup, vars

\* In the beginning nobody has asked.
LEMMA InitPromise == Init => Promise!Init
  BY DEF Init, NetInit, OS!Init, Promise!Init, Asked, Done

\* Until some peer resets or stalls, the program does what Service says: every peer
\* that asks is sent its own response in order, and closed only when it has it all.
THEOREM ServesUntilDisturbed ==
  Spec => /\ Promise!Init
          /\ [][Steady' => [Promise!Next]_<<Asked, Done, stream>>]_vars
  <1>1. Steady => reset = {}
    BY DEF Steady
  <1> QED
    BY <1>1, InitPromise, NextPromise, SteadyBefore, TypeCorrect, CalmInvariance,
       ServiceInvariance, PTL DEF Spec

\* When no peer ever resets or stalls, the program implements Service.
THEOREM ImplementsService ==
  ASSUME Resets = {}, Slow = {}
  PROVE  Spec => IsService
  <1>1. Init => Steady
    BY DEF Init, NetInit, OS!Init, Steady, Fresh
  <1>2. TypeOK /\ TypeOK' /\ Steady /\ [Next]_vars => Steady'
    <2> SUFFICES ASSUME TypeOK, TypeOK', Steady, [Next]_vars PROVE Steady'
      OBVIOUS
    <2>1. [OS!Next]_kernel
      BY UsesSockets
    <2>2. room' = room
      BY <2>1
      DEF kernel, OS!Next, OS!Peer, OS!Connect, OS!RequestPart, OS!Request, OS!Fin,
          OS!Reset, OS!Drain, OS!WatchListen, OS!Harvest, OS!EpollCtl, OS!EpollAdd,
          OS!Accept, OS!Receive, OS!FillUp, OS!Close, Steady, Fresh
    <2>3. reset' = {}
      BY DEF TypeOK, NetTypeOK, OS!TypeOK
    <2> QED
      BY <2>2, <2>3 DEF Steady, Fresh
  <1>3. UNCHANGED vars => UNCHANGED <<Asked, Done, stream>>
    BY Silent DEF vars, kernel, local, writing
  <1> QED
    BY <1>1, <1>2, <1>3, TypeCorrect, ServesUntilDisturbed, PTL
    DEF Spec, IsService, Promise!Spec, Promise!vars
==============================================================================
