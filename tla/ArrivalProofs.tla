--------------------------- MODULE ArrivalProofs ---------------------------
(***************************************************************************)
(* What arrives at the HTTP thread until a peer resets its connection: an  *)
(* event for reading is never stale, so ReadHandle never posts an empty    *)
(* message; and Accept never meets a descriptor that has been closed.  So  *)
(* only a request that HttpParser does not survive can end the process.    *)
(***************************************************************************)
EXTENDS ForumNetProofs

\* Events for reading keep what is behind them in a step that reports no new
\* ones, moves no descriptor with such an event, and takes nothing a peer sent.
LEMMA ReadableFrame ==
  ASSUME TypeOK, CalmInv, ArrivalInv,
         \A t \in Threads : events'[t] \subseteq events[t],
         \A t \in Threads, fd \in Fds :
           <<fd, "in">> \in events'[t] =>
             /\ sock'[fd] = sock[fd]
             /\ peer'[sock[fd]] = peer[sock[fd]] \/ peer'[sock[fd]] \in {"part", "sent", "fin"}
  PROVE  ReadableEvents'
  BY DEF ArrivalInv, ReadableEvents

\* Who has an event for reading on an open descriptor has it alone.
LEMMA ReadersAlone ==
  ASSUME TypeOK, CalmInv, NEW t \in Threads, NEW fd \in Fds,
         interest[t][fd] # "none", NEW u \in Threads, <<fd, "in">> \in events[u]
  PROVE  u = t
  BY DEF CalmInv, LoopInv, EventsCurrent, OneOwner

\* A descriptor with an event for reading is open, and nobody has reset it.
LEMMA ReadableOpen ==
  ASSUME TypeOK, CalmInv, NEW t \in Threads, NEW fd \in Fds, <<fd, "in">> \in events[t]
  PROVE  interest[t][fd] = "in" /\ OS!Open(fd) /\ sock[fd] \in Conns
  <1>1. interest[t][fd] = "in"
    BY DEF CalmInv, LoopInv, EventsCurrent
  <1> QED
    BY <1>1 DEF TypeOK, NetTypeOK, OS!TypeOK, OS!Open

\* recv is only called where there is something to receive, or the end.
LEMMA ReadFindsSomething ==
  ASSUME TypeOK, CalmInv, ArrivalInv, NEW t \in Threads, NEW fd \in Fds
  PROVE  ~ReadNothing(t, fd)
  <1> SUFFICES ASSUME ReadNothing(t, fd) PROVE FALSE
    OBVIOUS
  <1>1. <<fd, "in">> \in events[t]
    BY DEF ReadNothing, Take
  <1>2. peer[sock[fd]] \in {"part", "sent", "fin"}
    BY <1>1 DEF ArrivalInv, ReadableEvents
  <1> QED
    BY <1>2 DEF ReadNothing, OS!RecvFails

\* What epoll_wait reports for reading can be read.
LEMMA EpollWaitReadable ==
  ASSUME TypeOK, CalmInv, ArrivalInv, reset = {}, NEW t \in Threads, EpollWait(t)
  PROVE  ReadableEvents'
  <1>1. /\ UNCHANGED <<peer, sock>>
        /\ \A u \in Threads : u # t => events'[u] = events[u]
        /\ \A e \in events'[t] :
             e \in ready[t] \X {"in", "out", "err"} /\ e[2] = OS!Event(t, e[1])
    BY DEF EpollWait, Reported, OS!Harvest, TypeOK, NetTypeOK, LocalTypeOK
  <1>2. ASSUME NEW fd \in Fds, <<fd, "in">> \in events'[t]
        PROVE  peer[sock[fd]] \in {"part", "sent", "fin"}
    <2>1. "in" = OS!Event(t, fd)
      BY <1>1, <1>2
    <2>2. "in" = OS!Polled(sock[fd], interest[t][fd])
      BY <2>1, NetServerConstants DEF OS!Event
    <2>3. interest[t][fd] \in {"none", "in", "out"}
      BY DEF TypeOK, NetTypeOK, OS!TypeOK
    <2> QED
      BY <2>2, <2>3 DEF OS!Polled
  <1> QED
    BY <1>1, <1>2 DEF ArrivalInv, ReadableEvents

\* accept gives out a descriptor for which there is no event.
LEMMA AcceptReadable ==
  ASSUME TypeOK, CalmInv, ArrivalInv, NEW t \in Threads, AcceptOne(t)
  PROVE  ReadableEvents'
  <1>1. PICK c \in backlog, fd \in Fds : OS!Accept(c, fd)
    BY DEF AcceptOne
  <1>2. /\ sock[fd] = NoConn /\ peer' = peer /\ events' = events
        /\ sock' = [sock EXCEPT ![fd] = c]
    BY <1>1 DEF AcceptOne, OS!Accept, OS!Open
  <1>3. ASSUME NEW u \in Threads, NEW gd \in Fds, <<gd, "in">> \in events[u]
        PROVE  sock'[gd] = sock[gd]
    <2>1. gd # fd
      BY <1>2, <1>3, ReadableOpen DEF OS!Open
    <2> QED
      BY <1>2, <2>1 DEF TypeOK, NetTypeOK, OS!TypeOK
  <1> QED
    BY <1>2, <1>3, ReadableFrame

\* close by the thread that has the descriptor registered.
LEMMA CloseReadable ==
  ASSUME TypeOK, CalmInv, ArrivalInv, NEW t \in Threads, NEW fd \in Fds,
         OS!Close(fd), interest[t][fd] # "none",
         \A u \in Threads : events'[u] \subseteq events[u],
         <<fd, "in">> \notin events'[t]
  PROVE  ReadableEvents'
  <1>1. /\ peer' = peer
        /\ \A gd \in Fds : gd # fd => sock'[gd] = sock[gd]
    BY DEF OS!Close, TypeOK, NetTypeOK, OS!TypeOK
  <1>2. \A u \in Threads : <<fd, "in">> \notin events'[u]
    BY ReadersAlone
  <1> QED
    BY <1>1, <1>2, ReadableFrame

\* recv takes what the one event was about.
LEMMA ReadRequestReadable ==
  ASSUME TypeOK, CalmInv, ArrivalInv, NEW t \in Threads, NEW fd \in Fds,
         ReadRequest(t, fd)
  PROVE  ReadableEvents'
  <1>1. /\ <<fd, "in">> \in events[t]
        /\ sock' = sock
        /\ \E l \in {"taken", "open"} : peer' = [peer EXCEPT ![sock[fd]] = l]
    BY DEF ReadRequest, Take, OS!Receive
  <1>2. /\ events'[t] = events[t] \ {<<fd, "in">>}
        /\ \A u \in Threads : u # t => events'[u] = events[u]
    BY DEF ReadRequest, Take, TypeOK, NetTypeOK, LocalTypeOK
  <1>3. interest[t][fd] = "in" /\ OS!Open(fd)
    BY <1>1, ReadableOpen
  <1>4. ASSUME NEW u \in Threads, NEW gd \in Fds, <<gd, "in">> \in events'[u]
        PROVE  peer'[sock[gd]] = peer[sock[gd]]
    <2>1. gd # fd /\ <<gd, "in">> \in events[u]
      BY <1>2, <1>3, <1>4, ReadersAlone
    <2>2. sock[gd] # sock[fd] /\ sock[gd] \in Conns
      BY <1>3, <2>1, ReadableOpen DEF TypeOK, NetTypeOK, OS!TypeOK
    <2> QED
      BY <1>1, <2>2 DEF TypeOK, NetTypeOK, OS!TypeOK
  <1> QED
    BY <1>1, <1>2, <1>4, ReadableFrame

\* Peers add to what can be read, or close after it.
LEMMA PeersReadable ==
  ASSUME TypeOK, CalmInv, ArrivalInv, Peers
  PROVE  ReadableEvents'
  <1>1. PICK c \in Conns : OS!Peer(c)
    BY DEF Peers
  <1>2. /\ sock' = sock /\ events' = events
        /\ \/ peer' = peer
           \/ peer[c] = "idle" /\ peer' = [peer EXCEPT ![c] = "open"]
           \/ \E l \in {"part", "sent", "fin"} : peer' = [peer EXCEPT ![c] = l]
    BY <1>1
    DEF Peers, local, OS!Peer, OS!Connect, OS!RequestPart, OS!Request, OS!Fin,
        OS!Reset, OS!Drain
  <1>3. ASSUME NEW u \in Threads, NEW fd \in Fds, <<fd, "in">> \in events[u]
        PROVE  \/ peer'[sock[fd]] = peer[sock[fd]]
               \/ peer'[sock[fd]] \in {"part", "sent", "fin"}
    <2>1. peer[sock[fd]] \in {"part", "sent", "fin"} /\ sock[fd] \in Conns
      BY <1>3, ReadableOpen DEF ArrivalInv, ReadableEvents
    <2> QED
      BY <1>2, <2>1 DEF TypeOK, NetTypeOK, OS!TypeOK
  <1> QED
    BY <1>2, <1>3, ReadableFrame

LEMMA NextReadable ==
  ASSUME TypeOK, CalmInv, ArrivalInv, reset = {}, [Next]_vars
  PROVE  ReadableEvents'
  <1>1. ASSUME NEW t \in Threads,
               \/ StartServer(t) \/ HandleListen(t) \/ AcceptLock(t)
               \/ SetNonblocking(t) \/ AddSocket(t) \/ AcceptBreak(t) \/ Rearm(t)
               \/ GetMsgTest(t) \/ GetMsgCopy(t) \/ SendSome(t) \/ SendAgain(t)
               \/ SendDone(t) \/ \E fd \in Fds : WriteHandle(t, fd)
        PROVE  ReadableEvents'
    <2>1. UNCHANGED <<peer, sock>>
      BY <1>1
      DEF StartServer, HandleListen, AcceptLock, SetNonblocking, AddSocket, AcceptBreak,
          Rearm, GetMsgTest, GetMsgCopy, SendSome, SendAgain, SendDone, WriteHandle,
          OS!WatchListen, OS!EpollAdd, OS!EpollCtl, OS!FillUp, kernel
    <2>2. \A u \in Threads : events'[u] \subseteq events[u]
      BY <1>1
      DEF StartServer, HandleListen, AcceptLock, SetNonblocking, AddSocket, AcceptBreak,
          Rearm, GetMsgTest, GetMsgCopy, SendSome, SendAgain, SendDone, WriteHandle,
          Take, local, TypeOK, NetTypeOK, LocalTypeOK
    <2> QED
      BY <2>1, <2>2, ReadableFrame
  <1>2. ASSUME NEW t \in Threads, EpollWait(t) \/ AcceptOne(t)
        PROVE  ReadableEvents'
    BY <1>2, EpollWaitReadable, AcceptReadable
  <1>3. ASSUME NEW t \in Threads, CloseSocket(t)
        PROVE  ReadableEvents'
    <2>1. /\ pc[t] = "close" /\ OS!Close(clientSocket[t]) /\ events' = events
          /\ clientSocket[t] \in Fds
      BY <1>3 DEF CloseSocket, TypeOK, NetTypeOK, LocalTypeOK
    <2>2. /\ interest[t][clientSocket[t]] = "out"
          /\ <<clientSocket[t], "in">> \notin events[t]
      BY <2>1 DEF CalmInv, LoopInv, InHand
    <2> QED
      BY <2>1, <2>2, CloseReadable
  <1>4. ASSUME NEW t \in Threads, NEW fd \in Fds, ReadFails(t, fd)
        PROVE  ReadableEvents'
    <2>1. /\ <<fd, "in">> \in events[t] /\ OS!Close(fd)
          /\ <<fd, "in">> \notin events'[t]
          /\ \A u \in Threads : events'[u] \subseteq events[u]
      BY <1>4 DEF ReadFails, Take, TypeOK, NetTypeOK, LocalTypeOK
    <2> QED
      BY <2>1, ReadableOpen, CloseReadable
  <1>5. ASSUME NEW t \in Threads, NEW fd \in Fds,
               ReadRequest(t, fd) \/ ReadNothing(t, fd)
        PROVE  ReadableEvents'
    BY <1>5, ReadRequestReadable, ReadFindsSomething
  <1>6. ASSUME NEW t \in Threads, Thread(t)
        PROVE  ReadableEvents'
    BY <1>1, <1>2, <1>3, <1>4, <1>5, <1>6, NoErrors DEF Thread
  <1>7. ASSUME Peers
        PROVE  ReadableEvents'
    BY <1>7, PeersReadable
  <1>8. ASSUME UNCHANGED <<kernel, local>>
        PROVE  ReadableEvents'
    BY <1>8, ReadableFrame DEF kernel, local
  <1> QED
    BY <1>6, <1>7, <1>8
    DEF Next, NetThread, HttpThread, HttpServer, RecvRequestData, InsertErase,
        InsertMsg, Wakeup, vars
------------------------------------------------------------------------------
LEMMA NextReceivedNormally ==
  ASSUME TypeOK, CalmInv, ArrivalInv, reset = {}, [Next]_vars
  PROVE  ReceivedNormally'
  <1> USE DEF TypeOK, NetTypeOK, LocalTypeOK
  <1>1. CASE queue' = queue
    BY <1>1 DEF ArrivalInv, ReceivedNormally
  <1>2. ASSUME NEW t \in Threads, NEW fd \in Fds, ReadRequest(t, fd)
        PROVE  ReceivedNormally'
    <2>1. sock[fd] # NoConn /\ sock[fd] \in Requests
      BY <1>2, ReadableOpen DEF ReadRequest, Take, OS!Open, Requests
    <2>2. /\ queue' = Append(queue, <<fd, sock[fd]>>)
          /\ queue \in Seq(Fds \X Requests) /\ <<fd, sock[fd]>> \in Fds \X Requests
      BY <1>2, <2>1 DEF ReadRequest
    <2>3. \A i \in DOMAIN queue' :
            \/ i \in DOMAIN queue /\ queue'[i] = queue[i]
            \/ queue'[i] = <<fd, sock[fd]>>
      BY <2>2, AppendProperties, LenProperties
    <2> QED
      BY <2>1, <2>3 DEF ArrivalInv, ReceivedNormally
  <1>3. ASSUME RecvRequestData
        PROVE  ReceivedNormally'
    <2>1. queue # <<>> /\ queue' = Tail(queue)
      BY <1>3 DEF RecvRequestData
    <2>2. \A i \in DOMAIN queue' : i + 1 \in DOMAIN queue /\ queue'[i] = queue[i + 1]
      BY <2>1, HeadTailProperties, LenProperties
    <2> QED
      BY <2>2 DEF ArrivalInv, ReceivedNormally
  <1>4. ASSUME NEW t \in Threads, Thread(t)
        PROVE  ReceivedNormally'
    <2>1. \/ queue' = queue
          \/ \E fd \in Fds : ReadRequest(t, fd) \/ ReadNothing(t, fd)
      BY <1>4
      DEF Thread, StartServer, EpollWait, HandleListen, AcceptLock, AcceptOne,
          SetNonblocking, AddSocket, AcceptBreak, Rearm, GetMsgTest, GetMsgCopy,
          SendSome, SendAgain, SendError, SendDone, CloseSocket, ReadFails,
          HandleUnknown, WriteHandle
    <2> QED
      BY <1>1, <1>2, <2>1, ReadFindsSomething
  <1> QED
    BY <1>1, <1>3, <1>4
    DEF Next, NetThread, HttpThread, HttpServer, InsertErase, InsertMsg, Wakeup,
        Peers, vars

\* Accept finds its socket open, and the HTTP thread has a request to parse.
LEMMA NextDeaths ==
  ASSUME TypeOK, CalmInv, ArrivalInv, reset = {}, [Next]_vars
  PROVE  Deaths'
  <1> USE DEF TypeOK, NetTypeOK, LocalTypeOK
  <1>1. worker'.stage = "dead" => worker'.req # NoConn
    <2>1. CASE worker' = worker
      BY <2>1 DEF ArrivalInv, Deaths
    <2>2. CASE RecvRequestData
      <3>1. queue # <<>> /\ 1 \in DOMAIN queue /\ Head(queue) = queue[1]
        BY <2>2, EmptySeq, LenProperties DEF RecvRequestData
      <3>2. Head(queue)[2] # NoConn
        BY <3>1 DEF ArrivalInv, ReceivedNormally
      <3> QED
        BY <2>2, <3>2 DEF RecvRequestData
    <2>3. CASE InsertErase \/ InsertMsg
      BY <2>3 DEF InsertErase, InsertMsg, WorkerTypeOK
    <2> QED
      BY <2>1, <2>2, <2>3 DEF Next, NetThread, HttpThread, HttpServer, vars
  <1>2. \A t \in Threads : pc'[t] # "exit"
    <2>1. ASSUME NEW t \in Threads, SetNonblocking(t)
          PROVE  pc'[t] # "exit"
      BY <2>1 DEF SetNonblocking, Goto, CalmInv, NewSockets
    <2>2. ASSUME NEW t \in Threads, Thread(t)
          PROVE  /\ \A u \in Threads : u # t => pc'[u] = pc[u]
                 /\ SetNonblocking(t) \/ pc'[t] = pc[t] \/ pc'[t] # "exit"
      BY <2>2
      DEF Thread, StartServer, EpollWait, HandleListen, AcceptLock, AcceptOne,
          SetNonblocking, AddSocket, AcceptBreak, Rearm, GetMsgTest, GetMsgCopy,
          SendSome, SendAgain, SendError, SendDone, CloseSocket, ReadRequest,
          ReadNothing, ReadFails, HandleUnknown, WriteHandle, Goto, local
    <2>3. CASE \E t \in Threads : Thread(t)
      BY <2>1, <2>2, <2>3 DEF ArrivalInv, Deaths
    <2>4. CASE UNCHANGED local
      BY <2>4 DEF local, ArrivalInv, Deaths
    <2> QED
      BY <2>3, <2>4
      DEF Next, NetThread, HttpThread, HttpServer, RecvRequestData, InsertErase,
          InsertMsg, Wakeup, Peers, vars
  <1> QED
    BY <1>1, <1>2 DEF Deaths
------------------------------------------------------------------------------
\* The invariant, until somebody resets a connection.
LEMMA ArrivalInvariance == Spec => [](reset = {} => ArrivalInv)
  <1>1. Init => ArrivalInv
    BY DEF Init, NetInit, ArrivalInv, ReceivedNormally, ReadableEvents, Deaths
  <1>2. TypeOK /\ reset = {} /\ CalmInv /\ ArrivalInv /\ [Next]_vars => ArrivalInv'
    BY NextReceivedNormally, NextReadable, NextDeaths DEF ArrivalInv
  <1>3. TypeOK /\ (reset = {})' /\ [Next]_vars => reset = {}
    BY ResetsStay
  <1> QED
    BY <1>1, <1>2, <1>3, TypeCorrect, CalmInvariance, PTL DEF Spec

\* Until a peer resets its connection, ReadHandle posts a message only for data it
\* received: its EAGAIN branch, which posts an empty one, is not taken.
THEOREM OnlyDataPosted == Spec => [](reset = {} => ReceivedNormally)
  <1>1. ArrivalInv => ReceivedNormally
    BY DEF ArrivalInv
  <1> QED
    BY <1>1, ArrivalInvariance, PTL

\* Until a peer resets its connection, only a request that a peer sent ends the
\* process: no exception on an empty message, no exit in setnonblocking.
THEOREM EndedByRequests == Spec => [](reset = {} => EndsByRequest)
  <1>1. ArrivalInv => EndsByRequest
    BY DEF ArrivalInv, Deaths, EndsByRequest, Alive
  <1> QED
    BY <1>1, ArrivalInvariance, PTL
==============================================================================
