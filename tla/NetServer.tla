------------------------------ MODULE NetServer ------------------------------
(***************************************************************************)
(* The network threads of NetServer.cpp.  All of them run StartServer on   *)
(* one NetServer object: each has its own epoll instance and its own local *)
(* variables, they share the listening socket, _mutex, the queue of        *)
(* received requests and the map of responses.                             *)
(*                                                                         *)
(* A system call, or a critical section of one of the shared containers,   *)
(* is one step; only recv and what ReadHandle does with its result (the    *)
(* PostMsg, or the close), and a send that fails and the DeleteMsg after   *)
(* it, are one step together, which README.md justifies.  The queue is     *)
(* used as the channel that MsgQueue is shown to implement; the map is     *)
(* MsgMap itself, because its wake-ups and its iterators matter to the     *)
(* threads.                                                                *)
(***************************************************************************)
EXTENDS Naturals, Sequences, FiniteSets

CONSTANTS
  Conns, Fds, Threads, Listen, NoConn, Resets, Slow, Split,
  RespLen,   \* length of a response, in units
  MaxSize,   \* MAXSIZE: at most so many units go into one send
  MaxEvents  \* the length of events[]

ASSUME NetServerConstants ==
  /\ Listen \notin Fds
  /\ NoConn \notin Conns \cup Fds
  /\ Resets \subseteq Conns /\ Slow \subseteq Conns /\ Split \subseteq Conns
  /\ RespLen \in Nat \ {0} /\ MaxSize \in Nat \ {0}
  /\ MaxEvents \in Nat \ {0}

VARIABLES
  peer, cut, reset, room, backlog, sock, interest, ready,    \* Sockets
  map, waiters, index, it,                                    \* MsgMap
  queue,         \* TCPDataRecv: messages <<fd, request>>, oldest first
  pc,            \* what each thread does next
  accepted,      \* clientSocket of Accept; NoConn outside a round of its loop
  clientSocket,  \* clientSocket of StartServer; NoConn while uninitialized
  events,        \* the events the loop over nfds has still to handle
  msg,           \* WriteHandle: whose request msg answers, or NoConn
  sent,          \* WriteHandle: how many units of msg have been sent
  stream         \* what each peer has been sent, unit by unit

\* A request is identified with the connection it came from, and a response
\* with the request it answers.  NoConn stands for the empty message that
\* ReadHandle posts when recv finds nothing.
Requests == Conns \cup {NoConn}

OS == INSTANCE Sockets
TCPDataSend == INSTANCE MsgMap WITH
                 Readers <- Threads, Keys <- Fds, Values <- Conns, None <- NoConn

kernel  == <<peer, cut, reset, room, backlog, sock, interest, ready>>
mapVars == <<map, waiters, index, it>>
writing == <<msg, sent, stream>>
local   == <<pc, accepted, clientSocket, events, writing>>

Response(c) == [i \in 1 .. RespLen |-> <<c, i>>]

NetInit ==
  /\ OS!Init
  /\ TCPDataSend!Init
  /\ queue = <<>>
  /\ pc = [t \in Threads |-> "start"]
  /\ accepted = [t \in Threads |-> NoConn]
  /\ clientSocket = [t \in Threads |-> NoConn]
  /\ events = [t \in Threads |-> {}]
  /\ msg = [t \in Threads |-> NoConn]
  /\ sent = [t \in Threads |-> 0]
  /\ stream = [c \in Conns |-> <<>>]

Goto(t, l) == pc' = [pc EXCEPT ![t] = l]

\* Thread t takes event e out of its loop; fd becomes its clientSocket.
Take(t, e) == e \in events[t] /\ events' = [events EXCEPT ![t] = @ \ {e}]
SetSocket(t, fd) == clientSocket' = [clientSocket EXCEPT ![t] = fd]
------------------------------------------------------------------------------
\* epoll_create, and EPOLL_CTL_ADD of _serverSocket.
StartServer(t) ==
  /\ pc[t] = "start"
  /\ OS!WatchListen(t)
  /\ Goto(t, "epoll")
  /\ UNCHANGED <<mapVars, queue, accepted, clientSocket, events, writing>>

\* What epoll_wait reports of some entries of the ready list.
Reported(t, entries) ==
  {e \in entries \X {"in", "out", "err"} : e[2] = OS!Event(t, e[1])}

\* epoll_wait, which leaves on the ready list what events[] has no room for; a
\* timeout after 50 ms without events goes round the loop.
EpollWait(t) ==
  /\ pc[t] = "epoll" /\ events[t] = {}
  /\ ready[t] # {}
  /\ \E entries \in SUBSET ready[t] :
       /\ Cardinality(Reported(t, entries)) <= MaxEvents
       /\ entries = ready[t] \/ Cardinality(Reported(t, entries)) = MaxEvents
       /\ events' = [events EXCEPT ![t] = Reported(t, entries)]
       /\ OS!Harvest(t, entries)
  /\ UNCHANGED <<mapVars, queue, pc, accepted, clientSocket, writing>>

\* An event of _serverSocket: Accept, which waits for _mutex.
HandleListen(t) ==
  /\ pc[t] = "epoll"
  /\ Take(t, <<Listen, "in">>)
  /\ Goto(t, "accept")
  /\ UNCHANGED <<kernel, mapVars, queue, accepted, clientSocket, writing>>

\* _mutex is held by a thread in the loop of Accept.
Locked == \E t \in Threads : pc[t] \in {"accepting", "nonblock", "add"}

AcceptLock(t) ==
  /\ pc[t] = "accept"
  /\ ~Locked
  /\ Goto(t, "accepting")
  /\ UNCHANGED <<kernel, mapVars, queue, accepted, clientSocket, events, writing>>

\* A round of the loop in Accept: accept, ...
AcceptOne(t) ==
  /\ pc[t] = "accepting"
  /\ \E c \in backlog, fd \in Fds :
       /\ OS!Accept(c, fd)
       /\ accepted' = [accepted EXCEPT ![t] = fd]
  /\ Goto(t, "nonblock")
  /\ UNCHANGED <<mapVars, queue, clientSocket, events, writing>>

\* ... setnonblocking, which ends the process if the descriptor is not open
\* any more, ...
SetNonblocking(t) ==
  /\ pc[t] = "nonblock"
  /\ Goto(t, IF OS!Open(accepted[t]) THEN "add" ELSE "exit")
  /\ UNCHANGED <<kernel, mapVars, queue, accepted, clientSocket, events, writing>>

\* Faulty variant: one accept per event, as before 2017.12.01.
AddSocketAndReturn(t) ==
  /\ pc[t] = "add"
  /\ OS!EpollAdd(t, accepted[t])
  /\ accepted' = [accepted EXCEPT ![t] = NoConn]
  /\ Goto(t, "epoll")
  /\ UNCHANGED <<mapVars, queue, clientSocket, events, writing>>

\* ... and EPOLL_CTL_ADD to the thread's own epoll instance.
AddSocket(t) ==
  /\ pc[t] = "add"
  /\ OS!EpollAdd(t, accepted[t])
  /\ accepted' = [accepted EXCEPT ![t] = NoConn]
  /\ Goto(t, "accepting")
  /\ UNCHANGED <<mapVars, queue, clientSocket, events, writing>>

\* Any error of accept ends the loop.
AcceptBreak(t) ==
  /\ pc[t] = "accepting"
  /\ OS!AcceptFails
  /\ Goto(t, "epoll")
  /\ UNCHANGED <<kernel, mapVars, queue, accepted, clientSocket, events, writing>>
------------------------------------------------------------------------------
\* Faulty variant: clientSocket is not set to events[i].data.fd.
ReadRequestNoSocket(t, fd) ==
  /\ pc[t] = "epoll"
  /\ Take(t, <<fd, "in">>)
  /\ OS!Receive(fd)
  /\ queue' = Append(queue, <<fd, sock[fd]>>)
  /\ Goto(t, "mod")
  /\ UNCHANGED <<mapVars, accepted, clientSocket, writing>>

\* EPOLLIN, ReadHandle: recv, and PostMsg of what it returned.
ReadRequest(t, fd) ==
  /\ pc[t] = "epoll"
  /\ Take(t, <<fd, "in">>)
  /\ OS!Receive(fd)
  /\ queue' = Append(queue, <<fd, sock[fd]>>)
  /\ SetSocket(t, fd)
  /\ Goto(t, "mod")
  /\ UNCHANGED <<mapVars, accepted, writing>>

\* EAGAIN counts as received: the message is posted empty.
ReadNothing(t, fd) ==
  /\ pc[t] = "epoll"
  /\ Take(t, <<fd, "in">>)
  /\ ~OS!RecvFails(fd) /\ peer[sock[fd]] \notin {"part", "sent"}
  /\ queue' = Append(queue, <<fd, NoConn>>)
  /\ SetSocket(t, fd)
  /\ Goto(t, "mod")
  /\ UNCHANGED <<kernel, mapVars, accepted, writing>>

\* Faulty variants: the end of file counts as received, ...
ReadFailsPosts(t, fd) ==
  /\ pc[t] = "epoll"
  /\ Take(t, <<fd, "in">>)
  /\ OS!RecvFails(fd)
  /\ queue' = Append(queue, <<fd, NoConn>>)
  /\ SetSocket(t, fd)
  /\ Goto(t, "mod")
  /\ UNCHANGED <<kernel, mapVars, accepted, writing>>

\* ... or does not close the descriptor.
ReadFailsStaysOpen(t, fd) ==
  /\ pc[t] = "epoll"
  /\ Take(t, <<fd, "in">>)
  /\ OS!RecvFails(fd)
  /\ SetSocket(t, fd)
  /\ Goto(t, "del")
  /\ UNCHANGED <<kernel, mapVars, queue, accepted, writing>>

\* End of file, ECONNRESET or EBADF: ReadHandle closes and returns false.
ReadFails(t, fd) ==
  /\ pc[t] = "epoll"
  /\ Take(t, <<fd, "in">>)
  /\ OS!RecvFails(fd)
  /\ OS!Close(fd)
  /\ SetSocket(t, fd)
  /\ Goto(t, "del")
  /\ UNCHANGED <<mapVars, queue, accepted, writing>>

\* Faulty variants: the receive is not followed by a switch to EPOLLOUT, ...
RearmForRead(t) ==
  /\ pc[t] \in {"mod", "del"}
  /\ OS!EpollCtl(t, clientSocket[t], IF pc[t] = "mod" THEN "in" ELSE "none")
  /\ Goto(t, "epoll")
  /\ UNCHANGED <<mapVars, queue, accepted, clientSocket, events, writing>>

\* ... and faulty variant: the descriptor ReadHandle closed is closed again.
RearmClosesAgain(t) ==
  /\ pc[t] \in {"mod", "del"}
  /\ IF pc[t] = "mod"
       THEN OS!EpollCtl(t, clientSocket[t], "out")
       ELSE OS!Close(clientSocket[t])
  /\ Goto(t, "epoll")
  /\ UNCHANGED <<mapVars, queue, accepted, clientSocket, events, writing>>

\* EPOLL_CTL_MOD to EPOLLOUT after a receive, EPOLL_CTL_DEL after a close.
Rearm(t) ==
  /\ pc[t] \in {"mod", "del"}
  /\ OS!EpollCtl(t, clientSocket[t], IF pc[t] = "mod" THEN "out" ELSE "none")
  /\ Goto(t, "epoll")
  /\ UNCHANGED <<mapVars, queue, accepted, clientSocket, events, writing>>

\* Any other event closes clientSocket, which is the descriptor of the event
\* the thread handled before, not of this one; indeterminate before the first,
\* and then taken to be no descriptor at all or one of an accepted socket.
HandleUnknown(t, fd) ==
  /\ pc[t] = "epoll"
  /\ Take(t, <<fd, "err">>)
  /\ IF clientSocket[t] # NoConn
       THEN OS!Close(clientSocket[t])
       ELSE UNCHANGED kernel \/ \E gd \in Fds : OS!Close(gd)
  /\ UNCHANGED <<mapVars, queue, pc, accepted, clientSocket, writing>>
------------------------------------------------------------------------------
\* EPOLLOUT, WriteHandle: GetMsg, which blocks until a response is there.
WriteHandle(t, fd) ==
  /\ pc[t] = "epoll"
  /\ Take(t, <<fd, "out">>)
  /\ SetSocket(t, fd)
  /\ TCPDataSend!MsgGetCall(t, fd)
  /\ Goto(t, "get")
  /\ UNCHANGED <<kernel, queue, accepted, writing>>

GetMsgTest(t) ==
  /\ pc[t] = "get"
  /\ TCPDataSend!MsgGetTest(t)
  /\ UNCHANGED <<kernel, queue, local>>

GetMsgCopy(t) ==
  /\ pc[t] = "get"
  /\ \E c \in Conns :
       /\ TCPDataSend!MsgGetCopy(t, c)
       /\ msg' = [msg EXCEPT ![t] = c]
  /\ sent' = [sent EXCEPT ![t] = 0]
  /\ Goto(t, "send")
  /\ UNCHANGED <<kernel, queue, accepted, clientSocket, events, stream>>

\* Faulty variant: one send is supposed to take everything.
SendOnce(t) ==
  LET fd == clientSocket[t] IN
  /\ pc[t] = "send"
  /\ ~OS!SendFails(fd) /\ room[sock[fd]] # "full"
  /\ \E n \in 1 .. MaxSize :
       /\ sent[t] + n <= RespLen
       /\ sent' = [sent EXCEPT ![t] = @ + n]
       /\ stream' = [stream EXCEPT ![sock[fd]] =
                      @ \o SubSeq(Response(msg[t]), sent[t] + 1, sent[t] + n)]
  /\ Goto(t, "done")
  /\ UNCHANGED <<kernel, mapVars, queue, accepted, clientSocket, events, msg>>

\* send takes n of the at most MaxSize units in the buffer; they are erased
\* from msg, and the buffer is filled again.
SendSome(t) ==
  LET fd == clientSocket[t] IN
  /\ pc[t] = "send"
  /\ ~OS!SendFails(fd) /\ room[sock[fd]] # "full"
  /\ \E n \in 1 .. MaxSize :
       /\ sent[t] + n <= RespLen
       /\ sent' = [sent EXCEPT ![t] = @ + n]
       /\ stream' = [stream EXCEPT ![sock[fd]] =
                      @ \o SubSeq(Response(msg[t]), sent[t] + 1, sent[t] + n)]
       /\ Goto(t, IF sent[t] + n = RespLen THEN "done" ELSE "send")
  /\ UNCHANGED <<kernel, mapVars, queue, accepted, clientSocket, events, msg>>

\* Faulty variant: EAGAIN is handled like the other errors of send, DeleteMsg.
SendAgainDeletes(t) ==
  /\ pc[t] = "send"
  /\ OS!FillUp(clientSocket[t])
  /\ TCPDataSend!Erase(clientSocket[t])
  /\ msg' = [msg EXCEPT ![t] = NoConn]
  /\ sent' = [sent EXCEPT ![t] = 0]
  /\ Goto(t, "epoll")
  /\ UNCHANGED <<queue, accepted, clientSocket, events, stream>>

\* EAGAIN: WriteHandle returns; the response stays in the map, how much of it
\* has been sent is forgotten with the local variables.
SendAgain(t) ==
  /\ pc[t] = "send"
  /\ OS!FillUp(clientSocket[t])
  /\ sent[t] = 0 => room[sock[clientSocket[t]]] = "full"
  /\ msg' = [msg EXCEPT ![t] = NoConn]
  /\ sent' = [sent EXCEPT ![t] = 0]
  /\ Goto(t, "epoll")
  /\ UNCHANGED <<mapVars, queue, accepted, clientSocket, events, stream>>

\* Any other error of send: DeleteMsg, and close.
SendError(t) ==
  /\ pc[t] = "send"
  /\ OS!SendFails(clientSocket[t])
  /\ TCPDataSend!Erase(clientSocket[t])
  /\ Goto(t, "close")
  /\ UNCHANGED <<kernel, queue, accepted, clientSocket, events, writing>>

\* Faulty variant: the message is left in the map.
SendDoneKeepsMsg(t) ==
  /\ pc[t] = "done"
  /\ ~Locked
  /\ Goto(t, "close")
  /\ UNCHANGED <<kernel, mapVars, queue, accepted, clientSocket, events, writing>>

\* All is sent: DeleteMsg under _mutex, and close.
SendDone(t) ==
  /\ pc[t] = "done"
  /\ ~Locked
  /\ TCPDataSend!Erase(clientSocket[t])
  /\ Goto(t, "close")
  /\ UNCHANGED <<kernel, queue, accepted, clientSocket, events, writing>>

\* Faulty variant: no close() after the response.
CloseForgotten(t) ==
  /\ pc[t] = "close"
  /\ msg' = [msg EXCEPT ![t] = NoConn]
  /\ sent' = [sent EXCEPT ![t] = 0]
  /\ Goto(t, "epoll")
  /\ UNCHANGED <<kernel, mapVars, queue, accepted, clientSocket, events, stream>>

\* close() at the end of WriteHandle.
CloseSocket(t) ==
  /\ pc[t] = "close"
  /\ OS!Close(clientSocket[t])
  /\ msg' = [msg EXCEPT ![t] = NoConn]
  /\ sent' = [sent EXCEPT ![t] = 0]
  /\ Goto(t, "epoll")
  /\ UNCHANGED <<mapVars, queue, accepted, clientSocket, events, stream>>
------------------------------------------------------------------------------
\* One step of the loop of StartServer and of the functions it calls.
Thread(t) ==
  \/ StartServer(t) \/ EpollWait(t) \/ HandleListen(t)
  \/ AcceptLock(t) \/ AcceptOne(t) \/ SetNonblocking(t) \/ AddSocket(t)
  \/ AcceptBreak(t)
  \/ Rearm(t)
  \/ GetMsgTest(t) \/ GetMsgCopy(t)
  \/ SendSome(t) \/ SendAgain(t) \/ SendError(t) \/ SendDone(t)
  \/ CloseSocket(t)
  \/ \E fd \in Fds :
       \/ ReadRequest(t, fd) \/ ReadNothing(t, fd) \/ ReadFails(t, fd)
       \/ HandleUnknown(t, fd)
       \/ WriteHandle(t, fd)

\* A sleeping thread may wake without having been notified.
Wakeup(t) ==
  /\ TCPDataSend!SpuriousWakeup(t)
  /\ UNCHANGED <<kernel, queue, local>>

\* What the peers do leaves the program's own state alone.
Peers ==
  /\ \E c \in Conns : OS!Peer(c)
  /\ UNCHANGED <<mapVars, queue, local>>

\* Every local variable holds a value of its kind; a thread is inside MsgGet
\* of its descriptor exactly while it is at "get", and the number of units
\* sent fits where it is.
LocalTypeOK ==
  /\ queue \in Seq(Fds \X Requests)
  /\ pc \in [Threads -> {"start", "epoll", "accept", "accepting", "nonblock",
                         "add", "exit", "mod", "del", "get", "send", "done",
                         "close"}]
  /\ accepted \in [Threads -> Fds \cup {NoConn}]
  /\ clientSocket \in [Threads -> Fds \cup {NoConn}]
  /\ events \in [Threads -> SUBSET ((Fds \cup {Listen}) \X {"in", "out", "err"})]
  /\ msg \in [Threads -> Requests]
  /\ sent \in [Threads -> 0 .. RespLen]
  /\ stream \in [Conns -> Seq(Conns \X (1 .. RespLen))]
  /\ \A t \in Threads :
       /\ index[t] = IF pc[t] = "get" THEN clientSocket[t] ELSE NoConn
       /\ pc[t] \in {"nonblock", "add"} => accepted[t] # NoConn
       /\ pc[t] \in {"send", "done"} => msg[t] # NoConn
       /\ pc[t] \in {"mod", "del", "get", "send", "done", "close"} =>
            clientSocket[t] # NoConn
       /\ pc[t] = "send" => sent[t] < RespLen
       /\ sent[t] # 0 => pc[t] \in {"send", "done", "close"}

NetTypeOK == OS!TypeOK /\ TCPDataSend!TypeOK /\ LocalTypeOK
==============================================================================
