------------------------------ MODULE ForumNet ------------------------------
(***************************************************************************)
(* The program main.cpp starts: network threads on one NetServer, and one  *)
(* HTTP thread (HttpServer.cpp) that takes a received message from the     *)
(* queue TCPDataRecv, computes the response and inserts it into the map    *)
(* TCPDataSend under the descriptor the request came from.                 *)
(***************************************************************************)
EXTENDS NetServer

\* The connections whose request may end the process although it arrives in one
\* piece: one without an empty line, with an escape that is none or with a NUL in
\* it, or one that fills the buffer (HttpServer.tla has what is received of it).
CONSTANT Fatal

ASSUME ForumNetConstants == Fatal \subseteq Conns

VARIABLE
  worker     \* the HTTP thread: its stage, and the message it works on

vars == <<kernel, mapVars, queue, local, worker>>

Init ==
  /\ NetInit
  /\ worker = [stage |-> "pop", fd |-> NoConn, req |-> NoConn]

\* RecvRequestData: PopMsg blocks while the queue is empty.  HttpParser throws
\* std::out_of_range on an empty message; nobody catches it, and the process
\* is terminated.  A part of a request, or a fatal one, may do the same, or it is
\* taken for a request and answered: HttpServer.tla shows which.
RecvRequestData ==
  /\ worker.stage = "pop"
  /\ queue # <<>>
  /\ LET req == Head(queue)[2] IN
     \E stage \in {"dead", "erase"} :
       /\ req = NoConn => stage = "dead"
       /\ req \in Conns \ (cut \cup Fatal) => stage = "erase"
       /\ worker' = [stage |-> stage, fd |-> Head(queue)[1], req |-> req]
  /\ queue' = Tail(queue)
  /\ UNCHANGED <<kernel, mapVars, local>>

\* Faulty variant: InsertMsg does not erase what is there under the key.
InsertNoErase ==
  /\ worker.stage = "erase"
  /\ worker' = [worker EXCEPT !.stage = "insert"]
  /\ UNCHANGED <<kernel, mapVars, queue, local>>

\* SendResonseData, MsgMapManager::InsertMsg: first Erase, ...
InsertErase ==
  /\ worker.stage = "erase"
  /\ TCPDataSend!Erase(worker.fd)
  /\ worker' = [worker EXCEPT !.stage = "insert"]
  /\ UNCHANGED <<kernel, queue, local>>

\* ... then, in a critical section of its own, MsgInsert.
InsertMsg ==
  /\ worker.stage = "insert"
  /\ TCPDataSend!MsgInsert(worker.fd, worker.req)
  /\ worker' = [stage |-> "pop", fd |-> NoConn, req |-> NoConn]
  /\ UNCHANGED <<kernel, queue, local>>

\* One round of the loop of StartHttpServer.
HttpServer == RecvRequestData \/ InsertErase \/ InsertMsg

\* Nothing happens in a process that has been terminated, by the exception of
\* HttpParser or by the exit of setnonblocking.
Alive == worker.stage # "dead" /\ \A t \in Threads : pc[t] # "exit"

NetThread(t) == Alive /\ Thread(t) /\ UNCHANGED worker
HttpThread == Alive /\ HttpServer

Next ==
  \/ \E t \in Threads : NetThread(t)
  \/ HttpThread
  \/ Alive /\ UNCHANGED worker /\ (Peers \/ \E t \in Threads : Wakeup(t))

Spec == Init /\ [][Next]_vars

\* The operating system runs every thread that can run.  Peers need not do
\* anything, and a sleeping thread need not wake by itself.
Fairness ==
  /\ \A t \in Threads : WF_vars(NetThread(t))
  /\ WF_vars(HttpThread)

FairSpec == Spec /\ Fairness
------------------------------------------------------------------------------
WorkerTypeOK ==
  /\ worker \in [stage : {"pop", "erase", "insert", "dead"},
                 fd : Fds \cup {NoConn}, req : Requests]
  /\ worker.stage \in {"erase", "insert"} =>
       worker.fd # NoConn /\ worker.req # NoConn
  /\ worker.stage = "pop" => worker.fd = NoConn

\* Every variable holds a value of its kind.
TypeOK == NetTypeOK /\ WorkerTypeOK

\* What a peer is sent is, from its first byte on, the response to the request
\* it made itself, nothing twice and nothing left out.
OwnResponse ==
  \A c \in Conns : \E n \in 0 .. RespLen :
    stream[c] = SubSeq(Response(c), 1, n)

\* No Erase of the HTTP thread (the first half of InsertMsg) frees the element
\* a network thread has found in MsgGet and not copied yet.
NoDangling == \A t \in Threads : it[t] # "dangling"

\* When all network threads sleep in MsgGet, the HTTP thread has something to
\* do whose response may wake them: the server as a whole is not stuck.
NoTotalHang ==
  Threads # {} /\ waiters = Threads => queue # <<>> \/ worker.stage # "pop"

\* A message for descriptor fd is on its way to the map, or there already.
Owed(fd) ==
  \/ map[fd] # NoConn
  \/ worker.fd = fd
  \/ \E i \in DOMAIN queue : queue[i][1] = fd

\* No descriptor is registered with two epoll instances.
OneOwner ==
  \A t, u \in Threads, fd \in Fds :
    interest[t][fd] # "none" /\ interest[u][fd] # "none" => t = u

\* The events a thread has still to handle are those it still asks for:
\* nobody else closed the descriptor, and it was not given away again.
EventsCurrent ==
  \A t \in Threads : \A e \in events[t] :
    e[1] \in Fds => interest[t][e[1]] = e[2]

\* What a thread knows of the descriptor it is working on.
InHand ==
  \A t \in Threads :
    /\ pc[t] = "mod" => interest[t][clientSocket[t]] = "in" /\ Owed(clientSocket[t])
    /\ pc[t] = "del" => interest[t][clientSocket[t]] = "none"
    /\ pc[t] \in {"get", "send", "done", "close"} =>
         interest[t][clientSocket[t]] = "out"
    /\ pc[t] \in {"mod", "get", "send", "done", "close"} =>
         \A e \in events[t] : e[1] # clientSocket[t]

\* Whoever waits to write on a descriptor has a response coming.
ResponsesOwed ==
  \A t \in Threads, fd \in Fds :
    interest[t][fd] = "out" =>
      Owed(fd) \/ (pc[t] = "close" /\ clientSocket[t] = fd)

\* Nobody closes or registers a socket that Accept is still preparing.
NewSockets ==
  \A t \in Threads :
    pc[t] \in {"nonblock", "add"} =>
      /\ OS!Open(accepted[t])
      /\ \A u \in Threads :
           /\ interest[u][accepted[t]] = "none"
           /\ pc[u] \in {"nonblock", "add"} /\ accepted[u] = accepted[t] => u = t

\* The inductive invariant behind NoTotalHang when no peer resets: nothing a
\* thread has learnt from epoll is stale when it acts on it.
LoopInv == OneOwner /\ EventsCurrent /\ InHand /\ ResponsesOwed
CalmInv == LoopInv /\ NewSockets

\* ReadHandle returns true, and posts a message, only for data it received.
ReceivedNormally == \A i \in DOMAIN queue : queue[i][2] # NoConn

\* A thread that has handled an event before, so that its clientSocket has been
\* set, posts only what ReadHandle received.
PostsWhatItReceived ==
  [][\A t \in Threads :
       clientSocket[t] # NoConn /\ Len(queue') > Len(queue) =>
         queue'[Len(queue')][2] # NoConn]_vars

\* Behind an event for reading there is a request, or the peer has closed.
ReadableEvents ==
  \A t \in Threads, fd \in Fds :
    <<fd, "in">> \in events[t] => peer[sock[fd]] \in {"part", "sent", "fin"}

\* What may end the process: a request some peer sent, and nothing else.
Deaths ==
  /\ worker.stage = "dead" => worker.req # NoConn
  /\ \A t \in Threads : pc[t] # "exit"

\* The inductive invariant behind ReceivedNormally and EndsByRequest, with
\* CalmInv, when no peer resets.
ArrivalInv == ReceivedNormally /\ ReadableEvents /\ Deaths

\* Only a request that a peer sent can end the process, one that HttpParser does
\* not survive: no empty message is ever parsed, and no thread finds the
\* descriptor it just accepted closed by another before it is non-blocking.
EndsByRequest == ~Alive => worker.stage = "dead" /\ worker.req # NoConn

\* The abstract service: who has asked, and whom the server is done with.
Asked == {c \in Conns : peer[c] \in {"part", "sent", "taken"}} \cup cut
Closed(c) == \A fd \in Fds : sock[fd] # c
Done == {c \in Conns : peer[c] # "idle" /\ c \notin backlog /\ Closed(c)}

Promise == INSTANCE Service WITH asked <- Asked, done <- Done

\* Every step of the program is one the service allows, or none it speaks of:
\* nobody is sent anything it did not ask for, out of order or twice, and no
\* connection is closed before its response is complete.
IsService == Promise!Spec

\* There is at most one message for a descriptor, in the queue, in work or in
\* the map, and it is about the connection that now has the descriptor.
OneMessage ==
  /\ \A i \in DOMAIN queue :
       /\ queue[i][2] = sock[queue[i][1]]
       /\ worker.fd # queue[i][1] /\ map[queue[i][1]] = NoConn
       /\ \A j \in DOMAIN queue : queue[i][1] = queue[j][1] => i = j
  /\ worker.fd \in Fds => worker.req = sock[worker.fd] /\ map[worker.fd] = NoConn
  /\ \A fd \in Fds : map[fd] \in {NoConn, sock[fd]}

\* A thread has received on fd, and waits to write there or is about to.
Received(fd) ==
  \E t \in Threads :
    interest[t][fd] = "out" \/ (pc[t] = "mod" /\ clientSocket[t] = fd)

\* A message is owed only where one was received and not answered yet; a
\* connection of which a part was received is not read from again.
OwedWhereReceived ==
  \A fd \in Fds :
    /\ Owed(fd) =>
         /\ Received(fd)
         /\ peer[sock[fd]] = "taken" \/ sock[fd] \in cut
         /\ \A t \in Threads : pc[t] = "close" => clientSocket[t] # fd
    /\ sock[fd] \in cut => Received(fd)

Writes(t, fd) == pc[t] \in {"send", "done", "close"} /\ clientSocket[t] = fd

\* The last n units sent to c are the first n of its response; and nothing came
\* before them, if the send buffer of c was never full.
Sent(c, n) ==
  /\ n <= Len(stream[c])
  /\ \A i \in 1 .. n : stream[c][Len(stream[c]) - n + i] = Response(c)[i]
  /\ room[c] = "fresh" => Len(stream[c]) = n

\* All that was sent to c are units of its response.
OnlyOwn(c) == \A i \in DOMAIN stream[c] : stream[c][i][1] = c

\* A thread that writes to a descriptor has the response for its connection, and
\* has sent of it what sent counts.
InWriting ==
  \A t \in Threads, fd \in Fds :
    Writes(t, fd) =>
      /\ msg[t] = sock[fd]
      /\ Sent(sock[fd], sent[t])
      /\ pc[t] \in {"send", "done"} => map[fd] = sock[fd]
      /\ pc[t] \in {"done", "close"} => sent[t] = RespLen

\* Nothing is sent but by a thread that is writing, or was stopped by a full buffer;
\* and whoever is done was sent its response, or closed before it asked.
Streams ==
  /\ \A fd \in Fds :
       OS!Open(fd) /\ stream[sock[fd]] # <<>> =>
         /\ Received(fd)
         /\ room[sock[fd]] = "fresh" => \E t \in Threads : Writes(t, fd)
  /\ \A c \in Conns : OnlyOwn(c)
  /\ \A c \in Done :
       \/ Sent(c, RespLen)
       \/ peer[c] = "fin" /\ c \notin cut /\ stream[c] = <<>>
  /\ \A c \in Conns :
       c \in backlog \/ peer[c] = "idle" => stream[c] = <<>> /\ c \notin cut

\* The inductive invariant behind IsService, with CalmInv, when no peer resets:
\* the message under a descriptor is for its present owner, from the
\* moment it is posted until its response has been sent.
MessageInv == OneMessage /\ OwedWhereReceived /\ InWriting /\ Streams /\ NoDangling
ServiceInv == ArrivalInv /\ MessageInv

\* As long as no peer resets, and whoever stalls: every peer is sent units of its
\* own response only, the whole of it at last if it asked and is done with, and
\* nothing else if its send buffer was never full.
StallsHarmNoOther ==
  reset = {} =>
    /\ \A c \in Conns : OnlyOwn(c)
    /\ \A c \in Asked \cap Done : Sent(c, RespLen)
    /\ \A c \in Conns : room[c] = "fresh" =>
         \E n \in 0 .. RespLen : stream[c] = SubSeq(Response(c), 1, n)

\* After InsertMsg the map holds the response just inserted, whatever was left
\* there under the same descriptor by an earlier connection.
InsertReplaces ==
  [][worker.stage = "insert" /\ worker'.stage = "pop" =>
       map'[worker.fd] = worker.req]_vars

\* Every pending connection is accepted in the end.
EveryoneAccepted == \A c \in Conns : c \in backlog ~> c \notin backlog \/ ~Alive

\* No connection is left pending for good while there is a descriptor to accept
\* it with: Accept leaves its loop when descriptors run out (EMFILE), but whoever
\* frees one again should be followed by another accept.
NotLeftPending ==
  \A c \in Conns :
    []<>(~(c \in backlog /\ \E fd \in Fds : ~OS!Open(fd)) \/ ~Alive)

\* Every request that arrives whole is answered in full, and its descriptor
\* given back, unless a fatal request or a part of one ended the process.
EveryRequestAnswered ==
  \A c \in Conns :
    peer[c] = "sent" /\ c \notin cut ~> (stream[c] = Response(c) /\ Closed(c)) \/ ~Alive

\* A peer that closes without a request costs no descriptor for ever.
FinReleases == \A c \in Conns : peer[c] = "fin" ~> Closed(c) \/ ~Alive

\* A request of which only a part was read costs no descriptor for ever: it is
\* answered as it is, or it ends the process.
PartReleases == \A c \in Conns : c \in cut ~> Closed(c) \/ ~Alive

\* Once the message a thread waits for in MsgGet is filled in, it stops waiting.
FilledInWakes ==
  \A t \in Threads :
    t \in waiters /\ map[index[t]] # NoConn ~> t \notin waiters

\* A thread that waits for a response does not wait for ever, unless the process
\* is terminated: even peers that stall or reset leave it a response to find.
GetReturns == \A t \in Threads : pc[t] = "get" ~> pc[t] # "get" \/ ~Alive
==============================================================================
