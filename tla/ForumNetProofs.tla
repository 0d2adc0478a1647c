--------------------------- MODULE ForumNetProofs ---------------------------
(***************************************************************************)
(* Theorems about the composed program, for any number of threads, peers   *)
(* and descriptors: it uses sockets and map only through their operations, *)
(* it is type correct whatever the peers do, and, until a peer resets its  *)
(* connection, its network threads never all wait for ever.                *)
(***************************************************************************)
EXTENDS ForumNet, SequenceTheorems, TLAPS

SockProofs == INSTANCE SocketsProofs
MapProofs == INSTANCE MsgMapProofs WITH
               Readers <- Threads, Keys <- Fds, Values <- Conns, None <- NoConn

\* The theorem of SocketsProofs, about the sockets of the program.
LEMMA SocketsKeepTypes == OS!TypeOK /\ [OS!Next]_kernel => OS!TypeOK'
  <1>1. SockProofs!SocketConstants
    BY NetServerConstants DEF SockProofs!SocketConstants
  <1>2. OS!TypeOK <=> SockProofs!TypeOK
    BY DEF OS!TypeOK, SockProofs!TypeOK, OS!Open, SockProofs!Open
  <1>3. OS!TypeOK' <=> SockProofs!TypeOK'
    BY DEF OS!TypeOK, SockProofs!TypeOK, OS!Open, SockProofs!Open
  <1>4. OS!Next => SockProofs!Next
    BY DEF OS!Next, SockProofs!Next,
      OS!Peer, SockProofs!Peer, OS!Connect, SockProofs!Connect,
      OS!Request, SockProofs!Request,
      OS!RequestPart, SockProofs!RequestPart, OS!Fin, SockProofs!Fin,
      OS!Reset, SockProofs!Reset, OS!Drain, SockProofs!Drain,
      OS!WatchListen, SockProofs!WatchListen, OS!Harvest, SockProofs!Harvest,
      OS!EpollCtl, SockProofs!EpollCtl, OS!Register, SockProofs!Register,
      OS!Accept, SockProofs!Accept, OS!EpollAdd, SockProofs!EpollAdd,
      OS!Receive, SockProofs!Receive,
      OS!RecvFails, SockProofs!RecvFails, OS!FillUp, SockProofs!FillUp,
      OS!SendFails, SockProofs!SendFails, OS!Close, SockProofs!Close,
      OS!Open, SockProofs!Open, OS!Polled, SockProofs!Polled,
      OS!Edge, SockProofs!Edge
  <1> QED
    BY <1>1, <1>2, <1>3, <1>4, SockProofs!NextTypeOK
    DEF kernel, SockProofs!vars

\* The theorems of MsgMapProofs, about the map of responses of the program.
LEMMA MapKeepsInvariants ==
  /\ TCPDataSend!TypeOK /\ [TCPDataSend!Next]_mapVars => TCPDataSend!TypeOK'
  /\ /\ TCPDataSend!TypeOK
     /\ TCPDataSend!SomeoneAwake
     /\ [TCPDataSend!Next]_mapVars
     => TCPDataSend!SomeoneAwake'
  <1>1. MapProofs!MapConstants
    BY NetServerConstants DEF MapProofs!MapConstants
  <1>2. TCPDataSend!TypeOK <=> MapProofs!TypeOK
    BY DEF TCPDataSend!TypeOK, MapProofs!TypeOK
  <1>3. TCPDataSend!TypeOK' <=> MapProofs!TypeOK'
    BY DEF TCPDataSend!TypeOK, MapProofs!TypeOK
  <1>4. TCPDataSend!SomeoneAwake <=> MapProofs!SomeoneAwake
    BY DEF TCPDataSend!SomeoneAwake, MapProofs!SomeoneAwake
  <1>5. TCPDataSend!SomeoneAwake' <=> MapProofs!SomeoneAwake'
    BY DEF TCPDataSend!SomeoneAwake, MapProofs!SomeoneAwake
  <1>6. TCPDataSend!Next => MapProofs!Next
    BY DEF TCPDataSend!Next, MapProofs!Next, TCPDataSend!Read, MapProofs!Read,
      TCPDataSend!MsgGetCall, MapProofs!MsgGetCall,
      TCPDataSend!MsgGetTest, MapProofs!MsgGetTest,
      TCPDataSend!SpuriousWakeup, MapProofs!SpuriousWakeup,
      TCPDataSend!MsgGetCopy, MapProofs!MsgGetCopy,
      TCPDataSend!Erase, MapProofs!Erase,
      TCPDataSend!MsgInsert, MapProofs!MsgInsert,
      TCPDataSend!NotifyOne, MapProofs!NotifyOne
  <1> QED
    BY <1>1, <1>2, <1>3, <1>4, <1>5, <1>6,
       MapProofs!NextTypeOK, MapProofs!NextSomeoneAwake
    DEF mapVars, MapProofs!vars
------------------------------------------------------------------------------
\* The program makes the system calls of Sockets, and nothing else, to it.
LEMMA UsesSockets == TypeOK /\ [Next]_vars => [OS!Next]_kernel
  <1> SUFFICES ASSUME TypeOK, [Next]_vars
               PROVE  OS!Next \/ UNCHANGED kernel
    OBVIOUS
  <1> USE DEF TypeOK, NetTypeOK, LocalTypeOK
  <1>1. ASSUME NEW t \in Threads, StartServer(t)
        PROVE  OS!Next
    BY <1>1 DEF StartServer, OS!Next
  <1>2. ASSUME NEW t \in Threads, EpollWait(t)
        PROVE  OS!Next
    BY <1>2 DEF EpollWait, OS!Next
  <1>3. ASSUME NEW t \in Threads, AcceptOne(t)
        PROVE  OS!Next
    BY <1>3 DEF AcceptOne, OS!Next, OS!TypeOK
  <1>14. ASSUME NEW t \in Threads, AddSocket(t)
         PROVE  OS!Next
    <2>1. accepted[t] \in Fds
      BY <1>14 DEF AddSocket
    <2> QED
      BY <1>14, <2>1 DEF AddSocket, OS!Next
  <1>4. ASSUME NEW t \in Threads, NEW fd \in Fds, ReadRequest(t, fd)
        PROVE  OS!Next
    BY <1>4 DEF ReadRequest, OS!Next
  <1>5. ASSUME NEW t \in Threads, NEW fd \in Fds, ReadFails(t, fd)
        PROVE  OS!Next
    BY <1>5 DEF ReadFails, OS!Next
  <1>6. ASSUME NEW t \in Threads, Rearm(t)
        PROVE  OS!Next
    <2>1. clientSocket[t] \in Fds
      BY <1>6 DEF Rearm
    <2>2. \E i \in {"none", "in", "out"} : OS!EpollCtl(t, clientSocket[t], i)
      BY <1>6 DEF Rearm
    <2> QED
      BY <2>1, <2>2 DEF OS!Next
  <1>7. ASSUME NEW t \in Threads, NEW fd \in Fds, HandleUnknown(t, fd)
        PROVE  OS!Next \/ UNCHANGED kernel
    <2>1. clientSocket[t] # NoConn => clientSocket[t] \in Fds
      OBVIOUS
    <2> QED
      BY <1>7, <2>1 DEF HandleUnknown, OS!Next
  <1>8. ASSUME NEW t \in Threads, SendAgain(t)
        PROVE  OS!Next
    <2>1. clientSocket[t] \in Fds
      BY <1>8 DEF SendAgain
    <2> QED
      BY <1>8, <2>1 DEF SendAgain, OS!Next
  <1>9. ASSUME NEW t \in Threads, CloseSocket(t)
        PROVE  OS!Next
    <2>1. clientSocket[t] \in Fds
      BY <1>9 DEF CloseSocket
    <2> QED
      BY <1>9, <2>1 DEF CloseSocket, OS!Next
  <1>10. ASSUME Peers
         PROVE  OS!Next
    BY <1>10 DEF Peers, OS!Next
  <1>11. ASSUME NEW t \in Threads, Thread(t)
         PROVE  OS!Next \/ UNCHANGED kernel
    BY <1>11, <1>1, <1>2, <1>3, <1>4, <1>5, <1>6, <1>7, <1>8, <1>9, <1>14
    DEF Thread, HandleListen, AcceptLock, SetNonblocking, AcceptBreak, ReadNothing,
        WriteHandle, GetMsgTest, GetMsgCopy, SendSome, SendError, SendDone
  <1>12. HttpServer => UNCHANGED kernel
    BY DEF HttpServer, RecvRequestData, InsertErase, InsertMsg
  <1>13. ASSUME NEW t \in Threads, Wakeup(t)
         PROVE  UNCHANGED kernel
    BY <1>13 DEF Wakeup
  <1> QED
    BY <1>10, <1>11, <1>12, <1>13 DEF Next, NetThread, HttpThread, vars

\* The program reads and writes the map through the operations of MsgMap only.
LEMMA UsesMsgMap == TypeOK /\ [Next]_vars => [TCPDataSend!Next]_mapVars
  <1> SUFFICES ASSUME TypeOK, [Next]_vars
               PROVE  TCPDataSend!Next \/ UNCHANGED mapVars
    OBVIOUS
  <1> USE DEF TypeOK, NetTypeOK, LocalTypeOK, WorkerTypeOK
  <1>1. ASSUME NEW t \in Threads, NEW fd \in Fds, WriteHandle(t, fd)
        PROVE  TCPDataSend!Next
    BY <1>1 DEF WriteHandle, TCPDataSend!Next, TCPDataSend!Read
  <1>2. ASSUME NEW t \in Threads, GetMsgTest(t)
        PROVE  TCPDataSend!Next
    BY <1>2 DEF GetMsgTest, TCPDataSend!Next, TCPDataSend!Read
  <1>3. ASSUME NEW t \in Threads, GetMsgCopy(t)
        PROVE  TCPDataSend!Next
    BY <1>3 DEF GetMsgCopy, TCPDataSend!Next, TCPDataSend!Read
  <1>4. ASSUME NEW t \in Threads, SendError(t) \/ SendDone(t)
        PROVE  TCPDataSend!Next
    <2>1. clientSocket[t] \in Fds
      BY <1>4 DEF SendError, SendDone
    <2> QED
      BY <1>4, <2>1 DEF SendError, SendDone, TCPDataSend!Next
  <1>5. ASSUME NEW t \in Threads, Wakeup(t)
        PROVE  TCPDataSend!Next
    BY <1>5 DEF Wakeup, TCPDataSend!Next, TCPDataSend!Read
  <1>6. ASSUME InsertErase
        PROVE  TCPDataSend!Next
    <2>1. worker.fd \in Fds
      BY <1>6 DEF InsertErase
    <2> QED
      BY <1>6, <2>1 DEF InsertErase, TCPDataSend!Next
  <1>7. ASSUME InsertMsg
        PROVE  TCPDataSend!Next
    <2>1. worker.fd \in Fds /\ worker.req \in Conns
      BY <1>7 DEF InsertMsg, Requests
    <2> QED
      BY <1>7, <2>1 DEF InsertMsg, TCPDataSend!Next
  <1>8. ASSUME NEW t \in Threads, Thread(t)
        PROVE  TCPDataSend!Next \/ UNCHANGED mapVars
    BY <1>8, <1>1, <1>2, <1>3, <1>4
    DEF Thread, StartServer, EpollWait, HandleListen, AcceptLock, AcceptOne,
        SetNonblocking, AddSocket, AcceptBreak, ReadRequest, ReadNothing, ReadFails,
        Rearm, HandleUnknown, SendSome, SendAgain, CloseSocket
  <1>9. HttpServer => TCPDataSend!Next \/ UNCHANGED mapVars
    BY <1>6, <1>7 DEF HttpServer, RecvRequestData
  <1>10. Peers => UNCHANGED mapVars
    BY DEF Peers
  <1> QED
    BY <1>5, <1>8, <1>9, <1>10 DEF Next, NetThread, HttpThread, vars

------------------------------------------------------------------------------
\* A part of a response consists of units.
LEMMA ResponsePart ==
  ASSUME NEW c \in Conns, NEW a \in Nat, NEW b \in Nat, b <= RespLen
  PROVE  SubSeq(Response(c), a + 1, b) \in Seq(Conns \X (1 .. RespLen))
  <1>1. \A i \in a + 1 .. b : Response(c)[i] \in Conns \X (1 .. RespLen)
    BY NetServerConstants DEF Response
  <1> QED
    BY <1>1, NetServerConstants, SubSeqProperties

\* No step of a network thread takes its local variables out of their types.
LEMMA ThreadKeepsLocalTypes ==
  ASSUME TypeOK, NEW t \in Threads, Thread(t)
  PROVE  LocalTypeOK'
  <1> USE NetServerConstants DEF TypeOK, NetTypeOK, LocalTypeOK, Goto, writing
  <1>1. CASE StartServer(t)
    BY <1>1 DEF StartServer, mapVars
  <1>2. CASE EpollWait(t)
    <2>1. ready[t] \subseteq Fds \cup {Listen}
      BY DEF OS!TypeOK
    <2> QED
      BY <1>2, <2>1 DEF EpollWait, Reported, mapVars
  <1>3. CASE HandleListen(t)
    BY <1>3 DEF HandleListen, Take, mapVars
  <1>4. CASE AcceptLock(t)
    BY <1>4 DEF AcceptLock, mapVars
  <1>5. CASE AcceptOne(t)
    BY <1>5 DEF AcceptOne, mapVars
  <1>18. CASE SetNonblocking(t)
    BY <1>18 DEF SetNonblocking, mapVars
  <1>19. CASE AddSocket(t)
    BY <1>19 DEF AddSocket, mapVars
  <1>6. CASE AcceptBreak(t)
    BY <1>6 DEF AcceptBreak, mapVars
  <1>7. CASE Rearm(t)
    BY <1>7 DEF Rearm, mapVars
  <1>8. CASE GetMsgTest(t)
    BY <1>8 DEF GetMsgTest, TCPDataSend!MsgGetTest, local
  <1>9. CASE GetMsgCopy(t)
    <2>1. PICK c \in Conns : /\ TCPDataSend!MsgGetCopy(t, c)
                             /\ msg' = [msg EXCEPT ![t] = c]
      BY <1>9 DEF GetMsgCopy
    <2>2. index' = [index EXCEPT ![t] = NoConn] /\ t \in DOMAIN index
      BY <2>1 DEF TCPDataSend!MsgGetCopy, TCPDataSend!TypeOK
    <2>3. msg' \in [Threads -> Requests] /\ msg'[t] # NoConn
      BY <2>1 DEF Requests
    <2> QED
      BY <1>9, <2>1, <2>2, <2>3 DEF GetMsgCopy
  <1>10. CASE SendSome(t)
    <2> DEFINE c == sock[clientSocket[t]]
    <2>1. c \in Conns
      BY <1>10 DEF SendSome, OS!SendFails, OS!Open, OS!TypeOK
    <2>2. PICK n \in 1 .. MaxSize :
            /\ sent[t] + n <= RespLen
            /\ sent' = [sent EXCEPT ![t] = @ + n]
            /\ stream' = [stream EXCEPT ![c] =
                 @ \o SubSeq(Response(msg[t]), sent[t] + 1, sent[t] + n)]
            /\ pc' = [pc EXCEPT ![t] =
                 IF sent[t] + n = RespLen THEN "done" ELSE "send"]
      BY <1>10 DEF SendSome
    <2>3. sent' \in [Threads -> 0 .. RespLen] /\ sent'[t] = sent[t] + n
      BY <2>2
    <2>4. SubSeq(Response(msg[t]), sent[t] + 1, sent[t] + n)
            \in Seq(Conns \X (1 .. RespLen))
      <3>1. msg[t] \in Conns
        BY <1>10 DEF SendSome, Requests
      <3>2. /\ sent[t] \in Nat /\ sent[t] + n \in Nat
            /\ sent[t] + n <= RespLen
        BY <2>2
      <3> QED
        BY <3>1, <3>2, ResponsePart
    <2>5. stream' \in [Conns -> Seq(Conns \X (1 .. RespLen))]
      BY <2>1, <2>2, <2>4, ConcatProperties
    <2>6. pc[t] = "send" /\ pc'[t] \in {"send", "done"}
          /\ (pc'[t] = "send" => sent'[t] < RespLen)
      BY <1>10, <2>2, <2>3 DEF SendSome
    <2> QED
      BY <1>10, <2>2, <2>3, <2>5, <2>6 DEF SendSome, mapVars
  <1>11. CASE SendAgain(t)
    BY <1>11 DEF SendAgain, mapVars, Requests
  <1>12. CASE SendError(t) \/ SendDone(t)
    BY <1>12 DEF SendError, SendDone, TCPDataSend!Erase
  <1>13. CASE CloseSocket(t)
    BY <1>13 DEF CloseSocket, mapVars, Requests
  <1>14. ASSUME NEW fd \in Fds, ReadRequest(t, fd) \/ ReadNothing(t, fd)
         PROVE  LocalTypeOK'
    <2>1. ASSUME ReadRequest(t, fd)
          PROVE  \E r \in Requests : queue' = Append(queue, <<fd, r>>)
      <3>1. sock[fd] \in Conns
        BY <2>1 DEF ReadRequest, OS!Receive, OS!RecvFails, OS!Open, OS!TypeOK
      <3> QED
        BY <2>1, <3>1 DEF ReadRequest, Requests
    <2>2. \E r \in Requests : queue' = Append(queue, <<fd, r>>)
      BY <1>14, <2>1 DEF ReadNothing, Requests
    <2>3. queue' \in Seq(Fds \X Requests)
      BY <2>2, AppendProperties
    <2>4. /\ pc[t] = "epoll" /\ pc' = [pc EXCEPT ![t] = "mod"]
          /\ clientSocket' = [clientSocket EXCEPT ![t] = fd]
          /\ events' = [events EXCEPT ![t] = @ \ {<<fd, "in">>}]
          /\ UNCHANGED <<mapVars, accepted, msg, sent, stream>>
      BY <1>14 DEF ReadRequest, ReadNothing, Take, SetSocket
    <2> QED
      BY <2>3, <2>4 DEF mapVars
  <1>15. ASSUME NEW fd \in Fds, ReadFails(t, fd)
         PROVE  LocalTypeOK'
    BY <1>15 DEF ReadFails, Take, SetSocket, mapVars
  <1>16. ASSUME NEW fd \in Fds, HandleUnknown(t, fd)
         PROVE  LocalTypeOK'
    BY <1>16 DEF HandleUnknown, Take, mapVars
  <1>17. ASSUME NEW fd \in Fds, WriteHandle(t, fd)
         PROVE  LocalTypeOK'
    <2>1. index' = [index EXCEPT ![t] = fd] /\ t \in DOMAIN index
      BY <1>17 DEF WriteHandle, TCPDataSend!MsgGetCall, TCPDataSend!TypeOK
    <2> QED
      BY <1>17, <2>1 DEF WriteHandle, Take, SetSocket
  <1> QED
    BY <1>1, <1>2, <1>3, <1>4, <1>5, <1>6, <1>7, <1>8, <1>9, <1>10, <1>11,
       <1>12, <1>13, <1>14, <1>15, <1>16, <1>17, <1>18, <1>19 DEF Thread

\* Nor does a step of the HTTP thread, of a peer, or a spurious wake-up.
LEMMA OthersKeepLocalTypes ==
  ASSUME TypeOK, HttpServer \/ Peers \/ \E t \in Threads : Wakeup(t)
  PROVE  LocalTypeOK'
  <1> USE DEF TypeOK, NetTypeOK, LocalTypeOK, writing
  <1>1. CASE RecvRequestData
    <2>1. Tail(queue) \in Seq(Fds \X Requests)
      BY <1>1, HeadTailProperties DEF RecvRequestData
    <2> QED
      BY <1>1, <2>1 DEF RecvRequestData, local, mapVars
  <1>2. CASE InsertErase
    BY <1>2 DEF InsertErase, local, TCPDataSend!Erase
  <1>3. CASE InsertMsg
    BY <1>3 DEF InsertMsg, local, TCPDataSend!MsgInsert
  <1>4. CASE Peers
    BY <1>4 DEF Peers, local, mapVars
  <1>5. ASSUME NEW t \in Threads, Wakeup(t)
        PROVE  LocalTypeOK'
    BY <1>5 DEF Wakeup, local, TCPDataSend!SpuriousWakeup
  <1> QED
    BY <1>1, <1>2, <1>3, <1>4, <1>5 DEF HttpServer

\* The HTTP thread works on messages of the queue.
LEMMA WorkerKeepsTypes ==
  ASSUME TypeOK, HttpServer
  PROVE  WorkerTypeOK'
  <1> USE NetServerConstants
      DEF TypeOK, NetTypeOK, LocalTypeOK, WorkerTypeOK, Requests
  <1>1. CASE RecvRequestData
    <2>1. Head(queue) \in Fds \X Requests
      BY <1>1, HeadTailProperties DEF RecvRequestData
    <2> QED
      BY <1>1, <2>1 DEF RecvRequestData
  <1>2. CASE InsertErase
    BY <1>2 DEF InsertErase
  <1>3. CASE InsertMsg
    BY <1>3 DEF InsertMsg
  <1> QED
    BY <1>1, <1>2, <1>3 DEF HttpServer

LEMMA InitTypeOK == Init => TypeOK
  <1> SUFFICES ASSUME Init PROVE TypeOK
    OBVIOUS
  <1>1. OS!TypeOK
    BY NetServerConstants DEF Init, NetInit, OS!Init, OS!TypeOK, OS!Open
  <1>2. TCPDataSend!TypeOK
    BY NetServerConstants
    DEF Init, NetInit, TCPDataSend!Init, TCPDataSend!TypeOK
  <1>3. LocalTypeOK
    BY NetServerConstants, EmptySeq
    DEF Init, NetInit, TCPDataSend!Init, LocalTypeOK, Requests
  <1>4. WorkerTypeOK
    BY DEF Init, WorkerTypeOK, Requests
  <1> QED
    BY <1>1, <1>2, <1>3, <1>4 DEF TypeOK, NetTypeOK

LEMMA NextTypeOK == TypeOK /\ [Next]_vars => TypeOK'
  <1> SUFFICES ASSUME TypeOK, [Next]_vars PROVE TypeOK'
    OBVIOUS
  <1>1. OS!TypeOK'
    BY UsesSockets, SocketsKeepTypes DEF TypeOK, NetTypeOK
  <1>2. TCPDataSend!TypeOK'
    BY UsesMsgMap, MapKeepsInvariants DEF TypeOK, NetTypeOK
  <1>3. LocalTypeOK'
    <2>1. CASE UNCHANGED vars
      BY <2>1 DEF vars, local, writing, mapVars, TypeOK, NetTypeOK, LocalTypeOK
    <2> QED
      BY <2>1, ThreadKeepsLocalTypes, OthersKeepLocalTypes
      DEF Next, NetThread, HttpThread
  <1>4. WorkerTypeOK'
    <2>1. CASE UNCHANGED worker
      BY <2>1 DEF TypeOK, WorkerTypeOK
    <2> QED
      BY <2>1, WorkerKeepsTypes DEF Next, NetThread, HttpThread, vars
  <1> QED
    BY <1>1, <1>2, <1>3, <1>4 DEF TypeOK, NetTypeOK

\* Every variable of the program keeps its type, whatever peers do, resets
\* included; the descriptor a handler works on has always been assigned.
THEOREM TypeCorrect == Spec => []TypeOK
  BY InitTypeOK, NextTypeOK, PTL DEF Spec

\* The response map is used as MsgMap allows any client to, so what is proved
\* of MsgMap holds in the program.
THEOREM ImplementsMsgMap == Spec => TCPDataSend!Spec
  <1>1. Init => TCPDataSend!Init
    BY DEF Init, NetInit
  <1>2. TypeOK /\ [Next]_vars => [TCPDataSend!Next]_TCPDataSend!vars
    BY UsesMsgMap DEF mapVars, TCPDataSend!vars
  <1> QED
    BY <1>1, <1>2, TypeCorrect, PTL DEF Spec, TCPDataSend!Spec
------------------------------------------------------------------------------
\* What a step must keep so that CalmInv holds after it: the registrations of
\* accepted sockets, no new event, nothing owed forgotten, and every thread
\* either where it was, inside WriteHandle before and after, or back in its loop.
Undisturbed ==
  /\ \A t \in Threads, fd \in Fds : interest'[t][fd] = interest[t][fd]
  /\ \A t \in Threads : events'[t] \subseteq events[t]
  /\ \A fd \in Fds : Owed(fd) => Owed(fd)'
  /\ \A t \in Threads :
       \/ pc'[t] = pc[t] /\ clientSocket'[t] = clientSocket[t]
       \/ /\ {pc[t], pc'[t]} \subseteq {"get", "send", "done"}
          /\ clientSocket'[t] = clientSocket[t]
       \/ pc[t] # "close" /\ pc'[t] \in {"epoll", "accept", "accepting",
                                           "nonblock", "add", "exit"}

LEMMA UndisturbedInv ==
  ASSUME TypeOK, CalmInv, Undisturbed
  PROVE  LoopInv'
  <1> USE DEF CalmInv, LoopInv, Undisturbed
  <1>1. OneOwner'
    BY DEF OneOwner
  <1>2. EventsCurrent'
    BY DEF EventsCurrent
  <1>3. InHand'
    <2> SUFFICES ASSUME NEW t \in Threads,
                        pc'[t] \in {"mod", "del", "get", "send", "done", "close"}
                 PROVE  /\ pc'[t] = "mod" =>
                             /\ interest'[t][clientSocket'[t]] = "in"
                             /\ Owed(clientSocket[t])'
                        /\ pc'[t] = "del" =>
                             interest'[t][clientSocket'[t]] = "none"
                        /\ pc'[t] \in {"get", "send", "done", "close"} =>
                             interest'[t][clientSocket'[t]] = "out"
                        /\ pc'[t] # "del" =>
                             \A e \in events'[t] : e[1] # clientSocket'[t]
      BY DEF InHand
    <2>1. clientSocket'[t] = clientSocket[t]
      OBVIOUS
    <2>2. clientSocket[t] \in Fds
      BY DEF TypeOK, NetTypeOK, LocalTypeOK
    <2> QED
      BY <2>1, <2>2 DEF InHand
  <1>4. ResponsesOwed'
    BY DEF ResponsesOwed
  <1> QED
    BY <1>1, <1>2, <1>3, <1>4

\* Owed looks at the map, the queue and the message in work only.
LEMMA OwedFrame ==
  ASSUME UNCHANGED <<map, queue, worker>>, NEW fd
  PROVE  Owed(fd)' <=> Owed(fd)
  BY DEF Owed

\* The HTTP thread carries every message from the queue to the map.
LEMMA HttpServerKeepsOwed ==
  ASSUME TypeOK, HttpServer, NEW fd \in Fds, Owed(fd)
  PROVE  Owed(fd)'
  <1> USE NetServerConstants DEF TypeOK, NetTypeOK
  <1>1. CASE RecvRequestData
    <2>1. worker.fd = NoConn /\ worker'.fd = Head(queue)[1]
      BY <1>1 DEF RecvRequestData, WorkerTypeOK
    <2>2. map' = map /\ queue # <<>> /\ queue' = Tail(queue)
      BY <1>1 DEF RecvRequestData, mapVars
    <2>3. ASSUME NEW i \in DOMAIN queue, queue[i][1] = fd
          PROVE  Owed(fd)'
      <3>1. CASE i = 1
        BY <2>1, <2>3, <3>1 DEF Owed
      <3>2. CASE i # 1
        <4>1. /\ i - 1 \in 1 .. Len(Tail(queue))
              /\ Tail(queue)[i - 1] = queue[i]
          BY <2>2, <3>2, HeadTailProperties, LenProperties DEF LocalTypeOK
        <4>2. i - 1 \in DOMAIN queue' /\ queue'[i - 1][1] = fd
          BY <2>2, <2>3, <4>1, HeadTailProperties, LenProperties DEF LocalTypeOK
        <4> QED
          BY <4>2 DEF Owed
      <3> QED
        BY <3>1, <3>2
    <2> QED
      BY <2>1, <2>2, <2>3 DEF Owed
  <1>2. CASE InsertErase
    <2>1. /\ queue' = queue /\ worker'.fd = worker.fd
          /\ map' = [map EXCEPT ![worker.fd] = NoConn]
      BY <1>2 DEF InsertErase, TCPDataSend!Erase, WorkerTypeOK
    <2>2. worker.fd # fd => map'[fd] = map[fd]
      BY <2>1 DEF TCPDataSend!TypeOK
    <2> QED
      BY <2>1, <2>2 DEF Owed
  <1>3. CASE InsertMsg
    <2>1. /\ queue' = queue /\ worker.fd \in Fds /\ worker.req # NoConn
          /\ map' = [map EXCEPT ![worker.fd] =
                       IF @ = NoConn THEN worker.req ELSE @]
      BY <1>3 DEF InsertMsg, TCPDataSend!MsgInsert, WorkerTypeOK
    <2>2. map[fd] # NoConn \/ worker.fd = fd => map'[fd] # NoConn
      BY <2>1 DEF TCPDataSend!TypeOK
    <2> QED
      BY <2>1, <2>2 DEF Owed
  <1> QED
    BY <1>1, <1>2, <1>3 DEF HttpServer

\* The steps of the HTTP thread and of the peers, and spurious wake-ups, leave
\* the network threads undisturbed.
LEMMA OthersUndisturbed ==
  ASSUME TypeOK,
         \/ HttpServer
         \/ UNCHANGED worker /\ Peers
         \/ UNCHANGED worker /\ (\E t \in Threads : Wakeup(t))
  PROVE  Undisturbed
  <1>1. CASE HttpServer
    BY <1>1, HttpServerKeepsOwed
    DEF HttpServer, RecvRequestData, InsertErase, InsertMsg, kernel, local,
        Undisturbed
  <1>2. ASSUME UNCHANGED worker, Peers
        PROVE  Undisturbed
    <2>1. interest' = interest
      BY <1>2 DEF Peers, OS!Peer, OS!Connect, OS!RequestPart, OS!Request,
         OS!Fin, OS!Reset, OS!Drain
    <2> QED
      BY <1>2, <2>1, OwedFrame DEF Peers, mapVars, local, Undisturbed
  <1>3. ASSUME UNCHANGED worker, NEW t \in Threads, Wakeup(t)
        PROVE  Undisturbed
    BY <1>3, OwedFrame
    DEF Wakeup, TCPDataSend!SpuriousWakeup, kernel, local, Undisturbed
  <1> QED
    BY <1>1, <1>2, <1>3

\* So do the steps of a network thread that change none of its registrations
\* of accepted sockets, take no event of one and delete no message.
LEMMA ThreadUndisturbed ==
  ASSUME TypeOK, UNCHANGED worker, NEW t \in Threads,
         \/ StartServer(t) \/ HandleListen(t) \/ AcceptLock(t) \/ AcceptOne(t)
         \/ SetNonblocking(t) \/ AcceptBreak(t)
         \/ GetMsgTest(t) \/ GetMsgCopy(t) \/ SendSome(t) \/ SendAgain(t)
  PROVE  Undisturbed
  <1> USE NetServerConstants DEF TypeOK, NetTypeOK, LocalTypeOK, Goto
  <1>1. CASE StartServer(t)
    <2>1. interest' = [interest EXCEPT ![t][Listen] = "in"]
      BY <1>1 DEF StartServer, OS!WatchListen, OS!Register
    <2>2. \A u \in Threads, fd \in Fds : interest'[u][fd] = interest[u][fd]
      BY <2>1 DEF OS!TypeOK
    <2> QED
      BY <1>1, <2>2, OwedFrame DEF StartServer, mapVars, Undisturbed
  <1>2. CASE HandleListen(t)
    BY <1>2, OwedFrame DEF HandleListen, Take, kernel, mapVars, Undisturbed
  <1>3. CASE AcceptLock(t) \/ SetNonblocking(t) \/ AcceptBreak(t)
    BY <1>3, OwedFrame
    DEF AcceptLock, SetNonblocking, AcceptBreak, kernel, mapVars, Undisturbed
  <1>8. CASE AcceptOne(t)
    BY <1>8, OwedFrame DEF AcceptOne, OS!Accept, mapVars, Undisturbed
  <1>4. CASE GetMsgTest(t)
    BY <1>4, OwedFrame
    DEF GetMsgTest, TCPDataSend!MsgGetTest, kernel, local, Undisturbed
  <1>5. CASE GetMsgCopy(t)
    BY <1>5, OwedFrame
    DEF GetMsgCopy, TCPDataSend!MsgGetCopy, kernel, Undisturbed
  <1>6. CASE SendSome(t)
    BY <1>6, OwedFrame DEF SendSome, kernel, mapVars, Undisturbed
  <1>7. CASE SendAgain(t)
    BY <1>7, OwedFrame DEF SendAgain, OS!FillUp, mapVars, Undisturbed
  <1> QED
    BY <1>1, <1>2, <1>3, <1>4, <1>5, <1>6, <1>7, <1>8
------------------------------------------------------------------------------
\* Without resets, an event is reported only for what the thread asks for.
LEMMA HarvestCurrent ==
  ASSUME TypeOK, reset = {}, NEW t \in Threads, NEW x \in Fds,
         NEW k \in {"in", "out", "err"}, k = OS!Event(t, x)
  PROVE  interest[t][x] = k
  <1>1. interest[t][x] \in {"none", "in", "out"} /\ x # Listen
    BY NetServerConstants DEF TypeOK, NetTypeOK, OS!TypeOK
  <1>2. k = OS!Polled(sock[x], interest[t][x])
    BY <1>1 DEF OS!Event
  <1> QED
    BY <1>1, <1>2 DEF OS!Polled

LEMMA EpollWaitInv ==
  ASSUME TypeOK, CalmInv, reset = {}, UNCHANGED worker,
         NEW t \in Threads, EpollWait(t)
  PROVE  LoopInv'
  <1> USE DEF CalmInv, LoopInv
  <1>1. /\ interest' = interest /\ pc' = pc /\ clientSocket' = clientSocket
        /\ UNCHANGED <<map, queue, worker>> /\ pc[t] = "epoll"
        /\ \A u \in Threads : u # t => events'[u] = events[u]
        /\ \A e \in events'[t] :
             e \in ready[t] \X {"in", "out", "err"} /\ e[2] = OS!Event(t, e[1])
    BY DEF EpollWait, Reported, OS!Harvest, mapVars, TypeOK, NetTypeOK, LocalTypeOK
  <1>2. OneOwner'
    BY <1>1 DEF OneOwner
  <1>3. EventsCurrent'
    <2>1. ASSUME NEW e \in events'[t], e[1] \in Fds
          PROVE  interest[t][e[1]] = e[2]
      BY <1>1, <2>1, HarvestCurrent
    <2> QED
      BY <1>1, <2>1 DEF EventsCurrent
  <1>4. InHand'
    BY <1>1, OwedFrame DEF InHand
  <1>5. ResponsesOwed'
    BY <1>1, OwedFrame DEF ResponsesOwed
  <1> QED
    BY <1>2, <1>3, <1>4, <1>5

\* EPOLL_CTL_ADD registers a descriptor nobody has registered.
LEMMA AddSocketInv ==
  ASSUME TypeOK, CalmInv, UNCHANGED worker, NEW t \in Threads, AddSocket(t)
  PROVE  LoopInv'
  <1> USE DEF CalmInv, LoopInv
  <1> DEFINE fd == accepted[t]
  <1>1. /\ fd \in Fds /\ pc[t] = "add"
        /\ interest' = [interest EXCEPT ![t][fd] = "in"]
    BY DEF AddSocket, OS!EpollAdd, OS!Register, NewSockets,
           TypeOK, NetTypeOK, LocalTypeOK
  <1>2. /\ \A u \in Threads : u # t => pc'[u] = pc[u]
        /\ pc'[t] = "accepting"
        /\ clientSocket' = clientSocket /\ events' = events
        /\ UNCHANGED <<map, queue, worker>>
    BY DEF AddSocket, Goto, mapVars, TypeOK, NetTypeOK, LocalTypeOK
  <1>3. \A u \in Threads : interest[u][fd] = "none"
    BY <1>1 DEF NewSockets
  <1>4. \A u \in Threads, gd \in Fds :
          interest'[u][gd] = IF u = t /\ gd = fd THEN "in" ELSE interest[u][gd]
    BY <1>1 DEF TypeOK, NetTypeOK, OS!TypeOK
  <1>5. OneOwner'
    BY <1>3, <1>4 DEF OneOwner
  <1>6. EventsCurrent'
    <2>1. ASSUME NEW u \in Threads, NEW e \in events[u]
          PROVE  e[2] # "none"
      <3>1. e \in (Fds \cup {Listen}) \X {"in", "out", "err"}
        BY DEF TypeOK, NetTypeOK, LocalTypeOK
      <3> QED
        BY <3>1
    <2> QED
      BY <1>2, <1>3, <1>4, <2>1 DEF EventsCurrent
  <1>7. InHand'
    <2>1. \A u \in Threads :
            pc[u] \in {"mod", "del", "get", "send", "done", "close"} =>
              u # t /\ clientSocket[u] \in Fds
      BY <1>1 DEF TypeOK, NetTypeOK, LocalTypeOK
    <2> QED
      BY <1>2, <1>4, <2>1, OwedFrame DEF InHand
  <1>8. ResponsesOwed'
    BY <1>1, <1>2, <1>4, OwedFrame DEF ResponsesOwed
  <1> QED
    BY <1>5, <1>6, <1>7, <1>8

\* PostMsg: the message for fd is owed from now on.
LEMMA PostOwed ==
  ASSUME TypeOK, UNCHANGED <<map, worker>>, NEW fd \in Fds, NEW r \in Requests,
         queue' = Append(queue, <<fd, r>>)
  PROVE  Owed(fd)' /\ \A gd \in Fds : Owed(gd) => Owed(gd)'
  <1>1. queue \in Seq(Fds \X Requests)
    BY DEF TypeOK, NetTypeOK, LocalTypeOK
  <1>2. /\ queue' \in Seq(Fds \X Requests) /\ Len(queue') = Len(queue) + 1
        /\ Len(queue) \in Nat
        /\ \A i \in 1 .. Len(queue) : queue'[i] = queue[i]
        /\ queue'[Len(queue) + 1] = <<fd, r>>
    BY <1>1, AppendProperties, LenProperties
  <1>3. DOMAIN queue = 1 .. Len(queue) /\ DOMAIN queue' = 1 .. Len(queue) + 1
    BY <1>1, <1>2, LenProperties
  <1>4. \A i \in DOMAIN queue : i \in DOMAIN queue' /\ queue'[i] = queue[i]
    BY <1>2, <1>3
  <1>5. Len(queue) + 1 \in DOMAIN queue' /\ queue'[Len(queue) + 1][1] = fd
    BY <1>2, <1>3
  <1> QED
    BY <1>4, <1>5 DEF Owed

LEMMA ReadInv ==
  ASSUME TypeOK, CalmInv, UNCHANGED worker, NEW t \in Threads, NEW fd \in Fds,
         ReadRequest(t, fd) \/ ReadNothing(t, fd)
  PROVE  LoopInv'
  <1> USE DEF CalmInv, LoopInv
  <1>1. /\ <<fd, "in">> \in events[t]
        /\ events' = [events EXCEPT ![t] = @ \ {<<fd, "in">>}]
        /\ pc' = [pc EXCEPT ![t] = "mod"]
        /\ clientSocket' = [clientSocket EXCEPT ![t] = fd]
        /\ interest' = interest /\ map' = map /\ pc[t] = "epoll"
    BY DEF ReadRequest, ReadNothing, Take, SetSocket, Goto, OS!Receive, kernel,
           mapVars
  <1>2. \E r \in Requests : queue' = Append(queue, <<fd, r>>)
    BY DEF ReadRequest, ReadNothing, OS!Receive, OS!RecvFails, OS!Open,
           Requests, TypeOK, NetTypeOK, OS!TypeOK
  <1>3. Owed(fd)' /\ \A gd \in Fds : Owed(gd) => Owed(gd)'
    BY <1>1, <1>2, PostOwed
  <1>4. /\ \A u \in Threads : u # t => /\ pc'[u] = pc[u]
                                      /\ clientSocket'[u] = clientSocket[u]
                                      /\ events'[u] = events[u]
        /\ pc'[t] = "mod" /\ clientSocket'[t] = fd
        /\ events'[t] = events[t] \ {<<fd, "in">>}
    BY <1>1 DEF TypeOK, NetTypeOK, LocalTypeOK
  <1>5. OneOwner'
    BY <1>1 DEF OneOwner
  <1>6. EventsCurrent'
    BY <1>1, <1>4 DEF EventsCurrent
  <1>7. InHand'
    <2>1. interest[t][fd] = "in"
      BY <1>1 DEF EventsCurrent
    <2>2. \A e \in events'[t] : e[1] # fd
      <3> SUFFICES ASSUME NEW e \in events[t], e[1] = fd
                   PROVE  e = <<fd, "in">>
        BY <1>4
      <3>1. e = <<e[1], e[2]>>
        BY DEF TypeOK, NetTypeOK, LocalTypeOK
      <3> QED
        BY <2>1, <3>1 DEF EventsCurrent
    <2>3. \A u \in Threads : pc[u] = "mod" => clientSocket[u] \in Fds
      BY DEF TypeOK, NetTypeOK, LocalTypeOK
    <2> QED
      BY <1>1, <1>3, <1>4, <2>1, <2>2, <2>3 DEF InHand
  <1>8. ResponsesOwed'
    BY <1>1, <1>3, <1>4 DEF ResponsesOwed
  <1> QED
    BY <1>5, <1>6, <1>7, <1>8

\* EPOLL_CTL_MOD turns a registration for EPOLLIN, whose message has been
\* posted, into one for EPOLLOUT.
LEMMA RearmInv ==
  ASSUME TypeOK, CalmInv, UNCHANGED worker, NEW t \in Threads, Rearm(t)
  PROVE  LoopInv'
  <1> USE DEF CalmInv, LoopInv
  <1> DEFINE fd == clientSocket[t]
  <1>1. /\ pc[t] \in {"mod", "del"} /\ pc' = [pc EXCEPT ![t] = "epoll"]
        /\ UNCHANGED <<map, queue, worker>>
        /\ clientSocket' = clientSocket /\ events' = events
    BY DEF Rearm, Goto, mapVars
  <1>2. fd \in Fds
    BY <1>1 DEF TypeOK, NetTypeOK, LocalTypeOK
  <1>3. CASE pc[t] = "del"
    <2>1. interest' = interest
      BY <1>3 DEF Rearm, OS!EpollCtl, InHand
    <2> QED
      BY <1>1, <1>3, <2>1, OwedFrame, UndisturbedInv
      DEF Undisturbed, TypeOK, NetTypeOK, LocalTypeOK
  <1>4. CASE pc[t] = "mod"
    <2>1. /\ interest[t][fd] = "in" /\ Owed(fd)
          /\ \A e \in events[t] : e[1] # fd
      BY <1>4 DEF InHand
    <2>2. interest' = [interest EXCEPT ![t][fd] = "out"]
      BY <1>4, <2>1 DEF Rearm, OS!EpollCtl, OS!Register
    <2>3. \A u \in Threads, gd \in Fds :
            interest'[u][gd] = IF u = t /\ gd = fd THEN "out" ELSE interest[u][gd]
      BY <1>2, <2>2 DEF TypeOK, NetTypeOK, OS!TypeOK
    <2>4. OneOwner'
      BY <1>2, <2>1, <2>3 DEF OneOwner
    <2>5. EventsCurrent'
      BY <1>1, <2>1, <2>3 DEF EventsCurrent
    <2>6. InHand'
      <3>1. \A u \in Threads :
              pc'[u] \in {"mod", "del", "get", "send", "done", "close"} =>
                u # t /\ pc'[u] = pc[u] /\ clientSocket[u] \in Fds
        BY <1>1 DEF TypeOK, NetTypeOK, LocalTypeOK
      <3> QED
        BY <1>1, <2>3, <3>1, OwedFrame DEF InHand
    <2>7. ResponsesOwed'
      <3>1. \A u \in Threads : pc[u] = "close" => pc'[u] = "close"
        BY <1>1, <1>4 DEF TypeOK, NetTypeOK, LocalTypeOK
      <3> QED
        BY <1>1, <2>1, <2>3, <3>1, OwedFrame DEF ResponsesOwed
    <2> QED
      BY <2>4, <2>5, <2>6, <2>7
  <1> QED
    BY <1>1, <1>3, <1>4

\* WriteHandle starts on a descriptor whose response is owed.
LEMMA WriteHandleInv ==
  ASSUME TypeOK, CalmInv, UNCHANGED worker, NEW t \in Threads, NEW fd \in Fds,
         WriteHandle(t, fd)
  PROVE  LoopInv'
  <1> USE DEF CalmInv, LoopInv
  <1>1. /\ <<fd, "out">> \in events[t] /\ pc[t] = "epoll"
        /\ UNCHANGED <<map, queue, worker>> /\ interest' = interest
    BY DEF WriteHandle, Take, TCPDataSend!MsgGetCall, kernel
  <1>2. /\ \A u \in Threads : u # t => /\ pc'[u] = pc[u]
                                      /\ clientSocket'[u] = clientSocket[u]
                                      /\ events'[u] = events[u]
        /\ pc'[t] = "get" /\ clientSocket'[t] = fd
        /\ events'[t] = events[t] \ {<<fd, "out">>}
    BY DEF WriteHandle, Take, SetSocket, Goto, TypeOK, NetTypeOK, LocalTypeOK
  <1>3. OneOwner'
    BY <1>1 DEF OneOwner
  <1>4. EventsCurrent'
    BY <1>1, <1>2 DEF EventsCurrent
  <1>5. InHand'
    <2>1. interest[t][fd] = "out"
      BY <1>1 DEF EventsCurrent
    <2>2. \A e \in events'[t] : e[1] # fd
      <3> SUFFICES ASSUME NEW e \in events[t], e[1] = fd
                   PROVE  e = <<fd, "out">>
        BY <1>2
      <3>1. e = <<e[1], e[2]>>
        BY DEF TypeOK, NetTypeOK, LocalTypeOK
      <3> QED
        BY <2>1, <3>1 DEF EventsCurrent
    <2> QED
      BY <1>1, <1>2, <2>1, <2>2, OwedFrame DEF InHand
  <1>6. ResponsesOwed'
    BY <1>1, <1>2, OwedFrame DEF ResponsesOwed
  <1> QED
    BY <1>3, <1>4, <1>5, <1>6

\* close by the thread that has the descriptor registered: nobody else has an
\* event of it, works on it or waits for it.
LEMMA CloseInv ==
  ASSUME TypeOK, CalmInv, UNCHANGED <<map, queue, worker>>,
         NEW t \in Threads, NEW fd \in Fds, OS!Close(fd),
         interest[t][fd] # "none",
         \A u \in Threads : u # t => /\ pc'[u] = pc[u]
                                   /\ clientSocket'[u] = clientSocket[u]
                                   /\ events'[u] = events[u],
         events'[t] \subseteq events[t], \A e \in events'[t] : e[1] # fd,
         pc[t] = "close" => clientSocket[t] = fd,
         pc'[t] = "epoll" \/ (pc'[t] = "del" /\ clientSocket'[t] = fd)
  PROVE  LoopInv'
  <1> USE DEF CalmInv, LoopInv
  <1>1. \A u \in Threads, gd \in Fds :
          interest'[u][gd] = IF gd = fd THEN "none" ELSE interest[u][gd]
    BY DEF OS!Close, TypeOK, NetTypeOK, OS!TypeOK
  <1>2. \A u \in Threads : u # t => interest[u][fd] = "none"
    BY DEF OneOwner
  <1>3. OneOwner'
    BY <1>1 DEF OneOwner
  <1>4. EventsCurrent'
    <2>1. ASSUME NEW u \in Threads, NEW e \in events[u], u # t
          PROVE  e[1] # fd
      <3>1. e \in (Fds \cup {Listen}) \X {"in", "out", "err"}
        BY DEF TypeOK, NetTypeOK, LocalTypeOK
      <3> QED
        BY <1>2, <2>1, <3>1 DEF EventsCurrent
    <2> QED
      BY <1>1, <2>1 DEF EventsCurrent
  <1>5. InHand'
    <2>1. ASSUME NEW u \in Threads, u # t,
                 pc[u] \in {"mod", "del", "get", "send", "done", "close"}
          PROVE  /\ clientSocket[u] \in Fds
                 /\ pc[u] # "del" => clientSocket[u] # fd
      <3>1. clientSocket[u] \in Fds
        BY <2>1 DEF TypeOK, NetTypeOK, LocalTypeOK
      <3>2. pc[u] # "del" => interest[u][clientSocket[u]] # "none"
        BY <2>1 DEF InHand
      <3> QED
        BY <1>2, <2>1, <3>1, <3>2
    <2>2. ASSUME NEW u \in Threads, u # t
          PROVE  /\ pc'[u] = "mod" => /\ interest'[u][clientSocket'[u]] = "in"
                                       /\ Owed(clientSocket[u])'
                 /\ pc'[u] = "del" => interest'[u][clientSocket'[u]] = "none"
                 /\ pc'[u] \in {"get", "send", "done", "close"} =>
                      interest'[u][clientSocket'[u]] = "out"
                 /\ pc'[u] \in {"mod", "get", "send", "done", "close"} =>
                      \A e \in events'[u] : e[1] # clientSocket'[u]
      BY <1>1, <2>1, <2>2, OwedFrame DEF InHand
    <2>3. /\ pc'[t] = "del" => interest'[t][clientSocket'[t]] = "none"
          /\ pc'[t] \in {"epoll", "del"}
      BY <1>1
    <2>4. \A u \in Threads : u # t => clientSocket'[u] = clientSocket[u]
      OBVIOUS
    <2> QED
      BY <2>2, <2>3, <2>4 DEF InHand
  <1>6. ResponsesOwed'
    BY <1>1, OwedFrame DEF ResponsesOwed
  <1> QED
    BY <1>3, <1>4, <1>5, <1>6

\* DeleteMsg: only the thread that is about to close the descriptor waits for
\* the message it deletes.
LEMMA SendDoneInv ==
  ASSUME TypeOK, CalmInv, UNCHANGED worker, NEW t \in Threads, SendDone(t)
  PROVE  LoopInv'
  <1> USE DEF CalmInv, LoopInv
  <1> DEFINE fd == clientSocket[t]
  <1>1. /\ pc[t] = "done" /\ fd \in Fds
        /\ \A u \in Threads : u # t => pc'[u] = pc[u]
        /\ pc'[t] = "close"
        /\ UNCHANGED <<interest, clientSocket, events, queue, worker>>
        /\ map' = [map EXCEPT ![fd] = NoConn]
    BY DEF SendDone, Goto, TCPDataSend!Erase, kernel, TypeOK, NetTypeOK, LocalTypeOK
  <1>2. interest[t][fd] = "out" /\ \A e \in events[t] : e[1] # fd
    BY <1>1 DEF InHand
  <1>3. \A gd \in Fds : gd # fd /\ Owed(gd) => Owed(gd)'
    BY <1>1 DEF Owed, TypeOK, NetTypeOK, TCPDataSend!TypeOK
  <1>4. \A u \in Threads : interest[u][fd] # "none" => u = t
    BY <1>1, <1>2 DEF OneOwner
  <1>5. OneOwner'
    BY <1>1 DEF OneOwner
  <1>6. EventsCurrent'
    BY <1>1 DEF EventsCurrent
  <1>7. InHand'
    <2>1. ASSUME NEW u \in Threads, u # t, pc[u] = "mod"
          PROVE  Owed(clientSocket[u])'
      <3>1. clientSocket[u] \in Fds
        BY <2>1 DEF TypeOK, NetTypeOK, LocalTypeOK
      <3>2. Owed(clientSocket[u]) /\ interest[u][clientSocket[u]] = "in"
        BY <2>1 DEF InHand
      <3>3. clientSocket[u] # fd
        BY <1>4, <2>1, <3>2
      <3> QED
        BY <1>1, <1>3, <3>1, <3>2, <3>3 DEF Owed
    <2> QED
      BY <1>1, <1>2, <2>1 DEF InHand
  <1>8. ResponsesOwed'
    BY <1>1, <1>3, <1>4 DEF ResponsesOwed
  <1> QED
    BY <1>5, <1>6, <1>7, <1>8

\* Two handlers of the code are never entered: no event is unknown, and send
\* meets no error.
LEMMA NoErrors ==
  ASSUME TypeOK, CalmInv, reset = {}, NEW t \in Threads
  PROVE  ~SendError(t) /\ \A fd \in Fds : ~HandleUnknown(t, fd)
  <1>1. ~SendError(t)
    <2> SUFFICES ASSUME SendError(t) PROVE FALSE
      OBVIOUS
    <2>1. clientSocket[t] \in Fds
      BY DEF SendError, TypeOK, NetTypeOK, LocalTypeOK
    <2>2. interest[t][clientSocket[t]] = "out"
      BY DEF SendError, CalmInv, LoopInv, InHand
    <2> QED
      BY <2>1, <2>2 DEF SendError, OS!SendFails, OS!Open, TypeOK, NetTypeOK, OS!TypeOK
  <1>2. ASSUME NEW fd \in Fds, HandleUnknown(t, fd)
        PROVE  FALSE
    <2>1. interest[t][fd] = "err"
      BY <1>2 DEF HandleUnknown, Take, CalmInv, LoopInv, EventsCurrent
    <2> QED
      BY <2>1 DEF TypeOK, NetTypeOK, OS!TypeOK
  <1> QED
    BY <1>1, <1>2

LEMMA ThreadLoopInv ==
  ASSUME TypeOK, CalmInv, reset = {}, UNCHANGED worker,
         NEW t \in Threads, Thread(t)
  PROVE  LoopInv'
  <1>1. CASE \/ StartServer(t) \/ HandleListen(t) \/ AcceptLock(t) \/ AcceptOne(t)
             \/ SetNonblocking(t) \/ AcceptBreak(t)
             \/ GetMsgTest(t) \/ GetMsgCopy(t) \/ SendSome(t) \/ SendAgain(t)
    BY <1>1, ThreadUndisturbed, UndisturbedInv
  <1>2. CASE EpollWait(t) \/ AddSocket(t) \/ Rearm(t) \/ SendDone(t)
    BY <1>2, EpollWaitInv, AddSocketInv, RearmInv, SendDoneInv
  <1>3. CASE CloseSocket(t)
    <2> DEFINE fd == clientSocket[t]
    <2>1. /\ pc[t] = "close" /\ fd \in Fds /\ OS!Close(fd)
          /\ \A u \in Threads : u # t => pc'[u] = pc[u]
          /\ pc'[t] = "epoll"
          /\ UNCHANGED <<clientSocket, events, map, queue, worker>>
      BY <1>3 DEF CloseSocket, Goto, mapVars, TypeOK, NetTypeOK, LocalTypeOK
    <2>2. interest[t][fd] = "out" /\ \A e \in events[t] : e[1] # fd
      BY <2>1 DEF CalmInv, LoopInv, InHand
    <2> QED
      BY <2>1, <2>2, CloseInv
  <1>4. ASSUME NEW fd \in Fds, ReadFails(t, fd)
        PROVE  LoopInv'
    <2>1. /\ <<fd, "in">> \in events[t] /\ pc[t] = "epoll" /\ OS!Close(fd)
          /\ UNCHANGED <<map, queue, worker>>
          /\ \A u \in Threads : u # t => /\ pc'[u] = pc[u]
                                        /\ clientSocket'[u] = clientSocket[u]
                                        /\ events'[u] = events[u]
          /\ pc'[t] = "del" /\ clientSocket'[t] = fd
          /\ events'[t] = events[t] \ {<<fd, "in">>}
      BY <1>4 DEF ReadFails, Take, SetSocket, Goto, mapVars,
                  TypeOK, NetTypeOK, LocalTypeOK
    <2>2. interest[t][fd] = "in"
      BY <2>1 DEF CalmInv, LoopInv, EventsCurrent
    <2>3. ASSUME NEW e \in events[t], e[1] = fd
          PROVE  e = <<fd, "in">>
      <3>1. e = <<e[1], e[2]>>
        BY DEF TypeOK, NetTypeOK, LocalTypeOK
      <3> QED
        BY <2>2, <2>3, <3>1 DEF CalmInv, LoopInv, EventsCurrent
    <2>4. \A e \in events'[t] : e[1] # fd
      BY <2>1, <2>3
    <2> QED
      BY <2>1, <2>2, <2>4, CloseInv
  <1>5. ASSUME NEW fd \in Fds,
               ReadRequest(t, fd) \/ ReadNothing(t, fd) \/ WriteHandle(t, fd)
        PROVE  LoopInv'
    BY <1>5, ReadInv, WriteHandleInv
  <1> QED
    BY <1>1, <1>2, <1>3, <1>4, <1>5, NoErrors DEF Thread

------------------------------------------------------------------------------
\* The sockets in preparation stay as they are in a step that leaves their
\* descriptors and registrations alone, and prepares no other.
LEMMA NewSocketsFrame ==
  ASSUME TypeOK, NewSockets,
         \A t \in Threads :
           pc'[t] \in {"nonblock", "add"} =>
             /\ pc[t] \in {"nonblock", "add"}
             /\ accepted'[t] = accepted[t]
             /\ sock'[accepted[t]] = sock[accepted[t]]
             /\ \A u \in Threads : interest'[u][accepted[t]] = interest[u][accepted[t]]
  PROVE  NewSockets'
  BY DEF NewSockets, OS!Open

\* A thread that closes, or switches, a socket it has registered touches none
\* in preparation.
LEMMA RegisteredNotNew ==
  ASSUME TypeOK, NewSockets, NEW t \in Threads, NEW fd \in Fds,
         interest[t][fd] # "none",
         \A u \in Threads, gd \in Fds : gd # fd => /\ sock'[gd] = sock[gd]
                                                /\ interest'[u][gd] = interest[u][gd],
         accepted' = accepted,
         \A u \in Threads : pc'[u] \in {"nonblock", "add"} => pc'[u] = pc[u]
  PROVE  NewSockets'
  <1>1. ASSUME NEW u \in Threads, pc'[u] \in {"nonblock", "add"}
        PROVE  /\ pc[u] \in {"nonblock", "add"}
               /\ accepted[u] \in Fds \ {fd}
    BY <1>1 DEF NewSockets, TypeOK, NetTypeOK, LocalTypeOK
  <1> QED
    BY <1>1, NewSocketsFrame

LEMMA AcceptNewSockets ==
  ASSUME TypeOK, NewSockets, NEW t \in Threads, AcceptOne(t)
  PROVE  NewSockets'
  <1>1. PICK c \in backlog, fd \in Fds :
          /\ OS!Accept(c, fd)
          /\ accepted' = [accepted EXCEPT ![t] = fd]
    BY DEF AcceptOne
  <1>2. /\ interest' = interest /\ sock[fd] = NoConn
        /\ sock'[fd] # NoConn /\ \A gd \in Fds : gd # fd => sock'[gd] = sock[gd]
    BY <1>1, NetServerConstants
    DEF OS!Accept, OS!Open, TypeOK, NetTypeOK, OS!TypeOK
  <1>3. /\ \A u \in Threads : u # t => pc'[u] = pc[u] /\ accepted'[u] = accepted[u]
        /\ accepted'[t] = fd /\ pc[t] = "accepting"
    BY <1>1 DEF AcceptOne, Goto, TypeOK, NetTypeOK, LocalTypeOK
  <1>4. \A u \in Threads : interest[u][fd] = "none"
    BY <1>2 DEF TypeOK, NetTypeOK, OS!TypeOK, OS!Open
  <1>5. \A u \in Threads :
          pc[u] \in {"nonblock", "add"} => accepted[u] # fd /\ accepted[u] \in Fds
    BY <1>2 DEF NewSockets, OS!Open, TypeOK, NetTypeOK, LocalTypeOK
  <1> QED
    BY <1>2, <1>3, <1>4, <1>5 DEF NewSockets, OS!Open

LEMMA AddNewSockets ==
  ASSUME TypeOK, NewSockets, NEW t \in Threads, AddSocket(t)
  PROVE  NewSockets'
  <1> DEFINE fd == accepted[t]
  <1>1. /\ fd \in Fds /\ pc[t] = "add" /\ sock' = sock
        /\ interest' = [interest EXCEPT ![t][fd] = "in"]
    BY DEF AddSocket, OS!EpollAdd, OS!Register, NewSockets,
           TypeOK, NetTypeOK, LocalTypeOK
  <1>2. \A u \in Threads, gd \in Fds : gd # fd => interest'[u][gd] = interest[u][gd]
    BY <1>1 DEF TypeOK, NetTypeOK, OS!TypeOK
  <1>3. /\ \A u \in Threads : u # t => pc'[u] = pc[u] /\ accepted'[u] = accepted[u]
        /\ pc'[t] = "accepting"
    BY DEF AddSocket, Goto, TypeOK, NetTypeOK, LocalTypeOK
  <1>4. \A u \in Threads :
          pc'[u] \in {"nonblock", "add"} => accepted[u] \in Fds \ {fd}
    BY <1>1, <1>3 DEF NewSockets, TypeOK, NetTypeOK, LocalTypeOK
  <1> QED
    BY <1>1, <1>2, <1>3, <1>4, NewSocketsFrame

LEMMA ThreadNewSockets ==
  ASSUME TypeOK, CalmInv, reset = {}, NEW t \in Threads, Thread(t)
  PROVE  NewSockets'
  <1> USE DEF CalmInv
  <1>1. CASE AcceptOne(t) \/ AddSocket(t)
    BY <1>1, AcceptNewSockets, AddNewSockets
  <1>2. CASE StartServer(t)
    <2>1. /\ interest' = [interest EXCEPT ![t][Listen] = "in"] /\ sock' = sock
          /\ accepted' = accepted
          /\ \A u \in Threads : pc'[u] \in {"nonblock", "add"} => pc'[u] = pc[u]
      BY <1>2 DEF StartServer, OS!WatchListen, OS!Register, Goto,
                  TypeOK, NetTypeOK, LocalTypeOK
    <2>2. \A u \in Threads, fd \in Fds : interest'[u][fd] = interest[u][fd]
      BY <2>1, NetServerConstants DEF TypeOK, NetTypeOK, OS!TypeOK
    <2>3. \A u \in Threads : pc[u] \in {"nonblock", "add"} => accepted[u] \in Fds
      BY DEF TypeOK, NetTypeOK, LocalTypeOK
    <2> QED
      BY <2>1, <2>2, <2>3, NewSocketsFrame
  <1>3. CASE \/ EpollWait(t) \/ HandleListen(t) \/ AcceptLock(t) \/ SetNonblocking(t)
             \/ AcceptBreak(t) \/ GetMsgTest(t) \/ GetMsgCopy(t) \/ SendSome(t)
             \/ SendAgain(t) \/ SendDone(t)
             \/ \E fd \in Fds : \/ ReadRequest(t, fd) \/ ReadNothing(t, fd)
                               \/ WriteHandle(t, fd)
    <2>1. sock' = sock /\ interest' = interest /\ accepted' = accepted
      BY <1>3
      DEF EpollWait, HandleListen, AcceptLock, SetNonblocking, AcceptBreak,
          GetMsgTest, GetMsgCopy, SendSome, SendAgain, SendDone, ReadRequest,
          ReadNothing, WriteHandle, OS!Harvest, OS!FillUp, OS!Receive, kernel, local
    <2>2. \A u \in Threads :
            pc'[u] \in {"nonblock", "add"} => pc[u] \in {"nonblock", "add"}
      BY <1>3
      DEF EpollWait, HandleListen, AcceptLock, SetNonblocking, AcceptBreak,
          GetMsgTest, GetMsgCopy, SendSome, SendAgain, SendDone, ReadRequest,
          ReadNothing, WriteHandle, Goto, local, TypeOK, NetTypeOK, LocalTypeOK
    <2> QED
      BY <2>1, <2>2, NewSocketsFrame
  <1>4. CASE Rearm(t)
    <2> DEFINE fd == clientSocket[t]
    <2>1. /\ pc[t] \in {"mod", "del"} /\ fd \in Fds
          /\ sock' = sock /\ accepted' = accepted
          /\ \A u \in Threads : pc'[u] \in {"nonblock", "add"} => pc'[u] = pc[u]
      BY <1>4 DEF Rearm, Goto, OS!EpollCtl, TypeOK, NetTypeOK, LocalTypeOK
    <2>2. CASE interest[t][fd] = "none"
      BY <1>4, <2>1, <2>2, NewSocketsFrame DEF Rearm, OS!EpollCtl
    <2>3. CASE interest[t][fd] # "none"
      <3>1. \A u \in Threads, gd \in Fds : gd # fd =>
              interest'[u][gd] = interest[u][gd]
        BY <1>4, <2>1, <2>3
        DEF Rearm, OS!EpollCtl, OS!Register, TypeOK, NetTypeOK, OS!TypeOK
      <3> QED
        BY <2>1, <2>3, <3>1, RegisteredNotNew
    <2> QED
      BY <2>2, <2>3
  <1>5. ASSUME NEW fd \in Fds, OS!Close(fd), interest[t][fd] # "none",
               accepted' = accepted,
               \A u \in Threads : pc'[u] \in {"nonblock", "add"} => pc'[u] = pc[u]
        PROVE  NewSockets'
    <2>1. \A u \in Threads, gd \in Fds : gd # fd => /\ sock'[gd] = sock[gd]
                                                 /\ interest'[u][gd] = interest[u][gd]
      BY <1>5 DEF OS!Close, TypeOK, NetTypeOK, OS!TypeOK
    <2> QED
      BY <1>5, <2>1, RegisteredNotNew
  <1>6. CASE CloseSocket(t)
    <2>1. /\ clientSocket[t] \in Fds /\ OS!Close(clientSocket[t])
          /\ interest[t][clientSocket[t]] = "out" /\ accepted' = accepted
          /\ \A u \in Threads : pc'[u] \in {"nonblock", "add"} => pc'[u] = pc[u]
      BY <1>6 DEF CloseSocket, Goto, LoopInv, InHand, TypeOK, NetTypeOK, LocalTypeOK
    <2> QED
      BY <1>5, <2>1
  <1>7. ASSUME NEW fd \in Fds, ReadFails(t, fd)
        PROVE  NewSockets'
    <2>1. /\ <<fd, "in">> \in events[t] /\ OS!Close(fd) /\ accepted' = accepted
          /\ \A u \in Threads : pc'[u] \in {"nonblock", "add"} => pc'[u] = pc[u]
      BY <1>7 DEF ReadFails, Take, Goto, TypeOK, NetTypeOK, LocalTypeOK
    <2>2. interest[t][fd] = "in"
      BY <2>1 DEF LoopInv, EventsCurrent
    <2> QED
      BY <1>5, <2>1, <2>2
  <1> QED
    BY <1>1, <1>2, <1>3, <1>4, <1>6, <1>7, NoErrors DEF Thread

\* No step breaks the invariant as long as nobody has reset a connection.
LEMMA NextCalmInv == TypeOK /\ reset = {} /\ CalmInv /\ [Next]_vars => CalmInv'
  <1> SUFFICES ASSUME TypeOK, reset = {}, CalmInv, [Next]_vars PROVE CalmInv'
    OBVIOUS
  <1>2. ASSUME NEW t \in Threads, NetThread(t)
        PROVE  CalmInv'
    BY <1>2, ThreadLoopInv, ThreadNewSockets DEF NetThread, CalmInv
  <1>3. CASE \/ UNCHANGED vars \/ HttpThread \/ (UNCHANGED worker /\ Peers)
             \/ \E t \in Threads : UNCHANGED worker /\ Wakeup(t)
    <2>1. \/ UNCHANGED vars
          \/ HttpServer
          \/ UNCHANGED worker /\ Peers
          \/ UNCHANGED worker /\ (\E t \in Threads : Wakeup(t))
      BY <1>3 DEF HttpThread
    <2>2. Undisturbed
      <3>1. CASE UNCHANGED vars
        BY <3>1, OwedFrame DEF vars, kernel, mapVars, local, Undisturbed
      <3> QED
        BY <2>1, <3>1, OthersUndisturbed
    <2>3. UNCHANGED <<sock, interest, pc, accepted>>
      BY <2>1
      DEF vars, kernel, local, HttpServer, RecvRequestData, InsertErase, InsertMsg,
          Peers, OS!Peer, OS!Connect, OS!RequestPart, OS!Request, OS!Fin, OS!Reset,
          OS!Drain, Wakeup
    <2>4. NewSockets'
      BY <2>3, NewSocketsFrame DEF CalmInv
    <2> QED
      BY <2>2, <2>4, UndisturbedInv DEF CalmInv
  <1> QED
    BY <1>2, <1>3 DEF Next

LEMMA InitCalmInv == Init => CalmInv
  <1> SUFFICES ASSUME Init PROVE CalmInv
    OBVIOUS
  <1>1. /\ \A t \in Threads, fd \in Fds : interest[t][fd] = "none"
        /\ \A t \in Threads : pc[t] = "start" /\ events[t] = {}
    BY DEF Init, NetInit, OS!Init
  <1> QED
    BY <1>1 DEF CalmInv, LoopInv, OneOwner, EventsCurrent, InHand, ResponsesOwed,
                NewSockets

\* A reset is not taken back.
LEMMA ResetsStay == TypeOK /\ [Next]_vars => reset \subseteq reset'
  <1> SUFFICES ASSUME TypeOK, [Next]_vars PROVE reset \subseteq reset'
    OBVIOUS
  <1>1. [OS!Next]_kernel
    BY UsesSockets
  <1> QED
    BY <1>1
    DEF kernel, OS!Next, OS!Peer, OS!Connect, OS!RequestPart, OS!Request, OS!Fin,
        OS!Reset, OS!Drain, OS!WatchListen, OS!Harvest, OS!EpollCtl, OS!EpollAdd,
        OS!Accept, OS!Receive, OS!FillUp, OS!Close

\* Until a peer resets a connection, no thread acts on a stale event, and whoever
\* waits for a response has one coming.
THEOREM CalmInvariance == Spec => [](reset = {} => CalmInv)
  <1>1. Init => (reset = {} => CalmInv)
    BY InitCalmInv
  <1>2. TypeOK /\ (reset = {} => CalmInv) /\ [Next]_vars => (reset' = {} => CalmInv')
    BY ResetsStay, NextCalmInv
  <1>3. (reset = {} => CalmInv)' <=> (reset' = {} => CalmInv')
    OBVIOUS
  <1> QED
    BY <1>1, <1>2, <1>3, TypeCorrect, PTL DEF Spec

\* All threads asleep, one of them waits for a key that is absent from the map
\* (SomeoneAwake) and owed (ResponsesOwed): so it is in the queue or in work.
LEMMA SomeMessageInWork ==
  TypeOK /\ CalmInv /\ TCPDataSend!SomeoneAwake => NoTotalHang
  <1> SUFFICES ASSUME TypeOK, CalmInv, TCPDataSend!SomeoneAwake,
                      Threads # {}, waiters = Threads, queue = <<>>,
                      worker.stage = "pop"
               PROVE  FALSE
    BY DEF NoTotalHang
  <1>1. PICK t \in Threads : map[index[t]] = NoConn
    BY DEF TCPDataSend!SomeoneAwake
  <1>2. pc[t] = "get" /\ clientSocket[t] \in Fds
    <2>1. index[t] # NoConn
      BY DEF TypeOK, NetTypeOK, TCPDataSend!TypeOK
    <2> QED
      BY <2>1 DEF TypeOK, NetTypeOK, LocalTypeOK
  <1>3. index[t] = clientSocket[t]
    BY <1>2 DEF TypeOK, NetTypeOK, LocalTypeOK
  <1>4. Owed(clientSocket[t])
    BY <1>2 DEF CalmInv, LoopInv, InHand, ResponsesOwed
  <1>5. worker.fd = NoConn
    BY DEF TypeOK, WorkerTypeOK
  <1> QED
    BY <1>1, <1>2, <1>3, <1>4, <1>5, NetServerConstants DEF Owed

\* The server as a whole is never stuck until a peer resets a connection: when all
\* its network threads wait for responses, the HTTP thread has a message to work on.
THEOREM NeverAllWait == Spec => [](reset = {} => NoTotalHang)
  <1>1. Init => TCPDataSend!SomeoneAwake
    BY DEF Init, NetInit, TCPDataSend!Init, TCPDataSend!SomeoneAwake
  <1>2. TypeOK /\ TCPDataSend!SomeoneAwake /\ [Next]_vars
          => TCPDataSend!SomeoneAwake'
    BY UsesMsgMap, MapKeepsInvariants DEF TypeOK, NetTypeOK
  <1>3. Spec => []TCPDataSend!SomeoneAwake
    BY <1>1, <1>2, TypeCorrect, PTL DEF Spec
  <1> QED
    BY <1>3, TypeCorrect, CalmInvariance, SomeMessageInWork, PTL
------------------------------------------------------------------------------
\* Between the two halves of InsertMsg there is nothing under the key: only the
\* HTTP thread inserts, and it is busy.
ErasedFirst == worker.stage = "insert" => map[worker.fd] = NoConn

LEMMA NextErasedFirst == TypeOK /\ ErasedFirst /\ [Next]_vars => ErasedFirst'
  <1> SUFFICES ASSUME TypeOK, ErasedFirst, [Next]_vars
               PROVE  ErasedFirst'
    OBVIOUS
  <1> USE DEF TypeOK, NetTypeOK, ErasedFirst
  <1>1. CASE InsertErase
    BY <1>1 DEF InsertErase, TCPDataSend!Erase, WorkerTypeOK, TCPDataSend!TypeOK
  <1>2. CASE RecvRequestData \/ InsertMsg
    BY <1>2 DEF RecvRequestData, InsertMsg
  <1>3. CASE worker' = worker /\ \A fd \in Fds : map'[fd] \in {map[fd], NoConn}
    BY <1>3 DEF WorkerTypeOK
  <1>4. ASSUME NEW t \in Threads, Thread(t)
        PROVE  \A fd \in Fds : map'[fd] \in {map[fd], NoConn}
    <2>1. map' = map \/ \E fd \in Fds : TCPDataSend!Erase(fd)
      BY <1>4
      DEF Thread, StartServer, EpollWait, HandleListen, AcceptLock, AcceptOne,
          SetNonblocking, AddSocket, AcceptBreak, Rearm, GetMsgTest, GetMsgCopy,
          SendSome, SendAgain, SendError, SendDone, CloseSocket, ReadRequest,
          ReadNothing, ReadFails, HandleUnknown, WriteHandle, mapVars, LocalTypeOK,
          TCPDataSend!MsgGetCall, TCPDataSend!MsgGetTest, TCPDataSend!MsgGetCopy
    <2> QED
      BY <2>1 DEF TCPDataSend!Erase, TCPDataSend!TypeOK
  <1>5. CASE UNCHANGED <<map, worker>>
    BY <1>5
  <1> QED
    BY <1>1, <1>2, <1>3, <1>4, <1>5
    DEF Next, NetThread, HttpThread, HttpServer, Wakeup, Peers, mapVars, vars,
        TCPDataSend!SpuriousWakeup

\* Whatever an earlier connection left under the descriptor, after InsertMsg the
\* map holds the response just inserted, with any number of network threads.
THEOREM InsertMsgReplaces == Spec => InsertReplaces
  <1>1. Init => ErasedFirst
    BY DEF Init, ErasedFirst
  <1>2. TypeOK /\ ErasedFirst /\ [Next]_vars =>
          [worker.stage = "insert" /\ worker'.stage = "pop" =>
             map'[worker.fd] = worker.req]_vars
    <2> SUFFICES ASSUME TypeOK, ErasedFirst, Next, worker.stage = "insert",
                        worker'.stage = "pop"
                 PROVE  map'[worker.fd] = worker.req
      OBVIOUS
    <2>1. InsertMsg
      BY DEF Next, NetThread, HttpThread, HttpServer, RecvRequestData, InsertErase
    <2> QED
      BY <2>1 DEF InsertMsg, TCPDataSend!MsgInsert, ErasedFirst, TypeOK, NetTypeOK,
                  WorkerTypeOK, TCPDataSend!TypeOK
  <1> QED
    BY <1>1, <1>2, NextErasedFirst, TypeCorrect, PTL DEF Spec, InsertReplaces
==============================================================================
