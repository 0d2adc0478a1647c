--------------------------- MODULE MsgQueueProofs ---------------------------
(***************************************************************************)
(* Theorems about MsgQueue for any number of producers, any message set    *)
(* and any bound on the queue: the wait loop of MsgPop never lets a        *)
(* consumer reach front() on an empty deque, no wake-up is lost, and the   *)
(* queue implements a first-in first-out channel.  All of them rest on the *)
(* single consumer the program starts (assumption OneConsumer).            *)
(***************************************************************************)
EXTENDS MsgQueue, SequenceTheorems, TLAPS

\* In the initial state nobody is inside the queue.
LEMMA InitInv == Init => Inv
  <1> SUFFICES ASSUME Init PROVE Inv
    OBVIOUS
  <1>1. TypeOK
    BY QueueConstants, EmptySeq DEF Init, TypeOK
  <1> QED
    BY <1>1 DEF Init, Inv, SleepersTest, NoUnderflow, NoLostWakeup

\* Every step of a producer or a consumer keeps the invariant.
LEMMA NextInv == Inv /\ [Next]_vars => Inv'
  <1> SUFFICES ASSUME Inv, [Next]_vars PROVE Inv'
    OBVIOUS
  <1> USE DEF Inv
  <1>1. ASSUME NEW p \in Producers, NEW m \in Messages, MsgPushLock(p, m)
        PROVE  Inv'
    <2>1. TypeOK'
      BY <1>1, QueueConstants DEF MsgPushLock, TypeOK
    <2> QED
      BY <1>1, <2>1 DEF MsgPushLock, SleepersTest, NoUnderflow, NoLostWakeup
  <1>2. ASSUME NEW p \in Producers, MsgPush(p)
        PROVE  Inv'
    <2>1. pushing[p] \in Messages
      BY <1>2 DEF MsgPush, TypeOK
    <2>2. queue' \in Seq(Messages) /\ queue' # <<>>
      BY <1>2, <2>1, AppendProperties DEF MsgPush, TypeOK
    <2>3. waiters' = {}
      <3>1. CASE waiters = {}
        BY <1>2, <3>1 DEF MsgPush, NotifyOne
      <3>2. CASE \E w \in waiters : waiters' = waiters \ {w}
        <4>1. PICK w \in waiters : waiters' = waiters \ {w}
          BY <3>2
        <4>2. \A v \in waiters : v = w
          BY OneConsumer, <4>1 DEF TypeOK
        <4> QED
          BY <4>1, <4>2
      <3> QED
        BY <1>2, <3>1, <3>2 DEF MsgPush, NotifyOne
    <2>4. TypeOK'
      BY <1>2, <2>2, <2>3, QueueConstants DEF MsgPush, TypeOK
    <2> QED
      BY <1>2, <2>2, <2>3, <2>4
      DEF MsgPush, SleepersTest, NoUnderflow, NoLostWakeup
  <1>3. ASSUME NEW c \in Consumers, MsgPopCall(c)
        PROVE  Inv'
    <2>1. TypeOK'
      BY <1>3 DEF MsgPopCall, TypeOK
    <2> QED
      BY <1>3, <2>1
      DEF MsgPopCall, TypeOK, SleepersTest, NoUnderflow, NoLostWakeup
  <1>4. ASSUME NEW c \in Consumers, MsgPopTest(c)
        PROVE  Inv'
    <2>1. CASE queue = <<>>
      <3>1. TypeOK'
        BY <1>4, <2>1 DEF MsgPopTest, TypeOK
      <3> QED
        BY <1>4, <2>1, <3>1
        DEF MsgPopTest, SleepersTest, NoUnderflow, NoLostWakeup
    <2>2. CASE queue # <<>>
      <3>1. TypeOK'
        BY <1>4, <2>2 DEF MsgPopTest, TypeOK
      <3>2. waiters' = {}
        BY <1>4, <2>2 DEF MsgPopTest, NoLostWakeup
      <3> QED
        BY <1>4, <2>2, <3>1, <3>2
        DEF MsgPopTest, SleepersTest, NoUnderflow, NoLostWakeup
    <2> QED
      BY <2>1, <2>2
  <1>5. ASSUME NEW c \in Consumers, SpuriousWakeup(c)
        PROVE  Inv'
    <2>1. TypeOK'
      BY <1>5 DEF SpuriousWakeup, TypeOK
    <2> QED
      BY <1>5, <2>1
      DEF SpuriousWakeup, SleepersTest, NoUnderflow, NoLostWakeup
  <1>6. ASSUME NEW c \in Consumers, MsgPopTake(c)
        PROVE  Inv'
    <2>1. Head(queue) \in Messages /\ Tail(queue) \in Seq(Messages)
      BY <1>6, HeadTailProperties DEF MsgPopTake, TypeOK
    <2>2. TypeOK'
      BY <1>6, <2>1 DEF MsgPopTake, TypeOK
    <2>3. \A d \in Consumers : d = c
      BY OneConsumer
    <2>4. waiters = {}
      BY <1>6, <2>3 DEF MsgPopTake, SleepersTest, TypeOK
    <2>5. popping'[c] = "out"
      BY <1>6 DEF MsgPopTake, TypeOK
    <2> QED
      BY <1>6, <2>2, <2>3, <2>4, <2>5
      DEF MsgPopTake, SleepersTest, NoUnderflow, NoLostWakeup
  <1>7. ASSUME NEW c \in Consumers, MsgPopTear(c)
        PROVE  Inv'
    BY <1>7
    DEF MsgPopTear, TypeOK, SleepersTest, NoUnderflow, NoLostWakeup
  <1>8. CASE UNCHANGED vars
    BY <1>8 DEF vars, TypeOK, SleepersTest, NoUnderflow, NoLostWakeup
  <1> QED
    BY <1>1, <1>2, <1>3, <1>4, <1>5, <1>6, <1>7, <1>8
    DEF Next, Produce, Consume

\* The inductive invariant holds in every reachable state.
THEOREM Invariance == Spec => []Inv
  BY InitInv, NextInv, PTL DEF Spec

\* Types, and the producer inside MsgPush is the owner of the mutex.
THEOREM TypeCorrect == Spec => []TypeOK
  <1>1. Inv => TypeOK
    BY DEF Inv
  <1> QED
    BY Invariance, <1>1, PTL

\* front() is never called on an empty deque, although MsgPop calls it after
\* its lock object has released the mutex.
THEOREM FrontFindsElement == Spec => []NoUnderflow
  <1>1. Inv => NoUnderflow
    BY DEF Inv
  <1> QED
    BY Invariance, <1>1, PTL

\* The consumer never sleeps while a message is queued.
THEOREM WakeupsArrive == Spec => []NoLostWakeup
  <1>1. Inv => NoLostWakeup
    BY DEF Inv
  <1> QED
    BY Invariance, <1>1, PTL

\* Every step of the queue is a step of the channel or leaves it unchanged.
LEMMA ChannelStep == Inv /\ [Next]_vars => [Fifo!Next]_<<queue, handed>>
  <1> SUFFICES ASSUME Inv, [Next]_vars
               PROVE  Fifo!Next \/ UNCHANGED <<queue, handed>>
    OBVIOUS
  <1>1. ASSUME NEW p \in Producers, MsgPush(p)
        PROVE  Fifo!Next
    <2>1. pushing[p] \in Messages
      BY <1>1 DEF MsgPush, Inv, TypeOK
    <2>2. Fifo!Send(pushing[p])
      BY <1>1 DEF MsgPush, Fifo!Send
    <2> QED
      BY <2>1, <2>2 DEF Fifo!Next
  <1>2. ASSUME NEW c \in Consumers, MsgPopTake(c)
        PROVE  Fifo!Next
    <2>1. Fifo!Recv(c)
      BY <1>2 DEF MsgPopTake, Fifo!Recv
    <2> QED
      BY <2>1 DEF Fifo!Next
  <1> QED
    BY <1>1, <1>2
    DEF Next, Produce, Consume, MsgPushLock, MsgPopCall, MsgPopTest,
        SpuriousWakeup, MsgPopTear, vars

\* The queue implements the channel: MsgPush and MsgPop neither lose nor
\* duplicate a message, and none overtakes another.
THEOREM QueueIsChannel == Spec => IsFifoChannel
  <1>1. Init => Fifo!Init
    BY DEF Init, Fifo!Init
  <1> QED
    BY <1>1, Invariance, ChannelStep, PTL
    DEF Spec, IsFifoChannel, Fifo!Spec
==============================================================================
