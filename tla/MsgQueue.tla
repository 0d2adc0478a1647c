------------------------------ MODULE MsgQueue ------------------------------
(***************************************************************************)
(* The blocking queue of MsgQueue.cpp at the granularity of its mutex.     *)
(*                                                                         *)
(* MsgPush runs entirely under the mutex.  MsgPop tests the queue and      *)
(* sleeps under the mutex, but its lock object is local to the if-block:   *)
(* the mutex is free again when the front element is moved out and popped. *)
(* A push that is inside its critical section can therefore overlap that   *)
(* step.  The two then access one std::queue without synchronisation,      *)
(* which the language leaves undefined: either the operations take effect  *)
(* one after the other (they work on opposite ends of the deque) or, when  *)
(* the push is relocating the deque, its cursors are torn.                 *)
(***************************************************************************)
EXTENDS Naturals, Sequences

CONSTANTS
  Producers,   \* threads that call MsgPush (the network threads)
  Consumers,   \* threads that call MsgPop (the HTTP threads)
  Messages,    \* the messages that are queued
  MaxQueue,    \* bound on the length of the queue, the code has none
  Free,        \* the mutex has no owner
  NoMsg        \* a producer that is not inside MsgPush

\* Only one HTTP thread is started: th5, with httpServer2, is commented out.
ASSUME OneConsumer == \A c, d \in Consumers : c = d

ASSUME QueueConstants ==
  /\ Free \notin Producers
  /\ NoMsg \notin Messages
  /\ MaxQueue \in Nat

VARIABLES
  queue,     \* _queue
  mutex,     \* the owner of _mutex while inside MsgPush, or Free
  waiters,   \* consumers blocked in _condition.wait, not notified yet
  pushing,   \* the argument of the MsgPush each producer is executing
  popping,   \* how far each consumer is in MsgPop
  handed,    \* the message the last MsgPop of each consumer returned
  torn       \* an unsynchronised access has corrupted the deque

vars == <<queue, mutex, waiters, pushing, popping, handed, torn>>

Init ==
  /\ queue = <<>>
  /\ mutex = Free
  /\ waiters = {}
  /\ pushing = [p \in Producers |-> NoMsg]
  /\ popping = [c \in Consumers |-> "out"]
  /\ handed \in [Consumers -> Messages]
  /\ torn = FALSE

\* _condition.notify_one(): wakes one sleeping thread, any one, if there is one.
NotifyOne ==
  \/ /\ waiters = {}
     /\ UNCHANGED waiters
  \/ \E w \in waiters : waiters' = waiters \ {w}

\* MsgPush: the constructor of the lock_guard acquires the mutex.
MsgPushLock(p, m) ==
  /\ pushing[p] = NoMsg
  /\ mutex = Free
  /\ Len(queue) < MaxQueue
  /\ mutex' = p
  /\ pushing' = [pushing EXCEPT ![p] = m]
  /\ UNCHANGED <<queue, waiters, popping, handed, torn>>

\* Faulty variants: MsgPush without the notification, ...
MsgPushSilent(p) ==
  /\ mutex = p
  /\ queue' = Append(queue, pushing[p])
  /\ mutex' = Free
  /\ pushing' = [pushing EXCEPT ![p] = NoMsg]
  /\ UNCHANGED <<waiters, popping, handed, torn>>

\* ... and with an early return that leaves the mutex locked.
MsgPushKeepsLock(p) ==
  /\ mutex = p /\ pushing[p] # NoMsg
  /\ queue' = Append(queue, pushing[p])
  /\ NotifyOne
  /\ pushing' = [pushing EXCEPT ![p] = NoMsg]
  /\ UNCHANGED <<mutex, popping, handed, torn>>

\* MsgPush: the element is appended, one sleeper notified, the mutex released.
MsgPush(p) ==
  /\ pushing[p] # NoMsg
  /\ mutex = p
  /\ queue' = Append(queue, pushing[p])
  /\ NotifyOne
  /\ mutex' = Free
  /\ pushing' = [pushing EXCEPT ![p] = NoMsg]
  /\ UNCHANGED <<popping, handed, torn>>

\* RecvRequestData -> PopMsg -> MsgPop(msg, true).
MsgPopCall(c) ==
  /\ popping[c] = "out"
  /\ popping' = [popping EXCEPT ![c] = "test"]
  /\ UNCHANGED <<queue, mutex, waiters, pushing, handed, torn>>

\* Faulty variant: an if in place of the while, a sleeper tests only once.
MsgPopTestOnce(c) ==
  /\ popping[c] = "test" /\ mutex = Free
  /\ popping' = [popping EXCEPT ![c] = "take"]
  /\ waiters' = IF queue = <<>> THEN waiters \cup {c} ELSE waiters
  /\ UNCHANGED <<queue, mutex, pushing, handed, torn>>

\* The while loop of MsgPop: with the mutex, go on if the queue is not empty,
\* else release the mutex and sleep in one step.
MsgPopTest(c) ==
  /\ popping[c] = "test"
  /\ c \notin waiters
  /\ mutex = Free
  /\ IF queue = <<>>
       THEN waiters' = waiters \cup {c} /\ UNCHANGED popping
       ELSE popping' = [popping EXCEPT ![c] = "take"] /\ UNCHANGED waiters
  /\ UNCHANGED <<queue, mutex, pushing, handed, torn>>

\* A condition variable may wake a sleeper that nobody notified.
SpuriousWakeup(c) ==
  /\ c \in waiters
  /\ waiters' = waiters \ {c}
  /\ UNCHANGED <<queue, mutex, pushing, popping, handed, torn>>

\* Faulty variant: front() without pop().
MsgPopFront(c) ==
  /\ popping[c] = "take" /\ queue # <<>>
  /\ handed' = [handed EXCEPT ![c] = Head(queue)]
  /\ popping' = [popping EXCEPT ![c] = "out"]
  /\ UNCHANGED <<queue, mutex, waiters, pushing, torn>>

\* front() and pop(), after the lock object has gone out of scope.
MsgPopTake(c) ==
  /\ popping[c] = "take"
  /\ queue # <<>>
  /\ handed' = [handed EXCEPT ![c] = Head(queue)]
  /\ queue' = Tail(queue)
  /\ popping' = [popping EXCEPT ![c] = "out"]
  /\ UNCHANGED <<mutex, waiters, pushing, torn>>

\* The same statements with undefined behaviour: a push is inside its critical
\* section and relocates the deque, or the deque has no element to move out.
MsgPopTear(c) ==
  /\ popping[c] = "take"
  /\ mutex # Free \/ queue = <<>>
  /\ torn' = TRUE
  /\ UNCHANGED <<queue, mutex, waiters, pushing, popping, handed>>

Produce(p) == MsgPush(p) \/ \E m \in Messages : MsgPushLock(p, m)

Consume(c) ==
  MsgPopCall(c) \/ MsgPopTest(c) \/ MsgPopTake(c)

\* Nothing is specified of a run once the deque is torn.
Next ==
  /\ ~torn
  /\ \/ \E p \in Producers : Produce(p)
     \/ \E c \in Consumers : Consume(c) \/ SpuriousWakeup(c) \/ MsgPopTear(c)

Spec == Init /\ [][Next]_vars

\* The operating system runs every thread that can run: a consumer goes on,
\* a producer leaves its critical section.  Nobody has to start a push.
Fairness ==
  /\ \A c \in Consumers : WF_vars(~torn /\ Consume(c))
  /\ \A p \in Producers : WF_vars(~torn /\ MsgPush(p))

FairSpec == Spec /\ Fairness
------------------------------------------------------------------------------
\* Every variable holds a value of its kind, and a producer is inside MsgPush
\* exactly while it owns the mutex.
TypeOK ==
  /\ queue \in Seq(Messages)
  /\ mutex \in Producers \cup {Free}
  /\ waiters \in SUBSET Consumers
  /\ pushing \in [Producers -> Messages \cup {NoMsg}]
  /\ popping \in [Consumers -> {"out", "test", "take"}]
  /\ handed \in [Consumers -> Messages]
  /\ torn \in BOOLEAN
  /\ \A p \in Producers : pushing[p] # NoMsg <=> mutex = p

\* A consumer that has left the wait loop of MsgPop (MsgQueue.cpp:18) finds an
\* element when it calls front(), although the mutex has been free since.
NoUnderflow == \A c \in Consumers : popping[c] = "take" => queue # <<>>

\* No consumer sleeps in MsgPop while a message is queued: every push that
\* makes the queue non-empty wakes the one consumer there is.
NoLostWakeup == \A c \in waiters : queue = <<>>

\* A sleeper is inside the wait loop and nowhere else.
SleepersTest == \A c \in waiters : popping[c] = "test"

\* The inductive invariant behind the three properties.
Inv == TypeOK /\ SleepersTest /\ NoUnderflow /\ NoLostWakeup

\* The queue is a first-in first-out channel to its clients, up to the moment
\* a push and an unlocked pop tear it: no message is lost, duplicated or
\* overtaken by MsgPush and MsgPop.
Fifo == INSTANCE FifoChannel WITH
          chan <- queue, Data <- Messages, Receivers <- Consumers

IsFifoChannel == Fifo!Spec

\* Unless the deque is torn, a queued message is eventually taken: the
\* notification of MsgPush is never wasted, whatever wakes the consumer in
\* between, and the consumer never sleeps for good on a non-empty queue.
EveryMessageTaken == <>torn \/ Fifo!LiveReceivers
==============================================================================
