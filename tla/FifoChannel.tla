----------------------------- MODULE FifoChannel -----------------------------
(***************************************************************************)
(* What the queue of received requests promises to the threads on its two  *)
(* sides: an unbounded first-in first-out channel.  A Send never blocks; a *)
(* Recv is possible exactly when something is queued, and hands out the    *)
(* oldest element.  MsgQueue implements this specification, and NetServer  *)
(* and HttpServer talk to each other through it.                           *)
(***************************************************************************)
EXTENDS Sequences

CONSTANTS
  Data,       \* what is sent
  Receivers   \* the threads that receive

VARIABLES
  chan,       \* the queued elements, oldest first
  handed      \* the element each receiver got last

Init ==
  /\ chan = <<>>
  /\ handed \in [Receivers -> Data]

Send(m) ==
  /\ chan' = Append(chan, m)
  /\ UNCHANGED handed

Recv(r) ==
  /\ chan # <<>>
  /\ handed' = [handed EXCEPT ![r] = Head(chan)]
  /\ chan' = Tail(chan)

Next ==
  \/ \E m \in Data : Send(m)
  \/ \E r \in Receivers : Recv(r)

Spec == Init /\ [][Next]_<<chan, handed>>

\* A receiver does not leave the channel non-empty for ever without receiving.
LiveReceivers == \A r \in Receivers : WF_<<chan, handed>>(Recv(r))
==============================================================================
