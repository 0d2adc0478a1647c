------------------------------ MODULE Service ------------------------------
(***************************************************************************)
(* What the server promises a peer, and nothing of how: whoever asks is    *)
(* sent the response to its own request, in order and in full, and then    *)
(* the connection is closed.  ForumNet is shown to implement it for peers  *)
(* that neither reset nor stall.                                           *)
(***************************************************************************)
EXTENDS Naturals, Sequences

CONSTANTS
  Conns,        \* the connections
  Response(_)   \* the response to the request of a connection

VARIABLES
  asked,    \* the connections from which (a part of) a request has come
  done,     \* the connections the server has closed
  stream    \* what each connection has been sent

vars == <<asked, done, stream>>

Init ==
  /\ asked = {}
  /\ done = {}
  /\ stream = [c \in Conns |-> <<>>]

Ask(c) ==
  /\ c \notin asked
  /\ asked' = asked \cup {c}
  /\ UNCHANGED <<done, stream>>

\* The next units of the response.
Send(c) ==
  /\ c \in asked \ done
  /\ \E n \in Len(stream[c]) + 1 .. Len(Response(c)) :
       stream' = [stream EXCEPT ![c] = SubSeq(Response(c), 1, n)]
  /\ UNCHANGED <<asked, done>>

\* A connection is closed once it has its response, or if its peer asks nothing.
Finish(c) ==
  /\ c \notin done
  /\ stream[c] = Response(c) \/ c \notin asked
  /\ done' = done \cup {c}
  /\ UNCHANGED <<asked, stream>>

Next == \E c \in Conns : Ask(c) \/ Send(c) \/ Finish(c)

Spec == Init /\ [][Next]_vars
==============================================================================
