------------------------------- MODULE MsgMap -------------------------------
(***************************************************************************)
(* The blocking map of MsgMap.cpp: HTTP threads insert the response to be  *)
(* sent on a socket, network threads block in MsgGet until the response    *)
(* for their socket is there.                                              *)
(*                                                                         *)
(* MsgInsert, Erase and each round of the wait loop of MsgGet run under    *)
(* the mutex and are one step each.  One condition variable serves the     *)
(* readers of all keys.  As in MsgQueue.cpp, the lock of MsgGet ends with  *)
(* its if-block: the iterator found under the lock is dereferenced after   *)
(* it.  An Erase of the same key in between leaves the iterator dangling,  *)
(* and what the copy then contains is undefined: any value.                *)
(***************************************************************************)
CONSTANTS
  Readers,   \* the threads that call MsgGet
  Keys,      \* the keys: socket descriptors
  Values,    \* the messages
  None       \* no key, no message

ASSUME MapConstants == None \notin Keys /\ None \notin Values

VARIABLES
  map,       \* _Map: the message of each key, or None
  waiters,   \* readers blocked in _condition.wait, not notified yet
  index,     \* the argument of the MsgGet each reader is executing
  it         \* the iterator of each reader: "end", "live" or "dangling"

vars == <<map, waiters, index, it>>

Init ==
  /\ map = [k \in Keys |-> None]
  /\ waiters = {}
  /\ index = [r \in Readers |-> None]
  /\ it = [r \in Readers |-> "end"]

\* _condition.notify_one(): wakes one sleeping reader, any one, if there is one.
NotifyOne ==
  \/ /\ waiters = {}
     /\ UNCHANGED waiters
  \/ \E w \in waiters : waiters' = waiters \ {w}

\* Faulty variant: MsgInsert without the notification.
MsgInsertSilent(k, v) ==
  /\ map' = [map EXCEPT ![k] = IF @ = None THEN v ELSE @]
  /\ UNCHANGED <<waiters, index, it>>

\* std::map::insert leaves the message of a key that is present alone.
MsgInsert(k, v) ==
  /\ map' = [map EXCEPT ![k] = IF @ = None THEN v ELSE @]
  /\ NotifyOne
  /\ UNCHANGED <<index, it>>

\* The node of the key is freed, and with it what iterators point to.
Erase(k) ==
  /\ map' = [map EXCEPT ![k] = None]
  /\ it' = [r \in Readers |->
              IF index[r] = k /\ it[r] = "live" THEN "dangling" ELSE it[r]]
  /\ UNCHANGED <<waiters, index>>

MsgGetCall(r, k) ==
  /\ index[r] = None
  /\ index' = [index EXCEPT ![r] = k]
  /\ UNCHANGED <<map, waiters, it>>

\* Faulty variant: an if in place of the while, a sleeper tests only once.
MsgGetTestOnce(r) ==
  /\ index[r] # None /\ it[r] = "end" /\ r \notin waiters
  /\ waiters' = IF map[index[r]] = None THEN waiters \cup {r} ELSE waiters
  /\ it' = [it EXCEPT ![r] = "live"]
  /\ UNCHANGED <<map, index>>

\* The while loop of MsgGet: with the mutex, go on if the key is present, else
\* release the mutex and sleep in one step.
MsgGetTest(r) ==
  /\ index[r] # None
  /\ it[r] = "end"
  /\ r \notin waiters
  /\ IF map[index[r]] = None
       THEN waiters' = waiters \cup {r} /\ UNCHANGED it
       ELSE it' = [it EXCEPT ![r] = "live"] /\ UNCHANGED waiters
  /\ UNCHANGED <<map, index>>

\* A condition variable may wake a sleeper that nobody notified.
SpuriousWakeup(r) ==
  /\ r \in waiters
  /\ waiters' = waiters \ {r}
  /\ UNCHANGED <<map, index, it>>

\* msg = it->second, after the lock object has gone out of scope: v is copied.
MsgGetCopy(r, v) ==
  /\ it[r] # "end"
  /\ it[r] = "live" => v = map[index[r]]
  /\ it' = [it EXCEPT ![r] = "end"]
  /\ index' = [index EXCEPT ![r] = None]
  /\ UNCHANGED <<map, waiters>>

Read(r) ==
  \/ \E k \in Keys : MsgGetCall(r, k)
  \/ MsgGetTest(r)
  \/ SpuriousWakeup(r)
  \/ \E v \in Values : MsgGetCopy(r, v)

Next ==
  \/ \E r \in Readers : Read(r)
  \/ \E k \in Keys : Erase(k) \/ \E v \in Values : MsgInsert(k, v)

Spec == Init /\ [][Next]_vars
------------------------------------------------------------------------------
\* Every variable holds a value of its kind; a reader has an iterator only
\* inside MsgGet, and a live iterator points to an element of the map.
TypeOK ==
  /\ map \in [Keys -> Values \cup {None}]
  /\ waiters \in SUBSET Readers
  /\ index \in [Readers -> Keys \cup {None}]
  /\ it \in [Readers -> {"end", "live", "dangling"}]
  /\ \A r \in Readers :
       /\ it[r] # "end" => index[r] # None
       /\ it[r] = "live" => map[index[r]] # None
       /\ r \in waiters => index[r] # None /\ it[r] = "end"

\* The response of some sleeper is missing: when every reader sleeps, not all
\* of them have been forgotten, at least one sleeps for a reason.
SomeoneAwake ==
  Readers # {} /\ waiters = Readers => \E r \in Readers : map[index[r]] = None
==============================================================================
