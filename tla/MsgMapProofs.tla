---------------------------- MODULE MsgMapProofs ----------------------------
(***************************************************************************)
(* Theorems about MsgMap for any readers, keys and messages, and for       *)
(* clients that insert and erase whatever they like: its types, and that   *)
(* the readers never all sleep while the responses of all are present.     *)
(***************************************************************************)
EXTENDS MsgMap, TLAPS

LEMMA InitTypeOK == Init => TypeOK
  BY MapConstants DEF Init, TypeOK

\* Every operation keeps the types.
LEMMA NextTypeOK == TypeOK /\ [Next]_vars => TypeOK'
  <1> SUFFICES ASSUME TypeOK, [Next]_vars PROVE TypeOK'
    OBVIOUS
  <1> USE MapConstants DEF TypeOK
  <1>1. ASSUME NEW r \in Readers, NEW k \in Keys, MsgGetCall(r, k)
        PROVE  TypeOK'
    BY <1>1 DEF MsgGetCall
  <1>2. ASSUME NEW r \in Readers, MsgGetTest(r)
        PROVE  TypeOK'
    BY <1>2 DEF MsgGetTest
  <1>3. ASSUME NEW r \in Readers, SpuriousWakeup(r)
        PROVE  TypeOK'
    BY <1>3 DEF SpuriousWakeup
  <1>4. ASSUME NEW r \in Readers, NEW v \in Values, MsgGetCopy(r, v)
        PROVE  TypeOK'
    BY <1>4 DEF MsgGetCopy
  <1>5. ASSUME NEW k \in Keys, Erase(k)
        PROVE  TypeOK'
    BY <1>5 DEF Erase
  <1>6. ASSUME NEW k \in Keys, NEW v \in Values, MsgInsert(k, v)
        PROVE  TypeOK'
    BY <1>6 DEF MsgInsert, NotifyOne
  <1>7. CASE UNCHANGED vars
    BY <1>7 DEF vars
  <1> QED
    BY <1>1, <1>2, <1>3, <1>4, <1>5, <1>6, <1>7 DEF Next, Read

\* Every variable of the map keeps its type, whatever the clients do.
THEOREM TypeCorrect == Spec => []TypeOK
  BY InitTypeOK, NextTypeOK, PTL DEF Spec

LEMMA InitSomeoneAwake == Init => SomeoneAwake
  BY DEF Init, SomeoneAwake

\* Only the step that puts the last reader to sleep, and an insert, matter.
LEMMA NextSomeoneAwake == TypeOK /\ SomeoneAwake /\ [Next]_vars => SomeoneAwake'
  <1> SUFFICES ASSUME TypeOK, SomeoneAwake, [Next]_vars,
                      Readers # {}, waiters' = Readers
               PROVE  \E r \in Readers : map'[index'[r]] = None
    BY DEF SomeoneAwake
  <1> USE MapConstants DEF TypeOK
  <1>1. ASSUME NEW r \in Readers, NEW k \in Keys, MsgGetCall(r, k)
        PROVE  FALSE
    BY <1>1 DEF MsgGetCall
  <1>2. ASSUME NEW r \in Readers, MsgGetTest(r)
        PROVE  map'[index'[r]] = None
    <2>1. waiters' = waiters \/ map[index[r]] = None
      BY <1>2 DEF MsgGetTest
    <2> QED
      BY <1>2, <2>1 DEF MsgGetTest
  <1>3. ASSUME NEW r \in Readers, SpuriousWakeup(r)
        PROVE  FALSE
    BY <1>3 DEF SpuriousWakeup
  <1>4. ASSUME NEW r \in Readers, NEW v \in Values, MsgGetCopy(r, v)
        PROVE  FALSE
    BY <1>4 DEF MsgGetCopy
  <1>5. ASSUME NEW k \in Keys, Erase(k)
        PROVE  \E r \in Readers : map'[index'[r]] = None
    <2>1. PICK r \in Readers : map[index[r]] = None
      BY <1>5 DEF Erase, SomeoneAwake
    <2>2. index[r] \in Keys
      BY <1>5 DEF Erase
    <2> QED
      BY <1>5, <2>1, <2>2 DEF Erase
  <1>6. ASSUME NEW k \in Keys, NEW v \in Values, MsgInsert(k, v)
        PROVE  FALSE
    BY <1>6 DEF MsgInsert, NotifyOne
  <1>7. CASE UNCHANGED vars
    BY <1>7 DEF vars, SomeoneAwake
  <1> QED
    BY <1>1, <1>2, <1>3, <1>4, <1>5, <1>6, <1>7 DEF Next, Read

\* One notification per insert is enough for this much: the readers do not
\* all sleep unless the response of one of them is still missing.
THEOREM ReadersNotAllForgotten == Spec => []SomeoneAwake
  BY InitSomeoneAwake, NextSomeoneAwake, TypeCorrect, PTL DEF Spec
==============================================================================
