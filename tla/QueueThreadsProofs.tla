------------------------- MODULE QueueThreadsProofs -------------------------
(***************************************************************************)
(* Proofs about the queue for any set of producers and any number of       *)
(* elements: it is a FIFO and push loses no wake-up.  With the types the   *)
(* two are inductive together.                                             *)
(***************************************************************************)
EXTENDS QueueThreads, TLAPS

\* Moving the head of t to the end of s does not change what they hold.
LEMMA MoveHead ==
    ASSUME NEW S, NEW s \in Seq(S), NEW t \in Seq(S), t # <<>>
    PROVE  /\ Append(s, Head(t)) \in Seq(S)
           /\ Tail(t) \in Seq(S)
           /\ Append(s, Head(t)) \o Tail(t) = s \o t
  <1>1. Head(t) \in S /\ Tail(t) \in Seq(S)
    OBVIOUS
  <1>2. Len(Append(s, Head(t)) \o Tail(t)) = Len(s \o t)
    BY <1>1
  <1>3. ASSUME NEW i \in 1 .. Len(s \o t)
        PROVE  (Append(s, Head(t)) \o Tail(t))[i] = (s \o t)[i]
    BY <1>1
  <1>4. Append(s, Head(t)) \o Tail(t) = s \o t
    BY <1>1, <1>2, <1>3
  <1> QED
    BY <1>1, <1>4

\* An element appended to the second part is appended to the whole.
LEMMA AppendToConcat ==
    ASSUME NEW S, NEW s \in Seq(S), NEW t \in Seq(S), NEW x \in S
    PROVE  /\ Append(t, x) \in Seq(S)
           /\ s \o Append(t, x) = Append(s \o t, x)
  <1>1. Append(t, x) \in Seq(S)
    OBVIOUS
  <1>2. Len(s \o Append(t, x)) = Len(Append(s \o t, x))
    BY <1>1
  <1>3. ASSUME NEW i \in 1 .. Len(Append(s \o t, x))
        PROVE  (s \o Append(t, x))[i] = Append(s \o t, x)[i]
    BY <1>1
  <1> QED
    BY <1>1, <1>2, <1>3

IndInv == TypeOK /\ FifoOrder /\ NoLostPush

LEMMA InitIndInv == Init => IndInv
  BY DEF Init, IndInv, TypeOK, FifoOrder, NoLostPush,
         NewQueue, Elements

\* Every step of a thread keeps the invariants.
LEMMA NextIndInv == IndInv /\ [Next]_vars => IndInv'
  <1> SUFFICES ASSUME IndInv, [Next]_vars
               PROVE  IndInv'
    OBVIOUS
  <1> USE DEF IndInv, TypeOK, FifoOrder, NoLostPush
  <1>1. ASSUME NEW p \in Producers, push(p)
        PROVE  IndInv'
    <2> DEFINE x == <<p, pushes[p]>>
    <2>1. x \in Elements
      BY DEF Elements
    <2>2. /\ Append(q.items, x) \in Seq(Elements)
          /\ popped \o Append(q.items, x) = Append(popped \o q.items, x)
      BY <2>1, AppendToConcat
    <2> HIDE DEF x
    <2>3. /\ q' = [q EXCEPT !.items = Append(q.items, x)]
          /\ pushed' = Append(pushed, x)
      BY <1>1 DEF push, Enqueue, x
    <2>4. TypeOK'
      <3>1. q' \in [items : Seq(Elements), done : BOOLEAN,
                    consumer : {"out", "waiting", "woken"}]
        BY <2>2, <2>3
      <3>2. pushed' \in Seq(Elements)
        BY <2>1, <2>3
      <3>3. /\ ppc' \in [Producers -> {"idle", "notify"}]
            /\ pushes' \in [Producers -> Nat]
            /\ UNCHANGED <<fpc, cpc, popped>>
        BY <1>1 DEF push
      <3> QED
        BY <3>1, <3>2, <3>3
    <2>5. FifoOrder'
      BY <1>1, <2>2, <2>3 DEF push
    <2>6. NoLostPush'
      BY <1>1 DEF push
    <2> QED
      BY <2>4, <2>5, <2>6
  <1>2. ASSUME NEW p \in Producers, pushNotify(p)
        PROVE  IndInv'
    BY <1>2 DEF pushNotify, NotifyOne
  <1>3. CASE finish
    BY <1>3 DEF finish, SetDone
  <1>4. CASE finishNotify
    BY <1>4 DEF finishNotify, NotifyOne
  <1>5. CASE popTrue
    <2>1. q.items # <<>>
      BY <1>5 DEF popTrue, CanTake
    <2>2. /\ Append(popped, Head(q.items)) \in Seq(Elements)
          /\ Tail(q.items) \in Seq(Elements)
          /\ Append(popped, Head(q.items)) \o Tail(q.items) = popped \o q.items
      BY <2>1, MoveHead
    <2>3. /\ q' = [q EXCEPT !.items = Tail(q.items), !.consumer = "out"]
          /\ popped' = Append(popped, Head(q.items))
          /\ UNCHANGED <<ppc, pushes, fpc, cpc, pushed>>
      BY <1>5 DEF popTrue, Take
    <2> QED
      BY <2>2, <2>3
  <1>6. CASE popWait
    BY <1>6 DEF popWait, CanWait, Wait
  <1>7. CASE popFalse
    BY <1>7 DEF popFalse, CanStop, Leave
  <1>8. CASE spuriousWakeup
    BY <1>8 DEF spuriousWakeup, NotifyOne
  <1>9. CASE UNCHANGED vars
    BY <1>9 DEF vars
  <1> QED
    BY <1>1, <1>2, <1>3, <1>4, <1>5, <1>6, <1>7, <1>8, <1>9 DEF Next, Pop

LEMMA SpecIndInv == Spec => []IndInv
  BY InitIndInv, NextIndInv, PTL DEF Spec

\* The variables keep their types, for any producers.
THEOREM TypeCorrect == Spec => []TypeOK
  <1>1. IndInv => TypeOK
    BY DEF IndInv
  <1> QED
    BY SpecIndInv, <1>1, PTL

\* Queue::pop returns the elements in the order of the calls of push, each
\* of them once, for any number of producers.
THEOREM Fifo == Spec => []FifoOrder
  <1>1. IndInv => FifoOrder
    BY DEF IndInv
  <1> QED
    BY SpecIndInv, <1>1, PTL

\* The consumer never waits beside an element whose push has already
\* notified, for any number of producers.
THEOREM PushIsNotLost == Spec => []NoLostPush
  <1>1. IndInv => NoLostPush
    BY DEF IndInv
  <1> QED
    BY SpecIndInv, <1>1, PTL
=============================================================================
