----------------------- MODULE ThreadSafeQueueProofs -----------------------
(***************************************************************************)
(* Proofs about ThreadSafeQueue, for any threads and messages.  That pop() *)
(* removes what it copied needs that only the holder of the mutex is       *)
(* inside a call; that nothing is lost or doubled needs that the queue is  *)
(* what was pushed and not yet popped.                                     *)
(***************************************************************************)
EXTENDS ThreadSafeQueue, TLAPS

HolderInside == \A th \in Threads : at[th] # "outside" => mutex = th

ItemsAreTheRest == pushed = popped \o items

IndInv == TypeOK /\ HolderInside /\ RemovesWhatItCopied /\ ItemsAreTheRest

-----------------------------------------------------------------------------
(* The front of a sequence that is not empty moves to the end of another   *)
(* and their concatenation stays as it is.                                 *)
LEMMA FrontMoves ==
  ASSUME NEW S, NEW a \in Seq(S), NEW b \in Seq(S), b # <<>>
  PROVE  /\ Head(b) \in S
         /\ Tail(b) \in Seq(S)
         /\ Append(a, Head(b)) \o Tail(b) = a \o b
  BY SMT

(* The element after a is the head of what follows it.                     *)
LEMMA NextIsHead ==
  ASSUME NEW S, NEW a \in Seq(S), NEW b \in Seq(S), b # <<>>
  PROVE  /\ Len(a) < Len(a \o b)
         /\ (a \o b)[Len(a) + 1] = Head(b)
  BY SMT

-----------------------------------------------------------------------------
LEMMA InitHolds == Init => IndInv
  BY QueueAssumption
  DEF Init, IndInv, TypeOK, Places, HolderInside, RemovesWhatItCopied,
      ItemsAreTheRest

LEMMA NextKeeps == IndInv /\ [Next]_queueVars => IndInv'
  <1> SUFFICES ASSUME IndInv, [Next]_queueVars PROVE IndInv'
    OBVIOUS
  <1> USE QueueAssumption DEF IndInv
  <1>1. ASSUME NEW th \in Threads, NEW m \in Msgs, PushLocks(th, m)
        PROVE  IndInv'
    BY <1>1
    DEF PushLocks, Lock, TypeOK, Places, HolderInside, RemovesWhatItCopied,
        ItemsAreTheRest
  <1>2. ASSUME NEW th \in Threads, Push(th)
        PROVE  IndInv'
    <2>1. msg[th] \in Msgs /\ mutex = th
      BY <1>2 DEF Push, TypeOK, HolderInside
    <2>2. ItemsAreTheRest'
      <3>1. popped \in Seq(Msgs) /\ items \in Seq(Msgs) /\ msg[th] \in Msgs
        BY DEF TypeOK
      <3>2. Append(popped \o items, msg[th]) = popped \o Append(items, msg[th])
        <4> DEFINE m == msg[th]
        <4>1. m \in Msgs
          BY <3>1
        <4> HIDE DEF m
        <4>2. Append(popped \o items, m) = popped \o Append(items, m)
          BY <3>1, <4>1
        <4> QED
          BY <4>2 DEF m
      <3> QED
        BY <1>2, <3>2 DEF Push, ItemsAreTheRest
    <2>3. TypeOK'
      BY <1>2, <2>1 DEF Push, Unlock, TypeOK, Places
    <2>4. HolderInside' /\ RemovesWhatItCopied'
      BY <1>2, <2>1
      DEF Push, Unlock, TypeOK, HolderInside, RemovesWhatItCopied
    <2> QED
      BY <2>2, <2>3, <2>4
  <1>3. ASSUME NEW th \in Threads, PopLocks(th)
        PROVE  IndInv'
    BY <1>3
    DEF PopLocks, Lock, TypeOK, Places, HolderInside, RemovesWhatItCopied,
        ItemsAreTheRest
  <1>4. ASSUME NEW th \in Threads, PopEmpty(th)
        PROVE  IndInv'
    BY <1>4
    DEF PopEmpty, Unlock, TypeOK, Places, HolderInside, RemovesWhatItCopied,
        ItemsAreTheRest
  <1>5. ASSUME NEW th \in Threads, PopCopies(th)
        PROVE  IndInv'
    <2>1. Head(items) \in Msgs
      BY <1>5, FrontMoves DEF PopCopies, TypeOK
    <2> QED
      BY <1>5, <2>1
      DEF PopCopies, TypeOK, Places, HolderInside, RemovesWhatItCopied,
          ItemsAreTheRest
  <1>6. ASSUME NEW th \in Threads, PopRemoves(th)
        PROVE  IndInv'
    <2>1. items # <<>> /\ msg[th] = Head(items) /\ mutex = th
      BY <1>6 DEF PopRemoves, HolderInside, RemovesWhatItCopied
    <2>2. ItemsAreTheRest'
      BY <1>6, <2>1, FrontMoves DEF PopRemoves, TypeOK, ItemsAreTheRest
    <2>3. TypeOK'
      BY <1>6, <2>1, FrontMoves DEF PopRemoves, Unlock, TypeOK, Places
    <2>4. HolderInside' /\ RemovesWhatItCopied'
      BY <1>6, <2>1
      DEF PopRemoves, Unlock, TypeOK, HolderInside, RemovesWhatItCopied
    <2> QED
      BY <2>2, <2>3, <2>4
  <1>7. CASE UNCHANGED queueVars
    BY <1>7
    DEF queueVars, TypeOK, HolderInside, RemovesWhatItCopied, ItemsAreTheRest
  <1> QED
    BY <1>1, <1>2, <1>3, <1>4, <1>5, <1>6, <1>7 DEF Next

LEMMA Inductive == Spec => []IndInv
  BY InitHolds, NextKeeps, PTL DEF Spec

(* The queue holds messages and nothing else, pop() returns only messages. *)
THEOREM QueueTypes == Spec => []TypeOK
  <1>1. IndInv => TypeOK
    BY DEF IndInv
  <1> QED
    BY Inductive, <1>1, PTL

(* The front does not change between pop()'s copy and its removal.         *)
THEOREM PopRemovesItsCopy == Spec => []RemovesWhatItCopied
  <1>1. IndInv => RemovesWhatItCopied
    BY DEF IndInv
  <1> QED
    BY Inductive, <1>1, PTL

-----------------------------------------------------------------------------
LEMMA StepImplements ==
  IndInv /\ [Next]_queueVars => [Stream!Next]_(Stream!streamVars)
  <1> SUFFICES ASSUME IndInv, [Next]_queueVars
               PROVE  [Stream!Next]_(Stream!streamVars)
    OBVIOUS
  <1> USE DEF IndInv
  <1>1. ASSUME NEW th \in Threads, Push(th)
        PROVE  Stream!Next
    <2>1. msg[th] \in Msgs
      BY DEF TypeOK
    <2>2. Stream!Occur(msg[th])
      BY <1>1 DEF Push, Stream!Occur
    <2> QED
      BY <2>1, <2>2 DEF Stream!Next
  <1>2. ASSUME NEW th \in Threads, PopRemoves(th)
        PROVE  Stream!Next
    <2>1. items # <<>> /\ msg[th] = Head(items)
      BY <1>2 DEF PopRemoves, RemovesWhatItCopied
    <2>2. /\ Len(popped) < Len(pushed)
          /\ pushed[Len(popped) + 1] = Head(items)
      BY <2>1, NextIsHead DEF TypeOK, ItemsAreTheRest
    <2>3. Stream!Observe
      BY <1>2, <2>1, <2>2 DEF PopRemoves, Stream!Observe
    <2> QED
      BY <2>3 DEF Stream!Next
  <1>3. CASE UNCHANGED <<pushed, popped>>
    BY <1>3 DEF Stream!streamVars
  <1>4. CASE \E th \in Threads : \/ \E m \in Msgs : PushLocks(th, m)
                                 \/ PopLocks(th)
                                 \/ PopEmpty(th)
                                 \/ PopCopies(th)
    BY <1>3, <1>4 DEF PushLocks, PopLocks, PopEmpty, PopCopies
  <1>5. CASE UNCHANGED queueVars
    BY <1>3, <1>5 DEF queueVars
  <1> QED
    BY <1>1, <1>2, <1>4, <1>5 DEF Next

(* Each message pushed by any thread is popped once, in the order of the   *)
(* pushes, by whatever threads pop.                                        *)
THEOREM StreamImplemented == Spec => ImplementsStream
  <1>1. Init => Stream!Init
    BY DEF Init, Stream!Init
  <1> QED
    BY <1>1, Inductive, StepImplements, PTL
    DEF Spec, ImplementsStream, Stream!Spec
=============================================================================
