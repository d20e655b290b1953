---------------------------- MODULE OutboxProofs ----------------------------
(***************************************************************************)
(* Proofs about Outbox: payloads leave in order and each is accounted for, *)
(* however many are built.                                                 *)
(***************************************************************************)
EXTENDS Outbox, SequenceTheorems, TLAPS

(* A sequence of payload numbers stays one when a payload is built.        *)
LEMMA SeqWidens ==
  ASSUME NEW n \in Nat, NEW s \in Seq(1 .. n)
  PROVE  s \in Seq(1 .. n + 1)
<1>1. \A i \in 1 .. Len(s) : s[i] \in 1 .. n + 1
  BY ElementOfSeq
<1> QED BY <1>1, LenProperties, SeqDef

(* Moving the first i elements of one sequence to the end of the one       *)
(* before it leaves both together as they were.                            *)
LEMMA SplitConcat ==
  ASSUME NEW S, NEW p \in Seq(S), NEW q \in Seq(S), NEW i \in 1 .. Len(q)
  PROVE  (p \o SubSeq(q, 1, i)) \o SubSeq(q, i + 1, Len(q)) = p \o q
<1> DEFINE front == SubSeq(q, 1, i)
           back  == SubSeq(q, i + 1, Len(q))
<1>1. \A j \in 1 .. Len(q) : q[j] \in S
  BY ElementOfSeq
<1>2. front \in Seq(S) /\ back \in Seq(S)
  BY <1>1, SubSeqProperties, LenProperties
<1>3. front \o back = q
  BY LenProperties, ConcatAdjacentSubSeq, SubSeqFull
<1> HIDE DEF front, back
<1>4. (p \o front) \o back = p \o (front \o back)
  <2>1. \A s, t, u \in Seq(S) : (s \o t) \o u = s \o (t \o u)
    BY ConcatAssociative, SMTT(60)
  <2> QED BY <1>2, <2>1
<1>5. (p \o front) \o back = p \o q
  BY <1>3, <1>4
<1> QED BY <1>5 DEF front, back

-----------------------------------------------------------------------------
(* The line grows at its end, by the number of the payload just built, or  *)
(* is not touched.                                                         *)
Grows == Line' = Append(Line, count + 1) /\ count' = count + 1

LEMMA LineType ==
  ASSUME TypeOK
  PROVE  Line \in Seq(1 .. count) /\ Len(Line) \in Nat /\ DOMAIN Line = 1 .. Len(Line)
<1>1. Line \in Seq(1 .. count)
  BY ConcatProperties DEF TypeOK, Line
<1> QED BY <1>1, LenProperties

(* Every step keeps the types.                                             *)
LEMMA TypesKept ==
  ASSUME TypeOK, [Next]_boxVars
  PROVE  TypeOK'
<1>1. /\ count \in Nat
      /\ queue \in Seq(1 .. count + 1)
      /\ delivered \in Seq(1 .. count + 1)
      /\ count + 1 \in 1 .. count + 1
  BY SeqWidens DEF TypeOK
<1>2. ASSUME Build PROVE count' = count + 1 /\ count' \in Nat
  BY <1>1, <1>2 DEF Build, TypeOK
<1>3. CASE Wait
  BY <1>1, <1>2, <1>3, AppendProperties DEF Wait, TypeOK
<1>4. CASE Deliver
  BY <1>1, <1>2, <1>4, AppendProperties DEF Deliver, TypeOK
<1>5. CASE Lose
  BY <1>1, <1>2, <1>5 DEF Lose, TypeOK
<1>6. CASE Flush
  <2>1. PICK i \in 1 .. Len(queue) :
          /\ delivered' = delivered \o SubSeq(queue, 1, i)
          /\ queue' = SubSeq(queue, i + 1, Len(queue))
          /\ UNCHANGED <<count, lost>>
    BY <1>6 DEF Flush
  <2>2. \A j \in 1 .. Len(queue) : queue[j] \in 1 .. count
    BY ElementOfSeq DEF TypeOK
  <2>3. SubSeq(queue, 1, i) \in Seq(1 .. count) /\ SubSeq(queue, i + 1, Len(queue)) \in Seq(1 .. count)
    BY <2>2, SubSeqProperties, LenProperties DEF TypeOK
  <2> QED BY <2>1, <2>3, ConcatProperties DEF TypeOK
<1>7. CASE UNCHANGED boxVars
  BY <1>7 DEF boxVars, TypeOK
<1> QED BY <1>3, <1>4, <1>5, <1>6, <1>7 DEF Next

(* What a step does to the line.                                           *)
LEMMA LineSteps ==
  ASSUME TypeOK, [Next]_boxVars
  PROVE  \/ Grows /\ UNCHANGED lost
         \/ Lose /\ UNCHANGED Line
         \/ UNCHANGED <<Line, count, lost>>
<1>1. /\ queue \in Seq(1 .. count)
      /\ delivered \in Seq(1 .. count)
      /\ count \in Nat
      /\ queue \in Seq(1 .. count + 1)
      /\ delivered \in Seq(1 .. count + 1)
      /\ <<count + 1>> \in Seq(1 .. count + 1)
  BY SeqWidens DEF TypeOK
<1>2. CASE Wait
  <2>1. delivered \o Append(queue, count + 1) = Append(delivered \o queue, count + 1)
    <3>1. Append(queue, count + 1) = queue \o <<count + 1>>
      BY <1>1, AppendIsConcat
    <3>2. delivered \o queue \in Seq(1 .. count + 1)
      BY <1>1, ConcatProperties
    <3>3. Append(delivered \o queue, count + 1) = (delivered \o queue) \o <<count + 1>>
      BY <1>1, <3>2, AppendIsConcat
    <3>4. delivered \o (queue \o <<count + 1>>) = (delivered \o queue) \o <<count + 1>>
      BY <1>1, ConcatAssociative
    <3> QED BY <3>1, <3>3, <3>4
  <2> QED BY <1>2, <2>1 DEF Wait, Build, Grows, Line
<1>3. CASE Deliver
  <2>1. Append(delivered, count + 1) \in Seq(1 .. count + 1)
    BY <1>1, AppendProperties
  <2>2. Append(delivered, count + 1) \o <<>> = Append(delivered, count + 1)
    BY <2>1, ConcatEmptySeq
  <2>3. delivered \o <<>> = delivered
    BY <1>1, ConcatEmptySeq
  <2> QED BY <1>3, <2>2, <2>3 DEF Deliver, Build, Grows, Line
<1>4. CASE Lose
  BY <1>4 DEF Lose, Line
<1>5. CASE Flush
  <2>1. PICK i \in 1 .. Len(queue) :
          /\ delivered' = delivered \o SubSeq(queue, 1, i)
          /\ queue' = SubSeq(queue, i + 1, Len(queue))
          /\ UNCHANGED <<count, lost>>
    BY <1>5 DEF Flush
  <2>2. Line' = Line
    BY <1>1, <2>1, SplitConcat DEF Line
  <2> QED BY <2>1, <2>2
<1>6. CASE UNCHANGED boxVars
  BY <1>6 DEF boxVars, Line
<1> QED BY <1>2, <1>3, <1>4, <1>5, <1>6 DEF Next

(* A line that grows keeps its order and accounts for the payload built.   *)
LEMMA GrowthKept ==
  ASSUME TypeOK, Grows
  PROVE  /\ InOrder => InOrder'
         /\ Accounted /\ UNCHANGED lost => Accounted'
<1>1. /\ Line \in Seq(1 .. count)
      /\ Len(Line) \in Nat
      /\ DOMAIN Line = 1 .. Len(Line)
      /\ count \in Nat
      /\ \A i \in 1 .. Len(Line) : Line[i] \in 1 .. count
  BY LineType, ElementOfSeq DEF TypeOK
<1>2. Line \in Seq(1 .. count + 1) /\ count + 1 \in 1 .. count + 1
  BY <1>1, SeqWidens
<1>3. /\ Line' \in Seq(1 .. count + 1)
      /\ Len(Line') = Len(Line) + 1
      /\ \A i \in 1 .. Len(Line) : Line'[i] = Line[i]
      /\ Line'[Len(Line) + 1] = count + 1
  BY <1>2, AppendProperties DEF Grows
<1>4. DOMAIN Line' = 1 .. Len(Line) + 1
  BY <1>3, LenProperties
<1>5. ASSUME InOrder PROVE InOrder'
  <2> SUFFICES ASSUME NEW i \in 1 .. Len(Line) + 1, NEW j \in 1 .. Len(Line) + 1, i < j
               PROVE  Line'[i] < Line'[j]
    BY <1>4 DEF InOrder
  <2>1. i \in 1 .. Len(Line) /\ Line'[i] = Line[i] /\ Line[i] \in 1 .. count
    BY <1>1, <1>3
  <2>2. CASE j = Len(Line) + 1
    BY <1>1, <1>3, <2>1, <2>2
  <2>3. CASE j # Len(Line) + 1
    <3>1. j \in 1 .. Len(Line)
      BY <1>1, <2>3
    <3>2. Line'[j] = Line[j] /\ Line[i] < Line[j]
      BY <1>1, <1>3, <1>5, <2>1, <3>1 DEF InOrder
    <3> QED BY <2>1, <3>2
  <2> QED BY <2>2, <2>3
<1>6. ASSUME Accounted, UNCHANGED lost PROVE Accounted'
  <2>1. {Line'[i] : i \in 1 .. Len(Line) + 1} = {Line[i] : i \in 1 .. Len(Line)} \cup {count + 1}
    <3>1. \A i \in 1 .. Len(Line) + 1 : i \in 1 .. Len(Line) \/ i = Len(Line) + 1
      BY <1>1
    <3>2. \A i \in 1 .. Len(Line) : i \in 1 .. Len(Line) + 1
      BY <1>1
    <3>3. Len(Line) + 1 \in 1 .. Len(Line) + 1
      BY <1>1
    <3> QED BY <1>3, <3>1, <3>2, <3>3
  <2>2. 1 .. count + 1 = (1 .. count) \cup {count + 1} /\ count + 1 \notin lost
    BY <1>1 DEF TypeOK
  <2> QED BY <1>1, <1>4, <1>6, <2>1, <2>2 DEF Accounted, Grows
<1> QED BY <1>5, <1>6

(* Giving up a payload that never was in the line accounts for it.         *)
LEMMA LossKept ==
  ASSUME TypeOK, Accounted, Lose, UNCHANGED Line
  PROVE  Accounted'
<1>1. /\ Line \in Seq(1 .. count)
      /\ DOMAIN Line = 1 .. Len(Line)
      /\ count \in Nat
  BY LineType DEF TypeOK
<1>2. \A i \in DOMAIN Line : Line[i] \in 1 .. count
  BY <1>1, ElementOfSeq
<1>3. (1 .. count + 1) \ (lost \cup {count + 1}) = (1 .. count) \ lost
  BY <1>1
<1> QED BY <1>3 DEF Accounted, Lose, Build

OutboxInv == TypeOK /\ InOrder /\ Accounted

LEMMA OutboxInvHolds == Spec => []OutboxInv
<1>1. Init => OutboxInv
  <2> SUFFICES ASSUME Init PROVE OutboxInv
    OBVIOUS
  <2>1. Line = <<>> /\ DOMAIN Line = {}
    BY EmptySeq, ConcatEmptySeq DEF Init, Line
  <2>2. TypeOK
    BY EmptySeq DEF Init, TypeOK
  <2>3. InOrder /\ Accounted
    BY <2>1 DEF Init, InOrder, Accounted
  <2> QED BY <2>2, <2>3 DEF OutboxInv
<1>2. OutboxInv /\ [Next]_boxVars => OutboxInv'
  <2> SUFFICES ASSUME OutboxInv, [Next]_boxVars PROVE OutboxInv'
    OBVIOUS
  <2>1. TypeOK'
    BY TypesKept DEF OutboxInv
  <2>2. CASE Grows /\ UNCHANGED lost
    BY <2>1, <2>2, GrowthKept DEF OutboxInv
  <2>3. CASE Lose /\ UNCHANGED Line
    BY <2>1, <2>3, LossKept DEF OutboxInv, InOrder
  <2>4. CASE UNCHANGED <<Line, count, lost>>
    BY <2>1, <2>4 DEF OutboxInv, InOrder, Accounted
  <2> QED BY <2>2, <2>3, <2>4, LineSteps DEF OutboxInv
<1> QED BY <1>1, <1>2, PTL DEF Spec

(* The outbox keeps its types.                                             *)
THEOREM OutboxTypes == Spec => []TypeOK
<1>1. OutboxInv => TypeOK
  BY DEF OutboxInv
<1> QED BY OutboxInvHolds, <1>1, PTL

(* Payloads leave in the order they were built, none of them twice.        *)
THEOREM OutboxInOrder == Spec => []InOrder
<1>1. OutboxInv => InOrder
  BY DEF OutboxInv
<1> QED BY OutboxInvHolds, <1>1, PTL

(* Every payload waits, was delivered or was given up, and only one of     *)
(* these.                                                                  *)
THEOREM OutboxAccounted == Spec => []Accounted
<1>1. OutboxInv => Accounted
  BY DEF OutboxInv
<1> QED BY OutboxInvHolds, <1>1, PTL
=============================================================================
