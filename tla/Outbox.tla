------------------------------- MODULE Outbox -------------------------------
(***************************************************************************)
(* What the controller promises for telemetry payloads: they are numbered  *)
(* as they are built, wait in a first-in first-out queue while there is no *)
(* connection, and leave it in order.  A payload goes past the queue only  *)
(* when nothing waits.                                                     *)
(***************************************************************************)
EXTENDS Integers, Sequences

CONSTANT MaxCount   \* bound: payloads built

VARIABLES
  count,      \* payloads built so far
  queue,      \* payloads that wait
  delivered,  \* payloads the library accepted
  lost        \* payloads given up

boxVars == <<count, queue, delivered, lost>>

Init ==
  /\ count = 0
  /\ queue = <<>>
  /\ delivered = <<>>
  /\ lost = {}

Build == count < MaxCount /\ count' = count + 1

Wait ==
  /\ Build
  /\ queue' = Append(queue, count + 1)
  /\ UNCHANGED <<delivered, lost>>

Deliver ==
  /\ queue = <<>>
  /\ Build
  /\ delivered' = Append(delivered, count + 1)
  /\ UNCHANGED <<queue, lost>>

Lose ==
  /\ queue = <<>>
  /\ Build
  /\ lost' = lost \cup {count + 1}
  /\ UNCHANGED <<queue, delivered>>

Flush ==
  \E i \in 1 .. Len(queue) :
    /\ delivered' = delivered \o SubSeq(queue, 1, i)
    /\ queue' = SubSeq(queue, i + 1, Len(queue))
    /\ UNCHANGED <<count, lost>>

Next == Wait \/ Deliver \/ Lose \/ Flush

Spec == Init /\ [][Next]_boxVars

-----------------------------------------------------------------------------
(* The payloads that were not given up, in the order they leave.           *)
Line == delivered \o queue

TypeOK ==
  /\ count \in Nat
  /\ queue \in Seq(1 .. count)
  /\ delivered \in Seq(1 .. count)
  /\ lost \subseteq 1 .. count

(* No payload leaves before an older one, and none leaves twice            *)
(* (m_pending_telemetry is drained from the front).                        *)
InOrder == \A i, j \in DOMAIN Line : i < j => Line[i] < Line[j]

(* Every payload built is in the line or was given up, never both.         *)
Accounted == {Line[i] : i \in DOMAIN Line} = (1 .. count) \ lost
=============================================================================
