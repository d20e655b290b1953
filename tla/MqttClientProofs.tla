-------------------------- MODULE MqttClientProofs --------------------------
(***************************************************************************)
(* Proofs about MqttClient: the broker holds what the caller subscribed    *)
(* to, over any number of topics, calls and reconnections.                 *)
(***************************************************************************)
EXTENDS MqttClient, TLAPS

(* The highest of a nonempty set of QoS levels is one of them (on_connect).*)
LEMMA HighestInSet ==
  ASSUME NEW S \in SUBSET Qos, S # {}
  PROVE  Highest(S) \in S
<1>1. \E q \in S : \A p \in S : p <= q
  <2>1. CASE 2 \in S
    BY <2>1, SMT DEF Qos
  <2>2. CASE 2 \notin S /\ 1 \in S
    BY <2>2, SMT DEF Qos
  <2>3. CASE 2 \notin S /\ 1 \notin S
    <3>1. PICK q \in S : TRUE
      OBVIOUS
    <3>2. \A p \in S : p = 0
      BY <2>3 DEF Qos
    <3> QED BY <3>1, <3>2
  <2> QED BY <2>1, <2>2, <2>3
<1> QED BY <1>1 DEF Highest

LEMMA HighestRecorded ==
  ASSUME NEW t \in Topics, RecordedAt(t) # {}
  PROVE  Highest(RecordedAt(t)) \in RecordedAt(t)
<1>1. RecordedAt(t) \in SUBSET Qos
  BY DEF RecordedAt
<1> QED BY <1>1, HighestInSet

(* Reapplying the record leaves a QoS or none for every topic.             *)
LEMMA ReappliedType ==
  ASSUME ClientTypeOK
  PROVE  Reapplied \in [Topics -> Qos \cup {NoQos}]
<1> SUFFICES ASSUME NEW t \in Topics, RecordedAt(t) # {}
             PROVE  Highest(RecordedAt(t)) \in Qos
  BY DEF Reapplied, ClientTypeOK
<1>1. RecordedAt(t) \subseteq Qos
  BY DEF RecordedAt
<1> QED BY <1>1, HighestRecorded

(* Recording a subscription keeps the type of the record.                  *)
LEMMA RecordType ==
  ASSUME ClientTypeOK, NEW q \in Qos, NEW t \in Topics
  PROVE  Record(q, t) \in [Qos -> [Topics -> Nat]]
BY DEF Record, ClientTypeOK

(* Recording a topic adds one QoS to its own and no other topic's.         *)
LEMMA RecordAdds ==
  ASSUME ClientTypeOK, NEW q \in Qos, NEW t \in Topics, subs' = Record(q, t)
  PROVE  /\ RecordedAt(t)' = RecordedAt(t) \cup {q}
         /\ \A s \in Topics \ {t} : RecordedAt(s)' = RecordedAt(s)
BY DEF Record, RecordedAt, ClientTypeOK

(* Forgetting a topic empties its record and no other topic's.             *)
LEMMA ForgetRemoves ==
  ASSUME ClientTypeOK, NEW t \in Topics, subs' = Forget(t)
  PROVE  /\ RecordedAt(t)' = {}
         /\ \A s \in Topics \ {t} : RecordedAt(s)' = RecordedAt(s)
BY DEF Forget, RecordedAt, ClientTypeOK

-----------------------------------------------------------------------------
(* Types. *)

LEMMA ClientTypesKept ==
  ASSUME ClientTypeOK, [ClientNext]_clientVars
  PROVE  ClientTypeOK'
<1> USE DEF ClientTypeOK, SocketStates
<1>1. NoSession \in [Topics -> Qos \cup {NoQos}]
  BY DEF NoSession
<1>2. CASE Configure \/ LoopNoConn \/ LoopIdle \/ UNCHANGED clientVars
  BY <1>2 DEF Configure, LoopNoConn, LoopIdle, clientVars
<1>3. CASE ConnectOpens \/ ConnectFails \/ Disconnect \/ LoopClosed
  BY <1>1, <1>3 DEF ConnectOpens, ConnectFails, Reopen, Disconnect, LoopClosed
<1>4. ASSUME NEW t \in Topics, NEW q \in Qos, Subscribe(t, q)
      PROVE  ClientTypeOK'
  BY <1>4, RecordType DEF Subscribe
<1>5. ASSUME NEW t \in Topics, Unsubscribe(t)
      PROVE  ClientTypeOK'
  BY <1>5 DEF Unsubscribe, Forget
<1>6. CASE LoopAccepted
  BY <1>6, ReappliedType DEF LoopAccepted
<1> QED BY <1>2, <1>3, <1>4, <1>5, <1>6 DEF ClientNext

-----------------------------------------------------------------------------
(* Subscriptions.  The record lists a topic exactly while the caller wants *)
(* it, and what was asked for on this connection is in the record.  Before *)
(* the CONNACK some wanted topics may not have been asked for yet, hence   *)
(* the invariant speaks of every open socket and not of a session only.    *)

RecordedIsWanted == \A t \in Topics : RecordedAt(t) # {} <=> wanted[t] # NoQos

SessionRecorded ==
  sock # "closed" => \A t \in Topics : session[t] # NoQos => session[t] \in RecordedAt(t)

ClientIndInv ==
  /\ ClientTypeOK
  /\ RecordedIsWanted
  /\ SessionRecorded
  /\ SessionHoldsWanted

LEMMA ClientIndInvKept ==
  ASSUME ClientIndInv, [ClientNext]_clientVars
  PROVE  ClientIndInv'
<1> USE DEF RecordedIsWanted, SessionRecorded, SessionHoldsWanted
<1>1. ClientTypeOK'
  BY ClientTypesKept DEF ClientIndInv
<1>2. NoQos \notin Qos
  BY DEF NoQos, Qos
<1>3. CASE Configure \/ LoopNoConn \/ LoopIdle \/ UNCHANGED clientVars
  BY <1>1, <1>3 DEF Configure, LoopNoConn, LoopIdle, clientVars, RecordedAt, ClientIndInv
<1>4. CASE ConnectOpens \/ ConnectFails \/ Disconnect \/ LoopClosed
  BY <1>1, <1>4
     DEF ConnectOpens, ConnectFails, Reopen, Disconnect, LoopClosed, NoSession,
         RecordedAt, ClientIndInv
<1>5. ASSUME NEW t \in Topics, NEW q \in Qos, Subscribe(t, q)
      PROVE  ClientIndInv'
  <2>1. /\ RecordedAt(t)' = RecordedAt(t) \cup {q}
        /\ \A s \in Topics \ {t} : RecordedAt(s)' = RecordedAt(s)
    BY <1>5, RecordAdds DEF Subscribe, ClientIndInv
  <2>2. /\ wanted' = [wanted EXCEPT ![t] = q]
        /\ sock' = sock
        /\ sock # "closed" => session' = [session EXCEPT ![t] = q]
    BY <1>5 DEF Subscribe
  <2>3. RecordedIsWanted'
    BY <1>2, <2>1, <2>2 DEF ClientIndInv, ClientTypeOK
  <2>4. SessionRecorded' /\ SessionHoldsWanted'
    BY <1>2, <2>1, <2>2 DEF ClientIndInv, ClientTypeOK
  <2> QED BY <1>1, <2>3, <2>4 DEF ClientIndInv
<1>6. ASSUME NEW t \in Topics, Unsubscribe(t)
      PROVE  ClientIndInv'
  <2>1. /\ RecordedAt(t)' = {}
        /\ \A s \in Topics \ {t} : RecordedAt(s)' = RecordedAt(s)
    BY <1>6, ForgetRemoves DEF Unsubscribe, ClientIndInv
  <2> QED BY <1>1, <1>6, <2>1 DEF Unsubscribe, ClientIndInv, ClientTypeOK
<1>7. CASE LoopAccepted
  <2>1. \A t \in Topics : RecordedAt(t)' = RecordedAt(t) /\ RecordedAt(t) \subseteq Qos
    BY <1>7 DEF LoopAccepted, RecordedAt
  <2>2. \A t \in Topics : RecordedAt(t) # {} => session'[t] \in RecordedAt(t)
    BY <1>7, HighestRecorded DEF LoopAccepted, Reapplied
  <2>3. \A t \in Topics : RecordedAt(t) = {} => session'[t] = NoQos
    BY <1>7 DEF LoopAccepted, Reapplied, ClientIndInv
  <2> QED BY <1>1, <1>2, <1>7, <2>1, <2>2, <2>3 DEF LoopAccepted, ClientIndInv
<1> QED BY <1>3, <1>4, <1>5, <1>6, <1>7 DEF ClientNext

LEMMA ClientIndInvHolds == ClientSpec => []ClientIndInv
<1>1. ClientInit => ClientIndInv
  <2> SUFFICES ASSUME ClientInit PROVE ClientIndInv
    OBVIOUS
  <2>1. ClientTypeOK
    <3>1. handle \in BOOLEAN /\ connected \in BOOLEAN /\ sock \in SocketStates
      BY DEF ClientInit, SocketStates
    <3>2. subs \in [Qos -> [Topics -> Nat]]
      BY DEF ClientInit
    <3> QED BY <3>1, <3>2 DEF ClientInit, ClientTypeOK, NoSession
  <2>2. RecordedIsWanted
    <3>1. \A t \in Topics : RecordedAt(t) = {}
      BY DEF ClientInit, RecordedAt
    <3> QED BY <3>1 DEF ClientInit, RecordedIsWanted, NoSession
  <2>3. SessionRecorded /\ SessionHoldsWanted
    BY DEF ClientInit, SessionRecorded, SessionHoldsWanted
  <2> QED BY <2>1, <2>2, <2>3 DEF ClientIndInv
<1>2. ClientIndInv /\ [ClientNext]_clientVars => ClientIndInv'
  BY ClientIndInvKept
<1> QED BY <1>1, <1>2, PTL DEF ClientSpec

(* The variables of the client keep their types.                           *)
THEOREM ClientTypes == ClientSpec => []ClientTypeOK
<1>1. ClientIndInv => ClientTypeOK
  BY DEF ClientIndInv
<1> QED BY ClientIndInvHolds, <1>1, PTL

(* While a session is up the broker holds exactly the topics the caller    *)
(* subscribed to and did not give up, whenever the calls were made.        *)
THEOREM SubscriptionsHeld == ClientSpec => []SessionHoldsWanted
<1>1. ClientIndInv => SessionHoldsWanted
  BY DEF ClientIndInv
<1> QED BY ClientIndInvHolds, <1>1, PTL

(* While a session is up each topic is held at a QoS the record lists.     *)
THEOREM QosRecorded == ClientSpec => []SessionQosRecorded
<1>1. ClientIndInv => SessionQosRecorded
  BY DEF ClientIndInv, SessionRecorded, SessionQosRecorded
<1> QED BY ClientIndInvHolds, <1>1, PTL

(* is_connected() never denies a session that is up.                       *)
THEOREM ActiveConnected == ClientSpec => []ActiveIsConnected
<1>1. ClientInit => ActiveIsConnected
  BY DEF ClientInit, ActiveIsConnected
<1>2. ActiveIsConnected /\ [ClientNext]_clientVars => ActiveIsConnected'
  BY DEF ActiveIsConnected, ClientNext, Configure, ConnectOpens, ConnectFails, Reopen,
         Disconnect, Subscribe, Unsubscribe, LoopNoConn, LoopAccepted, LoopClosed,
         LoopIdle, clientVars
<1> QED BY <1>1, <1>2, PTL DEF ClientSpec
=============================================================================
