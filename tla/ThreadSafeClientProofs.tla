----------------------- MODULE ThreadSafeClientProofs -----------------------
(***************************************************************************)
(* Proofs about ThreadSafeClient, for any topics and any bounds.           *)
(***************************************************************************)
EXTENDS ThreadSafeClient, MqttClientProofs

-----------------------------------------------------------------------------
(* Types. *)

LEMMA TroubleBounded ==
  ASSUME trouble \in 0 .. MaxTrouble, Trouble
  PROVE  trouble' \in 0 .. MaxTrouble
BY MaxTroubleAssumption DEF Trouble

LEMMA EmplaceTypes ==
  ASSUME events \in Seq(Events), log \in Seq(Events), seen \in Seq(Events),
         NEW e \in Events, Emplace(e)
  PROVE  events' \in Seq(Events) /\ log' \in Seq(Events) /\ seen' \in Seq(Events)
BY DEF Emplace

LEMMA TypesKept ==
  ASSUME TypeOK, [Next]_vars
  PROVE  TypeOK'
<1> USE MaxTroubleAssumption DEF TypeOK, Places, threadVars, queueVars
<1> DEFINE Rest == UNCHANGED <<asked, threadVars, queueVars, overlapped, trouble, crashed>>
<1>0. NoSession \in [Topics -> Qos \cup {NoQos}]
  BY DEF NoSession
<1>1. CASE UNCHANGED vars
  BY <1>1 DEF vars, clientVars, ClientTypeOK
<1>2. ASSUME Start, UNCHANGED crashed PROVE TypeOK'
  BY <1>2 DEF Start, Configure, ClientTypeOK
<1>3. ASSUME Connect, UNCHANGED crashed PROVE TypeOK'
  <2>1. ClientTypeOK'
    BY <1>0, <1>3
       DEF Connect, ConnectOpens, ConnectFails, Reopen, ClientTypeOK, SocketStates
  <2>2. net' \in Places
    BY <1>3 DEF Connect, Release
  <2>3. trouble' \in 0 .. MaxTrouble
    BY <1>3, TroubleBounded DEF Connect
  <2> QED BY <1>3, <2>1, <2>2, <2>3 DEF Connect
<1>4. ASSUME DisconnectAsks, UNCHANGED crashed PROVE TypeOK'
  <2>1. ClientTypeOK'
    BY <1>4 DEF DisconnectAsks, clientVars, ClientTypeOK
  <2>2. net' \in Places
    BY <1>4 DEF DisconnectAsks, Release
  <2>3. trouble' \in 0 .. MaxTrouble
    BY <1>4, TroubleBounded DEF DisconnectAsks
  <2> QED BY <1>4, <2>1, <2>2, <2>3 DEF DisconnectAsks
<1>5. ASSUME NEW t \in Topics, NEW q \in Qos, SubscribeAsks(t, q), UNCHANGED crashed
      PROVE  TypeOK'
  <2>1. [op |-> "subscribe", topic |-> t, qos |-> q] \in Calls
    BY DEF Calls
  <2>2. session' \in [Topics -> Qos \cup {NoQos}]
    BY <1>5 DEF SubscribeAsks, ClientTypeOK
  <2>3. ClientTypeOK'
    BY <1>5, <2>2 DEF SubscribeAsks, Ask, ClientTypeOK
  <2> QED BY <1>5, <2>1, <2>3 DEF SubscribeAsks, Ask
<1>6. ASSUME NEW t \in Topics, UnsubscribeAsks(t), UNCHANGED crashed
      PROVE  TypeOK'
  <2>1. [op |-> "unsubscribe", topic |-> t] \in Calls
    BY DEF Calls
  <2>2. ClientTypeOK'
    BY <1>6 DEF UnsubscribeAsks, Ask, ClientTypeOK
  <2> QED BY <1>6, <2>1, <2>2 DEF UnsubscribeAsks, Ask
<1>7. ASSUME SubscribeRecords, UNCHANGED crashed PROVE TypeOK'
  <2>1. asked.topic \in Topics /\ asked.qos \in Qos
    BY <1>7 DEF SubscribeRecords, Calls, NoCall
  <2>2. subs' \in [Qos -> [Topics -> Nat]]
    BY <1>7, <2>1, RecordType DEF SubscribeRecords
  <2>3. ClientTypeOK'
    BY <1>7, <2>1, <2>2 DEF SubscribeRecords, EndCall, ClientTypeOK
  <2> QED BY <1>7, <2>3 DEF SubscribeRecords, EndCall
<1>8. ASSUME UnsubscribeForgets, UNCHANGED crashed PROVE TypeOK'
  <2>1. asked.topic \in Topics
    BY <1>8 DEF UnsubscribeForgets, Calls, NoCall
  <2>2. ClientTypeOK'
    BY <1>8, <2>1 DEF UnsubscribeForgets, Forget, EndCall, ClientTypeOK
  <2> QED BY <1>8, <2>2 DEF UnsubscribeForgets, EndCall
<1>9. ASSUME Dispatch, UNCHANGED crashed PROVE TypeOK'
  <2>1. Head(events) \in Events /\ Tail(events) \in Seq(Events)
    BY <1>9 DEF Dispatch
  <2>2. ClientTypeOK'
    BY <1>9 DEF Dispatch, clientVars, ClientTypeOK
  <2> QED BY <1>9, <2>1, <2>2 DEF Dispatch
<1>10. ASSUME Network, UNCHANGED crashed PROVE TypeOK'
  <2>1. CASE Reconnects
    BY <1>0, <1>10, <2>1 DEF Reconnects, Reopen, ClientTypeOK, SocketStates
  <2>2. CASE Ends
    <3>1. trouble' \in 0 .. MaxTrouble
      BY <2>2, TroubleBounded DEF Ends
    <3> QED BY <1>10, <2>2, <3>1 DEF Ends, clientVars, ClientTypeOK
  <2>3. CASE Accepted \/ Refused
    <3>1. ~MainIdle => asked.topic \in Topics
      BY DEF MainIdle, Calls
    <3>2. ClientTypeOK'
      BY <2>3 DEF Accepted, Refused, ConnackArrives, ClientTypeOK, SocketStates
    <3>3. overlapped' \subseteq Topics
      BY <2>3, <3>1 DEF Accepted, Refused, ConnackArrives
    <3>4. trouble' \in 0 .. MaxTrouble
      BY <2>3, TroubleBounded DEF Accepted, Refused
    <3>5. net' = "reapplying" /\ list' \in Qos
      BY <2>3 DEF Accepted, Refused, ConnackArrives, Qos
    <3>7. accepted' \in BOOLEAN
      BY <2>3 DEF Accepted, Refused
    <3>6. UNCHANGED <<asked, leaving, events, log, seen>>
      BY <2>3 DEF Accepted, Refused, ConnackArrives
    <3> QED BY <1>10, <3>2, <3>3, <3>4, <3>5, <3>6, <3>7
  <2>4. CASE ReapplyList
    <3>1. session' \in [Topics -> Qos \cup {NoQos}]
      BY <2>4 DEF ReapplyList, ClientTypeOK
    <3>2. ClientTypeOK'
      BY <2>4, <3>1 DEF ReapplyList, NetOnly, ClientTypeOK
    <3>3. list' \in Qos /\ net' \in Places
      BY <2>4 DEF ReapplyList, Qos
    <3> QED BY <1>10, <2>4, <3>2, <3>3 DEF ReapplyList, NetOnly
  <2>5. CASE SetFlag \/ ClearFlag
    BY <1>10, <2>5 DEF SetFlag, ClearFlag, NetOnly, ClientTypeOK
  <2>6. CASE QueueConnect \/ QueueDisconnect \/ QueueOther
    <3>1. \E e \in Events : Emplace(e)
      BY <2>6 DEF QueueConnect, QueueDisconnect, QueueOther, Events
    <3>2. events' \in Seq(Events) /\ log' \in Seq(Events) /\ seen' \in Seq(Events)
      BY <3>1, EmplaceTypes
    <3>3. ClientTypeOK'
      BY <2>6 DEF QueueConnect, QueueDisconnect, QueueOther, NetOnly, ClientTypeOK
    <3>4. net' \in Places
      BY <2>6 DEF QueueConnect, QueueDisconnect, QueueOther
    <3>5. trouble' \in 0 .. MaxTrouble
      BY <2>6, TroubleBounded DEF QueueConnect, QueueDisconnect, QueueOther
    <3>6. UNCHANGED <<asked, list, accepted, leaving, overlapped>>
      BY <2>6 DEF QueueConnect, QueueDisconnect, QueueOther, NetOnly
    <3> QED BY <1>10, <3>2, <3>3, <3>4, <3>5, <3>6
  <2>7. CASE Closes
    <3>1. ClientTypeOK'
      BY <1>0, <2>7 DEF Closes, ClientTypeOK, SocketStates
    <3>2. trouble' \in 0 .. MaxTrouble
      BY <2>7, TroubleBounded DEF Closes
    <3> QED BY <1>10, <2>7, <3>1, <3>2 DEF Closes
  <2> QED BY <1>10, <2>1, <2>2, <2>3, <2>4, <2>5, <2>6, <2>7 DEF Network
<1>11. CASE Races
  BY <1>11 DEF Races, clientVars, ClientTypeOK
<1> QED
  BY <1>1, <1>2, <1>3, <1>4, <1>5, <1>6, <1>7, <1>8, <1>9, <1>10, <1>11
     DEF Next, Main, Crashed

-----------------------------------------------------------------------------
(* The queue holds what was queued and not yet dispatched, so each step    *)
(* implements a step of EventStream.                                       *)

QueueIsTheRest == log = seen \o events

LEMMA HeadMoves ==
  ASSUME NEW S, NEW a \in Seq(S), NEW b \in Seq(S), b # <<>>
  PROVE  /\ Append(a, Head(b)) \o Tail(b) = a \o b
         /\ Len(a) < Len(a \o b)
         /\ (a \o b)[Len(a) + 1] = Head(b)
BY SMT

LEMMA AppendConcat ==
  ASSUME events \in Seq(Events), seen \in Seq(Events), NEW e \in Events
  PROVE  Append(seen \o events, e) = seen \o Append(events, e)
BY SMT

(* A step leaves the queue alone, queues one event or dispatches the first *)
(* (loop, the callbacks).                                                  *)
LEMMA QueueSteps ==
  ASSUME [Next]_vars
  PROVE  UNCHANGED queueVars \/ (\E e \in Events : Emplace(e)) \/ Dispatch
<1> USE DEF queueVars
<1>1. CASE UNCHANGED vars \/ Races
  BY <1>1 DEF vars, Races
<1>2. CASE Main
  BY <1>2 DEF Main, Start, Connect, DisconnectAsks, SubscribeAsks,
              UnsubscribeAsks, Ask, SubscribeRecords, UnsubscribeForgets, EndCall
<1>3. CASE Network
  <2>1. CASE QueueConnect \/ QueueDisconnect \/ QueueOther
    BY <2>1 DEF QueueConnect, QueueDisconnect, QueueOther, Events
  <2>2. CASE Accepted \/ Refused
    BY <2>2 DEF Accepted, Refused, ConnackArrives
  <2> QED BY <1>3, <2>1, <2>2
          DEF Network, Reconnects, Ends, ReapplyList, SetFlag, Closes, ClearFlag
<1> QED BY <1>1, <1>2, <1>3 DEF Next, Crashed

LEMMA QueueKept ==
  ASSUME TypeOK, QueueIsTheRest, [Next]_vars
  PROVE  QueueIsTheRest' /\ [Stream!Next]_(Stream!streamVars)
<1>0. events \in Seq(Events) /\ log \in Seq(Events) /\ seen \in Seq(Events)
  BY DEF TypeOK
<1>1. CASE UNCHANGED queueVars
  BY <1>1 DEF queueVars, QueueIsTheRest, Stream!streamVars
<1>2. ASSUME NEW e \in Events, Emplace(e)
      PROVE  QueueIsTheRest' /\ Stream!Next
  <2>1. QueueIsTheRest'
    <3>1. Append(seen \o events, e) = seen \o Append(events, e)
      BY <1>0, AppendConcat
    <3>2. events' = Append(events, e) /\ log' = Append(log, e) /\ seen' = seen
      BY <1>2 DEF Emplace
    <3>3. log' = Append(seen \o events, e)
      BY <3>2 DEF QueueIsTheRest
    <3> QED BY <3>1, <3>2, <3>3, Zenon DEF QueueIsTheRest
  <2>2. Stream!Occur(e)
    BY <1>2 DEF Emplace, Stream!Occur
  <2> QED BY <2>1, <2>2 DEF Stream!Next
<1>3. CASE Dispatch
  <2>1. /\ Append(seen, Head(events)) \o Tail(events) = seen \o events
        /\ Len(seen) < Len(seen \o events)
        /\ (seen \o events)[Len(seen) + 1] = Head(events)
    BY <1>0, <1>3, HeadMoves DEF Dispatch
  <2>2. QueueIsTheRest'
    <3>1. seen' = Append(seen, Head(events)) /\ events' = Tail(events) /\ log' = log
      BY <1>3 DEF Dispatch
    <3>2. seen' \o events' = seen \o events
      BY <2>1, <3>1, Zenon
    <3> QED BY <3>1, <3>2, Zenon DEF QueueIsTheRest
  <2>3. Stream!Observe
    BY <1>3, <2>1 DEF Dispatch, QueueIsTheRest, Stream!Observe
  <2> QED BY <2>2, <2>3 DEF Stream!Next
<1> QED BY <1>1, <1>2, <1>3, QueueSteps

-----------------------------------------------------------------------------
(* The flag and the connection events: they differ only between the store  *)
(* to the flag and the event that follows it.                              *)

FlagInv ==
  /\ net \notin {"connectEvent", "disconnectEvent"} => (connected <=> AcceptedLast(log))
  /\ net = "connectEvent" => connected = accepted
  /\ net = "disconnectEvent" => ~connected

(* What one more event does to the last connection event.                  *)
LEMMA AcceptedAppend ==
  ASSUME NEW s \in Seq(Events), NEW e \in Events
  PROVE  AcceptedLast(Append(s, e)) <=> e = "accepted" \/ (e = "other" /\ AcceptedLast(s))
<1> DEFINE r == Append(s, e)
<1>1. /\ Len(s) \in Nat /\ Len(r) = Len(s) + 1 /\ r[Len(s) + 1] = e
      /\ \A i \in 1 .. Len(s) : r[i] = s[i]
  OBVIOUS
<1> DEFINE n == Len(s)
<1> HIDE DEF r
<1>2. AcceptedLast(r) <=>
        \E i \in 1 .. n + 1 : r[i] = "accepted" /\ \A j \in i + 1 .. n + 1 : r[j] = "other"
  BY <1>1 DEF AcceptedLast
<1>3. AcceptedLast(s) <=>
        \E i \in 1 .. n : r[i] = "accepted" /\ \A j \in i + 1 .. n : r[j] = "other"
  BY <1>1 DEF AcceptedLast
<1>4. n \in Nat /\ r[n + 1] = e
  BY <1>1
<1> HIDE DEF n
<1>5. CASE e = "accepted"
  <2>1. r[n + 1] = "accepted" /\ \A j \in (n + 1) + 1 .. n + 1 : r[j] = "other"
    BY <1>4, <1>5
  <2>2. n + 1 \in 1 .. n + 1
    BY <1>4
  <2>3. AcceptedLast(r)
    BY <1>2, <2>1, <2>2
  <2> QED BY <1>5, <2>3 DEF r
<1>6. CASE e = "other"
  <2>1. ASSUME AcceptedLast(r) PROVE AcceptedLast(s)
    <3>1. PICK i \in 1 .. n + 1 : r[i] = "accepted" /\ \A j \in i + 1 .. n + 1 : r[j] = "other"
      BY <1>2, <2>1
    <3>2. i \in 1 .. n
      BY <1>4, <1>6, <3>1
    <3> QED BY <1>3, <1>4, <3>1, <3>2
  <2>2. ASSUME AcceptedLast(s) PROVE AcceptedLast(r)
    <3>1. PICK i \in 1 .. n : r[i] = "accepted" /\ \A j \in i + 1 .. n : r[j] = "other"
      BY <1>3, <2>2
    <3>2. \A j \in i + 1 .. n + 1 : r[j] = "other"
      BY <1>4, <1>6, <3>1
    <3> QED BY <1>2, <1>4, <3>1, <3>2
  <2> QED BY <1>6, <2>1, <2>2 DEF r
<1>7. CASE e \notin {"accepted", "other"}
  <2> SUFFICES ASSUME AcceptedLast(r) PROVE FALSE
    BY <1>7 DEF r
  <2>1. PICK i \in 1 .. n + 1 : r[i] = "accepted" /\ \A j \in i + 1 .. n + 1 : r[j] = "other"
    BY <1>2
  <2> QED BY <1>4, <1>7, <2>1
<1> QED BY <1>5, <1>6, <1>7 DEF r

LEMMA FlagKept ==
  ASSUME TypeOK, FlagInv, [Next]_vars
  PROVE  FlagInv'
<1> USE DEF FlagInv
<1>0. log \in Seq(Events)
  BY DEF TypeOK
<1>1. CASE UNCHANGED vars \/ Races
  BY <1>1 DEF vars, clientVars, threadVars, queueVars, Races
<1>2. CASE Main
  <2>1. UNCHANGED <<connected, log, accepted>> /\ net' \in {net, "idle"} /\ (net' = net \/ net = "off")
    BY <1>2 DEF Main, Start, Configure, Connect, ConnectOpens, ConnectFails, Reopen, Release,
                DisconnectAsks, SubscribeAsks, UnsubscribeAsks, Ask,
                SubscribeRecords, UnsubscribeForgets, EndCall, Dispatch,
                threadVars, queueVars, clientVars
  <2> QED BY <2>1
<1>3. CASE Network
  <2>1. CASE Reconnects \/ Ends \/ ReapplyList \/ Closes
    BY <2>1 DEF Reconnects, Reopen, Ends, ReapplyList, Closes, clientVars, threadVars, queueVars
  <2>2. CASE Accepted \/ Refused
    BY <2>2 DEF Accepted, Refused, ConnackArrives, queueVars
  <2>3. CASE SetFlag
    BY <2>3 DEF SetFlag, queueVars
  <2>4. CASE ClearFlag
    BY <2>4 DEF ClearFlag, queueVars
  <2>5. CASE QueueConnect
    <3>1. AcceptedLast(log') <=> accepted
      BY <1>0, <2>5, AcceptedAppend DEF QueueConnect, Emplace, Events
    <3> QED BY <2>5, <3>1 DEF QueueConnect
  <2>6. CASE QueueDisconnect
    <3>1. ~AcceptedLast(log')
      BY <1>0, <2>6, AcceptedAppend DEF QueueDisconnect, Emplace, Events
    <3> QED BY <2>6, <3>1 DEF QueueDisconnect
  <2>7. CASE QueueOther
    <3>1. AcceptedLast(log') <=> AcceptedLast(log)
      BY <1>0, <2>7, AcceptedAppend DEF QueueOther, Emplace, Events
    <3> QED BY <2>7, <3>1 DEF QueueOther
  <2> QED BY <1>3, <2>1, <2>2, <2>3, <2>4, <2>5, <2>6, <2>7 DEF Network
<1> QED BY <1>1, <1>2, <1>3 DEF Next, Crashed

-----------------------------------------------------------------------------
(* Subscriptions.  A topic is untouched if no call about it is under way   *)
(* and none overlapped with the reapplying of this connection; what the    *)
(* network thread will still reapply is in the lists from "list" on.       *)

Untouched(t) == t \notin overlapped /\ (asked # NoCall => asked.topic # t)

ClosedHoldsNothing == sock = "closed" => session = NoSession

OverlapSeen == net = "reapplying" /\ asked # NoCall => asked.topic \in overlapped

AskedGone ==
  asked # NoCall /\ asked.op = "unsubscribe" /\ asked.topic \notin overlapped
    => session[asked.topic] = NoQos

AskedHeld ==
  asked # NoCall /\ asked.op = "subscribe" /\ asked.topic \notin overlapped /\ sock = "active"
    => session[asked.topic] # NoQos

NoneStray ==
  \A t \in Topics : Untouched(t) /\ session[t] # NoQos => wanted[t] # NoQos

StillToCome(t) == net = "reapplying" /\ \E q \in Qos : q >= list /\ q \in RecordedAt(t)

AllHeld ==
  sock = "active" =>
    \A t \in Topics : Untouched(t) /\ wanted[t] # NoQos => session[t] # NoQos \/ StillToCome(t)

HeldInv ==
  /\ RecordedIsWanted
  /\ ClosedHoldsNothing
  /\ OverlapSeen
  /\ AskedGone
  /\ AskedHeld
  /\ NoneStray
  /\ AllHeld

(* Steps that change nothing the subscriptions depend on.                  *)
HeldVars == <<sock, subs, session, wanted, asked, list, overlapped>>

LEMMA HeldUnchanged ==
  ASSUME HeldInv, UNCHANGED HeldVars, net' = net \/ (net # "reapplying" /\ net' # "reapplying")
  PROVE  HeldInv'
<1> USE DEF HeldVars
<1>1. RecordedIsWanted' /\ ClosedHoldsNothing'
  BY DEF HeldInv, RecordedIsWanted, ClosedHoldsNothing, RecordedAt
<1>2. OverlapSeen' /\ AskedGone' /\ AskedHeld'
  BY DEF HeldInv, OverlapSeen, AskedGone, AskedHeld
<1>3. NoneStray' /\ AllHeld'
  BY DEF HeldInv, NoneStray, AllHeld, Untouched, StillToCome, RecordedAt
<1> QED BY <1>1, <1>2, <1>3 DEF HeldInv

(* A connection dropped or opened: no session, nothing has overlapped.     *)
LEMMA HeldFresh ==
  ASSUME TypeOK, HeldInv, session' = NoSession, sock' # "active", overlapped' = {},
         UNCHANGED <<subs, wanted, asked>>, net' = "reapplying" => asked = NoCall
  PROVE  HeldInv'
<1>1. RecordedIsWanted' /\ ClosedHoldsNothing' /\ OverlapSeen'
  BY DEF HeldInv, RecordedIsWanted, ClosedHoldsNothing, RecordedAt, OverlapSeen
<1>2. AskedHeld' /\ AllHeld'
  BY DEF AskedHeld, AllHeld
<1>3. NoneStray'
  BY DEF NoneStray, NoSession
<1>4. AskedGone'
  BY DEF AskedGone, NoSession, TypeOK, Calls
<1> QED BY <1>1, <1>2, <1>3, <1>4 DEF HeldInv

(* The library is asked: the call is pending, so the topic is not          *)
(* untouched; subscribe() leaves a QoS in a session, unsubscribe() none.   *)
LEMMA HeldAsk ==
  ASSUME TypeOK, HeldInv, NEW call \in Calls, Ask(call), NEW q \in Qos \cup {NoQos},
         session' = [session EXCEPT ![call.topic] = q] \/ (sock = "closed" /\ session' = session),
         call.op = "subscribe" => q # NoQos,
         call.op = "unsubscribe" => q = NoQos,
         sock = "closed" => session' = session
  PROVE  HeldInv'
<1> DEFINE t == call.topic
<1>0. /\ t \in Topics /\ call # NoCall /\ call.op \in {"subscribe", "unsubscribe"}
      /\ asked = NoCall /\ asked' = call
  BY DEF Calls, NoCall, Ask, MainIdle
<1>1. session \in [Topics -> Qos \cup {NoQos}]
  BY DEF TypeOK, ClientTypeOK
<1>2. /\ UNCHANGED <<sock, subs, wanted, net, list>>
      /\ overlapped' = IF net = "reapplying" THEN overlapped \cup {t} ELSE overlapped \ {t}
  BY DEF Ask, threadVars
<1>3. \A s \in Topics \ {t} : session'[s] = session[s]
  BY <1>1
<1>4. \A s \in Topics : Untouched(s)' => s # t /\ Untouched(s)
  BY <1>0, <1>2 DEF Untouched
<1>5. session'[t] = q \/ (sock = "closed" /\ session'[t] = NoQos)
  BY <1>0, <1>1 DEF HeldInv, ClosedHoldsNothing, NoSession
<1> HIDE DEF t
<1>6. RecordedIsWanted' /\ ClosedHoldsNothing'
  BY <1>2 DEF HeldInv, RecordedIsWanted, ClosedHoldsNothing, RecordedAt
<1>7. OverlapSeen'
  BY <1>0, <1>2 DEF OverlapSeen, t
<1>8. AskedGone' /\ AskedHeld'
  BY <1>0, <1>2, <1>5 DEF AskedGone, AskedHeld, t
<1>9. NoneStray'
  BY <1>2, <1>3, <1>4 DEF HeldInv, NoneStray
<1>10. AllHeld'
  BY <1>2, <1>3, <1>4 DEF HeldInv, AllHeld, StillToCome, RecordedAt
<1> QED BY <1>6, <1>7, <1>8, <1>9, <1>10 DEF HeldInv

(* The record is changed for the topic the library was asked about.        *)
LEMMA HeldRecord ==
  ASSUME TypeOK, HeldInv, EndCall, NEW t \in Topics, asked # NoCall, asked.topic = t,
         NEW w \in Qos \cup {NoQos}, wanted' = [wanted EXCEPT ![t] = w],
         RecordedAt(t)' # {} <=> w # NoQos,
         \A s \in Topics \ {t} : RecordedAt(s)' = RecordedAt(s),
         w = NoQos => asked.op = "unsubscribe",
         w # NoQos => asked.op = "subscribe"
  PROVE  HeldInv'
<1>1. wanted \in [Topics -> Qos \cup {NoQos}]
  BY DEF TypeOK, ClientTypeOK
<1>2. UNCHANGED <<sock, session, net, list, overlapped>> /\ asked' = NoCall
  BY DEF EndCall, threadVars
<1>3. wanted'[t] = w /\ \A s \in Topics \ {t} : wanted'[s] = wanted[s]
  BY <1>1
<1>4. \A s \in Topics \ {t} : Untouched(s)' => Untouched(s)
  BY <1>2 DEF Untouched
<1>5. RecordedIsWanted' /\ ClosedHoldsNothing'
  BY <1>2, <1>3 DEF HeldInv, RecordedIsWanted, ClosedHoldsNothing
<1>6. OverlapSeen' /\ AskedGone' /\ AskedHeld'
  BY <1>2 DEF OverlapSeen, AskedGone, AskedHeld
<1>7. NoneStray'
  BY <1>2, <1>3, <1>4 DEF HeldInv, NoneStray, AskedGone, Untouched
<1>8. AllHeld'
  <2> SUFFICES ASSUME sock = "active", NEW s \in Topics, Untouched(s)', wanted'[s] # NoQos
               PROVE  session[s] # NoQos \/ StillToCome(s)'
    BY <1>2 DEF AllHeld
  <2>1. CASE s = t
    BY <1>2, <1>3, <2>1 DEF HeldInv, AskedHeld, Untouched
  <2>2. CASE s # t
    BY <1>2, <1>3, <1>4, <2>2 DEF HeldInv, AllHeld, StillToCome
  <2> QED BY <2>1, <2>2
<1> QED BY <1>5, <1>6, <1>7, <1>8 DEF HeldInv

(* A CONNACK: everything recorded is still to come.                        *)
LEMMA HeldConnack ==
  ASSUME TypeOK, HeldInv, ConnackArrives, sock' = "active" \/ sock' = sock
  PROVE  HeldInv'
<1>1. /\ UNCHANGED <<subs, session, wanted, asked>>
      /\ sock = "connecting" /\ net' = "reapplying" /\ list' = 0
      /\ overlapped' = overlapped \cup (IF MainIdle THEN {} ELSE {asked.topic})
  BY DEF ConnackArrives
<1>2. \A s \in Topics : RecordedAt(s)' = RecordedAt(s) /\ (Untouched(s)' => Untouched(s))
  BY <1>1 DEF RecordedAt, Untouched
<1>3. asked # NoCall => asked.topic \in overlapped'
  BY <1>1 DEF MainIdle
<1>4. RecordedIsWanted' /\ ClosedHoldsNothing'
  BY <1>1, <1>2 DEF HeldInv, RecordedIsWanted, ClosedHoldsNothing
<1>5. OverlapSeen' /\ AskedGone' /\ AskedHeld'
  BY <1>1, <1>3 DEF OverlapSeen, AskedGone, AskedHeld
<1>6. NoneStray'
  BY <1>1, <1>2 DEF HeldInv, NoneStray
<1>7. \A s \in Topics : wanted[s] # NoQos => StillToCome(s)'
  <2> SUFFICES ASSUME NEW s \in Topics, wanted[s] # NoQos PROVE StillToCome(s)'
    OBVIOUS
  <2>1. PICK q \in RecordedAt(s) : TRUE
    BY DEF HeldInv, RecordedIsWanted
  <2>2. q \in Qos /\ q >= 0
    BY DEF RecordedAt, Qos
  <2> QED BY <1>1, <1>2, <2>2 DEF StillToCome
<1>8. AllHeld'
  BY <1>1, <1>7 DEF AllHeld
<1> QED BY <1>4, <1>5, <1>6, <1>8 DEF HeldInv

(* One list is reapplied: its topics are held, the later ones still come.  *)
LEMMA HeldReapply ==
  ASSUME TypeOK, HeldInv, ReapplyList
  PROVE  HeldInv'
<1>1. /\ UNCHANGED <<sock, subs, wanted, asked, overlapped>>
      /\ net = "reapplying"
      /\ net' = "reapplying" => list' = list + 1
      /\ list = 2 \/ net' = "reapplying"
      /\ list \in {0, 1, 2}
  BY DEF ReapplyList, NetOnly, TypeOK, Qos
<1>2. \A s \in Topics :
        session'[s] = IF list \in RecordedAt(s) /\ sock # "closed" THEN list ELSE session[s]
  BY DEF ReapplyList, RecordedAt, TypeOK
<1>3. \A s \in Topics : RecordedAt(s)' = RecordedAt(s) /\ (Untouched(s)' <=> Untouched(s))
  BY <1>1 DEF RecordedAt, Untouched
<1>4. list # NoQos
  BY <1>1 DEF NoQos
<1>5. RecordedIsWanted' /\ OverlapSeen'
  BY <1>1, <1>3 DEF HeldInv, RecordedIsWanted, OverlapSeen
<1>6. ClosedHoldsNothing'
  <2>1. CASE sock = "closed"
    <3>1. session' = [s \in Topics |-> session[s]]
      BY <2>1 DEF ReapplyList
    <3>2. session = NoSession
      BY <2>1 DEF HeldInv, ClosedHoldsNothing
    <3> QED BY <3>1, <3>2 DEF ClosedHoldsNothing, NoSession
  <2>2. CASE sock # "closed"
    BY <1>1, <2>2 DEF ClosedHoldsNothing
  <2> QED BY <2>1, <2>2
<1>7. AskedGone' /\ AskedHeld'
  BY <1>1 DEF HeldInv, OverlapSeen, AskedGone, AskedHeld
<1>8. NoneStray'
  BY <1>1, <1>2, <1>3 DEF HeldInv, NoneStray, RecordedIsWanted
<1>9. AllHeld'
  <2> SUFFICES ASSUME sock = "active", NEW s \in Topics, Untouched(s), wanted[s] # NoQos
               PROVE  session'[s] # NoQos \/ StillToCome(s)'
    BY <1>1, <1>3 DEF AllHeld
  <2>1. CASE session[s] # NoQos \/ list \in RecordedAt(s)
    BY <1>2, <1>4, <2>1
  <2>2. CASE session[s] = NoQos /\ list \notin RecordedAt(s)
    <3>1. PICK q \in Qos : q >= list /\ q \in RecordedAt(s)
      BY <2>2 DEF HeldInv, AllHeld, StillToCome
    <3>2. q # list /\ list # 2
      BY <1>1, <2>2, <3>1 DEF Qos
    <3> QED BY <1>1, <1>3, <3>1, <3>2 DEF StillToCome, Qos
  <2> QED BY <2>1, <2>2
<1> QED BY <1>5, <1>6, <1>7, <1>8, <1>9 DEF HeldInv

LEMMA HeldKept ==
  ASSUME TypeOK, HeldInv, [Next]_vars
  PROVE  HeldInv'
<1> USE DEF HeldVars
<1>1. CASE UNCHANGED vars \/ Races
  BY <1>1, HeldUnchanged DEF vars, clientVars, threadVars, Races
<1>2. CASE Start \/ DisconnectAsks \/ Dispatch
  BY <1>2, HeldUnchanged
     DEF Start, Configure, DisconnectAsks, Release, Dispatch, clientVars, threadVars
<1>3. CASE Connect
  BY <1>3, HeldFresh DEF Connect, ConnectOpens, ConnectFails, Reopen, MainIdle
<1>4. ASSUME NEW t \in Topics, NEW q \in Qos, SubscribeAsks(t, q)
      PROVE  HeldInv'
  <2> DEFINE call == [op |-> "subscribe", topic |-> t, qos |-> q]
  <2>1. call \in Calls /\ call.topic = t /\ call.op = "subscribe"
    BY DEF Calls
  <2>2. Ask(call) /\ session' = IF sock = "closed" THEN session ELSE [session EXCEPT ![t] = q]
    BY <1>4 DEF SubscribeAsks
  <2>3. q \in Qos \cup {NoQos} /\ q # NoQos
    BY DEF Qos, NoQos
  <2> HIDE DEF call
  <2> QED BY <2>1, <2>2, <2>3, HeldAsk
<1>5. ASSUME NEW t \in Topics, UnsubscribeAsks(t)
      PROVE  HeldInv'
  <2> DEFINE call == [op |-> "unsubscribe", topic |-> t]
  <2>1. call \in Calls /\ call.topic = t /\ call.op = "unsubscribe"
    BY DEF Calls
  <2>2. Ask(call) /\ session' = [session EXCEPT ![t] = NoQos]
    BY <1>5 DEF UnsubscribeAsks
  <2>3. sock = "closed" => session' = session
    BY <2>2 DEF HeldInv, ClosedHoldsNothing, NoSession
  <2> HIDE DEF call
  <2> QED BY <2>1, <2>2, <2>3, HeldAsk
<1>6. CASE SubscribeRecords \/ UnsubscribeForgets
  <2>0. asked \in Calls /\ asked # NoCall /\ asked.topic \in Topics
    BY <1>6 DEF SubscribeRecords, UnsubscribeForgets, TypeOK, Calls, NoCall
  <2> PICK t \in Topics : t = asked.topic
    BY <2>0
  <2>1. asked \in Calls /\ asked # NoCall /\ asked.topic = t
    BY <2>0
  <2>2. ClientTypeOK /\ EndCall
    BY <1>6 DEF SubscribeRecords, UnsubscribeForgets, TypeOK
  <2>3. CASE SubscribeRecords
    <3>0. asked.qos \in Qos
      BY <2>1, <2>3 DEF SubscribeRecords, Calls
    <3> PICK q \in Qos : q = asked.qos
      BY <3>0
    <3>1. q \in Qos /\ q # NoQos
      BY DEF Qos, NoQos
    <3>2. subs' = Record(q, t) /\ wanted' = [wanted EXCEPT ![t] = q] /\ asked.op = "subscribe"
      BY <2>1, <2>3 DEF SubscribeRecords
    <3>3. /\ RecordedAt(t)' = RecordedAt(t) \cup {q}
          /\ \A s \in Topics \ {t} : RecordedAt(s)' = RecordedAt(s)
      BY <2>1, <2>2, <3>1, <3>2, RecordAdds
    <3> QED BY <2>1, <2>2, <3>1, <3>2, <3>3, HeldRecord
  <2>4. CASE UnsubscribeForgets
    <3>1. subs' = Forget(t) /\ wanted' = [wanted EXCEPT ![t] = NoQos] /\ asked.op = "unsubscribe"
      BY <2>1, <2>4 DEF UnsubscribeForgets
    <3>2. /\ RecordedAt(t)' = {}
          /\ \A s \in Topics \ {t} : RecordedAt(s)' = RecordedAt(s)
      BY <2>1, <2>2, <3>1, ForgetRemoves
    <3> QED BY <2>1, <2>2, <3>1, <3>2, HeldRecord
  <2> QED BY <1>6, <2>3, <2>4
<1>7. CASE Reconnects \/ Closes
  BY <1>7, HeldFresh DEF Reconnects, Reopen, Closes, threadVars
<1>8. CASE Accepted \/ Refused
  BY <1>8, HeldConnack DEF Accepted, Refused
<1>9. CASE ReapplyList
  BY <1>9, HeldReapply
<1>10. CASE Ends \/ SetFlag \/ QueueConnect \/ ClearFlag \/ QueueDisconnect \/ QueueOther
  BY <1>10, HeldUnchanged
     DEF Ends, SetFlag, QueueConnect, ClearFlag, QueueDisconnect, QueueOther,
         NetOnly, clientVars
<1> QED
  BY <1>1, <1>2, <1>3, <1>4, <1>5, <1>6, <1>7, <1>8, <1>9, <1>10
     DEF Next, Network, Main, Crashed

-----------------------------------------------------------------------------
(* The inductive invariant and what follows from it.                       *)

ThreadsInv == TypeOK /\ QueueIsTheRest /\ FlagInv /\ HeldInv

LEMMA ThreadsInvHolds == Spec => []ThreadsInv
<1>1. Init => ThreadsInv
  <2> SUFFICES ASSUME Init PROVE ThreadsInv
    OBVIOUS
  <2>1. TypeOK
    BY MaxTroubleAssumption
       DEF Init, ClientInit, TypeOK, ClientTypeOK, SocketStates, NoSession, Places, Qos
  <2>2. QueueIsTheRest /\ FlagInv
    BY DEF Init, ClientInit, QueueIsTheRest, FlagInv, AcceptedLast
  <2>3. \A t \in Topics : RecordedAt(t) = {} /\ wanted[t] = NoQos /\ session[t] = NoQos
    <3>2. \A t \in Topics : RecordedAt(t) = {}
      BY DEF Init, ClientInit, RecordedAt
    <3> QED BY <3>2 DEF Init, ClientInit, NoSession
  <2>4. HeldInv
    BY <2>3 DEF Init, ClientInit, HeldInv, RecordedIsWanted, ClosedHoldsNothing,
                OverlapSeen, AskedGone, AskedHeld, NoneStray, AllHeld
  <2> QED BY <2>1, <2>2, <2>4 DEF ThreadsInv
<1>2. ThreadsInv /\ [Next]_vars => ThreadsInv'
  BY TypesKept, QueueKept, FlagKept, HeldKept DEF ThreadsInv
<1> QED BY <1>1, <1>2, PTL DEF Spec

(* The variables of both threads and the queue keep their types.           *)
THEOREM ThreadTypes == Spec => []TypeOK
<1>1. ThreadsInv => TypeOK
  BY DEF ThreadsInv
<1> QED BY <1>1, ThreadsInvHolds, PTL

(* Between two callbacks is_connected() agrees with the last connection    *)
(* event queued, whatever the threads do.                                  *)
THEOREM FlagAlwaysAgrees == Spec => []FlagAgrees
<1>1. ThreadsInv => FlagAgrees
  BY DEF ThreadsInv, FlagInv, FlagAgrees
<1> QED BY <1>1, ThreadsInvHolds, PTL

(* Only an overlap with the reapplying can make the broker hold something  *)
(* else than the caller wants.                                             *)
THEOREM OnlyOverlapsDisagree == Spec => []HeldUnlessOverlapped
<1>1. ThreadsInv => HeldUnlessOverlapped
  BY DEF ThreadsInv, HeldInv, HeldUnlessOverlapped, Settled, MainIdle, NoneStray, AllHeld,
         Untouched, StillToCome
<1> QED BY <1>1, ThreadsInvHolds, PTL

(* The callbacks see the events of the network thread once and in order.   *)
THEOREM EventsImplementStream == Spec => ImplementsStream
<1>1. Init => Stream!Init
  BY DEF Init, Stream!Init
<1>2. ThreadsInv /\ [Next]_vars => [Stream!Next]_(Stream!streamVars)
  BY QueueKept DEF ThreadsInv
<1> QED BY <1>1, <1>2, ThreadsInvHolds, PTL DEF Spec, ImplementsStream, Stream!Spec
=============================================================================
