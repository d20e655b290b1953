-------------------------- MODULE ControllerProofs --------------------------
(***************************************************************************)
(* Proofs about Controller: its types, the invariants its safety run       *)
(* checks, and that it implements Outbox.                                  *)
(***************************************************************************)
EXTENDS Controller, MqttClientProofs, SequenceTheorems

(* What is proved of the outbox, read as facts about the controller.       *)
BoxFacts == INSTANCE OutboxProofs WITH count <- Len(taken), queue <- pending,
                                       delivered <- published, lost <- dropped,
                                       MaxCount <- MaxUpdates + MaxFaults

(* A drained queue is split: what left it was published after the rest.    *)
LEMMA DrainSplits ==
  ASSUME NEW S, NEW q \in Seq(S), NEW p \in Seq(S), NEW i \in 0 .. Len(q)
  PROVE  /\ p \o SubSeq(q, 1, i) \in Seq(S)
         /\ SubSeq(q, i + 1, Len(q)) \in Seq(S)
<1>1. SubSeq(q, 1, i) \in Seq(S) /\ SubSeq(q, i + 1, Len(q)) \in Seq(S)
  <2>1. \A j \in 1 .. Len(q) : q[j] \in S
    BY ElementOfSeq
  <2> QED BY <2>1, SubSeqProperties, LenProperties
<1> QED BY <1>1, ConcatProperties

-----------------------------------------------------------------------------
(* Payloads. *)

(* A tainted key has a value in the cache, so that a payload holds none of *)
(* the keys the script never published.                                    *)
TaintedCached == \A k \in tainted : telemetry[k] # NoValue

(* A payload is a function from some telemetry keys to values.             *)
LEMMA PayloadType ==
  ASSUME TypeOK, TaintedCached
  PROVE  Keep(tainted, telemetry) \in Payloads
BY DEF Keep, Payloads, TypeOK, TaintedCached

-----------------------------------------------------------------------------
(* Types. *)

OutboxTypeOK ==
  /\ taken \in Seq(Payloads)
  /\ pending \in Seq(1 .. Len(taken))
  /\ published \in Seq(1 .. Len(taken))
  /\ dropped \subseteq 1 .. Len(taken)

(* sendTelemetry keeps the types of the outbox.                            *)
LEMMA SendTelemetryTypes ==
  ASSUME TypeOK, TaintedCached, SendTelemetry
  PROVE  OutboxTypeOK'
<1>1. taken' = Append(taken, Keep(tainted, telemetry))
  BY DEF SendTelemetry, QueuePayload, AcceptPayload, DropPayload, TakePayload
<1>2. /\ taken \in Seq(Payloads)
      /\ Keep(tainted, telemetry) \in Payloads
      /\ pending \in Seq(1 .. Len(taken))
      /\ published \in Seq(1 .. Len(taken))
      /\ dropped \subseteq 1 .. Len(taken)
  BY PayloadType DEF TypeOK
<1>3. Len(taken) \in Nat
  BY <1>2, LenProperties
<1>4. taken' \in Seq(Payloads) /\ Len(taken') = Len(taken) + 1
  BY <1>1, <1>2, AppendProperties
<1>5. pending \in Seq(1 .. Len(taken) + 1) /\ published \in Seq(1 .. Len(taken) + 1)
  BY <1>2, <1>3, BoxFacts!SeqWidens
<1>6. NewPayload \in 1 .. Len(taken') /\ dropped \cup {NewPayload} \subseteq 1 .. Len(taken')
  <2>1. NewPayload = Len(taken') /\ NewPayload \in 1 .. Len(taken')
    BY <1>3, <1>4 DEF NewPayload
  <2>2. \A n \in 1 .. Len(taken) : n \in 1 .. Len(taken')
    BY <1>3, <1>4
  <2> QED BY <1>2, <2>1, <2>2
<1>7. pending \in Seq(1 .. Len(taken')) /\ published \in Seq(1 .. Len(taken'))
  BY <1>4, <1>5
<1>8. /\ Append(pending, NewPayload) \in Seq(1 .. Len(taken'))
      /\ Append(published, NewPayload) \in Seq(1 .. Len(taken'))
  BY <1>6, <1>7, AppendProperties
<1> QED
  BY <1>4, <1>6, <1>7, <1>8
     DEF OutboxTypeOK, SendTelemetry, QueuePayload, AcceptPayload, DropPayload

(* The telemetry half of send() keeps types, and every key it leaves       *)
(* tainted has a value.                                                    *)
LEMMA TelemetryHalfTypes ==
  ASSUME TypeOK, TaintedCached, TelemetryHalf, UNCHANGED telemetry
  PROVE  OutboxTypeOK' /\ tainted' \subseteq TelemetryKeys /\ TaintedCached'
<1>1. CASE tainted = {} /\ UNCHANGED <<tainted, outboxVars>>
  BY <1>1 DEF OutboxTypeOK, outboxVars, TypeOK, TaintedCached
<1>2. CASE SendTelemetry /\ tainted' = {}
  BY <1>2, SendTelemetryTypes DEF TaintedCached
<1> QED BY <1>1, <1>2 DEF TelemetryHalf

(* Accepting attribute values keeps the type of what was sent.             *)
LEMMA AcceptAttributesType ==
  ASSUME TypeOK, NEW keys, AcceptAttributes(keys)
  PROVE  attrSent' \in [AttributeKeys -> Values \cup {NoValue}]
BY DEF AcceptAttributes, TypeOK

(* Draining i payloads keeps the types of the outbox.                      *)
LEMMA DrainTypes ==
  ASSUME TypeOK, NEW i \in 0 .. Len(pending), Drain(i), UNCHANGED <<taken, dropped>>
  PROVE  OutboxTypeOK'
BY DrainSplits DEF TypeOK, OutboxTypeOK, Drain

(* What follows a CONNACK keeps the types of the client.                   *)
LEMMA ConnackTypes ==
  ASSUME TypeOK, ConnackArrives,
         \/ SubscribesRpc
         \/ session' = Reapplied /\ UNCHANGED <<subs, wanted>>
  PROVE  ClientTypeOK'
<1>1. /\ Reapplied \in [Topics -> Qos \cup {NoQos}]
      /\ Record(2, RpcFilter) \in [Qos -> [Topics -> Nat]]
      /\ 2 \in Qos
  BY ReappliedType, RecordType, ControllerAssumption DEF TypeOK, Qos
<1> QED
  BY <1>1, ControllerAssumption
     DEF TypeOK, ClientTypeOK, ConnackArrives, SubscribesRpc, SocketStates

(* connect() and the calls that touch the client only keep its types.      *)
LEMMA ClientOnlyTypes ==
  ASSUME TypeOK, Connect \/ ControllerDisconnect \/ Loop \/ LoopEnds
  PROVE  ClientTypeOK'
<1>1. NoSession \in [Topics -> Qos \cup {NoQos}]
  BY DEF NoSession
<1>2. CASE Connect
  BY <1>1, <1>2 DEF Connect, ClientOnly, Reopen, TypeOK, ClientTypeOK, SocketStates
<1>3. CASE ControllerDisconnect
  BY <1>1, <1>3 DEF ControllerDisconnect, Disconnect, TypeOK, ClientTypeOK, SocketStates
<1>4. CASE Loop
  BY <1>4 DEF Loop, LoopNoConn, LoopIdle, clientVars, TypeOK, ClientTypeOK, SocketStates
<1>5. CASE LoopEnds
  BY <1>1, <1>5 DEF LoopEnds, LoopClosed, TypeOK, ClientTypeOK, SocketStates
<1> QED BY <1>2, <1>3, <1>4, <1>5

(* The parts of TypeOK that neither the client nor the outbox holds.       *)
CacheTypeOK ==
  /\ telemetry \in [TelemetryKeys -> Values \cup {NoValue}]
  /\ tainted \subseteq TelemetryKeys
  /\ attributes \in [AttributeKeys -> Values \cup {NoValue}]
  /\ attrTainted \subseteq AttributeKeys
  /\ attrSent \in [AttributeKeys -> Values \cup {NoValue}]
  /\ crashed \in BOOLEAN
  /\ updates \in 0 .. MaxUpdates
  /\ faults \in 0 .. MaxFaults

LEMMA TypeParts == TypeOK <=> ClientTypeOK /\ OutboxTypeOK /\ CacheTypeOK
BY DEF TypeOK, OutboxTypeOK, CacheTypeOK

LEMMA TypePartsNext == TypeOK' <=> ClientTypeOK' /\ OutboxTypeOK' /\ CacheTypeOK'
BY DEF TypeOK, OutboxTypeOK, CacheTypeOK

LEMMA ClientUnchanged == ClientTypeOK /\ UNCHANGED clientVars => ClientTypeOK'
BY DEF ClientTypeOK, clientVars

LEMMA OutboxUnchanged == OutboxTypeOK /\ UNCHANGED outboxVars => OutboxTypeOK'
BY DEF OutboxTypeOK, outboxVars

(* Every step keeps the types, and every tainted key its value.            *)
LEMMA TypesKept ==
  ASSUME TypeOK, TaintedCached, [Next]_vars
  PROVE  TypeOK' /\ TaintedCached'
<1> USE TypeParts
<1>1. ASSUME NEW k \in TelemetryKeys, NEW v \in Values, PublishTelemetry(k, v)
      PROVE  TypeOK' /\ TaintedCached'
  <2>1. ClientTypeOK' /\ OutboxTypeOK'
    BY <1>1, ClientUnchanged, OutboxUnchanged DEF PublishTelemetry, Update
  <2>2. CacheTypeOK' /\ TaintedCached'
    BY <1>1, ControllerAssumption
       DEF PublishTelemetry, Update, CacheTypeOK, TaintedCached
  <2> QED BY <2>1, <2>2, TypePartsNext
<1>2. ASSUME NEW k \in AttributeKeys, NEW v \in Values, SetAttribute(k, v)
      PROVE  TypeOK' /\ TaintedCached'
  <2>1. ClientTypeOK' /\ OutboxTypeOK'
    BY <1>2, ClientUnchanged, OutboxUnchanged DEF SetAttribute, Update
  <2>2. CacheTypeOK' /\ TaintedCached'
    BY <1>2, ControllerAssumption
       DEF SetAttribute, Update, CacheTypeOK, TaintedCached, telemetryVars
  <2> QED BY <2>1, <2>2, TypePartsNext
<1>3. CASE Send
  <2>1. ClientTypeOK' /\ OutboxTypeOK' /\ tainted' \subseteq TelemetryKeys /\ TaintedCached'
    BY <1>3, ClientUnchanged, TelemetryHalfTypes DEF Send, SendLeavesAlone
  <2>2. attrSent' \in [AttributeKeys -> Values \cup {NoValue}] /\ attrTainted' \subseteq AttributeKeys
    BY <1>3, AcceptAttributesType
       DEF Send, AttributeHalf, SendAttributes, CacheTypeOK
  <2>3. CacheTypeOK'
    BY <1>3, <2>1, <2>2 DEF Send, SendLeavesAlone, NoFault, CacheTypeOK
  <2> QED BY <2>1, <2>3, TypePartsNext
<1>4. CASE SendThrowsEarly
  <2>1. SendTelemetry
    BY <1>4 DEF SendThrowsEarly, SendTelemetry
  <2>2. ClientTypeOK' /\ OutboxTypeOK'
    BY <1>4, <2>1, ClientUnchanged, SendTelemetryTypes DEF SendThrowsEarly, SendLeavesAlone
  <2>3. CacheTypeOK' /\ TaintedCached'
    BY <1>4, ControllerAssumption
       DEF SendThrowsEarly, SendLeavesAlone, Fault, CacheTypeOK, TaintedCached
  <2> QED BY <2>2, <2>3, TypePartsNext
<1>5. CASE SendThrowsLate
  <2>1. ClientTypeOK' /\ OutboxTypeOK' /\ tainted' \subseteq TelemetryKeys /\ TaintedCached'
    BY <1>5, ClientUnchanged, TelemetryHalfTypes DEF SendThrowsLate, SendLeavesAlone
  <2>2. attrSent' \in [AttributeKeys -> Values \cup {NoValue}]
    BY <1>5, AcceptAttributesType DEF SendThrowsLate, CacheTypeOK
  <2>3. CacheTypeOK'
    BY <1>5, <2>1, <2>2, ControllerAssumption
       DEF SendThrowsLate, SendLeavesAlone, NoFault, Fault, CacheTypeOK
  <2> QED BY <2>1, <2>3, TypePartsNext
<1>6. CASE Connect \/ ControllerDisconnect \/ Loop \/ LoopEnds
  <2>1. ClientTypeOK'
    BY <1>6, ClientOnlyTypes
  <2>2. ClientOnly
    BY <1>6 DEF Connect, ControllerDisconnect, Loop, LoopEnds
  <2>3. OutboxTypeOK' /\ CacheTypeOK' /\ TaintedCached'
    BY <2>2, OutboxUnchanged
       DEF ClientOnly, telemetryVars, attributeVars, CacheTypeOK, TaintedCached
  <2> QED BY <2>1, <2>3, TypePartsNext
<1>7. CASE LoopConnects \/ CrashesInSubscribe \/ CrashesInAttributes \/ CrashesInDrain
  <2>1. ClientTypeOK'
    BY <1>7, ConnackTypes
       DEF LoopConnects, CrashesInSubscribe, CrashesInAttributes, CrashesInDrain
  <2>2. Len(pending) \in Nat
    BY LenProperties DEF OutboxTypeOK
  <2>3. OutboxTypeOK'
    <3>1. CASE LoopConnects \/ CrashesInDrain
      <4>1. PICK i \in 0 .. Len(pending) : Drain(i)
        BY <2>2, <3>1 DEF LoopConnects, CrashesInDrain
      <4> QED BY <3>1, <4>1, DrainTypes DEF LoopConnects, CrashesInDrain, ConnackArrives
    <3>2. CASE CrashesInSubscribe \/ CrashesInAttributes
      BY <3>2, OutboxUnchanged
         DEF CrashesInSubscribe, CrashesInAttributes, ConnackArrives, outboxVars
    <3> QED BY <1>7, <3>1, <3>2
  <2>4. attrSent' \in [AttributeKeys -> Values \cup {NoValue}]
    BY <1>7, AcceptAttributesType
       DEF LoopConnects, CrashesInSubscribe, CrashesInAttributes, CrashesInDrain,
           SendsAllAttributes, CacheTypeOK
  <2>5. crashed' \in BOOLEAN /\ faults' \in 0 .. MaxFaults
    <3>1. (Fault \/ NoFault) /\ (crashed' = TRUE \/ UNCHANGED crashed)
      BY <1>7 DEF LoopConnects, CrashesInSubscribe, CrashesInAttributes, CrashesInDrain
    <3>2. crashed' \in BOOLEAN
      BY <3>1 DEF CacheTypeOK
    <3>3. faults' \in 0 .. MaxFaults
      BY <3>1, ControllerAssumption DEF NoFault, Fault, CacheTypeOK
    <3> QED BY <3>2, <3>3
  <2>6. CacheTypeOK' /\ TaintedCached'
    BY <1>7, <2>4, <2>5
       DEF LoopConnects, CrashesInSubscribe, CrashesInAttributes, CrashesInDrain,
           ConnackArrives, telemetryVars, CacheTypeOK, TaintedCached
  <2> QED BY <2>1, <2>3, <2>6, TypePartsNext
<1>8. CASE UNCHANGED vars
  BY <1>8, ClientUnchanged, OutboxUnchanged, TypePartsNext
     DEF vars, telemetryVars, attributeVars, CacheTypeOK, TaintedCached
<1> QED
  BY <1>1, <1>2, <1>3, <1>4, <1>5, <1>6, <1>7, <1>8 DEF Next, Crashed

LEMMA TypesInitially == Init => TypeOK /\ TaintedCached
<1> SUFFICES ASSUME Init PROVE TypeOK /\ TaintedCached
  OBVIOUS
<1>1. ClientTypeOK
  <2>1. handle \in BOOLEAN /\ connected \in BOOLEAN /\ sock \in SocketStates
    BY DEF Init, ClientInit, SocketStates
  <2>2. subs \in [Qos -> [Topics -> Nat]]
    BY DEF Init, ClientInit
  <2> QED BY <2>1, <2>2 DEF Init, ClientInit, ClientTypeOK, NoSession
<1>2. OutboxTypeOK
  BY EmptySeq DEF Init, OutboxTypeOK
<1>3. CacheTypeOK /\ TaintedCached
  <2>1. crashed \in BOOLEAN
    BY DEF Init
  <2>2. updates \in 0 .. MaxUpdates /\ faults \in 0 .. MaxFaults
    BY ControllerAssumption DEF Init
  <2> QED BY <2>1, <2>2 DEF Init, CacheTypeOK, TaintedCached
<1> QED BY <1>1, <1>2, <1>3, TypeParts

(* The variables of the controller and of its client keep their types, for *)
(* any keys, values and bounds.                                            *)
THEOREM TypeCorrect == Spec => [](TypeOK /\ TaintedCached)
<1>1. TypeOK /\ TaintedCached /\ [Next]_vars => (TypeOK /\ TaintedCached)'
  BY TypesKept
<1> QED BY TypesInitially, <1>1, PTL DEF Spec

-----------------------------------------------------------------------------
(* What holds of the connection.  "IndInv" is inductive: the callback      *)
(* crashes only after it set m_connected, so the properties that exempt a  *)
(* crashed controller need ActiveIsConnected, which does not.              *)

IndInv ==
  /\ TypeOK
  /\ TaintedCached
  /\ ActiveIsConnected
  /\ DrainedWhenConnected
  /\ AttributesFresh

(* is_connected() never denies a session that is up, whatever the step.    *)
LEMMA ActiveIsConnectedKept ==
  ASSUME IndInv, [Next]_vars
  PROVE  ActiveIsConnected'
<1> USE DEF ActiveIsConnected
<1>1. CASE UNCHANGED clientVars
  BY <1>1 DEF clientVars, IndInv
<1>2. CASE Connect \/ ControllerDisconnect \/ Loop \/ LoopEnds
  BY <1>2 DEF Connect, Reopen, ControllerDisconnect, Disconnect, Loop, LoopNoConn,
              LoopIdle, LoopEnds, LoopClosed, clientVars, IndInv
<1>3. CASE ConnackArrives
  BY <1>3 DEF ConnackArrives
<1> QED
  BY <1>1, <1>2, <1>3
     DEF Next, PublishTelemetry, SetAttribute, Update, Send, SendThrowsEarly,
         SendThrowsLate, SendLeavesAlone, LoopConnects, CrashesInSubscribe,
         CrashesInAttributes, CrashesInDrain, Crashed, vars

(* The queue is drained before send() may publish past it: only sendTele-  *)
(* metry appends, and only without a connection.                           *)
LEMMA DrainedWhenConnectedKept ==
  ASSUME IndInv, [Next]_vars
  PROVE  DrainedWhenConnected'
<1> USE DEF DrainedWhenConnected
<1>1. CASE UNCHANGED <<connected, pending, crashed>>
  BY <1>1 DEF IndInv
<1>2. ASSUME TelemetryHalf, UNCHANGED <<connected, crashed>>
      PROVE  DrainedWhenConnected'
  BY <1>2 DEF TelemetryHalf, SendTelemetry, QueuePayload, AcceptPayload,
              DropPayload, outboxVars, IndInv
<1>3. CASE Connect \/ ControllerDisconnect \/ Loop \/ LoopEnds
  BY <1>3 DEF Connect, Reopen, ControllerDisconnect, Disconnect, Loop, LoopNoConn,
              LoopIdle, LoopEnds, LoopClosed, clientVars, ClientOnly, outboxVars, IndInv
<1>4. CASE LoopConnects
  <2>1. pending \in Seq(1 .. Len(taken)) /\ Len(pending) \in Nat
    BY LenProperties DEF IndInv, TypeOK
  <2>2. SubSeq(pending, Len(pending) + 1, Len(pending)) = <<>>
    BY <2>1, SubSeqEmpty
  <2> QED BY <1>4, <2>2 DEF LoopConnects, Drain
<1>5. CASE CrashesInSubscribe \/ CrashesInAttributes \/ CrashesInDrain
  BY <1>5 DEF CrashesInSubscribe, CrashesInAttributes, CrashesInDrain
<1> QED
  BY <1>1, <1>2, <1>3, <1>4, <1>5
     DEF Next, PublishTelemetry, SetAttribute, Update, Send, SendThrowsEarly,
         AcceptPayload, SendThrowsLate, SendLeavesAlone, Crashed, vars, clientVars, outboxVars

(* While a session is up an untainted attribute stays as it was accepted.  *)
LEMMA AttributesFreshKept ==
  ASSUME IndInv, [Next]_vars
  PROVE  AttributesFresh'
<1> USE DEF AttributesFresh
<1>1. CASE UNCHANGED <<sock, crashed, attributeVars>>
  BY <1>1 DEF attributeVars, IndInv
<1>2. ASSUME NEW k \in AttributeKeys, NEW v \in Values, SetAttribute(k, v)
      PROVE  AttributesFresh'
  <2>1. \A j \in AttributeKeys \ {k} : attributes'[j] = attributes[j]
    BY <1>2 DEF SetAttribute, IndInv, TypeOK
  <2> QED BY <1>2, <2>1 DEF SetAttribute, Update, clientVars, IndInv
<1>3. CASE Send
  <2>1. SUFFICES ASSUME sock = "active", ~crashed, NEW k \in AttributeKeys \ attrTainted'
                 PROVE  attrSent'[k] = attributes'[k]
    BY <1>3 DEF Send, SendLeavesAlone, clientVars
  <2>2. connected /\ attributes' = attributes
    BY <1>3, <2>1 DEF Send, SendLeavesAlone, IndInv, ActiveIsConnected
  <2>3. CASE attrTainted = {} /\ UNCHANGED <<attrTainted, attrSent>>
    BY <2>1, <2>2, <2>3 DEF IndInv
  <2>4. CASE AcceptAttributes(attrTainted)
    BY <2>1, <2>2, <2>4 DEF AcceptAttributes, IndInv
  <2> QED BY <1>3, <2>1, <2>2, <2>3, <2>4 DEF Send, AttributeHalf, SendAttributes
<1>4. CASE SendThrowsLate
  <2>1. /\ UNCHANGED <<sock, crashed, attributes, attrTainted>>
        /\ UNCHANGED attrSent \/ AcceptAttributes(attrTainted)
    BY <1>4 DEF SendThrowsLate, SendLeavesAlone, clientVars
  <2> QED BY <2>1 DEF AcceptAttributes, IndInv
<1>5. CASE Connect \/ ControllerDisconnect \/ Loop \/ LoopEnds
  BY <1>5 DEF Connect, Reopen, ControllerDisconnect, Disconnect, Loop, LoopNoConn,
              LoopIdle, LoopEnds, LoopClosed, clientVars, ClientOnly, attributeVars, IndInv
<1>6. CASE LoopConnects
  BY <1>6 DEF LoopConnects, ConnackArrives, SendsAllAttributes, AcceptAttributes
<1>7. CASE CrashesInSubscribe \/ CrashesInAttributes \/ CrashesInDrain
  BY <1>7 DEF CrashesInSubscribe, CrashesInAttributes, CrashesInDrain
<1> QED
  BY <1>1, <1>2, <1>3, <1>4, <1>5, <1>6, <1>7
     DEF Next, PublishTelemetry, Update, SendThrowsEarly, SendLeavesAlone,
         Crashed, vars, clientVars, attributeVars

(* The inductive invariant holds in every state.                           *)
LEMMA IndInvHolds == Spec => []IndInv
<1>1. Init => IndInv
  <2>1. Init => ActiveIsConnected
    BY DEF Init, ClientInit, ActiveIsConnected
  <2>2. Init => DrainedWhenConnected /\ AttributesFresh
    BY DEF Init, ClientInit, DrainedWhenConnected, AttributesFresh
  <2> QED BY TypesInitially, <2>1, <2>2 DEF IndInv
<1>2. IndInv /\ [Next]_vars => IndInv'
  <2> SUFFICES ASSUME IndInv, [Next]_vars PROVE IndInv'
    OBVIOUS
  <2>1. TypeOK' /\ TaintedCached'
    BY TypesKept DEF IndInv
  <2> QED
    BY <2>1, ActiveIsConnectedKept, DrainedWhenConnectedKept, AttributesFreshKept
       DEF IndInv
<1> QED BY <1>1, <1>2, PTL DEF Spec

(* Whenever m_connected is set, the queue is empty: send() never publishes *)
(* past a payload that waits.                                              *)
THEOREM QueueDrained == Spec => []DrainedWhenConnected
<1>1. IndInv => DrainedWhenConnected
  BY DEF IndInv
<1> QED BY IndInvHolds, <1>1, PTL

(* While a session is up, the library was given the cached value of every  *)
(* attribute that send() no longer holds tainted.                          *)
THEOREM AttributesUpToDate == Spec => []AttributesFresh
<1>1. IndInv => AttributesFresh
  BY DEF IndInv
<1> QED BY IndInvHolds, <1>1, PTL

-----------------------------------------------------------------------------
(* What holds of the payloads. *)

(* Building a payload leaves the older ones as they are.                   *)
LEMMA TakePayloadAppends ==
  ASSUME TypeOK, TaintedCached, TakePayload
  PROVE  /\ Len(taken) \in Nat
         /\ Len(taken') = Len(taken) + 1
         /\ \A m \in 1 .. Len(taken) : taken'[m] = taken[m]
         /\ taken'[Len(taken) + 1] = Keep(tainted, telemetry)
<1>1. taken \in Seq(Payloads) /\ Keep(tainted, telemetry) \in Payloads
  BY PayloadType DEF TypeOK
<1> QED BY <1>1, AppendProperties, LenProperties DEF TakePayload

(* The new payload is the newest for the keys that were tainted, and older *)
(* payloads stay the newest for every other key.                           *)
LEMMA TakePayloadFresh ==
  ASSUME TypeOK, TaintedCached, TelemetryFresh, TakePayload, UNCHANGED telemetry,
         tainted' = {} \/ UNCHANGED tainted
  PROVE  TelemetryFresh'
<1> DEFINE new == Len(taken) + 1
<1> SUFFICES ASSUME NEW k \in TelemetryKeys \ tainted', telemetry[k] # NoValue
             PROVE  \E n \in 1 .. Len(taken') : Newest(n, k)' /\ taken'[n][k] = telemetry[k]
  BY DEF TelemetryFresh
<1>1. /\ Len(taken) \in Nat
      /\ Len(taken') = new
      /\ \A m \in 1 .. Len(taken) : taken'[m] = taken[m]
      /\ taken'[new] = [j \in tainted |-> telemetry[j]]
  BY TakePayloadAppends DEF Keep
<1>2. CASE k \in tainted
  <2>1. PICK n \in 1 .. Len(taken') : n = new /\ \A m \in n + 1 .. Len(taken') : FALSE
    BY <1>1
  <2>2. taken'[n][k] = telemetry[k] /\ k \in DOMAIN taken'[n]
    BY <1>1, <1>2, <2>1
  <2>3. Newest(n, k)'
    BY <2>1, <2>2 DEF Newest
  <2> QED BY <2>2, <2>3
<1>3. CASE k \notin tainted
  <2>1. PICK n \in 1 .. Len(taken) : Newest(n, k) /\ taken[n][k] = telemetry[k]
    BY <1>3 DEF TelemetryFresh
  <2>2. n \in 1 .. Len(taken') /\ taken'[n] = taken[n]
    BY <1>1
  <2>3. ASSUME NEW m \in n + 1 .. Len(taken')
        PROVE  k \notin DOMAIN taken'[m]
    <3>1. CASE m = new
      BY <1>1, <1>3, <3>1
    <3>2. CASE m # new
      <4>1. m \in n + 1 .. Len(taken) /\ m \in 1 .. Len(taken)
        BY <1>1, <2>1, <3>2
      <4> QED BY <1>1, <2>1, <4>1 DEF Newest
    <3> QED BY <3>1, <3>2
  <2>4. Newest(n, k)'
    BY <2>1, <2>2, <2>3 DEF Newest
  <2> QED BY <2>1, <2>2, <2>4
<1> QED BY <1>2, <1>3

LEMMA TelemetryFreshKept ==
  ASSUME TypeOK, TaintedCached, TelemetryFresh, [Next]_vars
  PROVE  TelemetryFresh'
<1>1. CASE UNCHANGED <<telemetry, tainted, taken>>
  BY <1>1 DEF TelemetryFresh, Newest
<1>2. ASSUME NEW k \in TelemetryKeys, NEW v \in Values, PublishTelemetry(k, v)
      PROVE  TelemetryFresh'
  <2>1. taken' = taken /\ tainted' = tainted \cup {k}
    BY <1>2 DEF PublishTelemetry, Update, outboxVars
  <2>2. \A j \in TelemetryKeys \ {k} : telemetry'[j] = telemetry[j]
    BY <1>2 DEF PublishTelemetry, TypeOK
  <2> QED BY <2>1, <2>2 DEF TelemetryFresh, Newest
<1>3. ASSUME TelemetryHalf, UNCHANGED telemetry
      PROVE  TelemetryFresh'
  <2>1. CASE tainted = {} /\ UNCHANGED <<tainted, outboxVars>>
    BY <1>1, <1>3, <2>1 DEF outboxVars
  <2>2. CASE SendTelemetry /\ tainted' = {}
    BY <1>3, <2>2, TakePayloadFresh
       DEF SendTelemetry, QueuePayload, AcceptPayload, DropPayload
  <2> QED BY <1>3, <2>1, <2>2 DEF TelemetryHalf
<1>4. CASE SendThrowsEarly
  BY <1>4, TakePayloadFresh DEF SendThrowsEarly, SendLeavesAlone, AcceptPayload
<1> QED
  BY <1>1, <1>2, <1>3, <1>4
     DEF Next, SetAttribute, Update, Send, SendThrowsLate, SendLeavesAlone, Connect,
         ControllerDisconnect, Loop, LoopEnds, ClientOnly, LoopConnects,
         CrashesInSubscribe, CrashesInAttributes, CrashesInDrain, ConnackArrives,
         Crashed, vars, telemetryVars, outboxVars

(* Each payload is paid for by a change or by a failed publish.            *)
LEMMA PayloadsPaidForKept ==
  ASSUME TypeOK, TaintedCached, PayloadsPaidFor, [Next]_vars
  PROVE  PayloadsPaidFor'
<1> USE DEF PayloadsPaidFor
<1>1. Len(taken) \in Nat /\ updates \in Nat /\ faults \in Nat
  BY LenProperties, ControllerAssumption DEF TypeOK
<1>2. CASE /\ UNCHANGED <<tainted, taken>>
           /\ updates' \in {updates, updates + 1}
           /\ faults' \in {faults, faults + 1}
  BY <1>1, <1>2
<1>3. ASSUME NEW k \in TelemetryKeys, NEW v \in Values, PublishTelemetry(k, v)
      PROVE  PayloadsPaidFor'
  BY <1>1, <1>3 DEF PublishTelemetry, Update, outboxVars
<1>4. ASSUME TelemetryHalf, UNCHANGED updates, faults' \in {faults, faults + 1}
      PROVE  PayloadsPaidFor'
  <2>1. CASE tainted = {} /\ UNCHANGED <<tainted, outboxVars>>
    BY <1>2, <1>4, <2>1 DEF outboxVars
  <2>2. CASE tainted # {} /\ SendTelemetry /\ tainted' = {}
    <3>1. Len(taken') = Len(taken) + 1
      BY <2>2, TakePayloadAppends
         DEF SendTelemetry, QueuePayload, AcceptPayload, DropPayload
    <3> QED BY <1>1, <1>4, <2>2, <3>1
  <2> QED BY <1>4, <2>1, <2>2 DEF TelemetryHalf
<1>5. CASE SendThrowsEarly
  <2>1. Len(taken') = Len(taken) + 1
    BY <1>5, TakePayloadAppends DEF SendThrowsEarly, AcceptPayload
  <2> QED BY <1>1, <1>5, <2>1 DEF SendThrowsEarly, SendLeavesAlone, Fault
<1> QED
  BY <1>2, <1>3, <1>4, <1>5
     DEF Next, SetAttribute, Update, Send, SendThrowsLate, SendLeavesAlone, Connect,
         ControllerDisconnect, Loop, LoopEnds, ClientOnly, LoopConnects,
         CrashesInSubscribe, CrashesInAttributes, CrashesInDrain, ConnackArrives,
         NoFault, Fault, Crashed, vars, telemetryVars, outboxVars

(* A key that is not tainted has its cached value in the newest payload    *)
(* that mentions it: send() and publishTelemetry forget no change.         *)
THEOREM TelemetryStaysFresh == Spec => []TelemetryFresh
<1>1. Init => TelemetryFresh
  BY DEF Init, TelemetryFresh
<1>2. TypeOK /\ TaintedCached /\ TelemetryFresh /\ [Next]_vars => TelemetryFresh'
  BY TelemetryFreshKept
<1> QED BY TypeCorrect, <1>1, <1>2, PTL DEF Spec

(* The number of payloads never exceeds the changes of cached values and   *)
(* the failed publishes: nothing is sent that did not change.              *)
THEOREM PayloadsArePaidFor == Spec => []PayloadsPaidFor
<1>1. Init => PayloadsPaidFor
  BY EmptySeq DEF Init, PayloadsPaidFor
<1>2. TypeOK /\ TaintedCached /\ PayloadsPaidFor /\ [Next]_vars => PayloadsPaidFor'
  BY PayloadsPaidForKept
<1> QED BY TypeCorrect, <1>1, <1>2, PTL DEF Spec

-----------------------------------------------------------------------------
(* The controller implements Outbox. *)

(* sendTelemetry is a step of the outbox: it goes past the queue only when *)
(* DrainedWhenConnected says nothing waits.                                *)
LEMMA SendTelemetryImplements ==
  ASSUME IndInv, ~crashed, SendTelemetry, Len(taken) < MaxUpdates + MaxFaults
  PROVE  Box!Next
<1>1. Len(taken') = Len(taken) + 1
  BY TakePayloadAppends
     DEF SendTelemetry, QueuePayload, AcceptPayload, DropPayload, IndInv
<1>2. Box!Build
  BY <1>1 DEF Box!Build
<1>3. CASE QueuePayload
  BY <1>2, <1>3 DEF QueuePayload, NewPayload, Box!Wait, Box!Next
<1>4. CASE connected /\ AcceptPayload
  BY <1>2, <1>4 DEF AcceptPayload, NewPayload, Box!Deliver, Box!Next,
                    IndInv, DrainedWhenConnected
<1>5. CASE connected /\ DropPayload
  BY <1>2, <1>5 DEF DropPayload, NewPayload, Box!Lose, Box!Next,
                    IndInv, DrainedWhenConnected
<1> QED BY <1>3, <1>4, <1>5 DEF SendTelemetry

(* Draining some of the queue is a flush of the outbox, draining none of   *)
(* it leaves the outbox as it is.                                          *)
LEMMA DrainImplements ==
  ASSUME IndInv, NEW i \in 0 .. Len(pending), Drain(i), UNCHANGED <<taken, dropped>>
  PROVE  Box!Next \/ UNCHANGED Box!boxVars
<1>1. /\ pending \in Seq(1 .. Len(taken))
      /\ published \in Seq(1 .. Len(taken))
      /\ Len(pending) \in Nat
  BY LenProperties DEF IndInv, TypeOK
<1>2. CASE i = 0
  <2>1. SubSeq(pending, 1, 0) = <<>> /\ SubSeq(pending, 1, Len(pending)) = pending
    BY <1>1, SubSeqEmpty, SubSeqFull
  <2>2. published \o <<>> = published
    BY <1>1, ConcatEmptySeq
  <2>3. published' = published \o SubSeq(pending, 1, 0) /\ pending' = SubSeq(pending, 1, Len(pending))
    BY <1>2 DEF Drain
  <2> QED BY <2>1, <2>2, <2>3 DEF Box!boxVars
<1>3. CASE i # 0
  <2>1. i \in 1 .. Len(pending)
    BY <1>1, <1>3
  <2> QED BY <2>1 DEF Drain, Box!Flush, Box!Next
<1> QED BY <1>2, <1>3

(* A step that builds a payload stays within the bound of the outbox.      *)
LEMMA BudgetLeft ==
  ASSUME TypeOK, PayloadsPaidFor, tainted # {}, UNCHANGED faults \/ Fault
  PROVE  Len(taken) < MaxUpdates + MaxFaults
BY LenProperties, ControllerAssumption DEF TypeOK, PayloadsPaidFor

LEMMA StepImplements ==
  ASSUME IndInv, PayloadsPaidFor, [Next]_vars
  PROVE  Box!Next \/ UNCHANGED Box!boxVars
<1>1. CASE UNCHANGED outboxVars
  BY <1>1 DEF outboxVars, Box!boxVars
<1>2. ASSUME TelemetryHalf, ~crashed, UNCHANGED faults \/ Fault
      PROVE  Box!Next \/ UNCHANGED Box!boxVars
  <2>1. CASE tainted # {} /\ SendTelemetry
    BY <1>2, <2>1, SendTelemetryImplements, BudgetLeft DEF IndInv
  <2> QED BY <1>1, <1>2, <2>1 DEF TelemetryHalf
<1>3. CASE SendThrowsEarly
  <2>1. ~crashed /\ tainted # {} /\ SendTelemetry /\ Fault
    BY <1>3 DEF SendThrowsEarly, SendTelemetry
  <2> QED BY <2>1, SendTelemetryImplements, BudgetLeft DEF IndInv
<1>4. CASE LoopConnects \/ CrashesInDrain
  <2>1. pending \in Seq(1 .. Len(taken)) /\ Len(pending) \in Nat
    BY LenProperties DEF IndInv, TypeOK
  <2>2. PICK i \in 0 .. Len(pending) : Drain(i)
    BY <1>4, <2>1 DEF LoopConnects, CrashesInDrain
  <2> QED BY <1>4, <2>2, DrainImplements DEF LoopConnects, CrashesInDrain, ConnackArrives
<1> QED
  BY <1>1, <1>2, <1>3, <1>4
     DEF Next, PublishTelemetry, SetAttribute, Update, Send, SendThrowsLate, Connect,
         ControllerDisconnect, Loop, LoopEnds, ClientOnly, CrashesInSubscribe,
         CrashesInAttributes, ConnackArrives, NoFault, Crashed, vars, outboxVars

(* Every behaviour of the controller is one of the outbox: each payload is *)
(* queued, published or dropped once, and none overtakes another.          *)
THEOREM OutboxImplemented == Spec => ImplementsOutbox
<1>1. Init => Box!Init
  BY EmptySeq DEF Init, Box!Init
<1>2. IndInv /\ PayloadsPaidFor /\ [Next]_vars => [Box!Next]_(Box!boxVars)
  BY StepImplements
<1> QED
  BY IndInvHolds, PayloadsArePaidFor, <1>1, <1>2, PTL
     DEF Spec, ImplementsOutbox, Box!Spec

LEMMA OutboxFactsHold == Spec => []PayloadsInOrder /\ []PayloadsAccounted
<1>1. BoxFacts!Spec => []BoxFacts!InOrder /\ []BoxFacts!Accounted
  BY BoxFacts!OutboxInOrder, BoxFacts!OutboxAccounted
<1>2. Box!Init => BoxFacts!Init
  BY DEF Box!Init, BoxFacts!Init
<1>3. [Box!Next]_(Box!boxVars) => [BoxFacts!Next]_(BoxFacts!boxVars)
  BY DEF Box!Next, Box!Wait, Box!Deliver, Box!Lose, Box!Flush, Box!Build, Box!boxVars,
         BoxFacts!Next, BoxFacts!Wait, BoxFacts!Deliver, BoxFacts!Lose, BoxFacts!Flush,
         BoxFacts!Build, BoxFacts!boxVars
<1>4. BoxFacts!InOrder /\ BoxFacts!Accounted => PayloadsInOrder /\ PayloadsAccounted
  BY DEF PayloadsInOrder, PayloadsAccounted, Box!InOrder, BoxFacts!InOrder, Box!Accounted, BoxFacts!Accounted,
         Box!Line, BoxFacts!Line
<1> QED
  BY OutboxImplemented, <1>1, <1>2, <1>3, <1>4, PTL
     DEF ImplementsOutbox, Box!Spec, BoxFacts!Spec

(* The library receives payloads in the order send() built them, none      *)
(* twice and none before one that waits in m_pending_telemetry.            *)
THEOREM PayloadsLeaveInOrder == Spec => []PayloadsInOrder
BY OutboxFactsHold, PTL

(* Every payload built waits, was accepted or was dropped, and only one of *)
(* these.                                                                  *)
THEOREM PayloadsAllAccounted == Spec => []PayloadsAccounted
BY OutboxFactsHold, PTL
=============================================================================
