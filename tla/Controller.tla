----------------------------- MODULE Controller -----------------------------
(***************************************************************************)
(* Controller over MqttClientSingleThread: telemetry and attributes are    *)
(* cached by key, changed keys are tainted, send() turns tainted keys into *)
(* one payload and publishes it or queues it, and the connect callback     *)
(* subscribes, sends every attribute and drains the queue.                 *)
(*                                                                         *)
(* A script drives it from one thread, so every API call is one step, with *)
(* the callbacks it runs.  The n-th telemetry payload built is known by    *)
(* its number n; taken[n] is what it holds.  A definition marked "mutant"  *)
(* is a bug the code does not have (see PROJECT.json).                     *)
(***************************************************************************)
EXTENDS MqttClient, Sequences

CONSTANTS
  TelemetryKeys, AttributeKeys,
  Values,       \* JSON values
  BadValues,    \* those dump() throws on: strings that are not valid UTF-8
  NoValue,      \* a key the cache does not hold
  RpcFilter,    \* THINGSMQTT_RPC_TOPIC "/+"
  MaxUpdates,   \* bound: calls that change a cached value
  MaxSessions,  \* bound: sessions that may be lost and replaced
  MaxFaults     \* bound: library calls that fail for want of a resource

ASSUME ControllerAssumption ==
  /\ BadValues \subseteq Values
  /\ NoValue \notin Values
  /\ RpcFilter \in Topics
  /\ MaxUpdates \in Nat
  /\ MaxSessions \in Nat
  /\ MaxFaults \in Nat

VARIABLES
  telemetry,    \* m_telemetry_data
  tainted,      \* m_tainted_telemetry_keys
  attributes,   \* m_attribute_data
  attrTainted,  \* m_tainted_attribute_keys
  pending,      \* m_pending_telemetry: numbers of payloads, oldest first
  taken,        \* history: every telemetry payload built and handed over
  published,    \* history: payloads the library accepted, in that order
  dropped,      \* history: payloads refused with MOSQ_ERR_NO_CONN
  attrSent,     \* history: the value of each attribute last accepted
  crashed,      \* an exception escaped a callback of the library
  updates,      \* history: bounded by MaxUpdates
  faults        \* history: bounded by MaxFaults

telemetryVars == <<telemetry, tainted>>
attributeVars == <<attributes, attrTainted, attrSent>>
outboxVars == <<pending, taken, published, dropped>>
vars == <<clientVars, telemetryVars, attributeVars, outboxVars,
          crashed, updates, faults>>

KeepAll(keys, cache) == cache                                      \* mutant

Keep(keys, cache) == [k \in keys |-> cache[k]]

Payloads == UNION {[S -> Values] : S \in SUBSET TelemetryKeys}

TypeOK ==
  /\ ClientTypeOK
  /\ telemetry \in [TelemetryKeys -> Values \cup {NoValue}]
  /\ tainted \subseteq TelemetryKeys
  /\ attributes \in [AttributeKeys -> Values \cup {NoValue}]
  /\ attrTainted \subseteq AttributeKeys
  /\ attrSent \in [AttributeKeys -> Values \cup {NoValue}]
  /\ taken \in Seq(Payloads)
  /\ pending \in Seq(1 .. Len(taken))
  /\ published \in Seq(1 .. Len(taken))
  /\ dropped \subseteq 1 .. Len(taken)
  /\ crashed \in BOOLEAN
  /\ updates \in 0 .. MaxUpdates
  /\ faults \in 0 .. MaxFaults

Init ==
  /\ ClientInit
  /\ telemetry = [k \in TelemetryKeys |-> NoValue]
  /\ tainted = {}
  /\ attributes = [k \in AttributeKeys |-> NoValue]
  /\ attrTainted = {}
  /\ attrSent = [k \in AttributeKeys |-> NoValue]
  /\ pending = <<>>
  /\ taken = <<>>
  /\ published = <<>>
  /\ dropped = {}
  /\ crashed = FALSE
  /\ updates = 0
  /\ faults = 0

-----------------------------------------------------------------------------
(* The caches. *)

Update == /\ ~crashed
          /\ updates < MaxUpdates
          /\ updates' = updates + 1
          /\ UNCHANGED <<clientVars, outboxVars, attrSent, crashed, faults>>

TaintsNewKeysOnly(k, v) ==                                         \* mutant
  /\ Update
  /\ telemetry[k] # v
  /\ telemetry' = [telemetry EXCEPT ![k] = v]
  /\ tainted' = IF telemetry[k] = NoValue THEN tainted \cup {k} ELSE tainted
  /\ UNCHANGED <<attributes, attrTainted>>

(* A value equal to the cached one changes nothing.                        *)
PublishTelemetry(k, v) ==
  /\ Update
  /\ telemetry[k] # v
  /\ telemetry' = [telemetry EXCEPT ![k] = v]
  /\ tainted' = tainted \cup {k}
  /\ UNCHANGED <<attributes, attrTainted>>

SetAttribute(k, v) ==
  /\ Update
  /\ attributes[k] # v
  /\ attributes' = [attributes EXCEPT ![k] = v]
  /\ attrTainted' = attrTainted \cup {k}
  /\ UNCHANGED telemetryVars

-----------------------------------------------------------------------------
(* send(): the telemetry half, then the attribute half. *)

(* dump() of the payload made of these keys does not throw.                *)
Dumps(keys, cache) == \A k \in keys : cache[k] \notin BadValues

NoFault == UNCHANGED faults

Fault == faults < MaxFaults /\ faults' = faults + 1

NewPayload == Len(taken) + 1

TakePayload == taken' = Append(taken, Keep(tainted, telemetry))

QueueAtFront ==                                                    \* mutant
  /\ TakePayload
  /\ pending' = <<NewPayload>> \o pending
  /\ UNCHANGED <<published, dropped>>

QueuePayload ==
  /\ TakePayload
  /\ pending' = Append(pending, NewPayload)
  /\ UNCHANGED <<published, dropped>>

AcceptPayload ==
  /\ TakePayload
  /\ published' = Append(published, NewPayload)
  /\ UNCHANGED <<pending, dropped>>

DropPayload ==
  /\ TakePayload
  /\ dropped' = dropped \cup {NewPayload}
  /\ UNCHANGED <<pending, published>>

(* sendTelemetry.  publish() answers false for MOSQ_ERR_NO_CONN and the    *)
(* answer is ignored; whether the library keeps a QoS 1 message it could   *)
(* not write is left open.                                                 *)
SendTelemetry ==
  \/ ~connected /\ QueuePayload
  \/ connected /\ AcceptPayload
  \/ connected /\ sock = "closed" /\ DropPayload

TelemetryHalfWaitsForAll ==                                        \* mutant
  \/ tainted # TelemetryKeys /\ UNCHANGED <<tainted, outboxVars>>
  \/ tainted = TelemetryKeys /\ SendTelemetry /\ tainted' = {}

TelemetryHalfKeepsTaint ==                                          \* mutant
  \/ tainted = {} /\ UNCHANGED <<tainted, outboxVars>>
  \/ Dumps(tainted, telemetry) /\ SendTelemetry /\ UNCHANGED tainted

TelemetryHalf ==
  \/ tainted = {} /\ UNCHANGED <<tainted, outboxVars>>
  \/ /\ tainted # {}
     /\ Dumps(tainted, telemetry)
     /\ SendTelemetry
     /\ tainted' = {}

AcceptAttributes(keys) ==
  attrSent' = [k \in AttributeKeys |->
                 IF k \in keys THEN attributes[k] ELSE attrSent[k]]

(* sendAttributes.  Without a connection the payload is discarded unseen.  *)
SendAttributes ==
  \/ ~connected /\ UNCHANGED attrSent
  \/ connected /\ AcceptAttributes(attrTainted)
  \/ connected /\ sock = "closed" /\ UNCHANGED attrSent

AttributeHalf ==
  \/ attrTainted = {} /\ UNCHANGED <<attrTainted, attrSent>>
  \/ /\ attrTainted # {}
     /\ connected => Dumps(attrTainted, attributes)
     /\ SendAttributes
     /\ attrTainted' = {}

SendLeavesAlone ==
  UNCHANGED <<clientVars, telemetry, attributes, crashed, updates>>

Send ==
  /\ ~crashed
  /\ TelemetryHalf
  /\ AttributeHalf
  /\ NoFault
  /\ SendLeavesAlone

(* publish() of the telemetry throws on a return code other than success   *)
(* and NO_CONN, although the library may keep the message (a write error). *)
(* The keys stay tainted and the attribute half is not reached.  The same  *)
(* throw with nothing kept, or the throw of dump(), changes nothing.       *)
SendThrowsEarly ==
  /\ ~crashed
  /\ tainted # {}
  /\ Dumps(tainted, telemetry)
  /\ connected
  /\ AcceptPayload
  /\ Fault
  /\ UNCHANGED <<tainted, attrTainted, attrSent>>
  /\ SendLeavesAlone

(* The attribute half throws, in dump() or in publish(), when the          *)
(* telemetry half is complete.                                             *)
SendThrowsLate ==
  /\ ~crashed
  /\ TelemetryHalf
  /\ attrTainted # {}
  /\ connected
  /\ UNCHANGED attrTainted
  /\ \/ ~Dumps(attrTainted, attributes) /\ UNCHANGED attrSent /\ NoFault
     \/ /\ Dumps(attrTainted, attributes)
        /\ UNCHANGED attrSent \/ AcceptAttributes(attrTainted)
        /\ Fault
  /\ SendLeavesAlone

-----------------------------------------------------------------------------
(* connect(), disconnect() and the loop() calls that touch the client only. *)

ClientOnly ==
  /\ ~crashed
  /\ UNCHANGED <<telemetryVars, attributeVars, outboxVars, crashed, updates, faults>>

(* Bound: a session may be ended while others may still follow.            *)
MayEndSession == sock = "active" => subs[2][RpcFilter] < MaxSessions

(* The first call creates the handle (configure); a later one finds it     *)
(* configured and only reconnects.  m_connected is left as it was.         *)
Connect ==
  /\ ClientOnly
  /\ MayEndSession
  /\ handle' = TRUE
  /\ Reopen("connecting") \/ Reopen("closed")

ControllerDisconnect == ClientOnly /\ MayEndSession /\ Disconnect

Loop == ClientOnly /\ (LoopNoConn \/ LoopIdle)

(* onMqttConnect returns at once when the CONNACK is a refusal, and no     *)
(* disconnect callback is set.                                             *)
LoopEnds == ClientOnly /\ MayEndSession /\ LoopClosed

-----------------------------------------------------------------------------
(* The loop() call that meets a CONNACK with return code 0: on_connect and *)
(* then onMqttConnect, both inside mosquitto_loop.                         *)

ConnackArrives ==
  /\ ~crashed
  /\ sock = "connecting"
  /\ sock' = "active"
  /\ connected' = TRUE
  /\ UNCHANGED <<handle, telemetryVars, attributes, attrTainted, taken, dropped, updates>>

SubscribesRpc ==
  /\ subs' = Record(2, RpcFilter)
  /\ session' = [Reapplied EXCEPT ![RpcFilter] = 2]
  /\ wanted' = [wanted EXCEPT ![RpcFilter] = 2]

SendsTaintedAttributes == AcceptAttributes(attrTainted)            \* mutant

SendsAllAttributes == AcceptAttributes(AttributeKeys)

DrainLeavesLast(i) ==                                              \* mutant
  LET j == IF i = 0 THEN 0 ELSE i - 1
  IN  /\ published' = published \o SubSeq(pending, 1, j)
      /\ pending' = SubSeq(pending, j + 1, Len(pending))

DrainLosesThrown(i) ==                                             \* mutant
  /\ published' = published \o SubSeq(pending, 1, i)
  /\ pending' = SubSeq(pending, i + 2, Len(pending))

(* The first i payloads of the queue are published and popped.             *)
Drain(i) ==
  /\ published' = published \o SubSeq(pending, 1, i)
  /\ pending' = SubSeq(pending, i + 1, Len(pending))

LoopConnects ==
  /\ ConnackArrives
  /\ SubscribesRpc
  /\ Dumps(AttributeKeys, attributes)
  /\ SendsAllAttributes
  /\ Drain(Len(pending))
  /\ NoFault
  /\ UNCHANGED crashed

(* An exception escapes onMqttConnect through the frames of libmosquitto:  *)
(* the process ends, or the library is left inside its callback, its       *)
(* callback mutex held, and the next callback never returns.  Either way   *)
(* nothing follows.  It is thrown by subscribe(), by dump() of the         *)
(* attributes, by their publish(), or by publish() of a queued payload.    *)
CrashesInSubscribe ==
  /\ ConnackArrives
  /\ session' = Reapplied
  /\ crashed' = TRUE
  /\ Fault
  /\ UNCHANGED <<subs, wanted, attrSent, pending, published>>

CrashesInAttributes ==
  /\ ConnackArrives
  /\ SubscribesRpc
  /\ \E k \in AttributeKeys : attributes[k] # NoValue
  /\ IF Dumps(AttributeKeys, attributes) THEN Fault ELSE NoFault
  /\ crashed' = TRUE
  /\ UNCHANGED <<attrSent, pending, published>>

CrashesInDrain ==
  /\ ConnackArrives
  /\ SubscribesRpc
  /\ Dumps(AttributeKeys, attributes)
  /\ SendsAllAttributes
  /\ \E i \in 0 .. Len(pending) - 1 : Drain(i)
  /\ crashed' = TRUE
  /\ Fault

Crashed == crashed /\ UNCHANGED vars

Next ==
  \/ \E k \in TelemetryKeys, v \in Values : PublishTelemetry(k, v)
  \/ \E k \in AttributeKeys, v \in Values : SetAttribute(k, v)
  \/ Send
  \/ SendThrowsEarly
  \/ SendThrowsLate
  \/ Connect
  \/ ControllerDisconnect
  \/ Loop
  \/ LoopEnds
  \/ LoopConnects
  \/ CrashesInSubscribe
  \/ CrashesInAttributes
  \/ CrashesInDrain
  \/ Crashed

Spec == Init /\ [][Next]_vars

(* The program the class asks for: send() and loop() are called regularly, *)
(* and connect() again once is_connected() is false and the library has no *)
(* connection.  The broker, asked again and again, does not always refuse. *)
AppReconnects == ~connected /\ sock = "closed" /\ Connect /\ sock' = "connecting"

FairSpec ==
  /\ Spec
  /\ WF_vars(Send)
  /\ WF_vars(Loop)
  /\ WF_vars(AppReconnects)
  /\ SF_vars(LoopConnects)

-----------------------------------------------------------------------------
(* Properties. *)

(* The queue is drained inside the step that sets m_connected, so send()   *)
(* never publishes past payloads that still wait (sendTelemetry,           *)
(* onMqttConnect).                                                         *)
DrainedWhenConnected == connected /\ ~crashed => pending = <<>>

(* A key that is not tainted has its cached value in the newest payload    *)
(* that mentions the key: no change is forgotten between publishTelemetry  *)
(* and send(), whatever throws in between.                                 *)
Newest(n, k) ==
  /\ k \in DOMAIN taken[n]
  /\ \A m \in n + 1 .. Len(taken) : k \notin DOMAIN taken[m]

TelemetryFresh ==
  \A k \in TelemetryKeys \ tainted :
    telemetry[k] # NoValue =>
      \E n \in 1 .. Len(taken) : Newest(n, k) /\ taken[n][k] = telemetry[k]

(* Nothing is sent that did not change: each payload costs a change of a   *)
(* cached value, or a publish() that failed after the library kept it      *)
(* (send clears the keys it sent, publishTelemetry skips equal values).    *)
PayloadsPaidFor ==
  Len(taken) + (IF tainted = {} THEN 0 ELSE 1) <= updates + faults

(* While a session is up, an attribute that is not tainted was last given  *)
(* to the library with its cached value, although sendAttributes discards  *)
(* what is sent offline and send() clears the taint all the same.          *)
AttributesFresh ==
  sock = "active" /\ ~crashed =>
    \A k \in AttributeKeys \ attrTainted : attrSent[k] = attributes[k]

(* Payloads go through a first-in first-out box: each is queued, accepted  *)
(* or dropped once, and none overtakes another.                            *)
Box == INSTANCE Outbox WITH count <- Len(taken), queue <- pending,
                            delivered <- published, lost <- dropped,
                            MaxCount <- MaxUpdates + MaxFaults

ImplementsOutbox == Box!Spec

(* The library receives payloads in the order send() built them, and one   *)
(* that waits in m_pending_telemetry is younger than all it has received   *)
(* (sendTelemetry and the drain of onMqttConnect together).                *)
PayloadsInOrder == Box!InOrder

(* Every payload waits, was accepted or was dropped, and only one of these,*)
(* also after a publish() that threw while the queue was drained           *)
(* (sendTelemetry, onMqttConnect).                                         *)
PayloadsAccounted == Box!Accounted

(* No payload is lost: what cannot be published is queued                  *)
(* (controller.cpp: "Queue the telemetry data for later sending").         *)
NoPayloadDropped == dropped = {}

(* A tainted key is eventually part of a payload, if send() is called      *)
(* regularly (controller.hpp: "to ensure that telemetry data is sent in a  *)
(* timely manner"), also after a call of it that threw, unless its own     *)
(* value cannot be sent.                                                   *)
TelemetrySentTimely ==
  \A k \in TelemetryKeys :
    (k \in tainted /\ telemetry[k] \notin BadValues)
      ~> (k \notin tainted \/ telemetry[k] \in BadValues \/ crashed)

(* A queued payload does not wait forever, if the program reconnects.      *)
QueueDrains == pending # <<>> ~> pending = <<>> \/ crashed

(* An attribute whose taint send() cleared reaches the library with its    *)
(* cached value, sooner or later, also if it was set offline or send()     *)
(* threw before it.                                                        *)
AttributesArrive ==
  \A k \in AttributeKeys :
    attrSent[k] # attributes[k] ~> attrSent[k] = attributes[k] \/ crashed
=============================================================================
