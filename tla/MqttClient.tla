----------------------------- MODULE MqttClient -----------------------------
(***************************************************************************)
(* MqttClient and MqttClientSingleThread: the connection, the flag behind  *)
(* is_connected() and the record of subscriptions, as any caller of the    *)
(* class can drive them.  libmosquitto is not part of the repository: its  *)
(* socket and the subscriptions it has asked the broker for are modelled   *)
(* from how the class uses the library.                                    *)
(*                                                                         *)
(* Everything here runs on one thread.  A callback runs inside the call of *)
(* mosquitto_loop (or mosquitto_disconnect) that triggers it, so a whole   *)
(* call is one step.  A call that throws before it changes anything is a   *)
(* stuttering step and has no action.  A definition marked "mutant" is a   *)
(* bug the code does not have: the property it breaks is in PROJECT.json.  *)
(***************************************************************************)
EXTENDS Integers

CONSTANTS
  Topics,       \* topic filters a caller may subscribe to
  MaxRecorded   \* bound: times a topic stands in one list of m_qos_subscriptions

ASSUME MaxRecordedAssumption == MaxRecorded \in Nat

VARIABLES
  handle,       \* m_mosq is not null
  sock,         \* the library's socket
  connected,    \* m_connected
  subs,         \* m_qos_subscriptions: per QoS, how often each topic is listed
  session,      \* history: the QoS the library last asked for on this connection
  wanted        \* history: the QoS of the caller's last successful subscribe()

clientVars == <<handle, sock, connected, subs, session, wanted>>

Qos == 0 .. 2
NoQos == -1

(***************************************************************************)
(* "connecting": TCP is up and CONNECT was written, the CONNACK has not    *)
(* been handled.  "active": a CONNACK with return code 0 was handled.      *)
(***************************************************************************)
SocketStates == {"closed", "connecting", "active"}

NoSession == [t \in Topics |-> NoQos]

ClientTypeOK ==
  /\ handle \in BOOLEAN
  /\ sock \in SocketStates
  /\ connected \in BOOLEAN
  /\ subs \in [Qos -> [Topics -> Nat]]
  /\ session \in [Topics -> Qos \cup {NoQos}]
  /\ wanted \in [Topics -> Qos \cup {NoQos}]

ClientInit ==
  /\ handle = FALSE
  /\ sock = "closed"
  /\ connected = FALSE
  /\ subs = [q \in Qos |-> [t \in Topics |-> 0]]
  /\ session = NoSession
  /\ wanted = NoSession

-----------------------------------------------------------------------------
(* The record of subscriptions.  The order within a list is left out: a    *)
(* topic is subscribed to alike wherever it stands in the list.            *)

RecordAtDefault(q, t) == [subs EXCEPT ![1][t] = @ + 1]   \* mutant

Record(q, t) == [subs EXCEPT ![q][t] = @ + 1]

ForgetFirstList(t) == [subs EXCEPT ![0][t] = 0]   \* mutant

Forget(t) == [q \in Qos |-> [subs[q] EXCEPT ![t] = 0]]

RecordedAt(t) == {q \in Qos : subs[q][t] > 0}

(* on_connect walks the lists in the order of their QoS, so the request    *)
(* that stands at the end for a topic is its highest recorded QoS.         *)
Highest(S) == CHOOSE q \in S : \A p \in S : p <= q

ReappliedFromOne ==                                                \* mutant
  [t \in Topics |-> IF RecordedAt(t) = {} THEN session[t]
                                          ELSE Highest(RecordedAt(t)) + 1]

Reapplied ==
  [t \in Topics |-> IF RecordedAt(t) = {} THEN session[t]
                                          ELSE Highest(RecordedAt(t))]

-----------------------------------------------------------------------------
(* Calls of the API. *)

Configure ==
  /\ ~handle
  /\ handle' = TRUE
  /\ UNCHANGED <<sock, connected, subs, session, wanted>>

(* mosquitto_connect first drops the socket it had, without a callback.    *)
Reopen(newSock) ==
  /\ sock' = newSock
  /\ session' = NoSession
  /\ UNCHANGED <<connected, subs, wanted>>

ConnectOpens == handle /\ Reopen("connecting") /\ UNCHANGED handle

ConnectFails == handle /\ Reopen("closed") /\ UNCHANGED handle

(* Writes DISCONNECT and closes, which runs on_disconnect.                 *)
Disconnect ==
  /\ sock # "closed"
  /\ sock' = "closed"
  /\ connected' = FALSE
  /\ session' = NoSession
  /\ UNCHANGED <<handle, subs, wanted>>

(* MOSQ_ERR_NO_CONN is tolerated: the subscription is recorded either way. *)
Subscribe(t, q) ==
  /\ handle
  /\ subs[q][t] < MaxRecorded
  /\ subs' = Record(q, t)
  /\ session' = IF sock = "closed" THEN session ELSE [session EXCEPT ![t] = q]
  /\ wanted' = [wanted EXCEPT ![t] = q]
  /\ UNCHANGED <<handle, sock, connected>>

Unsubscribe(t) ==
  /\ handle
  /\ subs' = Forget(t)
  /\ session' = [session EXCEPT ![t] = NoQos]
  /\ wanted' = [wanted EXCEPT ![t] = NoQos]
  /\ UNCHANGED <<handle, sock, connected>>

-----------------------------------------------------------------------------
(* loop(): one call of mosquitto_loop, by what it meets. *)

(* The library has no socket: MOSQ_ERR_NO_CONN.                            *)
LoopNoConn ==
  /\ handle
  /\ sock = "closed"
  /\ connected' = FALSE
  /\ UNCHANGED <<handle, sock, subs, session, wanted>>

(* CONNACK 0: on_connect reapplies the record, then sets the flag.         *)
LoopAccepted ==
  /\ sock = "connecting"
  /\ sock' = "active"
  /\ session' = Reapplied
  /\ connected' = TRUE
  /\ UNCHANGED <<handle, subs, wanted>>

(* The connection ends: a CONNACK other than 0 (on_connect clears the flag *)
(* and on_disconnect follows; loop() throws), or the socket fails (only    *)
(* on_disconnect; loop() returns or throws by the return code).            *)
LoopClosed ==
  /\ sock # "closed"
  /\ sock' = "closed"
  /\ session' = NoSession
  /\ connected' = FALSE
  /\ UNCHANGED <<handle, subs, wanted>>

LoopIdleDisconnects ==                                             \* mutant
  handle /\ sock # "closed" /\ connected' = FALSE
  /\ UNCHANGED <<handle, sock, subs, session, wanted>>

(* Nothing to do, or a packet whose callback is not set.                   *)
LoopIdle == handle /\ sock # "closed" /\ UNCHANGED clientVars

ClientNext ==
  \/ Configure
  \/ ConnectOpens
  \/ ConnectFails
  \/ Disconnect
  \/ \E t \in Topics, q \in Qos : Subscribe(t, q)
  \/ \E t \in Topics : Unsubscribe(t)
  \/ LoopNoConn
  \/ LoopAccepted
  \/ LoopClosed
  \/ LoopIdle

ClientSpec == ClientInit /\ [][ClientNext]_clientVars

-----------------------------------------------------------------------------
(* Properties. *)

(* While a session is up the broker holds exactly the topics the caller    *)
(* asked for and did not give up since, whenever the calls were made: on   *)
(* this connection, on an earlier one or while there was none              *)
(* (MqttClient::subscribe, unsubscribe and on_connect together).           *)
SessionHoldsWanted ==
  sock = "active" =>
    \A t \in Topics : session[t] # NoQos <=> wanted[t] # NoQos

(* The QoS the broker holds for a topic is one the caller asked for and    *)
(* the record still lists (on_connect reapplies from the record alone).    *)
SessionQosRecorded ==
  sock = "active" =>
    \A t \in Topics : session[t] # NoQos => session[t] \in RecordedAt(t)

(* is_connected() never denies a session that is up.                       *)
ActiveIsConnected == sock = "active" => connected
=============================================================================
