-------------------------- MODULE ThreadSafeClient --------------------------
(***************************************************************************)
(* MqttClientThreadSafe: the main thread calls the API and loop(), the     *)
(* network thread that libmosquitto starts runs the callbacks and puts     *)
(* events into m_event_queue, which loop() takes out.  The flag is atomic, *)
(* the record of subscriptions is shared without a lock.  Each call of the *)
(* queue is one step: ThreadSafeQueue implements EventStream.              *)
(*                                                                         *)
(* subscribe() and unsubscribe() are two steps, the library is asked, then *)
(* the record is changed.  on_connect is a step for each list of the       *)
(* record, one for the flag and one for the event.                         *)
(***************************************************************************)
EXTENDS MqttClient, Sequences

CONSTANT MaxTrouble   \* bound: calls of connect(), disconnect(), lost or
                      \* refused connections, fatal errors and other events,
                      \* together

ASSUME MaxTroubleAssumption == MaxTrouble \in Nat

VARIABLES
  asked,      \* the call that asked the library and has not changed the record
  net,        \* where the network thread is
  list,       \* the list of the record on_connect reapplies next
  accepted,   \* on_connect was called with return code 0
  leaving,    \* disconnect() was called after the last connect()
  events,     \* m_event_queue
  log,        \* history: events queued
  seen,       \* history: events dispatched by loop()
  overlapped, \* history: topics whose call overlapped with the reapplying
  trouble,    \* history: bounded by MaxTrouble
  crashed     \* both threads were inside one list of the record

queueVars == <<events, log, seen>>
threadVars == <<net, list, accepted, leaving>>
vars == <<clientVars, asked, threadVars, queueVars, overlapped, trouble,
          crashed>>

Events == {"accepted", "refused", "disconnected", "other"}

(* "off": the thread waits for the first connect().  "idle": in the loop   *)
(* of the library.  "reapplying" to "connectEvent": in on_connect.         *)
(* "closing": the library drops a refused connection.  "closed",           *)
(* "disconnectEvent": in on_disconnect.  "ended": the thread returned.     *)
Places == {"off", "idle", "reapplying", "flag", "connectEvent",
           "closing", "closed", "disconnectEvent", "ended"}

NoCall == [op |-> "none"]
Calls == [op : {"subscribe"}, topic : Topics, qos : Qos]
           \cup [op : {"unsubscribe"}, topic : Topics]

TypeOK ==
  /\ ClientTypeOK
  /\ asked \in Calls \cup {NoCall}
  /\ net \in Places
  /\ list \in Qos
  /\ accepted \in BOOLEAN
  /\ leaving \in BOOLEAN
  /\ events \in Seq(Events)
  /\ log \in Seq(Events)
  /\ seen \in Seq(Events)
  /\ overlapped \subseteq Topics
  /\ trouble \in 0 .. MaxTrouble
  /\ crashed \in BOOLEAN

Init ==
  /\ ClientInit
  /\ asked = NoCall
  /\ net = "off"
  /\ list = 0
  /\ accepted = FALSE
  /\ leaving = FALSE
  /\ events = <<>>
  /\ log = <<>>
  /\ seen = <<>>
  /\ overlapped = {}
  /\ trouble = 0
  /\ crashed = FALSE

Trouble == trouble < MaxTrouble /\ trouble' = trouble + 1

-----------------------------------------------------------------------------
(* The main thread. *)

MainIdle == asked = NoCall

(* after_configure starts the network thread.                              *)
Start == Configure /\ UNCHANGED <<asked, threadVars, queueVars, overlapped, trouble>>

(* The library lets the thread go when connect() or disconnect() is called *)
(* for the first time.                                                     *)
Release == net' = IF net = "off" THEN "idle" ELSE net

Connect ==
  /\ MainIdle
  /\ Trouble
  /\ ConnectOpens \/ ConnectFails
  /\ Release
  /\ leaving' = FALSE
  /\ overlapped' = {}
  /\ UNCHANGED <<asked, list, accepted, queueVars>>

(* The network thread writes the DISCONNECT.                               *)
DisconnectAsks ==
  /\ MainIdle
  /\ handle
  /\ Trouble
  /\ Release
  /\ leaving' = TRUE
  /\ UNCHANGED <<clientVars, asked, list, accepted, queueVars, overlapped>>

Ask(call) ==
  /\ MainIdle
  /\ handle
  /\ asked' = call
  /\ overlapped' = IF net = "reapplying" THEN overlapped \cup {call.topic}
                                         ELSE overlapped \ {call.topic}
  /\ UNCHANGED <<handle, sock, connected, subs, wanted, threadVars, queueVars, trouble>>

SubscribeAsks(t, q) ==
  /\ subs[q][t] < MaxRecorded
  /\ Ask([op |-> "subscribe", topic |-> t, qos |-> q])
  /\ session' = IF sock = "closed" THEN session ELSE [session EXCEPT ![t] = q]

UnsubscribeAsks(t) ==
  /\ Ask([op |-> "unsubscribe", topic |-> t])
  /\ session' = [session EXCEPT ![t] = NoQos]

EndCall ==
  /\ asked' = NoCall
  /\ UNCHANGED <<handle, sock, connected, session, threadVars, queueVars,
                 overlapped, trouble>>

SubscribeRecords ==
  /\ asked.op = "subscribe"
  /\ subs' = Record(asked.qos, asked.topic)
  /\ wanted' = [wanted EXCEPT ![asked.topic] = asked.qos]
  /\ EndCall

UnsubscribeForgets ==
  /\ asked.op = "unsubscribe"
  /\ subs' = Forget(asked.topic)
  /\ wanted' = [wanted EXCEPT ![asked.topic] = NoQos]
  /\ EndCall

DispatchNewest ==                                                  \* mutant
  /\ MainIdle /\ events # <<>>
  /\ seen' = Append(seen, events[Len(events)])
  /\ events' = SubSeq(events, 1, Len(events) - 1)
  /\ UNCHANGED <<clientVars, asked, threadVars, log, overlapped, trouble>>

(* loop() runs the callback of one event after another until none is left. *)
(* The calls a callback makes are those any other code makes.              *)
Dispatch ==
  /\ MainIdle
  /\ events # <<>>
  /\ seen' = Append(seen, Head(events))
  /\ events' = Tail(events)
  /\ UNCHANGED <<clientVars, asked, threadVars, log, overlapped, trouble>>

-----------------------------------------------------------------------------
(* The network thread. *)

Emplace(e) ==
  /\ events' = Append(events, e)
  /\ log' = Append(log, e)
  /\ UNCHANGED seen

(* mosquitto_loop_forever reconnects by itself, until it succeeds, unless  *)
(* it returns.                                                             *)
Reconnects ==
  /\ net = "idle"
  /\ sock = "closed"
  /\ ~leaving
  /\ Reopen("connecting")
  /\ overlapped' = {}
  /\ UNCHANGED <<handle, asked, threadVars, queueVars, trouble>>

(* It returns after disconnect(), and when a fatal error (protocol, TLS,   *)
(* EPROTO) closed the connection; no code starts the thread again.         *)
Ends ==
  /\ net = "idle"
  /\ sock = "closed"
  /\ \/ leaving /\ UNCHANGED trouble
     \/ Trouble
  /\ net' = "ended"
  /\ UNCHANGED <<clientVars, asked, list, accepted, leaving, queueVars, overlapped>>

ConnackArrives ==
  /\ net = "idle"
  /\ sock = "connecting"
  /\ net' = "reapplying"
  /\ list' = 0
  /\ overlapped' = overlapped \cup (IF MainIdle THEN {} ELSE {asked.topic})
  /\ UNCHANGED <<handle, connected, subs, session, wanted, asked, leaving, queueVars>>

Accepted == ConnackArrives /\ accepted' = TRUE /\ sock' = "active" /\ UNCHANGED trouble

Refused == ConnackArrives /\ accepted' = FALSE /\ Trouble /\ UNCHANGED sock

NetOnly == UNCHANGED <<handle, subs, wanted, asked, leaving, overlapped>>

ReapplySkipsLast ==                                                \* mutant
  /\ net = "reapplying"
  /\ session' = [t \in Topics |-> IF subs[list][t] > 0 /\ sock # "closed" /\ list < 2
                                    THEN list ELSE session[t]]
  /\ IF list < 2 THEN list' = list + 1 /\ UNCHANGED net
                 ELSE net' = "flag" /\ UNCHANGED list
  /\ NetOnly /\ UNCHANGED <<sock, connected, accepted, queueVars, trouble>>

ReapplyPastEnd ==                                                  \* mutant
  /\ net = "reapplying"
  /\ session' = [t \in Topics |-> IF subs[list][t] > 0 /\ sock # "closed"
                                    THEN list ELSE session[t]]
  /\ IF list < 3 THEN list' = list + 1 /\ UNCHANGED net
                 ELSE net' = "flag" /\ UNCHANGED list
  /\ NetOnly /\ UNCHANGED <<sock, connected, accepted, queueVars, trouble>>

ReapplyList ==
  /\ net = "reapplying"
  /\ session' = [t \in Topics |-> IF subs[list][t] > 0 /\ sock # "closed"
                                    THEN list ELSE session[t]]
  /\ IF list < 2 THEN list' = list + 1 /\ UNCHANGED net
                 ELSE net' = "flag" /\ UNCHANGED list
  /\ NetOnly
  /\ UNCHANGED <<sock, connected, accepted, queueVars, trouble>>

SetFlag ==
  /\ net = "flag"
  /\ connected' = accepted
  /\ net' = "connectEvent"
  /\ NetOnly
  /\ UNCHANGED <<sock, session, list, accepted, queueVars, trouble>>

QueueConnect ==
  /\ net = "connectEvent"
  /\ Emplace(IF accepted THEN "accepted" ELSE "refused")
  /\ net' = IF accepted THEN "idle" ELSE "closing"
  /\ NetOnly
  /\ UNCHANGED <<sock, session, connected, list, accepted, trouble>>

(* After a refusal, after disconnect(), or because the connection failed.  *)
Closes ==
  /\ \/ net = "closing" /\ UNCHANGED trouble
     \/ net = "idle" /\ sock # "closed" /\ leaving /\ UNCHANGED trouble
     \/ net = "idle" /\ sock # "closed" /\ Trouble
  /\ sock' = "closed"
  /\ session' = NoSession
  /\ net' = "closed"
  /\ overlapped' = {}
  /\ UNCHANGED <<handle, connected, subs, wanted, asked, list, accepted, leaving, queueVars>>

KeepFlag ==                                                        \* mutant
  /\ net = "closed" /\ net' = "disconnectEvent" /\ NetOnly
  /\ UNCHANGED <<sock, session, connected, list, accepted, queueVars, trouble>>

ClearFlag ==
  /\ net = "closed"
  /\ connected' = FALSE
  /\ net' = "disconnectEvent"
  /\ NetOnly
  /\ UNCHANGED <<sock, session, list, accepted, queueVars, trouble>>

DisconnectSilently ==                                              \* mutant
  /\ net = "disconnectEvent" /\ net' = "idle" /\ NetOnly
  /\ UNCHANGED <<sock, session, connected, list, accepted, queueVars, trouble>>

QueueDisconnect ==
  /\ net = "disconnectEvent"
  /\ Emplace("disconnected")
  /\ net' = "idle"
  /\ NetOnly
  /\ UNCHANGED <<sock, session, connected, list, accepted, trouble>>

(* on_publish, on_message, on_subscribe, on_unsubscribe.                   *)
QueueOther ==
  /\ net = "idle"
  /\ sock = "active"
  /\ Trouble
  /\ Emplace("other")
  /\ NetOnly
  /\ UNCHANGED <<sock, session, connected, net, list, accepted>>

Network ==
  \/ Reconnects \/ Ends \/ Accepted \/ Refused \/ ReapplyList \/ SetFlag
  \/ QueueConnect \/ Closes \/ ClearFlag \/ QueueDisconnect \/ QueueOther

Main ==
  \/ Start
  \/ Connect
  \/ DisconnectAsks
  \/ \E t \in Topics, q \in Qos : SubscribeAsks(t, q)
  \/ \E t \in Topics : UnsubscribeAsks(t)
  \/ SubscribeRecords
  \/ UnsubscribeForgets
  \/ Dispatch

(* The main thread changes the list the network thread walks: a data race  *)
(* on a vector.  Either one comes first, or the process ends.              *)
Races ==
  /\ net = "reapplying"
  /\ \/ asked.op = "subscribe" /\ asked.qos = list
     \/ asked.op = "unsubscribe" /\ subs[list][asked.topic] > 0
  /\ crashed' = TRUE
  /\ UNCHANGED <<clientVars, asked, threadVars, queueVars, overlapped, trouble>>

Crashed == crashed /\ UNCHANGED vars

Next ==
  \/ ~crashed /\ (Network \/ Main) /\ UNCHANGED crashed
  \/ ~crashed /\ Races
  \/ Crashed

Spec == Init /\ [][Next]_vars

(* loop() is called regularly, the calls return, the network thread runs,  *)
(* and the broker, asked again, accepts in the end.                        *)
FairSpec ==
  /\ Spec
  /\ SF_vars(~crashed /\ Dispatch /\ UNCHANGED crashed)
  /\ WF_vars(~crashed /\ (SubscribeRecords \/ UnsubscribeForgets) /\ UNCHANGED crashed)
  /\ WF_vars(~crashed /\ Network /\ UNCHANGED <<crashed, trouble>>)

-----------------------------------------------------------------------------
(* Properties. *)

(* The events the callbacks see are those the network thread queued, in    *)
(* their order (loop, the callbacks, ThreadSafeQueue).                     *)
Stream == INSTANCE EventStream

ImplementsStream == Stream!Spec

(* Of the connection events of s the last one is an accepted connection.   *)
AcceptedLast(s) ==
  \E i \in 1 .. Len(s) :
    s[i] = "accepted" /\ \A j \in i + 1 .. Len(s) : s[j] = "other"

(* Between two callbacks of the library is_connected() agrees with the     *)
(* last connection event queued; once loop() has emptied the queue the     *)
(* callbacks have been told what is_connected() answers.                   *)
FlagAgrees ==
  net \in {"off", "idle", "ended"} =>
    (connected <=> AcceptedLast(log))

(* The callbacks and is_connected() agree in the end.                      *)
CallbacksCatchUp ==
  <>[](crashed \/ (connected <=> AcceptedLast(seen)))

Settled == sock = "active" /\ net = "idle" /\ MainIdle

(* In a session that on_connect has reapplied the broker holds what the    *)
(* caller wants, except for a topic whose subscribe() or unsubscribe()     *)
(* overlapped with the reapplying: the record is the only thing the two    *)
(* threads can disagree about.                                             *)
HeldUnlessOverlapped ==
  Settled => \A t \in Topics \ overlapped : session[t] # NoQos <=> wanted[t] # NoQos
=============================================================================
