---------------------------- MODULE RpcHandlers ----------------------------
(***************************************************************************)
(* The RPC handlers of the controllers of one process (controller.cpp:     *)
(* addRpcHandler, removeRpcHandler, onMqttMessage).  The identifiers come  *)
(* from one static counter, whatever the controller.  A user of the class  *)
(* may remove with any identifier, also an old one or that of another      *)
(* controller.  A topic is the sequence of its levels.                     *)
(***************************************************************************)
EXTENDS Integers, Sequences

CONSTANTS
  Controllers,
  Handlers,
  NoHandler,
  Base,          \* THINGSMQTT_RPC_TOPIC
  Topics,        \* topics that messages are published to
  MaxId          \* bound on the handlers added

ASSUME RpcAssumption ==
  /\ NoHandler \notin Handlers
  /\ MaxId \in Nat \ {0}

VARIABLES
  nextId,        \* the static next_id of addRpcHandler
  handlers,      \* m_rpc_handlers of each controller, NoHandler where it has none
  givenBy,       \* history: <<c, i>> if c.addRpcHandler returned i
  kept,          \* history: <<c, i, h>> added and not removed from c since
  last           \* the last message: its topic, the handlers it ran, if it threw

vars == <<nextId, handlers, givenBy, kept, last>>

Ids == 1 .. MaxId

NoMessage == [topic |-> <<>>, due |-> {}, ran |-> {}, threw |-> FALSE]

Init ==
  /\ nextId = 1
  /\ handlers = [c \in Controllers |-> [i \in Ids |-> NoHandler]]
  /\ givenBy = {}
  /\ kept = {}
  /\ last = NoMessage

SmallestFree(c) ==                                                 \* mutant
  CHOOSE n \in Ids : /\ \A d \in Controllers : handlers[d][n] = NoHandler
                     /\ \A i \in 1 .. n - 1 : \E d \in Controllers : handlers[d][i] # NoHandler

IncrementsFirst(c) == nextId + 1                                   \* mutant

FreshId(c) == nextId

AddRpcHandler(c, h) ==
  LET id == FreshId(c)
  IN  /\ nextId <= MaxId
      /\ handlers' = [handlers EXCEPT ![c][id] = h]
      /\ givenBy' = givenBy \cup {<<c, id>>}
      /\ kept' = kept \cup {<<c, id, h>>}
      /\ nextId' = nextId + 1
      /\ UNCHANGED last

RemovesEverywhere(c, id) ==                                        \* mutant
  handlers' = [d \in Controllers |-> [handlers[d] EXCEPT ![id] = NoHandler]]

Erase(c, id) == handlers' = [handlers EXCEPT ![c][id] = NoHandler]

RemoveRpcHandler(c, id) ==
  /\ Erase(c, id)
  /\ kept' = {k \in kept : ~(k[1] = c /\ k[2] = id)}
  /\ UNCHANGED <<nextId, givenBy, last>>

Registered(c) == {handlers[c][i] : i \in Ids} \ {NoHandler}

(* The broker sends what matches the filter Base/+ (onMqttConnect).        *)
MatchesFilter(topic) ==
  Len(topic) = Len(Base) + 1 /\ SubSeq(topic, 1, Len(Base)) = Base

(* A payload that is not an object with a string "method" makes parse() or *)
(* the conversion throw, a handler may throw as well.                      *)
OnMqttMessage(c, topic) ==
  /\ MatchesFilter(topic)
  /\ \E wellFormed \in BOOLEAN :
       last' = [topic |-> topic,
                due   |-> IF wellFormed THEN Registered(c) ELSE {},
                ran   |-> IF topic = Base /\ wellFormed THEN Registered(c) ELSE {},
                threw |-> topic = Base /\ ~wellFormed]
  /\ UNCHANGED <<nextId, handlers, givenBy, kept>>

Next ==
  \E c \in Controllers :
    \/ \E h \in Handlers : AddRpcHandler(c, h)
    \/ \E id \in Ids : RemoveRpcHandler(c, id)
    \/ \E topic \in Topics : OnMqttMessage(c, topic)

Spec == Init /\ [][Next]_vars

-----------------------------------------------------------------------------
(* Properties. *)

TypeOK ==
  /\ nextId \in 1 .. MaxId + 1
  /\ handlers \in [Controllers -> [Ids -> Handlers \cup {NoHandler}]]
  /\ givenBy \subseteq Controllers \X Ids
  /\ kept \subseteq Controllers \X Ids \X Handlers

(* A handler stays until its own controller removes it, whatever was added *)
(* and removed meanwhile: no later handler takes its place, no identifier  *)
(* of another controller reaches it (addRpcHandler, removeRpcHandler).     *)
KeptUntilRemoved ==
  \A c \in Controllers, i \in Ids, h \in Handlers :
    <<c, i, h>> \in kept <=> handlers[c][i] = h

(* An identifier is given once: one that was removed is stale for good, on *)
(* every controller (the static next_id of addRpcHandler).                 *)
GivenOnce ==
  [][\A c, d \in Controllers, h \in Handlers :
       AddRpcHandler(c, h) => <<d, FreshId(c)>> \notin givenBy]_vars

(* A request to a topic below Base runs the handlers (controller.cpp:      *)
(* "If the topic begins with the RPC topic (Minus the "+"), handle it").   *)
RequestHandled == last.ran = last.due
=============================================================================
