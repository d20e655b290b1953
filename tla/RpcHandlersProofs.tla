------------------------- MODULE RpcHandlersProofs -------------------------
(***************************************************************************)
(* Proofs about RpcHandlers, for any controllers, handlers and bound.      *)
(***************************************************************************)
EXTENDS RpcHandlers, TLAPS

(* Identifiers not given yet are unused.                                   *)
NewIdsUnused ==
  /\ \A g \in givenBy : g[2] < nextId
  /\ \A k \in kept : k[2] < nextId

RpcInv == TypeOK /\ KeptUntilRemoved /\ NewIdsUnused

LEMMA RpcInit == Init => RpcInv
  BY RpcAssumption DEF Init, RpcInv, TypeOK, KeptUntilRemoved, NewIdsUnused, Ids

LEMMA AddKeepsInv ==
  ASSUME RpcInv, NEW c \in Controllers, NEW h \in Handlers, AddRpcHandler(c, h)
  PROVE  RpcInv'
<1>1. nextId \in Ids /\ nextId' = nextId + 1
  BY RpcAssumption DEF RpcInv, TypeOK, AddRpcHandler, Ids
<1>2. TypeOK'
  BY <1>1, RpcAssumption DEF RpcInv, TypeOK, AddRpcHandler, FreshId, Ids
<1>3. ASSUME NEW d \in Controllers, NEW i \in Ids, NEW g \in Handlers
      PROVE  (<<d, i, g>> \in kept <=> handlers[d][i] = g)'
  <2>1. handlers'[d][i] = IF d = c /\ i = nextId THEN h ELSE handlers[d][i]
    BY <1>1 DEF RpcInv, TypeOK, AddRpcHandler, FreshId
  <2>2. <<d, nextId, g>> \notin kept
    BY <1>1 DEF RpcInv, NewIdsUnused, Ids
  <2>3. <<d, i, g>> \in kept' <=> <<d, i, g>> \in kept \/ (d = c /\ i = nextId /\ g = h)
    BY DEF AddRpcHandler, FreshId
  <2>4. <<d, i, g>> \in kept <=> handlers[d][i] = g
    BY DEF RpcInv, KeptUntilRemoved
  <2>5. CASE d = c /\ i = nextId
    BY <2>1, <2>2, <2>3, <2>5
  <2>6. CASE ~(d = c /\ i = nextId)
    BY <2>1, <2>3, <2>4, <2>6
  <2>. QED
    BY <2>5, <2>6
<1>4. NewIdsUnused'
  <2>1. \A g \in givenBy' : g[2] < nextId'
    BY <1>1 DEF RpcInv, NewIdsUnused, TypeOK, AddRpcHandler, FreshId, Ids
  <2>2. \A k \in kept' : k[2] < nextId'
    BY <1>1 DEF RpcInv, NewIdsUnused, TypeOK, AddRpcHandler, FreshId, Ids
  <2>. QED
    BY <2>1, <2>2 DEF NewIdsUnused
<1>. QED
  BY <1>2, <1>3, <1>4 DEF RpcInv, KeptUntilRemoved, Ids

LEMMA RemoveKeepsInv ==
  ASSUME RpcInv, NEW c \in Controllers, NEW id \in Ids, RemoveRpcHandler(c, id)
  PROVE  RpcInv'
<1>1. TypeOK'
  BY RpcAssumption DEF RpcInv, TypeOK, RemoveRpcHandler, Erase, Ids
<1>2. ASSUME NEW d \in Controllers, NEW i \in Ids, NEW g \in Handlers
      PROVE  (<<d, i, g>> \in kept <=> handlers[d][i] = g)'
  <2>1. handlers'[d][i] = IF d = c /\ i = id THEN NoHandler ELSE handlers[d][i]
    BY DEF RpcInv, TypeOK, RemoveRpcHandler, Erase
  <2>2. <<d, i, g>> \in kept' <=> <<d, i, g>> \in kept /\ ~(d = c /\ i = id)
    BY DEF RemoveRpcHandler
  <2>3. <<d, i, g>> \in kept <=> handlers[d][i] = g
    BY DEF RpcInv, KeptUntilRemoved
  <2>. QED
    BY <2>1, <2>2, <2>3, RpcAssumption
<1>3. NewIdsUnused'
  BY DEF RpcInv, NewIdsUnused, RemoveRpcHandler
<1>. QED
  BY <1>1, <1>2, <1>3 DEF RpcInv, KeptUntilRemoved, Ids

LEMMA OthersKeepInv ==
  ASSUME RpcInv, UNCHANGED <<nextId, handlers, givenBy, kept>>
  PROVE  RpcInv'
  BY DEF RpcInv, TypeOK, KeptUntilRemoved, NewIdsUnused

LEMMA RpcStep == RpcInv /\ [Next]_vars => RpcInv'
<1>. SUFFICES ASSUME RpcInv, [Next]_vars PROVE RpcInv'
  OBVIOUS
<1>1. CASE \E c \in Controllers, h \in Handlers : AddRpcHandler(c, h)
  BY <1>1, AddKeepsInv
<1>2. CASE \E c \in Controllers, id \in Ids : RemoveRpcHandler(c, id)
  BY <1>2, RemoveKeepsInv
<1>3. CASE \E c \in Controllers, topic \in Topics : OnMqttMessage(c, topic)
  BY <1>3, OthersKeepInv DEF OnMqttMessage
<1>4. CASE UNCHANGED vars
  BY <1>4, OthersKeepInv DEF vars
<1>. QED
  BY <1>1, <1>2, <1>3, <1>4 DEF Next

LEMMA RpcAlways == Spec => []RpcInv
  BY RpcInit, RpcStep, PTL DEF Spec

(* The tables of handlers keep their types (addRpcHandler).                *)
THEOREM RpcTypes == Spec => []TypeOK
<1>1. RpcInv => TypeOK
  BY DEF RpcInv
<1>. QED
  BY <1>1, RpcAlways, PTL

(* A handler stays until its own controller removes it, for any number of  *)
(* controllers and additions (addRpcHandler, removeRpcHandler).            *)
THEOREM HandlersKept == Spec => []KeptUntilRemoved
<1>1. RpcInv => KeptUntilRemoved
  BY DEF RpcInv
<1>. QED
  BY <1>1, RpcAlways, PTL

(* No identifier is given twice (the static next_id of addRpcHandler).     *)
THEOREM IdsGivenOnce == Spec => GivenOnce
<1>1. RpcInv =>
        \A c, d \in Controllers, h \in Handlers :
          AddRpcHandler(c, h) => <<d, FreshId(c)>> \notin givenBy
  BY DEF RpcInv, TypeOK, NewIdsUnused, FreshId, Ids
<1>. QED
  BY <1>1, RpcAlways, PTL DEF GivenOnce
=============================================================================
