------------------------- MODULE ClientSetupProofs -------------------------
(***************************************************************************)
(* Proofs about ClientSetup, for any clients, configurations and bound.    *)
(***************************************************************************)
EXTENDS ClientSetup, FiniteSetTheorems, TLAPS

(* What a client that has passed configure() has; a count that was read is *)
(* one the library may still increment.                                    *)
HandleInv ==
  \A c \in Clients :
    /\ phase[c] = "initialising" => read[c] < MaxInits
    /\ phase[c] = "idle" /\ result[c] = "ok" => handle[c] # NoHandle
    /\ handle[c] # NoHandle =>
         /\ handle[c].ssl = "good"
         /\ phase[c] \in {"idle", "initialising", "configuring"}
         /\ result[c] # "none"
         /\ \E config \in passed[c] : handle[c].user = config.user

SetupInv == TypeOK /\ HandleInv

LEMMA GoodHandle ==
  ASSUME NEW config \in ConfigSpace, Loads(config)
  PROVE  /\ MadeFrom(config) \in [user : {"none", "good", "other"}, ssl : {"absent", "good"}]
         /\ MadeFrom(config).ssl = "good"
         /\ MadeFrom(config) # NoHandle
  BY DEF ConfigSpace, Loads, MadeFrom, NoHandle

LEMMA NoConfigInSpace == NoConfig \in ConfigSpace
  BY DEF NoConfig, ConfigSpace

LEMMA SetupInit == Init => SetupInv
<1>. SUFFICES ASSUME Init PROVE SetupInv
  OBVIOUS
<1>1. inits \in 0 .. MaxInits /\ read \in [Clients -> 0 .. MaxInits]
  BY SetupAssumption DEF Init
<1>2. /\ phase \in [Clients -> Phases] /\ result \in [Clients -> {"none", "ok", "threw"}]
      /\ strays \in 0 .. MaxStrays
  BY SetupAssumption DEF Init, Phases
<1>3. TypeOK
  BY <1>1, <1>2 DEF Init, TypeOK
<1>4. HandleInv
  BY DEF Init, HandleInv
<1>. QED
  BY <1>3, <1>4 DEF SetupInv

LEMMA ConfiguredHandle ==
  ASSUME SetupInv, NEW c \in Clients
  PROVE  /\ Configured(c) \in {NoHandle} \cup
              [user : {"none", "good", "other"}, ssl : {"absent", "good"}]
         /\ Configured(c) # NoHandle <=> handle[c] # NoHandle \/ Loads(call[c])
         /\ Configured(c) # NoHandle => Configured(c).ssl = "good"
<1>1. call[c] \in ConfigSpace
  BY SetupAssumption, NoConfigInSpace DEF SetupInv, TypeOK
<1>2. CASE handle[c] # NoHandle
  BY <1>2 DEF Configured, SetupInv, TypeOK, HandleInv
<1>3. CASE handle[c] = NoHandle /\ Loads(call[c])
  BY <1>1, <1>3, GoodHandle DEF Configured
<1>4. CASE handle[c] = NoHandle /\ ~Loads(call[c])
  BY <1>4 DEF Configured
<1>. QED
  BY <1>2, <1>3, <1>4

(* A handle that comes out of configure() has the user of the configuration *)
(* that went in, or was there before.                                      *)
LEMMA ConfiguredUser ==
  ASSUME SetupInv, NEW c \in Clients, Configured(c) # NoHandle
  PROVE  \E config \in passed[c] \cup {call[c]} : Configured(c).user = config.user
<1>1. CASE handle[c] # NoHandle
  BY <1>1 DEF Configured, SetupInv, HandleInv
<1>2. CASE handle[c] = NoHandle
  <2>1. Configured(c) = MadeFrom(call[c])
    BY <1>2 DEF Configured
  <2> QED BY <2>1 DEF MadeFrom
<1> QED BY <1>1, <1>2

LEMMA SetupStep == SetupInv /\ [Next]_vars => SetupInv'
<1>. SUFFICES ASSUME SetupInv, [Next]_vars PROVE SetupInv'
  OBVIOUS
<1>1. ASSUME NEW c \in Clients, Construct(c) PROVE SetupInv'
  BY <1>1 DEF SetupInv, TypeOK, HandleInv, Construct, Go, Phases
<1>2. ASSUME NEW c \in Clients, NEW config \in Configs, ConnectBegins(c, config)
      PROVE  SetupInv'
  <2>1. TypeOK'
    BY <1>2, SetupAssumption DEF SetupInv, TypeOK, ConnectBegins, ReadsCount, Go, Phases
  <2>2. HandleInv'
    BY <1>2, SetupAssumption DEF SetupInv, TypeOK, HandleInv, ConnectBegins, ReadsCount, Go
  <2>. QED
    BY <2>1, <2>2 DEF SetupInv
<1>3. ASSUME NEW c \in Clients, InitWrites(c) PROVE SetupInv'
  <2>1. inits' \in 0 .. MaxInits
    BY <1>3, SetupAssumption DEF SetupInv, TypeOK, HandleInv, InitWrites, Go
  <2>. QED
    BY <1>3, <2>1 DEF SetupInv, TypeOK, HandleInv, InitWrites, Go, Phases
<1>4. ASSUME NEW c \in Clients, ConfigureEnds(c) PROVE SetupInv'
  <2>1. TypeOK'
    <3>1. passed' \in [Clients -> SUBSET (Configs \cup {NoConfig})]
      BY <1>4 DEF SetupInv, TypeOK, ConfigureEnds
    <3>2. result' \in [Clients -> {"none", "ok", "threw"}]
      BY <1>4 DEF SetupInv, TypeOK, ConfigureEnds
    <3>. QED
      BY <1>4, <3>1, <3>2, ConfiguredHandle DEF SetupInv, TypeOK, ConfigureEnds, Go, Phases
  <2>2. ASSUME NEW d \in Clients, d # c
        PROVE  /\ handle'[d] = handle[d] /\ phase'[d] = phase[d] /\ read'[d] = read[d]
               /\ result'[d] = result[d] /\ passed'[d] = passed[d]
    BY <1>4, <2>2 DEF SetupInv, TypeOK, ConfigureEnds, Go
  <2>3. /\ handle'[c] = Configured(c) /\ phase'[c] = "idle" /\ result'[c] # "none"
        /\ result'[c] = "ok" <=> Configured(c) # NoHandle
        /\ Configured(c) # NoHandle => passed'[c] = passed[c] \cup {call[c]}
    BY <1>4, ConfiguredHandle DEF SetupInv, TypeOK, ConfigureEnds, Go
  <2>4. HandleInv'
    BY <2>2, <2>3, ConfiguredHandle, ConfiguredUser DEF SetupInv, HandleInv
  <2>. QED
    BY <2>1, <2>4 DEF SetupInv
<1>5. ASSUME NEW c \in Clients, DestroyBegins(c) PROVE SetupInv'
  <2>1. strays' \in 0 .. MaxStrays
    BY <1>5, SetupAssumption DEF SetupInv, TypeOK, DestroyBegins
  <2>. QED
    BY <1>5, <2>1 DEF SetupInv, TypeOK, HandleInv, DestroyBegins, ReadsCount, Go, Phases
<1>6. ASSUME NEW c \in Clients, CleanupWrites(c) PROVE SetupInv'
  <2>1. inits' \in 0 .. MaxInits
    BY <1>6, SetupAssumption DEF SetupInv, TypeOK, CleanupWrites, CleansOnce
  <2>. QED
    BY <1>6, <2>1 DEF SetupInv, TypeOK, HandleInv, CleanupWrites, Go, Phases
<1>7. CASE UNCHANGED vars
  BY <1>7 DEF SetupInv, TypeOK, HandleInv, vars
<1>. QED
  BY <1>1, <1>2, <1>3, <1>4, <1>5, <1>6, <1>7 DEF Next

LEMMA SetupAlways == Spec => []SetupInv
  BY SetupInit, SetupStep, PTL DEF Spec

(* The clients, their handles and the count keep their types, on one       *)
(* thread and on many (MqttClient, mosquitto_lib_init).                    *)
THEOREM SetupTypes == Spec => []TypeOK
<1>1. SetupInv => TypeOK
  BY DEF SetupInv
<1>. QED
  BY <1>1, SetupAlways, PTL

(* On any threads: no handle is half made, left behind by a connect() that *)
(* threw, or mixed from two of them (MqttClient::configure).               *)
THEOREM HandlesAsAsked == Spec => []HandleAsAsked
<1>1. SetupInv => HandleAsAsked
  BY DEF SetupInv, HandleInv, HandleAsAsked
<1>. QED
  BY <1>1, SetupAlways, PTL

-----------------------------------------------------------------------------
(* Clients on one thread: the count, with the strays, covers every client  *)
(* that has called lib_init() and not yet lib_cleanup(), and one that is   *)
(* about to call lib_cleanup().                                            *)

Counted ==
  {c \in Clients : \/ phase[c] \in {"configuring", "cleaning"}
                   \/ phase[c] # "none" /\ Owes(c)}

Busy(c) == phase[c] \in {"initialising", "configuring", "cleaning"}

CountInv ==
  /\ \A c \in Clients : phase[c] \in {"initialising", "cleaning"} => read[c] = inits
  /\ \A c, d \in Clients : Busy(c) /\ Busy(d) => c = d
  /\ Cardinality(Counted) <= inits + strays

LEMMA CountedFinite == IsFiniteSet(Counted) /\ Cardinality(Counted) \in Nat
  BY SetupAssumption, FS_Subset, FS_CardinalityType DEF Counted

LEMMA CountInit == Init => CountInv
<1>. SUFFICES ASSUME Init PROVE CountInv
  OBVIOUS
<1>1. Counted = {}
  BY DEF Init, Counted, Owes
<1>2. Cardinality(Counted) = 0
  BY <1>1, FS_EmptySet
<1>. QED
  BY <1>2 DEF Init, CountInv, Busy

LEMMA NobodyBusy ==
  ASSUME Threaded = FALSE, SetupInv, MayBegin
  PROVE  \A c \in Clients : ~Busy(c)
  BY DEF MayBegin, Busy

LEMMA OneMoreFits ==
  ASSUME NEW before \in Nat, NEW after \in Nat, NEW i \in Nat, NEW s \in Nat,
         NEW i1 \in Nat, NEW s1 \in Nat,
         before <= i + s, after <= before + 1, i1 + s1 = i + s + 1
  PROVE  after <= i1 + s1
  OBVIOUS

(* One client more in Counted takes one more from the count.               *)
LEMMA OneMore ==
  ASSUME CountInv, NEW c \in Clients, Counted' = Counted \cup {c},
         inits \in Nat, strays \in Nat, inits' \in Nat, strays' \in Nat,
         inits' + strays' = inits + strays + 1
  PROVE  Cardinality(Counted') <= inits' + strays'
<1>1. Cardinality(Counted \cup {c}) =
        IF c \in Counted THEN Cardinality(Counted) ELSE Cardinality(Counted) + 1
  BY CountedFinite, FS_AddElement
<1>2. Cardinality(Counted') <= Cardinality(Counted) + 1 /\ Cardinality(Counted') \in Nat
  BY <1>1, CountedFinite
<1>3. Cardinality(Counted) <= inits + strays
  BY DEF CountInv
<1>. QED
  BY <1>2, <1>3, CountedFinite, OneMoreFits

LEMMA CountStep ==
  ASSUME Threaded = FALSE, SetupInv, CountInv, [Next]_vars
  PROVE  CountInv'
<1>. USE SetupAssumption
<1>0. inits \in Nat /\ strays \in Nat /\ inits' \in Nat /\ strays' \in Nat
  BY SetupStep DEF SetupInv, TypeOK
<1>1. ASSUME NEW c \in Clients, Construct(c) PROVE CountInv'
  <2>1. Counted' = Counted
    BY <1>1 DEF Construct, Go, Counted, Owes, SetupInv, TypeOK
  <2>2. \A d \in Clients : ~Busy(d) /\ ~Busy(d)'
    BY <1>1, NobodyBusy DEF Construct, Go, Busy, SetupInv, TypeOK
  <2>. QED
    BY <1>1, <2>1, <2>2 DEF CountInv, Construct, Busy
<1>2. ASSUME NEW c \in Clients, NEW config \in Configs, ConnectBegins(c, config)
      PROVE  CountInv'
  <2>1. Counted' = Counted
    BY <1>2 DEF ConnectBegins, Go, Counted, Owes, SetupInv, TypeOK
  <2>2. \A d \in Clients : ~Busy(d) /\ (Busy(d)' => d = c)
    BY <1>2, NobodyBusy DEF ConnectBegins, Go, Busy, SetupInv, TypeOK
  <2>3. read'[c] = inits' /\ phase'[c] = "initialising"
    BY <1>2 DEF ConnectBegins, ReadsCount, Go, SetupInv, TypeOK
  <2>. QED
    BY <1>2, <2>1, <2>2, <2>3 DEF CountInv, ConnectBegins, Busy
<1>3. ASSUME NEW c \in Clients, InitWrites(c) PROVE CountInv'
  <2>1. Counted' = Counted \cup {c}
    BY <1>3 DEF InitWrites, Go, Counted, Owes, SetupInv, TypeOK
  <2>2. inits' + strays' = inits + strays + 1
    BY <1>0, <1>3 DEF InitWrites, Go, CountInv
  <2>3. Cardinality(Counted') <= inits' + strays'
    BY <1>0, <2>1, <2>2, OneMore
  <2>4. \A d \in Clients : Busy(d)' => d = c
    BY <1>3 DEF InitWrites, Go, CountInv, Busy, SetupInv, TypeOK
  <2>5. phase'[c] = "configuring"
    BY <1>3 DEF InitWrites, Go, SetupInv, TypeOK
  <2>. QED
    BY <2>3, <2>4, <2>5 DEF CountInv, Busy
<1>4. ASSUME NEW c \in Clients, ConfigureEnds(c) PROVE CountInv'
  <2>1. Counted' = Counted
    <3>1. ASSUME NEW d \in Clients, d # c PROVE phase'[d] = phase[d] /\ result'[d] = result[d]
      BY <1>4, <3>1 DEF ConfigureEnds, Go, SetupInv, TypeOK
    <3>2. phase[c] = "configuring" /\ phase'[c] = "idle" /\ result'[c] # "none"
      BY <1>4 DEF ConfigureEnds, Go, SetupInv, TypeOK
    <3>. QED
      BY <3>1, <3>2 DEF Counted, Owes
  <2>2. \A d \in Clients : ~Busy(d)'
    BY <1>4 DEF ConfigureEnds, Go, CountInv, Busy, SetupInv, TypeOK
  <2>. QED
    BY <1>4, <2>1, <2>2 DEF CountInv, ConfigureEnds, Busy
<1>5. ASSUME NEW c \in Clients, DestroyBegins(c) PROVE CountInv'
  <2>1. Counted' = Counted \cup {c} /\ (Owes(c) => c \in Counted)
    BY <1>5 DEF DestroyBegins, Go, Counted, Owes, SetupInv, TypeOK
  <2>2. Cardinality(Counted') <= inits' + strays'
    <3>1. CASE Owes(c)
      <4>1. Counted' = Counted
        BY <2>1, <3>1
      <4>. QED
        BY <1>5, <3>1, <4>1 DEF DestroyBegins, CountInv
    <3>2. CASE ~Owes(c)
      <4>1. inits' + strays' = inits + strays + 1
        <5>1. inits' = inits /\ strays' = strays + 1
          BY <1>5, <3>2, Zenon DEF DestroyBegins
        <5>. QED
          BY <1>0, <5>1
      <4>. QED
        BY <1>0, <2>1, <4>1, OneMore
    <3>. QED
      BY <3>1, <3>2
  <2>3. \A d \in Clients : ~Busy(d) /\ (Busy(d)' => d = c)
    BY <1>5, NobodyBusy DEF DestroyBegins, Go, Busy, SetupInv, TypeOK
  <2>4. read'[c] = inits'
    BY <1>5 DEF DestroyBegins, ReadsCount, SetupInv, TypeOK
  <2>. QED
    BY <2>2, <2>3, <2>4 DEF CountInv, Busy
<1>6. ASSUME NEW c \in Clients, CleanupWrites(c) PROVE CountInv'
  <2>1. Counted' = Counted \ {c} /\ c \in Counted
    BY <1>6 DEF CleanupWrites, Go, Counted, Owes, SetupInv, TypeOK
  <2>2. \A d \in Clients : ~Busy(d)'
    BY <1>6 DEF CleanupWrites, Go, CountInv, Busy, SetupInv, TypeOK
  <2>3. Cardinality(Counted') = Cardinality(Counted) - 1
    BY <2>1, CountedFinite, FS_RemoveElement
  <2>4. inits' >= inits - 1 /\ strays' = strays
    BY <1>0, <1>6 DEF CleanupWrites, CleansOnce, Go, CountInv
  <2>5. Cardinality(Counted') <= inits' + strays'
    BY <1>0, <2>3, <2>4, CountedFinite DEF CountInv
  <2>. QED
    BY <1>6, <2>2, <2>5 DEF CountInv, CleanupWrites, Busy
<1>7. CASE UNCHANGED vars
  BY <1>7 DEF CountInv, Counted, Owes, Busy, vars
<1>. QED
  BY <1>1, <1>2, <1>3, <1>4, <1>5, <1>6, <1>7 DEF Next

LEMMA CountSuffices ==
  ASSUME SetupInv, CountInv
  PROVE  LibraryUp
<1>. DEFINE Using == {c \in Clients : handle[c] # NoHandle}
<1>1. Using \subseteq Counted
  BY DEF SetupInv, HandleInv, Counted, Owes
<1>2. Cardinality(Using) <= Cardinality(Counted) /\ Cardinality(Using) \in Nat
  BY <1>1, CountedFinite, FS_Subset, FS_CardinalityType
<1>. QED
  BY <1>2, CountedFinite DEF SetupInv, TypeOK, CountInv, LibraryUp

(* With all clients on one thread the library is initialised once for each *)
(* client with a handle, less one at most for each client destroyed that   *)
(* had never initialised it (lib_init, ~MqttClient).                       *)
THEOREM LibraryStaysUp == Threaded = FALSE => (Spec => []LibraryUp)
<1>. SUFFICES ASSUME Threaded = FALSE PROVE Spec => []LibraryUp
  OBVIOUS
<1>1. Init => CountInv
  BY CountInit
<1>2. SetupInv /\ CountInv /\ [Next]_vars => CountInv'
  BY CountStep
<1>3. SetupInv /\ CountInv => LibraryUp
  BY CountSuffices
<1>. QED
  BY <1>1, <1>2, <1>3, SetupAlways, PTL DEF Spec
=============================================================================
