---------------------------- MODULE ClientSetup ----------------------------
(***************************************************************************)
(* From Controller::connect to a handle of libmosquitto: configure(), the  *)
(* library's count of initialisations, which all clients of the process    *)
(* share, and the destructors.  A client belongs to one thread.  The count *)
(* is an unsigned int of the library without a lock: lib_init() holds a    *)
(* mutex of its own client, which no other client uses, and the destructor *)
(* holds none, so each reads the count in one step and writes it in the    *)
(* next.  Memory does not run out here; a connect() that the checks on the *)
(* host and the port refuse changes nothing and has no action.             *)
(***************************************************************************)
EXTENDS Integers, FiniteSets

CONSTANTS
  Clients,
  Configs,     \* what connect() may be given: see ConfigSpace
  Threaded,    \* clients live on threads of their own (MqttClientThreadSafe)
  MaxInits,    \* bound: value of the count
  MaxStrays    \* bound: clients destroyed that never called lib_init()

(* ssl: "absent", or files that can be loaded, or not.                     *)
ConfigSpace ==
  [id : {"good", "bad"}, user : {"none", "good", "other", "bad"},
   ssl : {"absent", "good", "bad"}]

ASSUME SetupAssumption ==
  /\ Configs \subseteq ConfigSpace
  /\ Threaded \in BOOLEAN
  /\ MaxInits \in Nat
  /\ MaxStrays \in Nat
  /\ IsFiniteSet(Clients)

VARIABLES
  inits,     \* the library's init_refcount
  phase,     \* where each client's thread is
  read,      \* the count the thread has read
  handle,    \* m_mosq: NoHandle or what it was set up with
  call,      \* the configuration of the running or the last connect()
  result,    \* history: how the last connect() passed configure()
  passed,    \* history: the configurations of the connect()s that got past
             \* configure() since the client was constructed
  strays     \* history: clients destroyed that had never called lib_init()

vars == <<inits, phase, read, handle, call, result, passed, strays>>

NoHandle == [user |-> "no handle", ssl |-> "absent"]
NoConfig == [id |-> "good", user |-> "none", ssl |-> "absent"]

(* "none": not constructed.  "initialising", "configuring": in connect().  *)
(* "cleaning": in the destructor.                                          *)
Phases == {"none", "idle", "initialising", "configuring", "cleaning"}

TypeOK ==
  /\ inits \in 0 .. MaxInits
  /\ phase \in [Clients -> Phases]
  /\ read \in [Clients -> 0 .. MaxInits]
  /\ handle \in [Clients -> {NoHandle} \cup
                   [user : {"none", "good", "other"}, ssl : {"absent", "good"}]]
  /\ call \in [Clients -> Configs \cup {NoConfig}]
  /\ result \in [Clients -> {"none", "ok", "threw"}]
  /\ passed \in [Clients -> SUBSET (Configs \cup {NoConfig})]
  /\ strays \in 0 .. MaxStrays

Init ==
  /\ inits = 0
  /\ phase = [c \in Clients |-> "none"]
  /\ read = [c \in Clients |-> 0]
  /\ handle = [c \in Clients |-> NoHandle]
  /\ call = [c \in Clients |-> NoConfig]
  /\ result = [c \in Clients |-> "none"]
  /\ passed = [c \in Clients |-> {}]
  /\ strays = 0

Go(c, from, to) == phase[c] = from /\ phase' = [phase EXCEPT ![c] = to]

(* Clients on one thread: a call ends before the next one begins.          *)
MayBegin == Threaded \/ \A c \in Clients : phase[c] \in {"none", "idle"}

Construct(c) ==
  /\ MayBegin
  /\ Go(c, "none", "idle")
  /\ call' = [call EXCEPT ![c] = NoConfig]
  /\ result' = [result EXCEPT ![c] = "none"]
  /\ passed' = [passed EXCEPT ![c] = {}]
  /\ UNCHANGED <<inits, read, handle, strays>>

ReadsCount(c) == read' = [read EXCEPT ![c] = inits]

ConnectBegins(c, config) ==
  /\ MayBegin
  /\ inits < MaxInits
  /\ Go(c, "idle", "initialising")
  /\ ReadsCount(c)
  /\ call' = [call EXCEPT ![c] = config]
  /\ UNCHANGED <<inits, handle, result, passed, strays>>

InitsFirstTime(c) ==                                               \* mutant
  /\ Go(c, "initialising", "configuring")
  /\ inits' = IF read[c] = 0 THEN 1 ELSE read[c]
  /\ UNCHANGED <<read, handle, call, result, passed, strays>>

InitWrites(c) ==
  /\ Go(c, "initialising", "configuring")
  /\ inits' = read[c] + 1
  /\ UNCHANGED <<read, handle, call, result, passed, strays>>

(* Controller::connect always passes its ssl_config; without a ca_file     *)
(* mosquitto_tls_set refuses it.                                           *)
Loads(config) == config.id = "good" /\ config.user # "bad" /\ config.ssl = "good"

(* verify_peer and verify_hostname are read and not passed on.             *)
MadeFrom(config) == [user |-> config.user, ssl |-> config.ssl]

KeepsHandleOnTlsError(c) ==                                        \* mutant
  IF handle[c] # NoHandle THEN handle[c]
  ELSE IF Loads(call[c]) \/ (call[c].id = "good" /\ call[c].user # "bad")
       THEN [MadeFrom(call[c]) EXCEPT !.ssl = IF @ = "bad" THEN "absent" ELSE @]
       ELSE NoHandle

(* Already configured, configured now, or what was created is destroyed.   *)
Configured(c) ==
  IF handle[c] # NoHandle THEN handle[c]
  ELSE IF Loads(call[c]) THEN MadeFrom(call[c]) ELSE NoHandle

ConfigureEnds(c) ==
  /\ Go(c, "configuring", "idle")
  /\ handle' = [handle EXCEPT ![c] = Configured(c)]
  /\ IF handle[c] # NoHandle \/ Loads(call[c])
     THEN /\ result' = [result EXCEPT ![c] = "ok"]
          /\ passed' = [passed EXCEPT ![c] = @ \cup {call[c]}]
     ELSE /\ result' = [result EXCEPT ![c] = "threw"]
          /\ UNCHANGED passed
  /\ UNCHANGED <<inits, read, call, strays>>

Owes(c) == result[c] # "none"

(* ~MqttClient destroys the handle, then mosquitto_lib_cleanup(), also for *)
(* a client that does not owe it.                                          *)
DestroyBegins(c) ==
  /\ MayBegin
  /\ Go(c, "idle", "cleaning")
  /\ ReadsCount(c)
  /\ handle' = [handle EXCEPT ![c] = NoHandle]
  /\ \/ Owes(c) /\ UNCHANGED strays
     \/ ~Owes(c) /\ strays < MaxStrays /\ strays' = strays + 1
  /\ UNCHANGED <<inits, call, result, passed>>

CleansUnchecked(n) == n - 1                                        \* mutant

CleansOnce(n) == IF n > 0 THEN n - 1 ELSE 0

CleanupWrites(c) ==
  /\ Go(c, "cleaning", "none")
  /\ inits' = CleansOnce(read[c])
  /\ UNCHANGED <<read, handle, call, result, passed, strays>>

Next ==
  \E c \in Clients :
    \/ Construct(c)
    \/ \E config \in Configs : ConnectBegins(c, config)
    \/ InitWrites(c)
    \/ ConfigureEnds(c)
    \/ DestroyBegins(c)
    \/ CleanupWrites(c)

Spec == Init /\ [][Next]_vars

-----------------------------------------------------------------------------
(* Properties. *)

(* The library is initialised once for every client that has a handle,     *)
(* less one at most for each client that was destroyed without having      *)
(* initialised it: without such clients no destructor takes the library    *)
(* from a client in use, however often each of them called lib_init()      *)
(* (MqttClient::configure, ~MqttClient).                                   *)
LibraryUp == Cardinality({c \in Clients : handle[c] # NoHandle}) <= inits + strays

(* A client whose last connect() got past configure() has a handle, and a  *)
(* handle has the user of a connect() that got past configure() and the    *)
(* TLS files of that same one if it gave any: what a call that threw has   *)
(* left behind is never taken for a finished handle, nor mixed with what a *)
(* later one brings (MqttClient::configure destroys what it could not set  *)
(* up).                                                                    *)
HandleAsAsked ==
  \A c \in Clients :
    /\ phase[c] = "idle" /\ result[c] = "ok" => handle[c] # NoHandle
    /\ handle[c] # NoHandle =>
         \E config \in passed[c] :
           /\ handle[c].user = config.user
           /\ config.ssl # "absent" => handle[c].ssl = "good"
=============================================================================
