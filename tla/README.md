# ThingsMQTT.lua: models, checks and proofs

ThingsMQTT.lua is a Lua 5.1 module, written in C++ over libmosquitto, that sends
telemetry and attributes to a ThingsBoard-like broker and is meant to receive
remote procedure calls from it. This directory holds TLA+ modules of its logic,
the TLC configurations that check them on small instances, and TLAPS proofs of
what holds for every instance.

## The system

| Part | Source | State | Operations |
|---|---|---|---|
| MQTT client, single thread | `src/mqtt/mqtt-client.*`, `mqtt-client-singlethread.*` | handle `m_mosq`, flag `m_connected`, record `m_qos_subscriptions` | configure, connect, disconnect, subscribe, unsubscribe, publish, loop; callbacks on_connect, on_disconnect, on_message |
| Controller | `src/controller.*` | caches of telemetry and attributes, their tainted keys, queue `m_pending_telemetry`, RPC handlers | connect, disconnect, publishTelemetry, setAttribute, send, loop, addRpcHandler, removeRpcHandler; callbacks onMqttConnect, onMqttMessage |
| MQTT client, thread safe | `src/mqtt/mqtt-client-threadsafe.*` | the same, `m_connected` atomic, an event queue | the same; callbacks run on the network thread and queue events that loop() dispatches |
| ThreadSafeQueue | `src/threadsafe-queue.hpp` | a queue and a mutex | size, push, emplace, pop |
| Lua binding | `src/lua-thingsmqtt.cpp` | a userdata that points to a Controller | new, connect, telemetry, set_attribute, send, loop, is_connected, json_stringify, json_parse |
| Lua/JSON conversion | `src/lua-utils.cpp` | none | lua_value_to_json, lua_json_to_value |

The Lua script calls the binding, the binding calls the Controller, the
Controller calls its client, and the client calls libmosquitto. Callbacks come
back the same way. The Controller holds a `MqttClientSingleThread`
(`controller.hpp:55`), so a callback runs inside the call of `mosquitto_loop` or
`mosquitto_disconnect` that triggers it, on the script's thread; the thread-safe
client is compiled but nothing instantiates it.

What is hard, and what makes each part correct:

* **Client.** Its flag is a copy of a state the library owns, refreshed only in
  callbacks and in loop(); its record of subscriptions is replayed in every
  session, together with subscriptions made at any point of the handshake. The
  broker must end up with exactly the topics the caller wants, and
  is_connected() must not deny a session that is up.
* **Setup.** configure() can fail at four places with a handle half made, is
  called again by every connect(), and shares one count of library
  initialisations with all clients of the process.
* **Controller.** A change of a value travels through the cache, the tainted
  keys, the payload and possibly the queue, and at four places an exception can
  interrupt it: dump() of a string that is not UTF-8, and subscribe() or
  publish() that fail. Some of these are inside a callback, where the exception
  leaves through the frames of a C library. No change may be forgotten, nothing
  may be sent without a change, payloads must leave in order, attributes set
  offline must arrive with the next session.
* **RPC.** Identifiers come from one counter for all controllers of the
  process, and a caller may use one it no longer owns.
* **Thread-safe client.** Two threads share the record and the flag; the
  callbacks of the caller run later than the flag changes.
* **Binding and conversion.** Stack discipline on every path, numbers that are
  narrowed, values that compare neither equal nor different, tables that are
  neither arrays nor objects.

## Modules

| Module | What it is |
|---|---|
| `MqttClient` | the client as any caller can drive it: `ClientSpec` |
| `ClientSetup` | configure() and the destructors of several clients, with the library's count of initialisations |
| `Controller` | extends `MqttClient`: the controller with its client, driven by a script: `Spec`, `FairSpec` |
| `Outbox` | what the controller promises for payloads: numbered, first in first out, each accounted for |
| `RpcHandlers` | the RPC handlers of several controllers, and the dispatch of a message to them |
| `ThreadSafeClient` | extends `MqttClient`: main thread, network thread and the event queue between them |
| `ThreadSafeQueue` | push, emplace and pop by any number of threads |
| `EventStream` | what the queue, and the threaded client, promise: messages come out once, in order |
| `LuaBinding` | each function of the binding as the calls of the Lua API it makes, over the stack of its frame |
| `LuaJson` | both conversions, json_stringify, json_parse and the comparison that decides what telemetry is cached |
| `MC...` | model values, inputs and symmetry for TLC |
| `...Proofs` | proofs; `LuaProofs` has those of both Lua modules |

`Controller` implements `Outbox` under the mapping `count <- Len(taken)`,
`queue <- pending`, `delivered <- published`, `lost <- dropped`; a run checks it
and a theorem proves it. `ThreadSafeQueue` implements `EventStream` with
`log <- pushed`, `seen <- popped`. `ThreadSafeClient` uses the queue as one step
for each call, which that refinement allows, and implements `EventStream` in
turn.

### How state and actions correspond to the code

`MqttClient`: `handle`, `connected` and `subs` are `m_mosq`, `m_connected` and
`m_qos_subscriptions`. A list of topics is represented by how often it names each
topic, since the order within a list changes nothing. `sock` and `session` belong to libmosquitto:
whether it has a socket and a CONNACK was handled, and the QoS it last asked for
on this connection. `wanted` is a history variable: the QoS of the caller's last
subscribe(). `ConnectOpens` and `ConnectFails` are the two outcomes of
connect(); `LoopNoConn`, `LoopAccepted`, `LoopClosed` and `LoopIdle` are what one
call of loop() can meet, with the callbacks it runs.

`ClientSetup`: `handle` is `m_mosq` of each client, with the user and the files
it was set up with; `inits` is the count in the library. Reading the count and
writing it back are two steps, in connect() and in the destructor. `Configured`
is configure(): it returns when there is a handle, destroys the handle it made
when a call of the library refuses what it is given, and otherwise keeps it.
`passed` and `strays` are history: the configurations that got past configure(),
and how many clients were destroyed that had never called lib_init() (`Owes`).
`MayBegin` says whether a call of another client may begin before this one ends.

`Controller`: `telemetry`, `tainted`, `attributes`, `attrTainted` and `pending`
are the members of the class. A payload is known by its number; `taken[n]` is
what payload n holds, the keys that were tainted with their values. `published`, `dropped` and
`attrSent` record what the library was given. `Send` is send() when nothing throws,
`SendThrowsEarly` and `SendThrowsLate` are send() when its telemetry half or its
attribute half throws. `LoopConnects` is the call of loop() that meets an
accepting CONNACK: on_connect and all of onMqttConnect in one step, because
nothing can come in between; `CrashesInSubscribe`, `CrashesInAttributes` and
`CrashesInDrain` are the same call with an exception in onMqttConnect. Such an
exception leaves a callback of a C library: the process ends, or the library is
left with its callback mutex held. Either way nothing follows, and `crashed` is
set.

`RpcHandlers`: `nextId` is the static counter of addRpcHandler, `handlers` the
map of each controller. A topic is the sequence of its levels. `OnMqttMessage`
takes any topic that the subscription to `Base/+` matches; `last` records which
handlers were due and which the comparison of `controller.cpp:184` let run.

`ThreadSafeClient`: `net` is where the network thread is in its callbacks, one
step for each list of the record that on_connect replays, one for the flag and
one for the event; `asked` is the call of subscribe() or unsubscribe() that has
asked the library and not yet changed the record. `Races` is the data race on a
list: the process ends (`crashed`), or, in all other behaviours, one of the two
accesses comes first. `overlapped` is history: the topics whose call
overlapped with the replay.

`ThreadSafeQueue`: `items` and `mutex` are `m_queue` and `m_mutex`. Each call is
a step that takes the mutex and the steps of its body; the last of them releases
the mutex. `pop` is three statements, hence `PopEmpty`, `PopCopies`,
`PopRemoves`. `pushed` and `popped` are history. size() changes nothing and the
move constructor has no caller.

`LuaBinding`: `stack` is the frame of the function `fn`, `pc` the next call of
the Lua API in its `Body`; the actions are the kinds of call. A value that came
out of a table is known by the table and the key, so that `reads` tells from
where a function took what it uses. A check that fails and a controller that
throws end the call (`Raise`).

`LuaJson`: `held` and `text` are a value and a JSON text of the script, `cached`
is `m_telemetry_data` for one key; `source`, `writer` and `latest` are history.
A Lua number and a JSON float are counted in quarters, so that there are
fractions; the data of a JSON integer is the integer. `Integer` and `Float` are
the narrowing of `lua_json_to_value`, `Cut` is what a string keeps as a C
string, `Differs` is `operator!=` of the JSON library. A Lua table is the
sequence of its entries in the order of lua_next, and `JsonToLua` is the set of
the tables a text can become, one for each order. Of a table or container inside
another one only its kind is kept: `lua_value_to_json` raises on it
(`NotConverted`), and nothing else in the modelled calls looks into it.

A call that throws before it changes anything is a stuttering step and has no
action: connect() with a bad port or missing CA file, loop() without a handle,
send() when dump() refuses the telemetry.

### What is assumed of libmosquitto

Version 2.0.11, the one the development container installs. It is not in the
repository; the code uses it so:

* `mosquitto_connect` closes the socket it had without a callback, then opens a
  new one or fails.
* `mosquitto_disconnect` on an open socket runs on_disconnect before it returns.
  (If the DISCONNECT cannot be written at once the callback comes with a later
  loop(); that call is then `LoopEnds`.)
* `mosquitto_loop` handles one CONNACK by calling on_connect; for a refusal and
  for a failed socket it calls on_disconnect; it does not reconnect.
* A call made inside a callback only queues its packet, so it fails for want of
  memory alone (`Fault`). A call made outside can also fail to write; whether
  the message is kept is then left open, which is why both outcomes exist
  (`SendThrowsEarly` keeps it, the throw that keeps nothing is a stuttering
  step; `SendThrowsLate` has both).
* `mosquitto_publish` without a socket answers `MOSQ_ERR_NO_CONN`. Whether it
  keeps a QoS 1 message then is left open too: `AcceptPayload` or `DropPayload`.
* on_connect replays the record without looking at the results. A replayed
  subscription that fails for want of memory is not modelled.
* The thread that `mosquitto_loop_forever` runs on waits for the first connect()
  or disconnect(), reconnects by itself after a lost or refused connection, and
  returns once disconnect() was called and the connection is gone, or on a fatal
  error (protocol, TLS, EPROTO), which may come with any lost or refused
  connection (`Ends`); it writes the DISCONNECT.
* `mosquitto_tls_set` refuses a call without a CA file and a CA path, and files
  it cannot load.
* The count of initialisations is an unsigned int without a lock, and a cleanup
  does not take it below zero.

What happens between libmosquitto and the broker after a message was accepted
(acknowledgements, retransmission) is the library's, and not modelled.

## Runs

| Run | Configuration | What it shows |
|---|---|---|
| `client_safety` | 2 topics, each listed at most twice per QoS | `ClientTypeOK`; `SessionHoldsWanted`, `SessionQosRecorded`: the broker holds what the caller wants; `ActiveIsConnected` |
| `client_setup` | 2 clients on one thread, 7 configurations, 2 strays | `TypeOK`; `LibraryUp`: the library is initialised once for each client with a handle, less one at most for each client destroyed without ever initialising it; `HandleAsAsked`: a handle is what one connect() that passed has asked for, and a connect() that passed leaves one |
| `controller_safety` | 2 telemetry keys, 1 attribute, 2 values and a bad one, 4 changes, 2 sessions that end, 2 faults | `TypeOK`; `DrainedWhenConnected`; `TelemetryFresh`; `PayloadsPaidFor`; `AttributesFresh`; `PayloadsInOrder`; `PayloadsAccounted`; `ImplementsOutbox` |
| `controller_liveness` | no bad value, 1 fault, 3 changes | `TelemetrySentTimely`, `QueueDrains`, `AttributesArrive` |
| `payload_dropped` | 1 change | violated: `NoPayloadDropped` |
| `poisoned_send` | no attribute, 1 good and 1 bad value | violated: `TelemetrySentTimely` |
| `rpc_handlers` | 2 controllers, 3 identifiers | `TypeOK`; `KeptUntilRemoved`; `GivenOnce` |
| `rpc_request` | the same | violated: `RequestHandled` |
| `queue_stream` | 3 threads, 2 messages, 4 pushes | `TypeOK`; `RemovesWhatItCopied`; `ImplementsStream` |
| `threads_safety` | 1 topic, 4 troubles, `FairSpec` | `TypeOK`; `FlagAgrees`; `HeldUnlessOverlapped`; `ImplementsStream`; `CallbacksCatchUp` |
| `lua_stack` | 14 argument lists, also too short, too long or of the wrong kinds | `TypeOK`; `Balanced`; `ReadsItsArguments` |
| `json_conversion` | 27 values, 24 texts, ints of 3 bits | `JsonTypeOK`; `CacheFollows`; `ExactTextComesBack`; `ExactValueComesBack` |

### Bounds

* `MaxRecorded`: how often one list names a topic. Two is enough to tell a list
  from a set, and unsubscribe removes all of them. With threads one is enough:
  what matters is whether a list names a topic when the replay reaches it.
* `MaxUpdates`: calls that change a cached value. Four allow two keys sent
  together, apart, and changed again while the first payload waits.
* `MaxSessions`: a session may end only while fewer were opened (the RPC topic
  is listed once for each). With two, a queue is filled and drained twice, and
  the record is replayed with entries of two sessions.
* `MaxFaults`: library calls that fail. Two allow a failed publish to be retried
  and to fail again. The liveness run has one: a send() or a callback that throws
  at each place it can, and all that follows.
* `MaxCount` of `Outbox`: payloads built; in the refinement `MaxUpdates +
  MaxFaults`, which `PayloadsPaidFor` shows to be enough.
* `MaxEvents` of `ThreadSafeQueue`: messages pushed. Three threads and four
  pushes let two pops meet a push in every order.
* `MaxTrouble` of `ThreadSafeClient`: connect(), disconnect(), lost and refused
  connections, fatal errors and other events, together. Four allow a connection lost, refused
  and made again while the events of the first wait in the queue.
* `MaxInits` of `ClientSetup`: a connect() needs a count below it. Four
  let one client initialise the library three times and another once.
* `MaxStrays` of `ClientSetup`: clients destroyed without a connect(). Two take
  the library twice from a client that initialised it twice.
* `MaxId` of `RpcHandlers`: handlers added; three allow one added after a
  removal on each of two controllers.
* `IntHalf` of `LuaJson`: 4, an int of -4 to 3 and 0 to 7. The values and texts lie
  on both sides of each limit. A float keeps halves of what are quarters, so
  that some fractions are exact and some are not. `Undefined` is what the
  cast of an infinity may give: two whole numbers stand for all.

Symmetry is used in the safety runs only, and not in `threads_safety`, which has
liveness properties.

### Fairness

`FairSpec` of `Controller` is the program the comments ask for: `send()` "should
be called regularly" (`controller.hpp:37`) and loop() periodically
(`lua-docs/thingsmqtt.lua:31`), hence weak fairness of `Send` and `Loop`; the
program calls connect() again when is_connected() is false and there is no
socket (`AppReconnects`, weakly fair), because nothing else reconnects. `LoopConnects` is strongly fair: the broker does
not refuse forever a client that asks again and again. `MaxSessions` also ends
the disturbances: after the last session that may end, one stays up. The three
liveness properties hold over a send() that throws; they exempt an exception that
left a callback (`crashed`), after which nothing runs.

`FairSpec` of `ThreadSafeClient`: loop() is called again and again between other
calls, hence strong fairness of `Dispatch`; a call that asked the library goes
on; the network thread runs. Refusals, losses and fatal errors count as trouble, of
which there is only so much; the network thread is fair without them. Nothing is
claimed of a connection that comes back: once the thread has ended it does not.

### What the violations say

* `payload_dropped`: connect() on a connected client that fails leaves
  `is_connected()` true with no connection, until the next loop(). In that
  window send() publishes instead of queueing, ignores that publish() answers
  false, and clears the taint.
* `poisoned_send`: a value that is not valid UTF-8 makes every send() throw
  before the tainted keys are cleared, so no other key is sent as long as it is
  cached.
* `rpc_request`: onMqttMessage compares the topic of a message for equality with
  the topic whose `+` subscription brought it, so no request reaches a handler.

### Where else the code and its documentation part

These were met while modelling. No run states them; the line says where to look,
and the models contain the behaviour.

* Client: is_connected() is documented as "true if connected"
  (`mqtt-client.hpp:184`) and stays true after a failed second connect(). A
  topic subscribed to at QoS 2 and then at 0 comes back at 2 after a
  reconnection (`mqtt-client-singlethread.cpp:46`).
* Controller: send() answers true when it only queued the telemetry or only
  handled attributes (`controller.cpp:96`, against `controller.hpp:39`). After
  NaN no number replaces a cached value (`controller.cpp:50`); `CacheFollows`
  has that as its exception.
* Setup: a connect() without `ssl_config`, which is documented as optional,
  always throws (`controller.cpp:30`); a second connect() keeps the first
  credentials (`mqtt-client.cpp:21`); `verify_peer` and `verify_hostname` are
  read and not used. The destructor of a client that never called lib_init()
  cleans up all the same (`mqtt-client.cpp:10`) and so takes the library from
  another client of the same thread that has a handle: `LibraryUp` counts such
  clients (`strays`) and holds for the rest, no property denies them. With `Threaded = TRUE` in
  `client_setup.cfg`, clients on two threads, TLC finds `LibraryUp` violated:
  the mutex of lib_init() is a member of each client and the destructor takes
  none.
* Thread-safe client: a subscribe() or unsubscribe() that overlaps with
  on_connect is not applied, or undone, until the next reconnection
  (`mqtt-client.cpp:84` and `:94`, against `mqtt-client.hpp:143` and `:152`):
  the exception in `HeldUnlessOverlapped`. The network thread ends after
  disconnect() and on a fatal error and nothing starts it again
  (`mqtt-client-threadsafe.cpp:71`): a lost connection is then not restored and
  a later connect() not answered. No property states it, since it follows from
  what the library's loop does.
* Binding: connect() with one argument too many reads its TLS files from that
  argument (`lua-thingsmqtt.cpp:104`); disconnect, add_rpc_handler and
  remove_rpc_handler are documented and in no method table. `Balanced` and
  `ReadsItsArguments` hold for the right number of arguments only: with fewer, a
  function pops below its frame.
* Conversion: a boolean becomes the number 0 or 1, because `lua-utils.cpp:8`
  returns the int of lua_toboolean: json_stringify(true) is `1`, so is
  json_stringify(json_parse("true")), and telemetry that changes from true to 1
  is not sent, being the same cached value. A table inside a table raises (`lua-utils.cpp:29`); numbers beyond
  int, unsigned int or float come back as others (`:68` to `:74`); an array is
  written in the order of lua_next (`:47`). `Exact` and `ExactTable` name what
  is left; booleans are not among it.

## Theorems

All of them hold for any sets of keys, values, topics, clients and handlers and
for any bounds; the only assumptions are those named in the modules
(`ControllerAssumption`, `MaxRecordedAssumption`, `QueueAssumption`,
`MaxTroubleAssumption`, `SetupAssumption`, `RpcAssumption`,
`LuaBindingAssumption`, `LuaJsonAssumption`).

* `MqttClientProofs`: `ClientTypes`, `SubscriptionsHeld`, `QosRecorded`,
  `ActiveConnected`. `SessionHoldsWanted` is not inductive: the step that meets
  the CONNACK establishes it from the record alone. `ClientIndInv` adds that the
  record lists a topic exactly while the caller wants it, and that what was
  asked for on an open socket, before the CONNACK too, is in the record.
* `ControllerProofs`:
  * `TypeCorrect`. That a payload has its type needs that a tainted key has a
    value in the cache (`TaintedCached`).
  * `QueueDrained`, `AttributesUpToDate`, from the inductive invariant
    `IndInv`: types and these two with `ActiveIsConnected`, which turns "a session is up" into the flag that send()
    looks at.
  * `TelemetryStaysFresh`: a payload just built is the newest for the keys that
    were tainted, and older payloads stay the newest for all others.
  * `PayloadsArePaidFor`.
  * `OutboxImplemented`: `Spec => Box!Spec`. A payload goes past the queue only
    when `DrainedWhenConnected` says it is empty; `PayloadsPaidFor` keeps the
    number of payloads within the bound of the outbox.
  * `PayloadsLeaveInOrder`, `PayloadsAllAccounted`: the theorems about `Outbox`,
    carried over by the refinement.
* `OutboxProofs`: `OutboxTypes`, `OutboxInOrder`, `OutboxAccounted`. A step
  appends the newest number to the line of payloads, moves its front, or leaves
  it alone.
* `ThreadSafeQueueProofs`: `QueueTypes`, `PopRemovesItsCopy` and
  `StreamImplemented`. The invariant adds that a thread inside a call holds the
  mutex, and that what was pushed is what was popped followed by the queue.
* `ThreadSafeClientProofs`: `ThreadTypes`, `FlagAlwaysAgrees`,
  `OnlyOverlapsDisagree`, `EventsImplementStream`. The inductive invariant
  `ThreadsInv` has the types; `QueueIsTheRest`: the events queued are those seen
  and those that wait; `FlagInv`: what the flag means at each place inside a
  callback, not only between callbacks; `HeldInv`: what the broker holds while
  the replay has passed some lists and not the others, and while a call has
  asked and not yet recorded.
* `RpcHandlersProofs`: `RpcTypes`, `HandlersKept`, `IdsGivenOnce`, from the
  invariant that no identifier from the counter on was given or is in use.
* `ClientSetupProofs`: `SetupTypes` and `HandlesAsAsked`, on any threads, from
  `SetupInv`: a handle was made with files that load and only a
  client between its calls or in connect() has one. `LibraryStaysUp`, for
  clients on one thread: `CountInv` says that the count and `strays` together are
  at least the number of clients that called lib_init() and not yet lib_cleanup().

* `LuaProofs`, about `LuaBinding`: `BindingTypes`, `BindingBalanced` and
  `BindingReadsItsArguments`, for any argument lists a script may pass. The
  inductive invariant `BindingInv` annotates each body: `Height` says how far the
  frame stands above its arguments before each call (`FrameInv`), `SetInv` and
  `ConnectInv` what has been read by then. `Balanced` is stated for a function
  that got at least the arguments it pops; with fewer it pops below its frame.
* `LuaProofs`, about `LuaJson`, for any width of int, any strings, any way a
  string is cut, and any values and texts (what comes back exactly never holds a
  boolean, which is written as a number):
  * `JsonTypes`. A listing of entries with different keys is a table with one
    value for each key and no nil, and what dump() writes of a converted value is JSON with
    nothing nested in it.
  * `CacheHoldsTheLatest`.
  * `ExactTextsComeBack`, with the invariant `HeldFromSource`: what was parsed is
    one of the values its text can become. A whole number within int or unsigned
    int is its own residue; a key that is not cut names its own entry, so that
    the order of lua_next does not matter.
  * `ExactValuesComeBack`, with the invariant `TextFromWriter`: a text that was
    written is dump() of its writer, whatever the cast of an infinity gave.

Only model-checked: liveness under fairness (`TelemetrySentTimely`,
`QueueDrains`, `AttributesArrive`, `CallbacksCatchUp`),
which TLAPS does not reach. Every invariant and every other action property of a
passing run, and every refinement, is a theorem.

## Not modelled, and why

* `nlohmann/json.hpp`: vendored, and most of the lines of the repository. What
  the program depends on is in `LuaJson` and `Controller`: what dump() refuses
  and what it makes of NaN, how numbers are narrowed, how values compare. Its
  parser and serializer are not.
* `~MqttClientThreadSafe`, which cancels the network thread wherever it is.
  Nothing instantiates the class.
* The bodies of `lua_thingsmqtt_add_rpc_handler` and
  `lua_thingsmqtt_remove_rpc_handler`, and the closure that would call Lua: no
  method table names them. They pop their last argument before they read it.
* A handler that changes the handlers while onMqttMessage walks them: no message
  gets past the comparison before the walk.
* The growth of `m_qos_subscriptions` by one entry for each session, and of
  `m_pending_telemetry` while offline: the code states no limit.
* A subscribe() or unsubscribe() outside a callback that throws because it could
  not write while the library keeps the packet. In the model it either takes
  effect or changes nothing.
* What a script does after it caught an exception that left a callback: `Crashed`
  ends the process.
* Results of replayed subscriptions, which on_connect ignores and which only
  exhausted memory makes a failure.
* The port, which is cast from a Lua number without a check
  (`lua-thingsmqtt.cpp:77`); C++ exceptions that leave through frames of the Lua
  interpreter; the missing `__gc`, so that a controller is never destroyed by a
  script.
* The publish, subscribe and unsubscribe callbacks of the single-threaded
  client, which no caller sets.
* The build files, the example and the documentation stubs: no behaviour of
  their own.
