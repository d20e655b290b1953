----------------------------- MODULE LuaBinding -----------------------------
(***************************************************************************)
(* lua-thingsmqtt.cpp: what each function of the binding does to the stack *)
(* of its Lua frame, and what it reads from it.  Body gives the calls of   *)
(* the Lua API a function makes, in their order; a step makes one of them. *)
(* A script may call a function with other arguments than the documented.  *)
(* The bodies of add_rpc_handler and remove_rpc_handler are left out: no   *)
(* table a script can see holds them.                                      *)
(*                                                                         *)
(* A value of the stack is a tuple: <<kind>>, or <<table, key>> for what a *)
(* table holds at a key.                                                   *)
(***************************************************************************)
EXTENDS Integers, Sequences

CONSTANT Arguments   \* the argument lists the script tries

VARIABLES
  fn,        \* the function that runs, or the last one
  given,     \* its arguments
  stack,     \* the frame: index 1 is the first argument
  pc,        \* the next call in the body of fn
  reads,     \* what the function has read: pairs <<name, value>>
  below,     \* the frame was popped below its first slot
  outcome    \* "running", "returned", "raised"

vars == <<fn, given, stack, pc, reads, below, outcome>>

LibraryMethods == {"new", "json_stringify", "json_parse"}
ObjectMethods == {"connect", "telemetry", "set_attribute", "send", "loop", "is_connected"}

Self == <<"userdata">>
Missing == <<"none">>

(* The tables a script passes: a configuration with and without ssl_config,*)
(* its ssl_config and one that has nothing to do with it.                  *)
Tables == {<<"config">>, <<"plain config">>, <<"ssl">>, <<"other">>}

ScriptValues == Tables \cup {Self, <<"nil">>, <<"boolean">>, <<"number">>, <<"string">>, <<"function">>}

ASSUME LuaBindingAssumption == Arguments \subseteq Seq(ScriptValues)

FieldGivesNone(t, k) ==                                            \* mutant
  IF t \notin Tables THEN Missing
  ELSE IF k # "ssl_config" THEN <<t[1], k>>
  ELSE IF t = <<"config">> THEN <<"ssl">> ELSE Missing

(* Strings and userdata have methods, and none of the names read here.     *)
Field(t, k) ==
  IF t \notin Tables THEN <<"nil">>
  ELSE IF k # "ssl_config" THEN <<t[1], k>>
  ELSE IF t = <<"config">> THEN <<"ssl">> ELSE <<"nil">>

IsOfKind(v, kind) ==
  CASE kind = "userdata" -> v = Self
    [] kind = "string"   -> Len(v) = 2 \/ v[1] \in {"string", "number"}
    [] kind = "table"    -> v \in Tables
    [] kind = "indexed"  -> v \in Tables \cup {Self, <<"string">>}

At(i) == IF i < 0 THEN stack[Len(stack) + 1 + i]
         ELSE IF i <= Len(stack) THEN stack[i] ELSE Missing

-----------------------------------------------------------------------------
(* The calls of the Lua API, in the order of each function.                *)

Get(index, key) == <<"field", index, key>>

ConfigKeys == <<"host", "port", "bind_address", "keepalive", "client_id", "username", "password">>
SslKeys == <<"ca_file", "cert_file", "key_file", "verify_peer", "verify_hostname">>

CheckSelf == <<"check", 1, "userdata">>

ConnectBody ==
  <<CheckSelf, Get(2, "host"), Get(2, "port"), Get(2, "bind_address"), Get(2, "keepalive"),
    Get(2, "client_id"), Get(2, "username"), Get(2, "password"), <<"pop", 7>>,
    Get(2, "ssl_config"), <<"skip unless table", 6>>,
    Get(3, "ca_file"), Get(3, "cert_file"), Get(3, "key_file"), Get(3, "verify_peer"),
    Get(3, "verify_hostname"), <<"pop", 5>>, <<"pop", 3>>, <<"controller">>>>

SetKeepsValue ==                                                   \* mutant
  <<CheckSelf, <<"check", 2, "string">>, <<"read", 2, "key">>, <<"read", 3, "value">>,
    <<"controller">>, <<"pop", 2>>>>

SetPopsSelfFirst ==                                                \* mutant
  <<CheckSelf, <<"pop", 1>>, <<"check", 2, "string">>, <<"read", 2, "key">>,
    <<"read", 3, "value">>, <<"controller">>, <<"pop", 2>>>>

(* telemetry and set_attribute.                                            *)
SetBody ==
  <<CheckSelf, <<"check", 2, "string">>, <<"read", 2, "key">>, <<"read", 3, "value">>,
    <<"controller">>, <<"pop", 3>>>>

(* send and loop.                                                          *)
RunBody == <<CheckSelf, <<"pop", 1>>, <<"controller">>>>

(* The metatable is new, or it is there already.                           *)
OpenBody == <<<<"pop", 1>>, <<"push", "metatable">>, <<"pop", 1>>, <<"push", "library">>>>

NewBody == <<<<"push", "userdata">>, <<"push", "metatable">>, <<"pop", 1>>>>

IsConnectedBody == <<CheckSelf, <<"pop", 1>>, <<"push", "boolean">>>>

StringifyBody == <<<<"read", 1, "value">>, <<"pop", 1>>, <<"push", "string">>>>

ParseBody == <<<<"check", 1, "string">>, <<"read", 1, "text">>, <<"pop", 1>>, <<"push", "any">>>>

Body(f) ==
  CASE f = "open"                           -> OpenBody
    [] f = "new"                            -> NewBody
    [] f = "connect"                        -> ConnectBody
    [] f \in {"telemetry", "set_attribute"} -> SetBody
    [] f \in {"send", "loop"}               -> RunBody
    [] f = "is_connected"                   -> IsConnectedBody
    [] f = "json_stringify"                 -> StringifyBody
    [] f = "json_parse"                     -> ParseBody

(* STACK_START and STACK_END: arguments taken and results left.            *)
Takes(f) == CASE f = "connect" -> 2
              [] f \in {"telemetry", "set_attribute"} -> 3
              [] f = "new" -> 0
              [] OTHER -> 1
Leaves(f) == IF f \in {"connect", "telemetry", "set_attribute", "send", "loop"} THEN 0 ELSE 1

-----------------------------------------------------------------------------
Init ==
  /\ fn = "open"
  /\ given = <<<<"string">>>>
  /\ stack = <<<<"string">>>>
  /\ pc = 1
  /\ reads = {}
  /\ below = FALSE
  /\ outcome = "running"

Documented == LibraryMethods \cup ObjectMethods
                \cup {"disconnect", "add_rpc_handler", "remove_rpc_handler"}

(* A name that is in neither table is nil, and calling it raises.          *)
Call(f, args) ==
  /\ outcome # "running"
  /\ fn' = f
  /\ given' = args
  /\ stack' = args
  /\ pc' = 1
  /\ reads' = {}
  /\ below' = FALSE
  /\ outcome' = IF f \in LibraryMethods \cup ObjectMethods THEN "running" ELSE "raised"

Continue(next) == pc' = next /\ UNCHANGED <<fn, given, outcome>>

(* The frame is dropped.                                                   *)
Raise == outcome' = "raised" /\ UNCHANGED <<fn, given, stack, pc, reads, below>>

Op == Body(fn)[pc]

Running(name) == outcome = "running" /\ pc <= Len(Body(fn)) /\ Op[1] = name

Check ==
  /\ Running("check")
  /\ IF IsOfKind(At(Op[2]), Op[3])
     THEN Continue(pc + 1) /\ UNCHANGED <<stack, reads, below>>
     ELSE Raise

ReadValue ==
  /\ Running("read")
  /\ reads' = reads \cup {<<Op[3], At(Op[2])>>}
  /\ Continue(pc + 1)
  /\ UNCHANGED <<stack, below>>

(* lua_getfield, and lua_tostring or the like of what it pushed.           *)
GetField ==
  /\ Running("field")
  /\ IF IsOfKind(At(Op[2]), "indexed")
     THEN LET v == Field(At(Op[2]), Op[3])
          IN  /\ stack' = Append(stack, v)
              /\ reads' = reads \cup {<<Op[3], v>>}
              /\ Continue(pc + 1)
              /\ UNCHANGED below
     ELSE Raise

SkipUnlessTable ==
  /\ Running("skip unless table")
  /\ Continue(IF IsOfKind(At(-1), "table") THEN pc + 1 ELSE pc + 1 + Op[2])
  /\ UNCHANGED <<stack, reads, below>>

Push ==
  /\ Running("push")
  /\ stack' = Append(stack, <<Op[2]>>)
  /\ Continue(pc + 1)
  /\ UNCHANGED <<reads, below>>

Pop ==
  /\ Running("pop")
  /\ stack' = SubSeq(stack, 1, Len(stack) - Op[2])
  /\ below' = (below \/ Len(stack) < Op[2])
  /\ Continue(pc + 1)
  /\ UNCHANGED reads

(* The call of the controller returns or throws.                           *)
CallController ==
  /\ Running("controller")
  /\ \/ Continue(pc + 1) /\ UNCHANGED <<stack, reads, below>>
     \/ Raise

Return ==
  /\ outcome = "running"
  /\ pc > Len(Body(fn))
  /\ outcome' = "returned"
  /\ UNCHANGED <<fn, given, stack, pc, reads, below>>

Next ==
  \/ \E f \in Documented, args \in Arguments : Call(f, args)
  \/ Check \/ ReadValue \/ GetField \/ SkipUnlessTable \/ Push \/ Pop
  \/ CallController \/ Return

Spec == Init /\ [][Next]_vars

-----------------------------------------------------------------------------
(* Properties. *)

FieldNames == {ConfigKeys[i] : i \in DOMAIN ConfigKeys} \cup {SslKeys[i] : i \in DOMAIN SslKeys}

StackValues ==
  ScriptValues \cup {<<"metatable">>, <<"library">>, <<"any">>}
    \cup {t[1] : t \in Tables} \X FieldNames

TypeOK ==
  /\ fn \in Documented \cup {"open"}
  /\ given \in Seq(ScriptValues)
  /\ stack \in Seq(StackValues)
  /\ fn \in ObjectMethods \cup LibraryMethods \cup {"open"} => pc \in 1 .. Len(Body(fn)) + 1
  /\ reads \subseteq (FieldNames \cup {"ssl_config", "key", "value", "text"})
                       \X (StackValues \cup {Missing})
  /\ below \in BOOLEAN
  /\ outcome \in {"running", "returned", "raised"}

(* A function called with the arguments it takes, or more, leaves its      *)
(* results in their place and nothing else, and never pops its caller's    *)
(* slots (STACK_START and STACK_END).                                      *)
Balanced ==
  Len(given) >= Takes(fn) =>
    ~below /\ (outcome = "returned" => Len(stack) = Len(given) - Takes(fn) + Leaves(fn))

(* What the function has read under a name.                                *)
Got(k) == {r[2] : r \in {q \in reads : q[1] = k}}

(* With the arguments it takes, connect() has read each field from the     *)
(* configuration or its ssl_config, and never from anything else; and      *)
(* telemetry() its key and value from the arguments 2 and 3, whatever has  *)
(* been pushed and popped before.                                          *)
ReadsItsArguments ==
  outcome = "returned" /\ Len(given) = Takes(fn) =>
    /\ fn = "connect" =>
         /\ \A i \in DOMAIN ConfigKeys : Got(ConfigKeys[i]) = {Field(given[2], ConfigKeys[i])}
         /\ \A i \in DOMAIN SslKeys :
              Got(SslKeys[i]) = IF given[2] = <<"config">> THEN {<<"ssl", SslKeys[i]>>} ELSE {}
    /\ fn \in {"telemetry", "set_attribute"} =>
         Got("key") = {given[2]} /\ Got("value") = {given[3]}
=============================================================================
