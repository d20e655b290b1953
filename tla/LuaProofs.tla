------------------------------ MODULE LuaProofs ------------------------------
(***************************************************************************)
(* Proofs about the Lua side.  LuaBinding first: a function of the binding *)
(* leaves the frame of its caller balanced and reads its own arguments,    *)
(* whatever a script passes.  Then LuaJson: the conversions give values of *)
(* the right kind, what nothing narrows survives them in both directions,  *)
(* and the cached telemetry value is the latest one.                       *)
(***************************************************************************)
EXTENDS LuaBinding, LuaJson, SequenceTheorems, FiniteSetTheorems, WellFoundedInduction, TLAPS

-----------------------------------------------------------------------------
(* The stack of a frame. *)

Bound == ObjectMethods \cup LibraryMethods \cup {"open"}

(* How far the frame stands above the arguments before each call of a body *)
(* and at its end.                                                         *)
Height(f) ==
  CASE f = "open"                           -> <<0, -1, 0, -1, 0>>
    [] f = "new"                            -> <<0, 1, 2, 1>>
    [] f = "connect"                        -> <<0, 0, 1, 2, 3, 4, 5, 6, 7, 0, 1, 1, 2, 3, 4, 5, 6, 1, -2, -2>>
    [] f \in {"telemetry", "set_attribute"} -> <<0, 0, 0, 0, 0, 0, -3>>
    [] f \in {"send", "loop"}               -> <<0, 0, -1, -1>>
    [] f = "is_connected"                   -> <<0, 0, -1, 0>>
    [] f = "json_stringify"                 -> <<0, 0, -1, 0>>
    [] f = "json_parse"                     -> <<0, 0, 0, -1, 0>>

Kinds == {"check", "read", "field", "skip unless table", "push", "pop", "controller"}

(* A call that takes the frame from one height to another, in a function   *)
(* with so many arguments.                                                 *)
Fits(op, before, after, takes) ==
  /\ op[1] \in Kinds
  /\ before \in Int
  /\ op[1] \in {"check", "controller", "read", "skip unless table"} => after = before
  /\ op[1] = "read" => op[2] \in 1 .. 3 /\ op[3] \in {"key", "value", "text"}
  /\ op[1] = "field" =>
       /\ op[2] \in 2 .. 3 /\ op[3] \in FieldNames \cup {"ssl_config"}
       /\ after = before + 1
  /\ op[1] = "skip unless table" => op[2] \in Nat
  /\ op[1] = "push" => <<op[2]>> \in StackValues /\ after = before + 1
  /\ op[1] = "pop" => op[2] \in Nat /\ after = before - op[2] /\ after + takes >= 0

CallAt(f, i) == Body(f)[i]

(* The i-th call of f; a call that skips lands in f, at the same height.   *)
CallOK(f, i) ==
  /\ Fits(CallAt(f, i), Height(f)[i], Height(f)[i + 1], Takes(f))
  /\ CallAt(f, i)[1] = "skip unless table" =>
       /\ i + 1 + CallAt(f, i)[2] \in 1 .. Len(Body(f)) + 1
       /\ Height(f)[i + 1 + CallAt(f, i)[2]] = Height(f)[i]

(* The calls of connect(), group by group.                                 *)
LEMMA ConnectFields ==
  /\ \A i \in 1 .. 7 : CallAt("connect", i + 1) = <<"field", 2, ConfigKeys[i]>>
  /\ \A i \in 1 .. 5 : CallAt("connect", i + 11) = <<"field", 3, SslKeys[i]>>
<1>1. /\ ConnectBody[2] = <<"field", 2, "host">>
      /\ ConnectBody[3] = <<"field", 2, "port">>
      /\ ConnectBody[4] = <<"field", 2, "bind_address">>
      /\ ConnectBody[5] = <<"field", 2, "keepalive">>
      /\ ConnectBody[6] = <<"field", 2, "client_id">>
      /\ ConnectBody[7] = <<"field", 2, "username">>
      /\ ConnectBody[8] = <<"field", 2, "password">>
  BY DEF ConnectBody, Get
<1>2. /\ ConnectBody[12] = <<"field", 3, "ca_file">>
      /\ ConnectBody[13] = <<"field", 3, "cert_file">>
      /\ ConnectBody[14] = <<"field", 3, "key_file">>
      /\ ConnectBody[15] = <<"field", 3, "verify_peer">>
      /\ ConnectBody[16] = <<"field", 3, "verify_hostname">>
  BY DEF ConnectBody, Get
<1>3. \A i \in 1 .. 7 : ConnectBody[i + 1] = <<"field", 2, ConfigKeys[i]>>
  BY <1>1 DEF ConfigKeys
<1>4. \A i \in 1 .. 5 : ConnectBody[i + 11] = <<"field", 3, SslKeys[i]>>
  BY <1>2 DEF SslKeys
<1> QED BY <1>3, <1>4 DEF CallAt, Body

LEMMA ConnectOthers ==
  /\ Len(Body("connect")) = 19
  /\ CallAt("connect", 1) = <<"check", 1, "userdata">>
  /\ CallAt("connect", 9) = <<"pop", 7>>
  /\ CallAt("connect", 10) = <<"field", 2, "ssl_config">>
  /\ CallAt("connect", 11) = <<"skip unless table", 6>>
  /\ CallAt("connect", 17) = <<"pop", 5>>
  /\ CallAt("connect", 18) = <<"pop", 3>>
  /\ CallAt("connect", 19) = <<"controller">>
BY DEF CallAt, Body, ConnectBody, Get, CheckSelf

LEMMA ConnectHeight ==
  /\ Height("connect")[1] = 0
  /\ \A i \in 1 .. 8 : Height("connect")[i + 1] = i - 1
  /\ Height("connect")[10] = 0 /\ Height("connect")[11] = 1
  /\ \A i \in 1 .. 6 : Height("connect")[i + 11] = i
  /\ Height("connect")[18] = 1
  /\ Height("connect")[19] = -2
  /\ Height("connect")[20] = -2
BY DEF Height

LEMMA ConnectCalls == \A i \in 1 .. Len(Body("connect")) : CallOK("connect", i)
<1>1. Takes("connect") = 2
  BY DEF Takes
<1>2. ASSUME NEW i \in 1 .. 7 PROVE CallOK("connect", i + 1)
  <2>1. CallAt("connect", i + 1) = <<"field", 2, ConfigKeys[i]>> /\ ConfigKeys[i] \in FieldNames
    BY ConnectFields DEF FieldNames, ConfigKeys
  <2>2. Height("connect")[i + 1] = i - 1 /\ Height("connect")[i + 1 + 1] = i
    BY ConnectHeight
  <2>3. Fits(<<"field", 2, ConfigKeys[i]>>, i - 1, i, 2) /\ <<"field", 2, ConfigKeys[i]>>[1] # "skip unless table"
    BY <2>1 DEF Fits, Kinds
  <2> QED BY <1>1, <2>1, <2>2, <2>3, Zenon DEF CallOK
<1>3. ASSUME NEW i \in 1 .. 5 PROVE CallOK("connect", i + 11)
  <2>1. CallAt("connect", i + 11) = <<"field", 3, SslKeys[i]>> /\ SslKeys[i] \in FieldNames
    BY ConnectFields DEF FieldNames, SslKeys
  <2>2. Height("connect")[i + 11] = i /\ Height("connect")[i + 11 + 1] = i + 1
    BY ConnectHeight
  <2>3. Fits(<<"field", 3, SslKeys[i]>>, i, i + 1, 2) /\ <<"field", 3, SslKeys[i]>>[1] # "skip unless table"
    BY <2>1 DEF Fits, Kinds
  <2> QED BY <1>1, <2>1, <2>2, <2>3, Zenon DEF CallOK
<1>4. CallOK("connect", 1)
  <2>1. Fits(<<"check", 1, "userdata">>, 0, 0, 2) /\ <<"check", 1, "userdata">>[1] # "skip unless table"
    BY DEF Fits, Kinds
  <2>2. Height("connect")[1] = 0 /\ Height("connect")[1 + 1] = 0
    BY ConnectHeight
  <2> QED BY <1>1, <2>1, <2>2, ConnectOthers, Zenon DEF CallOK
<1>5. CallOK("connect", 9)
  <2>1. Fits(<<"pop", 7>>, 7, 0, 2) /\ <<"pop", 7>>[1] # "skip unless table"
    BY DEF Fits, Kinds
  <2>2. Height("connect")[9] = 7 /\ Height("connect")[9 + 1] = 0
    BY ConnectHeight
  <2> QED BY <1>1, <2>1, <2>2, ConnectOthers, Zenon DEF CallOK
<1>6. CallOK("connect", 10)
  <2>1. Fits(<<"field", 2, "ssl_config">>, 0, 1, 2) /\ <<"field", 2, "ssl_config">>[1] # "skip unless table"
    BY DEF Fits, Kinds
  <2>2. Height("connect")[10] = 0 /\ Height("connect")[10 + 1] = 1
    BY ConnectHeight
  <2> QED BY <1>1, <2>1, <2>2, ConnectOthers, Zenon DEF CallOK
<1>7. CallOK("connect", 17)
  <2>1. Fits(<<"pop", 5>>, 6, 1, 2) /\ <<"pop", 5>>[1] # "skip unless table"
    BY DEF Fits, Kinds
  <2>2. Height("connect")[17] = 6 /\ Height("connect")[17 + 1] = 1
    BY ConnectHeight
  <2> QED BY <1>1, <2>1, <2>2, ConnectOthers, Zenon DEF CallOK
<1>8. CallOK("connect", 18)
  <2>1. Fits(<<"pop", 3>>, 1, -2, 2) /\ <<"pop", 3>>[1] # "skip unless table"
    BY DEF Fits, Kinds
  <2>2. Height("connect")[18] = 1 /\ Height("connect")[18 + 1] = -2
    BY ConnectHeight
  <2> QED BY <1>1, <2>1, <2>2, ConnectOthers, Zenon DEF CallOK
<1>9. CallOK("connect", 19)
  <2>1. Fits(<<"controller">>, -2, -2, 2) /\ <<"controller">>[1] # "skip unless table"
    BY DEF Fits, Kinds
  <2>2. Height("connect")[19] = -2 /\ Height("connect")[19 + 1] = -2
    BY ConnectHeight
  <2> QED BY <1>1, <2>1, <2>2, ConnectOthers, Zenon DEF CallOK
<1>10. CallOK("connect", 11)
  <2>1. Fits(<<"skip unless table", 6>>, 1, 1, 2) /\ <<"skip unless table", 6>>[2] = 6
    BY DEF Fits, Kinds
  <2>2. /\ Height("connect")[11] = 1 /\ Height("connect")[11 + 1] = 1
        /\ Height("connect")[11 + 1 + 6] = 1
        /\ 11 + 1 + 6 \in 1 .. 19 + 1
    BY ConnectHeight
  <2> QED BY <1>1, <2>1, <2>2, ConnectOthers, Zenon DEF CallOK
<1>11. ASSUME NEW i \in 1 .. 19 PROVE CallOK("connect", i)
  <2>1. CASE i \in 2 .. 8
    <3>1. i - 1 \in 1 .. 7 /\ (i - 1) + 1 = i
      BY <2>1
    <3> QED BY <1>2, <3>1
  <2>2. CASE i \in 12 .. 16
    <3>1. i - 11 \in 1 .. 5 /\ (i - 11) + 11 = i
      BY <2>2
    <3> QED BY <1>3, <3>1
  <2> QED BY <1>4, <1>5, <1>6, <1>7, <1>8, <1>9, <1>10, <2>1, <2>2
<1> QED BY <1>11, ConnectOthers

LEMMA OpenCalls ==
  ASSUME NEW f \in {"open"}, NEW i \in 1 .. Len(Body(f))
  PROVE  CallOK(f, i)
<1>1. Body(f) = OpenBody /\ Takes(f) = 1 /\ Height(f) = <<0, -1, 0, -1, 0>>
  BY DEF Body, Takes, Height
<1>2. /\ Len(OpenBody) = 4
      /\ OpenBody[1] = <<"pop", 1>>
      /\ OpenBody[2] = <<"push", "metatable">>
      /\ OpenBody[3] = <<"pop", 1>>
      /\ OpenBody[4] = <<"push", "library">>
  BY DEF OpenBody, CheckSelf
<1>3. CallOK(f, 1)
  <2>1. Fits(<<"pop", 1>>, 0, -1, 1) /\ <<"pop", 1>>[1] # "skip unless table"
    BY DEF Fits, Kinds
  <2>2. Height(f)[1] = 0 /\ Height(f)[1 + 1] = -1
    BY <1>1
  <2> QED BY <1>1, <1>2, <2>1, <2>2, Zenon DEF CallOK, CallAt
<1>4. CallOK(f, 2)
  <2>1. Fits(<<"push", "metatable">>, -1, 0, 1) /\ <<"push", "metatable">>[1] # "skip unless table"
    BY DEF Fits, Kinds, StackValues, ScriptValues, Self
  <2>2. Height(f)[2] = -1 /\ Height(f)[2 + 1] = 0
    BY <1>1
  <2> QED BY <1>1, <1>2, <2>1, <2>2, Zenon DEF CallOK, CallAt
<1>5. CallOK(f, 3)
  <2>1. Fits(<<"pop", 1>>, 0, -1, 1) /\ <<"pop", 1>>[1] # "skip unless table"
    BY DEF Fits, Kinds
  <2>2. Height(f)[3] = 0 /\ Height(f)[3 + 1] = -1
    BY <1>1
  <2> QED BY <1>1, <1>2, <2>1, <2>2, Zenon DEF CallOK, CallAt
<1>6. CallOK(f, 4)
  <2>1. Fits(<<"push", "library">>, -1, 0, 1) /\ <<"push", "library">>[1] # "skip unless table"
    BY DEF Fits, Kinds, StackValues, ScriptValues, Self
  <2>2. Height(f)[4] = -1 /\ Height(f)[4 + 1] = 0
    BY <1>1
  <2> QED BY <1>1, <1>2, <2>1, <2>2, Zenon DEF CallOK, CallAt
<1> QED BY <1>1, <1>2, <1>3, <1>4, <1>5, <1>6

LEMMA NewCalls ==
  ASSUME NEW f \in {"new"}, NEW i \in 1 .. Len(Body(f))
  PROVE  CallOK(f, i)
<1>1. Body(f) = NewBody /\ Takes(f) = 0 /\ Height(f) = <<0, 1, 2, 1>>
  BY DEF Body, Takes, Height
<1>2. /\ Len(NewBody) = 3
      /\ NewBody[1] = <<"push", "userdata">>
      /\ NewBody[2] = <<"push", "metatable">>
      /\ NewBody[3] = <<"pop", 1>>
  BY DEF NewBody, CheckSelf
<1>3. CallOK(f, 1)
  <2>1. Fits(<<"push", "userdata">>, 0, 1, 0) /\ <<"push", "userdata">>[1] # "skip unless table"
    BY DEF Fits, Kinds, StackValues, ScriptValues, Self
  <2>2. Height(f)[1] = 0 /\ Height(f)[1 + 1] = 1
    BY <1>1
  <2> QED BY <1>1, <1>2, <2>1, <2>2, Zenon DEF CallOK, CallAt
<1>4. CallOK(f, 2)
  <2>1. Fits(<<"push", "metatable">>, 1, 2, 0) /\ <<"push", "metatable">>[1] # "skip unless table"
    BY DEF Fits, Kinds, StackValues, ScriptValues, Self
  <2>2. Height(f)[2] = 1 /\ Height(f)[2 + 1] = 2
    BY <1>1
  <2> QED BY <1>1, <1>2, <2>1, <2>2, Zenon DEF CallOK, CallAt
<1>5. CallOK(f, 3)
  <2>1. Fits(<<"pop", 1>>, 2, 1, 0) /\ <<"pop", 1>>[1] # "skip unless table"
    BY DEF Fits, Kinds
  <2>2. Height(f)[3] = 2 /\ Height(f)[3 + 1] = 1
    BY <1>1
  <2> QED BY <1>1, <1>2, <2>1, <2>2, Zenon DEF CallOK, CallAt
<1> QED BY <1>1, <1>2, <1>3, <1>4, <1>5

LEMMA SetCalls ==
  ASSUME NEW f \in {"telemetry", "set_attribute"}, NEW i \in 1 .. Len(Body(f))
  PROVE  CallOK(f, i)
<1>1. Body(f) = SetBody /\ Takes(f) = 3 /\ Height(f) = <<0, 0, 0, 0, 0, 0, -3>>
  BY DEF Body, Takes, Height
<1>2. /\ Len(SetBody) = 6
      /\ SetBody[1] = <<"check", 1, "userdata">>
      /\ SetBody[2] = <<"check", 2, "string">>
      /\ SetBody[3] = <<"read", 2, "key">>
      /\ SetBody[4] = <<"read", 3, "value">>
      /\ SetBody[5] = <<"controller">>
      /\ SetBody[6] = <<"pop", 3>>
  BY DEF SetBody, CheckSelf
<1>3. CallOK(f, 1)
  <2>1. Fits(<<"check", 1, "userdata">>, 0, 0, 3) /\ <<"check", 1, "userdata">>[1] # "skip unless table"
    BY DEF Fits, Kinds
  <2>2. Height(f)[1] = 0 /\ Height(f)[1 + 1] = 0
    BY <1>1
  <2> QED BY <1>1, <1>2, <2>1, <2>2, Zenon DEF CallOK, CallAt
<1>4. CallOK(f, 2)
  <2>1. Fits(<<"check", 2, "string">>, 0, 0, 3) /\ <<"check", 2, "string">>[1] # "skip unless table"
    BY DEF Fits, Kinds
  <2>2. Height(f)[2] = 0 /\ Height(f)[2 + 1] = 0
    BY <1>1
  <2> QED BY <1>1, <1>2, <2>1, <2>2, Zenon DEF CallOK, CallAt
<1>5. CallOK(f, 3)
  <2>1. Fits(<<"read", 2, "key">>, 0, 0, 3) /\ <<"read", 2, "key">>[1] # "skip unless table"
    BY DEF Fits, Kinds
  <2>2. Height(f)[3] = 0 /\ Height(f)[3 + 1] = 0
    BY <1>1
  <2> QED BY <1>1, <1>2, <2>1, <2>2, Zenon DEF CallOK, CallAt
<1>6. CallOK(f, 4)
  <2>1. Fits(<<"read", 3, "value">>, 0, 0, 3) /\ <<"read", 3, "value">>[1] # "skip unless table"
    BY DEF Fits, Kinds
  <2>2. Height(f)[4] = 0 /\ Height(f)[4 + 1] = 0
    BY <1>1
  <2> QED BY <1>1, <1>2, <2>1, <2>2, Zenon DEF CallOK, CallAt
<1>7. CallOK(f, 5)
  <2>1. Fits(<<"controller">>, 0, 0, 3) /\ <<"controller">>[1] # "skip unless table"
    BY DEF Fits, Kinds
  <2>2. Height(f)[5] = 0 /\ Height(f)[5 + 1] = 0
    BY <1>1
  <2> QED BY <1>1, <1>2, <2>1, <2>2, Zenon DEF CallOK, CallAt
<1>8. CallOK(f, 6)
  <2>1. Fits(<<"pop", 3>>, 0, -3, 3) /\ <<"pop", 3>>[1] # "skip unless table"
    BY DEF Fits, Kinds
  <2>2. Height(f)[6] = 0 /\ Height(f)[6 + 1] = -3
    BY <1>1
  <2> QED BY <1>1, <1>2, <2>1, <2>2, Zenon DEF CallOK, CallAt
<1> QED BY <1>1, <1>2, <1>3, <1>4, <1>5, <1>6, <1>7, <1>8

LEMMA RunCalls ==
  ASSUME NEW f \in {"send", "loop"}, NEW i \in 1 .. Len(Body(f))
  PROVE  CallOK(f, i)
<1>1. Body(f) = RunBody /\ Takes(f) = 1 /\ Height(f) = <<0, 0, -1, -1>>
  BY DEF Body, Takes, Height
<1>2. /\ Len(RunBody) = 3
      /\ RunBody[1] = <<"check", 1, "userdata">>
      /\ RunBody[2] = <<"pop", 1>>
      /\ RunBody[3] = <<"controller">>
  BY DEF RunBody, CheckSelf
<1>3. CallOK(f, 1)
  <2>1. Fits(<<"check", 1, "userdata">>, 0, 0, 1) /\ <<"check", 1, "userdata">>[1] # "skip unless table"
    BY DEF Fits, Kinds
  <2>2. Height(f)[1] = 0 /\ Height(f)[1 + 1] = 0
    BY <1>1
  <2> QED BY <1>1, <1>2, <2>1, <2>2, Zenon DEF CallOK, CallAt
<1>4. CallOK(f, 2)
  <2>1. Fits(<<"pop", 1>>, 0, -1, 1) /\ <<"pop", 1>>[1] # "skip unless table"
    BY DEF Fits, Kinds
  <2>2. Height(f)[2] = 0 /\ Height(f)[2 + 1] = -1
    BY <1>1
  <2> QED BY <1>1, <1>2, <2>1, <2>2, Zenon DEF CallOK, CallAt
<1>5. CallOK(f, 3)
  <2>1. Fits(<<"controller">>, -1, -1, 1) /\ <<"controller">>[1] # "skip unless table"
    BY DEF Fits, Kinds
  <2>2. Height(f)[3] = -1 /\ Height(f)[3 + 1] = -1
    BY <1>1
  <2> QED BY <1>1, <1>2, <2>1, <2>2, Zenon DEF CallOK, CallAt
<1> QED BY <1>1, <1>2, <1>3, <1>4, <1>5

LEMMA IsConnectedCalls ==
  ASSUME NEW f \in {"is_connected"}, NEW i \in 1 .. Len(Body(f))
  PROVE  CallOK(f, i)
<1>1. Body(f) = IsConnectedBody /\ Takes(f) = 1 /\ Height(f) = <<0, 0, -1, 0>>
  BY DEF Body, Takes, Height
<1>2. /\ Len(IsConnectedBody) = 3
      /\ IsConnectedBody[1] = <<"check", 1, "userdata">>
      /\ IsConnectedBody[2] = <<"pop", 1>>
      /\ IsConnectedBody[3] = <<"push", "boolean">>
  BY DEF IsConnectedBody, CheckSelf
<1>3. CallOK(f, 1)
  <2>1. Fits(<<"check", 1, "userdata">>, 0, 0, 1) /\ <<"check", 1, "userdata">>[1] # "skip unless table"
    BY DEF Fits, Kinds
  <2>2. Height(f)[1] = 0 /\ Height(f)[1 + 1] = 0
    BY <1>1
  <2> QED BY <1>1, <1>2, <2>1, <2>2, Zenon DEF CallOK, CallAt
<1>4. CallOK(f, 2)
  <2>1. Fits(<<"pop", 1>>, 0, -1, 1) /\ <<"pop", 1>>[1] # "skip unless table"
    BY DEF Fits, Kinds
  <2>2. Height(f)[2] = 0 /\ Height(f)[2 + 1] = -1
    BY <1>1
  <2> QED BY <1>1, <1>2, <2>1, <2>2, Zenon DEF CallOK, CallAt
<1>5. CallOK(f, 3)
  <2>1. Fits(<<"push", "boolean">>, -1, 0, 1) /\ <<"push", "boolean">>[1] # "skip unless table"
    BY DEF Fits, Kinds, StackValues, ScriptValues, Self
  <2>2. Height(f)[3] = -1 /\ Height(f)[3 + 1] = 0
    BY <1>1
  <2> QED BY <1>1, <1>2, <2>1, <2>2, Zenon DEF CallOK, CallAt
<1> QED BY <1>1, <1>2, <1>3, <1>4, <1>5

LEMMA StringifyCalls ==
  ASSUME NEW f \in {"json_stringify"}, NEW i \in 1 .. Len(Body(f))
  PROVE  CallOK(f, i)
<1>1. Body(f) = StringifyBody /\ Takes(f) = 1 /\ Height(f) = <<0, 0, -1, 0>>
  BY DEF Body, Takes, Height
<1>2. /\ Len(StringifyBody) = 3
      /\ StringifyBody[1] = <<"read", 1, "value">>
      /\ StringifyBody[2] = <<"pop", 1>>
      /\ StringifyBody[3] = <<"push", "string">>
  BY DEF StringifyBody, CheckSelf
<1>3. CallOK(f, 1)
  <2>1. Fits(<<"read", 1, "value">>, 0, 0, 1) /\ <<"read", 1, "value">>[1] # "skip unless table"
    BY DEF Fits, Kinds
  <2>2. Height(f)[1] = 0 /\ Height(f)[1 + 1] = 0
    BY <1>1
  <2> QED BY <1>1, <1>2, <2>1, <2>2, Zenon DEF CallOK, CallAt
<1>4. CallOK(f, 2)
  <2>1. Fits(<<"pop", 1>>, 0, -1, 1) /\ <<"pop", 1>>[1] # "skip unless table"
    BY DEF Fits, Kinds
  <2>2. Height(f)[2] = 0 /\ Height(f)[2 + 1] = -1
    BY <1>1
  <2> QED BY <1>1, <1>2, <2>1, <2>2, Zenon DEF CallOK, CallAt
<1>5. CallOK(f, 3)
  <2>1. Fits(<<"push", "string">>, -1, 0, 1) /\ <<"push", "string">>[1] # "skip unless table"
    BY DEF Fits, Kinds, StackValues, ScriptValues, Self
  <2>2. Height(f)[3] = -1 /\ Height(f)[3 + 1] = 0
    BY <1>1
  <2> QED BY <1>1, <1>2, <2>1, <2>2, Zenon DEF CallOK, CallAt
<1> QED BY <1>1, <1>2, <1>3, <1>4, <1>5

LEMMA ParseCalls ==
  ASSUME NEW f \in {"json_parse"}, NEW i \in 1 .. Len(Body(f))
  PROVE  CallOK(f, i)
<1>1. Body(f) = ParseBody /\ Takes(f) = 1 /\ Height(f) = <<0, 0, 0, -1, 0>>
  BY DEF Body, Takes, Height
<1>2. /\ Len(ParseBody) = 4
      /\ ParseBody[1] = <<"check", 1, "string">>
      /\ ParseBody[2] = <<"read", 1, "text">>
      /\ ParseBody[3] = <<"pop", 1>>
      /\ ParseBody[4] = <<"push", "any">>
  BY DEF ParseBody, CheckSelf
<1>3. CallOK(f, 1)
  <2>1. Fits(<<"check", 1, "string">>, 0, 0, 1) /\ <<"check", 1, "string">>[1] # "skip unless table"
    BY DEF Fits, Kinds
  <2>2. Height(f)[1] = 0 /\ Height(f)[1 + 1] = 0
    BY <1>1
  <2> QED BY <1>1, <1>2, <2>1, <2>2, Zenon DEF CallOK, CallAt
<1>4. CallOK(f, 2)
  <2>1. Fits(<<"read", 1, "text">>, 0, 0, 1) /\ <<"read", 1, "text">>[1] # "skip unless table"
    BY DEF Fits, Kinds
  <2>2. Height(f)[2] = 0 /\ Height(f)[2 + 1] = 0
    BY <1>1
  <2> QED BY <1>1, <1>2, <2>1, <2>2, Zenon DEF CallOK, CallAt
<1>5. CallOK(f, 3)
  <2>1. Fits(<<"pop", 1>>, 0, -1, 1) /\ <<"pop", 1>>[1] # "skip unless table"
    BY DEF Fits, Kinds
  <2>2. Height(f)[3] = 0 /\ Height(f)[3 + 1] = -1
    BY <1>1
  <2> QED BY <1>1, <1>2, <2>1, <2>2, Zenon DEF CallOK, CallAt
<1>6. CallOK(f, 4)
  <2>1. Fits(<<"push", "any">>, -1, 0, 1) /\ <<"push", "any">>[1] # "skip unless table"
    BY DEF Fits, Kinds, StackValues, ScriptValues, Self
  <2>2. Height(f)[4] = -1 /\ Height(f)[4 + 1] = 0
    BY <1>1
  <2> QED BY <1>1, <1>2, <2>1, <2>2, Zenon DEF CallOK, CallAt
<1> QED BY <1>1, <1>2, <1>3, <1>4, <1>5, <1>6

LEMMA Calls ==
  ASSUME NEW f \in Bound, NEW i \in 1 .. Len(Body(f))
  PROVE  CallOK(f, i)
BY ConnectCalls, OpenCalls, NewCalls, SetCalls, RunCalls, IsConnectedCalls, StringifyCalls, ParseCalls
   DEF Bound, ObjectMethods, LibraryMethods

(* Where each function begins and ends.                                    *)
LEMMA Ends ==
  ASSUME NEW f \in Bound
  PROVE  /\ Len(Body(f)) \in Nat
         /\ Takes(f) \in Nat /\ Leaves(f) \in Nat
         /\ Height(f)[1] = 0
         /\ Height(f)[Len(Body(f)) + 1] = Leaves(f) - Takes(f)
<1>1. CASE f = "connect"
  <2>1. Len(Body("connect")) = 19
    BY ConnectOthers, Zenon
  <2>3. Height("connect")[1] = 0 /\ Height("connect")[19 + 1] = 0 - 2
    BY ConnectHeight
  <2>4. 19 \in Nat /\ 2 \in Nat /\ 0 \in Nat
    OBVIOUS
  <2>2. Takes("connect") = 2 /\ Leaves("connect") = 0
    BY DEF Takes, Leaves
  <2> QED BY <1>1, <2>1, <2>2, <2>3, <2>4, Zenon
<1>2. CASE f = "open"
  BY <1>2 DEF Takes, Leaves, Height, Body, OpenBody
<1>3. CASE f = "new"
  BY <1>3 DEF Takes, Leaves, Height, Body, NewBody
<1>4. CASE f \in {"telemetry", "set_attribute"}
  BY <1>4 DEF Takes, Leaves, Height, Body, SetBody
<1>5. CASE f \in {"send", "loop"}
  BY <1>5 DEF Takes, Leaves, Height, Body, RunBody
<1>6. CASE f = "is_connected"
  BY <1>6 DEF Takes, Leaves, Height, Body, IsConnectedBody
<1>7. CASE f = "json_stringify"
  BY <1>7 DEF Takes, Leaves, Height, Body, StringifyBody
<1>8. CASE f = "json_parse"
  BY <1>8 DEF Takes, Leaves, Height, Body, ParseBody
<1> QED BY <1>1, <1>2, <1>3, <1>4, <1>5, <1>6, <1>7, <1>8 DEF Bound, ObjectMethods, LibraryMethods

(* A field of a script's table is a value of the stack.                    *)
LEMMA FieldType ==
  ASSUME NEW t, NEW k \in FieldNames \cup {"ssl_config"}
  PROVE  Field(t, k) \in StackValues
<1>1. CASE t \notin Tables
  BY <1>1 DEF Field, StackValues, ScriptValues
<1>2. CASE t \in Tables /\ k # "ssl_config"
  <2>1. Field(t, k) = <<t[1], k>> /\ k \in FieldNames
    BY <1>2 DEF Field
  <2>2. t[1] \in {u[1] : u \in Tables}
    BY <1>2, Zenon
  <2>3. <<t[1], k>> \in {u[1] : u \in Tables} \X FieldNames
    BY <2>1, <2>2
  <2> QED BY <2>1, <2>3, Zenon DEF StackValues
<1>3. CASE t \in Tables /\ k = "ssl_config"
  <2>1. Field(t, k) \in {<<"ssl">>, <<"nil">>}
    BY <1>3 DEF Field
  <2>2. <<"ssl">> \in ScriptValues /\ <<"nil">> \in ScriptValues
    BY DEF ScriptValues, Tables
  <2> QED BY <2>1, <2>2, Zenon DEF StackValues
<1> QED BY <1>1, <1>2, <1>3

-----------------------------------------------------------------------------
(* The frame while a function runs and when it has returned.               *)
FrameInv ==
  /\ outcome # "raised" => fn \in Bound
  /\ outcome = "returned" => pc = Len(Body(fn)) + 1
  /\ Len(given) >= Takes(fn) =>
       ~below /\ (outcome # "raised" => Len(stack) = Len(given) + Height(fn)[pc])

(* What a running function is about to call.                               *)
LEMMA OpFits ==
  ASSUME TypeOK, FrameInv, outcome = "running", pc <= Len(Body(fn))
  PROVE  /\ pc \in 1 .. Len(Body(fn))
         /\ Fits(Op, Height(fn)[pc], Height(fn)[pc + 1], Takes(fn))
         /\ Op[1] = "skip unless table" =>
              /\ pc + 1 + Op[2] \in 1 .. Len(Body(fn)) + 1
              /\ Height(fn)[pc + 1 + Op[2]] = Height(fn)[pc]
<1>1. fn \in Bound
  BY DEF FrameInv
<1>2. pc \in 1 .. Len(Body(fn))
  BY <1>1, Ends DEF TypeOK, Bound
<1>3. CallOK(fn, pc) /\ Op = CallAt(fn, pc)
  BY <1>1, <1>2, Calls DEF CallAt, Op
<1> QED BY <1>2, <1>3, Zenon DEF CallOK

LEMMA AtType ==
  ASSUME TypeOK, NEW i \in 1 .. 3
  PROVE  At(i) \in StackValues \cup {Missing}
BY LenProperties, ElementOfSeq DEF TypeOK, At

(* Every step keeps the types and the frame.                               *)
LEMMA FrameInit == Init => TypeOK /\ FrameInv
<1> SUFFICES ASSUME Init PROVE TypeOK /\ FrameInv
  OBVIOUS
<1>1. "open" \in Bound
  BY DEF Bound
<1>2. given \in Seq(ScriptValues) /\ stack \in Seq(StackValues) /\ Len(given) = 1 /\ Len(stack) = 1
  BY DEF Init, ScriptValues, StackValues
<1>3. 1 \in 1 .. Len(Body("open")) + 1 /\ Height("open")[1] = 0
  BY <1>1, Ends
<1>4. TypeOK
  BY <1>2, <1>3 DEF Init, TypeOK
<1>5. FrameInv
  <2>1. Takes("open") = 1
    BY DEF Takes
  <2> QED BY <1>1, <1>2, <1>3, <2>1 DEF Init, FrameInv
<1> QED BY <1>4, <1>5

LEMMA CallKeepsFrame ==
  ASSUME NEW f \in Documented, NEW args \in Arguments, Call(f, args)
  PROVE  TypeOK' /\ FrameInv'
<1>1. args \in Seq(ScriptValues) /\ args \in Seq(StackValues) /\ Len(args) \in Nat
  <2>1. args \in Seq(ScriptValues)
    BY LuaBindingAssumption
  <2>2. \A i \in 1 .. Len(args) : args[i] \in StackValues
    BY <2>1, ElementOfSeq DEF StackValues
  <2> QED BY <2>1, <2>2, LenProperties, SeqDef
<1>2. f \in Bound => Height(f)[1] = 0 /\ 1 \in 1 .. Len(Body(f)) + 1
  BY Ends
<1>3. TypeOK'
  BY <1>1, <1>2 DEF Call, TypeOK, Bound
<1>4. outcome' # "raised" => f \in Bound
  BY DEF Call, Bound
<1> QED BY <1>1, <1>2, <1>3, <1>4 DEF Call, FrameInv

Readings == (FieldNames \cup {"ssl_config", "key", "value", "text"}) \X (StackValues \cup {Missing})

LEMMA RaiseKeepsFrame ==
  ASSUME TypeOK, FrameInv, Raise
  PROVE  TypeOK' /\ FrameInv'
BY DEF TypeOK, FrameInv, Raise

LEMMA ContinueKeepsFrame ==
  ASSUME TypeOK, FrameInv, outcome = "running",
         NEW next \in 1 .. Len(Body(fn)) + 1, Continue(next),
         stack' \in Seq(StackValues), reads' \subseteq Readings, below' \in BOOLEAN,
         Len(given) >= Takes(fn) => ~below' /\ Len(stack') = Len(given) + Height(fn)[next]
  PROVE  TypeOK' /\ FrameInv'
BY DEF TypeOK, FrameInv, Continue, Readings

LEMMA StepKeepsFrame ==
  ASSUME TypeOK, FrameInv,
         Check \/ ReadValue \/ GetField \/ SkipUnlessTable \/ Push \/ Pop \/ CallController
  PROVE  TypeOK' /\ FrameInv'
<1> USE DEF Running
<1>1. outcome = "running" /\ pc <= Len(Body(fn))
  BY DEF Check, ReadValue, GetField, SkipUnlessTable, Push, Pop, CallController
<1>2. fn \in Bound /\ Len(Body(fn)) \in Nat /\ pc \in 1 .. Len(Body(fn))
  BY <1>1, OpFits, Ends DEF FrameInv
<1>3. pc + 1 \in 1 .. Len(Body(fn)) + 1
  BY <1>2
<1> DEFINE before == Height(fn)[pc]
           after  == Height(fn)[pc + 1]
<1>4. Fits(Op, before, after, Takes(fn))
  BY <1>1, OpFits
<1>5. stack \in Seq(StackValues) /\ Len(stack) \in Nat /\ reads \subseteq Readings /\ below \in BOOLEAN
  BY LenProperties DEF TypeOK, Readings
<1>6. Len(given) >= Takes(fn) => ~below /\ Len(stack) = Len(given) + before
  BY <1>1 DEF FrameInv
<1>7. Len(given) \in Nat /\ Takes(fn) \in Nat /\ before \in Int
  BY <1>2, <1>4, Ends, LenProperties DEF TypeOK, Fits
<1> HIDE DEF before, after
<1>8. ASSUME after = before, UNCHANGED <<stack, below>>, reads' \subseteq Readings, Continue(pc + 1)
      PROVE  TypeOK' /\ FrameInv'
  BY <1>1, <1>3, <1>5, <1>6, <1>8, ContinueKeepsFrame DEF before, after
<1>9. ASSUME NEW v \in StackValues, after = before + 1, stack' = Append(stack, v),
             below' = below, reads' \subseteq Readings, Continue(pc + 1)
      PROVE  TypeOK' /\ FrameInv'
  <2>1. stack' \in Seq(StackValues) /\ Len(stack') = Len(stack) + 1
    BY <1>5, <1>9, AppendProperties
  <2>2. Len(given) >= Takes(fn) => ~below' /\ Len(stack') = Len(given) + after
    BY <1>5, <1>6, <1>7, <1>9, <2>1
  <2> QED BY <1>1, <1>3, <1>5, <1>9, <2>1, <2>2, ContinueKeepsFrame DEF after
<1>10. CASE Check
  <2>1. after = before
    BY <1>4, <1>10 DEF Fits, Check
  <2>2. CASE Raise
    BY <2>2, RaiseKeepsFrame
  <2>3. CASE ~Raise
    <3>1. Continue(pc + 1) /\ UNCHANGED <<stack, reads, below>>
      BY <1>10, <2>3 DEF Check
    <3> QED BY <1>5, <1>8, <2>1, <3>1
  <2> QED BY <2>2, <2>3
<1>11. CASE ReadValue
  <2>1. after = before /\ Op[2] \in 1 .. 3 /\ Op[3] \in {"key", "value", "text"}
    BY <1>4, <1>11 DEF Fits, ReadValue
  <2>2. <<Op[3], At(Op[2])>> \in Readings
    BY <2>1, AtType DEF Readings
  <2>3. reads' \subseteq Readings
    BY <1>5, <1>11, <2>2 DEF ReadValue
  <2> QED BY <1>8, <1>11, <2>1, <2>3 DEF ReadValue
<1>12. CASE GetField
  <2>1. /\ after = before + 1 /\ Op[2] \in 2 .. 3
        /\ Op[3] \in FieldNames \cup {"ssl_config"}
    BY <1>4, <1>12 DEF Fits, GetField
  <2>2. CASE Raise
    BY <2>2, RaiseKeepsFrame
  <2>3. CASE ~Raise
    <3> DEFINE v == Field(At(Op[2]), Op[3])
    <3>1. /\ stack' = Append(stack, v)
          /\ reads' = reads \cup {<<Op[3], v>>}
          /\ Continue(pc + 1) /\ below' = below
      BY <1>12, <2>3, Zenon DEF GetField
    <3>2. v \in StackValues
      BY <2>1, FieldType
    <3> HIDE DEF v
    <3>3. <<Op[3], v>> \in Readings
      BY <2>1, <3>2 DEF Readings
    <3>4. reads' \subseteq Readings
      BY <1>5, <3>1, <3>3
    <3> QED BY <1>9, <2>1, <3>1, <3>2, <3>4
  <2> QED BY <2>2, <2>3
<1>13. CASE SkipUnlessTable
  <2>1. /\ Op[1] = "skip unless table" /\ after = before /\ Op[2] \in Nat
        /\ UNCHANGED <<stack, reads, below>>
    BY <1>4, <1>13 DEF Fits, SkipUnlessTable
  <2>2. CASE Continue(pc + 1)
    BY <1>5, <1>8, <2>1, <2>2
  <2>3. CASE Continue(pc + 1 + Op[2])
    <3> DEFINE next == pc + 1 + Op[2]
    <3>1. next \in 1 .. Len(Body(fn)) + 1 /\ Height(fn)[next] = before
      BY <1>1, <2>1, OpFits DEF before
    <3> HIDE DEF next
    <3>2. Continue(next)
      BY <2>3 DEF next
    <3> QED BY <1>1, <1>5, <1>6, <2>1, <3>1, <3>2, ContinueKeepsFrame
  <2> QED BY <1>13, <2>2, <2>3 DEF SkipUnlessTable
<1>14. CASE Push
  <2>1. after = before + 1 /\ <<Op[2]>> \in StackValues
    BY <1>4, <1>14 DEF Fits, Push
  <2> QED BY <1>5, <1>9, <1>14, <2>1 DEF Push
<1>15. CASE Pop
  <2>1. Op[2] \in Nat /\ after = before - Op[2] /\ after + Takes(fn) >= 0
    BY <1>4, <1>15 DEF Fits, Pop
  <2> DEFINE n == Op[2]
  <2>2. /\ stack' = SubSeq(stack, 1, Len(stack) - n)
        /\ below' = (below \/ Len(stack) < n)
        /\ Continue(pc + 1) /\ UNCHANGED reads
    BY <1>15 DEF Pop
  <2>3. n \in Nat /\ after = before - n /\ after + Takes(fn) >= 0
    BY <2>1
  <2> HIDE DEF n
  <2>4. stack' \in Seq(StackValues) /\ (n <= Len(stack) => Len(stack') = Len(stack) - n)
    BY <1>5, <2>2, <2>3, SubSeqProperties, ElementOfSeq
  <2>5. Len(given) >= Takes(fn) => ~below' /\ Len(stack') = Len(given) + after
    <3> SUFFICES ASSUME Len(given) >= Takes(fn) PROVE ~below' /\ Len(stack') = Len(given) + after
      OBVIOUS
    <3>1. n <= Len(stack) /\ Len(stack) - n = Len(given) + after
      BY <1>5, <1>6, <1>7, <2>3
    <3>2. ~(Len(stack) < n)
      BY <1>5, <2>3, <3>1
    <3>3. ~below'
      BY <1>6, <2>2, <3>2, Zenon
    <3> QED BY <2>4, <3>1, <3>3
  <2>6. below' \in BOOLEAN
    BY <2>2
  <2> QED BY <1>1, <1>3, <1>5, <2>2, <2>4, <2>5, <2>6, ContinueKeepsFrame DEF after
<1>16. CASE CallController
  <2>1. after = before
    BY <1>4, <1>16 DEF Fits, CallController
  <2>2. CASE Raise
    BY <2>2, RaiseKeepsFrame
  <2>3. CASE Continue(pc + 1) /\ UNCHANGED <<stack, reads, below>>
    BY <1>5, <1>8, <2>1, <2>3
  <2> QED BY <1>16, <2>2, <2>3 DEF CallController
<1> QED BY <1>10, <1>11, <1>12, <1>13, <1>14, <1>15, <1>16

-----------------------------------------------------------------------------
(* What telemetry() and set_attribute() have read before each call.        *)
SetInv ==
  fn \in {"telemetry", "set_attribute"} /\ Len(given) = 3 /\ outcome # "raised" =>
    /\ pc <= 6 => stack = given
    /\ reads \subseteq {<<"key", given[2]>>, <<"value", given[3]>>}
    /\ pc > 3 => <<"key", given[2]>> \in reads
    /\ pc > 4 => <<"value", given[3]>> \in reads

ConfigNames == {ConfigKeys[i] : i \in 1 .. 7}
SslNames == {SslKeys[i] : i \in 1 .. 5}
Config == <<"config">>

(* What connect() may have read from the table t.                          *)
ReadFrom(t, r) ==
  /\ r[1] \in ConfigNames => r[2] = Field(t, r[1])
  /\ r[1] \in SslNames => t = Config /\ r[2] = <<"ssl", r[1]>>

(* What connect() has on its frame and has read before each call.          *)
ConnectInv ==
  fn = "connect" /\ Len(given) = 2 /\ outcome # "raised" =>
    /\ pc <= 18 => stack[2] = given[2]
    /\ pc = 11 => stack[3] = Field(given[2], "ssl_config")
    /\ pc \in 12 .. 17 => given[2] = Config /\ stack[3] = <<"ssl">>
    /\ \A r \in reads : ReadFrom(given[2], r)
    /\ \A i \in 1 .. 7 : pc > i + 1 => <<ConfigKeys[i], Field(given[2], ConfigKeys[i])>> \in reads
    /\ \A i \in 1 .. 5 : given[2] = Config /\ pc > i + 11 => <<SslKeys[i], <<"ssl", SslKeys[i]>>>> \in reads

LEMMA CallStartsReading ==
  ASSUME NEW f \in Documented, NEW args \in Arguments, Call(f, args)
  PROVE  SetInv' /\ ConnectInv'
BY DEF Call, SetInv, ConnectInv

LEMMA ReturnKeepsReading == SetInv /\ ConnectInv /\ Return => SetInv' /\ ConnectInv'
BY DEF Return, SetInv, ConnectInv

LEMMA ActionsByName ==
  /\ Check => Op[1] = "check"
  /\ ReadValue => Op[1] = "read"
  /\ GetField => Op[1] = "field"
  /\ SkipUnlessTable => Op[1] = "skip unless table"
  /\ Push => Op[1] = "push"
  /\ Pop => Op[1] = "pop"
  /\ CallController => Op[1] = "controller"
BY DEF Running, Check, ReadValue, GetField, SkipUnlessTable, Push, Pop, CallController

Step == Check \/ ReadValue \/ GetField \/ SkipUnlessTable \/ Push \/ Pop \/ CallController

LEMMA SetCallsListed ==
  ASSUME NEW f \in {"telemetry", "set_attribute"}
  PROVE  /\ Len(Body(f)) = 6
         /\ CallAt(f, 1) = <<"check", 1, "userdata">>
         /\ CallAt(f, 2) = <<"check", 2, "string">>
         /\ CallAt(f, 3) = <<"read", 2, "key">>
         /\ CallAt(f, 4) = <<"read", 3, "value">>
         /\ CallAt(f, 5) = <<"controller">>
         /\ CallAt(f, 6) = <<"pop", 3>>
<1>1. Body(f) = SetBody
  BY DEF Body
<1> QED BY <1>1 DEF CallAt, SetBody, CheckSelf

LEMMA SetStep ==
  ASSUME TypeOK, FrameInv, SetInv, Step
  PROVE  SetInv'
<1> SUFFICES ASSUME fn' \in {"telemetry", "set_attribute"}, Len(given') = 3, outcome' # "raised"
             PROVE  SetInv'
  BY DEF SetInv
<1>1. outcome = "running" /\ pc <= Len(Body(fn))
  BY DEF Step, Running, Check, ReadValue, GetField, SkipUnlessTable, Push, Pop, CallController
<1>2. ~Raise
  BY DEF Raise
<1>3. UNCHANGED <<fn, given>>
  BY <1>2 DEF Step, Continue, Check, ReadValue, GetField, SkipUnlessTable, Push, Pop, CallController
<1>4. /\ pc <= 6 => stack = given
      /\ reads \subseteq {<<"key", given[2]>>, <<"value", given[3]>>}
      /\ pc > 3 => <<"key", given[2]>> \in reads
      /\ pc > 4 => <<"value", given[3]>> \in reads
  BY <1>1, <1>3 DEF SetInv
<1>5. pc \in 1 .. 6 /\ Op = CallAt(fn, pc)
  <2>1. Len(Body(fn)) = 6
    BY <1>3, SetCallsListed
  <2>2. pc \in 1 .. Len(Body(fn))
    BY <1>1, OpFits
  <2> QED BY <2>1, <2>2 DEF Op, CallAt
<1>6. stack = given /\ Len(stack) = 3
  BY <1>3, <1>4, <1>5
<1>7. CASE pc \in {1, 2, 5}
  <2>1. Op[1] \in {"check", "controller"}
    <3>1. <<"check", 1, "userdata">>[1] = "check" /\ <<"check", 2, "string">>[1] = "check"
          /\ <<"controller">>[1] = "controller"
      OBVIOUS
    <3> QED BY <1>3, <1>5, <1>7, <3>1, SetCallsListed, Zenon
  <2>2. Check \/ CallController
    BY <2>1, ActionsByName DEF Step
  <2>3. pc' = pc + 1 /\ UNCHANGED <<stack, reads>>
    BY <1>2, <2>2 DEF Check, CallController, Continue
  <2> QED BY <1>3, <1>4, <1>6, <1>7, <2>3 DEF SetInv
<1>8. CASE pc = 3
  <2>1. Op = <<"read", 2, "key">>
    BY <1>3, <1>5, <1>8, SetCallsListed, Zenon
  <2>2. ReadValue
    BY <2>1, ActionsByName DEF Step
  <2>3. pc' = 4 /\ stack' = stack /\ reads' = reads \cup {<<Op[3], At(Op[2])>>}
    BY <1>8, <2>2 DEF ReadValue, Continue
  <2>4. Op[3] = "key" /\ Op[2] = 2
    BY <2>1
  <2>5. At(2) = given[2]
    BY <1>6 DEF At
  <2>6. reads' = reads \cup {<<"key", given[2]>>}
    BY <2>3, <2>4, <2>5, Zenon
  <2> QED BY <1>3, <1>4, <1>6, <2>3, <2>6 DEF SetInv
<1>9. CASE pc = 4
  <2>1. Op = <<"read", 3, "value">>
    BY <1>3, <1>5, <1>9, SetCallsListed, Zenon
  <2>2. ReadValue
    BY <2>1, ActionsByName DEF Step
  <2>3. pc' = 5 /\ stack' = stack /\ reads' = reads \cup {<<Op[3], At(Op[2])>>}
    BY <1>9, <2>2 DEF ReadValue, Continue
  <2>4. Op[3] = "value" /\ Op[2] = 3
    BY <2>1
  <2>5. At(3) = given[3]
    BY <1>6 DEF At
  <2>6. reads' = reads \cup {<<"value", given[3]>>}
    BY <2>3, <2>4, <2>5, Zenon
  <2> QED BY <1>3, <1>4, <1>6, <1>9, <2>3, <2>6 DEF SetInv
<1>10. CASE pc = 6
  <2>1. Op[1] = "pop"
    <3>1. <<"pop", 3>>[1] = "pop"
      OBVIOUS
    <3> QED BY <1>3, <1>5, <1>10, <3>1, SetCallsListed, Zenon
  <2>2. Pop
    BY <2>1, ActionsByName DEF Step
  <2>3. pc' = 7 /\ UNCHANGED reads
    BY <1>10, <2>2 DEF Pop, Continue
  <2> QED BY <1>3, <1>4, <1>10, <2>3 DEF SetInv
<1> QED BY <1>5, <1>7, <1>8, <1>9, <1>10

(* The configuration and the ssl_config have no name in common.            *)
LEMMA NamesApart ==
  /\ "ssl_config" \notin ConfigNames /\ "ssl_config" \notin SslNames
  /\ \A i \in 1 .. 7 : ConfigKeys[i] \notin SslNames /\ ConfigKeys[i] \in ConfigNames
  /\ \A i \in 1 .. 5 : SslKeys[i] \notin ConfigNames /\ SslKeys[i] \in SslNames
<1>1. ConfigNames = {"host", "port", "bind_address", "keepalive", "client_id", "username", "password"}
  BY DEF ConfigNames, ConfigKeys
<1>2. SslNames = {"ca_file", "cert_file", "key_file", "verify_peer", "verify_hostname"}
  BY DEF SslNames, SslKeys
<1>3. ConfigNames \cap SslNames = {}
  BY <1>1, <1>2
<1>4. \A i \in 1 .. 7 : ConfigKeys[i] \in ConfigNames
  BY DEF ConfigNames
<1>5. \A i \in 1 .. 5 : SslKeys[i] \in SslNames
  BY DEF SslNames
<1> QED BY <1>1, <1>2, <1>3, <1>4, <1>5

(* A field of the ssl_config, and the ssl_config of each table.            *)
LEMMA SslFields ==
  /\ \A i \in 1 .. 5 : Field(<<"ssl">>, SslKeys[i]) = <<"ssl", SslKeys[i]>>
  /\ \A t : Field(t, "ssl_config") \in Tables => t = Config /\ Field(t, "ssl_config") = <<"ssl">>
  /\ Field(Config, "ssl_config") = <<"ssl">>
<1>1. ASSUME NEW i \in 1 .. 5 PROVE Field(<<"ssl">>, SslKeys[i]) = <<"ssl", SslKeys[i]>>
  <2>1. SslKeys[i] # "ssl_config"
    BY NamesApart
  <2>2. <<"ssl">> \in Tables /\ <<"ssl">>[1] = "ssl"
    BY DEF Tables
  <2> QED BY <2>1, <2>2, Zenon DEF Field
<1>2. <<"nil">> \notin Tables /\ Config \in Tables
  BY DEF Tables, Config
<1>3. Field(Config, "ssl_config") = <<"ssl">>
  BY <1>2, Zenon DEF Field, Config
<1>4. ASSUME NEW t, Field(t, "ssl_config") \in Tables PROVE t = Config
  BY <1>2, <1>4, Zenon DEF Field, Config
<1> QED BY <1>1, <1>3, <1>4

LEMMA FieldGot ==
  ASSUME TypeOK, GetField, ~Raise, NEW n \in 2 .. 3, NEW k, Op = <<"field", n, k>>, n <= Len(stack)
  PROVE  /\ pc' = pc + 1
         /\ reads' = reads \cup {<<k, Field(stack[n], k)>>}
         /\ \A j \in 1 .. Len(stack) : stack'[j] = stack[j]
         /\ stack'[Len(stack) + 1] = Field(stack[n], k)
<1>1. Op[2] = n /\ Op[3] = k
  OBVIOUS
<1>2. At(n) = stack[n]
  BY DEF At
<1>3. /\ stack' = Append(stack, Field(At(Op[2]), Op[3]))
      /\ reads' = reads \cup {<<Op[3], Field(At(Op[2]), Op[3])>>}
      /\ pc' = pc + 1
  BY Zenon DEF GetField, Continue
<1>4. stack' = Append(stack, Field(stack[n], k)) /\ reads' = reads \cup {<<k, Field(stack[n], k)>>}
  BY <1>1, <1>2, <1>3, Zenon
<1>5. stack \in Seq(StackValues)
  BY DEF TypeOK
<1> HIDE DEF TypeOK
<1>6. /\ \A j \in 1 .. Len(stack) : stack'[j] = stack[j]
      /\ stack'[Len(stack) + 1] = Field(stack[n], k)
  BY <1>4, <1>5, AppendProperties, LenProperties
<1> QED BY <1>3, <1>4, <1>6

LEMMA ConnectStep ==
  ASSUME TypeOK, FrameInv, ConnectInv, Step
  PROVE  ConnectInv'
<1> SUFFICES ASSUME fn' = "connect", Len(given') = 2, outcome' # "raised"
             PROVE  ConnectInv'
  BY DEF ConnectInv
<1>1. outcome = "running" /\ pc <= Len(Body(fn))
  BY DEF Step, Running, Check, ReadValue, GetField, SkipUnlessTable, Push, Pop, CallController
<1>2. ~Raise
  BY DEF Raise
<1>3. UNCHANGED <<fn, given>>
  BY <1>2 DEF Step, Continue, Check, ReadValue, GetField, SkipUnlessTable, Push, Pop, CallController
<1>4. /\ pc <= 18 => stack[2] = given[2]
      /\ pc = 11 => stack[3] = Field(given[2], "ssl_config")
      /\ pc \in 12 .. 17 => given[2] = Config /\ stack[3] = <<"ssl">>
      /\ \A r \in reads : ReadFrom(given[2], r)
      /\ \A i \in 1 .. 7 : pc > i + 1 => <<ConfigKeys[i], Field(given[2], ConfigKeys[i])>> \in reads
      /\ \A i \in 1 .. 5 : given[2] = Config /\ pc > i + 11 => <<SslKeys[i], <<"ssl", SslKeys[i]>>>> \in reads
  BY <1>1, <1>3 DEF ConnectInv
<1>5. pc \in 1 .. 19 /\ Op = CallAt("connect", pc)
  <2>1. Len(Body(fn)) = 19
    BY <1>3, ConnectOthers
  <2>2. pc \in 1 .. Len(Body(fn))
    BY <1>1, OpFits
  <2> QED BY <1>3, <2>1, <2>2 DEF Op, CallAt
<1>6. Len(stack) = 2 + Height("connect")[pc] /\ Len(stack) \in Nat /\ stack \in Seq(StackValues)
  <2>1. Takes(fn) = 2
    BY <1>3 DEF Takes
  <2>2. Len(stack) = Len(given) + Height(fn)[pc]
    BY <1>1, <1>3, <2>1 DEF FrameInv
  <2> QED BY <1>3, <2>2, LenProperties DEF TypeOK
<1>7. CASE pc \in {1, 19}
  <2>1. Op[1] \in {"check", "controller"}
    <3>1. <<"check", 1, "userdata">>[1] = "check" /\ <<"controller">>[1] = "controller"
      OBVIOUS
    <3> QED BY <1>5, <1>7, <3>1, ConnectOthers, Zenon
  <2>2. Check \/ CallController
    BY <2>1, ActionsByName DEF Step
  <2>3. pc' = pc + 1 /\ UNCHANGED <<stack, reads>>
    BY <1>2, <2>2 DEF Check, CallController, Continue
  <2> QED BY <1>3, <1>4, <1>7, <2>3 DEF ConnectInv
<1>8. CASE pc \in {9, 17, 18}
  <2>1. Op[1] = "pop" /\ (pc = 9 => Op[2] = 7) /\ (pc = 17 => Op[2] = 5)
    <3>1. <<"pop", 7>>[1] = "pop" /\ <<"pop", 5>>[1] = "pop" /\ <<"pop", 3>>[1] = "pop"
          /\ <<"pop", 7>>[2] = 7 /\ <<"pop", 5>>[2] = 5
      OBVIOUS
    <3> QED BY <1>5, <1>8, <3>1, ConnectOthers, Zenon
  <2>2. Pop
    BY <2>1, ActionsByName DEF Step
  <2>3. pc' = pc + 1 /\ UNCHANGED reads /\ stack' = SubSeq(stack, 1, Len(stack) - Op[2])
    BY <2>2 DEF Pop, Continue
  <2>4. pc # 18 => stack'[2] = stack[2]
    <3> HIDE DEF TypeOK
    <3>0. \A n \in 2 .. Len(stack) : SubSeq(stack, 1, n)[2] = stack[2]
      BY <1>6, SubSeqProperties
    <3>1. CASE pc = 9
      <4>1. stack' = SubSeq(stack, 1, Len(stack) - 7)
        BY <2>1, <2>3, <3>1
      <4>2. Len(stack) = 9
        BY <1>6, <3>1, ConnectHeight
      <4>3. stack' = SubSeq(stack, 1, 2)
        BY <4>1, <4>2
      <4> QED BY <3>0, <4>2, <4>3
    <3>2. CASE pc = 17
      <4>1. stack' = SubSeq(stack, 1, Len(stack) - 5)
        BY <2>1, <2>3, <3>2
      <4>2. Len(stack) = 8
        BY <1>6, <3>2, ConnectHeight
      <4>3. stack' = SubSeq(stack, 1, 3)
        BY <4>1, <4>2
      <4> QED BY <3>0, <4>2, <4>3
    <3> QED BY <1>8, <3>1, <3>2
  <2>5. pc' \in {10, 18, 19} /\ (pc' <= 18 => stack'[2] = given[2])
    <3>1. pc' = pc + 1
      BY <2>3
    <3>2. pc' \in {10, 18, 19} /\ (pc' <= 18 <=> pc # 18) /\ pc <= 18
      BY <1>8, <3>1
    <3>3. stack[2] = given[2]
      BY <1>4, <3>2
    <3> QED BY <2>4, <3>2, <3>3
  <2>6. /\ \A i \in 1 .. 7 : pc' > i + 1 => pc > i + 1
        /\ \A i \in 1 .. 5 : pc' > i + 11 => pc > i + 11
    BY <1>8, <2>3
  <2>7. /\ \A i \in 1 .. 7 : pc' > i + 1 => <<ConfigKeys[i], Field(given[2], ConfigKeys[i])>> \in reads
        /\ \A i \in 1 .. 5 : given[2] = Config /\ pc' > i + 11 => <<SslKeys[i], <<"ssl", SslKeys[i]>>>> \in reads
    BY <1>4, <2>6, Zenon
  <2>8. ~(pc' = 11) /\ ~(pc' \in 12 .. 17) /\ reads' = reads
    BY <2>3, <2>5
  <2> QED BY <1>3, <1>4, <2>5, <2>7, <2>8, Zenon DEF ConnectInv
<1>9. CASE pc \in 2 .. 8
  <2>1. PICK i \in 1 .. 7 : pc = i + 1
    <3>1. pc - 1 \in 1 .. 7 /\ pc = (pc - 1) + 1
      BY <1>9
    <3> QED BY <3>1
  <2>2. Op = <<"field", 2, ConfigKeys[i]>>
    BY <1>5, <2>1, ConnectFields, Zenon
  <2>3. GetField
    <3>1. Op[1] = "field"
      BY <2>2
    <3> QED BY <3>1, ActionsByName DEF Step
  <2>4. Len(stack) >= 2
    BY <1>6, <2>1, ConnectHeight
  <2> DEFINE k == ConfigKeys[i]
             got == Field(given[2], k)
  <2>5. pc' = pc + 1 /\ reads' = reads \cup {<<k, got>>} /\ stack'[2] = stack[2]
    BY <1>2, <1>4, <1>6, <1>9, <2>2, <2>3, <2>4, FieldGot
  <2>6. ReadFrom(given[2], <<k, got>>)
    <3>1. k \notin SslNames /\ <<k, got>>[1] = k /\ <<k, got>>[2] = got
      BY NamesApart
    <3> QED BY <3>1, Zenon DEF ReadFrom
  <2>7. \A r \in reads' : ReadFrom(given[2], r)
    BY <1>4, <2>5, <2>6, Zenon
  <2>8. \A j \in 1 .. 7 : pc' > j + 1 => <<ConfigKeys[j], Field(given[2], ConfigKeys[j])>> \in reads'
    <3> SUFFICES ASSUME NEW j \in 1 .. 7, pc' > j + 1
                 PROVE  <<ConfigKeys[j], Field(given[2], ConfigKeys[j])>> \in reads'
      OBVIOUS
    <3>1. j = i \/ pc > j + 1
      BY <1>5, <2>1, <2>5
    <3> QED BY <1>4, <2>5, <3>1, Zenon
  <2>9. pc' <= 9
    BY <1>9, <2>5
  <2> HIDE DEF k, got
  <2> QED BY <1>3, <1>4, <1>5, <1>9, <2>5, <2>7, <2>8, <2>9 DEF ConnectInv
<1>10. CASE pc = 10
  <2>1. Op = <<"field", 2, "ssl_config">>
    BY <1>5, <1>10, ConnectOthers, Zenon
  <2>2. GetField
    <3>1. Op[1] = "field"
      BY <2>1
    <3> QED BY <3>1, ActionsByName DEF Step
  <2>3. Len(stack) = 2
    BY <1>6, <1>10, ConnectHeight
  <2> DEFINE got == Field(given[2], "ssl_config")
  <2>4. pc' = 11 /\ reads' = reads \cup {<<"ssl_config", got>>} /\ stack'[2] = stack[2] /\ stack'[3] = got
    <3>1. 2 <= Len(stack) /\ Len(stack) + 1 = 3 /\ pc + 1 = 11 /\ stack[2] = given[2] /\ 2 \in 1 .. Len(stack)
      BY <1>4, <1>10, <2>3
    <3>2. /\ pc' = pc + 1 /\ reads' = reads \cup {<<"ssl_config", Field(stack[2], "ssl_config")>>}
          /\ \A j \in 1 .. Len(stack) : stack'[j] = stack[j]
          /\ stack'[Len(stack) + 1] = Field(stack[2], "ssl_config")
      BY <1>2, <2>1, <2>2, <3>1, FieldGot
    <3> QED BY <3>1, <3>2, Zenon
  <2>5. ReadFrom(given[2], <<"ssl_config", got>>)
    <3>1. <<"ssl_config", got>>[1] = "ssl_config"
      OBVIOUS
    <3> QED BY <3>1, NamesApart, Zenon DEF ReadFrom
  <2>6. \A r \in reads' : ReadFrom(given[2], r)
    BY <1>4, <2>4, <2>5, Zenon
  <2> QED BY <1>3, <1>4, <1>10, <2>4, <2>6 DEF ConnectInv
<1>11. CASE pc = 11
  <2>1. Op = <<"skip unless table", 6>>
    BY <1>5, <1>11, ConnectOthers, Zenon
  <2>2. Op[1] = "skip unless table" /\ Op[2] = 6
    BY <2>1
  <2>3. SkipUnlessTable
    BY <2>2, ActionsByName DEF Step
  <2>4. Len(stack) = 3
    BY <1>6, <1>11, ConnectHeight
  <2>5. At(-1) = Field(given[2], "ssl_config")
    BY <1>4, <1>11, <2>4 DEF At
  <2>6. /\ pc' = IF Field(given[2], "ssl_config") \in Tables THEN 12 ELSE 18
        /\ UNCHANGED <<stack, reads>>
    <3>1. IsOfKind(At(-1), "table") <=> At(-1) \in Tables
      BY DEF IsOfKind
    <3>2. pc' = (IF IsOfKind(At(-1), "table") THEN pc + 1 ELSE pc + 1 + Op[2]) /\ UNCHANGED <<stack, reads>>
      BY <2>3 DEF SkipUnlessTable, Continue
    <3>3. pc + 1 = 12 /\ pc + 1 + Op[2] = 18
      <4>1. Op[2] = 6
        BY <2>2
      <4>2. pc + 1 + 6 = 18
        BY <1>11
      <4> QED BY <1>11, <4>1, <4>2
    <3> QED BY <2>5, <3>1, <3>2, <3>3, Zenon
  <2>7. CASE pc' = 12
    <3>1. Field(given[2], "ssl_config") \in Tables
      BY <2>6, <2>7
    <3>2. given[2] = Config /\ stack'[3] = <<"ssl">>
      BY <1>4, <1>11, <2>6, <3>1, SslFields
    <3> QED BY <1>3, <1>4, <1>11, <2>6, <2>7, <3>2 DEF ConnectInv
  <2>8. CASE pc' = 18
    <3>1. given[2] # Config
      <4>1. Field(given[2], "ssl_config") \notin Tables
        BY <2>6, <2>8
      <4>2. <<"ssl">> \in Tables
        BY DEF Tables
      <4> QED BY <4>1, <4>2, SslFields, Zenon
    <3> QED BY <1>3, <1>4, <1>11, <2>6, <2>8, <3>1 DEF ConnectInv
  <2> QED BY <2>6, <2>7, <2>8
<1>12. CASE pc \in 12 .. 16
  <2>1. PICK i \in 1 .. 5 : pc = i + 11
    <3>1. pc - 11 \in 1 .. 5 /\ pc = (pc - 11) + 11
      BY <1>12
    <3> QED BY <3>1
  <2>2. Op = <<"field", 3, SslKeys[i]>>
    BY <1>5, <2>1, ConnectFields, Zenon
  <2>3. GetField
    <3>1. Op[1] = "field"
      BY <2>2
    <3> QED BY <3>1, ActionsByName DEF Step
  <2>4. Len(stack) >= 3
    <3>1. Height("connect")[pc] = i
      BY <2>1, ConnectHeight
    <3> QED BY <1>6, <3>1
  <2> DEFINE k == SslKeys[i]
             got == <<"ssl", k>>
  <2>5. given[2] = Config /\ stack[3] = <<"ssl">>
    BY <1>4, <1>12
  <2>6. Field(stack[3], k) = got
    BY <2>5, SslFields, Zenon
  <2>7. /\ pc' = pc + 1 /\ reads' = reads \cup {<<k, Field(stack[3], k)>>}
        /\ stack'[2] = stack[2] /\ stack'[3] = stack[3]
    BY <1>2, <1>6, <2>2, <2>3, <2>4, FieldGot
  <2>8. reads' = reads \cup {<<k, got>>}
    BY <2>6, <2>7, Zenon
  <2>9. ReadFrom(given[2], <<k, got>>)
    <3>1. k \notin ConfigNames /\ <<k, got>>[1] = k /\ <<k, got>>[2] = got
      BY NamesApart
    <3> QED BY <2>5, <3>1, Zenon DEF ReadFrom
  <2>10. \A r \in reads' : ReadFrom(given[2], r)
    BY <1>4, <2>8, <2>9, Zenon
  <2>11. \A j \in 1 .. 5 : pc' > j + 11 => <<SslKeys[j], <<"ssl", SslKeys[j]>>>> \in reads'
    <3> SUFFICES ASSUME NEW j \in 1 .. 5, pc' > j + 11
                 PROVE  <<SslKeys[j], <<"ssl", SslKeys[j]>>>> \in reads'
      OBVIOUS
    <3>1. j = i \/ pc > j + 11
      BY <1>5, <2>1, <2>7
    <3> QED BY <1>4, <2>5, <2>8, <3>1, Zenon
  <2>12. pc' \in 13 .. 17
    BY <1>12, <2>7
  <2>13. \A j \in 1 .. 7 : pc' > j + 1 => <<ConfigKeys[j], Field(given[2], ConfigKeys[j])>> \in reads'
    <3> SUFFICES ASSUME NEW j \in 1 .. 7
                 PROVE  <<ConfigKeys[j], Field(given[2], ConfigKeys[j])>> \in reads'
      OBVIOUS
    <3>1. pc > j + 1
      BY <1>12
    <3> QED BY <1>4, <2>8, <3>1, Zenon
  <2> HIDE DEF k, got
  <2> QED BY <1>3, <1>4, <1>12, <2>5, <2>7, <2>10, <2>11, <2>12, <2>13 DEF ConnectInv
<1>13. pc \in {1, 19} \/ pc \in {9, 17, 18} \/ pc \in 2 .. 8 \/ pc = 10 \/ pc = 11 \/ pc \in 12 .. 16
  BY <1>5
<1> QED BY <1>7, <1>8, <1>9, <1>10, <1>11, <1>12, <1>13

-----------------------------------------------------------------------------
BindingInv == TypeOK /\ FrameInv /\ SetInv /\ ConnectInv

LEMMA BindingInit == Init => BindingInv
BY FrameInit DEF Init, BindingInv, SetInv, ConnectInv

LEMMA BindingStep == BindingInv /\ [Next]_vars => BindingInv'
<1> SUFFICES ASSUME BindingInv, [Next]_vars PROVE BindingInv'
  OBVIOUS
<1>1. ASSUME NEW f \in Documented, NEW args \in Arguments, Call(f, args) PROVE BindingInv'
  BY <1>1, CallKeepsFrame, CallStartsReading, Zenon DEF BindingInv
<1>2. CASE Step
  BY <1>2, StepKeepsFrame, SetStep, ConnectStep, Zenon DEF BindingInv, Step
<1>3. CASE Return
  <2>1. fn \in Bound /\ Len(Body(fn)) \in Nat /\ pc \in 1 .. Len(Body(fn)) + 1
    BY <1>3, Ends DEF BindingInv, FrameInv, TypeOK, Return, Bound
  <2>2. pc = Len(Body(fn)) + 1
    BY <1>3, <2>1 DEF Return
  <2>3. TypeOK' /\ FrameInv'
    BY <1>3, <2>2 DEF BindingInv, TypeOK, FrameInv, Return
  <2> QED BY <1>3, <2>3, ReturnKeepsReading DEF BindingInv
<1>4. CASE UNCHANGED vars
  BY <1>4 DEF vars, BindingInv, TypeOK, FrameInv, SetInv, ConnectInv
<1> QED BY <1>1, <1>2, <1>3, <1>4, Zenon DEF Next, Step

LEMMA BindingAlways == Spec => []BindingInv
BY BindingInit, BindingStep, PTL DEF Spec

(* The binding's variables keep their types: whatever arguments a script   *)
(* passes, no call of the Lua API puts anything on the frame or reads      *)
(* anything that is not a value, and none is made outside a body.          *)
THEOREM BindingTypes == Spec => []TypeOK
<1>1. BindingInv => TypeOK
  BY DEF BindingInv
<1> QED BY <1>1, BindingAlways, PTL

(* STACK_START and STACK_END never find a function out of balance that was *)
(* called with the arguments it takes or more.                             *)
THEOREM BindingBalanced == Spec => []Balanced
<1>1. BindingInv => Balanced
  <2> SUFFICES ASSUME BindingInv, Len(given) >= Takes(fn)
               PROVE  ~below /\ (outcome = "returned" => Len(stack) = Len(given) - Takes(fn) + Leaves(fn))
    BY DEF Balanced
  <2>1. ~below
    BY DEF BindingInv, FrameInv
  <2>2. ASSUME outcome = "returned"
        PROVE  Len(stack) = Len(given) - Takes(fn) + Leaves(fn)
    <3>1. fn \in Bound /\ Len(stack) = Len(given) + Height(fn)[Len(Body(fn)) + 1]
      BY <2>2 DEF BindingInv, FrameInv
    <3>2. Height(fn)[Len(Body(fn)) + 1] = Leaves(fn) - Takes(fn) /\ Takes(fn) \in Nat /\ Leaves(fn) \in Nat
      BY <3>1, Ends
    <3>3. Len(given) \in Nat
      BY LenProperties DEF BindingInv, TypeOK
    <3> QED BY <3>1, <3>2, <3>3
  <2> QED BY <2>1, <2>2
<1> QED BY <1>1, BindingAlways, PTL

LEMMA SetReads ==
  ASSUME BindingInv, outcome = "returned", fn \in {"telemetry", "set_attribute"}, Len(given) = 3
  PROVE  Got("key") = {given[2]} /\ Got("value") = {given[3]}
<1>1. pc = 7
  <2>1. pc = Len(Body(fn)) + 1
    BY DEF BindingInv, FrameInv
  <2>2. Len(Body(fn)) = 6
    BY SetCallsListed, Zenon
  <2> QED BY <2>1, <2>2
<1>2. /\ reads \subseteq {<<"key", given[2]>>, <<"value", given[3]>>}
      /\ <<"key", given[2]>> \in reads /\ <<"value", given[3]>> \in reads
  BY <1>1 DEF BindingInv, SetInv
<1>3. reads = {<<"key", given[2]>>, <<"value", given[3]>>}
  BY <1>2, Zenon
<1>4. /\ <<"key", given[2]>>[1] = "key" /\ <<"key", given[2]>>[2] = given[2]
      /\ <<"value", given[3]>>[1] = "value" /\ <<"value", given[3]>>[2] = given[3]
      /\ "key" # "value"
  OBVIOUS
<1> QED BY <1>3, <1>4, Zenon DEF Got

LEMMA ConnectReads ==
  ASSUME BindingInv, outcome = "returned", fn = "connect", Len(given) = 2
  PROVE  /\ \A i \in 1 .. 7 : Got(ConfigKeys[i]) = {Field(given[2], ConfigKeys[i])}
         /\ \A i \in 1 .. 5 :
              Got(SslKeys[i]) = IF given[2] = <<"config">> THEN {<<"ssl", SslKeys[i]>>} ELSE {}
<1>1. pc = 20
  <2>1. pc = Len(Body(fn)) + 1
    BY DEF BindingInv, FrameInv
  <2>2. Len(Body(fn)) = 19
    BY ConnectOthers, Zenon
  <2>3. 19 + 1 = 20
    OBVIOUS
  <2> QED BY <2>1, <2>2, <2>3, Zenon
<1>2. /\ \A r \in reads : ReadFrom(given[2], r)
      /\ \A i \in 1 .. 7 : <<ConfigKeys[i], Field(given[2], ConfigKeys[i])>> \in reads
      /\ \A i \in 1 .. 5 : given[2] = Config => <<SslKeys[i], <<"ssl", SslKeys[i]>>>> \in reads
  BY <1>1 DEF BindingInv, ConnectInv
<1>3. ASSUME NEW i \in 1 .. 7 PROVE Got(ConfigKeys[i]) = {Field(given[2], ConfigKeys[i])}
  <2> DEFINE k == ConfigKeys[i]
  <2>1. \A r \in reads : r[1] = k => r[2] = Field(given[2], k)
    BY <1>2, NamesApart, Zenon DEF ReadFrom
  <2>2. <<k, Field(given[2], k)>> \in reads
    BY <1>2
  <2>3. <<k, Field(given[2], k)>>[1] = k /\ <<k, Field(given[2], k)>>[2] = Field(given[2], k)
    OBVIOUS
  <2> HIDE DEF k
  <2>4. Got(k) = {Field(given[2], k)}
    BY <2>1, <2>2, <2>3, Zenon DEF Got
  <2> QED BY <2>4 DEF k
<1>4. ASSUME NEW i \in 1 .. 5
      PROVE  Got(SslKeys[i]) = IF given[2] = <<"config">> THEN {<<"ssl", SslKeys[i]>>} ELSE {}
  <2> DEFINE k == SslKeys[i]
  <2>1. \A r \in reads : r[1] = k => given[2] = Config /\ r[2] = <<"ssl", k>>
    BY <1>2, NamesApart, Zenon DEF ReadFrom
  <2>2. given[2] = Config => <<k, <<"ssl", k>>>> \in reads
    BY <1>2
  <2>3. <<k, <<"ssl", k>>>>[1] = k /\ <<k, <<"ssl", k>>>>[2] = <<"ssl", k>>
    OBVIOUS
  <2> HIDE DEF k
  <2>4. CASE given[2] = Config
    <3>1. Got(k) = {<<"ssl", k>>}
      BY <2>1, <2>2, <2>3, <2>4, Zenon DEF Got
    <3> QED BY <2>4, <3>1 DEF k, Config
  <2>5. CASE given[2] # Config
    <3>1. Got(k) = {}
      BY <2>1, <2>5, Zenon DEF Got
    <3> QED BY <2>5, <3>1 DEF k, Config
  <2> QED BY <2>4, <2>5
<1> QED BY <1>3, <1>4

(* With the arguments they take, connect() has read every field from the   *)
(* configuration or its ssl_config, and telemetry() its key and value from *)
(* its arguments, although each pops and pushes in between.                *)
THEOREM BindingReadsItsArguments == Spec => []ReadsItsArguments
<1>1. BindingInv => ReadsItsArguments
  <2> SUFFICES ASSUME BindingInv, outcome = "returned", Len(given) = Takes(fn)
               PROVE  /\ fn = "connect" =>
                           /\ \A i \in DOMAIN ConfigKeys : Got(ConfigKeys[i]) = {Field(given[2], ConfigKeys[i])}
                           /\ \A i \in DOMAIN SslKeys :
                                Got(SslKeys[i]) = IF given[2] = <<"config">> THEN {<<"ssl", SslKeys[i]>>} ELSE {}
                      /\ fn \in {"telemetry", "set_attribute"} =>
                           Got("key") = {given[2]} /\ Got("value") = {given[3]}
    BY DEF ReadsItsArguments
  <2>1. DOMAIN ConfigKeys = 1 .. 7 /\ DOMAIN SslKeys = 1 .. 5
    BY DEF ConfigKeys, SslKeys
  <2>2. fn = "connect" => Len(given) = 2
    BY DEF Takes
  <2>3. fn \in {"telemetry", "set_attribute"} => Len(given) = 3
    BY DEF Takes
  <2> QED BY <2>1, <2>2, <2>3, SetReads, ConnectReads, Zenon
<1> QED BY <1>1, BindingAlways, PTL

-----------------------------------------------------------------------------
(* The values of LuaJson are tuples.                                       *)
LEMMA Pairs ==
  /\ \A a : Type(<<a>>) = a
  /\ \A a, b : Type(<<a, b>>) = a /\ Data(<<a, b>>) = b
  /\ \A a, b : Key(<<a, b>>) = a /\ Value(<<a, b>>) = b
BY DEF Type, Data, Key, Value

LEMMA LuaScalarCases ==
  ASSUME NEW v \in LuaScalars
  PROVE  \/ v \in {Nil, <<"function">>} /\ Type(v) \in {"nil", "function"}
         \/ v = NaN /\ Type(v) = "nan"
         \/ v = <<"infinity">> /\ Type(v) = "infinity"
         \/ Type(v) = "boolean" /\ Data(v) \in BOOLEAN /\ v = <<"boolean", Data(v)>>
         \/ Type(v) = "number" /\ Data(v) \in Int /\ v = <<"number", Data(v)>>
         \/ Type(v) = "string" /\ Data(v) \in Strings /\ v = <<"string", Data(v)>>
BY DEF LuaScalars, Type, Data, Nil, NaN

LEMMA JsonScalarCases ==
  ASSUME NEW j \in JsonScalars
  PROVE  \/ j = Null /\ Type(j) = "null"
         \/ Type(j) = "boolean" /\ Data(j) \in BOOLEAN /\ j = <<"boolean", Data(j)>>
         \/ Type(j) = "integer" /\ Data(j) \in Int /\ j = <<"integer", Data(j)>>
         \/ Type(j) = "float" /\ Data(j) \in Int /\ j = <<"float", Data(j)>>
         \/ Type(j) = "string" /\ Data(j) \in Strings /\ j = <<"string", Data(j)>>
BY DEF JsonScalars, Type, Data, Null

LEMMA ScalarsMade ==
  /\ \A b \in BOOLEAN : <<"boolean", b>> \in JsonScalars /\ <<"boolean", b>> \in LuaScalars
  /\ \A n \in Int : /\ <<"integer", n>> \in JsonScalars /\ <<"float", n>> \in JsonScalars
                    /\ <<"number", n>> \in LuaScalars
  /\ \A s \in Strings : <<"string", s>> \in JsonScalars /\ <<"string", s>> \in LuaScalars
  /\ Null \in JsonScalars /\ Nil \in LuaScalars /\ NaN \in LuaScalars
BY DEF JsonScalars, LuaScalars

LEMMA CutType == \A s \in Strings : Cut[s] \in Strings
BY LuaJsonAssumption

LEMMA ScalarToJsonType ==
  ASSUME NEW v \in LuaScalars, NEW u \in Int
  PROVE  ScalarToJson(v, u) \in JsonScalars \cup {NaN}
<1>1. CASE Type(v) \in {"nil", "function"}
  BY <1>1, ScalarsMade DEF ScalarToJson
<1>2. CASE v = NaN /\ Type(v) = "nan"
  BY <1>2 DEF ScalarToJson
<1>3. CASE Type(v) = "infinity"
  BY <1>3, ScalarsMade DEF ScalarToJson
<1>4. CASE Type(v) = "boolean" /\ Data(v) \in BOOLEAN /\ v = <<"boolean", Data(v)>>
  <2>1. ScalarToJson(v, u) = <<"integer", IF Data(v) THEN 1 ELSE 0>>
    BY <1>4 DEF ScalarToJson
  <2>2. (IF Data(v) THEN 1 ELSE 0) \in Int
    OBVIOUS
  <2> QED BY <2>1, <2>2, ScalarsMade, Zenon
<1>5. CASE Type(v) = "number" /\ Data(v) \in Int
  <2>1. ScalarToJson(v, u) = IF IsWhole(Data(v)) THEN <<"integer", Data(v) \div 4>> ELSE <<"float", Data(v)>>
    BY <1>5 DEF ScalarToJson
  <2>2. Data(v) \div 4 \in Int
    BY <1>5
  <2> QED BY <1>5, <2>1, <2>2, ScalarsMade, Zenon
<1>6. CASE Type(v) = "string" /\ Data(v) \in Strings
  <2>1. ScalarToJson(v, u) = <<"string", Cut[Data(v)]>>
    BY <1>6 DEF ScalarToJson
  <2> QED BY <1>6, <2>1, ScalarsMade, CutType, Zenon
<1> QED BY <1>1, <1>2, <1>3, <1>4, <1>5, <1>6, LuaScalarCases, Zenon

LEMMA DumpedType ==
  ASSUME NEW x \in JsonScalars \cup {NaN}
  PROVE  Dumped(x) \in JsonScalars
BY ScalarsMade DEF Dumped

LEMMA ScalarToLuaType ==
  ASSUME NEW j \in JsonScalars \cup {Discarded}
  PROVE  ElementToLua(j) \in LuaScalars
<1>1. CASE j \in {Null, Discarded}
  <2>1. ~IsContainer(j) /\ Type(j) \in {"null", "discarded"}
    BY <1>1, Pairs DEF IsContainer, Null, Discarded
  <2>2. ElementToLua(j) = Nil
    BY <1>1, <2>1 DEF ElementToLua
  <2> QED BY <2>2, ScalarsMade, Zenon
<1>2. CASE j \in JsonScalars /\ j \notin {Null, Discarded}
  <2>0. Type(j) \notin {"array", "object"} => ~IsContainer(j)
    BY DEF IsContainer
  <2>1. CASE Type(j) = "boolean" /\ Data(j) \in BOOLEAN /\ j = <<"boolean", Data(j)>>
    <3>1. ElementToLua(j) = j
      BY <1>2, <2>0, <2>1 DEF ElementToLua
    <3> QED BY <2>1, <3>1, ScalarsMade, Zenon
  <2>2. CASE Type(j) = "integer" /\ Data(j) \in Int
    <3>1. ElementToLua(j) = <<"number", 4 * Integer(Data(j))>>
      BY <1>2, <2>0, <2>2 DEF ElementToLua
    <3>2. 4 * Integer(Data(j)) \in Int
      BY <2>2, LuaJsonAssumption DEF Integer, Signed, Unsigned
    <3> QED BY <3>1, <3>2, ScalarsMade, Zenon
  <2>3. CASE Type(j) = "float" /\ Data(j) \in Int
    <3>1. ElementToLua(j) = <<"number", Float(Data(j))>>
      BY <1>2, <2>0, <2>3 DEF ElementToLua
    <3>2. Float(Data(j)) \in Int
      BY <2>3 DEF Float
    <3> QED BY <3>1, <3>2, ScalarsMade, Zenon
  <2>4. CASE Type(j) = "string" /\ Data(j) \in Strings
    <3>1. ElementToLua(j) = <<"string", Cut[Data(j)]>>
      BY <1>2, <2>0, <2>4 DEF ElementToLua
    <3> QED BY <2>4, <3>1, ScalarsMade, CutType, Zenon
  <2> QED BY <1>2, <2>1, <2>2, <2>3, <2>4, JsonScalarCases, Zenon
<1> QED BY <1>1, <1>2

LEMMA ElementToLuaType ==
  ASSUME NEW j \in JsonScalars \cup InnerContainers \cup {Discarded}
  PROVE  ElementToLua(j) \in LuaScalars \cup {InnerTable}
<1>1. CASE j \in InnerContainers
  <2>1. IsContainer(j) /\ Type(j) \in {"array", "object"}
    BY <1>1, Pairs DEF InnerContainers, IsContainer
  <2>2. j \notin {Null, Discarded}
    BY <1>1 DEF InnerContainers, Null, Discarded
  <2> QED BY <2>1, <2>2 DEF ElementToLua
<1> QED BY <1>1, ScalarToLuaType

LEMMA LuaValueCases ==
  ASSUME NEW v \in LuaValues
  PROVE  \/ v \in LuaScalars /\ Type(v) # "table"
         \/ Type(v) = "table" /\ Data(v) \in LuaTables /\ v = <<"table", Data(v)>>
<1>1. CASE v \in LuaScalars
  <2> Type(v) # "table"
    BY <1>1, LuaScalarCases
  <2> QED BY <1>1
<1>2. CASE v \in {"table"} \X LuaTables
  BY <1>2 DEF Type, Data
<1> QED BY <1>1, <1>2 DEF LuaValues

LEMMA EntryType ==
  ASSUME NEW entries \in LuaTables
  PROVE  /\ entries \in Seq(LuaEntries)
         /\ DOMAIN entries = 1 .. Len(entries) /\ Len(entries) \in Nat
         /\ \A i \in DOMAIN entries : /\ Key(entries[i]) \in LuaScalars
                                      /\ Value(entries[i]) \in (LuaScalars \ {Nil}) \cup {InnerTable}
                                      /\ entries[i] = <<Key(entries[i]), Value(entries[i])>>
<1>1. entries \in Seq(LuaEntries)
  BY DEF LuaTables
<1>2. DOMAIN entries = 1 .. Len(entries) /\ Len(entries) \in Nat
  BY <1>1
<1>3. \A i \in DOMAIN entries : entries[i] \in LuaEntries
  BY <1>1
<1>4. \A e \in LuaEntries :
        /\ Key(e) \in LuaScalars /\ Value(e) \in (LuaScalars \ {Nil}) \cup {InnerTable}
        /\ e = <<Key(e), Value(e)>>
  BY DEF LuaEntries, Key, Value
<1> QED BY <1>1, <1>2, <1>3, <1>4

(* The last of some of the first n positions.                              *)
LEMMA LastExists ==
  ASSUME NEW n \in Nat, NEW S \in SUBSET (1 .. n), S # {}
  PROVE  \E i \in S : \A j \in S : j <= i
<1> DEFINE left == {n - i : i \in S}
<1>0. \A i \in S : i \in Int /\ 1 <= i /\ i <= n
  OBVIOUS
<1>1. left \subseteq Nat /\ left # {}
  <2>1. left \subseteq Nat
    BY <1>0
  <2>2. left # {}
    OBVIOUS
  <2> QED BY <2>1, <2>2
<1>2. PICK d \in left : \A e \in left : ~(<<e, d>> \in OpToRel(<, Nat))
  BY <1>1, NatLessThanWellFounded, WFMin
<1>3. PICK i \in S : d = n - i
  BY <1>2
<1> HIDE DEF left
<1>4. ASSUME NEW j \in S  PROVE j <= i
  <2>1. n - j \in left /\ n - j \in Nat /\ d \in Nat
    BY <1>0, <1>1, <1>2 DEF left
  <2>2. ~(n - j < d)
    BY <1>2, <2>1 DEF OpToRel
  <2> QED BY <1>0, <1>3, <2>2
<1> QED BY <1>4

LEMMA LastWithType ==
  ASSUME NEW entries \in LuaTables, NEW s, \E i \in DOMAIN entries : CutKey(entries[i]) = s
  PROVE  /\ LastWith(entries, s) \in DOMAIN entries
         /\ CutKey(entries[LastWith(entries, s)]) = s
<1> DEFINE with == {i \in DOMAIN entries : CutKey(entries[i]) = s}
<1>1. DOMAIN entries = 1 .. Len(entries) /\ Len(entries) \in Nat
  BY EntryType
<1>2. \E i \in with : \A j \in with : j <= i
  BY <1>1, LastExists
<1>3. \E i \in DOMAIN entries : /\ CutKey(entries[i]) = s
                                /\ \A j \in DOMAIN entries : CutKey(entries[j]) = s => j <= i
  BY <1>2
<1> QED BY <1>3 DEF LastWith

(* The keys of a table that is converted to an object are strings.         *)
LEMMA CutKeyType ==
  ASSUME NEW entries \in LuaTables, ~NotConverted(entries), ~IsArray(entries),
         NEW i \in DOMAIN entries
  PROVE  CutKey(entries[i]) \in Strings
<1>1. Key(entries[i]) \in LuaScalars /\ Type(Key(entries[i])) = "string"
  BY EntryType DEF NotConverted
<1>2. Data(Key(entries[i])) \in Strings
  BY <1>1, LuaScalarCases
<1> QED BY <1>2, CutType DEF CutKey

LEMMA TableToJsonType ==
  ASSUME NEW entries \in LuaTables, NEW u \in Int
  PROVE  TableToJson(entries, u) = Raises \/ IsContainerOf(TableToJson(entries, u), JsonScalars \cup {NaN})
<1>0. /\ DOMAIN entries = 1 .. Len(entries) /\ Len(entries) \in Nat
      /\ \A i \in DOMAIN entries : Value(entries[i]) \in LuaScalars \cup {InnerTable}
  BY EntryType
<1>1. CASE NotConverted(entries)
  BY <1>1 DEF TableToJson
<1> DEFINE scalar(i) == ScalarToJson(Value(entries[i]), u)
<1>2. ASSUME ~NotConverted(entries), NEW i \in DOMAIN entries
      PROVE  scalar(i) \in JsonScalars \cup {NaN}
  <2>1. Value(entries[i]) \in LuaScalars
    BY <1>0, <1>2 DEF NotConverted
  <2> QED BY <2>1, ScalarToJsonType
<1>3. CASE ~NotConverted(entries) /\ IsArray(entries)
  <2> DEFINE list == [i \in DOMAIN entries |-> scalar(i)]
  <2>1. list \in Seq(JsonScalars \cup {NaN})
    <3>1. list \in [1 .. Len(entries) -> JsonScalars \cup {NaN}]
      BY <1>0, <1>2, <1>3
    <3> HIDE DEF list
    <3> QED BY <1>0, <3>1
  <2>2. TableToJson(entries, u) = <<"array", list>>
    BY <1>3 DEF TableToJson
  <2> HIDE DEF list
  <2> QED BY <2>1, <2>2, Pairs DEF IsContainerOf
<1>4. CASE ~NotConverted(entries) /\ ~IsArray(entries)
  <2> DEFINE keys == {CutKey(entries[i]) : i \in DOMAIN entries}
             cut  == [i \in DOMAIN entries |-> CutKey(entries[i])]
             map  == [s \in keys |-> scalar(LastWith(entries, s))]
  <2>1. keys \subseteq Strings
    BY <1>4, CutKeyType
  <2>2. IsFiniteSet(keys)
    <3>1. cut \in Surjection(DOMAIN entries, keys)
      BY DEF Surjection
    <3>2. IsFiniteSet(DOMAIN entries)
      BY <1>0, FS_Interval
    <3> HIDE DEF cut, keys
    <3> QED BY <3>1, <3>2, FS_Surjection
  <2>3. \A s \in keys : LastWith(entries, s) \in DOMAIN entries
    BY LastWithType
  <2>4. map \in [keys -> JsonScalars \cup {NaN}]
    <3> HIDE DEF scalar, keys
    <3> QED BY <1>2, <1>4, <2>3
  <2>5. TableToJson(entries, u) = <<"object", map>>
    BY <1>4 DEF TableToJson
  <2> HIDE DEF map, keys
  <2>6. IsObject(map, JsonScalars \cup {NaN})
    BY <2>1, <2>2, <2>4 DEF IsObject
  <2> QED BY <2>5, <2>6, Pairs DEF IsContainerOf
<1> QED BY <1>1, <1>3, <1>4

LEMMA LuaToJsonType ==
  ASSUME NEW v \in LuaValues, NEW u \in Int
  PROVE  \/ LuaToJson(v, u) = Raises
         \/ LuaToJson(v, u) \in JsonScalars \cup {NaN}
         \/ IsContainerOf(LuaToJson(v, u), JsonScalars \cup {NaN})
<1>1. CASE v \in LuaScalars /\ Type(v) # "table"
  BY <1>1, ScalarToJsonType DEF LuaToJson
<1>2. CASE Type(v) = "table" /\ Data(v) \in LuaTables
  BY <1>2, TableToJsonType DEF LuaToJson
<1> QED BY <1>1, <1>2, LuaValueCases

LEMMA RaisesIsNoValue ==
  /\ Type(Raises) = "raises" /\ Type(NaN) = "nan" /\ Type(None) = "none" /\ Type(Nil) = "nil"
  /\ Type(Null) = "null" /\ Type(Discarded) = "discarded"
BY DEF Type, Raises, NaN, None, Nil, Null, Discarded

LEMMA ValueIsNotNone ==
  ASSUME NEW v \in LuaValues, NEW u \in Int
  PROVE  LuaToJson(v, u) # None
<1>1. ASSUME NEW j \in JsonScalars \cup {NaN}  PROVE j # None
  BY JsonScalarCases, RaisesIsNoValue
<1>2. ASSUME NEW j, IsContainerOf(j, JsonScalars \cup {NaN})  PROVE j # None
  BY <1>2, RaisesIsNoValue DEF IsContainerOf
<1>3. Raises # None
  BY DEF Raises, None
<1> QED BY <1>1, <1>2, <1>3, LuaToJsonType

LEMMA DumpType ==
  ASSUME NEW j, \/ j = Raises
                \/ j \in JsonScalars \cup {NaN}
                \/ IsContainerOf(j, JsonScalars \cup {NaN})
  PROVE  Dump(j) = Raises \/ IsFlatJson(Dump(j))
<1>1. CASE j = Raises \/ HasBadString(j)
  BY <1>1 DEF Dump
<1> DEFINE dumped == [i \in DOMAIN Data(j) |-> Dumped(Data(j)[i])]
<1>2. CASE j # Raises /\ ~HasBadString(j) /\ j \in JsonScalars \cup {NaN}
  <2>1. Type(j) \notin {"array", "object"}
    BY <1>2, JsonScalarCases, RaisesIsNoValue
  <2>2. Dump(j) = Dumped(j)
    BY <1>2, <2>1 DEF Dump, IsContainer
  <2> QED BY <1>2, <2>2, DumpedType DEF IsFlatJson
<1>3. CASE j # Raises /\ ~HasBadString(j) /\ IsContainerOf(j, JsonScalars \cup {NaN})
  <2>1. Dump(j) = <<Type(j), dumped>>
    BY <1>3 DEF Dump, IsContainer, IsContainerOf
  <2>2. CASE Type(j) = "array" /\ Data(j) \in Seq(JsonScalars \cup {NaN})
    <3>1. \A i \in DOMAIN Data(j) : Data(j)[i] \in JsonScalars \cup {NaN}
      BY <2>2
    <3>2. DOMAIN Data(j) = 1 .. Len(Data(j)) /\ Len(Data(j)) \in Nat
      BY <2>2
    <3>3. dumped \in [1 .. Len(Data(j)) -> JsonScalars]
      BY <3>1, <3>2, DumpedType
    <3> HIDE DEF dumped
    <3>4. dumped \in Seq(JsonScalars)
      BY <3>2, <3>3
    <3> QED BY <2>1, <2>2, <3>4, Pairs DEF IsFlatJson, IsContainerOf
  <2>3. CASE Type(j) = "object" /\ IsObject(Data(j), JsonScalars \cup {NaN})
    <3>1. dumped \in [DOMAIN Data(j) -> JsonScalars]
      BY <2>3, DumpedType DEF IsObject
    <3>2. DOMAIN dumped = DOMAIN Data(j)
      OBVIOUS
    <3> HIDE DEF dumped
    <3>3. IsObject(dumped, JsonScalars)
      BY <2>3, <3>1, <3>2 DEF IsObject
    <3> QED BY <2>1, <2>3, <3>3, Pairs DEF IsFlatJson, IsContainerOf
  <2> QED BY <1>3, <2>2, <2>3 DEF IsContainerOf
<1> QED BY <1>1, <1>2, <1>3

LEMMA FlatIsJson == \A j : IsFlatJson(j) => IsJson(j)
<1>1. JsonScalars \subseteq JsonScalars \cup InnerContainers
  OBVIOUS
<1>2. \A f : IsObject(f, JsonScalars) => IsObject(f, JsonScalars \cup InnerContainers)
  BY DEF IsObject
<1>3. \A s \in Seq(JsonScalars) : s \in Seq(JsonScalars \cup InnerContainers)
  <2> TAKE s \in Seq(JsonScalars)
  <2>1. s \in [1 .. Len(s) -> JsonScalars] /\ Len(s) \in Nat
    OBVIOUS
  <2>2. s \in [1 .. Len(s) -> JsonScalars \cup InnerContainers]
    BY <2>1
  <2> QED BY <2>1, <2>2
<1> QED BY <1>2, <1>3 DEF IsFlatJson, IsJson, IsContainerOf

(* A listing of entries with different keys is a table.                    *)
LEMMA ListingsType ==
  ASSUME NEW S, S \subseteq LuaEntries, IsFiniteSet(S),
         \A a, b \in S : Key(a) = Key(b) => a = b
  PROVE  Listings(S) \subseteq LuaTables
<1> SUFFICES ASSUME NEW t \in Listings(S)  PROVE t \in LuaTables
  OBVIOUS
<1>1. Cardinality(S) \in Nat
  BY FS_CardinalityType
<1>2. t \in [1 .. Cardinality(S) -> S] /\ \A i, j \in DOMAIN t : t[i] = t[j] => i = j
  BY DEF Listings, Bijection, Injection, IsInjective
<1>3. t \in Seq(LuaEntries)
  <2>1. t \in [1 .. Cardinality(S) -> LuaEntries]
    BY <1>2
  <2> QED BY <1>1, <2>1
<1>4. \A i \in DOMAIN t : t[i] \in S
  BY <1>2
<1>5. \A i, j \in DOMAIN t : Key(t[i]) = Key(t[j]) => i = j
  BY <1>2, <1>4
<1> QED BY <1>3, <1>5 DEF LuaTables

LEMMA PositionType ==
  /\ \A i \in Nat : Position(i) \in LuaScalars \ {Nil, NaN}
  /\ \A i, j \in Nat : Position(i) = Position(j) => i = j
<1>1. \A i \in Nat : 4 * i \in Int /\ Data(Position(i)) = 4 * i
  BY Pairs DEF Position
<1>2. \A i \in Nat : Position(i) \in LuaScalars \ {Nil, NaN}
  <2> TAKE i \in Nat
  <2>1. Type(Position(i)) = "number"
    BY Pairs DEF Position
  <2>2. Position(i) # Nil /\ Position(i) # NaN
    BY <2>1, RaisesIsNoValue
  <2>3. Position(i) \in LuaScalars
    BY <1>1, ScalarsMade DEF Position
  <2> QED BY <2>2, <2>3
<1>3. ASSUME NEW i \in Nat, NEW j \in Nat, Position(i) = Position(j)  PROVE i = j
  BY <1>1, <1>3
<1> QED BY <1>2, <1>3

LEMMA ArrayTablesType ==
  ASSUME NEW s \in Seq(JsonScalars \cup InnerContainers)
  PROVE  ArrayTables(s) \subseteq LuaTables
<1> DEFINE entry(i) == <<Position(i), ElementToLua(s[i])>>
           filled   == {i \in DOMAIN s : ElementToLua(s[i]) # Nil}
           entries  == {entry(i) : i \in filled}
           listed   == [i \in DOMAIN s |-> entry(i)]
           numbered == [i \in filled |-> entry(i)]
<1>1. DOMAIN s = 1 .. Len(s) /\ Len(s) \in Nat
  OBVIOUS
<1>2. \A i \in filled : entry(i) \in LuaEntries
  BY <1>1, PositionType, ElementToLuaType DEF LuaEntries
<1>3. \A i, j \in DOMAIN s : Key(entry(i)) = Key(entry(j)) => i = j
  BY <1>1, PositionType, Pairs
<1>4. ASSUME filled = DOMAIN s  PROVE listed \in LuaTables
  <2>1. listed \in [1 .. Len(s) -> LuaEntries]
    BY <1>1, <1>2, <1>4
  <2>2. \A i, j \in DOMAIN listed : Key(listed[i]) = Key(listed[j]) => i = j
    BY <1>3
  <2> HIDE DEF listed
  <2>3. listed \in Seq(LuaEntries)
    BY <1>1, <2>1
  <2> QED BY <2>2, <2>3 DEF LuaTables
<1>5. Listings(entries) \subseteq LuaTables
  <2>1. IsFiniteSet(filled)
    <3>1. IsFiniteSet(DOMAIN s)
      BY <1>1, FS_Interval
    <3> QED BY <3>1, FS_Subset
  <2>2. numbered \in Surjection(filled, entries)
    BY DEF Surjection
  <2>3. IsFiniteSet(entries)
    <3> HIDE DEF numbered, entries, filled
    <3> QED BY <2>1, <2>2, FS_Surjection
  <2>4. entries \subseteq LuaEntries
    BY <1>2
  <2>5. \A a, b \in entries : Key(a) = Key(b) => a = b
    <3> HIDE DEF entry
    <3> QED BY <1>3
  <2> HIDE DEF entries
  <2> QED BY <2>3, <2>4, <2>5, ListingsType
<1> QED BY <1>4, <1>5 DEF ArrayTables


LEMMA ObjectTablesType ==
  ASSUME NEW f, IsObject(f, JsonScalars \cup InnerContainers)
  PROVE  ObjectTables(f) \subseteq LuaTables
<1> DEFINE filled(w)  == {s \in DOMAIN w : ElementToLua(f[w[s]]) # Nil}
           entry(w, s) == <<<<"string", s>>, ElementToLua(f[w[s]])>>
           entries(w) == {entry(w, s) : s \in filled(w)}
<1>1. SUFFICES ASSUME NEW w \in Winners(f)  PROVE Listings(entries(w)) \subseteq LuaTables
  BY DEF ObjectTables
<1>2. /\ DOMAIN w = {Cut[k] : k \in DOMAIN f}
      /\ \A s \in DOMAIN w : w[s] \in DOMAIN f
  BY DEF Winners
<1>3. f \in [DOMAIN f -> JsonScalars \cup InnerContainers] /\ DOMAIN f \subseteq Strings
      /\ IsFiniteSet(DOMAIN f)
  BY DEF IsObject
<1>4. DOMAIN w \subseteq Strings
  BY <1>2, <1>3, CutType
<1>5. IsFiniteSet(DOMAIN w)
  <2> DEFINE cut == [k \in DOMAIN f |-> Cut[k]]
  <2>1. cut \in Surjection(DOMAIN f, DOMAIN w)
    BY <1>2 DEF Surjection
  <2> HIDE DEF cut
  <2> QED BY <1>3, <2>1, FS_Surjection
<1>6. \A s \in filled(w) : entry(w, s) \in LuaEntries
  <2> TAKE s \in filled(w)
  <2>1. ElementToLua(f[w[s]]) \in (LuaScalars \ {Nil}) \cup {InnerTable}
    BY <1>2, <1>3, ElementToLuaType
  <2>2. Type(<<"string", s>>) = "string"
    BY Pairs
  <2>3. <<"string", s>> # Nil /\ <<"string", s>> # NaN
    BY <2>2, RaisesIsNoValue
  <2>4. <<"string", s>> \in LuaScalars
    BY <1>4, ScalarsMade
  <2> QED BY <2>1, <2>3, <2>4 DEF LuaEntries
<1>7. \A s, t \in DOMAIN w : Key(entry(w, s)) = Key(entry(w, t)) => s = t
  <2> TAKE s, t \in DOMAIN w
  <2>1. Key(entry(w, s)) = <<"string", s>> /\ Key(entry(w, t)) = <<"string", t>>
    BY Pairs
  <2>2. Data(<<"string", s>>) = s /\ Data(<<"string", t>>) = t
    BY Pairs
  <2> HIDE DEF entry
  <2> QED BY <2>1, <2>2
<1>8. IsFiniteSet(entries(w))
  <2> DEFINE made == [s \in filled(w) |-> entry(w, s)]
  <2>1. IsFiniteSet(filled(w))
    BY <1>5, FS_Subset
  <2>2. made \in Surjection(filled(w), entries(w))
    BY DEF Surjection
  <2> HIDE DEF made, entries, filled
  <2> QED BY <2>1, <2>2, FS_Surjection
<1>9. entries(w) \subseteq LuaEntries
  <2> HIDE DEF entry
  <2> QED BY <1>6
<1>10. \A a, b \in entries(w) : Key(a) = Key(b) => a = b
  <2> HIDE DEF entry
  <2> QED BY <1>7
<1> HIDE DEF entries
<1> QED BY <1>8, <1>9, <1>10, ListingsType

LEMMA JsonToLuaType ==
  ASSUME NEW j, IsJson(j) \/ j = Discarded
  PROVE  JsonToLua(j) \subseteq LuaValues
<1>1. CASE j \in JsonScalars \/ j = Discarded
  <2>1. Type(j) \notin {"array", "object"}
    BY <1>1, JsonScalarCases, RaisesIsNoValue
  <2>2. JsonToLua(j) = {ElementToLua(j)}
    BY <2>1 DEF JsonToLua
  <2>3. ElementToLua(j) \in LuaScalars
    BY <1>1, ScalarToLuaType
  <2> QED BY <2>2, <2>3 DEF LuaValues
<1>2. CASE Type(j) = "array" /\ Data(j) \in Seq(JsonScalars \cup InnerContainers)
  <2>1. JsonToLua(j) = {"table"} \X ArrayTables(Data(j))
    BY <1>2 DEF JsonToLua
  <2> QED BY <1>2, <2>1, ArrayTablesType DEF LuaValues
<1>3. CASE Type(j) = "object" /\ IsObject(Data(j), JsonScalars \cup InnerContainers)
  <2>1. JsonToLua(j) = {"table"} \X ObjectTables(Data(j))
    BY <1>3 DEF JsonToLua
  <2> QED BY <1>3, <2>1, ObjectTablesType DEF LuaValues
<1> QED BY <1>1, <1>2, <1>3 DEF IsJson, IsContainerOf

-----------------------------------------------------------------------------
LEMMA JsonInitType == JsonInit => JsonTypeOK
<1> SUFFICES ASSUME JsonInit  PROVE JsonTypeOK
  OBVIOUS
<1>1. IsJson(text) \/ text = Discarded
  BY LuaJsonAssumption DEF JsonInit
<1>2. held \in LuaValues
  BY ScalarsMade DEF JsonInit, LuaValues
<1> QED BY <1>1, <1>2 DEF JsonInit, JsonTypeOK

LEMMA JsonStepType == JsonTypeOK /\ [JsonNext]_jsonVars => JsonTypeOK'
<1> SUFFICES ASSUME JsonTypeOK, [JsonNext]_jsonVars  PROVE JsonTypeOK'
  OBVIOUS
<1> USE DEF JsonTypeOK
<1>1. CASE NewValue
  BY <1>1, LuaJsonAssumption DEF NewValue
<1>2. CASE NewText
  BY <1>2, LuaJsonAssumption DEF NewText
<1>3. CASE CallRaises
  BY <1>3 DEF CallRaises
<1>4. ASSUME NEW u \in Undefined, JsonStringify(u)  PROVE JsonTypeOK'
  <2> DEFINE written == Dump(LuaToJson(held, u))
  <2>1. u \in Int
    BY LuaJsonAssumption
  <2>2. written = Raises \/ IsFlatJson(written)
    BY <2>1, LuaToJsonType, DumpType
  <2>3. CASE written = Raises
    BY <1>3, <1>4, <2>3 DEF JsonStringify
  <2>4. CASE written # Raises
    <3>1. text' = written /\ IsFlatJson(written) /\ IsJson(written)
      BY <1>4, <2>2, <2>4, FlatIsJson DEF JsonStringify
    <3> QED BY <1>4, <2>4, <3>1 DEF JsonStringify
  <2> QED BY <2>3, <2>4
<1>5. ASSUME NEW u \in Undefined, Telemetry(u)  PROVE JsonTypeOK'
  <2> DEFINE value == LuaToJson(held, u)
  <2>1. value # None
    BY LuaJsonAssumption, ValueIsNotNone
  <2>2. CASE value = Raises
    BY <1>3, <1>5, <2>2 DEF Telemetry
  <2>3. CASE value # Raises
    <3> HIDE DEF value
    <3>1. UNCHANGED <<held, text, source, writer>> /\ raised' = FALSE
      BY <1>5, <2>3 DEF Telemetry, value
    <3>2. latest' # None /\ cached' # None
      BY <1>5, <2>1, <2>3 DEF Telemetry, value
    <3> QED BY <3>1, <3>2
  <2> QED BY <2>2, <2>3
<1>6. CASE JsonParse
  <2>1. held' \in LuaValues
    BY <1>6, JsonToLuaType DEF JsonParse
  <2> QED BY <1>6, <2>1 DEF JsonParse
<1>7. CASE UNCHANGED jsonVars
  BY <1>7 DEF jsonVars
<1> QED BY <1>1, <1>2, <1>4, <1>5, <1>6, <1>7 DEF JsonNext

(* What the script and the controller hold are values of their kinds, for  *)
(* every width of int, every set of strings, values and texts: a table has *)
(* one value for a key, in every order lua_next may list it, and           *)
(* json_stringify writes no container inside another (lua_json_to_value,   *)
(* lua_value_to_json).                                                     *)
THEOREM JsonTypes == JsonSpec => []JsonTypeOK
BY JsonInitType, JsonStepType, PTL DEF JsonSpec

LEMMA JsonStepCache == CacheFollows /\ [JsonNext]_jsonVars => CacheFollows'
<1> SUFFICES ASSUME CacheFollows, [JsonNext]_jsonVars  PROVE CacheFollows'
  OBVIOUS
<1>1. CASE UNCHANGED <<cached, latest>>
  BY <1>1 DEF CacheFollows
<1>2. ASSUME NEW u \in Undefined, Telemetry(u)  PROVE CacheFollows'
  <2> DEFINE value == LuaToJson(held, u)
  <2>1. CASE value = Raises
    BY <1>1, <1>2, <2>1 DEF Telemetry, CallRaises
  <2>2. CASE value # Raises /\ (cached = None \/ Differs(cached, value))
    BY <1>2, <2>2 DEF Telemetry, CacheFollows
  <2>3. CASE value # Raises /\ ~(cached = None \/ Differs(cached, value))
    <3>1. cached' = cached /\ latest' = value
      BY <1>2, <2>3 DEF Telemetry
    <3>2. Unordered(cached, value) \/ cached = value
      BY <2>3 DEF Differs, Equal
    <3> HIDE DEF value
    <3> QED BY <3>1, <3>2 DEF CacheFollows
  <2> QED BY <2>1, <2>2, <2>3
<1>3. CASE \E u \in Undefined : JsonStringify(u)
  BY <1>1, <1>3 DEF JsonStringify, CallRaises
<1> QED BY <1>1, <1>2, <1>3 DEF JsonNext, NewValue, NewText, JsonParse, jsonVars

(* The controller has cached the value of the last telemetry() call, or a  *)
(* number not ordered with it, whatever was sent before                    *)
(* (lua_value_to_json, publishTelemetry and operator!=).                   *)
THEOREM CacheHoldsTheLatest == JsonSpec => []CacheFollows
<1>1. JsonInit => CacheFollows
  BY DEF JsonInit, CacheFollows
<1> QED BY <1>1, JsonStepCache, PTL DEF JsonSpec

-----------------------------------------------------------------------------
(* What Exact, ExactValue and ExactTable say of a value is enough for it   *)
(* to come back.                                                           *)
LEMMA ExactInteger ==
  ASSUME NEW n \in -IntHalf .. 2 * IntHalf - 1
  PROVE  Integer(n) = n
<1>1. IntHalf \in Nat /\ IntHalf > 0 /\ n \in Int
  BY LuaJsonAssumption
<1>2. \A x \in Int, m \in Int : 0 <= x /\ x < m => x % m = x
  OBVIOUS
<1>3. CASE n >= 0
  BY <1>1, <1>2, <1>3 DEF Integer, Unsigned
<1>4. CASE n < 0
  <2>1. (n + IntHalf) % (2 * IntHalf) = n + IntHalf
    BY <1>1, <1>2, <1>4
  <2> QED BY <1>1, <1>4, <2>1 DEF Integer, Signed
<1> QED BY <1>1, <1>3, <1>4

LEMMA ElementCases ==
  ASSUME NEW j \in JsonScalars
  PROVE  /\ Type(j) = "null" => ElementToLua(j) = Nil
         /\ Type(j) = "boolean" => ElementToLua(j) = j
         /\ Type(j) = "integer" => ElementToLua(j) = <<"number", 4 * Integer(Data(j))>>
         /\ Type(j) = "float" => ElementToLua(j) = <<"number", Float(Data(j))>>
         /\ Type(j) = "string" => ElementToLua(j) = <<"string", Cut[Data(j)]>>
<1>1. ~IsContainer(j) /\ (j \in {Null, Discarded} <=> Type(j) = "null")
  BY JsonScalarCases, RaisesIsNoValue DEF IsContainer
<1> QED BY <1>1, JsonScalarCases DEF ElementToLua

LEMMA NumberToJson ==
  ASSUME NEW d \in Int, NEW u
  PROVE  /\ IsWhole(d) => ScalarToJson(<<"number", d>>, u) = <<"integer", d \div 4>>
         /\ ~IsWhole(d) => ScalarToJson(<<"number", d>>, u) = <<"float", d>>
BY Pairs DEF ScalarToJson

LEMMA NumberIsScalar == \A d \in Int : <<"number", d>> \in LuaScalars /\ <<"number", d>> # Nil
<1> TAKE d \in Int
<1>1. Type(<<"number", d>>) = "number"
  BY Pairs
<1>2. <<"number", d>> # Nil
  BY <1>1, RaisesIsNoValue
<1> QED BY <1>2, ScalarsMade

LEMMA ScalarComesBack ==
  ASSUME NEW x \in JsonScalars, NEW u, ExactScalar(x)
  PROVE  /\ ElementToLua(x) \in LuaScalars \ {Nil}
         /\ ScalarToJson(ElementToLua(x), u) = x
         /\ Dumped(x) = x
         /\ Type(x) = "string" => Data(x) \notin NotUtf8
<1>2. CASE Type(x) = "integer" /\ Data(x) \in Int /\ x = <<"integer", Data(x)>>
  <2> DEFINE n == Data(x)
  <2>1. Integer(n) = n
    BY <1>2, ExactInteger DEF ExactScalar
  <2>2. ElementToLua(x) = <<"number", 4 * n>>
    BY <1>2, <2>1, ElementCases, Zenon
  <2>3. 4 * n \in Int /\ IsWhole(4 * n) /\ (4 * n) \div 4 = n
    BY <1>2 DEF IsWhole
  <2>4. ScalarToJson(<<"number", 4 * n>>, u) = <<"integer", n>>
    BY <2>3, NumberToJson
  <2>5. <<"number", 4 * n>> \in LuaScalars /\ <<"number", 4 * n>> # Nil
    BY <2>3, NumberIsScalar, Zenon
  <2>6. x # NaN
    BY <1>2, RaisesIsNoValue
  <2>7. Dumped(x) = x
    BY <2>6 DEF Dumped
  <2> QED BY <1>2, <2>2, <2>4, <2>5, <2>7
<1>3. CASE Type(x) = "float" /\ Data(x) \in Int /\ x = <<"float", Data(x)>>
  <2> DEFINE d == Data(x)
  <2>1. Float(d) = d /\ ~IsWhole(d)
    BY <1>3 DEF ExactScalar
  <2>2. ElementToLua(x) = <<"number", d>>
    BY <1>3, <2>1, ElementCases, Zenon
  <2>3. ScalarToJson(<<"number", d>>, u) = <<"float", d>>
    BY <1>3, <2>1, NumberToJson
  <2>4. <<"number", d>> \in LuaScalars /\ <<"number", d>> # Nil
    BY <1>3, NumberIsScalar, Zenon
  <2>5. x # NaN
    BY <1>3, RaisesIsNoValue
  <2>6. Dumped(x) = x
    BY <2>5 DEF Dumped
  <2> QED BY <1>3, <2>2, <2>3, <2>4, <2>6
<1>4. CASE Type(x) = "string" /\ Data(x) \in Strings /\ x = <<"string", Data(x)>>
  <2>1. Cut[Data(x)] = Data(x) /\ Data(x) \notin NotUtf8
    BY <1>4 DEF ExactScalar, ExactString
  <2>2. ElementToLua(x) = x /\ x \in LuaScalars
    BY <1>4, <2>1, ElementCases, ScalarsMade, Zenon
  <2>3. ScalarToJson(x, u) = x
    BY <1>4, <2>1 DEF ScalarToJson
  <2> QED BY <1>4, <2>1, <2>2, <2>3, RaisesIsNoValue DEF Dumped
<1>5. Type(x) # "null" /\ Type(x) # "boolean"
  BY DEF ExactScalar
<1> QED BY <1>2, <1>3, <1>4, <1>5, JsonScalarCases, Zenon

LEMMA InnerTableIsNoScalar == InnerTable \notin LuaScalars /\ InnerTable # Nil
<1>1. Type(InnerTable) = "table"
  BY DEF Type, InnerTable
<1> QED BY <1>1, LuaScalarCases, RaisesIsNoValue

(* A table whose values are scalars and whose keys are right is converted. *)
LEMMA ListToJson ==
  ASSUME NEW entries \in LuaTables, NEW u, IsArray(entries),
         \A i \in DOMAIN entries : Value(entries[i]) \in LuaScalars
  PROVE  TableToJson(entries, u)
           = <<"array", [i \in DOMAIN entries |-> ScalarToJson(Value(entries[i]), u)]>>
<1>1. ~NotConverted(entries)
  BY InnerTableIsNoScalar DEF NotConverted
<1> QED BY <1>1 DEF TableToJson

(* ... and to an object, each key of which has the value of its entry.     *)
LEMMA ObjectToJson ==
  ASSUME NEW entries \in LuaTables, NEW u, NEW f,
         \A i \in DOMAIN entries : /\ Type(Key(entries[i])) = "string"
                                   /\ Cut[Data(Key(entries[i]))] = Data(Key(entries[i]))
                                   /\ Value(entries[i]) \in LuaScalars
                                   /\ Data(Key(entries[i])) \in DOMAIN f
                                   /\ f[Data(Key(entries[i]))] = ScalarToJson(Value(entries[i]), u),
         \A s \in DOMAIN f : \E i \in DOMAIN entries : Data(Key(entries[i])) = s,
         f = [s \in DOMAIN f |-> f[s]]
  PROVE  TableToJson(entries, u) = <<"object", f>>
<1>1. ~NotConverted(entries) /\ ~IsArray(entries)
  <2>1. Type(<<"number", 4>>) = "number"
    BY Pairs
  <2> QED BY <2>1, InnerTableIsNoScalar DEF NotConverted, IsArray
<1>2. \A i \in DOMAIN entries : CutKey(entries[i]) = Data(Key(entries[i]))
  BY DEF CutKey
<1>3. {CutKey(entries[i]) : i \in DOMAIN entries} = DOMAIN f
  BY <1>2
<1>4. \A s \in DOMAIN f : ScalarToJson(Value(entries[LastWith(entries, s)]), u) = f[s]
  <2> TAKE s \in DOMAIN f
  <2>1. \E i \in DOMAIN entries : CutKey(entries[i]) = s
    BY <1>2
  <2>2. /\ LastWith(entries, s) \in DOMAIN entries
        /\ CutKey(entries[LastWith(entries, s)]) = s
    BY <2>1, LastWithType
  <2> QED BY <1>2, <2>2
<1>5. [s \in {CutKey(entries[i]) : i \in DOMAIN entries} |->
          ScalarToJson(Value(entries[LastWith(entries, s)]), u)] = f
  BY <1>3, <1>4, Zenon
<1> QED BY <1>1, <1>5 DEF TableToJson

(* A container of scalars that dump() writes as they are.                  *)
LEMMA DumpOfExact ==
  ASSUME NEW t, IsContainer(t), t = <<Type(t), Data(t)>>, Data(t) = [i \in DOMAIN Data(t) |-> Data(t)[i]],
         \A i \in DOMAIN Data(t) : /\ Dumped(Data(t)[i]) = Data(t)[i]
                                   /\ Type(Data(t)[i]) = "string" => Data(Data(t)[i]) \notin NotUtf8,
         Type(t) = "object" => DOMAIN Data(t) \cap NotUtf8 = {}
  PROVE  Dump(t) = t
<1>1. t # Raises
  BY RaisesIsNoValue DEF IsContainer
<1>2. ~HasBadString(t)
  BY DEF HasBadString, Members, Range
<1>3. [i \in DOMAIN Data(t) |-> Dumped(Data(t)[i])] = Data(t)
  BY Zenon
<1>4. Dump(t) = <<Type(t), [i \in DOMAIN Data(t) |-> Dumped(Data(t)[i])]>>
  BY <1>1, <1>2 DEF Dump
<1> QED BY <1>3, <1>4, Zenon


LEMMA ListingsRange ==
  ASSUME NEW S, NEW t \in Listings(S)
  PROVE  /\ \A i \in DOMAIN t : t[i] \in S
         /\ \A e \in S : \E i \in DOMAIN t : t[i] = e
BY DEF Listings, Bijection, Injection, Surjection

(* What json_parse makes of a container that loses nothing.                *)
LEMMA ExactArrayTables ==
  ASSUME NEW s, \A i \in DOMAIN s : ElementToLua(s[i]) # Nil
  PROVE  ArrayTables(s) = {[i \in DOMAIN s |-> <<Position(i), ElementToLua(s[i])>>]}
<1>1. {i \in DOMAIN s : ElementToLua(s[i]) # Nil} = DOMAIN s
  OBVIOUS
<1> QED BY <1>1 DEF ArrayTables

LEMMA ExactObjectTables ==
  ASSUME NEW f, IsObject(f, JsonScalars \cup InnerContainers),
         \A k \in DOMAIN f : Cut[k] = k /\ ElementToLua(f[k]) # Nil,
         NEW t \in ObjectTables(f)
  PROVE  /\ t \in LuaTables
         /\ \A i \in DOMAIN t : \E s \in DOMAIN f : t[i] = <<<<"string", s>>, ElementToLua(f[s])>>
         /\ \A s \in DOMAIN f : \E i \in DOMAIN t : t[i] = <<<<"string", s>>, ElementToLua(f[s])>>
<1> DEFINE filled(w)  == {s \in DOMAIN w : ElementToLua(f[w[s]]) # Nil}
           entries(w) == {<<<<"string", s>>, ElementToLua(f[w[s]])>> : s \in filled(w)}
<1>1. PICK w \in Winners(f) : t \in Listings(entries(w))
  BY DEF ObjectTables
<1>2. DOMAIN w = DOMAIN f /\ \A s \in DOMAIN f : w[s] = s
  BY DEF Winners
<1>3. filled(w) = DOMAIN f
  BY <1>2
<1>4. entries(w) = {<<<<"string", s>>, ElementToLua(f[s])>> : s \in DOMAIN f}
  BY <1>2, <1>3
<1> HIDE DEF entries, filled
<1>5. /\ \A i \in DOMAIN t : t[i] \in {<<<<"string", s>>, ElementToLua(f[s])>> : s \in DOMAIN f}
      /\ \A e \in {<<<<"string", s>>, ElementToLua(f[s])>> : s \in DOMAIN f} :
           \E i \in DOMAIN t : t[i] = e
  BY <1>1, <1>4, ListingsRange
<1> QED BY <1>5, ObjectTablesType

LEMMA ArrayComesBack ==
  ASSUME NEW s, s \in Seq(JsonScalars \cup InnerContainers), Exact(<<"array", s>>),
         NEW v \in JsonToLua(<<"array", s>>), NEW u
  PROVE  Dump(LuaToJson(v, u)) = <<"array", s>>
<1> DEFINE t == <<"array", s>>
           listed == [i \in DOMAIN s |-> <<Position(i), ElementToLua(s[i])>>]
<1>1. Type(t) = "array" /\ Data(t) = s
  BY Pairs
<1>2. DOMAIN s = 1 .. Len(s) /\ Len(s) \in Nat
  OBVIOUS
<1>3. s # <<>> /\ \A i \in DOMAIN s : ExactScalar(s[i])
  <2>1. t # Null /\ ~ExactScalar(t)
    BY <1>1, RaisesIsNoValue DEF ExactScalar
  <2>2. IsContainer(t) /\ t # <<"array", <<>>>> /\ \A x \in Members(t) : ExactScalar(x)
    BY <2>1 DEF Exact
  <2>3. \A i \in DOMAIN s : s[i] \in Members(t)
    BY <1>1, <2>2 DEF Members, Range
  <2> QED BY <2>2, <2>3
<1>4. \A i \in DOMAIN s : s[i] \in JsonScalars
  <2>1. \A x \in InnerContainers : ~ExactScalar(x)
    BY Pairs DEF InnerContainers, ExactScalar
  <2>2. \A i \in DOMAIN s : s[i] \in JsonScalars \cup InnerContainers
    OBVIOUS
  <2> QED BY <1>3, <2>1, <2>2
<1>5. \A i \in DOMAIN s : /\ ElementToLua(s[i]) \in LuaScalars \ {Nil}
                          /\ ScalarToJson(ElementToLua(s[i]), u) = s[i]
                          /\ Dumped(s[i]) = s[i]
                          /\ Type(s[i]) = "string" => Data(s[i]) \notin NotUtf8
  BY <1>3, <1>4, ScalarComesBack
<1>6. ArrayTables(s) = {listed}
  BY <1>5, ExactArrayTables
<1>7. v = <<"table", listed>>
  <2>1. JsonToLua(t) = {"table"} \X {listed}
    BY <1>1, <1>6 DEF JsonToLua
  <2> HIDE DEF listed
  <2> QED BY <2>1
<1>8. listed \in LuaTables
  BY <1>6, ArrayTablesType
<1>9. \A i \in DOMAIN s : Key(listed[i]) = Position(i) /\ Value(listed[i]) = ElementToLua(s[i])
  BY Pairs
<1>10. DOMAIN listed = DOMAIN s
  OBVIOUS
<1> HIDE DEF listed
<1>11. IsArray(listed)
  <2>1. 1 \in DOMAIN s
    BY <1>2, <1>3
  <2>2. Position(1) = <<"number", 4>>
    BY DEF Position
  <2> QED BY <1>9, <1>10, <2>1, <2>2 DEF IsArray
<1>12. TableToJson(listed, u) = <<"array", [i \in DOMAIN listed |-> ScalarToJson(Value(listed[i]), u)]>>
  BY <1>5, <1>8, <1>9, <1>10, <1>11, ListToJson
<1>13. [i \in DOMAIN listed |-> ScalarToJson(Value(listed[i]), u)] = [i \in DOMAIN s |-> s[i]]
  BY <1>5, <1>9, <1>10, Zenon
<1>14. [i \in DOMAIN s |-> s[i]] = s
  OBVIOUS
<1>15. LuaToJson(v, u) = t
  <2>1. Type(v) = "table" /\ Data(v) = listed
    BY <1>7, Pairs
  <2> QED BY <1>12, <1>13, <1>14, <2>1 DEF LuaToJson
<1>16. Dump(t) = t
  BY <1>1, <1>5, <1>14, DumpOfExact DEF IsContainer
<1> QED BY <1>15, <1>16

LEMMA ObjectComesBack ==
  ASSUME NEW f, IsObject(f, JsonScalars \cup InnerContainers), Exact(<<"object", f>>),
         NEW v \in JsonToLua(<<"object", f>>), NEW u
  PROVE  Dump(LuaToJson(v, u)) = <<"object", f>>
<1> DEFINE t == <<"object", f>>
<1>1. Type(t) = "object" /\ Data(t) = f
  BY Pairs
<1>2. /\ \A s \in DOMAIN f : ExactScalar(f[s])
      /\ \A s \in DOMAIN f : Cut[s] = s /\ s \notin NotUtf8
  <2>1. t # Null /\ ~ExactScalar(t)
    BY <1>1, RaisesIsNoValue DEF ExactScalar
  <2>2. IsContainer(t) /\ (\A x \in Members(t) : ExactScalar(x)) /\ \A k \in DOMAIN f : ExactString(k)
    BY <1>1, <2>1 DEF Exact
  <2>3. \A i \in DOMAIN f : f[i] \in Members(t)
    BY <1>1, <2>2 DEF Members, Range
  <2> QED BY <2>2, <2>3 DEF ExactString
<1>3. \A s \in DOMAIN f : f[s] \in JsonScalars
  <2>1. \A x \in InnerContainers : ~ExactScalar(x)
    BY Pairs DEF InnerContainers, ExactScalar
  <2>2. \A s \in DOMAIN f : f[s] \in JsonScalars \cup InnerContainers
    BY DEF IsObject
  <2> QED BY <1>2, <2>1, <2>2
<1>4. \A s \in DOMAIN f : /\ ElementToLua(f[s]) \in LuaScalars \ {Nil}
                          /\ ScalarToJson(ElementToLua(f[s]), u) = f[s]
                          /\ Dumped(f[s]) = f[s]
                          /\ Type(f[s]) = "string" => Data(f[s]) \notin NotUtf8
  BY <1>2, <1>3, ScalarComesBack
<1>5. PICK e \in ObjectTables(f) : v = <<"table", e>>
  <2>1. v \in {"table"} \X ObjectTables(f)
    BY <1>1 DEF JsonToLua
  <2> QED BY <2>1
<1>6. /\ e \in LuaTables
      /\ \A i \in DOMAIN e : \E s \in DOMAIN f : e[i] = <<<<"string", s>>, ElementToLua(f[s])>>
      /\ \A s \in DOMAIN f : \E i \in DOMAIN e : e[i] = <<<<"string", s>>, ElementToLua(f[s])>>
  BY <1>2, <1>4, ExactObjectTables
<1>7. ASSUME NEW i, NEW s, e[i] = <<<<"string", s>>, ElementToLua(f[s])>>
      PROVE  /\ Type(Key(e[i])) = "string" /\ Data(Key(e[i])) = s
             /\ Value(e[i]) = ElementToLua(f[s])
  <2>1. Key(e[i]) = <<"string", s>> /\ Value(e[i]) = ElementToLua(f[s])
    BY <1>7, Pairs
  <2> QED BY <2>1, Pairs
<1>8. \A i \in DOMAIN e : /\ Type(Key(e[i])) = "string"
                          /\ Cut[Data(Key(e[i]))] = Data(Key(e[i]))
                          /\ Value(e[i]) \in LuaScalars
                          /\ Data(Key(e[i])) \in DOMAIN f
                          /\ f[Data(Key(e[i]))] = ScalarToJson(Value(e[i]), u)
  <2> TAKE i \in DOMAIN e
  <2>1. PICK s \in DOMAIN f : e[i] = <<<<"string", s>>, ElementToLua(f[s])>>
    BY <1>6
  <2>2. Type(Key(e[i])) = "string" /\ Data(Key(e[i])) = s /\ Value(e[i]) = ElementToLua(f[s])
    BY <1>7, <2>1
  <2> QED BY <1>2, <1>4, <2>2, Zenon
<1>9. \A s \in DOMAIN f : \E i \in DOMAIN e : Data(Key(e[i])) = s
  BY <1>6, <1>7
<1>10. f = [s \in DOMAIN f |-> f[s]]
  BY DEF IsObject
<1>11. TableToJson(e, u) = t
  BY <1>6, <1>8, <1>9, <1>10, ObjectToJson
<1>12. LuaToJson(v, u) = t
  <2>1. Type(v) = "table" /\ Data(v) = e
    BY <1>5, Pairs
  <2> QED BY <1>11, <2>1 DEF LuaToJson
<1>13. Dump(t) = t
  <2>1. DOMAIN f \cap NotUtf8 = {}
    BY <1>2
  <2> QED BY <1>1, <1>4, <1>10, <2>1, DumpOfExact DEF IsContainer
<1> QED BY <1>12, <1>13

(* lua_value_to_json undoes lua_json_to_value.                             *)
LEMMA TextComesBack ==
  ASSUME NEW t, IsJson(t) \/ t = Discarded, Exact(t), NEW v \in JsonToLua(t), NEW u
  PROVE  Dump(LuaToJson(v, u)) = t /\ t # Raises
<1>1. CASE t \in JsonScalars
  <2>1. Type(t) \notin {"array", "object"}
    BY <1>1, JsonScalarCases
  <2>2. v = ElementToLua(t)
    BY <2>1 DEF JsonToLua
  <2>3. CASE t = Null
    <3>1. v = Nil
      BY <1>1, <2>2, <2>3, ElementCases, RaisesIsNoValue
    <3>2. LuaToJson(v, u) = Null
      BY <3>1, RaisesIsNoValue DEF LuaToJson, ScalarToJson
    <3>3. ~HasBadString(Null) /\ ~IsContainer(Null) /\ Null # Raises /\ Null # NaN
      BY RaisesIsNoValue DEF HasBadString, IsContainer, Members
    <3> QED BY <2>3, <3>2, <3>3 DEF Dump, Dumped
  <2>4. CASE ExactScalar(t)
    <3>1. /\ v \in LuaScalars
          /\ ScalarToJson(v, u) = t
          /\ Dumped(t) = t
          /\ Type(t) = "string" => Data(t) \notin NotUtf8
      BY <1>1, <2>2, <2>4, ScalarComesBack
    <3>2. LuaToJson(v, u) = t
      BY <3>1, LuaScalarCases DEF LuaToJson
    <3>3. ~IsContainer(t) /\ ~HasBadString(t)
      BY <2>1, <3>1 DEF HasBadString, IsContainer, Members
    <3>4. t # Raises
      BY <1>1, JsonScalarCases, RaisesIsNoValue
    <3> QED BY <3>1, <3>2, <3>3, <3>4 DEF Dump
  <2> QED BY <2>1, <2>3, <2>4 DEF Exact, IsContainer
<1>2. CASE Type(t) = "array" /\ t = <<"array", Data(t)>> /\ Data(t) \in Seq(JsonScalars \cup InnerContainers)
  BY <1>2, ArrayComesBack, RaisesIsNoValue
<1>3. CASE Type(t) = "object" /\ t = <<"object", Data(t)>> /\ IsObject(Data(t), JsonScalars \cup InnerContainers)
  BY <1>3, ObjectComesBack, RaisesIsNoValue
<1>4. t # Discarded
  BY RaisesIsNoValue DEF Exact, ExactScalar, IsContainer
<1> QED BY <1>1, <1>2, <1>3, <1>4 DEF IsJson, IsContainerOf

HeldFromSource == source # None => held \in JsonToLua(source)

LEMMA JsonStepHeld == HeldFromSource /\ [JsonNext]_jsonVars => HeldFromSource'
<1> SUFFICES ASSUME HeldFromSource, [JsonNext]_jsonVars  PROVE HeldFromSource'
  OBVIOUS
<1>1. CASE UNCHANGED <<held, source>>
  BY <1>1 DEF HeldFromSource
<1>2. CASE NewValue
  BY <1>2 DEF NewValue, HeldFromSource
<1>3. CASE JsonParse
  BY <1>3 DEF JsonParse, HeldFromSource
<1>4. ASSUME NEW u \in Undefined, JsonStringify(u) \/ Telemetry(u)  PROVE UNCHANGED <<held, source>>
  BY <1>4 DEF JsonStringify, Telemetry, CallRaises
<1> QED BY <1>1, <1>2, <1>3, <1>4 DEF JsonNext, NewText, jsonVars

LEMMA TextComesBackStep ==
  ASSUME JsonTypeOK, HeldFromSource, NEW u \in Undefined, JsonStringify(u), source # None, Exact(source)
  PROVE  ~raised' /\ text' = source
<1>1. IsJson(source) \/ source = Discarded
  BY DEF JsonTypeOK
<1>2. Dump(LuaToJson(held, u)) = source /\ source # Raises
  BY <1>1, TextComesBack DEF HeldFromSource
<1> QED BY <1>2 DEF JsonStringify

(* json_stringify(json_parse(t)) is t for every width of int and every     *)
(* text t in which nothing is narrowed, in whatever order lua_next gives   *)
(* the keys (lua_json_to_value, lua_value_to_json).                        *)
THEOREM ExactTextsComeBack == JsonSpec => ExactTextComesBack
<1>1. JsonInit => HeldFromSource
  BY DEF JsonInit, HeldFromSource
<1>2. JsonTypeOK /\ HeldFromSource /\ [JsonNext]_jsonVars
        => [(\E u \in Undefined : JsonStringify(u)) /\ source # None /\ Exact(source)
              => ~raised' /\ text' = source]_jsonVars
  BY TextComesBackStep
<1> QED BY <1>1, <1>2, JsonInitType, JsonStepType, JsonStepHeld, PTL DEF JsonSpec, ExactTextComesBack


-----------------------------------------------------------------------------
(* The other way round: lua_json_to_value undoes lua_value_to_json.        *)
LEMMA ValueComesBack ==
  ASSUME NEW v \in LuaScalars, ExactValue(v), NEW u \in Int
  PROVE  LET x == ScalarToJson(v, u)
         IN  x \in JsonScalars /\ Dumped(x) = x /\ ElementToLua(x) = v
<1> DEFINE x == ScalarToJson(v, u)
<1>0. \A y \in JsonScalars : Dumped(y) = y
  BY JsonScalarCases, RaisesIsNoValue DEF Dumped
<1>1. CASE Type(v) = "nil" /\ v = Nil
  <2>1. x = Null
    BY <1>1 DEF ScalarToJson
  <2> QED BY <1>0, <1>1, <2>1, ScalarsMade, ElementCases, RaisesIsNoValue, Zenon
<1>3. CASE Type(v) = "number" /\ Data(v) \in Int /\ v = <<"number", Data(v)>>
  <2> DEFINE d == Data(v)
  <2>1. ExactScalar(ScalarToJson(<<"number", d>>, 0))
    BY <1>3 DEF ExactValue
  <2>2. CASE IsWhole(d)
    <3>1. /\ x = <<"integer", d \div 4>>
          /\ ExactScalar(<<"integer", d \div 4>>)
          /\ d \div 4 \in Int
      BY <1>3, <2>1, <2>2, NumberToJson
    <3>2. Type(x) = "integer" /\ Data(x) = d \div 4
      BY <3>1, Pairs
    <3>3. Integer(d \div 4) = d \div 4
      BY <3>1, <3>2, ExactInteger DEF ExactScalar
    <3>4. 4 * (d \div 4) = d
      BY <1>3, <2>2 DEF IsWhole
    <3>5. x \in JsonScalars
      BY <3>1, ScalarsMade
    <3>6. ElementToLua(x) = <<"number", 4 * Integer(d \div 4)>>
      BY <3>2, <3>5, ElementCases, Zenon
    <3>7. ElementToLua(x) = v
      BY <1>3, <3>3, <3>4, <3>6, Zenon
    <3> QED BY <1>0, <3>5, <3>7
  <2>3. CASE ~IsWhole(d)
    <3>1. x = <<"float", d>> /\ ExactScalar(<<"float", d>>)
      BY <1>3, <2>1, <2>3, NumberToJson
    <3>2. Type(x) = "float" /\ Data(x) = d
      BY <3>1, Pairs
    <3>3. Float(d) = d
      BY <3>1, <3>2 DEF ExactScalar
    <3>4. x \in JsonScalars
      BY <1>3, <3>1, ScalarsMade
    <3>5. ElementToLua(x) = v
      BY <1>3, <3>2, <3>3, <3>4, ElementCases, Zenon
    <3> QED BY <1>0, <3>4, <3>5
  <2> QED BY <2>2, <2>3
<1>4. CASE Type(v) = "string" /\ Data(v) \in Strings /\ v = <<"string", Data(v)>>
  <2>1. Cut[Data(v)] = Data(v)
    BY <1>4 DEF ExactValue, ExactString
  <2>2. x = v
    BY <1>4, <2>1 DEF ScalarToJson
  <2> QED BY <1>0, <1>4, <2>1, <2>2, ScalarsMade, ElementCases, Zenon
<1>5. Type(v) \in {"nil", "number", "string"}
  BY DEF ExactValue
<1>6. Type(v) = "nil" => v = Nil
  BY LuaScalarCases, Pairs
<1> QED BY <1>1, <1>3, <1>4, <1>5, <1>6, LuaScalarCases, Zenon

LEMMA DumpOfScalar ==
  ASSUME NEW x \in JsonScalars, Dump(x) # Raises
  PROVE  Dump(x) = Dumped(x)
<1>1. ~IsContainer(x)
  BY JsonScalarCases DEF IsContainer
<1> QED BY <1>1 DEF Dump

LEMMA DumpOfContainer ==
  ASSUME NEW ty \in {"array", "object"}, NEW f, f = [i \in DOMAIN f |-> f[i]],
         \A i \in DOMAIN f : Dumped(f[i]) = f[i],
         Dump(<<ty, f>>) # Raises
  PROVE  Dump(<<ty, f>>) = <<ty, f>>
<1> DEFINE j == <<ty, f>>
<1>1. Type(j) = ty /\ Data(j) = f
  BY Pairs
<1>2. IsContainer(j)
  BY <1>1 DEF IsContainer
<1>3. Dump(j) = <<Type(j), [i \in DOMAIN Data(j) |-> Dumped(Data(j)[i])]>>
  BY <1>2 DEF Dump
<1>4. [i \in DOMAIN f |-> Dumped(f[i])] = f
  BY Zenon
<1> QED BY <1>1, <1>3, <1>4, Zenon

(* An entry of a table that loses nothing.                                 *)
LEMMA ExactEntries ==
  ASSUME NEW e \in LuaTables, ExactTable(<<"table", e>>), NEW u \in Int, NEW i \in DOMAIN e
  PROVE  LET x == ScalarToJson(Value(e[i]), u)
         IN  /\ Value(e[i]) \in LuaScalars \ {Nil}
             /\ x \in JsonScalars /\ Dumped(x) = x /\ ElementToLua(x) = Value(e[i])
             /\ e[i] = <<Key(e[i]), Value(e[i])>> /\ Key(e[i]) \in LuaScalars
<1>1. ExactValue(Value(e[i])) /\ Value(e[i]) # Nil
  <2>1. Type(InnerTable) = "table"
    BY Pairs DEF InnerTable
  <2> QED BY <2>1, EntryType, Pairs, RaisesIsNoValue DEF ExactTable
<1>2. Type(InnerTable) = "table"
  BY Pairs DEF InnerTable
<1>3. Value(e[i]) # InnerTable
  BY <1>1, <1>2 DEF ExactValue
<1>4. Value(e[i]) \in LuaScalars
  BY <1>3, EntryType
<1>5. e[i] = <<Key(e[i]), Value(e[i])>> /\ Key(e[i]) \in LuaScalars
  BY EntryType
<1> QED BY <1>1, <1>4, <1>5, ValueComesBack

LEMMA ListComesBack ==
  ASSUME NEW e \in LuaTables, ExactTable(<<"table", e>>), NEW u \in Int, e # <<>>,
         \A i \in DOMAIN e : Key(e[i]) = <<"number", 4 * i>>,
         Dump(LuaToJson(<<"table", e>>, u)) # Raises,
         NEW v \in JsonToLua(Dump(LuaToJson(<<"table", e>>, u)))
  PROVE  Data(v) = e
<1> DEFINE s == [i \in DOMAIN e |-> ScalarToJson(Value(e[i]), u)]
<1>1. /\ e \in Seq(LuaEntries)
      /\ DOMAIN e = 1 .. Len(e) /\ Len(e) \in Nat
  BY EntryType
<1>2. \A i \in DOMAIN e : /\ Value(e[i]) \in LuaScalars \ {Nil}
                          /\ Dumped(s[i]) = s[i] /\ ElementToLua(s[i]) = Value(e[i])
                          /\ e[i] = <<Key(e[i]), Value(e[i])>>
  BY ExactEntries
<1>3. IsArray(e)
  <2>1. 1 \in DOMAIN e
    BY <1>1
  <2>2. Key(e[1]) = <<"number", 4>>
    BY <2>1
  <2> QED BY <2>1, <2>2 DEF IsArray
<1>4. LuaToJson(<<"table", e>>, u) = <<"array", s>>
  BY <1>2, <1>3, ListToJson, Pairs DEF LuaToJson
<1>5. DOMAIN s = DOMAIN e /\ s = [i \in DOMAIN s |-> s[i]]
  OBVIOUS
<1> HIDE DEF s
<1>6. Dump(<<"array", s>>) = <<"array", s>>
  BY <1>2, <1>4, <1>5, DumpOfContainer
<1>7. JsonToLua(<<"array", s>>) = {"table"} \X {[i \in DOMAIN s |-> <<Position(i), ElementToLua(s[i])>>]}
  <2>1. \A i \in DOMAIN s : ElementToLua(s[i]) # Nil
    BY <1>2, <1>5
  <2>2. ArrayTables(s) = {[i \in DOMAIN s |-> <<Position(i), ElementToLua(s[i])>>]}
    BY <2>1, ExactArrayTables
  <2> QED BY <2>2, Pairs DEF JsonToLua
<1>8. [i \in DOMAIN s |-> <<Position(i), ElementToLua(s[i])>>] = e
  <2>1. \A i \in DOMAIN e : e[i] = <<Position(i), ElementToLua(s[i])>>
    BY <1>2 DEF Position
  <2>2. e = [i \in DOMAIN e |-> e[i]]
    BY <1>1
  <2> QED BY <1>5, <2>1, <2>2, Zenon
<1>9. v \in {"table"} \X {e}
  BY <1>4, <1>6, <1>7, <1>8, Zenon
<1> QED BY <1>9 DEF Data

LEMMA MapComesBack ==
  ASSUME NEW e \in LuaTables, ExactTable(<<"table", e>>), NEW u \in Int,
         \A i \in DOMAIN e : Type(Key(e[i])) = "string" /\ ExactString(Data(Key(e[i]))),
         Dump(LuaToJson(<<"table", e>>, u)) # Raises,
         NEW v \in JsonToLua(Dump(LuaToJson(<<"table", e>>, u)))
  PROVE  Range(Data(v)) = Range(e)
<1> DEFINE name(i) == Data(Key(e[i]))
           keys == {name(i) : i \in DOMAIN e}
           f    == [s \in keys |-> ScalarToJson(Value(e[LastWith(e, s)]), u)]
<1>1. \A i \in DOMAIN e : /\ Value(e[i]) \in LuaScalars \ {Nil}
                          /\ ScalarToJson(Value(e[i]), u) \in JsonScalars
                          /\ Dumped(ScalarToJson(Value(e[i]), u)) = ScalarToJson(Value(e[i]), u)
                          /\ ElementToLua(ScalarToJson(Value(e[i]), u)) = Value(e[i])
                          /\ e[i] = <<Key(e[i]), Value(e[i])>> /\ Key(e[i]) \in LuaScalars
  BY ExactEntries
<1>2. \A i \in DOMAIN e : /\ Cut[name(i)] = name(i) /\ CutKey(e[i]) = name(i)
                          /\ Key(e[i]) = <<"string", name(i)>> /\ name(i) \in Strings
  BY <1>1, LuaScalarCases DEF ExactString, CutKey
<1>3. \A i, j \in DOMAIN e : name(i) = name(j) => i = j
  <2>1. \A i, j \in DOMAIN e : Key(e[i]) = Key(e[j]) => i = j
    BY DEF LuaTables
  <2> QED BY <1>2, <2>1
<1>4. \A i \in DOMAIN e : LastWith(e, name(i)) = i
  <2> TAKE i \in DOMAIN e
  <2>1. /\ LastWith(e, name(i)) \in DOMAIN e
        /\ CutKey(e[LastWith(e, name(i))]) = name(i)
    BY <1>2, LastWithType
  <2> QED BY <1>2, <1>3, <2>1
<1>5. \A i \in DOMAIN e : name(i) \in keys /\ f[name(i)] = ScalarToJson(Value(e[i]), u)
  BY <1>4
<1>6. DOMAIN f = keys /\ f = [s \in DOMAIN f |-> f[s]]
  OBVIOUS
<1>7. \A s \in keys : \E i \in DOMAIN e : name(i) = s
  OBVIOUS
<1> HIDE DEF f, keys
<1>8. LuaToJson(<<"table", e>>, u) = <<"object", f>>
  <2>1. TableToJson(e, u) = <<"object", f>>
    BY <1>1, <1>2, <1>5, <1>6, <1>7, ObjectToJson
  <2> QED BY <2>1, Pairs DEF LuaToJson
<1>9. \A s \in keys : /\ f[s] \in JsonScalars /\ Dumped(f[s]) = f[s] /\ ElementToLua(f[s]) # Nil
                      /\ Cut[s] = s /\ s \in Strings
  BY <1>1, <1>2, <1>5, <1>7
<1>10. Dump(<<"object", f>>) = <<"object", f>>
  BY <1>6, <1>8, <1>9, DumpOfContainer
<1>11. IsObject(f, JsonScalars \cup InnerContainers)
  <2>1. <<"object", f>> = Raises \/ <<"object", f>> \in JsonScalars \cup {NaN}
          \/ IsContainerOf(<<"object", f>>, JsonScalars \cup {NaN})
    <3>1. <<"table", e>> \in LuaValues
      BY DEF LuaValues
    <3> QED BY <1>8, <3>1, LuaToJsonType
  <2>2. Type(<<"object", f>>) = "object" /\ Data(<<"object", f>>) = f
    BY Pairs
  <2>3. IsContainerOf(<<"object", f>>, JsonScalars \cup {NaN})
    BY <2>1, <2>2, JsonScalarCases, RaisesIsNoValue
  <2>4. IsObject(f, JsonScalars \cup {NaN})
    BY <2>2, <2>3 DEF IsContainerOf
  <2> QED BY <1>6, <1>9, <2>4 DEF IsObject
<1>12. PICK t \in ObjectTables(f) : v = <<"table", t>>
  <2>1. v \in {"table"} \X ObjectTables(f)
    BY <1>8, <1>10, Pairs DEF JsonToLua
  <2> QED BY <2>1
<1>13. /\ \A i \in DOMAIN t : \E s \in DOMAIN f : t[i] = <<<<"string", s>>, ElementToLua(f[s])>>
       /\ \A s \in DOMAIN f : \E i \in DOMAIN t : t[i] = <<<<"string", s>>, ElementToLua(f[s])>>
  BY <1>6, <1>9, <1>11, ExactObjectTables
<1>14. \A i \in DOMAIN e : e[i] = <<<<"string", name(i)>>, ElementToLua(f[name(i)])>>
  BY <1>1, <1>2, <1>5
<1>15. Range(t) \subseteq Range(e)
  <2> SUFFICES ASSUME NEW i \in DOMAIN t  PROVE \E k \in DOMAIN e : e[k] = t[i]
    BY DEF Range
  <2>1. PICK s \in DOMAIN f : t[i] = <<<<"string", s>>, ElementToLua(f[s])>>
    BY <1>13
  <2>2. PICK k \in DOMAIN e : name(k) = s
    BY <1>6, <1>7
  <2> QED BY <1>14, <2>1, <2>2, Zenon
<1>16. Range(e) \subseteq Range(t)
  <2> SUFFICES ASSUME NEW k \in DOMAIN e  PROVE \E i \in DOMAIN t : t[i] = e[k]
    BY DEF Range
  <2>1. name(k) \in DOMAIN f
    BY <1>5, <1>6
  <2>2. PICK i \in DOMAIN t : t[i] = <<<<"string", name(k)>>, ElementToLua(f[name(k)])>>
    BY <1>13, <2>1
  <2> QED BY <1>14, <2>2, Zenon
<1>17. Data(v) = t
  BY <1>12, Pairs
<1> QED BY <1>15, <1>16, <1>17

TextFromWriter ==
  writer # None => /\ writer \in LuaValues
                   /\ \E u \in Undefined : text = Dump(LuaToJson(writer, u)) /\ text # Raises

LEMMA JsonStepWriter == JsonTypeOK /\ TextFromWriter /\ [JsonNext]_jsonVars => TextFromWriter'
<1> SUFFICES ASSUME JsonTypeOK, TextFromWriter, [JsonNext]_jsonVars  PROVE TextFromWriter'
  OBVIOUS
<1>1. CASE UNCHANGED <<text, writer>>
  BY <1>1 DEF TextFromWriter
<1>2. CASE NewText
  BY <1>2 DEF NewText, TextFromWriter
<1>3. ASSUME NEW u \in Undefined, JsonStringify(u)  PROVE TextFromWriter'
  <2>1. CASE Dump(LuaToJson(held, u)) = Raises
    BY <1>1, <1>3, <2>1 DEF JsonStringify, CallRaises
  <2>2. CASE Dump(LuaToJson(held, u)) # Raises
    <3>1. text' = Dump(LuaToJson(held, u)) /\ writer' = held
      BY <1>3, <2>2 DEF JsonStringify
    <3> QED BY <2>2, <3>1 DEF TextFromWriter, JsonTypeOK
  <2> QED BY <2>1, <2>2
<1>4. ASSUME NEW u \in Undefined, Telemetry(u)  PROVE UNCHANGED <<text, writer>>
  BY <1>4 DEF Telemetry, CallRaises
<1> QED BY <1>1, <1>2, <1>3, <1>4 DEF JsonNext, NewValue, JsonParse, jsonVars

LEMMA ValueComesBackStep ==
  ASSUME TextFromWriter, JsonParse, writer # None
  PROVE  /\ ExactValue(writer) => held' = writer
         /\ ExactTable(writer) => Range(Data(held')) = Range(Data(writer))
<1>1. PICK u \in Undefined : text = Dump(LuaToJson(writer, u)) /\ text # Raises
  BY DEF TextFromWriter
<1>2. u \in Int /\ writer \in LuaValues /\ held' \in JsonToLua(text)
  BY LuaJsonAssumption DEF TextFromWriter, JsonParse
<1>3. ASSUME ExactValue(writer)  PROVE held' = writer
  <2>1. writer \in LuaScalars /\ Type(writer) # "table"
    BY <1>2, <1>3, LuaValueCases DEF ExactValue
  <2> DEFINE x == ScalarToJson(writer, u)
  <2>2. x \in JsonScalars /\ Dumped(x) = x /\ ElementToLua(x) = writer
    BY <1>2, <1>3, <2>1, ValueComesBack
  <2>3. text = x
    BY <1>1, <2>1, <2>2, DumpOfScalar DEF LuaToJson
  <2>4. JsonToLua(x) = {ElementToLua(x)}
    <3>1. Type(x) \notin {"array", "object"}
      BY <2>2, JsonScalarCases
    <3> QED BY <3>1 DEF JsonToLua
  <2> QED BY <1>2, <2>2, <2>3, <2>4
<1>4. ASSUME ExactTable(writer)  PROVE Range(Data(held')) = Range(Data(writer))
  <2> DEFINE e == Data(writer)
  <2>1. e \in LuaTables /\ writer = <<"table", e>>
    BY <1>2, <1>4, LuaValueCases DEF ExactTable
  <2> HIDE DEF e
  <2>0. /\ ExactTable(<<"table", e>>)
        /\ Dump(LuaToJson(<<"table", e>>, u)) # Raises
        /\ held' \in JsonToLua(Dump(LuaToJson(<<"table", e>>, u)))
    BY <1>1, <1>2, <1>4, <2>1, Zenon
  <2>2. CASE \A i \in DOMAIN e : Type(Key(e[i])) = "string" /\ ExactString(Data(Key(e[i])))
    <3>1. Range(Data(held')) = Range(e)
      BY <1>2, <2>1, <2>2, <2>0, MapComesBack
    <3> QED BY <3>1 DEF e
  <2>3. CASE e # <<>> /\ \A i \in DOMAIN e : Key(e[i]) = <<"number", 4 * i>>
    <3>1. Data(held') = e
      BY <1>2, <2>1, <2>3, <2>0, ListComesBack
    <3> QED BY <3>1 DEF e
  <2>4. e = <<>> => DOMAIN e = {}
    OBVIOUS
  <2> QED BY <1>4, <2>2, <2>3, <2>4 DEF ExactTable, e
<1> QED BY <1>3, <1>4

(* json_parse(json_stringify(v)) is v for every value v in which nothing   *)
(* is narrowed: a table comes back with the same entries                   *)
(* (lua_value_to_json, lua_json_to_value).                                 *)
THEOREM ExactValuesComeBack == JsonSpec => ExactValueComesBack
<1>1. JsonInit => TextFromWriter
  BY DEF JsonInit, TextFromWriter
<1>2. TextFromWriter /\ [JsonNext]_jsonVars
        => [JsonParse /\ writer # None =>
              /\ ExactValue(writer) => held' = writer
              /\ ExactTable(writer) => Range(Data(held')) = Range(Data(writer))]_jsonVars
  BY ValueComesBackStep
<1> QED BY <1>1, <1>2, JsonInitType, JsonStepType, JsonStepWriter, PTL DEF JsonSpec, ExactValueComesBack
=============================================================================
