------------------------------ MODULE LuaJson ------------------------------
(***************************************************************************)
(* lua-utils.cpp and its callers: a Lua value becomes JSON for             *)
(* json_stringify and telemetry, and JSON becomes a Lua value for          *)
(* json_parse.  One script holds a value and a text, one telemetry key is  *)
(* cached by the controller.  A call that raises a Lua error or lets a C++ *)
(* exception out changes nothing but "raised".                             *)
(*                                                                         *)
(* Lua values and JSON values are tuples of a type and its data.  A Lua    *)
(* "number" and a JSON "float" are counted in quarters, so that there are  *)
(* fractions, and a float of C keeps halves.  A Lua table is the sequence  *)
(* of its entries, pairs of a key and a value, in the order of lua_next.   *)
(* What a table or container inside another one holds is left out:         *)
(* lua_value_to_json raises on it, and nothing else here looks into it.    *)
(***************************************************************************)
EXTENDS Integers, Sequences, FiniteSets, Functions

CONSTANTS
  IntHalf,     \* int is -IntHalf .. IntHalf - 1, unsigned int 0 .. 2 * IntHalf - 1;
               \* lua_Integer and int64_t hold every number here
  Strings, NotUtf8,
  Cut,         \* what is left of a string as a C string: up to its first zero
  Undefined,   \* what the cast of an infinity to int64_t may give (UB)
  Values,      \* Lua values the script makes
  Texts        \* JSON texts the script has

VARIABLES
  held,      \* the value the script holds
  text,      \* the text the script holds
  cached,    \* m_telemetry_data of one key
  raised,    \* the last call raised
  source,    \* history: the text that held was parsed from
  writer,    \* history: the value that text was written from
  latest     \* history: the value of the last telemetry() that returned

jsonVars == <<held, text, cached, raised, source, writer, latest>>

None == <<"none">>
Nil == <<"nil">>
Null == <<"null">>
NaN == <<"nan">>
Discarded == <<"discarded">>
Raises == <<"raises">>

Type(x) == x[1]
Data(x) == x[2]
Key(entry) == entry[1]
Value(entry) == entry[2]

IsWhole(n) == n % 4 = 0

LuaScalars ==
  {Nil, NaN, <<"infinity">>, <<"function">>}
    \cup ({"boolean"} \X BOOLEAN) \cup ({"number"} \X Int) \cup ({"string"} \X Strings)

InnerTable == <<"table">>

(* No entry of a table has the key nil or NaN, or the value nil.           *)
LuaEntries == (LuaScalars \ {Nil, NaN}) \X ((LuaScalars \ {Nil}) \cup {InnerTable})

(* A table has one value for a key.                                        *)
LuaTables ==
  {entries \in Seq(LuaEntries) :
     \A i, j \in DOMAIN entries : Key(entries[i]) = Key(entries[j]) => i = j}

LuaValues == LuaScalars \cup ({"table"} \X LuaTables)

JsonScalars ==
  {Null} \cup ({"boolean"} \X BOOLEAN) \cup ({"integer"} \X Int)
    \cup ({"float"} \X Int) \cup ({"string"} \X Strings)

InnerContainers == {<<"array">>, <<"object">>}

IsObject(f, S) == f \in [DOMAIN f -> S] /\ DOMAIN f \subseteq Strings /\ IsFiniteSet(DOMAIN f)

IsContainerOf(j, S) ==
  \/ Type(j) = "array" /\ j = <<"array", Data(j)>> /\ Data(j) \in Seq(S)
  \/ Type(j) = "object" /\ j = <<"object", Data(j)>> /\ IsObject(Data(j), S)

IsFlatJson(j) == j \in JsonScalars \/ IsContainerOf(j, JsonScalars)

IsJson(j) == j \in JsonScalars \/ IsContainerOf(j, JsonScalars \cup InnerContainers)

ASSUME LuaJsonAssumption ==
  /\ IntHalf \in Nat \ {0}
  /\ NotUtf8 \subseteq Strings
  /\ Cut \in [Strings -> Strings]
  /\ Undefined \subseteq Int
  /\ Values \subseteq LuaValues
  /\ \A t \in Texts : IsJson(t) \/ t = Discarded

-----------------------------------------------------------------------------
(* From Lua to JSON. *)

(* "u" is what the cast of an infinity gives.  lua_toboolean gives an int, *)
(* so a boolean becomes the integer 0 or 1.                                *)
ScalarToJson(v, u) ==
  CASE Type(v) \in {"nil", "function"} -> Null
    [] Type(v) = "boolean"  -> <<"integer", IF Data(v) THEN 1 ELSE 0>>
    [] Type(v) = "nan"      -> v
    [] Type(v) = "number"   -> IF IsWhole(Data(v)) THEN <<"integer", Data(v) \div 4>>
                               ELSE <<"float", Data(v)>>
    [] Type(v) = "infinity" -> <<"integer", u>>
    [] Type(v) = "string"   -> <<"string", Cut[Data(v)]>>

(* A table with a value at 1 is an array of all its values, whatever their *)
(* keys.                                                                   *)
IsArray(entries) == \E i \in DOMAIN entries : Key(entries[i]) = <<"number", 4>>

(* A table inside a table is converted with index -1, where the key 1 has  *)
(* just been pushed: lua_gettable indexes a number.  luaL_checkstring      *)
(* raises on a key that is neither a string nor a number, and turns a      *)
(* number into a string where it stands, so that the next lua_next raises. *)
NotConverted(entries) ==
  \/ \E i \in DOMAIN entries : Value(entries[i]) = InnerTable
  \/ ~IsArray(entries) /\ \E i \in DOMAIN entries : Type(Key(entries[i])) # "string"

(* Keys are C strings: of two that are alike up to a zero, the last one    *)
(* stands.                                                                 *)
CutKey(entry) == Cut[Data(Key(entry))]

LastWith(entries, s) ==
  CHOOSE i \in DOMAIN entries :
    /\ CutKey(entries[i]) = s
    /\ \A j \in DOMAIN entries : CutKey(entries[j]) = s => j <= i

TableToJson(entries, u) ==
  IF NotConverted(entries) THEN Raises
  ELSE IF IsArray(entries)
  THEN <<"array", [i \in DOMAIN entries |-> ScalarToJson(Value(entries[i]), u)]>>
  ELSE <<"object", [s \in {CutKey(entries[i]) : i \in DOMAIN entries} |->
                      ScalarToJson(Value(entries[LastWith(entries, s)]), u)]>>

LuaToJson(v, u) == IF Type(v) = "table" THEN TableToJson(Data(v), u) ELSE ScalarToJson(v, u)

(* dump() writes NaN as null and throws on a string that is not UTF-8.     *)
DumpedAsIs(x) == x                                                 \* mutant

Dumped(x) == IF x = NaN THEN Null ELSE x

IsContainer(j) == Type(j) \in {"array", "object"}

Members(j) == IF IsContainer(j) THEN Range(Data(j)) ELSE {j}

HasBadString(j) ==
  \/ \E x \in Members(j) : Type(x) = "string" /\ Data(x) \in NotUtf8
  \/ Type(j) = "object" /\ DOMAIN Data(j) \cap NotUtf8 # {}

Dump(j) ==
  IF j = Raises THEN Raises
  ELSE IF HasBadString(j) THEN Raises
  ELSE IF IsContainer(j) THEN <<Type(j), [i \in DOMAIN Data(j) |-> Dumped(Data(j)[i])]>>
  ELSE Dumped(j)

-----------------------------------------------------------------------------
(* From JSON to Lua. *)

Signed(n) == ((n + IntHalf) % (2 * IntHalf)) - IntHalf

Unsigned(n) == n % (2 * IntHalf)

AlwaysSigned(n) == Signed(n)                                       \* mutant

(* The parser keeps a whole number that is not negative as unsigned.       *)
Integer(n) == IF n >= 0 THEN Unsigned(n) ELSE Signed(n)

(* double to float: to the nearest half, a tie to the even one.            *)
Float(n) == IF n % 2 = 0 THEN n ELSE IF n % 4 = 1 THEN n - 1 ELSE n + 1

ElementToLua(j) ==
  CASE j \in {Null, Discarded} -> Nil
    [] Type(j) = "boolean" -> j
    [] Type(j) = "integer" -> <<"number", 4 * Integer(Data(j))>>
    [] Type(j) = "float"   -> <<"number", Float(Data(j))>>
    [] Type(j) = "string"  -> <<"string", Cut[Data(j)]>>
    [] IsContainer(j)      -> InnerTable

(* The orders in which lua_next may give the entries of a table.           *)
Listings(S) == Bijection(1 .. Cardinality(S), S)

FromZero(i) == <<"number", 4 * (i - 1)>>                           \* mutant

Position(i) == <<"number", 4 * i>>

(* lua_settable with nil leaves no entry.  An array without nulls fills    *)
(* the array part of its table, which lua_next gives from 1 on.            *)
ArrayTables(s) ==
  LET entry(i) == <<Position(i), ElementToLua(s[i])>>
      filled   == {i \in DOMAIN s : ElementToLua(s[i]) # Nil}
  IN  IF filled = DOMAIN s THEN {[i \in DOMAIN s |-> entry(i)]}
      ELSE Listings({entry(i) : i \in filled})

(* For each C string, a key that is cut to it: the last one in the order   *)
(* of the map.                                                             *)
Winners(f) ==
  {w \in [{Cut[k] : k \in DOMAIN f} -> DOMAIN f] : \A s \in DOMAIN w : Cut[w[s]] = s}

ObjectTables(f) ==
  UNION {LET filled == {s \in DOMAIN w : ElementToLua(f[w[s]]) # Nil}
         IN  Listings({<<<<"string", s>>, ElementToLua(f[w[s]])>> : s \in filled}) : w \in Winners(f)}

JsonToLua(j) ==
  CASE Type(j) = "array"  -> {"table"} \X ArrayTables(Data(j))
    [] Type(j) = "object" -> {"table"} \X ObjectTables(Data(j))
    [] OTHER              -> {ElementToLua(j)}

-----------------------------------------------------------------------------
(* Comparison of JSON values: NaN and a number are unordered, so that both *)
(* == and != are false; two containers are equal if their members are.     *)

IsNumber(j) == Type(j) \in {"integer", "float", "nan"}

Unordered(a, b) == IsNumber(a) /\ IsNumber(b) /\ NaN \in {a, b}

Equal(a, b) == a = b /\ NaN \notin Members(a)

DiffersInType(a, b) == Type(a) # Type(b)                           \* mutant

Differs(a, b) == ~Unordered(a, b) /\ ~Equal(a, b)

-----------------------------------------------------------------------------
JsonInit ==
  /\ held = Nil
  /\ text \in Texts
  /\ cached = None
  /\ raised = FALSE
  /\ source = None
  /\ writer = None
  /\ latest = None

NewValue ==
  /\ held' \in Values
  /\ source' = None
  /\ raised' = FALSE
  /\ UNCHANGED <<text, cached, writer, latest>>

NewText ==
  /\ text' \in Texts
  /\ writer' = None
  /\ raised' = FALSE
  /\ UNCHANGED <<held, cached, source, latest>>

CallRaises == raised' = TRUE /\ UNCHANGED <<held, text, cached, source, writer, latest>>

JsonStringify(u) ==
  LET written == Dump(LuaToJson(held, u))
  IN  IF written = Raises THEN CallRaises
      ELSE /\ text' = written
           /\ writer' = held
           /\ raised' = FALSE
           /\ UNCHANGED <<held, cached, source, latest>>

JsonParse ==
  /\ held' \in JsonToLua(text)
  /\ source' = text
  /\ raised' = FALSE
  /\ UNCHANGED <<text, cached, writer, latest>>

Telemetry(u) ==
  LET value == LuaToJson(held, u)
  IN  IF value = Raises THEN CallRaises
      ELSE /\ cached' = IF cached = None \/ Differs(cached, value) THEN value ELSE cached
           /\ latest' = value
           /\ raised' = FALSE
           /\ UNCHANGED <<held, text, source, writer>>

JsonNext ==
  \/ NewValue
  \/ NewText
  \/ \E u \in Undefined : JsonStringify(u) \/ Telemetry(u)
  \/ JsonParse

JsonSpec == JsonInit /\ [][JsonNext]_jsonVars

-----------------------------------------------------------------------------
(* Properties. *)

(* A text that json_stringify wrote is JSON and holds no container inside  *)
(* another; what json_parse makes of a text is a Lua value, with one value *)
(* for each key of a table.                                                *)
JsonTypeOK ==
  /\ held \in LuaValues
  /\ IsJson(text) \/ text = Discarded
  /\ writer # None => IsFlatJson(text)
  /\ IsJson(source) \/ source \in {Discarded, None}
  /\ cached = None <=> latest = None
  /\ raised \in BOOLEAN

(* What survives the way into Lua and back: no boolean, which comes back   *)
(* as 0 or 1, no number that int, unsigned int or float narrow, no string  *)
(* with a zero, in a container no null and no other container, and not the *)
(* empty array.                                                            *)
ExactString(s) == Cut[s] = s /\ s \notin NotUtf8

ExactScalar(t) ==
  \/ Type(t) = "integer" /\ Data(t) \in -IntHalf .. 2 * IntHalf - 1
  \/ Type(t) = "float" /\ Float(Data(t)) = Data(t) /\ ~IsWhole(Data(t))
  \/ Type(t) = "string" /\ ExactString(Data(t))

Exact(t) ==
  \/ t = Null
  \/ ExactScalar(t)
  \/ /\ IsContainer(t)
     /\ t # <<"array", <<>>>>
     /\ \A x \in Members(t) : ExactScalar(x)
     /\ Type(t) = "object" => \A k \in DOMAIN Data(t) : ExactString(k)

(* json_stringify(json_parse(t)) is t, for every text t that holds none of *)
(* these (lua_json_to_value and lua_value_to_json are inverse there).      *)
ExactTextComesBack ==
  [][(\E u \in Undefined : JsonStringify(u)) /\ source # None /\ Exact(source)
       => ~raised' /\ text' = source]_jsonVars

ExactValue(v) ==
  \/ Type(v) = "nil"
  \/ Type(v) = "number" /\ ExactScalar(ScalarToJson(v, 0))
  \/ Type(v) = "string" /\ ExactString(Data(v))

ExactTable(v) ==
  /\ Type(v) = "table"
  /\ \A i \in DOMAIN Data(v) : ExactValue(Value(Data(v)[i]))
  /\ \/ \A i \in DOMAIN Data(v) : Type(Key(Data(v)[i])) = "string" /\ ExactString(Data(Key(Data(v)[i])))
     \/ \A i \in DOMAIN Data(v) : Key(Data(v)[i]) = <<"number", 4 * i>>

(* json_parse(json_stringify(v)) is v, for every value v without a boolean *)
(* or a function in which nothing is narrowed: also a list whose keys      *)
(* lua_next gives in their order, and an empty table.                      *)
ExactValueComesBack ==
  [][JsonParse /\ writer # None =>
       /\ ExactValue(writer) => held' = writer
       /\ ExactTable(writer) => Range(Data(held')) = Range(Data(writer))]_jsonVars

(* The controller has cached what the value of the last telemetry() call   *)
(* was converted to; only NaN keeps a number from replacing it, and is     *)
(* kept out by one (lua_value_to_json, publishTelemetry, operator!=).      *)
CacheFollows == cached = latest \/ Unordered(cached, latest)
=============================================================================
