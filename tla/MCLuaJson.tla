----------------------------- MODULE MCLuaJson -----------------------------
(* Values and texts for LuaJson: ints of 3 bits (-4 .. 3, unsigned 0 .. 7), *)
(* a string cut at a zero and one that is not UTF-8.                       *)
EXTENDS LuaJson

MCStrings == {"a", "b", "a0", "bad"}
MCNotUtf8 == {"bad"}
MCCut == [s \in MCStrings |-> IF s = "a0" THEN "a" ELSE s]

Num(k) == <<"number", 4 * k>>
Str(s) == <<"string", s>>
True == <<"boolean", TRUE>>
False == <<"boolean", FALSE>>
Table(e) == <<"table", e>>

MCValues ==
  {Nil, True, False, NaN, <<"infinity">>, <<"function">>, <<"number", 6>>}
    \cup {Num(k) : k \in {-5, 1, 7}}
    \cup {Str(s) : s \in MCStrings}
    \cup {Table(e) : e \in
           {<<>>,
            <<<<Num(1), Str("a")>>, <<Num(2), Str("b")>>>>,
            <<<<Num(2), Str("b")>>, <<Num(1), Str("a")>>>>,
            <<<<Num(1), Str("a")>>, <<Str("b"), NaN>>>>,
            <<<<Num(1), NaN>>, <<Num(2), <<"function">>>>>>,
            <<<<Num(2), True>>>>,
            <<<<True, True>>>>,
            <<<<Str("a"), Num(1)>>, <<Str("b"), <<"function">>>>>>,
            <<<<Str("a"), Str("bad")>>>>,
            <<<<Str("bad"), Num(1)>>>>,
            <<<<Str("a"), InnerTable>>>>,
            <<<<Str("b"), <<"number", 6>>>>, <<Str("a"), Num(-4)>>>>,
            <<<<Str("a"), Num(2)>>, <<Str("b"), True>>, <<Str("a0"), Num(1)>>>>}}

Whole(k) == <<"integer", k>>
Array(s) == <<"array", s>>
Object(f) == <<"object", f>>

MCTexts ==
  {Null, True, Discarded, Str("a"), Str("a0"), <<"float", 1>>, <<"float", 6>>, <<"float", 8>>}
    \cup {Whole(k) : k \in {-5, -4, 7, 8}}
    \cup {Array(s) : s \in {<<>>, <<Whole(5)>>, <<Str("b"), Whole(-4), <<"float", 6>>>>, <<Whole(1), False>>,
                            <<Whole(1), Null, Whole(3)>>,
                            <<Null, Whole(1)>>, <<<<"array">>>>}}
    \cup {Object([a |-> Whole(-2)]), Object([a |-> Whole(7), b |-> <<"float", 6>>]),
          Object([a |-> Null, b |-> Whole(1)]), Object([b |-> <<"object">>]),
          Object([a |-> Null, a0 |-> True])}
=============================================================================
