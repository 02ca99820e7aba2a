----------------------------- MODULE MCExecution -----------------------------
EXTENDS Execution, TLC

CONSTANTS a1, a2, a3, c1, one, two, k

Number(n) == Untyped(JSON("number", n))
Text(t) == Untyped(JSON("string", t))
List(cs) == Untyped(JSON("array", cs))
Pair(x, y) == JSON("array", <<x, y>>)

\* A list that refers to another pointer, which holds a number; a map that
\* refers to the list.
MCContent ==
  (a1 :> List(<<a2, Number(one)>>)) @@ (a2 :> Number(one)) @@
  (a3 :> Container("map", JSON("array", <<Pair(Text(k), a1)>>)))

Atoms == {Value("null", Nothing), Value("undefined", Nothing), Value("boolean", one),
          Value("number", one), Value("bigint", one), Value("text", one),
          Value("endpoint", one)}
Leaves == Atoms \cup {Value("function", Nothing), Reference(a1)}
Keys == {Value("number", one), Value("bigint", one), Value("text", one), Reference(a1)}

Arrays(S) == {Value("array", <<>>)} \cup {Value("array", <<x>>) : x \in S}
Pairs(S) == {Value("array", <<x, y>>) : x, y \in S}
Objects(S) == {Value("object", <<>>)} \cup {Value("object", <<<<k, x>>>>) : x \in S}
Maps(S) == {Value("Map", <<>>)} \cup {Value("Map", <<<<l, x>>>>) : l \in Keys, x \in S}
MapsOfTwo == {Value("Map", <<<<m, Value("text", one)>>, <<l, Value("null", Nothing)>>>>) :
                m \in Keys, l \in {Value("text", two), Value("number", two), Value("array", <<>>)}}

Flat == Leaves \cup Arrays(Leaves) \cup Objects(Leaves) \cup Maps(Leaves)
Shapes == {Value("array", <<>>), Value("object", <<>>), Value("Map", <<>>),
           Value("array", <<Value("array", <<Value("number", one)>>)>>),
           Value("Map", <<<<Value("number", one), Value("array", <<>>)>>>>),
           Value("undefined", Nothing)}
MCGiven == Flat \cup Arrays(Flat) \cup Pairs(Shapes) \cup Objects(Shapes) \cup Maps(Shapes) \cup MapsOfTwo

MCResults ==
  {a1, a2, a3, List(<<a1, a2>>), List(<<a2, a1, Number(one)>>), List(<<List(<<a1>>), a3>>),
   List(<<Pair(Number(one), a2), Pair(Container("integer", JSON("string", one)), a1)>>),
   Container("map", JSON("object", <<<<k, a2>>>>)), Untyped(JSON("object", <<<<k, a1>>>>)),
   List(<<a1, Container("unit", JSON("null", Nothing))>>),
   List(<<Untyped(JSON("object", <<<<k, a2>>>>)), a1>>)}
=============================================================================
