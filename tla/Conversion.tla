----------------------------- MODULE Conversion -----------------------------
(***************************************************************************)
(* How values cross between JavaScript and the DATEX core: DIFHandler's    *)
(* convertJSValueToDIFValueContainer in one direction, resolveDIFValue and *)
(* resolvePointerAddress in the other, where a value may have to wait for  *)
(* pointers that the core has yet to load.                                 *)
(*                                                                         *)
(* A JavaScript value is a record of its kind and its content; the content *)
(* of a Map or a plain object is the sequence of its entries.  A promise   *)
(* is represented by what it waits for: "load" for the core, "binding" for *)
(* the content of a pointer, "all" for the elements of a list.             *)
(*                                                                         *)
(* Recursion over values is by recursive functions, whose domains are sets *)
(* of values that nest at most Depth deep, counted through pointers.       *)
(***************************************************************************)
EXTENDS Naturals, Sequences

CONSTANTS
  Address,   \* pointer addresses
  Content,   \* the DIF container behind each address
  Payload,   \* numbers, texts and names, as they are written
  Nothing,   \* in place of these, for null and undefined
  Depth      \* how deep values nest

-----------------------------------------------------------------------------
(* DIF: a container is an address, or a value with or without a type.      *)

Container(type, value) == [type |-> type, value |-> value]
Untyped(value) == Container("inferred", value)
JSON(kind, of) == [json |-> kind, of |-> of]

\* The representation of a list of pairs, and back.
ArrayOfPairs(pairs) == JSON("array", [i \in DOMAIN pairs |-> JSON("array", pairs[i])])
PairsIn(arrays) == [i \in DOMAIN arrays |-> arrays[i].of]

\* Types of a primitive that fix what it becomes, whatever carries it.
KindOfType == [boolean |-> "boolean", text |-> "text", null |-> "null",
               integer |-> "number", ibig |-> "bigint", decimal |-> "number",
               endpoint |-> "endpoint", undefined |-> "undefined"]

\* Representation values: of primitives, of lists of S, of entries of maps, of objects.
Primitives == [json : {"null", "boolean", "number", "string"}, of : Payload]
ArraysOf(S) == [json : {"array"}, of : Seq(S)]
PairsOf(S) == [json : {"array"}, of : S \X S]
ObjectsOf(S) == [json : {"object"}, of : Seq(Payload \X S)]

\* The values whose parts are in S; "unit" is a type without a JavaScript value.
DIFValues(S) ==
  [type : DOMAIN KindOfType \cup {"inferred", "unit"}, value : Primitives]
    \cup [type : {"inferred", "list"}, value : ArraysOf(S)]
    \cup [type : {"inferred", "map"}, value : ArraysOf(PairsOf(S)) \cup ObjectsOf(S)]

ContainersOver(S) == {a \in Address : Content[a] \in S} \cup DIFValues(S)
Containers[n \in 0 .. Depth] == IF n = 0 THEN {} ELSE ContainersOver(Containers[n - 1])

DIFValueContainer == Containers[Depth]

\* The addresses of pointers that nest at most n deep.
Known(n) == Address \cap Containers[n]

\* Array.isArray of an element of a representation value.
IsArray(x) == x \notin Address /\ "json" \in DOMAIN x /\ x.json = "array"

-----------------------------------------------------------------------------
(* JavaScript values.                                                      *)

Value(kind, of) == [is |-> kind, of |-> of]

\* The object that is bound to address a.
Reference(a) == Value("reference", a)

\* What a resolve of a returns: the object that the cache has for a or, when it has none,
\* the content itself, which initReference has just bound: the original of a proxy, or
\* what a Ref was made for, which is not bound to a.
Pointed(a) == Value("pointed", a)

Thrown == Value("thrown", <<>>)
Rejected == Value("rejected", <<>>)

\* `instanceof Promise`.
IsPromise(v) == v.is \in {"load", "binding", "all", "rejected"}

Pending(v) == IsPromise(v) /\ v.is # "rejected"

\* A promise that is stored as it is, in a Map or an object, stays a promise
\* there whatever comes of it.
Stored(v) == IF IsPromise(v) THEN Value("promise", v) ELSE v

\* Keys of a Map that are the same key; objects are told apart even if they look the same.
SameKey(k, l) == k = l /\ k.is \notin {"array", "Map", "object", "promise"}
Distinct(es) == \A i, j \in DOMAIN es : SameKey(es[i][1], es[j][1]) => i = j

LeafValues(n) ==
  [is : {"null", "undefined", "boolean", "number", "bigint", "text", "endpoint", "function"},
   of : Payload] \cup [is : {"reference"}, of : Known(n)]

\* What a program has that does not come from here: no promises.
PlainOver(n, S) ==
  LeafValues(n) \cup [is : {"array"}, of : Seq(S)]
    \cup [is : {"Map"}, of : {es \in Seq(S \X S) : Distinct(es)}]
    \cup [is : {"object"}, of : Seq(Payload \X S)]
PlainValues[n \in 0 .. Depth] == IF n = 0 THEN {} ELSE PlainOver(n, PlainValues[n - 1])

NoPromises(S) == {v \in S : ~IsPromise(v)}
Entered(S) == NoPromises(S) \cup [is : {"promise"}, of : S]

\* Results, whose Maps and objects may contain promises, and promises.
ValuesOver(n, S) ==
  LeafValues(n) \cup [is : {"array"}, of : Seq(NoPromises(S))]
    \cup [is : {"Map"}, of : Seq(Entered(S) \X Entered(S))]
    \cup [is : {"object"}, of : Seq(Payload \X Entered(S))]
    \cup [is : {"pointed", "load"}, of : Known(n)]
    \cup [is : {"binding"}, of : Known(n) \X (S \ NoPromises(S))]
    \cup [is : {"all"}, of : Seq(S)] \cup {Rejected}
Values[n \in 0 .. Depth] == IF n = 0 THEN {} ELSE ValuesOver(n, Values[n - 1])

JSValue == Values[Depth]

\* The values that are directly inside v, not counting promises stored there.
Children(v) ==
  CASE v.is = "array" -> {v.of[i] : i \in DOMAIN v.of}
    [] v.is = "Map" -> {v.of[i][1] : i \in DOMAIN v.of} \cup {v.of[i][2] : i \in DOMAIN v.of}
    [] v.is = "object" -> {v.of[i][2] : i \in DOMAIN v.of}
    [] OTHER -> {}
Parts(v) == {x \in Children(v) : x.is # "promise"}

\* f of every element, of every key and value, of every value.
EachElement(f, xs) == [i \in DOMAIN xs |-> f[xs[i]]]
EachEntry(f, es) == [i \in DOMAIN es |-> <<f[es[i][1]], f[es[i][2]]>>]
EachProperty(f, ps) == [i \in DOMAIN ps |-> <<ps[i][1], f[ps[i][2]]>>]

\* Everything nests at most Depth deep, and addresses are told apart from the rest.
ASSUME ConversionAssumption ==
  /\ Depth \in Nat \ {0} /\ Nothing \in Payload
  /\ \A a \in Address : a \in DIFValueContainer
  /\ \A a \in Address : a \notin DIFValues(DIFValueContainer) \cup PairsOf(DIFValueContainer)

-----------------------------------------------------------------------------
(* From JavaScript to DIF.                                                 *)

\* Mutation: a Map is sent without its type.
ConvertMapUntyped(pairs) == Untyped(ArrayOfPairs(pairs))

ConvertMap(pairs) == Container("map", ArrayOfPairs(pairs))

\* Functions have no representation; all else that occurs here has one.
ConvertAtom(v) ==
  CASE v.is \in {"null", "boolean", "number"} -> Untyped(JSON(v.is, v.of))
    [] v.is = "text" -> Untyped(JSON("string", v.of))
    [] v.is = "undefined" -> Container("undefined", JSON("null", v.of))
    [] v.is = "bigint" -> Container("ibig", JSON("string", v.of))
    [] v.is = "endpoint" -> Container("endpoint", JSON("string", v.of))
    [] OTHER -> Thrown

\* What belongs to a reference goes by its address, whatever it contains.
ConvertWith(convert, v) ==
  IF \E x \in Children(v) : convert[x] = Thrown THEN Thrown
  ELSE CASE v.is = "reference" -> v.of
         [] v.is = "array" -> Untyped(JSON("array", EachElement(convert, v.of)))
         [] v.is = "Map" -> ConvertMap(EachEntry(convert, v.of))
         [] v.is = "object" -> Untyped(JSON("object", EachProperty(convert, v.of)))
         [] OTHER -> ConvertAtom(v)

ConvertJSValueToDIF[v \in PlainValues[Depth]] == ConvertWith(ConvertJSValueToDIF, v)

-----------------------------------------------------------------------------
(* From DIF to JavaScript, given the pointers that the core has in memory. *)

\* A value without a type: an array of arrays holds the entries of a map, and
\* any other array is a list, the elements of a list being containers.
InferredType(d) ==
  IF d.type # "inferred" THEN d.type
  ELSE CASE d.value.json = "array" ->
              IF d.value.of # <<>> /\ IsArray(Head(d.value.of)) THEN "map" ELSE "list"
         [] d.value.json = "object" -> "object"
         [] OTHER -> "primitive"

\* promiseAllOrSync: a list with a promise among its elements is one promise,
\* which is rejected as soon as one of the elements is.
PromiseAllOrSync(vs) ==
  IF \E i \in DOMAIN vs : vs[i] = Thrown THEN Thrown
  ELSE IF \E i \in DOMAIN vs : vs[i] = Rejected THEN Rejected
  ELSE IF \E i \in DOMAIN vs : Pending(vs[i]) THEN Value("all", vs)
  ELSE Value("array", vs)

\* Map.set.
SetEntry(es, e) ==
  LET same == {i \in DOMAIN es : SameKey(es[i][1], e[1])}
  IN  IF same = {} THEN Append(es, e)
      ELSE [i \in DOMAIN es |-> IF i \in same THEN e ELSE es[i]]

\* The entries of a Map after these have been set one after the other.
SetEntries(es) ==
  LET after[n \in 0 .. Len(es)] == IF n = 0 THEN <<>> ELSE SetEntry(after[n - 1], es[n])
  IN  after[Len(es)]

\* Maps and objects take their keys and values as they come.
MapOf(es) ==
  IF \E i \in DOMAIN es : Thrown \in {es[i][1], es[i][2]} THEN Thrown
  ELSE Value("Map", SetEntries([i \in DOMAIN es |-> <<Stored(es[i][1]), Stored(es[i][2])>>]))

ObjectOf(ps) ==
  IF \E i \in DOMAIN ps : ps[i][2] = Thrown THEN Thrown
  ELSE Value("object", [i \in DOMAIN ps |-> <<ps[i][1], Stored(ps[i][2])>>])

\* Mutation: the pointer is initialised before its content is there.
BindAtOnce(a, v) == IF v = Thrown THEN Thrown ELSE Pointed(a)

\* Mutation: the promise for the pointer is not rejected with its content's.
BindWithoutRejecting(a, v) ==
  CASE v = Thrown -> Thrown
    [] IsPromise(v) -> Value("binding", <<a, v>>)
    [] OTHER -> Pointed(a)

\* The cache check and mapPromise around initReference: pointer a, whose content is v.
Bind(a, v) ==
  CASE v \in {Thrown, Rejected} -> v
    [] Pending(v) -> Value("binding", <<a, v>>)
    [] OTHER -> Pointed(a)

PrimitiveKind(json) == IF json = "string" THEN "text" ELSE json

\* The entries of a map that is represented by an object.
TextEntries(f, ps) == [i \in DOMAIN ps |-> <<Value("text", ps[i][1]), f[ps[i][2]]>>]

ResolveDIFValue(resolve, d) ==
  LET type == InferredType(d)
      items == d.value.of
  IN CASE type = "primitive" -> Value(PrimitiveKind(d.value.json), items)
       [] type \in DOMAIN KindOfType -> Value(KindOfType[type], items)
       [] type = "list" -> PromiseAllOrSync(EachElement(resolve, items))
       [] type = "map" /\ d.value.json = "array" ->
            MapOf(EachEntry(resolve, PairsIn(items)))
       [] type = "map" /\ d.value.json = "object" ->
            MapOf(TextEntries(resolve, items))
       [] type = "object" -> ObjectOf(EachProperty(resolve, items))
       [] OTHER -> Thrown

ResolvePointerAddress(resolve, a, memory) ==
  IF a \in memory THEN Bind(a, resolve[Content[a]]) ELSE Value("load", a)

ResolveDIFValueContainer(d, memory) ==
  LET resolve[x \in DIFValueContainer] ==
        IF x \in Address THEN ResolvePointerAddress(resolve, x, memory)
        ELSE ResolveDIFValue(resolve, x)
  IN  resolve[d]

\* An exception in a continuation rejects its promise.
Caught(v) == IF v = Thrown THEN Rejected ELSE v

\* v is inside a Map or an object.
SettleEntered(settle, v) ==
  IF v.is = "promise" THEN Value("promise", settle[v.of]) ELSE settle[v]

SettleWith(settle, v, a, loaded, memory) ==
  CASE v.is = "load" /\ v.of = a ->
         IF loaded THEN Caught(Bind(a, ResolveDIFValueContainer(Content[a], memory)))
         ELSE Rejected
    [] v.is = "binding" -> Bind(v.of[1], settle[v.of[2]])
    [] v.is = "all" -> PromiseAllOrSync(EachElement(settle, v.of))
    [] v.is = "array" -> Value("array", EachElement(settle, v.of))
    [] v.is = "Map" ->
         Value("Map", [i \in DOMAIN v.of |-> <<SettleEntered(settle, v.of[i][1]),
                                               SettleEntered(settle, v.of[i][2])>>])
    [] v.is = "object" ->
         Value("object", [i \in DOMAIN v.of |-> <<v.of[i][1], SettleEntered(settle, v.of[i][2])>>])
    [] OTHER -> v

\* What happens to v when the core has loaded a, or has failed to: the
\* continuations of the promises in v that wait for a run, and those that
\* they settle in turn.
Settle(v, a, loaded, memory) ==
  LET settle[x \in JSValue] == SettleWith(settle, x, a, loaded, memory)
  IN  IF v = Thrown THEN v ELSE settle[v]

=============================================================================
