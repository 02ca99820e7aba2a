------------------------------ MODULE Execution ------------------------------
(***************************************************************************)
(* Runtime.execute and executeSync: values go to the core with a script,   *)
(* the result comes back as DIF and is resolved, which may take the        *)
(* loading of pointers.  A call either runs a script that hands back the   *)
(* value it was given ("?") or, with NoValue, one whose result is in       *)
(* Results.                                                                *)
(***************************************************************************)
EXTENDS Conversion, FiniteSets

CONSTANTS
  Call,      \* calls of execute and executeSync
  Given,     \* JavaScript values that the program passes in
  Results,   \* DIF that scripts return, other than what they were given
  NoValue,   \* in place of a value of Given, for such a script
  NoResult   \* what the core returns for a script without a value

ASSUME ExecutionAssumption ==
  /\ Given \subseteq PlainValues[Depth] /\ NoValue \notin Given
  /\ Results \subseteq DIFValueContainer /\ NoResult \notin DIFValueContainer

VARIABLES
  memory,    \* the addresses the core holds in memory
  calls      \* per call: its step, what it was given, its value

vars == <<memory, calls>>

Step == {"idle", "core", "resolving", "fulfilled", "rejected"}

Idle == [step |-> "idle", given |-> NoValue, value |-> Thrown]

TypeOK ==
  /\ memory \subseteq Address
  /\ calls \in [Call -> [step : Step, given : Given \cup {NoValue}, value : JSValue \cup {Thrown}]]
  /\ \A c \in Call : calls[c].step = "resolving" => Pending(calls[c].value)

Init ==
  /\ memory \in SUBSET Address
  /\ calls = [c \in Call |-> Idle]

-----------------------------------------------------------------------------

IsText(d) == d \notin Address /\ InferredType(d) = "primitive" /\ d.value.json = "string"

\* The addresses that v mentions.
Mentioned[v \in JSValue] ==
  (IF v.is \in {"reference", "pointed"} THEN {v.of} ELSE {}) \cup UNION {Mentioned[x] : x \in Parts(v)}

\* The addresses that resolving container d waits for, directly and by way of the contents
\* of pointers; Maps and objects wait for nothing.
Needed[d \in DIFValueContainer] ==
  IF d \in Address THEN {d} \cup Needed[Content[d]]
  ELSE IF InferredType(d) # "list" THEN {}
  ELSE UNION {Needed[d.value.of[i]] : i \in DOMAIN d.value.of}

\* Whoever has a reference may use it: the core has in memory what v refers to,
\* and what that refers to in turn.
Loaded(v) == \A a \in Mentioned[v] : Needed[a] \subseteq memory

\* The program has the value: its references come from earlier calls.
Obtainable(given) == given # NoValue => Loaded(given)

Accepted(given) == given # NoValue => ConvertJSValueToDIF[given] # Thrown

\* The entries of a map whose keys are texts, as the properties of an object.
TextsToObject(echo, pairs) == [i \in DOMAIN pairs |-> <<pairs[i][1].value.of, echo[pairs[i][2]]>>]

\* What the core returns when a script hands back the value it was given: the
\* same value, except that it does not keep the type of a Map.  If all its keys
\* are texts it comes back like an object, else as untyped pairs.
EchoWith(echo, d) ==
  LET type == InferredType(d)
      items == d.value.of
      pairs == PairsIn(items)
  IN CASE type = "list" -> Untyped(JSON("array", EachElement(echo, items)))
       [] d.value.json = "object" -> Untyped(JSON("object", EachProperty(echo, items)))
       [] type = "map" /\ d.value.json = "array" ->
            Untyped(IF \A i \in DOMAIN pairs : IsText(pairs[i][1])
                    THEN JSON("object", TextsToObject(echo, pairs))
                    ELSE ArrayOfPairs(EachEntry(echo, pairs)))
       [] OTHER -> d

Echo[d \in DIFValueContainer] == IF d \in Address THEN d ELSE EchoWith(Echo, d)

\* How a promise-returning, async function goes on from a value.
Outcome(v) ==
  CASE v \in {Thrown, Rejected} -> "rejected"
    [] Pending(v) -> "resolving"
    [] OTHER -> "fulfilled"

\* resolveDIFValueContainer of a result, undefined for none.
ResultValue(d) ==
  IF d = NoResult THEN Value("undefined", Nothing) ELSE ResolveDIFValueContainer(d, memory)

-----------------------------------------------------------------------------

\* What the core may return to a script run with given.
Returned(given) ==
  IF given = NoValue THEN Results \cup {NoResult} ELSE {Echo[ConvertJSValueToDIF[given]]}

\* execute: the values are converted at once, then the core is awaited.
Execute(c, given) ==
  /\ calls[c].step = "idle"
  /\ Obtainable(given)
  /\ calls' = [calls EXCEPT ![c] =
       [step |-> IF Accepted(given) THEN "core" ELSE "rejected",
        given |-> given, value |-> Thrown]]
  /\ UNCHANGED memory

\* The core has run the script and returns d, which is resolved.
CoreReturns(c) ==
  /\ calls[c].step = "core"
  /\ \E d \in Returned(calls[c].given) :
       calls' = [calls EXCEPT ![c].step = Outcome(ResultValue(d)),
                              ![c].value = ResultValue(d)]
  /\ UNCHANGED memory

CoreFails(c) ==
  /\ calls[c].step = "core"
  /\ calls' = [calls EXCEPT ![c].step = "rejected"]
  /\ UNCHANGED memory

\* Mutation: executeSync returns what the conversion returns, promise or not.
SyncOutcomeUnchecked(v) == IF v = Thrown THEN "rejected" ELSE "fulfilled"

\* How executeSync ends, which throws away a promise and throws an error.
SyncOutcome(v) == IF Outcome(v) = "fulfilled" THEN "fulfilled" ELSE "rejected"

ExecuteSync(c, given) ==
  /\ calls[c].step = "idle"
  /\ Obtainable(given)
  /\ Accepted(given)
  /\ \E d \in Returned(given) :
       calls' = [calls EXCEPT ![c] =
         [step |-> SyncOutcome(ResultValue(d)), given |-> given, value |-> ResultValue(d)]]
  /\ UNCHANGED memory

\* Mutation: the promise of execute is not settled with the one it returned.
ContinueUnresolved(a, loaded, memory1) ==
  calls' = [c \in Call |->
    [calls[c] EXCEPT !.value = Settle(@, a, loaded, memory1)]]

\* The continuations run of all promises that wait for a.
Continue(a, loaded, memory1) ==
  calls' = [c \in Call |->
    LET v == Settle(calls[c].value, a, loaded, memory1)
    IN  [calls[c] EXCEPT !.value = v, !.step = IF @ = "resolving" THEN Outcome(v) ELSE @]]

\* The core has a in memory, because it was asked for or for reasons of its own.
Arrives(a) ==
  /\ a \notin memory
  /\ memory' = memory \cup {a}
  /\ Continue(a, TRUE, memory \cup {a})

\* The values whose promises run on when v is settled.
Inside(v) ==
  CASE v.is = "binding" -> {v.of[2]}
    [] v.is = "all" -> {v.of[i] : i \in DOMAIN v.of}
    [] OTHER -> {IF x.is = "promise" THEN x.of ELSE x : x \in Children(v)}

AwaitsLoad(v, a) ==
  LET awaits[x \in JSValue] == (x.is = "load" /\ x.of = a) \/ \E y \in Inside(x) : awaits[y]
  IN  v # Thrown /\ awaits[v]

Awaits(a) == \E c \in Call : AwaitsLoad(calls[c].value, a)

LoadFails(a) ==
  /\ Awaits(a)
  /\ Continue(a, FALSE, memory)
  /\ UNCHANGED memory

\* The program drops a result and calls again.
Forget(c) ==
  /\ calls[c].step \in {"fulfilled", "rejected"}
  /\ calls' = [calls EXCEPT ![c] = Idle]
  /\ UNCHANGED memory

Next ==
  \/ \E c \in Call, given \in Given \cup {NoValue} : Execute(c, given) \/ ExecuteSync(c, given)
  \/ \E c \in Call : CoreReturns(c) \/ CoreFails(c) \/ Forget(c)
  \/ \E a \in Address : Arrives(a) \/ LoadFails(a)

Spec == Init /\ [][Next]_vars

\* The core's part of Arrives(a), as an answer.
Loads(a) == Awaits(a) /\ a \notin memory /\ memory' = memory \cup {a}

\* The core answers: no call waits for its script for ever, and what is asked
\* for arrives, or fails and so is no longer awaited.
FairSpec ==
  /\ Spec
  /\ \A c \in Call : []<>(calls[c].step # "core")
  /\ \A a \in Address : WF_memory(Loads(a))

-----------------------------------------------------------------------------
(* Properties.                                                             *)

\* What Echo makes of v, seen from JavaScript: a Map all of whose keys are texts
\* becomes an object, and a reference what its address is resolved to.
Normal[v \in PlainValues[Depth]] ==
  CASE v.is = "array" -> Value("array", EachElement(Normal, v.of))
    [] v.is = "Map" ->
         IF \A i \in DOMAIN v.of : v.of[i][1].is = "text"
         THEN Value("object", [i \in DOMAIN v.of |-> <<v.of[i][1].of, Normal[v.of[i][2]]>>])
         ELSE Value("Map", EachEntry(Normal, v.of))
    [] v.is = "object" -> Value("object", EachProperty(Normal, v.of))
    [] v.is = "reference" -> Pointed(v.of)
    [] OTHER -> v

\* The two directions of the conversion are inverse to each other: a value that
\* went through the core unchanged is the same JavaScript value again, of the
\* same kind at every depth, with what a pointer is resolved to for a reference
\* to it (dif-handler.ts:341 against 1097).
EchoIsSame ==
  \A c \in Call :
    calls[c].step = "fulfilled" /\ calls[c].given # NoValue =>
      calls[c].value = Normal[calls[c].given]

\* v holds no promise but as an entry of a Map or an object.
Awaited[v \in JSValue] == ~IsPromise(v) /\ \A x \in Parts(v) : Awaited[x]

\* A result, of execute or executeSync, contains no promise, at any depth,
\* except where a Map or an object was filled with promises.
ResultsAreAwaited ==
  \A c \in Call : calls[c].step = "fulfilled" => Awaited[calls[c].value]

\* When a result has been handed out, the core has in memory every pointer it
\* refers to, and those that their contents refer to in turn, however the loads
\* came in, up to what is inside Maps (dif-handler.ts:595, 601).
ResultsAreLoaded ==
  \A c \in Call :
    calls[c].step = "fulfilled" => Loaded(calls[c].value)

\* Every call is answered, even if it waits for several pointers, of which
\* some lead to further ones and some cannot be loaded.
ExecutionsEnd ==
  \A c \in Call : calls[c].step \in {"core", "resolving"} ~> calls[c].step \in {"fulfilled", "rejected"}
=============================================================================
