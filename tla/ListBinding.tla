---------------------------- MODULE ListBinding ----------------------------
(***************************************************************************)
(* A mutable list pointer that is bound to a JS array: the list the        *)
(* runtime holds, the array behind the proxy, the accessors that guard the *)
(* array's own elements, and the flag by which the binding lets itself     *)
(* through.  Own updates reach local observers before the array changes,   *)
(* and an observer may read the array through the proxy at that point.     *)
(***************************************************************************)
EXTENDS Integers, Sequences

CONSTANTS
  Value,         \* JS values that may be put in the list
  Unsupported,   \* those that convertJSValueToDIFValueContainer refuses
  Empty,         \* a hole in the array, null in the runtime
  MaxLength,     \* bound on the length of the lists
  NoAssignment

ASSUME ListBindingAssumption ==
  /\ Unsupported \subseteq Value
  /\ Empty \notin Value
  /\ MaxLength \in Nat
  /\ NoAssignment \notin [index: 1..MaxLength, value: Value \ Unsupported]

VARIABLES
  runtimeList,  \* the list in the runtime
  jsList,       \* the elements of the array behind the proxy
  guarded,      \* positions of the array where interceptAccessors put an accessor
  access,       \* IS_PROXY_ACCESS of the array's metadata
  observed,     \* there are local observers, so own updates are relayed to them
  assignment    \* the element assignment that has reached the runtime and not yet
                \* the array, or NoAssignment

vars == <<runtimeList, jsList, guarded, access, observed, assignment>>

Supported == Value \ Unsupported
Element == Supported \cup {Empty}
Lists == UNION {[1..n -> Supported] : n \in 0..MaxLength}

TypeOK ==
  /\ runtimeList \in Seq(Element)
  /\ jsList \in Seq(Element)
  /\ guarded \subseteq DOMAIN jsList
  /\ access \in BOOLEAN
  /\ observed \in BOOLEAN
  /\ assignment \in [index: 1..MaxLength, value: Supported] \cup {NoAssignment}

\* bind: every element the array has by then is guarded.
Init ==
  /\ jsList \in Lists
  /\ runtimeList = jsList
  /\ guarded = DOMAIN jsList
  /\ access = FALSE
  /\ observed = FALSE
  /\ assignment = NoAssignment

-----------------------------------------------------------------------------
(* Lists.                                                                  *)

Lesser(a, b) == IF a < b THEN a ELSE b

Empties(n) == [k \in 1..n |-> Empty]

\* s with v at position i; positions skipped over are left empty.
SetAt(s, i, v) ==
  [k \in 1 .. (IF i > Len(s) THEN i ELSE Len(s)) |->
     IF k = i THEN v ELSE IF k <= Len(s) THEN s[k] ELSE Empty]

\* s with n elements after the first `start` replaced by items, as far as s has them.
Splice(s, start, n, items) ==
  LET from == Lesser(start, Len(s))
      to == Lesser(from + n, Len(s))
  IN  SubSeq(s, 1, from) \o items \o SubSeq(s, to + 1, Len(s))

\* What fill makes of a bound that may count from the end.
Position(x, length) ==
  IF x >= 0 THEN Lesser(x, length) ELSE IF length + x < 0 THEN 0 ELSE length + x

Copies(n, v) == [k \in 1..n |-> v]

\* s with v from after the first `first` elements to element `last`.
Filled(s, first, last, v) ==
  [k \in DOMAIN s |-> IF k \in first + 1 .. last THEN v ELSE s[k]]

\* The runtime refuses to splice what it does not have.
Accepts(start, n) == start + n <= Len(runtimeList)

\* Mutation: an accessor survives the element it guards.
AlwaysGuarded(s) == guarded

\* An accessor goes with its element, when the array is cut or the element deleted.
StillGuarded(s) == {i \in guarded : i <= Len(s) /\ s[i] # Empty}

Bounded(s) == Len(s) <= MaxLength

\* A step in which runtime and array take up new contents.
Becomes(inRuntime, inArray) ==
  /\ runtimeList' = inRuntime
  /\ jsList' = inArray
  /\ guarded' = StillGuarded(inArray)
  /\ Bounded(inRuntime) /\ Bounded(inArray)
  /\ UNCHANGED <<access, observed, assignment>>

Idle == assignment = NoAssignment

-----------------------------------------------------------------------------
(* Program code uses the proxy.                                            *)

\* observePointer and unobservePointer.
ChangeObservers ==
  /\ Idle
  /\ observed' = ~observed
  /\ UNCHANGED <<runtimeList, jsList, guarded, access, assignment>>

\* Mutation: the element's own position is filled as well.
RuntimeFilledTooFar(i) == runtimeList \o Empties(i - Len(jsList))

\* triggerArrayFillEmpty: what the runtime holds once the positions between the end
\* of the array and position i are filled.
RuntimeFilled(i) == runtimeList \o Empties(i - 1 - Len(jsList))

\* proxy[i - 1] = v up to the point where the runtime has the value: the set trap
\* opens the array for itself and triggers the updates.
AssignElement(i, v) ==
  /\ Idle
  /\ v \in Supported
  /\ i <= Len(RuntimeFilled(i)) + 1
  /\ runtimeList' = SetAt(RuntimeFilled(i), i, v)
  /\ access' = TRUE
  /\ assignment' = [index |-> i, value |-> v]
  /\ Bounded(SetAt(RuntimeFilled(i), i, v))
  /\ UNCHANGED <<jsList, guarded, observed>>

\* The same when the value is refused: the positions before it have been filled in
\* the runtime by then.
AssignElementRefused(i, v) ==
  /\ Idle
  /\ v \in Unsupported \/ i > Len(RuntimeFilled(i)) + 1
  /\ runtimeList' = RuntimeFilled(i)
  /\ Bounded(RuntimeFilled(i))
  /\ UNCHANGED <<jsList, guarded, access, observed, assignment>>

\* A local observer told of the assignment reads the array: the get trap closes the
\* array when it is done.
ObserverReads ==
  /\ ~Idle
  /\ observed
  /\ access' = FALSE
  /\ UNCHANGED <<runtimeList, jsList, guarded, observed, assignment>>

\* The rest of the set trap: Reflect.set on the array, and the array is closed.
CompleteAssignment ==
  /\ ~Idle
  /\ assignment.index \in guarded => access
  /\ jsList' = SetAt(jsList, assignment.index, assignment.value)
  /\ access' = FALSE
  /\ assignment' = NoAssignment
  /\ UNCHANGED <<runtimeList, guarded, observed>>

\* The accessor of a guarded element throws when it finds the array closed.
AssignmentThrows ==
  /\ ~Idle
  /\ assignment.index \in guarded /\ ~access
  /\ access' = FALSE
  /\ assignment' = NoAssignment
  /\ UNCHANGED <<runtimeList, jsList, guarded, observed>>

\* proxy.length = n.
AssignLength(n) ==
  /\ Idle
  /\ \/ /\ n < Len(jsList)
        /\ Accepts(n, Len(jsList) - n)
        /\ Becomes(Splice(runtimeList, n, Len(jsList) - n, <<>>), SubSeq(jsList, 1, n))
     \/ /\ n > Len(jsList)
        /\ Becomes(RuntimeFilled(n + 1), jsList \o Empties(n - Len(jsList)))

\* proxy.push(v).
Push(v) ==
  /\ Idle
  /\ Accepts(Len(jsList), 0)
  /\ Becomes(Splice(runtimeList, Len(jsList), 0, <<v>>), Append(jsList, v))

\* proxy.unshift(v).
Unshift(v) ==
  /\ Idle
  /\ Becomes(Splice(runtimeList, 0, 0, <<v>>), <<v>> \o jsList)

\* proxy.splice(start, n, ...items).
SpliceElements(start, n, items) ==
  /\ Idle
  /\ Accepts(start, n)
  /\ Becomes(Splice(runtimeList, start, n, items), Splice(jsList, start, n, items))

\* proxy.splice(start): the runtime is told to delete the rest; the array's own splice
\* gets an explicit undefined for the number of elements, which counts as none.
SpliceToEnd(start) ==
  /\ Idle
  /\ start <= Len(jsList) /\ Accepts(start, Len(jsList) - start)
  /\ Becomes(Splice(runtimeList, start, Len(jsList) - start, <<>>), jsList)

\* proxy.fill(v, from, to).
Fill(v, from, to) ==
  LET first == Position(from, Len(jsList))
      last == Position(to, Len(jsList))
  IN  /\ Idle
      /\ first < last
      /\ Accepts(first, last - first)
      /\ Becomes(Splice(runtimeList, first, last - first, Copies(last - first, v)),
                 Filled(jsList, first, last, v))

\* delete proxy[i - 1]: the proxy has no trap for it.
DeleteElement(i) ==
  /\ Idle
  /\ i \in DOMAIN jsList
  /\ Becomes(runtimeList, [jsList EXCEPT ![i] = Empty])

-----------------------------------------------------------------------------
(* Updates from elsewhere: the runtime's list has changed, and             *)
(* handleDifUpdate opens the array and calls the handler for the kind.     *)

RemoteSet(i, v) ==
  /\ Idle
  /\ i \in DOMAIN runtimeList
  /\ Becomes(SetAt(runtimeList, i, v), SetAt(jsList, i, v))

\* handleAppend pushes through the proxy: the element is inserted in the runtime a
\* second time, where the array ends.
RemoteAppend(v) ==
  /\ Idle
  /\ Len(jsList) <= Len(runtimeList) + 1
  /\ Becomes(Splice(Append(runtimeList, v), Len(jsList), 0, <<v>>), Append(jsList, v))

RemoteDelete(i) ==
  /\ Idle
  /\ i \in DOMAIN runtimeList
  /\ Becomes(Splice(runtimeList, i - 1, 1, <<>>), Splice(jsList, i - 1, 1, <<>>))

RemoteClear ==
  /\ Idle
  /\ Becomes(<<>>, <<>>)

\* handleReplace empties the array and pushes the new elements through the proxy.
RemoteReplace(list) ==
  /\ Idle
  /\ runtimeList' = list \o list
  /\ jsList' = list
  /\ guarded' = {}
  /\ Bounded(list \o list)
  /\ UNCHANGED <<access, observed, assignment>>

RemoteSplice(start, n, items) ==
  /\ Idle
  /\ Accepts(start, n)
  /\ Becomes(Splice(runtimeList, start, n, items), Splice(jsList, start, n, items))

-----------------------------------------------------------------------------
Few == {<<>>} \cup {<<v>> : v \in Supported}

LocalOperation ==
  \/ \E i \in 1..MaxLength, v \in Value :
       AssignElement(i, v) \/ AssignElementRefused(i, v)
  \/ ObserverReads \/ CompleteAssignment \/ AssignmentThrows
  \/ \E n \in 0..MaxLength : AssignLength(n) \/ SpliceToEnd(n)
  \/ \E v \in Supported : Push(v) \/ Unshift(v)
  \/ \E start, n \in 0..MaxLength, items \in Few : SpliceElements(start, n, items)
  \/ \E v \in Supported, from, to \in -MaxLength..MaxLength : Fill(v, from, to)
  \/ \E i \in 1..MaxLength : DeleteElement(i)
  \/ ChangeObservers

RemoteOperation ==
  \/ \E i \in 1..MaxLength, v \in Supported : RemoteSet(i, v)
  \/ \E v \in Supported : RemoteAppend(v)
  \/ \E i \in 1..MaxLength : RemoteDelete(i)
  \/ RemoteClear
  \/ \E list \in Lists : RemoteReplace(list)
  \/ \E start, n \in 0..MaxLength, items \in Few : RemoteSplice(start, n, items)

Next == LocalOperation \/ RemoteOperation

Spec == Init /\ [][Next]_vars

-----------------------------------------------------------------------------
(* Properties.                                                             *)

\* The array holds what the runtime holds, but for the assignment in progress.
Mirrored ==
  runtimeList = IF Idle THEN jsList
                ELSE SetAt(jsList, assignment.index, assignment.value)

\* The operations that send the array's change to the runtime wrongly, or not at all.
Diverges ==
  \/ \E v \in Supported : RemoteAppend(v)
  \/ \E list \in Lists : RemoteReplace(list)
  \/ \E n \in 0..MaxLength : SpliceToEnd(n)
  \/ \E i \in 1..MaxLength : DeleteElement(i)
  \/ \E i \in 1..MaxLength, v \in Value : AssignElementRefused(i, v)
  \/ AssignmentThrows

\* "propagates changes between JS and the DATEX runtime": every other operation, from
\* either side, takes a mirrored list to a mirrored list.
KeepsMirror == [][Mirrored => Mirrored' \/ Diverges]_vars

\* "propagates changes between JS and the DATEX runtime": taking up an element that
\* was appended elsewhere does not change the runtime's list again.
AppendedOnce ==
  [][\A v \in Supported : RemoteAppend(v) => runtimeList' = Append(runtimeList, v)]_vars
=============================================================================
