-------------------------- MODULE MapBinding_proofs --------------------------
(***************************************************************************)
(* What holds of a bound Map for any keys, objects and values.             *)
(***************************************************************************)
EXTENDS MapBinding, TLAPS

\* A value, or nothing, is put where no other key comes in between: what
\* corresponded one to one still does.
LEMMA OneKeyChanges ==
  ASSUME TypeOK, Mirrored,
         NEW k \in Key, NEW j \in JSKey, j \in Resolved[k], Matched(k, j),
         NEW v \in Supported \cup {None},
         runtimeMap' = [runtimeMap EXCEPT ![k] = v],
         entries' = [entries EXCEPT ![j] = v]
  PROVE  Mirrored'
<1>1. /\ \A l \in Key : runtimeMap'[l] = IF l = k THEN v ELSE runtimeMap[l]
      /\ \A i \in JSKey : entries'[i] = IF i = j THEN v ELSE entries[i]
  BY DEF TypeOK
<1>2. \A i \in JSKey : i \in Resolved[k] /\ entries[i] # None => i = j
  BY DEF Matched
<1>3. \A l \in Key : j \in Resolved[l] /\ runtimeMap[l] # None => l = k
  BY DEF Matched
<1>4. ASSUME NEW l \in Key, NEW i \in JSKey
      PROVE  Shows(l, i)' <=> \/ v # None /\ l = k /\ i = j
                              \/ l # k /\ i # j /\ Shows(l, i)
  <2>1. CASE l = k
    BY <1>1, <1>2, <2>1 DEF Shows
  <2>2. CASE l # k /\ i = j
    BY <1>1, <1>3, <2>2 DEF Shows
  <2>3. CASE l # k /\ i # j
    BY <1>1, <2>3 DEF Shows
  <2> QED
    BY <2>1, <2>2, <2>3
<1>5. ASSUME NEW l \in Key, runtimeMap'[l] # None
      PROVE  \E i \in JSKey : Shows(l, i)' /\ entries'[i] = runtimeMap'[l]
  <2>1. CASE l = k
    BY <1>1, <1>4, <1>5, <2>1
  <2>2. CASE l # k
    <3>1. runtimeMap[l] # None /\ runtimeMap'[l] = runtimeMap[l]
      BY <1>1, <1>5, <2>2
    <3>2. PICK i \in JSKey : Shows(l, i) /\ entries[i] = runtimeMap[l]
      BY <3>1 DEF Mirrored
    <3>3. i # j
      BY <1>3, <2>2, <3>1, <3>2 DEF Shows
    <3> QED
      BY <1>1, <1>4, <2>2, <3>1, <3>2, <3>3
  <2> QED
    BY <2>1, <2>2
<1>6. ASSUME NEW i \in JSKey, entries'[i] # None
      PROVE  \E l \in Key : Shows(l, i)'
  <2>1. CASE i = j
    BY <1>1, <1>4, <1>6, <2>1
  <2>2. CASE i # j
    <3>1. PICK l \in Key : Shows(l, i)
      BY <1>1, <1>6, <2>2 DEF Mirrored
    <3>2. l # k
      BY <1>2, <2>2, <3>1 DEF Shows
    <3> QED
      BY <1>4, <2>2, <3>1, <3>2
  <2> QED
    BY <2>1, <2>2
<1>7. \A k1, k2 \in Key, i \in JSKey : Shows(k1, i)' /\ Shows(k2, i)' => k1 = k2
  BY <1>4 DEF Mirrored
<1>8. \A j1, j2 \in JSKey, l \in Key : Shows(l, j1)' /\ Shows(l, j2)' => j1 = j2
  BY <1>4 DEF Mirrored
<1> QED
  BY <1>5, <1>6, <1>7, <1>8, Zenon DEF Mirrored

\* Without entries on either side there is nothing to differ.
LEMMA EmptyMirrored ==
  ASSUME runtimeMap' = EmptyMap, entries' = NoEntries
  PROVE  Mirrored'
BY DEF Mirrored, Shows, EmptyMap, NoEntries

\* A replacement by a single entry that could be resolved.
LEMMA SingleMirrored ==
  ASSUME NEW k \in Key, NEW j \in JSKey, j \in Resolved[k], NEW v \in Supported,
         runtimeMap' = [EmptyMap EXCEPT ![k] = v],
         entries' = [NoEntries EXCEPT ![j] = v]
  PROVE  Mirrored'
<1>1. /\ \A l \in Key : runtimeMap'[l] = IF l = k THEN v ELSE None
      /\ \A i \in JSKey : entries'[i] = IF i = j THEN v ELSE None
  BY DEF EmptyMap, NoEntries
<1>2. v # None
  BY MapBindingAssumption DEF Supported
<1>3. \A l \in Key, i \in JSKey : Shows(l, i)' <=> l = k /\ i = j
  BY <1>1, <1>2 DEF Shows
<1>4. \A l \in Key : runtimeMap'[l] # None =>
        \E i \in JSKey : Shows(l, i)' /\ entries'[i] = runtimeMap'[l]
  BY <1>1, <1>3
<1>5. \A i \in JSKey : entries'[i] # None => \E l \in Key : Shows(l, i)'
  BY <1>1, <1>3
<1> QED
  BY <1>3, <1>4, <1>5 DEF Mirrored

\* The runtime holds values or references, the Map values or promises: no
\* refused value gets to either (map.ts:25-28).
THEOREM TypeCorrect == Spec => []TypeOK
<1>1. Init => TypeOK
  BY DEF Init, TypeOK, EmptyMap, NoEntries
<1>2. TypeOK /\ [Next]_vars => TypeOK'
  <2> SUFFICES ASSUME TypeOK, [Next]_vars PROVE TypeOK'
    OBVIOUS
  <2>1. ASSUME NEW j \in JSKey, NEW v \in Value, LocalSet(j, v) PROVE TypeOK'
    BY <2>1 DEF TypeOK, LocalSet
  <2>2. ASSUME NEW j \in JSKey, LocalDelete(j) PROVE TypeOK'
    BY <2>2 DEF TypeOK, LocalDelete
  <2>3. ASSUME NEW k \in Key, NEW j \in JSKey, NEW v \in Supported, RemoteSet(k, j, v)
        PROVE  TypeOK'
    BY <2>3 DEF TypeOK, RemoteSet
  <2>4. ASSUME NEW k \in Key, RemoteSetUnresolved(k) PROVE TypeOK'
    BY <2>4 DEF TypeOK, RemoteSetUnresolved
  <2>5. ASSUME NEW k \in Key, NEW j \in JSKey, RemoteDelete(k, j) PROVE TypeOK'
    BY <2>5 DEF TypeOK, RemoteDelete
  <2>6. ASSUME LocalClear \/ RemoteClear PROVE TypeOK'
    BY <2>6 DEF TypeOK, LocalClear, RemoteClear, EmptyMap, NoEntries
  <2>7. ASSUME NEW k \in Key, NEW j \in JSKey, NEW v \in Supported \cup {Unloaded},
               RemoteReplace(k, j, v)
        PROVE  TypeOK'
    BY <2>7 DEF TypeOK, RemoteReplace, EmptyMap, NoEntries
  <2>8. ASSUME NEW k \in Key, NEW v \in Supported, RemoteReplaceByObject(k, v)
        PROVE  TypeOK'
    BY <2>8 DEF TypeOK, RemoteReplaceByObject, EmptyMap, NoEntries
  <2>9. CASE UNCHANGED vars
    BY <2>9 DEF TypeOK, vars
  <2>10. ASSUME NEW k \in Key, RemoteDeleteUnresolved(k) PROVE TypeOK'
    BY <2>10 DEF TypeOK, RemoteDeleteUnresolved
  <2> QED
    BY <2>1, <2>2, <2>3, <2>4, <2>5, <2>6, <2>7, <2>8, <2>9, <2>10
    DEF Next, LocalOperation, RemoteOperation
<1> QED
  BY <1>1, <1>2, PTL DEF Spec

\* For any keys: an operation that is not one of Diverges takes a mirrored Map
\* to a mirrored Map (map.ts:25-81).
THEOREM MirrorIsKept == Spec => KeepsMirror
<1>1. TypeOK /\ [Next]_vars => [Mirrored => Mirrored' \/ Diverges]_vars
  <2> SUFFICES ASSUME TypeOK, Next, Mirrored, ~Diverges PROVE Mirrored'
    OBVIOUS
  <2>1. ASSUME NEW j \in JSKey, NEW v \in Value, LocalSet(j, v) PROVE Mirrored'
    <3>1. /\ Matched(Converted[j], j)
          /\ v \in Supported
      BY <2>1 DEF Diverges, LocalSet
    <3>2. Converted[j] \in Key /\ j \in Resolved[Converted[j]]
      BY MapBindingAssumption
    <3> QED
      BY <2>1, <3>1, <3>2, OneKeyChanges DEF LocalSet
  <2>2. ASSUME NEW j \in JSKey, LocalDelete(j) PROVE Mirrored'
    <3>1. Matched(Converted[j], j)
      BY <2>2 DEF Diverges
    <3>2. Converted[j] \in Key /\ j \in Resolved[Converted[j]]
      BY MapBindingAssumption
    <3> QED
      BY <2>2, <3>1, <3>2, OneKeyChanges DEF LocalDelete
  <2>3. ASSUME NEW k \in Key, NEW j \in JSKey, NEW v \in Supported, RemoteSet(k, j, v)
        PROVE  Mirrored'
    <3>1. Matched(k, j)
      BY <2>3 DEF Diverges
    <3> QED
      BY <2>3, <3>1, OneKeyChanges DEF RemoteSet, Resolves
  <2>4. ASSUME NEW k \in Key, NEW j \in JSKey, RemoteDelete(k, j) PROVE Mirrored'
    <3>1. Matched(k, j)
      BY <2>4 DEF Diverges
    <3> QED
      BY <2>4, <3>1, OneKeyChanges DEF RemoteDelete, Resolves
  <2>5. ASSUME LocalClear \/ RemoteClear PROVE Mirrored'
    BY <2>5, EmptyMirrored DEF LocalClear, RemoteClear
  <2>6. ASSUME NEW k \in Key, NEW j \in JSKey, NEW v \in Supported \cup {Unloaded},
               RemoteReplace(k, j, v)
        PROVE  Mirrored'
    <3>1. v \in Supported
      BY <2>6 DEF Diverges
    <3>2. v # Unloaded
      BY <3>1, MapBindingAssumption DEF Supported
    <3> QED
      BY <2>6, <3>1, <3>2, SingleMirrored DEF RemoteReplace
  <2>7. ASSUME NEW k \in Key, RemoteDeleteUnresolved(k) PROVE Mirrored'
    <3>1. PICK j \in JSKey : entries[j] = Unloaded
      BY <2>7, MapBindingAssumption DEF RemoteDeleteUnresolved, Mirrored
    <3>2. entries[j] \in Supported \cup {Promised, None}
      BY DEF TypeOK
    <3>3. Promised # Unloaded
      BY MapBindingAssumption
    <3> QED
      BY <3>1, <3>2, <3>3, MapBindingAssumption DEF Supported
  <2> QED
    BY <2>1, <2>2, <2>3, <2>4, <2>5, <2>6, <2>7 DEF Next, LocalOperation, RemoteOperation, Diverges
<1>2. Spec => [][Mirrored => Mirrored' \/ Diverges]_vars
  BY <1>1, TypeCorrect, PTL DEF Spec
<1> QED
  BY <1>2 DEF KeepsMirror
=============================================================================
