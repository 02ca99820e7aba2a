----------------------------- MODULE MapBinding -----------------------------
(***************************************************************************)
(* A mutable map pointer that is bound to a JS Map: the map the runtime    *)
(* holds and the entries of the Map, whose set, delete and clear are       *)
(* intercepted.  The two are not keyed alike.  A key that is an object     *)
(* goes to the runtime by its structure and comes back as a new object,    *)
(* and numbers that the runtime tells apart come back as the same number.  *)
(***************************************************************************)
EXTENDS Naturals

CONSTANTS
  Key,        \* keys in the runtime
  JSKey,      \* keys in JavaScript
  Object,     \* those of JSKey that a Map finds by identity only
  Converted,  \* convertJSValueToDIFValueContainer, for keys
  Resolved,   \* per key of the runtime, what resolving it may return
  Value,      \* JS values that may be put in the Map
  Refused,    \* those that convertJSValueToDIFValueContainer refuses
  Unloaded,   \* in the runtime: the value, or the key, cannot be resolved synchronously
  Promised,   \* in the Map: a promise for the referenced value
  None        \* no entry

ASSUME MapBindingAssumption ==
  /\ Object \subseteq JSKey
  /\ Converted \in [JSKey -> Key]
  /\ Resolved \in [Key -> SUBSET JSKey]
  /\ \A j \in JSKey : j \in Resolved[Converted[j]]
  /\ Refused \subseteq Value
  /\ {Unloaded, Promised, None} \cap Value = {}
  /\ None \notin {Unloaded, Promised} /\ Unloaded # Promised

VARIABLES
  runtimeMap,   \* the map in the runtime
  entries       \* the entries of the Map

vars == <<runtimeMap, entries>>

Supported == Value \ Refused

TypeOK ==
  /\ runtimeMap \in [Key -> Supported \cup {Unloaded, None}]
  /\ entries \in [JSKey -> Supported \cup {Promised, None}]

EmptyMap == [k \in Key |-> None]
NoEntries == [j \in JSKey |-> None]

Init == runtimeMap = EmptyMap /\ entries = NoEntries

-----------------------------------------------------------------------------
(* Program code uses the Map: the runtime comes first.                     *)

\* Mutation: the Map is changed first, and stays so when the value is refused.
LocalSetFirst(j, v) ==
  /\ entries' = [entries EXCEPT ![j] = v]
  /\ runtimeMap' = IF v \in Supported THEN [runtimeMap EXCEPT ![Converted[j]] = v]
                   ELSE runtimeMap

\* set: triggerSet throws before anything has changed when it cannot convert v.
LocalSet(j, v) ==
  /\ v \in Supported
  /\ runtimeMap' = [runtimeMap EXCEPT ![Converted[j]] = v]
  /\ entries' = [entries EXCEPT ![j] = v]

\* delete: the runtime refuses to delete what it does not have.
LocalDelete(j) ==
  /\ runtimeMap[Converted[j]] # None
  /\ runtimeMap' = [runtimeMap EXCEPT ![Converted[j]] = None]
  /\ entries' = [entries EXCEPT ![j] = None]

LocalClear == runtimeMap' = EmptyMap /\ entries' = NoEntries

-----------------------------------------------------------------------------
(* Updates from elsewhere: the runtime's map has changed, handleDifUpdate  *)
(* resolves key and value and calls the handler.  It does so for other     *)
(* sources only, so the handlers use the original methods.                 *)

\* What resolving k returns: an object is always a new one.
Resolves(k, j) == j \in Resolved[k] /\ (j \in Object => entries[j] = None)

RemoteSet(k, j, v) ==
  /\ Resolves(k, j)
  /\ runtimeMap' = [runtimeMap EXCEPT ![k] = v]
  /\ entries' = [entries EXCEPT ![j] = v]

\* Resolving the key or the value throws, so the handler is not called.
RemoteSetUnresolved(k) ==
  /\ runtimeMap' = [runtimeMap EXCEPT ![k] = Unloaded]
  /\ UNCHANGED entries

RemoteDelete(k, j) ==
  /\ Resolves(k, j)
  /\ runtimeMap[k] # None
  /\ runtimeMap' = [runtimeMap EXCEPT ![k] = None]
  /\ entries' = [entries EXCEPT ![j] = None]

\* resolveDIFPropertySync throws, for a key that could not be resolved when it was set.
RemoteDeleteUnresolved(k) ==
  /\ runtimeMap[k] = Unloaded
  /\ runtimeMap' = [runtimeMap EXCEPT ![k] = None]
  /\ UNCHANGED entries

RemoteClear == runtimeMap' = EmptyMap /\ entries' = NoEntries

\* Mutation: the entries from before the replacement are left.
RemoteReplaceMerging(k, j, v) ==
  /\ j \in Resolved[k]
  /\ runtimeMap' = [EmptyMap EXCEPT ![k] = v]
  /\ entries' = [entries EXCEPT ![j] = IF v = Unloaded THEN Promised ELSE v]

\* Replaced by a map with one entry, which is resolved to a Map.  A value that cannot
\* be resolved synchronously does not keep the Map from being, and is a promise in it.
RemoteReplace(k, j, v) ==
  /\ j \in Resolved[k]
  /\ runtimeMap' = [EmptyMap EXCEPT ![k] = v]
  /\ entries' = [NoEntries EXCEPT ![j] = IF v = Unloaded THEN Promised ELSE v]

\* Replaced by what is resolved to a plain object, for being an object in DIF: it has no
\* method `entries`, when the Map is cleared already.
RemoteReplaceByObject(k, v) ==
  /\ runtimeMap' = [EmptyMap EXCEPT ![k] = v]
  /\ entries' = NoEntries

-----------------------------------------------------------------------------
LocalOperation ==
  \/ \E j \in JSKey, v \in Value : LocalSet(j, v)
  \/ \E j \in JSKey : LocalDelete(j)
  \/ LocalClear

RemoteOperation ==
  \/ \E k \in Key, j \in JSKey, v \in Supported : RemoteSet(k, j, v)
  \/ \E k \in Key : RemoteSetUnresolved(k) \/ RemoteDeleteUnresolved(k)
  \/ \E k \in Key, j \in JSKey : RemoteDelete(k, j)
  \/ RemoteClear
  \/ \E k \in Key, j \in JSKey, v \in Supported \cup {Unloaded} : RemoteReplace(k, j, v)
  \/ \E k \in Key, v \in Supported : RemoteReplaceByObject(k, v)

Next == LocalOperation \/ RemoteOperation

Spec == Init /\ [][Next]_vars

-----------------------------------------------------------------------------
(* Properties.                                                             *)

\* Entries and keys of the runtime correspond one to one and have the same values.
Shows(k, j) ==
  /\ j \in Resolved[k]
  /\ runtimeMap[k] # None
  /\ entries[j] # None

Mirrored ==
  /\ \A k \in Key : runtimeMap[k] # None =>
       \E j \in JSKey : Shows(k, j) /\ entries[j] = runtimeMap[k]
  /\ \A j \in JSKey : entries[j] # None => \E k \in Key : Shows(k, j)
  /\ \A k1, k2 \in Key, j \in JSKey : Shows(k1, j) /\ Shows(k2, j) => k1 = k2
  /\ \A j1, j2 \in JSKey, k \in Key : Shows(k, j1) /\ Shows(k, j2) => j1 = j2

\* k and j belong together: no other entry may stand for k and no other key of the
\* runtime for j.
Matched(k, j) ==
  /\ \A i \in Resolved[k] : entries[i] # None => i = j
  /\ \A l \in Key : j \in Resolved[l] /\ runtimeMap[l] # None => l = k

\* The operations that cannot keep the two sides together: on a key that the
\* other side does not match with the same entry, with a value that is not
\* there, and with the wrong kind of replacement.
Diverges ==
  \/ \E j \in JSKey : /\ ~Matched(Converted[j], j)
                      /\ LocalDelete(j) \/ \E v \in Value : LocalSet(j, v)
  \/ \E k \in Key, j \in JSKey : /\ ~Matched(k, j)
                                 /\ RemoteDelete(k, j) \/ \E v \in Supported : RemoteSet(k, j, v)
  \/ \E k \in Key : RemoteSetUnresolved(k)
  \/ \E k \in Key, j \in JSKey : RemoteReplace(k, j, Unloaded)
  \/ \E k \in Key, v \in Supported : RemoteReplaceByObject(k, v)

\* "propagates changes between JS and the DATEX runtime": every operation, from
\* either side, takes a mirrored Map to a mirrored Map unless the keys of the two
\* sides do not match, or what it brings cannot be resolved to an entry
\* (map.ts:25-81, type-registry.ts:205-288).
KeepsMirror == [][Mirrored => Mirrored' \/ Diverges]_vars
=============================================================================
