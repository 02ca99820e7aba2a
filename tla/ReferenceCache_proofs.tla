------------------------ MODULE ReferenceCache_proofs ------------------------
(***************************************************************************)
(* Proofs about ReferenceCache, for any number of addresses, objects and   *)
(* pending loads.  What the runtime's observers capture is on the heap and *)
(* a mutable reference's finalizer names such an object, so that finalizer *)
(* can never run; the cache entry, the metadata and the proxy mapping of a *)
(* mutable reference are therefore only ever written by InitReference.     *)
(***************************************************************************)
EXTENDS ReferenceCache, TLAPS

\* What the observers close over is on the heap.
CapturedLive ==
  \A a \in Address : \A r \in runtimeObservers[a] : r.object \in live

\* The finalizer of a mutable reference has its observer still registered.
FinalizersObserved ==
  \A f \in finalizers : f.address \in MutableAddress =>
     [id |-> f.observerId, object |-> f.object] \in runtimeObservers[f.address]

\* A finalizer for a final address carries no observer id.
FinalFinalizers ==
  \A f \in finalizers : f.address \notin MutableAddress => f.observerId = NoObserver

\* A final reference is never observed, so observePointer always refuses it.
ImmutableNotObserved ==
  \A a \in Address \ MutableAddress :
     runtimeObservers[a] = {} /\ cache[a].observerId = NoObserver

\* Only mutable references are proxies of an original.
OriginalsMutable ==
  \A a \in Address : cache[a].original # NoObject => a \in MutableAddress

\* WeakMaps have no keys that are off the heap.
WeakMapsLive ==
  \A o \in Object \ live : metadata[o] = NoAddress /\ proxyMapping[o] = NoObject

\* Whatever is registered or observed is a pointer the runtime has.
RegisteredInMemory ==
  /\ \A o \in Object : metadata[o] # NoAddress => metadata[o] \in memory
  /\ \A a \in Address : runtimeObservers[a] # {} => a \in memory

Inv ==
  /\ TypeOK
  /\ CapturedLive
  /\ FinalizersObserved
  /\ FinalFinalizers
  /\ OriginalsMutable
  /\ WeakMapsLive
  /\ RegisteredInMemory
  /\ RegisteredObserved
  /\ MutableEntryObserved
  /\ ImmutableNotObserved
  /\ ProxyRoundTrip

-----------------------------------------------------------------------------
(* What initialising a reference preserves, whoever asks for it.           *)

\* initReference keeps the invariant when the wrapped object is on the heap and an
\* array has no proxy yet: whether the reference was created, resolved in memory or
\* loaded, and whether the object is registered already, makes no difference.
LEMMA InitReferencePreservesInv ==
  ASSUME Inv,
         NEW a \in Address, NEW value \in Object \cup {NoObject}, NEW wrapped \in Object,
         InitReference(a, value, wrapped),
         memory \subseteq memory', memory' \subseteq Address, a \in memory',
         live \subseteq live', live' \subseteq Object, held' \subseteq live',
         wrapped \in live', value # NoObject => value \in live',
         value \notin {NoObject, wrapped} => a \in MutableAddress /\ ~Guarded(value),
         calls' \in [Call -> Address \cup {NoAddress}]
  PROVE  Inv'
<1> DEFINE original == IF value = wrapped THEN NoObject ELSE value
<1> USE ReferenceCacheAssumption
<1>1. PICK id \in IF a \in MutableAddress THEN FreeObserverIds(a) ELSE {NoObserver} :
        /\ runtimeObservers' =
             IF a \in MutableAddress
             THEN [runtimeObservers EXCEPT ![a] =
                     @ \cup {[id |-> id, object |-> wrapped]}]
             ELSE runtimeObservers
        /\ cache' = [cache EXCEPT ![a] =
             [value |-> wrapped, original |-> original, observerId |-> id]]
        /\ metadata' = [metadata EXCEPT ![wrapped] = a]
        /\ proxyMapping' = IF original = NoObject THEN proxyMapping
                           ELSE [proxyMapping EXCEPT ![original] = wrapped]
        /\ finalizers' = finalizers \cup
             {[object |-> wrapped, address |-> a, observerId |-> id]}
  BY DEF InitReference
<1>2. TypeOK
  BY DEF Inv
<1>3. original \in Object \cup {NoObject} /\ (original # NoObject => original \in live')
  OBVIOUS
<1>4. id \in ObserverId \cup {NoObserver} /\ (a \in MutableAddress => id \in ObserverId)
      /\ (a \notin MutableAddress => id = NoObserver)
  BY <1>1 DEF FreeObserverIds
<1>5. TypeOK'
  <2>1. runtimeObservers' \in [Address -> SUBSET RuntimeObserver]
    BY <1>1, <1>2, <1>4 DEF TypeOK, RuntimeObserver
  <2>2. cache' \in [Address -> Entry]
    BY <1>1, <1>2, <1>3, <1>4 DEF TypeOK, Entry
  <2>3. metadata' \in [Object -> Address \cup {NoAddress}]
    BY <1>1, <1>2 DEF TypeOK
  <2>4. proxyMapping' \in [Object -> Object \cup {NoObject}]
    BY <1>1, <1>2, <1>3 DEF TypeOK
  <2>5. finalizers' \subseteq Finalizer
    BY <1>1, <1>2, <1>4 DEF TypeOK, Finalizer
  <2> QED
    BY <2>1, <2>2, <2>3, <2>4, <2>5 DEF TypeOK
<1>6. CapturedLive'
  BY <1>1, <1>2 DEF Inv, CapturedLive, TypeOK
<1>7. FinalizersObserved'
  BY <1>1, <1>2 DEF Inv, FinalizersObserved, TypeOK, Finalizer
<1>8. FinalFinalizers'
  BY <1>1, <1>2, <1>4 DEF Inv, FinalFinalizers, TypeOK, Finalizer
<1>9. OriginalsMutable'
  BY <1>1, <1>2 DEF Inv, OriginalsMutable, TypeOK, Entry
<1>10. WeakMapsLive'
  BY <1>1, <1>2, <1>3 DEF Inv, WeakMapsLive, TypeOK
<1>11. RegisteredInMemory'
  BY <1>1, <1>2 DEF Inv, RegisteredInMemory, TypeOK
<1>12. RegisteredObserved'
  <2> SUFFICES ASSUME NEW o \in live', metadata'[o] \in MutableAddress
               PROVE  \E r \in runtimeObservers'[metadata'[o]] : r.object = o
    BY DEF RegisteredObserved
  <2>1. CASE o = wrapped
    <3>1. metadata'[o] = a /\ a \in MutableAddress
      BY <2>1, <1>1, <1>2 DEF TypeOK
    <3>2. [id |-> id, object |-> wrapped] \in runtimeObservers'[a]
      BY <3>1, <1>1, <1>2 DEF TypeOK
    <3> QED
      BY <2>1, <3>1, <3>2
  <2>2. CASE o # wrapped
    <3>1. metadata'[o] = metadata[o]
      BY <2>2, <1>1, <1>2 DEF TypeOK
    <3>2. o \in live
      BY <3>1 DEF Inv, WeakMapsLive
    <3>3. PICK r \in runtimeObservers[metadata[o]] : r.object = o
      BY <3>1, <3>2 DEF Inv, RegisteredObserved
    <3>4. r \in runtimeObservers'[metadata[o]]
      BY <3>1, <3>3, <1>1, <1>2 DEF TypeOK
    <3> QED
      BY <3>1, <3>3, <3>4
  <2> QED
    BY <2>1, <2>2
<1>13. MutableEntryObserved'
  BY <1>1, <1>2, <1>4 DEF Inv, MutableEntryObserved, IsCached, TypeOK, Entry, NoEntry
<1>14. ImmutableNotObserved'
  BY <1>1, <1>2, <1>4 DEF Inv, ImmutableNotObserved, TypeOK, Entry
<1>15. ProxyRoundTrip'
  <2> SUFFICES ASSUME NEW b \in Address, cache'[b].original # NoObject
               PROVE  /\ cache'[b].value \in live'
                      /\ cache'[b].original \in live'
                      /\ cache'[b].original \in List =>
                            proxyMapping'[cache'[b].original] = cache'[b].value
    BY DEF ProxyRoundTrip, IsCached
  <2>1. CASE b = a
    BY <2>1, <1>1, <1>2, <1>3 DEF TypeOK, Entry
  <2>2. CASE b # a
    <3>1. cache'[b] = cache[b]
      BY <2>2, <1>1, <1>2 DEF TypeOK
    <3>2. /\ cache[b].value \in live
          /\ cache[b].original \in live
          /\ cache[b].original \in List =>
                proxyMapping[cache[b].original] = cache[b].value
      BY <3>1 DEF Inv, ProxyRoundTrip, IsCached
    <3>3. cache[b].original \in List => cache[b].original # original
      BY <3>2, <3>1, <1>2 DEF TypeOK, Guarded
    <3> QED
      BY <3>1, <3>2, <3>3, <1>1, <1>2 DEF TypeOK
  <2> QED
    BY <2>1, <2>2
<1> QED
  BY <1>5, <1>6, <1>7, <1>8, <1>9, <1>10, <1>11, <1>12, <1>13, <1>14, <1>15 DEF Inv

-----------------------------------------------------------------------------
(* The invariant is inductive.                                             *)

LEMMA InitEstablishesInv == Init => Inv
<1> SUFFICES ASSUME Init PROVE Inv
  OBVIOUS
<1> USE ReferenceCacheAssumption DEF Init
<1>1. TypeOK
  BY DEF TypeOK, Entry, NoEntry
<1>2. CapturedLive /\ FinalizersObserved /\ FinalFinalizers /\ WeakMapsLive
  BY DEF CapturedLive, FinalizersObserved, FinalFinalizers, WeakMapsLive
<1>3. OriginalsMutable /\ RegisteredInMemory
  BY DEF OriginalsMutable, RegisteredInMemory, NoEntry
<1>4. RegisteredObserved /\ MutableEntryObserved
  BY DEF RegisteredObserved, MutableEntryObserved, IsCached, NoEntry
<1>5. ImmutableNotObserved /\ ProxyRoundTrip
  BY DEF ImmutableNotObserved, ProxyRoundTrip, NoEntry
<1> QED
  BY <1>1, <1>2, <1>3, <1>4, <1>5 DEF Inv

\* A resolve that missed the cache hands InitReference a value that is put on the heap
\* or was there, and never an array that hides behind a proxy.
LEMMA MaterialisePreservesInv ==
  ASSUME Inv,
         NEW a \in Address, NEW value \in Object \cup {NoObject}, NEW wrapped \in Object,
         Materialise(a, value, wrapped), a \in memory, UNCHANGED memory,
         calls' \in [Call -> Address \cup {NoAddress}]
  PROVE  Inv'
<1> USE ReferenceCacheAssumption
<1>1. TypeOK
  BY DEF Inv
<1>2. /\ InitReference(a, value, wrapped)
      /\ live' = live \cup ({value, wrapped} \ {NoObject})
      /\ held' = held \cup ({value} \ {NoObject})
  BY DEF Materialise
<1>3. live \subseteq live' /\ live' \subseteq Object /\ held' \subseteq live'
      /\ wrapped \in live' /\ (value # NoObject => value \in live')
  BY <1>1, <1>2 DEF TypeOK
<1>4. value \notin {NoObject, wrapped} => a \in MutableAddress /\ ~Guarded(value)
  BY DEF Materialise, Wraps, BindsToProxy
<1>5. memory \subseteq memory' /\ memory' \subseteq Address /\ a \in memory'
  BY <1>1 DEF TypeOK
<1> QED
  BY <1>2, <1>3, <1>4, <1>5, InitReferencePreservesInv

LEMMA CreatePreservesInv ==
  ASSUME Inv,
         NEW a \in Address, NEW value \in Object \cup {NoObject}, NEW wrapped \in Object,
         CreateTransparentReference(a, value, wrapped)
  PROVE  Inv'
<1> USE ReferenceCacheAssumption
<1>1. TypeOK
  BY DEF Inv
<1>2. /\ MayCreate(a, value)
      /\ Wraps(a, value, wrapped)
      /\ BindsToProxy(a, value) => ~Guarded(value)
      /\ memory' = memory \cup {a}
      /\ InitReference(a, value, wrapped)
      /\ live' = live \cup {wrapped}
      /\ held' = held \cup {wrapped}
      /\ UNCHANGED calls
  BY DEF CreateTransparentReference
<1>3. value # NoObject => value \in live
  BY <1>1, <1>2 DEF MayCreate, TypeOK
<1>4. live \subseteq live' /\ live' \subseteq Object /\ held' \subseteq live'
      /\ wrapped \in live' /\ (value # NoObject => value \in live')
  BY <1>1, <1>2, <1>3 DEF TypeOK
<1>5. value \notin {NoObject, wrapped} => a \in MutableAddress /\ ~Guarded(value)
  BY <1>2 DEF Wraps, BindsToProxy
<1>6. memory \subseteq memory' /\ memory' \subseteq Address /\ a \in memory'
      /\ calls' \in [Call -> Address \cup {NoAddress}]
  BY <1>1, <1>2 DEF TypeOK
<1> QED
  BY <1>2, <1>4, <1>5, <1>6, InitReferencePreservesInv

\* An object goes only when no observer, cached original or proxy retains it.
LEMMA CollectPreservesInv ==
  ASSUME Inv, NEW o \in Object, Collect(o)
  PROVE  Inv'
<1> USE ReferenceCacheAssumption
<1>1. TypeOK
  BY DEF Inv
<1>2. /\ o \in live /\ o \notin held /\ o \notin Captured /\ o \notin CachedOriginals
      /\ live' = live \ {o}
      /\ metadata' = [metadata EXCEPT ![o] = NoAddress]
      /\ proxyMapping' = [proxyMapping EXCEPT ![o] = NoObject]
      /\ UNCHANGED <<memory, runtimeObservers, cache, held, finalizers, calls>>
  BY DEF Collect, Retained
<1>3. \A a \in Address : \A r \in runtimeObservers[a] : r.object # o
  BY <1>2 DEF Captured
<1>4. TypeOK'
  BY <1>1, <1>2 DEF TypeOK
<1>5. CapturedLive'
  BY <1>2, <1>3 DEF Inv, CapturedLive
<1>6. FinalizersObserved' /\ FinalFinalizers' /\ OriginalsMutable'
  BY <1>2 DEF Inv, FinalizersObserved, FinalFinalizers, OriginalsMutable
<1>7. WeakMapsLive'
  BY <1>1, <1>2 DEF Inv, WeakMapsLive, TypeOK
<1>8. RegisteredInMemory'
  BY <1>1, <1>2 DEF Inv, RegisteredInMemory, TypeOK
<1>9. RegisteredObserved'
  <2> SUFFICES ASSUME NEW x \in live', metadata'[x] \in MutableAddress
               PROVE  \E r \in runtimeObservers'[metadata'[x]] : r.object = x
    BY DEF RegisteredObserved
  <2>1. x \in live /\ metadata'[x] = metadata[x]
    BY <1>1, <1>2 DEF TypeOK
  <2> QED
    BY <2>1, <1>2 DEF Inv, RegisteredObserved
<1>10. MutableEntryObserved'
  <2> SUFFICES ASSUME NEW a \in MutableAddress, cache[a] # NoEntry
               PROVE  /\ cache[a].value \in live'
                      /\ [id |-> cache[a].observerId, object |-> cache[a].value]
                            \in runtimeObservers[a]
    BY <1>2 DEF MutableEntryObserved, IsCached
  <2>1. /\ cache[a].value \in live
        /\ [id |-> cache[a].observerId, object |-> cache[a].value] \in runtimeObservers[a]
    BY DEF Inv, MutableEntryObserved, IsCached
  <2>2. cache[a].value # o
    BY <2>1, <1>3
  <2> QED
    BY <2>1, <2>2, <1>2
<1>11. ImmutableNotObserved'
  BY <1>2 DEF Inv, ImmutableNotObserved
<1>12. ProxyRoundTrip'
  <2> SUFFICES ASSUME NEW a \in Address, cache[a].original # NoObject
               PROVE  /\ cache[a].value \in live'
                      /\ cache[a].original \in live'
                      /\ cache[a].original \in List =>
                            proxyMapping'[cache[a].original] = cache[a].value
    BY <1>2 DEF ProxyRoundTrip, IsCached
  <2>1. /\ cache[a].value \in live
        /\ cache[a].original \in live
        /\ cache[a].original \in List => proxyMapping[cache[a].original] = cache[a].value
    BY DEF Inv, ProxyRoundTrip, IsCached
  <2>2. cache[a].original # o
    BY <1>2 DEF CachedOriginals
  <2>3. cache'[a] = cache[a] /\ a \in MutableAddress /\ cache[a] # NoEntry
    BY <1>2 DEF Inv, OriginalsMutable, NoEntry
  <2>4. cache[a].value \in live'
    BY <1>10, <2>3 DEF MutableEntryObserved, IsCached
  <2> QED
    BY <2>1, <2>2, <2>4, <1>1, <1>2 DEF TypeOK
<1> QED
  BY <1>4, <1>5, <1>6, <1>7, <1>8, <1>9, <1>10, <1>11, <1>12 DEF Inv

\* A finalizer that can run is one of a final address: it touches that address' cache
\* entry and nothing a mutable reference relies on.
LEMMA FinalizerIsForFinal ==
  ASSUME Inv, NEW f \in finalizers, f.object \notin live
  PROVE  f.address \in Address \ MutableAddress
<1>1. f \in Finalizer
  BY DEF Inv, TypeOK
<1>2. ASSUME f.address \in MutableAddress PROVE FALSE
  BY <1>1, <1>2, ReferenceCacheAssumption
     DEF Inv, FinalizersObserved, CapturedLive, Finalizer
<1> QED
  BY <1>1, <1>2 DEF Finalizer

LEMMA RunFinalizerPreservesInv ==
  ASSUME Inv, NEW f \in finalizers, RunFinalizer(f)
  PROVE  Inv'
<1> USE ReferenceCacheAssumption
<1> DEFINE final == f.address
<1>1. TypeOK
  BY DEF Inv
<1>2. final \in Address \ MutableAddress
  BY FinalizerIsForFinal DEF RunFinalizer
<1>3. cache[final].original = NoObject
  BY <1>2 DEF Inv, OriginalsMutable
<1>4. /\ proxyMapping' = proxyMapping
      /\ cache' = [cache EXCEPT ![final] = NoEntry]
      /\ finalizers' = finalizers \ {f}
      /\ UNCHANGED <<memory, metadata, live, held, calls>>
  BY <1>3 DEF RunFinalizer
<1>5. runtimeObservers' = runtimeObservers
  <2>1. runtimeObservers[final] = {}
    BY <1>2 DEF Inv, ImmutableNotObserved
  <2> QED
    BY <1>1, <1>2, <2>1 DEF RunFinalizer, TypeOK
<1>6. TypeOK'
  BY <1>1, <1>2, <1>4, <1>5 DEF TypeOK, Entry, NoEntry
<1>7. CapturedLive' /\ FinalizersObserved' /\ FinalFinalizers' /\ WeakMapsLive'
  BY <1>4, <1>5
     DEF Inv, CapturedLive, FinalizersObserved, FinalFinalizers, WeakMapsLive
<1>8. RegisteredInMemory' /\ OriginalsMutable'
  BY <1>1, <1>2, <1>4, <1>5
     DEF Inv, RegisteredInMemory, OriginalsMutable, TypeOK, NoEntry
<1>9. RegisteredObserved'
  BY <1>4, <1>5 DEF Inv, RegisteredObserved
<1>10. MutableEntryObserved'
  BY <1>1, <1>2, <1>4, <1>5 DEF Inv, MutableEntryObserved, IsCached, TypeOK, NoEntry
<1>11. ImmutableNotObserved'
  BY <1>1, <1>2, <1>4, <1>5 DEF Inv, ImmutableNotObserved, TypeOK, NoEntry
<1>12. ProxyRoundTrip'
  BY <1>1, <1>2, <1>4 DEF Inv, ProxyRoundTrip, IsCached, TypeOK, NoEntry
<1> QED
  BY <1>6, <1>7, <1>8, <1>9, <1>10, <1>11, <1>12 DEF Inv

\* Steps that only move objects or addresses in and out of sight.
LEMMA EnvironmentPreservesInv ==
  ASSUME Inv,
         live \subseteq live', live' \subseteq Object, held' \subseteq live',
         memory \subseteq memory', memory' \subseteq Address,
         calls' \in [Call -> Address \cup {NoAddress}],
         UNCHANGED <<runtimeObservers, cache, metadata, proxyMapping, finalizers>>
  PROVE  Inv'
<1>1. TypeOK'
  BY DEF Inv, TypeOK
<1>2. CapturedLive' /\ FinalizersObserved' /\ FinalFinalizers' /\ OriginalsMutable'
  BY DEF Inv, CapturedLive, FinalizersObserved, FinalFinalizers, OriginalsMutable
<1>3. WeakMapsLive' /\ RegisteredInMemory'
  BY DEF Inv, WeakMapsLive, RegisteredInMemory
<1>4. RegisteredObserved'
  <2> SUFFICES ASSUME NEW o \in live', metadata[o] \in MutableAddress
               PROVE  \E r \in runtimeObservers[metadata[o]] : r.object = o
    BY DEF RegisteredObserved
  <2>1. o \in live
    BY ReferenceCacheAssumption DEF Inv, WeakMapsLive
  <2> QED
    BY <2>1 DEF Inv, RegisteredObserved
<1>5. MutableEntryObserved'
  BY DEF Inv, MutableEntryObserved, IsCached
<1>6. ImmutableNotObserved' /\ ProxyRoundTrip'
  BY DEF Inv, ImmutableNotObserved, ProxyRoundTrip, IsCached
<1> QED
  BY <1>1, <1>2, <1>3, <1>4, <1>5, <1>6 DEF Inv

LEMMA NextPreservesInv == Inv /\ [Next]_vars => Inv'
<1> SUFFICES ASSUME Inv, [Next]_vars PROVE Inv'
  OBVIOUS
<1> USE ReferenceCacheAssumption
<1>1. TypeOK
  BY DEF Inv
<1>2. ASSUME NEW o \in Object, Allocate(o) PROVE Inv'
  BY <1>1, <1>2, EnvironmentPreservesInv DEF Allocate, TypeOK
<1>3. ASSUME NEW o \in Object, Drop(o) PROVE Inv'
  BY <1>1, <1>3, EnvironmentPreservesInv DEF Drop, TypeOK
<1>4. ASSUME NEW o \in Object, Collect(o) PROVE Inv'
  BY <1>4, CollectPreservesInv
<1>5. ASSUME NEW a \in Address, NEW value \in Object \cup {NoObject},
             NEW wrapped \in Object, CreateTransparentReference(a, value, wrapped)
      PROVE  Inv'
  BY <1>5, CreatePreservesInv
<1>6. ASSUME NEW a \in Address, NEW value \in Object \cup {NoObject},
             NEW wrapped \in Object, ResolveInMemory(a, value, wrapped)
      PROVE  Inv'
  BY <1>1, <1>6, MaterialisePreservesInv DEF ResolveInMemory, TypeOK
<1>7. ASSUME NEW a \in Address, NEW value \in Object \cup {NoObject},
             CreateFailsToBind(a, value)
      PROVE  Inv'
  BY <1>1, <1>7, EnvironmentPreservesInv DEF CreateFailsToBind, TypeOK
<1>8. ASSUME NEW a \in Address, ResolveCached(a) PROVE Inv'
  BY <1>1, <1>8, EnvironmentPreservesInv DEF ResolveCached, IsCached, TypeOK
<1>9. ASSUME NEW a \in Address, PointerArrives(a) PROVE Inv'
  BY <1>1, <1>9, EnvironmentPreservesInv DEF PointerArrives, TypeOK
<1>10. ASSUME NEW c \in Call, NEW a \in Address, StartLoad(c, a) PROVE Inv'
  BY <1>1, <1>10, EnvironmentPreservesInv DEF StartLoad, TypeOK
<1>11. ASSUME NEW c \in Call, NEW value \in Object \cup {NoObject},
              NEW wrapped \in Object, FinishLoad(c, value, wrapped)
       PROVE  Inv'
  <2>1. calls[c] \in Address /\ calls[c] \in memory
    BY <1>1, <1>11 DEF FinishLoad, TypeOK
  <2>2. calls' \in [Call -> Address \cup {NoAddress}]
    BY <1>1, <1>11 DEF FinishLoad, TypeOK
  <2> QED
    BY <1>11, <2>1, <2>2, MaterialisePreservesInv DEF FinishLoad
<1>12. ASSUME NEW c \in Call, LoadFails(c) PROVE Inv'
  BY <1>1, <1>12, EnvironmentPreservesInv DEF LoadFails, TypeOK
<1>13. ASSUME NEW f \in finalizers, RunFinalizer(f) PROVE Inv'
  BY <1>13, RunFinalizerPreservesInv
<1>14. CASE UNCHANGED vars
  BY <1>1, <1>14, EnvironmentPreservesInv DEF vars, TypeOK
<1> QED
  BY <1>2, <1>3, <1>4, <1>5, <1>6, <1>7, <1>8, <1>9, <1>10, <1>11, <1>12, <1>13,
     <1>14 DEF Next

-----------------------------------------------------------------------------
(* What follows for every behaviour, with any number of loads in flight.   *)

\* The inductive invariant holds in every reachable state of the handler.
THEOREM Invariance == Spec => []Inv
  BY InitEstablishesInv, NextPreservesInv, PTL DEF Spec

\* The state stays well typed under every operation, load and collection.
THEOREM TypeCorrect == Spec => []TypeOK
<1>1. Inv => TypeOK
  BY DEF Inv
<1> QED
  BY <1>1, Invariance, PTL

\* The runtime calls back for every live object that is registered under a mutable
\* address, also for those that later loads have put out of the cache.
THEOREM RegisteredAreObserved == Spec => []RegisteredObserved
<1>1. Inv => RegisteredObserved
  BY DEF Inv
<1> QED
  BY <1>1, Invariance, PTL

\* The cached object of a mutable reference is never collected and the runtime keeps
\* the observer that updates it, even when loads of one address overlap.
THEOREM MutableEntriesObserved == Spec => []MutableEntryObserved
<1>1. Inv => MutableEntryObserved
  BY DEF Inv
<1> QED
  BY <1>1, Invariance, PTL

\* A cached list and its proxy stay on the heap and belong together.
THEOREM ProxiesRoundTrip == Spec => []ProxyRoundTrip
<1>1. Inv => ProxyRoundTrip
  BY DEF Inv
<1> QED
  BY <1>1, Invariance, PTL

-----------------------------------------------------------------------------
(* What needs loads to be synchronous: without a call that awaits, a       *)
(* mutable address is initialised once.                                    *)

\* An address that InitReference is called for has no mutable object yet.
Uninitialised(a) ==
  /\ \A o \in live : metadata[o] # a
  /\ runtimeObservers[a] = {}

\* Initialising an address that has no object of its own yet leaves one object for
\* every mutable address, and every other entry alone.
LEMMA InitReferenceKeepsOneObject ==
  ASSUME Inv, OneObjectPerMutable,
         NEW a \in Address, NEW value \in Object \cup {NoObject}, NEW wrapped \in Object,
         InitReference(a, value, wrapped),
         a \in MutableAddress => Uninitialised(a),
         live \subseteq live', live' \subseteq Object
  PROVE  /\ OneObjectPerMutable'
         /\ \A b \in MutableAddress : cache[b] # NoEntry => cache'[b] = cache[b]
<1> USE ReferenceCacheAssumption
<1>1. TypeOK
  BY DEF Inv
<1>2. PICK id : 
        /\ runtimeObservers' =
             IF a \in MutableAddress
             THEN [runtimeObservers EXCEPT ![a] =
                     @ \cup {[id |-> id, object |-> wrapped]}]
             ELSE runtimeObservers
        /\ \E original : cache' = [cache EXCEPT ![a] =
             [value |-> wrapped, original |-> original, observerId |-> id]]
        /\ metadata' = [metadata EXCEPT ![wrapped] = a]
  BY DEF InitReference
<1>3. \A o \in live' \ live : metadata[o] = NoAddress
  BY DEF Inv, WeakMapsLive
<1>4. \A b \in Address \ {a} : cache'[b] = cache[b] /\ runtimeObservers'[b] = runtimeObservers[b]
  BY <1>1, <1>2 DEF TypeOK
<1>5. ASSUME a \in MutableAddress
      PROVE  runtimeObservers'[a] = {[id |-> id, object |-> wrapped]}
             /\ cache'[a].value = wrapped /\ cache'[a].observerId = id
  BY <1>1, <1>2, <1>5 DEF TypeOK, Uninitialised
<1>6. \A b \in MutableAddress : \A o \in live' :
         metadata'[o] = b => cache'[b].value = o
  <2> SUFFICES ASSUME NEW b \in MutableAddress, NEW o \in live', metadata'[o] = b
               PROVE  cache'[b].value = o
    OBVIOUS
  <2>1. CASE o = wrapped
    BY <2>1, <1>1, <1>2, <1>5 DEF TypeOK
  <2>2. CASE o # wrapped
    <3>1. metadata[o] = b /\ o \in live
      BY <2>2, <1>1, <1>2, <1>3 DEF TypeOK
    <3>2. b # a
      BY <3>1 DEF Uninitialised
    <3> QED
      BY <3>1, <3>2, <1>4 DEF OneObjectPerMutable
  <2> QED
    BY <2>1, <2>2
<1>7. \A b \in MutableAddress : \A r \in runtimeObservers'[b] :
         r = [id |-> cache'[b].observerId, object |-> cache'[b].value]
  BY <1>4, <1>5 DEF OneObjectPerMutable
<1>8. ASSUME NEW b \in MutableAddress, cache[b] # NoEntry PROVE cache'[b] = cache[b]
  <2>1. runtimeObservers[b] # {}
    BY <1>8 DEF Inv, MutableEntryObserved
  <2>2. b # a
    BY <2>1 DEF Uninitialised
  <2> QED
    BY <2>2, <1>4
<1> QED
  BY <1>6, <1>7, <1>8 DEF OneObjectPerMutable

LEMMA SerialNext ==
  ASSUME Call = {}, Inv, OneObjectPerMutable, [Next]_vars
  PROVE  /\ OneObjectPerMutable'
         /\ \A b \in MutableAddress : cache[b] # NoEntry => cache'[b] = cache[b]
<1> DEFINE Goal == /\ OneObjectPerMutable'
                   /\ \A b \in MutableAddress : cache[b] # NoEntry => cache'[b] = cache[b]
<1> USE ReferenceCacheAssumption
<1>1. TypeOK
  BY DEF Inv
<1>2. ASSUME UNCHANGED <<runtimeObservers, cache, metadata>>,
             \A o \in live' \ live : metadata[o] = NoAddress
      PROVE  Goal
  BY <1>2 DEF OneObjectPerMutable
<1>3. \A o \in Object \ live : metadata[o] = NoAddress
  BY DEF Inv, WeakMapsLive
<1>4. ASSUME NEW o \in Object, Allocate(o) \/ Drop(o) PROVE Goal
  BY <1>4, <1>2, <1>3 DEF Allocate, Built, Drop
<1>5. ASSUME NEW o \in Object, Collect(o) PROVE Goal
  BY <1>5, <1>1 DEF Collect, OneObjectPerMutable, TypeOK
<1>6. ASSUME NEW a \in Address, NEW value \in Object \cup {NoObject},
             NEW wrapped \in Object, CreateTransparentReference(a, value, wrapped)
      PROVE  Goal
  <2>1. Uninitialised(a)
    BY <1>6, <1>1
       DEF CreateTransparentReference, MayCreate, Uninitialised, Inv, RegisteredInMemory, TypeOK
  <2>2. live \subseteq live' /\ live' \subseteq Object
    BY <1>6, <1>1 DEF CreateTransparentReference, TypeOK
  <2> QED
    BY <1>6, <2>1, <2>2, InitReferenceKeepsOneObject
       DEF CreateTransparentReference
<1>7. ASSUME NEW a \in Address, NEW value \in Object \cup {NoObject},
             NEW wrapped \in Object, ResolveInMemory(a, value, wrapped)
      PROVE  Goal
  <2>1. ASSUME a \in MutableAddress PROVE Uninitialised(a)
    <3>1. cache[a].value \notin live
      BY <1>7 DEF ResolveInMemory, IsCached
    <3>2. \A o \in live : metadata[o] # a
      BY <3>1, <2>1 DEF OneObjectPerMutable
    <3>3. \A r \in runtimeObservers[a] : r.object = cache[a].value
      BY <2>1 DEF OneObjectPerMutable
    <3>4. \A r \in runtimeObservers[a] : r.object \in live
      BY <2>1 DEF Inv, CapturedLive
    <3> QED
      BY <3>1, <3>2, <3>3, <3>4 DEF Uninitialised
  <2>2. live \subseteq live' /\ live' \subseteq Object
    BY <1>7, <1>1 DEF ResolveInMemory, Materialise, TypeOK
  <2> QED
    BY <1>7, <2>1, <2>2, InitReferenceKeepsOneObject
       DEF ResolveInMemory, Materialise
<1>8. ASSUME NEW a \in Address, NEW value \in Object \cup {NoObject},
             CreateFailsToBind(a, value)
      PROVE  Goal
  BY <1>8, <1>2 DEF CreateFailsToBind
<1>9. ASSUME NEW a \in Address, ResolveCached(a) \/ PointerArrives(a) PROVE Goal
  BY <1>9, <1>2 DEF ResolveCached, PointerArrives
<1>10. ASSUME NEW f \in finalizers, RunFinalizer(f) PROVE Goal
  <2>1. f.address \in Address \ MutableAddress
    BY <1>10, FinalizerIsForFinal DEF RunFinalizer
  <2>2. \A b \in MutableAddress :
          cache'[b] = cache[b] /\ runtimeObservers'[b] = runtimeObservers[b]
    BY <1>10, <1>1, <2>1 DEF RunFinalizer, TypeOK
  <2>3. metadata' = metadata /\ live' = live
    BY <1>10 DEF RunFinalizer
  <2> QED
    BY <2>2, <2>3 DEF OneObjectPerMutable
<1>11. CASE UNCHANGED vars
  BY <1>11, <1>2 DEF vars
<1> QED
  BY <1>4, <1>5, <1>6, <1>7, <1>8, <1>9, <1>10, <1>11 DEF Next

\* While no resolve awaits the runtime, the program, the cache and the runtime's
\* observer agree on one object for every mutable pointer.
THEOREM OneObject == ASSUME Call = {} PROVE Spec => []OneObjectPerMutable
<1>1. Init => OneObjectPerMutable
  BY ReferenceCacheAssumption DEF Init, OneObjectPerMutable
<1>2. Inv /\ OneObjectPerMutable /\ [Next]_vars => OneObjectPerMutable'
  BY SerialNext
<1> QED
  BY <1>1, <1>2, Invariance, PTL DEF Spec

\* Under the same assumption no step replaces or removes a mutable reference's entry.
THEOREM EntriesStable == ASSUME Call = {} PROVE Spec => MutableEntryStable
<1>1. Inv /\ OneObjectPerMutable /\ [Next]_vars =>
        [\A a \in MutableAddress : cache[a] # NoEntry => cache'[a] = cache[a]]_vars
  BY SerialNext
<1> QED
  BY <1>1, Invariance, OneObject, PTL DEF Spec, MutableEntryStable
=============================================================================
