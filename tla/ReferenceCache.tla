--------------------------- MODULE ReferenceCache ---------------------------
(***************************************************************************)
(* The life of a reference on the JS side of the runtime: DIFHandler's     *)
(* #cache, #referenceMetadata and #proxyMapping, the observer it registers *)
(* on the DATEX core runtime for every mutable pointer, the loads that are *)
(* in flight, and the garbage collector with the finalizers it may run.    *)
(* The values themselves are left to PointerUpdates; here an object is an  *)
(* identity.                                                               *)
(***************************************************************************)
EXTENDS FiniteSets

CONSTANTS
  Address,         \* pointer addresses
  MutableAddress,  \* those whose reference is not DIFReferenceMutability.Immutable
  Object,          \* identities of JS objects: values, Ref wrappers, proxies
  List,            \* those that are arrays, whose binding wraps them in a proxy
  Proxy,           \* those that are such proxies
  Endpoint,        \* those that are endpoints, one live object for each name
  Call,            \* resolvePointerAddress calls that may await the runtime
  ObserverId,      \* ids the runtime hands out for observers
  NoObject, NoAddress, NoObserver

ASSUME ReferenceCacheAssumption ==
  /\ MutableAddress \subseteq Address
  /\ List \subseteq Object /\ Proxy \subseteq Object /\ Endpoint \subseteq Object
  /\ List \cap Proxy = {} /\ Endpoint \cap (List \cup Proxy) = {}
  /\ NoObject \notin Object
  /\ NoAddress \notin Address
  /\ NoObserver \notin ObserverId

VARIABLES
  memory,            \* the addresses the runtime holds in memory
  runtimeObservers,  \* per address, what observe_pointer registered: the id and
                     \* the object its callback closes over
  cache,             \* #cache, NoEntry where the Map has no key
  metadata,          \* #referenceMetadata: the address of a registered object
  proxyMapping,      \* #proxyMapping: from an original list to its proxy
  live,              \* the objects on the heap
  held,              \* the live objects that program code reaches
  finalizers,        \* finalizers registered and not yet run; registrations that
                     \* know the same are one
  calls              \* the address each pending resolvePointerAddress awaits

vars == <<memory, runtimeObservers, cache, metadata, proxyMapping, live, held,
          finalizers, calls>>

\* What a Ref or an ordinary value may be.
Plain == Object \ (List \cup Proxy \cup Endpoint)

Entry == [value: Object \cup {NoObject}, original: Object \cup {NoObject},
          observerId: ObserverId \cup {NoObserver}]
NoEntry == [value |-> NoObject, original |-> NoObject, observerId |-> NoObserver]

RuntimeObserver == [id: ObserverId, object: Object]

\* What one FinalizationRegistry closure knows: the object it was registered
\* for, the address passed as held value, and the captured observerId.
Finalizer == [object: Object, address: Address,
              observerId: ObserverId \cup {NoObserver}]

TypeOK ==
  /\ memory \subseteq Address
  /\ runtimeObservers \in [Address -> SUBSET RuntimeObserver]
  /\ cache \in [Address -> Entry]
  /\ metadata \in [Object -> Address \cup {NoAddress}]
  /\ proxyMapping \in [Object -> Object \cup {NoObject}]
  /\ live \subseteq Object
  /\ held \subseteq live
  /\ finalizers \subseteq Finalizer
  /\ calls \in [Call -> Address \cup {NoAddress}]

Init ==
  /\ memory = {}
  /\ runtimeObservers = [a \in Address |-> {}]
  /\ cache = [a \in Address |-> NoEntry]
  /\ metadata = [o \in Object |-> NoAddress]
  /\ proxyMapping = [o \in Object |-> NoObject]
  /\ live = {}
  /\ held = {}
  /\ finalizers = {}
  /\ calls = [c \in Call |-> NoAddress]

-----------------------------------------------------------------------------
(* The heap.  A callback registered with the runtime is owned by the       *)
(* runtime, so what it closes over stays reachable; the Map #cache owns    *)
(* originalValue, and a proxy owns its target.                             *)

\* Mutation: the callbacks hold their object by a WeakRef.
CapturedWeakly == {}

Captured == {r.object : r \in UNION {runtimeObservers[a] : a \in Address}}

CachedOriginals == {cache[a].original : a \in Address}

ProxyTargets == {o \in Object : proxyMapping[o] \in held \cup Captured}

Retained == held \cup Captured \cup CachedOriginals \cup ProxyTargets

\* Identities that nothing on the JS side refers to any more, not even a dead
\* WeakRef or a finalizer, may name a newly allocated object.
Unused(o) ==
  /\ o \in Object \ live
  /\ \A a \in Address : cache[a].value # o /\ cache[a].original # o
  /\ \A f \in finalizers : f.object # o

\* The object that building a value gives: a new one or, for the name of an endpoint
\* that is still on the heap, that endpoint (Endpoint.get).
Built(o) ==
  /\ o \in Object \ Proxy
  /\ Unused(o) \/ o \in Endpoint \cap live

-----------------------------------------------------------------------------
(* References.                                                             *)

\* Mutation: the entry is used without checking that its WeakRef dereferences.
HasEntry(a) == cache[a] # NoEntry

\* getCachedReference: a cache entry whose WeakRef still dereferences.
IsCached(a) == cache[a].value \in live

FreeObserverIds(a) == ObserverId \ {r.id : r \in runtimeObservers[a]}

\* Mutation: a pointer that is observed already keeps its first observer.
InitReferenceObservingOnce(a, value, wrapped) ==
  LET original == IF value = wrapped THEN NoObject ELSE value
  IN  \E id \in IF a \notin MutableAddress THEN {NoObserver}
                ELSE IF runtimeObservers[a] = {} THEN ObserverId
                ELSE {r.id : r \in runtimeObservers[a]} :
        /\ runtimeObservers' =
             IF a \in MutableAddress /\ runtimeObservers[a] = {}
             THEN [runtimeObservers EXCEPT ![a] = {[id |-> id, object |-> wrapped]}]
             ELSE runtimeObservers
        /\ cache' = [cache EXCEPT ![a] =
             [value |-> wrapped, original |-> original, observerId |-> id]]
        /\ metadata' = [metadata EXCEPT ![wrapped] = a]
        /\ proxyMapping' = IF original = NoObject THEN proxyMapping
                           ELSE [proxyMapping EXCEPT ![original] = wrapped]
        /\ finalizers' = finalizers \cup
             {[object |-> wrapped, address |-> a, observerId |-> id]}

\* Mutation: a new observer takes the place of the ones an earlier load registered.
InitReferenceObservingAnew(a, value, wrapped) ==
  LET original == IF value = wrapped THEN NoObject ELSE value
  IN  \E id \in IF a \in MutableAddress THEN ObserverId ELSE {NoObserver} :
        /\ runtimeObservers' =
             IF a \in MutableAddress
             THEN [runtimeObservers EXCEPT ![a] = {[id |-> id, object |-> wrapped]}]
             ELSE runtimeObservers
        /\ cache' = [cache EXCEPT ![a] =
             [value |-> wrapped, original |-> original, observerId |-> id]]
        /\ metadata' = [metadata EXCEPT ![wrapped] = a]
        /\ proxyMapping' = IF original = NoObject THEN proxyMapping
                           ELSE [proxyMapping EXCEPT ![original] = wrapped]
        /\ finalizers' = finalizers \cup
             {[object |-> wrapped, address |-> a, observerId |-> id]}

\* initReference with cacheWrappedReferenceValue: `value` is the JS value and
\* `wrapped` the reference object that stands for it.  Whatever `wrapped` was
\* registered for before, it is now registered for a.
InitReference(a, value, wrapped) ==
  LET original == IF value = wrapped THEN NoObject ELSE value
  IN  \E id \in IF a \in MutableAddress THEN FreeObserverIds(a) ELSE {NoObserver} :
        /\ runtimeObservers' =
             IF a \in MutableAddress
             THEN [runtimeObservers EXCEPT ![a] =
                     @ \cup {[id |-> id, object |-> wrapped]}]
             ELSE runtimeObservers
        /\ cache' = [cache EXCEPT ![a] =
             [value |-> wrapped, original |-> original, observerId |-> id]]
        /\ metadata' = [metadata EXCEPT ![wrapped] = a]
        /\ proxyMapping' = IF original = NoObject THEN proxyMapping
                           ELSE [proxyMapping EXCEPT ![original] = wrapped]
        /\ finalizers' = finalizers \cup
             {[object |-> wrapped, address |-> a, observerId |-> id]}

\* Mutation: an immutable reference gets a binding as well.
BindsImmutable(a, o) == o \in List \cup Proxy

\* bindValue puts an array, or the proxy of one, behind a new proxy; it throws when
\* it reads an array that hides behind a proxy already.
BindsToProxy(a, o) == a \in MutableAddress /\ o \in List \cup Proxy

Guarded(o) == o \in List /\ proxyMapping[o] # NoObject

\* wrapJSValue and bindValue: a primitive value (NoObject) gets a new Ref, a mutable
\* list a new proxy, anything else stands for itself.
Wraps(a, value, wrapped) ==
  \/ value = NoObject /\ wrapped \in Plain /\ Unused(wrapped)
  \/ value = wrapped /\ ~BindsToProxy(a, value)
  \/ BindsToProxy(a, value) /\ wrapped \in Proxy /\ Unused(wrapped)

\* Program code makes an ordinary object, or asks for an endpoint.
Allocate(o) ==
  /\ Built(o)
  /\ live' = live \cup {o}
  /\ held' = held \cup {o}
  /\ UNCHANGED <<memory, runtimeObservers, cache, metadata, proxyMapping,
                 finalizers, calls>>

\* getPointerAddressForValue refuses a value that is registered; the runtime then
\* makes a pointer under an address that was not in use.
MayCreate(a, value) ==
  /\ a \notin memory /\ \A c \in Call : calls[c] # a
  /\ value \in held \cup {NoObject}
  /\ value # NoObject => metadata[value] = NoAddress

\* Mutation: without DEBUG_MODE's guarded accessors, binding a list anew does not throw.
CreateBindingAnew(a, value, wrapped) ==
  /\ MayCreate(a, value)
  /\ Wraps(a, value, wrapped)
  /\ memory' = memory \cup {a}
  /\ InitReference(a, value, wrapped)
  /\ live' = live \cup {wrapped}
  /\ held' = held \cup {wrapped}
  /\ UNCHANGED calls

\* createTransparentReference.
CreateTransparentReference(a, value, wrapped) ==
  /\ MayCreate(a, value)
  /\ Wraps(a, value, wrapped)
  /\ BindsToProxy(a, value) => ~Guarded(value)
  /\ memory' = memory \cup {a}
  /\ InitReference(a, value, wrapped)
  /\ live' = live \cup {wrapped}
  /\ held' = held \cup {wrapped}
  /\ UNCHANGED calls

\* createTransparentReference on a list that already hides behind a proxy: the
\* duplicate check looks at the proxy's metadata only, create_pointer succeeds,
\* and the binding then throws when it reads the guarded list.
CreateFailsToBind(a, value) ==
  /\ value # NoObject /\ MayCreate(a, value)
  /\ BindsToProxy(a, value) /\ Guarded(value)
  /\ memory' = memory \cup {a}
  /\ UNCHANGED <<runtimeObservers, cache, metadata, proxyMapping, live, held,
                 finalizers, calls>>

\* A resolve that finds a live object in the cache returns that object.
ResolveCached(a) ==
  /\ IsCached(a)
  /\ held' = held \cup {cache[a].value}
  /\ UNCHANGED <<memory, runtimeObservers, cache, metadata, proxyMapping, live,
                 finalizers, calls>>

\* The content of a pointer is another pointer: its value is what resolving that one
\* has returned, the object it is cached for or the array behind its proxy.
PointsToReference(a, value) ==
  /\ value # NoObject
  /\ \E b \in Address \ {a} :
       IsCached(b) /\ value \in {cache[b].value, cache[b].original}

\* The tail of both resolves: the value is built, or is that of another pointer, whose
\* type need not be one that has a binding; it is wrapped and cached, but it is the
\* unwrapped value that is returned.
Materialise(a, value, wrapped) ==
  /\ \/ Built(value) \/ value = NoObject
     \/ PointsToReference(a, value)
  /\ \/ Wraps(a, value, wrapped)
     \/ PointsToReference(a, value) /\ value = wrapped
  /\ value # wrapped => ~Guarded(value)
  /\ InitReference(a, value, wrapped)
  /\ live' = live \cup ({value, wrapped} \ {NoObject})
  /\ held' = held \cup ({value} \ {NoObject})

\* Mutation: the runtime is asked without a look at the cache.
ResolveUncached(a, value, wrapped) ==
  /\ a \in memory
  /\ Materialise(a, value, wrapped)
  /\ UNCHANGED <<memory, calls>>

\* resolvePointerAddressSync, and resolvePointerAddress when the pointer is in
\* memory: the cache is checked, then the runtime is asked.
ResolveInMemory(a, value, wrapped) ==
  /\ ~IsCached(a)
  /\ a \in memory
  /\ Materialise(a, value, wrapped)
  /\ UNCHANGED <<memory, calls>>

-----------------------------------------------------------------------------
(* Asynchronous loads: the cache is checked before the await, and the      *)
(* continuation initialises the reference without checking it again.       *)

StartLoad(c, a) ==
  /\ calls[c] = NoAddress
  /\ ~IsCached(a)
  /\ a \notin memory
  /\ calls' = [calls EXCEPT ![c] = a]
  /\ UNCHANGED <<memory, runtimeObservers, cache, metadata, proxyMapping, live,
                 held, finalizers>>

\* The runtime comes to hold a pointer that JS has no object for: it has fetched one
\* that a call awaits, or createReferenceFromDIFValue or a DATEX script has made one.
PointerArrives(a) ==
  /\ a \notin memory
  /\ memory' = memory \cup {a}
  /\ UNCHANGED <<runtimeObservers, cache, metadata, proxyMapping, live, held,
                 finalizers, calls>>

\* The promise of resolve_pointer_address resolves and its continuation runs.
FinishLoad(c, value, wrapped) ==
  /\ calls[c] \in memory
  /\ Materialise(calls[c], value, wrapped)
  /\ calls' = [calls EXCEPT ![c] = NoAddress]
  /\ UNCHANGED memory

\* The promise is rejected: the caller gets the error, nothing is cached.
LoadFails(c) ==
  /\ calls[c] # NoAddress
  /\ calls[c] \notin memory
  /\ calls' = [calls EXCEPT ![c] = NoAddress]
  /\ UNCHANGED <<memory, runtimeObservers, cache, metadata, proxyMapping, live,
                 held, finalizers>>

-----------------------------------------------------------------------------
(* Garbage collection.                                                     *)

\* Program code loses its last path to an object.
Drop(o) ==
  /\ o \in held
  /\ held' = held \ {o}
  /\ UNCHANGED <<memory, runtimeObservers, cache, metadata, proxyMapping, live,
                 finalizers, calls>>

\* An unreachable object goes, and with it its keys in the WeakMaps.
Collect(o) ==
  /\ o \in live \ Retained
  /\ live' = live \ {o}
  /\ metadata' = [metadata EXCEPT ![o] = NoAddress]
  /\ proxyMapping' = [proxyMapping EXCEPT ![o] = NoObject]
  /\ UNCHANGED <<memory, runtimeObservers, cache, held, finalizers, calls>>

\* The FinalizationRegistry callback of cacheWrappedReferenceValue, some time
\* after the object is gone.
RunFinalizer(f) ==
  /\ f \in finalizers /\ f.object \notin live
  /\ LET original == cache[f.address].original
     IN  proxyMapping' = IF original = NoObject THEN proxyMapping
                         ELSE [proxyMapping EXCEPT ![original] = NoObject]
  /\ cache' = [cache EXCEPT ![f.address] = NoEntry]
  /\ runtimeObservers' = [runtimeObservers EXCEPT ![f.address] =
                            {r \in @ : r.id # f.observerId}]
  /\ finalizers' = finalizers \ {f}
  /\ UNCHANGED <<memory, metadata, live, held, calls>>

-----------------------------------------------------------------------------
Next ==
  \/ \E o \in Object : Allocate(o) \/ Drop(o) \/ Collect(o)
  \/ \E a \in Address, value \in Object \cup {NoObject} :
       \/ \E wrapped \in Object : CreateTransparentReference(a, value, wrapped)
       \/ \E wrapped \in Object : ResolveInMemory(a, value, wrapped)
       \/ CreateFailsToBind(a, value)
  \/ \E a \in Address : ResolveCached(a) \/ PointerArrives(a)
  \/ \E c \in Call :
       \/ \E a \in Address : StartLoad(c, a)
       \/ \E value \in Object \cup {NoObject}, wrapped \in Object :
            FinishLoad(c, value, wrapped)
       \/ LoadFails(c)
  \/ \E f \in finalizers : RunFinalizer(f)

Spec == Init /\ [][Next]_vars
-----------------------------------------------------------------------------
(* Properties.                                                             *)

\* No object loses its observer: whatever live object is registered under a mutable address,
\* one that a later load has put out of the cache included, the runtime still calls
\* back for it (dif-handler.ts:736, 865).
RegisteredObserved ==
  \A o \in live : metadata[o] \in MutableAddress =>
     \E r \in runtimeObservers[metadata[o]] : r.object = o

\* A mutable reference stays live for updates: its cached object is on the heap and
\* the runtime holds the observer the entry names, closed over that very object
\* (initReference: "observe to keep the pointer 'live' and receive updates").
MutableEntryObserved ==
  \A a \in MutableAddress : cache[a] # NoEntry =>
     /\ IsCached(a)
     /\ [id |-> cache[a].observerId, object |-> cache[a].value] \in runtimeObservers[a]

\* The original of a cached proxy is still on the heap, and an array that has been
\* put behind a proxy leads to that one proxy (getProxyValueFromOriginal).
ProxyRoundTrip ==
  \A a \in Address : cache[a].original # NoObject =>
     /\ IsCached(a)
     /\ cache[a].original \in live
     /\ cache[a].original \in List => proxyMapping[cache[a].original] = cache[a].value

\* One JS object per mutable pointer: every live object that is registered under a
\* mutable address is the cached one, and the runtime holds one observer for it,
\* so an update is applied and announced once (what the cache is for).
OneObjectPerMutable ==
  \A a \in MutableAddress :
     /\ \A o \in live : metadata[o] = a => cache[a].value = o
     /\ \A r \in runtimeObservers[a] :
          r = [id |-> cache[a].observerId, object |-> cache[a].value]

\* The cache entry of a mutable reference is never replaced or removed: holders of
\* the object and later resolves go on sharing it.
MutableEntryStable ==
  [][\A a \in MutableAddress : cache[a] # NoEntry => cache'[a] = cache[a]]_vars

\* "finalizer to clean up the cache ... when the object is garbage collected": a
\* finalizer never takes a cache entry from an object that is still alive.
FinalizerSparesLive ==
  [][\A a \in Address : IsCached(a) => cache'[a] # NoEntry]_vars
=============================================================================
