# datex-core-js, specified in TLA+

This directory models the parts of datex-core-js in which state is shared between
the JavaScript side, the DATEX core runtime behind the WebAssembly bridge, the
garbage collector and callbacks of the program. The modules are read against the
source: the tables below and the entry "map" in `PROJECT.json` give, for each
definition, the lines it stands for. Paths are relative to the repository.

- [1. The system](#1-the-system)
- [2. The modules](#2-the-modules)
- [3. The runs](#3-the-runs)
- [4. Bounds and fairness](#4-bounds-and-fairness)
- [5. The proofs](#5-the-proofs)
- [6. What the models show about the code](#6-what-the-models-show-about-the-code)
- [7. What is not modelled](#7-what-is-not-modelled)
- [8. Plan](#8-plan)

## 1. The system

A program holds ordinary JavaScript values. `createTransparentReference` turns one
into a *reference*: the core gets a pointer with an address, the program gets an
object (a `Ref` for a primitive, a proxy for a list, the value itself otherwise)
that is to stay equal to what the core holds, whoever changes it.

| Component | State | Operations | Talks to |
| --- | --- | --- | --- |
| `DIFHandler`, reference cache (`src/dif/dif-handler.ts`) | `#cache` (address to weak reference, original, observer id), `#referenceMetadata`, `#proxyMapping` (WeakMaps) | `createTransparentReference`, `resolvePointerAddress` (await) and `...Sync`, `initReference`, finalizers | core (create, resolve, observe), type bindings, collector |
| `DIFHandler`, observers and updates | `#observers` (address to Map of id to callback), relay option of the core's observer | `observePointer`, `unobservePointer`, `updateReference`, `handlePointerUpdate`, the closure registered by `initReference` | core, `Ref`, program callbacks |
| `DIFHandler`, value conversion | none | `resolveDIFValue*`, `convertJSValueToDIFValue*` | reference cache |
| `Ref` (`src/refs/ref.ts`) | `#value` | getter, setter (update the core, then store), `updateValueSilently` | `DIFHandler` |
| `TypeRegistry`, `TypeBinding` (`src/dif/type-registry.ts`) | registered bindings, access flag | `bindValue`, `handleDifUpdate`, `allowOriginalValueAccess` | bindings |
| List binding (`src/lib/js-core-types/array.ts`) | the array behind a proxy, accessors on its elements | proxy traps, `push`, `unshift`, `splice`, `fill`; handlers for updates | `DIFHandler.trigger*` |
| Map binding (`src/lib/js-core-types/map.ts`) | the Map's own methods | intercepted `set`, `delete`, `clear`; handlers | `DIFHandler.trigger*` |
| Endpoint registry (`src/lib/special-core-types/endpoint.ts`) | weak references by name | `get`, `registerEndpoint`, finalizer | collector |
| `Runtime` (`src/runtime/runtime.ts`) | the core, `DIFHandler`, `ComHub` | start, `execute`, `executeSync`, `startLSP` | all |
| `ComHub`, `ComInterface` (`src/network/`) | implementations by type | `createInterface` (awaits creation and `init`), `close` (awaits `cleanup`), `sendBlock` | bridge |
| Bridge, `RuntimeDIFHandle` (`rs-lib/src/runtime.rs`) | borrow of the handle | observe, update, resolve | core |
| Bridge, `JSComHub` and interfaces (`rs-lib/src/network/`) | interfaces, sockets, receive queues, open handshakes | create, close, send, receive, socket events | core, browser sockets |
| Bridge, language server pipe (`rs-lib/src/lsp/`) | two channels, a read buffer | read, write, forward | core, JS callback |

Everything runs on one JavaScript thread. What makes it hard is nevertheless
concurrency: an `await` lets any other call run before its continuation; the core
calls observers back *inside* a call that changes a value, and those callbacks may
call again; the garbage collector and its finalizers run when they like; events of
sockets arrive between the steps of opening and closing.

What makes each component correct:

- **Reference cache**: one address, one object. A mutable reference has exactly one
  object; whatever object is registered for it stays observed; finalizers remove what
  died and nothing else.
- **Observers and updates**: the `Ref` and the core agree whenever nothing is half
  way; each registered callback is called once per update; own updates cross the
  bridge while someone listens.
- **List binding**: every operation, from either side, leaves the array and the core's
  list equal.
- **Map binding**: entries and the core's keys correspond one to one, although the two
  sides do not tell keys apart in the same way.
- **Value conversion and execution**: the two directions are inverse to each other; a
  result is handed out only when every pointer it needs has been loaded, and a caller
  hears of a load that failed.
- **Endpoint registry**: one live object per name.
- **Interfaces**: a send under way keeps its socket and its interface; closing ends in
  the hub not knowing the interface; event handlers find what they were registered for.
- **Pipe**: bytes arrive once and in order, none is left behind while its reader sleeps;
  0 is read only at the end.

## 2. The modules

```
ReferenceCache  <-- MCReferenceCache    ReferenceCache_proofs
PointerUpdates  <-- MCPointerUpdates    PointerUpdates_proofs <-- PointerUpdates_refinement
      | refines
Notification
ListBinding     <-- MCListBinding       ListBinding_proofs
MapBinding      <-- MCMapBinding        MapBinding_proofs
Interfaces      <-- MCInterfaces        Interfaces_proofs
Conversion <-- Execution <-- MCExecution
                             Execution_proofs
Pipe            <-- MCPipe              Pipe_proofs
      | refines, in both directions
ByteStream
```

**ReferenceCache** is the life of references by identity: which objects exist, which
the program still reaches, what the caches and the core's observers refer to.

| Variable | In the code |
| --- | --- |
| `memory`, `runtimeObservers` | pointers and observers of the core; an observer keeps the object its callback closes over |
| `cache`, `metadata`, `proxyMapping` | `#cache`, `#referenceMetadata`, `#proxyMapping` |
| `finalizers` | registrations with a `FinalizationRegistry`, with the values its closure captured |
| `calls` | `resolvePointerAddress` calls between the cache check and their continuation |
| `live`, `held` | the heap, and the part of it that the program reaches |

`InitReference` is `initReference` with `cacheWrappedReferenceValue`, used by both
ways a reference comes about: `CreateTransparentReference` and `Materialise`, the
common tail of the resolves. `StartLoad`, `PointerArrives`, `FinishLoad` and
`LoadFails` are the four moments of an asynchronous resolve. `CreateFailsToBind` is
the exception that leaves a pointer in the core without a reference. `Collect` takes
any object that is not `Retained`, at any time or never; `RunFinalizer` may run any
time later or never; of registrations that know the same only one is kept. Contents
are flat: a value that contains pointers is several
resolves, each an action of its own. `held` stands for everything reachable from
the program.

What a resolve wraps and caches need not be a new object. `Built` is the value
made from its DIF: new or, for the name of an endpoint in use, that `Endpoint`
(`Endpoint.get`). `PointsToReference` is the value of a pointer that refers to another one:
the object which that one is cached for, or the array behind its proxy. Either may be
registered already, and `InitReference` then overwrites its metadata. `Guarded` is an array
behind a proxy, whose elements throw when a binding reads them: neither
`CreateTransparentReference` nor a resolve can put it behind a second one.

**PointerUpdates** is one pointer whose reference is a `Ref`: its value on both sides,
the relay option, the Map of observers in insertion order, and a stack of `frames`,
one for each update that is being announced. A callback in the top frame may set the
`Ref`, register or withdraw observers; `SetValue` in a callback pushes another frame.
`HandleBusy` is the mutable borrow of `RuntimeDIFHandle::update`, by which a setter
inside a setter's announcement is refused. That bounds the stack: a frame of an own
update admits no further one, so there are at most two. The loop `for (const cb of
observers.values())` is live: an observer added meanwhile is reached, one removed is
not, and once the Map has been taken out of `#observers` newcomers go to another Map
(`attached`). **Notification** is what `observePointer` promises, without ids, Maps or
relay: while a callback is subscribed, each publication is delivered to it once.

**ListBinding** is a list pointer bound to an array: the core's list, the array behind
the proxy, which elements carry a guarding accessor, and the flag
`IS_PROXY_ACCESS`. An element assignment is split where other code runs: after the
core has taken the value its observers are called (`ObserverReads`), and only then is
the array changed (`CompleteAssignment`, or `AssignmentThrows`). Other operations do
not let program code in between that can tell the difference and are one action each,
with everything the trap or handler calls. Two things about the core are assumed from
the way the binding uses it and marked external: setting the element one past the end
appends, and a splice beyond the end is refused.

**Interfaces** is what JavaScript may do with communication interfaces, and the borrows
by which Rust keeps the calls apart. `stage` follows `createInterface` over its awaits
(`orphan`: `init` threw, the hub keeps an interface nobody can close). A call of
`sendBlock`, `testSendBlock`, `close` or of a signalling method goes through
`issued` (called; the body of an async Rust function first runs in a later microtask),
`pending` (it awaits, holding the `RefCell` borrow recorded in `borrow`) and the end; a
borrow that is refused, a send to an interface that is gone and a callback that throws
are panics (`dead`), after which the promise never settles and the borrow stays. Besides
the interface, JavaScript's handle on `JSComHub` is borrowed: shared for as long as an
async method runs (but not `close_interface`, which returns its promise at once), mutably
by `base_interface_on_send`. `handle` says in which state a synchronous method that
panicked has left it; `exclusive` means that every later call throws. A data channel
or WebSocket sends at once, so a send over it awaits nothing. `listening` are the servers whose
requests may still add sockets: from the end of `init` until `cleanup`, which waits for
the requests under way, is over. `remove_interface` of the hub, another
crate, is taken to borrow the interface mutably until it is done (`BeginClose`,
`Removed`).

**MapBinding** is a map pointer bound to a `Map`. A key of the core and a key of the
`Map` are different things: `Converted` is what the conversion makes of a JavaScript key,
`Resolved` what the core's key may come back as. A key that is an object goes out by its
structure and comes back as a new object, and an integer and a decimal of the core come
back as the same number. Each operation, intercepted method or handler, is one action;
`RemoteReplaceByObject` is the handler that clears the `Map` before it finds that the new
value has no `entries()`. `Diverges` lists the steps after which the two sides may differ,
and `Matched` says when a key is one of those.

**Conversion** has `convertJSValueToDIFValueContainer` and
`resolveDIFValueContainer` with `resolveDIFValue` and `resolvePointerAddress` as recursive
functions over values `[is |-> kind, of |-> contents]`. Their domains are built in levels:
`Containers[n]` and `Values[n]` are what nests at most n deep, where a pointer counts as one
more than its content, and `Depth` is the last level. Each function is a step (`ConvertWith`,
`ResolveDIFValue`, `SettleWith`) that is given the function for what is inside: the call
`this.resolveDIFValueContainer(v)` of the code. Numbers and texts are opaque. A
pointer that is not loaded gives a promise: `load` waits for the core, `all` is
`Promise.all` of a list, `binding` is a pointer whose content is still being resolved.
`Reference(a)` is the object bound to address `a`, which the program may have and pass in.
`Pointed(a)` is what a resolve of `a` returns: the object in the cache or, the first time, the
content itself, which `initReference` has just wrapped: the array behind the new proxy, or the
number for which a `Ref` was made and which is bound to nothing. `Settle` is
what happens when a load comes back: the continuations, those they set off, and
exceptions in them, which reject. Maps and objects are filled with what resolving their
contents returned, a promise included (`Stored`), as in the code.
**Execution** runs it: calls of `execute` and `executeSync`, the core's answer (the value
that was passed in, or a result that refers to pointers), loads that arrive or fail in
any order, and a program that drops a result and calls again (`Forget`). `Echo` is what the
core makes of a value that a script hands back: it keeps no type of a Map.

**Pipe** is the connection to the language server: two unbounded channels of chunks, the
`buffer` and `pos` of `Reader`, the task that calls JavaScript. `PollBuffered`, `PollNext`
and `PollEmpty` are the ways through `poll_read`, with a read buffer of any size; a
reader that found the channel empty is `asleep` until the channel wakes it. The server may
stop by itself at any time; one that has read the end still has the `Writer`, and may write
until it returns (`ServerReturns`). **ByteStream** is what either direction promises: what is taken
out is a prefix of what is in flight, the end is seen when nothing is left and the other
side has closed. The two instances in `Pipe` map the rest of the buffer and the channel
to `inFlight`.

The `MC` modules declare model values and symmetry. In the modules, a definition whose
comment begins with "Mutation:" is a plausible mistake in the one that follows it; no
action uses it, and `PROJECT.json` names the property that notices when it is put in.

## 3. The runs

Runs that pass:

| Run | Properties | What it shows |
| --- | --- | --- |
| `cache_serial` | `TypeOK`, `OneObjectPerMutable`, `ProxyRoundTrip`, `MutableEntryStable` | with the present core, which has no asynchronous loads, a mutable address has one object and one observer, its entry never changes, and lists and their proxies belong together, under creation, resolves, failed bindings, collection and late finalizers |
| `cache_concurrent` | `RegisteredObserved`, `MutableEntryObserved`, `ProxyRoundTrip` | what survives two loads that overtake each other, and values that are registered already: each live object registered for a mutable address is observed, each entry with its own object, proxies and originals belong together |
| `updates_orderly` | `TypeOK`, `ImplementsNotification`, `DueIsCalled` | when observers leave in the reverse order of their coming, the code implements `Notification`, nested updates included, and whoever is due is called; the core's id is 0, the first it gives, with which relaying is never switched off (section 6) |
| `updates_anyorder` | `MirrorsRuntime`, `OwnUpdateNotOvertaken`, `RelayWhileObserved`, `DueAreRegistered` | in any order, with updates that cannot be resolved; where ids collide a callback may be missed, but none is called that was withdrawn before its turn; the core's id is 1, so that relaying goes on and off |
| `list_operations` | `TypeOK`, `KeepsMirror` | every operation on a list preserves equality of array and core list, except those named in `Diverges` |
| `map_operations` | `TypeOK`, `KeepsMirror` | every operation on a `Map` keeps entries and core keys in correspondence, except those named in `Diverges` |
| `execution_values` | `TypeOK`, `EchoIsSame`, `ResultsAreAwaited`, `ResultsAreLoaded`, `ExecutionsEnd` | what went through the core unchanged is the same value, of the same kinds at every depth, with what its pointers resolve to for its references; results are handed out when they and what they refer to are loaded; every call is answered, whichever loads fail |
| `pipe_streams` | `TypeOK`, `EndIsTrue`, `ImplementsByteStreams`, `EverythingArrives` | both directions implement `ByteStream`, however messages are cut into chunks and reads; nothing stays in the buffer or a channel for ever |
| `interfaces_calls` | `TypeOK`, `PendingSendKeepsSocket`, `RequestsAreServed` | a send under way keeps its socket and interface whatever else is called; a server's requests find its interface in the hub and not borrowed |

Runs that are to find a violation each check one statement made in the repository;
section 6 tells what they show: `cache_finalizer`, `updates_ids`, `list_echo`.

## 4. Bounds and fairness

- `cache_serial`: two mutable addresses and a final one, so that a list bound to one
  address can be tried at another and a pointer can refer to a pointer of either kind; an
  object, a list with two proxies, and an endpoint, which two addresses may share, so that an
  address can also go from what was collected to something else; two observer ids, so that a second observer could be registered by mistake.
- `cache_concurrent`: a mutable and a final address, two lists with two proxies and a plain
  object, and two calls, which is what a race takes; three observer ids, for the two loads
  and a synchronous resolve that comes between. An endpoint behaves here as the plain object
  that another pointer refers to. The proofs are for any number of each.
- In both, object identities are reused when nothing refers to them, so runs of any length
  are covered.
- `updates_*`: three callbacks are the fewest with which an id collides; two values that
  resolve and one that does not. The stack needs no bound. Observers are bounded by the
  number of callbacks, since a callback is registered at most once at a time.
- `list_*`: lists of up to three elements (`MaxLength`), two values and one that is
  refused; this has a first, an inner and a last element, holes, and assignments past
  the end by more than one. A step that would make a list longer is disabled.
- `interfaces_calls`: an interface of each kind, one socket, two calls, one that holds the
  interface and one that is refused; the proofs are for any number. Nothing relates
  sockets to each other but that they are distinct.
- `map_operations`: four keys of the core and four of JavaScript, two of these objects of the
  same structure, and one number that stands for two keys of the core: each way in which
  keys can fail to match. Two values and one that is refused; lengths need no bound.
- `execution_values`: one call at a time, since calls share nothing but the core's memory,
  whose initial content is arbitrary; three pointers, of which one refers to
  another through a list and one through a map, so that loads nest and fail half way.
  Values are up to two levels deep, with every kind at every place, since conversions look
  at a value and at the first element of an array (`dif-handler.ts:348`). `Depth` = 7 is
  more than any of them needs, with their pointers and the promises around them; `Payload` is
  the numbers, texts and names that occur. `ConversionAssumption`, that every address is in
  `DIFValueContainer`, says that `Content` is acyclic: a pointer that contains itself makes
  the code's recursion run without end. The proofs are for any `Depth`, so for any values
  that nest finitely deep.
- `pipe_streams`: two bytes that can be told apart, messages and reads of up to two bytes, up
  to three bytes on the way to the server and two back; so a read may be shorter than,
  as long as or longer than what is left of a chunk, with another chunk behind it. The
  bound on bytes holds back the senders only. `EmptyMessages` is FALSE: see section 6.
- Symmetry is used in runs that check invariants and action properties only.
- `CHECK_DEADLOCK FALSE` in the cache runs: a program may stop, and a bounded set of
  identities can be used up. In `interfaces_calls`: an interface whose creation failed has
  nothing left to do, and calls that panicked are not reused. In
  `execution_values` the calls are over, and in `pipe_streams` the server may stop.
- Fairness is assumed in three places. `FairSpec` of PointerUpdates: the loop over the
  observers is one synchronous piece of JavaScript, so it continues whenever it can
  (weak fairness of `CallNext` and `EndUpdate`), and callbacks return; a callback that
  returns may be interrupted by further nested updates, hence strong fairness for
  `CallbackReturns`. It also assumes that callbacks do not for ever go on registering
  observers from inside a loop: with that, the loop over a Map need not end, in the
  model as in JavaScript. `FairSpec` of Execution assumes that
  the core answers a script and that what was asked for arrives or fails. `FairSpec` of
  Pipe assumes that a task which is not asleep is polled again, that the server goes on
  reading, and that the forwarding task runs; the channel's wake-up is not assumed but
  modelled (`asleep`). Nothing is assumed of Interfaces: the code does not guarantee that
  the promise of an `on_send` callback or an implementation's `cleanup` ever settles, so no
  liveness is stated there.

## 5. The proofs

The seven modules `*_proofs` and `PointerUpdates_refinement` are checked by TLAPS, for any number
of addresses, objects, calls, ids, callbacks, interfaces, sockets, keys and bytes, for lists,
chunks and read buffers of any length, and for values of any kind, length and depth.

ReferenceCache. The inductive invariant adds to `TypeOK` what the caches know of each
other: an entry's object is registered under its address unless it has died; the
observer an entry names is registered with that object; a mutable entry is never
`NoEntry` with an observer outstanding; originals in entries and `proxyMapping` agree;
finalizers exist only for registered objects, and those of mutable entries have not run,
because `Captured` keeps their objects alive. The last point is why the invariant is
needed: that no finalizer takes away a mutable entry follows from what the *core* holds,
not from anything the finalizer tests. From it follow `RegisteredAreObserved`,
`MutableEntriesObserved` and `ProxiesRoundTrip`, with any number of loads in flight, and,
under `ASSUME Call = {}`, `OneObject` and `EntriesStable`.

PointerUpdates. `ObserversAreRelayed` and `SettersAreNotOvertaken` rest on an invariant
about the stack: all frames but the lowest are own updates, there is at most one own
update, and it is on top. `RefMirrorsRuntime` adds what the `Ref` holds while a setter is
half way. `CalledAreRegistered` (a loop has no callback ahead of it that was withdrawn)
adds that the callback of every observer in the Map has that observer's id for its handle
(`HandlesMatch`); that the ids ahead of a loop are in the Map is part of the first
invariant. None of them needs an assumption on the order in which observers leave.

`NotificationImplemented` is the refinement of `Notification`. Its mapping forgets ids, places
in the Map and the relay option: a callback is subscribed while it has a handle, and what a
frame has yet to announce is the callbacks behind its `todo`. For that the proof needs
`Orderly`: the observer at place i of the Map has the id i, and its callback, and no other, has
i for a handle (TLC checked `Orderly` on the instance of `updates_orderly` before it was proved).
`Orderly` holds because the next id is the number of observers plus one and, under
`LastInFirstOut`, the observers that left were the last ones; without this assumption ids
collide (`updates_ids`) and the refinement is false. The second assumption is that every
update of the core can be resolved: `RemoteUpdateFails` announces nothing, where
`Notification` promises a call. Step by step, `SetValue` and `RemoteUpdateArrives` are
publications, `CallNext` delivers, `EndUpdate` completes, `Observe` and `Unobserve`
subscribe and unsubscribe, and `CallbackReturns` stutters.

ListBinding. `TypeCorrect` and `MirrorIsKept`, for lists of any length. The lemmas say what the operators on lists (`SetAt`, `Splice`, `Filled`, `Empties`)
do to length and elements. `MirrorIsKept` needs no invariant beyond `TypeOK`: it
takes the trap's ways past the end and the bounds of `fill` one by one and shows that
the update sent to the core and the change of the array are the same list.

MapBinding. `MirrorIsKept` for any `Converted` and `Resolved` of which only
`MapBindingAssumption` is known (what a key was converted to resolves to it). The
argument is that a step which is not in `Diverges` touches one key and one entry,
and `Matched` leaves no third that could stand for either.

Pipe. `TypeCorrect` holds for any messages. Its invariant `TypeInv` adds that chunks the
server wrote are not empty and that the forwarding task outlives the server.
`OnlyTheEndEnds` rests on an invariant that no chunk in the channel is empty and
`pos` is within the buffer, so that `poll_read` copies at least one byte whenever it
copies; it assumes that no message is empty.

`ByteStreamsImplemented` is the refinement of `ByteStream` in both directions, for bytes,
messages, reads and writes of any size: `ToProgramImplemented` without an assumption,
`ToServerImplemented` when no message is empty, which is where it fails (section 6). What is in
flight is the concatenation of the chunks of a channel, to the server behind what is left of
the Reader's buffer. So the proof needs what concatenation does when a chunk is appended
(`FlattenAppend`) or taken from the head (`FlattenHead`). `FlattenSeq` is recursive, and the
library's induction theorems cannot be used; but `SmallestNumber`, that a set of numbers
which is not empty has a smallest one, follows from the well-foundedness of the numbers and
takes their place: `JoinsExists` and `JoinsUnique`, on which these lemmas rest, look at the
first place where they would fail. `TakeFromChunk` then says that a copy of the bytes from
`pos` on, with the rest of the channel behind it, takes a prefix of what is in flight and
leaves the remainder; `PollBuffered`, `PollNext` and `Forward` are instances of it.

Interfaces. That a send keeps its socket (`SendsKeepSocket`) is not inductive: it needs
that whoever holds an interface exclusively holds it alone, that a removal under way is
such a holder, and that a call that has not started holds nothing. The proof reduces
every step of a call to one lemma (`OneCallChanges`) about what its new state must fit.
`ServersAreServed` adds that as long as a server listens no call on its interface holds
anything, and no close has got past its cleanup (`ListeningFree`).

Execution. `Types`, `Awaiting`, `Loading` and `Echoing` are its four invariants, for any number
of calls and pointers and any `Content`, values and results that nest finitely deep. The
assumptions are those of the modules: pointers do not contain themselves, and an address is
told apart from a value, as the string that it is from an object; what a script without a
value returns is not a container; what the program passes in has no promises in it, and
references only to pointers that it has got (`Obtainable`).

The functions are recursive over values, and the library's induction theorems cannot be used.
`Upwards` takes their place, an induction over levels from `SmallestNumber`. With it
`FixedPoint` says that a definition whose body, for a value of one level, looks only at values
of the level below has a solution; that is what allows each recursive definition to be
expanded. So each function f has a lemma `fStepSame` (its step looks only at the level below),
a lemma `fIs` (it satisfies its equation), one that lists its cases by the kind of a value
(`ConvertCases`, `SettleCases`, ...) and one about its type (`ConvertType`, ...), by induction
over levels. `Types` is by `IInv`: what a call has is a value of its type, a promise that is
still open while the call is `resolving`, and no promise once it is `fulfilled`; what is with
the core could be converted. `Awaiting` follows from it, since arrays in a value of
`Values` contain no promises: that `promiseAllOrSync` lifts a promise from any depth of
lists to the top is in the proof that `Settle` and `ResolveDIFValueContainer` have this type.

`ResultsAreLoaded` is not inductive: it says nothing of a call that still waits, whose promise
may be about to be fulfilled with references. `SoundCalls` says it of every value: all that it
refers to is loaded or is among what it waits for (`Waits`), and for a pointer whose content
is being resolved (`binding`) that includes all that the content needs. `Ready` is what a
resolve returns: a sound value that waits for all of `Needed` that is not in memory. `Carries` is
what a load does: the value stays sound, and waits for no less than before but for what has
arrived. A promise that was rejected counts as waiting for everything, since nobody gets a
value from it. This is where `BindAtOnce`, the mutation that initialises a pointer before its
content, fails.

`EchoIsSame` needs `SameCalls`: what has been passed in and is with the core has its pointers
loaded, so that it comes back without a load (`ResolveNow`), and no later load changes it
(`SettleNormal`: a load changes only values that have promises in them). The rest is one induction over values, `Back`
against `Normal`: each kind, with its type or without, is recognised as that kind again, an
empty array as a list and pairs as a Map (`TypesOf`), and a Map from entries with distinct
keys has these entries, one after the other.

Only model-checked: `DueIsCalled`, `ExecutionsEnd` and `EverythingArrives`:
liveness under fairness is beyond the prover.

## 6. What the models show about the code

- **A finalizer deletes the entry of another object** (`cache_finalizer`,
  `dif-handler.ts:881`). The object of a final reference is collected, the address is
  resolved again to a new object, and then the old finalizer deletes the new entry.
- **Observer ids collide** (`updates_ids`, `dif-handler.ts:303`). Register p, q; withdraw
  p; register r: r gets the id of q and replaces it.
- **An append comes back** (`list_echo`, `array.ts:114`). `handleAppend` and
  `handleReplace` push through the proxy and so send the elements to the core again.

Seen on the way, as steps of the models and not as runs of their own:

- The first resolve of a list returns the original (`dif-handler.ts:608`; `Materialise`):
  `initReference` makes the proxy, its result is dropped, and the caller gets the array
  whose elements throw when they are read.
- Mutable references are never freed (`dif-handler.ts:736`; `Captured`): the core's
  observer owns the object whose finalizer would remove the observer.
- Reading inside an observer breaks the assignment it is told of (`type-registry.ts:322`;
  `AssignmentThrows`): the nested access resets the flag of the outer one.
- Resolving a Map or an object does not wait for its contents (`dif-handler.ts:429`;
  `Stored`): a result is handed out with promises inside, also by `executeSync`, which
  otherwise refuses promises (the code has a TODO there).
- An update of a Map can leave the two sides apart (`MapBinding`, `Diverges`): a key that is
  an object is resolved to a new object, so an assignment from elsewhere adds a second
  entry and a deletion finds none; integer and decimal keys become one entry; a key or a value
  that cannot be resolved synchronously changes the core only; replacing by a value
  that resolves to a plain object clears the `Map` and then throws (`map.ts:73`).
- An empty message ends the connection to the language server (`io.rs:73`):
  `MCPipe_streams` with `EmptyMessages = TRUE` violates `EndIsTrue`. A message after the
  server has ended panics (`lsp/mod.rs:37`), and a character whose bytes the server writes
  in two pieces is decoded to replacement characters (`runtime.ts:357`).
- Relaying is never switched off for the core's first observer id, 0, which reads as
  none (`dif-handler.ts:321`; `UnobservePointer`): that is the id `initReference` gets
  (`test/dif/dif.test.ts:681`), so a program's own updates go on being announced to it
  after the last local observer has left, where the comment at line 319 says otherwise.
- An object that is registered already loses its address (`dif-handler.ts:865`;
  `InitReference`): when a pointer resolves to an endpoint in use, or to the object of
  the pointer it refers to, the metadata of that object is overwritten. The first
  address still resolves to it, but it converts to the second one;
  `getOriginalValueFromProxy` finds nothing for a proxy that became the value of a
  pointer to it.
- A `Ref` that an overlapping load puts out of the cache goes deaf (`FinishLoad`): both
  objects of the address stay observed, but `handlePointerUpdate` stores into the cached one.
  The core has no asynchronous loads yet (`test/dif/dif.test.ts:262`).
- The first resolve of a primitive pointer returns the value and not the `Ref` that was
  made for it (`dif-handler.ts:608`, `636`; `Pointed`).
- Elements that a list gets later carry no accessor (`utils.ts:108`; `StillGuarded`): the
  array behind a proxy is closed to whoever kept it only as far as the elements it had.

Also: `sendBlock` on an interface that was closed, or while another call holds the
interface, panics (`com_hub.rs:161`) and its promise never settles, where `com-hub.ts:131`
says false; registering an `on_send` callback while the interface is being closed leaves
`JSComHub` borrowed for good; `unobservePointer` returns false for an observer that is not the last one, although it
removed it; a callback that registers itself anew whenever it is called keeps the loop
going; an update that cannot be resolved leaves the `Ref` behind the core until the next
one; the list behind a proxy can be made a second, immutable reference; the
`FinalizationRegistry` is a local variable that nothing keeps.

## 7. What is not modelled

- The DATEX core. It is another crate; its effects are modelled as far as the code here
  relies on them.
- Contents of values outside Conversion, user-defined types, formatting, logging,
  `display.ts`.
- An update made by a DATEX script that a callback runs while the core announces another
  update; whether the core accepts it is not visible here.
- Updates of a list nested in an announcement of another update of the same list, other
  than those the binding's own handlers make.
- Build scripts, generated bindings and the loading of WebAssembly: no shared state.
- Receive queues, block interceptors and routing: the hub's side is in the core.
- The endpoint registry: a map of weak references whose finalizer has the flaw of the
  reference cache's (`endpoint.ts:27`); it has no other state.
- The WebSocket client, and messages that reach a server's socket: what decides there, the
  order of a socket's events and when the hub removes a socket or takes an interface for
  connected, is in the browser and the core.
- WebRTC signalling, serial and matchbox streams: sequences of browser calls and I/O.
- Which of several references to one pointer in a value gets what its first resolve returns
  and which the cached object: both are `Pointed`.
- Of `Runtime`, start-up and the variants that convert results to text; of `startLSP`, the
  conversion between text and bytes.
- Values that contain themselves; digits that numbers lose beyond 2^53.

## 8. Plan

What could follow, in this order:

1. Composition of ReferenceCache and PointerUpdates: the callbacks of a stale closure
   against the observers of the address.
2. Several calls in Execution that wait for the same pointer, together with the loads of
   ReferenceCache.
3. WebRTC signalling of two peers with lost and reordered signals, if the browser's side
   is specified separately.
