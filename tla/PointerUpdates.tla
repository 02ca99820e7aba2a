--------------------------- MODULE PointerUpdates ---------------------------
(***************************************************************************)
(* One mutable pointer with a primitive value: the value the runtime       *)
(* holds, the Ref that mirrors it in JS, the pointer's entry in            *)
(* DIFHandler's #observers, and the updates being announced to the local   *)
(* observers.  JS is single threaded: a step between two calls of          *)
(* callbacks is taken by the callback that is running, and an update made  *)
(* by it is announced in full before the callback goes on.                 *)
(***************************************************************************)
EXTENDS Naturals, Sequences

CONSTANTS
  Value,              \* values of the pointer
  Unresolvable,       \* those that name a pointer resolvable only asynchronously
  Callback,           \* local observer callbacks
  RuntimeObserverId,  \* the id observe_pointer returned for this pointer
  LastInFirstOut,     \* callers withdraw the observer registered last first
  CallbacksWrite,     \* callbacks may assign to the Ref
  NoCallback

ASSUME PointerUpdatesAssumption ==
  /\ Unresolvable \subseteq Value
  /\ RuntimeObserverId \in Nat
  /\ LastInFirstOut \in BOOLEAN
  /\ CallbacksWrite \in BOOLEAN
  /\ NoCallback \notin Callback

VARIABLES
  runtimeValue,  \* the value in the runtime
  jsValue,       \* #value of the Ref
  relay,         \* relay_own_updates of the runtime observer
  observers,     \* the Map of local observers in insertion order, <<>> when
                 \* #observers has none for the address
  handle,        \* the id observePointer returned for a callback in use, or 0
  frames,        \* the updates being announced, the innermost last
  returned       \* what the last unobservePointer call returned

vars == <<runtimeValue, jsValue, relay, observers, handle, frames, returned>>

Observer == [id: Nat \ {0}, callback: Callback]

\* One call of the pointer's runtime observer: the update, whether it came from the
\* Ref itself, the ids its `for (const cb of observers.values())` has yet to reach,
\* the callback it is in, and whether the Map it walks is still in #observers.
Frame == [value: Value, own: BOOLEAN, todo: Seq(Nat \ {0}),
          running: Callback \cup {NoCallback}, attached: BOOLEAN]

TypeOK ==
  /\ runtimeValue \in Value
  /\ jsValue \in Value
  /\ relay \in BOOLEAN
  /\ observers \in Seq(Observer)
  /\ handle \in [Callback -> Nat]
  /\ frames \in Seq(Frame)
  /\ returned \in BOOLEAN

Init ==
  /\ runtimeValue \in Value \ Unresolvable
  /\ jsValue = runtimeValue
  /\ relay = FALSE
  /\ observers = <<>>
  /\ handle = [c \in Callback |-> 0]
  /\ frames = <<>>
  /\ returned = FALSE

-----------------------------------------------------------------------------
Top == frames[Len(frames)]

\* Program code runs: nothing is being announced, or a callback is being called.
ProgramRuns == frames # <<>> => Top.running # NoCallback

\* Mutation: update takes &self and may be entered again.
HandleNeverBusy == FALSE

\* RuntimeDIFHandle::update takes &mut self: a second update through the handle is
\* refused while the first one is on the stack.
HandleBusy == \E i \in DOMAIN frames : frames[i].own

Ids == [i \in DOMAIN observers |-> observers[i].id]

CallbackAt(id) ==
  (CHOOSE o \in {observers[i] : i \in DOMAIN observers} : o.id = id).callback

\* A sequence without its element at the position in K, if K has one.
DeleteAt(s, K) ==
  IF K = {} THEN s
  ELSE LET at == CHOOSE k \in K : TRUE
       IN  [i \in 1 .. Len(s) - 1 |-> IF i < at THEN s[i] ELSE s[i + 1]]

Announce(v, own, ids) ==
  frames' = Append(frames, [value |-> v, own |-> own, todo |-> ids,
                            running |-> NoCallback, attached |-> ids # <<>>])

-----------------------------------------------------------------------------
(* Updates.                                                                *)

\* The setter of Ref.value up to the call of triggerReplace: the runtime takes the
\* value and calls its observer back when own updates are relayed.
SetValue(v) ==
  /\ ProgramRuns
  /\ frames = <<>> \/ CallbacksWrite
  /\ v \notin Unresolvable
  /\ v # jsValue
  /\ ~HandleBusy
  /\ runtimeValue' = v
  /\ Announce(v, TRUE, IF relay THEN Ids ELSE <<>>)
  /\ UNCHANGED <<jsValue, relay, observers, handle, returned>>

\* An update from elsewhere, with handlePointerUpdate: the Ref follows silently
\* before any callback is called.
RemoteUpdate(v) ==
  /\ frames = <<>>
  /\ v \notin Unresolvable
  /\ runtimeValue' = v
  /\ jsValue' = v
  /\ Announce(v, FALSE, Ids)
  /\ UNCHANGED <<relay, observers, handle, returned>>

\* The same when resolveDIFValueContainerSync throws: the exception leaves the
\* runtime's callback before the Ref or any observer has been reached.
RemoteUpdateFails(v) ==
  /\ frames = <<>>
  /\ v \in Unresolvable
  /\ runtimeValue' = v
  /\ Announce(v, FALSE, <<>>)
  /\ UNCHANGED <<jsValue, relay, observers, handle, returned>>

\* Mutation: the loop does not move on from the observer it has called.
CallSame ==
  /\ frames # <<>>
  /\ Top.running = NoCallback
  /\ Top.todo # <<>>
  /\ frames' = [frames EXCEPT ![Len(frames)].running = CallbackAt(Head(Top.todo))]
  /\ UNCHANGED <<runtimeValue, jsValue, relay, observers, handle, returned>>

\* The loop over the local observers reaches the next one.
CallNext ==
  /\ frames # <<>>
  /\ Top.running = NoCallback
  /\ Top.todo # <<>>
  /\ frames' = [frames EXCEPT ![Len(frames)].running = CallbackAt(Head(Top.todo)),
                              ![Len(frames)].todo = Tail(Top.todo)]
  /\ UNCHANGED <<runtimeValue, jsValue, relay, observers, handle, returned>>

\* The callback returns or throws; the loop goes on either way.
CallbackReturns ==
  /\ frames # <<>>
  /\ Top.running # NoCallback
  /\ frames' = [frames EXCEPT ![Len(frames)].running = NoCallback]
  /\ UNCHANGED <<runtimeValue, jsValue, relay, observers, handle, returned>>

\* Mutation: the update's value is stored in the Ref whoever made the update.
EndUpdateStoring ==
  /\ frames # <<>>
  /\ Top.running = NoCallback
  /\ Top.todo = <<>>
  /\ jsValue' = Top.value
  /\ frames' = SubSeq(frames, 1, Len(frames) - 1)
  /\ UNCHANGED <<runtimeValue, relay, observers, handle, returned>>

\* The loop is over; when it was the Ref's own update the setter now stores the value.
EndUpdate ==
  /\ frames # <<>>
  /\ Top.running = NoCallback
  /\ Top.todo = <<>>
  /\ jsValue' = IF Top.own THEN Top.value ELSE jsValue
  /\ frames' = SubSeq(frames, 1, Len(frames) - 1)
  /\ UNCHANGED <<runtimeValue, relay, observers, handle, returned>>

-----------------------------------------------------------------------------
(* Local observers.                                                        *)

\* A callback is entered under an id.  A Map keeps the place of a key that is set
\* again, and a loop in progress reaches a key that is new.
Enter(c, id, relayed) ==
  LET taken == \E i \in DOMAIN observers : observers[i].id = id
      new == [id |-> id, callback |-> c]
  IN  /\ ProgramRuns
      /\ handle[c] = 0
      /\ relay' = relayed
      /\ IF taken
         THEN /\ observers' = [i \in DOMAIN observers |->
                                 IF observers[i].id = id THEN new ELSE observers[i]]
              /\ UNCHANGED frames
         ELSE /\ observers' = Append(observers, new)
              /\ frames' = [i \in DOMAIN frames |->
                              IF frames[i].attached
                              THEN [frames[i] EXCEPT !.todo = Append(@, id)]
                              ELSE frames[i]]
      /\ handle' = [handle EXCEPT ![c] = id]
      /\ UNCHANGED <<runtimeValue, jsValue, returned>>

\* Mutation: ids are counted from zero.
ObserveFromZero(c) == Enter(c, Len(observers), observers = <<>> \/ relay)

\* Mutation: relaying is left as it is when the first observer comes.
ObserveUnrelayed(c) == Enter(c, Len(observers) + 1, relay)

\* observePointer: the id is the number of observers plus one, in use or not; the
\* first observer to come has own updates relayed.
ObservePointer(c) ==
  Enter(c, Len(observers) + 1, IF observers = <<>> THEN TRUE ELSE relay)

\* Mutation: an observer goes only with the Map.
LeftIfAlone(c) == IF Len(observers) = 1 THEN <<>> ELSE observers

Left(c) == DeleteAt(observers, {k \in DOMAIN observers : observers[k].id = handle[c]})

\* The last observer to go takes the Map out of #observers.
Dissolves(c) == observers # <<>> /\ Left(c) = <<>>

Withdraw(c, relayed) ==
  /\ ProgramRuns
  /\ handle[c] # 0
  /\ LastInFirstOut => \A d \in Callback : handle[d] <= handle[c]
  /\ observers' = Left(c)
  /\ relay' = relayed
  /\ frames' = [i \in DOMAIN frames |->
                  [frames[i] EXCEPT
                     !.todo = DeleteAt(@, {k \in DOMAIN @ : @[k] = handle[c]}),
                     !.attached = @ /\ ~Dissolves(c)]]
  /\ returned' = Dissolves(c)
  /\ handle' = [handle EXCEPT ![c] = 0]
  /\ UNCHANGED <<runtimeValue, jsValue>>

\* Mutation: relaying stops with any observer that goes.
UnobserveUnrelaying(c) == Withdraw(c, FALSE)

\* unobservePointer: when the last observer has gone, own updates are no longer
\* relayed, unless the runtime's id reads as false: the first one it gives is 0.
UnobservePointer(c) ==
  Withdraw(c, IF Dissolves(c) /\ RuntimeObserverId # 0 THEN FALSE ELSE relay)

-----------------------------------------------------------------------------
Next ==
  \/ \E v \in Value : SetValue(v) \/ RemoteUpdate(v) \/ RemoteUpdateFails(v)
  \/ CallNext \/ CallbackReturns \/ EndUpdate
  \/ \E c \in Callback : ObservePointer(c) \/ UnobservePointer(c)

Spec == Init /\ [][Next]_vars

-----------------------------------------------------------------------------
(* Properties.                                                             *)

\* The Ref and the runtime hold the same value whenever no setter is half way,
\* however updates from both sides and from inside callbacks are nested; the one
\* exception is a value that the handler of updates could not resolve.
MirrorsRuntime ==
  ~HandleBusy /\ runtimeValue \notin Unresolvable => jsValue = runtimeValue

\* Until a setter is done nothing overtakes its update in the runtime: the value it
\* will store in the Ref is the one the runtime holds.
OwnUpdateNotOvertaken ==
  \A i \in DOMAIN frames : frames[i].own => frames[i].value = runtimeValue

\* While there are local observers the runtime relays the Ref's own updates to them.
RelayWhileObserved == observers # <<>> => relay

\* A loop has ahead of it only callbacks that are registered: none is called that was
\* withdrawn before its turn, even where ids collide and one callback's withdrawal
\* takes another out of the Map (dif-handler.ts:303, 316, 762).
DueAreRegistered ==
  \A n \in DOMAIN frames : \A j \in DOMAIN frames[n].todo :
     handle[CallbackAt(frames[n].todo[j])] # 0

\* Registered callbacks are called once for every update, and no others are: the Map
\* of observers, its ids and the relay flag implement Notification.
Promise == INSTANCE Notification WITH
  subscribed <- {c \in Callback : handle[c] # 0},
  pending <- [i \in DOMAIN frames |->
                {CallbackAt(frames[i].todo[j]) : j \in DOMAIN frames[i].todo}]

ImplementsNotification == Promise!Spec

\* Callbacks return and do not go on registering observers for ever; the loop that
\* calls them is never left half way, it runs to its end on the one JS thread.
FairSpec ==
  /\ Spec
  /\ <>[][\A c \in Callback : ObservePointer(c) => frames = <<>>]_vars
  /\ \A depth \in 1..2 :
       /\ WF_vars(Len(frames) = depth /\ CallNext)
       /\ SF_vars(Len(frames) = depth /\ CallbackReturns)
       /\ WF_vars(Len(frames) = depth /\ EndUpdate)

\* A registered callback that is due to hear of an update is called or withdrawn,
\* whatever other callbacks withdraw and however many further updates they make.
DueIsCalled == Promise!EventuallyDelivered
=============================================================================
