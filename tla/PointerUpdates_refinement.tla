---------------------- MODULE PointerUpdates_refinement ----------------------
(***************************************************************************)
(* PointerUpdates implements Notification, step by step, when callers      *)
(* withdraw the observer registered last first: then the ids in use are    *)
(* the positions in the Map, and the number of observers plus one is new.  *)
(* Without that assumption it does not (run updates_ids).                  *)
(***************************************************************************)
EXTENDS PointerUpdates_proofs

-----------------------------------------------------------------------------
(* The mapping and what it needs.                                          *)

\* The refinement mapping, by name.
Subscribed == {c \in Callback : handle[c] # 0}

Due(ids) == {CallbackAt(ids[j]) : j \in DOMAIN ids}

Pending == [n \in DOMAIN frames |-> Due(frames[n].todo)]

\* CallbackAt and Due in the state after the step, for ids of the state before.
CallbackAfter(id) ==
  (CHOOSE o \in {observers'[i] : i \in DOMAIN observers'} : o.id = id).callback

DueAfter(ids) == {CallbackAfter(ids[j]) : j \in DOMAIN ids}

\* The observer under an id is the one at that place, and the callback there has the
\* id as its handle; nobody else has a handle.
Orderly ==
  /\ \A i \in DOMAIN observers :
       observers[i].id = i /\ handle[observers[i].callback] = i
  /\ \A c \in Callback : handle[c] # 0 =>
       handle[c] \in DOMAIN observers /\ observers[handle[c]].callback = c

LEMMA CallbackAtPlace ==
  ASSUME TypeOK, Orderly, NEW i \in DOMAIN observers
  PROVE  /\ CallbackAt(i) = observers[i].callback
         /\ CallbackAt(i) \in Subscribed
         /\ handle[CallbackAt(i)] = i
<1> DEFINE registered == {observers[j] : j \in DOMAIN observers}
           found == CHOOSE o \in registered : o.id = i
<1>1. observers[i] \in registered /\ observers[i].id = i
  BY DEF Orderly
<1>2. found \in registered /\ found.id = i
  BY <1>1
<1>3. found = observers[i]
  BY <1>2 DEF Orderly
<1>4. observers[i] \in Observer
  BY DEF TypeOK
<1>5. observers[i].callback \in Callback /\ handle[observers[i].callback] = i
  BY <1>4 DEF Orderly, Observer
<1>6. i # 0
  BY DEF TypeOK
<1>7. CallbackAt(i) = observers[i].callback
  BY <1>3 DEF CallbackAt
<1> QED
  BY <1>5, <1>6, <1>7 DEF Subscribed

\* The ids a loop has ahead of it are places of the Map.
LEMMA TodoPlaces ==
  ASSUME Inv, Orderly, NEW n \in DOMAIN frames
  PROVE  /\ frames[n].todo \in Seq(Nat \ {0})
         /\ \A j \in DOMAIN frames[n].todo : frames[n].todo[j] \in DOMAIN observers
         /\ \A i, j \in DOMAIN frames[n].todo : frames[n].todo[i] = frames[n].todo[j] => i = j
<1>1. frames[n] \in Frame
  BY DEF Inv, TypeOK
<1>2. frames[n].todo \in Seq(Nat \ {0})
  BY <1>1 DEF Frame
<1>3. \A j \in DOMAIN frames[n].todo : \E i \in DOMAIN observers : observers[i].id = frames[n].todo[j]
  BY DEF Inv, MapInv, TodoRegistered
<1>4. \A j \in DOMAIN frames[n].todo : frames[n].todo[j] \in DOMAIN observers
  BY <1>3 DEF Orderly
<1> QED
  BY <1>2, <1>4 DEF Inv, MapInv, TodoDistinct

LEMMA PendingType ==
  ASSUME Inv, Orderly
  PROVE  /\ Pending \in Seq(SUBSET Callback)
         /\ Len(Pending) = Len(frames) /\ Len(frames) \in Nat
         /\ DOMAIN Pending = 1 .. Len(frames) /\ DOMAIN frames = 1 .. Len(frames)
<1>1. Len(frames) \in Nat /\ DOMAIN frames = 1 .. Len(frames)
  BY DEF Inv, TypeOK
<1>2. ASSUME NEW n \in DOMAIN frames PROVE Due(frames[n].todo) \in SUBSET Callback
  <2>1. \A j \in DOMAIN frames[n].todo : frames[n].todo[j] \in DOMAIN observers
    BY TodoPlaces
  <2>2. \A i \in DOMAIN observers : CallbackAt(i) \in Callback
    BY CallbackAtPlace DEF Inv, Subscribed
  <2> QED
    BY <2>1, <2>2 DEF Due
<1>3. Pending = [n \in 1 .. Len(frames) |-> Due(frames[n].todo)]
  BY <1>1 DEF Pending
<1> QED
  BY <1>1, <1>2, <1>3

-----------------------------------------------------------------------------
(* Updates.                                                                *)

\* A step that leaves the observers alone leaves them in order, and every callback
\* under its id.
LEMMA SameObservers ==
  ASSUME Orderly, UNCHANGED <<observers, handle>>
  PROVE  Orderly' /\ Subscribed' = Subscribed /\ \A id : CallbackAt(id)' = CallbackAt(id)
BY DEF Orderly, Subscribed, CallbackAt

\* Announcing to all observers is publishing to all subscribers.
LEMMA AnnouncePublishes ==
  ASSUME Inv, Orderly, NEW v, NEW own, Announce(v, own, Ids),
         UNCHANGED <<observers, handle>>
  PROVE  Promise!Publish /\ Orderly'
<1> DEFINE new == [value |-> v, own |-> own, todo |-> Ids,
                   running |-> NoCallback, attached |-> Ids # <<>>]
<1>1. /\ frames \in Seq(Frame) /\ frames' = Append(frames, new)
      /\ Len(frames) \in Nat /\ DOMAIN frames = 1 .. Len(frames)
  BY DEF Inv, TypeOK, Announce
<1>2. new.todo = Ids
  OBVIOUS
<1> HIDE DEF new
<1>3. /\ DOMAIN frames' = 1 .. Len(frames) + 1
      /\ \A n \in 1 .. Len(frames) : frames'[n] = frames[n]
      /\ frames'[Len(frames) + 1] = new
  BY <1>1
<1>4. Orderly' /\ Subscribed' = Subscribed /\ \A id : CallbackAt(id)' = CallbackAt(id)
  BY SameObservers
<1>5. Due(Ids) = Subscribed
  <2>1. \A i \in DOMAIN observers : Ids[i] = i /\ CallbackAt(i) \in Subscribed
    BY CallbackAtPlace DEF Inv, Ids, Orderly
  <2>2. DOMAIN Ids = DOMAIN observers
    BY DEF Ids
  <2>3. \A c \in Subscribed : handle[c] \in DOMAIN observers /\ CallbackAt(handle[c]) = c
    BY CallbackAtPlace DEF Inv, Orderly, Subscribed
  <2> QED
    BY <2>1, <2>2, <2>3 DEF Due
<1>6. \A n \in DOMAIN frames' : Pending'[n] = Due(frames'[n].todo)
  BY <1>4 DEF Pending, Due
<1>7. ASSUME NEW n \in 1 .. Len(frames) PROVE Pending'[n] = Pending[n]
  <2>1. n \in DOMAIN frames /\ n \in DOMAIN frames' /\ frames'[n] = frames[n]
    BY <1>1, <1>3
  <2> QED
    BY <2>1, <1>6 DEF Pending
<1>8. Pending'[Len(frames) + 1] = Subscribed
  <2>1. Len(frames) + 1 \in DOMAIN frames'
    BY <1>1, <1>3
  <2> QED
    BY <2>1, <1>2, <1>3, <1>5, <1>6
<1>9. Pending' = [n \in 1 .. Len(frames) + 1 |-> Pending'[n]]
  BY <1>3 DEF Pending
<1>10. Pending' = Append(Pending, Subscribed)
  <2>1. Pending \in Seq(SUBSET Callback) /\ Len(Pending) = Len(frames)
    BY PendingType
  <2> HIDE DEF Pending
  <2> QED
    BY <1>1, <1>7, <1>8, <1>9, <2>1
<1> QED
  BY <1>4, <1>10 DEF Promise!Publish, Pending, Due, Subscribed

LEMMA SetValuePublishes ==
  ASSUME Inv, Orderly, NEW v \in Value, SetValue(v)
  PROVE  Promise!Publish /\ Orderly'
<1>1. ~relay => Ids = <<>>
  BY DEF Inv, RelayWhileObserved, Ids
<1>2. Announce(v, TRUE, Ids)
  BY <1>1, Zenon DEF SetValue
<1> QED
  BY <1>2, AnnouncePublishes DEF SetValue

LEMMA RemoteUpdatePublishes ==
  ASSUME Inv, Orderly, NEW v \in Value, RemoteUpdate(v)
  PROVE  Promise!Publish /\ Orderly'
BY AnnouncePublishes DEF RemoteUpdate

\* The callback that the loop calls is the one it no longer has ahead of it.
LEMMA CallNextDelivers ==
  ASSUME Inv, Orderly, CallNext
  PROVE  (\E c \in Callback : Promise!Deliver(c)) /\ Orderly'
<1> DEFINE last == Len(frames)
           todo == frames[last].todo
           c == CallbackAt(Head(todo))
<1>1. /\ frames \in Seq(Frame) /\ last \in DOMAIN frames /\ todo # <<>>
      /\ Len(Pending) = last /\ DOMAIN Pending = DOMAIN frames
  BY PendingType DEF Inv, TypeOK, CallNext, Top
<1>2. /\ todo \in Seq(Nat \ {0})
      /\ \A j \in DOMAIN todo : todo[j] \in DOMAIN observers
      /\ \A i, j \in DOMAIN todo : todo[i] = todo[j] => i = j
  BY <1>1, TodoPlaces
<1>3. Head(todo) = todo[1] /\ 1 \in DOMAIN todo
  BY <1>1, <1>2
<1>4. \A i, j \in DOMAIN todo : CallbackAt(todo[i]) = CallbackAt(todo[j]) => i = j
  <2>1. \A k \in DOMAIN observers : handle[CallbackAt(k)] = k
    BY CallbackAtPlace DEF Inv
  <2> HIDE DEF todo
  <2> QED
    BY <1>2, <2>1
<1>5. Due(Tail(todo)) = Due(todo) \ {c}
  <2> HIDE DEF todo
  <2>1. Tail(todo) \in Seq(Nat \ {0}) /\ Len(Tail(todo)) = Len(todo) - 1
    BY <1>1, <1>2
  <2>2. \A j \in DOMAIN Tail(todo) : j + 1 \in DOMAIN todo /\ j + 1 # 1 /\ Tail(todo)[j] = todo[j + 1]
    BY <1>1, <1>2
  <2>3. \A j \in DOMAIN todo : j # 1 => j - 1 \in DOMAIN Tail(todo) /\ Tail(todo)[j - 1] = todo[j]
    BY <1>1, <1>2, <2>1
  <2>4. c = CallbackAt(todo[1])
    BY <1>3
  <2> HIDE DEF c
  <2>5. ASSUME NEW d \in Due(Tail(todo)) PROVE d \in Due(todo) /\ d # c
    <3>1. PICK j \in DOMAIN Tail(todo) : d = CallbackAt(Tail(todo)[j])
      BY DEF Due
    <3>2. j + 1 \in DOMAIN todo /\ j + 1 # 1 /\ d = CallbackAt(todo[j + 1])
      BY <3>1, <2>2
    <3> QED
      BY <3>2, <1>3, <1>4, <2>4 DEF Due
  <2>6. ASSUME NEW d \in Due(todo), d # c PROVE d \in Due(Tail(todo))
    <3>1. PICK j \in DOMAIN todo : d = CallbackAt(todo[j])
      BY DEF Due
    <3>2. j # 1
      BY <2>4, <2>6, <3>1
    <3>3. j - 1 \in DOMAIN Tail(todo) /\ d = CallbackAt(Tail(todo)[j - 1])
      BY <2>3, <3>1, <3>2
    <3> QED
      BY <3>3 DEF Due
  <2> QED
    BY <2>5, <2>6
<1>6. c \in Due(todo) /\ c \in Callback
  <2>1. todo[1] \in DOMAIN observers
    BY <1>2, <1>3
  <2>2. CallbackAt(todo[1]) \in Callback
    BY <2>1, CallbackAtPlace DEF Inv, Subscribed
  <2> HIDE DEF todo
  <2> QED
    BY <1>3, <2>2 DEF Due
<1>7. Orderly' /\ Subscribed' = Subscribed /\ \A id : CallbackAt(id)' = CallbackAt(id)
  BY SameObservers DEF CallNext
<1>8. /\ DOMAIN frames' = DOMAIN frames
      /\ \A n \in DOMAIN frames : n # last => frames'[n].todo = frames[n].todo
      /\ frames'[last].todo = Tail(todo)
  <2>1. frames' = [frames EXCEPT ![last].running = c, ![last].todo = Tail(todo)]
    BY DEF CallNext, Top
  <2>2. frames[last] \in Frame
    BY <1>1
  <2> QED
    BY <1>1, <2>1, <2>2 DEF Frame
<1>9. \A n \in DOMAIN frames' : Pending'[n] = Due(frames'[n].todo)
  BY <1>7 DEF Pending, Due
<1>10. Pending' = [Pending EXCEPT ![last] = @ \ {c}]
  <2>1. DOMAIN Pending' = DOMAIN frames' /\ Pending' = [n \in DOMAIN frames' |-> Pending'[n]]
    BY DEF Pending
  <2>2. Pending'[last] = Pending[last] \ {c}
    BY <1>1, <1>5, <1>8, <1>9 DEF Pending
  <2>3. ASSUME NEW n \in DOMAIN frames, n # last PROVE Pending'[n] = Pending[n]
    BY <2>3, <1>8, <1>9 DEF Pending
  <2>4. Pending = [n \in DOMAIN frames |-> Pending[n]]
    BY DEF Pending
  <2> HIDE DEF Pending, c, todo
  <2> QED
    BY <1>1, <1>8, <2>1, <2>2, <2>3, <2>4
<1>11. ASSUME NEW d \in Callback, d = c PROVE Promise!Deliver(d)
  <2>1. Pending # <<>> /\ c \in Pending[Len(Pending)]
    BY <1>1, <1>6 DEF Pending
  <2>2. Pending' = [Pending EXCEPT ![Len(Pending)] = @ \ {c}]
    BY <1>1, <1>10
  <2> HIDE DEF c
  <2> QED
    BY <2>1, <2>2, <1>7, <1>11 DEF Promise!Deliver, Pending, Due, Subscribed
<1> HIDE DEF c
<1> QED
  BY <1>6, <1>7, <1>11

\* A return of a callback is no step of Notification.
LEMMA CallbackReturnsStutters ==
  ASSUME Inv, Orderly, CallbackReturns
  PROVE  UNCHANGED Promise!vars /\ Orderly'
<1>1. Orderly' /\ Subscribed' = Subscribed /\ \A id : CallbackAt(id)' = CallbackAt(id)
  BY SameObservers DEF CallbackReturns
<1>2. frames \in Seq(Frame) /\ Len(frames) \in DOMAIN frames
  BY DEF Inv, TypeOK, CallbackReturns
<1>3. DOMAIN frames' = DOMAIN frames /\ \A n \in DOMAIN frames : frames'[n].todo = frames[n].todo
  BY <1>2 DEF CallbackReturns, Frame
<1>4. \A n \in DOMAIN frames' : Pending'[n] = Due(frames'[n].todo)
  BY <1>1 DEF Pending, Due
<1>5. Pending' = Pending
  <2>1. Pending' = [n \in DOMAIN frames' |-> Pending'[n]]
    BY DEF Pending
  <2> QED
    BY <1>3, <1>4, <2>1 DEF Pending
<1> QED
  BY <1>1, <1>5 DEF Promise!vars, Pending, Due, Subscribed

LEMMA EndUpdateCompletes ==
  ASSUME Inv, Orderly, EndUpdate
  PROVE  Promise!Complete /\ Orderly'
<1> DEFINE last == Len(frames)
<1>1. Orderly' /\ Subscribed' = Subscribed /\ \A id : CallbackAt(id)' = CallbackAt(id)
  BY SameObservers DEF EndUpdate
<1>2. /\ frames \in Seq(Frame) /\ last \in Nat /\ last \in DOMAIN frames
      /\ DOMAIN frames = 1 .. last
      /\ Pending \in Seq(SUBSET Callback) /\ Len(Pending) = last
  BY PendingType DEF Inv, TypeOK, EndUpdate
<1>3. frames[last].todo = <<>> /\ frames' = SubSeq(frames, 1, last - 1)
  BY DEF EndUpdate, Top
<1>4. Pending # <<>> /\ Pending[last] = {}
  BY <1>2, <1>3 DEF Pending, Due
<1>5. DOMAIN frames' = 1 .. last - 1 /\ \A n \in 1 .. last - 1 : frames'[n] = frames[n]
  BY <1>2, <1>3
<1>6. \A n \in DOMAIN frames' : Pending'[n] = Due(frames'[n].todo)
  BY <1>1 DEF Pending, Due
<1>7. Pending' = SubSeq(Pending, 1, Len(Pending) - 1)
  <2>1. Pending' = [n \in 1 .. last - 1 |-> Pending'[n]]
    BY <1>5 DEF Pending
  <2>2. \A n \in 1 .. last - 1 : Pending'[n] = Pending[n]
    BY <1>2, <1>5, <1>6 DEF Pending
  <2> HIDE DEF Pending
  <2> QED
    BY <1>2, <2>1, <2>2
<1> QED
  BY <1>1, <1>2, <1>4, <1>7 DEF Promise!Complete, Pending, Due, Subscribed

-----------------------------------------------------------------------------
(* Observers come and go.                                                  *)

LEMMA CallbackAtPlaceAfter ==
  ASSUME Orderly', NEW i \in DOMAIN observers'
  PROVE  CallbackAfter(i) = observers'[i].callback
<1> DEFINE registered == {observers'[j] : j \in DOMAIN observers'}
           found == CHOOSE o \in registered : o.id = i
<1>1. observers'[i] \in registered /\ observers'[i].id = i
  BY DEF Orderly
<1>2. found \in registered /\ found.id = i
  BY <1>1
<1>3. found = observers'[i]
  BY <1>2 DEF Orderly
<1> QED
  BY <1>3 DEF CallbackAfter

LEMMA PendingAfter ==
  /\ DOMAIN Pending' = DOMAIN frames'
  /\ Pending' = [n \in DOMAIN frames' |-> DueAfter(frames'[n].todo)]
BY DEF Pending, Due, DueAfter, CallbackAt, CallbackAfter

\* The id of a newcomer is new: the Map and the loops that walk it get one more.
LEMMA ObserveSubscribes ==
  ASSUME Inv, Orderly, NEW c \in Callback, ObservePointer(c)
  PROVE  Promise!Subscribe(c) /\ Orderly'
<1> DEFINE id == Len(observers) + 1
           new == [id |-> id, callback |-> c]
           joined == {n \in DOMAIN frames : frames[n].attached}
<1>1. /\ observers \in Seq(Observer) /\ Len(observers) \in Nat /\ id \in Nat \ {0}
      /\ DOMAIN observers = 1 .. Len(observers) /\ id \notin DOMAIN observers
  BY DEF Inv, TypeOK
<1>2. ~ \E i \in DOMAIN observers : observers[i].id = id
  BY <1>1 DEF Orderly
<1>3. /\ handle[c] = 0 /\ handle \in [Callback -> Nat]
      /\ observers' = Append(observers, new)
      /\ frames' = [n \in DOMAIN frames |->
                      IF frames[n].attached
                      THEN [frames[n] EXCEPT !.todo = Append(@, id)]
                      ELSE frames[n]]
      /\ handle' = [handle EXCEPT ![c] = id]
  BY <1>2 DEF ObservePointer, Enter, Inv, TypeOK
<1>4. /\ DOMAIN observers' = 1 .. id
      /\ \A i \in DOMAIN observers : observers'[i] = observers[i]
      /\ observers'[id] = new
  BY <1>1, <1>3
<1>5. Orderly'
  <2>1. \A i \in DOMAIN observers : observers[i].callback \in Callback \ {c}
    <3>1. \A i \in DOMAIN observers : observers[i] \in Observer /\ i # 0
      BY <1>1
    <3> QED
      BY <3>1, <1>3 DEF Orderly, Observer
  <2>2. ASSUME NEW i \in DOMAIN observers'
        PROVE  observers'[i].id = i /\ handle'[observers'[i].callback] = i
    <3>1. CASE i = id
      BY <3>1, <1>3, <1>4
    <3>2. CASE i # id
      <4>1. i \in DOMAIN observers
        BY <3>2, <1>1, <1>4
      <4> QED
        BY <4>1, <1>3, <1>4, <2>1 DEF Orderly
    <3> QED
      BY <3>1, <3>2
  <2>3. ASSUME NEW d \in Callback, handle'[d] # 0
        PROVE  handle'[d] \in DOMAIN observers' /\ observers'[handle'[d]].callback = d
    <3>1. CASE d = c
      <4>1. handle'[d] = id
        BY <3>1, <1>3
      <4> QED
        BY <4>1, <3>1, <1>1, <1>4
    <3>2. CASE d # c
      <4>1. handle'[d] = handle[d]
        BY <3>2, <1>3
      <4>2. handle[d] \in DOMAIN observers /\ observers[handle[d]].callback = d
        BY <4>1, <2>3 DEF Orderly
      <4> QED
        BY <4>1, <4>2, <1>1, <1>4
    <3> QED
      BY <3>1, <3>2
  <2> QED
    BY <2>2, <2>3 DEF Orderly
<1>6. \A i \in DOMAIN observers' : CallbackAfter(i) = observers'[i].callback
  BY <1>5, CallbackAtPlaceAfter
<1>7. /\ \A i \in DOMAIN observers : CallbackAfter(i) = CallbackAt(i)
      /\ CallbackAfter(id) = c
  BY <1>1, <1>4, <1>6, CallbackAtPlace DEF Inv
<1>8. Subscribed' = Subscribed \cup {c} /\ c \notin Subscribed
  BY <1>1, <1>3 DEF Subscribed
<1>9. DOMAIN frames' = DOMAIN frames /\ DOMAIN Pending = DOMAIN frames
      /\ joined \in SUBSET DOMAIN Pending
  BY <1>3 DEF Pending
<1>10. ASSUME NEW n \in DOMAIN frames
       PROVE  Pending'[n] = IF n \in joined THEN Pending[n] \cup {c} ELSE Pending[n]
  <2> DEFINE todo == frames[n].todo
  <2>1. /\ todo \in Seq(Nat \ {0}) /\ Len(todo) \in Nat /\ DOMAIN todo = 1 .. Len(todo)
        /\ \A j \in DOMAIN todo : todo[j] \in DOMAIN observers
    BY TodoPlaces
  <2>2. frames[n] \in Frame
    BY DEF Inv, TypeOK
  <2>3. Pending'[n] = {CallbackAfter(frames'[n].todo[j]) : j \in DOMAIN frames'[n].todo}
    BY <1>9, PendingAfter DEF DueAfter
  <2>4. Pending[n] = {CallbackAt(todo[j]) : j \in DOMAIN todo}
    BY DEF Pending, Due
  <2>5. CASE n \in joined
    <3>1. frames'[n].todo = Append(todo, id)
      BY <2>2, <2>5, <1>3 DEF Frame
    <3>2. /\ DOMAIN frames'[n].todo = 1 .. Len(todo) + 1
          /\ frames'[n].todo[Len(todo) + 1] = id
          /\ \A j \in DOMAIN todo : frames'[n].todo[j] = todo[j]
      <4> HIDE DEF todo
      <4> QED
        BY <2>1, <3>1, <1>1
    <3>3. /\ \A j \in DOMAIN todo : CallbackAfter(frames'[n].todo[j]) = CallbackAt(todo[j])
          /\ CallbackAfter(frames'[n].todo[Len(todo) + 1]) = c
      BY <1>7, <2>1, <3>2
    <3> DEFINE called(j) == CallbackAfter(frames'[n].todo[j])
    <3>4. /\ \A j \in DOMAIN todo : called(j) = CallbackAt(todo[j])
          /\ called(Len(todo) + 1) = c
          /\ Pending'[n] = {called(j) : j \in 1 .. Len(todo) + 1}
      BY <2>3, <3>2, <3>3
    <3> HIDE DEF called, todo
    <3>5. Pending'[n] = Pending[n] \cup {c}
      <4>1. Len(todo) + 1 \in 1 .. Len(todo) + 1
        BY <2>1
      <4>2. \A j \in 1 .. Len(todo) + 1 : j \in DOMAIN todo \/ j = Len(todo) + 1
        BY <2>1
      <4>3. \A j \in DOMAIN todo : j \in 1 .. Len(todo) + 1
        BY <2>1
      <4>4. \A x : x \in Pending'[n] <=> x = c \/ \E j \in DOMAIN todo : x = CallbackAt(todo[j])
        BY <3>4, <4>1, <4>2, <4>3, Zenon
      <4> QED
        BY <2>4, <4>4, Zenon
    <3> QED
      BY <2>5, <3>5
  <2>6. CASE n \notin joined
    <3>1. frames'[n].todo = todo
      BY <2>6, <1>3
    <3>2. \A j \in DOMAIN todo : CallbackAfter(todo[j]) = CallbackAt(todo[j])
      BY <1>7, <2>1
    <3> QED
      BY <2>3, <2>4, <2>6, <3>1, <3>2
  <2> QED
    BY <2>5, <2>6
<1>11. Pending' = [n \in DOMAIN Pending |-> IF n \in joined THEN Pending[n] \cup {c} ELSE Pending[n]]
  <2>1. Pending' = [n \in DOMAIN frames' |-> Pending'[n]]
    BY PendingAfter
  <2> HIDE DEF Pending, joined
  <2> QED
    BY <1>9, <1>10, <2>1
<1>12. Promise!Subscribe(c)
  <2> HIDE DEF joined
  <2> QED
    BY <1>8, <1>9, <1>11 DEF Promise!Subscribe, Pending, Due, Subscribed
<1> QED
  BY <1>5, <1>12

\* The observer registered last is at the end of the Map: taking it away leaves the
\* others at their places, and each loop with the ids other than its own.
LEMMA UnobserveUnsubscribes ==
  ASSUME LastInFirstOut, Inv, Orderly, NEW c \in Callback, UnobservePointer(c)
  PROVE  Promise!Unsubscribe(c) /\ Orderly'
<1> DEFINE id == handle[c]
           skipped(n) == {k \in DOMAIN frames[n].todo : frames[n].todo[k] = id}
<1>1. /\ observers \in Seq(Observer) /\ Len(observers) \in Nat
      /\ DOMAIN observers = 1 .. Len(observers) /\ handle \in [Callback -> Nat]
      /\ id # 0
  <2>1. id # 0
    BY Zenon DEF UnobservePointer, Withdraw
  <2> QED
    BY <2>1 DEF Inv, TypeOK
<1>2. id \in DOMAIN observers /\ observers[id].callback = c
  BY <1>1 DEF Orderly
<1>3. id = Len(observers)
  <2>1. Len(observers) \in DOMAIN observers
    BY <1>1, <1>2
  <2>2. observers[Len(observers)] \in Observer /\ handle[observers[Len(observers)].callback] = Len(observers)
    BY <1>1, <2>1 DEF Orderly
  <2>3. Len(observers) <= id
    BY <2>2 DEF Observer, UnobservePointer, Withdraw
  <2> QED
    BY <1>1, <1>2, <2>3
<1>4. observers' = [i \in 1 .. Len(observers) - 1 |-> observers[i]]
  <2> DEFINE gone == {k \in DOMAIN observers : observers[k].id = id}
             at == CHOOSE k \in gone : TRUE
  <2>1. observers' = DeleteAt(observers, gone)
    BY DEF UnobservePointer, Withdraw, Left
  <2>2. gone = {id}
    BY <1>2 DEF Orderly
  <2>3. gone # {} /\ at = id
    BY <2>2
  <2> HIDE DEF gone
  <2>4. DeleteAt(observers, gone) =
          [i \in 1 .. Len(observers) - 1 |-> IF i < at THEN observers[i] ELSE observers[i + 1]]
    BY <2>3 DEF DeleteAt
  <2> HIDE DEF at
  <2> QED
    BY <1>1, <1>3, <2>1, <2>3, <2>4
<1>5. /\ handle' = [handle EXCEPT ![c] = 0]
      /\ DOMAIN frames' = DOMAIN frames
  BY DEF UnobservePointer, Withdraw
<1>6. Orderly'
  <2>1. ASSUME NEW i \in DOMAIN observers'
        PROVE  observers'[i].id = i /\ handle'[observers'[i].callback] = i
    <3>1. i \in DOMAIN observers /\ i # id /\ observers'[i] = observers[i]
      <4>1. i \in 1 .. Len(observers) - 1
        BY <1>4
      <4>2. i \in DOMAIN observers
        BY <4>1, <1>1
      <4>3. i # Len(observers)
        BY <4>1, <1>1
      <4>4. observers'[i] = observers[i]
        BY <4>1, <1>4
      <4> QED
        BY <4>2, <4>3, <4>4, <1>3
    <3>2. observers[i].id = i /\ handle[observers[i].callback] = i /\ i # 0
      BY <1>1, <3>1 DEF Orderly
    <3>3. observers[i] \in Observer
      BY <1>1, <3>1
    <3> QED
      BY <1>1, <1>5, <3>1, <3>2, <3>3 DEF Observer
  <2>2. ASSUME NEW d \in Callback, handle'[d] # 0
        PROVE  handle'[d] \in DOMAIN observers' /\ observers'[handle'[d]].callback = d
    <3>1. d # c /\ handle'[d] = handle[d]
      BY <1>1, <1>5, <2>2
    <3>2. handle[d] \in DOMAIN observers /\ observers[handle[d]].callback = d
      BY <2>2, <3>1 DEF Orderly
    <3>3. handle[d] # id
      BY <1>2, <3>1, <3>2
    <3>4. handle[d] \in 1 .. Len(observers) - 1
      BY <1>1, <1>3, <3>2, <3>3
    <3> QED
      BY <1>4, <3>1, <3>2, <3>4
  <2> QED
    BY <2>1, <2>2 DEF Orderly
<1>7. \A i \in DOMAIN observers : i # id =>
         CallbackAfter(i) = CallbackAt(i) /\ CallbackAt(i) # c
  <2> SUFFICES ASSUME NEW i \in DOMAIN observers, i # id
               PROVE  CallbackAfter(i) = CallbackAt(i) /\ CallbackAt(i) # c
    OBVIOUS
  <2>1. CallbackAt(i) = observers[i].callback /\ handle[CallbackAt(i)] = i
    BY CallbackAtPlace DEF Inv
  <2>2. i \in 1 .. Len(observers) - 1
    BY <1>1, <1>3
  <2>3. i \in DOMAIN observers' /\ observers'[i] = observers[i]
    BY <1>4, <2>2
  <2>4. CallbackAfter(i) = observers'[i].callback
    BY <1>6, <2>3, CallbackAtPlaceAfter
  <2> QED
    BY <2>1, <2>3, <2>4
<1>8. CallbackAt(id) = c
  BY <1>2, CallbackAtPlace DEF Inv
<1>9. ASSUME NEW n \in DOMAIN frames PROVE Pending'[n] = Pending[n] \ {c}
  <2> DEFINE todo == frames[n].todo
             K == skipped(n)
             rest == DeleteAt(todo, K)
  <2>1. /\ todo \in Seq(Nat \ {0})
        /\ \A j \in DOMAIN todo : todo[j] \in DOMAIN observers
        /\ \A i, j \in DOMAIN todo : todo[i] = todo[j] => i = j
    BY TodoPlaces
  <2>2. frames'[n].todo = rest
    <3>1. frames[n] \in Frame
      BY DEF Inv, TypeOK
    <3>2. frames'[n] = [frames[n] EXCEPT !.todo = DeleteAt(@, {k \in DOMAIN @ : @[k] = id}),
                                         !.attached = @ /\ ~Dissolves(c)]
      BY DEF UnobservePointer, Withdraw
    <3> QED
      BY <3>1, <3>2 DEF Frame
  <2>3. /\ \A x, y \in K : x = y
        /\ K \in SUBSET DOMAIN todo
        /\ \A k \in DOMAIN todo : k \in K <=> todo[k] = id
    BY <2>1
  <2>4. Pending'[n] = DueAfter(rest) /\ Pending[n] = Due(todo)
    BY <1>5, <2>2, PendingAfter DEF Pending
  <2>5. \E m \in [DOMAIN rest -> DOMAIN todo \ K] :
          /\ \A i \in DOMAIN rest : rest[i] = todo[m[i]]
          /\ \A i, j \in DOMAIN rest : m[i] = m[j] => i = j
          /\ \A j \in DOMAIN todo \ K : \E i \in DOMAIN rest : m[i] = j
    <3> DEFINE S == Nat \ {0}
    <3>1. K \in SUBSET DOMAIN todo
      BY <2>3
    <3>2. \A x, y \in K : x = y
      BY <2>3
    <3>3. todo \in Seq(S)
      BY <2>1
    <3> HIDE DEF todo, K, S
    <3> QED
      BY <3>1, <3>2, <3>3, DeleteAtPositions
  <2> HIDE DEF todo, K
  <2> HIDE DEF rest
  <2>6. /\ \A i \in DOMAIN rest : \E k \in DOMAIN todo : todo[k] # id /\ rest[i] = todo[k]
        /\ \A k \in DOMAIN todo : todo[k] # id => \E i \in DOMAIN rest : rest[i] = todo[k]
    BY <2>3, <2>5
  <2>7. ASSUME NEW d \in DueAfter(rest) PROVE d \in Due(todo) /\ d # c
    <3>1. PICK i \in DOMAIN rest : d = CallbackAfter(rest[i])
      BY DEF DueAfter
    <3>2. PICK k \in DOMAIN todo : todo[k] # id /\ rest[i] = todo[k]
      BY <2>6
    <3>3. d = CallbackAt(todo[k]) /\ d # c
      BY <1>7, <2>1, <3>1, <3>2
    <3> QED
      BY <3>3 DEF Due
  <2>8. ASSUME NEW d \in Due(todo), d # c PROVE d \in DueAfter(rest)
    <3>1. PICK k \in DOMAIN todo : d = CallbackAt(todo[k])
      BY DEF Due
    <3>2. todo[k] # id
      BY <1>8, <2>8, <3>1
    <3>3. PICK i \in DOMAIN rest : rest[i] = todo[k]
      BY <2>6, <3>2
    <3>4. d = CallbackAfter(rest[i])
      BY <1>7, <2>1, <3>1, <3>2, <3>3
    <3> QED
      BY <3>4 DEF DueAfter
  <2> QED
    BY <2>4, <2>7, <2>8
<1>10. Pending' = [n \in DOMAIN Pending |-> Pending[n] \ {c}]
  <2>1. Pending' = [n \in DOMAIN frames' |-> Pending'[n]]
    BY PendingAfter
  <2>2. DOMAIN Pending = DOMAIN frames
    BY DEF Pending
  <2> HIDE DEF Pending
  <2> QED
    BY <1>5, <1>9, <2>1, <2>2
<1>11. c \in Subscribed /\ Subscribed' = Subscribed \ {c}
  BY <1>1, <1>5 DEF Subscribed
<1> QED
  BY <1>6, <1>10, <1>11 DEF Promise!Unsubscribe, Pending, Due, Subscribed

-----------------------------------------------------------------------------
(* The refinement.                                                         *)

LEMMA StepImplements ==
  ASSUME LastInFirstOut, Unresolvable = {}, Inv, Orderly, [Next]_vars
  PROVE  [Promise!Next]_(Promise!vars) /\ Orderly'
<1> DEFINE Goal == [Promise!Next]_(Promise!vars) /\ Orderly'
<1>1. ASSUME NEW v \in Value, SetValue(v) PROVE Goal
  BY <1>1, SetValuePublishes, Zenon DEF Promise!Next
<1>2. ASSUME NEW v \in Value, RemoteUpdate(v) PROVE Goal
  BY <1>2, RemoteUpdatePublishes, Zenon DEF Promise!Next
<1>3. ASSUME NEW v \in Value, RemoteUpdateFails(v) PROVE FALSE
  BY <1>3 DEF RemoteUpdateFails
<1>4. CASE CallNext
  BY <1>4, CallNextDelivers, Zenon DEF Promise!Next
<1>5. CASE CallbackReturns
  BY <1>5, CallbackReturnsStutters, Zenon
<1>6. CASE EndUpdate
  BY <1>6, EndUpdateCompletes, Zenon DEF Promise!Next
<1>7. ASSUME NEW c \in Callback, ObservePointer(c) PROVE Goal
  BY <1>7, ObserveSubscribes, Zenon DEF Promise!Next
<1>8. ASSUME NEW c \in Callback, UnobservePointer(c) PROVE Goal
  BY <1>8, UnobserveUnsubscribes, Zenon DEF Promise!Next
<1>9. CASE UNCHANGED vars
  <2>1. Orderly' /\ Subscribed' = Subscribed /\ \A id : CallbackAt(id)' = CallbackAt(id)
    BY <1>9, SameObservers DEF vars
  <2>2. Pending' = Pending
    BY <1>9 DEF vars, Pending, Due, CallbackAt
  <2> QED
    BY <2>1, <2>2 DEF Promise!vars, Pending, Due, Subscribed
<1> QED
  BY <1>1, <1>2, <1>3, <1>4, <1>5, <1>6, <1>7, <1>8, <1>9, Zenon DEF Next

\* When the observer registered last is withdrawn first and every update can be
\* resolved, observePointer keeps its promise: every update is announced to exactly
\* the callbacks registered, each is called once, and one that is withdrawn while an
\* announcement is under way is not called, however announcements nest
\* (src/dif/dif-handler.ts:289-335, 736-783).
THEOREM NotificationImplemented ==
  ASSUME LastInFirstOut, Unresolvable = {}
  PROVE  Spec => ImplementsNotification
<1>1. Init => Promise!Init /\ Orderly
  BY DEF Init, Promise!Init, Orderly
<1>2. Inv /\ Orderly /\ [Next]_vars => [Promise!Next]_(Promise!vars) /\ Orderly'
  BY StepImplements
<1> QED
  BY <1>1, <1>2, Invariance, PTL DEF Spec, Promise!Spec, ImplementsNotification
=============================================================================
