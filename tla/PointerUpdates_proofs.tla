------------------------ MODULE PointerUpdates_proofs ------------------------
(***************************************************************************)
(* Proofs about PointerUpdates, for any values and callbacks and however   *)
(* updates and registrations are nested.  What keeps a Ref and the runtime *)
(* together is that an update through the handle cannot be made while      *)
(* another one is: the Ref's own update is always the innermost.           *)
(***************************************************************************)
EXTENDS PointerUpdates, TLAPS

-----------------------------------------------------------------------------
(* Deleting from a sequence.                                               *)

\* What is left after deleting at the one position in K are the elements at the
\* other positions, each once.
LEMMA DeleteAtPositions ==
  ASSUME NEW S, NEW s \in Seq(S), NEW K \in SUBSET DOMAIN s,
         \A x, y \in K : x = y
  PROVE  /\ DeleteAt(s, K) \in Seq(S)
         /\ \E m \in [DOMAIN DeleteAt(s, K) -> DOMAIN s \ K] :
              /\ \A i \in DOMAIN DeleteAt(s, K) : DeleteAt(s, K)[i] = s[m[i]]
              /\ \A i, j \in DOMAIN DeleteAt(s, K) : m[i] = m[j] => i = j
              /\ \A j \in DOMAIN s \ K : \E i \in DOMAIN DeleteAt(s, K) : m[i] = j
<1>1. CASE K = {}
  <2>1. DeleteAt(s, K) = s
    BY <1>1 DEF DeleteAt
  <2> DEFINE m == [i \in DOMAIN s |-> i]
  <2>2. m \in [DOMAIN s -> DOMAIN s \ K]
    BY <1>1
  <2>3. \A i \in DOMAIN s : s[i] = s[m[i]]
    OBVIOUS
  <2>4. \A i, j \in DOMAIN s : m[i] = m[j] => i = j
    OBVIOUS
  <2>5. \A j \in DOMAIN s \ K : \E i \in DOMAIN s : m[i] = j
    OBVIOUS
  <2>6. \E f \in [DOMAIN s -> DOMAIN s \ K] :
          /\ \A i \in DOMAIN s : s[i] = s[f[i]]
          /\ \A i, j \in DOMAIN s : f[i] = f[j] => i = j
          /\ \A j \in DOMAIN s \ K : \E i \in DOMAIN s : f[i] = j
    <3> WITNESS m \in [DOMAIN s -> DOMAIN s \ K]
    <3> QED
      BY <2>3, <2>4, <2>5
  <2> QED
    BY <2>1, <2>6
<1>2. CASE K # {}
  <2> DEFINE at == CHOOSE k \in K : TRUE
             n == Len(s)
  <2>1. at \in K /\ K = {at}
    BY <1>2
  <2>2. at \in 1 .. n /\ n \in Nat /\ DOMAIN s = 1 .. n
    BY <2>1
  <2> HIDE DEF at
  <2>3. DeleteAt(s, K) = [i \in 1 .. n - 1 |-> IF i < at THEN s[i] ELSE s[i + 1]]
    BY <1>2 DEF DeleteAt, at
  <2>4. DeleteAt(s, K) \in Seq(S)
    <3>1. \A i \in 1 .. n - 1 : (IF i < at THEN s[i] ELSE s[i + 1]) \in S
      BY <2>2
    <3>2. n - 1 \in Nat
      BY <2>2
    <3> QED
      BY <3>1, <3>2, <2>3
  <2> DEFINE m == [i \in 1 .. n - 1 |-> IF i < at THEN i ELSE i + 1]
  <2>5. m \in [1 .. n - 1 -> DOMAIN s \ K]
    BY <2>1, <2>2
  <2>6. \A i \in 1 .. n - 1 : DeleteAt(s, K)[i] = s[m[i]]
    BY <2>3
  <2>7. \A i, j \in 1 .. n - 1 : m[i] = m[j] => i = j
    BY <2>2
  <2>8. ASSUME NEW j \in DOMAIN s \ K PROVE \E i \in 1 .. n - 1 : m[i] = j
    <3>1. CASE j < at
      BY <3>1, <2>2
    <3>2. CASE j > at
      <4>1. j - 1 \in 1 .. n - 1 /\ m[j - 1] = j
        BY <3>2, <2>2
      <4> QED
        BY <4>1
    <3> QED
      BY <3>1, <3>2, <2>1, <2>2
  <2>9. DOMAIN DeleteAt(s, K) = 1 .. n - 1
    BY <2>3
  <2> DEFINE D == DOMAIN DeleteAt(s, K)
  <2>10. /\ m \in [D -> DOMAIN s \ K]
         /\ \A i \in D : DeleteAt(s, K)[i] = s[m[i]]
         /\ \A i, j \in D : m[i] = m[j] => i = j
         /\ \A j \in DOMAIN s \ K : \E i \in D : m[i] = j
    <3> HIDE DEF m
    <3> QED
      BY <2>5, <2>6, <2>7, <2>8, <2>9
  <2>11. \E f \in [D -> DOMAIN s \ K] :
           /\ \A i \in D : DeleteAt(s, K)[i] = s[f[i]]
           /\ \A i, j \in D : f[i] = f[j] => i = j
           /\ \A j \in DOMAIN s \ K : \E i \in D : f[i] = j
    <3> HIDE DEF D
    <3> m \in [D -> DOMAIN s \ K]
      BY <2>10
    <3> WITNESS m \in [D -> DOMAIN s \ K]
    <3> QED
      BY <2>10
  <2> QED
    BY <2>4, <2>11
<1> QED
  BY <1>1, <1>2

-----------------------------------------------------------------------------
(* The invariant.                                                          *)

\* An id names one observer of the Map.
IdsDistinct ==
  \A i, j \in DOMAIN observers : observers[i].id = observers[j].id => i = j

\* A loop only has ids ahead of it that are in the Map, each once.
TodoRegistered ==
  \A n \in DOMAIN frames : \A j \in DOMAIN frames[n].todo :
     \E i \in DOMAIN observers : observers[i].id = frames[n].todo[j]

TodoDistinct ==
  \A n \in DOMAIN frames : \A i, j \in DOMAIN frames[n].todo :
     frames[n].todo[i] = frames[n].todo[j] => i = j

\* The Ref's own update is always the innermost.
OwnIsInnermost == \A n \in DOMAIN frames : frames[n].own => n = Len(frames)

MapInv == IdsDistinct /\ TodoRegistered /\ TodoDistinct

Inv == TypeOK /\ MapInv /\ RelayWhileObserved /\ OwnUpdateNotOvertaken /\ OwnIsInnermost

LEMMA CallbackAtType ==
  ASSUME TypeOK, NEW i \in DOMAIN observers
  PROVE  CallbackAt(observers[i].id) \in Callback
<1> DEFINE registered == {observers[j] : j \in DOMAIN observers}
           found == CHOOSE o \in registered : o.id = observers[i].id
<1>1. found \in registered
  OBVIOUS
<1>2. registered \subseteq Observer
  BY DEF TypeOK
<1>3. found \in Observer
  BY <1>1, <1>2
<1> HIDE DEF found
<1>4. found.callback \in Callback
  BY <1>3 DEF Observer
<1> QED
  BY <1>4 DEF CallbackAt, found

LEMMA InitEstablishesInv == Init => Inv /\ MirrorsRuntime
<1> SUFFICES ASSUME Init PROVE Inv /\ MirrorsRuntime
  OBVIOUS
<1>1. TypeOK
  <2>1. relay \in BOOLEAN /\ returned \in BOOLEAN
    BY Zenon DEF Init
  <2>2. observers \in Seq(Observer) /\ frames \in Seq(Frame)
    BY DEF Init
  <2>3. runtimeValue \in Value /\ jsValue \in Value /\ handle \in [Callback -> Nat]
    BY DEF Init
  <2> QED
    BY <2>1, <2>2, <2>3, Zenon DEF TypeOK
<1>2. MapInv
  BY DEF Init, MapInv, IdsDistinct, TodoRegistered, TodoDistinct
<1>3. RelayWhileObserved /\ OwnUpdateNotOvertaken /\ OwnIsInnermost /\ MirrorsRuntime
  BY DEF Init, RelayWhileObserved, OwnUpdateNotOvertaken, OwnIsInnermost, MirrorsRuntime
<1> QED
  BY <1>1, <1>2, <1>3 DEF Inv

\* What Announce puts on top of the other frames is well formed when the ids are all
\* of the Map's or none of them.
LEMMA AnnounceKeepsMapInv ==
  ASSUME TypeOK, MapInv, NEW v \in Value, NEW own \in BOOLEAN, NEW ids,
         ids = Ids \/ ids = <<>>, Announce(v, own, ids), UNCHANGED observers
  PROVE  frames' \in Seq(Frame) /\ MapInv'
<1> DEFINE new == [value |-> v, own |-> own, todo |-> ids,
                   running |-> NoCallback, attached |-> ids # <<>>]
<1>1. ids \in Seq(Nat \ {0})
  <2>1. observers \in Seq(Observer)
    BY DEF TypeOK
  <2>2. Len(observers) \in Nat /\ DOMAIN observers = 1 .. Len(observers)
    BY <2>1
  <2>3. \A i \in 1 .. Len(observers) : observers[i].id \in Nat \ {0}
    <3>1. \A i \in 1 .. Len(observers) : observers[i] \in Observer
      BY <2>1
    <3> QED
      BY <3>1 DEF Observer
  <2>4. Ids = [i \in 1 .. Len(observers) |-> observers[i].id]
    BY <2>2 DEF Ids
  <2>5. Ids \in Seq(Nat \ {0})
    BY <2>2, <2>3, <2>4
  <2>6. <<>> \in Seq(Nat \ {0})
    OBVIOUS
  <2> QED
    BY <2>5, <2>6, Zenon
<1>2. new \in Frame
  BY <1>1 DEF Frame
<1>3. frames \in Seq(Frame) /\ frames' = Append(frames, new)
  BY DEF Announce, TypeOK
<1>4. /\ frames' \in Seq(Frame)
      /\ Len(frames') = Len(frames) + 1
      /\ \A n \in DOMAIN frames' : frames'[n] = IF n = Len(frames) + 1 THEN new ELSE frames[n]
      /\ \A n \in DOMAIN frames' : n # Len(frames) + 1 => n \in DOMAIN frames
  BY <1>2, <1>3
<1>5. \A j \in DOMAIN ids : \E i \in DOMAIN observers : observers[i].id = ids[j]
  BY DEF Ids
<1>6. \A i, j \in DOMAIN ids : ids[i] = ids[j] => i = j
  BY DEF Ids, MapInv, IdsDistinct
<1>7. new.todo = ids
  OBVIOUS
<1> HIDE DEF new
<1>8. IdsDistinct'
  BY DEF MapInv, IdsDistinct
<1>9. TodoRegistered'
  BY <1>4, <1>5, <1>7 DEF MapInv, TodoRegistered
<1>10. TodoDistinct'
  BY <1>4, <1>6, <1>7 DEF MapInv, TodoDistinct
<1> QED
  BY <1>4, <1>8, <1>9, <1>10 DEF MapInv

-----------------------------------------------------------------------------
(* Updates preserve it.                                                    *)

LEMMA SetValuePreservesInv ==
  ASSUME Inv, NEW v \in Value, SetValue(v)
  PROVE  Inv' /\ MirrorsRuntime'
<1> DEFINE ids == IF relay THEN Ids ELSE <<>>
           new == [value |-> v, own |-> TRUE, todo |-> ids,
                   running |-> NoCallback, attached |-> ids # <<>>]
<1>1. TypeOK /\ MapInv /\ \A n \in DOMAIN frames : ~frames[n].own
  BY DEF Inv, SetValue, HandleBusy
<1>2. Announce(v, TRUE, ids) /\ runtimeValue' = v
      /\ UNCHANGED <<jsValue, relay, observers, handle, returned>>
  BY DEF SetValue
<1>3. frames' \in Seq(Frame) /\ MapInv'
  <2>1. ids = Ids \/ ids = <<>>
    OBVIOUS
  <2> HIDE DEF ids
  <2> QED
    BY <1>1, <1>2, <2>1, AnnounceKeepsMapInv
<1>4. TypeOK'
  BY <1>1, <1>2, <1>3 DEF TypeOK
<1>5. frames \in Seq(Frame) /\ frames' = Append(frames, new)
  BY <1>1, <1>2 DEF TypeOK, Announce
<1> HIDE DEF new
<1>6. /\ Len(frames') = Len(frames) + 1 /\ Len(frames) \in Nat
      /\ frames'[Len(frames')] = new
      /\ DOMAIN frames' = 1 .. Len(frames')
      /\ \A n \in DOMAIN frames' : n # Len(frames') => n \in DOMAIN frames /\ frames'[n] = frames[n]
  BY <1>5
<1>7. new.own = TRUE /\ new.value = v
  BY DEF new
<1>8. RelayWhileObserved'
  BY <1>2 DEF Inv, RelayWhileObserved
<1>9. OwnUpdateNotOvertaken' /\ OwnIsInnermost'
  BY <1>1, <1>2, <1>6, <1>7 DEF OwnUpdateNotOvertaken, OwnIsInnermost
<1>10. HandleBusy'
  <2>1. Len(frames') \in DOMAIN frames'
    BY <1>6
  <2> QED
    BY <2>1, <1>6, <1>7 DEF HandleBusy
<1> QED
  BY <1>3, <1>4, <1>8, <1>9, <1>10 DEF Inv, MirrorsRuntime

\* An update from elsewhere finds no other update being announced.
LEMMA FirstAnnouncement ==
  ASSUME Inv, NEW v \in Value, NEW ids, ids = Ids \/ ids = <<>>,
         frames = <<>>, Announce(v, FALSE, ids), runtimeValue' = v, jsValue' \in Value,
         UNCHANGED <<relay, observers, handle, returned>>
  PROVE  Inv' /\ ~HandleBusy'
<1>1. TypeOK /\ MapInv
  BY DEF Inv
<1>2. frames' \in Seq(Frame) /\ MapInv'
  BY <1>1, AnnounceKeepsMapInv
<1>3. TypeOK'
  BY <1>1, <1>2 DEF TypeOK
<1>4. \A n \in DOMAIN frames' : frames'[n].own = FALSE
  BY DEF Announce
<1>5. RelayWhileObserved' /\ OwnUpdateNotOvertaken' /\ OwnIsInnermost'
  BY <1>4 DEF Inv, RelayWhileObserved, OwnUpdateNotOvertaken, OwnIsInnermost
<1> QED
  BY <1>2, <1>3, <1>4, <1>5 DEF Inv, HandleBusy

LEMMA RemoteUpdatePreservesInv ==
  ASSUME Inv, NEW v \in Value, RemoteUpdate(v)
  PROVE  Inv' /\ MirrorsRuntime'
<1>1. Inv'
  BY FirstAnnouncement DEF RemoteUpdate
<1> QED
  BY <1>1 DEF RemoteUpdate, MirrorsRuntime

LEMMA RemoteUpdateFailsPreservesInv ==
  ASSUME Inv, NEW v \in Value, RemoteUpdateFails(v)
  PROVE  Inv' /\ MirrorsRuntime'
<1>1. jsValue' \in Value
  BY DEF Inv, TypeOK, RemoteUpdateFails
<1>2. Inv'
  BY <1>1, FirstAnnouncement DEF RemoteUpdateFails
<1> QED
  BY <1>2 DEF RemoteUpdateFails, MirrorsRuntime

\* A step of a loop changes only what its frame has ahead of it and whom it is calling.
LEMMA LoopStepPreservesInv ==
  ASSUME Inv, frames # <<>>,
         NEW running \in Callback \cup {NoCallback}, NEW todo \in Seq(Nat \ {0}),
         frames' = [frames EXCEPT ![Len(frames)] =
                      [Top EXCEPT !.running = running, !.todo = todo]],
         \A j \in DOMAIN todo : \E i \in DOMAIN Top.todo : todo[j] = Top.todo[i],
         \A i, j \in DOMAIN todo : todo[i] = todo[j] => i = j,
         UNCHANGED <<runtimeValue, jsValue, relay, observers, handle, returned>>
  PROVE  Inv' /\ (MirrorsRuntime => MirrorsRuntime')
<1> DEFINE new == [Top EXCEPT !.running = running, !.todo = todo]
<1>1. frames \in Seq(Frame) /\ Len(frames) \in DOMAIN frames /\ TypeOK
  BY DEF Inv, TypeOK
<1>2. Top \in Frame
  BY <1>1 DEF Top
<1>3. new \in Frame /\ new.own = Top.own /\ new.value = Top.value /\ new.todo = todo
  BY <1>2 DEF Frame
<1> HIDE DEF new
<1>4. /\ frames' \in Seq(Frame) /\ DOMAIN frames' = DOMAIN frames /\ Len(frames') = Len(frames)
      /\ \A n \in DOMAIN frames : frames'[n] = IF n = Len(frames) THEN new ELSE frames[n]
  BY <1>1, <1>3 DEF new
<1>5. \A n \in DOMAIN frames : frames'[n].own = frames[n].own /\ frames'[n].value = frames[n].value
  BY <1>3, <1>4 DEF Top
<1>6. TypeOK'
  BY <1>1, <1>4 DEF TypeOK
<1>7. IdsDistinct'
  BY DEF Inv, MapInv, IdsDistinct
<1>8. TodoRegistered'
  <2> SUFFICES ASSUME NEW n \in DOMAIN frames, NEW j \in DOMAIN frames'[n].todo
               PROVE  \E i \in DOMAIN observers : observers[i].id = frames'[n].todo[j]
    BY <1>4 DEF TodoRegistered
  <2>1. CASE n = Len(frames)
    <3>1. frames'[n].todo = todo
      BY <2>1, <1>3, <1>4
    <3>2. PICK k \in DOMAIN Top.todo : todo[j] = Top.todo[k]
      BY <3>1
    <3>3. \E i \in DOMAIN observers : observers[i].id = Top.todo[k]
      BY <1>1 DEF Inv, MapInv, TodoRegistered, Top
    <3> QED
      BY <3>1, <3>2, <3>3
  <2>2. CASE n # Len(frames)
    BY <2>2, <1>4 DEF Inv, MapInv, TodoRegistered
  <2> QED
    BY <2>1, <2>2
<1>9. TodoDistinct'
  <2> SUFFICES ASSUME NEW n \in DOMAIN frames, NEW i \in DOMAIN frames'[n].todo,
                      NEW j \in DOMAIN frames'[n].todo,
                      frames'[n].todo[i] = frames'[n].todo[j]
               PROVE  i = j
    BY <1>4 DEF TodoDistinct
  <2>1. CASE n = Len(frames)
    BY <2>1, <1>3, <1>4
  <2>2. CASE n # Len(frames)
    BY <2>2, <1>4 DEF Inv, MapInv, TodoDistinct
  <2> QED
    BY <2>1, <2>2
<1>10. RelayWhileObserved' /\ OwnUpdateNotOvertaken' /\ OwnIsInnermost'
  BY <1>4, <1>5 DEF Inv, RelayWhileObserved, OwnUpdateNotOvertaken, OwnIsInnermost
<1>11. MirrorsRuntime => MirrorsRuntime'
  BY <1>4, <1>5 DEF MirrorsRuntime, HandleBusy
<1> QED
  BY <1>6, <1>7, <1>8, <1>9, <1>10, <1>11 DEF Inv, MapInv

LEMMA CallNextPreservesInv ==
  ASSUME Inv, CallNext
  PROVE  Inv' /\ (MirrorsRuntime => MirrorsRuntime')
<1> DEFINE running == CallbackAt(Head(Top.todo))
           todo == Tail(Top.todo)
<1>1. TypeOK /\ frames # <<>> /\ frames \in Seq(Frame) /\ Len(frames) \in DOMAIN frames
  BY DEF Inv, TypeOK, CallNext
<1>2. Top \in Frame /\ Top.todo \in Seq(Nat \ {0}) /\ Top.todo # <<>>
  <2>1. Top \in Frame
    BY <1>1 DEF Top
  <2>2. Top.todo \in Seq(Nat \ {0})
    BY <2>1 DEF Frame
  <2> QED
    BY <2>1, <2>2 DEF CallNext
<1>3. todo \in Seq(Nat \ {0}) /\ \A j \in DOMAIN todo : j + 1 \in DOMAIN Top.todo
                                  /\ todo[j] = Top.todo[j + 1]
  BY <1>2
<1>4. \A i, j \in DOMAIN Top.todo : Top.todo[i] = Top.todo[j] => i = j
  BY <1>1 DEF Inv, MapInv, TodoDistinct, Top
<1>5. running \in Callback \cup {NoCallback}
  <2>1. 1 \in DOMAIN Top.todo /\ Head(Top.todo) = Top.todo[1]
    BY <1>2
  <2>2. PICK i \in DOMAIN observers : observers[i].id = Head(Top.todo)
    BY <1>1, <2>1 DEF Inv, MapInv, TodoRegistered, Top
  <2> QED
    BY <1>1, <2>2, CallbackAtType
<1>6. frames' = [frames EXCEPT ![Len(frames)] =
                   [Top EXCEPT !.running = running, !.todo = todo]]
  BY <1>1, <1>2 DEF CallNext, Top, Frame
<1>7. UNCHANGED <<runtimeValue, jsValue, relay, observers, handle, returned>>
  BY DEF CallNext
<1> HIDE DEF running
<1>8. \A i, j \in DOMAIN todo : todo[i] = todo[j] => i = j
  <2> SUFFICES ASSUME NEW i \in DOMAIN todo, NEW j \in DOMAIN todo, todo[i] = todo[j]
               PROVE  i = j
    OBVIOUS
  <2>1. i + 1 = j + 1
    BY <1>3, <1>4
  <2>2. i \in Nat /\ j \in Nat
    BY <1>3
  <2> QED
    BY <2>1, <2>2
<1>9. \A j \in DOMAIN todo : \E i \in DOMAIN Top.todo : todo[j] = Top.todo[i]
  BY <1>3
<1> HIDE DEF todo
<1> QED
  BY <1>1, <1>3, <1>5, <1>6, <1>7, <1>8, <1>9, LoopStepPreservesInv

LEMMA CallbackReturnsPreservesInv ==
  ASSUME Inv, CallbackReturns
  PROVE  Inv' /\ (MirrorsRuntime => MirrorsRuntime')
<1>1. frames # <<>> /\ frames \in Seq(Frame) /\ Len(frames) \in DOMAIN frames
  BY DEF Inv, TypeOK, CallbackReturns
<1>2. Top \in Frame
  BY <1>1 DEF Top
<1>3. Top.todo \in Seq(Nat \ {0})
      /\ \A i, j \in DOMAIN Top.todo : Top.todo[i] = Top.todo[j] => i = j
  BY <1>1, <1>2 DEF Inv, MapInv, TodoDistinct, Top, Frame
<1>4. frames' = [frames EXCEPT ![Len(frames)] =
                   [Top EXCEPT !.running = NoCallback, !.todo = Top.todo]]
  BY <1>1, <1>2 DEF CallbackReturns, Top, Frame
<1>5. UNCHANGED <<runtimeValue, jsValue, relay, observers, handle, returned>>
  BY DEF CallbackReturns
<1> QED
  BY <1>1, <1>3, <1>4, <1>5, LoopStepPreservesInv

LEMMA EndUpdatePreservesInv ==
  ASSUME Inv, EndUpdate
  PROVE  Inv' /\ (MirrorsRuntime => MirrorsRuntime')
<1>1. /\ TypeOK /\ frames # <<>> /\ frames \in Seq(Frame)
      /\ Len(frames) \in DOMAIN frames /\ Len(frames) \in Nat /\ DOMAIN frames = 1 .. Len(frames)
  BY DEF Inv, TypeOK, EndUpdate
<1>2. /\ frames' \in Seq(Frame) /\ Len(frames') = Len(frames) - 1
      /\ DOMAIN frames' = 1 .. Len(frames) - 1
      /\ \A n \in 1 .. Len(frames) - 1 : frames'[n] = frames[n]
  BY <1>1 DEF EndUpdate
<1>3. Top \in Frame /\ Top.value \in Value
  <2>1. Top \in Frame
    BY <1>1 DEF Top
  <2> QED
    BY <2>1 DEF Frame
<1>4. jsValue' \in Value /\ UNCHANGED <<runtimeValue, relay, observers, handle, returned>>
  BY <1>1, <1>3 DEF EndUpdate, TypeOK
<1>5. TypeOK'
  BY <1>1, <1>2, <1>4 DEF TypeOK
<1>6. MapInv'
  BY <1>1, <1>2, <1>4 DEF Inv, MapInv, IdsDistinct, TodoRegistered, TodoDistinct
<1>7. \A n \in DOMAIN frames' : ~frames'[n].own
  BY <1>1, <1>2 DEF Inv, OwnIsInnermost
<1>8. RelayWhileObserved' /\ OwnUpdateNotOvertaken' /\ OwnIsInnermost'
  BY <1>4, <1>7 DEF Inv, RelayWhileObserved, OwnUpdateNotOvertaken, OwnIsInnermost
<1>9. ASSUME MirrorsRuntime PROVE MirrorsRuntime'
  <2>1. CASE Top.own
    BY <2>1, <1>1, <1>4 DEF EndUpdate, Inv, OwnUpdateNotOvertaken, Top, MirrorsRuntime
  <2>2. CASE ~Top.own
    <3>1. ~HandleBusy
      BY <2>2, <1>1 DEF HandleBusy, Inv, OwnIsInnermost, Top
    <3> QED
      BY <2>2, <3>1, <1>4, <1>9 DEF EndUpdate, MirrorsRuntime
  <2> QED
    BY <2>1, <2>2
<1> QED
  BY <1>5, <1>6, <1>8, <1>9 DEF Inv

-----------------------------------------------------------------------------
(* Registering and withdrawing observers preserves it.                     *)

\* As long as the updates being announced stay the same, so does what was said of
\* their values.
LEMMA SameUpdates ==
  ASSUME Inv, frames' \in Seq(Frame), DOMAIN frames' = DOMAIN frames,
         \A n \in DOMAIN frames :
            frames'[n].own = frames[n].own /\ frames'[n].value = frames[n].value,
         UNCHANGED <<runtimeValue, jsValue>>
  PROVE  /\ OwnUpdateNotOvertaken' /\ OwnIsInnermost'
         /\ MirrorsRuntime => MirrorsRuntime'
<1>1. frames \in Seq(Frame)
  BY DEF Inv, TypeOK
<1>2. Len(frames') = Len(frames)
  BY <1>1
<1> QED
  BY <1>2 DEF Inv, OwnUpdateNotOvertaken, OwnIsInnermost, MirrorsRuntime, HandleBusy

LEMMA ObservePreservesInv ==
  ASSUME Inv, NEW c \in Callback, ObservePointer(c)
  PROVE  Inv' /\ (MirrorsRuntime => MirrorsRuntime')
<1> DEFINE id == Len(observers) + 1
           taken == \E i \in DOMAIN observers : observers[i].id = id
           new == [id |-> id, callback |-> c]
<1>1. TypeOK /\ observers \in Seq(Observer) /\ frames \in Seq(Frame)
      /\ Len(observers) \in Nat /\ DOMAIN observers = 1 .. Len(observers)
      /\ Len(frames) \in Nat /\ DOMAIN frames = 1 .. Len(frames)
  BY DEF Inv, TypeOK
<1>2. id \in Nat \ {0} /\ new \in Observer /\ new.id = id
  BY <1>1 DEF Observer
<1>3. /\ relay' = IF observers = <<>> THEN TRUE ELSE relay
      /\ handle' = [handle EXCEPT ![c] = id]
      /\ UNCHANGED <<runtimeValue, jsValue, returned>>
  BY DEF ObservePointer, Enter
<1>4. relay' \in BOOLEAN /\ handle' \in [Callback -> Nat]
  BY <1>1, <1>2, <1>3 DEF TypeOK
<1>5. RelayWhileObserved'
  BY <1>3 DEF Inv, RelayWhileObserved
<1>6. CASE taken
  <2>1. /\ observers' = [i \in DOMAIN observers |->
                           IF observers[i].id = id THEN new ELSE observers[i]]
        /\ frames' = frames
    BY <1>6 DEF ObservePointer, Enter
  <2> HIDE DEF new, id
  <2>2. observers' \in Seq(Observer) /\ DOMAIN observers' = DOMAIN observers
    BY <2>1, <1>1, <1>2
  <2>3. \A i \in DOMAIN observers : observers'[i].id = observers[i].id
    BY <2>1, <1>2
  <2>4. MapInv'
    BY <2>1, <2>2, <2>3 DEF Inv, MapInv, IdsDistinct, TodoRegistered, TodoDistinct
  <2>5. TypeOK'
    BY <2>1, <2>2, <1>1, <1>3, <1>4 DEF TypeOK
  <2>6. OwnUpdateNotOvertaken' /\ OwnIsInnermost' /\ (MirrorsRuntime => MirrorsRuntime')
    BY <2>1, <1>1, <1>3, SameUpdates
  <2> QED
    BY <2>4, <2>5, <2>6, <1>5 DEF Inv
<1>7. CASE ~taken
  <2>1. /\ observers' = Append(observers, new)
        /\ frames' = [n \in DOMAIN frames |->
                        IF frames[n].attached
                        THEN [frames[n] EXCEPT !.todo = Append(@, id)]
                        ELSE frames[n]]
    BY <1>7 DEF ObservePointer, Enter
  <2>2. \A i \in DOMAIN observers : observers[i].id # id
    BY <1>7
  <2> HIDE DEF new, id, taken
  <2>3. /\ observers' \in Seq(Observer)
        /\ DOMAIN observers' = 1 .. Len(observers) + 1
        /\ observers'[Len(observers) + 1] = new
        /\ \A i \in DOMAIN observers : i \in DOMAIN observers' /\ observers'[i] = observers[i]
    BY <2>1, <1>1, <1>2
  <2>4. ASSUME NEW n \in DOMAIN frames
        PROVE  /\ frames'[n] \in Frame
               /\ frames'[n].own = frames[n].own
               /\ frames'[n].value = frames[n].value
               /\ frames'[n].todo = IF frames[n].attached THEN Append(frames[n].todo, id)
                                    ELSE frames[n].todo
    <3>1. frames[n] \in Frame
      BY <1>1
    <3>2. frames[n].todo \in Seq(Nat \ {0}) /\ Append(frames[n].todo, id) \in Seq(Nat \ {0})
      BY <3>1, <1>2 DEF Frame
    <3>3. CASE frames[n].attached
      <4>1. frames'[n] = [frames[n] EXCEPT !.todo = Append(frames[n].todo, id)]
        BY <2>1, <3>3
      <4> QED
        BY <4>1, <3>1, <3>2, <3>3 DEF Frame
    <3>4. CASE ~frames[n].attached
      BY <2>1, <3>1, <3>4
    <3> QED
      BY <3>3, <3>4
  <2>5. frames' \in Seq(Frame) /\ DOMAIN frames' = DOMAIN frames
    <3>1. frames' = [n \in 1 .. Len(frames) |-> frames'[n]]
      BY <2>1, <1>1
    <3>2. \A n \in 1 .. Len(frames) : frames'[n] \in Frame
      BY <2>4, <1>1
    <3> QED
      BY <3>1, <3>2, <1>1
  <2>6. IdsDistinct'
    <3> SUFFICES ASSUME NEW i \in DOMAIN observers', NEW j \in DOMAIN observers',
                        observers'[i].id = observers'[j].id
                 PROVE  i = j
      BY DEF IdsDistinct
    <3>1. CASE i \in DOMAIN observers /\ j \in DOMAIN observers
      BY <3>1, <2>3 DEF Inv, MapInv, IdsDistinct
    <3>2. CASE i \notin DOMAIN observers \/ j \notin DOMAIN observers
      BY <3>2, <2>2, <2>3, <1>1, <1>2
    <3> QED
      BY <3>1, <3>2
  <2>7. ASSUME NEW n \in DOMAIN frames
        PROVE  /\ frames[n].todo \in Seq(Nat \ {0})
               /\ \A j \in DOMAIN frames[n].todo : frames[n].todo[j] # id
               /\ \A j \in DOMAIN frames'[n].todo :
                    \/ j \in DOMAIN frames[n].todo /\ frames'[n].todo[j] = frames[n].todo[j]
                    \/ j = Len(frames[n].todo) + 1 /\ frames'[n].todo[j] = id
    <3>1. frames[n] \in Frame
      BY <1>1
    <3>2. frames[n].todo \in Seq(Nat \ {0})
      BY <3>1 DEF Frame
    <3>3. \A j \in DOMAIN frames[n].todo : frames[n].todo[j] # id
      BY <2>2 DEF Inv, MapInv, TodoRegistered
    <3>4. \A j \in DOMAIN Append(frames[n].todo, id) :
             \/ j \in DOMAIN frames[n].todo /\ Append(frames[n].todo, id)[j] = frames[n].todo[j]
             \/ j = Len(frames[n].todo) + 1 /\ Append(frames[n].todo, id)[j] = id
      BY <3>2, <1>2
    <3>5. CASE frames[n].attached
      <4>1. frames'[n].todo = Append(frames[n].todo, id)
        BY <3>5, <2>4
      <4> QED
        BY <3>2, <3>3, <3>4, <4>1
    <3>6. CASE ~frames[n].attached
      <4>1. frames'[n].todo = frames[n].todo
        BY <3>6, <2>4
      <4> QED
        BY <3>2, <3>3, <4>1
    <3> QED
      BY <3>5, <3>6
  <2>8. TodoRegistered'
    <3> SUFFICES ASSUME NEW n \in DOMAIN frames, NEW j \in DOMAIN frames'[n].todo
                 PROVE  \E i \in DOMAIN observers' : observers'[i].id = frames'[n].todo[j]
      BY <2>5 DEF TodoRegistered
    <3>1. CASE frames'[n].todo[j] = id
      <4>1. Len(observers) + 1 \in DOMAIN observers'
        BY <2>3, <1>1
      <4> QED
        BY <4>1, <3>1, <2>3, <1>2
    <3>2. CASE frames'[n].todo[j] # id
      <4>1. j \in DOMAIN frames[n].todo /\ frames'[n].todo[j] = frames[n].todo[j]
        BY <3>2, <2>7
      <4>2. PICK i \in DOMAIN observers : observers[i].id = frames[n].todo[j]
        BY <4>1 DEF Inv, MapInv, TodoRegistered
      <4> QED
        BY <4>1, <4>2, <2>3
    <3> QED
      BY <3>1, <3>2
  <2>9. TodoDistinct'
    <3> SUFFICES ASSUME NEW n \in DOMAIN frames, NEW i \in DOMAIN frames'[n].todo,
                        NEW j \in DOMAIN frames'[n].todo,
                        frames'[n].todo[i] = frames'[n].todo[j]
                 PROVE  i = j
      BY <2>5 DEF TodoDistinct
    <3>1. \A x, y \in DOMAIN frames[n].todo : frames[n].todo[x] = frames[n].todo[y] => x = y
      BY DEF Inv, MapInv, TodoDistinct
    <3> QED
      BY <3>1, <2>7
  <2>10. TypeOK'
    BY <2>3, <2>5, <1>1, <1>3, <1>4 DEF TypeOK
  <2>11. OwnUpdateNotOvertaken' /\ OwnIsInnermost' /\ (MirrorsRuntime => MirrorsRuntime')
    BY <2>4, <2>5, <1>3, SameUpdates
  <2> QED
    BY <2>6, <2>8, <2>9, <2>10, <2>11, <1>5 DEF Inv, MapInv
<1> QED
  BY <1>6, <1>7

LEMMA UnobservePreservesInv ==
  ASSUME Inv, NEW c \in Callback, UnobservePointer(c)
  PROVE  Inv' /\ (MirrorsRuntime => MirrorsRuntime')
<1> DEFINE id == handle[c]
           gone == {k \in DOMAIN observers : observers[k].id = id}
           left == DeleteAt(observers, gone)
           dissolved == observers # <<>> /\ left = <<>>
           ahead(n) == frames[n].todo
           skipped(n) == {k \in DOMAIN ahead(n) : ahead(n)[k] = id}
<1>1. TypeOK /\ observers \in Seq(Observer) /\ frames \in Seq(Frame)
      /\ Len(frames) \in Nat /\ DOMAIN frames = 1 .. Len(frames)
  BY DEF Inv, TypeOK
<1>2. /\ observers' = left
      /\ relay' = IF dissolved /\ RuntimeObserverId # 0 THEN FALSE ELSE relay
      /\ frames' = [n \in DOMAIN frames |->
                      [frames[n] EXCEPT !.todo = DeleteAt(@, {k \in DOMAIN @ : @[k] = id}),
                                        !.attached = @ /\ ~dissolved]]
      /\ returned' = dissolved
      /\ handle' = [handle EXCEPT ![c] = 0]
      /\ UNCHANGED <<runtimeValue, jsValue>>
  BY DEF UnobservePointer, Withdraw, Left, Dissolves
<1>3. /\ left \in Seq(Observer)
      /\ \E m \in [DOMAIN left -> DOMAIN observers \ gone] :
           /\ \A i \in DOMAIN left : left[i] = observers[m[i]]
           /\ \A i, j \in DOMAIN left : m[i] = m[j] => i = j
           /\ \A j \in DOMAIN observers \ gone : \E i \in DOMAIN left : m[i] = j
  <2>1. \A x, y \in gone : x = y
    BY DEF Inv, MapInv, IdsDistinct
  <2>2. gone \in SUBSET DOMAIN observers
    OBVIOUS
  <2>3. observers \in Seq(Observer)
    BY <1>1
  <2> HIDE DEF gone
  <2>4. left \in Seq(Observer)
    BY <2>1, <2>2, <2>3, DeleteAtPositions
  <2>5. \E m \in [DOMAIN left -> DOMAIN observers \ gone] :
           /\ \A i \in DOMAIN left : left[i] = observers[m[i]]
           /\ \A i, j \in DOMAIN left : m[i] = m[j] => i = j
           /\ \A j \in DOMAIN observers \ gone : \E i \in DOMAIN left : m[i] = j
    BY <2>1, <2>2, <2>3, DeleteAtPositions, SMTT(30)
  <2> QED
    BY <2>4, <2>5
<1>4. \A j \in DOMAIN observers : observers[j].id # id =>
         \E i \in DOMAIN left : left[i] = observers[j]
  <2> HIDE DEF left
  <2> QED
    BY <1>3
<1>5. \A i \in DOMAIN left : left[i].id # id
  <2> HIDE DEF left
  <2> QED
    BY <1>3
<1>6. IdsDistinct'
  <2>1. \A i, j \in DOMAIN observers : observers[i].id = observers[j].id => i = j
    BY DEF Inv, MapInv, IdsDistinct
  <2> HIDE DEF left
  <2>2. \A i, j \in DOMAIN left : left[i].id = left[j].id => i = j
    BY <1>3, <2>1
  <2> QED
    BY <1>2, <2>2 DEF IdsDistinct
<1>7. ASSUME NEW n \in DOMAIN frames
      PROVE  /\ frames'[n] \in Frame
             /\ frames'[n].own = frames[n].own
             /\ frames'[n].value = frames[n].value
             /\ frames'[n].todo \in Seq(Nat \ {0})
             /\ \E m \in [DOMAIN frames'[n].todo -> DOMAIN ahead(n) \ skipped(n)] :
                  /\ \A i \in DOMAIN frames'[n].todo : frames'[n].todo[i] = ahead(n)[m[i]]
                  /\ \A i, j \in DOMAIN frames'[n].todo : m[i] = m[j] => i = j
  <2> DEFINE rest == DeleteAt(ahead(n), skipped(n))
             attached == frames[n].attached /\ ~dissolved
  <2>1. frames[n] \in Frame
    BY <1>1
  <2>2. ahead(n) \in Seq(Nat \ {0})
    BY <2>1 DEF Frame
  <2>3. \A x, y \in skipped(n) : x = y
    BY DEF Inv, MapInv, TodoDistinct
  <2>4. skipped(n) \in SUBSET DOMAIN ahead(n)
    OBVIOUS
  <2>5. /\ rest \in Seq(Nat \ {0})
        /\ \E m \in [DOMAIN rest -> DOMAIN ahead(n) \ skipped(n)] :
             /\ \A i \in DOMAIN rest : rest[i] = ahead(n)[m[i]]
             /\ \A i, j \in DOMAIN rest : m[i] = m[j] => i = j
    <3> HIDE DEF ahead, skipped
    <3> QED
      BY <2>2, <2>3, <2>4, DeleteAtPositions, SMTT(30)
  <2>6. frames'[n] = [frames[n] EXCEPT !.todo = rest, !.attached = attached]
    BY <1>2
  <2>7. attached \in BOOLEAN
    OBVIOUS
  <2> HIDE DEF rest, attached
  <2>8. frames'[n] \in Frame /\ frames'[n].own = frames[n].own
        /\ frames'[n].value = frames[n].value /\ frames'[n].todo = rest
    BY <2>1, <2>5, <2>6, <2>7 DEF Frame
  <2> HIDE DEF ahead, skipped
  <2> QED
    BY <2>5, <2>8
<1>8. DOMAIN frames' = DOMAIN frames
  BY <1>2
<1>9. frames' \in Seq(Frame)
  <2>1. frames' = [n \in 1 .. Len(frames) |-> frames'[n]]
    BY <1>1, <1>2
  <2>2. \A n \in 1 .. Len(frames) : frames'[n] \in Frame
    BY <1>1, <1>7
  <2> QED
    BY <2>1, <2>2, <1>1
<1>10. TodoRegistered'
  <2> SUFFICES ASSUME NEW n \in DOMAIN frames, NEW j \in DOMAIN frames'[n].todo
               PROVE  \E i \in DOMAIN left : left[i].id = frames'[n].todo[j]
    <3> HIDE DEF left
    <3>1. observers' = left /\ DOMAIN frames' = DOMAIN frames
      BY <1>2, <1>8
    <3> QED
      BY <3>1 DEF TodoRegistered
  <2>1. PICK k \in DOMAIN ahead(n) : ahead(n)[k] # id /\ frames'[n].todo[j] = ahead(n)[k]
    BY <1>7
  <2>2. PICK o \in DOMAIN observers : observers[o].id = ahead(n)[k]
    BY DEF Inv, MapInv, TodoRegistered
  <2>3. PICK i \in DOMAIN left : left[i] = observers[o]
    BY <1>4, <2>1, <2>2
  <2> QED
    BY <2>1, <2>2, <2>3
<1>11. TodoDistinct'
  <2> SUFFICES ASSUME NEW n \in DOMAIN frames, NEW i \in DOMAIN frames'[n].todo,
                      NEW j \in DOMAIN frames'[n].todo,
                      frames'[n].todo[i] = frames'[n].todo[j]
               PROVE  i = j
    BY <1>8 DEF TodoDistinct
  <2>1. \A x, y \in DOMAIN ahead(n) : ahead(n)[x] = ahead(n)[y] => x = y
    BY DEF Inv, MapInv, TodoDistinct
  <2> HIDE DEF ahead
  <2> QED
    BY <1>7, <2>1
<1>12. TypeOK'
  <2>1. relay \in BOOLEAN /\ dissolved \in BOOLEAN /\ handle \in [Callback -> Nat]
    BY <1>1 DEF TypeOK
  <2> HIDE DEF dissolved, left
  <2>2. relay' \in BOOLEAN /\ returned' \in BOOLEAN
    BY <1>2, <2>1
  <2>3. handle' \in [Callback -> Nat] /\ observers' \in Seq(Observer)
        /\ runtimeValue' \in Value /\ jsValue' \in Value
    BY <1>1, <1>2, <1>3, <2>1 DEF TypeOK
  <2> QED
    BY <2>2, <2>3, <1>9 DEF TypeOK
<1>13. RelayWhileObserved'
  <2>1. left # <<>> => observers # <<>>
    <3>1. CASE observers = <<>>
      <4>1. gone = {}
        BY <3>1
      <4> QED
        BY <3>1, <4>1 DEF DeleteAt
    <3> QED
      BY <3>1
  <2> QED
    BY <1>2, <2>1 DEF Inv, RelayWhileObserved
<1>14. OwnUpdateNotOvertaken' /\ OwnIsInnermost' /\ (MirrorsRuntime => MirrorsRuntime')
  BY <1>2, <1>7, <1>8, <1>9, SameUpdates
<1> QED
  BY <1>6, <1>10, <1>11, <1>12, <1>13, <1>14 DEF Inv, MapInv

-----------------------------------------------------------------------------
(* What follows for every behaviour.                                       *)

\* The invariant is inductive, and every step keeps Ref and runtime together.
LEMMA NextPreservesInv ==
  ASSUME Inv, [Next]_vars
  PROVE  /\ Inv'
         /\ MirrorsRuntime => MirrorsRuntime'
<1> DEFINE Goal == Inv' /\ (MirrorsRuntime => MirrorsRuntime')
<1>1. ASSUME NEW v \in Value, SetValue(v) PROVE Goal
  BY <1>1, SetValuePreservesInv
<1>2. ASSUME NEW v \in Value, RemoteUpdate(v) PROVE Goal
  BY <1>2, RemoteUpdatePreservesInv
<1>3. ASSUME NEW v \in Value, RemoteUpdateFails(v) PROVE Goal
  BY <1>3, RemoteUpdateFailsPreservesInv
<1>4. CASE CallNext
  BY <1>4, CallNextPreservesInv
<1>5. CASE CallbackReturns
  BY <1>5, CallbackReturnsPreservesInv
<1>6. CASE EndUpdate
  BY <1>6, EndUpdatePreservesInv
<1>7. ASSUME NEW c \in Callback, ObservePointer(c) PROVE Goal
  BY <1>7, ObservePreservesInv
<1>8. ASSUME NEW c \in Callback, UnobservePointer(c) PROVE Goal
  BY <1>8, UnobservePreservesInv
<1>9. CASE UNCHANGED vars
  <2>1. Inv'
    BY <1>9 DEF vars, Inv, TypeOK, MapInv, IdsDistinct, TodoRegistered, TodoDistinct,
                RelayWhileObserved, OwnUpdateNotOvertaken, OwnIsInnermost
  <2>2. MirrorsRuntime => MirrorsRuntime'
    BY <1>9 DEF vars, MirrorsRuntime, HandleBusy
  <2> QED
    BY <2>1, <2>2
<1> QED
  BY <1>1, <1>2, <1>3, <1>4, <1>5, <1>6, <1>7, <1>8, <1>9 DEF Next

\* The inductive invariant holds in every reachable state.
THEOREM Invariance == Spec => []Inv
<1>1. Init => Inv
  BY InitEstablishesInv
<1>2. Inv /\ [Next]_vars => Inv'
  BY NextPreservesInv
<1> QED
  BY <1>1, <1>2, PTL DEF Spec

\* Every loop over the observers finds a callback under each id it reaches, and the
\* state stays well typed, whatever is registered and withdrawn meanwhile.
THEOREM TypeCorrect == Spec => []TypeOK
<1>1. Inv => TypeOK
  BY DEF Inv
<1> QED
  BY <1>1, Invariance, PTL

\* No order of registering and withdrawing leaves an observer behind to which the
\* runtime does not relay the Ref's own updates.
THEOREM ObserversAreRelayed == Spec => []RelayWhileObserved
<1>1. Inv => RelayWhileObserved
  BY DEF Inv
<1> QED
  BY <1>1, Invariance, PTL

\* A setter in progress is not overtaken, whatever its observers do.
THEOREM SettersAreNotOvertaken == Spec => []OwnUpdateNotOvertaken
<1>1. Inv => OwnUpdateNotOvertaken
  BY DEF Inv
<1> QED
  BY <1>1, Invariance, PTL

\* Ref and runtime agree whenever no setter is half way and the runtime's value is
\* one that could be resolved.
THEOREM RefMirrorsRuntime == Spec => []MirrorsRuntime
<1>1. Init => MirrorsRuntime
  BY InitEstablishesInv
<1>2. Inv /\ MirrorsRuntime /\ [Next]_vars => MirrorsRuntime'
  BY NextPreservesInv
<1> QED
  BY <1>1, <1>2, Invariance, PTL DEF Spec

-----------------------------------------------------------------------------
(* Who is called.                                                          *)

\* The callback of every observer in the Map has the observer's id for its handle.  The
\* converse fails: where ids collide a callback keeps the handle of an observer that
\* another one has replaced.
HandlesMatch ==
  \A i \in DOMAIN observers : handle[observers[i].callback] = observers[i].id

LEMMA ObserverParts ==
  ASSUME Inv
  PROVE  \A i \in DOMAIN observers :
           observers[i].id \in Nat \ {0} /\ observers[i].callback \in Callback
<1>1. \A i \in DOMAIN observers : observers[i] \in Observer
  BY DEF Inv, TypeOK
<1> QED
  BY <1>1 DEF Observer

LEMMA ObserveKeepsHandles ==
  ASSUME Inv, HandlesMatch, NEW c \in Callback, ObservePointer(c)
  PROVE  HandlesMatch'
<1> DEFINE id == Len(observers) + 1
           taken == \E i \in DOMAIN observers : observers[i].id = id
           new == [id |-> id, callback |-> c]
<1>1. /\ observers \in Seq(Observer) /\ handle \in [Callback -> Nat]
      /\ Len(observers) \in Nat /\ DOMAIN observers = 1 .. Len(observers)
  BY DEF Inv, TypeOK
<1>2. /\ handle[c] = 0 /\ handle' = [handle EXCEPT ![c] = id]
      /\ handle'[c] = id /\ \A d \in Callback : d # c => handle'[d] = handle[d]
  BY <1>1 DEF ObservePointer, Enter
<1>3. ASSUME NEW i \in DOMAIN observers
      PROVE  /\ observers[i].callback \in Callback \ {c}
             /\ handle'[observers[i].callback] = observers[i].id
  <2>1. observers[i].id \in Nat \ {0} /\ observers[i].callback \in Callback
    BY ObserverParts
  <2>2. observers[i].callback # c
    BY <1>2, <2>1 DEF HandlesMatch
  <2> QED
    BY <1>2, <2>1, <2>2 DEF HandlesMatch
<1>4. new.id = id /\ new.callback = c
  OBVIOUS
<1>5. CASE taken
  <2>1. observers' = [i \in DOMAIN observers |->
                        IF observers[i].id = id THEN new ELSE observers[i]]
    BY <1>5 DEF ObservePointer, Enter
  <2> HIDE DEF new, id
  <2> QED
    BY <1>2, <1>3, <1>4, <2>1 DEF HandlesMatch
<1>6. CASE ~taken
  <2>1. observers' = Append(observers, new)
    BY <1>6 DEF ObservePointer, Enter
  <2>2. new \in Observer
    BY <1>1 DEF Observer
  <2> HIDE DEF new
  <2>3. /\ DOMAIN observers' = 1 .. Len(observers) + 1
        /\ observers'[Len(observers) + 1] = new
        /\ \A i \in DOMAIN observers : observers'[i] = observers[i]
    BY <1>1, <2>1, <2>2
  <2>4. \A i \in DOMAIN observers' : i \in DOMAIN observers \/ i = Len(observers) + 1
    BY <1>1, <2>3
  <2> HIDE DEF id
  <2> QED
    BY <1>2, <1>3, <1>4, <2>3, <2>4 DEF HandlesMatch
<1> QED
  BY <1>5, <1>6

LEMMA UnobserveKeepsHandles ==
  ASSUME Inv, HandlesMatch, NEW c \in Callback, UnobservePointer(c)
  PROVE  HandlesMatch'
<1> DEFINE id == handle[c]
           gone == {k \in DOMAIN observers : observers[k].id = id}
           left == DeleteAt(observers, gone)
<1>1. observers \in Seq(Observer) /\ handle \in [Callback -> Nat]
  BY DEF Inv, TypeOK
<1>2. observers' = left /\ handle' = [handle EXCEPT ![c] = 0]
  BY DEF UnobservePointer, Withdraw, Left
<1>3. \A i \in DOMAIN left : \E k \in DOMAIN observers : left[i] = observers[k] /\ observers[k].id # id
  <2>1. \A x, y \in gone : x = y
    BY DEF Inv, MapInv, IdsDistinct
  <2>2. gone \in SUBSET DOMAIN observers
    OBVIOUS
  <2>3. \A k \in DOMAIN observers \ gone : observers[k].id # id
    OBVIOUS
  <2> HIDE DEF gone
  <2>4. PICK m \in [DOMAIN left -> DOMAIN observers \ gone] :
          \A i \in DOMAIN left : left[i] = observers[m[i]]
    BY <1>1, <2>1, <2>2, DeleteAtPositions, SMTT(30)
  <2> HIDE DEF left
  <2>5. \A i \in DOMAIN left : m[i] \in DOMAIN observers /\ observers[m[i]].id # id
    BY <2>3, <2>4
  <2> QED
    BY <2>4, <2>5, Zenon
<1> HIDE DEF left
<1>4. ASSUME NEW i \in DOMAIN left PROVE handle'[left[i].callback] = left[i].id
  <2>1. PICK k \in DOMAIN observers : left[i] = observers[k] /\ observers[k].id # id
    BY <1>3
  <2>2. observers[k].callback # c /\ handle[observers[k].callback] = observers[k].id
    BY <2>1 DEF HandlesMatch
  <2>3. observers[k].callback \in Callback
    BY ObserverParts, Zenon
  <2> QED
    BY <1>1, <1>2, <2>1, <2>2, <2>3
<1> QED
  BY <1>2, <1>4 DEF HandlesMatch

LEMMA HandlesInvariance == Spec => []HandlesMatch
<1>1. Init => HandlesMatch
  BY DEF Init, HandlesMatch
<1>2. Inv /\ HandlesMatch /\ [Next]_vars => HandlesMatch'
  <2> SUFFICES ASSUME Inv, HandlesMatch, [Next]_vars PROVE HandlesMatch'
    OBVIOUS
  <2>1. CASE UNCHANGED <<observers, handle>>
    BY <2>1 DEF HandlesMatch
  <2>2. ASSUME NEW v \in Value, SetValue(v) \/ RemoteUpdate(v) \/ RemoteUpdateFails(v)
        PROVE  HandlesMatch'
    BY <2>1, <2>2 DEF SetValue, RemoteUpdate, RemoteUpdateFails
  <2>3. CASE CallNext \/ CallbackReturns \/ EndUpdate \/ UNCHANGED vars
    BY <2>1, <2>3 DEF CallNext, CallbackReturns, EndUpdate, vars
  <2> QED
    BY <2>2, <2>3, ObserveKeepsHandles, UnobserveKeepsHandles DEF Next
<1> QED
  BY <1>1, <1>2, Invariance, PTL DEF Spec

\* No callback is called that was withdrawn before its turn in the loop, in whatever
\* order observers come and go: a loop finds under every id ahead of it an observer
\* whose callback is registered (src/dif/dif-handler.ts:303, 316, 762).
THEOREM CalledAreRegistered == Spec => []DueAreRegistered
<1>1. Inv /\ HandlesMatch => DueAreRegistered
  <2> SUFFICES ASSUME Inv, HandlesMatch, NEW n \in DOMAIN frames, NEW j \in DOMAIN frames[n].todo
               PROVE  handle[CallbackAt(frames[n].todo[j])] # 0
    BY DEF DueAreRegistered
  <2> DEFINE id == frames[n].todo[j]
             registered == {observers[k] : k \in DOMAIN observers}
             found == CHOOSE o \in registered : o.id = id
  <2>5. CallbackAt(id) = found.callback
    BY DEF CallbackAt
  <2>1. \E o \in registered : o.id = id
    BY DEF Inv, MapInv, TodoRegistered
  <2>2. found \in registered
    BY <2>1
  <2>3. PICK k \in DOMAIN observers : found = observers[k]
    BY <2>2
  <2>4. observers[k].id \in Nat \ {0}
    BY ObserverParts, Zenon
  <2> HIDE DEF found, id
  <2>6. handle[CallbackAt(id)] # 0
    BY <2>3, <2>4, <2>5 DEF HandlesMatch
  <2> QED
    BY <2>6 DEF id
<1> QED
  BY <1>1, Invariance, HandlesInvariance, PTL
=============================================================================
