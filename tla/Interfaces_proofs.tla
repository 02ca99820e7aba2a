------------------------- MODULE Interfaces_proofs -------------------------
(***************************************************************************)
(* Type correctness of Interfaces, that a send under way keeps its socket, *)
(* and that requests of a server find its interface free.  What excludes   *)
(* everything else is the exclusive borrow, so the inductive invariant     *)
(* says who may hold an interface together; of a server it says that its   *)
(* calls hold nothing until its cleanup is over.                           *)
(***************************************************************************)
EXTENDS Interfaces, TLAPS

Holds(c, borrows) == calls[c] # NoCall /\ calls[c].borrow \in borrows

\* Whoever holds an interface exclusively holds it alone.
ExclusiveAlone ==
  \A c, d \in Call :
    Holds(c, {"exclusive"}) /\ Holds(d, {"shared", "exclusive"})
      /\ calls[c].interface = calls[d].interface => c = d

\* A removal under way holds the interface exclusively.
RemovalHolds ==
  \A c \in Call : Called(c, {"close"}) /\ calls[c].at = "pending" => Holds(c, {"exclusive"})

\* A call that has not started holds nothing.
IssuedHoldsNothing ==
  \A c \in Call : calls[c] # NoCall /\ calls[c].at \in {"cleaning", "issued"} =>
    calls[c].borrow = "none"

\* Only a base interface keeps a send waiting.
SendsHoldBase ==
  \A c \in Call : Called(c, {"sendBlock", "testSendBlock"}) /\ calls[c].borrow = "exclusive" =>
    calls[c].interface \in Base

Inv ==
  /\ TypeOK
  /\ PendingSendKeepsSocket
  /\ ExclusiveAlone
  /\ RemovalHolds
  /\ IssuedHoldsNothing
  /\ SendsHoldBase

-----------------------------------------------------------------------------
\* What Borrowed and Locked say of a single call.
LEMMA BorrowedHolds ==
  ASSUME NEW i \in Interface, NEW c \in Call, calls[c] # NoCall, calls[c].interface = i
  PROVE  /\ ~Borrowed(i) => ~Holds(c, {"shared", "exclusive"})
         /\ ~Locked(i) => ~Holds(c, {"exclusive"})
BY DEF Borrowed, Locked, Holders, Holds

\* The initial states satisfy the invariant.
LEMMA InitInv == Init => Inv
BY DEF Init, Inv, TypeOK, PendingSendKeepsSocket, ExclusiveAlone, RemovalHolds,
       IssuedHoldsNothing, SendsHoldBase, Stage, Holds, Called

-----------------------------------------------------------------------------
(* Steps.                                                                  *)

\* What the new state of a call has to satisfy, given the other calls.
Fits(c, v) ==
  v # NoCall =>
    /\ v.borrow = "exclusive" /\ v.kind \in {"sendBlock", "testSendBlock"} =>
         /\ v.interface \in hub /\ v.socket \in sockets[v.interface]
         /\ v.interface \in Base
    /\ v.borrow = "exclusive" => \A d \in Call \ {c} :
         Holds(d, {"shared", "exclusive"}) => calls[d].interface # v.interface
    /\ v.borrow = "shared" => \A d \in Call \ {c} :
         Holds(d, {"exclusive"}) => calls[d].interface # v.interface
    /\ v.kind = "close" /\ v.at = "pending" => v.borrow = "exclusive"
    /\ v.at \in {"cleaning", "issued"} => v.borrow = "none"

\* A step that changes one call to a state that fits preserves the invariant.
LEMMA OneCallChanges ==
  ASSUME Inv, NEW c \in Call, NEW v \in CallState \cup {NoCall}, Fits(c, v),
         calls' = [calls EXCEPT ![c] = v],
         UNCHANGED <<stage, hub, sockets, sender, handle>>, listening' \subseteq listening
  PROVE  Inv'
<1>1. TypeOK'
  BY DEF Inv, TypeOK
<1>2. \A d \in Call : calls'[d] = IF d = c THEN v ELSE calls[d]
  BY DEF Inv, TypeOK
<1>3. PendingSendKeepsSocket'
  BY <1>2 DEF Inv, PendingSendKeepsSocket, Called, Fits
<1>4. ExclusiveAlone'
  <2> SUFFICES ASSUME NEW d \in Call, NEW e \in Call,
                      Holds(d, {"exclusive"})', Holds(e, {"shared", "exclusive"})',
                      calls'[d].interface = calls'[e].interface
               PROVE  d = e
    BY DEF ExclusiveAlone
  <2>1. CASE d # c /\ e # c
    BY <2>1, <1>2 DEF Inv, ExclusiveAlone, Holds
  <2>2. CASE d = c /\ e # c
    BY <2>2, <1>2 DEF Fits, Holds
  <2>3. CASE d # c /\ e = c
    BY <2>3, <1>2 DEF Fits, Holds
  <2> QED
    BY <2>1, <2>2, <2>3
<1>5. RemovalHolds'
  BY <1>2 DEF Inv, RemovalHolds, Called, Holds, Fits
<1>6. IssuedHoldsNothing'
  BY <1>2 DEF Inv, IssuedHoldsNothing, Fits
<1>7. SendsHoldBase'
  BY <1>2 DEF Inv, SendsHoldBase, Called, Fits
<1> QED
  BY <1>1, <1>3, <1>4, <1>5, <1>6, <1>7 DEF Inv

\* A step that changes no call and takes from no held interface its place in the hub
\* or a socket preserves the invariant if it preserves the types.
LEMMA NoCallChanges ==
  ASSUME Inv, TypeOK', UNCHANGED calls,
         \A i \in Interface : Borrowed(i) =>
           /\ i \in hub => i \in hub'
           /\ sockets[i] \subseteq sockets'[i]
  PROVE  Inv'
<1>1. PendingSendKeepsSocket'
  <2> SUFFICES ASSUME NEW c \in Call, Called(c, {"sendBlock", "testSendBlock"}),
                      calls[c].borrow = "exclusive"
               PROVE  /\ calls[c].interface \in hub'
                      /\ calls[c].socket \in sockets'[calls[c].interface]
    BY DEF PendingSendKeepsSocket, Called
  <2>1. calls[c] # NoCall
    BY DEF Called
  <2>2. calls[c].interface \in Interface
    BY <2>1 DEF Inv, TypeOK, CallState
  <2>3. Borrowed(calls[c].interface)
    BY <2>1, <2>2 DEF Borrowed, Holders
  <2> QED
    BY <2>2, <2>3 DEF Inv, PendingSendKeepsSocket
<1>2. ExclusiveAlone' /\ RemovalHolds' /\ IssuedHoldsNothing' /\ SendsHoldBase'
  BY DEF Inv, ExclusiveAlone, RemovalHolds, IssuedHoldsNothing, SendsHoldBase, Holds, Called
<1> QED
  BY <1>1, <1>2 DEF Inv

\* Every step of createInterface preserves the invariant.
LEMMA CreationStep ==
  ASSUME Inv, NEW i \in Interface, Creation(i)
  PROVE  Inv'
<1>1. TypeOK'
  <2> USE DEF Inv, TypeOK, Stage, Advance
  <2>1. CASE CreateInterface(i)
    BY <2>1 DEF CreateInterface
  <2>2. CASE CreationFails(i)
    BY <2>2 DEF CreationFails
  <2>3. CASE InterfaceCreated(i)
    BY <2>3 DEF InterfaceCreated
  <2>4. CASE InitSucceeds(i)
    BY <2>4 DEF InitSucceeds
  <2>5. CASE InitFails(i)
    BY <2>5 DEF InitFails
  <2> QED
    BY <2>1, <2>2, <2>3, <2>4, <2>5 DEF Creation
<1>2. hub \subseteq hub' /\ UNCHANGED <<calls, sockets>>
  BY DEF Creation, Advance, CreateInterface, CreationFails, InterfaceCreated,
         InitSucceeds, InitFails
<1> QED
  BY <1>1, <1>2, NoCallChanges

\* Calling a method that returns a promise preserves the invariant.
LEMMA IssueStep ==
  ASSUME Inv, NEW c \in Call, NEW i \in Interface,
         NEW kind \in {"sendBlock", "testSendBlock", "close", "signal"},
         NEW at \in {"cleaning", "issued"}, NEW s \in Socket \cup {NoSocket},
         Issue(c, kind, at, i, s)
  PROVE  Inv'
<1> DEFINE v == [kind |-> kind, at |-> at, interface |-> i, socket |-> s, borrow |-> "none"]
<1>1. v \in CallState
  BY DEF CallState
<1>2. Fits(c, v)
  BY DEF Fits
<1>3. calls' = [calls EXCEPT ![c] = v] /\ UNCHANGED <<stage, hub, sockets, sender, handle, listening>>
  BY DEF Issue
<1> QED
  BY <1>1, <1>2, <1>3, OneCallChanges

\* A call that ends, or panics before it holds anything, preserves the invariant.
LEMMA EndStep ==
  ASSUME Inv, NEW c \in Call, calls[c] # NoCall,
         \/ Settle(c)
         \/ calls[c].at = "issued" /\ Dies(c),
         UNCHANGED <<stage, hub, sockets, sender, handle, listening>>
  PROVE  Inv'
<1>1. CASE Settle(c)
  <2>1. Fits(c, NoCall)
    BY DEF Fits
  <2> QED
    BY <1>1, <2>1, OneCallChanges DEF Settle
<1>2. CASE calls[c].at = "issued" /\ Dies(c)
  <2> DEFINE v == [calls[c] EXCEPT !.at = "dead"]
  <2>1. calls[c] \in CallState /\ calls[c].borrow = "none"
    BY <1>2 DEF Inv, TypeOK, IssuedHoldsNothing
  <2>2. v \in CallState /\ v.at = "dead" /\ v.borrow = "none"
    BY <2>1 DEF CallState
  <2>3. Fits(c, v)
    BY <2>2 DEF Fits
  <2>4. calls' = [calls EXCEPT ![c] = v]
    BY <1>2 DEF Dies
  <2> QED
    BY <2>2, <2>3, <2>4, OneCallChanges
<1> QED
  BY <1>1, <1>2

\* A call that takes a borrow it is granted preserves the invariant.
LEMMA BorrowStep ==
  ASSUME Inv, NEW c \in Call, calls[c] # NoCall,
         NEW at \in {"pending", "dead"}, NEW borrow \in {"shared", "exclusive"},
         calls' = [calls EXCEPT ![c].at = at, ![c].borrow = borrow],
         IF borrow = "shared" THEN ~Locked(calls[c].interface)
                              ELSE ~Borrowed(calls[c].interface),
         calls[c].kind = "close" => borrow = "exclusive",
         calls[c].kind \in {"sendBlock", "testSendBlock"} =>
           /\ calls[c].interface \in hub \cap Base
           /\ calls[c].socket \in sockets[calls[c].interface],
         UNCHANGED <<stage, hub, sockets, sender, handle, listening>>
  PROVE  Inv'
<1> DEFINE v == [calls[c] EXCEPT !.at = at, !.borrow = borrow]
<1>1. calls[c] \in CallState
  BY DEF Inv, TypeOK
<1>2. v \in CallState /\ v.at = at /\ v.borrow = borrow /\ v.kind = calls[c].kind
      /\ v.interface = calls[c].interface /\ v.socket = calls[c].socket
  BY <1>1 DEF CallState
<1>3. calls[c].interface \in Interface
  BY <1>1 DEF CallState
<1>4. Fits(c, v)
  BY <1>2, <1>3 DEF Fits, Borrowed, Locked, Holders, Holds
<1>5. calls' = [calls EXCEPT ![c] = v]
  BY DEF Inv, TypeOK
<1> QED
  BY <1>2, <1>4, <1>5, OneCallChanges

\* Every later step of a call preserves the invariant.
LEMMA ContinuationStep ==
  ASSUME Inv, NEW c \in Call, Continuation(c)
  PROVE  Inv'
<1>1. CASE CleanupSucceeds(c)
  <2> DEFINE v == [calls[c] EXCEPT !.at = "issued"]
  <2>1. calls[c] \in CallState /\ calls[c].borrow = "none"
    BY <1>1 DEF CleanupSucceeds, Inv, TypeOK, IssuedHoldsNothing
  <2>2. v \in CallState /\ v.at = "issued" /\ v.borrow = "none"
    BY <2>1 DEF CallState
  <2>3. Fits(c, v)
    BY <2>2 DEF Fits
  <2> QED
    BY <1>1, <2>2, <2>3, OneCallChanges DEF CleanupSucceeds
<1>2. CASE CleanupFails(c)
  BY <1>2, EndStep DEF CleanupFails
<1>3. CASE BeginSend(c)
  <2>1. CASE Settle(c) \/ Dies(c)
    BY <1>3, <2>1, EndStep DEF BeginSend, Called
  <2>2. CASE ~(Settle(c) \/ Dies(c))
    <3>1. PICK at \in {"pending", "dead"} :
            calls' = [calls EXCEPT ![c].at = at, ![c].borrow = "exclusive"]
      BY <1>3, <2>2 DEF BeginSend, Pends
    <3>2. /\ ~Borrowed(calls[c].interface)
          /\ calls[c].interface \in hub \cap Base /\ calls[c].socket \in sockets[calls[c].interface]
          /\ calls[c] # NoCall /\ calls[c].kind # "close"
          /\ UNCHANGED <<stage, hub, sockets, sender, handle, listening>>
      BY <1>3, <2>2 DEF BeginSend, Called
    <3> QED
      BY <3>1, <3>2, BorrowStep
  <2> QED
    BY <2>1, <2>2
<1>4. CASE BeginClose(c)
  <2>1. CASE Settle(c) \/ Dies(c)
    BY <1>4, <2>1, EndStep DEF BeginClose, Called
  <2>2. CASE ~Borrowed(calls[c].interface) /\ Pends(c, "exclusive")
    BY <1>4, <2>2, BorrowStep DEF BeginClose, Called, Pends
  <2> QED
    BY <1>4, <2>1, <2>2 DEF BeginClose
<1>5. CASE BeginSignal(c)
  <2>1. CASE Settle(c) \/ Dies(c)
    BY <1>5, <2>1, EndStep DEF BeginSignal, Called
  <2>2. CASE ~Locked(calls[c].interface) /\ Pends(c, "shared")
    BY <1>5, <2>2, BorrowStep DEF BeginSignal, Called, Pends
  <2> QED
    BY <1>5, <2>1, <2>2 DEF BeginSignal
<1>6. CASE Answer(c)
  BY <1>6, EndStep DEF Answer, Called
<1>7. CASE Removed(c)
  <2> DEFINE i == calls[c].interface
  <2>1. calls[c] # NoCall /\ calls[c].kind = "close" /\ Holds(c, {"exclusive"})
    BY <1>7 DEF Removed, Called, Inv, RemovalHolds
  <2>2. TypeOK'
    BY <1>7 DEF Removed, Settle, Inv, TypeOK
  <2>3. \A d \in Call : calls'[d] = IF d = c THEN NoCall ELSE calls[d]
    BY <1>7 DEF Removed, Settle, Inv, TypeOK
  <2>4. PendingSendKeepsSocket'
    <3> SUFFICES ASSUME NEW d \in Call \ {c}, Called(d, {"sendBlock", "testSendBlock"}),
                        calls[d].borrow = "exclusive"
                 PROVE  /\ calls[d].interface \in hub'
                        /\ calls[d].socket \in sockets'[calls[d].interface]
      BY <2>3 DEF PendingSendKeepsSocket, Called
    <3>1. calls[d].interface # i
      BY <2>1 DEF Inv, ExclusiveAlone, Holds, Called
    <3>2. calls[d] \in CallState
      BY DEF Inv, TypeOK, Called
    <3>3. calls[d].interface \in Interface
      BY <3>2 DEF CallState
    <3> QED
      BY <1>7, <3>1, <3>3 DEF Removed, Inv, TypeOK, PendingSendKeepsSocket
  <2>5. ExclusiveAlone'
    BY <2>3 DEF Inv, ExclusiveAlone, Holds
  <2>6. RemovalHolds' /\ IssuedHoldsNothing' /\ SendsHoldBase'
    BY <2>3 DEF Inv, RemovalHolds, IssuedHoldsNothing, SendsHoldBase, Holds, Called
  <2> QED
    BY <2>2, <2>4, <2>5, <2>6 DEF Inv
<1> QED
  BY <1>1, <1>2, <1>3, <1>4, <1>5, <1>6, <1>7 DEF Continuation

\* The calls that return at once preserve the invariant.
LEMMA SynchronousStep ==
  ASSUME Inv, NEW i \in Interface,
         \/ OnSend(i) \/ OnSendPanics(i) \/ SynchronousCallPanics(i)
         \/ \E s \in Socket : \/ RegisterSocket(i, s) \/ DestroySocket(i, s)
                             \/ AddSocket(i, s) \/ SocketCloses(i, s)
  PROVE  Inv'
<1>1. CASE OnSend(i)
  <2>1. TypeOK'
    BY <1>1 DEF OnSend, Inv, TypeOK
  <2> QED
    BY <1>1, <2>1, NoCallChanges DEF OnSend
<1>2. CASE SynchronousCallPanics(i)
  <2>1. TypeOK'
    BY <1>2 DEF SynchronousCallPanics, Inv, TypeOK
  <2> QED
    BY <1>2, <2>1, NoCallChanges DEF SynchronousCallPanics
<1>3. CASE OnSendPanics(i)
  <2>1. TypeOK'
    BY <1>3 DEF OnSendPanics, Inv, TypeOK
  <2> QED
    BY <1>3, <2>1, NoCallChanges DEF OnSendPanics
<1>4. ASSUME NEW s \in Socket, RegisterSocket(i, s) PROVE Inv'
  <2>1. TypeOK'
    BY <1>4 DEF RegisterSocket, Inv, TypeOK
  <2>2. \A j \in Interface : sockets[j] \subseteq sockets'[j]
    BY <1>4 DEF RegisterSocket, Inv, TypeOK
  <2> QED
    BY <1>4, <2>1, <2>2, NoCallChanges DEF RegisterSocket
<1>5. ASSUME NEW s \in Socket, DestroySocket(i, s) PROVE Inv'
  <2>1. TypeOK'
    BY <1>5 DEF DestroySocket, Inv, TypeOK
  <2>2. \A j \in Interface : Borrowed(j) => sockets[j] \subseteq sockets'[j]
    BY <1>5 DEF DestroySocket, Inv, TypeOK
  <2> QED
    BY <1>5, <2>1, <2>2, NoCallChanges DEF DestroySocket
<1>6. ASSUME NEW s \in Socket, AddSocket(i, s) PROVE Inv'
  <2>1. TypeOK'
    BY <1>6 DEF AddSocket, Inv, TypeOK
  <2>2. \A j \in Interface : sockets[j] \subseteq sockets'[j]
    BY <1>6 DEF AddSocket, Inv, TypeOK
  <2> QED
    BY <1>6, <2>1, <2>2, NoCallChanges DEF AddSocket
<1>7. ASSUME NEW s \in Socket, SocketCloses(i, s) PROVE Inv'
  <2>1. TypeOK'
    BY <1>7 DEF SocketCloses, Inv, TypeOK
  <2>2. PendingSendKeepsSocket'
    <3> SUFFICES ASSUME NEW c \in Call, Called(c, {"sendBlock", "testSendBlock"}),
                        calls[c].borrow = "exclusive"
                 PROVE  /\ calls[c].interface \in hub
                        /\ calls[c].socket \in sockets'[calls[c].interface]
      BY <1>7 DEF SocketCloses, PendingSendKeepsSocket, Called
    <3>1. calls[c] \in CallState /\ calls[c].interface \in Base
      BY DEF Inv, TypeOK, SendsHoldBase, Called
    <3>2. calls[c].interface \in Interface /\ calls[c].interface # i
      BY <1>7, <3>1 DEF SocketCloses, Base
    <3> QED
      BY <1>7, <3>2 DEF SocketCloses, Inv, TypeOK, PendingSendKeepsSocket
  <2>3. ExclusiveAlone' /\ RemovalHolds' /\ IssuedHoldsNothing' /\ SendsHoldBase'
    BY <1>7 DEF SocketCloses, Inv, ExclusiveAlone, RemovalHolds, IssuedHoldsNothing,
                SendsHoldBase, Holds, Called
  <2> QED
    BY <2>1, <2>2, <2>3 DEF Inv
<1> QED
  BY <1>1, <1>2, <1>3, <1>4, <1>5, <1>6, <1>7

-----------------------------------------------------------------------------
\* The invariant is inductive.
LEMMA NextInv == Inv /\ [Next]_vars => Inv'
<1> SUFFICES ASSUME Inv, [Next]_vars PROVE Inv'
  OBVIOUS
<1>1. CASE UNCHANGED vars
  <2>1. TypeOK'
    BY <1>1 DEF Inv, TypeOK, vars
  <2> QED
    BY <1>1, <2>1, NoCallChanges DEF vars
<1>2. ASSUME NEW i \in Interface,
             Creation(i) \/ OnSend(i) \/ OnSendPanics(i) \/ SynchronousCallPanics(i)
      PROVE  Inv'
  BY <1>2, CreationStep, SynchronousStep
<1>3. ASSUME NEW i \in Interface, NEW s \in Socket,
             \/ RegisterSocket(i, s) \/ DestroySocket(i, s)
             \/ AddSocket(i, s) \/ SocketCloses(i, s)
      PROVE  Inv'
  BY <1>3, SynchronousStep
<1>4. ASSUME NEW c \in Call, NEW i \in Interface, NEW s \in Socket,
             SendBlock(c, i, s) \/ TestSendBlock(c, i, s)
      PROVE  Inv'
  BY <1>4, IssueStep DEF SendBlock, TestSendBlock
<1>5. ASSUME NEW c \in Call, NEW i \in Interface, Signal(c, i) \/ Close(c, i)
      PROVE  Inv'
  BY <1>5, IssueStep DEF Signal, Close
<1>6. ASSUME NEW c \in Call, Continuation(c) PROVE Inv'
  BY <1>6, ContinuationStep
<1> QED
  BY <1>1, <1>2, <1>3, <1>4, <1>5, <1>6 DEF Next

\* The invariant holds of every reachable state, for any interfaces, sockets and calls.
THEOREM Invariance == Spec => []Inv
BY InitInv, NextInv, PTL DEF Spec

\* Interfaces in the hub, sockets, callbacks and pending calls are well typed: sockets
\* and callbacks exist only for interfaces of the hub, and those only once created.
THEOREM TypeCorrect == Spec => []TypeOK
<1>1. Inv => TypeOK
  BY DEF Inv
<1> QED
  BY <1>1, Invariance, PTL

\* While an on_send callback works on a block, close_interface and destroySocket cannot
\* take its interface or its socket away, whatever calls overlap.
THEOREM SendsKeepSocket == Spec => []PendingSendKeepsSocket
<1>1. Inv => PendingSendKeepsSocket
  BY DEF Inv
<1> QED
  BY <1>1, Invariance, PTL

-----------------------------------------------------------------------------
(* Servers.                                                                *)

\* Calls are for interfaces whose creation is over, signalling for WebRTC only.
CallsFit ==
  \A c \in Call : calls[c] # NoCall =>
    /\ stage[calls[c].interface] = "owned"
    /\ calls[c].kind = "signal" => calls[c].interface \in WebRTC

InitialisingInHub == \A i \in Interface : stage[i] = "initialising" => i \in hub

\* What a call may be at while the interface's server listens.
Undisturbed(v) == v.borrow = "none" /\ (v.kind = "close" => v.at = "cleaning")

ListeningFree ==
  /\ listening \subseteq hub
  /\ \A c \in Call : calls[c] # NoCall /\ calls[c].interface \in listening =>
       Undisturbed(calls[c])

ServerInv == CallsFit /\ InitialisingInHub /\ ListeningFree

\* A step that changes one call, and not its kind or interface, preserves the invariant if
\* it is right by a server that listens.
LEMMA OneServerCallChanges ==
  ASSUME Inv, ServerInv, NEW c \in Call, NEW v \in CallState \cup {NoCall},
         calls' = [calls EXCEPT ![c] = v],
         v # NoCall => /\ stage[v.interface] = "owned"
                       /\ v.kind = "signal" => v.interface \in WebRTC
                       /\ v.interface \in listening' => Undisturbed(v),
         UNCHANGED <<stage, hub>>, listening' \subseteq listening
  PROVE  ServerInv'
<1>1. \A d \in Call : calls'[d] = IF d = c THEN v ELSE calls[d]
  BY DEF Inv, TypeOK
<1>2. CallsFit' /\ InitialisingInHub'
  BY <1>1 DEF ServerInv, CallsFit, InitialisingInHub
<1>3. ListeningFree'
  BY <1>1 DEF ServerInv, ListeningFree, Undisturbed
<1> QED
  BY <1>2, <1>3 DEF ServerInv

\* A call that has been made keeps its kind and its interface.
LEMMA SameCall ==
  ASSUME Inv, ServerInv, NEW c \in Call, calls[c] # NoCall,
         NEW at \in {"cleaning", "issued", "pending", "dead"},
         NEW borrow \in {"none", "shared", "exclusive"},
         calls' = [calls EXCEPT ![c].at = at, ![c].borrow = borrow],
         calls[c].interface \in listening' =>
           borrow = "none" /\ (calls[c].kind = "close" => at = "cleaning"),
         UNCHANGED <<stage, hub>>, listening' \subseteq listening
  PROVE  ServerInv'
<1> DEFINE v == [calls[c] EXCEPT !.at = at, !.borrow = borrow]
<1>1. calls[c] \in CallState
  BY DEF Inv, TypeOK
<1>2. v \in CallState /\ v.at = at /\ v.borrow = borrow /\ v.kind = calls[c].kind
      /\ v.interface = calls[c].interface
  BY <1>1 DEF CallState
<1>3. calls' = [calls EXCEPT ![c] = v]
  BY DEF Inv, TypeOK
<1>4. /\ stage[v.interface] = "owned"
      /\ v.kind = "signal" => v.interface \in WebRTC
  BY <1>2 DEF ServerInv, CallsFit
<1>5. v.interface \in listening' => Undisturbed(v)
  BY <1>2 DEF Undisturbed
<1> QED
  BY <1>2, <1>3, <1>4, <1>5, OneServerCallChanges

\* A call that is settled disturbs no server.
LEMMA SettleStep ==
  ASSUME Inv, ServerInv, NEW c \in Call, Settle(c), UNCHANGED <<stage, hub, listening>>
  PROVE  ServerInv'
BY OneServerCallChanges DEF Settle

\* A panic keeps the borrow, of which a call that has not started has none.
LEMMA DiesStep ==
  ASSUME Inv, ServerInv, NEW c \in Call, calls[c] # NoCall, calls[c].at = "issued", Dies(c),
         UNCHANGED <<stage, hub, listening>>
  PROVE  ServerInv'
<1>1. calls[c] \in CallState /\ calls[c].borrow = "none"
  BY DEF Inv, TypeOK, IssuedHoldsNothing
<1>2. calls' = [calls EXCEPT ![c].at = "dead", ![c].borrow = "none"]
  <2>1. [calls[c] EXCEPT !.at = "dead"] = [calls[c] EXCEPT !.at = "dead", !.borrow = "none"]
    BY <1>1 DEF CallState
  <2> QED
    BY <2>1 DEF Dies, Inv, TypeOK
<1>3. calls[c].interface \in listening => calls[c].kind # "close"
  BY DEF ServerInv, ListeningFree, Undisturbed
<1> QED
  BY <1>2, <1>3, SameCall

\* createInterface: what begins to listen is in the hub and nobody has called it.
LEMMA ServerCreation ==
  ASSUME Inv, ServerInv, NEW i \in Interface, Creation(i)
  PROVE  ServerInv'
<1> USE DEF Inv, TypeOK, Advance
<1>owned. \A c \in Call : calls[c] # NoCall =>
            calls[c].interface \in Interface /\ stage[calls[c].interface] = "owned"
  BY DEF ServerInv, CallsFit, CallState
<1>1. CASE CreateInterface(i)
  BY <1>1, <1>owned DEF CreateInterface, ServerInv, CallsFit, InitialisingInHub, ListeningFree
<1>2. CASE CreationFails(i)
  BY <1>2, <1>owned DEF CreationFails, ServerInv, CallsFit, InitialisingInHub, ListeningFree
<1>3. CASE InterfaceCreated(i)
  BY <1>3, <1>owned DEF InterfaceCreated, ServerInv, CallsFit, InitialisingInHub, ListeningFree
<1>4. CASE InitSucceeds(i)
  <2>1. i \in hub /\ \A c \in Call : calls[c] # NoCall => calls[c].interface # i
    BY <1>4, <1>owned DEF InitSucceeds, ServerInv, InitialisingInHub
  <2> QED
    BY <1>4, <1>owned, <2>1
    DEF InitSucceeds, ServerInv, CallsFit, InitialisingInHub, ListeningFree
<1>5. CASE InitFails(i)
  BY <1>5, <1>owned DEF InitFails, ServerInv, CallsFit, InitialisingInHub, ListeningFree
<1> QED
  BY <1>1, <1>2, <1>3, <1>4, <1>5 DEF Creation

\* A method is called.
LEMMA ServerIssue ==
  ASSUME Inv, ServerInv, NEW c \in Call, NEW i \in Interface,
         NEW kind \in {"sendBlock", "testSendBlock", "close", "signal"},
         NEW at \in {"cleaning", "issued"}, NEW s \in Socket \cup {NoSocket},
         Issue(c, kind, at, i, s),
         kind = "close" => at = "cleaning", kind = "signal" => i \in WebRTC
  PROVE  ServerInv'
<1> DEFINE v == [kind |-> kind, at |-> at, interface |-> i, socket |-> s, borrow |-> "none"]
<1>1. v \in CallState /\ Undisturbed(v)
  BY DEF CallState, Undisturbed
<1>2. calls' = [calls EXCEPT ![c] = v] /\ UNCHANGED <<stage, hub, listening>> /\ stage[i] = "owned"
  BY DEF Issue
<1> QED
  BY <1>1, <1>2, OneServerCallChanges

\* The later steps of a call: it takes a borrow only where no server listens.
LEMMA ServerContinuation ==
  ASSUME Inv, ServerInv, NEW c \in Call, Continuation(c)
  PROVE  ServerInv'
<1> DEFINE i == calls[c].interface
<1>1. CASE CleanupSucceeds(c)
  <2>1. calls[c] \in CallState /\ calls[c].borrow = "none"
    BY <1>1 DEF CleanupSucceeds, Inv, TypeOK, IssuedHoldsNothing
  <2>2. [calls[c] EXCEPT !.at = "issued"] = [calls[c] EXCEPT !.at = "issued", !.borrow = "none"]
    BY <2>1 DEF CallState
  <2>3. calls' = [calls EXCEPT ![c].at = "issued", ![c].borrow = "none"]
    BY <1>1, <2>2 DEF CleanupSucceeds, Inv, TypeOK
  <2> QED
    BY <1>1, <2>3, SameCall DEF CleanupSucceeds
<1>2. CASE CleanupFails(c) \/ Answer(c)
  BY <1>2, SettleStep DEF CleanupFails, Answer
<1>3. CASE BeginSend(c)
  <2>1. CASE Settle(c) \/ Dies(c)
    BY <1>3, <2>1, SettleStep, DiesStep DEF BeginSend, Called
  <2>2. CASE ~(Settle(c) \/ Dies(c))
    <3>1. PICK at \in {"pending", "dead"} :
            calls' = [calls EXCEPT ![c].at = at, ![c].borrow = "exclusive"]
      BY <1>3, <2>2 DEF BeginSend, Pends
    <3>2. i \in Base /\ calls[c] # NoCall /\ UNCHANGED <<stage, hub, listening>>
      BY <1>3, <2>2 DEF BeginSend, Called
    <3>3. i \notin listening'
      BY <3>2 DEF Inv, TypeOK, Base
    <3> QED
      BY <3>1, <3>2, <3>3, SameCall
  <2> QED
    BY <2>1, <2>2
<1>4. CASE BeginClose(c)
  <2>1. i \notin listening /\ calls[c] # NoCall /\ UNCHANGED <<stage, hub, listening>>
    BY <1>4 DEF BeginClose, Called, ServerInv, ListeningFree, Undisturbed
  <2>2. CASE Settle(c) \/ Dies(c)
    BY <1>4, <2>2, <2>1, SettleStep, DiesStep DEF BeginClose
  <2>3. CASE Pends(c, "exclusive")
    BY <2>1, <2>3, SameCall DEF Pends
  <2> QED
    BY <1>4, <2>2, <2>3 DEF BeginClose
<1>5. CASE BeginSignal(c)
  <2>1. i \in WebRTC /\ calls[c] # NoCall /\ UNCHANGED <<stage, hub, listening>>
    BY <1>5 DEF BeginSignal, Called, ServerInv, CallsFit
  <2>2. i \notin listening'
    BY <2>1, InterfacesAssumption DEF Inv, TypeOK
  <2>3. CASE Settle(c) \/ Dies(c)
    BY <1>5, <2>3, <2>1, SettleStep, DiesStep DEF BeginSignal
  <2>4. CASE Pends(c, "shared")
    BY <2>1, <2>2, <2>4, SameCall DEF Pends
  <2> QED
    BY <1>5, <2>3, <2>4 DEF BeginSignal
<1>6. CASE Removed(c)
  <2>1. i \notin listening /\ stage[i] = "owned"
    BY <1>6 DEF Removed, Called, ServerInv, CallsFit, ListeningFree, Undisturbed
  <2>2. \A d \in Call : calls'[d] = IF d = c THEN NoCall ELSE calls[d]
    BY <1>6 DEF Removed, Settle, Inv, TypeOK
  <2>3. UNCHANGED <<stage, listening>> /\ hub' = hub \ {i}
    BY <1>6 DEF Removed
  <2>4. CallsFit' /\ InitialisingInHub' /\ ListeningFree'
    BY <2>1, <2>2, <2>3 DEF ServerInv, CallsFit, InitialisingInHub, ListeningFree, Undisturbed
  <2> QED
    BY <2>4 DEF ServerInv
<1> QED
  BY <1>1, <1>2, <1>3, <1>4, <1>5, <1>6 DEF Continuation

\* Every step preserves the invariant about servers.
LEMMA ServerNext == Inv /\ ServerInv /\ [Next]_vars => ServerInv'
<1> SUFFICES ASSUME Inv, ServerInv, [Next]_vars PROVE ServerInv'
  OBVIOUS
<1>1. CASE UNCHANGED <<stage, hub, calls, listening>>
  BY <1>1 DEF ServerInv, CallsFit, InitialisingInHub, ListeningFree
<1>2. ASSUME NEW i \in Interface, Creation(i) PROVE ServerInv'
  BY <1>2, ServerCreation
<1>3. ASSUME NEW i \in Interface, OnSend(i) \/ OnSendPanics(i) \/ SynchronousCallPanics(i)
      PROVE  ServerInv'
  BY <1>3, <1>1 DEF OnSend, OnSendPanics, SynchronousCallPanics
<1>4. ASSUME NEW i \in Interface, NEW s \in Socket,
             \/ RegisterSocket(i, s) \/ DestroySocket(i, s)
             \/ AddSocket(i, s) \/ SocketCloses(i, s)
      PROVE  ServerInv'
  BY <1>4, <1>1 DEF RegisterSocket, DestroySocket, AddSocket, SocketCloses
<1>5. ASSUME NEW c \in Call, NEW i \in Interface, NEW s \in Socket,
             SendBlock(c, i, s) \/ TestSendBlock(c, i, s)
      PROVE  ServerInv'
  BY <1>5, ServerIssue DEF SendBlock, TestSendBlock
<1>6. ASSUME NEW c \in Call, NEW i \in Interface, Signal(c, i) \/ Close(c, i)
      PROVE  ServerInv'
  BY <1>6, ServerIssue DEF Signal, Close
<1>7. ASSUME NEW c \in Call, Continuation(c) PROVE ServerInv'
  BY <1>7, ServerContinuation
<1> QED
  BY <1>1, <1>2, <1>3, <1>4, <1>5, <1>6, <1>7 DEF Next, vars

\* While a server may have requests its interface is in the hub and not borrowed, so that
\* adding a socket does not panic, whatever closes, sends and creations overlap
\* (websocket-server-deno.ts:21, com-interface.ts:50).
THEOREM ServersAreServed == Spec => []RequestsAreServed
<1>1. Init => ServerInv
  BY DEF Init, ServerInv, CallsFit, InitialisingInHub, ListeningFree
<1>2. Inv /\ ServerInv => RequestsAreServed
  BY DEF Inv, TypeOK, ServerInv, ListeningFree, Undisturbed, RequestsAreServed, Borrowed, Holders
<1> QED
  BY <1>1, <1>2, ServerNext, Invariance, PTL DEF Spec
=============================================================================
