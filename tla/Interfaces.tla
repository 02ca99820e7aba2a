----------------------------- MODULE Interfaces -----------------------------
(***************************************************************************)
(* Communication interfaces between JavaScript and the hub: createInterface *)
(* and close of com-hub.ts and com-interface.ts, and the methods of        *)
(* JSComHub that JavaScript calls on an interface.  A method that returns  *)
(* a promise starts in a later microtask than its call, and holds the      *)
(* borrow of its interface for as long as the promise is pending; a borrow *)
(* that is refused is a panic, which ends the call without an answer.      *)
(***************************************************************************)

CONSTANTS
  Interface,  \* uuids of interfaces
  WebRTC,     \* those of type "webrtc"
  Server,     \* those of type "websocket-server"; the others are of type "base"
  Socket,     \* uuids of sockets
  Call,       \* promises of methods called on an interface
  NoCall, NoSocket

VARIABLES
  stage,     \* how far createInterface is with an interface
  hub,       \* the interfaces in the hub
  sockets,   \* the sockets of each interface
  sender,    \* the interfaces with an on_send callback
  calls,     \* what each promise is at, NoCall when it is settled
  handle,    \* how a synchronous method that panicked has left JSComHub borrowed
  listening  \* the interfaces whose HTTP server may still have requests

vars == <<stage, hub, sockets, sender, calls, handle, listening>>

Base == Interface \ (WebRTC \cup Server)

Stage == {"none", "creating", "initialising", "owned", "orphan", "failed"}

\* "cleaning": close awaits the implementation's cleanup; "issued": called, not yet
\* started; "pending": it has started; "dead": it has panicked.
CallState ==
  [kind : {"sendBlock", "testSendBlock", "close", "signal"},
   at : {"cleaning", "issued", "pending", "dead"},
   interface : Interface,
   socket : Socket \cup {NoSocket},
   borrow : {"none", "shared", "exclusive"}]

ASSUME InterfacesAssumption ==
  /\ WebRTC \subseteq Interface /\ Server \subseteq Interface \ WebRTC
  /\ NoSocket \notin Socket
  /\ NoCall \notin CallState

TypeOK ==
  /\ stage \in [Interface -> Stage]
  /\ hub \subseteq {i \in Interface : stage[i] \in {"initialising", "owned", "orphan"}}
  /\ sockets \in [Interface -> SUBSET Socket]
  /\ sender \subseteq hub
  /\ \A i \in Interface : sockets[i] # {} => i \in hub
  /\ calls \in [Call -> CallState \cup {NoCall}]
  /\ handle \in {"free", "shared", "exclusive"}
  /\ listening \subseteq Server

Init ==
  /\ stage = [i \in Interface |-> "none"]
  /\ hub = {}
  /\ sockets = [i \in Interface |-> {}]
  /\ sender = {}
  /\ calls = [c \in Call |-> NoCall]
  /\ handle = "free"
  /\ listening = {}

-----------------------------------------------------------------------------
(* Borrows.                                                                *)

\* The calls that hold interface i, for reading or for writing.
Holders(i, borrows) ==
  {c \in Call : calls[c] # NoCall /\ calls[c].interface = i /\ calls[c].borrow \in borrows}

Borrowed(i) == Holders(i, {"shared", "exclusive"}) # {}

Locked(i) == Holders(i, {"exclusive"}) # {}

\* Every method needs a shared borrow of JSComHub; one that returns a promise keeps it
\* until it ends, except close_interface.
HandleShared == handle # "exclusive"

HandleFree ==
  /\ handle = "free"
  /\ \A c \in Call : calls[c] # NoCall => calls[c].kind = "close"

Settle(c) == calls' = [calls EXCEPT ![c] = NoCall]

Dies(c) == calls' = [calls EXCEPT ![c].at = "dead"]

Pends(c, borrow) == calls' = [calls EXCEPT ![c].at = "pending", ![c].borrow = borrow]

Called(c, kind) == calls[c] # NoCall /\ calls[c].kind \in kind

-----------------------------------------------------------------------------
(* createInterface.                                                        *)

Advance(i, from, to) ==
  /\ stage[i] = from
  /\ stage' = [stage EXCEPT ![i] = to]
  /\ UNCHANGED <<sockets, sender, calls, handle>>

CreateInterface(i) ==
  HandleShared /\ Advance(i, "none", "creating") /\ UNCHANGED <<hub, listening>>

\* The setup data is refused, or the interface does not open.
CreationFails(i) == Advance(i, "creating", "failed") /\ UNCHANGED <<hub, listening>>

InterfaceCreated(i) ==
  /\ Advance(i, "creating", "initialising")
  /\ hub' = hub \cup {i}
  /\ UNCHANGED listening

\* init of a server listens when it returns.
InitSucceeds(i) ==
  /\ Advance(i, "initialising", "owned")
  /\ listening' = listening \cup (Server \cap {i})
  /\ UNCHANGED hub

\* The implementation's init throws: createInterface rejects, the hub keeps the
\* interface.
InitFails(i) == Advance(i, "initialising", "orphan") /\ UNCHANGED <<hub, listening>>

-----------------------------------------------------------------------------
(* Calls that return a promise.                                            *)

Issue(c, kind, at, i, s) ==
  /\ calls[c] = NoCall
  /\ stage[i] = "owned" /\ HandleShared
  /\ calls' = [calls EXCEPT ![c] = [kind |-> kind, at |-> at, interface |-> i,
                                    socket |-> s, borrow |-> "none"]]
  /\ UNCHANGED <<stage, hub, sockets, sender, handle, listening>>

SendBlock(c, i, s) == Issue(c, "sendBlock", "issued", i, s)

TestSendBlock(c, i, s) == i \in Base /\ Issue(c, "testSendBlock", "issued", i, s)

\* createOffer, createAnswer, setAnswer, addIceCandidate and waitForConnection.
Signal(c, i) == i \in WebRTC /\ Issue(c, "signal", "issued", i, NoSocket)

\* Mutation: cleanup is not awaited.
CloseAtOnce(c, i) == Issue(c, "close", "issued", i, NoSocket)

\* ComInterface.close awaits cleanup first.
Close(c, i) == Issue(c, "close", "cleaning", i, NoSocket)

\* shutdown of a server is over when all its requests are.
CleanupSucceeds(c) ==
  /\ calls[c] # NoCall /\ calls[c].at = "cleaning"
  /\ HandleShared
  /\ calls' = [calls EXCEPT ![c].at = "issued"]
  /\ listening' = listening \ {calls[c].interface}
  /\ UNCHANGED <<stage, hub, sockets, sender, handle>>

\* cleanup throws, or close_interface finds JSComHub borrowed.
CleanupFails(c) ==
  /\ calls[c] # NoCall /\ calls[c].at = "cleaning"
  /\ Settle(c)
  /\ UNCHANGED <<stage, hub, sockets, sender, handle, listening>>

\* The first poll of a send: the interface is looked up and borrowed mutably, and
\* on_send is called, which may throw with the borrow held.  A data channel or a
\* WebSocket sends at once and leaves nothing to wait for.
BeginSend(c) ==
  /\ Called(c, {"sendBlock", "testSendBlock"}) /\ calls[c].at = "issued"
  /\ LET i == calls[c].interface
         s == calls[c].socket
         reaches == i \in Base /\ s \in sockets[i] /\ i \in sender
     IN  \/ i \notin hub /\ calls[c].kind = "sendBlock" /\ Dies(c)
         \/ i \notin hub /\ calls[c].kind = "testSendBlock" /\ Settle(c)
         \/ i \in hub /\ Borrowed(i) /\ Dies(c)
         \/ i \in hub /\ ~Borrowed(i) /\ ~reaches /\ Settle(c)
         \/ i \in hub /\ ~Borrowed(i) /\ reaches /\ Pends(c, "exclusive")
         \/ /\ i \in hub /\ ~Borrowed(i) /\ reaches
            /\ calls' = [calls EXCEPT ![c].at = "dead", ![c].borrow = "exclusive"]
  /\ UNCHANGED <<stage, hub, sockets, sender, handle, listening>>

\* close_interface: an interface in the hub is closed under a mutable borrow.
BeginClose(c) ==
  /\ Called(c, {"close"}) /\ calls[c].at = "issued"
  /\ LET i == calls[c].interface
     IN  \/ i \notin hub /\ Settle(c)
         \/ i \in hub /\ Borrowed(i) /\ Dies(c)
         \/ i \in hub /\ ~Borrowed(i) /\ Pends(c, "exclusive")
  /\ UNCHANGED <<stage, hub, sockets, sender, handle, listening>>

\* The methods of the signalling hold a shared borrow.
BeginSignal(c) ==
  /\ Called(c, {"signal"}) /\ calls[c].at = "issued"
  /\ LET i == calls[c].interface
     IN  \/ i \notin hub /\ Settle(c)
         \/ i \in hub /\ Locked(i) /\ Dies(c)
         \/ i \in hub /\ ~Locked(i) /\ Pends(c, "shared")
  /\ UNCHANGED <<stage, hub, sockets, sender, handle, listening>>

\* What the call awaits is there: the callback's promise, the browser's answer.
Answer(c) ==
  /\ Called(c, {"sendBlock", "testSendBlock", "signal"}) /\ calls[c].at = "pending"
  /\ Settle(c)
  /\ UNCHANGED <<stage, hub, sockets, sender, handle, listening>>

\* Mutation: the sockets of an interface outlive it.
RemovedKeepingSockets(c) ==
  /\ Called(c, {"close"}) /\ calls[c].at = "pending"
  /\ Settle(c)
  /\ hub' = hub \ {calls[c].interface}
  /\ sender' = sender \ {calls[c].interface}
  /\ UNCHANGED <<stage, sockets, handle, listening>>

\* The hub has closed the interface and drops it with its sockets.
Removed(c) ==
  /\ Called(c, {"close"}) /\ calls[c].at = "pending"
  /\ Settle(c)
  /\ hub' = hub \ {calls[c].interface}
  /\ sockets' = [sockets EXCEPT ![calls[c].interface] = {}]
  /\ sender' = sender \ {calls[c].interface}
  /\ UNCHANGED <<stage, handle, listening>>

-----------------------------------------------------------------------------
(* Calls that return at once, also from inside an on_send callback.        *)

RegisterSocket(i, s) ==
  /\ i \in Base \cap hub /\ stage[i] = "owned" /\ HandleShared
  /\ ~Borrowed(i)
  /\ \A j \in Interface : s \notin sockets[j]
  /\ sockets' = [sockets EXCEPT ![i] = @ \cup {s}]
  /\ UNCHANGED <<stage, hub, sender, calls, handle, listening>>

\* Mutation: the sockets are shared and need no borrow.
DestroySocketUnborrowed(i, s) ==
  /\ i \in Base \cap hub /\ stage[i] = "owned" /\ HandleShared
  /\ s \in sockets[i]
  /\ sockets' = [sockets EXCEPT ![i] = @ \ {s}]
  /\ UNCHANGED <<stage, hub, sender, calls, handle, listening>>

DestroySocket(i, s) ==
  /\ i \in Base \cap hub /\ stage[i] = "owned" /\ HandleShared
  /\ ~Borrowed(i)
  /\ s \in sockets[i]
  /\ sockets' = [sockets EXCEPT ![i] = @ \ {s}]
  /\ UNCHANGED <<stage, hub, sender, calls, handle, listening>>

\* base_interface_on_send takes JSComHub mutably: it throws while a call keeps it.
OnSend(i) ==
  /\ i \in Base \cap hub /\ stage[i] = "owned" /\ HandleFree
  /\ ~Borrowed(i)
  /\ sender' = sender \cup {i}
  /\ UNCHANGED <<stage, hub, sockets, calls, handle, listening>>

\* The interface is being closed: the panic leaves JSComHub borrowed for good.
OnSendPanics(i) ==
  /\ i \in Base \cap hub /\ stage[i] = "owned" /\ HandleFree
  /\ Borrowed(i)
  /\ handle' = "exclusive"
  /\ UNCHANGED <<stage, hub, sockets, sender, calls, listening>>

\* registerSocket, destroySocket and receive find the interface borrowed, or
\* setOnIceCandidate finds it locked.
SynchronousCallPanics(i) ==
  /\ i \in hub /\ stage[i] = "owned" /\ HandleShared
  /\ \/ i \in Base /\ Borrowed(i)
     \/ i \in WebRTC /\ Locked(i)
  /\ handle' = "shared"
  /\ UNCHANGED <<stage, hub, sockets, sender, calls, listening>>

-----------------------------------------------------------------------------
(* A server's sockets.                                                     *)

\* A request is upgraded: websocket_server_interface_add_socket borrows JSComHub, which a
\* panic may have left borrowed mutably (then this panics as well), finds the interface
\* and borrows it mutably.  RequestsAreServed is about the interface.
AddSocket(i, s) ==
  /\ i \in listening \cap hub /\ HandleShared
  /\ ~Borrowed(i)
  /\ \A j \in Interface : s \notin sockets[j]
  /\ sockets' = [sockets EXCEPT ![i] = @ \cup {s}]
  /\ UNCHANGED <<stage, hub, sender, calls, handle, listening>>

\* The close event of a WebSocket, which borrows only the list of sockets.
SocketCloses(i, s) ==
  /\ i \in Server
  /\ s \in sockets[i]
  /\ sockets' = [sockets EXCEPT ![i] = @ \ {s}]
  /\ UNCHANGED <<stage, hub, sender, calls, handle, listening>>

-----------------------------------------------------------------------------
Creation(i) ==
  \/ CreateInterface(i) \/ CreationFails(i) \/ InterfaceCreated(i)
  \/ InitSucceeds(i) \/ InitFails(i)

Continuation(c) ==
  \/ CleanupSucceeds(c) \/ CleanupFails(c)
  \/ BeginSend(c) \/ BeginClose(c) \/ BeginSignal(c)
  \/ Answer(c) \/ Removed(c)

Next ==
  \/ \E i \in Interface :
       Creation(i) \/ OnSend(i) \/ OnSendPanics(i) \/ SynchronousCallPanics(i)
  \/ \E i \in Interface, s \in Socket :
       \/ RegisterSocket(i, s) \/ DestroySocket(i, s)
       \/ AddSocket(i, s) \/ SocketCloses(i, s)
  \/ \E c \in Call, i \in Interface :
       \/ \E s \in Socket : SendBlock(c, i, s) \/ TestSendBlock(c, i, s)
       \/ Signal(c, i) \/ Close(c, i)
  \/ \E c \in Call : Continuation(c)

Spec == Init /\ [][Next]_vars

-----------------------------------------------------------------------------
(* Properties.                                                             *)

\* For as long as the on_send callback works on a block its socket stays registered
\* and its interface stays in the hub, whatever else the program calls.
PendingSendKeepsSocket ==
  \A c \in Call :
    Called(c, {"sendBlock", "testSendBlock"}) /\ calls[c].borrow = "exclusive" =>
      /\ calls[c].interface \in hub
      /\ calls[c].socket \in sockets[calls[c].interface]

\* Whenever a server may have a request, its interface is in the hub and nothing holds
\* it, so that the socket can be added, however many calls of close and sendBlock
\* overlap.  That JSComHub is free as well is not said (OnSendPanics).
RequestsAreServed == \A i \in listening : i \in hub /\ ~Borrowed(i)
=============================================================================
