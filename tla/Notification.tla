---------------------------- MODULE Notification ----------------------------
(***************************************************************************)
(* What observePointer promises: while a callback is registered it is      *)
(* called once for every update of the pointer, and one that is not        *)
(* registered is not called.  How the callbacks are stored and found is    *)
(* PointerUpdates' business.                                               *)
(***************************************************************************)
EXTENDS Sequences, Naturals

CONSTANTS Callback

VARIABLES
  subscribed,  \* the callbacks that are registered
  pending      \* the updates being announced, the one that interrupted the other
               \* last: for each the callbacks still to be called

vars == <<subscribed, pending>>

TypeOK ==
  /\ subscribed \subseteq Callback
  /\ pending \in Seq(SUBSET Callback)

Init ==
  /\ subscribed = {}
  /\ pending = <<>>

\* Whether a newcomer still hears of the updates being announced is left open.
Subscribe(c) ==
  /\ c \notin subscribed
  /\ subscribed' = subscribed \cup {c}
  /\ \E S \in SUBSET DOMAIN pending :
       pending' = [i \in DOMAIN pending |->
                     IF i \in S THEN pending[i] \cup {c} ELSE pending[i]]

Unsubscribe(c) ==
  /\ c \in subscribed
  /\ subscribed' = subscribed \ {c}
  /\ pending' = [i \in DOMAIN pending |-> pending[i] \ {c}]

Publish ==
  /\ pending' = Append(pending, subscribed)
  /\ UNCHANGED subscribed

Deliver(c) ==
  /\ pending # <<>>
  /\ c \in pending[Len(pending)]
  /\ pending' = [pending EXCEPT ![Len(pending)] = @ \ {c}]
  /\ UNCHANGED subscribed

Complete ==
  /\ pending # <<>>
  /\ pending[Len(pending)] = {}
  /\ pending' = SubSeq(pending, 1, Len(pending) - 1)
  /\ UNCHANGED subscribed

Next ==
  \/ \E c \in Callback : Subscribe(c) \/ Unsubscribe(c) \/ Deliver(c)
  \/ Publish
  \/ Complete

\* A callback that is due is called, unless it is withdrawn first.
EventuallyDelivered ==
  \A c \in Callback, i \in 1..2 :
     (i \in DOMAIN pending /\ c \in pending[i])
       ~> ~(i \in DOMAIN pending /\ c \in pending[i])

Spec == Init /\ [][Next]_vars
=============================================================================
