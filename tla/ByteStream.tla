----------------------------- MODULE ByteStream -----------------------------
(***************************************************************************)
(* What either end of a connection to the language server may rely on:     *)
(* bytes arrive once, unchanged and in order, however they are cut, and    *)
(* the end is seen when nothing more can come.  How bytes are kept on the  *)
(* way is Pipe's business.                                                 *)
(***************************************************************************)
EXTENDS Naturals, SequencesExt

VARIABLES
  inFlight,  \* the bytes that were put in and not yet taken out
  open,      \* more may be put in
  last,      \* what was taken out last
  reader     \* "reads", "atEnd" when it has seen the end, "gone" when it gave up

vars == <<inFlight, open, last, reader>>

Init ==
  /\ inFlight = <<>>
  /\ open = TRUE
  /\ last = <<>>
  /\ reader = "reads"

Put ==
  /\ open /\ reader = "reads"
  /\ IsStrictPrefix(inFlight, inFlight')
  /\ UNCHANGED <<open, last, reader>>

Take ==
  /\ reader = "reads"
  /\ \E n \in 1..Len(inFlight) :
       /\ last' = SubSeq(inFlight, 1, n)
       /\ inFlight' = SubSeq(inFlight, n + 1, Len(inFlight))
  /\ UNCHANGED <<open, reader>>

Close ==
  /\ open
  /\ open' = FALSE
  /\ UNCHANGED <<inFlight, last, reader>>

End ==
  /\ reader = "reads"
  /\ inFlight = <<>> /\ ~open
  /\ reader' = "atEnd"
  /\ UNCHANGED <<inFlight, open, last>>

\* A reader that goes leaves behind what it has not taken.
Leave ==
  /\ reader = "reads"
  /\ inFlight' = <<>>
  /\ reader' = "gone"
  /\ UNCHANGED <<open, last>>

Spec == Init /\ [][Put \/ Take \/ Close \/ End \/ Leave]_vars

\* What is put in is taken out, unless the reader goes, and the end is seen.
Arrives ==
  /\ []<>(inFlight = <<>> \/ reader # "reads") \/ []<><<Take>>_vars
  /\ ~open ~> reader # "reads"
=============================================================================
