---------------------------- MODULE MCMapBinding ----------------------------
EXTENDS MapBinding, TLC

CONSTANTS text, number, integer, structure, o1, o2, v1, v2, callback

\* Both numbers of the runtime come back as the number, which is sent as an
\* untyped one; a structure comes back as an object.
MCConverted == (text :> text) @@ (number :> number) @@ (o1 :> structure) @@ (o2 :> structure)
MCResolved == (text :> {text}) @@ (number :> {number}) @@ (integer :> {number})
              @@ (structure :> {o1, o2})
=============================================================================
