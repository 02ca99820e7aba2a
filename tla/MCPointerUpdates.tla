-------------------------- MODULE MCPointerUpdates --------------------------
(* Instances of PointerUpdates for TLC. *)
EXTENDS PointerUpdates, TLC

CONSTANTS v1, v2, v3, p, q, r

\* Callbacks and resolvable values are interchangeable.
UpdateSymmetry == Permutations(Callback) \cup Permutations(Value \ Unresolvable)
=============================================================================
