--------------------------- MODULE MCListBinding ---------------------------
(* Instances of ListBinding for TLC. *)
EXTENDS ListBinding, TLC

CONSTANTS x, y, f

\* The values that convert are interchangeable.
ListSymmetry == Permutations(Supported)
=============================================================================
