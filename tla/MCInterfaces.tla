---------------------------- MODULE MCInterfaces ----------------------------
(* Instances of Interfaces for TLC. *)
EXTENDS Interfaces

CONSTANTS b, w, v, s1, c1, c2
=============================================================================
