-------------------------- MODULE MCReferenceCache --------------------------
(* Instances of ReferenceCache for TLC. *)
EXTENDS ReferenceCache, TLC

CONSTANTS a1, a2, a3, o1, o2, l1, l2, p1, p2, e1, c1, c2

\* Objects of one kind are interchangeable, and so are pending calls. The addresses
\* are told apart in the configurations.
ObjectSymmetry ==
  Permutations(Plain) \cup Permutations(List) \cup Permutations(Proxy)
    \cup Permutations(Call)
=============================================================================
