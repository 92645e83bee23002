---------------------------- MODULE MCStaticHashMap ----------------------------
(* Instances of StaticHashMap for TLC. *)
EXTENDS StaticHashMap, TLC

\* Keys are alike, since every hash function is tried, and so are values.
Symmetry == Permutations(Keys) \cup Permutations(Values)

=============================================================================
