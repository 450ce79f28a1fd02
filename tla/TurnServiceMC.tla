--------------------------- MODULE TurnServiceMC ---------------------------
(* Instances of TurnService for TLC. *)
EXTENDS TurnService, TLC
CONSTANTS s1, s2, r1, r2, r3, m1, m2
Symmetry == Permutations({s1, s2}) \cup Permutations({r1, r2, r3})
              \cup Permutations({m1, m2})
============================================================================
