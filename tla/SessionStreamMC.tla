-------------------------- MODULE SessionStreamMC --------------------------
(* Instances of SessionStream for TLC. *)
EXTENDS SessionStream, TLC
CONSTANTS s1, s2, c1, c2, c3, l1, l2
Symmetry == Permutations(Conn) \cup Permutations(Load) \cup Permutations(Session)
=============================================================================
