------------------------- MODULE ExtensionWorkerMC -------------------------
(* Instances of ExtensionWorker for TLC. *)
EXTENDS ExtensionWorker, TLC
CONSTANTS c1, c2
CallSymmetry == Permutations({c1, c2})
============================================================================
