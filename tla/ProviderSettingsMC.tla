-------------------------- MODULE ProviderSettingsMC --------------------------
(* A small instance of ProviderSettings.                                   *)
EXTENDS ProviderSettings, TLC

CONSTANTS d1, d2, r1, r2, u1, m1

(* Valid drafts that differ, one without the model it names, and one that  *)
(* the schema of the request refuses.                                      *)
Drafts ==
  {[url |-> u1, model |-> m1, source |-> "discover", models |-> {},   clean |-> TRUE],
   [url |-> u1, model |-> m1, source |-> "manual",   models |-> {m1}, clean |-> TRUE],
   [url |-> u1, model |-> m1, source |-> "manual",   models |-> {},   clean |-> TRUE],
   [url |-> u1, model |-> m1, source |-> "discover", models |-> {},   clean |-> FALSE]}

Symmetry == Permutations({d1, d2}) \cup Permutations({r1, r2})

=============================================================================
