------------------------ MODULE ExtensionLifecycleMC ------------------------
(* Instances of ExtensionLifecycle for TLC. *)
EXTENDS ExtensionLifecycle, TLC
CONSTANTS e1, e2, h1, h2, w1, w2, w3, w4

\* The second version of e1 takes the tool that e2 declares.
ToolsOf ==
  [e \in Ext |-> [h \in Hash |->
    IF e = e1 THEN IF h = h1 THEN {"t1"} ELSE {"t1", "t2"} ELSE {"t2"}]]
=============================================================================
