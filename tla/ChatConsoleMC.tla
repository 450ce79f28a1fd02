----------------------------- MODULE ChatConsoleMC ----------------------------
(* A small instance of ChatConsole: one line of each kind, and the ways to *)
(* start the console that differ.                                          *)
EXTENDS ChatConsole

Offers == {{}, {"m2"}}

Typed(text) == [text |-> text, pasted |-> FALSE]

Lines ==
  {Typed(t) : t \in {"safe", "full-access", "confirm", "refresh", "m2", "quit"}}
  \cup {[text |-> "full-access", pasted |-> TRUE]}

Begin(resume, stored, mode, interactive, source) ==
  [resume |-> resume, mode |-> mode, interactive |-> interactive, source |-> source,
   listed |-> IF source = "manual" THEN {"m2"} ELSE {},
   session |-> [mode |-> stored, model |-> "m1"]]

Starts ==
  {Begin(FALSE, "safe", "unset", TRUE, "discover"),
   Begin(FALSE, "safe", "full-access", TRUE, "manual"),
   Begin(TRUE, "full-access", "unset", TRUE, "discover"),
   Begin(TRUE, "safe", "full-access", FALSE, "discover"),
   Begin(TRUE, "safe", "unset", FALSE, "manual")}
=============================================================================
