---------------------------- MODULE AgentTurnMC ----------------------------
(* Instances of AgentTurn for TLC. *)
EXTENDS AgentTurnReaders, TLC

CONSTANTS c1, c2, o1, o2

Text(finish) ==
  [broken |-> FALSE, cancelled |-> FALSE, reasoning |-> FALSE, text |-> TRUE,
   finish |-> finish, calls |-> <<>>]

Tools(cs, finish) == [Text(finish) EXCEPT !.text = FALSE, !.calls = cs]

Broken(cancelled) ==
  [Text("stop") EXCEPT !.broken = TRUE, !.cancelled = cancelled]

Empty(finish) == [Text(finish) EXCEPT !.text = FALSE]

Thinking(r) == [r EXCEPT !.reasoning = TRUE]

\* Every shape of reply: each finish reason, with and without text,
\* reasoning and calls, an identifier used twice, an empty identifier.
AllReplies ==
  {Text("stop"), Text("length"), Text("content_filter"), Empty("stop"),
   Thinking(Empty("length")), Broken(TRUE), Thinking(Broken(FALSE)),
   Tools(<<c1>>, "stop"), Tools(<<c2>>, "stop"),
   [Tools(<<c1, c2>>, "stop") EXCEPT !.text = TRUE],
   Tools(<<c1>>, "length"), Tools(<<c1, c1>>, "stop"), Tools(<<NoCall>>, "stop")}

\* One call a turn, so that several turns fit.
ShortReplies == {Text("stop"), Tools(<<c1>>, "stop"), Tools(<<c2>>, "stop")}

\* Calls are interchangeable in every reply set used with it.
CallSymmetry == Permutations({c1, c2})
============================================================================
