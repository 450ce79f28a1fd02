-------------------------- MODULE ContextProjection --------------------------
(***************************************************************************)
(* EventContextBuilder: the messages the loop sends to the model, computed *)
(* from the log within a budget.  The events are cut into fragments, about *)
(* one for each step; the latest that fit are sent word for word, the      *)
(* older ones as a summary that may itself be cut.  The module has no      *)
(* state.  A text is its size in approximate tokens, one size for each     *)
(* kind of text.                                                           *)
(***************************************************************************)
EXTENDS SessionLog, FiniteSets, SequencesExt

CONSTANTS
  FixedTokens,   (* system prompt and workspace summary           *)
  GoalTokens, TextTokens, ReasoningTokens, CallTokens, ResultTokens,
  LineTokens,    (* a line of a summary                           *)
  MarkerTokens   (* what truncateToLimit() adds to a text it cuts *)

ASSUME SizesAssumption ==
  /\ {FixedTokens, GoalTokens, TextTokens, ReasoningTokens, CallTokens, ResultTokens,
      LineTokens, MarkerTokens} \subseteq Nat \ {0}

-----------------------------------------------------------------------------
(* Fragments and digests *)

NoFragment == [turn |-> 0, user |-> FALSE, text |-> 0, reasoning |-> 0,
               calls |-> <<>>, results |-> <<>>, outcome |-> FALSE]

\* Reasoning alone is no content.
HasContent(f) == f.user \/ f.text > 0 \/ f.calls # <<>> \/ f.results # <<>> \/ f.outcome

LatestTurn(log) == Cardinality({i \in DOMAIN log : log[i].type = "turn.started"})

\* formatTurnOutcome(): the turns whose end the model is told.
TellsOutcome(e) == e.type \in {"turn.failed", "turn.cancelled"}

\* The state of collectConversation() between two events.
Reading == [done |-> <<>>, open |-> FALSE, frag |-> NoFragment, turn |-> 0, first |-> TRUE]

\* startFragment(): the first fragment of an earlier turn carries its goal.
Opened(r, latest) ==
  IF r.open THEN r
  ELSE [r EXCEPT !.open = TRUE, !.first = FALSE,
                 !.frag = [NoFragment EXCEPT !.turn = r.turn,
                                             !.user = r.first /\ r.turn # 0 /\ r.turn # latest]]

Cut(r) ==
  IF r.open /\ HasContent(r.frag)
  THEN [r EXCEPT !.done = Append(@, r.frag), !.open = FALSE] ELSE r

\* flushTurn(): a turn without any fragment still leaves its goal.
Flush(r, latest) ==
  IF ~r.open /\ r.turn # 0 /\ r.turn # latest /\ r.first
  THEN [r EXCEPT !.done = Append(@, [NoFragment EXCEPT !.turn = r.turn, !.user = TRUE]),
                 !.first = FALSE]
  ELSE [Cut(r) EXCEPT !.open = FALSE]

Take(r, e, latest) ==
  LET o == Opened(r, latest) IN
  CASE e.type = "turn.started"    -> [Flush(r, latest) EXCEPT !.turn = @ + 1, !.first = TRUE]
    [] e.type = "step.started"    -> Cut(r)
    [] e.type = "model.text"      -> [o EXCEPT !.frag.text = @ + TextTokens]
    [] e.type = "model.reasoning" -> [o EXCEPT !.frag.reasoning = @ + ReasoningTokens]
    [] e.type = "model.tool_call" -> [o EXCEPT !.frag.calls = Append(@, e.call)]
    [] TellsOutcome(e)            -> [o EXCEPT !.frag.outcome = TRUE]
    [] e.type \in ToolTerminalTypes /\ r.open -> [r EXCEPT !.frag.results = Append(@, e.call)]
    [] OTHER                      -> r

\* collectConversation()
Conversation(log) ==
  LET latest == LatestTurn(log)
      after[i \in 0 .. Len(log)] ==
        IF i = 0 THEN Reading ELSE Take(after[i - 1], log[i], latest)
  IN  Flush(after[Len(log)], latest).done

\* The step an event is in, 0 before the first one.
StepAt(log, i) == Cardinality({j \in 1 .. i : log[j].type = "step.started"})

\* renderStepDigest(): the number of lines for the events of a step.
DigestLines(log, events) ==
  1 + Cardinality({i \in events : log[i].type \in {"model.tool_call"} \cup ToolTerminalTypes})
    + IF \E i \in events : log[i].type = "model.text" THEN 1 ELSE 0

\* collectStepDigests(): for each step, the lines its digest renders to.
Digests(log) ==
  [k \in 1 .. StepAt(log, Len(log)) |->
     DigestLines(log, {i \in DOMAIN log : StepAt(log, i) = k})]

-----------------------------------------------------------------------------
(* Messages *)

Message(role, turn, tokens, calls) ==
  [role |-> role, turn |-> turn, tokens |-> tokens, calls |-> calls]

\* Mutant: every call and every result is sent.
PairedAny(f) == [calls |-> f.calls, results |-> f.results]

\* Those of the elements of s that are in S, in their order.
Only(s, S) ==
  LET kept[i \in 0 .. Len(s)] ==
        IF i = 0 THEN <<>> ELSE IF s[i] \in S THEN Append(kept[i - 1], s[i]) ELSE kept[i - 1]
  IN  kept[Len(s)]

\* Calls with a result and results with a call.
Paired(f) ==
  LET calls == Only(f.calls, ToSet(f.results))
  IN  [calls |-> calls, results |-> Only(f.results, ToSet(calls))]

\* conversationMessages()
Messages(f) ==
  LET paired == Paired(f)
      user == IF f.user THEN <<Message("user", f.turn, GoalTokens, <<>>)>> ELSE <<>>
      assistant ==
        IF f.text > 0 \/ paired.calls # <<>> \/ f.reasoning > 0
        THEN <<Message("assistant", f.turn,
                       f.text + f.reasoning + CallTokens * Len(paired.calls), paired.calls)>>
        ELSE <<>>
  IN  user \o assistant
      \o [k \in DOMAIN paired.results |->
            Message("tool", f.turn, ResultTokens, <<paired.results[k]>>)]

\* The sum of a sequence of numbers.
Total(numbers) ==
  LET sum[i \in 0 .. Len(numbers)] == IF i = 0 THEN 0 ELSE sum[i - 1] + numbers[i]
  IN  sum[Len(numbers)]

Tokens(messages) == Total([i \in DOMAIN messages |-> messages[i].tokens])

-----------------------------------------------------------------------------
(* build() *)

\* Fragments are matched with digests by their number: the latest ones stay.
Matched(log) ==
  LET fs == Conversation(log)
      n == Len(Digests(log))
  IN  IF n = 0 \/ n >= Len(fs) THEN fs ELSE SubSeq(fs, Len(fs) - n + 1, Len(fs))

Cost(fs, from) == Tokens(FlattenSeq([k \in 1 .. Len(fs) - from + 1 |-> Messages(fs[from + k - 1])]))

\* The first fragment that is sent word for word.
FirstKept(fs, room) ==
  CHOOSE s \in 1 .. Len(fs) + 1 :
    /\ Cost(fs, s) <= room
    /\ s > 1 => Cost(fs, s - 1) > room

TooLarge(log, fs, room) ==
  /\ fs # <<>>
  /\ LET last == fs[Len(fs)]
     IN  last.turn = LatestTurn(log) /\ Messages(last) # <<>> /\ Tokens(Messages(last)) > room

Ordered(summary, prior, goal, current) == summary \o prior \o goal \o current

\* Mutant: a summary is never cut.
SummaryWhole(log, n, room) ==
  IF n = 0 THEN <<>>
  ELSE <<Message("summary", 0,
                 LineTokens * Total(SubSeq(Digests(log), 1, n)),
                 <<>>)>>

\* The summary of the first n digests: whole, cut to the room left, or none.
Summary(log, n, room) ==
  LET outcomes == Cardinality({k \in 1 .. n : Matched(log)[k].outcome})
      whole == LineTokens * (outcomes + Total(SubSeq(Digests(log), 1, n)))
  IN  CASE n = 0 \/ room = 0 -> <<>>
        [] n > 0 /\ whole <= room -> <<Message("summary", 0, whole, <<>>)>>
        [] OTHER -> <<Message("summary", 0, room + MarkerTokens, <<>>)>>

\* goalMessage()
Goal(latest) == Message("user", latest, GoalTokens, <<>>)

\* What the system prompt and the goal leave of the budget.
Room(budget) ==
  IF budget > FixedTokens + GoalTokens THEN budget - FixedTokens - GoalTokens ELSE 0

Projection(log, budget) ==
  LET fs == Matched(log)
      latest == LatestTurn(log)
      room == Room(budget)
      from == FirstKept(fs, room)
      kept == [k \in 1 .. Len(fs) - from + 1 |-> fs[from + k - 1]]
      of(current) == FlattenSeq([k \in DOMAIN kept |->
                       IF current = (kept[k].turn = latest) THEN Messages(kept[k]) ELSE <<>>])
  IN  IF TooLarge(log, fs, room) THEN [ok |-> FALSE, messages |-> <<>>, omitted |-> 0]
      ELSE [ok |-> TRUE, omitted |-> from - 1,
            messages |->
              <<Message("system", 0, FixedTokens, <<>>)>>
              \o Ordered(Summary(log, from - 1, room - Cost(fs, from)),
                         of(FALSE),
                         <<Goal(latest)>>,
                         of(TRUE))]
=============================================================================
