-------------------------- MODULE AgentTurnContext --------------------------
(***************************************************************************)
(* The log that AgentTurn writes and the model as its reader: what the     *)
(* loop sends with each request is ContextProjection of the log.           *)
(***************************************************************************)
EXTENDS AgentTurn, ContextProjection

CONSTANT Budgets   (* sizes of the model's context, output excluded *)

ASSUME BudgetsAssumption == Budgets \subseteq Nat \ {0}

-----------------------------------------------------------------------------
(* A conversation that a provider accepts *)

(* A tool result comes after the assistant message that calls for it, with *)
(* nothing but other results in between, as the protocol of chat requests  *)
(* demands of conversationMessages().                                      *)
AnswersCall(ms, i) ==
  \E j \in 1 .. i - 1 :
    /\ ms[j].role = "assistant" /\ ms[i].calls[1] \in ToSet(ms[j].calls)
    /\ \A k \in j + 1 .. i - 1 : ms[k].role = "tool"

(* A call that an assistant message makes has its result further down.     *)
HasResult(ms, i, c) ==
  \E j \in i + 1 .. Len(ms) : ms[j].role = "tool" /\ ms[j].calls[1] = c

(* Whatever build() trims, calls and results go together.                  *)
CallsAnswered(ms) ==
  \A i \in DOMAIN ms :
    /\ ms[i].role = "tool" => AnswersCall(ms, i)
    /\ ms[i].role = "assistant" => \A c \in ToSet(ms[i].calls) : HasResult(ms, i, c)

(* The goal of the latest turn is there once; what is of earlier turns     *)
(* comes before it, and after it only what the turn itself has said.       *)
GoalOnce(ms, latest) ==
  \E g \in DOMAIN ms :
    /\ ms[g].role = "user" /\ ms[g].turn = latest
    /\ \A i \in DOMAIN ms \ {g} :
         IF i > g THEN ms[i].turn = latest /\ ms[i].role \in {"assistant", "tool"}
         ELSE ms[i].turn # latest

(* What the model receives is a conversation a provider accepts.           *)
WellFormed(ms) == CallsAnswered(ms) /\ GoalOnce(ms, LatestTurn(log))

-----------------------------------------------------------------------------
(* Its size *)

RoomOf(budget) == IF budget > FixedTokens + GoalTokens THEN budget ELSE FixedTokens + GoalTokens

(* A projection keeps the budget, whatever is summarised: beyond it are    *)
(* only the system prompt and the goal, which no budget takes away, and    *)
(* the marker of a summary that was cut.                                   *)
Fits(ms, budget) ==
  LET summarised == \E i \in DOMAIN ms : ms[i].role = "summary"
  IN  Tokens(ms) <= RoomOf(budget) + (IF summarised THEN MarkerTokens ELSE 0)

Building == At("context")

(* Whatever is trimmed, the model is sent a conversation that a provider   *)
(* accepts and that fits.                                                  *)
ContextIsSound ==
  Building =>
    \A b \in Budgets :
      LET p == Projection(log, b) IN p.ok => WellFormed(p.messages) /\ Fits(p.messages, b)
=============================================================================
