---------------------------- MODULE SessionViews ----------------------------
(***************************************************************************)
(* What the web console shows of a session, computed from its log: the     *)
(* chat (session-query, session-projection), the phase and the pending     *)
(* approval, the records of the trace (trace/projector, policy-explain),   *)
(* and the delta that each event of the live stream carries.  The module   *)
(* has no state.  Texts, durations and details are left out: a record of   *)
(* the trace is its identity, the number of the last event that touched it *)
(* and its status.                                                         *)
(***************************************************************************)
EXTENDS SessionLog, FiniteSetsExt

-----------------------------------------------------------------------------
(* Turns and steps *)

\* Turns in the order of the log are their numbers.
Turns(log) == TurnsWith(log, EventTypes) \ {0}

StepOf(log, i) ==
  Cardinality({j \in 1..i : log[j].turn = log[i].turn /\ log[j].type = "step.started"})

Indices(log, types) == {i \in DOMAIN log : log[i].type \in types}
OfCall(log, c)      == {i \in DOMAIN log : log[i].call = c}
OfTurn(log, t)      == {i \in DOMAIN log : log[i].turn = t}

TurnOutcome(log, t) ==
  LET ends == OfTurn(log, t) \cap Indices(log, TurnTerminalTypes)
  IN  IF ends = {} THEN "running" ELSE log[Max(ends)].type

-----------------------------------------------------------------------------
(* The chat *)

ApprovalTypes == {"approval.requested", "approval.denied"}

\* Mutant: the first event about the call decides.
ToolStatusFirst(log, c) ==
  LET told == OfCall(log, c) \cap Indices(log, ToolTerminalTypes \cup ApprovalTypes \cup {"tool.started"})
  IN  IF told = {} THEN "running" ELSE log[Min(told)].type

\* The last event about the call that says how it stands.
ToolStatus(log, c) ==
  LET told == OfCall(log, c) \cap Indices(log, ToolTerminalTypes \cup ApprovalTypes \cup {"tool.started"})
  IN  IF told = {} THEN "running" ELSE log[Max(told)].type

\* Calls that an event of the turn says exist.
ChatTools(log, t) ==
  {log[i].call : i \in OfTurn(log, t) \cap
     Indices(log, {"model.tool_call", "tool.requested", "tool.started", "approval.requested"})}

\* For each step the last text of the model; it is partial if the step failed.
Responses(log, t) ==
  {StepOf(log, i) : i \in OfTurn(log, t) \cap Indices(log, {"model.text"})}

ChatTurn(log, t) ==
  [turn |-> t, status |-> TurnOutcome(log, t), responses |-> Responses(log, t),
   tools |-> [c \in ChatTools(log, t) |-> ToolStatus(log, c)]]

\* GET /chat: at most limit turns before a turn, the latest ones; 0 is no turn.
ChatPage(log, before, limit) ==
  LET older == {t \in Turns(log) : before = 0 \/ t < before}
      page == {t \in older : Cardinality({u \in older : u > t}) < limit}
  IN  [items |-> page, next |-> IF page = older THEN 0 ELSE Min(page)]

-----------------------------------------------------------------------------
(* The session: phase, pending approval, capabilities *)

Settles(log, i, c) ==
  log[i].call = c /\ log[i].type \in ToolTerminalTypes \cup {"approval.granted", "approval.denied"}

\* The latest approval that was asked for and not settled since.
PendingApproval(log) ==
  LET open == {i \in Indices(log, {"approval.requested"}) :
                 \A j \in i + 1 .. Len(log) : ~Settles(log, j, log[i].call)}
  IN  IF open = {} THEN NoCall ELSE log[Max(open)].call

Phase(log, activeHere) ==
  IF activeHere \/ IncompleteTurns(log) # {} THEN "running" ELSE
  LET ends == Indices(log, TurnTerminalTypes)
  IN  IF ends = {} THEN "idle" ELSE log[Max(ends)].type

\* projectRuntimeCapabilities() of a running service with a provider, for the
\* session that is selected.
Capabilities(log, activeHere) ==
  [submit |-> ~activeHere, cancel |-> activeHere,
   respond |-> activeHere /\ PendingApproval(log) # NoCall]

View(log, activeHere) ==
  [phase |-> Phase(log, activeHere), pending |-> PendingApproval(log),
   can |-> Capabilities(log, activeHere)]

-----------------------------------------------------------------------------
(* The trace *)

Id(kind, turn, step, call) == [kind |-> kind, turn |-> turn, step |-> step, call |-> call]
CallId(kind, c) == Id(kind, 0, 0, c)
Patch(id, status) == [id |-> id, status |-> status]

ModelStatus(type) ==
  CASE type = "model.completed" -> "completed"
    [] type = "model.failed"    -> "failed"
    [] OTHER                    -> "running"

ApprovalStatus(type) ==
  CASE type = "approval.requested" -> "pending"
    [] type = "approval.granted"   -> "allowed"
    [] type = "approval.denied"    -> "denied"

\* A call the user granted was authorised by the approval, not by the policy.
AuthorizedBy(log, i) ==
  IF \E j \in 1 .. i : log[j].type = "approval.granted" /\ log[j].call = log[i].call
  THEN "ask" ELSE "allow"

\* applyToolTerminal(), and the policy's record of a call that was denied.
TerminalPatches(e) ==
  {Patch(CallId("tool", e.call), e.type)}
    \cup IF e.type = "tool.denied" THEN {Patch(CallId("policy", e.call), "deny")} ELSE {}

\* applyEvent(): the records an event creates or changes.
Patches(log, i) ==
  LET e == log[i]
      stepId(kind) == Id(kind, e.turn, StepOf(log, i), NoCall)
  IN
  CASE e.type = "turn.started"         -> {Patch(Id("user", e.turn, 0, NoCall), "completed")}
    [] e.type = "context.projected"    -> {Patch(stepId("context"), "completed")}
    [] e.type \in {"model.started", "model.text", "model.completed", "model.failed"}
                                       -> {Patch(stepId("agent"), ModelStatus(e.type))}
    [] e.type \in {"tool.requested", "tool.started"}
                                       -> {Patch(CallId("tool", e.call), "running")}
    [] e.type = "approval.requested"   -> {Patch(CallId("approval", e.call), "pending"),
                                           Patch(CallId("policy", e.call), "ask")}
    [] e.type \in {"approval.granted", "approval.denied"}
                                       -> {Patch(CallId("approval", e.call), ApprovalStatus(e.type))}
    [] e.type = "tool.authorized"      -> {Patch(CallId("policy", e.call), AuthorizedBy(log, i))}
    [] e.type \in ToolTerminalTypes    -> TerminalPatches(e)
    [] e.type \in TurnTerminalTypes    -> {Patch(Id("turn", e.turn, 0, NoCall), e.type)}
    [] OTHER                           -> {}

AllPatches(log) ==
  UNION {{[at |-> i, id |-> p.id, status |-> p.status] : p \in Patches(log, i)} : i \in DOMAIN log}

\* Mutant: a record keeps the number of the event that created it.
StampFirst(touches) == Min(touches)

Stamp(touches) == Max(touches)

\* A record has the number of the last event that touched it.
Drafts(log) ==
  LET patches == AllPatches(log)
      draft(id) ==
        LET mine == {p \in patches : p.id = id}
            touches == {p.at : p \in mine}
        IN  [id |-> id, seq |-> log[Stamp(touches)].seq,
             status |-> (CHOOSE p \in mine : p.at = Max(touches)).status]
  IN  {draft(id) : id \in {p.id : p \in patches}}

\* policyExplainForToolCall(): what the events about a call, its request
\* apart, say of the decision.  A call that is refused as a repetition is
\* denied without a rule.
Explained(log, c) ==
  OfCall(log, c) \ Indices(log, {"model.tool_call", "tool.requested"})

Decision(log, c) ==
  LET has(type) == Explained(log, c) \cap Indices(log, {type}) # {}
      repeated == \E i \in Explained(log, c) : i > 1 /\ log[i - 1].type = "limit.reached"
  IN  CASE has("approval.requested")          -> "ask"
        [] ~has("approval.requested") /\ has("tool.authorized") -> "allow"
        [] ~has("approval.requested") /\ ~has("tool.authorized")
             /\ has("tool.denied") /\ ~repeated -> "deny"
        [] OTHER                              -> "unavailable"

\* approvalFromEvents(): a grant counts for more than a refusal, whatever the order.
ApprovalTold(log, c) ==
  LET has(type) == Explained(log, c) \cap Indices(log, {type}) # {}
  IN  CASE has("approval.granted")  -> "allowed"
        [] ~has("approval.granted") /\ has("approval.denied") -> "denied"
        [] ~has("approval.granted") /\ ~has("approval.denied") /\ has("approval.requested")
                                    -> "pending"
        [] OTHER                    -> "not_required"

\* Mutant: once a call has started it is shown as running.
ExecutionWhenStarted(log, c) ==
  IF Explained(log, c) \cap Indices(log, {"tool.started"}) # {} THEN "tool.started" ELSE "not_started"

\* executionFromEvents(): the last event that says how far the call came.
ExecutionTold(log, c) ==
  LET told == Explained(log, c)
                \cap Indices(log, ToolTerminalTypes \cup {"tool.authorized", "tool.started"})
  IN  IF told = {} THEN "not_started" ELSE log[Max(told)].type

\* refreshPolicies(): the record of a policy follows the explanation, and keeps
\* its number; one that no event drafted gets that of the call's first event.
Refreshed(log, drafts, c) ==
  LET mine == {d \in drafts : d.id = CallId("policy", c)}
  IN  [id |-> CallId("policy", c), status |-> Decision(log, c),
       seq |-> IF mine = {} THEN log[Min(OfCall(log, c))].seq ELSE (CHOOSE d \in mine : TRUE).seq]

TraceRecords(log) ==
  LET drafts == Drafts(log)
  IN  {d \in drafts : d.id.kind # "policy"}
      \cup {Refreshed(log, drafts, c) : c \in {k \in Call : Explained(log, k) # {}}}

-----------------------------------------------------------------------------
(* The live stream *)

\* Of the whole trace, the records of the last event.
Delta(records, log) == {r \in records : r.seq = Top(log)}

\* liveContext(): the turn is no longer active for the event that ends it.
LiveActive(log, activeHere) == activeHere /\ log[Len(log)].type \notin TurnTerminalTypes

\* upsertTrace() of the client.
Upsert(records, incoming) ==
  {r \in records : ~\E n \in incoming : n.id = r.id /\ n.seq >= r.seq}
  \cup {n \in incoming : ~\E r \in records : n.id = r.id /\ n.seq < r.seq}

\* projectStreamEvent()
StreamEvent(log, activeHere) ==
  LET e == log[Len(log)]
      view == View(log, LiveActive(log, activeHere))
      delta == Delta(TraceRecords(log), log)
  IN  [type  |-> CASE e.type = "approval.requested" /\ view.pending # NoCall -> "approval.pending"
                   [] e.type \in TurnTerminalTypes -> "turn.terminal"
                   [] OTHER -> IF delta = {} THEN "session.updated" ELSE "record.upsert",
       seq   |-> e.seq, view |-> view, trace |-> delta,
       chat  |-> IF Turns(log) = {} THEN {} ELSE {ChatTurn(log, Max(Turns(log)))}]
=============================================================================
