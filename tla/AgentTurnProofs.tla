-------------------------- MODULE AgentTurnProofs --------------------------
(***************************************************************************)
(* Theorems about AgentTurn, what it writes and what its readers see, for  *)
(* every value of the constants.  The sections follow the invariants, in   *)
(* the order of AgentTurnInvariants.  Before BegunInv come the lemmas on   *)
(* the context: what its recursive functions compute, and what the         *)
(* trimming keeps.  Before ViewInv come those on the trace: what one more  *)
(* event changes in its records.                                           *)
(***************************************************************************)
EXTENDS AgentTurnInvariants, FiniteSetTheorems, SequenceTheorems, TLAPS

-----------------------------------------------------------------------------
(* Lemmas about drafts, records and logs.                                  *)

LEMMA DraftTypes ==
  ASSUME NEW type \in EventTypes, NEW call \in Call \cup {NoCall},
         NEW o \in Op \cup {NoOp}
  PROVE  /\ Note(type) \in Draft
         /\ About(type, call) \in Draft
         /\ With(type, call, o) \in Draft
BY DEF Note, About, With, Draft

LEMMA RecordType ==
  ASSUME NEW seq \in Nat, NEW t \in Nat, NEW d \in Draft
  PROVE  /\ Record(seq, t, d) \in Event
         /\ Record(seq, t, d).seq = seq
         /\ Record(seq, t, d).turn = t
         /\ Record(seq, t, d).type = d.type
         /\ Record(seq, t, d).call = d.call
BY DEF Record, Draft, Event

LEMMA EventFields ==
  ASSUME NEW l \in Seq(Event), NEW i \in DOMAIN l
  PROVE  /\ l[i].seq \in Nat /\ l[i].turn \in Nat
         /\ l[i].call \in Call \cup {NoCall} /\ l[i].op \in Op \cup {NoOp}
<1>1. l[i] \in Event
  OBVIOUS
<1> QED BY <1>1 DEF Event

LEMMA TopType ==
  ASSUME NEW l \in Seq(Event)
  PROVE  Top(l) \in Nat
<1>1. CASE l = <<>>
  BY <1>1 DEF Top
<1>2. CASE l # <<>>
  <2>1. Len(l) \in DOMAIN l
    BY <1>2
  <2> QED BY <1>2, <2>1, EventFields DEF Top
<1> QED BY <1>1, <1>2

LEMMA CallsWithType ==
  ASSUME NEW l \in Seq(Event), NEW types
  PROVE  CallsWith(l, types) \subseteq Call \cup {NoCall}
BY EventFields DEF CallsWith

(* What one more event adds to the calls of a log.                         *)
LEMMA CallsWithAppend ==
  ASSUME NEW l \in Seq(Event), NEW r \in Event, NEW types
  PROVE  CallsWith(Append(l, r), types)
           = CallsWith(l, types) \cup (IF r.type \in types THEN {r.call} ELSE {})
<1> DEFINE m == Append(l, r)
<1>1. /\ Len(m) = Len(l) + 1 /\ Len(l) \in Nat
      /\ m[Len(l) + 1] = r
      /\ \A i \in 1 .. Len(l) : m[i] = l[i]
      /\ DOMAIN m = 1 .. Len(l) + 1 /\ DOMAIN l = 1 .. Len(l)
  OBVIOUS
<1>2. ASSUME NEW c \in CallsWith(m, types)
      PROVE  c \in CallsWith(l, types) \cup (IF r.type \in types THEN {r.call} ELSE {})
  <2>1. PICK i \in DOMAIN m : m[i].type \in types /\ c = m[i].call
    BY <1>2 DEF CallsWith
  <2>2. CASE i = Len(l) + 1
    BY <2>1, <2>2, <1>1
  <2>3. CASE i \in 1 .. Len(l)
    BY <2>1, <2>3, <1>1 DEF CallsWith
  <2> QED BY <2>1, <2>2, <2>3, <1>1
<1>3. ASSUME NEW c \in CallsWith(l, types) \cup (IF r.type \in types THEN {r.call} ELSE {})
      PROVE  c \in CallsWith(m, types)
  <2>1. CASE c \in CallsWith(l, types)
    <3>1. PICK i \in DOMAIN l : l[i].type \in types /\ c = l[i].call
      BY <2>1 DEF CallsWith
    <3> QED BY <3>1, <1>1 DEF CallsWith
  <2>2. CASE r.type \in types /\ c = r.call
    <3>1. Len(l) + 1 \in DOMAIN m /\ m[Len(l) + 1].type \in types
      BY <1>1, <2>2
    <3> QED BY <3>1, <1>1, <2>2 DEF CallsWith
  <2> QED BY <1>3, <2>1, <2>2
<1> QED BY <1>2, <1>3

(* What an append does to the store, whatever its outcome.                 *)
LEMMA AppendOutcome ==
  ASSUME log \in Seq(Event), cached \in Nat, faults \in Nat,
         NEW r \in Event, Persist(r) \/ AppendFails(r)
  PROVE  /\ log' \in Seq(Event) /\ cached' \in Nat /\ faults' \in Nat
         /\ log' = log \/ log' = Append(log, r)
<1>1. r.seq \in Nat
  BY DEF Event
<1>2. Append(log, r) \in Seq(Event)
  OBVIOUS
<1>3. CASE Persist(r)
  BY <1>1, <1>2, <1>3 DEF Persist
<1>4. CASE Refuse(r)
  BY <1>4 DEF Refuse
<1>5. CASE Lose(r)
  BY <1>5 DEF Lose, Fault
<1>6. CASE Blur(r)
  BY <1>2, <1>6 DEF Blur, Fault
<1> QED BY <1>3, <1>4, <1>5, <1>6 DEF AppendFails

-----------------------------------------------------------------------------
(* Type correctness                                                        *)

LEMMA TurnOfType ==
  ASSUME NEW l \in Seq(Event), NEW c \in RequestedIn(l)
  PROVE  TurnOf(l, c) \in Nat
<1>1. \E i \in DOMAIN l : l[i].type = "tool.requested" /\ l[i].call = c
  BY DEF RequestedIn, CallsWith
<1>2. PICK i \in DOMAIN l : TurnOf(l, c) = l[i].turn
  BY <1>1 DEF TurnOf
<1> QED BY <1>2, EventFields

LEMMA ShortScripts ==
  /\ <<>> \in Seq(Draft)
  /\ \A a \in Draft : <<a>> \in Seq(Draft)
  /\ \A a, b \in Draft : <<a, b>> \in Seq(Draft)
  /\ \A a, b, c \in Draft : <<a, b, c>> \in Seq(Draft)
OBVIOUS

LEMMA EventNames ==
  /\ {"turn.started", "turn.cancelled", "turn.failed", "turn.completed",
      "step.started", "context.projected", "model.started", "limit.reached",
      "model.failed", "model.completed", "model.changed", "session.started",
      "session.resumed"} \subseteq EventTypes
  /\ {"tool.requested", "tool.failed", "tool.denied", "tool.authorized",
      "tool.cancelled", "tool.started", "tool.completed", "approval.requested",
      "approval.denied", "approval.granted"} \subseteq EventTypes
BY DEF EventTypes, ToolTerminalTypes, TurnTerminalTypes

(* The scripts of the loop's decisions are scripts.                        *)
LEMMA DecisionScripts ==
  ASSUME NEW c \in Call \cup {NoCall}, NEW o \in Op \cup {NoOp}
  PROVE  /\ \A t \in {"turn.cancelled", "turn.failed", "step.started"} :
              <<Note(t)>> \in Seq(Draft)
         /\ <<Note("context.projected"), Note("model.started")>> \in Seq(Draft)
         /\ <<Note("limit.reached"), Note("turn.failed")>> \in Seq(Draft)
         /\ \A t \in {"tool.requested", "tool.failed", "tool.completed",
                       "tool.started", "tool.authorized", "approval.requested"} :
              <<About(t, c)>> \in Seq(Draft)
         /\ \A t \in {"tool.failed", "tool.denied"} :
              <<About(t, c), Note("turn.failed")>> \in Seq(Draft)
         /\ <<About("tool.cancelled", c), Note("turn.cancelled")>> \in Seq(Draft)
         /\ <<With("tool.authorized", c, o)>> \in Seq(Draft)
         /\ <<Note("limit.reached"), About("tool.denied", c), Note("turn.failed")>>
              \in Seq(Draft)
         /\ <<About("approval.denied", c), About("tool.denied", c), Note("turn.failed")>>
              \in Seq(Draft)
         /\ \A g \in Op \cup {NoOp} :
              <<With("approval.granted", c, g), With("tool.authorized", c, o)>>
              \in Seq(Draft)
<1>1. /\ \A t \in EventTypes : Note(t) \in Draft
      /\ \A t \in EventTypes : About(t, c) \in Draft
      /\ \A t \in EventTypes, g \in Op \cup {NoOp} : With(t, c, g) \in Draft
  BY DraftTypes
<1>2. /\ \A t \in EventTypes : <<Note(t)>> \in Seq(Draft)
      /\ \A t \in EventTypes : <<About(t, c)>> \in Seq(Draft)
      /\ \A t, u \in EventTypes : <<Note(t), Note(u)>> \in Seq(Draft)
      /\ \A t, u \in EventTypes : <<About(t, c), Note(u)>> \in Seq(Draft)
      /\ \A t, u \in EventTypes, g \in Op \cup {NoOp} :
           <<With(t, c, g), With(u, c, o)>> \in Seq(Draft)
      /\ \A t \in EventTypes : <<With(t, c, o)>> \in Seq(Draft)
      /\ \A t, u, v \in EventTypes : <<Note(t), About(u, c), Note(v)>> \in Seq(Draft)
      /\ \A t, u, v \in EventTypes : <<About(t, c), About(u, c), Note(v)>> \in Seq(Draft)
  BY <1>1, ShortScripts
<1> QED BY <1>2, EventNames

LEMMA ReplyScripts ==
  ASSUME NEW r \in Reply, NEW rest \in Seq(Draft)
  PROVE  /\ Preamble(r) \in Seq(Draft)
         /\ Preamble(r) \o rest \in Seq(Draft)
         /\ ToolCallNotes(r) \in Seq(Draft)
         /\ Preamble(r) \o ToolCallNotes(r) \o rest \in Seq(Draft)
<1>1. r.calls \in Seq(Call \cup {NoCall})
  BY ConstantsAssumption DEF ReplyType
<1>2. Note("model.reasoning") \in Draft /\ Note("model.text") \in Draft
  BY DraftTypes DEF EventTypes
<1>3. Preamble(r) \in Seq(Draft)
  <2>1. /\ Optional(r.reasoning, "model.reasoning") \in Seq(Draft)
        /\ Optional(r.text, "model.text") \in Seq(Draft)
    BY <1>2, ShortScripts DEF Optional
  <2> QED BY <2>1, ConcatProperties DEF Preamble
<1>4. ToolCallNotes(r) \in Seq(Draft)
  <2>1. \A i \in DOMAIN r.calls : About("model.tool_call", r.calls[i]) \in Draft
    <3>1. \A i \in DOMAIN r.calls : r.calls[i] \in Call \cup {NoCall}
      BY <1>1
    <3>2. "model.tool_call" \in EventTypes
      BY DEF EventTypes
    <3> QED BY <3>1, <3>2 DEF About, Draft
  <2>2. DOMAIN r.calls = 1 .. Len(r.calls) /\ Len(r.calls) \in Nat
    BY <1>1
  <2> QED BY <2>1, <2>2 DEF ToolCallNotes
<1> QED BY <1>3, <1>4, ConcatProperties

(* A valid reply has no empty identifier.                                  *)
LEMMA ValidCalls ==
  ASSUME NEW r \in Reply, ~InvalidIds(r)
  PROVE  r.calls \in Seq(Call)
<1>1. r.calls \in Seq(Call \cup {NoCall})
  BY ConstantsAssumption DEF ReplyType
<1>2. \A i \in 1 .. Len(r.calls) : r.calls[i] \in Call
  BY <1>1 DEF InvalidIds
<1>3. Len(r.calls) \in Nat /\ r.calls \in [1 .. Len(r.calls) -> Call \cup {NoCall}]
  BY <1>1
<1>4. r.calls \in [1 .. Len(r.calls) -> Call]
  BY <1>2, <1>3
<1> QED BY <1>3, <1>4

LEMMA TypeInvInit == Init => TypeInv
<1> SUFFICES ASSUME Init PROVE TypeInv
  OBVIOUS
<1>1. Note("session.started") \in Draft
  BY DraftTypes, EventNames
<1>2. log \in Seq(Event)
  BY <1>1, RecordType DEF Init
<1>3. log \in Seq(Event) /\ <<>> \in Seq(Event) /\ <<>> \in Seq(Draft) /\ <<>> \in Seq(Call)
  BY <1>2
<1>4. /\ sigs \in [Op -> Nat] /\ executed \in [Call -> Nat]
      /\ aborted \in BOOLEAN /\ active \in BOOLEAN
  BY DEF Init
<1>5. /\ calls = <<>> /\ script = <<>> /\ persisted = <<>>
      /\ cached = 1 /\ seqn = 0 /\ turn = 0 /\ step = 0 /\ next = 1 /\ wseq = 0
      /\ faults = 0 /\ crashes = 0 /\ writes = 0 /\ resumes = 0
      /\ pc = "idle" /\ wpc = "idle" /\ cur = NoCall /\ op = NoOp
      /\ approvals = {} /\ seen = {} /\ orphans = {}
  BY DEF Init
<1>6. /\ log \in Seq(Event) /\ persisted \in Seq(Event)
      /\ script \in Seq(Draft) /\ calls \in Seq(Call)
  BY <1>3, <1>5
<1>7. /\ pc \in Places /\ pc # "resume" /\ pc \notin {"ask", "waiting"}
      /\ wpc \in {"idle", "checked", "read"}
  BY <1>5 DEF Places
<1> QED BY <1>4, <1>5, <1>6, <1>7 DEF TypeInv, TypeOK

(* Steps that leave the log alone and decide what to emit.                 *)
LEMMA TypeInvDecision ==
  ASSUME TypeInv,
         StepTop \/ BuildContext \/ ModelFailed \/ EndOfStep \/ DispatchTool
           \/ EvaluateCall \/ AskApproval \/ Answer \/ ApprovalAborted
           \/ StartTool \/ ToolReturns
  PROVE  TypeInv'
<1> USE DEF TypeInv, TypeOK, Quiet, Same, Continue, At, storeVars, repairVars,
            writeVars, spentVars, Places
<1>0. cur \in Call \cup {NoCall} /\ op \in Op \cup {NoOp}
  OBVIOUS
<1>1. CASE StepTop
  <2>1. script' \in Seq(Draft)
    BY <1>1, DecisionScripts, ShortScripts, <1>0 DEF StepTop
  <2> QED BY <1>1, <2>1 DEF StepTop
<1>2. CASE BuildContext
  <2>1. script' \in Seq(Draft)
    BY <1>2, DecisionScripts, ShortScripts, <1>0 DEF BuildContext
  <2> QED BY <1>2, <2>1 DEF BuildContext
<1>3. CASE ModelFailed
  <2>1. script' \in Seq(Draft)
    BY <1>3, DecisionScripts, ShortScripts, <1>0 DEF ModelFailed
  <2> QED BY <1>3, <2>1 DEF ModelFailed
<1>4. CASE EndOfStep
  <2>1. script' \in Seq(Draft)
    BY <1>4, DecisionScripts, ShortScripts, <1>0 DEF EndOfStep
  <2> QED BY <1>4, <2>1 DEF EndOfStep
<1>5. CASE DispatchTool
  <2>1. calls[next] \in Call
    BY <1>5 DEF DispatchTool
  <2>2. script' \in Seq(Draft)
    BY <1>5, <2>1, DecisionScripts DEF DispatchTool
  <2> QED BY <1>5, <2>1, <2>2 DEF DispatchTool
<1>6. CASE EvaluateCall
  <2>1. CASE RejectInput
    <3>1. script' \in Seq(Draft)
      BY <2>1, DecisionScripts, ShortScripts, <1>0 DEF RejectInput
    <3> QED BY <1>6, <2>1, <3>1 DEF EvaluateCall, RejectInput
  <2>2. ASSUME NEW o \in Op, RepeatedTooOften(o)
        PROVE  TypeInv'
    <3>1. script' \in Seq(Draft)
      BY <2>2, DecisionScripts, ShortScripts, <1>0 DEF RepeatedTooOften
    <3>2. sigs' \in [Op -> Nat]
      BY <2>2 DEF RepeatedTooOften
    <3> QED BY <1>6, <2>2, <3>1, <3>2 DEF EvaluateCall, RepeatedTooOften
  <2>3. ASSUME NEW o \in Op, NEW verdict, NEW place \in Places, place # "resume",
               NEW drafts \in Seq(Draft), Judged(o, verdict, place, drafts)
        PROVE  TypeInv'
    <3>1. sigs' \in [Op -> Nat]
      BY <2>3 DEF Judged
    <3> QED BY <1>6, <2>3, <3>1 DEF EvaluateCall, Judged
  <2>4. ASSUME NEW o \in Op, Judged(o, "throws", "end", <<About("tool.failed", cur), Note("turn.failed")>>)
        PROVE  TypeInv'
    BY <2>3, <2>4, <1>0, DecisionScripts
  <2>5. ASSUME NEW o \in Op, Judged(o, "deny", "end", <<About("tool.denied", cur), Note("turn.failed")>>)
        PROVE  TypeInv'
    BY <2>3, <2>5, <1>0, DecisionScripts
  <2>6. ASSUME NEW o \in Op, Judged(o, "allow", "authorized", <<About("tool.authorized", cur)>>)
        PROVE  TypeInv'
    BY <2>3, <2>6, <1>0, DecisionScripts
  <2>7. ASSUME NEW o \in Op, Judged(o, "ask", "authorized", <<With("tool.authorized", cur, o)>>)
        PROVE  TypeInv'
    BY <2>3, <2>7, <1>0, DecisionScripts
  <2>8. ASSUME NEW o \in Op, Judged(o, "ask", "ask", <<About("approval.requested", cur)>>)
        PROVE  TypeInv'
    BY <2>3, <2>8, <1>0, DecisionScripts
  <2> QED BY <1>6, <2>1, <2>2, <2>4, <2>5, <2>6, <2>7, <2>8 DEF EvaluateCall
<1>7. CASE AskApproval
  <2>1. script' \in Seq(Draft)
    BY <1>7, DecisionScripts, ShortScripts, <1>0 DEF AskApproval, CancelCall
  <2> QED BY <1>7, <2>1 DEF AskApproval, CancelCall
<1>8. CASE Answer
  <2>1. script' \in Seq(Draft)
    <3>1. \A g \in Op \cup {NoOp} :
            <<With("approval.granted", cur, g), With("tool.authorized", cur, op)>>
            \in Seq(Draft)
      BY <1>0, DecisionScripts
    <3>2. <<About("approval.denied", cur), About("tool.denied", cur), Note("turn.failed")>>
            \in Seq(Draft)
      BY <1>0, DecisionScripts
    <3> QED BY <1>8, <1>0, <3>1, <3>2 DEF Answer, Grant
  <2>2. approvals' \subseteq Op
    BY <1>8 DEF Answer
  <2> QED BY <1>8, <2>1, <2>2 DEF Answer, Grant
<1>9. CASE ApprovalAborted
  <2>1. script' \in Seq(Draft)
    BY <1>9, DecisionScripts, ShortScripts, <1>0 DEF ApprovalAborted, CancelCall
  <2> QED BY <1>9, <2>1 DEF ApprovalAborted, CancelCall
<1>10. CASE StartTool
  <2>1. script' \in Seq(Draft)
    BY <1>10, DecisionScripts, ShortScripts, <1>0 DEF StartTool, CancelCall
  <2> QED BY <1>10, <2>1 DEF StartTool, CancelCall
<1>11. CASE ToolReturns
  <2>1. script' \in Seq(Draft)
    BY <1>11, DecisionScripts, ShortScripts, <1>0 DEF ToolReturns, CancelCall
  <2> QED BY <1>11, <2>1 DEF ToolReturns, CancelCall
<1> QED BY <1>1, <1>2, <1>3, <1>4, <1>5, <1>6, <1>7, <1>8, <1>9, <1>10, <1>11

LEMMA TypeInvReply ==
  ASSUME TypeInv, ModelReplies
  PROVE  TypeInv'
<1> USE DEF TypeInv, TypeOK, Quiet, Continue, At, storeVars, repairVars,
            writeVars, spentVars, Places
<1>1. PICK r \in Reply :
        ReplyBroken(r) \/ ReplyInvalid(r) \/ ReplyFinal(r) \/ ReplyWithTools(r)
  BY DEF ModelReplies
<1>2. \A t \in EventTypes : Note(t) \in Draft
  BY DraftTypes
<1>3. /\ <<Note("model.failed")>> \in Seq(Draft)
      /\ <<Note("model.failed"), Note("turn.failed")>> \in Seq(Draft)
      /\ <<Note("model.completed")>> \in Seq(Draft)
      /\ <<Note("model.completed"), Note(Outcome(r))>> \in Seq(Draft)
  BY <1>2, ShortScripts, EventNames DEF Outcome
<1>4. script' \in Seq(Draft)
  BY <1>1, <1>3, ReplyScripts
     DEF ReplyBroken, ReplyInvalid, ReplyFinal, ReplyWithTools
<1>5. /\ calls' \in Seq(Call) /\ next' \in Nat \ {0} /\ seen' \subseteq Call \cup {NoCall}
      /\ pc' \in {"modelCancelled", "modelFailed", "end", "dispatch"}
  <2>1. CASE ReplyWithTools(r)
    <3>1. r.calls \in Seq(Call)
      BY <2>1, ValidCalls DEF ReplyWithTools
    <3>2. \A i \in DOMAIN r.calls : r.calls[i] \in Call
      BY <3>1
    <3> QED BY <2>1, <3>1, <3>2 DEF ReplyWithTools
  <2> QED BY <1>1, <2>1 DEF ReplyBroken, ReplyInvalid, ReplyFinal
<1> QED BY <1>4, <1>5 DEF ModelReplies

(* Steps that append an event.                                             *)
LEMMA TypeInvAppend ==
  ASSUME TypeInv,
         Emit \/ EmitFails \/ RepairCall \/ RepairTurn \/ ResumeStep \/ WriteAppend
  PROVE  TypeInv'
<1> USE DEF TypeInv, TypeOK, turnVars, storeVars, repairVars, writeVars,
            spentVars, At, Continue
<1>1. ASSUME script # <<>>
      PROVE  CurrentRecord \in Event /\ Tail(script) \in Seq(Draft)
  <2>1. Head(script) \in Draft /\ Tail(script) \in Seq(Draft)
    BY <1>1, HeadTailProperties
  <2>2. seqn + 1 \in Nat
    OBVIOUS
  <2> QED BY <2>1, <2>2, RecordType DEF CurrentRecord
<1>2. CASE Emit
  <2>1. log' \in Seq(Event) /\ cached' \in Nat /\ faults' \in Nat
    BY <1>1, <1>2, AppendOutcome DEF Emit
  <2>2. RequestedIn(log) \subseteq RequestedIn(log')
    BY <1>1, <1>2, CallsWithAppend DEF Emit, Persist, RequestedIn
  <2> QED BY <1>1, <1>2, <2>1, <2>2 DEF Emit
<1>3. CASE EmitFails
  <2>1. log' \in Seq(Event) /\ cached' \in Nat /\ faults' \in Nat
    BY <1>1, <1>3, AppendOutcome DEF EmitFails
  <2> QED BY <1>3, <2>1, ShortScripts DEF EmitFails, Places
<1>4. CASE RepairCall
  <2>1. PICK c \in orphans :
          LET r == Record(seqn + 1, turn, About("tool.failed", c)) IN
          /\ orphans' = orphans \ {c}
          /\ \/ Persist(r) /\ persisted' = Append(persisted, r) /\ UNCHANGED pc
             \/ AppendFails(r) /\ pc' = "repairRefresh" /\ UNCHANGED persisted
    BY <1>4 DEF RepairCall
  <2> DEFINE r == Record(seqn + 1, turn, About("tool.failed", c))
  <2>2. r \in Event
    <3>1. About("tool.failed", c) \in Draft
      BY DraftTypes, EventNames
    <3>2. seqn + 1 \in Nat
      OBVIOUS
    <3> QED BY <3>1, <3>2, RecordType
  <2> HIDE DEF r
  <2>3. log' \in Seq(Event) /\ cached' \in Nat /\ faults' \in Nat
    BY <2>1, <2>2, AppendOutcome DEF r
  <2>4. persisted' \in Seq(Event)
    <3>1. persisted' \in {persisted, Append(persisted, r)}
      BY <2>1 DEF r
    <3>2. persisted \in Seq(Event)
      OBVIOUS
    <3>3. Append(persisted, r) \in Seq(Event)
      BY <3>2, <2>2, AppendProperties
    <3> QED BY <3>1, <3>2, <3>3
  <2> QED BY <1>4, <2>1, <2>3, <2>4 DEF RepairCall, Places
<1>5. CASE RepairTurn
  <2> DEFINE r == Record(Larger(seqn, Top(persisted)) + 1, turn, Note("turn.failed"))
  <2>1. r \in Event
    <3>1. Note("turn.failed") \in Draft
      BY DraftTypes, EventNames
    <3>2. Top(persisted) \in Nat
      BY TopType
    <3>3. Larger(seqn, Top(persisted)) + 1 \in Nat
      BY <3>2 DEF Larger
    <3> QED BY <3>1, <3>3, RecordType
  <2> HIDE DEF r
  <2>2. log' \in Seq(Event) /\ cached' \in Nat /\ faults' \in Nat
    BY <1>5, <2>1, AppendOutcome DEF RepairTurn, r
  <2>3. sigs' \in [Op -> Nat] /\ aborted' \in BOOLEAN /\ active' \in BOOLEAN
    BY <1>5 DEF RepairTurn, Return
  <2>4. /\ calls' \in Seq(Call) /\ script' \in Seq(Draft) /\ persisted' \in Seq(Event)
    BY <1>5 DEF RepairTurn, Return
  <2> QED BY <1>5, <2>2, <2>3, <2>4 DEF RepairTurn, Return, Places
<1>6. CASE WriteAppend
  <2>1. Record(wseq, 0, Note("model.changed")) \in Event
    BY DraftTypes, EventNames, RecordType
  <2>2. /\ log' \in Seq(Event) /\ cached' \in Nat /\ faults' \in Nat
        /\ log' = log \/ log' = Append(log, Record(wseq, 0, Note("model.changed")))
    BY <1>6, <2>1, AppendOutcome DEF WriteAppend
  <2>3. RequestedIn(log) \subseteq RequestedIn(log')
    <3> DEFINE r == Record(wseq, 0, Note("model.changed"))
    <3> HIDE DEF r
    <3>1. log' = log \/ log' = Append(log, r)
      BY <2>2 DEF r
    <3>2. r \in Event
      BY <2>1 DEF r
    <3>3. RequestedIn(Append(log, r)) = RequestedIn(log) \cup
             (IF r.type \in {"tool.requested"} THEN {r.call} ELSE {})
      BY <3>2, CallsWithAppend DEF RequestedIn
    <3> QED BY <3>1, <3>3
  <2> QED BY <1>6, <2>2, <2>3 DEF WriteAppend
<1>7. CASE ResumeStep
  <2>1. ASSUME NEW t \in Nat, NEW d \in Draft, ResumeAppend(t, d)
        PROVE  TypeInv'
    <3> DEFINE r == Record(seqn + 1, t, d)
    <3>1. r \in Event
      <4>1. seqn + 1 \in Nat
        OBVIOUS
      <4> QED BY <4>1, RecordType
    <3> HIDE DEF r
    <3>2. /\ log' \in Seq(Event) /\ cached' \in Nat /\ faults' \in Nat
          /\ log' = log \/ log' = Append(log, r)
      BY <2>1, <3>1, AppendOutcome DEF ResumeAppend, r
    <3>3. RequestedIn(log) \subseteq RequestedIn(log')
      <4>1. RequestedIn(Append(log, r)) = RequestedIn(log) \cup
               (IF r.type \in {"tool.requested"} THEN {r.call} ELSE {})
        BY <3>1, CallsWithAppend DEF RequestedIn
      <4> QED BY <3>2, <4>1
    <3>4. /\ orphans' \subseteq orphans /\ seqn' \in Nat /\ pc' \in {"idle", "resume"}
      BY <1>7, <2>1 DEF ResumeAppend, ResumeStep
    <3> QED BY <1>7, <3>2, <3>3, <3>4 DEF ResumeStep, Places
  <2>2. ASSUME NEW c \in orphans
        PROVE  TurnOf(log, c) \in Nat /\ About("tool.failed", c) \in Draft
    BY <1>7, TurnOfType, DraftTypes, EventNames DEF ResumeStep
  <2>3. ASSUME NEW t \in IncompleteTurns(log)
        PROVE  t \in Nat
    BY EventFields DEF IncompleteTurns, TurnsWith
  <2>4. Note("turn.failed") \in Draft /\ Note("session.resumed") \in Draft
    BY DraftTypes, EventNames
  <2> QED BY <1>7, <2>1, <2>2, <2>3, <2>4 DEF ResumeStep
<1> QED BY <1>2, <1>3, <1>4, <1>5, <1>6, <1>7

(* Whatever returns to idle resets the turn's state.                       *)
LEMMA ReturnType ==
  ASSUME TypeInv, Return, log' \in Seq(Event), cached' \in Nat, faults' \in Nat,
         wpc' \in {"idle", "checked", "read"}, wseq' \in Nat,
         crashes' \in Nat, writes' \in Nat, resumes' \in Nat
  PROVE  TypeInv'
<1>1. /\ sigs' \in [Op -> Nat] /\ aborted' \in BOOLEAN /\ active' \in BOOLEAN
      /\ executed' \in [Call -> Nat] /\ turn' \in Nat
  BY DEF Return, TypeInv, TypeOK
<1>2. calls' \in Seq(Call) /\ script' \in Seq(Draft) /\ persisted' \in Seq(Event)
  BY DEF Return, Continue
<1>3. /\ seqn' = 0 /\ step' = 0 /\ next' = 1 /\ cur' = NoCall /\ op' = NoOp
      /\ approvals' = {} /\ seen' = {} /\ orphans' = {} /\ pc' = "idle"
  BY DEF Return, Continue
<1>4. /\ pc' \in Places /\ pc' # "resume" /\ pc' \notin {"ask", "waiting"}
      /\ seqn' \in Nat /\ step' \in Nat /\ next' \in Nat \ {0}
  BY <1>3 DEF Places
<1> QED BY <1>1, <1>2, <1>3, <1>4 DEF TypeInv, TypeOK

(* The steps that leave the turn.                                          *)
LEMMA TypeInvReturning ==
  ASSUME TypeInv, EndTurn \/ RepairGivesUp \/ Crash
  PROVE  TypeInv'
<1>0. /\ log \in Seq(Event) /\ cached \in Nat /\ faults \in Nat
      /\ wpc \in {"idle", "checked", "read"} /\ wseq \in Nat
      /\ crashes \in Nat /\ writes \in Nat /\ resumes \in Nat
  BY DEF TypeInv, TypeOK
<1>1. CASE EndTurn
  <2>1. /\ Return /\ log' = log /\ cached' = cached /\ wpc' = wpc /\ wseq' = wseq
        /\ crashes' = crashes /\ writes' = writes /\ faults' = faults
        /\ resumes' = resumes
    BY <1>1 DEF EndTurn, storeVars, writeVars, spentVars
  <2> QED BY <1>0, <2>1, ReturnType
<1>2. CASE RepairGivesUp
  <2>1. /\ Return /\ log' = log /\ cached' = cached /\ wpc' = wpc /\ wseq' = wseq
        /\ crashes' = crashes /\ writes' = writes /\ resumes' = resumes
    BY <1>2 DEF RepairGivesUp, storeVars, writeVars, spentVars
  <2>2. faults' \in Nat
    BY <1>0, <1>2 DEF RepairGivesUp, ReadFails, Fault
  <2> QED BY <1>0, <2>1, <2>2, ReturnType
<1>3. CASE Crash
  <2>1. /\ Return /\ log' = log /\ cached' = 0 /\ wpc' = "idle" /\ wseq' = 0
        /\ crashes' = crashes + 1 /\ writes' = writes /\ faults' = faults
        /\ resumes' = resumes
    BY <1>3 DEF Crash, storeVars, writeVars, spentVars
  <2>2. crashes' \in Nat /\ cached' \in Nat /\ wseq' \in Nat
        /\ wpc' \in {"idle", "checked", "read"}
    BY <1>0, <2>1
  <2> QED BY <1>0, <2>1, <2>2, ReturnType
<1> QED BY <1>1, <1>2, <1>3

(* The other steps.                                                        *)
LEMMA TypeInvOther ==
  ASSUME TypeInv,
         BeginTurn \/ Execute \/ ToolThrowsStorage \/ EndTurn \/ Abort
           \/ RepairRead \/ RepairGivesUp \/ RepairRefresh \/ Resume
           \/ WriteCheck \/ WriteRead \/ Crash
  PROVE  TypeInv'
<1> USE DEF TypeInv, TypeOK, turnVars, storeVars, repairVars, writeVars,
            spentVars, At, Continue
<1>0. Top(log) \in Nat /\ Top(persisted) \in Nat
  BY TopType
<1>1. CASE BeginTurn
  <2>1. approvals' \subseteq Op
    BY <1>1, EventFields DEF BeginTurn, SessionGrants
  <2>2. seen' \subseteq Call \cup {NoCall}
    BY <1>1, CallsWithType DEF BeginTurn, SeenCalls
  <2>3. <<Note("turn.started")>> \in Seq(Draft)
    BY DraftTypes, ShortScripts, EventNames
  <2>4. sigs' \in [Op -> Nat] /\ calls' \in Seq(Call)
    BY <1>1 DEF BeginTurn
  <2>5. aborted' \in BOOLEAN /\ active' \in BOOLEAN
    BY <1>1 DEF BeginTurn
  <2>6. script' \in Seq(Draft)
    BY <1>1, <2>3 DEF BeginTurn
  <2>7. /\ turn' \in Nat /\ seqn' \in Nat /\ step' = 0 /\ next' = 1
        /\ cur' = NoCall /\ op' = NoOp /\ pc' = "stepTop" /\ faults' \in Nat
    BY <1>0, <1>1 DEF BeginTurn
  <2> QED BY <1>1, <2>1, <2>2, <2>4, <2>5, <2>6, <2>7 DEF BeginTurn, Places
<1>2. CASE Execute
  <2>1. executed' \in [Call -> Nat]
    <3>1. executed' = [executed EXCEPT ![cur] = @ + 1] /\ executed \in [Call -> Nat]
      BY <1>2 DEF Execute
    <3>2. CASE cur \in Call
      BY <3>1, <3>2
    <3>3. CASE cur \notin Call
      BY <3>1, <3>3
    <3> QED BY <3>2, <3>3
  <2> QED BY <1>2, <2>1 DEF Execute, Places
<1>3. CASE ToolThrowsStorage
  BY <1>3 DEF ToolThrowsStorage, Fault, Places
<1>5. CASE Abort
  BY <1>5 DEF Abort
<1>6. CASE RepairRead
  <2>1. orphans' \subseteq Call \cup {NoCall}
    BY <1>6, CallsWithType DEF RepairRead, DanglingCalls
  <2> QED BY <1>0, <1>6, <2>1 DEF RepairRead, Larger, Places
<1>8. CASE RepairRefresh
  BY <1>8 DEF RepairRefresh, ReadFails, Fault, Places
<1>9. CASE Resume
  <2>1. orphans' \subseteq Call \cup {NoCall} /\ orphans' \subseteq RequestedIn(log)
    BY <1>9, CallsWithType DEF Resume, DanglingCalls, RequestedIn
  <2> QED BY <1>0, <1>9, <2>1 DEF Resume, Places
<1>10. CASE WriteCheck
  BY <1>10 DEF WriteCheck
<1>11. CASE WriteRead
  BY <1>0, <1>11 DEF WriteRead
<1> QED BY <1>1, <1>2, <1>3, <1>5, <1>6, <1>8, <1>9, <1>10, <1>11, TypeInvReturning

LEMMA TypeInvStep == TypeInv /\ [Next]_vars => TypeInv'
<1> SUFFICES ASSUME TypeInv, [Next]_vars
             PROVE  TypeInv'
  OBVIOUS
<1>1. CASE LoopStep
  BY <1>1, TypeInvDecision, TypeInvReply, TypeInvAppend, TypeInvOther DEF LoopStep
<1>2. CASE UNCHANGED vars
  BY <1>2 DEF vars, TypeInv, TypeOK, RequestedIn, CallsWith
<1>3. CASE Done
  BY <1>2, <1>3 DEF Done
<1> QED BY <1>1, <1>2, <1>3, TypeInvDecision, TypeInvAppend, TypeInvOther DEF Next

(* Every variable keeps its type, for any replies, verdicts, limits and    *)
(* any number of faults, crashes, resumes and settings requests.           *)
THEOREM TypeCorrect == Spec => []TypeOK
<1>1. TypeInv => TypeOK
  BY DEF TypeInv
<1> QED BY TypeInvInit, TypeInvStep, <1>1, PTL DEF Spec

-----------------------------------------------------------------------------
(* The order of the file                                                   *)

LEMMA ReadableAppend ==
  ASSUME NEW l \in Seq(Event), Readable(l), NEW r \in Event, r.seq > Top(l)
  PROVE  Readable(Append(l, r)) /\ Top(Append(l, r)) = r.seq
<1> DEFINE m == Append(l, r)
<1>1. /\ Len(m) = Len(l) + 1 /\ Len(l) \in Nat /\ m # <<>>
      /\ m[Len(l) + 1] = r
      /\ \A i \in 1 .. Len(l) : m[i] = l[i]
  BY AppendProperties
<1>2. ASSUME NEW i \in 2 .. Len(m)
      PROVE  m[i - 1].seq < m[i].seq
  <2>1. CASE i = Len(m)
    <3>1. l # <<>> /\ m[i - 1] = l[Len(l)] /\ m[i] = r
      BY <1>1, <2>1
    <3>2. Top(l) = l[Len(l)].seq
      BY <3>1 DEF Top
    <3>3. r.seq \in Nat /\ l[Len(l)].seq \in Nat
      BY <3>1, <3>2, TopType DEF Event
    <3> QED BY <3>1, <3>2, <3>3
  <2>2. CASE i # Len(m)
    <3>1. i \in 2 .. Len(l) /\ m[i - 1] = l[i - 1] /\ m[i] = l[i]
      BY <1>1, <2>2
    <3> QED BY <3>1 DEF Readable
  <2> QED BY <2>1, <2>2
<1>3. Top(m) = r.seq
  BY <1>1 DEF Top
<1> QED BY <1>2, <1>3 DEF Readable

(* Every step leaves the file alone or is an append.                       *)
LEMMA StoreStep ==
  ASSUME TypeInv, [Next]_vars
  PROVE  \/ log' = log /\ cached' \in {0, cached}
         \/ \E r : Persist(r) \/ AppendFails(r)
<1>1. CASE Emit
  BY <1>1 DEF Emit
<1>2. CASE EmitFails
  BY <1>2 DEF EmitFails
<1>3. CASE RepairCall
  BY <1>3 DEF RepairCall
<1>4. CASE RepairTurn
  BY <1>4 DEF RepairTurn, storeVars
<1>5. CASE ResumeStep
  BY <1>5 DEF ResumeStep, ResumeAppend
<1>6. CASE WriteAppend
  BY <1>6 DEF WriteAppend
<1>7. CASE StepTop \/ BuildContext \/ ModelFailed \/ EndOfStep \/ DispatchTool
           \/ EvaluateCall \/ AskApproval \/ Answer \/ ApprovalAborted
           \/ StartTool \/ ToolReturns \/ ModelReplies
  BY <1>7 DEF StepTop, BuildContext, ModelFailed, EndOfStep, DispatchTool,
     EvaluateCall, AskApproval, Answer, ApprovalAborted, StartTool, ToolReturns,
     ModelReplies, Quiet, storeVars
<1>8. CASE BeginTurn \/ Execute \/ ToolThrowsStorage \/ EndTurn \/ Abort
           \/ RepairRead \/ RepairGivesUp \/ RepairRefresh \/ Resume
           \/ WriteCheck \/ WriteRead \/ Crash \/ Done \/ UNCHANGED vars
  BY <1>8 DEF BeginTurn, Execute, ToolThrowsStorage, EndTurn, Abort, RepairRead,
     RepairGivesUp, RepairRefresh, Resume, WriteCheck, WriteRead, Crash, Done,
     storeVars, vars
<1> QED BY <1>1, <1>2, <1>3, <1>4, <1>5, <1>6, <1>7, <1>8 DEF Next, LoopStep

(* Without ambiguous appends the file stays readable, whoever writes to it *)
(* and whatever else fails: each append is above the number the store took *)
(* from the file.                                                          *)
THEOREM LogStaysOrdered ==
  ASSUME "ambiguous" \notin FaultKind
  PROVE  Spec => []LogOrdered
<1>1. Init => OrderInv
  BY DEF Init, OrderInv, Readable, Top, Record
<1>2. TypeInv /\ TypeInv' /\ OrderInv /\ [Next]_vars => OrderInv'
  <2> SUFFICES ASSUME TypeInv, TypeInv', OrderInv, [Next]_vars
               PROVE  OrderInv'
    OBVIOUS
  <2>1. log \in Seq(Event) /\ log' \in Seq(Event) /\ cached \in Nat
    BY DEF TypeInv, TypeOK
  <2>2. CASE log' = log /\ cached' \in {0, cached}
    BY <2>2 DEF OrderInv
  <2>3. ASSUME NEW r, AppendFails(r)
        PROVE  OrderInv'
    <3>1. log' = log /\ cached' = cached
      BY <2>3 DEF AppendFails, Refuse, Lose, Blur, Fault
    <3> QED BY <3>1 DEF OrderInv
  <2>4. ASSUME NEW r, Persist(r)
        PROVE  OrderInv'
    <3>1. log' = Append(log, r) /\ cached' = r.seq /\ r.seq > LastSequence
      BY <2>4 DEF Persist
    <3>2. r \in Event
      <4>1. Len(log) + 1 \in 1 .. Len(log') /\ log'[Len(log) + 1] = r
        BY <2>1, <3>1
      <4> QED BY <2>1, <4>1, ElementOfSeq
    <3>3. LastSequence = Top(log)
      BY <2>1 DEF OrderInv, LastSequence
    <3>4. Readable(log') /\ Top(log') = r.seq
      BY <2>1, <3>1, <3>2, <3>3, ReadableAppend DEF OrderInv
    <3> QED BY <3>1, <3>4 DEF OrderInv
  <2> QED BY <2>2, <2>3, <2>4, StoreStep
<1>3. OrderInv => LogOrdered
  BY DEF OrderInv, LogOrdered
<1> QED BY TypeInvInit, TypeInvStep, <1>1, <1>2, <1>3, PTL DEF Spec

-----------------------------------------------------------------------------
(* One terminal event per call                                             *)

LEMMA CallInvInit == Init => CallInv
<1> SUFFICES ASSUME Init PROVE CallInv
  OBVIOUS
<1>1. /\ Len(log) = 1 /\ DOMAIN log = {1} /\ log[1].type = "session.started"
      /\ pc = "idle" /\ script = <<>>
  BY DEF Init, Record, Note
<1>2. Closed(log) = {}
  BY <1>1 DEF Closed, CallsWith, ToolTerminalTypes
<1>3. OneTerminalPerCall
  BY <1>1 DEF OneTerminalPerCall, ToolTerminalTypes
<1> QED BY <1>1, <1>2, <1>3 DEF CallInv, OneTerminal, TerminalsAreFresh, CallInHand,
        CallsToCome, CallsSeen, OrphansAreOpen, Busy, Repairing

(* What an append does to the calls on file.                               *)
LEMMA AppendKeepsOneTerminal ==
  ASSUME TypeInv, OneTerminal, NEW r \in Event,
         log' = log \/ log' = Append(log, r),
         r.type \in ToolTerminalTypes =>
           r.call \notin Closed(log) /\ r.call \in RequestedIn(log)
  PROVE  /\ OneTerminal'
         /\ Closed(log') \subseteq
              Closed(log) \cup (IF r.type \in ToolTerminalTypes THEN {r.call} ELSE {})
         /\ RequestedIn(log) \subseteq RequestedIn(log')
<1> log \in Seq(Event)
  BY DEF TypeInv, TypeOK
<1>1. CASE log' = log
  BY <1>1 DEF OneTerminal, OneTerminalPerCall, Closed, RequestedIn
<1>2. CASE log' = Append(log, r)
  <2>1. /\ Closed(log') =
             Closed(log) \cup (IF r.type \in ToolTerminalTypes THEN {r.call} ELSE {})
        /\ RequestedIn(log') =
             RequestedIn(log) \cup (IF r.type \in {"tool.requested"} THEN {r.call} ELSE {})
    BY <1>2, CallsWithAppend DEF Closed, RequestedIn
  <2>2. /\ Len(log') = Len(log) + 1 /\ Len(log) \in Nat
        /\ log'[Len(log) + 1] = r
        /\ \A i \in 1 .. Len(log) : log'[i] = log[i]
        /\ DOMAIN log' = 1 .. Len(log) + 1 /\ DOMAIN log = 1 .. Len(log)
    BY <1>2, AppendProperties
  <2>3. ASSUME NEW i \in 1 .. Len(log) + 1, log'[i].type \in ToolTerminalTypes,
               NEW j \in i + 1 .. Len(log) + 1, log'[j].type \in ToolTerminalTypes
        PROVE  log'[j].call # log'[i].call
    <3>1. i \in 1 .. Len(log) /\ log'[i] = log[i]
      BY <2>2
    <3>2. CASE j \in 1 .. Len(log)
      BY <2>2, <2>3, <3>1, <3>2 DEF OneTerminal, OneTerminalPerCall
    <3>3. CASE j = Len(log) + 1
      <4>1. log[i].call \in Closed(log)
        BY <2>2, <2>3, <3>1 DEF Closed, CallsWith
      <4> QED BY <2>2, <2>3, <3>1, <3>3, <4>1
    <3> QED BY <2>2, <3>2, <3>3
  <2>4. OneTerminalPerCall'
    BY <2>2, <2>3 DEF OneTerminalPerCall
  <2> QED BY <2>1, <2>4 DEF OneTerminal
<1> QED BY <1>1, <1>2

Silent(s) == \A i \in DOMAIN s : s[i].type \notin ToolTerminalTypes

(* The scripts of the loop's decisions, by the terminal events in them.    *)
LEMMA SilentScripts ==
  /\ Silent(<<>>)
  /\ \A t : t \notin ToolTerminalTypes => Silent(<<Note(t)>>)
  /\ \A t, u : {t, u} \cap ToolTerminalTypes = {} => Silent(<<Note(t), Note(u)>>)
  /\ \A t, c : t \notin ToolTerminalTypes => Silent(<<About(t, c)>>)
  /\ \A t, c, o : t \notin ToolTerminalTypes => Silent(<<With(t, c, o)>>)
  /\ \A t, u, c, o, p : {t, u} \cap ToolTerminalTypes = {} =>
       Silent(<<With(t, c, o), With(u, c, p)>>)
BY DEF Silent, Note, About, With

(* A step that leaves the file alone and queues no terminal event.         *)
LEMMA SilentStep ==
  ASSUME CallInv, UNCHANGED log, Silent(script')
  PROVE  OneTerminal' /\ TerminalsAreFresh'
BY DEF CallInv, OneTerminal, OneTerminalPerCall, TerminalsAreFresh, Closed,
       RequestedIn, Silent

Closes(s, c) ==
  /\ \E i \in DOMAIN s : s[i].type \in ToolTerminalTypes
  /\ \A i \in DOMAIN s : s[i].type \in ToolTerminalTypes =>
       /\ s[i].call = c
       /\ \A j \in DOMAIN s : s[j].type \in ToolTerminalTypes => j = i

LEMMA ClosingScripts ==
  ASSUME NEW c
  PROVE  /\ \A t \in ToolTerminalTypes : Closes(<<About(t, c)>>, c)
         /\ \A t \in ToolTerminalTypes : \A u :
              u \notin ToolTerminalTypes => Closes(<<About(t, c), Note(u)>>, c)
         /\ \A t \in ToolTerminalTypes : \A u, v :
              {u, v} \cap ToolTerminalTypes = {} =>
                /\ Closes(<<Note(u), About(t, c), Note(v)>>, c)
                /\ Closes(<<About(u, c), About(t, c), Note(v)>>, c)
<1>1. ASSUME NEW t \in ToolTerminalTypes
      PROVE  Closes(<<About(t, c)>>, c)
  BY DEF Closes, About
<1>2. ASSUME NEW t \in ToolTerminalTypes, NEW u, u \notin ToolTerminalTypes
      PROVE  Closes(<<About(t, c), Note(u)>>, c)
  <2> DEFINE s == <<About(t, c), Note(u)>>
  <2>1. /\ DOMAIN s = {1, 2} /\ s[1].type = t /\ s[1].call = c /\ s[2].type = u
    BY DEF About, Note
  <2> QED BY <1>2, <2>1 DEF Closes
<1>3. ASSUME NEW t \in ToolTerminalTypes, NEW u, NEW v,
             {u, v} \cap ToolTerminalTypes = {}
      PROVE  /\ Closes(<<Note(u), About(t, c), Note(v)>>, c)
             /\ Closes(<<About(u, c), About(t, c), Note(v)>>, c)
  <2> DEFINE s == <<Note(u), About(t, c), Note(v)>>
             w == <<About(u, c), About(t, c), Note(v)>>
  <2>1. /\ DOMAIN s = {1, 2, 3} /\ s[1].type = u /\ s[2].type = t
        /\ s[2].call = c /\ s[3].type = v
    BY DEF About, Note
  <2>2. /\ DOMAIN w = {1, 2, 3} /\ w[1].type = u /\ w[2].type = t
        /\ w[2].call = c /\ w[3].type = v
    BY DEF About, Note
  <2>3. Closes(s, c)
    BY <1>3, <2>1 DEF Closes
  <2>4. Closes(w, c)
    BY <1>3, <2>2 DEF Closes
  <2> QED BY <2>3, <2>4
<1> QED BY <1>1, <1>2, <1>3

(* A step that queues the terminal event of the call in hand.              *)
LEMMA ClosingStep ==
  ASSUME CallInv, pc \in Busy, script = <<>>, pc' \in {"dispatch", "end"},
         UNCHANGED <<log, cur, seen, calls, next>>, Closes(script', cur)
  PROVE  CallInv'
<1>1. /\ cur \notin Closed(log) /\ cur \in seen /\ cur \in RequestedIn(log)
  BY DEF CallInv, CallInHand
<1>2. OneTerminal'
  BY DEF CallInv, OneTerminal, OneTerminalPerCall, Closed, RequestedIn
<1>3. TerminalsAreFresh'
  BY <1>1 DEF TerminalsAreFresh, Closes, Closed, RequestedIn
<1>4. CallsSeen' /\ CallInHand' /\ OrphansAreOpen'
  BY <1>1 DEF CallInv, CallsSeen, CallInHand, OrphansAreOpen, Closed, Busy, Repairing
<1>5. CallsToCome'
  BY DEF CallInv, CallsToCome, Closed
<1> QED BY <1>2, <1>3, <1>4, <1>5 DEF CallInv

(* A step within the handling of a call.                                   *)
LEMMA BusyStep ==
  ASSUME CallInv, pc \in Busy, script = <<>>, pc' \in Busy, Silent(script'),
         UNCHANGED <<log, cur, seen, calls, next>>
  PROVE  CallInv'
<1>1. OneTerminal' /\ TerminalsAreFresh'
  BY SilentStep
<1>2. /\ cur \notin Closed(log) /\ cur \in seen /\ cur \in RequestedIn(log)
  BY DEF CallInv, CallInHand
<1>3. CallInHand' /\ CallsToCome' /\ CallsSeen' /\ OrphansAreOpen'
  BY <1>2 DEF CallInv, CallInHand, CallsToCome, CallsSeen, OrphansAreOpen, Busy,
     Repairing, Closed, RequestedIn
<1> QED BY <1>1, <1>3 DEF CallInv

Apart == {"stepTop", "context", "model", "modelCancelled", "modelFailed", "end"}

(* A step of the loop that leaves no call in hand and none to come.        *)
LEMMA ApartStep ==
  ASSUME CallInv, pc \notin {"idle", "repair"} \cup Repairing, pc' \in Apart,
         Silent(script'), UNCHANGED <<log, cur, seen>>
  PROVE  CallInv'
<1>1. OneTerminal' /\ TerminalsAreFresh'
  BY SilentStep
<1>2. CallInHand' /\ CallsToCome' /\ CallsSeen' /\ OrphansAreOpen'
  BY DEF CallInv, CallInHand, CallsToCome, CallsSeen, OrphansAreOpen, Busy,
     Repairing, Closed, Apart
<1> QED BY <1>1, <1>2 DEF CallInv

(* A step to a place where nothing is queued and no call is held.          *)
LEMMA RestStep ==
  ASSUME OneTerminal', pc' \in {"idle", "repair"}, script' = <<>>
  PROVE  CallInv'
BY DEF CallInv, TerminalsAreFresh, CallInHand, CallsToCome, CallsSeen,
       OrphansAreOpen, Busy, Repairing

(* A step that changes nothing the invariant speaks of.                    *)
LEMMA FrameStep ==
  ASSUME CallInv, UNCHANGED <<log, pc, script, cur, seen, calls, next, orphans>>
  PROVE  CallInv'
BY DEF CallInv, OneTerminal, OneTerminalPerCall, TerminalsAreFresh, CallInHand,
       CallsToCome, CallsSeen, OrphansAreOpen, Closed, RequestedIn

LEMMA CallInvDecision ==
  ASSUME TypeInv, CallInv,
         StepTop \/ BuildContext \/ ModelFailed \/ EndOfStep \/ DispatchTool
           \/ EvaluateCall \/ AskApproval \/ Answer \/ ApprovalAborted
           \/ StartTool \/ Execute \/ ToolReturns
  PROVE  CallInv'
<1> USE DEF Quiet, Same, At, Continue, storeVars, turnVars
<1>1. CASE StepTop
  <2>1. Silent(script')
    BY <1>1, SilentScripts DEF StepTop, ToolTerminalTypes
  <2> QED BY <1>1, <2>1, ApartStep DEF StepTop, Apart, Repairing
<1>2. CASE BuildContext
  <2>1. Silent(script')
    BY <1>2, SilentScripts DEF BuildContext, ToolTerminalTypes
  <2> QED BY <1>2, <2>1, ApartStep DEF BuildContext, Apart, Repairing
<1>3. CASE ModelFailed
  <2>1. Silent(script')
    BY <1>3, SilentScripts DEF ModelFailed, ToolTerminalTypes
  <2> QED BY <1>3, <2>1, ApartStep DEF ModelFailed, Apart, Repairing
<1>4. CASE EndOfStep
  <2>1. Silent(script')
    BY <1>4, SilentScripts DEF EndOfStep, ToolTerminalTypes
  <2> QED BY <1>4, <2>1, ApartStep DEF EndOfStep, Apart, Repairing
<1>5. CASE DispatchTool
  <2>1. CASE aborted
    <3>1. Silent(script')
      BY <1>5, <2>1, SilentScripts DEF DispatchTool, ToolTerminalTypes
    <3> QED BY <1>5, <2>1, <3>1, ApartStep DEF DispatchTool, Apart, Repairing
  <2>2. CASE ~aborted
    <3>1. /\ pc = "dispatch" /\ pc' = "evaluate" /\ cur' = calls[next] /\ next' = next + 1
          /\ script' = <<About("tool.requested", cur')>>
          /\ next \in Nat \ {0} /\ Len(calls) \in Nat /\ next \in next .. Len(calls)
          /\ UNCHANGED <<log, seen, calls>>
      BY <1>5, <2>2 DEF DispatchTool, TypeInv, TypeOK
    <3>2. /\ cur' \notin Closed(log) /\ cur' \in seen
          /\ \A j \in next + 1 .. Len(calls) : calls[j] # cur'
      BY <3>1 DEF CallInv, CallsToCome
    <3>3. OneTerminal' /\ TerminalsAreFresh'
      BY <3>1, SilentScripts, SilentStep DEF ToolTerminalTypes
    <3>4. CallsToCome'
      BY <3>1, <3>2 DEF CallInv, CallsToCome, Closed
    <3>5. CallInHand' /\ CallsSeen' /\ OrphansAreOpen'
      BY <3>1, <3>2 DEF CallInv, CallInHand, CallsSeen, OrphansAreOpen, Busy,
         Repairing, Closed
    <3> QED BY <3>3, <3>4, <3>5 DEF CallInv
  <2> QED BY <2>1, <2>2
<1>6. CASE EvaluateCall
  <2>1. pc \in Busy /\ script = <<>> /\ UNCHANGED <<log, cur, seen, calls, next>>
    BY <1>6 DEF EvaluateCall, Busy
  <2>2. \/ pc' \in {"dispatch", "end"} /\ Closes(script', cur)
        \/ pc' \in Busy /\ Silent(script')
    <3> DEFINE Kept == \/ pc' \in {"dispatch", "end"} /\ Closes(script', cur)
                       \/ pc' \in Busy /\ Silent(script')
    <3>0. /\ Closes(<<About("tool.failed", cur)>>, cur)
          /\ Closes(<<About("tool.failed", cur), Note("turn.failed")>>, cur)
          /\ Closes(<<About("tool.denied", cur), Note("turn.failed")>>, cur)
          /\ Closes(<<Note("limit.reached"), About("tool.denied", cur),
                      Note("turn.failed")>>, cur)
          /\ Silent(<<About("tool.authorized", cur)>>)
          /\ Silent(<<About("approval.requested", cur)>>)
          /\ \A o : Silent(<<With("tool.authorized", cur, o)>>)
      BY SilentScripts, ClosingScripts DEF ToolTerminalTypes
    <3>1. CASE RejectInput
      BY <3>0, <3>1 DEF RejectInput
    <3>2. ASSUME NEW o \in Op, RepeatedTooOften(o)
          PROVE  Kept
      BY <3>0, <3>2 DEF RepeatedTooOften
    <3>3. ASSUME NEW o \in Op, NEW v \in {"throws", "deny"}, NEW t,
                 Closes(t, cur), Judged(o, v, "end", t)
          PROVE  Kept
      BY <3>3 DEF Judged
    <3>4. ASSUME NEW o \in Op, NEW v \in {"allow", "ask"}, NEW t,
                 NEW place \in {"authorized", "ask"},
                 Silent(t), Judged(o, v, place, t)
          PROVE  Kept
      BY <3>4 DEF Judged, Busy
    <3>5. ASSUME NEW o \in Op,
            \/ RepeatedTooOften(o)
            \/ Judged(o, "throws", "end", <<About("tool.failed", cur), Note("turn.failed")>>)
            \/ Judged(o, "deny", "end", <<About("tool.denied", cur), Note("turn.failed")>>)
            \/ Judged(o, "allow", "authorized", <<About("tool.authorized", cur)>>)
            \/ Judged(o, "ask", "authorized", <<With("tool.authorized", cur, o)>>)
            \/ Judged(o, "ask", "ask", <<About("approval.requested", cur)>>)
          PROVE  Kept
      BY <3>0, <3>2, <3>3, <3>4, <3>5
    <3> QED BY <1>6, <3>1, <3>5 DEF EvaluateCall
  <2> QED BY <2>1, <2>2, ClosingStep, BusyStep
<1>7. CASE AskApproval \/ ApprovalAborted \/ StartTool
  <2>1. pc \in Busy /\ script = <<>> /\ UNCHANGED <<log, cur, seen, calls, next>>
    BY <1>7 DEF AskApproval, ApprovalAborted, StartTool, Busy
  <2>2. \/ pc' = "end" /\ Closes(script', cur)
        \/ pc' \in Busy /\ Silent(script')
    BY <1>7, SilentScripts, ClosingScripts
       DEF AskApproval, ApprovalAborted, StartTool, CancelCall, Busy, ToolTerminalTypes
  <2> QED BY <2>1, <2>2, ClosingStep, BusyStep
<1>8. CASE Answer
  <2>1. pc \in Busy /\ script = <<>> /\ UNCHANGED <<log, cur, seen, calls, next>>
    BY <1>8 DEF Answer, Busy
  <2>2. \/ pc' = "end" /\ Closes(script', cur)
        \/ pc' \in Busy /\ Silent(script')
    BY <1>8, SilentScripts, ClosingScripts DEF Answer, Grant, Busy, ToolTerminalTypes
  <2> QED BY <2>1, <2>2, ClosingStep, BusyStep
<1>9. CASE Execute
  <2>1. /\ pc \in Busy /\ script = <<>> /\ UNCHANGED <<log, cur, seen, calls, next>>
        /\ pc' \in Busy /\ Silent(script')
    BY <1>9, SilentScripts DEF Execute, Busy
  <2> QED BY <2>1, BusyStep
<1>10. CASE ToolReturns
  <2>1. pc \in Busy /\ script = <<>> /\ UNCHANGED <<log, cur, seen, calls, next>>
    BY <1>10 DEF ToolReturns, Busy
  <2>2. pc' \in {"dispatch", "end"} /\ Closes(script', cur)
    BY <1>10, ClosingScripts DEF ToolReturns, CancelCall, ToolTerminalTypes
  <2> QED BY <2>1, <2>2, ClosingStep
<1> QED BY <1>1, <1>2, <1>3, <1>4, <1>5, <1>6, <1>7, <1>8, <1>9, <1>10

LEMMA SilentConcat ==
  ASSUME NEW a \in Seq(Draft), NEW b \in Seq(Draft), Silent(a), Silent(b)
  PROVE  Silent(a \o b)
<1>1. /\ a \o b \in Seq(Draft) /\ Len(a \o b) = Len(a) + Len(b)
      /\ \A i \in 1 .. Len(a) + Len(b) :
           (a \o b)[i] = IF i <= Len(a) THEN a[i] ELSE b[i - Len(a)]
  BY ConcatProperties
<1>2. /\ DOMAIN (a \o b) = 1 .. Len(a) + Len(b) /\ Len(a) \in Nat /\ Len(b) \in Nat
      /\ DOMAIN a = 1 .. Len(a) /\ DOMAIN b = 1 .. Len(b)
  BY <1>1
<1>3. ASSUME NEW i \in 1 .. Len(a) + Len(b)
      PROVE  (a \o b)[i].type \notin ToolTerminalTypes
  <2>1. CASE i <= Len(a)
    BY <1>1, <1>2, <2>1 DEF Silent
  <2>2. CASE i > Len(a)
    <3>1. i - Len(a) \in DOMAIN b
      BY <1>2, <2>2
    <3> QED BY <1>1, <1>2, <2>2, <3>1 DEF Silent
  <2> QED BY <1>2, <2>1, <2>2
<1> QED BY <1>2, <1>3 DEF Silent

LEMMA SilentReply ==
  ASSUME NEW r \in Reply, NEW rest \in Seq(Draft), Silent(rest)
  PROVE  Silent(Preamble(r) \o rest) /\ Silent(Preamble(r) \o ToolCallNotes(r) \o rest)
<1>1. /\ Preamble(r) \in Seq(Draft) /\ ToolCallNotes(r) \in Seq(Draft)
      /\ Preamble(r) \o ToolCallNotes(r) \in Seq(Draft)
  BY ReplyScripts, ConcatProperties
<1>2. Silent(Preamble(r))
  <2>1. /\ Note("model.reasoning") \in Draft /\ Note("model.text") \in Draft
    BY DraftTypes DEF EventTypes
  <2>2. /\ Optional(r.reasoning, "model.reasoning") \in Seq(Draft)
        /\ Optional(r.text, "model.text") \in Seq(Draft)
    BY <2>1, ShortScripts DEF Optional
  <2>3. /\ Silent(Optional(r.reasoning, "model.reasoning"))
        /\ Silent(Optional(r.text, "model.text"))
    BY SilentScripts DEF Optional, ToolTerminalTypes
  <2> QED BY <2>2, <2>3, SilentConcat DEF Preamble
<1>3. Silent(ToolCallNotes(r))
  BY DEF Silent, ToolCallNotes, About, ToolTerminalTypes
<1>4. Silent(Preamble(r) \o ToolCallNotes(r))
  BY <1>1, <1>2, <1>3, SilentConcat
<1> QED BY <1>1, <1>2, <1>4, SilentConcat

LEMMA CallInvReply ==
  ASSUME TypeInv, CallInv, ModelReplies
  PROVE  CallInv'
<1> USE DEF Quiet, At, Continue, storeVars
<1>1. PICK r \in Reply :
        ReplyBroken(r) \/ ReplyInvalid(r) \/ ReplyFinal(r) \/ ReplyWithTools(r)
  BY DEF ModelReplies
<1>2. pc = "model" /\ script = <<>> /\ UNCHANGED <<log, cur>>
  BY DEF ModelReplies
<1>3. /\ <<Note("model.failed")>> \in Seq(Draft)
      /\ <<Note("model.failed"), Note("turn.failed")>> \in Seq(Draft)
      /\ <<Note("model.completed")>> \in Seq(Draft)
      /\ <<Note("model.completed"), Note(Outcome(r))>> \in Seq(Draft)
  <2>1. \A t \in EventTypes : Note(t) \in Draft
    BY DraftTypes
  <2> QED BY <2>1, ShortScripts, EventNames DEF Outcome
<1>4. /\ Silent(<<Note("model.failed")>>)
      /\ Silent(<<Note("model.failed"), Note("turn.failed")>>)
      /\ Silent(<<Note("model.completed")>>)
      /\ Silent(<<Note("model.completed"), Note(Outcome(r))>>)
  BY SilentScripts DEF Outcome, ToolTerminalTypes
<1>5. Silent(script')
  BY <1>1, <1>3, <1>4, SilentReply
     DEF ReplyBroken, ReplyInvalid, ReplyFinal, ReplyWithTools
<1>6. CASE ReplyBroken(r) \/ ReplyInvalid(r) \/ ReplyFinal(r)
  <2>1. pc' \in Apart /\ UNCHANGED seen
    BY <1>6 DEF ReplyBroken, ReplyInvalid, ReplyFinal, Apart
  <2> QED BY <1>2, <1>5, <2>1, ApartStep DEF Repairing
<1>7. CASE ReplyWithTools(r)
  <2>1. /\ pc' = "dispatch" /\ calls' = r.calls /\ next' = 1
        /\ seen' = seen \cup {r.calls[i] : i \in DOMAIN r.calls} /\ ~InvalidIds(r)
    BY <1>7 DEF ReplyWithTools
  <2>2. Closed(log) \subseteq seen /\ cur \in seen \cup {NoCall}
    BY <1>2 DEF CallInv, CallsSeen, Repairing
  <2>3. r.calls \in Seq(Call \cup {NoCall})
    BY ConstantsAssumption DEF ReplyType
  <2>4. CallsToCome'
    <3> SUFFICES ASSUME NEW i \in 1 .. Len(r.calls)
                 PROVE  /\ r.calls[i] \notin Closed(log) /\ r.calls[i] # cur
                        /\ r.calls[i] \in seen'
                        /\ \A j \in i + 1 .. Len(r.calls) : r.calls[j] # r.calls[i]
      BY <1>2, <2>1 DEF CallsToCome, Closed
    <3>1. DOMAIN r.calls = 1 .. Len(r.calls) /\ Len(r.calls) \in Nat
      BY <2>3
    <3>2. r.calls[i] \notin seen \cup {NoCall}
      BY <2>1, <3>1 DEF InvalidIds
    <3>3. \A j \in i + 1 .. Len(r.calls) : r.calls[j] # r.calls[i]
      BY <2>1, <3>1 DEF InvalidIds
    <3> QED BY <2>1, <2>2, <3>1, <3>2, <3>3
  <2>5. OneTerminal' /\ TerminalsAreFresh'
    BY <1>2, <1>5, SilentStep
  <2>6. CallInHand' /\ CallsSeen' /\ OrphansAreOpen'
    BY <1>2, <2>1, <2>2 DEF CallInHand, CallsSeen, OrphansAreOpen, Busy, Repairing, Closed
  <2> QED BY <2>4, <2>5, <2>6 DEF CallInv
<1> QED BY <1>1, <1>6, <1>7

(* The next event of the script is a terminal one only for a call that may *)
(* have one.                                                               *)
LEMMA HeadIsFresh ==
  ASSUME TypeInv, CallInv, script # <<>>
  PROVE  /\ CurrentRecord \in Event
         /\ CurrentRecord.type = script[1].type /\ CurrentRecord.call = script[1].call
         /\ 1 \in DOMAIN script
         /\ script[1].type \in ToolTerminalTypes =>
              /\ script[1].call = cur /\ cur \notin Closed(log)
              /\ cur \in RequestedIn(log) /\ cur \in seen /\ pc \in {"dispatch", "end"}
<1>1. script \in Seq(Draft) /\ seqn + 1 \in Nat /\ turn \in Nat
  BY DEF TypeInv, TypeOK
<1>2. Head(script) = script[1] /\ script[1] \in Draft /\ 1 \in DOMAIN script
  BY <1>1
<1>3. /\ CurrentRecord \in Event
      /\ CurrentRecord.type = script[1].type /\ CurrentRecord.call = script[1].call
  BY <1>1, <1>2, RecordType DEF CurrentRecord
<1> QED BY <1>2, <1>3 DEF CallInv, TerminalsAreFresh

LEMMA CallInvEmit ==
  ASSUME TypeInv, CallInv, Emit
  PROVE  CallInv'
<1> DEFINE r == CurrentRecord
           d == script[1]
<1>1. /\ script # <<>> /\ script \in Seq(Draft) /\ log \in Seq(Event)
      /\ log' = Append(log, r)
      /\ UNCHANGED <<pc, cur, seen, calls, next, orphans>>
  BY DEF Emit, Persist, TypeInv, TypeOK, turnVars, repairVars
<1>2. /\ r \in Event /\ r.type = d.type /\ r.call = d.call /\ 1 \in DOMAIN script
      /\ d.type \in ToolTerminalTypes =>
           /\ d.call = cur /\ cur \notin Closed(log)
           /\ cur \in RequestedIn(log) /\ cur \in seen /\ pc \in {"dispatch", "end"}
  BY <1>1, HeadIsFresh
<1>3. /\ Len(script') = Len(script) - 1 /\ Len(script) \in Nat
      /\ DOMAIN script' = 1 .. Len(script) - 1 /\ DOMAIN script = 1 .. Len(script)
      /\ \A i \in 1 .. Len(script) - 1 : script'[i] = script[i + 1]
  BY <1>1, HeadTailProperties DEF Emit
<1> HIDE DEF r, d
<1>4. /\ OneTerminal'
      /\ Closed(log') \subseteq
           Closed(log) \cup (IF d.type \in ToolTerminalTypes THEN {cur} ELSE {})
      /\ RequestedIn(log) \subseteq RequestedIn(log')
  BY <1>1, <1>2, AppendKeepsOneTerminal DEF CallInv
<1>5. TerminalsAreFresh'
  <2> SUFFICES ASSUME NEW i \in 1 .. Len(script) - 1,
                      script'[i].type \in ToolTerminalTypes
               PROVE  /\ script'[i].call = cur
                      /\ cur \notin Closed(log') /\ cur \in RequestedIn(log') /\ cur \in seen
                      /\ \A j \in 1 .. Len(script) - 1 :
                           script'[j].type \in ToolTerminalTypes => j = i
                      /\ pc \in {"dispatch", "end"}
    BY <1>1, <1>3 DEF TerminalsAreFresh, Closed, RequestedIn
  <2>1. /\ i + 1 \in DOMAIN script /\ script[i + 1].type \in ToolTerminalTypes
        /\ script'[i] = script[i + 1]
    BY <1>3
  <2>2. /\ script[i + 1].call = cur
        /\ cur \notin Closed(log) /\ cur \in RequestedIn(log) /\ cur \in seen
        /\ \A j \in DOMAIN script : script[j].type \in ToolTerminalTypes => j = i + 1
        /\ pc \in {"dispatch", "end"}
    BY <2>1 DEF CallInv, TerminalsAreFresh
  <2>3. d.type \notin ToolTerminalTypes
    BY <1>2, <1>3, <2>2 DEF d
  <2>4. \A j \in 1 .. Len(script) - 1 : script'[j].type \in ToolTerminalTypes => j = i
    <3> SUFFICES ASSUME NEW j \in 1 .. Len(script) - 1, script'[j].type \in ToolTerminalTypes
                 PROVE  j = i
      OBVIOUS
    <3>1. j + 1 \in DOMAIN script /\ script[j + 1].type \in ToolTerminalTypes
      BY <1>3
    <3> QED BY <2>2, <3>1, <1>3
  <2> QED BY <1>4, <2>1, <2>2, <2>3, <2>4
<1>6. CallInHand'
  <2> SUFFICES ASSUME pc \in Busy
               PROVE  /\ cur \notin Closed(log') /\ cur \in seen
                      /\ cur \in RequestedIn(log')
    BY <1>1 DEF CallInHand, Closed, RequestedIn
  <2>1. d.type \notin ToolTerminalTypes
    BY <1>2 DEF Busy
  <2>2. CASE cur \in RequestedIn(log)
    BY <1>4, <2>1, <2>2 DEF CallInv, CallInHand
  <2>3. CASE script = <<About("tool.requested", cur)>>
    <3>1. r.type = "tool.requested" /\ r.call = cur
      BY <1>2, <2>3 DEF d, About
    <3>2. cur \in RequestedIn(log')
      BY <1>1, <1>2, <3>1, CallsWithAppend DEF RequestedIn
    <3> QED BY <1>4, <2>1, <3>2 DEF CallInv, CallInHand
  <2> QED BY <2>2, <2>3 DEF CallInv, CallInHand
<1>7. CallsToCome'
  BY <1>1, <1>4 DEF CallInv, CallsToCome, Closed
<1>8. CallsSeen'
  BY <1>1, <1>2, <1>4 DEF CallInv, CallsSeen, Closed
<1>9. OrphansAreOpen'
  BY <1>1 DEF CallInv, OrphansAreOpen
<1> QED BY <1>4, <1>5, <1>6, <1>7, <1>8, <1>9 DEF CallInv

LEMMA CallInvEmitFails ==
  ASSUME TypeInv, CallInv, EmitFails
  PROVE  CallInv'
<1>1. script # <<>> /\ AppendFails(CurrentRecord) /\ pc' = "repair" /\ script' = <<>>
  BY DEF EmitFails, Continue
<1>2. log' = log \/ log' = Append(log, CurrentRecord)
  BY <1>1 DEF AppendFails, Refuse, Lose, Blur
<1>3. OneTerminal'
  BY <1>1, <1>2, HeadIsFresh, AppendKeepsOneTerminal DEF CallInv
<1> QED BY <1>1, <1>3, RestStep

(* An event that is no terminal event of a call.                           *)
LEMMA CallInvNeutral ==
  ASSUME TypeInv, CallInv, NEW r \in Event, r.type \notin ToolTerminalTypes,
         log' = log \/ log' = Append(log, r)
  PROVE  /\ OneTerminal' /\ Closed(log') \subseteq Closed(log)
         /\ RequestedIn(log) \subseteq RequestedIn(log')
BY AppendKeepsOneTerminal DEF CallInv

(* A repair or a resume closes one of the calls it holds.                  *)
LEMMA CallInvOrphan ==
  ASSUME TypeInv, CallInv, pc \in Repairing, NEW c \in orphans, NEW r \in Event,
         r.type = "tool.failed", r.call = c, log' = log \/ log' = Append(log, r),
         orphans' \subseteq orphans \ {c}, script' = <<>>,
         pc' \in Repairing \cup {"idle"}
  PROVE  CallInv'
<1>1. c \notin Closed(log) /\ c \in RequestedIn(log)
  BY DEF CallInv, OrphansAreOpen
<1>2. /\ OneTerminal'
      /\ Closed(log') \subseteq Closed(log) \cup {c}
      /\ RequestedIn(log) \subseteq RequestedIn(log')
  BY <1>1, AppendKeepsOneTerminal DEF CallInv, ToolTerminalTypes
<1>3. OrphansAreOpen'
  BY <1>2 DEF CallInv, OrphansAreOpen, Closed, RequestedIn
<1>4. TerminalsAreFresh' /\ CallInHand' /\ CallsToCome' /\ CallsSeen'
  BY DEF TerminalsAreFresh, CallInHand, CallsToCome, CallsSeen, Busy, Repairing
<1> QED BY <1>2, <1>3, <1>4 DEF CallInv

LEMMA CallInvClosing ==
  ASSUME TypeInv, CallInv, RepairCall \/ RepairTurn \/ ResumeStep \/ WriteAppend
  PROVE  CallInv'
<1> USE DEF At
<1>0. /\ seqn + 1 \in Nat /\ turn \in Nat /\ wseq \in Nat
      /\ orphans \subseteq Call \cup {NoCall} /\ log \in Seq(Event)
      /\ persisted \in Seq(Event)
  BY DEF TypeInv, TypeOK
<1>1. ASSUME NEW c \in orphans, NEW t \in Nat
      PROVE  /\ Record(seqn + 1, t, About("tool.failed", c)) \in Event
             /\ Record(seqn + 1, t, About("tool.failed", c)).type = "tool.failed"
             /\ Record(seqn + 1, t, About("tool.failed", c)).call = c
  <2>1. About("tool.failed", c) \in Draft
    BY <1>0, <1>1, DraftTypes, EventNames
  <2> QED BY <1>0, <1>1, <2>1, RecordType DEF About
<1>2. CASE RepairCall
  <2>1. PICK c \in orphans :
          /\ orphans' = orphans \ {c}
          /\ \/ /\ Persist(Record(seqn + 1, turn, About("tool.failed", c)))
                /\ UNCHANGED pc
             \/ /\ AppendFails(Record(seqn + 1, turn, About("tool.failed", c)))
                /\ pc' = "repairRefresh"
    BY <1>2 DEF RepairCall
  <2> DEFINE r == Record(seqn + 1, turn, About("tool.failed", c))
  <2>2. r \in Event /\ r.type = "tool.failed" /\ r.call = c
    BY <1>0, <1>1
  <2>3. log' = log \/ log' = Append(log, r)
    BY <2>1 DEF Persist, AppendFails, Refuse, Lose, Blur
  <2>4. pc \in Repairing /\ pc' \in Repairing /\ script' = <<>>
    BY <1>2, <2>1 DEF RepairCall, Repairing
  <2> HIDE DEF r
  <2> QED BY <2>1, <2>2, <2>3, <2>4, CallInvOrphan
<1>3. CASE RepairTurn
  <2> DEFINE r == Record(Larger(seqn, Top(persisted)) + 1, turn, Note("turn.failed"))
  <2>1. r \in Event /\ r.type \notin ToolTerminalTypes
    <3>1. Note("turn.failed") \in Draft
      BY DraftTypes, EventNames
    <3>2. Larger(seqn, Top(persisted)) + 1 \in Nat
      BY <1>0, TopType DEF Larger
    <3> QED BY <1>0, <3>1, <3>2, RecordType DEF Note, ToolTerminalTypes
  <2>2. log' = log \/ log' = Append(log, r)
    BY <1>3 DEF RepairTurn, storeVars, Persist, AppendFails, Refuse, Lose, Blur
  <2>3. pc' = "idle" /\ script' = <<>>
    BY <1>3 DEF RepairTurn, Return, Continue
  <2> HIDE DEF r
  <2> QED BY <2>1, <2>2, <2>3, CallInvNeutral, RestStep
<1>4. CASE ResumeStep
  <2>1. /\ pc = "resume" /\ script = <<>> /\ script' = <<>>
        /\ UNCHANGED <<cur, seen, calls, next>>
    BY <1>4 DEF ResumeStep, turnVars
  <2>2. CASE orphans # {}
    <3>1. PICK c \in orphans : ResumeAppend(TurnOf(log, c), About("tool.failed", c))
      BY <1>4, <2>2 DEF ResumeStep
    <3>2. TurnOf(log, c) \in Nat
      BY <1>0, <2>1, TurnOfType DEF TypeInv
    <3> DEFINE r == Record(seqn + 1, TurnOf(log, c), About("tool.failed", c))
    <3>3. r \in Event /\ r.type = "tool.failed" /\ r.call = c
      BY <1>1, <3>2
    <3>4. /\ log' = log \/ log' = Append(log, r)
          /\ orphans' \subseteq orphans \ {c} /\ pc' \in {"idle", "resume"}
      BY <2>1, <3>1 DEF ResumeAppend, Persist, AppendFails, Refuse, Lose, Blur, About
    <3> HIDE DEF r
    <3> QED BY <2>1, <3>3, <3>4, CallInvOrphan DEF Repairing
  <2>3. CASE orphans = {}
    <3>1. PICK t \in Nat, type \in {"turn.failed", "session.resumed"} :
            ResumeAppend(t, Note(type))
      <4>1. IncompleteTurns(log) \subseteq Nat
        BY <1>0, EventFields DEF IncompleteTurns, TurnsWith
      <4> QED BY <1>4, <2>3, <4>1 DEF ResumeStep
    <3> DEFINE r == Record(seqn + 1, t, Note(type))
    <3>2. r \in Event /\ r.type \notin ToolTerminalTypes
      <4>1. Note(type) \in Draft
        BY DraftTypes, EventNames
      <4> QED BY <1>0, <4>1, RecordType DEF Note, ToolTerminalTypes
    <3>3. /\ log' = log \/ log' = Append(log, r)
          /\ orphans' = {} /\ pc' \in {"idle", "resume"}
      BY <2>1, <2>3, <3>1 DEF ResumeAppend, Persist, AppendFails, Refuse, Lose, Blur
    <3> HIDE DEF r
    <3>4. OneTerminal'
      BY <3>2, <3>3, CallInvNeutral
    <3> QED BY <2>1, <3>3, <3>4
            DEF CallInv, TerminalsAreFresh, CallInHand, CallsToCome, CallsSeen,
                OrphansAreOpen, Busy, Repairing
  <2> QED BY <2>2, <2>3
<1>5. CASE WriteAppend
  <2> DEFINE r == Record(wseq, 0, Note("model.changed"))
  <2>1. r \in Event /\ r.type \notin ToolTerminalTypes
    <3>1. Note("model.changed") \in Draft
      BY DraftTypes, EventNames
    <3> QED BY <1>0, <3>1, RecordType DEF Note, ToolTerminalTypes
  <2>2. /\ log' = log \/ log' = Append(log, r)
        /\ UNCHANGED <<pc, script, cur, seen, calls, next, orphans>>
    BY <1>5 DEF WriteAppend, Persist, AppendFails, Refuse, Lose, Blur, turnVars, repairVars
  <2> HIDE DEF r
  <2>3. /\ OneTerminal' /\ Closed(log') \subseteq Closed(log)
        /\ RequestedIn(log) \subseteq RequestedIn(log')
    BY <2>1, <2>2, CallInvNeutral
  <2>4. TerminalsAreFresh'
    BY <2>2, <2>3 DEF CallInv, TerminalsAreFresh, Closed, RequestedIn
  <2>5. CallInHand' /\ CallsToCome' /\ CallsSeen' /\ OrphansAreOpen'
    BY <2>2, <2>3 DEF CallInv, CallInHand, CallsToCome, CallsSeen, OrphansAreOpen,
       Closed, RequestedIn
  <2> QED BY <2>3, <2>4, <2>5 DEF CallInv
<1> QED BY <1>2, <1>3, <1>4, <1>5

LEMMA CallInvOther ==
  ASSUME TypeInv, CallInv,
         BeginTurn \/ ToolThrowsStorage \/ EndTurn \/ Abort
           \/ RepairRead \/ RepairGivesUp \/ RepairRefresh \/ Resume
           \/ WriteCheck \/ WriteRead \/ Crash
  PROVE  CallInv'
<1> USE DEF At, Continue, storeVars, turnVars, repairVars
<1>0. ASSUME UNCHANGED log
      PROVE  OneTerminal'
  BY <1>0 DEF CallInv, OneTerminal, OneTerminalPerCall, Closed, RequestedIn
<1>1. CASE BeginTurn
  <2>1. /\ pc' = "stepTop" /\ script' = <<Note("turn.started")>> /\ cur' = NoCall
        /\ seen' = SeenCalls(log) /\ UNCHANGED log
    BY <1>1 DEF BeginTurn
  <2>2. Closed(log) \subseteq SeenCalls(log)
    BY DEF CallInv, OneTerminal, RequestedIn, SeenCalls, CallsWith
  <2>3. OneTerminal' /\ TerminalsAreFresh'
    BY <2>1, SilentScripts, SilentStep DEF ToolTerminalTypes
  <2>4. CallInHand' /\ CallsToCome' /\ CallsSeen' /\ OrphansAreOpen'
    BY <2>1, <2>2 DEF CallInHand, CallsToCome, CallsSeen, OrphansAreOpen, Busy,
       Repairing, Closed
  <2> QED BY <2>3, <2>4 DEF CallInv
<1>2. CASE ToolThrowsStorage
  BY <1>0, <1>2, RestStep DEF ToolThrowsStorage
<1>3. CASE EndTurn \/ RepairGivesUp \/ Crash
  BY <1>0, <1>3, RestStep DEF EndTurn, RepairGivesUp, Crash, Return
<1>4. CASE Abort \/ WriteCheck \/ WriteRead
  BY <1>4, FrameStep DEF Abort, WriteCheck, WriteRead
<1>5. CASE RepairRead \/ Resume
  <2>1. /\ pc' \in Repairing /\ script' = <<>> /\ orphans' = DanglingCalls(log)
        /\ UNCHANGED log
    BY <1>5 DEF RepairRead, Resume, Repairing
  <2>2. OrphansAreOpen'
    BY <2>1 DEF OrphansAreOpen, DanglingCalls, Closed, RequestedIn
  <2> QED BY <1>0, <2>1, <2>2
          DEF CallInv, TerminalsAreFresh, CallInHand, CallsToCome, CallsSeen, Busy, Repairing
<1>6. CASE RepairRefresh
  <2>1. /\ pc \in Repairing /\ pc' \in Repairing /\ script' = <<>>
        /\ UNCHANGED <<log, orphans>>
    BY <1>6 DEF RepairRefresh, Repairing
  <2>2. OrphansAreOpen'
    BY <2>1 DEF CallInv, OrphansAreOpen, Closed, RequestedIn
  <2> QED BY <1>0, <2>1, <2>2
          DEF CallInv, TerminalsAreFresh, CallInHand, CallsToCome, CallsSeen, Busy, Repairing
<1> QED BY <1>1, <1>2, <1>3, <1>4, <1>5, <1>6

LEMMA CallInvStep == TypeInv /\ CallInv /\ [Next]_vars => CallInv'
<1> SUFFICES ASSUME TypeInv, CallInv, [Next]_vars
             PROVE  CallInv'
  OBVIOUS
<1>1. CASE LoopStep
  BY <1>1, CallInvDecision, CallInvReply, CallInvEmit, CallInvEmitFails,
     CallInvClosing, CallInvOther DEF LoopStep
<1>2. CASE UNCHANGED vars
  BY <1>2, FrameStep DEF vars
<1>3. CASE Done
  BY <1>2, <1>3 DEF Done
<1> QED BY <1>1, <1>2, <1>3, CallInvDecision, CallInvClosing, CallInvOther DEF Next

(* A tool call never gets a second terminal event, for any replies of the  *)
(* model and any number of faults, crashes, resumes and settings requests. *)
THEOREM CallsEndOnce == Spec => []OneTerminalPerCall
<1>1. CallInv => OneTerminalPerCall
  BY DEF CallInv, OneTerminal
<1> QED BY TypeInvInit, TypeInvStep, CallInvInit, CallInvStep, <1>1, PTL DEF Spec

-----------------------------------------------------------------------------
(* What the script can hold                                                *)

LEMMA PlainScripts ==
  /\ \A t : t \notin MarkedTypes => Plain(<<Note(t)>>)
  /\ \A t, u : {t, u} \cap MarkedTypes = {} => Plain(<<Note(t), Note(u)>>)
  /\ \A t, c : t \notin MarkedTypes => Plain(<<About(t, c)>>)
BY DEF Plain, Note, About

LEMMA FinalScripts ==
  ASSUME NEW t \in TurnTerminalTypes
  PROVE  /\ Final(<<Note(t)>>)
         /\ \A u : u \notin MarkedTypes => Final(<<Note(u), Note(t)>>)
         /\ \A u, c : u \notin MarkedTypes => Final(<<About(u, c), Note(t)>>)
         /\ \A u, v, c : {u, v} \cap MarkedTypes = {} =>
              /\ Final(<<Note(u), About(v, c), Note(t)>>)
              /\ Final(<<About(u, c), About(v, c), Note(t)>>)
<1>1. Final(<<Note(t)>>)
  BY DEF Final, Note
<1>2. ASSUME NEW a, NEW b, a.type \notin MarkedTypes, b.type = t
      PROVE  Final(<<a, b>>)
  <2>1. <<a, b>>[1] = a /\ <<a, b>>[2] = b /\ Len(<<a, b>>) = 2 /\ <<a, b>> # <<>>
    OBVIOUS
  <2> QED BY <1>2, <2>1 DEF Final
<1>3. ASSUME NEW a, NEW b, NEW c, {a.type, b.type} \cap MarkedTypes = {}, c.type = t
      PROVE  Final(<<a, b, c>>)
  <2> DEFINE s == <<a, b, c>>
  <2>1. s[1] = a /\ s[2] = b /\ s[3] = c /\ Len(s) = 3 /\ s # <<>>
    OBVIOUS
  <2> HIDE DEF s
  <2>2. \A i \in 1 .. Len(s) - 1 : i = 1 \/ i = 2
    BY <2>1
  <2> QED BY <1>3, <2>1, <2>2 DEF Final
<1>4. \A u, c : Note(u).type = u /\ About(u, c).type = u
  BY DEF Note, About
<1> QED BY <1>1, <1>2, <1>3, <1>4

LEMMA ConcatParts ==
  ASSUME NEW a \in Seq(Draft), NEW b \in Seq(Draft)
  PROVE  /\ a \o b \in Seq(Draft) /\ Len(a \o b) = Len(a) + Len(b)
         /\ Len(a) \in Nat /\ Len(b) \in Nat
         /\ \A i \in 1 .. Len(a) + Len(b) :
              \/ i \in DOMAIN a /\ (a \o b)[i] = a[i]
              \/ i - Len(a) \in DOMAIN b /\ (a \o b)[i] = b[i - Len(a)]
<1>1. /\ a \o b \in Seq(Draft) /\ Len(a \o b) = Len(a) + Len(b)
      /\ \A i \in 1 .. Len(a) + Len(b) :
           (a \o b)[i] = IF i <= Len(a) THEN a[i] ELSE b[i - Len(a)]
  BY ConcatProperties
<1>2. /\ Len(a) \in Nat /\ Len(b) \in Nat
      /\ DOMAIN a = 1 .. Len(a) /\ DOMAIN b = 1 .. Len(b)
  OBVIOUS
<1>3. ASSUME NEW i \in 1 .. Len(a) + Len(b)
      PROVE  \/ i \in DOMAIN a /\ (a \o b)[i] = a[i]
             \/ i - Len(a) \in DOMAIN b /\ (a \o b)[i] = b[i - Len(a)]
  <2>1. CASE i <= Len(a)
    BY <1>1, <1>2, <2>1
  <2>2. CASE i > Len(a)
    BY <1>1, <1>2, <2>2
  <2> QED BY <1>2, <2>1, <2>2
<1> QED BY <1>1, <1>2, <1>3

LEMMA PlainConcat ==
  ASSUME NEW a \in Seq(Draft), NEW b \in Seq(Draft), Plain(a)
  PROVE  /\ Plain(b) => Plain(a \o b)
         /\ Final(b) => Final(a \o b)
<1>1. /\ a \o b \in Seq(Draft) /\ Len(a \o b) = Len(a) + Len(b)
      /\ Len(a) \in Nat /\ Len(b) \in Nat
      /\ \A i \in 1 .. Len(a) + Len(b) :
           \/ i \in DOMAIN a /\ (a \o b)[i] = a[i]
           \/ i - Len(a) \in DOMAIN b /\ (a \o b)[i] = b[i - Len(a)]
  BY ConcatParts
<1>2. ASSUME Plain(b)
      PROVE  Plain(a \o b)
  BY <1>1, <1>2 DEF Plain
<1>3. ASSUME Final(b)
      PROVE  Final(a \o b)
  <2>1. Len(b) \in DOMAIN b /\ Len(b) > 0
    BY <1>3 DEF Final
  <2>2. (a \o b)[Len(a) + Len(b)] = b[Len(b)]
    <3>1. (a \o b)[Len(a) + Len(b)] =
            IF Len(a) + Len(b) <= Len(a) THEN a[Len(a) + Len(b)]
            ELSE b[Len(a) + Len(b) - Len(a)]
      BY <1>1, <2>1, ConcatProperties
    <3>2. ~(Len(a) + Len(b) <= Len(a)) /\ Len(a) + Len(b) - Len(a) = Len(b)
      BY <1>1, <2>1
    <3> QED BY <3>1, <3>2
  <2>3. ASSUME NEW i \in 1 .. Len(a) + Len(b) - 1
        PROVE  (a \o b)[i].type \notin MarkedTypes
    <3>1. i \in 1 .. Len(a) + Len(b)
      BY <1>1
    <3>2. i - Len(a) \in DOMAIN b => i - Len(a) \in 1 .. Len(b) - 1
      BY <1>1
    <3> QED BY <1>1, <1>3, <3>1, <3>2 DEF Plain, Final
  <2>4. a \o b # <<>>
    BY <1>1, <2>1
  <2> QED BY <1>1, <1>3, <2>2, <2>3, <2>4 DEF Final
<1> QED BY <1>2, <1>3

LEMMA PlainReply ==
  ASSUME NEW r \in Reply, NEW rest \in Seq(Draft)
  PROVE  /\ Plain(rest) => /\ Plain(Preamble(r) \o rest)
                           /\ Plain(Preamble(r) \o ToolCallNotes(r) \o rest)
         /\ Final(rest) => /\ Final(Preamble(r) \o rest)
                           /\ Final(Preamble(r) \o ToolCallNotes(r) \o rest)
<1>1. /\ Preamble(r) \in Seq(Draft) /\ ToolCallNotes(r) \in Seq(Draft)
      /\ Preamble(r) \o ToolCallNotes(r) \in Seq(Draft)
  BY ReplyScripts, ConcatProperties
<1>2. Plain(Preamble(r))
  <2>1. /\ Note("model.reasoning") \in Draft /\ Note("model.text") \in Draft
    BY DraftTypes DEF EventTypes
  <2>2. /\ Optional(r.reasoning, "model.reasoning") \in Seq(Draft)
        /\ Optional(r.text, "model.text") \in Seq(Draft)
    BY <2>1, ShortScripts DEF Optional
  <2>3. /\ Plain(Optional(r.reasoning, "model.reasoning"))
        /\ Plain(Optional(r.text, "model.text"))
    BY DEF Optional, Plain, Note, MarkedTypes, TurnTerminalTypes
  <2> QED BY <2>2, <2>3, PlainConcat DEF Preamble
<1>3. Plain(ToolCallNotes(r))
  BY DEF Plain, ToolCallNotes, About, MarkedTypes, TurnTerminalTypes
<1>4. Plain(Preamble(r) \o ToolCallNotes(r))
  BY <1>1, <1>2, <1>3, PlainConcat
<1> QED BY <1>1, <1>2, <1>4, PlainConcat

LEMMA ShapeInvDecision ==
  ASSUME TypeInv, ShapeInv,
         StepTop \/ BuildContext \/ ModelFailed \/ EndOfStep \/ DispatchTool
           \/ EvaluateCall \/ AskApproval \/ Answer \/ ApprovalAborted
           \/ StartTool \/ Execute \/ ToolReturns
  PROVE  ShapeInv'
<1> USE DEF At, Continue
<1>0. /\ Final(<<Note("turn.cancelled")>>) /\ Final(<<Note("turn.failed")>>)
      /\ Final(<<Note("limit.reached"), Note("turn.failed")>>)
      /\ Final(<<About("tool.cancelled", cur), Note("turn.cancelled")>>)
      /\ Final(<<About("tool.failed", cur), Note("turn.failed")>>)
      /\ Final(<<About("tool.denied", cur), Note("turn.failed")>>)
      /\ Final(<<Note("limit.reached"), About("tool.denied", cur), Note("turn.failed")>>)
      /\ Final(<<About("approval.denied", cur), About("tool.denied", cur),
                 Note("turn.failed")>>)
  BY FinalScripts DEF MarkedTypes, TurnTerminalTypes
<1>1. /\ Plain(<<Note("step.started")>>)
      /\ Plain(<<Note("context.projected"), Note("model.started")>>)
      /\ Plain(<<About("tool.failed", cur)>>)
      /\ Plain(<<About("tool.completed", cur)>>)
  BY PlainScripts DEF MarkedTypes, TurnTerminalTypes
<1>2. CASE StepTop
  BY <1>0, <1>1, <1>2 DEF StepTop, ShapeInv
<1>3. CASE BuildContext
  BY <1>0, <1>1, <1>3 DEF BuildContext, ShapeInv
<1>4. CASE ModelFailed
  BY <1>0, <1>4 DEF ModelFailed, ShapeInv
<1>5. CASE EndOfStep
  BY <1>0, <1>5 DEF EndOfStep, ShapeInv
<1>6. CASE DispatchTool
  BY <1>0, <1>6 DEF DispatchTool, ShapeInv
<1>7. CASE EvaluateCall
  <2>1. \A o \in Op \cup {NoOp} :
          script' = <<With("tool.authorized", cur', o)>> => Authorization(script)'
    BY DEF Authorization
  <2>2. About("tool.authorized", cur) = With("tool.authorized", cur, NoOp)
    BY DEF About, With
  <2>3. UNCHANGED cur
    BY <1>7 DEF EvaluateCall
  <2>4. \/ pc' = "dispatch" /\ script' = <<About("tool.failed", cur)>>
        \/ pc' = "end" /\ Final(script')
        \/ pc' = "ask" /\ script' = <<About("approval.requested", cur)>>
        \/ pc' = "authorized" /\ \E o \in Op \cup {NoOp} :
             script' = <<With("tool.authorized", cur, o)>>
    BY <1>0, <1>7, <2>2 DEF EvaluateCall, RejectInput, RepeatedTooOften, Judged
  <2> QED BY <1>1, <2>1, <2>3, <2>4 DEF ShapeInv
<1>8. CASE AskApproval \/ ApprovalAborted \/ StartTool
  BY <1>0, <1>8 DEF AskApproval, ApprovalAborted, StartTool, CancelCall, Same, ShapeInv
<1>9. CASE Answer
  BY <1>0, <1>9 DEF Answer, Grant, ShapeInv, Authorization
<1>10. CASE Execute
  BY <1>10 DEF Execute, ShapeInv
<1>11. CASE ToolReturns
  BY <1>0, <1>1, <1>11 DEF ToolReturns, CancelCall, ShapeInv
<1> QED BY <1>2, <1>3, <1>4, <1>5, <1>6, <1>7, <1>8, <1>9, <1>10, <1>11

LEMMA ShapeInvReply ==
  ASSUME TypeInv, ModelReplies
  PROVE  ShapeInv'
<1> USE DEF Continue
<1>1. PICK r \in Reply :
        ReplyBroken(r) \/ ReplyInvalid(r) \/ ReplyFinal(r) \/ ReplyWithTools(r)
  BY DEF ModelReplies
<1>2. \A t \in EventTypes : Note(t) \in Draft
  BY DraftTypes
<1>3. /\ <<Note("model.failed")>> \in Seq(Draft)
      /\ <<Note("model.failed"), Note("turn.failed")>> \in Seq(Draft)
      /\ <<Note("model.completed")>> \in Seq(Draft)
      /\ <<Note("model.completed"), Note(Outcome(r))>> \in Seq(Draft)
  BY <1>2, ShortScripts, EventNames DEF Outcome
<1>4. /\ Plain(<<Note("model.failed")>>) /\ Plain(<<Note("model.completed")>>)
      /\ Final(<<Note("model.failed"), Note("turn.failed")>>)
      /\ Final(<<Note("model.completed"), Note(Outcome(r))>>)
  BY PlainScripts, FinalScripts DEF MarkedTypes, TurnTerminalTypes, Outcome
<1>5. CASE ReplyBroken(r)
  BY <1>3, <1>4, <1>5, PlainReply DEF ReplyBroken, ShapeInv
<1>6. CASE ReplyInvalid(r)
  BY <1>3, <1>4, <1>6, PlainReply DEF ReplyInvalid, ShapeInv
<1>7. CASE ReplyFinal(r)
  BY <1>3, <1>4, <1>7, PlainReply DEF ReplyFinal, ShapeInv
<1>8. CASE ReplyWithTools(r)
  BY <1>3, <1>4, <1>8, PlainReply DEF ReplyWithTools, ShapeInv
<1> QED BY <1>1, <1>5, <1>6, <1>7, <1>8

LEMMA TailOfScript ==
  ASSUME NEW s \in Seq(Draft), s # <<>>
  PROVE  /\ Tail(s) \in Seq(Draft) /\ Len(Tail(s)) = Len(s) - 1 /\ Len(s) \in Nat \ {0}
         /\ Head(s) = s[1] /\ s[1] \in Draft
         /\ \A i \in 1 .. Len(s) - 1 : i + 1 \in DOMAIN s /\ Tail(s)[i] = s[i + 1]
         /\ DOMAIN Tail(s) = 1 .. Len(s) - 1
         /\ Plain(s) => Plain(Tail(s)) /\ s[1].type \notin MarkedTypes
         /\ Final(s) => IF Tail(s) = <<>>
                        THEN s[1].type \in TurnTerminalTypes
                        ELSE Final(Tail(s)) /\ s[1].type \notin MarkedTypes
<1>1. /\ Tail(s) \in Seq(Draft) /\ Len(Tail(s)) = Len(s) - 1 /\ Len(s) \in Nat \ {0}
      /\ Head(s) = s[1] /\ s[1] \in Draft
      /\ \A i \in 1 .. Len(s) - 1 : i + 1 \in DOMAIN s /\ Tail(s)[i] = s[i + 1]
      /\ DOMAIN Tail(s) = 1 .. Len(s) - 1
  BY HeadTailProperties
<1>2. Plain(s) => Plain(Tail(s)) /\ s[1].type \notin MarkedTypes
  BY <1>1 DEF Plain
<1>3. ASSUME Final(s)
      PROVE  IF Tail(s) = <<>>
             THEN s[1].type \in TurnTerminalTypes
             ELSE Final(Tail(s)) /\ s[1].type \notin MarkedTypes
  <2>1. CASE Len(s) = 1
    <3>1. Tail(s) = <<>>
      BY <1>1, <2>1
    <3> QED BY <1>3, <2>1, <3>1 DEF Final
  <2>2. CASE Len(s) > 1
    <3>0. Len(s) - 1 \in 1 .. Len(s) - 1 /\ Len(s) - 1 + 1 = Len(s)
      BY <1>1, <2>2
    <3>1. Tail(s) # <<>> /\ Tail(s)[Len(Tail(s))] = s[Len(s)]
      <4>1. Tail(s)[Len(s) - 1] = s[Len(s) - 1 + 1]
        BY <1>1, <3>0
      <4>2. Len(Tail(s)) = Len(s) - 1 /\ Len(s) - 1 > 0
        BY <1>1, <2>2
      <4>3. Tail(s) # <<>>
        <5> DEFINE w == Tail(s)
        <5>1. Len(w) = Len(s) - 1 /\ Len(s) - 1 > 0 /\ Len(s) \in Nat
          BY <1>1, <4>2
        <5> HIDE DEF w
        <5>2. w # <<>>
          BY <5>1, EmptySeq
        <5> QED BY <5>2 DEF w
      <4> QED BY <3>0, <4>1, <4>2, <4>3
    <3>2. \A i \in 1 .. Len(Tail(s)) - 1 : i + 1 \in 1 .. Len(s) - 1 /\ Tail(s)[i] = s[i + 1]
      BY <1>1, <2>2
    <3> QED BY <1>1, <1>3, <2>2, <3>1, <3>2 DEF Final
  <2> QED BY <1>1, <2>1, <2>2
<1> QED BY <1>1, <1>2, <1>3

LEMMA ShapeInvStep == TypeInv /\ ShapeInv /\ [Next]_vars => ShapeInv'
<1> SUFFICES ASSUME TypeInv, ShapeInv, [Next]_vars
             PROVE  ShapeInv'
  OBVIOUS
<1> USE DEF At, Continue
<1>1. CASE Emit
  <2>1. /\ script # <<>> /\ script \in Seq(Draft) /\ script' = Tail(script)
        /\ UNCHANGED <<pc, cur, op>> /\ op \in Op \cup {NoOp}
    BY <1>1 DEF Emit, turnVars, TypeInv, TypeOK
  <2>2. CASE Len(script) = 1
    <3>1. script' = <<>>
      BY <2>1, <2>2, TailOfScript
    <3> QED BY <3>1 DEF ShapeInv
  <2>3. CASE Len(script) # 1
    <3>1. CASE /\ pc \in {"context", "model", "modelCancelled", "modelFailed", "dispatch"}
               /\ Plain(script)
      BY <2>1, <3>1, TailOfScript DEF ShapeInv
    <3>2. CASE pc = "end" /\ Final(script)
      BY <2>1, <3>2, TailOfScript DEF ShapeInv
    <3>3. CASE pc = "authorized" /\ Authorization(script)
      <4>1. PICK g \in {NoOp, op} :
              script = <<With("approval.granted", cur, g), With("tool.authorized", cur, op)>>
        BY <2>3, <3>3 DEF Authorization
      <4>2. script' = <<With("tool.authorized", cur, op)>>
        BY <2>1, <4>1
      <4> QED BY <2>1, <3>3, <4>2 DEF ShapeInv, Authorization
    <3>4. CASE \/ script = <<Note("turn.started")>>
               \/ script = <<About("tool.requested", cur)>>
               \/ script = <<About("approval.requested", cur)>>
               \/ script = <<About("tool.started", cur)>>
      BY <2>3, <3>4
    <3> QED BY <2>1, <3>1, <3>2, <3>3, <3>4 DEF ShapeInv
  <2> QED BY <2>2, <2>3
<1>2. CASE EmitFails \/ ToolThrowsStorage \/ EndTurn \/ RepairRead \/ RepairGivesUp
           \/ RepairRefresh \/ RepairTurn \/ Resume \/ Crash
  BY <1>2 DEF EmitFails, ToolThrowsStorage, EndTurn, RepairRead, RepairGivesUp,
     RepairRefresh, RepairTurn, Resume, Crash, Return, ShapeInv
<1>3. CASE RepairCall \/ ResumeStep
  BY <1>3 DEF RepairCall, ResumeStep, ShapeInv
<1>4. CASE BeginTurn
  BY <1>4 DEF BeginTurn, ShapeInv
<1>5. CASE Abort \/ WriteCheck \/ WriteRead \/ WriteAppend \/ Done \/ UNCHANGED vars
  BY <1>5 DEF Abort, WriteCheck, WriteRead, WriteAppend, Done, vars, turnVars,
     ShapeInv, Authorization
<1> QED BY <1>1, <1>2, <1>3, <1>4, <1>5, ShapeInvDecision, ShapeInvReply
        DEF Next, LoopStep

-----------------------------------------------------------------------------
(* What a tool does is on file before it does it                           *)

LEMMA EventsAndCalls ==
  ASSUME NEW c, NEW type
  PROVE  c \in CallsWith(log, {type}) <=> Occurs(log, c, type) # {}
BY DEF CallsWith, Occurs

LEMMA EventsAppend ==
  ASSUME log \in Seq(Event), NEW r \in Event, log' = Append(log, r), NEW c, NEW type
  PROVE  /\ Occurs(log, c, type) \subseteq Occurs(log', c, type)
         /\ r.type # type \/ r.call # c => Occurs(log', c, type) = Occurs(log, c, type)
         /\ r.type = type /\ r.call = c => Len(log) + 1 \in Occurs(log', c, type)
         /\ \A i \in Occurs(log, c, type) : i \in 1 .. Len(log) /\ i < Len(log) + 1
<1>1. /\ Len(log') = Len(log) + 1 /\ Len(log) \in Nat
      /\ log'[Len(log) + 1] = r
      /\ \A i \in 1 .. Len(log) : log'[i] = log[i]
      /\ DOMAIN log' = 1 .. Len(log) + 1 /\ DOMAIN log = 1 .. Len(log)
  BY AppendProperties
<1>2. \A i : i \in 1 .. Len(log) + 1 <=> i \in 1 .. Len(log) \/ i = Len(log) + 1
  BY <1>1
<1> QED BY <1>1, <1>2 DEF Occurs

LEMMA CallSetsAppend ==
  ASSUME log \in Seq(Event), NEW r \in Event, log' = Append(log, r)
  PROVE  /\ RequestedIn(log') = RequestedIn(log) \cup
              (IF r.type = "tool.requested" THEN {r.call} ELSE {})
         /\ AskedIn(log') = AskedIn(log) \cup
              (IF r.type = "approval.requested" THEN {r.call} ELSE {})
         /\ GrantedIn(log') = GrantedIn(log) \cup
              (IF r.type = "approval.granted" THEN {r.call} ELSE {})
         /\ AuthorizedIn(log') = AuthorizedIn(log) \cup
              (IF r.type = "tool.authorized" THEN {r.call} ELSE {})
         /\ StartedIn(log') = StartedIn(log) \cup
              (IF r.type = "tool.started" THEN {r.call} ELSE {})
         /\ SessionGrants(log) \subseteq SessionGrants(log')
         /\ r.type = "approval.granted" /\ r.op # NoOp => r.op \in SessionGrants(log')
<1>1. /\ Len(log) \in Nat /\ log'[Len(log) + 1] = r
      /\ \A i \in 1 .. Len(log) : log'[i] = log[i]
      /\ DOMAIN log' = 1 .. Len(log) + 1 /\ DOMAIN log = 1 .. Len(log)
  BY AppendProperties
<1>2. ASSUME NEW o \in SessionGrants(log)
      PROVE  o \in SessionGrants(log')
  <2>1. PICK i \in DOMAIN log : log[i].type = "approval.granted" /\ log[i].op = o
    BY DEF SessionGrants
  <2>2. i \in DOMAIN log' /\ log'[i] = log[i]
    BY <1>1
  <2> QED BY <1>2, <2>1, <2>2 DEF SessionGrants
<1>3. r.type = "approval.granted" /\ r.op # NoOp => r.op \in SessionGrants(log')
  <2>1. Len(log) + 1 \in DOMAIN log'
    BY <1>1
  <2> QED BY <1>1, <2>1 DEF SessionGrants
<1>4. ASSUME NEW type
      PROVE  CallsWith(log', {type}) = CallsWith(log, {type}) \cup
               (IF r.type = type THEN {r.call} ELSE {})
  BY CallsWithAppend
<1> QED BY <1>2, <1>3, <1>4 DEF RequestedIn, AskedIn, GrantedIn, AuthorizedIn, StartedIn

LEMMA SoundAppend ==
  ASSUME TypeInv, FileInv, NEW r \in Event, log' = Append(log, r), Sound(r)
  PROVE  FileInv'
<1>0. log \in Seq(Event)
  BY DEF TypeInv, TypeOK
<1>1. /\ Len(log) \in Nat /\ log'[Len(log) + 1] = r
      /\ \A i \in 1 .. Len(log) : log'[i] = log[i]
      /\ DOMAIN log' = 1 .. Len(log) + 1 /\ DOMAIN log = 1 .. Len(log)
  BY <1>0, AppendProperties
<1>2. Chain'
  BY <1>0, CallSetsAppend DEF FileInv, Chain, Sound
<1>3. ASSUME NEW c, NEW type
      PROVE  /\ Occurs(log, c, type) \subseteq Occurs(log', c, type)
             /\ r.type # type \/ r.call # c =>
                  Occurs(log', c, type) = Occurs(log, c, type)
             /\ r.type = type /\ r.call = c => Len(log) + 1 \in Occurs(log', c, type)
             /\ \A i \in Occurs(log, c, type) : i \in 1 .. Len(log) /\ i < Len(log) + 1
             /\ c \in CallsWith(log, {type}) <=> Occurs(log, c, type) # {}
  BY <1>0, EventsAppend, EventsAndCalls
<1>4. ASSUME NEW c \in AuthorizedIn(log)
      PROVE  Occurs(log', c, "approval.requested") = Occurs(log, c, "approval.requested")
  BY <1>3, <1>4 DEF Sound
<1>5. ASSUME NEW c \in GrantedIn(log')
      PROVE  GrantTrail(log', c)
  <2>1. CASE c \in GrantedIn(log)
    <3>1. PICK i \in Occurs(log, c, "tool.requested"), g \in Occurs(log, c, "approval.granted") :
            i < g
      BY <2>1 DEF FileInv, Trails, GrantTrail
    <3> QED BY <1>3, <3>1 DEF GrantTrail
  <2>2. CASE c \notin GrantedIn(log)
    <3>1. r.type = "approval.granted" /\ r.call = c
      BY <1>0, <1>5, <2>2, CallSetsAppend
    <3>2. PICK i \in Occurs(log, c, "tool.requested") : i \in 1 .. Len(log)
      BY <1>3, <3>1 DEF Sound, RequestedIn
    <3>3. i < Len(log) + 1 /\ Len(log) + 1 \in Occurs(log', c, "approval.granted")
      BY <1>1, <1>3, <3>1, <3>2
    <3>4. i \in Occurs(log', c, "tool.requested")
      BY <1>3, <3>2
    <3> QED BY <3>3, <3>4 DEF GrantTrail
  <2> QED BY <2>1, <2>2
<1>6. ASSUME NEW c \in AuthorizedIn(log')
      PROVE  AuthTrail(log', c)
  <2>1. CASE c \in AuthorizedIn(log)
    <3>1. PICK i \in Occurs(log, c, "tool.requested"), j \in Occurs(log, c, "tool.authorized") :
            /\ i < j
            /\ Occurs(log, c, "approval.requested") # {} =>
                 \E g \in Occurs(log, c, "approval.granted") : i < g /\ g < j
      BY <2>1 DEF FileInv, Trails, AuthTrail
    <3>2. i \in Occurs(log', c, "tool.requested") /\ j \in Occurs(log', c, "tool.authorized")
      BY <1>3, <3>1
    <3>3. Occurs(log, c, "approval.granted") \subseteq Occurs(log', c, "approval.granted")
      BY <1>3
    <3> QED BY <1>4, <2>1, <3>1, <3>2, <3>3 DEF AuthTrail
  <2>2. CASE c \notin AuthorizedIn(log)
    <3>1. r.type = "tool.authorized" /\ r.call = c
      BY <1>0, <1>6, <2>2, CallSetsAppend
    <3>2. /\ Occurs(log', c, "approval.requested") = Occurs(log, c, "approval.requested")
          /\ Occurs(log', c, "approval.granted") = Occurs(log, c, "approval.granted")
          /\ Occurs(log', c, "tool.requested") = Occurs(log, c, "tool.requested")
          /\ Len(log) + 1 \in Occurs(log', c, "tool.authorized")
      BY <1>3, <3>1
    <3>3. \A type : \A i \in Occurs(log, c, type) : i < Len(log) + 1
      BY <1>1, <1>3
    <3>4. CASE c \in GrantedIn(log)
      <4>1. PICK i \in Occurs(log, c, "tool.requested"), g \in Occurs(log, c, "approval.granted") :
              i < g
        BY <3>4 DEF FileInv, Trails, GrantTrail
      <4> QED BY <3>2, <3>3, <4>1 DEF AuthTrail
    <3>5. CASE c \notin GrantedIn(log)
      <4>1. Occurs(log, c, "approval.requested") = {} /\ Occurs(log, c, "tool.requested") # {}
        BY <1>3, <3>1, <3>5 DEF Sound, RequestedIn, AskedIn, GrantedIn
      <4> QED BY <3>2, <3>3, <4>1 DEF AuthTrail
    <3> QED BY <3>4, <3>5
  <2> QED BY <2>1, <2>2
<1>7. ASSUME NEW c \in StartedIn(log')
      PROVE  StartTrail(log', c)
  <2>1. CASE c \in StartedIn(log)
    <3>1. PICK i \in Occurs(log, c, "tool.requested"), j \in Occurs(log, c, "tool.authorized"),
               k \in Occurs(log, c, "tool.started") :
            /\ i < j /\ j < k
            /\ Occurs(log, c, "approval.requested") # {} =>
                 \E g \in Occurs(log, c, "approval.granted") : i < g /\ g < j
      BY <2>1 DEF FileInv, Trails, StartTrail
    <3>2. /\ i \in Occurs(log', c, "tool.requested") /\ j \in Occurs(log', c, "tool.authorized")
          /\ k \in Occurs(log', c, "tool.started")
      BY <1>3, <3>1
    <3>3. Occurs(log, c, "approval.granted") \subseteq Occurs(log', c, "approval.granted")
      BY <1>3
    <3>4. c \in AuthorizedIn(log)
      BY <2>1 DEF FileInv, Chain
    <3> QED BY <1>4, <3>1, <3>2, <3>3, <3>4 DEF StartTrail
  <2>2. CASE c \notin StartedIn(log)
    <3>1. r.type = "tool.started" /\ r.call = c
      BY <1>0, <1>7, <2>2, CallSetsAppend
    <3>2. c \in AuthorizedIn(log)
      BY <3>1 DEF Sound
    <3>3. PICK i \in Occurs(log, c, "tool.requested"), j \in Occurs(log, c, "tool.authorized") :
            /\ i < j
            /\ Occurs(log, c, "approval.requested") # {} =>
                 \E g \in Occurs(log, c, "approval.granted") : i < g /\ g < j
      BY <3>2 DEF FileInv, Trails, AuthTrail
    <3>4. /\ i \in Occurs(log', c, "tool.requested") /\ j \in Occurs(log', c, "tool.authorized")
          /\ Occurs(log, c, "approval.granted") \subseteq Occurs(log', c, "approval.granted")
          /\ Len(log) + 1 \in Occurs(log', c, "tool.started") /\ j < Len(log) + 1
      BY <1>1, <1>3, <3>1, <3>3
    <3> QED BY <1>4, <3>2, <3>3, <3>4 DEF StartTrail
  <2> QED BY <2>1, <2>2
<1>8. SessionGrantIsOnFile'
  <2> SUFFICES ASSUME NEW i \in 1 .. Len(log) + 1,
                      log'[i].type = "tool.authorized", log'[i].op # NoOp
               PROVE  \E j \in 1 .. i - 1 :
                        /\ log'[j].type = "approval.granted"
                        /\ log'[j].call = log'[i].call \/ log'[j].op = log'[i].op
    BY <1>1 DEF SessionGrantIsOnFile
  <2>1. CASE i \in 1 .. Len(log)
    <3>1. PICK j \in 1 .. i - 1 :
            /\ log[j].type = "approval.granted"
            /\ log[j].call = log[i].call \/ log[j].op = log[i].op
      BY <1>1, <2>1 DEF FileInv, SessionGrantIsOnFile
    <3>2. j \in 1 .. Len(log)
      BY <1>1, <2>1
    <3> QED BY <1>1, <2>1, <3>1, <3>2
  <2>2. CASE i = Len(log) + 1
    <3>1. r.call \in GrantedIn(log) \/ r.op \in SessionGrants(log)
      BY <1>1, <2>2 DEF Sound
    <3>2. PICK j \in 1 .. Len(log) :
            /\ log[j].type = "approval.granted"
            /\ log[j].call = r.call \/ log[j].op = r.op
      BY <1>1, <3>1 DEF GrantedIn, CallsWith, SessionGrants
    <3>3. j \in 1 .. i - 1
      BY <1>1, <2>2
    <3> QED BY <1>1, <2>2, <3>2, <3>3
  <2> QED BY <1>1, <2>1, <2>2
<1> QED BY <1>2, <1>5, <1>6, <1>7, <1>8 DEF FileInv, Trails

(* Every step leaves the file alone or appends one of these events, also   *)
(* when its caller is told that the append failed.                         *)
LEMMA AppendedEvent ==
  ASSUME TypeInv, [Next]_vars
  PROVE  \/ log' = log
         \/ \E r \in Event : log' = Append(log, r) /\ Pending(r)
<1>0. /\ log \in Seq(Event) /\ persisted \in Seq(Event) /\ script \in Seq(Draft)
      /\ seqn + 1 \in Nat /\ turn \in Nat /\ wseq \in Nat
      /\ orphans \subseteq Call \cup {NoCall}
  BY DEF TypeInv, TypeOK
<1>1. ASSUME NEW r \in Event, log' = log \/ log' = Append(log, r), Pending(r)
      PROVE  \/ log' = log
             \/ \E s \in Event : log' = Append(log, s) /\ Pending(s)
  BY <1>1
<1>2. ASSUME NEW seq \in Nat, NEW t \in Nat, NEW type \in EventTypes,
             NEW c \in Call \cup {NoCall}
      PROVE  /\ Record(seq, t, About(type, c)) \in Event
             /\ Record(seq, t, About(type, c)).type = type
             /\ Record(seq, t, About(type, c)).call = c
             /\ Record(seq, t, About(type, c)).turn = t
  BY DraftTypes, RecordType DEF About
<1>3. \A type : Note(type) = About(type, NoCall)
  BY DEF Note, About
<1>4. {"tool.failed", "turn.failed", "session.resumed", "model.changed"} \subseteq EventTypes
  BY EventNames
<1>5. CASE Emit \/ EmitFails
  <2>1. script # <<>>
    BY <1>5 DEF Emit, EmitFails
  <2>3. log' = log \/ log' = Append(log, CurrentRecord)
    BY <1>5 DEF Emit, EmitFails, Persist, AppendFails, Refuse, Lose, Blur
  <2>2. CurrentRecord \in Event
    <3>1. Head(script) \in Draft
      BY <1>0, <2>1, TailOfScript
    <3> QED BY <1>0, <3>1, RecordType DEF CurrentRecord
  <2> QED BY <1>1, <2>1, <2>2, <2>3 DEF Pending
<1>6. CASE RepairCall
  <2>1. PICK c \in orphans :
          LET r == Record(seqn + 1, turn, About("tool.failed", c)) IN
          Persist(r) \/ AppendFails(r)
    BY <1>6 DEF RepairCall
  <2> DEFINE r == Record(seqn + 1, turn, About("tool.failed", c))
  <2>2. /\ r \in Event /\ r.type = "tool.failed" /\ r.call = c /\ r.turn = turn
    BY <1>0, <1>2, <1>4
  <2>3. pc = "repairCalls" /\ script = <<>>
    BY <1>6 DEF RepairCall, At
  <2>4. log' = log \/ log' = Append(log, r)
    BY <2>1 DEF Persist, AppendFails, Refuse, Lose, Blur
  <2> HIDE DEF r
  <2> QED BY <1>1, <2>1, <2>2, <2>3, <2>4 DEF Pending
<1>7. CASE RepairTurn
  <2>1. CASE ~TurnStillOpen(persisted)
    BY <1>7, <2>1 DEF RepairTurn, storeVars
  <2>2. CASE TurnStillOpen(persisted)
    <3> DEFINE r == Record(Larger(seqn, Top(persisted)) + 1, turn, Note("turn.failed"))
    <3>1. Larger(seqn, Top(persisted)) + 1 \in Nat
      BY <1>0, TopType DEF Larger
    <3>2. r \in Event /\ r.type = "turn.failed" /\ r.call = NoCall /\ r.turn = turn
      BY <1>0, <1>2, <1>3, <1>4, <3>1
    <3>3. log' = log \/ log' = Append(log, r)
      BY <1>7, <2>2 DEF RepairTurn, Persist, AppendFails, Refuse, Lose, Blur
    <3>4. pc = "repairCalls" /\ script = <<>> /\ orphans = {}
      BY <1>7 DEF RepairTurn, At
    <3> HIDE DEF r
    <3> QED BY <1>1, <2>2, <3>2, <3>3, <3>4 DEF Pending
  <2> QED BY <2>1, <2>2
<1>8. CASE ResumeStep
  <2>0. pc = "resume" /\ script = <<>>
    BY <1>8 DEF ResumeStep, At
  <2>1. ASSUME NEW t \in Nat, NEW type \in EventTypes, NEW c \in Call \cup {NoCall},
               ResumeAppend(t, About(type, c))
        PROVE  LET r == Record(seqn + 1, t, About(type, c))
               IN  r \in Event /\ (log' = log \/ log' = Append(log, r))
    BY <1>0, <1>2, <2>1 DEF ResumeAppend, Persist, AppendFails, Refuse, Lose, Blur
  <2>2. CASE orphans # {}
    <3>1. PICK c \in orphans : ResumeAppend(TurnOf(log, c), About("tool.failed", c))
      BY <1>8, <2>2 DEF ResumeStep
    <3>2. TurnOf(log, c) \in Nat
      BY <1>0, <2>0, TurnOfType DEF TypeInv
    <3> DEFINE r == Record(seqn + 1, TurnOf(log, c), About("tool.failed", c))
    <3>3. r.type = "tool.failed" /\ r.call = c /\ r.turn = TurnOf(log, c)
      BY <1>0, <1>2, <1>4, <3>2
    <3>4. r \in Event /\ (log' = log \/ log' = Append(log, r))
      BY <1>0, <1>4, <2>1, <3>1, <3>2
    <3> HIDE DEF r
    <3> QED BY <1>1, <2>0, <3>1, <3>3, <3>4 DEF Pending
  <2>3. CASE orphans = {} /\ IncompleteTurns(log) # {}
    <3>1. PICK t \in IncompleteTurns(log) : ResumeAppend(t, Note("turn.failed"))
      BY <1>8, <2>3 DEF ResumeStep
    <3>2. t \in Nat
      BY <1>0, EventFields DEF IncompleteTurns, TurnsWith
    <3> DEFINE r == Record(seqn + 1, t, Note("turn.failed"))
    <3>3. r.type = "turn.failed" /\ r.call = NoCall /\ r.turn = t
      BY <1>0, <1>2, <1>3, <1>4, <3>2
    <3>4. r \in Event /\ (log' = log \/ log' = Append(log, r))
      BY <1>3, <1>4, <2>1, <3>1, <3>2
    <3> HIDE DEF r
    <3> QED BY <1>1, <2>0, <2>3, <3>1, <3>3, <3>4 DEF Pending
  <2>4. CASE orphans = {} /\ IncompleteTurns(log) = {}
    <3>1. ResumeAppend(0, Note("session.resumed"))
      BY <1>8, <2>4 DEF ResumeStep
    <3> DEFINE r == Record(seqn + 1, 0, Note("session.resumed"))
    <3>3. r.type = "session.resumed" /\ r.call = NoCall /\ r.turn = 0
      BY <1>0, <1>2, <1>3, <1>4
    <3>4. r \in Event /\ (log' = log \/ log' = Append(log, r))
      BY <1>3, <1>4, <2>1, <3>1
    <3> HIDE DEF r
    <3> QED BY <1>1, <2>0, <2>4, <3>3, <3>4 DEF Pending
  <2> QED BY <2>2, <2>3, <2>4
<1>9. CASE WriteAppend
  <2> DEFINE r == Record(wseq, 0, Note("model.changed"))
  <2>1. r \in Event /\ r.type = "model.changed" /\ r.call = NoCall /\ r.turn = 0
    BY <1>0, <1>2, <1>3, <1>4
  <2>2. log' = log \/ log' = Append(log, r)
    BY <1>9 DEF WriteAppend, Persist, AppendFails, Refuse, Lose, Blur
  <2> HIDE DEF r
  <2> QED BY <1>1, <2>1, <2>2 DEF Pending
<1>10. CASE StepTop \/ BuildContext \/ ModelFailed \/ EndOfStep \/ DispatchTool
           \/ EvaluateCall \/ AskApproval \/ Answer \/ ApprovalAborted
           \/ StartTool \/ ToolReturns \/ ModelReplies
  BY <1>10 DEF StepTop, BuildContext, ModelFailed, EndOfStep, DispatchTool,
     EvaluateCall, AskApproval, Answer, ApprovalAborted, StartTool, ToolReturns,
     ModelReplies, Quiet, storeVars
<1>11. CASE BeginTurn \/ Execute \/ ToolThrowsStorage \/ EndTurn \/ Abort
           \/ RepairRead \/ RepairGivesUp \/ RepairRefresh \/ Resume
           \/ WriteCheck \/ WriteRead \/ Crash \/ Done \/ UNCHANGED vars
  BY <1>11 DEF BeginTurn, Execute, ToolThrowsStorage, EndTurn, Abort, RepairRead,
     RepairGivesUp, RepairRefresh, Resume, WriteCheck, WriteRead, Crash, Done,
     storeVars, vars
<1> QED BY <1>5, <1>6, <1>7, <1>8, <1>9, <1>10, <1>11 DEF Next, LoopStep

LEMMA HeadOfScript ==
  ASSUME TypeInv, script # <<>>
  PROVE  /\ CurrentRecord \in Event /\ script[1] \in Draft /\ 1 \in DOMAIN script
         /\ CurrentRecord.type = script[1].type /\ CurrentRecord.call = script[1].call
         /\ CurrentRecord.op = script[1].op
         /\ CurrentRecord.turn = turn /\ CurrentRecord.seq = seqn + 1
<1>1. script \in Seq(Draft) /\ seqn + 1 \in Nat /\ turn \in Nat
  BY DEF TypeInv, TypeOK
<1>2. Head(script) = script[1] /\ script[1] \in Draft /\ Len(script) \in Nat \ {0}
  BY <1>1, TailOfScript
<1>3. 1 \in DOMAIN script
  BY <1>1, <1>2
<1> QED BY <1>1, <1>2, <1>3, RecordType DEF CurrentRecord, Record

(* The event the script emits next, by the place of the loop.              *)
LEMMA HeadShape ==
  ASSUME TypeInv, ShapeInv, script # <<>>
  PROVE  \/ pc = "stepTop" /\ script[1] = Note("turn.started")
         \/ /\ pc \in {"context", "model", "modelCancelled", "modelFailed", "dispatch", "end"}
            /\ script[1].type \notin MarkedTypes \/ script[1].type \in TurnTerminalTypes
         \/ pc = "evaluate" /\ script[1] = About("tool.requested", cur)
         \/ pc = "ask" /\ script[1] = About("approval.requested", cur)
         \/ /\ pc = "authorized" /\ script[1].call = cur
            /\ script[1].type \in {"approval.granted", "tool.authorized"}
         \/ pc = "execute" /\ script[1] = About("tool.started", cur)
<1>1. script \in Seq(Draft)
  BY DEF TypeInv, TypeOK
<1>2. Plain(script) => script[1].type \notin MarkedTypes
  BY <1>1, TailOfScript
<1>3. Final(script) => script[1].type \notin MarkedTypes \/ script[1].type \in TurnTerminalTypes
  BY <1>1, TailOfScript
<1>4. Authorization(script) => /\ script[1].call = cur
                               /\ script[1].type \in {"approval.granted", "tool.authorized"}
  BY DEF Authorization, With
<1> QED BY <1>2, <1>3, <1>4 DEF ShapeInv

LEMMA PendingIsSound ==
  ASSUME TypeInv, ShapeInv, EffectInv, NEW r \in Event, Pending(r)
  PROVE  Sound(r)
<1> DEFINE Stages == {"tool.requested", "approval.requested", "approval.granted",
                      "tool.authorized", "tool.started"}
<1>1. CASE r.type \notin Stages
  BY <1>1 DEF Sound
<1>2. CASE r.type \in Stages
  <2>1. script # <<>> /\ r = CurrentRecord
    BY <1>2 DEF Pending
  <2>2. r.type = script[1].type /\ r.call = script[1].call /\ r.op = script[1].op
    BY <2>1, HeadOfScript
  <2>3. Stages \subseteq MarkedTypes /\ Stages \cap TurnTerminalTypes = {}
    BY DEF MarkedTypes, TurnTerminalTypes
  <2>4. \/ pc = "evaluate" /\ r.type = "tool.requested" /\ r.call = cur
        \/ pc = "ask" /\ r.type = "approval.requested" /\ r.call = cur
        \/ pc = "authorized" /\ r.call = cur /\ r.type \in {"approval.granted", "tool.authorized"}
        \/ pc = "execute" /\ r.type = "tool.started" /\ r.call = cur
    BY <1>2, <2>1, <2>2, <2>3, HeadShape DEF Note, About
  <2> QED BY <2>1, <2>2, <2>4 DEF Sound, EffectInv, StageInv, Stage
<1> QED BY <1>1, <1>2

LEMMA FileInvStep ==
  ASSUME TypeInv, ShapeInv, EffectInv, [Next]_vars
  PROVE  FileInv'
<1>1. CASE log' = log
  BY <1>1 DEF EffectInv, FileInv, Chain, Trails, SessionGrantIsOnFile, GrantTrail,
     AuthTrail, StartTrail, Occurs, RequestedIn, AskedIn, GrantedIn, AuthorizedIn, StartedIn
<1>2. ASSUME NEW r \in Event, log' = Append(log, r), Pending(r)
      PROVE  FileInv'
  BY <1>2, PendingIsSound, SoundAppend DEF EffectInv
<1> QED BY <1>1, <1>2, AppendedEvent

(* What a step leaves of the calls on file: they only grow, and an event   *)
(* without a mark leaves them as they are.                                 *)
LEMMA CallSetsGrow ==
  ASSUME TypeInv, [Next]_vars
  PROVE  /\ RequestedIn(log) \subseteq RequestedIn(log')
         /\ StartedIn(log) \subseteq StartedIn(log')
         /\ SessionGrants(log) \subseteq SessionGrants(log')
<1>1. log \in Seq(Event)
  BY DEF TypeInv, TypeOK
<1> QED BY <1>1, AppendedEvent, CallSetsAppend

LEMMA UnmarkedAppend ==
  ASSUME TypeInv, NEW r \in Event, log' = log \/ log' = Append(log, r),
         r.type \notin {"tool.requested", "approval.requested", "approval.granted",
                         "tool.authorized", "tool.started"}
  PROVE  /\ RequestedIn(log') = RequestedIn(log) /\ AskedIn(log') = AskedIn(log)
         /\ GrantedIn(log') = GrantedIn(log) /\ AuthorizedIn(log') = AuthorizedIn(log)
         /\ StartedIn(log') = StartedIn(log)
         /\ SessionGrants(log) \subseteq SessionGrants(log')
<1>1. log \in Seq(Event)
  BY DEF TypeInv, TypeOK
<1> QED BY <1>1, CallSetsAppend

(* A step that leaves the place and the script alone.                      *)
LEMMA StageFrame ==
  ASSUME StageInv,
         RequestedIn(log') = RequestedIn(log), AskedIn(log') = AskedIn(log),
         GrantedIn(log') = GrantedIn(log), AuthorizedIn(log') = AuthorizedIn(log),
         StartedIn(log') = StartedIn(log), SessionGrants(log) \subseteq SessionGrants(log'),
         UNCHANGED <<pc, script, cur, seen, calls, next, approvals, executed>>
  PROVE  StageInv'
<1> USE DEF RequestedIn, AskedIn, GrantedIn, AuthorizedIn, StartedIn
<1>1. Fresh'
  BY DEF StageInv, Fresh, InLoop
<1>2. Stage'
  BY DEF StageInv, Stage
<1>3. Granted'
  BY DEF StageInv, Granted, InLoop
<1>4. Counted'
  BY DEF StageInv, Counted
<1> QED BY <1>1, <1>2, <1>3, <1>4 DEF StageInv

(* A step that leaves the loop.                                            *)
LEMMA StageRest ==
  ASSUME StageInv, pc' \in {"idle", "repair"} \cup Repairing, UNCHANGED executed,
         StartedIn(log) \subseteq StartedIn(log')
  PROVE  StageInv'
<1> USE DEF RequestedIn, AskedIn, GrantedIn, AuthorizedIn, StartedIn
<1>1. Fresh' /\ Stage' /\ Granted'
  BY DEF Fresh, Stage, Granted, InLoop, Repairing, Busy
<1>2. Counted'
  BY DEF StageInv, Counted
<1> QED BY <1>1, <1>2 DEF StageInv

(* A step of the loop that leaves no call in hand and none to come.        *)
LEMMA StageApart ==
  ASSUME StageInv, InLoop, pc' \in Apart, UNCHANGED <<log, seen, approvals, executed>>,
         script = <<>>
  PROVE  StageInv'
<1> USE DEF RequestedIn, AskedIn, GrantedIn, AuthorizedIn, StartedIn
<1>1. Fresh' /\ Stage' /\ Counted'
  BY DEF StageInv, Fresh, Stage, Counted, InLoop, Apart, Busy
<1>2. Granted'
  BY DEF StageInv, Granted
<1> QED BY <1>1, <1>2 DEF StageInv

(* A step within the handling of a call, or out of it, that changes        *)
(* neither the file nor the call in hand.                                  *)
LEMMA StageBusy ==
  ASSUME StageInv, pc \in Busy, script = <<>>, Stage', Granted',
         UNCHANGED <<log, cur, seen, calls, next, executed>>
  PROVE  StageInv'
<1> USE DEF RequestedIn, StartedIn
<1>1. Fresh'
  BY DEF StageInv, Fresh, InLoop, Busy, Repairing
<1>2. Counted'
  BY DEF StageInv, Counted
<1> QED BY <1>1, <1>2 DEF StageInv

LEMMA StageInvDecision ==
  ASSUME TypeInv, CallInv, EffectInv,
         StepTop \/ BuildContext \/ ModelFailed \/ EndOfStep \/ DispatchTool
           \/ EvaluateCall \/ AskApproval \/ Answer \/ ApprovalAborted
           \/ StartTool \/ Execute \/ ToolReturns
  PROVE  StageInv'
<1> USE DEF Quiet, Same, At, Continue, storeVars, turnVars, EffectInv
<1>0. StageInv /\ InLoop
  BY DEF InLoop, Repairing, StepTop, BuildContext, ModelFailed, EndOfStep, DispatchTool,
     EvaluateCall, AskApproval, Answer, ApprovalAborted, StartTool, Execute, ToolReturns
<1>1. CASE StepTop
  BY <1>0, <1>1, StageApart DEF StepTop, Apart
<1>2. CASE BuildContext
  BY <1>0, <1>2, StageApart DEF BuildContext, Apart
<1>3. CASE ModelFailed
  BY <1>0, <1>3, StageApart DEF ModelFailed, Apart
<1>4. CASE EndOfStep
  BY <1>0, <1>4, StageApart DEF EndOfStep, Apart
<1>5. CASE DispatchTool
  <2>1. CASE aborted
    BY <1>0, <1>5, <2>1, StageApart DEF DispatchTool, Apart
  <2>2. CASE ~aborted
    <3>1. /\ pc = "dispatch" /\ script = <<>> /\ pc' = "evaluate" /\ script' # <<>>
          /\ cur' = calls[next] /\ next' = next + 1
          /\ next =< Len(calls)
          /\ UNCHANGED <<log, seen, calls, approvals, executed>>
      BY <1>5, <2>2 DEF DispatchTool
    <3>0. cur' \in Call /\ next \in Nat \ {0} /\ next \in next .. Len(calls)
      <4>1. calls \in Seq(Call) /\ next \in Nat \ {0} /\ Len(calls) \in Nat
        BY DEF TypeInv, TypeOK
      <4>2. next \in 1 .. Len(calls)
        BY <3>1, <4>1
      <4> QED BY <3>1, <4>1, <4>2
    <3>2. Fresh' /\ cur' \notin RequestedIn(log)
      BY <1>0, <3>0, <3>1 DEF StageInv, Fresh, InLoop, Repairing, RequestedIn
    <3>3. Stage' /\ Counted' /\ Granted'
      BY <1>0, <3>0, <3>1, <3>2 DEF StageInv, Stage, Counted, Granted, RequestedIn, StartedIn
    <3> QED BY <3>2, <3>3 DEF StageInv
  <2> QED BY <2>1, <2>2
<1>6. CASE EvaluateCall
  <2>1. /\ pc = "evaluate" /\ script = <<>> /\ pc \in Busy
        /\ UNCHANGED <<log, cur, seen, calls, next, approvals, executed>>
    BY <1>6 DEF EvaluateCall, Busy
  <2>2. Granted'
    BY <1>0, <2>1 DEF StageInv, Granted
  <2>3. cur \in RequestedIn(log) \ (AuthorizedIn(log) \cup AskedIn(log))
    BY <1>0, <2>1 DEF StageInv, Stage
  <2>4. \/ pc' \in {"dispatch", "end"}
        \/ pc' = "ask"
        \/ /\ pc' = "authorized" /\ \E o \in approvals \cup {NoOp} :
                script' = <<With("tool.authorized", cur, o)>>
    <3>1. About("tool.authorized", cur) = With("tool.authorized", cur, NoOp)
      BY DEF About, With
    <3> QED BY <1>6, <3>1 DEF EvaluateCall, RejectInput, RepeatedTooOften, Judged
  <2>5. Stage'
    <3>1. CASE pc' \in {"dispatch", "end", "ask"}
      BY <2>1, <2>3, <3>1 DEF Stage, RequestedIn, AuthorizedIn, AskedIn
    <3>2. ASSUME NEW o \in approvals \cup {NoOp}, pc' = "authorized",
                 script' = <<With("tool.authorized", cur, o)>>
          PROVE  Stage'
      <4>1. o = NoOp \/ o \in SessionGrants(log)
        BY <1>0, <2>1 DEF StageInv, Granted
      <4>2. script'[1].op = o /\ script' # <<>>
        BY <3>2 DEF With
      <4> QED BY <2>1, <2>3, <3>2, <4>1, <4>2
              DEF Stage, RequestedIn, AuthorizedIn, AskedIn, GrantedIn
    <3> QED BY <2>4, <3>1, <3>2
  <2> QED BY <1>0, <2>1, <2>2, <2>5, StageBusy
<1>7. CASE AskApproval \/ ApprovalAborted
  <2>1. /\ pc \in {"ask", "waiting"} /\ script = <<>> /\ pc \in Busy
        /\ pc' \in {"end", "waiting"}
        /\ UNCHANGED <<log, cur, seen, calls, next, approvals, executed>>
    BY <1>7 DEF AskApproval, ApprovalAborted, CancelCall, Busy
  <2>2. Granted'
    BY <1>0, <2>1 DEF StageInv, Granted
  <2>3. Stage'
    BY <1>0, <2>1 DEF StageInv, Stage, RequestedIn, AuthorizedIn
  <2> QED BY <1>0, <2>1, <2>2, <2>3, StageBusy
<1>8. CASE Answer
  <2>1. /\ pc = "waiting" /\ script = <<>> /\ pc \in Busy
        /\ UNCHANGED <<log, cur, op, seen, calls, next, executed>>
    BY <1>8 DEF Answer, Busy
  <2>2. cur \in RequestedIn(log) \ AuthorizedIn(log)
    BY <1>0, <2>1 DEF StageInv, Stage
  <2>3. ASSUME NEW g \in {NoOp, op}, Grant(g), approvals' \subseteq approvals \cup {g}
        PROVE  StageInv'
    <3>1. /\ pc' = "authorized" /\ script' # <<>>
          /\ script'[1].type = "approval.granted" /\ script'[1].op = g
      BY <2>3 DEF Grant, With
    <3>2. Stage'
      BY <2>1, <2>2, <3>1 DEF Stage, RequestedIn, AuthorizedIn
    <3>3. Granted'
      BY <1>0, <2>1, <2>3, <3>1 DEF StageInv, Granted
    <3> QED BY <1>0, <2>1, <3>2, <3>3, StageBusy
  <2>4. CASE pc' = "end" /\ UNCHANGED approvals
    <3>1. Granted'
      BY <1>0, <2>1, <2>4 DEF StageInv, Granted
    <3>2. Stage'
      BY <2>4 DEF Stage
    <3> QED BY <1>0, <2>1, <3>1, <3>2, StageBusy
  <2>5. \/ \E g \in {NoOp, op} : Grant(g) /\ approvals' \subseteq approvals \cup {g}
        \/ pc' = "end" /\ UNCHANGED approvals
    BY <1>8 DEF Answer
  <2> QED BY <2>3, <2>4, <2>5
<1>9. CASE StartTool
  <2>1. /\ pc = "authorized" /\ script = <<>> /\ pc \in Busy
        /\ pc' = "end" \/ (pc' = "execute" /\ script' # <<>>)
        /\ UNCHANGED <<log, cur, seen, calls, next, approvals, executed>>
    BY <1>9 DEF StartTool, CancelCall, Busy
  <2>2. Granted'
    BY <1>0, <2>1 DEF StageInv, Granted
  <2>3. Stage'
    BY <1>0, <2>1 DEF StageInv, Stage, AuthorizedIn, StartedIn
  <2> QED BY <1>0, <2>1, <2>2, <2>3, StageBusy
<1>10. CASE Execute
  <2>1. /\ pc = "execute" /\ script = <<>> /\ pc' = "executing" /\ script' = <<>>
        /\ executed' = [executed EXCEPT ![cur] = @ + 1] /\ executed \in [Call -> Nat]
        /\ UNCHANGED <<log, cur, seen, calls, next, approvals>>
    BY <1>10 DEF Execute, TypeInv, TypeOK
  <2>2. cur \in StartedIn(log) /\ executed[cur] = 0
    BY <1>0, <2>1 DEF StageInv, Stage
  <2>3. Counted'
    BY <1>0, <2>1, <2>2 DEF StageInv, Counted, StartedIn
  <2>4. Fresh' /\ Stage' /\ Granted'
    BY <1>0, <2>1 DEF StageInv, Fresh, Stage, Granted, InLoop, Busy, RequestedIn
  <2> QED BY <2>3, <2>4 DEF StageInv
<1>11. CASE ToolReturns
  <2>1. /\ pc = "executing" /\ script = <<>> /\ pc \in Busy /\ pc' \in {"end", "dispatch"}
        /\ UNCHANGED <<log, cur, seen, calls, next, approvals, executed>>
    BY <1>11 DEF ToolReturns, CancelCall, Busy
  <2>2. Stage' /\ Granted'
    BY <1>0, <2>1 DEF StageInv, Stage, Granted
  <2> QED BY <1>0, <2>1, <2>2, StageBusy
<1> QED BY <1>1, <1>2, <1>3, <1>4, <1>5, <1>6, <1>7, <1>8, <1>9, <1>10, <1>11

LEMMA StageInvReply ==
  ASSUME TypeInv, EffectInv, ModelReplies
  PROVE  StageInv'
<1> USE DEF Quiet, At, Continue, storeVars, EffectInv
<1>1. PICK r \in Reply :
        ReplyBroken(r) \/ ReplyInvalid(r) \/ ReplyFinal(r) \/ ReplyWithTools(r)
  BY DEF ModelReplies
<1>2. /\ pc = "model" /\ script = <<>> /\ InLoop
      /\ UNCHANGED <<log, cur, approvals, executed>>
  BY DEF ModelReplies, InLoop, Repairing
<1>3. CASE ReplyBroken(r) \/ ReplyInvalid(r) \/ ReplyFinal(r)
  <2>1. pc' \in Apart /\ UNCHANGED seen
    BY <1>3 DEF ReplyBroken, ReplyInvalid, ReplyFinal, Apart
  <2> QED BY <1>2, <2>1, StageApart
<1>4. CASE ReplyWithTools(r)
  <2>1. /\ pc' = "dispatch" /\ calls' = r.calls /\ next' = 1 /\ ~InvalidIds(r)
        /\ seen \subseteq seen'
    BY <1>4 DEF ReplyWithTools
  <2>2. RequestedIn(log) \subseteq seen
    BY <1>2 DEF StageInv, Fresh
  <2>3. r.calls \in Seq(Call \cup {NoCall})
    BY ConstantsAssumption DEF ReplyType
  <2>4. \A i \in 1 .. Len(r.calls) : r.calls[i] \notin seen
    BY <2>1, <2>3 DEF InvalidIds
  <2>5. Fresh'
    BY <1>2, <2>1, <2>2, <2>4 DEF Fresh, RequestedIn
  <2>6. Stage' /\ Granted' /\ Counted'
    BY <1>2, <2>1 DEF StageInv, Stage, Granted, Counted, StartedIn
  <2> QED BY <2>5, <2>6 DEF StageInv
<1> QED BY <1>1, <1>3, <1>4

LEMMA StageInvEmit ==
  ASSUME TypeInv, CallInv, ShapeInv, EffectInv, Emit
  PROVE  StageInv'
<1> DEFINE r == CurrentRecord
<1>1. /\ script # <<>> /\ script \in Seq(Draft) /\ log \in Seq(Event)
      /\ log' = Append(log, r) /\ script' = Tail(script)
      /\ UNCHANGED <<pc, cur, op, seen, calls, next, approvals, executed>>
  BY DEF Emit, Persist, TypeInv, TypeOK, turnVars
<1>2. /\ r \in Event /\ r.type = script[1].type /\ r.call = script[1].call
      /\ r.op = script[1].op
  BY <1>1, HeadOfScript
<1> HIDE DEF r
<1>3. /\ RequestedIn(log') = RequestedIn(log) \cup
           (IF r.type = "tool.requested" THEN {r.call} ELSE {})
      /\ AskedIn(log') = AskedIn(log) \cup
           (IF r.type = "approval.requested" THEN {r.call} ELSE {})
      /\ GrantedIn(log') = GrantedIn(log) \cup
           (IF r.type = "approval.granted" THEN {r.call} ELSE {})
      /\ AuthorizedIn(log') = AuthorizedIn(log) \cup
           (IF r.type = "tool.authorized" THEN {r.call} ELSE {})
      /\ StartedIn(log') = StartedIn(log) \cup
           (IF r.type = "tool.started" THEN {r.call} ELSE {})
      /\ SessionGrants(log) \subseteq SessionGrants(log')
      /\ r.type = "approval.granted" /\ r.op # NoOp => r.op \in SessionGrants(log')
  BY <1>1, <1>2, CallSetsAppend
<1>4. StageInv /\ FileInv /\ Chain
  BY DEF EffectInv, FileInv
<1>5. Granted'
  <2> SUFFICES ASSUME InLoop, NEW o \in approvals
               PROVE  o \in SessionGrants(log')
    BY <1>1 DEF Granted, InLoop
  <2>1. CASE o \in SessionGrants(log)
    BY <1>3, <2>1
  <2>2. CASE script[1].type = "approval.granted" /\ script[1].op = o
    <3>1. o # NoOp
      BY NoOpAssumption DEF TypeInv, TypeOK
    <3> QED BY <1>2, <1>3, <2>2, <3>1
  <2> QED BY <1>4, <2>1, <2>2 DEF StageInv, Granted
<1>6. Counted'
  BY <1>1, <1>3, <1>4 DEF StageInv, Counted, StartedIn
<1>7. Fresh'
  <2>1. CASE pc = "evaluate" /\ script[1] = About("tool.requested", cur)
    <3>1. cur \in seen /\ \A i \in next .. Len(calls) : calls[i] # cur
      BY <2>1 DEF CallInv, CallInHand, CallsToCome, Busy
    <3>2. r.type = "tool.requested" /\ r.call = cur
      BY <1>2, <2>1 DEF About
    <3> QED BY <1>1, <1>3, <1>4, <3>1, <3>2 DEF StageInv, Fresh, InLoop, RequestedIn
  <2>2. CASE r.type # "tool.requested"
    BY <1>1, <1>3, <1>4, <2>2 DEF StageInv, Fresh, InLoop, RequestedIn
  <2> QED BY <1>1, <1>2, <2>1, <2>2, HeadShape
          DEF Note, About, MarkedTypes, TurnTerminalTypes
<1>8. Stage'
  <2> USE DEF Stage, RequestedIn, AskedIn, GrantedIn, AuthorizedIn, StartedIn
  <2>1. CASE pc \notin {"evaluate", "ask", "waiting", "authorized", "execute"}
    BY <1>1, <2>1
  <2>2. CASE pc = "evaluate"
    <3>1. script = <<About("tool.requested", cur)>>
      BY <1>1, <2>2 DEF ShapeInv
    <3>2. script' = <<>> /\ r.type = "tool.requested" /\ r.call = cur
      BY <1>1, <1>2, <3>1 DEF About
    <3>3. cur \notin RequestedIn(log)
      BY <1>1, <1>4, <2>2 DEF StageInv
    <3> QED BY <1>1, <1>3, <1>4, <2>2, <3>2, <3>3 DEF Chain
  <2>3. CASE pc = "ask"
    <3>1. script = <<About("approval.requested", cur)>>
      BY <1>1, <2>3 DEF ShapeInv
    <3>2. r.type = "approval.requested"
      BY <1>2, <3>1 DEF About
    <3> QED BY <1>1, <1>3, <1>4, <2>3, <3>2 DEF StageInv
  <2>4. CASE pc = "waiting"
    BY <1>1, <2>4 DEF ShapeInv
  <2>5. CASE pc = "authorized"
    <3>1. Authorization(script)
      BY <1>1, <2>5 DEF ShapeInv
    <3>2. cur \in RequestedIn(log) \ AuthorizedIn(log) /\ cur \notin StartedIn(log)
      BY <1>1, <1>4, <2>5 DEF StageInv, Chain
    <3>3. CASE \E o \in Op \cup {NoOp} : script = <<With("tool.authorized", cur, o)>>
      <4>1. script' = <<>> /\ r.type = "tool.authorized" /\ r.call = cur
        BY <1>1, <1>2, <3>3 DEF With
      <4> QED BY <1>1, <1>3, <2>5, <3>2, <4>1
    <3>4. CASE \E g \in {NoOp, op} :
                 script = <<With("approval.granted", cur, g), With("tool.authorized", cur, op)>>
      <4>1. /\ script' = <<With("tool.authorized", cur, op)>>
            /\ r.type = "approval.granted" /\ r.call = cur
        BY <1>1, <1>2, <3>4 DEF With
      <4>2. cur \in GrantedIn(log')
        BY <1>3, <4>1
      <4> QED BY <1>1, <1>3, <2>5, <3>2, <4>1, <4>2
    <3> QED BY <3>1, <3>3, <3>4 DEF Authorization
  <2>6. CASE pc = "execute"
    <3>1. script = <<About("tool.started", cur)>>
      BY <1>1, <2>6 DEF ShapeInv
    <3>2. script' = <<>> /\ r.type = "tool.started" /\ r.call = cur
      BY <1>1, <1>2, <3>1 DEF About
    <3>3. cur \notin StartedIn(log) /\ cur \in AuthorizedIn(log)
      BY <1>1, <1>4, <2>6 DEF StageInv
    <3>4. cur \in Call
      BY <1>4, <3>3 DEF Chain
    <3> QED BY <1>1, <1>3, <1>4, <2>6, <3>2, <3>3, <3>4 DEF StageInv, Counted
  <2> QED BY <2>1, <2>2, <2>3, <2>4, <2>5, <2>6
<1> QED BY <1>5, <1>6, <1>7, <1>8 DEF StageInv

LEMMA StageInvOther ==
  ASSUME TypeInv, CallInv, ShapeInv, EffectInv, [Next]_vars,
         EmitFails \/ BeginTurn \/ ToolThrowsStorage \/ EndTurn \/ Abort
           \/ RepairRead \/ RepairGivesUp \/ RepairCall \/ RepairRefresh \/ RepairTurn
           \/ Resume \/ ResumeStep \/ WriteCheck \/ WriteRead \/ WriteAppend \/ Crash
           \/ UNCHANGED vars
  PROVE  StageInv'
<1> USE DEF At, Continue, storeVars, turnVars
<1>0. StageInv /\ StartedIn(log) \subseteq StartedIn(log')
  BY CallSetsGrow DEF EffectInv
<1>1. CASE EmitFails \/ ToolThrowsStorage
  BY <1>0, <1>1, StageRest DEF EmitFails, ToolThrowsStorage
<1>2. CASE EndTurn \/ RepairGivesUp \/ RepairTurn \/ Crash
  BY <1>0, <1>2, StageRest DEF EndTurn, RepairGivesUp, RepairTurn, Crash, Return
<1>3. CASE RepairRead \/ RepairCall \/ RepairRefresh \/ Resume \/ ResumeStep
  BY <1>0, <1>3, StageRest
     DEF RepairRead, RepairCall, RepairRefresh, Resume, ResumeStep, ResumeAppend, Repairing
<1>4. CASE Abort \/ WriteCheck \/ WriteRead \/ UNCHANGED vars
  <2>1. UNCHANGED <<log, pc, script, cur, seen, calls, next, approvals, executed>>
    BY <1>4 DEF Abort, WriteCheck, WriteRead, vars
  <2> QED BY <1>0, <2>1, StageFrame
          DEF RequestedIn, AskedIn, GrantedIn, AuthorizedIn, StartedIn
<1>5. CASE WriteAppend
  <2> DEFINE r == Record(wseq, 0, Note("model.changed"))
  <2>1. r \in Event /\ r.type = "model.changed"
    <3>1. Note("model.changed") \in Draft /\ wseq \in Nat
      BY DraftTypes, EventNames DEF TypeInv, TypeOK
    <3> QED BY <3>1, RecordType DEF Note
  <2>2. /\ log' = log \/ log' = Append(log, r)
        /\ UNCHANGED <<pc, script, cur, seen, calls, next, approvals, executed>>
    BY <1>5 DEF WriteAppend, Persist, AppendFails, Refuse, Lose, Blur
  <2> HIDE DEF r
  <2> QED BY <1>0, <2>1, <2>2, StageFrame, UnmarkedAppend
<1>6. CASE BeginTurn
  <2>1. /\ pc' = "stepTop" /\ seen' = SeenCalls(log) /\ approvals' = SessionGrants(log)
        /\ UNCHANGED <<log, executed>>
    BY <1>6 DEF BeginTurn
  <2>2. RequestedIn(log) \subseteq SeenCalls(log)
    BY DEF RequestedIn, SeenCalls, CallsWith
  <2>3. Fresh' /\ Stage' /\ Granted'
    BY <2>1, <2>2 DEF Fresh, Stage, Granted, Busy, RequestedIn
  <2>4. Counted'
    BY <1>0, <2>1 DEF StageInv, Counted, StartedIn
  <2> QED BY <2>3, <2>4 DEF StageInv
<1> QED BY <1>1, <1>2, <1>3, <1>4, <1>5, <1>6

LEMMA EffectInvInit == Init => ShapeInv /\ EffectInv
<1> SUFFICES ASSUME Init PROVE ShapeInv /\ EffectInv
  OBVIOUS
<1>1. /\ DOMAIN log = {1} /\ log[1].type = "session.started"
      /\ pc = "idle" /\ script = <<>> /\ executed = [c \in Call |-> 0]
  BY DEF Init, Record, Note
<1>2. \A type : type # "session.started" => CallsWith(log, {type}) = {}
  BY <1>1 DEF CallsWith
<1>3. FileInv
  <2>1. /\ RequestedIn(log) = {} /\ AskedIn(log) = {} /\ GrantedIn(log) = {}
        /\ AuthorizedIn(log) = {} /\ StartedIn(log) = {}
    BY <1>2 DEF RequestedIn, AskedIn, GrantedIn, AuthorizedIn, StartedIn
  <2>2. SessionGrantIsOnFile
    BY <1>1 DEF SessionGrantIsOnFile
  <2> QED BY <2>1, <2>2 DEF FileInv, Chain, Trails
<1>4. StageInv
  BY <1>1 DEF StageInv, Fresh, Stage, Granted, Counted, InLoop, Busy
<1> QED BY <1>1, <1>3, <1>4 DEF ShapeInv, EffectInv

LEMMA EffectInvStep ==
  TypeInv /\ CallInv /\ ShapeInv /\ EffectInv /\ [Next]_vars => EffectInv'
<1> SUFFICES ASSUME TypeInv, CallInv, ShapeInv, EffectInv, [Next]_vars
             PROVE  EffectInv'
  OBVIOUS
<1>1. FileInv'
  BY FileInvStep
<1>2. StageInv'
  <2>1. CASE Done
    BY <2>1, StageInvOther DEF Done
  <2> QED BY <2>1, StageInvDecision, StageInvReply, StageInvEmit, StageInvOther
          DEF Next, LoopStep
<1> QED BY <1>1, <1>2 DEF EffectInv

(* No tool runs before its request, its authorisation, any approval that   *)
(* was asked for and its start are on file, it runs once, and an operation *)
(* let through without asking rests on a session approval on file: for any *)
(* replies of the model, and any number of faults, crashes, resumes and    *)
(* settings requests.                                                      *)
THEOREM EffectsOnFile == Spec => []EffectsAreOnFile
<1>1. EffectInv => EffectsAreOnFile
  <2> SUFFICES ASSUME EffectInv PROVE ExecutionIsOnFile
    BY DEF EffectsAreOnFile, EffectInv, FileInv
  <2> SUFFICES ASSUME NEW c \in Call, executed[c] > 0
               PROVE  executed[c] = 1 /\ StartTrail(log, c)
    BY DEF ExecutionIsOnFile, StartTrail, Occurs, EventsOf
  <2> QED BY DEF EffectInv, StageInv, Counted, FileInv, Trails
<1> QED BY TypeInvInit, TypeInvStep, CallInvInit, CallInvStep, EffectInvInit,
        ShapeInvStep, EffectInvStep, <1>1, PTL DEF Spec

-----------------------------------------------------------------------------
(* What is open in a file                                                  *)

(* What one more event adds to the turns of a log.                         *)
LEMMA TurnsWithAppend ==
  ASSUME NEW l \in Seq(Event), NEW r \in Event, NEW types
  PROVE  TurnsWith(Append(l, r), types)
           = TurnsWith(l, types) \cup (IF r.type \in types THEN {r.turn} ELSE {})
<1> DEFINE m == Append(l, r)
<1>1. /\ Len(m) = Len(l) + 1 /\ Len(l) \in Nat
      /\ m[Len(l) + 1] = r
      /\ \A i \in 1 .. Len(l) : m[i] = l[i]
      /\ DOMAIN m = 1 .. Len(l) + 1 /\ DOMAIN l = 1 .. Len(l)
  OBVIOUS
<1>2. ASSUME NEW t \in TurnsWith(m, types)
      PROVE  t \in TurnsWith(l, types) \cup (IF r.type \in types THEN {r.turn} ELSE {})
  <2>1. PICK i \in DOMAIN m : m[i].type \in types /\ t = m[i].turn
    BY <1>2 DEF TurnsWith
  <2>2. CASE i = Len(l) + 1
    BY <2>1, <2>2, <1>1
  <2>3. CASE i \in 1 .. Len(l)
    BY <2>1, <2>3, <1>1 DEF TurnsWith
  <2> QED BY <2>1, <2>2, <2>3, <1>1
<1>3. ASSUME NEW t \in TurnsWith(l, types) \cup (IF r.type \in types THEN {r.turn} ELSE {})
      PROVE  t \in TurnsWith(m, types)
  <2>1. CASE t \in TurnsWith(l, types)
    <3>1. PICK i \in DOMAIN l : l[i].type \in types /\ t = l[i].turn
      BY <2>1 DEF TurnsWith
    <3> QED BY <3>1, <1>1 DEF TurnsWith
  <2>2. CASE r.type \in types /\ t = r.turn
    <3>1. Len(l) + 1 \in DOMAIN m /\ m[Len(l) + 1].type \in types
      BY <1>1, <2>2
    <3> QED BY <3>1, <1>1, <2>2 DEF TurnsWith
  <2> QED BY <1>3, <2>1, <2>2
<1> QED BY <1>2, <1>3

(* What one more event leaves open.                                        *)
LEMMA OpenAppend ==
  ASSUME NEW l \in Seq(Event), NEW r \in Event
  PROVE  /\ DanglingCalls(Append(l, r)) =
              (DanglingCalls(l) \cup
                 (IF r.type = "tool.requested" THEN {r.call} \ Closed(l) ELSE {}))
              \ (IF r.type \in ToolTerminalTypes THEN {r.call} ELSE {})
         /\ IncompleteTurns(Append(l, r)) =
              (IncompleteTurns(l) \cup
                 (IF r.type = "turn.started"
                  THEN {r.turn} \ TurnsWith(l, TurnTerminalTypes) ELSE {}))
              \ (IF r.type \in TurnTerminalTypes THEN {r.turn} ELSE {})
<1>1. /\ CallsWith(Append(l, r), {"tool.requested"}) =
           CallsWith(l, {"tool.requested"}) \cup
             (IF r.type \in {"tool.requested"} THEN {r.call} ELSE {})
      /\ CallsWith(Append(l, r), ToolTerminalTypes) =
           CallsWith(l, ToolTerminalTypes) \cup
             (IF r.type \in ToolTerminalTypes THEN {r.call} ELSE {})
  BY CallsWithAppend
<1>2. /\ TurnsWith(Append(l, r), {"turn.started"}) =
           TurnsWith(l, {"turn.started"}) \cup
             (IF r.type \in {"turn.started"} THEN {r.turn} ELSE {})
      /\ TurnsWith(Append(l, r), TurnTerminalTypes) =
           TurnsWith(l, TurnTerminalTypes) \cup
             (IF r.type \in TurnTerminalTypes THEN {r.turn} ELSE {})
  BY TurnsWithAppend
<1>3. "tool.requested" \notin ToolTerminalTypes /\ "turn.started" \notin TurnTerminalTypes
  BY DEF ToolTerminalTypes, TurnTerminalTypes
<1>4. DanglingCalls(Append(l, r)) =
        (DanglingCalls(l) \cup
           (IF r.type = "tool.requested" THEN {r.call} \ Closed(l) ELSE {}))
        \ (IF r.type \in ToolTerminalTypes THEN {r.call} ELSE {})
  BY <1>1, <1>3 DEF DanglingCalls, Closed
<1>5. IncompleteTurns(Append(l, r)) =
        (IncompleteTurns(l) \cup
           (IF r.type = "turn.started"
            THEN {r.turn} \ TurnsWith(l, TurnTerminalTypes) ELSE {}))
        \ (IF r.type \in TurnTerminalTypes THEN {r.turn} ELSE {})
  BY <1>2, <1>3 DEF IncompleteTurns
<1> QED BY <1>4, <1>5

(* The prefixes of a log with one more event.                              *)
LEMMA PrefixesOfAppend ==
  ASSUME NEW l \in Seq(Event), NEW r \in Event
  PROVE  /\ SubSeq(Append(l, r), 1, Len(l) + 1) = Append(l, r)
         /\ \A i \in 1 .. Len(l) : SubSeq(Append(l, r), 1, i) = SubSeq(l, 1, i)
<1> DEFINE m == Append(l, r)
<1>1. /\ m \in Seq(Event) /\ Len(m) = Len(l) + 1 /\ Len(l) \in Nat
      /\ \A i \in 1 .. Len(l) : m[i] = l[i] /\ m[i] \in Event /\ l[i] \in Event
      /\ \A i \in 1 .. Len(m) : m[i] \in Event
  BY AppendProperties
<1> HIDE DEF m
<1>2. SubSeq(m, 1, Len(l) + 1) = m
  <2>1. /\ SubSeq(m, 1, Len(l) + 1) \in Seq(Event)
        /\ Len(SubSeq(m, 1, Len(l) + 1)) = Len(m)
        /\ \A i \in 1 .. Len(m) : SubSeq(m, 1, Len(l) + 1)[i] = m[i]
    BY <1>1, SubSeqProperties
  <2> QED BY <1>1, <2>1, SeqEqual
<1>3. ASSUME NEW i \in 1 .. Len(l)
      PROVE  SubSeq(m, 1, i) = SubSeq(l, 1, i)
  <2>1. \A j \in 1 .. i : j \in 1 .. Len(l)
    BY <1>1
  <2>2. /\ SubSeq(m, 1, i) \in Seq(Event) /\ Len(SubSeq(m, 1, i)) = i
        /\ \A j \in 1 .. i : SubSeq(m, 1, i)[j] = m[j]
    BY <1>1, <2>1, SubSeqProperties
  <2>3. /\ SubSeq(l, 1, i) \in Seq(Event) /\ Len(SubSeq(l, 1, i)) = i
        /\ \A j \in 1 .. i : SubSeq(l, 1, i)[j] = l[j]
    BY <1>1, <2>1, SubSeqProperties
  <2>4. \A j \in 1 .. i : SubSeq(m, 1, i)[j] = SubSeq(l, 1, i)[j]
    BY <1>1, <2>1, <2>2, <2>3
  <2> QED BY <2>2, <2>3, <2>4, SeqEqual
<1> QED BY <1>2, <1>3 DEF m

LEMMA ResumeInvStep == TypeInv /\ ShapeInv /\ ResumeInv /\ [Next]_vars => ResumeInv'
<1> SUFFICES ASSUME TypeInv, ShapeInv, ResumeInv, [Next]_vars, pc' = "resume"
             PROVE  DanglingCalls(log') \subseteq orphans'
  BY DEF ResumeInv, DanglingCalls
<1> USE DEF At, Continue
<1>0. log \in Seq(Event)
  BY DEF TypeInv, TypeOK
<1>1. CASE Resume
  BY <1>1 DEF Resume, storeVars
<1>2. CASE ResumeStep
  <2>1. ASSUME NEW t \in Nat, NEW c \in Call \cup {NoCall}, NEW type \in EventTypes,
               ResumeAppend(t, About(type, c)), type # "tool.requested",
               orphans # {} => type = "tool.failed"
        PROVE  DanglingCalls(log') \subseteq orphans'
    <3> DEFINE r == Record(seqn + 1, t, About(type, c))
    <3>1. r \in Event /\ r.type = type /\ r.call = c
      <4>1. seqn + 1 \in Nat
        BY DEF TypeInv, TypeOK
      <4> QED BY <4>1, DraftTypes, RecordType DEF About
    <3>2. log' = Append(log, r) /\ orphans' = orphans \ {c}
      BY <2>1 DEF ResumeAppend, Persist, About
    <3> HIDE DEF r
    <3>3. DanglingCalls(log) \subseteq orphans
      BY <1>2 DEF ResumeStep, ResumeInv
    <3>4. "tool.failed" \in ToolTerminalTypes
      BY DEF ToolTerminalTypes
    <3> QED BY <1>0, <2>1, <3>1, <3>2, <3>3, <3>4, OpenAppend
  <2>2. \A type : Note(type) = About(type, NoCall)
    BY DEF Note, About
  <2>3. {"tool.failed", "turn.failed", "session.resumed"} \subseteq EventTypes
    BY EventNames
  <2>4. CASE orphans # {}
    <3>1. PICK c \in orphans : ResumeAppend(TurnOf(log, c), About("tool.failed", c))
      BY <1>2, <2>4 DEF ResumeStep
    <3>2. TurnOf(log, c) \in Nat /\ c \in Call \cup {NoCall}
      BY <1>0, <1>2, TurnOfType DEF TypeInv, TypeOK, ResumeStep
    <3> QED BY <2>1, <2>3, <3>1, <3>2
  <2>5. CASE orphans = {}
    <3>1. \A t \in IncompleteTurns(log) : t \in Nat
      BY <1>0, EventFields DEF IncompleteTurns, TurnsWith
    <3>2. PICK t \in Nat, type \in {"turn.failed", "session.resumed"} :
            ResumeAppend(t, About(type, NoCall))
      BY <1>2, <2>2, <2>5, <3>1 DEF ResumeStep
    <3> QED BY <2>1, <2>3, <2>5, <3>2
  <2> QED BY <2>4, <2>5
<1>3. CASE WriteAppend
  <2> DEFINE r == Record(wseq, 0, Note("model.changed"))
  <2>1. r \in Event /\ r.type = "model.changed"
    <3>1. Note("model.changed") \in Draft /\ wseq \in Nat
      BY DraftTypes, EventNames DEF TypeInv, TypeOK
    <3> QED BY <3>1, RecordType DEF Note
  <2>2. /\ log' = log \/ log' = Append(log, r)
        /\ orphans' = orphans /\ DanglingCalls(log) \subseteq orphans
    BY <1>3 DEF WriteAppend, Persist, AppendFails, Refuse, Lose, Blur, repairVars, ResumeInv
  <2> HIDE DEF r
  <2> QED BY <1>0, <2>1, <2>2, OpenAppend
<1>4. CASE WriteCheck \/ WriteRead \/ Done \/ UNCHANGED vars
  BY <1>4 DEF WriteCheck, WriteRead, Done, vars, storeVars, repairVars, ResumeInv
<1>5. CASE Emit
  BY <1>5 DEF Emit, ShapeInv
<1>6. CASE EmitFails \/ StepTop \/ BuildContext \/ ModelFailed \/ EndOfStep
           \/ DispatchTool \/ AskApproval \/ ApprovalAborted \/ StartTool
           \/ Execute \/ ToolReturns \/ ToolThrowsStorage \/ Answer \/ Abort
  BY <1>6 DEF EmitFails, StepTop, BuildContext, ModelFailed, EndOfStep, DispatchTool,
     AskApproval, ApprovalAborted, StartTool, Execute, ToolReturns, CancelCall,
     ToolThrowsStorage, Answer, Grant, Abort, Running
<1>7. CASE ModelReplies \/ EvaluateCall
  BY <1>7 DEF ModelReplies, ReplyBroken, ReplyInvalid, ReplyFinal, ReplyWithTools,
     EvaluateCall, RejectInput, RepeatedTooOften, Judged
<1>8. CASE EndTurn \/ RepairRead \/ RepairGivesUp \/ RepairCall \/ RepairRefresh
           \/ RepairTurn \/ BeginTurn \/ Crash
  BY <1>8 DEF EndTurn, RepairRead, RepairGivesUp, RepairCall, RepairRefresh, RepairTurn,
     BeginTurn, Crash, Return
<1> QED BY <1>1, <1>2, <1>3, <1>4, <1>5, <1>6, <1>7, <1>8 DEF Next, LoopStep

(* The event that says the session was resumed is written when nothing is  *)
(* open, and nothing in the loop writes one.                               *)
LEMMA ResumedIsClosed ==
  ASSUME TypeInv, ShapeInv, ResumeInv, NEW r \in Event, Pending(r),
         r.type = "session.resumed"
  PROVE  DanglingCalls(log) = {} /\ IncompleteTurns(log) = {}
<1>1. CASE script # <<>> /\ r = CurrentRecord
  <2>1. script[1].type = "session.resumed"
    BY <1>1, HeadOfScript
  <2> QED BY <1>1, <2>1, HeadShape DEF Note, About, MarkedTypes, TurnTerminalTypes
<1>2. CASE ~(script # <<>> /\ r = CurrentRecord)
  BY <1>2 DEF Pending, ResumeInv
<1> QED BY <1>1, <1>2

(* A session is recorded as resumed only when no call dangles and no turn  *)
(* is incomplete, for any number of faults, crashes and resumes.           *)
THEOREM ResumeLeavesNothingOpen == Spec => []ResumeCloses
<1>1. Init => ResumeInv /\ ResumeCloses
  BY DEF Init, ResumeInv, ResumeCloses, Record, Note
<1>2. TypeInv /\ ShapeInv /\ ResumeInv /\ ResumeCloses /\ [Next]_vars => ResumeCloses'
  <2> SUFFICES ASSUME TypeInv, ShapeInv, ResumeInv, ResumeCloses, [Next]_vars
               PROVE  ResumeCloses'
    OBVIOUS
  <2>1. CASE log' = log
    BY <2>1 DEF ResumeCloses
  <2>2. ASSUME NEW r \in Event, log' = Append(log, r), Pending(r)
        PROVE  ResumeCloses'
    <3>1. log \in Seq(Event)
      BY DEF TypeInv, TypeOK
    <3>2. /\ Len(log) \in Nat /\ log'[Len(log) + 1] = r
          /\ \A i \in 1 .. Len(log) : log'[i] = log[i]
          /\ DOMAIN log' = 1 .. Len(log) + 1 /\ DOMAIN log = 1 .. Len(log)
      BY <2>2, <3>1, AppendProperties
    <3> SUFFICES ASSUME NEW i \in 1 .. Len(log) + 1, log'[i].type = "session.resumed"
                 PROVE  /\ DanglingCalls(SubSeq(log', 1, i)) = {}
                        /\ IncompleteTurns(SubSeq(log', 1, i)) = {}
      BY <3>2 DEF ResumeCloses
    <3>3. CASE i \in 1 .. Len(log)
      <4>1. SubSeq(log', 1, i) = SubSeq(log, 1, i)
        BY <2>2, <3>1, <3>3, PrefixesOfAppend
      <4> QED BY <3>2, <3>3, <4>1 DEF ResumeCloses
    <3>4. CASE i = Len(log) + 1
      <4>1. SubSeq(log', 1, i) = Append(log, r)
        BY <2>2, <3>1, <3>4, PrefixesOfAppend
      <4>2. r.type = "session.resumed"
        BY <3>2, <3>4
      <4>3. DanglingCalls(log) = {} /\ IncompleteTurns(log) = {}
        BY <2>2, <4>2, ResumedIsClosed
      <4>4. DanglingCalls(Append(log, r)) = {} /\ IncompleteTurns(Append(log, r)) = {}
        BY <3>1, <4>2, <4>3, OpenAppend
      <4> QED BY <4>1, <4>4
    <3> QED BY <3>2, <3>3, <3>4
  <2> QED BY <2>1, <2>2, AppendedEvent
<1> QED BY TypeInvInit, TypeInvStep, EffectInvInit, ShapeInvStep, ResumeInvStep,
        <1>1, <1>2, PTL DEF Spec

-----------------------------------------------------------------------------
(* How turns end                                                           *)

LEMMA ProperAppend ==
  ASSUME TypeInv, OneTerminal, EndFile, NEW r \in Event, log' = Append(log, r), Proper(r),
         turn' = turn
  PROVE  EndFile'
<1>0. log \in Seq(Event) /\ turn \in Nat /\ r.turn \in Nat
  BY DEF TypeInv, TypeOK, Event
<1>1. /\ Len(log) \in Nat /\ Len(log') = Len(log) + 1 /\ log'[Len(log) + 1] = r
      /\ \A i \in 1 .. Len(log) : log'[i] = log[i]
      /\ DOMAIN log' = 1 .. Len(log) + 1 /\ DOMAIN log = 1 .. Len(log)
  BY <1>0, AppendProperties
<1>2. /\ Begun(log') = Begun(log) \cup (IF r.type = "turn.started" THEN {r.turn} ELSE {})
      /\ Ended(log') = Ended(log) \cup (IF r.type \in TurnTerminalTypes THEN {r.turn} ELSE {})
      /\ Closed(log') = Closed(log) \cup (IF r.type \in ToolTerminalTypes THEN {r.call} ELSE {})
  <2>1. Begun(log') = Begun(log) \cup (IF r.type \in {"turn.started"} THEN {r.turn} ELSE {})
    BY <1>0, TurnsWithAppend DEF Begun
  <2>2. /\ Ended(log') = Ended(log) \cup (IF r.type \in TurnTerminalTypes THEN {r.turn} ELSE {})
        /\ Closed(log') = Closed(log) \cup (IF r.type \in ToolTerminalTypes THEN {r.call} ELSE {})
    BY <1>0, TurnsWithAppend, CallsWithAppend DEF Ended, Closed
  <2> QED BY <2>1, <2>2
<1>3. /\ DanglingCalls(log') =
           (DanglingCalls(log) \cup
              (IF r.type = "tool.requested" THEN {r.call} \ Closed(log) ELSE {}))
           \ (IF r.type \in ToolTerminalTypes THEN {r.call} ELSE {})
      /\ IncompleteTurns(log') =
           (IncompleteTurns(log) \cup
              (IF r.type = "turn.started" THEN {r.turn} \ Ended(log) ELSE {}))
           \ (IF r.type \in TurnTerminalTypes THEN {r.turn} ELSE {})
  BY <1>0, OpenAppend DEF Ended
<1>4. IncompleteTurns(log) \subseteq Begun(log)
  BY DEF IncompleteTurns, Begun
<1>5. TurnsInv'
  <2>1. \A i \in DOMAIN log' : log'[i].turn =< turn
    BY <1>1 DEF EndFile, TurnsInv, Proper
  <2>2. Ended(log') \subseteq Begun(log')
    BY <1>2, <1>4 DEF EndFile, TurnsInv, Proper
  <2>3. Begun(log') \subseteq 1 .. turn /\ turn =< MaxTurns
    BY <1>0, <1>2 DEF EndFile, TurnsInv, Proper
  <2>4. IncompleteTurns(log') \subseteq {turn}
    BY <1>3 DEF EndFile, TurnsInv, Proper
  <2> QED BY <2>1, <2>2, <2>3, <2>4 DEF TurnsInv, Begun, Ended, IncompleteTurns
<1>6. OpenCallsInOpenTurn'
  <2> SUFFICES ASSUME NEW j \in 1 .. Len(log) + 1, log'[j].type = "tool.requested",
                      log'[j].call \in DanglingCalls(log')
               PROVE  log'[j].turn \in IncompleteTurns(log')
    BY <1>1 DEF OpenCallsInOpenTurn, DanglingCalls, IncompleteTurns
  <2>0. "tool.requested" \notin TurnTerminalTypes \cup ToolTerminalTypes
    BY DEF TurnTerminalTypes, ToolTerminalTypes
  <2>1. CASE j = Len(log) + 1
    BY <1>1, <1>3, <2>0, <2>1 DEF Proper
  <2>2. CASE j \in 1 .. Len(log)
    <3>1. r.type # "tool.requested" \/ r.call # log[j].call
      <4>1. log[j].call \in RequestedIn(log)
        BY <1>1, <2>2 DEF RequestedIn, CallsWith
      <4> QED BY <4>1 DEF Proper
    <3>2. log[j].call \in DanglingCalls(log)
      BY <1>1, <1>3, <2>2, <3>1
    <3>3. log[j].turn \in IncompleteTurns(log)
      BY <1>1, <2>2, <3>2 DEF EndFile, OpenCallsInOpenTurn
    <3> QED BY <1>1, <1>3, <2>2, <3>2, <3>3 DEF Proper
  <2> QED BY <1>1, <2>1, <2>2
<1>7. ClosedAfterRequest'
  <2> SUFFICES ASSUME NEW j \in 1 .. Len(log) + 1, log'[j].type = "tool.requested",
                      log'[j].call \in Closed(log')
               PROVE  \E k \in j + 1 .. Len(log) + 1 :
                        log'[k].type \in ToolTerminalTypes /\ log'[k].call = log'[j].call
    BY <1>1 DEF ClosedAfterRequest, Closed
  <2>0. "tool.requested" \notin ToolTerminalTypes
    BY DEF ToolTerminalTypes
  <2>1. j \in 1 .. Len(log) /\ log'[j] = log[j]
    <3>1. CASE j = Len(log) + 1
      <4>1. r.call \notin Closed(log)
        BY <1>1, <3>1 DEF Proper, OneTerminal
      <4> QED BY <1>1, <1>2, <2>0, <3>1, <4>1
    <3> QED BY <1>1, <3>1
  <2>2. CASE r.type \in ToolTerminalTypes /\ r.call = log[j].call
    <3>1. Len(log) + 1 \in j + 1 .. Len(log) + 1
      BY <1>1, <2>1
    <3> QED BY <1>1, <2>1, <2>2, <3>1
  <2>3. CASE log[j].call \in Closed(log)
    <3>1. PICK k \in j + 1 .. Len(log) :
            log[k].type \in ToolTerminalTypes /\ log[k].call = log[j].call
      BY <1>1, <2>1, <2>3 DEF EndFile, ClosedAfterRequest
    <3>2. k \in 1 .. Len(log) /\ k \in j + 1 .. Len(log) + 1
      BY <1>1, <2>1
    <3> QED BY <1>1, <2>1, <3>1, <3>2
  <2> QED BY <1>2, <2>1, <2>2, <2>3
<1>8. NothingAfterTheEnd'
  <2> SUFFICES ASSUME NEW i \in 1 .. Len(log) + 1, log'[i].type \in TurnTerminalTypes,
                      NEW j \in i + 1 .. Len(log) + 1
               PROVE  log'[j].turn # log'[i].turn
    BY <1>1 DEF NothingAfterTheEnd
  <2>1. i \in 1 .. Len(log) /\ log'[i] = log[i]
    BY <1>1
  <2>2. CASE j \in 1 .. Len(log)
    <3>1. j \in i + 1 .. Len(log)
      BY <1>1, <2>1, <2>2
    <3> QED BY <1>1, <2>1, <2>2, <3>1 DEF EndFile, TurnEndsClean, NothingAfterTheEnd
  <2>3. CASE j = Len(log) + 1
    <3>1. log[i].turn \in Ended(log)
      BY <1>1, <2>1 DEF Ended, TurnsWith
    <3> QED BY <1>1, <2>1, <2>3, <3>1 DEF Proper
  <2> QED BY <1>1, <2>1, <2>2, <2>3
<1>9. TurnClosesItsCalls'
  <2> SUFFICES ASSUME NEW i \in 1 .. Len(log) + 1, log'[i].type \in TurnTerminalTypes,
                      NEW j \in 1 .. i - 1, log'[j].type = "tool.requested",
                      log'[j].turn = log'[i].turn
               PROVE  \E k \in j + 1 .. i - 1 :
                        log'[k].type \in ToolTerminalTypes /\ log'[k].call = log'[j].call
    BY <1>1 DEF TurnClosesItsCalls
  <2>1. j \in 1 .. Len(log) /\ log'[j] = log[j]
    BY <1>1
  <2>2. CASE i \in 1 .. Len(log)
    <3>1. PICK k \in j + 1 .. i - 1 :
            log[k].type \in ToolTerminalTypes /\ log[k].call = log[j].call
      BY <1>1, <2>1, <2>2 DEF EndFile, TurnEndsClean, TurnClosesItsCalls
    <3>2. k \in 1 .. Len(log)
      BY <1>1, <2>1, <2>2
    <3> QED BY <1>1, <2>1, <3>1, <3>2
  <2>3. CASE i = Len(log) + 1
    <3>1. log[j].call \in Closed(log)
      <4>1. log[j].call \in CallsWith(log, {"tool.requested"})
        BY <1>1, <2>1 DEF CallsWith
      <4>2. DanglingCalls(log) = {}
        BY <1>1, <2>3 DEF Proper
      <4> QED BY <4>1, <4>2 DEF DanglingCalls, Closed
    <3>2. PICK k \in j + 1 .. Len(log) :
            log[k].type \in ToolTerminalTypes /\ log[k].call = log[j].call
      BY <1>1, <2>1, <3>1 DEF EndFile, ClosedAfterRequest
    <3>3. k \in 1 .. Len(log) /\ k \in j + 1 .. i - 1
      BY <1>1, <2>1, <2>3
    <3> QED BY <1>1, <2>1, <3>2, <3>3
  <2> QED BY <1>1, <2>2, <2>3
<1> QED BY <1>5, <1>6, <1>7, <1>8, <1>9 DEF EndFile, TurnEndsClean

LEMMA DanglingIsOpen ==
  ASSUME TypeInv, EndInv, DanglingCalls(log) # {}
  PROVE  IncompleteTurns(log) # {}
<1>1. PICK c \in CallsWith(log, {"tool.requested"}) : c \in DanglingCalls(log)
  BY DEF DanglingCalls
<1>2. PICK j \in DOMAIN log : log[j].type = "tool.requested" /\ log[j].call = c
  BY <1>1 DEF CallsWith
<1> QED BY <1>1, <1>2 DEF EndInv, EndFile, OpenCallsInOpenTurn

LEMMA IncompleteIsCurrent ==
  ASSUME TypeInv, EndInv, NEW t \in IncompleteTurns(log)
  PROVE  t = turn /\ t \notin Ended(log) /\ t \in Nat
BY DEF EndInv, EndFile, TurnsInv, IncompleteTurns, Ended, TypeInv, TypeOK

(* The terminal event of a call in the script is that of the open call.    *)
LEMMA ScriptedTerminal ==
  ASSUME TypeInv, CallInv, NEW i \in DOMAIN script, script[i].type \in ToolTerminalTypes
  PROVE  script[i].call = cur /\ cur \in DanglingCalls(log) /\ pc \in {"dispatch", "end"}
BY DEF CallInv, TerminalsAreFresh, DanglingCalls, Closed, RequestedIn

(* A marked event is queued at its own place.                              *)
LEMMA MarkedHead ==
  ASSUME TypeInv, ShapeInv, script # <<>>, script[1].type \in MarkedTypes \ TurnTerminalTypes
  PROVE  \/ pc = "stepTop" /\ script[1].type = "turn.started"
         \/ pc = "evaluate" /\ script[1].type = "tool.requested" /\ script[1].call = cur
         \/ pc = "ask" /\ script[1].type = "approval.requested" /\ script[1].call = cur
         \/ /\ pc = "authorized" /\ script[1].call = cur
            /\ script[1].type \in {"approval.granted", "tool.authorized"}
         \/ pc = "execute" /\ script[1].type = "tool.started" /\ script[1].call = cur
BY HeadShape DEF Note, About

LEMMA PendingInLoop ==
  ASSUME TypeInv, CallInv, ShapeInv, EffectInv, EndInv, script # <<>>
  PROVE  Proper(CurrentRecord)
<1> DEFINE r == CurrentRecord
<1>1. /\ r \in Event /\ r.type = script[1].type /\ r.call = script[1].call
      /\ r.turn = turn /\ 1 \in DOMAIN script
  BY HeadOfScript
<1>2. turn \in Nat /\ script \in Seq(Draft)
  BY DEF TypeInv, TypeOK
<1> HIDE DEF r
<1>3. InLoop
  BY DEF ShapeInv, InLoop, Repairing
<1>4. CASE Opening
  <2>1. r.type = "turn.started"
    BY <1>1, <1>4 DEF Opening, Note
  <2>2. IncompleteTurns(log) = {} /\ turn \notin Begun(log) /\ turn >= 1
    BY <1>3, <1>4 DEF EndInv, TurnInHand
  <2>3. turn \notin Ended(log)
    BY <2>2 DEF EndInv, EndFile, TurnsInv
  <2>4. "turn.started" \notin TurnTerminalTypes \cup ToolTerminalTypes
    BY DEF TurnTerminalTypes, ToolTerminalTypes
  <2> QED BY <1>1, <1>2, <2>1, <2>2, <2>3, <2>4 DEF Proper, r
<1>5. CASE ~Opening
  <2>1. IncompleteTurns(log) = {turn}
    BY <1>3, <1>5 DEF EndInv, TurnInHand
  <2>2. turn \notin Ended(log)
    BY <2>1, IncompleteIsCurrent
  <2>3. DanglingCalls(log) \subseteq {cur}
    BY <1>3 DEF EndInv, CallStillOpen
  <2>4. CASE r.type = "tool.requested"
    <3>1. pc = "evaluate" /\ r.call = cur
      <4>1. "tool.requested" \in MarkedTypes \ TurnTerminalTypes
        BY DEF MarkedTypes, TurnTerminalTypes
      <4> QED BY <1>1, <2>4, <4>1, MarkedHead
    <3>2. cur \in Call \ RequestedIn(log)
      BY <3>1 DEF EffectInv, StageInv, Stage
    <3>3. DanglingCalls(log) = {}
      BY <2>3, <3>2 DEF DanglingCalls, RequestedIn
    <3>4. "tool.requested" \notin TurnTerminalTypes \cup ToolTerminalTypes
      BY DEF TurnTerminalTypes, ToolTerminalTypes
    <3> QED BY <1>1, <1>2, <2>1, <2>2, <2>4, <3>1, <3>2, <3>3, <3>4 DEF Proper, r
  <2>5. CASE r.type \in {"tool.authorized", "tool.started"}
    <3>1. \/ pc = "authorized" /\ r.type = "tool.authorized" /\ r.call = cur
          \/ pc = "execute" /\ r.type = "tool.started" /\ r.call = cur
      BY <1>1, <2>5, HeadShape DEF Note, About, MarkedTypes, TurnTerminalTypes
    <3>2. cur \in RequestedIn(log) /\ cur \notin Closed(log)
      <4>1. pc \in Busy /\ pc # "evaluate"
        BY <3>1 DEF Busy
      <4> QED BY <4>1 DEF CallInv, CallInHand
    <3>3. cur \in DanglingCalls(log)
      BY <3>2 DEF DanglingCalls, RequestedIn, Closed
    <3>4. /\ r.type = "tool.authorized" => cur \notin AuthorizedIn(log)
          /\ r.type = "tool.started" => cur \in AuthorizedIn(log) \ StartedIn(log)
      BY <3>1 DEF EffectInv, StageInv, Stage
    <3>5. {"tool.authorized", "tool.started"} \cap (TurnTerminalTypes \cup ToolTerminalTypes) = {}
      BY DEF TurnTerminalTypes, ToolTerminalTypes
    <3> QED BY <1>1, <1>2, <2>1, <2>2, <2>5, <3>1, <3>3, <3>4, <3>5 DEF Proper, r
  <2>6. CASE r.type \in ToolTerminalTypes
    <3>1. r.call \in DanglingCalls(log)
      BY <1>1, <2>6, ScriptedTerminal
    <3>2. ToolTerminalTypes \cap (TurnTerminalTypes \cup
            {"turn.started", "tool.requested", "tool.authorized", "tool.started"}) = {}
      BY DEF TurnTerminalTypes, ToolTerminalTypes
    <3> QED BY <1>1, <1>2, <2>1, <2>2, <2>6, <3>1, <3>2 DEF Proper, r
  <2>7. CASE r.type \in TurnTerminalTypes
    <3>1. pc = "end" /\ Final(script)
      <4>1. pc \in {"context", "model", "modelCancelled", "modelFailed", "dispatch", "end"}
        BY <1>1, <2>7, HeadShape DEF Note, About, TurnTerminalTypes
      <4>2. Plain(script) => r.type \notin MarkedTypes
        BY <1>1, <1>2, TailOfScript
      <4> QED BY <2>7, <4>1, <4>2 DEF ShapeInv, MarkedTypes
    <3>2. \A i \in DOMAIN script : i = 1
      <4>1. Len(script) \in Nat \ {0} /\ DOMAIN script = 1 .. Len(script)
        BY <1>2, TailOfScript
      <4>2. 1 \notin 1 .. Len(script) - 1
        BY <1>1, <2>7, <3>1 DEF Final, MarkedTypes
      <4> QED BY <4>1, <4>2
    <3>3. DanglingCalls(log) = {}
      <4>1. ToolTerminalTypes \cap TurnTerminalTypes = {}
        BY DEF TurnTerminalTypes, ToolTerminalTypes
      <4>2. \A i \in DOMAIN script : script[i].type \notin ToolTerminalTypes
        BY <1>1, <2>7, <3>2, <4>1
      <4> QED BY <1>3, <3>1, <4>2 DEF EndInv, CallStillOpen, Busy
    <3>4. TurnTerminalTypes \cap (ToolTerminalTypes \cup
            {"turn.started", "tool.requested", "tool.authorized", "tool.started"}) = {}
      BY DEF TurnTerminalTypes, ToolTerminalTypes
    <3> QED BY <1>1, <1>2, <2>1, <2>2, <2>7, <3>3, <3>4 DEF Proper, r
  <2>8. CASE r.type \notin {"turn.started", "tool.requested", "tool.authorized", "tool.started"}
                             \cup ToolTerminalTypes \cup TurnTerminalTypes
    BY <1>1, <1>2, <2>2, <2>8 DEF Proper, r
  <2>9. r.type # "turn.started"
    <3>1. r.type = "turn.started" => pc = "stepTop"
      <4>1. "turn.started" \in MarkedTypes \ TurnTerminalTypes
        BY DEF MarkedTypes, TurnTerminalTypes
      <4> QED BY <1>1, <4>1, MarkedHead
    <3>2. pc = "stepTop" => Opening
      BY DEF ShapeInv, Opening
    <3> QED BY <1>5, <3>1, <3>2
  <2> QED BY <2>4, <2>5, <2>6, <2>7, <2>8, <2>9
<1> QED BY <1>4, <1>5

(* Every event that a step may append is a proper one.                     *)
LEMMA PendingIsProper ==
  ASSUME TypeInv, CallInv, ShapeInv, EffectInv, EndInv, NEW r \in Event, Pending(r)
  PROVE  Proper(r)
<1>0. /\ turn \in Nat
      /\ 0 \notin Ended(log)
      /\ "tool.failed" \in ToolTerminalTypes /\ "turn.failed" \in TurnTerminalTypes
      /\ ToolTerminalTypes \cap TurnTerminalTypes = {}
      /\ (ToolTerminalTypes \cup TurnTerminalTypes) \cap
           {"turn.started", "tool.requested", "tool.authorized", "tool.started",
            "session.resumed", "model.changed"} = {}
  BY DEF TypeInv, TypeOK, EndInv, EndFile, TurnsInv, ToolTerminalTypes, TurnTerminalTypes
<1>1. CASE script # <<>> /\ r = CurrentRecord
  BY <1>1, PendingInLoop
<1>2. CASE /\ r.type = "tool.failed" /\ r.call \in orphans /\ pc \in Repairing
           /\ r.turn = turn \/ r.turn = TurnOf(log, r.call)
  <2>1. r.call \in DanglingCalls(log)
    BY <1>2 DEF CallInv, OrphansAreOpen, DanglingCalls, RequestedIn, Closed
  <2>2. IncompleteTurns(log) # {}
    BY <2>1, DanglingIsOpen
  <2>3. r.turn = turn
    <3>1. CASE r.turn = TurnOf(log, r.call)
      <4>1. \E i \in DOMAIN log : log[i].type = "tool.requested" /\ log[i].call = r.call
        BY <2>1 DEF DanglingCalls, CallsWith
      <4>2. PICK i \in DOMAIN log : /\ TurnOf(log, r.call) = log[i].turn
                                    /\ log[i].type = "tool.requested" /\ log[i].call = r.call
        BY <4>1 DEF TurnOf
      <4>3. log[i].turn \in IncompleteTurns(log)
        BY <2>1, <4>2 DEF EndInv, EndFile, OpenCallsInOpenTurn
      <4> QED BY <3>1, <4>2, <4>3, IncompleteIsCurrent
    <3> QED BY <1>2, <3>1
  <2>4. turn \notin Ended(log)
    BY <2>2, IncompleteIsCurrent
  <2> QED BY <1>0, <1>2, <2>1, <2>2, <2>3, <2>4 DEF Proper
<1>3. CASE /\ pc \in Repairing /\ orphans = {} /\ r.type = "turn.failed"
           /\ r.turn \in IncompleteTurns(log)
  <2>1. DanglingCalls(log) = {}
    BY <1>3 DEF EndInv, CallStillOpen
  <2>2. r.turn = turn /\ r.turn \notin Ended(log)
    BY <1>3, IncompleteIsCurrent
  <2> QED BY <1>0, <1>3, <2>1, <2>2 DEF Proper
<1>4. CASE /\ pc = "repairCalls" /\ orphans = {} /\ TurnStillOpen(persisted)
           /\ r.type = "turn.failed" /\ r.turn = turn
  <2>1. Ended(log) = {} /\ Begun(log) # {}
    BY <1>4 DEF EndInv, TurnInHand, TurnStillOpen, Begun, Ended
  <2>2. Begun(log) = IncompleteTurns(log)
    BY <2>1 DEF IncompleteTurns, Begun, Ended
  <2>3. turn \in IncompleteTurns(log)
    BY <2>1, <2>2, IncompleteIsCurrent
  <2> QED BY <1>3, <1>4, <2>3 DEF Repairing
<1>5. CASE r.type \in {"session.resumed", "model.changed"} /\ r.turn = 0
  BY <1>0, <1>5 DEF Proper
<1> QED BY <1>1, <1>2, <1>3, <1>4, <1>5 DEF Pending, Repairing

LEMMA EndInvInit == Init => EndInv
<1> SUFFICES ASSUME Init
             PROVE  EndInv
  OBVIOUS
<1>1. /\ log = <<Record(1, 0, Note("session.started"))>> /\ DOMAIN log = {1}
      /\ log[1].type = "session.started" /\ log[1].turn = 0
      /\ Len(log) = 1
  BY DEF Init, Record, Note
<1>2. /\ "session.started" \notin TurnTerminalTypes \cup ToolTerminalTypes
  BY DEF TurnTerminalTypes, ToolTerminalTypes
<1>3. /\ Begun(log) = {} /\ Ended(log) = {} /\ IncompleteTurns(log) = {}
      /\ DanglingCalls(log) = {} /\ Closed(log) = {}
  BY <1>1, <1>2 DEF Begun, Ended, IncompleteTurns, DanglingCalls, Closed, TurnsWith, CallsWith
<1>4. TurnsInv
  BY <1>1, <1>3, ConstantsAssumption DEF TurnsInv, Init
<1>5. OpenCallsInOpenTurn /\ ClosedAfterRequest
  BY <1>1, <1>3 DEF OpenCallsInOpenTurn, ClosedAfterRequest
<1>6. TurnEndsClean
  BY <1>1, <1>2 DEF TurnEndsClean, TurnClosesItsCalls, NothingAfterTheEnd
<1>7. TurnInHand /\ CallStillOpen
  BY <1>3 DEF TurnInHand, CallStillOpen, Init, InLoop
<1> QED BY <1>4, <1>5, <1>6, <1>7 DEF EndInv, EndFile

(* Only BeginTurn takes a new turn, and it leaves the file alone.          *)
LEMMA TurnFrame ==
  ASSUME [Next]_vars
  PROVE  turn' = turn \/ (BeginTurn /\ turn' = turn + 1 /\ log' = log)
<1>1. CASE EvaluateCall
  BY <1>1 DEF EvaluateCall, Quiet
<1>2. CASE ModelReplies
  BY <1>2 DEF ModelReplies, Quiet
<1>3. CASE StepTop \/ BuildContext \/ ModelFailed \/ EndOfStep \/ DispatchTool
           \/ AskApproval \/ ApprovalAborted \/ StartTool \/ ToolReturns \/ Answer
  BY <1>3 DEF StepTop, BuildContext, ModelFailed, EndOfStep, DispatchTool, AskApproval,
     ApprovalAborted, StartTool, ToolReturns, Answer, Quiet
<1>4. CASE Emit \/ EmitFails \/ Execute \/ ToolThrowsStorage \/ RepairRead \/ RepairCall
           \/ RepairRefresh \/ ResumeStep \/ Abort \/ Resume \/ WriteCheck \/ WriteRead
           \/ WriteAppend
  BY <1>4 DEF Emit, EmitFails, Execute, ToolThrowsStorage, RepairRead, RepairCall,
     RepairRefresh, ResumeStep, Abort, Resume, WriteCheck, WriteRead, WriteAppend, turnVars
<1>5. CASE EndTurn \/ RepairGivesUp \/ RepairTurn \/ Crash
  BY <1>5 DEF EndTurn, RepairGivesUp, RepairTurn, Crash, Return
<1>6. CASE BeginTurn
  BY <1>6 DEF BeginTurn, storeVars
<1>7. CASE Done \/ UNCHANGED vars
  BY <1>7 DEF Done, vars
<1> QED BY <1>1, <1>2, <1>3, <1>4, <1>5, <1>6, <1>7 DEF Next, LoopStep

LEMMA EndFileStep ==
  ASSUME TypeInv, CallInv, ShapeInv, EffectInv, EndInv, [Next]_vars
  PROVE  EndFile'
<1> USE DEF EndInv
<1>1. CASE log' = log /\ turn' = turn
  BY <1>1 DEF EndFile, TurnsInv, OpenCallsInOpenTurn, ClosedAfterRequest, TurnEndsClean,
     TurnClosesItsCalls, NothingAfterTheEnd, Begun, Ended, Closed
<1>2. CASE BeginTurn /\ turn' = turn + 1 /\ log' = log
  <2>1. turn \in Nat /\ turn + 1 =< MaxTurns /\ IncompleteTurns(log) = {} /\ MaxTurns \in Nat
    BY <1>2, ConstantsAssumption DEF BeginTurn, TypeInv, TypeOK
  <2>2. \A i \in DOMAIN log : log[i].turn \in Nat
    BY EventFields DEF TypeInv, TypeOK
  <2>3. TurnsInv'
    BY <1>2, <2>1, <2>2 DEF EndFile, TurnsInv, Begun, Ended
  <2> QED BY <1>2, <2>3 DEF EndFile, OpenCallsInOpenTurn, ClosedAfterRequest, TurnEndsClean,
     TurnClosesItsCalls, NothingAfterTheEnd, Closed
<1>3. ASSUME NEW r \in Event, log' = Append(log, r), Pending(r), turn' = turn
      PROVE  EndFile'
  BY <1>3, PendingIsProper, ProperAppend DEF CallInv
<1> QED BY <1>1, <1>2, <1>3, AppendedEvent, TurnFrame

(* A turn is opened from the top of its first step only.                   *)
LEMMA OpeningAtTop == ShapeInv' /\ Opening' => pc' = "stepTop"
<1> SUFFICES ASSUME ShapeInv', Opening', pc' # "stepTop"
             PROVE  FALSE
  OBVIOUS
<1>1. /\ script' # <<>> /\ script'[1].type = "turn.started" /\ Len(script') = 1
      /\ DOMAIN script' = {1}
  BY DEF Opening, Note
<1>2. ~Plain(script')
  BY <1>1 DEF Plain, MarkedTypes
<1>3. ~Final(script')
  BY <1>1 DEF Final, TurnTerminalTypes
<1>4. ~Authorization(script)'
  <2>1. \A a, b : <<a, b>>[1] = a /\ <<a>>[1] = a
    OBVIOUS
  <2>2. \A c, o : /\ With("tool.authorized", c, o).type # "turn.started"
                 /\ With("approval.granted", c, o).type # "turn.started"
    BY DEF With
  <2> QED BY <1>1, <2>1, <2>2 DEF Authorization
<1>5. \A c : /\ script' # <<About("tool.requested", c)>>
             /\ script' # <<About("approval.requested", c)>>
             /\ script' # <<About("tool.started", c)>>
  BY <1>1 DEF About
<1> QED BY <1>1, <1>2, <1>3, <1>4, <1>5 DEF ShapeInv

-----------------------------------------------------------------------------
(* A decision of the loop: the file stays, and a call that was in hand is  *)
(* still in hand or its terminal event is queued.                          *)
LEMMA EndInvDecided ==
  ASSUME EndInv, ShapeInv', InLoop, script = <<>>, pc # "end",
         pc' \notin {"idle", "repair"} \cup Repairing,
         UNCHANGED <<log, turn>>,
         pc' = "stepTop" => script' = <<>>, pc' = "end" => script' # <<>>,
         pc \in Busy => /\ cur' = cur
                        /\ \/ pc' \in Busy
                           \/ \E i \in DOMAIN script' : script'[i].type \in ToolTerminalTypes
  PROVE  TurnInHand' /\ CallStillOpen'
<1>1. ~Opening /\ ~Opening'
  <2>1. script = <<>> => ~Opening
    BY DEF Opening
  <2>2. Opening' => pc' = "stepTop"
    BY OpeningAtTop
  <2>3. script' = <<>> => ~Opening'
    BY DEF Opening
  <2> QED BY <2>1, <2>2, <2>3
<1>2. IncompleteTurns(log) = {turn}
  BY <1>1 DEF EndInv, TurnInHand
<1>3. TurnInHand'
  BY <1>1, <1>2 DEF TurnInHand, Repairing
<1>4. CASE pc \in Busy
  <2>1. DanglingCalls(log) \subseteq {cur}
    BY DEF EndInv, CallStillOpen
  <2> QED BY <1>3, <1>4, <2>1 DEF CallStillOpen, Repairing
<1>5. CASE pc \notin Busy
  <2>1. DanglingCalls(log) = {}
    BY <1>5 DEF EndInv, CallStillOpen
  <2> QED BY <1>3, <2>1 DEF CallStillOpen, Repairing
<1> QED BY <1>4, <1>5

(* A step that leaves the loop, but not for a resume or for the appends of *)
(* a repair.                                                               *)
LEMMA EndInvRest ==
  ASSUME pc' \in {"idle", "repair"}
  PROVE  TurnInHand' /\ CallStillOpen'
BY DEF TurnInHand, CallStillOpen, InLoop, Repairing

LEMMA EndInvDecision ==
  ASSUME TypeInv, EndInv, ShapeInv', 
         StepTop \/ BuildContext \/ ModelFailed \/ EndOfStep \/ DispatchTool
           \/ EvaluateCall \/ AskApproval \/ Answer \/ ApprovalAborted
           \/ StartTool \/ Execute \/ ToolReturns
  PROVE  TurnInHand' /\ CallStillOpen'
<1> USE DEF Quiet, Same, At, Continue, storeVars, turnVars, InLoop, Repairing
<1>1. CASE StepTop \/ BuildContext \/ ModelFailed \/ EndOfStep \/ DispatchTool
  <2>1. /\ pc \in {"stepTop", "context", "model", "modelCancelled", "modelFailed", "dispatch"}
        /\ script = <<>> /\ UNCHANGED <<log, turn>>
        /\ pc' \in {"stepTop", "context", "model", "end", "evaluate"}
    BY <1>1 DEF StepTop, BuildContext, ModelFailed, EndOfStep, DispatchTool
  <2>2. pc' = "end" => script' # <<>>
    BY <1>1 DEF StepTop, BuildContext, ModelFailed, EndOfStep, DispatchTool
  <2>3. pc' = "stepTop" => script' = <<>>
    BY <1>1 DEF StepTop, BuildContext, ModelFailed, EndOfStep, DispatchTool
  <2> QED BY <2>1, <2>2, <2>3, EndInvDecided DEF Busy
<1>2. ASSUME NEW place \in Busy, At(place), UNCHANGED <<log, turn, cur>>,
             \/ pc' \in {"dispatch", "end"} /\ Closes(script', cur)
             \/ pc' \in Busy
      PROVE  TurnInHand' /\ CallStillOpen'
  <2>1. pc \in Busy /\ script = <<>>
    BY <1>2
  <2>2. pc' \in Busy \/ \E i \in DOMAIN script' : script'[i].type \in ToolTerminalTypes
    BY <1>2 DEF Closes
  <2>3. pc' = "end" => script' # <<>>
    <3>1. DOMAIN <<>> = {}
      OBVIOUS
    <3> QED BY <2>2, <3>1 DEF Busy
  <2>4. /\ pc \notin {"idle", "repair", "end"} \cup Repairing
        /\ pc' \notin {"idle", "repair", "stepTop"} \cup Repairing
    BY <1>2, <2>1 DEF Busy
  <2> QED BY <1>2, <2>1, <2>2, <2>3, <2>4, EndInvDecided
<1>3. CASE EvaluateCall
  <2>0. /\ Closes(<<About("tool.failed", cur)>>, cur)
        /\ Closes(<<About("tool.failed", cur), Note("turn.failed")>>, cur)
        /\ Closes(<<About("tool.denied", cur), Note("turn.failed")>>, cur)
        /\ Closes(<<Note("limit.reached"), About("tool.denied", cur),
                    Note("turn.failed")>>, cur)
    BY ClosingScripts DEF ToolTerminalTypes
  <2>1. \/ pc' \in {"dispatch", "end"} /\ Closes(script', cur)
        \/ pc' \in Busy
    BY <1>3, <2>0 DEF EvaluateCall, RejectInput, RepeatedTooOften, Judged, Busy
  <2>2. At("evaluate") /\ "evaluate" \in Busy /\ UNCHANGED <<log, turn, cur>>
    BY <1>3 DEF EvaluateCall, Busy
  <2> QED BY <1>2, <2>1, <2>2
<1>4. CASE AskApproval \/ ApprovalAborted \/ StartTool \/ Answer \/ Execute \/ ToolReturns
  <2>0. /\ Closes(<<About("tool.cancelled", cur), Note("turn.cancelled")>>, cur)
        /\ Closes(<<About("approval.denied", cur), About("tool.denied", cur),
                    Note("turn.failed")>>, cur)
        /\ Closes(<<About("tool.failed", cur)>>, cur)
        /\ Closes(<<About("tool.completed", cur)>>, cur)
    BY ClosingScripts DEF ToolTerminalTypes
  <2>1. \/ pc' \in {"dispatch", "end"} /\ Closes(script', cur)
        \/ pc' \in Busy
    BY <1>4, <2>0 DEF AskApproval, ApprovalAborted, StartTool, Answer, Grant, Execute,
       ToolReturns, CancelCall, Busy
  <2>2. \E place \in Busy : At(place)
    BY <1>4 DEF AskApproval, ApprovalAborted, StartTool, Answer, Execute, ToolReturns, Busy
  <2>3. UNCHANGED <<log, turn, cur>>
    BY <1>4 DEF AskApproval, ApprovalAborted, StartTool, Answer, Execute, ToolReturns
  <2> QED BY <1>2, <2>1, <2>2, <2>3
<1> QED BY <1>1, <1>3, <1>4

LEMMA EndInvReply ==
  ASSUME TypeInv, EndInv, ShapeInv', ModelReplies
  PROVE  TurnInHand' /\ CallStillOpen'
<1> USE DEF Continue
<1>1. PICK r \in Reply :
        ReplyBroken(r) \/ ReplyInvalid(r) \/ ReplyFinal(r) \/ ReplyWithTools(r)
  BY DEF ModelReplies
<1>2. /\ pc = "model" /\ script = <<>> /\ UNCHANGED <<log, turn>>
      /\ pc' \in {"modelCancelled", "modelFailed", "dispatch", "end"}
  BY <1>1 DEF ModelReplies, At, Quiet, storeVars, ReplyBroken, ReplyInvalid, ReplyFinal,
     ReplyWithTools
<1>3. script' # <<>>
  <2>1. ASSUME NEW s \in Seq(Draft), NEW d
        PROVE  s \o <<d>> # <<>> /\ \A e : s \o <<d, e>> # <<>>
    OBVIOUS
  <2>2. /\ Preamble(r) \in Seq(Draft) /\ Preamble(r) \o ToolCallNotes(r) \in Seq(Draft)
    <3>1. <<>> \in Seq(Draft)
      OBVIOUS
    <3> QED BY <3>1, ReplyScripts
  <2> QED BY <1>1, <2>1, <2>2 DEF ReplyBroken, ReplyInvalid, ReplyFinal, ReplyWithTools
<1> QED BY <1>2, <1>3, EndInvDecided DEF InLoop, Repairing, Busy

LEMMA EndInvEmit ==
  ASSUME TypeInv, CallInv, ShapeInv, EffectInv, EndInv, ShapeInv', Emit
  PROVE  TurnInHand' /\ CallStillOpen'
<1> DEFINE r == CurrentRecord
<1>1. /\ script # <<>> /\ script \in Seq(Draft) /\ log \in Seq(Event)
      /\ log' = Append(log, r) /\ script' = Tail(script)
      /\ UNCHANGED <<pc, cur, turn, orphans, persisted>>
  BY DEF Emit, Persist, TypeInv, TypeOK, turnVars, repairVars
<1>2. /\ r \in Event /\ r.type = script[1].type /\ r.call = script[1].call /\ r.turn = turn
  BY <1>1, HeadOfScript
<1>3. Proper(r)
  BY <1>1, PendingInLoop
<1> HIDE DEF r
<1>4. InLoop /\ InLoop'
  BY <1>1 DEF ShapeInv, InLoop, Repairing
<1>5. /\ DanglingCalls(log') =
           (DanglingCalls(log) \cup
              (IF r.type = "tool.requested" THEN {r.call} \ Closed(log) ELSE {}))
           \ (IF r.type \in ToolTerminalTypes THEN {r.call} ELSE {})
      /\ IncompleteTurns(log') =
           (IncompleteTurns(log) \cup
              (IF r.type = "turn.started" THEN {r.turn} \ Ended(log) ELSE {}))
           \ (IF r.type \in TurnTerminalTypes THEN {r.turn} ELSE {})
  BY <1>1, <1>2, OpenAppend DEF Ended
<1>6. TurnInHand'
  <2>1. CASE Opening
    <3>1. script' = <<>> /\ r.type = "turn.started"
      BY <1>1, <1>2, <2>1 DEF Opening, Note
    <3>2. pc = "stepTop"
      BY <1>1, <3>1, <1>2, MarkedHead DEF MarkedTypes, TurnTerminalTypes
    <3>3. IncompleteTurns(log) = {} /\ turn \notin Ended(log)
      BY <1>2, <1>3, <1>4, <2>1 DEF EndInv, TurnInHand, Proper
    <3>4. IncompleteTurns(log') = {turn}
      BY <1>2, <1>5, <3>1, <3>3 DEF TurnTerminalTypes
    <3>5. ~Opening' /\ pc' # "end" /\ turn' = turn
      <4>1. <<>> # <<Note("turn.started")>>
        OBVIOUS
      <4> QED BY <1>1, <3>1, <3>2, <4>1 DEF Opening
    <3>6. pc' \notin {"repairCalls", "repairRefresh"}
      BY <1>1, <3>2
    <3> QED BY <3>4, <3>5, <3>6 DEF TurnInHand
  <2>2. CASE ~Opening
    <3>1. IncompleteTurns(log) = {turn}
      BY <1>1, <1>4, <2>2 DEF EndInv, TurnInHand
    <3>2. r.type # "turn.started"
      <4>1. r.type = "turn.started" => pc = "stepTop"
        <5>1. "turn.started" \in MarkedTypes \ TurnTerminalTypes
          BY DEF MarkedTypes, TurnTerminalTypes
        <5> QED BY <1>1, <1>2, <5>1, MarkedHead
      <4>2. pc = "stepTop" => Opening
        BY <1>1 DEF ShapeInv, Opening
      <4> QED BY <2>2, <4>1, <4>2
    <3>3. ~Opening'
      <4>1. Opening' => pc = "stepTop"
        BY <1>1, OpeningAtTop
      <4>2. pc = "stepTop" => Opening
        BY <1>1 DEF ShapeInv, Opening
      <4> QED BY <2>2, <4>1, <4>2
    <3>4. pc = "end" => (script' = <<>> <=> r.type \in TurnTerminalTypes)
      <4>1. pc = "end" => Final(script)
        BY <1>1 DEF ShapeInv
      <4>2. Final(script) => IF Tail(script) = <<>>
                             THEN script[1].type \in TurnTerminalTypes
                             ELSE script[1].type \notin MarkedTypes
        BY <1>1, TailOfScript
      <4> QED BY <1>1, <1>2, <4>1, <4>2 DEF MarkedTypes
    <3>5. pc # "end" => r.type \notin TurnTerminalTypes
      <4>1. Plain(script) => r.type \notin MarkedTypes
        BY <1>1, <1>2, TailOfScript
      <4>2. \/ pc \in {"context", "model", "modelCancelled", "modelFailed", "dispatch", "end"}
            \/ r.type \in {"turn.started", "tool.requested", "approval.requested",
                           "approval.granted", "tool.authorized", "tool.started"}
        BY <1>1, <1>2, HeadShape DEF Note, About
      <4>3. pc \in {"context", "model", "modelCancelled", "modelFailed", "dispatch"}
              => Plain(script)
        BY <1>1 DEF ShapeInv
      <4> QED BY <4>1, <4>2, <4>3 DEF MarkedTypes, TurnTerminalTypes
    <3> QED BY <1>1, <1>2, <1>4, <1>5, <3>1, <3>2, <3>3, <3>4, <3>5
            DEF TurnInHand, InLoop, Repairing
  <2> QED BY <2>1, <2>2
<1>7. CallStillOpen'
  <2>1. /\ DanglingCalls(log) \subseteq {cur}
        /\ DanglingCalls(log) # {} =>
             pc \in Busy \/ \E i \in DOMAIN script : script[i].type \in ToolTerminalTypes
    BY <1>4 DEF EndInv, CallStillOpen
  <2>2. CASE r.type = "tool.requested"
    <3>1. pc = "evaluate" /\ r.call = cur
      <4>1. "tool.requested" \in MarkedTypes \ TurnTerminalTypes
        BY DEF MarkedTypes, TurnTerminalTypes
      <4> QED BY <1>1, <1>2, <2>2, <4>1, MarkedHead
    <3> QED BY <1>1, <1>5, <2>1, <2>2, <3>1 DEF CallStillOpen, Busy, Repairing
  <2>3. CASE r.type \in ToolTerminalTypes
    <3>1. r.call = cur
      BY <1>1, <1>2, <2>3, HeadOfScript, ScriptedTerminal
    <3>2. r.type # "tool.requested"
      BY <2>3 DEF ToolTerminalTypes
    <3> QED BY <1>1, <1>4, <1>5, <2>1, <2>3, <3>1, <3>2 DEF CallStillOpen, InLoop
  <2>4. CASE r.type \notin {"tool.requested"} \cup ToolTerminalTypes
    <3>1. DanglingCalls(log') = DanglingCalls(log)
      BY <1>5, <2>4
    <3>2. ASSUME NEW i \in DOMAIN script, script[i].type \in ToolTerminalTypes
          PROVE  \E j \in DOMAIN script' : script'[j].type \in ToolTerminalTypes
      <4>1. i # 1 /\ i \in 1 .. Len(script) /\ Len(script) \in Nat
        BY <1>1, <1>2, <2>4, <3>2
      <4>2. i - 1 \in 1 .. Len(script) - 1 /\ i - 1 + 1 = i
        BY <4>1
      <4>3. i - 1 \in DOMAIN script' /\ script'[i - 1] = script[i]
        BY <1>1, <4>2, TailOfScript
      <4> QED BY <3>2, <4>3
    <3> QED BY <1>1, <1>4, <2>1, <3>1, <3>2 DEF CallStillOpen, InLoop
  <2> QED BY <2>2, <2>3, <2>4
<1> QED BY <1>6, <1>7

LEMMA NoTurnInAppend ==
  ASSUME NEW l \in Seq(Event), NEW r \in Event, r.type \notin {"turn.started"} \cup TurnTerminalTypes
  PROVE  Begun(Append(l, r)) = Begun(l) /\ Ended(Append(l, r)) = Ended(l)
<1>1. Begun(Append(l, r)) = Begun(l) \cup (IF r.type \in {"turn.started"} THEN {r.turn} ELSE {})
  BY TurnsWithAppend DEF Begun
<1>2. Ended(Append(l, r)) = Ended(l) \cup (IF r.type \in TurnTerminalTypes THEN {r.turn} ELSE {})
  BY TurnsWithAppend DEF Ended
<1> QED BY <1>1, <1>2

(* The steps of a repair and of a resume, and what runs beside the loop.   *)
LEMMA EndInvOther ==
  ASSUME TypeInv, CallInv, ShapeInv, EndInv, ShapeInv', EndFile',
         [Next]_vars, RecoveryReachesFile,
         ~(StepTop \/ BuildContext \/ ModelFailed \/ EndOfStep \/ DispatchTool
             \/ EvaluateCall \/ AskApproval \/ Answer \/ ApprovalAborted
             \/ StartTool \/ Execute \/ ToolReturns \/ ModelReplies \/ Emit)
  PROVE  TurnInHand' /\ CallStillOpen'
<1> USE DEF At, Continue
<1>0. /\ log \in Seq(Event) /\ persisted \in Seq(Event) /\ turn \in Nat
      /\ "tool.failed" \in ToolTerminalTypes
      /\ {"tool.failed", "model.changed"} \cap ({"turn.started", "tool.requested"}
                                                  \cup TurnTerminalTypes) = {}
      /\ "model.changed" \notin ToolTerminalTypes
  BY DEF TypeInv, TypeOK, ToolTerminalTypes, TurnTerminalTypes
<1>1. CASE EmitFails \/ ToolThrowsStorage \/ EndTurn \/ RepairGivesUp \/ RepairTurn \/ Crash
  BY <1>1, EndInvRest DEF EmitFails, ToolThrowsStorage, EndTurn, RepairGivesUp, RepairTurn,
     Crash, Return
<1>2. CASE BeginTurn
  <2>1. /\ IncompleteTurns(log) = {} /\ log' = log /\ turn' = turn + 1
        /\ pc' = "stepTop" /\ script' = <<Note("turn.started")>>
    BY <1>2 DEF BeginTurn, storeVars
  <2>2. DanglingCalls(log) = {}
    BY <2>1, DanglingIsOpen
  <2>3. turn + 1 \notin Begun(log)
    BY <1>0 DEF EndInv, EndFile, TurnsInv
  <2> QED BY <1>0, <2>1, <2>2, <2>3 DEF TurnInHand, CallStillOpen, InLoop, Repairing, Opening,
     Begun
<1>3. CASE RepairRead \/ Resume
  BY <1>3 DEF RepairRead, Resume, storeVars, TurnInHand, CallStillOpen, InLoop, Repairing
<1>4. CASE RepairRefresh
  BY <1>4 DEF RepairRefresh, storeVars, EndInv, TurnInHand, CallStillOpen, InLoop, Repairing
<1>5. CASE RepairCall
  <2>1. PICK c \in orphans :
          LET q == Record(seqn + 1, turn, About("tool.failed", c)) IN
          /\ orphans' = orphans \ {c}
          /\ \/ Persist(q) /\ persisted' = Append(persisted, q) /\ pc' = pc
             \/ AppendFails(q) /\ pc' = "repairRefresh" /\ persisted' = persisted
    BY <1>5 DEF RepairCall
  <2> DEFINE q == Record(seqn + 1, turn, About("tool.failed", c))
  <2>2. q \in Event /\ q.type = "tool.failed" /\ q.call = c
    <3>1. seqn + 1 \in Nat /\ c \in Call \cup {NoCall}
      BY <2>1 DEF TypeInv, TypeOK
    <3>2. About("tool.failed", c) \in Draft
      BY <3>1, DraftTypes, EventNames
    <3> QED BY <1>0, <3>1, <3>2, RecordType DEF About
  <2>3. /\ log' = Append(log, q) /\ pc = "repairCalls"
        /\ \/ persisted' = Append(persisted, q) /\ pc' = pc
           \/ persisted' = persisted /\ pc' = "repairRefresh"
    BY <1>5, <2>1 DEF RecoveryReachesFile, RepairCall, Persist, AppendFails, Refuse, Lose, Blur
  <2> HIDE DEF q
  <2>4. /\ Begun(log') = Begun(log) /\ Ended(log') = Ended(log)
        /\ Begun(persisted') = Begun(persisted) /\ Ended(persisted') = Ended(persisted)
    BY <1>0, <2>2, <2>3, NoTurnInAppend
  <2>5. DanglingCalls(log') \subseteq orphans'
    <3>1. DanglingCalls(log) \subseteq orphans
      BY <2>3 DEF EndInv, CallStillOpen, Repairing
    <3>2. DanglingCalls(log') = DanglingCalls(log) \ {c}
      BY <1>0, <2>2, <2>3, OpenAppend
    <3> QED BY <2>1, <3>1, <3>2
  <2>6. Begun(persisted) = Begun(log) /\ Ended(persisted) = Ended(log)
    BY <2>3 DEF EndInv, TurnInHand
  <2> QED BY <2>3, <2>4, <2>5, <2>6 DEF TurnInHand, CallStillOpen, InLoop, Repairing, Begun, Ended
<1>6. CASE ResumeStep
  <2>1. ResumeInv
    BY DEF ResumeInv, EndInv, CallStillOpen, Repairing
  <2>2. ResumeInv'
    BY <1>6, <2>1, ResumeInvStep DEF Next, LoopStep
  <2>3. pc' \in {"resume", "idle"}
    BY <1>6 DEF ResumeStep, ResumeAppend
  <2> QED BY <2>2, <2>3 DEF ResumeInv, TurnInHand, CallStillOpen, InLoop, Repairing
<1>7. CASE WriteAppend
  <2> DEFINE q == Record(wseq, 0, Note("model.changed"))
  <2>1. q \in Event /\ q.type = "model.changed"
    <3>1. Note("model.changed") \in Draft /\ wseq \in Nat
      BY DraftTypes, EventNames DEF TypeInv, TypeOK
    <3> QED BY <3>1, RecordType DEF Note
  <2>2. /\ log' = log \/ log' = Append(log, q)
        /\ UNCHANGED <<pc, script, turn, cur, persisted, orphans>>
    BY <1>7 DEF WriteAppend, Persist, AppendFails, Refuse, Lose, Blur, repairVars, turnVars
  <2> HIDE DEF q
  <2>3. /\ Begun(log') = Begun(log) /\ Ended(log') = Ended(log)
        /\ DanglingCalls(log') = DanglingCalls(log)
        /\ IncompleteTurns(log') = IncompleteTurns(log)
    <3>1. CASE log' = log
      BY <3>1
    <3>2. CASE log' = Append(log, q)
      <4>1. Begun(log') = Begun(log) /\ Ended(log') = Ended(log)
        BY <1>0, <2>1, <3>2, NoTurnInAppend
      <4>2. /\ DanglingCalls(log') = DanglingCalls(log)
            /\ IncompleteTurns(log') = IncompleteTurns(log)
        BY <1>0, <2>1, <3>2, OpenAppend
      <4> QED BY <4>1, <4>2
    <3> QED BY <2>2, <3>1, <3>2
  <2> QED BY <2>2, <2>3 DEF EndInv, TurnInHand, CallStillOpen, InLoop, Opening, Begun, Ended
<1>8. CASE Abort \/ WriteCheck \/ WriteRead \/ Done \/ UNCHANGED vars
  <2>1. UNCHANGED <<log, pc, script, turn, cur, persisted, orphans>>
    BY <1>8 DEF Abort, WriteCheck, WriteRead, Done, vars, storeVars, repairVars, turnVars
  <2> QED BY <2>1 DEF EndInv, TurnInHand, CallStillOpen, InLoop, Opening, Begun, Ended
<1> QED BY <1>1, <1>2, <1>3, <1>4, <1>5, <1>6, <1>7, <1>8 DEF Next, LoopStep

LEMMA EndInvStep ==
  ASSUME TypeInv, CallInv, ShapeInv, EffectInv, EndInv, [Next]_vars, RecoveryReachesFile
  PROVE  EndInv'
<1>1. EndFile'
  BY EndFileStep
<1>2. ShapeInv'
  BY ShapeInvStep
<1>3. CASE StepTop \/ BuildContext \/ ModelFailed \/ EndOfStep \/ DispatchTool
             \/ EvaluateCall \/ AskApproval \/ Answer \/ ApprovalAborted
             \/ StartTool \/ Execute \/ ToolReturns
  BY <1>1, <1>2, <1>3, EndInvDecision DEF EndInv
<1>4. CASE ModelReplies
  BY <1>1, <1>2, <1>4, EndInvReply DEF EndInv
<1>5. CASE Emit
  BY <1>1, <1>2, <1>5, EndInvEmit DEF EndInv
<1> QED BY <1>1, <1>2, <1>3, <1>4, <1>5, EndInvOther DEF EndInv

LEMMA LoopInvInit == Init => LoopInv
BY TypeInvInit, CallInvInit, EffectInvInit DEF LoopInv

LEMMA LoopInvStep == LoopInv /\ [Next]_vars => LoopInv'
BY TypeInvStep, CallInvStep, ShapeInvStep, EffectInvStep DEF LoopInv

(* Steps that stutter do not count as recovery appends.                    *)
LEMMA RecoveryFrame ==
  ASSUME TypeInv, [RecoveryReachesFile]_vars
  PROVE  RecoveryReachesFile
<1>1. CASE UNCHANGED vars
  <2>1. seqn' # seqn + 1
    BY <1>1 DEF vars, TypeInv, TypeOK
  <2> QED BY <2>1 DEF RecoveryReachesFile, RepairCall
<1> QED BY <1>1

(* A turn's terminal event is its last and comes after that of each of its *)
(* calls, whatever fails, as long as the appends with which a repair       *)
(* closes calls reach the file.                                            *)
THEOREM TurnsEndClean == Spec /\ [][RecoveryReachesFile]_vars => []TurnEndsClean
<1>1. LoopInv /\ EndInv /\ [Next]_vars /\ [RecoveryReachesFile]_vars => EndInv'
  BY RecoveryFrame, EndInvStep DEF LoopInv
<1>2. EndInv => TurnEndsClean
  BY DEF EndInv, EndFile
<1> QED BY LoopInvInit, LoopInvStep, EndInvInit, <1>1, <1>2, PTL DEF Spec

-----------------------------------------------------------------------------
(* The ledger.  What a log says of its turns and its calls.                *)

LedgerTurns(l) ==
  [t \in 1 .. MaxTurns |->
     IF t \in Ended(l) THEN "closed" ELSE IF t \in Begun(l) THEN "open" ELSE "new"]

LedgerCalls(l) ==
  [c \in Call |->
     IF c \in Closed(l) THEN "closed"
     ELSE IF c \in StartedIn(l) THEN "started"
     ELSE IF c \in AuthorizedIn(l) THEN "authorized"
     ELSE IF c \in RequestedIn(l) THEN "requested" ELSE "new"]

LEMMA LedgerOfLog ==
  /\ [t \in 1 .. MaxTurns |-> TurnStatus(t)] = LedgerTurns(log)
  /\ [c \in Call |-> CallStatus(c)] = LedgerCalls(log)
<1>1. ASSUME NEW t \in 1 .. MaxTurns
      PROVE  TurnStatus(t) = IF t \in Ended(log) THEN "closed"
                             ELSE IF t \in Begun(log) THEN "open" ELSE "new"
  BY DEF TurnStatus, TypesOf, Ended, Begun, TurnsWith
<1>2. ASSUME NEW c \in Call
      PROVE  CallStatus(c) = IF c \in Closed(log) THEN "closed"
                             ELSE IF c \in StartedIn(log) THEN "started"
                             ELSE IF c \in AuthorizedIn(log) THEN "authorized"
                             ELSE IF c \in RequestedIn(log) THEN "requested" ELSE "new"
  BY DEF CallStatus, TypesOf, Closed, StartedIn, AuthorizedIn, RequestedIn, CallsWith
<1> QED BY <1>1, <1>2 DEF LedgerTurns, LedgerCalls

LEMMA LedgerVars ==
  /\ Ledger!vars = <<LedgerTurns(log), LedgerCalls(log), executed>>
  /\ Ledger!vars' = <<LedgerTurns(log'), LedgerCalls(log'), executed'>>
<1>1. Ledger!vars = <<LedgerTurns(log), LedgerCalls(log), executed>>
  BY LedgerOfLog DEF Ledger!vars
<1>2. (Ledger!vars = <<LedgerTurns(log), LedgerCalls(log), executed>>)'
  BY <1>1, PTL
<1> QED BY <1>1, <1>2

LEMMA LedgerInit ==
  ASSUME Init
  PROVE  Ledger!Init
<1>1. /\ DOMAIN log = {1} /\ log[1].type = "session.started"
  BY DEF Init, Record, Note
<1>2. \A types : "session.started" \notin types => CallsWith(log, types) = {} /\ TurnsWith(log, types) = {}
  BY <1>1 DEF CallsWith, TurnsWith
<1>3. /\ Begun(log) = {} /\ Ended(log) = {} /\ Closed(log) = {}
      /\ RequestedIn(log) = {} /\ AuthorizedIn(log) = {} /\ StartedIn(log) = {}
  BY <1>2 DEF Begun, Ended, Closed, RequestedIn, AuthorizedIn, StartedIn, TurnTerminalTypes, ToolTerminalTypes
<1>4. LedgerTurns(log) = [t \in 1 .. MaxTurns |-> "new"] /\ LedgerCalls(log) = [c \in Call |-> "new"]
  BY <1>3 DEF LedgerTurns, LedgerCalls
<1>5. executed = [c \in Call |-> 0]
  BY DEF Init
<1> QED BY <1>4, <1>5, LedgerOfLog DEF Ledger!Init

LEMMA LedgerOfNewLog ==
  /\ ([t \in 1 .. MaxTurns |-> TurnStatus(t)])' = LedgerTurns(log')
  /\ ([c \in Call |-> CallStatus(c)])' = LedgerCalls(log')
<1>1. ([t \in 1 .. MaxTurns |-> TurnStatus(t)] = LedgerTurns(log))'
  BY LedgerOfLog, PTL
<1>2. ([c \in Call |-> CallStatus(c)] = LedgerCalls(log))'
  BY LedgerOfLog, PTL
<1> QED BY <1>1, <1>2

LEMMA LedgerSets ==
  ASSUME EffectInv, OneTerminal, EndFile
  PROVE  /\ Ledger!SomeTurnOpen <=> IncompleteTurns(log) # {}
         /\ Ledger!InProgress = DanglingCalls(log)
<1>1. \A t \in 1 .. MaxTurns : LedgerTurns(log)[t] = "open" <=> t \in IncompleteTurns(log)
  BY DEF LedgerTurns, IncompleteTurns, Begun, Ended
<1>2. IncompleteTurns(log) \subseteq 1 .. MaxTurns
  BY ConstantsAssumption DEF EndFile, TurnsInv, IncompleteTurns, Begun
<1>3. \A c \in Call : LedgerCalls(log)[c] \notin {"new", "closed"} <=> c \in DanglingCalls(log)
  BY DEF LedgerCalls, DanglingCalls, Closed, RequestedIn, EffectInv, FileInv, Chain, OneTerminal
<1>4. DanglingCalls(log) \subseteq Call
  BY DEF DanglingCalls, RequestedIn, EffectInv, FileInv, Chain
<1> QED BY <1>1, <1>2, <1>3, <1>4, LedgerOfLog DEF Ledger!SomeTurnOpen, Ledger!InProgress

LEMMA TurnMoves ==
  ASSUME LedgerCalls(log') = LedgerCalls(log), executed' = executed, NEW t \in 1 .. MaxTurns,
         \/ /\ LedgerTurns(log)[t] = "new" /\ ~Ledger!SomeTurnOpen
            /\ LedgerTurns(log') = [LedgerTurns(log) EXCEPT ![t] = "open"]
         \/ /\ LedgerTurns(log)[t] = "open" /\ Ledger!InProgress = {}
            /\ LedgerTurns(log') = [LedgerTurns(log) EXCEPT ![t] = "closed"]
  PROVE  Ledger!Next
<1>1. LedgerTurns(log') # LedgerTurns(log)
  BY DEF LedgerTurns
<1>2. Ledger!OpenTurn(t) \/ Ledger!CloseTurn(t)
  BY LedgerOfLog, LedgerOfNewLog DEF Ledger!OpenTurn, Ledger!CloseTurn
<1> QED BY <1>1, <1>2, LedgerOfLog, LedgerOfNewLog DEF Ledger!Next

LEMMA CallMoves ==
  ASSUME LedgerTurns(log') = LedgerTurns(log), executed' = executed, NEW c \in Call, NEW status,
         Ledger!SomeTurnOpen, LedgerCalls(log') = [LedgerCalls(log) EXCEPT ![c] = status],
         \/ LedgerCalls(log)[c] = "new" /\ Ledger!InProgress = {} /\ status = "requested"
         \/ LedgerCalls(log)[c] = "requested" /\ status = "authorized"
         \/ LedgerCalls(log)[c] = "authorized" /\ status = "started"
         \/ c \in Ledger!InProgress /\ status = "closed"
  PROVE  Ledger!Next
<1>1. LedgerCalls(log') # LedgerCalls(log)
  <2>1. LedgerCalls(log)[c] # status
    BY LedgerOfLog DEF Ledger!InProgress
  <2> QED BY <2>1 DEF LedgerCalls
<1>2. \/ Ledger!Request(c) \/ Ledger!CloseCall(c)
      \/ Ledger!Advance(c, "requested", "authorized")
      \/ Ledger!Advance(c, "authorized", "started")
  BY LedgerOfLog, LedgerOfNewLog DEF Ledger!Request, Ledger!CloseCall, Ledger!Advance
<1> QED BY <1>1, <1>2, LedgerOfLog, LedgerOfNewLog DEF Ledger!Next

(* An append of a proper event is a move of the ledger or shows nothing.   *)
LEMMA LedgerAppend ==
  ASSUME TypeInv, CallInv, EffectInv, EndInv, NEW r \in Event, log' = Append(log, r),
         Proper(r), executed' = executed
  PROVE  Ledger!Next \/ Ledger!vars' = Ledger!vars
<1>0. /\ log \in Seq(Event) /\ turn \in Nat /\ MaxTurns \in Nat
      /\ Chain /\ OneTerminal /\ EndFile /\ turn =< MaxTurns
  BY ConstantsAssumption DEF TypeInv, TypeOK, CallInv, EffectInv, FileInv, EndInv, EndFile, TurnsInv
<1>1. /\ Begun(log') = Begun(log) \cup (IF r.type = "turn.started" THEN {r.turn} ELSE {})
      /\ Ended(log') = Ended(log) \cup (IF r.type \in TurnTerminalTypes THEN {r.turn} ELSE {})
      /\ Closed(log') = Closed(log) \cup (IF r.type \in ToolTerminalTypes THEN {r.call} ELSE {})
  <2>1. Begun(log') = Begun(log) \cup (IF r.type \in {"turn.started"} THEN {r.turn} ELSE {})
    BY <1>0, TurnsWithAppend DEF Begun
  <2>2. /\ Ended(log') = Ended(log) \cup (IF r.type \in TurnTerminalTypes THEN {r.turn} ELSE {})
        /\ Closed(log') = Closed(log) \cup (IF r.type \in ToolTerminalTypes THEN {r.call} ELSE {})
    BY <1>0, TurnsWithAppend, CallsWithAppend DEF Ended, Closed
  <2> QED BY <2>1, <2>2
<1>2. /\ RequestedIn(log') = RequestedIn(log) \cup
           (IF r.type = "tool.requested" THEN {r.call} ELSE {})
      /\ AuthorizedIn(log') = AuthorizedIn(log) \cup
           (IF r.type = "tool.authorized" THEN {r.call} ELSE {})
      /\ StartedIn(log') = StartedIn(log) \cup
           (IF r.type = "tool.started" THEN {r.call} ELSE {})
  BY <1>0, CallSetsAppend
<1>3. /\ Ledger!SomeTurnOpen <=> IncompleteTurns(log) # {}
      /\ Ledger!InProgress = DanglingCalls(log)
  BY <1>0, LedgerSets
<1>4. ({"turn.started"} \cup TurnTerminalTypes)
        \cap ({"tool.requested", "tool.authorized", "tool.started"} \cup ToolTerminalTypes) = {}
  BY DEF TurnTerminalTypes, ToolTerminalTypes
<1>5. ASSUME r.type \notin {"turn.started"} \cup TurnTerminalTypes
      PROVE  LedgerTurns(log') = LedgerTurns(log)
  BY <1>1, <1>5 DEF LedgerTurns
<1>6. ASSUME r.type \notin {"tool.requested", "tool.authorized", "tool.started"} \cup ToolTerminalTypes
      PROVE  LedgerCalls(log') = LedgerCalls(log)
  BY <1>1, <1>2, <1>6 DEF LedgerCalls
<1>7. CASE r.type = "turn.started"
  <2>1. turn \in 1 .. MaxTurns /\ r.turn = turn /\ IncompleteTurns(log) = {}
        /\ turn \notin Begun(log) /\ turn \notin Ended(log)
    BY <1>0, <1>7 DEF Proper
  <2>2. LedgerTurns(log)[turn] = "new" /\ LedgerTurns(log') = [LedgerTurns(log) EXCEPT ![turn] = "open"]
    BY <1>1, <1>7, <2>1 DEF LedgerTurns, TurnTerminalTypes
  <2>3. LedgerCalls(log') = LedgerCalls(log)
    BY <1>4, <1>6, <1>7
  <2> QED BY <1>3, <2>1, <2>2, <2>3, TurnMoves
<1>8. CASE r.type \in TurnTerminalTypes
  <2>1. r.turn \in IncompleteTurns(log) /\ DanglingCalls(log) = {}
    BY <1>8 DEF Proper
  <2>2. r.turn \in 1 .. MaxTurns /\ r.turn \in Begun(log) /\ r.turn \notin Ended(log)
    BY <1>0, <2>1 DEF EndFile, TurnsInv, IncompleteTurns, Begun, Ended
  <2>3. LedgerTurns(log)[r.turn] = "open" /\ LedgerTurns(log') = [LedgerTurns(log) EXCEPT ![r.turn] = "closed"]
    <3>1. r.type # "turn.started"
      BY <1>8 DEF TurnTerminalTypes
    <3> QED BY <1>1, <1>8, <2>2, <3>1 DEF LedgerTurns
  <2>4. LedgerCalls(log') = LedgerCalls(log)
    BY <1>4, <1>6, <1>8
  <2> QED BY <1>3, <2>1, <2>2, <2>3, <2>4, TurnMoves
<1>9. CASE r.type \in {"tool.requested", "tool.authorized", "tool.started"} \cup ToolTerminalTypes
  <2>0. LedgerTurns(log') = LedgerTurns(log)
    BY <1>4, <1>5, <1>9
  <2>1. Ledger!SomeTurnOpen
    BY <1>3, <1>9 DEF Proper
  <2>2. /\ r.call \in Call
        /\ StartedIn(log) \subseteq AuthorizedIn(log) /\ AuthorizedIn(log) \subseteq RequestedIn(log)
        /\ Closed(log) \subseteq RequestedIn(log)
    BY <1>0, <1>9 DEF Proper, Chain, OneTerminal, DanglingCalls, RequestedIn
  <2>3. CASE r.type = "tool.requested"
    <3>1. r.call \notin RequestedIn(log) /\ DanglingCalls(log) = {}
      BY <2>3 DEF Proper
    <3>2. r.type \notin ToolTerminalTypes
      BY <2>3 DEF ToolTerminalTypes
    <3>3. LedgerCalls(log)[r.call] = "new" /\ LedgerCalls(log') = [LedgerCalls(log) EXCEPT ![r.call] = "requested"]
      BY <1>1, <1>2, <2>2, <2>3, <3>1, <3>2 DEF LedgerCalls
    <3> QED BY <1>3, <2>0, <2>1, <2>2, <3>1, <3>3, CallMoves
  <2>4. CASE r.type # "tool.requested"
    <3>1. r.call \in RequestedIn(log) /\ r.call \notin Closed(log) /\ r.call \in DanglingCalls(log)
      BY <1>9, <2>4 DEF Proper, DanglingCalls, RequestedIn, Closed
    <3>2. CASE r.type = "tool.authorized"
      <4>1. r.call \notin AuthorizedIn(log) /\ r.call \notin StartedIn(log)
        BY <2>2, <3>2 DEF Proper
      <4>2. r.type \notin ToolTerminalTypes
        BY <3>2 DEF ToolTerminalTypes
      <4>3. /\ LedgerCalls(log)[r.call] = "requested"
            /\ LedgerCalls(log') = [LedgerCalls(log) EXCEPT ![r.call] = "authorized"]
        BY <1>1, <1>2, <2>2, <3>1, <3>2, <4>1, <4>2 DEF LedgerCalls
      <4> QED BY <2>0, <2>1, <2>2, <4>3, CallMoves
    <3>3. CASE r.type = "tool.started"
      <4>1. r.call \in AuthorizedIn(log) /\ r.call \notin StartedIn(log)
        BY <3>3 DEF Proper
      <4>2. r.type \notin ToolTerminalTypes
        BY <3>3 DEF ToolTerminalTypes
      <4>3. /\ LedgerCalls(log)[r.call] = "authorized"
            /\ LedgerCalls(log') = [LedgerCalls(log) EXCEPT ![r.call] = "started"]
        BY <1>1, <1>2, <2>2, <3>1, <3>3, <4>1, <4>2 DEF LedgerCalls
      <4> QED BY <2>0, <2>1, <2>2, <4>3, CallMoves
    <3>4. CASE r.type \in ToolTerminalTypes
      <4>1. r.type \notin {"tool.requested", "tool.authorized", "tool.started"}
        BY <3>4 DEF ToolTerminalTypes
      <4>2. LedgerCalls(log') = [LedgerCalls(log) EXCEPT ![r.call] = "closed"]
        BY <1>1, <1>2, <2>2, <3>4, <4>1 DEF LedgerCalls
      <4> QED BY <1>3, <2>0, <2>1, <2>2, <3>1, <4>2, CallMoves
    <3> QED BY <1>9, <2>4, <3>2, <3>3, <3>4
  <2> QED BY <2>3, <2>4
<1>10. CASE r.type \notin {"turn.started", "tool.requested", "tool.authorized", "tool.started"}
                            \cup TurnTerminalTypes \cup ToolTerminalTypes
  BY <1>5, <1>6, <1>10, LedgerVars
<1> QED BY <1>7, <1>8, <1>9, <1>10

(* Only Execute runs a tool, and it leaves the file alone.                 *)
LEMMA ExecutedFrame ==
  ASSUME [Next]_vars
  PROVE  executed' = executed \/ (Execute /\ log' = log)
<1>1. CASE EvaluateCall
  BY <1>1 DEF EvaluateCall, Quiet
<1>2. CASE ModelReplies
  BY <1>2 DEF ModelReplies, Quiet
<1>3. CASE StepTop \/ BuildContext \/ ModelFailed \/ EndOfStep \/ DispatchTool
           \/ AskApproval \/ ApprovalAborted \/ StartTool \/ ToolReturns \/ Answer
  BY <1>3 DEF StepTop, BuildContext, ModelFailed, EndOfStep, DispatchTool, AskApproval,
     ApprovalAborted, StartTool, ToolReturns, Answer, Quiet
<1>4. CASE Emit \/ EmitFails \/ ToolThrowsStorage \/ RepairRead \/ RepairCall
           \/ RepairRefresh \/ ResumeStep \/ Abort \/ Resume \/ WriteCheck \/ WriteRead
           \/ WriteAppend \/ BeginTurn
  BY <1>4 DEF Emit, EmitFails, ToolThrowsStorage, RepairRead, RepairCall,
     RepairRefresh, ResumeStep, Abort, Resume, WriteCheck, WriteRead, WriteAppend, BeginTurn
<1>5. CASE EndTurn \/ RepairGivesUp \/ RepairTurn \/ Crash
  BY <1>5 DEF EndTurn, RepairGivesUp, RepairTurn, Crash, Return
<1>6. CASE Execute
  BY <1>6 DEF Execute, storeVars
<1>7. CASE Done \/ UNCHANGED vars
  BY <1>7 DEF Done, vars
<1> QED BY <1>1, <1>2, <1>3, <1>4, <1>5, <1>6, <1>7 DEF Next, LoopStep

LEMMA LedgerStep ==
  ASSUME LoopInv, EndInv, [Next]_vars
  PROVE  [Ledger!Next]_Ledger!vars
<1> USE DEF LoopInv
<1>1. CASE executed' = executed /\ log' = log
  BY <1>1, LedgerVars
<1>2. ASSUME NEW r \in Event, log' = Append(log, r), Pending(r), executed' = executed
      PROVE  [Ledger!Next]_Ledger!vars
  BY <1>2, PendingIsProper, LedgerAppend
<1>3. CASE Execute /\ log' = log
  <2>1. pc = "execute" /\ script = <<>> /\ executed' = [executed EXCEPT ![cur] = @ + 1]
    BY <1>3 DEF Execute, At
  <2>2. cur \in StartedIn(log) /\ executed[cur] = 0
    BY <2>1 DEF EffectInv, StageInv, Stage
  <2>3. cur \notin Closed(log)
    BY <2>1 DEF CallInv, CallInHand, Busy
  <2>4. cur \in Call
    BY <2>2 DEF EffectInv, FileInv, Chain
  <2>5. LedgerCalls(log)[cur] = "started" /\ LedgerCalls(log') = LedgerCalls(log) /\ LedgerTurns(log') = LedgerTurns(log)
    BY <1>3, <2>2, <2>3, <2>4 DEF LedgerCalls
  <2>6. executed' = [executed EXCEPT ![cur] = 1]
    BY <2>1, <2>2
  <2>7. Ledger!Execute(cur)
    BY <2>2, <2>5, <2>6, LedgerOfLog, LedgerOfNewLog DEF Ledger!Execute
  <2> QED BY <2>4, <2>7 DEF Ledger!Next
<1> QED BY <1>1, <1>2, <1>3, AppendedEvent, ExecutedFrame

(* The log implements the ledger, whatever fails, as long as the appends   *)
(* with which a repair closes calls reach the file.                        *)
THEOREM LogImplementsLedger == Spec /\ [][RecoveryReachesFile]_vars => ImplementsLedger
<1>1. LoopInv /\ EndInv /\ [Next]_vars /\ [RecoveryReachesFile]_vars => EndInv'
  BY RecoveryFrame, EndInvStep DEF LoopInv
<1>2. LoopInv /\ EndInv /\ [Next]_vars => [Ledger!Next]_Ledger!vars
  BY LedgerStep
<1> QED BY LoopInvInit, LoopInvStep, EndInvInit, LedgerInit, <1>1, <1>2, PTL
        DEF Spec, ImplementsLedger, Ledger!Spec

LEMMA SeqAppend ==
  ASSUME TypeInv, SeqInv, NEW r \in Event, r.seq > Top(log), Persist(r) \/ AppendFails(r)
  PROVE  /\ Readable(log') /\ cached' =< Top(log') /\ Top(log') =< r.seq
         /\ \/ Persist(r) /\ faults' = faults
            \/ faults < MaxFaults /\ faults' = faults + 1
         /\ log' = log => faults < MaxFaults
<1>1. /\ log \in Seq(Event) /\ cached \in Nat /\ Top(log) \in Nat /\ r.seq \in Nat
      /\ cached =< Top(log) /\ Readable(log)
  BY TopType DEF TypeInv, TypeOK, SeqInv, Event
<1>2. LastSequence =< Top(log)
  BY <1>1 DEF LastSequence
<1>3. Readable(Append(log, r)) /\ Top(Append(log, r)) = r.seq
  BY <1>1, ReadableAppend
<1>4. CASE Persist(r)
  <2>1. log' = Append(log, r) /\ cached' = r.seq /\ faults' = faults
    BY <1>4 DEF Persist
  <2>2. log' # log
    BY <1>1, <1>3, <2>1
  <2> QED BY <1>1, <1>3, <1>4, <2>1, <2>2
<1>5. CASE AppendFails(r)
  <2>1. ~(r.seq =< LastSequence)
    BY <1>1, <1>2, TopType DEF LastSequence
  <2>2. /\ faults < MaxFaults /\ faults' = faults + 1 /\ cached' = cached
        /\ log' = log \/ log' = Append(log, r)
    BY <1>5, <2>1 DEF AppendFails, Refuse, Lose, Blur, Fault
  <2>3. CASE log' = log
    BY <1>1, <2>2, <2>3
  <2>4. CASE log' = Append(log, r)
    <3>1. cached' =< Top(log')
      BY <1>1, <1>3, <2>2, <2>4
    <3> QED BY <1>1, <1>3, <2>2, <2>4, <3>1
  <2> QED BY <2>2, <2>3, <2>4
<1> QED BY <1>4, <1>5

LEMMA LargerIsUpper ==
  ASSUME NEW a \in Nat, NEW b \in Nat
  PROVE  Larger(a, b) \in Nat /\ Larger(a, b) >= a /\ Larger(a, b) >= b
BY DEF Larger

(* The appends of a step, and what the next one is numbered from.          *)
LEMMA SeqInvAppend ==
  ASSUME TypeInv, ShapeInv, SeqInv, FaultInv,
         Emit \/ EmitFails \/ RepairCall \/ RepairTurn \/ ResumeStep
  PROVE  SeqInv' /\ FaultInv'
<1> USE DEF At, Continue
<1>0. /\ seqn \in Nat /\ seqn + 1 \in Nat /\ turn \in Nat /\ log \in Seq(Event)
      /\ persisted \in Seq(Event) /\ orphans \subseteq Call \cup {NoCall}
      /\ faults \in Nat /\ MaxFaults \in Nat /\ cached \in Nat /\ Top(log) \in Nat
      /\ faults =< MaxFaults
  BY ConstantsAssumption, TopType DEF TypeInv, TypeOK, FaultInv
<1>1. ASSUME NEW n \in Nat, NEW t \in Nat, NEW type \in EventTypes, NEW c \in Call \cup {NoCall}
      PROVE  Record(n, t, About(type, c)) \in Event /\ Record(n, t, About(type, c)).seq = n
  <2>1. About(type, c) \in Draft
    BY DraftTypes
  <2> QED BY <2>1, RecordType
<1>2. \A type : Note(type) = About(type, NoCall)
  BY DEF Note, About
<1>3. {"tool.failed", "turn.failed", "session.resumed"} \subseteq EventTypes
  BY EventNames
<1>4. CASE Emit \/ EmitFails
  <2>1. script # <<>> /\ pc \notin {"idle", "repair", "repairCalls", "repairRefresh", "resume"}
    BY <1>4 DEF Emit, EmitFails, ShapeInv
  <2>2. CurrentRecord \in Event /\ CurrentRecord.seq = seqn + 1
    BY <2>1, HeadOfScript
  <2>3. Top(log) =< seqn
    BY <2>1 DEF SeqInv
  <2>4. /\ Readable(log') /\ cached' =< Top(log') /\ Top(log') =< seqn + 1
        /\ \/ Persist(CurrentRecord) /\ faults' = faults
           \/ faults < MaxFaults /\ faults' = faults + 1
    BY <1>0, <1>4, <2>2, <2>3, SeqAppend DEF Emit, EmitFails
  <2>5. CASE Emit
    <3>1. pc' = pc /\ seqn' = seqn + 1 /\ wpc' = wpc /\ faults' = faults
      BY <2>5 DEF Emit, writeVars, Persist
    <3> QED BY <1>0, <2>1, <2>4, <3>1 DEF SeqInv, FaultInv
  <2>6. CASE EmitFails
    <3>1. pc' = "repair" /\ seqn' = seqn + 1 /\ wpc' = wpc
      BY <2>6 DEF EmitFails, writeVars
    <3>2. faults' > 0 /\ faults' =< MaxFaults
      <4>1. faults < MaxFaults /\ faults' = faults + 1
        <5>1. LastSequence =< Top(log)
          BY <1>0 DEF SeqInv, LastSequence
        <5>2. ~(CurrentRecord.seq =< LastSequence)
          BY <1>0, <2>2, <2>3, <5>1 DEF LastSequence
        <5> QED BY <2>6, <5>2 DEF EmitFails, AppendFails, Refuse, Lose, Blur, Fault
      <4> QED BY <1>0, <4>1
    <3> QED BY <2>4, <3>1, <3>2 DEF SeqInv, FaultInv
  <2> QED BY <1>4, <2>5, <2>6
<1>5. CASE RepairCall
  <2>1. PICK c \in orphans :
          LET q == Record(seqn + 1, turn, About("tool.failed", c)) IN
          /\ \/ Persist(q) /\ pc' = pc
             \/ AppendFails(q) /\ pc' = "repairRefresh"
    BY <1>5 DEF RepairCall
  <2>2. pc = "repairCalls" /\ seqn' = seqn + 1 /\ wpc' = wpc /\ Top(log) =< seqn /\ faults > 0
    BY <1>5 DEF RepairCall, writeVars, SeqInv, FaultInv
  <2>3. /\ Readable(log') /\ cached' =< Top(log') /\ Top(log') =< seqn + 1
        /\ faults' = faults \/ (faults < MaxFaults /\ faults' = faults + 1)
    <3>1. c \in Call \cup {NoCall} /\ seqn + 1 > Top(log)
      BY <1>0, <2>1, <2>2
    <3> DEFINE q == Record(seqn + 1, turn, About("tool.failed", c))
    <3>2. Persist(q) \/ AppendFails(q)
      BY <2>1
    <3>3. q \in Event /\ q.seq = seqn + 1
      BY <1>0, <1>1, <1>3, <3>1
    <3> HIDE DEF q
    <3> QED BY <3>1, <3>2, <3>3, SeqAppend
  <2>4. pc' \in {"repairCalls", "repairRefresh"}
    BY <2>1, <2>2
  <2> QED BY <1>0, <2>2, <2>3, <2>4 DEF SeqInv, FaultInv
<1>6. CASE RepairTurn
  <2>1. pc = "repairCalls" /\ pc' = "idle" /\ wpc' = wpc /\ Top(log) =< seqn
    BY <1>6 DEF RepairTurn, Return, writeVars, SeqInv
  <2>2. CASE TurnStillOpen(persisted)
    <3> DEFINE n == Larger(seqn, Top(persisted)) + 1
    <3>1. n \in Nat /\ n > Top(log)
      <4>1. Top(persisted) \in Nat
        BY <1>0, TopType
      <4>2. Larger(seqn, Top(persisted)) \in Nat /\ Larger(seqn, Top(persisted)) >= seqn
        BY <1>0, <4>1, LargerIsUpper
      <4> QED BY <1>0, <2>1, <4>2
    <3> DEFINE q == Record(n, turn, Note("turn.failed"))
    <3>2. Persist(q) \/ AppendFails(q)
      BY <1>6, <2>2 DEF RepairTurn
    <3> HIDE DEF n
    <3>4. q \in Event /\ q.seq = n
      BY <1>0, <1>1, <1>2, <1>3, <3>1
    <3> HIDE DEF q
    <3>3. /\ Readable(log') /\ cached' =< Top(log')
          /\ faults' = faults \/ (faults < MaxFaults /\ faults' = faults + 1)
      BY <3>1, <3>2, <3>4, SeqAppend
    <3> QED BY <1>0, <2>1, <3>3 DEF SeqInv, FaultInv
  <2>3. CASE ~TurnStillOpen(persisted)
    <3>1. UNCHANGED <<log, cached, faults>>
      BY <1>6, <2>3 DEF RepairTurn, storeVars
    <3> QED BY <2>1, <3>1 DEF SeqInv, FaultInv
  <2> QED BY <2>2, <2>3
<1>7. CASE ResumeStep
  <2>1. PICK t \in Nat, type \in {"tool.failed", "turn.failed", "session.resumed"},
             c \in Call \cup {NoCall} : ResumeAppend(t, About(type, c))
    <3>1. \A t \in IncompleteTurns(log) : t \in Nat
      BY <1>0, EventFields DEF IncompleteTurns, TurnsWith
    <3>2. \A c \in orphans : TurnOf(log, c) \in Nat
      BY <1>0, <1>7, TurnOfType DEF TypeInv, TypeOK, ResumeStep
    <3> QED BY <1>0, <1>2, <1>7, <3>1, <3>2 DEF ResumeStep
  <2>2. pc = "resume" /\ wpc' = wpc /\ Top(log) =< seqn
    BY <1>7 DEF ResumeStep, writeVars, SeqInv
  <2> DEFINE q == Record(seqn + 1, t, About(type, c))
  <2>3. Persist(q) \/ AppendFails(q)
    BY <2>1 DEF ResumeAppend
  <2>4. /\ Readable(log') /\ cached' =< Top(log') /\ Top(log') =< seqn + 1
        /\ faults' = faults \/ (faults < MaxFaults /\ faults' = faults + 1)
    <3>1. seqn + 1 > Top(log)
      BY <1>0, <2>2
    <3>2. q \in Event /\ q.seq = seqn + 1
      BY <1>0, <1>1, <1>3
    <3> HIDE DEF q
    <3> QED BY <2>3, <3>1, <3>2, SeqAppend
  <2>5. pc' = "idle" \/ (pc' = pc /\ seqn' = seqn + 1)
    BY <2>1 DEF ResumeAppend
  <2> QED BY <1>0, <2>2, <2>4, <2>5 DEF SeqInv, FaultInv
<1> QED BY <1>4, <1>5, <1>6, <1>7

LEMMA SeqInvStep ==
  ASSUME MaxWrites = 0, TypeInv, ShapeInv, SeqInv, FaultInv, [Next]_vars
  PROVE  SeqInv' /\ FaultInv'
<1> USE DEF At, Continue, storeVars, writeVars
<1>0. /\ seqn \in Nat /\ Top(log) \in Nat /\ writes \in Nat /\ faults \in Nat /\ MaxFaults \in Nat
  BY TopType, ConstantsAssumption DEF TypeInv, TypeOK
<1>1. CASE StepTop \/ BuildContext \/ ModelFailed \/ EndOfStep \/ DispatchTool
           \/ AskApproval \/ ApprovalAborted \/ StartTool \/ ToolReturns \/ Answer
  BY <1>1 DEF StepTop, BuildContext, ModelFailed, EndOfStep, DispatchTool, AskApproval,
     ApprovalAborted, StartTool, ToolReturns, Answer, Grant, CancelCall, Quiet, SeqInv, FaultInv
<1>2. CASE EvaluateCall
  <2>1. /\ pc = "evaluate" /\ pc' \in {"dispatch", "end", "authorized", "ask"}
        /\ UNCHANGED <<log, cached, seqn, wpc, faults>>
    BY <1>2 DEF EvaluateCall, Quiet, RejectInput, RepeatedTooOften, Judged
  <2> QED BY <2>1 DEF SeqInv, FaultInv
<1>3. CASE ModelReplies
  <2>1. /\ pc = "model" /\ pc' \in {"modelCancelled", "modelFailed", "dispatch", "end"}
        /\ UNCHANGED <<log, cached, seqn, wpc, faults>>
    BY <1>3 DEF ModelReplies, Quiet, ReplyBroken, ReplyInvalid, ReplyFinal, ReplyWithTools
  <2> QED BY <2>1 DEF SeqInv, FaultInv
<1>4. CASE Execute \/ Abort \/ Done \/ UNCHANGED vars
  BY <1>4 DEF Execute, Abort, Done, vars, SeqInv, FaultInv
<1>5. CASE BeginTurn \/ Resume
  BY <1>0, <1>5 DEF BeginTurn, Resume, SeqInv, FaultInv
<1>6. CASE ToolThrowsStorage \/ RepairGivesUp
  <2>1. /\ pc' \in {"idle", "repair"} /\ UNCHANGED <<log, cached, wpc>>
        /\ \/ faults < MaxFaults /\ faults' = faults + 1
           \/ pc' = "idle" /\ faults' = faults
    BY <1>6 DEF ToolThrowsStorage, RepairGivesUp, ReadFails, Fault, Return
  <2> QED BY <1>0, <2>1 DEF SeqInv, FaultInv
<1>7. CASE EndTurn \/ Crash
  BY <1>0, <1>7 DEF EndTurn, Crash, Return, SeqInv, FaultInv
<1>8. CASE RepairRead
  <2>1. /\ pc = "repair" /\ pc' = "repairCalls" /\ seqn' = Larger(seqn, Top(log))
        /\ UNCHANGED <<log, cached, wpc, faults>>
    BY <1>8 DEF RepairRead
  <2>2. Top(log) =< seqn'
    BY <1>0, <2>1, LargerIsUpper
  <2> QED BY <2>1, <2>2 DEF SeqInv, FaultInv
<1>9. CASE RepairRefresh
  <2>1. /\ pc = "repairRefresh" /\ pc' = "repairCalls" /\ UNCHANGED <<log, cached, wpc, seqn>>
        /\ \/ faults < MaxFaults /\ faults' = faults + 1
           \/ faults' = faults
    BY <1>9 DEF RepairRefresh, ReadFails, Fault
  <2> QED BY <1>0, <2>1 DEF SeqInv, FaultInv
<1>10. CASE WriteCheck \/ WriteRead \/ WriteAppend
  BY <1>0, <1>10 DEF WriteCheck, WriteRead, WriteAppend, SeqInv
<1> QED BY <1>1, <1>2, <1>3, <1>4, <1>5, <1>6, <1>7, <1>8, <1>9, <1>10, SeqInvAppend
        DEF Next, LoopStep

LEMMA SeqInvInit == Init => SeqInv /\ FaultInv
<1> SUFFICES ASSUME Init PROVE SeqInv /\ FaultInv
  OBVIOUS
<1>1. Len(log) = 1 /\ log # <<>> /\ log[1].seq = 1
  BY DEF Init, Record
<1>2. Top(log) = 1 /\ Readable(log)
  BY <1>1 DEF Top, Readable
<1> QED BY <1>2, ConstantsAssumption DEF Init, SeqInv, FaultInv

(* With a single storage fault, the one that began the repair, none is     *)
(* left for its appends.                                                   *)
LEMMA RecoverySucceeds ==
  ASSUME MaxFaults =< 1, TypeInv, SeqInv, FaultInv, [Next]_vars
  PROVE  RecoveryReachesFile
<1> SUFFICES ASSUME RepairCall
             PROVE  log' # log
  BY DEF RecoveryReachesFile
<1>1. PICK c \in orphans :
        LET q == Record(seqn + 1, turn, About("tool.failed", c)) IN Persist(q) \/ AppendFails(q)
  BY DEF RepairCall
<1> DEFINE q == Record(seqn + 1, turn, About("tool.failed", c))
<1>2. q \in Event /\ q.seq = seqn + 1
  <2>1. seqn + 1 \in Nat /\ turn \in Nat /\ c \in Call \cup {NoCall}
    BY <1>1 DEF TypeInv, TypeOK
  <2>2. About("tool.failed", c) \in Draft
    BY <2>1, DraftTypes, EventNames
  <2> QED BY <2>1, <2>2, RecordType
<1>3. Persist(q) \/ AppendFails(q)
  BY <1>1
<1> HIDE DEF q
<1>4. seqn \in Nat /\ Top(log) \in Nat /\ Top(log) =< seqn /\ faults > 0 /\ faults \in Nat
  BY TopType DEF RepairCall, At, SeqInv, FaultInv, TypeInv, TypeOK
<1>5. log' = log => faults < MaxFaults
  BY <1>2, <1>3, <1>4, SeqAppend
<1> QED BY <1>4, <1>5, ConstantsAssumption

(* Ambiguous appends alone do not spoil the file either: without settings  *)
(* requests it stays readable, whatever fails and however often.           *)
THEOREM LogOrderedWithoutWrites ==
  ASSUME MaxWrites = 0
  PROVE  Spec => []LogOrdered
<1>1. TypeInv /\ ShapeInv /\ SeqInv /\ FaultInv /\ [Next]_vars => SeqInv' /\ FaultInv'
  BY SeqInvStep
<1>2. SeqInv => LogOrdered
  BY DEF SeqInv, LogOrdered
<1> QED BY TypeInvInit, TypeInvStep, EffectInvInit, ShapeInvStep, SeqInvInit, <1>1, <1>2, PTL
        DEF Spec

(* With at most one storage fault every recovery append reaches the file,  *)
(* so that turns end clean and the log implements the ledger outright.     *)
THEOREM OneFaultIsRepaired ==
  ASSUME MaxFaults =< 1, MaxWrites = 0
  PROVE  Spec => []TurnEndsClean /\ ImplementsLedger
<1>1. TypeInv /\ ShapeInv /\ SeqInv /\ FaultInv /\ [Next]_vars => SeqInv' /\ FaultInv'
  BY SeqInvStep
<1>2. TypeInv /\ SeqInv /\ FaultInv /\ [Next]_vars => [RecoveryReachesFile]_vars
  BY RecoverySucceeds
<1>3. Spec => [][RecoveryReachesFile]_vars
  BY TypeInvInit, TypeInvStep, EffectInvInit, ShapeInvStep, SeqInvInit, <1>1, <1>2, PTL
     DEF Spec
<1> QED BY <1>3, TurnsEndClean, LogImplementsLedger, PTL

-----------------------------------------------------------------------------
(* The session after its first turn                                        *)

LEMMA UsableInvStep ==
  ASSUME MaxTurns = 1, MaxFaults =< 1, MaxCrashes = 0,
         LoopInv, EndInv, SeqInv, FaultInv, UsableInv, [Next]_vars
  PROVE  UsableInv'
<1> USE DEF LoopInv, At, Continue
<1>0. /\ log \in Seq(Event) /\ "turn.started" \notin {"turn.failed", "tool.failed",
                                    "session.resumed", "model.changed"}
      /\ "turn.failed" \in TurnTerminalTypes /\ MaxFaults \in Nat /\ faults \in Nat
      /\ crashes \in Nat /\ turn \in Nat
  BY ConstantsAssumption DEF TypeInv, TypeOK, TurnTerminalTypes
<1>1. CASE pc \in {"idle", "resume"} /\ pc' \in {"idle", "resume"}
  <2>1. script = <<>> /\ IncompleteTurns(log) = {}
    BY <1>1 DEF ShapeInv, UsableInv
  <2>2. ASSUME NEW r \in Event, log' = Append(log, r), Pending(r)
        PROVE  IncompleteTurns(log') = {}
    <3>1. r.type # "turn.started"
      BY <2>1, <2>2 DEF Pending
    <3> QED BY <1>0, <2>1, <2>2, <3>1, OpenAppend
  <2>3. IncompleteTurns(log') = {}
    BY <2>1, <2>2, AppendedEvent
  <2> QED BY <2>3 DEF UsableInv
<1>2. CASE EndTurn
  <2>1. pc = "end" /\ script = <<>> /\ log' = log
    BY <1>2 DEF EndTurn, storeVars
  <2>2. ~Opening
    BY <2>1 DEF ShapeInv, Opening, Final
  <2> QED BY <2>1, <2>2 DEF UsableInv, EndInv, TurnInHand, InLoop, Repairing
<1>3. CASE RepairGivesUp
  BY <1>0, <1>3 DEF RepairGivesUp, ReadFails, Fault, SeqInv, FaultInv
<1>4. CASE Crash
  BY <1>0, <1>4 DEF Crash
<1>5. CASE RepairTurn
  <2>1. pc = "repairCalls" /\ orphans = {} /\ faults > 0 /\ Top(log) =< seqn
    BY <1>5 DEF RepairTurn, FaultInv, SeqInv
  <2>2. Begun(persisted) = Begun(log) /\ Ended(persisted) = Ended(log)
    BY <2>1 DEF EndInv, TurnInHand
  <2>3. /\ Ended(log) \subseteq Begun(log) /\ Begun(log) \subseteq 1 .. 1
        /\ IncompleteTurns(log) \subseteq {turn} /\ IncompleteTurns(log) = Begun(log) \ Ended(log)
    BY <1>0 DEF EndInv, EndFile, TurnsInv, IncompleteTurns, Begun, Ended
  <2>4. CASE TurnStillOpen(persisted)
    <3> DEFINE n == Larger(seqn, Top(persisted)) + 1
               q == Record(n, turn, Note("turn.failed"))
    <3>1. Persist(q) \/ AppendFails(q)
      BY <1>5, <2>4 DEF RepairTurn
    <3>2. n \in Nat /\ n > Top(log)
      <4>1. seqn \in Nat /\ Top(persisted) \in Nat /\ Top(log) \in Nat
        BY TopType DEF TypeInv, TypeOK
      <4>2. Larger(seqn, Top(persisted)) \in Nat /\ Larger(seqn, Top(persisted)) >= seqn
        BY <4>1, LargerIsUpper
      <4> QED BY <2>1, <4>1, <4>2
    <3> HIDE DEF n
    <3>3. q \in Event /\ q.seq = n /\ q.type = "turn.failed" /\ q.turn = turn
      <4>1. Note("turn.failed") \in Draft
        BY DraftTypes, EventNames
      <4> QED BY <1>0, <3>2, <4>1, RecordType DEF Note
    <3> HIDE DEF q
    <3>4. log' = Append(log, q)
      <4>1. ~(faults < MaxFaults)
        BY <1>0, <2>1
      <4>2. Persist(q)
        BY <3>1, <3>2, <3>3, <4>1, SeqAppend
      <4> QED BY <4>2 DEF Persist
    <3>5. IncompleteTurns(log') = {}
      BY <1>0, <2>3, <3>3, <3>4, OpenAppend
    <3> QED BY <3>5 DEF UsableInv
  <2>5. CASE ~TurnStillOpen(persisted)
    <3>1. log' = log
      BY <1>5, <2>5 DEF RepairTurn, storeVars
    <3>2. Ended(log) # {} \/ Begun(log) = {}
      BY <2>2, <2>5 DEF TurnStillOpen, Begun, Ended
    <3>3. IncompleteTurns(log) = {}
      BY <2>3, <3>2
    <3> QED BY <3>1, <3>3 DEF UsableInv
  <2> QED BY <2>4, <2>5
<1>6. CASE EvaluateCall \/ ModelReplies
  BY <1>6 DEF EvaluateCall, RejectInput, RepeatedTooOften, Judged, ModelReplies,
     ReplyBroken, ReplyInvalid, ReplyFinal, ReplyWithTools, UsableInv
<1>7. CASE StepTop \/ BuildContext \/ ModelFailed \/ EndOfStep \/ DispatchTool
           \/ AskApproval \/ ApprovalAborted \/ StartTool \/ Execute \/ ToolReturns
           \/ Answer \/ EmitFails \/ ToolThrowsStorage \/ BeginTurn
           \/ RepairRead \/ RepairCall \/ RepairRefresh
  BY <1>7 DEF StepTop, BuildContext, ModelFailed, EndOfStep, DispatchTool, AskApproval,
     ApprovalAborted, StartTool, Execute, ToolReturns, Answer, Grant, CancelCall, EmitFails,
     ToolThrowsStorage, BeginTurn, RepairRead, RepairCall, RepairRefresh, UsableInv
<1>8. CASE Emit \/ Abort \/ WriteCheck \/ WriteRead \/ WriteAppend \/ Done \/ UNCHANGED vars
  <2>1. pc' = pc
    BY <1>8 DEF Emit, Abort, WriteCheck, WriteRead, WriteAppend, Done, vars
  <2> QED BY <1>1, <2>1 DEF UsableInv
<1>9. CASE Resume \/ ResumeStep
  <2>1. pc \in {"idle", "resume"}
    BY <1>9 DEF Resume, ResumeStep
  <2> QED BY <1>1, <2>1 DEF UsableInv
<1> QED BY <1>2, <1>3, <1>4, <1>5, <1>6, <1>7, <1>8, <1>9 DEF Next, LoopStep

(* A first turn that returns leaves a session that accepts the next one,   *)
(* for any replies and limits, if the storage fails at most once and the   *)
(* process does not die.                                                   *)
THEOREM FirstTurnLeavesSessionUsable ==
  ASSUME MaxTurns = 1, MaxFaults =< 1, MaxCrashes = 0, MaxWrites = 0
  PROVE  Spec => []TurnLeavesSessionUsable
<1>1. Init => UsableInv
  BY DEF Init, UsableInv, IncompleteTurns, TurnsWith, Record, Note
<1>2. LoopInv /\ SeqInv /\ FaultInv /\ [Next]_vars => SeqInv' /\ FaultInv'
  BY SeqInvStep DEF LoopInv
<1>3. LoopInv /\ EndInv /\ SeqInv /\ FaultInv /\ [Next]_vars => EndInv'
  BY RecoverySucceeds, EndInvStep DEF LoopInv
<1>4. LoopInv /\ EndInv /\ SeqInv /\ FaultInv /\ UsableInv /\ [Next]_vars => UsableInv'
  BY UsableInvStep
<1>5. LoopInv /\ EndInv /\ UsableInv => TurnLeavesSessionUsable
  BY DanglingIsOpen DEF LoopInv, UsableInv, TurnLeavesSessionUsable
<1> QED BY LoopInvInit, LoopInvStep, EndInvInit, SeqInvInit, <1>1, <1>2, <1>3, <1>4, <1>5, PTL
        DEF Spec
-----------------------------------------------------------------------------
(* Recursive functions over the numbers up to n                            *)

(* What holds of 0 and of the next number holds of every number.           *)
LEMMA Counting ==
  ASSUME NEW S \in SUBSET Nat, 0 \in S, \A k \in S : k + 1 \in S
  PROVE  S = Nat
<1> SUFFICES ASSUME NEW n \in Nat, n \notin S PROVE FALSE
  OBVIOUS
<1> DEFINE D == {k \in 0 .. n : k \notin S}
           f == [k \in D |-> k - 1]
<1>1. IsFiniteSet(D)
  <2>1. IsFiniteSet(0 .. n) /\ D \in SUBSET (0 .. n)
    BY FS_Interval
  <2> QED BY <2>1, FS_Subset
<1>2. ASSUME NEW k \in D PROVE k - 1 \in D
  <2>1. k \in Nat /\ k # 0 /\ k - 1 \in Nat /\ k - 1 <= n /\ (k - 1) + 1 = k
    OBVIOUS
  <2> QED BY <2>1
<1>3. f \in [D -> D] /\ \A a, b \in D : f[a] = f[b] => a = b
  BY <1>2
<1> HIDE DEF f
<1>4. f \in Injection(D, D)
  BY <1>3 DEF Injection, IsInjective
<1>5. f \in Surjection(D, D)
  BY <1>1, <1>4, FS_Injection
<1>6. n \in D
  OBVIOUS
<1>7. PICK k \in D : f[k] = n
  BY <1>5, <1>6 DEF Surjection
<1> QED BY <1>7 DEF f

(* What a function does from one number to the next.                       *)
Follows(f, base, n, move) == f[0] = base /\ \A i \in 1 .. n : f[i] = move[<<i, f[i - 1]>>]

(* What a function that is in V stays in.                                  *)
Stays(f, n, V) == f[0] \in V /\ \A i \in 1 .. n : f[i - 1] \in V => f[i] \in V

(* A value and what follows it at each move make a function.               *)
LEMMA Recursion ==
  ASSUME NEW V, NEW base \in V, NEW n \in Nat, NEW move \in [(1 .. n) \X V -> V]
  PROVE  \E f \in [0 .. n -> V] : Follows(f, base, n, move)
<1> DEFINE Good(f, k) == Follows(f, base, k, move)
           S == {k \in Nat : k <= n => \E f \in [0 .. k -> V] : Good(f, k)}
<1> USE DEF Follows
<1>1. 0 \in S
  <2>1. [i \in 0 .. 0 |-> base] \in [0 .. 0 -> V] /\ Good([i \in 0 .. 0 |-> base], 0)
    OBVIOUS
  <2> QED BY <2>1
<1>2. ASSUME NEW k \in S, k + 1 <= n PROVE \E f \in [0 .. k + 1 -> V] : Good(f, k + 1)
  <2>1. k \in Nat /\ k <= n
    BY <1>2
  <2>2. PICK f \in [0 .. k -> V] : Good(f, k)
    BY <2>1
  <2> DEFINE g == [i \in 0 .. k + 1 |-> IF i = k + 1 THEN move[<<k + 1, f[k]>>] ELSE f[i]]
  <2>3. k + 1 \in 1 .. n /\ f[k] \in V
    BY <1>2, <2>1, <2>2
  <2>4. move[<<k + 1, f[k]>>] \in V
    BY <2>3
  <2>5. g \in [0 .. k + 1 -> V]
    BY <2>1, <2>4
  <2>6. g[0] = base
    BY <2>1, <2>2
  <2>7. ASSUME NEW i \in 1 .. k + 1 PROVE g[i] = move[<<i, g[i - 1]>>]
    <3>1. CASE i = k + 1
      <4>1. g[i - 1] = f[k] /\ g[i] = move[<<k + 1, f[k]>>]
        BY <2>1, <3>1
      <4> QED BY <3>1, <4>1
    <3>2. CASE i # k + 1
      <4>1. i \in 1 .. k /\ g[i] = f[i] /\ g[i - 1] = f[i - 1]
        BY <2>1, <3>2
      <4> QED BY <2>2, <4>1
    <3> QED BY <3>1, <3>2
  <2> HIDE DEF g
  <2> QED BY <2>5, <2>6, <2>7
<1>3. S = Nat
  <2>1. ASSUME NEW k \in S PROVE k + 1 \in S
    <3>1. k + 1 \in Nat
      OBVIOUS
    <3>2. CASE k + 1 <= n
      <4>1. \E f \in [0 .. k + 1 -> V] : Good(f, k + 1)
        BY <1>2, <3>2
      <4> QED BY <3>1, <4>1
    <3>3. CASE ~(k + 1 <= n)
      BY <3>1, <3>3
    <3> QED BY <3>2, <3>3
  <2> HIDE DEF S
  <2>2. S \in SUBSET Nat
    BY DEF S
  <2> QED BY <1>1, <2>1, <2>2, Counting
<1> QED BY <1>3

(* The values of such a function are what its steps make them.             *)
LEMMA StepByStep ==
  ASSUME NEW V, NEW n \in Nat, NEW f, Stays(f, n, V)
  PROVE  \A i \in 0 .. n : f[i] \in V
<1> DEFINE S == {k \in Nat : k <= n => f[k] \in V}
<1> USE DEF Stays
<1>1. 0 \in S
  OBVIOUS
<1>2. ASSUME NEW k \in S PROVE k + 1 \in S
  <2>1. CASE k + 1 <= n
    <3>1. k + 1 \in 1 .. n /\ f[(k + 1) - 1] \in V
      BY <2>1
    <3> QED BY <3>1
  <2> QED BY <2>1
<1>3. S = Nat
  <2> HIDE DEF S
  <2>1. S \in SUBSET Nat
    BY DEF S
  <2> QED BY <1>1, <1>2, <2>1, Counting
<1> QED BY <1>3

(* The sum of a sequence of numbers, move by move.                         *)
LEMMA TotalSteps ==
  ASSUME NEW s \in Seq(Nat)
  PROVE  \E f \in [0 .. Len(s) -> Nat] :
           f[0] = 0 /\ (\A i \in 1 .. Len(s) : f[i] = f[i - 1] + s[i]) /\ Total(s) = f[Len(s)]
<1> DEFINE n == Len(s)
           sum == CHOOSE f : f = [i \in 0 .. n |-> IF i = 0 THEN 0 ELSE f[i - 1] + s[i]]
           move == [x \in (1 .. n) \X Nat |-> x[2] + s[x[1]]]
<1>1. n \in Nat /\ \A i \in 1 .. n : s[i] \in Nat
  OBVIOUS
<1>2. move \in [(1 .. n) \X Nat -> Nat] /\ \A i \in 1 .. n, v \in Nat : move[<<i, v>>] = v + s[i]
  BY <1>1
<1>3. Total(s) = sum[n]
  BY DEF Total
<1> HIDE DEF move, n
<1>4. PICK f \in [0 .. n -> Nat] : Follows(f, 0, n, move)
  <2>1. 0 \in Nat /\ n \in Nat
    BY <1>1 DEF n
  <2> QED BY <1>2, <2>1, Recursion, Zenon
<1>5. f = [i \in 0 .. n |-> IF i = 0 THEN 0 ELSE f[i - 1] + s[i]]
  <2>1. ASSUME NEW i \in 0 .. n, i # 0 PROVE f[i] = f[i - 1] + s[i]
    <3>1. i \in 1 .. n /\ i - 1 \in 0 .. n
      BY <1>1, <2>1
    <3>2. f[i - 1] \in Nat
      BY <3>1
    <3> QED BY <1>2, <1>4, <3>1, <3>2 DEF Follows
  <2> QED BY <1>4, <2>1 DEF Follows
<1>6. sum = [i \in 0 .. n |-> IF i = 0 THEN 0 ELSE sum[i - 1] + s[i]]
  BY <1>5
<1> HIDE DEF sum
<1>7. sum[0] = 0 /\ \A i \in 1 .. n : sum[i] = sum[i - 1] + s[i]
  BY <1>1, <1>6
<1>8. \A i \in 0 .. n : sum[i] \in Nat
  <2>1. ASSUME NEW i \in 1 .. n, sum[i - 1] \in Nat PROVE sum[i] \in Nat
    <3>1. sum[i] = sum[i - 1] + s[i] /\ s[i] \in Nat
      BY <1>1, <1>7
    <3> QED BY <2>1, <3>1
  <2>2. sum[0] \in Nat
    BY <1>7
  <2>3. Stays(sum, n, Nat)
    BY <2>1, <2>2 DEF Stays
  <2> QED BY <1>1, <2>3, StepByStep DEF n
<1>9. sum \in [0 .. n -> Nat]
  BY <1>6, <1>8
<1> QED BY <1>3, <1>7, <1>9 DEF n

(* It is the only function of that kind.                                   *)
LEMMA TotalOnly ==
  ASSUME NEW s \in Seq(Nat), NEW g,
         g[0] = 0, \A i \in 1 .. Len(s) : g[i] = g[i - 1] + s[i]
  PROVE  Total(s) = g[Len(s)]
<1>1. PICK f \in [0 .. Len(s) -> Nat] :
        f[0] = 0 /\ (\A i \in 1 .. Len(s) : f[i] = f[i - 1] + s[i]) /\ Total(s) = f[Len(s)]
  BY TotalSteps
<1> DEFINE n == Len(s)
           d == [i \in 0 .. n |-> IF g[i] = f[i] THEN 0 ELSE 1]
<1>2. n \in Nat
  OBVIOUS
<1>3. ASSUME NEW i \in 1 .. n, d[i - 1] \in {0} PROVE d[i] \in {0}
  <2>1. i \in 0 .. n /\ i - 1 \in 0 .. n
    OBVIOUS
  <2> QED BY <1>1, <1>3, <2>1
<1>4. d[0] \in {0}
  BY <1>1, <1>2
<1> HIDE DEF d
<1>5. \A i \in 0 .. n : d[i] \in {0}
  <2>1. Stays(d, n, {0})
    BY <1>3, <1>4 DEF Stays
  <2> HIDE DEF n
  <2> QED BY <1>2, <2>1, StepByStep, Zenon
<1>6. g[n] = f[n]
  BY <1>2, <1>5 DEF d
<1> QED BY <1>1, <1>6

LEMMA TotalOfNone == Total(<<>>) = 0
<1>1. <<>> \in Seq(Nat) /\ Len(<<>>) = 0
  OBVIOUS
<1> DEFINE g == [i \in 0 .. 0 |-> 0]
<1>2. g[0] = 0 /\ \A i \in 1 .. 0 : g[i] = g[i - 1] + <<>>[i]
  OBVIOUS
<1> HIDE DEF g
<1> QED BY <1>1, <1>2, TotalOnly

LEMMA TotalOfTwo ==
  ASSUME NEW s \in Seq(Nat), NEW t \in Seq(Nat)
  PROVE  Total(s) \in Nat /\ Total(s \o t) = Total(s) + Total(t)
<1> DEFINE m == Len(s)
           n == Len(t)
<1>1. PICK f \in [0 .. m -> Nat] :
        f[0] = 0 /\ (\A i \in 1 .. m : f[i] = f[i - 1] + s[i]) /\ Total(s) = f[m]
  BY TotalSteps
<1>2. PICK g \in [0 .. n -> Nat] :
        g[0] = 0 /\ (\A i \in 1 .. n : g[i] = g[i - 1] + t[i]) /\ Total(t) = g[n]
  BY TotalSteps
<1>3. /\ m \in Nat /\ n \in Nat /\ s \o t \in Seq(Nat) /\ Len(s \o t) = m + n
      /\ \A i \in 1 .. m + n : (s \o t)[i] = IF i <= m THEN s[i] ELSE t[i - m]
      /\ \A i \in 1 .. n : t[i] \in Nat
  OBVIOUS
<1> DEFINE u == s \o t
           h == [i \in 0 .. m + n |-> IF i <= m THEN f[i] ELSE f[m] + g[i - m]]
<1> HIDE DEF m, n, u
<1>4. h[0] = 0
  BY <1>1, <1>3
<1>5. ASSUME NEW i \in 1 .. m + n PROVE h[i] = h[i - 1] + u[i]
  <2>0. i - 1 \in 0 .. m + n /\ i \in 0 .. m + n
    BY <1>3
  <2>1. CASE i <= m
    <3>1. i \in 1 .. m /\ u[i] = s[i]
      BY <1>3, <2>1 DEF u
    <3> QED BY <1>1, <1>3, <2>0, <2>1, <3>1
  <2>2. CASE ~(i <= m)
    <3>1. /\ i - m \in 1 .. n /\ u[i] = t[i - m] /\ h[i] = f[m] + g[i - m]
          /\ (i - m) - 1 \in 0 .. n /\ i - m \in 0 .. n
      <4>1. /\ i - m \in 1 .. n /\ i - m \in 0 .. n /\ (i - m) - 1 \in 0 .. n
        BY <1>3, <2>2
      <4>2. u[i] = t[i - m]
        BY <1>3, <2>2 DEF u
      <4>3. h[i] = f[m] + g[i - m]
        BY <2>0, <2>2
      <4> QED BY <4>1, <4>2, <4>3
    <3>2. g[i - m] = g[(i - m) - 1] + t[i - m] /\ g[(i - m) - 1] \in Nat /\ f[m] \in Nat
          /\ t[i - m] \in Nat
      BY <1>1, <1>2, <1>3, <3>1
    <3>3. h[i - 1] = f[m] + g[(i - m) - 1]
      <4>1. CASE i = m + 1
        BY <1>1, <1>2, <1>3, <2>0, <3>2, <4>1
      <4>2. CASE i # m + 1
        <5>1. ~(i - 1 <= m) /\ (i - 1) - m = (i - m) - 1
          BY <1>3, <2>2, <4>2
        <5> QED BY <2>0, <5>1
      <4> QED BY <4>1, <4>2
    <3> DEFINE a == f[m]
               b == g[(i - m) - 1]
               c == t[i - m]
    <3>4. h[i] = a + (b + c) /\ h[i - 1] = a + b /\ u[i] = c /\ a \in Nat /\ b \in Nat /\ c \in Nat
      BY <3>1, <3>2, <3>3
    <3> HIDE DEF a, b, c
    <3> QED BY <3>4
  <2> QED BY <2>1, <2>2
<1>6. h[m + n] = f[m] + g[n]
  <2>1. CASE n = 0
    BY <1>1, <1>2, <1>3, <2>1
  <2>2. CASE n # 0
    BY <1>1, <1>2, <1>3, <2>2
  <2> QED BY <2>1, <2>2
<1> HIDE DEF h
<1>7. u \in Seq(Nat) /\ Len(u) = m + n
  BY <1>3 DEF u
<1>8. Total(u) = h[m + n]
  BY <1>4, <1>5, <1>7, TotalOnly
<1>9. f[m] \in Nat /\ g[n] \in Nat
  BY <1>1, <1>2, <1>3
<1>10. Total(u) = Total(s) + Total(t) /\ Total(s) \in Nat
  BY <1>1, <1>2, <1>6, <1>8, <1>9
<1> QED BY <1>10 DEF u

LEMMA TotalOfOne ==
  ASSUME NEW x \in Nat
  PROVE  Total(<<x>>) = x
<1>1. <<x>> \in Seq(Nat) /\ Len(<<x>>) = 1 /\ <<x>>[1] = x
  OBVIOUS
<1> DEFINE g == [i \in 0 .. 1 |-> IF i = 0 THEN 0 ELSE x]
           s == <<x>>
<1>2. g[0] = 0 /\ g[1] = x
  OBVIOUS
<1> HIDE DEF g, s
<1>3. \A i \in 1 .. Len(s) : g[i] = g[i - 1] + s[i]
  BY <1>1, <1>2 DEF s
<1>4. Total(s) = g[Len(s)]
  BY <1>1, <1>2, <1>3, TotalOnly DEF s
<1> QED BY <1>1, <1>2, <1>4 DEF s

(* Only keeps what is in the set, and all of it.                           *)
LEMMA OnlyKeeps ==
  ASSUME NEW T, NEW s \in Seq(T), NEW S
  PROVE  Only(s, S) \in Seq(T) /\ ToSet(Only(s, S)) = ToSet(s) \cap S
<1> DEFINE n == Len(s)
           V == Seq(T)
           kept == CHOOSE f : f = [i \in 0 .. n |->
                     IF i = 0 THEN <<>> ELSE IF s[i] \in S THEN Append(f[i - 1], s[i]) ELSE f[i - 1]]
           move == [x \in (1 .. n) \X V |-> IF s[x[1]] \in S THEN Append(x[2], s[x[1]]) ELSE x[2]]
<1>1. n \in Nat /\ (\A i \in 1 .. n : s[i] \in T) /\ <<>> \in V
  OBVIOUS
<1>2. /\ move \in [(1 .. n) \X V -> V]
      /\ \A i \in 1 .. n, v \in V : move[<<i, v>>] = IF s[i] \in S THEN Append(v, s[i]) ELSE v
  BY <1>1
<1>3. Only(s, S) = kept[n]
  BY DEF Only
<1>4. \A v \in V, i \in 1 .. n : Append(v, s[i]) \in V
  BY <1>1
<1> HIDE DEF move, n, V
<1>5. PICK f \in [0 .. n -> V] : Follows(f, <<>>, n, move)
  BY <1>1, <1>2, Recursion, Zenon
<1>6. f = [i \in 0 .. n |->
             IF i = 0 THEN <<>> ELSE IF s[i] \in S THEN Append(f[i - 1], s[i]) ELSE f[i - 1]]
  <2>1. ASSUME NEW i \in 0 .. n, i # 0
        PROVE  f[i] = IF s[i] \in S THEN Append(f[i - 1], s[i]) ELSE f[i - 1]
    <3>1. i \in 1 .. n /\ i - 1 \in 0 .. n
      BY <1>1, <2>1
    <3>2. f[i - 1] \in V
      BY <3>1
    <3> QED BY <1>2, <1>5, <3>1, <3>2 DEF Follows
  <2> QED BY <1>5, <2>1 DEF Follows
<1>7. kept = [i \in 0 .. n |->
                IF i = 0 THEN <<>> ELSE IF s[i] \in S THEN Append(kept[i - 1], s[i]) ELSE kept[i - 1]]
  BY <1>6
<1> HIDE DEF kept
<1>8. /\ kept[0] = <<>>
      /\ \A i \in 1 .. n : kept[i] = IF s[i] \in S THEN Append(kept[i - 1], s[i]) ELSE kept[i - 1]
  <2>1. 0 \in 0 .. n /\ \A i \in 1 .. n : i \in 0 .. n /\ i # 0
    BY <1>1
  <2>2. kept[0] = <<>>
    BY <1>7, <2>1
  <2>3. ASSUME NEW i \in 1 .. n
        PROVE  kept[i] = IF s[i] \in S THEN Append(kept[i - 1], s[i]) ELSE kept[i - 1]
    BY <1>7, <2>1
  <2> QED BY <2>2, <2>3
<1> DEFINE Holds(k) == kept[k] \in Seq(T) /\ ToSet(kept[k]) = {s[j] : j \in 1 .. k} \cap S
           K == {k \in Nat : k <= n => Holds(k)}
<1>9. Holds(0)
  BY <1>8 DEF ToSet
<1>10. ASSUME NEW k \in Nat, k + 1 <= n, Holds(k) PROVE Holds(k + 1)
  <2>1. k + 1 \in 1 .. n /\ (k + 1) - 1 = k /\ s[k + 1] \in T
    BY <1>1, <1>10
  <2>2. {s[j] : j \in 1 .. k + 1} = {s[j] : j \in 1 .. k} \cup {s[k + 1]}
    OBVIOUS
  <2>3. CASE s[k + 1] \in S
    <3> DEFINE q == kept[k]
               x == s[k + 1]
    <3>1. kept[k + 1] = Append(q, x) /\ q \in Seq(T) /\ x \in T
      BY <1>8, <1>10, <2>1, <2>3
    <3> HIDE DEF q, x
    <3>2. Append(q, x) \in Seq(T) /\ ToSet(Append(q, x)) = ToSet(q) \cup {x}
      <4> DEFINE r == Append(q, x)
                 m == Len(q)
      <4>1. /\ r \in Seq(T) /\ m \in Nat /\ DOMAIN q = 1 .. m /\ DOMAIN r = 1 .. m + 1
            /\ r[m + 1] = x /\ \A j \in 1 .. m : r[j] = q[j]
        BY <3>1
      <4> HIDE DEF r, m
      <4>2. ToSet(q) = {q[j] : j \in 1 .. m} /\ ToSet(r) = {r[j] : j \in 1 .. m + 1}
        BY <4>1 DEF ToSet
      <4>3. 1 .. m + 1 = (1 .. m) \cup {m + 1}
        BY <4>1
      <4>4. ToSet(r) = ToSet(q) \cup {x}
        BY <4>1, <4>2, <4>3
      <4> QED BY <4>1, <4>4 DEF r
    <3> QED BY <1>10, <2>2, <2>3, <3>1, <3>2 DEF q, x
  <2>4. CASE s[k + 1] \notin S
    <3>1. kept[k + 1] = kept[k]
      BY <1>8, <2>1, <2>4
    <3> QED BY <1>10, <2>2, <2>4, <3>1
  <2> QED BY <2>3, <2>4
<1>11. K = Nat
  <2>1. 0 \in K /\ K \in SUBSET Nat
    BY <1>9
  <2>2. \A k \in K : k + 1 \in K
    <3> TAKE k \in K
    <3>1. k \in Nat /\ (k + 1 <= n => k <= n)
      BY <1>1
    <3> HIDE DEF Holds
    <3> QED BY <1>10, <3>1
  <2> HIDE DEF K
  <2> QED BY <2>1, <2>2, Counting
<1>12. Holds(n)
  <2> HIDE DEF Holds
  <2> QED BY <1>1, <1>11
<1>13. {s[j] : j \in 1 .. n} = ToSet(s)
  BY DEF ToSet, n
<1> QED BY <1>3, <1>12, <1>13

(* A sequence of sequences, joined step by step.                           *)
LEMMA FlattenSteps ==
  ASSUME NEW M, NEW seqs \in Seq(Seq(M))
  PROVE  \E f \in [0 .. Len(seqs) -> Seq(M)] :
           /\ f[0] = <<>> /\ \A i \in 1 .. Len(seqs) : f[i] = f[i - 1] \o seqs[i]
           /\ FlattenSeq(seqs) = f[Len(seqs)]
<1> DEFINE n == Len(seqs)
           V == Seq(M)
           flat == CHOOSE f : f = [i \in 1 .. n |-> IF i = 1 THEN seqs[i] ELSE f[i - 1] \o seqs[i]]
           move == [x \in (1 .. n) \X V |-> x[2] \o seqs[x[1]]]
<1>1. n \in Nat /\ (\A i \in 1 .. n : seqs[i] \in V) /\ <<>> \in V
  OBVIOUS
<1>2. \A v, w \in V : v \o w \in V
  OBVIOUS
<1>3. \A v \in V : <<>> \o v = v
  OBVIOUS
<1>4. FlattenSeq(seqs) = IF n = 0 THEN seqs ELSE flat[n]
  BY DEF FlattenSeq
<1>5. n = 0 => seqs = <<>>
  OBVIOUS
<1> HIDE DEF n, V
<1>6. /\ move \in [(1 .. n) \X V -> V]
      /\ \A i \in 1 .. n, v \in V : move[<<i, v>>] = v \o seqs[i]
  BY <1>1, <1>2
<1> HIDE DEF move
<1>7. PICK f \in [0 .. n -> V] : Follows(f, <<>>, n, move)
  BY <1>1, <1>6, Recursion, Zenon
<1> DEFINE g == [i \in 1 .. n |-> f[i]]
<1>8. g = [i \in 1 .. n |-> IF i = 1 THEN seqs[i] ELSE g[i - 1] \o seqs[i]]
  <2>1. ASSUME NEW i \in 1 .. n PROVE g[i] = IF i = 1 THEN seqs[i] ELSE g[i - 1] \o seqs[i]
    <3>1. f[i - 1] \in V /\ i - 1 \in 0 .. n
      BY <1>1
    <3>2. f[i] = f[i - 1] \o seqs[i]
      BY <1>6, <1>7, <3>1 DEF Follows
    <3>3. CASE i = 1
      <4>1. f[0] = <<>> /\ i - 1 = 0
        BY <1>7, <3>3 DEF Follows
      <4> QED BY <1>1, <1>3, <3>2, <3>3, <4>1
    <3>4. CASE i # 1
      <4>1. i - 1 \in 1 .. n
        BY <3>1, <3>4
      <4> QED BY <3>2, <3>4, <4>1
    <3> QED BY <3>3, <3>4
  <2> QED BY <2>1
<1> HIDE DEF g
<1>9. flat = [i \in 1 .. n |-> IF i = 1 THEN seqs[i] ELSE flat[i - 1] \o seqs[i]]
  BY <1>8
<1> HIDE DEF flat
<1> DEFINE h == [i \in 0 .. n |-> IF i = 0 THEN <<>> ELSE flat[i]]
<1>10. h[0] = <<>> /\ \A i \in 1 .. n : h[i] = IF i = 1 THEN seqs[i] ELSE h[i - 1] \o seqs[i]
  <2>1. ASSUME NEW i \in 1 .. n PROVE h[i] = IF i = 1 THEN seqs[i] ELSE h[i - 1] \o seqs[i]
    <3>1. flat[i] = IF i = 1 THEN seqs[i] ELSE flat[i - 1] \o seqs[i]
      BY <1>9
    <3>2. i \in 0 .. n /\ i - 1 \in 0 .. n /\ i # 0 /\ (i # 1 => i - 1 # 0)
      BY <1>1
    <3> QED BY <3>1, <3>2
  <2>2. 0 \in 0 .. n
    BY <1>1
  <2> QED BY <2>1, <2>2
<1>11. h[n] = FlattenSeq(seqs)
  BY <1>1, <1>4, <1>5
<1>12. h = [i \in 0 .. n |-> h[i]]
  OBVIOUS
<1> HIDE DEF h
<1>13. \A i \in 0 .. n : h[i] \in V
  <2>1. Stays(h, n, V)
    BY <1>1, <1>2, <1>10 DEF Stays
  <2> QED BY <1>1, <2>1, StepByStep, Zenon
<1>14. \A i \in 1 .. n : h[i] = h[i - 1] \o seqs[i]
  <2> TAKE i \in 1 .. n
  <2>1. CASE i = 1
    <3>1. i - 1 = 0
      BY <2>1
    <3> QED BY <1>1, <1>3, <1>10, <2>1, <3>1
  <2>2. CASE i # 1
    BY <1>10, <2>2
  <2> QED BY <2>1, <2>2
<1>15. h \in [0 .. n -> V]
  BY <1>12, <1>13
<1> QED BY <1>10, <1>11, <1>14, <1>15 DEF n, V

(* What is closed under joining has the joined sequence.                   *)
Joins(V) == <<>> \in V /\ \A s, t \in V : s \o t \in V

LEMMA FlattenIn ==
  ASSUME NEW M, NEW V \in SUBSET Seq(M), Joins(V), NEW seqs \in Seq(V)
  PROVE  FlattenSeq(seqs) \in V
<1> DEFINE n == Len(seqs)
<1>1. seqs \in Seq(Seq(M)) /\ n \in Nat /\ \A i \in 1 .. n : seqs[i] \in V
  OBVIOUS
<1>2. PICK f \in [0 .. n -> Seq(M)] :
        /\ f[0] = <<>> /\ \A i \in 1 .. n : f[i] = f[i - 1] \o seqs[i]
        /\ FlattenSeq(seqs) = f[n]
  BY <1>1, FlattenSteps
<1> HIDE DEF n
<1>3. Stays(f, n, V)
  BY <1>1, <1>2 DEF Stays, Joins
<1>4. \A i \in 0 .. n : f[i] \in V
  BY <1>1, <1>3, StepByStep, Zenon
<1> QED BY <1>1, <1>2, <1>4

-----------------------------------------------------------------------------
(* Fragments                                                               *)

SomeCall == Call \cup {NoCall}

Fragment == [turn: Nat, user: BOOLEAN, text: Nat, reasoning: Nat,
             calls: Seq(SomeCall), results: Seq(SomeCall), outcome: BOOLEAN]

(* The fragments of a conversation: the current turn's bring no goal.      *)
FragmentOf(latest) == {f \in Fragment : f.turn = latest => ~f.user}

ReadingOf(latest) ==
  [done: Seq(FragmentOf(latest)), open: BOOLEAN, frag: FragmentOf(latest), turn: Nat,
   first: BOOLEAN]

LEMMA ReadingStart ==
  ASSUME NEW latest
  PROVE  Reading \in ReadingOf(latest)
<1>1. <<>> \in Seq(SomeCall) /\ <<>> \in Seq(FragmentOf(latest))
  OBVIOUS
<1>2. NoFragment \in FragmentOf(latest)
  BY <1>1 DEF NoFragment, FragmentOf, Fragment
<1> QED BY <1>1, <1>2 DEF Reading, ReadingOf

LEMMA OpenedType ==
  ASSUME NEW latest, NEW r \in ReadingOf(latest)
  PROVE  Opened(r, latest) \in ReadingOf(latest)
<1> DEFINE f == [NoFragment EXCEPT !.turn = r.turn,
                                   !.user = r.first /\ r.turn # 0 /\ r.turn # latest]
<1>1. r.turn \in Nat /\ r.first \in BOOLEAN /\ <<>> \in Seq(SomeCall)
  BY DEF ReadingOf
<1>2. f \in FragmentOf(latest)
  BY <1>1 DEF NoFragment, FragmentOf, Fragment
<1>3. Opened(r, latest) = IF r.open THEN r
                          ELSE [r EXCEPT !.open = TRUE, !.first = FALSE, !.frag = f]
  BY DEF Opened
<1> HIDE DEF f
<1> QED BY <1>2, <1>3 DEF ReadingOf

LEMMA CutType ==
  ASSUME NEW latest, NEW r \in ReadingOf(latest)
  PROVE  Cut(r) \in ReadingOf(latest)
<1>1. Append(r.done, r.frag) \in Seq(FragmentOf(latest))
  BY DEF ReadingOf
<1>2. Cut(r) = r \/ Cut(r) = [r EXCEPT !.done = Append(r.done, r.frag), !.open = FALSE]
  BY DEF Cut
<1> QED BY <1>1, <1>2 DEF ReadingOf

LEMMA FlushType ==
  ASSUME NEW latest, NEW r \in ReadingOf(latest)
  PROVE  Flush(r, latest) \in ReadingOf(latest)
<1> DEFINE f == [NoFragment EXCEPT !.turn = r.turn, !.user = TRUE]
<1>1. CASE ~r.open /\ r.turn # 0 /\ r.turn # latest /\ r.first
  <2>1. r.turn \in Nat /\ <<>> \in Seq(SomeCall)
    BY DEF ReadingOf
  <2>2. f \in FragmentOf(latest)
    BY <1>1, <2>1 DEF NoFragment, FragmentOf, Fragment
  <2>3. Flush(r, latest) = [r EXCEPT !.done = Append(r.done, f), !.first = FALSE]
    BY <1>1 DEF Flush
  <2> HIDE DEF f
  <2>4. Append(r.done, f) \in Seq(FragmentOf(latest))
    BY <2>2 DEF ReadingOf
  <2> QED BY <2>3, <2>4 DEF ReadingOf
<1>2. CASE ~(~r.open /\ r.turn # 0 /\ r.turn # latest /\ r.first)
  <2>1. Flush(r, latest) = [Cut(r) EXCEPT !.open = FALSE]
    BY <1>2 DEF Flush
  <2>2. Cut(r) \in ReadingOf(latest)
    BY CutType
  <2> QED BY <2>1, <2>2 DEF ReadingOf
<1> QED BY <1>1, <1>2

LEMMA TakeType ==
  ASSUME NEW latest, NEW r \in ReadingOf(latest), NEW e \in Event
  PROVE  Take(r, e, latest) \in ReadingOf(latest)
<1> DEFINE o == Opened(r, latest)
<1>1. o \in ReadingOf(latest)
  BY OpenedType
<1>2. e.call \in SomeCall
  BY DEF Event, SomeCall
<1>3. TextTokens \in Nat /\ ReasoningTokens \in Nat
  BY SizesAssumption
<1>4. \/ Take(r, e, latest) = [Flush(r, latest) EXCEPT !.turn = Flush(r, latest).turn + 1, !.first = TRUE]
      \/ Take(r, e, latest) = Cut(r)
      \/ Take(r, e, latest) = [o EXCEPT !.frag = [o.frag EXCEPT !.text = o.frag.text + TextTokens]]
      \/ Take(r, e, latest) = [o EXCEPT !.frag = [o.frag EXCEPT !.reasoning = o.frag.reasoning + ReasoningTokens]]
      \/ Take(r, e, latest) = [o EXCEPT !.frag = [o.frag EXCEPT !.calls = Append(o.frag.calls, e.call)]]
      \/ Take(r, e, latest) = [o EXCEPT !.frag = [o.frag EXCEPT !.outcome = TRUE]]
      \/ Take(r, e, latest) = [r EXCEPT !.frag = [r.frag EXCEPT !.results = Append(r.frag.results, e.call)]]
      \/ Take(r, e, latest) = r
  <2> DEFINE fl == Flush(r, latest)
             tk == Take(r, e, latest)
             cut == Cut(r)
             open == r.open
             tells == TellsOutcome(e)
             ends == e.type \in ToolTerminalTypes
             ty == e.type
             c == e.call
  <2>1. tk = (CASE ty = "turn.started"    -> [fl EXCEPT !.turn = @ + 1, !.first = TRUE]
                [] ty = "step.started"    -> cut
                [] ty = "model.text"      -> [o EXCEPT !.frag.text = @ + TextTokens]
                [] ty = "model.reasoning" -> [o EXCEPT !.frag.reasoning = @ + ReasoningTokens]
                [] ty = "model.tool_call" -> [o EXCEPT !.frag.calls = Append(@, c)]
                [] tells                  -> [o EXCEPT !.frag.outcome = TRUE]
                [] ends /\ open -> [r EXCEPT !.frag.results = Append(@, c)]
                [] OTHER                  -> r)
    BY DEF Take
  <2> HIDE DEF fl, tk, cut, o, open, tells, ends, ty, c
  <2>2. \/ tk = [fl EXCEPT !.turn = fl.turn + 1, !.first = TRUE]
        \/ tk = cut
        \/ tk = [o EXCEPT !.frag = [o.frag EXCEPT !.text = o.frag.text + TextTokens]]
        \/ tk = [o EXCEPT !.frag = [o.frag EXCEPT !.reasoning = o.frag.reasoning + ReasoningTokens]]
        \/ tk = [o EXCEPT !.frag = [o.frag EXCEPT !.calls = Append(o.frag.calls, c)]]
        \/ tk = [o EXCEPT !.frag = [o.frag EXCEPT !.outcome = TRUE]]
        \/ tk = [r EXCEPT !.frag = [r.frag EXCEPT !.results = Append(r.frag.results, c)]]
        \/ tk = r
    BY <2>1
  <2> QED BY <2>2 DEF fl, tk, cut, c
<1> HIDE DEF o
<1>5. ASSUME NEW f \in FragmentOf(latest)
      PROVE  /\ [f EXCEPT !.text = f.text + TextTokens] \in FragmentOf(latest)
             /\ [f EXCEPT !.reasoning = f.reasoning + ReasoningTokens] \in FragmentOf(latest)
             /\ [f EXCEPT !.calls = Append(f.calls, e.call)] \in FragmentOf(latest)
             /\ [f EXCEPT !.results = Append(f.results, e.call)] \in FragmentOf(latest)
             /\ [f EXCEPT !.outcome = TRUE] \in FragmentOf(latest)
  <2>1. f \in Fragment /\ (f.turn = latest => ~f.user)
    BY DEF FragmentOf
  <2>2. Append(f.calls, e.call) \in Seq(SomeCall) /\ Append(f.results, e.call) \in Seq(SomeCall)
    BY <1>2, <2>1 DEF Fragment
  <2>3. f.text + TextTokens \in Nat /\ f.reasoning + ReasoningTokens \in Nat
    BY <1>3, <2>1 DEF Fragment
  <2> DEFINE a == Append(f.calls, e.call)
             b == Append(f.results, e.call)
             x == f.text + TextTokens
             y == f.reasoning + ReasoningTokens
  <2> HIDE DEF a, b, x, y
  <2>4. /\ [f EXCEPT !.text = x] \in FragmentOf(latest)
        /\ [f EXCEPT !.reasoning = y] \in FragmentOf(latest)
    BY <2>1, <2>3 DEF FragmentOf, Fragment, x, y
  <2>5. /\ [f EXCEPT !.calls = a] \in FragmentOf(latest)
        /\ [f EXCEPT !.results = b] \in FragmentOf(latest)
        /\ [f EXCEPT !.outcome = TRUE] \in FragmentOf(latest)
    BY <2>1, <2>2 DEF FragmentOf, Fragment, a, b
  <2> QED BY <2>4, <2>5 DEF a, b, x, y
<1>6. ASSUME NEW q \in ReadingOf(latest), NEW f \in FragmentOf(latest)
      PROVE  [q EXCEPT !.frag = f] \in ReadingOf(latest) /\ q.frag \in FragmentOf(latest)
  BY <1>6 DEF ReadingOf
<1>7. Flush(r, latest) \in ReadingOf(latest) /\ Cut(r) \in ReadingOf(latest)
  BY FlushType, CutType
<1>8. ASSUME NEW q \in ReadingOf(latest)
      PROVE  [q EXCEPT !.turn = q.turn + 1, !.first = TRUE] \in ReadingOf(latest)
  <2>1. q.turn + 1 \in Nat
    BY <1>8 DEF ReadingOf
  <2> QED BY <1>8, <2>1 DEF ReadingOf
<1>9. o.frag \in FragmentOf(latest) /\ r.frag \in FragmentOf(latest)
  BY <1>1 DEF ReadingOf
<1>10. \A q \in ReadingOf(latest), f \in FragmentOf(latest) : [q EXCEPT !.frag = f] \in ReadingOf(latest)
  BY <1>6
<1> DEFINE fl == Flush(r, latest)
<1>11. [fl EXCEPT !.turn = fl.turn + 1, !.first = TRUE] \in ReadingOf(latest)
  BY <1>7, <1>8
<1>12. /\ [o EXCEPT !.frag = [o.frag EXCEPT !.text = o.frag.text + TextTokens]] \in ReadingOf(latest)
       /\ [o EXCEPT !.frag = [o.frag EXCEPT !.reasoning = o.frag.reasoning + ReasoningTokens]]
            \in ReadingOf(latest)
  BY <1>1, <1>5, <1>9, <1>10
<1>13. /\ [o EXCEPT !.frag = [o.frag EXCEPT !.calls = Append(o.frag.calls, e.call)]] \in ReadingOf(latest)
       /\ [o EXCEPT !.frag = [o.frag EXCEPT !.outcome = TRUE]] \in ReadingOf(latest)
  BY <1>1, <1>5, <1>9, <1>10
<1>14. [r EXCEPT !.frag = [r.frag EXCEPT !.results = Append(r.frag.results, e.call)]] \in ReadingOf(latest)
  BY <1>1, <1>5, <1>9, <1>10
<1> QED BY <1>1, <1>4, <1>7, <1>11, <1>12, <1>13, <1>14

LEMMA ConversationType ==
  ASSUME NEW l \in Seq(Event)
  PROVE  Conversation(l) \in Seq(FragmentOf(LatestTurn(l)))
<1> DEFINE n == Len(l)
           latest == LatestTurn(l)
           V == ReadingOf(latest)
           after == CHOOSE f : f = [i \in 0 .. n |-> IF i = 0 THEN Reading ELSE Take(f[i - 1], l[i], latest)]
           move == [x \in (1 .. n) \X V |-> Take(x[2], l[x[1]], latest)]
<1>1. n \in Nat /\ (\A i \in 1 .. n : l[i] \in Event) /\ Reading \in V
  BY ReadingStart
<1>2. \A i \in 1 .. n, v \in V : Take(v, l[i], latest) \in V
  BY <1>1, TakeType
<1>3. Conversation(l) = Flush(after[n], latest).done
  BY DEF Conversation
<1> HIDE DEF n, V, latest
<1>4. /\ move \in [(1 .. n) \X V -> V]
      /\ \A i \in 1 .. n, v \in V : move[<<i, v>>] = Take(v, l[i], latest)
  BY <1>2
<1> HIDE DEF move
<1>5. PICK f \in [0 .. n -> V] : Follows(f, Reading, n, move)
  BY <1>1, <1>4, Recursion, Zenon
<1>6. f = [i \in 0 .. n |-> IF i = 0 THEN Reading ELSE Take(f[i - 1], l[i], latest)]
  <2>1. ASSUME NEW i \in 0 .. n, i # 0 PROVE f[i] = Take(f[i - 1], l[i], latest)
    <3>1. i \in 1 .. n /\ i - 1 \in 0 .. n
      BY <1>1, <2>1
    <3>2. f[i - 1] \in V
      BY <3>1
    <3> QED BY <1>4, <1>5, <3>1, <3>2 DEF Follows
  <2> QED BY <1>5, <2>1 DEF Follows
<1>7. after = [i \in 0 .. n |-> IF i = 0 THEN Reading ELSE Take(after[i - 1], l[i], latest)]
  BY <1>6
<1> HIDE DEF after
<1>8. Stays(after, n, V)
  <2>1. 0 \in 0 .. n /\ \A i \in 1 .. n : i \in 0 .. n /\ i # 0
    BY <1>1
  <2>2. after[0] = Reading
    BY <1>7, <2>1
  <2>3. ASSUME NEW i \in 1 .. n, after[i - 1] \in V PROVE after[i] \in V
    <3>1. after[i] = Take(after[i - 1], l[i], latest)
      BY <1>7, <2>1
    <3> QED BY <1>2, <2>3, <3>1
  <2> QED BY <1>1, <2>2, <2>3 DEF Stays
<1>9. after[n] \in V
  <2>1. \A i \in 0 .. n : after[i] \in V
    BY <1>1, <1>8, StepByStep, Zenon
  <2> QED BY <1>1, <2>1
<1>10. Flush(after[n], latest) \in V
  BY <1>9, FlushType DEF V
<1> QED BY <1>3, <1>10 DEF V, ReadingOf, latest

-----------------------------------------------------------------------------
(* Messages                                                                *)

Roles == {"system", "summary", "user", "assistant", "tool"}

SomeMessage == [role: Roles, turn: Nat, tokens: Nat, calls: Seq(SomeCall)]

LEMMA JoinedAnswered ==
  ASSUME NEW a \in Seq(SomeMessage), NEW b \in Seq(SomeMessage),
         CallsAnswered(a), CallsAnswered(b)
  PROVE  CallsAnswered(a \o b)
<1> DEFINE m == Len(a)
           n == Len(b)
           u == a \o b
<1>1. /\ m \in Nat /\ n \in Nat /\ DOMAIN u = 1 .. m + n /\ Len(u) = m + n
      /\ DOMAIN a = 1 .. m /\ DOMAIN b = 1 .. n /\ Len(a) = m /\ Len(b) = n
      /\ \A i \in 1 .. m : u[i] = a[i]
      /\ \A i \in 1 .. n : u[i + m] = b[i]
  OBVIOUS
<1> HIDE DEF m, n, u
<1>2. ASSUME NEW i \in 1 .. m, AnswersCall(a, i) PROVE AnswersCall(u, i)
  <2>1. PICK j \in 1 .. i - 1 :
          /\ a[j].role = "assistant" /\ a[i].calls[1] \in ToSet(a[j].calls)
          /\ \A k \in j + 1 .. i - 1 : a[k].role = "tool"
    BY <1>2 DEF AnswersCall
  <2>2. u[i] = a[i] /\ u[j] = a[j] /\ \A k \in j + 1 .. i - 1 : u[k] = a[k]
    BY <1>1, <1>2
  <2> QED BY <2>1, <2>2 DEF AnswersCall
<1>3. ASSUME NEW i \in 1 .. m, NEW c, HasResult(a, i, c) PROVE HasResult(u, i, c)
  <2>1. PICK j \in i + 1 .. m : a[j].role = "tool" /\ a[j].calls[1] = c
    BY <1>1, <1>3 DEF HasResult
  <2>2. u[j] = a[j] /\ j \in i + 1 .. Len(u)
    BY <1>1, <1>3
  <2> QED BY <2>1, <2>2 DEF HasResult
<1>4. ASSUME NEW h \in 1 .. n, AnswersCall(b, h) PROVE AnswersCall(u, h + m)
  <2>1. PICK j \in 1 .. h - 1 :
          /\ b[j].role = "assistant" /\ b[h].calls[1] \in ToSet(b[j].calls)
          /\ \A k \in j + 1 .. h - 1 : b[k].role = "tool"
    BY <1>4 DEF AnswersCall
  <2>2. j \in 1 .. n /\ j + m \in 1 .. (h + m) - 1 /\ u[j + m] = b[j] /\ u[h + m] = b[h]
    BY <1>1, <1>4
  <2>3. ASSUME NEW k \in (j + m) + 1 .. (h + m) - 1 PROVE u[k].role = "tool"
    <3>1. k - m \in j + 1 .. h - 1 /\ k - m \in 1 .. n /\ (k - m) + m = k
      BY <1>1, <1>4, <2>2
    <3>2. u[(k - m) + m] = b[k - m] /\ b[k - m].role = "tool"
      BY <1>1, <2>1, <3>1
    <3> QED BY <3>1, <3>2
  <2> DEFINE x == j + m
             y == h + m
  <2>4. x \in 1 .. y - 1 /\ u[x] = b[j] /\ u[y] = b[h] /\ \A k \in x + 1 .. y - 1 : u[k].role = "tool"
    BY <2>2, <2>3
  <2> HIDE DEF x, y
  <2>5. AnswersCall(u, y)
    BY <2>1, <2>4 DEF AnswersCall
  <2> QED BY <2>5 DEF y
<1>5. ASSUME NEW h \in 1 .. n, NEW c, HasResult(b, h, c) PROVE HasResult(u, h + m, c)
  <2>1. PICK j \in h + 1 .. n : b[j].role = "tool" /\ b[j].calls[1] = c
    BY <1>1, <1>5 DEF HasResult
  <2> DEFINE x == j + m
             y == h + m
  <2>2. u[x] = b[j] /\ x \in y + 1 .. Len(u)
    BY <1>1, <1>5
  <2> HIDE DEF x, y
  <2>3. HasResult(u, y, c)
    BY <2>1, <2>2 DEF HasResult
  <2> QED BY <2>3 DEF y
<1>6. ASSUME NEW i \in 1 .. m + n
      PROVE  /\ u[i].role = "tool" => AnswersCall(u, i)
             /\ u[i].role = "assistant" => \A c \in ToSet(u[i].calls) : HasResult(u, i, c)
  <2>1. CASE i \in 1 .. m
    <3>1. u[i] = a[i] /\ i \in DOMAIN a
      BY <1>1, <2>1
    <3>2. /\ a[i].role = "tool" => AnswersCall(a, i)
          /\ a[i].role = "assistant" => \A c \in ToSet(a[i].calls) : HasResult(a, i, c)
      BY <3>1 DEF CallsAnswered
    <3> QED BY <1>2, <1>3, <2>1, <3>1, <3>2
  <2>2. CASE i \notin 1 .. m
    <3>1. i - m \in 1 .. n /\ (i - m) + m = i
      BY <1>1, <2>2
    <3> DEFINE h == i - m
    <3> HIDE DEF h
    <3>2. h \in 1 .. n /\ h + m = i /\ u[i] = b[h] /\ h \in DOMAIN b
      BY <1>1, <3>1 DEF h
    <3>3. /\ b[h].role = "tool" => AnswersCall(b, h)
          /\ b[h].role = "assistant" => \A c \in ToSet(b[h].calls) : HasResult(b, h, c)
      BY <3>2 DEF CallsAnswered
    <3>4. AnswersCall(b, h) => AnswersCall(u, i)
      BY <1>4, <3>2
    <3>5. \A c : HasResult(b, h, c) => HasResult(u, i, c)
      BY <1>5, <3>2
    <3> QED BY <3>2, <3>3, <3>4, <3>5
  <2> QED BY <2>1, <2>2
<1>7. \A i \in DOMAIN u : i \in 1 .. m + n
  BY <1>1
<1>8. CallsAnswered(u)
  BY <1>6, <1>7 DEF CallsAnswered
<1> QED BY <1>8 DEF u

(* The messages of a fragment: its goal, its reply, the results it has.    *)
LEMMA FragmentMessages ==
  ASSUME NEW f \in Fragment
  PROVE  /\ Messages(f) \in Seq(SomeMessage) /\ CallsAnswered(Messages(f))
         /\ \A i \in DOMAIN Messages(f) :
              /\ Messages(f)[i].turn = f.turn
              /\ Messages(f)[i].role \in {"assistant", "tool"} \/ (f.user /\ Messages(f)[i].role = "user")
<1> DEFINE q == Only(f.calls, ToSet(f.results))
           r == Only(f.results, ToSet(q))
           user == IF f.user THEN <<Message("user", f.turn, GoalTokens, <<>>)>> ELSE <<>>
           reply == IF f.text > 0 \/ q # <<>> \/ f.reasoning > 0
                    THEN <<Message("assistant", f.turn, f.text + f.reasoning + CallTokens * Len(q), q)>>
                    ELSE <<>>
           tools == [k \in DOMAIN r |-> Message("tool", f.turn, ResultTokens, <<r[k]>>)]
           ms == user \o reply \o tools
<1>1. Messages(f) = ms
  BY DEF Messages, Paired
<1>2. /\ f.turn \in Nat /\ f.text \in Nat /\ f.reasoning \in Nat /\ f.user \in BOOLEAN
      /\ f.calls \in Seq(SomeCall) /\ f.results \in Seq(SomeCall)
  BY DEF Fragment
<1>3. q \in Seq(SomeCall) /\ ToSet(q) = ToSet(f.calls) \cap ToSet(f.results)
  BY <1>2, OnlyKeeps
<1>4. r \in Seq(SomeCall) /\ ToSet(r) = ToSet(f.results) \cap ToSet(q)
  BY <1>2, OnlyKeeps
<1> HIDE DEF q, r
<1>5. ToSet(r) = ToSet(q)
  BY <1>3, <1>4
<1>6. GoalTokens \in Nat /\ CallTokens \in Nat /\ ResultTokens \in Nat
  BY SizesAssumption
<1>7. q = <<>> => r = <<>>
  <2> SUFFICES ASSUME q = <<>>, r # <<>> PROVE FALSE
    OBVIOUS
  <2>1. ToSet(q) = {}
    BY DEF ToSet
  <2>2. 1 \in DOMAIN r
    BY <1>4
  <2> QED BY <1>5, <2>1, <2>2 DEF ToSet
<1>8. user \in Seq(SomeMessage) /\ CallsAnswered(user)
      /\ \A i \in DOMAIN user : user[i].turn = f.turn /\ user[i].role = "user" /\ f.user
  <2> DEFINE x == Message("user", f.turn, GoalTokens, <<>>)
  <2>1. x \in SomeMessage /\ x.turn = f.turn /\ x.role = "user"
    BY <1>2, <1>6 DEF SomeMessage, Message, Roles
  <2> HIDE DEF x
  <2>2. user = (IF f.user THEN <<x>> ELSE <<>>)
    BY DEF x
  <2> HIDE DEF user
  <2>3. user \in Seq(SomeMessage) /\ \A i \in DOMAIN user : user[i] = x /\ f.user
    BY <2>1, <2>2
  <2>4. \A i \in DOMAIN user : user[i].role # "tool" /\ user[i].role # "assistant"
    BY <2>1, <2>3
  <2>5. CallsAnswered(user)
    BY <2>4 DEF CallsAnswered
  <2> QED BY <2>1, <2>3, <2>5
<1> DEFINE n == Len(r)
           rest == reply \o tools
<1>9. /\ tools \in Seq(SomeMessage) /\ n \in Nat /\ Len(tools) = n /\ DOMAIN tools = 1 .. n
      /\ \A k \in 1 .. n : tools[k].role = "tool" /\ tools[k].turn = f.turn /\ tools[k].calls[1] = r[k]
  <2>1. DOMAIN r = 1 .. n /\ n \in Nat /\ \A k \in 1 .. n : r[k] \in SomeCall
    BY <1>4
  <2> HIDE DEF n
  <2>2. ASSUME NEW k \in 1 .. n
        PROVE  /\ Message("tool", f.turn, ResultTokens, <<r[k]>>) \in SomeMessage
               /\ tools[k] = Message("tool", f.turn, ResultTokens, <<r[k]>>)
               /\ tools[k].role = "tool" /\ tools[k].turn = f.turn /\ tools[k].calls[1] = r[k]
    <3> DEFINE c == <<r[k]>>
    <3>1. c \in Seq(SomeCall) /\ c[1] = r[k] /\ k \in DOMAIN r
      BY <2>1
    <3> HIDE DEF c
    <3>2. Message("tool", f.turn, ResultTokens, c) \in SomeMessage
      BY <1>2, <1>6, <3>1 DEF Message, SomeMessage, Roles
    <3>3. tools[k] = Message("tool", f.turn, ResultTokens, c)
      BY <3>1 DEF c
    <3> HIDE DEF tools
    <3>4. tools[k].role = "tool" /\ tools[k].turn = f.turn /\ tools[k].calls = c
      BY <3>3 DEF Message
    <3> QED BY <3>1, <3>2, <3>3, <3>4 DEF c
  <2>3. tools \in [1 .. n -> SomeMessage]
    BY <2>1, <2>2
  <2> HIDE DEF tools
  <2>4. tools \in Seq(SomeMessage) /\ Len(tools) = n /\ DOMAIN tools = 1 .. n
    BY <2>1, <2>3
  <2> QED BY <2>1, <2>2, <2>4
<1>10. /\ reply \in Seq(SomeMessage)
       /\ \/ reply = <<>> /\ q = <<>>
          \/ Len(reply) = 1 /\ reply[1].role = "assistant" /\ reply[1].turn = f.turn /\ reply[1].calls = q
  <2> DEFINE z == f.text + f.reasoning + CallTokens * Len(q)
             x == Message("assistant", f.turn, z, q)
  <2>1. Len(q) \in Nat
    BY <1>3
  <2>2. CallTokens * Len(q) \in Nat
    BY <1>6, <2>1
  <2>3. z \in Nat
    BY <1>2, <2>2
  <2> HIDE DEF z
  <2>4. x \in SomeMessage /\ x.role = "assistant" /\ x.turn = f.turn /\ x.calls = q
    BY <1>2, <1>3, <2>3 DEF Message, SomeMessage, Roles
  <2> HIDE DEF x
  <2> DEFINE w == <<x>>
  <2>5. \/ reply = w
        \/ reply = <<>> /\ q = <<>>
    BY DEF x, z
  <2>6. w \in Seq(SomeMessage) /\ Len(w) = 1 /\ w[1] = x
    BY <2>4
  <2> HIDE DEF reply, w
  <2>7. CASE reply = w
    BY <2>4, <2>6, <2>7
  <2>8. CASE reply = <<>> /\ q = <<>>
    <3>1. <<>> \in Seq(SomeMessage)
      OBVIOUS
    <3> QED BY <2>8, <3>1
  <2> QED BY <2>5, <2>7, <2>8
<1> HIDE DEF user, reply, tools, n
<1>11. /\ rest \in Seq(SomeMessage) /\ CallsAnswered(rest)
       /\ \A i \in DOMAIN rest : rest[i].turn = f.turn /\ rest[i].role \in {"assistant", "tool"}
  <2>1. CASE reply = <<>> /\ q = <<>>
    <3>1. n = 0
      BY <1>7, <2>1 DEF n
    <3>2. rest = <<>>
      BY <1>9, <2>1, <3>1
    <3> QED BY <3>2 DEF CallsAnswered
  <2>2. CASE Len(reply) = 1 /\ reply[1].role = "assistant" /\ reply[1].turn = f.turn /\ reply[1].calls = q
    <3>1. /\ rest \in Seq(SomeMessage) /\ DOMAIN rest = 1 .. n + 1 /\ Len(rest) = n + 1
          /\ rest[1] = reply[1] /\ \A k \in 1 .. n : rest[k + 1] = tools[k]
      <4>1. /\ rest \in Seq(SomeMessage) /\ Len(rest) = 1 + n
            /\ \A i \in 1 .. 1 + n : rest[i] = IF i <= 1 THEN reply[i] ELSE tools[i - 1]
        <5>1. Len(reply) = 1
          BY <2>2
        <5> HIDE DEF rest
        <5>2. /\ reply \o tools \in Seq(SomeMessage) /\ Len(reply \o tools) = Len(reply) + Len(tools)
              /\ \A i \in 1 .. Len(reply) + Len(tools) :
                   (reply \o tools)[i] = IF i <= Len(reply) THEN reply[i] ELSE tools[i - Len(reply)]
          <6>1. reply \in Seq(SomeMessage) /\ tools \in Seq(SomeMessage)
            BY <1>9, <1>10
          <6> QED BY <6>1, ConcatProperties
        <5>3. rest = reply \o tools
          BY DEF rest
        <5> QED BY <1>9, <5>1, <5>2, <5>3
      <4> HIDE DEF rest
      <4>2. DOMAIN rest = 1 .. n + 1 /\ n \in Nat
        BY <1>9, <4>1
      <4>3. ASSUME NEW k \in 1 .. n PROVE rest[k + 1] = tools[k]
        <5>1. k + 1 \in 1 .. 1 + n /\ ~(k + 1 <= 1) /\ (k + 1) - 1 = k
          BY <4>2
        <5> QED BY <4>1, <5>1
      <4> QED BY <4>1, <4>2, <4>3
    <3> HIDE DEF rest
    <3>2. ASSUME NEW i \in 1 .. n + 1, i # 1
          PROVE  rest[i].role = "tool" /\ rest[i].turn = f.turn /\ rest[i].calls[1] \in ToSet(q)
      <4>1. i - 1 \in 1 .. n /\ (i - 1) + 1 = i
        BY <1>9, <3>2
      <4>2. rest[i] = tools[i - 1]
        BY <3>1, <4>1
      <4>3. r[i - 1] \in ToSet(q)
        <5>1. i - 1 \in DOMAIN r
          BY <1>4, <4>1 DEF n
        <5> QED BY <1>5, <5>1 DEF ToSet
      <4> QED BY <1>9, <4>1, <4>2, <4>3
    <3>3. ASSUME NEW c \in ToSet(q) PROVE HasResult(rest, 1, c)
      <4>1. PICK k \in 1 .. n : r[k] = c
        <5>1. c \in ToSet(r) /\ DOMAIN r = 1 .. n
          BY <1>4, <1>5, <3>3 DEF n
        <5> QED BY <5>1 DEF ToSet
      <4> DEFINE x == k + 1
      <4>2. x \in 1 + 1 .. Len(rest) /\ rest[x] = tools[k]
        BY <1>9, <3>1
      <4> HIDE DEF x
      <4>3. rest[x].role = "tool" /\ rest[x].calls[1] = c
        BY <1>9, <4>1, <4>2
      <4> QED BY <4>2, <4>3 DEF HasResult
    <3>4. ASSUME NEW i \in 1 .. n + 1, i # 1 PROVE AnswersCall(rest, i)
      <4>1. 1 \in 1 .. i - 1 /\ \A k \in 1 + 1 .. i - 1 : k \in 1 .. n + 1 /\ k # 1
        BY <1>9, <3>4
      <4>2. rest[1].role = "assistant" /\ rest[i].calls[1] \in ToSet(rest[1].calls)
        BY <2>2, <3>1, <3>2, <3>4
      <4> QED BY <3>2, <4>1, <4>2 DEF AnswersCall
    <3>5. CallsAnswered(rest)
      <4> SUFFICES ASSUME NEW i \in 1 .. n + 1
                   PROVE  /\ rest[i].role = "tool" => AnswersCall(rest, i)
                          /\ rest[i].role = "assistant" =>
                               \A c \in ToSet(rest[i].calls) : HasResult(rest, i, c)
        BY <3>1 DEF CallsAnswered
      <4>1. CASE i = 1
        BY <2>2, <3>1, <3>3, <4>1
      <4>2. CASE i # 1
        BY <3>2, <3>4, <4>2
      <4> QED BY <4>1, <4>2
    <3>6. ASSUME NEW i \in 1 .. n + 1
          PROVE  rest[i].turn = f.turn /\ rest[i].role \in {"assistant", "tool"}
      BY <2>2, <3>1, <3>2
    <3> QED BY <3>1, <3>5, <3>6
  <2> QED BY <1>10, <2>1, <2>2
<1>12. ms = user \o rest
  BY <1>8, <1>9, <1>10
<1> HIDE DEF rest, ms
<1>13. CallsAnswered(ms) /\ ms \in Seq(SomeMessage)
  <2>1. CallsAnswered(user \o rest)
    BY <1>8, <1>11, JoinedAnswered
  <2>2. user \o rest \in Seq(SomeMessage)
    BY <1>8, <1>11
  <2> QED BY <1>12, <2>1, <2>2
<1>14. ASSUME NEW i \in DOMAIN ms
       PROVE  ms[i].turn = f.turn /\ (ms[i].role \in {"assistant", "tool"} \/ (f.user /\ ms[i].role = "user"))
  <2>1. (i \in DOMAIN user /\ ms[i] = user[i]) \/ (\E k \in DOMAIN rest : ms[i] = rest[k])
    <3>1. CASE i <= Len(user)
      BY <1>8, <1>11, <1>12, <1>14, <3>1
    <3>2. CASE ~(i <= Len(user))
      <4>1. i - Len(user) \in DOMAIN rest /\ ms[i] = rest[i - Len(user)]
        BY <1>8, <1>11, <1>12, <1>14, <3>2
      <4> QED BY <4>1
    <3> QED BY <3>1, <3>2
  <2> QED BY <1>8, <1>11, <2>1
<1> QED BY <1>1, <1>13, <1>14

-----------------------------------------------------------------------------
(* Tokens                                                                  *)

LEMMA TokensOfTwo ==
  ASSUME NEW a \in Seq(SomeMessage), NEW b \in Seq(SomeMessage)
  PROVE  Tokens(a) \in Nat /\ Tokens(a \o b) = Tokens(a) + Tokens(b)
<1> DEFINE m == Len(a)
           n == Len(b)
           u == a \o b
           x == [i \in DOMAIN a |-> a[i].tokens]
           y == [i \in DOMAIN b |-> b[i].tokens]
           z == [i \in DOMAIN u |-> u[i].tokens]
<1>1. /\ m \in Nat /\ n \in Nat /\ DOMAIN a = 1 .. m /\ DOMAIN b = 1 .. n /\ DOMAIN u = 1 .. m + n
      /\ (\A i \in 1 .. m : a[i] \in SomeMessage) /\ (\A i \in 1 .. n : b[i] \in SomeMessage)
      /\ \A i \in 1 .. m + n : u[i] = IF i <= m THEN a[i] ELSE b[i - m]
  OBVIOUS
<1>2. Tokens(a) = Total(x) /\ Tokens(b) = Total(y) /\ Tokens(u) = Total(z)
  BY DEF Tokens
<1> HIDE DEF m, n, u
<1>3. x \in [1 .. m -> Nat] /\ y \in [1 .. n -> Nat]
  BY <1>1 DEF SomeMessage
<1>4. \A i \in 1 .. m + n : z[i] = IF i <= m THEN x[i] ELSE y[i - m]
  <2> TAKE i \in 1 .. m + n
  <2>1. CASE i <= m
    BY <1>1, <2>1
  <2>2. CASE ~(i <= m)
    <3>1. i - m \in 1 .. n
      BY <1>1, <2>2
    <3> QED BY <1>1, <2>2, <3>1
  <2> QED BY <2>1, <2>2
<1>5. DOMAIN z = 1 .. m + n /\ z = [i \in 1 .. m + n |-> z[i]]
  BY <1>1
<1> HIDE DEF x, y, z
<1>6. x \in Seq(Nat) /\ y \in Seq(Nat) /\ Len(x) = m /\ Len(y) = n
  <2>1. \A k \in Nat : \A s \in [1 .. k -> Nat] : s \in Seq(Nat) /\ Len(s) = k
    OBVIOUS
  <2>2. m \in Nat /\ n \in Nat
    BY <1>1
  <2> QED BY <1>3, <2>1, <2>2
<1>7. z = x \o y
  <2>1. x \o y = [i \in 1 .. m + n |-> IF i <= m THEN x[i] ELSE y[i - m]]
    <3> DEFINE w == x \o y
    <3>1. /\ w \in Seq(Nat) /\ Len(w) = m + n
          /\ \A i \in 1 .. m + n : w[i] = IF i <= m THEN x[i] ELSE y[i - m]
      BY <1>6, ConcatProperties
    <3> HIDE DEF w
    <3>2. w = [i \in 1 .. m + n |-> w[i]]
      BY <3>1
    <3>3. w = [i \in 1 .. m + n |-> IF i <= m THEN x[i] ELSE y[i - m]]
      BY <3>1, <3>2
    <3> QED BY <3>3 DEF w
  <2> QED BY <1>4, <1>5, <2>1
<1>8. Total(x) \in Nat /\ Total(x \o y) = Total(x) + Total(y)
  BY <1>6, TotalOfTwo
<1> QED BY <1>2, <1>7, <1>8 DEF u

LEMMA TokensOfNone == Tokens(<<>>) = 0
<1> DEFINE x == [i \in DOMAIN <<>> |-> <<>>[i].tokens]
<1>1. x = <<>>
  OBVIOUS
<1>2. Tokens(<<>>) = Total(x)
  BY DEF Tokens
<1> HIDE DEF x
<1> QED BY <1>1, <1>2, TotalOfNone

LEMMA TokensOfOne ==
  ASSUME NEW x \in SomeMessage
  PROVE  <<x>> \in Seq(SomeMessage) /\ Tokens(<<x>>) = x.tokens
<1> DEFINE a == <<x>>
           y == [i \in DOMAIN a |-> a[i].tokens]
           t == x.tokens
<1>1. a \in Seq(SomeMessage) /\ DOMAIN a = 1 .. 1 /\ a[1] = x
  OBVIOUS
<1>2. Tokens(a) = Total(y)
  BY DEF Tokens
<1>3. t \in Nat
  BY DEF SomeMessage
<1> HIDE DEF a
<1>4. y = [i \in 1 .. 1 |-> t]
  BY <1>1
<1> HIDE DEF y, t
<1>5. y = <<t>>
  BY <1>4
<1>6. Total(<<t>>) = t
  BY <1>3, TotalOfOne
<1> QED BY <1>1, <1>2, <1>5, <1>6 DEF a, t

-----------------------------------------------------------------------------
(* Digests and the fragments they go with                                  *)

LEMMA StepAtType ==
  ASSUME NEW l \in Seq(Event), NEW i \in Nat
  PROVE  StepAt(l, i) \in Nat
<1>1. IsFiniteSet(1 .. i)
  BY FS_Interval
<1>2. IsFiniteSet({j \in 1 .. i : l[j].type = "step.started"})
  BY <1>1, FS_Subset
<1> QED BY <1>2, FS_CardinalityType DEF StepAt

LEMMA DigestsType ==
  ASSUME NEW l \in Seq(Event)
  PROVE  Digests(l) \in Seq(Nat) /\ Len(Digests(l)) = StepAt(l, Len(l))
<1> DEFINE n == StepAt(l, Len(l))
<1>1. n \in Nat /\ Len(l) \in Nat /\ DOMAIN l = 1 .. Len(l)
  BY StepAtType
<1>2. ASSUME NEW events \in SUBSET DOMAIN l PROVE DigestLines(l, events) \in Nat
  <2>1. IsFiniteSet(DOMAIN l)
    BY <1>1, FS_Interval
  <2> DEFINE q == {i \in events : l[i].type \in {"model.tool_call"} \cup ToolTerminalTypes}
             m == Cardinality(q)
             text == \E i \in events : l[i].type = "model.text"
  <2>2. q \in SUBSET DOMAIN l
    OBVIOUS
  <2>3. IsFiniteSet(q)
    BY <2>1, <2>2, FS_Subset
  <2>4. m \in Nat
    BY <2>3, FS_CardinalityType
  <2>5. DigestLines(l, events) = 1 + m + IF text THEN 1 ELSE 0
    BY DEF DigestLines
  <2> HIDE DEF m, text
  <2> QED BY <2>4, <2>5
<1>3. \A k \in 1 .. n : DigestLines(l, {i \in DOMAIN l : StepAt(l, i) = k}) \in Nat
  <2> TAKE k \in 1 .. n
  <2>1. {i \in DOMAIN l : StepAt(l, i) = k} \in SUBSET DOMAIN l
    OBVIOUS
  <2> QED BY <1>2, <2>1
<1>4. Digests(l) = [k \in 1 .. n |-> DigestLines(l, {i \in DOMAIN l : StepAt(l, i) = k})]
  BY DEF Digests
<1> HIDE DEF n
<1>5. Digests(l) \in [1 .. n -> Nat]
  BY <1>3, <1>4
<1>6. Digests(l) \in Seq(Nat) /\ Len(Digests(l)) = n
  BY <1>1, <1>5
<1> QED BY <1>6 DEF n

LEMMA MatchedType ==
  ASSUME NEW l \in Seq(Event)
  PROVE  /\ Matched(l) \in Seq(FragmentOf(LatestTurn(l)))
         /\ Len(Digests(l)) # 0 => Len(Matched(l)) <= Len(Digests(l))
<1> DEFINE fs == Conversation(l)
           n == Len(Digests(l))
           F == FragmentOf(LatestTurn(l))
<1>1. fs \in Seq(F)
  BY ConversationType
<1>2. n \in Nat
  BY DigestsType, StepAtType
<1>3. Matched(l) = IF n = 0 \/ n >= Len(fs) THEN fs ELSE SubSeq(fs, Len(fs) - n + 1, Len(fs))
  BY DEF Matched
<1> HIDE DEF fs, n, F
<1>4. CASE n = 0 \/ n >= Len(fs)
  BY <1>1, <1>2, <1>3, <1>4 DEF F, n
<1>5. CASE ~(n = 0 \/ n >= Len(fs))
  <2>1. Len(fs) - n + 1 \in 1 .. Len(fs) /\ Len(fs) \in Nat
    BY <1>1, <1>2, <1>5
  <2> DEFINE m == Len(fs) - n + 1
             g == SubSeq(fs, m, Len(fs))
  <2>2. g \in Seq(F)
    BY <1>1, <2>1
  <2>3. Len(g) = Len(fs) - m + 1
    BY <1>1, <2>1
  <2>4. Matched(l) = g
    BY <1>3, <1>5
  <2>5. Len(g) = n
    <3> HIDE DEF g
    <3> QED BY <1>2, <2>1, <2>3
  <2> HIDE DEF g, m
  <2> QED BY <1>2, <2>2, <2>4, <2>5 DEF F, n
<1> QED BY <1>4, <1>5

-----------------------------------------------------------------------------
(* What is kept                                                            *)

MessagesFrom(fs, from) == [k \in 1 .. Len(fs) - from + 1 |-> Messages(fs[from + k - 1])]

LEMMA MessagesFromType ==
  ASSUME NEW fs \in Seq(Fragment), NEW from \in 1 .. Len(fs) + 1
  PROVE  /\ MessagesFrom(fs, from) \in Seq(Seq(SomeMessage))
         /\ Len(MessagesFrom(fs, from)) = Len(fs) - from + 1
         /\ \A k \in 1 .. Len(fs) - from + 1 :
              from + k - 1 \in DOMAIN fs /\ MessagesFrom(fs, from)[k] = Messages(fs[from + k - 1])
<1> DEFINE n == Len(fs) - from + 1
<1>1. n \in Nat /\ \A k \in 1 .. n : from + k - 1 \in DOMAIN fs /\ fs[from + k - 1] \in Fragment
  OBVIOUS
<1>2. MessagesFrom(fs, from) = [k \in 1 .. n |-> Messages(fs[from + k - 1])]
  BY DEF MessagesFrom
<1>3. \A k \in 1 .. n : Messages(fs[from + k - 1]) \in Seq(SomeMessage)
  BY <1>1, FragmentMessages
<1> HIDE DEF n
<1>4. MessagesFrom(fs, from) \in [1 .. n -> Seq(SomeMessage)]
  BY <1>2, <1>3
<1>5. MessagesFrom(fs, from) \in Seq(Seq(SomeMessage)) /\ Len(MessagesFrom(fs, from)) = n
  BY <1>1, <1>4
<1> QED BY <1>1, <1>2, <1>5 DEF n

LEMMA CostType ==
  ASSUME NEW fs \in Seq(Fragment), NEW from \in 1 .. Len(fs) + 1
  PROVE  /\ Cost(fs, from) = Tokens(FlattenSeq(MessagesFrom(fs, from)))
         /\ Cost(fs, from) \in Nat
<1>1. Joins(Seq(SomeMessage))
  BY DEF Joins
<1>2. FlattenSeq(MessagesFrom(fs, from)) \in Seq(SomeMessage)
  BY <1>1, MessagesFromType, FlattenIn
<1>3. Cost(fs, from) = Tokens(FlattenSeq(MessagesFrom(fs, from)))
  BY DEF Cost, MessagesFrom
<1>4. <<>> \in Seq(SomeMessage)
  OBVIOUS
<1> QED BY <1>2, <1>3, <1>4, TokensOfTwo

LEMMA CostOfNone ==
  ASSUME NEW fs \in Seq(Fragment)
  PROVE  Cost(fs, Len(fs) + 1) = 0
<1> DEFINE from == Len(fs) + 1
           q == MessagesFrom(fs, from)
<1>1. from \in 1 .. Len(fs) + 1 /\ Len(fs) - from + 1 = 0
  OBVIOUS
<1> HIDE DEF from
<1>2. q \in Seq(Seq(SomeMessage)) /\ Len(q) = 0
  BY <1>1, MessagesFromType
<1>3. Cost(fs, from) = Tokens(FlattenSeq(q))
  BY <1>1, CostType
<1> HIDE DEF q
<1>4. FlattenSeq(q) = q /\ q = <<>>
  BY <1>2 DEF FlattenSeq
<1> QED BY <1>3, <1>4, TokensOfNone DEF from

(* There is a first fragment from which on all fit.                        *)
LEMMA FirstKeptFits ==
  ASSUME NEW fs \in Seq(Fragment), NEW room \in Nat
  PROVE  /\ FirstKept(fs, room) \in 1 .. Len(fs) + 1
         /\ Cost(fs, FirstKept(fs, room)) <= room
<1> DEFINE n == Len(fs)
           cost(i) == Cost(fs, i)
           K == {k \in Nat : k <= n => cost(n + 1 - k) <= room}
<1>1. n \in Nat /\ \A i \in 1 .. n + 1 : cost(i) \in Nat
  BY CostType
<1>2. cost(n + 1) = 0
  BY CostOfNone
<1> HIDE DEF n, cost
<1>3. \E i \in 1 .. n + 1 : cost(i) <= room /\ (i > 1 => cost(i - 1) > room)
  <2> SUFFICES ASSUME ~\E i \in 1 .. n + 1 : cost(i) <= room /\ (i > 1 => cost(i - 1) > room)
               PROVE  FALSE
    OBVIOUS
  <2>1. 0 \in K
    BY <1>1, <1>2
  <2>2. ASSUME NEW k \in K PROVE k + 1 \in K
    <3>1. CASE k + 1 <= n
      <4>1. n + 1 - k \in 1 .. n + 1 /\ n + 1 - k > 1 /\ cost(n + 1 - k) <= room
        BY <1>1, <3>1
      <4>2. ~(cost((n + 1 - k) - 1) > room)
        BY <4>1
      <4>3. (n + 1 - k) - 1 = n + 1 - (k + 1) /\ n + 1 - (k + 1) \in 1 .. n + 1
        BY <1>1, <3>1
      <4>4. cost(n + 1 - (k + 1)) \in Nat /\ ~(cost(n + 1 - (k + 1)) > room)
        BY <1>1, <4>2, <4>3
      <4> QED BY <4>4
    <3>2. CASE ~(k + 1 <= n)
      BY <3>2
    <3> QED BY <3>1, <3>2
  <2>3. K = Nat
    <3> HIDE DEF K
    <3>1. K \in SUBSET Nat
      BY DEF K
    <3> QED BY <2>1, <2>2, <3>1, Counting
  <2>4. cost(n + 1 - n) <= room
    <3>1. n \in K
      BY <1>1, <2>3
    <3> QED BY <1>1, <3>1
  <2>5. n + 1 - n = 1 /\ 1 \in 1 .. n + 1
    BY <1>1
  <2> QED BY <2>4, <2>5
<1>4. FirstKept(fs, room) = CHOOSE i \in 1 .. n + 1 : cost(i) <= room /\ (i > 1 => cost(i - 1) > room)
  BY DEF FirstKept, n, cost
<1>5. FirstKept(fs, room) \in 1 .. n + 1 /\ cost(FirstKept(fs, room)) <= room
  BY <1>3, <1>4
<1> QED BY <1>5 DEF n, cost

(* The summary takes what is left, and a marker if it is cut.              *)
LEMMA SummaryFits ==
  ASSUME NEW l \in Seq(Event), NEW n \in 0 .. Len(Digests(l)), NEW room \in Nat
  PROVE  \/ Summary(l, n, room) = <<>>
         \/ \E m \in SomeMessage :
              /\ Summary(l, n, room) = <<m>>
              /\ m.role = "summary" /\ m.turn = 0 /\ m.tokens <= room + MarkerTokens
<1> DEFINE q == {k \in 1 .. n : Matched(l)[k].outcome}
           outcomes == Cardinality(q)
           lines == SubSeq(Digests(l), 1, n)
           total == Total(lines)
           whole == LineTokens * (outcomes + total)
<1>1. Digests(l) \in Seq(Nat) /\ n \in Nat
  BY DigestsType
<1>2. outcomes \in Nat
  <2>1. IsFiniteSet(1 .. n)
    BY <1>1, FS_Interval
  <2>2. IsFiniteSet(q)
    BY <2>1, FS_Subset
  <2> QED BY <2>2, FS_CardinalityType
<1>3. total \in Nat
  <2>1. lines \in Seq(Nat) /\ <<>> \in Seq(Nat)
    BY <1>1
  <2> HIDE DEF lines
  <2> QED BY <2>1, TotalOfTwo
<1>4. LineTokens \in Nat /\ MarkerTokens \in Nat
  BY SizesAssumption
<1>5. Summary(l, n, room) = CASE n = 0 \/ room = 0 -> <<>>
        [] n > 0 /\ whole <= room -> <<Message("summary", 0, whole, <<>>)>>
        [] OTHER -> <<Message("summary", 0, room + MarkerTokens, <<>>)>>
  BY DEF Summary
<1>6. whole \in Nat
  <2> DEFINE x == outcomes + total
  <2>1. x \in Nat
    <3> HIDE DEF outcomes, total
    <3> QED BY <1>2, <1>3
  <2> HIDE DEF x
  <2>2. LineTokens * x \in Nat
    BY <1>4, <2>1
  <2> QED BY <2>2 DEF x
<1> DEFINE x == Message("summary", 0, whole, <<>>)
           y == Message("summary", 0, room + MarkerTokens, <<>>)
<1> HIDE DEF whole
<1>7. x \in SomeMessage /\ x.role = "summary" /\ x.turn = 0 /\ x.tokens = whole
  BY <1>6 DEF Message, SomeMessage, Roles
<1>8. y \in SomeMessage /\ y.role = "summary" /\ y.turn = 0 /\ y.tokens = room + MarkerTokens
  <2>1. room + MarkerTokens \in Nat
    BY <1>4
  <2> QED BY <2>1 DEF Message, SomeMessage, Roles
<1>9. \/ Summary(l, n, room) = <<>>
      \/ Summary(l, n, room) = <<x>> /\ whole <= room
      \/ Summary(l, n, room) = <<y>>
  BY <1>5
<1> HIDE DEF x, y
<1>10. whole <= room => whole <= room + MarkerTokens
  BY <1>4, <1>6
<1> QED BY <1>4, <1>7, <1>8, <1>9, <1>10

LEMMA SplitTokens ==
  ASSUME NEW a \in Seq(Seq(SomeMessage)), NEW b \in Seq(Seq(SomeMessage)),
         NEW c \in Seq(Seq(SomeMessage)), Len(a) = Len(c), Len(b) = Len(c),
         \A k \in 1 .. Len(c) : (a[k] = c[k] /\ b[k] = <<>>) \/ (a[k] = <<>> /\ b[k] = c[k])
  PROVE  Tokens(FlattenSeq(a)) + Tokens(FlattenSeq(b)) = Tokens(FlattenSeq(c))
<1> DEFINE n == Len(c)
           M == Seq(SomeMessage)
<1>1. n \in Nat /\ \A k \in 1 .. n : a[k] \in M /\ b[k] \in M /\ c[k] \in M
  OBVIOUS
<1>2. PICK f \in [0 .. n -> M] :
        /\ f[0] = <<>> /\ \A i \in 1 .. n : f[i] = f[i - 1] \o a[i]
        /\ FlattenSeq(a) = f[n]
  <2>1. \E q \in [0 .. Len(a) -> Seq(SomeMessage)] :
          /\ q[0] = <<>> /\ \A i \in 1 .. Len(a) : q[i] = q[i - 1] \o a[i]
          /\ FlattenSeq(a) = q[Len(a)]
    BY FlattenSteps
  <2> QED BY <2>1
<1>3. PICK g \in [0 .. n -> M] :
        /\ g[0] = <<>> /\ \A i \in 1 .. n : g[i] = g[i - 1] \o b[i]
        /\ FlattenSeq(b) = g[n]
  <2>1. \E q \in [0 .. Len(b) -> Seq(SomeMessage)] :
          /\ q[0] = <<>> /\ \A i \in 1 .. Len(b) : q[i] = q[i - 1] \o b[i]
          /\ FlattenSeq(b) = q[Len(b)]
    BY FlattenSteps
  <2> QED BY <2>1
<1>4. PICK h \in [0 .. n -> M] :
        /\ h[0] = <<>> /\ \A i \in 1 .. n : h[i] = h[i - 1] \o c[i]
        /\ FlattenSeq(c) = h[n]
  BY FlattenSteps
<1>5. \A k \in 1 .. n : (a[k] = c[k] /\ b[k] = <<>>) \/ (a[k] = <<>> /\ b[k] = c[k])
  OBVIOUS
<1>6. \A x, y \in M : Tokens(x) \in Nat /\ Tokens(x \o y) = Tokens(x) + Tokens(y)
  BY TokensOfTwo
<1> HIDE DEF n, M
<1> DEFINE Even(i) == Tokens(f[i]) + Tokens(g[i]) = Tokens(h[i])
           d == [i \in 0 .. n |-> IF Even(i) THEN 0 ELSE 1]
<1>7. d[0] = 0
  BY <1>1, <1>2, <1>3, <1>4, TokensOfNone
<1>8. ASSUME NEW i \in 1 .. n, d[i - 1] \in {0} PROVE d[i] \in {0}
  <2>1. i - 1 \in 0 .. n /\ i \in 0 .. n
    BY <1>1
  <2>2. Even(i - 1)
    BY <1>8, <2>1
  <2>3. f[i - 1] \in M /\ g[i - 1] \in M /\ h[i - 1] \in M
    BY <2>1
  <2>4. /\ Tokens(f[i]) = Tokens(f[i - 1]) + Tokens(a[i])
        /\ Tokens(g[i]) = Tokens(g[i - 1]) + Tokens(b[i])
        /\ Tokens(h[i]) = Tokens(h[i - 1]) + Tokens(c[i])
    <3>1. a[i] \in M /\ b[i] \in M /\ c[i] \in M
      BY <1>1
    <3>2. Tokens(f[i]) = Tokens(f[i - 1]) + Tokens(a[i])
      <4> DEFINE p == f[i - 1]
                 q == a[i]
                 r == f[i]
      <4>1. p \in M /\ q \in M /\ r = p \o q
        BY <1>2, <2>3, <3>1
      <4> HIDE DEF p, q, r
      <4>2. Tokens(r) = Tokens(p) + Tokens(q)
        BY <1>6, <4>1
      <4> QED BY <4>2 DEF p, q, r
    <3>3. Tokens(g[i]) = Tokens(g[i - 1]) + Tokens(b[i])
      <4> DEFINE p == g[i - 1]
                 q == b[i]
                 r == g[i]
      <4>1. p \in M /\ q \in M /\ r = p \o q
        BY <1>3, <2>3, <3>1
      <4> HIDE DEF p, q, r
      <4>2. Tokens(r) = Tokens(p) + Tokens(q)
        BY <1>6, <4>1
      <4> QED BY <4>2 DEF p, q, r
    <3>4. Tokens(h[i]) = Tokens(h[i - 1]) + Tokens(c[i])
      <4> DEFINE p == h[i - 1]
                 q == c[i]
                 r == h[i]
      <4>1. p \in M /\ q \in M /\ r = p \o q
        BY <1>4, <2>3, <3>1
      <4> HIDE DEF p, q, r
      <4>2. Tokens(r) = Tokens(p) + Tokens(q)
        BY <1>6, <4>1
      <4> QED BY <4>2 DEF p, q, r
    <3> QED BY <3>2, <3>3, <3>4
  <2>5. Tokens(a[i]) + Tokens(b[i]) = Tokens(c[i])
    <3>1. Tokens(a[i]) \in Nat /\ Tokens(b[i]) \in Nat /\ Tokens(c[i]) \in Nat
      BY <1>1, <1>6
    <3>2. CASE a[i] = c[i] /\ b[i] = <<>>
      <4>1. Tokens(a[i]) = Tokens(c[i]) /\ Tokens(b[i]) = 0
        BY <3>2, TokensOfNone
      <4> QED BY <3>1, <4>1
    <3>3. CASE a[i] = <<>> /\ b[i] = c[i]
      <4>1. Tokens(b[i]) = Tokens(c[i]) /\ Tokens(a[i]) = 0
        BY <3>3, TokensOfNone
      <4> QED BY <3>1, <4>1
    <3> QED BY <1>5, <3>2, <3>3
  <2> DEFINE tf == Tokens(f[i - 1])
             tg == Tokens(g[i - 1])
             ta == Tokens(a[i])
             tb == Tokens(b[i])
  <2>6. tf \in Nat /\ tg \in Nat /\ ta \in Nat /\ tb \in Nat
    BY <1>1, <1>6, <2>3
  <2>7. Tokens(h[i]) = (tf + tg) + (ta + tb) /\ Tokens(f[i]) = tf + ta /\ Tokens(g[i]) = tg + tb
    BY <2>2, <2>4, <2>5
  <2> HIDE DEF tf, tg, ta, tb
  <2>8. Even(i)
    BY <2>6, <2>7
  <2> QED BY <2>1, <2>8
<1> HIDE DEF d
<1>9. Stays(d, n, {0})
  BY <1>7, <1>8 DEF Stays
<1>10. \A i \in 0 .. n : d[i] \in {0}
  BY <1>1, <1>9, StepByStep, Zenon
<1>11. Even(n)
  <2>1. n \in 0 .. n /\ d[n] = 0
    BY <1>1, <1>10
  <2> HIDE DEF Even
  <2> QED BY <2>1 DEF d
<1> QED BY <1>2, <1>3, <1>4, <1>11

(* Messages of earlier turns, and of the latest without its goal.          *)
Earlier(latest) ==
  {ms \in Seq(SomeMessage) : CallsAnswered(ms) /\ \A i \in DOMAIN ms : ms[i].turn # latest}

Latest(latest) ==
  {ms \in Seq(SomeMessage) :
     /\ CallsAnswered(ms)
     /\ \A i \in DOMAIN ms : ms[i].turn = latest /\ ms[i].role \in {"assistant", "tool"}}

LEMMA JoinedOf ==
  ASSUME NEW a \in Seq(SomeMessage), NEW b \in Seq(SomeMessage), NEW i \in DOMAIN (a \o b)
  PROVE  (\E j \in DOMAIN a : (a \o b)[i] = a[j]) \/ (\E j \in DOMAIN b : (a \o b)[i] = b[j])
<1>1. CASE i <= Len(a)
  BY <1>1
<1>2. CASE ~(i <= Len(a))
  <2>1. i - Len(a) \in DOMAIN b /\ (a \o b)[i] = b[i - Len(a)]
    BY <1>2
  <2> QED BY <2>1
<1> QED BY <1>1, <1>2

LEMMA TurnsJoin ==
  ASSUME NEW latest
  PROVE  Joins(Earlier(latest)) /\ Joins(Latest(latest))
<1>1. <<>> \in Earlier(latest) /\ <<>> \in Latest(latest)
  BY DEF Earlier, Latest, CallsAnswered
<1>2. ASSUME NEW a \in Seq(SomeMessage), NEW b \in Seq(SomeMessage), CallsAnswered(a), CallsAnswered(b)
      PROVE  a \o b \in Seq(SomeMessage) /\ CallsAnswered(a \o b)
  BY <1>2, JoinedAnswered
<1>3. ASSUME NEW a \in Earlier(latest), NEW b \in Earlier(latest) PROVE a \o b \in Earlier(latest)
  <2>1. /\ a \in Seq(SomeMessage) /\ CallsAnswered(a) /\ \A i \in DOMAIN a : a[i].turn # latest
        /\ b \in Seq(SomeMessage) /\ CallsAnswered(b) /\ \A i \in DOMAIN b : b[i].turn # latest
    BY <1>3 DEF Earlier
  <2> DEFINE u == a \o b
  <2>2. u \in Seq(SomeMessage) /\ CallsAnswered(u)
    BY <1>2, <2>1
  <2>3. \A i \in DOMAIN u : (\E j \in DOMAIN a : u[i] = a[j]) \/ (\E j \in DOMAIN b : u[i] = b[j])
    BY <2>1, JoinedOf
  <2> HIDE DEF u
  <2>4. \A i \in DOMAIN u : u[i].turn # latest
    BY <2>1, <2>3
  <2>5. u \in Earlier(latest)
    BY <2>2, <2>4 DEF Earlier
  <2> QED BY <2>5 DEF u
<1>4. ASSUME NEW a \in Latest(latest), NEW b \in Latest(latest) PROVE a \o b \in Latest(latest)
  <2>1. /\ a \in Seq(SomeMessage) /\ CallsAnswered(a)
        /\ \A i \in DOMAIN a : a[i].turn = latest /\ a[i].role \in {"assistant", "tool"}
        /\ b \in Seq(SomeMessage) /\ CallsAnswered(b)
        /\ \A i \in DOMAIN b : b[i].turn = latest /\ b[i].role \in {"assistant", "tool"}
    BY <1>4 DEF Latest
  <2> DEFINE u == a \o b
  <2>2. u \in Seq(SomeMessage) /\ CallsAnswered(u)
    BY <1>2, <2>1
  <2>3. \A i \in DOMAIN u : (\E j \in DOMAIN a : u[i] = a[j]) \/ (\E j \in DOMAIN b : u[i] = b[j])
    BY <2>1, JoinedOf
  <2> HIDE DEF u
  <2>4. \A i \in DOMAIN u : u[i].turn = latest /\ u[i].role \in {"assistant", "tool"}
    BY <2>1, <2>3
  <2>5. u \in Latest(latest)
    BY <2>2, <2>4 DEF Latest
  <2> QED BY <2>5 DEF u
<1> QED BY <1>1, <1>3, <1>4 DEF Joins

(* The messages kept of the latest turn, or of the others.                 *)
KeptOf(fs, from, latest, current) ==
  [k \in 1 .. Len(fs) - from + 1 |->
     IF current = (fs[from + k - 1].turn = latest) THEN Messages(fs[from + k - 1]) ELSE <<>>]

LEMMA KeptOfType ==
  ASSUME NEW latest, NEW fs \in Seq(FragmentOf(latest)), NEW from \in 1 .. Len(fs) + 1
  PROVE  /\ FlattenSeq(KeptOf(fs, from, latest, FALSE)) \in Earlier(latest)
         /\ FlattenSeq(KeptOf(fs, from, latest, TRUE)) \in Latest(latest)
         /\ Tokens(FlattenSeq(KeptOf(fs, from, latest, FALSE)))
              + Tokens(FlattenSeq(KeptOf(fs, from, latest, TRUE))) = Cost(fs, from)
<1> DEFINE n == Len(fs) - from + 1
           x == KeptOf(fs, from, latest, FALSE)
           y == KeptOf(fs, from, latest, TRUE)
           z == MessagesFrom(fs, from)
<1>1. fs \in Seq(Fragment)
  BY DEF FragmentOf
<1>2. n \in Nat /\ \A k \in 1 .. n : fs[from + k - 1] \in FragmentOf(latest)
  OBVIOUS
<1>3. z \in Seq(Seq(SomeMessage)) /\ Len(z) = n /\ \A k \in 1 .. n : z[k] = Messages(fs[from + k - 1])
  BY <1>1, MessagesFromType
<1>4. Cost(fs, from) = Tokens(FlattenSeq(z))
  BY <1>1, CostType
<1>5. /\ x = [k \in 1 .. n |-> IF fs[from + k - 1].turn = latest THEN <<>> ELSE Messages(fs[from + k - 1])]
      /\ y = [k \in 1 .. n |-> IF fs[from + k - 1].turn = latest THEN Messages(fs[from + k - 1]) ELSE <<>>]
  BY DEF KeptOf
<1> HIDE DEF n, x, y, z
<1>6. <<>> \in Earlier(latest) /\ <<>> \in Latest(latest)
  BY TurnsJoin DEF Joins
<1>7. ASSUME NEW f \in FragmentOf(latest)
      PROVE  IF f.turn = latest THEN Messages(f) \in Latest(latest) ELSE Messages(f) \in Earlier(latest)
  <2>1. f \in Fragment /\ (f.turn = latest => ~f.user)
    BY <1>7 DEF FragmentOf
  <2>2. /\ Messages(f) \in Seq(SomeMessage) /\ CallsAnswered(Messages(f))
        /\ \A i \in DOMAIN Messages(f) :
             /\ Messages(f)[i].turn = f.turn
             /\ Messages(f)[i].role \in {"assistant", "tool"} \/ (f.user /\ Messages(f)[i].role = "user")
    BY <2>1, FragmentMessages
  <2>3. CASE f.turn = latest
    BY <2>1, <2>2, <2>3 DEF Latest
  <2>4. CASE f.turn # latest
    BY <2>2, <2>4 DEF Earlier
  <2> QED BY <2>3, <2>4
<1>8. x \in [1 .. n -> Earlier(latest)] /\ y \in [1 .. n -> Latest(latest)]
  BY <1>2, <1>5, <1>6, <1>7
<1>9. x \in Seq(Earlier(latest)) /\ y \in Seq(Latest(latest)) /\ Len(x) = n /\ Len(y) = n
  BY <1>2, <1>8
<1>10. Earlier(latest) \in SUBSET Seq(SomeMessage) /\ Latest(latest) \in SUBSET Seq(SomeMessage)
  BY DEF Earlier, Latest
<1>11. FlattenSeq(x) \in Earlier(latest) /\ FlattenSeq(y) \in Latest(latest)
  BY <1>9, <1>10, TurnsJoin, FlattenIn
<1>12. Tokens(FlattenSeq(x)) + Tokens(FlattenSeq(y)) = Tokens(FlattenSeq(z))
  <2>1. x \in Seq(Seq(SomeMessage)) /\ y \in Seq(Seq(SomeMessage))
    BY <1>9, <1>10
  <2>2. \A k \in 1 .. n : (x[k] = z[k] /\ y[k] = <<>>) \/ (x[k] = <<>> /\ y[k] = z[k])
    BY <1>3, <1>5
  <2>3. /\ z \in Seq(Seq(SomeMessage)) /\ Len(x) = Len(z) /\ Len(y) = Len(z)
        /\ \A k \in 1 .. Len(z) : (x[k] = z[k] /\ y[k] = <<>>) \/ (x[k] = <<>> /\ y[k] = z[k])
    BY <1>3, <1>9, <2>2
  <2> QED BY <2>1, <2>3, SplitTokens
<1> QED BY <1>4, <1>11, <1>12 DEF x, y

LEMMA Regrouped ==
  ASSUME NEW a \in Seq(SomeMessage), NEW b \in Seq(SomeMessage), NEW c \in Seq(SomeMessage)
  PROVE  (a \o b) \o c = a \o (b \o c)
  BY ConcatAssociative

LEMMA LatestType ==
  ASSUME NEW l \in Seq(Event)
  PROVE  LatestTurn(l) \in Nat
<1>1. IsFiniteSet(DOMAIN l)
  <2>1. DOMAIN l = 1 .. Len(l) /\ Len(l) \in Nat
    OBVIOUS
  <2> QED BY <2>1, FS_Interval
<1>2. IsFiniteSet({i \in DOMAIN l : l[i].type = "turn.started"})
  BY <1>1, FS_Subset
<1> QED BY <1>2, FS_CardinalityType DEF LatestTurn

LEMMA RoomType ==
  ASSUME NEW budget \in Nat
  PROVE  Room(budget) \in Nat
<1>1. FixedTokens \in Nat /\ GoalTokens \in Nat
  BY SizesAssumption
<1> QED BY <1>1 DEF Room

(* A projection is the system prompt, a summary, what is kept of earlier   *)
(* turns, the goal, and what is kept of the latest turn.                   *)
LEMMA ProjectionParts ==
  ASSUME NEW l \in Seq(Event), LatestTurn(l) # 0, StepAt(l, Len(l)) # 0,
         NEW budget \in Nat, Projection(l, budget).ok
  PROVE  \E summary \in Earlier(LatestTurn(l)), prior \in Earlier(LatestTurn(l)),
            current \in Latest(LatestTurn(l)) :
           /\ Projection(l, budget).messages =
                <<Message("system", 0, FixedTokens, <<>>)>>
                \o (summary \o prior \o <<Goal(LatestTurn(l))>> \o current)
           /\ \/ summary = <<>>
              \/ Len(summary) = 1 /\ summary[1].role = "summary"
           /\ Tokens(summary) + Tokens(prior) + Tokens(current)
                <= Room(budget) + (IF summary = <<>> THEN 0 ELSE MarkerTokens)
<1> DEFINE latest == LatestTurn(l)
           fs == Matched(l)
           room == Room(budget)
           from == FirstKept(fs, room)
           kept == [k \in 1 .. Len(fs) - from + 1 |-> fs[from + k - 1]]
           of(current) == FlattenSeq([k \in DOMAIN kept |->
                            IF current = (kept[k].turn = latest) THEN Messages(kept[k]) ELSE <<>>])
           summary == Summary(l, from - 1, room - Cost(fs, from))
           prior == FlattenSeq(KeptOf(fs, from, latest, FALSE))
           current == FlattenSeq(KeptOf(fs, from, latest, TRUE))
<1>1. /\ latest \in Nat /\ room \in Nat /\ fs \in Seq(FragmentOf(latest))
      /\ Len(Digests(l)) \in Nat /\ Len(fs) <= Len(Digests(l))
  <2>1. latest \in Nat /\ room \in Nat
    BY LatestType, RoomType
  <2>2. Len(Digests(l)) = StepAt(l, Len(l)) /\ StepAt(l, Len(l)) \in Nat
    BY DigestsType, StepAtType
  <2> QED BY <2>1, <2>2, MatchedType
<1>2. fs \in Seq(Fragment)
  BY <1>1 DEF FragmentOf
<1>3. from \in 1 .. Len(fs) + 1 /\ Cost(fs, from) <= room
  BY <1>1, <1>2, FirstKeptFits
<1>4. Cost(fs, from) \in Nat
  BY <1>2, <1>3, CostType
<1>5. /\ prior \in Earlier(latest) /\ current \in Latest(latest)
      /\ Tokens(prior) + Tokens(current) = Cost(fs, from)
  BY <1>1, <1>3, KeptOfType
<1>6. \A b \in BOOLEAN : of(b) = FlattenSeq(KeptOf(fs, from, latest, b))
  <2> TAKE b \in BOOLEAN
  <2>1. [k \in DOMAIN kept |-> IF b = (kept[k].turn = latest) THEN Messages(kept[k]) ELSE <<>>]
          = KeptOf(fs, from, latest, b)
    BY DEF KeptOf
  <2> QED BY <2>1
<1>7. Projection(l, budget).messages =
        <<Message("system", 0, FixedTokens, <<>>)>>
        \o (summary \o prior \o <<Goal(latest)>> \o current)
  <2>1. Projection(l, budget) =
          IF TooLarge(l, fs, room) THEN [ok |-> FALSE, messages |-> <<>>, omitted |-> 0]
          ELSE [ok |-> TRUE, omitted |-> from - 1,
                messages |->
                  <<Message("system", 0, FixedTokens, <<>>)>>
                  \o Ordered(summary, of(FALSE), <<Goal(latest)>>, of(TRUE))]
    BY DEF Projection
  <2>2. of(FALSE) = prior /\ of(TRUE) = current
    BY <1>6
  <2> HIDE DEF of, prior, current, summary
  <2>3. Projection(l, budget).messages =
          <<Message("system", 0, FixedTokens, <<>>)>>
          \o Ordered(summary, of(FALSE), <<Goal(latest)>>, of(TRUE))
    <3> DEFINE ms == <<Message("system", 0, FixedTokens, <<>>)>>
                     \o Ordered(summary, of(FALSE), <<Goal(latest)>>, of(TRUE))
               p == Projection(l, budget)
               large == TooLarge(l, fs, room)
               left == from - 1
    <3>1. p = IF large THEN [ok |-> FALSE, messages |-> <<>>, omitted |-> 0]
              ELSE [ok |-> TRUE, omitted |-> left, messages |-> ms]
      BY <2>1
    <3>2. p.ok
      OBVIOUS
    <3> HIDE DEF p, ms, large, left
    <3>3. p.messages = ms
      BY <3>1, <3>2
    <3> QED BY <3>3 DEF p, ms
  <2> QED BY <2>2, <2>3 DEF Ordered
<1>8. /\ from - 1 \in 0 .. Len(Digests(l)) /\ room - Cost(fs, from) \in Nat
  BY <1>1, <1>3, <1>4
<1> HIDE DEF prior, current, kept
<1>9. /\ summary \in Earlier(latest)
      /\ summary = <<>> \/ (Len(summary) = 1 /\ summary[1].role = "summary")
      /\ Tokens(summary) \in Nat
      /\ Tokens(summary) <= IF summary = <<>> THEN 0 ELSE (room - Cost(fs, from)) + MarkerTokens
  <2>1. \/ summary = <<>>
        \/ \E m \in SomeMessage :
             /\ summary = <<m>> /\ m.role = "summary" /\ m.turn = 0
             /\ m.tokens <= (room - Cost(fs, from)) + MarkerTokens
    BY <1>8, SummaryFits
  <2> HIDE DEF summary
  <2>2. CASE summary = <<>>
    <3>1. <<>> \in Earlier(latest)
      BY TurnsJoin DEF Joins
    <3> QED BY <2>2, <3>1, TokensOfNone
  <2>3. CASE summary # <<>>
    <3>1. PICK m \in SomeMessage :
            /\ summary = <<m>> /\ m.role = "summary" /\ m.turn = 0
            /\ m.tokens <= (room - Cost(fs, from)) + MarkerTokens
      BY <2>1, <2>3
    <3>2. summary \in Seq(SomeMessage) /\ Tokens(summary) = m.tokens /\ m.tokens \in Nat
      BY <3>1, TokensOfOne DEF SomeMessage
    <3>3. Len(summary) = 1 /\ DOMAIN summary = {1} /\ summary[1] = m
      BY <3>1
    <3>4. CallsAnswered(summary)
      BY <3>1, <3>3 DEF CallsAnswered
    <3>5. summary \in Earlier(latest)
      BY <3>1, <3>2, <3>3, <3>4 DEF Earlier
    <3> QED BY <2>3, <3>1, <3>2, <3>3, <3>5
  <2> QED BY <2>2, <2>3
<1> HIDE DEF summary, from, room, fs
<1>10. Tokens(summary) + Tokens(prior) + Tokens(current)
         <= room + (IF summary = <<>> THEN 0 ELSE MarkerTokens)
  <2>1. prior \in Seq(SomeMessage) /\ current \in Seq(SomeMessage)
    BY <1>5 DEF Earlier, Latest
  <2>2. Tokens(prior) \in Nat /\ Tokens(current) \in Nat
    BY <2>1, TokensOfTwo
  <2>3. MarkerTokens \in Nat
    BY SizesAssumption
  <2> DEFINE ts == Tokens(summary)
             tp == Tokens(prior)
             tc == Tokens(current)
             c == Cost(fs, from)
  <2>4. /\ ts \in Nat /\ tp \in Nat /\ tc \in Nat /\ c \in Nat /\ room \in Nat /\ c <= room /\ tp + tc = c
        /\ ts <= IF summary = <<>> THEN 0 ELSE (room - c) + MarkerTokens
    BY <1>1, <1>3, <1>4, <1>5, <1>9, <2>2
  <2> HIDE DEF ts, tp, tc, c
  <2>5. ts + tp + tc <= room + (IF summary = <<>> THEN 0 ELSE MarkerTokens)
    <3>1. CASE summary = <<>>
      BY <2>4, <3>1
    <3>2. CASE summary # <<>>
      BY <2>3, <2>4, <3>2
    <3> QED BY <3>1, <3>2
  <2> QED BY <2>5 DEF ts, tp, tc
<1> QED BY <1>5, <1>7, <1>9, <1>10 DEF latest, room

(* Whatever is trimmed: each result has its call and each call its result, *)
(* the goal comes once and after all that is earlier, and the size is kept.*)
LEMMA ProjectionSound ==
  ASSUME NEW l \in Seq(Event), LatestTurn(l) # 0, StepAt(l, Len(l)) # 0,
         NEW budget \in Nat, Projection(l, budget).ok
  PROVE  /\ CallsAnswered(Projection(l, budget).messages)
         /\ GoalOnce(Projection(l, budget).messages, LatestTurn(l))
         /\ Tokens(Projection(l, budget).messages)
              <= FixedTokens + GoalTokens + Room(budget)
                 + (IF \E i \in DOMAIN Projection(l, budget).messages :
                         Projection(l, budget).messages[i].role = "summary"
                    THEN MarkerTokens ELSE 0)
<1> DEFINE latest == LatestTurn(l)
           ms == Projection(l, budget).messages
           x == Message("system", 0, FixedTokens, <<>>)
           y == Goal(latest)
           system == <<x>>
           goal == <<y>>
           room == Room(budget)
<1>1. PICK summary \in Earlier(latest), prior \in Earlier(latest), current \in Latest(latest) :
        /\ ms = system \o (summary \o prior \o goal \o current)
        /\ \/ summary = <<>>
           \/ Len(summary) = 1 /\ summary[1].role = "summary"
        /\ Tokens(summary) + Tokens(prior) + Tokens(current)
             <= room + (IF summary = <<>> THEN 0 ELSE MarkerTokens)
  BY ProjectionParts
<1>2. /\ FixedTokens \in Nat /\ GoalTokens \in Nat /\ MarkerTokens \in Nat
      /\ latest \in Nat /\ latest # 0 /\ room \in Nat
  BY SizesAssumption, LatestType, RoomType
<1>3. x \in SomeMessage /\ x.role = "system" /\ x.turn = 0 /\ x.tokens = FixedTokens
  BY <1>2 DEF Message, SomeMessage, Roles
<1>4. y \in SomeMessage /\ y.role = "user" /\ y.turn = latest /\ y.tokens = GoalTokens
  BY <1>2 DEF Goal, Message, SomeMessage, Roles
<1> HIDE DEF ms, x, y, room, latest
<1>5. /\ system \in Seq(SomeMessage) /\ goal \in Seq(SomeMessage)
      /\ Tokens(system) = FixedTokens /\ Tokens(goal) = GoalTokens
  BY <1>3, <1>4, TokensOfOne
<1>6. /\ Len(system) = 1 /\ DOMAIN system = {1} /\ system[1] = x
      /\ Len(goal) = 1 /\ DOMAIN goal = {1} /\ goal[1] = y
  OBVIOUS
<1> HIDE DEF system, goal
<1>7. CallsAnswered(system) /\ CallsAnswered(goal)
  BY <1>3, <1>4, <1>6 DEF CallsAnswered
<1>8. system \in Earlier(latest)
  BY <1>2, <1>3, <1>5, <1>6, <1>7 DEF Earlier
<1> DEFINE b == summary \o prior
           before == system \o b
           upto == before \o goal
<1>9. b \in Earlier(latest) /\ before \in Earlier(latest)
  <2>1. b \in Earlier(latest)
    BY <1>1, TurnsJoin DEF Joins
  <2> HIDE DEF b
  <2> QED BY <1>8, <2>1, TurnsJoin DEF Joins
<1>10. /\ summary \in Seq(SomeMessage) /\ prior \in Seq(SomeMessage) /\ b \in Seq(SomeMessage)
       /\ before \in Seq(SomeMessage) /\ CallsAnswered(before) /\ \A i \in DOMAIN before : before[i].turn # latest
       /\ current \in Seq(SomeMessage) /\ CallsAnswered(current)
       /\ \A i \in DOMAIN current : current[i].turn = latest /\ current[i].role \in {"assistant", "tool"}
  BY <1>1, <1>9 DEF Earlier, Latest
<1>11. upto \in Seq(SomeMessage) /\ CallsAnswered(upto)
  <2> HIDE DEF before
  <2>1. upto \in Seq(SomeMessage)
    BY <1>5, <1>10
  <2> QED BY <1>5, <1>7, <1>10, <2>1, JoinedAnswered
<1>12. ms = upto \o current
  <2>1. b \o goal \in Seq(SomeMessage)
    BY <1>5, <1>10
  <2>2. system \o ((b \o goal) \o current) = (system \o (b \o goal)) \o current
    <3> DEFINE c == b \o goal
    <3> HIDE DEF c
    <3>1. c \in Seq(SomeMessage)
      BY <2>1 DEF c
    <3>2. (system \o c) \o current = system \o (c \o current)
      <4>1. system \in Seq(SomeMessage) /\ current \in Seq(SomeMessage)
        BY <1>5, <1>10
      <4> QED BY <3>1, <4>1, Regrouped, Zenon
    <3> QED BY <3>2 DEF c
  <2>3. system \o (b \o goal) = (system \o b) \o goal
    <3> HIDE DEF b
    <3>1. system \in Seq(SomeMessage) /\ b \in Seq(SomeMessage) /\ goal \in Seq(SomeMessage)
      BY <1>5, <1>10
    <3>2. (system \o b) \o goal = system \o (b \o goal)
      BY <3>1, Regrouped, Zenon
    <3> QED BY <3>2
  <2> HIDE DEF b
  <2>4. ms = system \o ((b \o goal) \o current)
    BY <1>1 DEF b
  <2> QED BY <2>2, <2>3, <2>4
<1>13. CallsAnswered(ms)
  <2> HIDE DEF upto
  <2> QED BY <1>10, <1>11, <1>12, JoinedAnswered
<1>14. GoalOnce(ms, latest)
  <2> DEFINE n == Len(before)
             m == Len(current)
  <2> HIDE DEF before
  <2>1. /\ n \in Nat /\ m \in Nat /\ DOMAIN before = 1 .. n /\ DOMAIN current = 1 .. m
        /\ Len(upto) = n + 1 /\ upto[n + 1] = y /\ \A i \in 1 .. n : upto[i] = before[i]
    <3>1. /\ Len(before \o goal) = Len(before) + Len(goal)
          /\ \A i \in 1 .. Len(before) + Len(goal) :
               (before \o goal)[i] = IF i <= Len(before) THEN before[i] ELSE goal[i - Len(before)]
      BY <1>5, <1>10, ConcatProperties
    <3>2. n \in Nat /\ m \in Nat /\ DOMAIN before = 1 .. n /\ DOMAIN current = 1 .. m
      BY <1>10
    <3> HIDE DEF n
    <3>3. Len(upto) = n + 1 /\ \A i \in 1 .. n + 1 : upto[i] = IF i <= n THEN before[i] ELSE goal[i - n]
      BY <1>6, <3>1 DEF n
    <3> HIDE DEF upto
    <3>4. n + 1 \in 1 .. n + 1 /\ ~(n + 1 <= n) /\ (n + 1) - n = 1
      BY <3>2
    <3>5. upto[n + 1] = y
      BY <1>6, <3>3, <3>4
    <3> QED BY <3>2, <3>3, <3>5
  <2> HIDE DEF upto, n, m
  <2>2. /\ DOMAIN ms = 1 .. n + 1 + m
        /\ \A i \in 1 .. n + 1 + m : ms[i] = IF i <= n + 1 THEN upto[i] ELSE current[i - (n + 1)]
    <3>1. /\ upto \o current \in Seq(SomeMessage) /\ Len(upto \o current) = Len(upto) + Len(current)
          /\ \A i \in 1 .. Len(upto) + Len(current) :
               (upto \o current)[i] = IF i <= Len(upto) THEN upto[i] ELSE current[i - Len(upto)]
      BY <1>10, <1>11, ConcatProperties
    <3>2. Len(upto) = n + 1 /\ Len(current) = m
      BY <2>1 DEF m
    <3>3. ms \in Seq(SomeMessage) /\ Len(ms) = n + 1 + m
      BY <1>12, <3>1, <3>2
    <3>4. DOMAIN ms = 1 .. n + 1 + m
      BY <3>3
    <3> QED BY <1>12, <3>1, <3>2, <3>4
  <2>3. n + 1 \in DOMAIN ms /\ ms[n + 1] = y
    BY <2>1, <2>2
  <2>4. ASSUME NEW i \in DOMAIN ms, i > n + 1
        PROVE  ms[i].turn = latest /\ ms[i].role \in {"assistant", "tool"}
    <3>1. i - (n + 1) \in DOMAIN current /\ ms[i] = current[i - (n + 1)]
      BY <2>1, <2>2, <2>4
    <3> QED BY <1>10, <3>1
  <2>5. ASSUME NEW i \in DOMAIN ms, ~(i > n + 1), i # n + 1 PROVE ms[i].turn # latest
    <3>1. i \in DOMAIN before /\ ms[i] = before[i]
      BY <2>1, <2>2, <2>5
    <3> QED BY <1>10, <3>1
  <2> DEFINE g == n + 1
  <2>6. /\ g \in DOMAIN ms /\ ms[g].role = "user" /\ ms[g].turn = latest
        /\ \A i \in DOMAIN ms \ {g} :
             IF i > g THEN ms[i].turn = latest /\ ms[i].role \in {"assistant", "tool"}
             ELSE ms[i].turn # latest
    BY <1>4, <2>3, <2>4, <2>5
  <2> HIDE DEF g
  <2> QED BY <2>6 DEF GoalOnce
<1>15. Tokens(ms) = FixedTokens + (Tokens(summary) + Tokens(prior)) + GoalTokens + Tokens(current)
  <2>1. Tokens(b) = Tokens(summary) + Tokens(prior)
    BY <1>10, TokensOfTwo
  <2> HIDE DEF b
  <2>2. Tokens(before) = FixedTokens + Tokens(b)
    BY <1>5, <1>10, TokensOfTwo
  <2> HIDE DEF before
  <2>3. Tokens(upto) = Tokens(before) + GoalTokens
    BY <1>5, <1>10, TokensOfTwo
  <2> HIDE DEF upto
  <2>4. Tokens(ms) = Tokens(upto) + Tokens(current)
    BY <1>10, <1>11, <1>12, TokensOfTwo
  <2> QED BY <2>1, <2>2, <2>3, <2>4
<1>16. summary # <<>> => \E i \in DOMAIN ms : ms[i].role = "summary"
  <2> SUFFICES ASSUME summary # <<>> PROVE \E i \in DOMAIN ms : ms[i].role = "summary"
    OBVIOUS
  <2>1. Len(summary) = 1 /\ summary[1].role = "summary"
    BY <1>1
  <2> DEFINE c == prior \o goal \o current
             w == summary \o c
  <2>2. c \in Seq(SomeMessage)
    BY <1>5, <1>10
  <2>3. ms = system \o w
    <3>1. prior \o goal \in Seq(SomeMessage)
      BY <1>5, <1>10
    <3>2. (summary \o prior) \o goal = summary \o (prior \o goal)
      <4>1. summary \in Seq(SomeMessage) /\ prior \in Seq(SomeMessage) /\ goal \in Seq(SomeMessage)
        BY <1>5, <1>10
      <4> QED BY <4>1, Regrouped, Zenon
    <3> DEFINE d == prior \o goal
    <3> HIDE DEF d
    <3>3. (summary \o d) \o current = summary \o (d \o current)
      <4>1. d \in Seq(SomeMessage)
        BY <3>1 DEF d
      <4>2. summary \in Seq(SomeMessage) /\ current \in Seq(SomeMessage)
        BY <1>10
      <4> QED BY <4>1, <4>2, Regrouped, Zenon
    <3>4. ms = system \o ((summary \o prior \o goal) \o current)
      BY <1>1
    <3> QED BY <3>2, <3>3, <3>4 DEF d
  <2> HIDE DEF c
  <2>4. w \in Seq(SomeMessage) /\ Len(w) >= 1 /\ w[1] = summary[1]
    BY <1>10, <2>1, <2>2
  <2> HIDE DEF w
  <2>5. 2 \in DOMAIN ms /\ ms[2] = w[1]
    <3>1. /\ system \o w \in Seq(SomeMessage) /\ Len(system \o w) = Len(system) + Len(w)
          /\ \A i \in 1 .. Len(system) + Len(w) :
               (system \o w)[i] = IF i <= Len(system) THEN system[i] ELSE w[i - Len(system)]
      <4>1. system \in Seq(SomeMessage)
        BY <1>5
      <4> QED BY <2>4, <4>1, ConcatProperties
    <3> DEFINE k == Len(w)
    <3>2. k \in Nat /\ k >= 1 /\ Len(system) = 1
      BY <1>6, <2>4
    <3>3. ms \in Seq(SomeMessage) /\ Len(ms) = 1 + k
          /\ \A i \in 1 .. 1 + k : ms[i] = IF i <= 1 THEN system[i] ELSE w[i - 1]
      BY <2>3, <3>1, <3>2
    <3> HIDE DEF k
    <3>4. 2 \in 1 .. 1 + k /\ DOMAIN ms = 1 .. 1 + k
      BY <3>2, <3>3
    <3> QED BY <3>3, <3>4
  <2> QED BY <2>1, <2>4, <2>5
<1>17. Tokens(ms) <= FixedTokens + GoalTokens + room
                     + (IF \E i \in DOMAIN ms : ms[i].role = "summary" THEN MarkerTokens ELSE 0)
  <2> DEFINE cut == \E i \in DOMAIN ms : ms[i].role = "summary"
             ts == Tokens(summary)
             tp == Tokens(prior)
             tc == Tokens(current)
             tm == Tokens(ms)
  <2>1. ts \in Nat /\ tp \in Nat /\ tc \in Nat
    BY <1>10, TokensOfTwo
  <2>2. /\ tm = FixedTokens + (ts + tp) + GoalTokens + tc
        /\ ts + tp + tc <= room + (IF summary = <<>> THEN 0 ELSE MarkerTokens)
        /\ summary # <<>> => cut
    BY <1>1, <1>15, <1>16
  <2> HIDE DEF cut, ts, tp, tc, tm
  <2>3. tm <= FixedTokens + GoalTokens + room + (IF cut THEN MarkerTokens ELSE 0)
    <3>1. CASE summary = <<>>
      BY <1>2, <2>1, <2>2, <3>1
    <3>2. CASE summary # <<>>
      BY <1>2, <2>1, <2>2, <3>2
    <3> QED BY <3>1, <3>2
  <2> QED BY <2>3 DEF cut, tm
<1> QED BY <1>13, <1>14, <1>17 DEF ms, latest, room

-----------------------------------------------------------------------------
(* The context of a step                                                   *)

LEMMA OnFileStays ==
  ASSUME TypeInv, [Next]_vars, NEW type, OnFile(type)
  PROVE  OnFile(type)'
<1>1. log \in Seq(Event)
  BY DEF TypeInv, TypeOK
<1>2. PICK i \in DOMAIN log : log[i].type = type
  BY DEF OnFile
<1>3. log' = log \/ \E r : log' = Append(log, r)
  BY StoreStep DEF Persist, AppendFails, Refuse, Lose, Blur
<1>4. CASE log' = log
  BY <1>2, <1>4 DEF OnFile
<1>5. ASSUME NEW r, log' = Append(log, r) PROVE OnFile(type)'
  <2>1. i \in DOMAIN log' /\ log'[i] = log[i]
    BY <1>1, <1>5
  <2> QED BY <1>2, <2>1 DEF OnFile
<1> QED BY <1>3, <1>4, <1>5

LEMMA EmittedIsOnFile ==
  ASSUME TypeInv, Emit, NEW type, script = <<Note(type)>>
  PROVE  OnFile(type)' /\ script' = <<>>
<1>1. /\ log \in Seq(Event) /\ log' = Append(log, CurrentRecord) /\ script' = Tail(script)
  BY DEF Emit, Persist, TypeInv, TypeOK
<1>2. CurrentRecord.type = type
  BY DEF CurrentRecord, Record, Note
<1>3. Len(log) + 1 \in DOMAIN log' /\ log'[Len(log) + 1] = CurrentRecord
  BY <1>1
<1>4. script' = <<>>
  BY <1>1
<1> QED BY <1>2, <1>3, <1>4 DEF OnFile

LEMMA BegunInvStep == TypeInv /\ BegunInv /\ [Next]_vars => BegunInv'
<1> SUFFICES ASSUME TypeInv, BegunInv, [Next]_vars
             PROVE  BegunInv'
  OBVIOUS
<1> USE DEF At, Continue
<1>1. /\ OnFile("turn.started") => OnFile("turn.started")'
      /\ OnFile("step.started") => OnFile("step.started")'
  BY OnFileStays
<1>2. CASE Emit
  <2>1. pc' = pc
    BY <1>2 DEF Emit
  <2>2. script = <<Note("turn.started")>> => OnFile("turn.started")'
    BY <1>2, EmittedIsOnFile
  <2>3. script = <<Note("step.started")>> => OnFile("step.started")'
    BY <1>2, EmittedIsOnFile
  <2> QED BY <1>1, <2>1, <2>2, <2>3 DEF BegunInv
<1>3. CASE StepTop
  BY <1>1, <1>3 DEF StepTop, BegunInv, AtWork
<1>4. CASE EndOfStep \/ DispatchTool \/ BuildContext
  BY <1>1, <1>4 DEF EndOfStep, DispatchTool, BuildContext, BegunInv, AtWork
<1>5. CASE ModelReplies
  BY <1>1, <1>5 DEF ModelReplies, ReplyBroken, ReplyInvalid, ReplyFinal, ReplyWithTools, BegunInv, AtWork
<1>6. CASE EvaluateCall
  BY <1>1, <1>6 DEF EvaluateCall, RejectInput, RepeatedTooOften, Judged, BegunInv, AtWork
<1>7. CASE AskApproval \/ Answer \/ ApprovalAborted \/ StartTool \/ Execute \/ ToolReturns
  BY <1>1, <1>7 DEF AskApproval, Answer, Grant, ApprovalAborted, StartTool, Execute, ToolReturns,
     CancelCall, BegunInv, AtWork
<1>8. CASE ModelFailed \/ EmitFails \/ ToolThrowsStorage \/ EndTurn \/ RepairRead \/ RepairGivesUp
           \/ RepairCall \/ RepairRefresh \/ RepairTurn \/ Resume \/ ResumeStep \/ Crash
  BY <1>8 DEF ModelFailed, EmitFails, ToolThrowsStorage, EndTurn, RepairRead, RepairGivesUp,
     RepairCall, RepairRefresh, RepairTurn, Resume, ResumeStep, ResumeAppend, Crash, Return,
     BegunInv, AtWork
<1>9. CASE BeginTurn
  BY <1>9 DEF BeginTurn, BegunInv, AtWork
<1>10. CASE Abort \/ WriteCheck \/ WriteRead \/ WriteAppend \/ Done \/ UNCHANGED vars
  BY <1>1, <1>10 DEF Abort, WriteCheck, WriteRead, WriteAppend, Done, vars, BegunInv
<1> QED BY <1>2, <1>3, <1>4, <1>5, <1>6, <1>7, <1>8, <1>9, <1>10 DEF Next, LoopStep

(* What the loop sends to the model, whatever the log and the budget: each *)
(* tool result follows its call and each call has its result, the goal of  *)
(* the turn is there once, after what is of earlier turns, and nothing but *)
(* the marker of a cut summary exceeds the budget.                         *)
THEOREM ContextSound == Spec => []ContextIsSound
<1>1. Init => BegunInv
  BY DEF Init, BegunInv, AtWork
<1>2. ASSUME TypeInv, BegunInv PROVE ContextIsSound
  <2> SUFFICES ASSUME Building, NEW b \in Budgets, Projection(log, b).ok
               PROVE  WellFormed(Projection(log, b).messages) /\ Fits(Projection(log, b).messages, b)
    BY DEF ContextIsSound
  <2> DEFINE ms == Projection(log, b).messages
             latest == LatestTurn(log)
  <2>1. log \in Seq(Event) /\ b \in Nat
    BY <1>2, BudgetsAssumption DEF TypeInv, TypeOK
  <2>2. OnFile("turn.started") /\ OnFile("step.started")
    <3>1. pc = "context" /\ script # <<Note("step.started")>>
      BY DEF Building, At
    <3> QED BY <1>2, <3>1 DEF BegunInv, AtWork
  <2>3. IsFiniteSet(DOMAIN log) /\ DOMAIN log = 1 .. Len(log)
    <3>1. Len(log) \in Nat /\ DOMAIN log = 1 .. Len(log)
      BY <2>1
    <3> QED BY <3>1, FS_Interval
  <2>4. ASSUME NEW type, OnFile(type) PROVE Cardinality({i \in DOMAIN log : log[i].type = type}) # 0
    <3>1. IsFiniteSet({i \in DOMAIN log : log[i].type = type})
      BY <2>3, FS_Subset
    <3>2. {i \in DOMAIN log : log[i].type = type} # {}
      BY <2>4 DEF OnFile
    <3> QED BY <3>1, <3>2, FS_EmptySet
  <2>5. latest # 0
    BY <2>2, <2>4 DEF LatestTurn
  <2>6. StepAt(log, Len(log)) # 0
    BY <2>2, <2>3, <2>4 DEF StepAt
  <2>7. /\ CallsAnswered(ms) /\ GoalOnce(ms, latest)
        /\ Tokens(ms) <= FixedTokens + GoalTokens + Room(b)
                         + (IF \E i \in DOMAIN ms : ms[i].role = "summary" THEN MarkerTokens ELSE 0)
    BY <2>1, <2>5, <2>6, ProjectionSound
  <2>8. FixedTokens + GoalTokens + Room(b) = RoomOf(b)
    <3>1. FixedTokens \in Nat /\ GoalTokens \in Nat
      BY SizesAssumption
    <3> QED BY <2>1, <3>1 DEF Room, RoomOf
  <2> HIDE DEF ms, latest
  <2>9. WellFormed(ms) /\ Fits(ms, b)
    BY <2>7, <2>8 DEF WellFormed, Fits, latest
  <2> QED BY <2>9 DEF ms
<1> QED BY TypeInvInit, TypeInvStep, BegunInvStep, <1>1, <1>2, PTL DEF Spec

-----------------------------------------------------------------------------
(* What the readers of the log see.  The greatest of a set of numbers.     *)

LEMMA GreatestOf ==
  ASSUME NEW n \in Nat, NEW S \in SUBSET (1 .. n), S # {}
  PROVE  Max(S) \in S /\ \A k \in S : k <= Max(S)
<1> DEFINE G == {m \in Nat : \A T \in SUBSET (1 .. m) : T # {} => \E x \in T : \A y \in T : x >= y}
<1>1. 0 \in G
  <2>1. \A T \in SUBSET (1 .. 0) : T = {}
    OBVIOUS
  <2> QED BY <2>1
<1>2. ASSUME NEW m \in G PROVE m + 1 \in G
  <2>1. ASSUME NEW T \in SUBSET (1 .. m + 1), T # {} PROVE \E x \in T : \A y \in T : x >= y
    <3>1. CASE m + 1 \in T
      <4>1. \A y \in T : m + 1 >= y
        OBVIOUS
      <4> QED BY <3>1, <4>1
    <3>2. CASE m + 1 \notin T
      <4>1. T \in SUBSET (1 .. m)
        BY <3>2
      <4> QED BY <2>1, <4>1
    <3> QED BY <3>1, <3>2
  <2> QED BY <2>1
<1>3. G = Nat
  <2> G \in SUBSET Nat
    OBVIOUS
  <2> HIDE DEF G
  <2> QED BY <1>1, <1>2, Counting
<1>4. \E x \in S : \A y \in S : x >= y
  BY <1>3
<1>5. Max(S) \in S /\ \A y \in S : Max(S) >= y
  BY <1>4 DEF Max
<1> QED BY <1>5

LEMMA GreatestIs ==
  ASSUME NEW n \in Nat, NEW S \in SUBSET (1 .. n), NEW m \in S, \A k \in S : k <= m
  PROVE  Max(S) = m
<1> DEFINE x == Max(S)
<1>1. x \in S /\ \A k \in S : k <= x
  BY GreatestOf
<1> HIDE DEF x
<1>2. x <= m /\ m <= x
  BY <1>1
<1>3. S \subseteq Nat
  OBVIOUS
<1>4. x \in Nat /\ m \in Nat
  BY <1>1, <1>3
<1>5. x = m
  BY <1>2, <1>4
<1> QED BY <1>5 DEF x

LEMMA LeastIs ==
  ASSUME NEW n \in Nat, NEW S \in SUBSET (1 .. n), S # {}
  PROVE  Min(S) \in S /\ \A k \in S : Min(S) <= k
<1> DEFINE T == {n + 1 - k : k \in S}
<1>0. \A k \in S : k \in Nat /\ 1 <= k /\ k <= n
  OBVIOUS
<1>1. T \in SUBSET (1 .. n) /\ T # {}
  <2>1. ASSUME NEW k \in S PROVE n + 1 - k \in 1 .. n
    BY <1>0
  <2> QED BY <2>1
<1>2. Max(T) \in T /\ \A k \in T : k <= Max(T)
  BY <1>1, GreatestOf
<1>3. PICK m \in S : Max(T) = n + 1 - m
  BY <1>2
<1>4. ASSUME NEW k \in S PROVE m <= k
  <2>1. n + 1 - k \in T
    OBVIOUS
  <2>2. n + 1 - k <= n + 1 - m
    BY <1>2, <1>3, <2>1
  <2>3. k \in Nat /\ m \in Nat
    BY <1>0
  <2> QED BY <2>2, <2>3
<1> HIDE DEF T
<1>5. \E x \in S : \A y \in S : x =< y
  BY <1>4
<1> QED BY <1>5 DEF Min

-----------------------------------------------------------------------------
(* The last event of a log, and the trace before it                        *)

DraftOf(l, id) ==
  LET mine == {p \in AllPatches(l) : p.id = id}
      touches == {p.at : p \in mine}
  IN  [id |-> id, seq |-> l[Stamp(touches)].seq,
       status |-> (CHOOSE p \in mine : p.at = Max(touches)).status]

Drafted(l) == {p.id : p \in AllPatches(l)}

LEMMA DraftsAre ==
  ASSUME NEW l
  PROVE  Drafts(l) = {DraftOf(l, id) : id \in Drafted(l)}
<1>1. Drafts(l) = {DraftOf(l, id) : id \in {p.id : p \in AllPatches(l)}}
  BY DEF Drafts, DraftOf
<1> QED BY <1>1 DEF Drafted

LEMMA PatchesAre ==
  ASSUME NEW l, NEW id
  PROVE  /\ id \in Drafted(l) <=> \E i \in DOMAIN l : \E p \in Patches(l, i) : p.id = id
         /\ \A p \in AllPatches(l) :
              p.at \in DOMAIN l /\ \E q \in Patches(l, p.at) : p.id = q.id /\ p.status = q.status
         /\ \A i \in DOMAIN l : \A p \in Patches(l, i) :
              [at |-> i, id |-> p.id, status |-> p.status] \in AllPatches(l)
<1>1. ASSUME NEW p \in AllPatches(l)
      PROVE  p.at \in DOMAIN l /\ \E q \in Patches(l, p.at) : p.id = q.id /\ p.status = q.status
  <2>1. PICK i \in DOMAIN l : p \in {[at |-> i, id |-> q.id, status |-> q.status] : q \in Patches(l, i)}
    BY DEF AllPatches
  <2>2. PICK q \in Patches(l, i) : p = [at |-> i, id |-> q.id, status |-> q.status]
    BY <2>1
  <2> QED BY <2>2
<1>2. ASSUME NEW i \in DOMAIN l, NEW p \in Patches(l, i)
      PROVE  [at |-> i, id |-> p.id, status |-> p.status] \in AllPatches(l)
  BY DEF AllPatches
<1>3. ASSUME id \in Drafted(l)
      PROVE  \E i \in DOMAIN l : \E p \in Patches(l, i) : p.id = id
  <2>1. PICK p \in AllPatches(l) : p.id = id
    BY <1>3 DEF Drafted
  <2> QED BY <1>1, <2>1
<1>4. ASSUME NEW i \in DOMAIN l, NEW p \in Patches(l, i), p.id = id
      PROVE  id \in Drafted(l)
  <2> DEFINE q == [at |-> i, id |-> p.id, status |-> p.status]
  <2>1. q \in AllPatches(l) /\ q.id = id
    BY <1>2, <1>4
  <2> QED BY <2>1 DEF Drafted
<1> QED BY <1>1, <1>2, <1>3, <1>4

(* A log without its last event.                                           *)
LEMMA FrontOf ==
  ASSUME NEW l \in Seq(Event), Len(l) > 1
  PROVE  /\ Front(l) \in Seq(Event) /\ Front(l) # <<>>
         /\ Len(Front(l)) = Len(l) - 1 /\ Len(l) - 1 \in Nat
         /\ DOMAIN Front(l) = 1 .. Len(l) - 1
         /\ DOMAIN l = 1 .. Len(l) /\ Len(l) \in Nat
         /\ \A i \in 1 .. Len(l) - 1 : Front(l)[i] = l[i]
         /\ DOMAIN l = DOMAIN Front(l) \cup {Len(l)}
<1>1. Len(l) \in Nat /\ 1 <= 1 /\ Len(l) - 1 \in Nat
  OBVIOUS
<1>2. Front(l) = SubSeq(l, 1, Len(l) - 1)
  BY DEF Front
<1>3. /\ Front(l) \in Seq(Event) /\ Len(Front(l)) = Len(l) - 1
      /\ \A i \in 1 .. Len(l) - 1 : Front(l)[i] = l[i]
  BY <1>1, <1>2, SubSeqProperties
<1> QED BY <1>1, <1>3

LEMMA NumbersRise ==
  ASSUME NEW l \in Seq(Event), Readable(l), NEW i \in 1 .. Len(l) - 1
  PROVE  l[i].seq < l[Len(l)].seq
<1> DEFINE G == {m \in Nat : m + i <= Len(l) => (m = 0 \/ l[i].seq < l[m + i].seq)}
<1>0. Len(l) \in Nat /\ \A k \in 1 .. Len(l) : l[k].seq \in Nat
  BY EventFields
<1>1. 0 \in G
  OBVIOUS
<1>2. ASSUME NEW m \in G PROVE m + 1 \in G
  <2>1. SUFFICES ASSUME m + 1 + i <= Len(l) PROVE l[i].seq < l[m + 1 + i].seq
    OBVIOUS
  <2>2. l[(m + 1 + i) - 1].seq < l[m + 1 + i].seq
    BY <1>0, <2>1 DEF Readable
  <2>3. (m + 1 + i) - 1 = m + i /\ m + i \in 1 .. Len(l) /\ m + 1 + i \in 1 .. Len(l)
    BY <1>0, <2>1
  <2>4. l[m + i].seq < l[m + 1 + i].seq
    BY <2>2, <2>3
  <2>5. m = 0 \/ l[i].seq < l[m + i].seq
    BY <2>3, <2>1
  <2>6. m = 0 => m + i = i
    OBVIOUS
  <2> QED BY <1>0, <2>3, <2>4, <2>5, <2>6
<1>3. G = Nat
  <2> G \in SUBSET Nat
    OBVIOUS
  <2> HIDE DEF G
  <2> QED BY <1>1, <1>2, Counting
<1> DEFINE d == Len(l) - i
<1>4. d \in Nat /\ d # 0 /\ d + i = Len(l)
  BY <1>0
<1> HIDE DEF d
<1>5. d \in G
  BY <1>3, <1>4
<1>6. l[i].seq < l[d + i].seq
  BY <1>4, <1>5
<1> QED BY <1>4, <1>6

Deciding == {"approval.requested", "tool.authorized", "tool.denied"}

(* What an event changes, by its type.                                     *)
LEMMA PatchesByType ==
  ASSUME NEW l, NEW i, NEW e, e = l[i]
  PROVE  LET these == Patches(l, i)
             ofStep(kind) == Id(kind, e.turn, StepOf(l, i), NoCall)
         IN
         /\ e.type = "turn.started" => these = {Patch(Id("user", e.turn, 0, NoCall), "completed")}
         /\ e.type = "context.projected" => these = {Patch(ofStep("context"), "completed")}
         /\ e.type \in {"model.started", "model.text", "model.completed", "model.failed"} =>
              these = {Patch(ofStep("agent"), ModelStatus(e.type))}
         /\ e.type \in {"tool.requested", "tool.started"} =>
              these = {Patch(CallId("tool", e.call), "running")}
         /\ e.type = "approval.requested" =>
              these = {Patch(CallId("approval", e.call), "pending"), Patch(CallId("policy", e.call), "ask")}
         /\ e.type \in {"approval.granted", "approval.denied"} =>
              these = {Patch(CallId("approval", e.call), ApprovalStatus(e.type))}
         /\ e.type = "tool.authorized" => these = {Patch(CallId("policy", e.call), AuthorizedBy(l, i))}
         /\ e.type \in ToolTerminalTypes => these = TerminalPatches(e)
         /\ e.type \in TurnTerminalTypes => these = {Patch(Id("turn", e.turn, 0, NoCall), e.type)}
         /\ e.type \notin {"turn.started", "context.projected", "model.started", "model.text",
                           "model.completed", "model.failed", "tool.requested", "tool.started"}
                          \cup Spoken \cup ToolTerminalTypes \cup TurnTerminalTypes => these = {}
<1>1. e.type \in ToolTerminalTypes \cup TurnTerminalTypes \cup Spoken =>
        e.type \notin {"turn.started", "context.projected", "model.started", "model.text",
                       "model.completed", "model.failed", "tool.requested"}
  BY DEF ToolTerminalTypes, TurnTerminalTypes, Spoken
<1>2. /\ ToolTerminalTypes \cap Spoken = {} /\ TurnTerminalTypes \cap Spoken = {}
      /\ TurnTerminalTypes \cap ToolTerminalTypes = {}
  BY DEF ToolTerminalTypes, TurnTerminalTypes, Spoken
<1> QED BY <1>1, <1>2 DEF Patches, Spoken

(* Which events touch which record.                                        *)
LEMMA TouchedBy ==
  ASSUME NEW l, NEW i, NEW c, NEW t
  PROVE  LET e == l[i]
             touches(id) == \E p \in Patches(l, i) : p.id = id
         IN
         /\ touches(CallId("policy", c)) <=> e.type \in Deciding /\ e.call = c
         /\ touches(CallId("tool", c)) <=>
              e.type \in {"tool.requested", "tool.started"} \cup ToolTerminalTypes /\ e.call = c
         /\ touches(CallId("approval", c)) <=>
              e.type \in {"approval.requested", "approval.granted", "approval.denied"} /\ e.call = c
         /\ touches(Id("user", t, 0, NoCall)) <=> e.type = "turn.started" /\ e.turn = t
         /\ touches(Id("turn", t, 0, NoCall)) <=> e.type \in TurnTerminalTypes /\ e.turn = t
<1> DEFINE e == l[i]
           these == Patches(l, i)
<1>1. \A k, u, s, d, m, v, r, b : Id(k, u, s, d) = Id(m, v, r, b) <=> k = m /\ u = v /\ s = r /\ d = b
  BY DEF Id
<1>2. \A p, q : Patch(p, q).id = p
  BY DEF Patch
<1>3. /\ \A k, d : CallId(k, d) = Id(k, 0, 0, d)
      /\ \A type \in ToolTerminalTypes \cup TurnTerminalTypes :
           type \notin {"turn.started", "tool.requested"} \cup Spoken
      /\ ToolTerminalTypes \cap TurnTerminalTypes = {}
      /\ ToolTerminalTypes \cap Deciding = {"tool.denied"} /\ TurnTerminalTypes \cap Deciding = {}
  BY DEF CallId, ToolTerminalTypes, TurnTerminalTypes, Spoken, Deciding
<1>4. CASE e.type \in ToolTerminalTypes
  <2>1. these = TerminalPatches(e)
    BY <1>4, PatchesByType
  <2>2. \A id : (\E p \in these : p.id = id) <=>
                  id = CallId("tool", e.call) \/ (e.type = "tool.denied" /\ id = CallId("policy", e.call))
    BY <1>2, <2>1 DEF TerminalPatches
  <2> HIDE DEF these, e
  <2> QED BY <1>1, <1>3, <1>4, <2>2 DEF e, these, Spoken
<1>5. CASE e.type \in TurnTerminalTypes
  BY <1>1, <1>2, <1>3, <1>5, PatchesByType DEF Spoken
<1>6. CASE e.type \notin ToolTerminalTypes \cup TurnTerminalTypes
  BY <1>1, <1>2, <1>3, <1>6, PatchesByType DEF Spoken, Deciding
<1> QED BY <1>4, <1>5, <1>6

(* The last event leaves what the earlier ones did.                        *)
LEMMA EarlierPatches ==
  ASSUME NEW l \in Seq(Event), Len(l) > 1, NEW i \in 1 .. Len(l) - 1
  PROVE  Patches(Front(l), i) = Patches(l, i)
<1> DEFINE f == Front(l)
<1>0. Len(l) \in Nat /\ \A j \in 1 .. Len(l) - 1 : f[j] = l[j]
  BY FrontOf
<1> HIDE DEF f
<1>1. (\A j \in 1 .. i : f[j] = l[j]) /\ f[i] = l[i]
  BY <1>0
<1>2. StepOf(f, i) = StepOf(l, i)
  <2>1. {j \in 1 .. i : f[j].turn = f[i].turn /\ f[j].type = "step.started"}
          = {j \in 1 .. i : l[j].turn = l[i].turn /\ l[j].type = "step.started"}
    BY <1>1
  <2> QED BY <2>1 DEF StepOf
<1>3. AuthorizedBy(f, i) = AuthorizedBy(l, i)
  BY <1>1 DEF AuthorizedBy
<1>4. Patches(f, i) = Patches(l, i)
  BY <1>1, <1>2, <1>3 DEF Patches
<1> QED BY <1>4 DEF f

(* A record the last event does not touch is the one of the log before it. *)
LEMMA UntouchedDraft ==
  ASSUME NEW l \in Seq(Event), Len(l) > 1, NEW id, \A p \in Patches(l, Len(l)) : p.id # id
  PROVE  /\ id \in Drafted(l) <=> id \in Drafted(Front(l))
         /\ id \in Drafted(l) => DraftOf(l, id) = DraftOf(Front(l), id)
<1> DEFINE f == Front(l)
           n == Len(l)
           A == {p \in AllPatches(l) : p.id = id}
           B == {p \in AllPatches(f) : p.id = id}
<1>1. /\ n \in Nat /\ n - 1 \in Nat /\ DOMAIN f = 1 .. n - 1
      /\ DOMAIN l = DOMAIN f \cup {n}
      /\ \A i \in DOMAIN f : f[i] = l[i]
  BY FrontOf
<1>2. \A i \in DOMAIN f : Patches(f, i) = Patches(l, i)
  BY <1>1, EarlierPatches
<1> DEFINE Of(m, i) == {[at |-> i, id |-> p.id, status |-> p.status] : p \in Patches(m, i)}
<1>3. AllPatches(l) = AllPatches(f) \cup Of(l, n)
  <2>1. AllPatches(l) = UNION {Of(l, i) : i \in DOMAIN l} /\ AllPatches(f) = UNION {Of(f, i) : i \in DOMAIN f}
    BY DEF AllPatches
  <2>2. \A i \in DOMAIN f : Of(f, i) = Of(l, i)
    BY <1>2
  <2> HIDE DEF Of, n, f
  <2> QED BY <2>1, <2>2, <1>1
<1>4. \A p \in Of(l, n) : p.id # id
  OBVIOUS
<1>5. A = B
  <2> HIDE DEF Of, n, f
  <2> QED BY <1>3, <1>4
<1>6. id \in Drafted(l) <=> id \in Drafted(f)
  <2>1. /\ id \in Drafted(l) <=> A # {}
        /\ id \in Drafted(f) <=> B # {}
    BY DEF Drafted
  <2> QED BY <2>1, <1>5
<1>7. ASSUME id \in Drafted(f) PROVE DraftOf(l, id) = DraftOf(f, id)
  <2> DEFINE T == {p.at : p \in B}
  <2>0. B # {} /\ \A p \in B : p.at \in 1 .. n - 1
    BY <1>1, <1>7, PatchesAre DEF Drafted
  <2>a. n - 1 \in Nat
    BY <1>1
  <2>b. T \in SUBSET (1 .. n - 1) /\ T # {}
    <3> HIDE DEF B, n
    <3> QED BY <2>0
  <2>1. T \in SUBSET (1 .. n - 1) /\ T # {} /\ n - 1 \in Nat
    BY <2>a, <2>b
  <2>2. Max(T) \in T
    <3> HIDE DEF T, n
    <3> QED BY <2>1, GreatestOf
  <2>3. f[Max(T)] = l[Max(T)]
    BY <2>1, <2>2, <1>1
  <2>4. DraftOf(f, id) = [id |-> id, seq |-> f[Max(T)].seq, status |-> (CHOOSE p \in B : p.at = Max(T)).status]
    BY DEF DraftOf, Stamp
  <2>5. DraftOf(l, id) = [id |-> id, seq |-> l[Max({p.at : p \in A})].seq,
                          status |-> (CHOOSE p \in A : p.at = Max({q.at : q \in A})).status]
    BY DEF DraftOf, Stamp
  <2> HIDE DEF A, B, f
  <2> QED BY <2>3, <2>4, <2>5, <1>5
<1> QED BY <1>6, <1>7

(* A record the last event touches has its number.                         *)
LEMMA TouchedDraft ==
  ASSUME NEW l \in Seq(Event), Len(l) > 1, NEW id, \E p \in Patches(l, Len(l)) : p.id = id
  PROVE  id \in Drafted(l) /\ DraftOf(l, id).seq = l[Len(l)].seq /\ DraftOf(l, id).id = id
<1> DEFINE n == Len(l)
           A == {p \in AllPatches(l) : p.id = id}
           T == {p.at : p \in A}
<1>1. n \in Nat /\ DOMAIN l = 1 .. n /\ n \in DOMAIN l
  BY FrontOf
<1>2. PICK p \in Patches(l, n) : p.id = id
  OBVIOUS
<1> DEFINE q == [at |-> n, id |-> p.id, status |-> p.status]
<1>3. q \in AllPatches(l) /\ q.id = id /\ q.at = n
  BY <1>1, <1>2, PatchesAre
<1>4. id \in Drafted(l)
  BY <1>3 DEF Drafted
<1>5. T \in SUBSET (1 .. n)
  BY <1>1, PatchesAre
<1>6. n \in T /\ \A k \in T : k <= n
  BY <1>1, <1>3, <1>5
<1>7. Max(T) = n
  <2> HIDE DEF T, n
  <2> QED BY <1>1, <1>5, <1>6, GreatestIs
<1>8. DraftOf(l, id) = [id |-> id, seq |-> l[Max(T)].seq, status |-> (CHOOSE x \in A : x.at = Max(T)).status]
  BY DEF DraftOf, Stamp
<1> QED BY <1>4, <1>7, <1>8

(* The event that says what was decided about a call.                      *)
PolicyId(c) == CallId("policy", c)

LEMMA DecidedBy ==
  ASSUME NEW l, NEW c, Decision(l, c) # "unavailable"
  PROVE  PolicyId(c) \in Drafted(l)
<1>1. \E i \in Explained(l, c) : l[i].type \in Deciding
  BY DEF Decision, Deciding, Indices
<1>2. PICK i \in DOMAIN l : l[i].call = c /\ l[i].type \in Deciding
  BY <1>1 DEF Explained, OfCall
<1>3. \E p \in Patches(l, i) : p.id = PolicyId(c)
  BY <1>2, TouchedBy DEF PolicyId
<1> QED BY <1>3, PatchesAre

LEMMA DraftsById ==
  ASSUME NEW l, NEW id
  PROVE  /\ DraftOf(l, id).id = id
         /\ {d \in Drafts(l) : d.id = id} = (IF id \in Drafted(l) THEN {DraftOf(l, id)} ELSE {})
<1>1. \A x : DraftOf(l, x).id = x
  BY DEF DraftOf
<1>2. Drafts(l) = {DraftOf(l, x) : x \in Drafted(l)}
  BY DraftsAre
<1> QED BY <1>1, <1>2

LEMMA RefreshedIs ==
  ASSUME NEW l, NEW c
  PROVE  LET r == Refreshed(l, Drafts(l), c) IN
         /\ r.id = PolicyId(c) /\ r.status = Decision(l, c)
         /\ r.seq = IF PolicyId(c) \in Drafted(l) THEN DraftOf(l, PolicyId(c)).seq ELSE l[Min(OfCall(l, c))].seq
         /\ r = [id |-> r.id, status |-> r.status, seq |-> r.seq]
<1> DEFINE mine == {d \in Drafts(l) : d.id = PolicyId(c)}
<1>1. Refreshed(l, Drafts(l), c) =
        [id |-> PolicyId(c), status |-> Decision(l, c),
         seq |-> IF mine = {} THEN l[Min(OfCall(l, c))].seq ELSE (CHOOSE d \in mine : TRUE).seq]
  BY DEF Refreshed, PolicyId
<1>2. mine = (IF PolicyId(c) \in Drafted(l) THEN {DraftOf(l, PolicyId(c))} ELSE {})
  BY DraftsById
<1> HIDE DEF mine
<1>3. mine # {} => (CHOOSE d \in mine : TRUE) = DraftOf(l, PolicyId(c))
  BY <1>2
<1> QED BY <1>1, <1>2, <1>3

(* The records of a trace: each has its own identity.                      *)
Explains(l) == {c \in Call : Explained(l, c) # {}}

LEMMA RecordsAre ==
  ASSUME NEW l
  PROVE  /\ \A r \in TraceRecords(l) :
              \/ r.id.kind # "policy" /\ r.id \in Drafted(l) /\ r = DraftOf(l, r.id)
              \/ /\ r.id = PolicyId(r.id.call) /\ r.id.call \in Explains(l)
                 /\ r = Refreshed(l, Drafts(l), r.id.call)
         /\ \A id \in Drafted(l) : id.kind # "policy" => DraftOf(l, id) \in TraceRecords(l)
         /\ \A c \in Explains(l) : Refreshed(l, Drafts(l), c) \in TraceRecords(l)
<1>1. \A c : PolicyId(c).kind = "policy" /\ PolicyId(c).call = c
  BY DEF PolicyId, CallId, Id
<1>2. \A id : DraftOf(l, id).id = id
  BY DraftsById
<1>3. \A c : Refreshed(l, Drafts(l), c).id = PolicyId(c)
  BY RefreshedIs
<1>4. TraceRecords(l) = {d \in Drafts(l) : d.id.kind # "policy"}
                          \cup {Refreshed(l, Drafts(l), c) : c \in Explains(l)}
  BY DEF TraceRecords, Explains
<1>5. Drafts(l) = {DraftOf(l, id) : id \in Drafted(l)}
  BY DraftsAre
<1>6. ASSUME NEW r \in TraceRecords(l)
      PROVE  \/ r.id.kind # "policy" /\ r.id \in Drafted(l) /\ r = DraftOf(l, r.id)
             \/ /\ r.id = PolicyId(r.id.call) /\ r.id.call \in Explains(l)
                /\ r = Refreshed(l, Drafts(l), r.id.call)
  <2>1. CASE r \in Drafts(l) /\ r.id.kind # "policy"
    BY <2>1, <1>2, <1>5
  <2>2. CASE \E c \in Explains(l) : r = Refreshed(l, Drafts(l), c)
    <3>1. PICK c \in Explains(l) : r = Refreshed(l, Drafts(l), c)
      BY <2>2
    <3>2. r.id = PolicyId(c) /\ r.id.call = c
      BY <3>1, <1>1, <1>3
    <3> QED BY <3>1, <3>2
  <2> QED BY <2>1, <2>2, <1>4
<1>7. \A id \in Drafted(l) : id.kind # "policy" => DraftOf(l, id) \in TraceRecords(l)
  BY <1>2, <1>4, <1>5
<1> QED BY <1>4, <1>6, <1>7

Tells(l, c, type) == \E i \in DOMAIN l : l[i].call = c /\ l[i].type = type
Repeated(l, c) == \E i \in Explained(l, c) : i > 1 /\ l[i - 1].type = "limit.reached"

LEMMA DecisionIs ==
  ASSUME NEW l, NEW c
  PROVE  Decision(l, c) =
           IF Tells(l, c, "approval.requested") THEN "ask"
           ELSE IF Tells(l, c, "tool.authorized") THEN "allow"
           ELSE IF Tells(l, c, "tool.denied") /\ ~Repeated(l, c) THEN "deny" ELSE "unavailable"
<1> DEFINE has(type) == Explained(l, c) \cap Indices(l, {type}) # {}
<1>1. ASSUME NEW type \in Deciding PROVE has(type) <=> Tells(l, c, type)
  BY DEF Explained, OfCall, Indices, Tells, Deciding
<1>2. Decision(l, c) =
        CASE has("approval.requested") -> "ask"
          [] ~has("approval.requested") /\ has("tool.authorized") -> "allow"
          [] ~has("approval.requested") /\ ~has("tool.authorized")
               /\ has("tool.denied") /\ ~Repeated(l, c) -> "deny"
          [] OTHER -> "unavailable"
  BY DEF Decision, Repeated
<1>3. {"approval.requested", "tool.authorized", "tool.denied"} = Deciding
  BY DEF Deciding
<1> HIDE DEF has
<1> QED BY <1>1, <1>2, <1>3

LEMMA DecisionLasts ==
  ASSUME NEW l \in Seq(Event), Len(l) > 1, NEW c, Decision(l, c) # "unavailable",
         ~(l[Len(l)].type \in Deciding /\ l[Len(l)].call = c)
  PROVE  Decision(Front(l), c) = Decision(l, c)
<1> DEFINE f == Front(l)
           n == Len(l)
<1>1. /\ n \in Nat /\ DOMAIN f = 1 .. n - 1 /\ DOMAIN l = DOMAIN f \cup {n}
      /\ \A i \in DOMAIN f : f[i] = l[i]
  BY FrontOf
<1>2. l[n].type \notin Deciding \/ l[n].call # c
  OBVIOUS
<1> HIDE DEF f, n
<1>3. ASSUME NEW type \in Deciding PROVE Tells(f, c, type) <=> Tells(l, c, type)
  BY <1>1, <1>2 DEF Tells
<1>4. Repeated(f, c) => Repeated(l, c)
  <2>1. SUFFICES ASSUME NEW i \in Explained(f, c), i > 1, f[i - 1].type = "limit.reached"
                 PROVE  Repeated(l, c)
    BY DEF Repeated
  <2>2. i \in DOMAIN f /\ i - 1 \in DOMAIN f
    BY <1>1, <2>1 DEF Explained, OfCall
  <2>3. l[i] = f[i] /\ l[i - 1] = f[i - 1]
    BY <1>1, <2>2
  <2>4. i \in Explained(l, c)
    BY <1>1, <2>1, <2>2, <2>3 DEF Explained, OfCall, Indices
  <2> QED BY <2>1, <2>3, <2>4 DEF Repeated
<1>5. {"approval.requested", "tool.authorized", "tool.denied"} = Deciding
  BY DEF Deciding
<1>6. Decision(f, c) = Decision(l, c)
  BY <1>3, <1>4, <1>5, DecisionIs
<1> QED BY <1>6 DEF f

LEMMA ExplainedFront ==
  ASSUME NEW l \in Seq(Event), Len(l) > 1, NEW c
  PROVE  /\ c \in Explains(Front(l)) => c \in Explains(l)
         /\ Decision(Front(l), c) # "unavailable" /\ c \in Call => c \in Explains(Front(l))
<1> DEFINE f == Front(l)
           n == Len(l)
<1>1. /\ n \in Nat /\ DOMAIN f = 1 .. n - 1 /\ DOMAIN l = DOMAIN f \cup {n}
      /\ \A i \in DOMAIN f : f[i] = l[i]
  BY FrontOf
<1> HIDE DEF f, n
<1>2. ASSUME NEW i \in Explained(f, c) PROVE i \in Explained(l, c)
  BY <1>1 DEF Explained, OfCall, Indices
<1>3. ASSUME NEW type \in Deciding, Tells(f, c, type) PROVE Explained(f, c) # {}
  BY <1>3 DEF Explained, OfCall, Indices, Tells, Deciding
<1>4. Decision(f, c) # "unavailable" => \E type \in Deciding : Tells(f, c, type)
  BY DecisionIs DEF Deciding
<1>5. /\ c \in Explains(f) => c \in Explains(l)
      /\ Decision(f, c) # "unavailable" /\ c \in Call => c \in Explains(f)
  BY <1>2, <1>3, <1>4 DEF Explains
<1> QED BY <1>5 DEF f

(* A record of a policy that the log tells of has the number of the last   *)
(* event or is the one of the log before it.                               *)
LEMMA ToldPolicy ==
  ASSUME NEW l \in Seq(Event), Len(l) > 1, NEW c \in Call, Decision(l, c) # "unavailable"
  PROVE  LET r == Refreshed(l, Drafts(l), c) IN
         \/ r.seq = l[Len(l)].seq
         \/ c \in Explains(Front(l)) /\ r = Refreshed(Front(l), Drafts(Front(l)), c)
<1> DEFINE f == Front(l)
           id == PolicyId(c)
           r == Refreshed(l, Drafts(l), c)
           s == Refreshed(f, Drafts(f), c)
<1>1. id \in Drafted(l)
  BY DecidedBy
<1>2. r.seq = DraftOf(l, id).seq
  BY <1>1, RefreshedIs
<1>3. CASE \E p \in Patches(l, Len(l)) : p.id = id
  BY <1>2, <1>3, TouchedDraft
<1>4. CASE \A p \in Patches(l, Len(l)) : p.id # id
  <2>1. id \in Drafted(f) /\ DraftOf(l, id) = DraftOf(f, id)
    BY <1>1, <1>4, UntouchedDraft
  <2>2. ~(l[Len(l)].type \in Deciding /\ l[Len(l)].call = c)
    <3>1. \A p \in Patches(l, Len(l)) : p.id # CallId("policy", c)
      BY <1>4 DEF PolicyId
    <3>2. (\E p \in Patches(l, Len(l)) : p.id = CallId("policy", c))
            <=> (l[Len(l)].type \in Deciding /\ l[Len(l)].call = c)
      BY TouchedBy
    <3> QED BY <3>1, <3>2
  <2>3. Decision(f, c) = Decision(l, c)
    BY <2>2, DecisionLasts
  <2>4. c \in Explains(f)
    BY <2>3, ExplainedFront
  <2>5. /\ r.id = id /\ r.status = Decision(l, c) /\ r = [id |-> r.id, status |-> r.status, seq |-> r.seq]
        /\ s.id = id /\ s.status = Decision(f, c) /\ s = [id |-> s.id, status |-> s.status, seq |-> s.seq]
        /\ s.seq = DraftOf(f, id).seq
    BY <2>1, RefreshedIs
  <2> HIDE DEF r, s, id, f
  <2>6. r = s
    BY <1>2, <2>1, <2>3, <2>5
  <2> QED BY <2>4, <2>6 DEF r, s, id, f
<1> QED BY <1>3, <1>4

(* Each record has the number of an event of the log.                      *)
LEMMA RecordNumbers ==
  ASSUME NEW l \in Seq(Event), NEW r \in TraceRecords(l)
  PROVE  \E i \in DOMAIN l : r.seq = l[i].seq
<1>1. Len(l) \in Nat /\ DOMAIN l = 1 .. Len(l)
  OBVIOUS
<1>2. ASSUME NEW id \in Drafted(l) PROVE \E i \in DOMAIN l : DraftOf(l, id).seq = l[i].seq
  <2> DEFINE A == {p \in AllPatches(l) : p.id = id}
             T == {p.at : p \in A}
  <2>1. A # {} /\ \A p \in A : p.at \in DOMAIN l
    BY PatchesAre DEF Drafted
  <2>2. T \in SUBSET (1 .. Len(l)) /\ T # {}
    <3> HIDE DEF A
    <3> QED BY <1>1, <2>1
  <2>3. Max(T) \in T
    <3> HIDE DEF T
    <3> QED BY <1>1, <2>2, GreatestOf
  <2>4. DraftOf(l, id).seq = l[Max(T)].seq
    BY DEF DraftOf, Stamp
  <2> HIDE DEF T
  <2> QED BY <1>1, <2>2, <2>3, <2>4
<1>3. ASSUME NEW c \in Explains(l)
      PROVE  \E i \in DOMAIN l : Refreshed(l, Drafts(l), c).seq = l[i].seq
  <2>1. CASE PolicyId(c) \in Drafted(l)
    BY <1>2, <2>1, RefreshedIs
  <2>2. CASE PolicyId(c) \notin Drafted(l)
    <3>1. OfCall(l, c) \in SUBSET (1 .. Len(l)) /\ OfCall(l, c) # {}
      BY <1>1 DEF Explains, Explained, OfCall
    <3>2. Min(OfCall(l, c)) \in DOMAIN l
      BY <1>1, <3>1, LeastIs
    <3>3. Refreshed(l, Drafts(l), c).seq = l[Min(OfCall(l, c))].seq
      BY <2>2, RefreshedIs
    <3> QED BY <3>2, <3>3
  <2> QED BY <2>1, <2>2
<1> QED BY <1>2, <1>3, RecordsAre

(* The delta of the last event, merged into the trace before it.           *)
LEMMA DeltaSuffices ==
  ASSUME NEW l \in Seq(Event), Readable(l), Len(l) > 1
  PROVE  LET told(records) == {r \in records : ~(r.id.kind = "policy" /\ Decision(l, r.id.call) = "unavailable")}
             now == TraceRecords(l)
         IN  told(Upsert(TraceRecords(Front(l)), Delta(now, l))) = told(now)
<1> DEFINE f == Front(l)
           n == Len(l)
           m == l[n].seq
           A == TraceRecords(f)
           N == TraceRecords(l)
           D == Delta(N, l)
           Untellable(r) == r.id.kind = "policy" /\ Decision(l, r.id.call) = "unavailable"
           told(records) == {r \in records : ~Untellable(r)}
<1>1. /\ n \in Nat /\ DOMAIN f = 1 .. n - 1 /\ DOMAIN l = DOMAIN f \cup {n}
      /\ \A i \in DOMAIN f : f[i] = l[i]
      /\ f \in Seq(Event)
  BY FrontOf
<1>0. l # <<>> /\ n \in DOMAIN l
  <2>1. Len(<<>>) = 0
    OBVIOUS
  <2>2. l # <<>>
    BY <2>1
  <2>3. n \in DOMAIN l
    BY <1>1
  <2> QED BY <2>2, <2>3
<1>2. D = {r \in N : r.seq = m}
  BY <1>0 DEF Delta, Top
<1>3. \A r \in N : r.seq \in Nat
  BY RecordNumbers, EventFields
<1>4. ASSUME NEW r \in A PROVE r.seq \in Nat /\ r.seq < m
  <2>1. PICK i \in DOMAIN f : r.seq = f[i].seq
    BY <1>1, RecordNumbers
  <2>2. l[i].seq < m
    BY <1>1, NumbersRise
  <2>3. l[i].seq \in Nat
    BY <1>1, EventFields
  <2> QED BY <1>1, <2>1, <2>2, <2>3
<1>5. ASSUME NEW r \in N, NEW x \in N, r.id = x.id PROVE r = x
  <2>1. \A c : PolicyId(c).kind = "policy"
    BY DEF PolicyId, CallId, Id
  <2>2. /\ \/ r.id.kind # "policy" /\ r = DraftOf(l, r.id)
           \/ r.id = PolicyId(r.id.call) /\ r = Refreshed(l, Drafts(l), r.id.call)
        /\ \/ x.id.kind # "policy" /\ x = DraftOf(l, x.id)
           \/ x.id = PolicyId(x.id.call) /\ x = Refreshed(l, Drafts(l), x.id.call)
    BY RecordsAre
  <2> QED BY <1>5, <2>1, <2>2
<1>6. ASSUME NEW r \in N, ~Untellable(r), r.seq # m PROVE r \in A
  <2>1. CASE r.id.kind # "policy" /\ r.id \in Drafted(l) /\ r = DraftOf(l, r.id)
    <3>1. \A p \in Patches(l, n) : p.id # r.id
      BY <1>6, <2>1, TouchedDraft
    <3>2. r.id \in Drafted(f) /\ DraftOf(f, r.id) = r
      BY <2>1, <3>1, UntouchedDraft
    <3> QED BY <2>1, <3>2, RecordsAre
  <2>2. CASE /\ r.id = PolicyId(r.id.call) /\ r.id.call \in Explains(l)
             /\ r = Refreshed(l, Drafts(l), r.id.call)
    <3> DEFINE c == r.id.call
    <3>1. c \in Call /\ Decision(l, c) # "unavailable"
      BY <1>6, <2>2 DEF Explains, PolicyId, CallId, Id
    <3>2. c \in Explains(f) /\ r = Refreshed(f, Drafts(f), c)
      BY <1>6, <2>2, <3>1, ToldPolicy
    <3> QED BY <3>2, RecordsAre
  <2> QED BY <2>1, <2>2, RecordsAre
<1>7. ASSUME NEW r \in A, ~Untellable(r) PROVE r \in N \/ \E x \in D : x.id = r.id
  <2>1. CASE r.id.kind # "policy" /\ r.id \in Drafted(f) /\ r = DraftOf(f, r.id)
    <3>1. CASE \E p \in Patches(l, n) : p.id = r.id
      <4>1. r.id \in Drafted(l) /\ DraftOf(l, r.id).seq = m /\ DraftOf(l, r.id).id = r.id
        BY <3>1, TouchedDraft
      <4>2. DraftOf(l, r.id) \in N
        BY <2>1, <4>1, RecordsAre
      <4> QED BY <1>2, <4>1, <4>2
    <3>2. CASE \A p \in Patches(l, n) : p.id # r.id
      <4>1. r.id \in Drafted(l) /\ DraftOf(l, r.id) = r
        BY <2>1, <3>2, UntouchedDraft
      <4> QED BY <2>1, <4>1, RecordsAre
    <3> QED BY <3>1, <3>2
  <2>2. CASE /\ r.id = PolicyId(r.id.call) /\ r.id.call \in Explains(f)
             /\ r = Refreshed(f, Drafts(f), r.id.call)
    <3> DEFINE c == r.id.call
               x == Refreshed(l, Drafts(l), c)
    <3>1. c \in Call /\ Decision(l, c) # "unavailable" /\ c \in Explains(l)
      BY <1>7, <2>2, ExplainedFront DEF Explains, PolicyId, CallId, Id
    <3>2. x \in N /\ x.id = r.id
      BY <2>2, <3>1, RecordsAre, RefreshedIs
    <3>3. x.seq = m \/ x = Refreshed(f, Drafts(f), c)
      BY <3>1, ToldPolicy
    <3>4. x.seq = m => x \in D
      BY <1>2, <3>2
    <3> QED BY <2>2, <3>2, <3>3, <3>4
  <2> QED BY <2>1, <2>2, RecordsAre
<1>8. Upsert(A, D) = {r \in A : ~\E x \in D : x.id = r.id /\ x.seq >= r.seq}
                       \cup {x \in D : ~\E r \in A : x.id = r.id /\ x.seq < r.seq}
  BY DEF Upsert
<1>9. m \in Nat
  BY <1>0, EventFields
<1> HIDE DEF A, N, D, m, n, f, Untellable
<1>10. ASSUME NEW r \in told(Upsert(A, D)) PROVE r \in told(N)
  <2>1. CASE r \in A /\ ~\E x \in D : x.id = r.id /\ x.seq >= r.seq
    <3>1. ~\E x \in D : x.id = r.id
      BY <2>1, <1>2, <1>4, <1>9
    <3> QED BY <1>7, <1>10, <2>1, <3>1
  <2>2. CASE r \in D
    BY <1>2, <1>10, <2>2
  <2> QED BY <2>1, <2>2, <1>8, <1>10
<1>11. ASSUME NEW r \in told(N) PROVE r \in told(Upsert(A, D))
  <2>1. CASE r.seq = m
    <3>1. r \in D
      BY <1>2, <1>11, <2>1
    <3>2. ~\E x \in A : r.id = x.id /\ r.seq < x.seq
      BY <1>4, <1>9, <2>1
    <3> QED BY <1>8, <1>11, <3>1, <3>2
  <2>2. CASE r.seq # m
    <3>1. r \in A
      BY <1>6, <1>11, <2>2
    <3>2. ~\E x \in D : x.id = r.id
      BY <1>2, <1>5, <1>11, <2>2
    <3> QED BY <1>8, <1>11, <3>1, <3>2
  <2> QED BY <2>1, <2>2
<1>12. told(Upsert(A, D)) = told(N)
  BY <1>10, <1>11
<1> QED BY <1>12 DEF A, N, D, f, Untellable

(* Whenever the file can be read, a client that merges each delta into the *)
(* trace it has sees what one sees that loads the trace anew.              *)
THEOREM LiveTraceIsWhole == Spec => [](LogOrdered => LiveTraceFollows)
<1>1. TypeInv => (LogOrdered => LiveTraceFollows)
  <2>1. SUFFICES ASSUME log \in Seq(Event), Readable(log), Len(log) > 1
                 PROVE  Told(Upsert(TraceRecords(Front(log)), Delta(TraceRecords(log), log))) = Told(TraceRecords(log))
    BY DEF TypeInv, TypeOK, LogOrdered, LiveTraceFollows
  <2> QED BY <2>1, DeltaSuffices DEF Told, Untold
<1>2. Spec => []TypeInv
  BY TypeInvInit, TypeInvStep, PTL DEF Spec
<1> QED BY <1>1, <1>2, PTL

-----------------------------------------------------------------------------
(* What the console shows                                                  *)

LEMMA AskOpenAppend ==
  ASSUME NEW l \in Seq(Event), NEW r \in Event, NEW c, AskOpen(Append(l, r), c)
  PROVE  \/ r.type = "approval.requested" /\ r.call = c
         \/ /\ AskOpen(l, c)
            /\ ~(r.call = c /\ r.type \in ToolTerminalTypes \cup {"approval.granted", "approval.denied"})
<1> DEFINE m == Append(l, r)
<1>1. /\ Len(m) = Len(l) + 1 /\ Len(l) \in Nat /\ m[Len(l) + 1] = r
      /\ \A i \in 1 .. Len(l) : m[i] = l[i]
      /\ DOMAIN m = 1 .. Len(l) + 1 /\ DOMAIN l = 1 .. Len(l)
  BY AppendProperties
<1> HIDE DEF m
<1>2. PICK i \in DOMAIN m :
        /\ m[i].type = "approval.requested" /\ m[i].call = c
        /\ \A j \in i + 1 .. Len(m) : ~Settles(m, j, c)
  BY DEF AskOpen, m
<1>3. CASE i = Len(l) + 1
  BY <1>1, <1>2, <1>3
<1>4. CASE i \in 1 .. Len(l)
  <2>1. \A j \in i + 1 .. Len(l) : ~Settles(l, j, c)
    BY <1>1, <1>2, <1>4 DEF Settles
  <2>2. ~Settles(m, Len(l) + 1, c)
    BY <1>1, <1>2, <1>4
  <2>3. AskOpen(l, c)
    BY <1>1, <1>2, <1>4, <2>1 DEF AskOpen
  <2> QED BY <1>1, <2>2, <2>3 DEF Settles
<1> QED BY <1>1, <1>3, <1>4

LEMMA OpenAskIsAsked ==
  ASSUME NEW l, NEW c, AskOpen(l, c)
  PROVE  c \in AskedIn(l)
BY DEF AskOpen, AskedIn, CallsWith

(* The call whose approval is open has not ended.                          *)
LEMMA OpenAskDangles ==
  ASSUME TypeInv, FileInv, LastWord, NEW c, AskOpen(log, c)
  PROVE  c \in DanglingCalls(log)
<1>1. PICK i \in DOMAIN log :
        /\ log[i].type = "approval.requested" /\ log[i].call = c
        /\ \A j \in i + 1 .. Len(log) : ~Settles(log, j, c)
  BY DEF AskOpen
<1>2. Len(log) \in Nat /\ DOMAIN log = 1 .. Len(log)
  BY DEF TypeInv, TypeOK
<1>3. c \in RequestedIn(log)
  BY OpenAskIsAsked DEF FileInv, Chain
<1>4. ASSUME c \in Closed(log)
      PROVE  FALSE
  <2>1. PICK k \in DOMAIN log : log[k].type \in ToolTerminalTypes /\ log[k].call = c
    BY <1>4 DEF Closed, CallsWith
  <2>2. CASE k < i
    BY <1>1, <2>1, <2>2 DEF LastWord, Spoken
  <2>3. CASE k = i
    BY <1>1, <2>1, <2>3 DEF ToolTerminalTypes
  <2>4. CASE i < k
    <3>1. k \in i + 1 .. Len(log)
      BY <1>2, <2>4
    <3>2. Settles(log, k, c)
      BY <2>1 DEF Settles
    <3> QED BY <1>1, <3>1, <3>2
  <2> QED BY <1>2, <2>2, <2>3, <2>4
<1> QED BY <1>3, <1>4 DEF DanglingCalls, RequestedIn, Closed

LEMMA PendingIsOpen ==
  ASSUME TypeInv
  PROVE  PendingApproval(log) # NoCall => AskOpen(log, PendingApproval(log))
<1> DEFINE open == {i \in Indices(log, {"approval.requested"}) :
                      \A j \in i + 1 .. Len(log) : ~Settles(log, j, log[i].call)}
<1>1. Len(log) \in Nat /\ DOMAIN log = 1 .. Len(log)
  BY DEF TypeInv, TypeOK
<1>2. PendingApproval(log) = IF open = {} THEN NoCall ELSE log[Max(open)].call
  BY DEF PendingApproval
<1>3. ASSUME open # {}
      PROVE  AskOpen(log, log[Max(open)].call)
  <2>1. open \in SUBSET (1 .. Len(log))
    BY <1>1 DEF Indices
  <2>2. Max(open) \in open
    <3> HIDE DEF open
    <3> QED BY <1>1, <1>3, <2>1, GreatestOf
  <2> DEFINE i == Max(open)
  <2> HIDE DEF i
  <2>3. i \in open
    BY <2>2 DEF i
  <2>4. AskOpen(log, log[i].call)
    BY <2>3 DEF AskOpen, Indices
  <2> QED BY <2>4 DEF i
<1> QED BY <1>2, <1>3

Neutral(s) ==
  \A i \in DOMAIN s :
    s[i].type = "model.tool_call" \/ (s[i].call = NoCall /\ s[i].type \notin CallTypes)

LEMMA NeutralScripts ==
  /\ Neutral(<<>>)
  /\ \A t : t \notin CallTypes => Neutral(<<Note(t)>>)
  /\ \A t, u : {t, u} \cap CallTypes = {} => Neutral(<<Note(t), Note(u)>>)
BY DEF Neutral, Note

LEMMA NeutralConcat ==
  ASSUME NEW a \in Seq(Draft), NEW b \in Seq(Draft), Neutral(a), Neutral(b)
  PROVE  Neutral(a \o b)
BY ConcatParts DEF Neutral

LEMMA NeutralTypes ==
  {"turn.started", "step.started", "context.projected", "model.started", "model.text",
   "model.reasoning", "model.completed", "model.failed", "limit.reached", "turn.completed",
   "turn.failed", "turn.cancelled"} \cap CallTypes = {}
BY DEF CallTypes, Spoken, ToolTerminalTypes

LEMMA NeutralReply ==
  ASSUME NEW r \in Reply, NEW rest \in Seq(Draft), Neutral(rest)
  PROVE  Neutral(Preamble(r) \o rest) /\ Neutral(Preamble(r) \o ToolCallNotes(r) \o rest)
<1>1. /\ Preamble(r) \in Seq(Draft) /\ ToolCallNotes(r) \in Seq(Draft)
      /\ Preamble(r) \o ToolCallNotes(r) \in Seq(Draft)
  BY ReplyScripts, ConcatProperties
<1>2. Neutral(Preamble(r))
  <2>1. /\ Note("model.reasoning") \in Draft /\ Note("model.text") \in Draft
    BY DraftTypes DEF EventTypes
  <2>2. /\ Optional(r.reasoning, "model.reasoning") \in Seq(Draft)
        /\ Optional(r.text, "model.text") \in Seq(Draft)
    BY <2>1, ShortScripts DEF Optional
  <2>3. /\ Neutral(Optional(r.reasoning, "model.reasoning"))
        /\ Neutral(Optional(r.text, "model.text"))
    BY NeutralScripts, NeutralTypes DEF Optional
  <2> QED BY <2>2, <2>3, NeutralConcat DEF Preamble
<1>3. Neutral(ToolCallNotes(r))
  BY DEF Neutral, ToolCallNotes, About
<1>4. Neutral(Preamble(r) \o ToolCallNotes(r))
  BY <1>1, <1>2, <1>3, NeutralConcat
<1> QED BY <1>1, <1>2, <1>4, NeutralConcat

Decides == DispatchTool \/ EvaluateCall \/ AskApproval \/ Answer \/ ApprovalAborted \/ StartTool
             \/ ToolReturns

LEMMA DraftsQueued ==
  ASSUME TypeInv, [Next]_vars
  PROVE  \/ Emit \/ Decides \/ UNCHANGED <<script, pc, cur>>
         \/ Neutral(script') /\ pc' \notin {"ask", "waiting"} /\ (pc' = "executing" => Execute)
<1> USE NeutralScripts, NeutralTypes DEF At, Continue
<1>1. CASE StepTop \/ BuildContext \/ ModelFailed \/ EndOfStep \/ Execute
  BY <1>1 DEF StepTop, BuildContext, ModelFailed, EndOfStep, Execute
<1>2. CASE ModelReplies
  <2>1. PICK r \in Reply :
          ReplyBroken(r) \/ ReplyInvalid(r) \/ ReplyFinal(r) \/ ReplyWithTools(r)
    BY <1>2 DEF ModelReplies
  <2>2. \A t \in EventTypes : Note(t) \in Draft
    BY DraftTypes
  <2>3. /\ <<Note("model.failed")>> \in Seq(Draft)
        /\ <<Note("model.failed"), Note("turn.failed")>> \in Seq(Draft)
        /\ <<Note("model.completed")>> \in Seq(Draft)
        /\ <<Note("model.completed"), Note(Outcome(r))>> \in Seq(Draft)
    BY <2>2, ShortScripts, EventNames DEF Outcome
  <2>4. /\ Neutral(<<Note("model.failed")>>) /\ Neutral(<<Note("model.completed")>>)
        /\ Neutral(<<Note("model.failed"), Note("turn.failed")>>)
        /\ Neutral(<<Note("model.completed"), Note(Outcome(r))>>)
    BY DEF Outcome
  <2>5. pc' \in {"modelCancelled", "modelFailed", "end", "dispatch"}
    BY <2>1 DEF ReplyBroken, ReplyInvalid, ReplyFinal, ReplyWithTools
  <2> QED BY <2>1, <2>3, <2>4, <2>5, NeutralReply DEF ReplyBroken, ReplyInvalid, ReplyFinal,
       ReplyWithTools
<1>3. CASE EmitFails \/ ToolThrowsStorage \/ EndTurn \/ RepairRead \/ RepairGivesUp
           \/ RepairRefresh \/ RepairTurn \/ Resume \/ Crash \/ BeginTurn
  BY <1>3 DEF EmitFails, ToolThrowsStorage, EndTurn, RepairRead, RepairGivesUp,
     RepairRefresh, RepairTurn, Resume, Crash, BeginTurn, Return
<1>4. CASE RepairCall \/ ResumeStep
  BY <1>4 DEF RepairCall, ResumeStep, ResumeAppend
<1>5. CASE Abort \/ WriteCheck \/ WriteRead \/ WriteAppend \/ Done \/ UNCHANGED vars
  BY <1>5 DEF Abort, WriteCheck, WriteRead, WriteAppend, Done, vars, turnVars
<1> QED BY <1>1, <1>2, <1>3, <1>4, <1>5 DEF Next, LoopStep, Decides

(* A refusal is queued as a whole.                                         *)
LEMMA DenialsStep ==
  ASSUME TypeInv, Denials, [Next]_vars
  PROVE  Denials'
<1> USE DEF At, Continue
<1>1. CASE Emit
  <2>1. script # <<>> /\ script \in Seq(Draft) /\ script' = Tail(script)
    BY <1>1 DEF Emit, TypeInv, TypeOK
  <2>2. CASE Undenied(script)
    <3>1. \A i \in DOMAIN Tail(script) : i + 1 \in DOMAIN script /\ Tail(script)[i] = script[i + 1]
      BY <2>1, TailOfScript
    <3> QED BY <2>1, <2>2, <3>1 DEF Denials, Undenied
  <2>3. CASE script = Denial(cur)
    <3>1. script' = <<About("tool.denied", cur), Note("turn.failed")>>
      BY <2>1, <2>3 DEF Denial
    <3> QED BY <3>1 DEF Denials, Undenied, About, Note
  <2> QED BY <2>2, <2>3 DEF Denials
<1>2. CASE DispatchTool \/ EvaluateCall \/ AskApproval \/ ApprovalAborted \/ StartTool \/ ToolReturns
  BY <1>2 DEF DispatchTool, EvaluateCall, RejectInput, RepeatedTooOften, Judged, AskApproval,
     ApprovalAborted, StartTool, ToolReturns, CancelCall, Denials, Undenied, About, With, Note
<1>3. CASE Answer
  BY <1>3 DEF Answer, Grant, Same, Denials, Denial, Undenied, About, With, Note
<1>4. CASE Neutral(script')
  BY <1>4 DEF Neutral, CallTypes, Spoken, Denials, Undenied
<1>5. CASE UNCHANGED <<script, pc, cur>>
  BY <1>5 DEF Denials, Undenied
<1> QED BY <1>1, <1>2, <1>3, <1>4, <1>5, DraftsQueued DEF Decides

LEMMA ActiveRunsStep ==
  ASSUME TypeInv, ShapeInv, ActiveRuns, [Next]_vars
  PROVE  ActiveRuns'
<1> USE DEF At, Continue
<1>1. CASE Emit
  BY <1>1 DEF Emit, ShapeInv, ActiveRuns, Running
<1>2. CASE EvaluateCall
  BY <1>2 DEF EvaluateCall, RejectInput, RepeatedTooOften, Judged, Quiet, ActiveRuns, Running
<1>3. CASE ModelReplies
  <2>1. PICK r \in Reply :
          ReplyBroken(r) \/ ReplyInvalid(r) \/ ReplyFinal(r) \/ ReplyWithTools(r)
    BY <1>3 DEF ModelReplies
  <2>2. pc' \in {"modelCancelled", "modelFailed", "end", "dispatch"}
    BY <2>1 DEF ReplyBroken, ReplyInvalid, ReplyFinal, ReplyWithTools
  <2> QED BY <2>2 DEF ActiveRuns, Running
<1>4. CASE StepTop \/ BuildContext \/ ModelFailed \/ EndOfStep \/ DispatchTool \/ Answer
  BY <1>4 DEF StepTop, BuildContext, ModelFailed, EndOfStep, DispatchTool, Answer, Grant,
     ActiveRuns, Running
<1>5. CASE AskApproval \/ ApprovalAborted \/ StartTool \/ Execute \/ ToolReturns
  BY <1>5 DEF AskApproval, ApprovalAborted, StartTool, Execute, ToolReturns, CancelCall,
     ActiveRuns, Running
<1>6. CASE EmitFails \/ ToolThrowsStorage \/ RepairRead \/ RepairRefresh \/ RepairCall
  BY <1>6 DEF EmitFails, ToolThrowsStorage, RepairRead, RepairRefresh, RepairCall, ActiveRuns,
     Running
<1>7. CASE EndTurn \/ RepairGivesUp \/ RepairTurn \/ Crash \/ BeginTurn
  BY <1>7 DEF EndTurn, RepairGivesUp, RepairTurn, Crash, BeginTurn, Return, ActiveRuns
<1>8. CASE Resume \/ ResumeStep
  BY <1>8 DEF Resume, ResumeStep, ResumeAppend, ActiveRuns, Running
<1>9. CASE Abort \/ WriteCheck \/ WriteRead \/ WriteAppend \/ Done \/ UNCHANGED vars
  BY <1>9 DEF Abort, WriteCheck, WriteRead, WriteAppend, Done, vars, ActiveRuns, Running
<1> QED BY <1>1, <1>2, <1>3, <1>4, <1>5, <1>6, <1>7, <1>8, <1>9 DEF Next, LoopStep

(* What is said of a call, apart from its end, is said before its end.     *)
LEMMA SpokenIsOpen ==
  ASSUME LoopInv, Denials, NEW r \in Event, Pending(r), r.type \in Spoken
  PROVE  script # <<>> /\ r.call = cur /\ r.call \notin Closed(log)
<1> USE DEF LoopInv
<1>1. script # <<>> /\ r = CurrentRecord
  BY DEF Pending, Spoken
<1>2. r.type = script[1].type /\ r.call = script[1].call /\ 1 \in DOMAIN script
  BY <1>1, HeadOfScript
<1>3. CASE r.type = "approval.denied"
  <2>1. script = Denial(cur)
    BY <1>2, <1>3 DEF Denials, Undenied
  <2>2. /\ script[1].call = cur /\ 2 \in DOMAIN script /\ script[2].type = "tool.denied"
    BY <2>1 DEF Denial, About
  <2>3. cur \notin Closed(log)
    BY <2>2 DEF CallInv, TerminalsAreFresh, ToolTerminalTypes
  <2> QED BY <1>1, <1>2, <2>2, <2>3
<1>4. CASE r.type \in {"approval.requested", "approval.granted", "tool.authorized", "tool.started"}
  <2>1. pc \in {"ask", "authorized", "execute"} /\ r.call = cur
    BY <1>1, <1>2, <1>4, HeadShape DEF Note, About, MarkedTypes, TurnTerminalTypes
  <2>2. cur \notin Closed(log)
    BY <2>1 DEF CallInv, CallInHand, Busy
  <2> QED BY <1>1, <2>1, <2>2
<1> QED BY <1>3, <1>4 DEF Spoken

LEMMA LastWordStep ==
  ASSUME LoopInv, Denials, LastWord, [Next]_vars
  PROVE  LastWord'
<1>1. CASE log' = log
  BY <1>1 DEF LastWord
<1>2. ASSUME NEW r \in Event, log' = Append(log, r), Pending(r)
      PROVE  LastWord'
  <2>1. log \in Seq(Event)
    BY DEF LoopInv, TypeInv, TypeOK
  <2>2. /\ Len(log) \in Nat /\ log'[Len(log) + 1] = r
        /\ \A i \in 1 .. Len(log) : log'[i] = log[i]
        /\ DOMAIN log' = 1 .. Len(log) + 1 /\ DOMAIN log = 1 .. Len(log)
    BY <1>2, <2>1, AppendProperties
  <2>3. r.type \in Spoken => r.call \notin Closed(log)
    BY <1>2, SpokenIsOpen
  <2>4. SUFFICES ASSUME NEW i \in DOMAIN log', NEW j \in DOMAIN log', i < j,
                        log'[i].type \in ToolTerminalTypes, log'[j].call = log'[i].call
                 PROVE  log'[j].type \notin Spoken
    BY DEF LastWord
  <2>5. i \in 1 .. Len(log) /\ log'[i] = log[i]
    BY <2>2, <2>4
  <2>6. CASE j \in 1 .. Len(log)
    BY <2>2, <2>4, <2>5, <2>6 DEF LastWord
  <2>7. CASE j = Len(log) + 1
    <3>1. r.call \in Closed(log)
      BY <2>2, <2>4, <2>5, <2>7 DEF Closed, CallsWith
    <3> QED BY <2>2, <2>3, <2>7, <3>1
  <2> QED BY <2>2, <2>6, <2>7
<1> QED BY <1>1, <1>2, AppendedEvent DEF LoopInv

LEMMA EndedCleanStep ==
  ASSUME LoopInv, EndInv, EndedClean, [Next]_vars
  PROVE  EndedClean'
<1>1. CASE log' = log
  BY <1>1 DEF EndedClean
<1>2. ASSUME NEW r \in Event, log' = Append(log, r), Pending(r)
      PROVE  EndedClean'
  <2>1. log \in Seq(Event)
    BY DEF LoopInv, TypeInv, TypeOK
  <2>2. Proper(r)
    BY <1>2, PendingIsProper DEF LoopInv
  <2>3. log'[Len(log')] = r
    BY <1>2, <2>1, AppendProperties
  <2>4. SUFFICES ASSUME r.type \in TurnTerminalTypes
                 PROVE  DanglingCalls(log') = {} /\ IncompleteTurns(log') = {}
    BY <2>3 DEF EndedClean, DanglingCalls, IncompleteTurns
  <2>5. r.turn \in IncompleteTurns(log) /\ DanglingCalls(log) = {}
    BY <2>2, <2>4 DEF Proper
  <2>6. IncompleteTurns(log) = {r.turn}
    BY <2>5 DEF EndInv, EndFile, TurnsInv
  <2>7. r.type \notin {"tool.requested", "turn.started"} /\ r.type \notin ToolTerminalTypes
    BY <2>4 DEF TurnTerminalTypes, ToolTerminalTypes
  <2> QED BY <1>2, <2>1, <2>4, <2>5, <2>6, <2>7, OpenAppend
<1> QED BY <1>1, <1>2, AppendedEvent DEF LoopInv

(* Before a call is authorised its approval is answered.                   *)
LEMMA AuthorizedIsAnswered ==
  ASSUME LoopInv, AsksAnswered, [Next]_vars
  PROVE  \A c \in AuthorizedIn(log') : ~AskOpen(log', c)
<1>1. CASE log' = log
  BY <1>1 DEF AsksAnswered
<1>2. ASSUME NEW r \in Event, log' = Append(log, r), Pending(r),
             NEW c \in AuthorizedIn(log'), AskOpen(log', c)
      PROVE  FALSE
  <2>1. log \in Seq(Event)
    BY DEF LoopInv, TypeInv, TypeOK
  <2>2. c \in AuthorizedIn(log) \/ (r.type = "tool.authorized" /\ r.call = c)
    BY <1>2, <2>1, CallSetsAppend
  <2>3. r.type = "approval.requested" => r.call \notin AuthorizedIn(log)
    BY <1>2, PendingIsSound DEF LoopInv, Sound
  <2>4. AskOpen(log, c)
    BY <1>2, <2>1, <2>2, <2>3, AskOpenAppend
  <2>5. r.type = "tool.authorized" /\ r.call = c
    BY <2>2, <2>4 DEF AsksAnswered
  <2>6. script # <<>> /\ r = CurrentRecord
    BY <1>2, <2>5 DEF Pending
  <2>7. r.type = script[1].type /\ r.call = script[1].call
    BY <2>6, HeadOfScript DEF LoopInv
  <2>8. pc = "authorized" /\ cur = c
    BY <2>5, <2>6, <2>7, HeadShape DEF LoopInv, Note, About, MarkedTypes, TurnTerminalTypes
  <2> QED BY <2>4, <2>5, <2>6, <2>7, <2>8 DEF AsksAnswered
<1> QED BY <1>1, <1>2, AppendedEvent DEF LoopInv

LEMMA AsksAnsweredStep ==
  ASSUME LoopInv, AsksAnswered, [Next]_vars
  PROVE  AsksAnswered'
<1> USE DEF At, Continue, LoopInv
<1> DEFINE Ready == pc = "authorized" /\ script # <<>> /\ script[1].type = "tool.authorized"
                      => ~AskOpen(log, cur)
           Begun2 == pc = "executing" => cur \in AuthorizedIn(log)
<1>0. /\ (\A c \in AuthorizedIn(log) : ~AskOpen(log, c))'
      /\ Ready /\ Begun2 /\ log \in Seq(Event) /\ script \in Seq(Draft)
  BY AuthorizedIsAnswered DEF AsksAnswered, TypeInv, TypeOK
<1>1. CASE Emit
  <2>1. /\ script # <<>> /\ log' = Append(log, CurrentRecord) /\ script' = Tail(script)
        /\ UNCHANGED <<pc, cur>>
    BY <1>1 DEF Emit, Persist, turnVars
  <2>2. /\ CurrentRecord \in Event /\ CurrentRecord.type = script[1].type
        /\ CurrentRecord.call = script[1].call
    BY <2>1, HeadOfScript
  <2>3. Ready'
    <3>1. SUFFICES ASSUME pc = "authorized", Tail(script) # <<>>
                   PROVE  ~AskOpen(log', cur)
      BY <2>1
    <3>2. script[1].type = "approval.granted" /\ script[1].call = cur
      <4>1. Authorization(script)
        BY <2>1, <3>1 DEF ShapeInv
      <4>2. \A o : Tail(<<With("tool.authorized", cur, o)>>) = <<>>
        OBVIOUS
      <4>3. PICK g : script = <<With("approval.granted", cur, g), With("tool.authorized", cur, op)>>
        BY <3>1, <4>1, <4>2 DEF Authorization
      <4>4. script[1] = With("approval.granted", cur, g)
        BY <4>3
      <4> QED BY <4>4 DEF With
    <3> QED BY <1>0, <2>1, <2>2, <3>2, AskOpenAppend
  <2>4. Begun2'
    BY <2>1 DEF ShapeInv
  <2> QED BY <1>0, <2>3, <2>4 DEF AsksAnswered
<1>2. CASE EvaluateCall
  <2>1. /\ log' = log /\ cur' = cur /\ pc' # "executing"
        /\ pc = "evaluate" /\ script = <<>>
    BY <1>2 DEF EvaluateCall, RejectInput, RepeatedTooOften, Judged, Quiet, storeVars
  <2>2. cur \notin AskedIn(log)
    BY <2>1 DEF EffectInv, StageInv, Stage
  <2>3. ~AskOpen(log, cur)
    BY <2>2, OpenAskIsAsked
  <2> QED BY <1>0, <2>1, <2>3 DEF AsksAnswered
<1>3. CASE Answer
  <2>1. /\ pc' # "executing"
        /\ pc' = "authorized" => script'[1].type = "approval.granted"
    BY <1>3 DEF Answer, Grant, With
  <2> QED BY <1>0, <2>1 DEF AsksAnswered
<1>4. CASE Execute
  <2>1. /\ log' = log /\ cur' = cur /\ pc = "execute" /\ script = <<>> /\ pc' = "executing"
    BY <1>4 DEF Execute, storeVars, turnVars
  <2>2. cur \in AuthorizedIn(log)
    BY <2>1 DEF EffectInv, StageInv, Stage, FileInv, Chain
  <2> QED BY <1>0, <2>1, <2>2 DEF AsksAnswered
<1>5. CASE ModelReplies
  <2>1. PICK r \in Reply :
          ReplyBroken(r) \/ ReplyInvalid(r) \/ ReplyFinal(r) \/ ReplyWithTools(r)
    BY <1>5 DEF ModelReplies
  <2>2. pc' \in {"modelCancelled", "modelFailed", "end", "dispatch"}
    BY <2>1 DEF ReplyBroken, ReplyInvalid, ReplyFinal, ReplyWithTools
  <2> QED BY <1>0, <2>2 DEF AsksAnswered
<1>6. CASE StepTop \/ BuildContext \/ ModelFailed \/ EndOfStep \/ DispatchTool \/ AskApproval
           \/ ApprovalAborted \/ StartTool \/ ToolReturns
  <2>1. pc' \notin {"authorized", "executing"}
    BY <1>6 DEF StepTop, BuildContext, ModelFailed, EndOfStep, DispatchTool, AskApproval,
       ApprovalAborted, StartTool, ToolReturns, CancelCall
  <2> QED BY <1>0, <2>1 DEF AsksAnswered
<1>7. CASE EmitFails \/ ToolThrowsStorage \/ RepairRead \/ RepairRefresh \/ RepairCall
           \/ EndTurn \/ RepairGivesUp \/ RepairTurn \/ Crash \/ BeginTurn \/ Resume \/ ResumeStep
  <2>1. pc' \notin {"authorized", "executing"}
    BY <1>7 DEF EmitFails, ToolThrowsStorage, RepairRead, RepairRefresh, RepairCall, EndTurn,
       RepairGivesUp, RepairTurn, Crash, BeginTurn, Resume, ResumeStep, ResumeAppend, Return
  <2> QED BY <1>0, <2>1 DEF AsksAnswered
<1>8. CASE WriteAppend
  <2> DEFINE q == Record(wseq, 0, Note("model.changed"))
  <2>1. q \in Event /\ q.type = "model.changed"
    <3>1. Note("model.changed") \in Draft /\ wseq \in Nat
      BY DraftTypes, EventNames DEF TypeInv, TypeOK
    <3> QED BY <3>1, RecordType DEF Note
  <2>2. (log' = log \/ log' = Append(log, q)) /\ UNCHANGED <<pc, script, cur>>
    BY <1>8 DEF WriteAppend, Persist, AppendFails, Refuse, Lose, Blur, turnVars
  <2> HIDE DEF q
  <2>3. AskOpen(log', cur) => AskOpen(log, cur)
    BY <1>0, <2>1, <2>2, AskOpenAppend
  <2>4. AuthorizedIn(log) \subseteq AuthorizedIn(log')
    BY <1>0, <2>1, <2>2, CallSetsAppend
  <2> QED BY <1>0, <2>2, <2>3, <2>4 DEF AsksAnswered
<1>9. CASE Abort \/ WriteCheck \/ WriteRead \/ Done \/ UNCHANGED vars
  <2>1. UNCHANGED <<log, pc, script, cur>>
    BY <1>9 DEF Abort, WriteCheck, WriteRead, Done, vars, storeVars, turnVars
  <2> QED BY <1>0, <2>1 DEF AsksAnswered
<1> QED BY <1>1, <1>2, <1>3, <1>4, <1>5, <1>6, <1>7, <1>8, <1>9 DEF Next, LoopStep

(* A repair finds no other call open than the one in hand.                 *)
LEMMA RepairsTheCallStep ==
  ASSUME LoopInv, EndInv, RepairsTheCall, [Next]_vars
  PROVE  RepairsTheCall'
<1> USE DEF At, Continue, LoopInv
<1> DEFINE Places3 == {"repair", "repairCalls", "repairRefresh"}
<1>0. log \in Seq(Event) /\ (InLoop => DanglingCalls(log) \subseteq {cur})
  BY DEF TypeInv, TypeOK, EndInv, CallStillOpen
<1>1. ASSUME NEW r \in Event, log' = log \/ log' = Append(log, r),
             r.type = "tool.requested" => r.call = cur, DanglingCalls(log) \subseteq {cur}
      PROVE  DanglingCalls(log') \subseteq {cur}
  <2>1. ASSUME log' = Append(log, r)
        PROVE  DanglingCalls(log') \subseteq DanglingCalls(log) \cup {cur}
    <3>1. log \in Seq(Event)
      BY <1>0
    <3> HIDE DEF LoopInv
    <3> QED BY <1>1, <2>1, <3>1, OpenAppend
  <2> QED BY <1>1, <2>1
<1>2. CASE EmitFails
  <2>1. /\ script # <<>> /\ cur' = cur
        /\ log' = log \/ log' = Append(log, CurrentRecord)
    BY <1>2 DEF EmitFails, AppendFails, Refuse, Lose, Blur, turnVars
  <2>2. InLoop
    BY <2>1 DEF ShapeInv, InLoop, Repairing
  <2>3. /\ CurrentRecord \in Event /\ CurrentRecord.type = script[1].type
        /\ CurrentRecord.call = script[1].call
    BY <2>1, HeadOfScript
  <2>4. CurrentRecord.type = "tool.requested" => CurrentRecord.call = cur
    <3>1. "tool.requested" \in MarkedTypes \ TurnTerminalTypes
      BY DEF MarkedTypes, TurnTerminalTypes
    <3> QED BY <2>1, <2>3, <3>1, MarkedHead
  <2> QED BY <1>0, <1>1, <2>1, <2>2, <2>3, <2>4 DEF RepairsTheCall
<1>3. CASE ToolThrowsStorage
  <2>1. InLoop /\ log' = log /\ cur' = cur
    BY <1>3 DEF ToolThrowsStorage, storeVars, turnVars, InLoop, Repairing
  <2> QED BY <1>0, <2>1 DEF RepairsTheCall
<1>4. CASE RepairRead \/ RepairRefresh
  <2>1. log' = log /\ cur' = cur /\ pc \in Places3
    BY <1>4 DEF RepairRead, RepairRefresh, storeVars, turnVars
  <2> QED BY <2>1 DEF RepairsTheCall
<1>5. CASE RepairCall
  <2>1. cur' = cur /\ pc \in Places3 /\ script = <<>> /\ pc = "repairCalls"
    BY <1>5 DEF RepairCall, turnVars
  <2>2. ASSUME NEW r \in Event, log' = Append(log, r), Pending(r)
        PROVE  r.type # "tool.requested"
    BY <2>1, <2>2 DEF Pending
  <2>3. DanglingCalls(log') \subseteq {cur}
    <3>1. CASE log' = log
      BY <2>1, <3>1 DEF RepairsTheCall
    <3>2. CASE \E r \in Event : log' = Append(log, r) /\ Pending(r)
      BY <1>1, <2>1, <2>2, <3>2 DEF RepairsTheCall
    <3> QED BY <3>1, <3>2, AppendedEvent
  <2> QED BY <2>1, <2>3 DEF RepairsTheCall
<1>6. CASE WriteAppend
  <2> DEFINE q == Record(wseq, 0, Note("model.changed"))
  <2>1. q \in Event /\ q.type = "model.changed"
    <3>1. Note("model.changed") \in Draft /\ wseq \in Nat
      BY DraftTypes, EventNames DEF TypeInv, TypeOK
    <3> QED BY <3>1, RecordType DEF Note
  <2>2. (log' = log \/ log' = Append(log, q)) /\ UNCHANGED <<pc, cur>>
    BY <1>6 DEF WriteAppend, Persist, AppendFails, Refuse, Lose, Blur, turnVars
  <2> HIDE DEF q
  <2>3. DanglingCalls(log) \subseteq {cur} => DanglingCalls(log') \subseteq {cur}
    BY <1>1, <2>1, <2>2
  <2> QED BY <2>2, <2>3 DEF RepairsTheCall
<1>7. CASE Abort \/ WriteCheck \/ WriteRead \/ Done \/ UNCHANGED vars
  <2>1. UNCHANGED <<log, pc, cur>>
    BY <1>7 DEF Abort, WriteCheck, WriteRead, Done, vars, storeVars, turnVars
  <2> QED BY <2>1 DEF RepairsTheCall
<1>8. CASE EndTurn \/ RepairGivesUp \/ RepairTurn \/ Crash \/ BeginTurn \/ Resume \/ ResumeStep
  <2>1. pc' \notin Places3
    BY <1>8 DEF EndTurn, RepairGivesUp, RepairTurn, Crash, BeginTurn, Resume, ResumeStep,
       ResumeAppend, Return
  <2> QED BY <2>1 DEF RepairsTheCall
<1>9. CASE Emit
  <2>1. pc' \notin Places3
    BY <1>9 DEF Emit, ShapeInv
  <2> QED BY <2>1 DEF RepairsTheCall
<1>10. CASE ModelReplies
  <2>1. PICK r \in Reply :
          ReplyBroken(r) \/ ReplyInvalid(r) \/ ReplyFinal(r) \/ ReplyWithTools(r)
    BY <1>10 DEF ModelReplies
  <2>2. pc' \notin Places3
    BY <2>1 DEF ReplyBroken, ReplyInvalid, ReplyFinal, ReplyWithTools
  <2> QED BY <2>2 DEF RepairsTheCall
<1>11. CASE EvaluateCall
  <2>1. pc' \notin Places3
    BY <1>11 DEF EvaluateCall, RejectInput, RepeatedTooOften, Judged
  <2> QED BY <2>1 DEF RepairsTheCall
<1>12. CASE StepTop \/ BuildContext \/ ModelFailed \/ EndOfStep \/ DispatchTool \/ Answer
           \/ AskApproval \/ ApprovalAborted \/ StartTool \/ Execute \/ ToolReturns
  <2>1. pc' \notin Places3
    BY <1>12 DEF StepTop, BuildContext, ModelFailed, EndOfStep, DispatchTool, Answer, Grant,
       AskApproval, ApprovalAborted, StartTool, Execute, ToolReturns, CancelCall
  <2> QED BY <2>1 DEF RepairsTheCall
<1> QED BY <1>2, <1>3, <1>4, <1>5, <1>6, <1>7, <1>8, <1>9, <1>10, <1>11, <1>12
        DEF Next, LoopStep

LEMMA ViewInvInit == Init => ViewInv
<1> SUFFICES ASSUME Init
             PROVE  ViewInv
  OBVIOUS
<1>1. /\ Len(log) = 1 /\ DOMAIN log = {1} /\ log[1].type = "session.started"
      /\ log # <<>> /\ pc = "idle" /\ script = <<>> /\ active = FALSE
  BY DEF Init, Record, Note
<1>2. AuthorizedIn(log) = {}
  BY <1>1 DEF AuthorizedIn, CallsWith
<1>3. Undenied(<<>>)
  BY DEF Undenied
<1> QED BY <1>1, <1>2, <1>3 DEF ViewInv, LastWord, EndedClean, AsksAnswered, Denials,
        RepairsTheCall, ActiveRuns, ToolTerminalTypes, TurnTerminalTypes

LEMMA AppendedIsSome ==
  ASSUME NEW l \in Seq(Event), NEW r \in Event
  PROVE  Append(l, r) # <<>>
<1>1. Len(Append(l, r)) = Len(l) + 1 /\ Len(l) \in Nat
  BY AppendProperties
<1>2. Len(<<>>) = 0
  OBVIOUS
<1> QED BY <1>1, <1>2

LEMMA ViewInvStep ==
  ASSUME LoopInv, EndInv, ViewInv, [Next]_vars
  PROVE  ViewInv'
<1>1. log' # <<>>
  <2>1. ASSUME NEW r \in Event, log' = Append(log, r)
        PROVE  log' # <<>>
    <3>1. log \in Seq(Event)
      BY DEF LoopInv, TypeInv, TypeOK
    <3> QED BY <2>1, <3>1, AppendedIsSome
  <2> QED BY <2>1, AppendedEvent DEF LoopInv, ViewInv
<1> QED BY <1>1, LastWordStep, EndedCleanStep, AsksAnsweredStep, DenialsStep, RepairsTheCallStep,
        ActiveRunsStep DEF ViewInv, LoopInv

(* A call of an ended turn is shown with its end.                          *)
LEMMA EndedCallsAreTold ==
  ASSUME TypeInv, LastWord, TurnEndsClean,
         NEW t \in Turns(log), TurnOutcome(log, t) # "running",
         NEW i \in OfTurn(log, t) \cap Indices(log, {"tool.requested"})
  PROVE  ChatTurn(log, t).tools[log[i].call] \in ToolTerminalTypes
<1> DEFINE c == log[i].call
           told == OfCall(log, c) \cap Indices(log, ToolTerminalTypes \cup ApprovalTypes \cup {"tool.started"})
<1>1. Len(log) \in Nat /\ DOMAIN log = 1 .. Len(log)
  BY DEF TypeInv, TypeOK
<1>2. i \in 1 .. Len(log) /\ log[i].turn = t /\ log[i].type = "tool.requested"
  BY <1>1 DEF OfTurn, Indices
<1>3. PICK e \in DOMAIN log : log[e].turn = t /\ log[e].type \in TurnTerminalTypes
  BY DEF TurnOutcome, OfTurn, Indices
<1>4. i < e
  <2>1. i # e
    BY <1>2, <1>3 DEF TurnTerminalTypes
  <2>2. ~(e < i)
    BY <1>1, <1>2, <1>3 DEF TurnEndsClean, NothingAfterTheEnd
  <2> QED BY <1>1, <1>2, <1>3, <2>1, <2>2
<1>5. PICK k \in i + 1 .. e - 1 : log[k].type \in ToolTerminalTypes /\ log[k].call = c
  BY <1>1, <1>2, <1>3, <1>4 DEF TurnEndsClean, TurnClosesItsCalls
<1>6. k \in 1 .. Len(log)
  BY <1>1, <1>2, <1>3, <1>5
<1>7. told \in SUBSET (1 .. Len(log)) /\ k \in told
  BY <1>1, <1>5, <1>6 DEF OfCall, Indices
<1>8. Max(told) \in told /\ k <= Max(told)
  <2> HIDE DEF told
  <2> QED BY <1>1, <1>7, GreatestOf
<1>9. ASSUME NEW m \in told, k <= m
      PROVE  log[m].type \in ToolTerminalTypes
  <2>1. /\ m \in 1 .. Len(log) /\ log[m].call = c
        /\ log[m].type \in ToolTerminalTypes \cup ApprovalTypes \cup {"tool.started"}
    BY <1>1 DEF OfCall, Indices
  <2>2. CASE k = m
    BY <1>5, <2>2
  <2>3. CASE k < m
    <3>1. log[m].type \notin Spoken
      BY <1>1, <1>5, <1>6, <2>1, <2>3 DEF LastWord
    <3> QED BY <2>1, <3>1 DEF Spoken, ApprovalTypes
  <2> QED BY <1>6, <1>9, <2>1, <2>2, <2>3
<1>10. ToolStatus(log, c) \in ToolTerminalTypes
  <2>1. told # {} /\ log[Max(told)].type \in ToolTerminalTypes
    BY <1>7, <1>8, <1>9
  <2> QED BY <2>1 DEF ToolStatus
<1>11. c \in ChatTools(log, t)
  BY <1>1, <1>2 DEF ChatTools, OfTurn, Indices
<1>12. ChatTurn(log, t).tools[c] = ToolStatus(log, c)
  BY <1>11 DEF ChatTurn
<1> QED BY <1>10, <1>12

(* The event that ends a turn is shown as its end, with nothing left to do.*)
LEMMA EndIsShown ==
  ASSUME TypeInv, FileInv, LastWord, EndedClean, log # <<>>,
         log[Len(log)].type \in TurnTerminalTypes
  PROVE  LET shown == StreamEvent(log, active) IN
         /\ shown.type = "turn.terminal" /\ shown.view.phase = log[Len(log)].type
         /\ shown.view.can = [submit |-> TRUE, cancel |-> FALSE, respond |-> FALSE]
         /\ shown.view.pending = NoCall
<1> DEFINE n == Len(log)
           e == log[n]
           ends == Indices(log, TurnTerminalTypes)
           shown == StreamEvent(log, active)
<1>1. n \in Nat /\ DOMAIN log = 1 .. n /\ n \in 1 .. n
  BY DEF TypeInv, TypeOK
<1>2. DanglingCalls(log) = {} /\ IncompleteTurns(log) = {}
  BY DEF EndedClean
<1>3. PendingApproval(log) = NoCall
  BY <1>2, PendingIsOpen, OpenAskDangles
<1>4. LiveActive(log, active) = FALSE
  BY DEF LiveActive
<1>5. Phase(log, FALSE) = e.type
  <2>1. ends \in SUBSET (1 .. n) /\ n \in ends /\ \A k \in ends : k <= n
    BY <1>1 DEF Indices
  <2>2. Max(ends) = n
    <3> HIDE DEF ends, n
    <3> QED BY <1>1, <2>1, GreatestIs
  <2> QED BY <1>2, <2>1, <2>2 DEF Phase
<1>6. View(log, LiveActive(log, active))
        = [phase |-> e.type, pending |-> NoCall,
           can |-> [submit |-> TRUE, cancel |-> FALSE, respond |-> FALSE]]
  BY <1>3, <1>4, <1>5 DEF View, Capabilities
<1>7. shown.view = View(log, LiveActive(log, active))
  BY DEF StreamEvent
<1>8. shown.type = "turn.terminal"
  <2>1. e.type # "approval.requested" /\ e.type \in TurnTerminalTypes
    BY DEF TurnTerminalTypes
  <2> QED BY <2>1 DEF StreamEvent
<1> QED BY <1>6, <1>7, <1>8

(* An approval is offered while the loop still deals with its call.        *)
LEMMA OfferIsOfTheCall ==
  ASSUME LoopInv, EndInv, ViewInv, View(log, active).can.respond
  PROVE  /\ PendingApproval(log) = cur
         /\ pc \in {"ask", "waiting", "repair", "repairCalls", "repairRefresh"} \/ script # <<>>
<1> DEFINE c == PendingApproval(log)
<1> USE DEF LoopInv, ViewInv
<1>1. active /\ c # NoCall
  BY DEF View, Capabilities
<1>2. AskOpen(log, c)
  BY <1>1, PendingIsOpen
<1>3. c \in DanglingCalls(log) /\ c \in AskedIn(log)
  BY <1>2, OpenAskDangles, OpenAskIsAsked DEF EffectInv
<1> HIDE DEF c
<1>4. Running /\ pc \in Places
  BY <1>1 DEF ActiveRuns, TypeInv, TypeOK
<1>5. CASE pc \in {"repair", "repairCalls", "repairRefresh"}
  BY <1>3, <1>5 DEF RepairsTheCall, c
<1>6. CASE InLoop
  <2>1. c = cur
    BY <1>3, <1>6 DEF EndInv, CallStillOpen
  <2>2. ASSUME script = <<>>, pc \notin {"ask", "waiting"}
        PROVE  FALSE
    <3>1. pc \in Busy
      BY <1>3, <1>6, <2>2 DEF EndInv, CallStillOpen
    <3>2. pc # "evaluate"
      BY <1>3, <2>1, <2>2 DEF EffectInv, StageInv, Stage
    <3>3. pc \in {"authorized", "execute", "executing"}
      BY <2>2, <3>1, <3>2 DEF Busy
    <3>4. cur \in AuthorizedIn(log)
      BY <2>2, <3>3 DEF EffectInv, StageInv, Stage, FileInv, Chain, AsksAnswered
    <3> QED BY <1>2, <2>1, <3>4 DEF AsksAnswered
  <2> QED BY <2>1, <2>2 DEF c
<1> QED BY <1>4, <1>5, <1>6 DEF Running, InLoop, Repairing

(* What the console shows of an ended turn is final, and what it lets the  *)
(* user do is still to be done, whatever fails, as long as the appends     *)
(* with which a repair closes calls reach the file.                        *)
THEOREM ViewShowsTheTurn == Spec /\ [][RecoveryReachesFile]_vars => []ViewIsTrue
<1>1. LoopInv /\ EndInv /\ [Next]_vars /\ [RecoveryReachesFile]_vars => EndInv'
  BY RecoveryFrame, EndInvStep DEF LoopInv
<1>2. LoopInv /\ EndInv /\ ViewInv => ViewIsTrue
  <2>1. SUFFICES ASSUME LoopInv, EndInv, ViewInv
                 PROVE  ViewIsTrue
    OBVIOUS
  <2>2. TypeInv /\ FileInv /\ LastWord /\ EndedClean /\ TurnEndsClean /\ log # <<>>
    BY <2>1 DEF LoopInv, EffectInv, EndInv, EndFile, ViewInv
  <2> QED BY <2>1, <2>2, EndedCallsAreTold, EndIsShown, OfferIsOfTheCall DEF ViewIsTrue
<1>3. LoopInv /\ EndInv /\ ViewInv /\ [Next]_vars => ViewInv'
  BY ViewInvStep
<1> QED BY LoopInvInit, LoopInvStep, EndInvInit, ViewInvInit, <1>1, <1>2, <1>3, PTL DEF Spec

-----------------------------------------------------------------------------
(* What the details of a trace rest on                                     *)

(* What one more event adds.                                               *)
LEMMA AnswersAppend ==
  ASSUME log \in Seq(Event), NEW r \in Event, log' = Append(log, r)
  PROVE  /\ RefusedIn(log') = RefusedIn(log) \cup
              (IF r.type = "approval.denied" THEN {r.call} ELSE {})
         /\ DeniedIn(log') = DeniedIn(log) \cup
              (IF r.type = "tool.denied" THEN {r.call} ELSE {})
         /\ Begun(log') = Begun(log) \cup (IF r.type = "turn.started" THEN {r.turn} ELSE {})
<1>1. /\ CallsWith(Append(log, r), {"approval.denied"}) =
           CallsWith(log, {"approval.denied"}) \cup
             (IF r.type \in {"approval.denied"} THEN {r.call} ELSE {})
      /\ CallsWith(Append(log, r), {"tool.denied"}) =
           CallsWith(log, {"tool.denied"}) \cup
             (IF r.type \in {"tool.denied"} THEN {r.call} ELSE {})
  BY CallsWithAppend
<1>2. TurnsWith(Append(log, r), {"turn.started"}) =
        TurnsWith(log, {"turn.started"}) \cup
          (IF r.type \in {"turn.started"} THEN {r.turn} ELSE {})
  BY TurnsWithAppend
<1> QED BY <1>1, <1>2 DEF RefusedIn, DeniedIn, Begun

LEMMA TailItems ==
  ASSUME TypeInv, script # <<>>, script' = Tail(script), NEW i \in DOMAIN script'
  PROVE  i + 1 \in DOMAIN script /\ script'[i] = script[i + 1] /\ 1 \in DOMAIN script
<1>1. script \in Seq(Draft)
  BY DEF TypeInv, TypeOK
<1> QED BY <1>1, TailOfScript, HeadOfScript

(* An event about a call that the loop queued is about the call in hand.   *)
LEMMA QueuedCall ==
  ASSUME LoopInv, Denials, Named(script), script # <<>>, script[1].call # NoCall,
         script[1].type \notin {"model.tool_call", "tool.requested"}
  PROVE  script[1].call \in RequestedIn(log)
<1> USE DEF LoopInv
<1> DEFINE r == CurrentRecord
<1>1. /\ r \in Event /\ r.type = script[1].type /\ r.call = script[1].call /\ 1 \in DOMAIN script
  BY HeadOfScript
<1>2. Pending(r)
  BY DEF Pending
<1> HIDE DEF r
<1>3. r.type \in Spoken \cup ToolTerminalTypes
  BY <1>1 DEF Named, CallTypes
<1>4. CASE r.type \in ToolTerminalTypes
  BY <1>1, <1>4 DEF CallInv, TerminalsAreFresh
<1>5. CASE r.type = "approval.denied"
  <2>1. script = Denial(cur)
    BY <1>1, <1>5 DEF Denials, Undenied
  <2>2. script[1].call = cur /\ 2 \in DOMAIN script /\ script[2].type = "tool.denied"
    BY <2>1 DEF Denial, About
  <2> QED BY <2>2 DEF CallInv, TerminalsAreFresh, ToolTerminalTypes
<1>6. CASE r.type \in {"approval.requested", "approval.granted", "tool.authorized", "tool.started"}
  <2>1. Sound(r)
    BY <1>1, <1>2, PendingIsSound
  <2>2. r.call \in RequestedIn(log)
    BY <1>6, <2>1 DEF Sound, EffectInv, FileInv, Chain
  <2> QED BY <1>1, <2>2
<1> QED BY <1>3, <1>4, <1>5, <1>6 DEF Spoken

LEMMA NamedInvStep ==
  ASSUME LoopInv, Denials, NamedInv, [Next]_vars
  PROVE  NamedInv'
<1> USE DEF LoopInv
<1>1. Named(script')
  <2>1. CASE Emit
    <3>1. script # <<>> /\ script' = Tail(script)
      BY <2>1 DEF Emit
    <3>2. \A i \in DOMAIN script' : i + 1 \in DOMAIN script /\ script'[i] = script[i + 1]
      BY <3>1, TailItems
    <3> QED BY <3>2 DEF NamedInv, Named
  <2>2. CASE Decides
    BY <2>2 DEF Decides, DispatchTool, EvaluateCall, RejectInput, RepeatedTooOften, Judged,
       AskApproval, Answer, Grant, ApprovalAborted, StartTool, ToolReturns, CancelCall, At,
       Continue, Named, CallTypes, Spoken, ToolTerminalTypes, About, With, Note
  <2>3. CASE Neutral(script')
    BY <2>3 DEF Neutral, Named, CallTypes
  <2>4. CASE UNCHANGED script
    BY <2>4 DEF NamedInv
  <2> QED BY <2>1, <2>2, <2>3, <2>4, DraftsQueued
<1>2. ASSUME NEW r \in Event, log' = Append(log, r), Pending(r), r.call # NoCall,
             r.type \notin {"model.tool_call", "tool.requested"}
      PROVE  r.call \in RequestedIn(log)
  <2>1. CASE r.call \in orphans /\ pc \in Repairing
    BY <2>1 DEF CallInv, OrphansAreOpen
  <2>2. CASE script # <<>> /\ r = CurrentRecord
    <3>1. r.type = script[1].type /\ r.call = script[1].call
      BY <2>2, HeadOfScript
    <3> QED BY <1>2, <2>2, <3>1, QueuedCall DEF NamedInv
  <2> QED BY <1>2, <2>1, <2>2 DEF Pending, Repairing
<1>3. \A i \in DOMAIN log' :
        log'[i].call = NoCall \/ log'[i].type = "model.tool_call" \/ log'[i].call \in RequestedIn(log')
  <2>1. CASE log' = log
    BY <2>1 DEF NamedInv
  <2>2. ASSUME NEW r \in Event, log' = Append(log, r), Pending(r), NEW i \in DOMAIN log',
               log'[i].call # NoCall, log'[i].type # "model.tool_call"
        PROVE  log'[i].call \in RequestedIn(log')
    <3>1. log \in Seq(Event)
      BY DEF TypeInv, TypeOK
    <3>2. /\ Len(log) \in Nat /\ log'[Len(log) + 1] = r
          /\ \A j \in 1 .. Len(log) : log'[j] = log[j]
          /\ DOMAIN log' = 1 .. Len(log) + 1 /\ DOMAIN log = 1 .. Len(log)
      BY <2>2, <3>1, AppendProperties
    <3>3. RequestedIn(log') = RequestedIn(log) \cup (IF r.type = "tool.requested" THEN {r.call} ELSE {})
      BY <2>2, <3>1, CallSetsAppend
    <3>4. CASE i \in 1 .. Len(log)
      BY <2>2, <3>2, <3>3, <3>4 DEF NamedInv
    <3>5. CASE i = Len(log) + 1
      BY <1>2, <2>2, <3>2, <3>3, <3>5
    <3> QED BY <3>2, <3>4, <3>5
  <2> QED BY <2>1, <2>2, AppendedEvent
<1> QED BY <1>1, <1>3 DEF NamedInv

(* What stays while a draft is queued.                                     *)
LEMMA AnswersStay ==
  ASSUME TypeInv, [Next]_vars
  PROVE  /\ AskedIn(log) \subseteq AskedIn(log') /\ RefusedIn(log) \subseteq RefusedIn(log')
         /\ StartedIn(log) \subseteq StartedIn(log') /\ Begun(log) \subseteq Begun(log')
         /\ Decides => log' = log
<1>1. log \in Seq(Event)
  BY DEF TypeInv, TypeOK
<1>2. Decides => log' = log
  BY DEF Decides, DispatchTool, EvaluateCall, AskApproval, Answer, ApprovalAborted, StartTool,
     ToolReturns, Quiet, storeVars
<1>3. CASE log' = log
  BY <1>2, <1>3
<1>4. ASSUME NEW r \in Event, log' = Append(log, r)
      PROVE  /\ AskedIn(log) \subseteq AskedIn(log') /\ RefusedIn(log) \subseteq RefusedIn(log')
             /\ StartedIn(log) \subseteq StartedIn(log') /\ Begun(log) \subseteq Begun(log')
  BY <1>1, <1>4, CallSetsAppend, AnswersAppend
<1> QED BY <1>2, <1>3, <1>4, AppendedEvent

(* Where an event of a call comes from.                                    *)
LEMMA QueuedAlone ==
  ASSUME LoopInv, NEW r \in Event, Pending(r),
         r.type \notin {"tool.failed", "turn.failed", "session.resumed", "model.changed"}
  PROVE  /\ script # <<>> /\ r = CurrentRecord /\ 1 \in DOMAIN script
         /\ r.type = script[1].type /\ r.call = script[1].call /\ r.turn = turn
BY HeadOfScript DEF Pending, LoopInv

LEMMA AnswersAskedStep ==
  ASSUME LoopInv, Denials, AskedInv, [Next]_vars
  PROVE  AnswersAsked'
<1> USE DEF LoopInv
<1>1. CASE log' = log
  BY <1>1 DEF AskedInv, AnswersAsked, GrantedIn, RefusedIn, AskedIn
<1>2. ASSUME NEW r \in Event, log' = Append(log, r), Pending(r)
      PROVE  AnswersAsked'
  <2>1. log \in Seq(Event)
    BY DEF TypeInv, TypeOK
  <2>2. r.type \in {"approval.granted", "approval.denied"} => r.call \in AskedIn(log)
    <3>1. SUFFICES ASSUME r.type \in {"approval.granted", "approval.denied"}
                   PROVE  r.call \in AskedIn(log)
      OBVIOUS
    <3>2. script # <<>> /\ r.type = script[1].type /\ r.call = script[1].call
      BY <1>2, <3>1, QueuedAlone
    <3>3. cur \in AskedIn(log)
      BY <3>1, <3>2 DEF AskedInv
    <3>4. script[1].call = cur
      <4>1. CASE r.type = "approval.granted"
        BY <3>2, <4>1, MarkedHead DEF MarkedTypes, TurnTerminalTypes
      <4>2. CASE r.type = "approval.denied"
        <5>1. script = Denial(cur)
          BY <1>2, <3>2, <4>2, QueuedAlone DEF Denials, Undenied
        <5> QED BY <5>1 DEF Denial, About
      <4> QED BY <3>1, <4>1, <4>2
    <3> QED BY <3>2, <3>3, <3>4
  <2>3. /\ GrantedIn(log') = GrantedIn(log) \cup (IF r.type = "approval.granted" THEN {r.call} ELSE {})
        /\ RefusedIn(log') = RefusedIn(log) \cup (IF r.type = "approval.denied" THEN {r.call} ELSE {})
        /\ AskedIn(log) \subseteq AskedIn(log')
    BY <1>2, <2>1, CallSetsAppend, AnswersAppend
  <2>4. AnswersAsked
    BY DEF AskedInv
  <2> QED BY <2>2, <2>3, <2>4 DEF AnswersAsked
<1> QED BY <1>1, <1>2, AppendedEvent

LEMMA AskedInvStep ==
  ASSUME LoopInv, Denials, AskedInv, [Next]_vars
  PROVE  AskedInv'
<1> USE DEF LoopInv
<1> DEFINE Open == pc = "waiting" \/ (pc = "ask" /\ script = <<>>) => cur \in AskedIn(log)
           Answered == script # <<>> /\ script[1].type \in {"approval.granted", "approval.denied"} =>
                         cur \in AskedIn(log)
<1>0. Open /\ Answered /\ AnswersAsked' /\ AskedIn(log) \subseteq AskedIn(log')
  BY AnswersAskedStep, AnswersStay DEF AskedInv
<1>1. CASE Emit
  <2>1. /\ script # <<>> /\ log' = Append(log, CurrentRecord) /\ script' = Tail(script)
        /\ UNCHANGED <<pc, cur>> /\ log \in Seq(Event)
    BY <1>1 DEF Emit, Persist, turnVars, TypeInv, TypeOK
  <2>2. CurrentRecord \in Event /\ CurrentRecord.type = script[1].type /\ CurrentRecord.call = script[1].call
    BY <2>1, HeadOfScript
  <2>3. Open'
    <3>1. SUFFICES ASSUME pc \in {"waiting", "ask"}
                   PROVE  cur \in AskedIn(log')
      BY <2>1
    <3>2. pc = "ask" /\ script = <<About("approval.requested", cur)>>
      BY <2>1, <3>1 DEF ShapeInv
    <3>3. CurrentRecord.type = "approval.requested" /\ CurrentRecord.call = cur
      BY <2>2, <3>2 DEF About
    <3> QED BY <2>1, <2>2, <3>3, CallSetsAppend
  <2>4. ASSUME script' # <<>>
        PROVE  script'[1].type \notin {"approval.granted", "approval.denied"}
    <3>1. 1 \in DOMAIN script'
      BY <2>4, TypeInvStep, HeadOfScript
    <3>2. 2 \in DOMAIN script /\ script'[1] = script[2]
      BY <2>1, <3>1, TailItems
    <3>3. script[2].type # "approval.denied"
      BY <3>2 DEF Denials, Undenied, Denial, About
    <3>4. CASE script'[1].type = "approval.granted"
      <4>1. ShapeInv'
        BY ShapeInvStep
      <4>2. pc = "authorized"
        BY <2>1, <2>4, <3>1, <3>4, <4>1 DEF ShapeInv, Plain, Final, MarkedTypes, TurnTerminalTypes,
           Note, About
      <4>3. Authorization(script)
        BY <2>1, <4>2 DEF ShapeInv
      <4>4. \A o : 2 \notin DOMAIN <<With("tool.authorized", cur, o)>>
        OBVIOUS
      <4>5. PICK g : script = <<With("approval.granted", cur, g), With("tool.authorized", cur, op)>>
        BY <3>2, <4>3, <4>4 DEF Authorization
      <4>6. script[2] = With("tool.authorized", cur, op)
        BY <4>5
      <4> QED BY <3>2, <3>4, <4>6 DEF With
    <3> QED BY <3>2, <3>3, <3>4
  <2> QED BY <1>0, <2>3, <2>4 DEF AskedInv
<1>2. CASE Decides
  <2>1. log' = log
    BY <1>2, AnswersStay
  <2>2. CASE DispatchTool \/ EvaluateCall \/ ApprovalAborted \/ StartTool \/ ToolReturns
    <3>1. /\ pc' # "waiting" /\ ~(pc' = "ask" /\ script' = <<>>)
          /\ script'[1].type \notin {"approval.granted", "approval.denied"}
      BY <2>2 DEF DispatchTool, EvaluateCall, RejectInput, RepeatedTooOften, Judged,
         ApprovalAborted, StartTool, ToolReturns, CancelCall, Continue, About, With, Note
    <3> QED BY <1>0, <3>1 DEF AskedInv
  <2>3. CASE AskApproval \/ Answer
    <3>1. cur' = cur /\ cur \in AskedIn(log)
      BY <1>0, <2>3 DEF AskApproval, Answer, Same, At
    <3> QED BY <1>0, <2>1, <3>1 DEF AskedInv
  <2> QED BY <1>2, <2>2, <2>3 DEF Decides
<1>3. CASE UNCHANGED <<script, pc, cur>>
  BY <1>0, <1>3 DEF AskedInv
<1>4. CASE Neutral(script') /\ pc' \notin {"ask", "waiting"}
  <2>1. script' # <<>> => script'[1].type \notin {"approval.granted", "approval.denied"}
    <3>1. script' # <<>> => 1 \in DOMAIN script'
      BY TypeInvStep, HeadOfScript
    <3> QED BY <1>4, <3>1 DEF Neutral, CallTypes, Spoken
  <2> QED BY <1>0, <1>4, <2>1 DEF AskedInv
<1> QED BY <1>1, <1>2, <1>3, <1>4, DraftsQueued

LEMMA RanInvStep ==
  ASSUME LoopInv, EndInv, RanInv, [Next]_vars
  PROVE  RanInv'
<1> USE DEF LoopInv
<1>0. /\ StartedIn(log) \subseteq StartedIn(log') /\ Begun(log) \subseteq Begun(log')
      /\ Decides => log' = log
  BY AnswersStay
<1>1. CompletedRan'
  <2>1. CASE log' = log
    BY <2>1 DEF RanInv, CompletedRan, StartedIn, Begun
  <2>2. ASSUME NEW r \in Event, log' = Append(log, r), Pending(r), NEW i \in DOMAIN log',
               log'[i].type = "tool.completed"
        PROVE  log'[i].call \in StartedIn(log') /\ log'[i].turn \in Begun(log')
    <3>1. log \in Seq(Event)
      BY DEF TypeInv, TypeOK
    <3>2. /\ Len(log) \in Nat /\ log'[Len(log) + 1] = r
          /\ \A j \in 1 .. Len(log) : log'[j] = log[j]
          /\ DOMAIN log' = 1 .. Len(log) + 1 /\ DOMAIN log = 1 .. Len(log)
      BY <2>2, <3>1, AppendProperties
    <3>3. CASE i \in 1 .. Len(log)
      BY <1>0, <2>2, <3>2, <3>3 DEF RanInv, CompletedRan
    <3>4. CASE i = Len(log) + 1
      <4>1. /\ script # <<>> /\ 1 \in DOMAIN script /\ r.type = script[1].type
            /\ r.call = script[1].call /\ r.turn = turn /\ r.type = "tool.completed"
        BY <2>2, <3>2, <3>4, QueuedAlone
      <4>2. r.call = cur /\ cur \in DanglingCalls(log)
        BY <4>1, ScriptedTerminal DEF ToolTerminalTypes
      <4>3. turn \in Begun(log)
        <5>1. IncompleteTurns(log) # {} /\ IncompleteTurns(log) \subseteq {turn}
          BY <4>2, DanglingIsOpen DEF EndInv, EndFile, TurnsInv
        <5> QED BY <5>1 DEF IncompleteTurns, Begun
      <4>4. cur \in StartedIn(log)
        BY <4>1 DEF RanInv
      <4> QED BY <1>0, <3>2, <3>4, <4>1, <4>2, <4>3, <4>4
    <3> QED BY <3>2, <3>3, <3>4
  <2> QED BY <2>1, <2>2, AppendedEvent DEF CompletedRan
<1>2. CASE Emit
  <2>1. /\ script # <<>> /\ script' = Tail(script) /\ UNCHANGED <<pc, cur>>
    BY <1>2 DEF Emit, turnVars
  <2>2. \A i \in DOMAIN script' : i + 1 \in DOMAIN script /\ script'[i] = script[i + 1]
    BY <2>1, TailItems
  <2> QED BY <1>0, <1>1, <2>1, <2>2 DEF RanInv
<1>3. CASE Decides
  <2>1. CASE ToolReturns
    <3>1. cur' = cur /\ cur \in StartedIn(log) /\ pc' # "executing"
      BY <2>1 DEF ToolReturns, CancelCall, At, Continue, Same, RanInv
    <3> QED BY <1>0, <1>1, <3>1 DEF RanInv
  <2>2. CASE DispatchTool \/ EvaluateCall \/ AskApproval \/ Answer \/ ApprovalAborted \/ StartTool
    <3>1. pc' # "executing" /\ \A i \in DOMAIN script' : script'[i].type # "tool.completed"
      BY <2>2 DEF DispatchTool, EvaluateCall, RejectInput, RepeatedTooOften, Judged, AskApproval,
         Answer, Grant, ApprovalAborted, StartTool, CancelCall, Continue, About, With, Note
    <3> QED BY <1>1, <3>1 DEF RanInv
  <2> QED BY <1>3, <2>1, <2>2 DEF Decides
<1>4. CASE UNCHANGED <<script, pc, cur>>
  BY <1>0, <1>1, <1>4 DEF RanInv
<1>5. CASE Neutral(script') /\ (pc' = "executing" => Execute)
  <2>1. \A i \in DOMAIN script' : script'[i].type # "tool.completed"
    BY <1>5 DEF Neutral, CallTypes, ToolTerminalTypes
  <2>2. pc' = "executing" => cur' \in StartedIn(log)
    <3>1. Execute => cur' = cur /\ pc = "execute" /\ script = <<>>
      BY DEF Execute, At, turnVars
    <3> QED BY <1>5, <3>1 DEF EffectInv, StageInv, Stage
  <2> QED BY <1>0, <1>1, <2>1, <2>2 DEF RanInv
<1> QED BY <1>2, <1>3, <1>4, <1>5, DraftsQueued

LEMMA DeniedInvStep ==
  ASSUME LoopInv, Denials, DeniedInv, [Next]_vars
  PROVE  DeniedInv'
<1> USE DEF LoopInv
<1> DEFINE Queued == \A i \in DOMAIN script :
                       script[i].type = "tool.denied" /\ cur \in AskedIn(log) =>
                         cur \in RefusedIn(log) \/ script[1].type = "approval.denied"
<1>0. /\ AskedIn(log) \subseteq AskedIn(log') /\ RefusedIn(log) \subseteq RefusedIn(log')
      /\ Decides => log' = log
      /\ log \in Seq(Event) /\ Queued
  BY AnswersStay DEF DeniedInv, TypeInv, TypeOK
<1>1. DenialsAnswered'
  <2>1. CASE log' = log
    BY <2>1 DEF DeniedInv, DenialsAnswered, DeniedIn, AskedIn, RefusedIn
  <2>2. ASSUME NEW r \in Event, log' = Append(log, r), Pending(r)
        PROVE  DenialsAnswered'
    <3>1. r.type = "tool.denied" /\ r.call \in AskedIn(log) => r.call \in RefusedIn(log)
      <4>1. SUFFICES ASSUME r.type = "tool.denied"
                     PROVE  r.call \in AskedIn(log) => r.call \in RefusedIn(log)
        OBVIOUS
      <4>2. 1 \in DOMAIN script /\ script[1].type = "tool.denied" /\ r.call = script[1].call
        BY <2>2, <4>1, QueuedAlone
      <4>3. r.call = cur
        BY <4>2 DEF CallInv, TerminalsAreFresh, ToolTerminalTypes
      <4> QED BY <1>0, <4>2, <4>3
    <3>2. r.type = "approval.requested" => r.call \notin DeniedIn(log)
      <4>1. r.type = "approval.requested" => r.call \notin Closed(log)
        BY <2>2, SpokenIsOpen DEF Spoken
      <4>2. DeniedIn(log) \subseteq Closed(log)
        BY DEF DeniedIn, Closed, CallsWith, ToolTerminalTypes
      <4> QED BY <4>1, <4>2
    <3>3. /\ AskedIn(log') = AskedIn(log) \cup (IF r.type = "approval.requested" THEN {r.call} ELSE {})
          /\ DeniedIn(log') = DeniedIn(log) \cup (IF r.type = "tool.denied" THEN {r.call} ELSE {})
      BY <1>0, <2>2, CallSetsAppend, AnswersAppend
    <3>4. DenialsAnswered
      BY DEF DeniedInv
    <3> QED BY <1>0, <3>1, <3>2, <3>3, <3>4 DEF DenialsAnswered
  <2> QED BY <2>1, <2>2, AppendedEvent
<1>2. CASE Emit
  <2>1. /\ script # <<>> /\ script' = Tail(script) /\ UNCHANGED <<pc, cur>>
        /\ log' = Append(log, CurrentRecord)
    BY <1>2 DEF Emit, Persist, turnVars
  <2>2. CurrentRecord \in Event /\ CurrentRecord.type = script[1].type /\ CurrentRecord.call = script[1].call
    BY <2>1, HeadOfScript
  <2>3. ASSUME NEW i \in DOMAIN script', script'[i].type = "tool.denied", cur \in AskedIn(log')
        PROVE  cur \in RefusedIn(log')
    <3>1. i + 1 \in DOMAIN script /\ script[i + 1].type = "tool.denied" /\ 1 \in DOMAIN script
      BY <2>1, <2>3, TailItems
    <3>2. pc \in {"dispatch", "end"}
      BY <3>1 DEF CallInv, TerminalsAreFresh, ToolTerminalTypes
    <3>3. script[1].type # "approval.requested"
      BY <2>1, <3>2, MarkedHead DEF MarkedTypes, TurnTerminalTypes
    <3>4. AskedIn(log') = AskedIn(log)
      BY <1>0, <2>1, <2>2, <3>3, CallSetsAppend
    <3>5. CASE script[1].type = "approval.denied"
      <4>1. script[1].call = cur
        BY <3>1, <3>5 DEF Denials, Undenied, Denial, About
      <4> QED BY <1>0, <2>1, <2>2, <3>5, <4>1, AnswersAppend
    <3> QED BY <1>0, <2>3, <3>1, <3>4, <3>5
  <2> QED BY <1>1, <2>1, <2>3 DEF DeniedInv
<1>3. CASE Decides
  <2>1. CASE EvaluateCall
    <3>1. cur' = cur /\ cur \notin AskedIn(log) /\ log' = log
      BY <1>0, <1>3, <2>1 DEF EvaluateCall, At, EffectInv, StageInv, Stage
    <3> QED BY <1>1, <3>1 DEF DeniedInv
  <2>2. CASE Answer
    <3>1. \A i \in DOMAIN script' : script'[i].type = "tool.denied" => script'[1].type = "approval.denied"
      BY <2>2 DEF Answer, Grant, Continue, About, With, Note
    <3> QED BY <1>1, <3>1 DEF DeniedInv
  <2>3. CASE DispatchTool \/ AskApproval \/ ApprovalAborted \/ StartTool \/ ToolReturns
    <3>1. \A i \in DOMAIN script' : script'[i].type # "tool.denied"
      BY <2>3 DEF DispatchTool, AskApproval, ApprovalAborted, StartTool, ToolReturns, CancelCall,
         Continue, About, With, Note
    <3> QED BY <1>1, <3>1 DEF DeniedInv
  <2> QED BY <1>3, <2>1, <2>2, <2>3 DEF Decides
<1>4. CASE UNCHANGED <<script, pc, cur>>
  <2>1. CASE log' = log
    BY <1>0, <1>1, <1>4, <2>1 DEF DeniedInv
  <2>2. ASSUME NEW r \in Event, log' = Append(log, r), Pending(r)
        PROVE  DeniedInv'
    <3>1. ASSUME NEW i \in DOMAIN script, script[i].type = "tool.denied"
          PROVE  AskedIn(log') = AskedIn(log)
      <4>1. pc \in {"dispatch", "end"}
        BY <3>1 DEF CallInv, TerminalsAreFresh, ToolTerminalTypes
      <4>2. r.type # "approval.requested"
        BY <2>2, <4>1, QueuedAlone, MarkedHead DEF MarkedTypes, TurnTerminalTypes
      <4> QED BY <1>0, <2>2, <4>2, CallSetsAppend
    <3> QED BY <1>0, <1>1, <1>4, <3>1 DEF DeniedInv
  <2> QED BY <2>1, <2>2, AppendedEvent
<1>5. CASE Neutral(script')
  <2>1. \A i \in DOMAIN script' : script'[i].type # "tool.denied"
    BY <1>5 DEF Neutral, CallTypes, ToolTerminalTypes
  <2> QED BY <1>1, <2>1 DEF DeniedInv
<1> QED BY <1>2, <1>3, <1>4, <1>5, DraftsQueued

LEMMA TraceInvInit == Init => TraceInv
<1> SUFFICES ASSUME Init
             PROVE  TraceInv
  OBVIOUS
<1>1. /\ DOMAIN log = {1} /\ log[1].type = "session.started" /\ log[1].call = NoCall
      /\ pc = "idle" /\ script = <<>> /\ DOMAIN script = {}
  BY DEF Init, Record, Note
<1>2. GrantedIn(log) = {} /\ RefusedIn(log) = {} /\ DeniedIn(log) = {}
  BY <1>1 DEF GrantedIn, RefusedIn, DeniedIn, CallsWith
<1> QED BY <1>1, <1>2 DEF TraceInv, NamedInv, Named, AskedInv, AnswersAsked, RanInv, CompletedRan,
        DeniedInv, DenialsAnswered

LEMMA TraceInvStep ==
  ASSUME LoopInv, EndInv, ViewInv, TraceInv, [Next]_vars
  PROVE  TraceInv'
BY NamedInvStep, AskedInvStep, RanInvStep, DeniedInvStep DEF TraceInv, ViewInv

-----------------------------------------------------------------------------
(* The details of a trace whose last event ends a turn                     *)

CallsClosed == DanglingCalls(log) = {} /\ IncompleteTurns(log) = {}

(* Every requested call has an end, which is the last that is told of it.  *)
EndsCall(k, c) ==
  /\ k \in DOMAIN log /\ log[k].call = c /\ log[k].type \in ToolTerminalTypes
  /\ \A j \in DOMAIN log :
       log[j].call = c /\ log[j].type \in {"tool.requested"} \cup Spoken \cup ToolTerminalTypes
         => j <= k

LEMMA CallHasItsEnd ==
  ASSUME LoopInv, EndInv, ViewInv, CallsClosed, NEW c \in RequestedIn(log)
  PROVE  \E k \in DOMAIN log : EndsCall(k, c)
<1>1. DOMAIN log = 1 .. Len(log) /\ Len(log) \in Nat
  BY DEF LoopInv, TypeInv, TypeOK
<1>2. OneTerminalPerCall /\ ClosedAfterRequest /\ LastWord
  BY DEF LoopInv, CallInv, OneTerminal, EndInv, EndFile, ViewInv
<1>3. c \in Closed(log)
  BY DEF CallsClosed, DanglingCalls, Closed, RequestedIn
<1>4. PICK k \in DOMAIN log : log[k].type \in ToolTerminalTypes /\ log[k].call = c
  BY <1>3 DEF Closed, CallsWith
<1>5. ASSUME NEW i \in DOMAIN log, NEW j \in DOMAIN log, i < j, log[i].type \in ToolTerminalTypes,
             log[j].type \in ToolTerminalTypes, log[i].call = c, log[j].call = c
      PROVE  FALSE
  BY <1>1, <1>2, <1>5 DEF OneTerminalPerCall
<1>6. ASSUME NEW j \in DOMAIN log, log[j].call = c, log[j].type = "tool.requested"
      PROVE  j <= k
  <2>1. PICK m \in j + 1 .. Len(log) : log[m].type \in ToolTerminalTypes /\ log[m].call = c
    BY <1>2, <1>3, <1>6 DEF ClosedAfterRequest
  <2> QED BY <1>1, <1>4, <1>5, <2>1
<1>7. ASSUME NEW j \in DOMAIN log, log[j].call = c, log[j].type \in Spoken
      PROVE  j <= k
  BY <1>1, <1>2, <1>4, <1>7 DEF LastWord
<1>8. ASSUME NEW j \in DOMAIN log, log[j].call = c, log[j].type \in ToolTerminalTypes
      PROVE  j <= k
  BY <1>1, <1>4, <1>5, <1>8
<1> QED BY <1>4, <1>6, <1>7, <1>8 DEF EndsCall

(* What an event about a call says of it, in such a log.                   *)
LEMMA CallsTold ==
  ASSUME LoopInv, EndInv, ViewInv, TraceInv, CallsClosed
  PROVE  /\ RequestedIn(log) = Explains(log)
         /\ AskedIn(log) \cup GrantedIn(log) \cup RefusedIn(log) \cup AuthorizedIn(log)
              \cup Closed(log) \subseteq RequestedIn(log)
         /\ \A c \in CallsWith(log, {"tool.completed"}) : c \in AuthorizedIn(log)
         /\ Ended(log) = Begun(log)
<1>1. /\ Chain /\ Closed(log) \subseteq RequestedIn(log) /\ Ended(log) \subseteq Begun(log)
      /\ AnswersAsked /\ CompletedRan
  BY DEF LoopInv, EffectInv, FileInv, CallInv, OneTerminal, EndInv, EndFile, TurnsInv, TraceInv,
     AskedInv, RanInv
<1>2. ASSUME NEW c \in RequestedIn(log) PROVE c \in Explains(log)
  <2>1. PICK k \in DOMAIN log : EndsCall(k, c)
    BY CallHasItsEnd
  <2>2. k \in Explained(log, c)
    BY <2>1 DEF EndsCall, Explained, OfCall, Indices, ToolTerminalTypes
  <2> QED BY <1>1, <2>2 DEF Explains, Chain
<1>3. ASSUME NEW c \in Explains(log) PROVE c \in RequestedIn(log)
  <2>1. PICK i \in DOMAIN log : log[i].call = c /\ log[i].type # "model.tool_call"
    BY DEF Explains, Explained, OfCall, Indices
  <2>2. c # NoCall
    BY NoCallAssumption DEF Explains
  <2> QED BY <2>1, <2>2 DEF TraceInv, NamedInv
<1>4. Begun(log) \subseteq Ended(log)
  BY DEF CallsClosed, IncompleteTurns, Begun, Ended
<1>5. \A c \in CallsWith(log, {"tool.completed"}) : c \in AuthorizedIn(log)
  BY <1>1 DEF CompletedRan, Chain, CallsWith
<1> QED BY <1>1, <1>2, <1>3, <1>4, <1>5 DEF Chain, AnswersAsked

(* The record of a call is that of its end.                                *)
LEMMA ToolRecordIs ==
  ASSUME TypeInv, NEW c, NEW k, EndsCall(k, c)
  PROVE  /\ DraftOf(log, CallId("tool", c)).seq = log[k].seq
         /\ DraftOf(log, CallId("tool", c)).status = log[k].type
         /\ LastToolResult(log, c) = k
         /\ ExecutionTold(log, c) = log[k].type
<1> DEFINE id == CallId("tool", c)
           A == {p \in AllPatches(log) : p.id = id}
           T == {p.at : p \in A}
           ends == OfCall(log, c) \cap Indices(log, ToolTerminalTypes)
           told == Explained(log, c) \cap Indices(log, ToolTerminalTypes \cup {"tool.authorized", "tool.started"})
<1>1. DOMAIN log = 1 .. Len(log) /\ Len(log) \in Nat
  BY DEF TypeInv, TypeOK
<1>2. \A i \in DOMAIN log : (\E p \in Patches(log, i) : p.id = id) <=>
        log[i].type \in {"tool.requested", "tool.started"} \cup ToolTerminalTypes /\ log[i].call = c
  BY TouchedBy
<1>3. PICK q \in Patches(log, k) : q.id = id
  BY <1>2 DEF EndsCall
<1>4. \A p \in Patches(log, k) : p.id = id => p.status = log[k].type
  <2>1. Patches(log, k) = TerminalPatches(log[k]) /\ log[k].call = c
    BY PatchesByType DEF EndsCall
  <2> QED BY <2>1 DEF TerminalPatches, Patch, CallId, Id
<1> HIDE DEF id
<1>5. /\ \A p \in AllPatches(log) :
           p.at \in DOMAIN log /\ \E r \in Patches(log, p.at) : p.id = r.id /\ p.status = r.status
      /\ [at |-> k, id |-> q.id, status |-> q.status] \in AllPatches(log)
  BY <1>3, PatchesAre DEF EndsCall
<1>6. /\ \A p \in A : p.at \in DOMAIN log /\ p.at <= k /\ (p.at = k => p.status = log[k].type)
      /\ \E p \in A : p.at = k
  <2>1. ASSUME NEW p \in A
        PROVE  p.at \in DOMAIN log /\ p.at <= k /\ (p.at = k => p.status = log[k].type)
    <3>1. PICK r \in Patches(log, p.at) : p.id = r.id /\ p.status = r.status
      BY <1>5
    <3>2. p.at \in DOMAIN log /\ r.id = id
      BY <1>5, <3>1
    <3>3. log[p.at].type \in {"tool.requested", "tool.started"} \cup ToolTerminalTypes /\ log[p.at].call = c
      BY <1>2, <3>2
    <3> QED BY <1>4, <3>1, <3>2, <3>3 DEF EndsCall, Spoken
  <2> QED BY <1>3, <1>5, <2>1
<1>7. T \in SUBSET (1 .. Len(log)) /\ k \in T /\ \A i \in T : i <= k
  <2> HIDE DEF A
  <2> QED BY <1>1, <1>6
<1>8. Max(T) = k
  <2> HIDE DEF T
  <2> QED BY <1>1, <1>7, GreatestIs
<1>9. DraftOf(log, id) = [id |-> id, seq |-> log[Max(T)].seq, status |-> (CHOOSE p \in A : p.at = Max(T)).status]
  BY DEF DraftOf, Stamp
<1>10. (CHOOSE p \in A : p.at = k).status = log[k].type
  <2> HIDE DEF A
  <2> QED BY <1>6
<1>11. DraftOf(log, id).seq = log[k].seq /\ DraftOf(log, id).status = log[k].type
  <2> HIDE DEF A, T
  <2> QED BY <1>8, <1>9, <1>10
<1>12. /\ ends \in SUBSET (1 .. Len(log)) /\ k \in ends /\ \A i \in ends : i <= k
       /\ told \in SUBSET (1 .. Len(log)) /\ k \in told /\ \A i \in told : i <= k
  BY <1>1 DEF EndsCall, OfCall, Indices, Explained, ToolTerminalTypes, Spoken
<1> HIDE DEF ends, told
<1>13. Max(ends) = k /\ Max(told) = k
  BY <1>1, <1>12, GreatestIs
<1> QED BY <1>11, <1>12, <1>13 DEF LastToolResult, ExecutionTold, ends, told, id

(* The records that a trace has.                                           *)
LEMMA HasRecord ==
  ASSUME NEW commands, NEW ids, ids = RecordIds(log, TraceRecords(log), commands), NEW c, NEW t
  PROVE  /\ c \in RequestedIn(log) => CallId("tool", c) \in ids
         /\ c \in AskedIn(log) \cup GrantedIn(log) \cup RefusedIn(log) => CallId("approval", c) \in ids
         /\ c \in Explains(log) => Policy(c) \in ids
         /\ t \in Ended(log) => Id("turn", t, 0, NoCall) \in ids
         /\ t \in Begun(log) => Id("user", t, 0, NoCall) \in ids
         /\ c \in commands \cap CallsWith(log, {"tool.completed"}) => Verification(c) \in ids
<1>1. \A id \in Drafted(log) : id.kind # "policy" => id \in ids
  <2>1. \A id \in Drafted(log) : id.kind # "policy" =>
          DraftOf(log, id) \in TraceRecords(log) /\ DraftOf(log, id).id = id
    BY RecordsAre, DraftsById
  <2> QED BY <2>1 DEF RecordIds
<1>2. ASSUME NEW i \in DOMAIN log
      PROVE  /\ log[i].type = "tool.requested" /\ log[i].call = c => CallId("tool", c) \in ids
             /\ log[i].type \in {"approval.requested", "approval.granted", "approval.denied"} /\ log[i].call = c
                  => CallId("approval", c) \in ids
             /\ log[i].type \in TurnTerminalTypes /\ log[i].turn = t => Id("turn", t, 0, NoCall) \in ids
             /\ log[i].type = "turn.started" /\ log[i].turn = t => Id("user", t, 0, NoCall) \in ids
  <2> DEFINE e == log[i]
             touches(id) == \E p \in Patches(log, i) : p.id = id
  <2>1. /\ touches(CallId("tool", c)) <=>
             e.type \in {"tool.requested", "tool.started"} \cup ToolTerminalTypes /\ e.call = c
        /\ touches(CallId("approval", c)) <=>
             e.type \in {"approval.requested", "approval.granted", "approval.denied"} /\ e.call = c
        /\ touches(Id("user", t, 0, NoCall)) <=> e.type = "turn.started" /\ e.turn = t
        /\ touches(Id("turn", t, 0, NoCall)) <=> e.type \in TurnTerminalTypes /\ e.turn = t
    BY TouchedBy
  <2>2. \A id : touches(id) => id \in Drafted(log)
    BY PatchesAre
  <2> HIDE DEF touches
  <2> QED BY <1>1, <2>1, <2>2 DEF CallId, Id
<1>3. c \in RequestedIn(log) => CallId("tool", c) \in ids
  BY <1>2 DEF RequestedIn, CallsWith
<1>4. c \in AskedIn(log) \cup GrantedIn(log) \cup RefusedIn(log) => CallId("approval", c) \in ids
  BY <1>2 DEF AskedIn, GrantedIn, RefusedIn, CallsWith
<1>5. c \in Explains(log) => Policy(c) \in ids
  <2>1. c \in Explains(log) =>
          Refreshed(log, Drafts(log), c) \in TraceRecords(log)
          /\ Refreshed(log, Drafts(log), c).id = Policy(c)
    BY RecordsAre, RefreshedIs DEF PolicyId, Policy
  <2> QED BY <2>1 DEF RecordIds
<1>6. t \in Ended(log) => Id("turn", t, 0, NoCall) \in ids
  BY <1>2 DEF Ended, TurnsWith
<1>7. t \in Begun(log) => Id("user", t, 0, NoCall) \in ids
  BY <1>2 DEF Begun, TurnsWith
<1>8. c \in commands \cap CallsWith(log, {"tool.completed"}) => Verification(c) \in ids
  BY DEF RecordIds, Verifications
<1> QED BY <1>3, <1>4, <1>5, <1>6, <1>7, <1>8

(* The last command of a turn.                                             *)
LEMMA LastVerificationIs ==
  ASSUME TypeInv, NEW t, NEW commands
  PROVE  LET ran == {i \in OfTurn(log, t) : log[i].type = "tool.completed" /\ log[i].call \in commands}
         IN  LastVerification(log, t, commands)
               = {Verification(log[i].call) : i \in {j \in ran : \A k \in ran : k <= j}}
<1> DEFINE ran == {i \in OfTurn(log, t) : log[i].type = "tool.completed" /\ log[i].call \in commands}
           last == {j \in ran : \A k \in ran : k <= j}
<1>1. ran \in SUBSET (1 .. Len(log)) /\ Len(log) \in Nat
  BY DEF TypeInv, TypeOK, OfTurn
<1>2. ran = {i \in OfTurn(log, t) \cap Indices(log, {"tool.completed"}) : log[i].call \in commands}
  BY DEF OfTurn, Indices
<1>3. LastVerification(log, t, commands) = IF ran = {} THEN {} ELSE {Verification(log[Max(ran)].call)}
  BY <1>2 DEF LastVerification
<1>4. last = (IF ran = {} THEN {} ELSE {Max(ran)})
  <2> HIDE DEF ran
  <2>1. ran # {} => Max(ran) \in ran /\ \A k \in ran : k <= Max(ran)
    BY <1>1, GreatestOf
  <2>2. ASSUME NEW j \in last PROVE j = Max(ran)
    <3>1. j \in ran /\ Max(ran) \in ran /\ j <= Max(ran) /\ Max(ran) <= j
      BY <2>1
    <3>2. \A m \in ran : m \in Nat
      BY <1>1
    <3> QED BY <3>1, <3>2
  <2> QED BY <2>1, <2>2
<1> HIDE DEF ran, last
<1>5. LastVerification(log, t, commands) = {Verification(log[i].call) : i \in last}
  BY <1>3, <1>4
<1> QED BY <1>5 DEF ran, last

(* Where the relations lead, and what a turn is related to.                *)
LEMMA RelationsLead ==
  ASSUME LoopInv, EndInv, ViewInv, TraceInv, CallsClosed,
         NEW commands \in SUBSET CallsWith(log, {"tool.completed"}),
         NEW p \in AllRelations(log, commands)
  PROVE  /\ p[2] \in RecordIds(log, TraceRecords(log), commands)
         /\ p[1].kind = "turn" => \E i \in DOMAIN log :
              /\ log[i].type \in TurnTerminalTypes /\ p[1] = Id("turn", log[i].turn, 0, NoCall)
              /\ p[2] \in {Id("user", log[i].turn, 0, NoCall)}
                          \cup LastVerification(log, log[i].turn, commands)
<1> DEFINE ids == RecordIds(log, TraceRecords(log), commands)
           led == /\ p[2] \in ids
                  /\ p[1].kind = "turn" => \E i \in DOMAIN log :
                       /\ log[i].type \in TurnTerminalTypes /\ p[1] = Id("turn", log[i].turn, 0, NoCall)
                       /\ p[2] \in {Id("user", log[i].turn, 0, NoCall)}
                                   \cup LastVerification(log, log[i].turn, commands)
<1>1. /\ \A c \in RequestedIn(log) : CallId("tool", c) \in ids /\ Policy(c) \in ids
      /\ \A c \in AskedIn(log) \cup GrantedIn(log) \cup RefusedIn(log) : CallId("approval", c) \in ids
      /\ \A t \in Ended(log) : Id("turn", t, 0, NoCall) \in ids /\ Id("user", t, 0, NoCall) \in ids
      /\ \A c \in commands : Verification(c) \in ids
  <2>1. /\ RequestedIn(log) = Explains(log) /\ Ended(log) = Begun(log)
        /\ commands = commands \cap CallsWith(log, {"tool.completed"})
    BY CallsTold
  <2>2. ASSUME NEW c, NEW t
        PROVE  /\ c \in RequestedIn(log) => CallId("tool", c) \in ids
               /\ c \in AskedIn(log) \cup GrantedIn(log) \cup RefusedIn(log) => CallId("approval", c) \in ids
               /\ c \in Explains(log) => Policy(c) \in ids
               /\ t \in Ended(log) => Id("turn", t, 0, NoCall) \in ids
               /\ t \in Begun(log) => Id("user", t, 0, NoCall) \in ids
               /\ c \in commands \cap CallsWith(log, {"tool.completed"}) => Verification(c) \in ids
    BY HasRecord
  <2> HIDE DEF ids
  <2> QED BY <2>1, <2>2
<1>2. /\ RequestedIn(log) = Explains(log)
      /\ AskedIn(log) \cup GrantedIn(log) \cup RefusedIn(log) \cup AuthorizedIn(log)
           \cup Closed(log) \subseteq RequestedIn(log)
      /\ Ended(log) = Begun(log) /\ CompletedRan
  BY CallsTold DEF TraceInv, RanInv
<1>3. \A c : /\ Policy(c).kind = "policy" /\ CallId("tool", c).kind = "tool"
             /\ CallId("approval", c).kind = "approval" /\ Verification(c).kind = "verification"
  BY DEF Policy, Verification, CallId, Id
<1>4. ASSUME p \in ExplainedRelations(log)
      PROVE  led
  <2>1. PICK c \in Explains(log) :
          p \in {Policy(c)} \X ({CallId("tool", c)} \cup {CallId("approval", d) : d \in Approvals(log, c)})
    BY <1>4 DEF ExplainedRelations, Explains
  <2>2. Approvals(log, c) \subseteq AskedIn(log) \cup GrantedIn(log) \cup RefusedIn(log)
    BY DEF Approvals, OfCall, Indices, AskedIn, GrantedIn, RefusedIn, CallsWith
  <2>3. /\ p[1].kind # "turn"
        /\ p[2] = CallId("tool", c) \/ \E d \in Approvals(log, c) : p[2] = CallId("approval", d)
    BY <1>3, <2>1
  <2>4. p[2] \in ids
    <3> HIDE DEF ids
    <3> QED BY <1>1, <1>2, <2>2, <2>3
  <2> QED BY <2>3, <2>4
<1>5. ASSUME NEW i \in DOMAIN log, p \in Relations(log, i, commands)
      PROVE  led
  <2> DEFINE e == log[i]
             turn0 == Id("turn", e.turn, 0, NoCall)
  <2>1. \A types : e.type \in types => e.call \in CallsWith(log, types) /\ e.turn \in TurnsWith(log, types)
    BY DEF CallsWith, TurnsWith
  <2>2. /\ e.type = "tool.requested" => e.call \in RequestedIn(log)
        /\ e.type = "approval.requested" => e.call \in AskedIn(log) /\ e.call \in RequestedIn(log)
        /\ e.type = "tool.authorized" => e.call \in RequestedIn(log)
        /\ e.type \in ToolTerminalTypes => e.call \in RequestedIn(log)
        /\ e.type \in TurnTerminalTypes => e.turn \in Ended(log)
        /\ e.type = "tool.completed" => e.turn \in Ended(log)
    BY <1>2, <2>1 DEF RequestedIn, AskedIn, AuthorizedIn, Closed, Ended, CompletedRan
  <2>3. CASE e.type \in TurnTerminalTypes
    <3>1. p \in {turn0} \X ({Id("user", e.turn, 0, NoCall)} \cup LastVerification(log, e.turn, commands))
      BY <1>5, <2>3 DEF Relations, ToolTerminalTypes, TurnTerminalTypes
    <3>2. LastVerification(log, e.turn, commands) \subseteq {Verification(c) : c \in commands}
      BY LastVerificationIs DEF LoopInv
    <3> HIDE DEF ids
    <3> QED BY <1>1, <2>2, <2>3, <3>1, <3>2
  <2>4. CASE e.type \notin TurnTerminalTypes
    <3>1. \/ /\ e.type \in {"tool.requested", "approval.requested", "tool.authorized"} \cup ToolTerminalTypes
             /\ p \in {CallId("tool", e.call), Policy(e.call)} \X {CallId("tool", e.call), Policy(e.call)}
          \/ /\ e.type = "approval.requested"
             /\ p \in {CallId("approval", e.call), Policy(e.call)}
                      \X {CallId("approval", e.call), CallId("tool", e.call), Policy(e.call)}
          \/ /\ e.type = "tool.completed" /\ e.call \in commands
             /\ p \in {Verification(e.call)} \X {CallId("tool", e.call), turn0}
      <4>1. e.type \in ToolTerminalTypes =>
              e.type \notin {"tool.requested", "approval.requested", "tool.authorized"}
        BY DEF ToolTerminalTypes
      <4> HIDE DEF turn0
      <4> QED BY <1>5, <2>4, <4>1 DEF Relations, turn0, ToolTerminalTypes
    <3>2. p[1].kind # "turn"
      BY <1>3, <3>1
    <3>3. p[2] \in ids
      <4>1. e.type \in ToolTerminalTypes => Policy(e.call) \in ids /\ CallId("tool", e.call) \in ids
        BY <1>1, <2>2
      <4>2. /\ e.type = "tool.completed" => turn0 \in ids
            /\ e.type = "tool.completed" => e.type \in ToolTerminalTypes
        BY <1>1, <2>2 DEF ToolTerminalTypes
      <4> HIDE DEF ids, turn0, e
      <4> QED BY <1>1, <2>2, <3>1, <4>1, <4>2
    <3> QED BY <3>2, <3>3
  <2> QED BY <2>3, <2>4
<1> HIDE DEF led
<1>6. led
  BY <1>4, <1>5 DEF AllRelations
<1> QED BY <1>6 DEF led

(* What is said of a decision agrees with the end of its call.             *)
LEMMA PolicySays ==
  ASSUME LoopInv, EndInv, ViewInv, TraceInv, CallsClosed, NEW c \in Explains(log)
  PROVE  /\ ExecutionTold(log, c) \in ToolTerminalTypes
         /\ ApprovalTold(log, c) = "pending" => ExecutionTold(log, c) \in {"tool.failed", "tool.cancelled"}
         /\ ExecutionTold(log, c) = "tool.completed" =>
              <<Decision(log, c), ApprovalTold(log, c)>> \in {<<"ask", "allowed">>, <<"allow", "not_required">>}
<1>1. \A type : Tells(log, c, type) <=> c \in CallsWith(log, {type})
  BY DEF Tells, CallsWith
<1>2. PICK k \in DOMAIN log : EndsCall(k, c)
  BY CallHasItsEnd, CallsTold
<1>3. /\ ExecutionTold(log, c) = log[k].type /\ log[k].type \in ToolTerminalTypes
      /\ c \in CallsWith(log, {log[k].type})
  BY <1>2, ToolRecordIs DEF LoopInv, EndsCall, CallsWith
<1>4. ApprovalTold(log, c) = IF c \in GrantedIn(log) THEN "allowed" ELSE IF c \in RefusedIn(log) THEN "denied"
                             ELSE IF c \in AskedIn(log) THEN "pending" ELSE "not_required"
  <2> DEFINE has(type) == Explained(log, c) \cap Indices(log, {type}) # {}
  <2>1. \A type \in {"approval.granted", "approval.denied", "approval.requested"} :
          has(type) <=> Tells(log, c, type)
    BY DEF Explained, OfCall, Indices, Tells
  <2>2. ApprovalTold(log, c) =
          CASE has("approval.granted") -> "allowed"
            [] ~has("approval.granted") /\ has("approval.denied") -> "denied"
            [] ~has("approval.granted") /\ ~has("approval.denied") /\ has("approval.requested") -> "pending"
            [] OTHER -> "not_required"
    BY DEF ApprovalTold
  <2> HIDE DEF has
  <2> QED BY <1>1, <2>1, <2>2 DEF GrantedIn, RefusedIn, AskedIn
<1>5. c \in AuthorizedIn(log) /\ c \in AskedIn(log) => c \in GrantedIn(log)
  <2>1. c \in AuthorizedIn(log) => AuthTrail(log, c)
    BY DEF LoopInv, EffectInv, FileInv, Trails
  <2> QED BY <2>1 DEF AuthTrail, Occurs, AskedIn, GrantedIn, CallsWith
<1>6. /\ c \in GrantedIn(log) \cup RefusedIn(log) => c \in AskedIn(log)
      /\ log[k].type = "tool.completed" => c \in AuthorizedIn(log)
      /\ log[k].type = "tool.denied" /\ c \in AskedIn(log) => c \in RefusedIn(log)
  BY <1>3, CallsTold DEF TraceInv, AskedInv, AnswersAsked, DeniedInv, DenialsAnswered, DeniedIn
<1>7. ApprovalTold(log, c) = "pending" => log[k].type \in {"tool.failed", "tool.cancelled"}
  BY <1>3, <1>4, <1>5, <1>6 DEF ToolTerminalTypes
<1>8. log[k].type = "tool.completed" =>
        \/ Decision(log, c) = "ask" /\ ApprovalTold(log, c) = "allowed"
        \/ Decision(log, c) = "allow" /\ ApprovalTold(log, c) = "not_required"
  BY <1>1, <1>4, <1>5, <1>6, DecisionIs DEF AskedIn, AuthorizedIn
<1> QED BY <1>3, <1>7, <1>8

LEMMA DraftedTool ==
  ASSUME LoopInv, EndInv, ViewInv, TraceInv, CallsClosed,
         NEW id \in Drafted(log), id.kind = "tool"
  PROVE  \E c \in RequestedIn(log) : id = CallId("tool", c)
<1>1. PICK i \in DOMAIN log : \E p \in Patches(log, i) : p.id = id
  BY PatchesAre
<1> DEFINE e == log[i]
<1>2. e.type \in {"tool.requested", "tool.started"} \cup ToolTerminalTypes /\ id = CallId("tool", e.call)
  <2>1. \A k, t, s, c, q : Id(k, t, s, c).kind = k /\ CallId(k, c).kind = k /\ Patch(id, q).id = id
    BY DEF Id, CallId, Patch
  <2>2. \A p \in TerminalPatches(e) : p.id = CallId("tool", e.call) \/ p.id = CallId("policy", e.call)
    BY DEF TerminalPatches, Patch
  <2>3. \A x, q : Patch(x, q).id = x
    BY DEF Patch
  <2> QED BY <1>1, <2>1, <2>2, <2>3, PatchesByType DEF Spoken
<1>3. e.call \in RequestedIn(log) \cup StartedIn(log) \cup Closed(log)
  BY <1>2 DEF RequestedIn, StartedIn, Closed, CallsWith
<1>4. StartedIn(log) \cup Closed(log) \subseteq RequestedIn(log)
  BY CallsTold DEF LoopInv, EffectInv, FileInv, Chain
<1> QED BY <1>2, <1>3, <1>4

LEMMA DetailsConnect ==
  ASSUME LoopInv, EndInv, ViewInv, TraceInv, log[Len(log)].type \in TurnTerminalTypes,
         NEW commands \in SUBSET CallsWith(log, {"tool.completed"})
  PROVE  LET ids == RecordIds(log, TraceRecords(log), commands)
             relations == AllRelations(log, commands)
             details(id) == DetailAnswer(log, ids, id, relations, {})
             ended == log[Len(log)].turn
             ran == {i \in OfTurn(log, ended) : log[i].type = "tool.completed" /\ log[i].call \in commands}
         IN
         /\ \A id \in ids : \A other \in details(id).related : details(other) # NotFound
         /\ \A r \in {x \in TraceRecords(log) : x.id.kind = "tool"} :
              LET d == details(r.id) IN
              "result" \in d.sections /\ log[d.from].type = r.status /\ log[d.from].seq = r.seq
         /\ \A id \in {x \in ids : x.kind = "policy"} :
              \A told \in details(id).says :
                /\ told.execution \in ToolTerminalTypes
                /\ told.approval = "pending" => told.execution \in {"tool.failed", "tool.cancelled"}
                /\ told.execution = "tool.completed" =>
                     <<told.decision, told.approval>> \in {<<"ask", "allowed">>, <<"allow", "not_required">>}
         /\ {id \in details(Id("turn", ended, 0, NoCall)).related : id.kind = "verification"}
              = {Verification(log[i].call) : i \in {j \in ran : \A k \in ran : k <= j}}
<1> DEFINE ids == RecordIds(log, TraceRecords(log), commands)
           relations == AllRelations(log, commands)
           details(id) == DetailAnswer(log, ids, id, relations, {})
           ended == log[Len(log)].turn
           ran == {i \in OfTurn(log, ended) : log[i].type = "tool.completed" /\ log[i].call \in commands}
<1>1. CallsClosed /\ TypeInv /\ Len(log) \in DOMAIN log
  BY DEF ViewInv, EndedClean, CallsClosed, LoopInv, TypeInv, TypeOK
<1>2. \A p \in relations :
        /\ p[2] \in ids
        /\ p[1].kind = "turn" => \E i \in DOMAIN log :
             /\ log[i].type \in TurnTerminalTypes /\ p[1] = Id("turn", log[i].turn, 0, NoCall)
             /\ p[2] \in {Id("user", log[i].turn, 0, NoCall)}
                         \cup LastVerification(log, log[i].turn, commands)
  BY <1>1, RelationsLead
<1>3. \A id \in ids : /\ details(id) = Detail(log, id, relations, {}) /\ details(id) # NotFound
                      /\ details(id).related = Related(relations, id)
                      /\ details(id).from = Shows(log, id) /\ details(id).sections = Sections(log, id, {})
                      /\ details(id).says = Explanation(log, id)
  <2>1. \A id : Detail(log, id, relations, {}) # NotFound
    <3>1. \A id : "from" \in DOMAIN Detail(log, id, relations, {})
      BY DEF Detail
    <3>2. "from" \notin DOMAIN NotFound
      BY DEF NotFound
    <3> QED BY <3>1, <3>2
  <2> QED BY <2>1 DEF DetailAnswer, Detail
<1>4. \A id \in ids : \A other \in details(id).related : other \in ids
  BY <1>2, <1>3 DEF Related
<1>5. ASSUME NEW r \in TraceRecords(log), r.id.kind = "tool"
      PROVE  /\ "result" \in details(r.id).sections
             /\ log[details(r.id).from].type = r.status /\ log[details(r.id).from].seq = r.seq
  <2>1. r.id \in Drafted(log) /\ r = DraftOf(log, r.id) /\ r.id \in ids
    <3>1. r.id # PolicyId(r.id.call)
      BY <1>5 DEF PolicyId, CallId, Id
    <3> QED BY <3>1, RecordsAre DEF RecordIds
  <2>2. PICK c \in RequestedIn(log) : r.id = CallId("tool", c)
    BY <1>1, <1>5, <2>1, DraftedTool
  <2>3. PICK k \in DOMAIN log : EndsCall(k, c)
    BY <1>1, CallHasItsEnd
  <2>4. /\ Shows(log, r.id) = LastToolResult(log, c)
        /\ Shows(log, r.id) # 0 => "result" \in Sections(log, r.id, {})
    BY <2>2 DEF Shows, Sections, CallId, Id
  <2>5. k # 0 /\ LastToolResult(log, c) = k /\ r.seq = log[k].seq /\ r.status = log[k].type
    BY <1>1, <2>1, <2>2, <2>3, ToolRecordIs DEF TypeInv, TypeOK
  <2> QED BY <1>3, <2>1, <2>4, <2>5
<1>6. ASSUME NEW id \in ids, id.kind = "policy", NEW told \in details(id).says
      PROVE  /\ told.execution \in ToolTerminalTypes
             /\ told.approval = "pending" => told.execution \in {"tool.failed", "tool.cancelled"}
             /\ told.execution = "tool.completed" =>
                  <<told.decision, told.approval>> \in {<<"ask", "allowed">>, <<"allow", "not_required">>}
  <2>1. \E r \in TraceRecords(log) : r.id = id
    BY <1>6 DEF RecordIds, Verifications, Verification, CallId, Id
  <2>2. id.call \in Explains(log)
    BY <1>6, <2>1, RecordsAre
  <2>3. told = [decision |-> Decision(log, id.call), approval |-> ApprovalTold(log, id.call),
                execution |-> ExecutionTold(log, id.call)]
    BY <1>3, <1>6 DEF Explanation
  <2>4. /\ told.decision = Decision(log, id.call) /\ told.approval = ApprovalTold(log, id.call)
        /\ told.execution = ExecutionTold(log, id.call)
    BY <2>3
  <2> QED BY <1>1, <2>2, <2>4, PolicySays
<1>7. {id \in details(Id("turn", ended, 0, NoCall)).related : id.kind = "verification"}
        = LastVerification(log, ended, commands)
  <2> DEFINE turnId == Id("turn", ended, 0, NoCall)
             userId == Id("user", ended, 0, NoCall)
             last == LastVerification(log, ended, commands)
  <2>1. /\ \A t : Id("turn", t, 0, NoCall) = turnId => t = ended
        /\ turnId.kind = "turn" /\ userId.kind = "user"
        /\ \A c : Verification(c).kind = "verification"
    BY DEF Id, Verification, CallId
  <2>2. turnId \in ids
    <3>1. ended \in Ended(log)
      BY <1>1 DEF Ended, TurnsWith
    <3>2. ASSUME NEW t PROVE t \in Ended(log) => Id("turn", t, 0, NoCall) \in ids
      <4>1. ids = RecordIds(log, TraceRecords(log), commands)
        OBVIOUS
      <4> HIDE DEF ids, ended
      <4> QED BY <4>1, HasRecord
    <3> QED BY <3>1, <3>2
  <2>3. \A p \in {turnId} \X ({userId} \cup last) : p \in relations
    <3>1. Relations(log, Len(log), commands) = {turnId} \X ({userId} \cup last)
      BY DEF Relations, TurnTerminalTypes, ToolTerminalTypes
    <3> QED BY <1>1, <3>1 DEF AllRelations
  <2>4. \A id \in last : id.kind = "verification"
    BY <1>1, <2>1, LastVerificationIs
  <2> HIDE DEF turnId, userId, last, ids, relations, ended
  <2>5. \A p \in relations : p[1] = turnId => p[2] \in {userId} \cup last
    BY <1>2, <2>1 DEF userId, last
  <2>6. \A id \in last : <<turnId, id>> \in relations
    BY <2>3
  <2>7. ASSUME NEW id, id.kind = "verification"
        PROVE  id \in Related(relations, turnId) <=> id \in last
    <3>1. id \in Related(relations, turnId) <=> id # turnId /\ \E p \in relations : p[1] = turnId /\ p[2] = id
      BY DEF Related
    <3>2. id # turnId /\ id # userId
      BY <2>1, <2>7
    <3>3. id \in last => \E p \in relations : p[1] = turnId /\ p[2] = id
      BY <2>6
    <3> QED BY <2>5, <3>1, <3>2, <3>3
  <2>8. details(turnId).related = Related(relations, turnId)
    BY <1>3, <2>2
  <2> QED BY <2>4, <2>7, <2>8 DEF turnId, last
<1>8. LastVerification(log, ended, commands)
        = {Verification(log[i].call) : i \in {j \in ran : \A k \in ran : k <= j}}
  BY <1>1, LastVerificationIs
<1> HIDE DEF ids, details, relations
<1> QED BY <1>3, <1>4, <1>5, <1>6, <1>7, <1>8 DEF ids, details, relations

(* In the trace of a turn that has returned every link leads somewhere, a  *)
(* call is shown with the end it had, what is said of its decision agrees  *)
(* with that end, and the turn names the last command it ran, whatever     *)
(* fails, as long as the appends with which a repair closes calls reach    *)
(* the file.                                                               *)
THEOREM TraceConnects == Spec /\ [][RecoveryReachesFile]_vars => []TraceIsConnected
<1>1. LoopInv /\ EndInv /\ [Next]_vars /\ [RecoveryReachesFile]_vars => EndInv'
  BY RecoveryFrame, EndInvStep DEF LoopInv
<1>2. LoopInv /\ EndInv /\ ViewInv /\ TraceInv => TraceIsConnected
  BY DetailsConnect DEF TraceIsConnected
<1>3. LoopInv /\ EndInv /\ ViewInv /\ [Next]_vars => ViewInv'
  BY ViewInvStep
<1>4. LoopInv /\ EndInv /\ ViewInv /\ TraceInv /\ [Next]_vars => TraceInv'
  BY TraceInvStep
<1> QED BY LoopInvInit, LoopInvStep, EndInvInit, ViewInvInit, TraceInvInit, <1>1, <1>2, <1>3, <1>4,
        PTL DEF Spec

(* With at most one storage fault and no settings request in between, the  *)
(* client that follows the live stream and the console see what is on file.*)
THEOREM OneFaultIsShown ==
  ASSUME MaxFaults =< 1, MaxWrites = 0
  PROVE  Spec => [](LiveTraceFollows /\ ViewIsTrue /\ TraceIsConnected)
<1>1. TypeInv /\ ShapeInv /\ SeqInv /\ FaultInv /\ [Next]_vars => SeqInv' /\ FaultInv'
  BY SeqInvStep
<1>2. TypeInv /\ SeqInv /\ FaultInv /\ [Next]_vars => [RecoveryReachesFile]_vars
  BY RecoverySucceeds
<1>3. Spec => [][RecoveryReachesFile]_vars
  BY TypeInvInit, TypeInvStep, EffectInvInit, ShapeInvStep, SeqInvInit, <1>1, <1>2, PTL
     DEF Spec
<1>4. Spec => []LogOrdered
  BY LogOrderedWithoutWrites
<1> QED BY <1>3, <1>4, ViewShowsTheTurn, TraceConnects, LiveTraceIsWhole, PTL
=============================================================================
