------------------------------ MODULE AgentTurn ------------------------------
(***************************************************************************)
(* The turns of one session: AgentLoop (one turn: steps, model replies,    *)
(* tool dispatch, approvals, limits, cancellation), the JSONL session      *)
(* store it appends every event to before acting on it, the repair after a *)
(* storage failure, the resume after a crash, and a runtime-settings       *)
(* request that appends to the same log while a turn starts.               *)
(*                                                                         *)
(* Every emit() of the loop is one append that may fail.  A decision of    *)
(* the loop therefore only queues the events it is going to emit in        *)
(* "script"; Emit appends them one at a time, and the loop takes its next  *)
(* decision, at "pc", when the script is empty.                            *)
(***************************************************************************)
EXTENDS SessionLog

CONSTANTS
  Reply,          (* replies of the model that are considered             *)
  Verdict,        (* outcomes of input normalisation, registry and policy *)
  ContextResult,  (* outcomes of the context projection                   *)
  MaxSteps,       (* options.maxSteps                                     *)
  RepeatLimit,    (* options.repeatedToolCallLimit                        *)
  MaxTurns,       (* bound: turns ever begun                              *)
  FaultKind,      (* storage faults considered                            *)
  MaxFaults,      (* bound: storage faults                                *)
  MaxCrashes,     (* bound: crashes of the process                        *)
  MaxWrites,      (* bound: settings requests                             *)
  MaxResumes      (* bound: explicit resumes                              *)

Finish == {"stop", "length", "content_filter"}

(* A reply is a finished stream, or a stream that broke off with an error, *)
(* which may say that the request was cancelled.                           *)
ReplyType ==
  [broken: BOOLEAN, cancelled: BOOLEAN, reasoning: BOOLEAN, text: BOOLEAN,
   finish: Finish, calls: Seq(Call \cup {NoCall})]

VerdictType == {"invalid", "unregistered", "throws", "deny", "allow", "ask"}

FaultKindType == {"lost", "ambiguous", "unreadable", "thrown"}

ASSUME ConstantsAssumption ==
  /\ Reply \subseteq ReplyType
  /\ Verdict \subseteq VerdictType
  /\ ContextResult \subseteq {"fits", "exceeds", "invalid"}
  /\ FaultKind \subseteq FaultKindType
  /\ MaxSteps \in Nat \ {0}
  /\ RepeatLimit \in Nat \ {0, 1}
  /\ MaxTurns \in Nat /\ MaxFaults \in Nat /\ MaxCrashes \in Nat
  /\ MaxWrites \in Nat /\ MaxResumes \in Nat

VARIABLES
  log,        (* the file                                                 *)
  cached,     (* the store's lastSequences entry; 0: none                 *)
  pc,         (* where the loop, a repair or a resume stands              *)
  script,     (* drafts queued for emission                               *)
  turn,       (* the running turn, or the last one                        *)
  seqn,       (* state.sequence of the turn, or of a resume               *)
  step,       (* state.steps                                              *)
  calls,      (* tool calls of the current reply                          *)
  next,       (* index in calls of the call dispatched next               *)
  cur, op,    (* the call in dispatch and its operation                   *)
  approvals,  (* state.approvals                                          *)
  seen,       (* state.seenToolCallIds                                    *)
  sigs,       (* state.signatures: how often an operation was requested   *)
  aborted,    (* the turn's AbortSignal                                   *)
  active,     (* the coordinator shows the turn as active                 *)
  persisted,  (* the log as a repair read it                              *)
  orphans,    (* dangling calls a repair or a resume still has to close   *)
  executed,   (* history: executions begun, for each call                 *)
  wpc, wseq,  (* the settings request and the number it took              *)
  faults, crashes, writes, resumes     (* what was spent of the bounds    *)

storeVars  == <<log, cached>>
turnVars   == <<turn, step, calls, next, cur, op, approvals, seen, sigs>>
repairVars == <<persisted, orphans>>
writeVars  == <<wpc, wseq, writes>>
spentVars  == <<crashes, resumes>>
vars == <<log, cached, pc, script, turn, seqn, step, calls, next, cur, op,
          approvals, seen, sigs, aborted, active, persisted, orphans,
          executed, wpc, wseq, faults, crashes, writes, resumes>>

Init ==
  /\ log = <<Record(1, 0, Note("session.started"))>>
  /\ cached = 1
  /\ pc = "idle" /\ script = <<>>
  /\ turn = 0 /\ seqn = 0 /\ step = 0
  /\ calls = <<>> /\ next = 1 /\ cur = NoCall /\ op = NoOp
  /\ approvals = {} /\ seen = {} /\ sigs = [o \in Op |-> 0]
  /\ aborted = FALSE /\ active = FALSE
  /\ persisted = <<>> /\ orphans = {}
  /\ executed = [c \in Call |-> 0]
  /\ wpc = "idle" /\ wseq = 0
  /\ faults = 0 /\ crashes = 0 /\ writes = 0 /\ resumes = 0

-----------------------------------------------------------------------------
(* The store.  Appends are queued per session, so each is one step.        *)

LastSequence == IF cached # 0 THEN cached ELSE Top(log)

Fault(kind) ==
  /\ kind \in FaultKind /\ faults < MaxFaults
  /\ faults' = faults + 1

(* Mutant: the store trusts the number its caller chose.                   *)
PersistUnchecked(r) ==
  /\ log' = Append(log, r) /\ cached' = r.seq
  /\ UNCHANGED faults

(* The append succeeds.                                                    *)
Persist(r) ==
  /\ r.seq > LastSequence
  /\ log' = Append(log, r) /\ cached' = r.seq
  /\ UNCHANGED faults

(* Its caller gets an error: the number is not above the last one, the     *)
(* write fails, or the write fails after the new file took effect.         *)
Refuse(r) ==
  /\ r.seq =< LastSequence
  /\ UNCHANGED <<log, cached, faults>>

Lose(r) ==
  /\ r.seq > LastSequence
  /\ Fault("lost")
  /\ UNCHANGED <<log, cached>>

Blur(r) ==
  /\ r.seq > LastSequence
  /\ Fault("ambiguous")
  /\ log' = Append(log, r) /\ UNCHANGED cached

AppendFails(r) == Refuse(r) \/ Lose(r) \/ Blur(r)

-----------------------------------------------------------------------------
(* The loop.                                                               *)

Running == pc \notin {"idle", "resume"}

At(place) == pc = place /\ script = <<>>

Continue(place, drafts) == pc' = place /\ script' = drafts

(* The turn's state is local to the turn: nothing of it outlives the turn. *)
Return ==
  /\ Continue("idle", <<>>)
  /\ seqn' = 0 /\ step' = 0 /\ calls' = <<>> /\ next' = 1
  /\ cur' = NoCall /\ op' = NoOp
  /\ approvals' = {} /\ seen' = {} /\ sigs' = [o \in Op |-> 0]
  /\ aborted' = FALSE /\ active' = FALSE
  /\ persisted' = <<>> /\ orphans' = {}
  /\ UNCHANGED <<turn, executed>>

CurrentRecord == Record(seqn + 1, turn, Head(script))

Emit ==
  /\ script # <<>>
  /\ Persist(CurrentRecord)
  /\ seqn' = seqn + 1 /\ script' = Tail(script)
  /\ active' = (active \/ Head(script).type = "turn.started")
  /\ UNCHANGED <<pc, turnVars, aborted, repairVars, executed, writeVars, spentVars>>

(* Mutant: a storage error ends the turn like any other one.               *)
EmitFailsUnrepaired ==
  /\ script # <<>>
  /\ AppendFails(CurrentRecord)
  /\ seqn' = seqn + 1
  /\ Continue("end", <<>>)
  /\ UNCHANGED <<turnVars, aborted, active, repairVars, executed, writeVars,
                 spentVars>>

(* Mutant: an append that fails is sent again with the same number.        *)
EmitFailsRetried ==
  /\ script # <<>>
  /\ AppendFails(CurrentRecord)
  /\ UNCHANGED <<seqn, pc, script, turnVars, aborted, active, repairVars,
                 executed, writeVars, spentVars>>

(* A failed append leaves executeTurn with an error of category storage.   *)
EmitFails ==
  /\ script # <<>>
  /\ AppendFails(CurrentRecord)
  /\ seqn' = seqn + 1
  /\ Continue("repair", <<>>)
  /\ UNCHANGED <<turnVars, aborted, active, repairVars, executed, writeVars,
                 spentVars>>

(* runTurn refuses a session with an incomplete turn; continueSession      *)
(* rebuilds the loop's state from the log.                                 *)
BeginTurn ==
  /\ At("idle") /\ turn < MaxTurns
  /\ IncompleteTurns(log) = {}
  /\ Readable(log)
  /\ turn' = turn + 1 /\ seqn' = Top(log) /\ step' = 0
  /\ approvals' = SessionGrants(log) /\ seen' = SeenCalls(log)
  /\ sigs' = [o \in Op |-> 0]
  /\ calls' = <<>> /\ next' = 1 /\ cur' = NoCall /\ op' = NoOp
  /\ aborted' = FALSE /\ active' = FALSE
  /\ Continue("stepTop", <<Note("turn.started")>>)
  /\ UNCHANGED <<storeVars, repairVars, executed, writeVars, faults, spentVars>>

Quiet == UNCHANGED <<storeVars, turn, seqn, aborted, active, repairVars, executed, writeVars,
                     faults, spentVars>>

StepTop ==
  /\ At("stepTop")
  /\ \/ /\ aborted
        /\ Continue("end", <<Note("turn.cancelled")>>) /\ UNCHANGED step
     \/ /\ ~aborted
        /\ step' = step + 1 /\ Continue("context", <<Note("step.started")>>)
  /\ Quiet /\ UNCHANGED <<calls, next, cur, op, approvals, seen, sigs>>

(* The context fits, its budget is exceeded, or the events are invalid.    *)
BuildContext ==
  /\ At("context")
  /\ \/ /\ "fits" \in ContextResult
        /\ Continue("model", <<Note("context.projected"), Note("model.started")>>)
     \/ /\ "exceeds" \in ContextResult
        /\ Continue("end", <<Note("limit.reached"), Note("turn.failed")>>)
     \/ /\ "invalid" \in ContextResult
        /\ Continue("end", <<Note("turn.failed")>>)
  /\ Quiet /\ UNCHANGED <<step, calls, next, cur, op, approvals, seen, sigs>>

Optional(present, type) == IF present THEN <<Note(type)>> ELSE <<>>

Preamble(r) ==
  Optional(r.reasoning, "model.reasoning") \o Optional(r.text, "model.text")

(* Mutant: identifiers are compared within one reply only.                 *)
InvalidIdsOfReply(r) ==
  \E i \in DOMAIN r.calls :
    \/ r.calls[i] = NoCall
    \/ \E j \in 1 .. i - 1 : r.calls[j] = r.calls[i]

(* validateToolCallIds: an identifier that is empty or was used before.    *)
InvalidIds(r) ==
  \E i \in DOMAIN r.calls :
    \/ r.calls[i] \in seen \cup {NoCall}
    \/ \E j \in 1 .. i - 1 : r.calls[j] = r.calls[i]

ToolCallNotes(r) ==
  [i \in DOMAIN r.calls |-> About("model.tool_call", r.calls[i])]

(* The terminal event of a valid reply that ends the turn.                 *)
Outcome(r) ==
  IF r.calls = <<>> /\ r.text /\ r.finish = "stop"
  THEN "turn.completed" ELSE "turn.failed"

Dispatches(r) == r.calls # <<>> /\ r.finish = "stop"

ReplyBroken(r) ==
  /\ r.broken
  /\ Continue(IF r.cancelled THEN "modelCancelled" ELSE "modelFailed",
              Preamble(r) \o <<Note("model.failed")>>)
  /\ UNCHANGED <<seen, calls, next>>

ReplyInvalid(r) ==
  /\ ~r.broken /\ InvalidIds(r)
  /\ Continue("end", Preamble(r) \o <<Note("model.failed"), Note("turn.failed")>>)
  /\ UNCHANGED <<seen, calls, next>>

ReplyFinal(r) ==
  /\ ~r.broken /\ ~InvalidIds(r) /\ ~Dispatches(r)
  /\ Continue("end", Preamble(r) \o ToolCallNotes(r)
                       \o <<Note("model.completed"), Note(Outcome(r))>>)
  /\ UNCHANGED <<seen, calls, next>>

ReplyWithTools(r) ==
  /\ ~r.broken /\ ~InvalidIds(r) /\ Dispatches(r)
  /\ Continue("dispatch",
              Preamble(r) \o ToolCallNotes(r) \o <<Note("model.completed")>>)
  /\ calls' = r.calls /\ next' = 1
  /\ seen' = seen \cup {r.calls[i] : i \in DOMAIN r.calls}

ModelReplies ==
  /\ At("model")
  /\ \E r \in Reply :
       ReplyBroken(r) \/ ReplyInvalid(r) \/ ReplyFinal(r) \/ ReplyWithTools(r)
  /\ Quiet /\ UNCHANGED <<step, cur, op, approvals, sigs>>

(* The signal is read again once the partial reply is on file.             *)
ModelFailed ==
  /\ \/ At("modelCancelled") \/ At("modelFailed")
  /\ Continue("end", IF pc = "modelCancelled" \/ aborted
                     THEN <<Note("turn.cancelled")>> ELSE <<Note("turn.failed")>>)
  /\ Quiet /\ UNCHANGED <<step, calls, next, cur, op, approvals, seen, sigs>>

-----------------------------------------------------------------------------
(* Dispatch of the calls of a reply, one after the other.                  *)

Same == UNCHANGED <<step, calls, next, cur, op, approvals, seen, sigs>>

(* Mutant: the loop goes on after the step limit has ended the turn.       *)
EndOfStepGoesOn ==
  /\ At("dispatch") /\ next > Len(calls)
  /\ Continue("stepTop",
              IF step = MaxSteps THEN <<Note("limit.reached"), Note("turn.failed")>>
              ELSE <<>>)
  /\ Quiet /\ Same

EndOfStep ==
  /\ At("dispatch") /\ next > Len(calls)
  /\ IF step = MaxSteps
     THEN Continue("end", <<Note("limit.reached"), Note("turn.failed")>>)
     ELSE Continue("stepTop", <<>>)
  /\ Quiet /\ Same

DispatchTool ==
  /\ At("dispatch") /\ next =< Len(calls)
  /\ \/ /\ aborted
        /\ Continue("end", <<Note("turn.cancelled")>>)
        /\ UNCHANGED <<cur, next>>
     \/ /\ ~aborted
        /\ cur' = calls[next] /\ next' = next + 1
        /\ Continue("evaluate", <<About("tool.requested", calls[next])>>)
  /\ op' = NoOp
  /\ Quiet /\ UNCHANGED <<step, calls, approvals, seen, sigs>>

(* A call whose input does not normalise or whose tool is not registered   *)
(* fails, and the turn goes on.                                            *)
RejectInput ==
  /\ {"invalid", "unregistered"} \cap Verdict # {}
  /\ Continue("dispatch", <<About("tool.failed", cur)>>)
  /\ UNCHANGED <<op, sigs>>

RepeatedTooOften(o) ==
  /\ sigs[o] + 1 >= RepeatLimit
  /\ sigs' = [sigs EXCEPT ![o] = @ + 1] /\ op' = o
  /\ Continue("end", <<Note("limit.reached"), About("tool.denied", cur),
                       Note("turn.failed")>>)

Judged(o, verdict, place, drafts) ==
  /\ sigs[o] + 1 < RepeatLimit
  /\ verdict \in Verdict
  /\ sigs' = [sigs EXCEPT ![o] = @ + 1] /\ op' = o
  /\ Continue(place, drafts)

(* normalizeToolInput, the registry, the repetition limit and the policy.  *)
(* An operation that needs approval and has one for the session is allowed.*)
EvaluateCall ==
  /\ At("evaluate")
  /\ \/ RejectInput
     \/ \E o \in Op :
          \/ RepeatedTooOften(o)
          \/ Judged(o, "throws", "end", <<About("tool.failed", cur), Note("turn.failed")>>)
          \/ Judged(o, "deny", "end", <<About("tool.denied", cur), Note("turn.failed")>>)
          \/ Judged(o, "allow", "authorized", <<About("tool.authorized", cur)>>)
          \/ /\ o \in approvals
             /\ Judged(o, "ask", "authorized", <<With("tool.authorized", cur, o)>>)
          \/ /\ o \notin approvals
             /\ Judged(o, "ask", "ask", <<About("approval.requested", cur)>>)
  /\ Quiet /\ UNCHANGED <<step, calls, next, cur, approvals, seen>>

(* Mutant: a cancelled turn leaves the call it interrupts open.            *)
CancelTurnOnly == Continue("end", <<Note("turn.cancelled")>>)

CancelCall ==
  Continue("end", <<About("tool.cancelled", cur), Note("turn.cancelled")>>)

AskApproval ==
  /\ At("ask")
  /\ IF aborted THEN CancelCall ELSE Continue("waiting", <<>>)
  /\ Quiet /\ Same

Grant(logged) ==
  Continue("authorized", <<With("approval.granted", cur, logged),
                           With("tool.authorized", cur, op)>>)

(* Mutant: an approval for one call is remembered.                         *)
AnswerRemembered ==
  /\ At("waiting") /\ ~aborted
  /\ \/ Grant(NoOp) /\ approvals' = approvals \cup {op}
     \/ Grant(op) /\ approvals' = approvals \cup {op}
  /\ Quiet /\ UNCHANGED <<step, calls, next, cur, op, seen, sigs>>

(* The user answers, or the handler fails, before the turn is aborted.  A  *)
(* session approval joins state.approvals before it is on file.            *)
Answer ==
  /\ At("waiting") /\ ~aborted
  /\ \/ Grant(NoOp) /\ UNCHANGED approvals
     \/ Grant(op) /\ approvals' = approvals \cup {op}
     \/ /\ Continue("end", <<About("approval.denied", cur),
                             About("tool.denied", cur), Note("turn.failed")>>)
        /\ UNCHANGED approvals
  /\ Quiet /\ UNCHANGED <<step, calls, next, cur, op, seen, sigs>>

(* Mutant: the abort does not reach the pending approval.                  *)
ApprovalNotAborted ==
  /\ At("waiting") /\ aborted
  /\ Continue("waiting", <<>>)
  /\ Quiet /\ Same

(* The abort listener rejects the pending approval.                        *)
ApprovalAborted ==
  /\ At("waiting") /\ aborted
  /\ CancelCall
  /\ Quiet /\ Same

StartTool ==
  /\ At("authorized")
  /\ IF aborted THEN CancelCall
     ELSE Continue("execute", <<About("tool.started", cur)>>)
  /\ Quiet /\ Same

Execute ==
  /\ At("execute")
  /\ executed' = [executed EXCEPT ![cur] = @ + 1]
  /\ Continue("executing", <<>>)
  /\ UNCHANGED <<storeVars, turnVars, seqn, aborted, active, repairVars,
                 writeVars, faults, spentVars>>

(* A tool may report a cancellation of its own.                            *)
ToolReturns ==
  /\ At("executing")
  /\ \/ CancelCall
     \/ ~aborted /\ Continue("dispatch", <<About("tool.failed", cur)>>)
     \/ ~aborted /\ Continue("dispatch", <<About("tool.completed", cur)>>)
  /\ Quiet /\ Same

(* An error of category storage thrown by the tool is thrown on.           *)
ToolThrowsStorage ==
  /\ At("executing")
  /\ Fault("thrown")
  /\ Continue("repair", <<>>)
  /\ UNCHANGED <<storeVars, turnVars, seqn, aborted, active, repairVars,
                 executed, writeVars, spentVars>>

EndTurn ==
  /\ At("end")
  /\ Return
  /\ UNCHANGED <<storeVars, writeVars, faults, spentVars>>

(* cancelTurn, Ctrl-C or shutdown abort the controller of the turn.        *)
Abort ==
  /\ Running /\ ~aborted
  /\ aborted' = TRUE
  /\ UNCHANGED <<storeVars, pc, script, turnVars, seqn, active, repairVars,
                 executed, writeVars, faults, spentVars>>

-----------------------------------------------------------------------------
(* repairStorageFailure: one attempt to close what the log left open.      *)

Larger(a, b) == IF a > b THEN a ELSE b

RepairRead ==
  /\ At("repair")
  /\ Readable(log)
  /\ persisted' = log /\ orphans' = DanglingCalls(log)
  /\ seqn' = Larger(seqn, Top(log))
  /\ Continue("repairCalls", <<>>)
  /\ UNCHANGED <<storeVars, turnVars, aborted, active, executed, writeVars,
                 faults, spentVars>>

ReadFails == IF Readable(log) THEN Fault("unreadable") ELSE UNCHANGED faults

RepairGivesUp ==
  /\ At("repair")
  /\ ReadFails
  /\ Return
  /\ UNCHANGED <<storeVars, writeVars, spentVars>>

(* A failed recovery append is not repeated: it may be on file.            *)
RepairCall ==
  /\ At("repairCalls")
  /\ \E c \in orphans :
       LET r == Record(seqn + 1, turn, About("tool.failed", c)) IN
       /\ orphans' = orphans \ {c}
       /\ \/ /\ Persist(r)
             /\ persisted' = Append(persisted, r) /\ UNCHANGED pc
          \/ /\ AppendFails(r)
             /\ pc' = "repairRefresh" /\ UNCHANGED persisted
  /\ seqn' = seqn + 1
  /\ UNCHANGED <<script, turnVars, aborted, active, executed, writeVars, spentVars>>

RepairRefresh ==
  /\ At("repairRefresh")
  /\ \/ Readable(log) /\ persisted' = log /\ UNCHANGED faults
     \/ ReadFails /\ UNCHANGED persisted
  /\ Continue("repairCalls", <<>>)
  /\ UNCHANGED <<storeVars, turnVars, seqn, aborted, active, orphans, executed,
                 writeVars, spentVars>>

(* The code looks for the terminal event of any turn of the session.       *)
TurnStillOpen(events) ==
  /\ TurnsWith(events, TurnTerminalTypes) = {}
  /\ TurnsWith(events, {"turn.started"}) # {}

(* Mutant: the turn may be closed before its calls.                        *)
RepairTurnFirst ==
  /\ At("repairCalls")
  /\ IF TurnStillOpen(persisted)
     THEN LET r == Record(Larger(seqn, Top(persisted)) + 1, turn, Note("turn.failed"))
          IN  Persist(r) \/ AppendFails(r)
     ELSE UNCHANGED <<storeVars, faults>>
  /\ Return
  /\ UNCHANGED <<writeVars, spentVars>>

RepairTurn ==
  /\ At("repairCalls") /\ orphans = {}
  /\ IF TurnStillOpen(persisted)
     THEN LET r == Record(Larger(seqn, Top(persisted)) + 1, turn, Note("turn.failed"))
          IN  Persist(r) \/ AppendFails(r)
     ELSE UNCHANGED <<storeVars, faults>>
  /\ Return
  /\ UNCHANGED <<writeVars, spentVars>>

-----------------------------------------------------------------------------
(* resumeSession: the repository closes what a crash or a failed repair    *)
(* left open, then the service records the resume.  The command line runs  *)
(* it only between turns.                                                  *)

Resume ==
  /\ At("idle") /\ wpc = "idle"
  /\ resumes < MaxResumes
  /\ Readable(log)
  /\ resumes' = resumes + 1
  /\ orphans' = DanglingCalls(log) /\ seqn' = Top(log)
  /\ Continue("resume", <<>>)
  /\ UNCHANGED <<storeVars, turnVars, aborted, active, persisted, executed,
                 writeVars, faults, crashes>>

ResumeAppend(t, draft) ==
  LET r == Record(seqn + 1, t, draft) IN
  \/ /\ Persist(r)
     /\ orphans' = orphans \ {draft.call}
     /\ IF draft.type = "session.resumed"
        THEN pc' = "idle" /\ seqn' = 0
        ELSE UNCHANGED pc /\ seqn' = seqn + 1
  \/ /\ AppendFails(r)
     /\ pc' = "idle" /\ seqn' = 0 /\ orphans' = {}

(* Mutant: a resume closes calls and forgets the turns.                    *)
ResumeCallsOnly ==
  /\ At("resume")
  /\ IF orphans # {}
     THEN \E c \in orphans :
            ResumeAppend(TurnOf(log, c), About("tool.failed", c))
     ELSE ResumeAppend(0, Note("session.resumed"))
  /\ UNCHANGED <<script, turnVars, aborted, active, persisted, executed,
                 writeVars, spentVars>>

ResumeStep ==
  /\ At("resume")
  /\ IF orphans # {}
     THEN \E c \in orphans :
            ResumeAppend(TurnOf(log, c), About("tool.failed", c))
     ELSE IF IncompleteTurns(log) # {}
     THEN \E t \in IncompleteTurns(log) : ResumeAppend(t, Note("turn.failed"))
     ELSE ResumeAppend(0, Note("session.resumed"))
  /\ UNCHANGED <<script, turnVars, aborted, active, persisted, executed,
                 writeVars, spentVars>>

-----------------------------------------------------------------------------
(* PATCH runtime: refused while the coordinator shows an active turn; then *)
(* appendEvent reads the log, takes the next number and appends.           *)

WriteCheck ==
  /\ wpc = "idle" /\ ~active /\ pc # "resume"
  /\ writes < MaxWrites
  /\ writes' = writes + 1 /\ wpc' = "checked"
  /\ UNCHANGED <<storeVars, pc, script, turnVars, seqn, aborted, active,
                 repairVars, executed, wseq, faults, spentVars>>

WriteRead ==
  /\ wpc = "checked"
  /\ IF Readable(log)
     THEN wpc' = "read" /\ wseq' = Top(log) + 1
     ELSE wpc' = "idle" /\ UNCHANGED wseq
  /\ UNCHANGED <<storeVars, pc, script, turnVars, seqn, aborted, active,
                 repairVars, executed, writes, faults, spentVars>>

WriteAppend ==
  /\ wpc = "read"
  /\ LET r == Record(wseq, 0, Note("model.changed"))
     IN  Persist(r) \/ AppendFails(r)
  /\ wpc' = "idle" /\ wseq' = 0
  /\ UNCHANGED <<pc, script, turnVars, seqn, aborted, active, repairVars,
                 executed, writes, spentVars>>

-----------------------------------------------------------------------------
(* The process dies and starts again: only the file is left.               *)
Crash ==
  /\ pc # "idle" \/ wpc # "idle"
  /\ crashes < MaxCrashes
  /\ crashes' = crashes + 1
  /\ Return
  /\ cached' = 0 /\ wpc' = "idle" /\ wseq' = 0
  /\ UNCHANGED <<log, writes, faults, resumes>>

(* Nothing runs and the bounds allow nothing more.                         *)
Done ==
  /\ At("idle") /\ wpc = "idle"
  /\ UNCHANGED vars

LoopStep ==
  \/ Emit \/ EmitFails \/ StepTop \/ BuildContext \/ ModelReplies
  \/ ModelFailed \/ EndOfStep \/ DispatchTool \/ EvaluateCall \/ AskApproval
  \/ ApprovalAborted \/ StartTool \/ Execute \/ ToolReturns
  \/ ToolThrowsStorage \/ EndTurn
  \/ RepairRead \/ RepairGivesUp \/ RepairCall \/ RepairRefresh \/ RepairTurn
  \/ ResumeStep

Next ==
  \/ LoopStep \/ BeginTurn \/ Answer \/ Abort \/ Resume
  \/ WriteCheck \/ WriteRead \/ WriteAppend \/ Crash \/ Done

Spec == Init /\ [][Next]_vars

(* Whatever the loop awaits settles by itself: appends and reads finish,   *)
(* the provider and the tools have time limits and obey the signal.  Only  *)
(* the user may never answer.                                              *)
FairSpec == Spec /\ WF_vars(LoopStep)
-----------------------------------------------------------------------------
(* Properties.                                                             *)

Places ==
  {"idle", "stepTop", "context", "model", "modelCancelled", "modelFailed",
   "dispatch", "evaluate", "ask", "waiting", "authorized", "execute",
   "executing", "end", "repair", "repairCalls", "repairRefresh", "resume"}

(* Every variable has its type.                                            *)
TypeOK ==
  /\ log \in Seq(Event) /\ persisted \in Seq(Event)
  /\ cached \in Nat /\ seqn \in Nat /\ turn \in Nat /\ step \in Nat
  /\ pc \in Places /\ script \in Seq(Draft)
  /\ calls \in Seq(Call) /\ next \in Nat \ {0}
  /\ cur \in Call \cup {NoCall} /\ op \in Op \cup {NoOp}
  /\ approvals \subseteq Op /\ seen \subseteq Call \cup {NoCall}
  /\ sigs \in [Op -> Nat] /\ executed \in [Call -> Nat]
  /\ aborted \in BOOLEAN /\ active \in BOOLEAN
  /\ orphans \subseteq Call \cup {NoCall}
  /\ wpc \in {"idle", "checked", "read"} /\ wseq \in Nat
  /\ faults \in Nat /\ crashes \in Nat /\ writes \in Nat /\ resumes \in Nat

(* What read() and appendOrdered() both insist on: sequence numbers in the *)
(* file strictly increase, so the file can always be read back, whatever   *)
(* the loop, the repair, the resume and the settings request interleave.   *)
LogOrdered == Readable(log)

(* A tool call never has two terminal events, neither from a repair of an  *)
(* append whose outcome was ambiguous, nor from a resume after a repair.   *)
OneTerminalPerCall ==
  \A i \in DOMAIN log :
    log[i].type \in ToolTerminalTypes =>
      \A j \in i + 1 .. Len(log) :
        log[j].type \in ToolTerminalTypes => log[j].call # log[i].call

(* When a turn's terminal event is on file, each of its requested calls    *)
(* has its own before it.                                                  *)
TurnClosesItsCalls ==
  \A i \in DOMAIN log :
    log[i].type \in TurnTerminalTypes =>
      \A j \in 1 .. i - 1 :
        log[j].type = "tool.requested" /\ log[j].turn = log[i].turn =>
          \E k \in j + 1 .. i - 1 :
            log[k].type \in ToolTerminalTypes /\ log[k].call = log[j].call

(* No event of a turn follows its terminal event.                          *)
NothingAfterTheEnd ==
  \A i \in DOMAIN log :
    log[i].type \in TurnTerminalTypes =>
      \A j \in i + 1 .. Len(log) : log[j].turn # log[i].turn

(* A turn's terminal event is its last, and comes after that of each call, *)
(* whichever of the loop's ways out, a repair or a resume writes it.       *)
TurnEndsClean == TurnClosesItsCalls /\ NothingAfterTheEnd

(* Where the file holds an event of a call.                                *)
EventsOf(c, type) ==
  {i \in DOMAIN log : log[i].type = type /\ log[i].call = c}

(* No tool runs before the file says so: an executed call was requested,   *)
(* authorised and started on file, in this order, and, if an approval was  *)
(* asked for, granted in between; and it is executed once, over any number *)
(* of repairs, crashes and resumes.                                        *)
ExecutionIsOnFile ==
  \A c \in Call :
    executed[c] > 0 =>
      /\ executed[c] = 1
      /\ \E i \in EventsOf(c, "tool.requested") :
           \E j \in EventsOf(c, "tool.authorized") :
             \E k \in EventsOf(c, "tool.started") :
               /\ i < j /\ j < k
               /\ EventsOf(c, "approval.requested") # {} =>
                    \E g \in EventsOf(c, "approval.granted") : i < g /\ g < j

(* A call that was authorised without asking, because its operation was    *)
(* approved for the session, rests on a session approval on file; one that *)
(* was approved for a single call never serves another.                    *)
SessionGrantIsOnFile ==
  \A i \in DOMAIN log :
    log[i].type = "tool.authorized" /\ log[i].op # NoOp =>
      \E j \in 1 .. i - 1 :
        /\ log[j].type = "approval.granted"
        /\ log[j].call = log[i].call \/ log[j].op = log[i].op

(* What was done, and on whose word, can be told from the file alone.      *)
EffectsAreOnFile == ExecutionIsOnFile /\ SessionGrantIsOnFile

(* A session that was resumed has, at that point of the file, no dangling  *)
(* call and no incomplete turn, whatever failed before.                    *)
ResumeCloses ==
  \A i \in DOMAIN log :
    log[i].type = "session.resumed" =>
      LET prefix == SubSeq(log, 1, i) IN
      DanglingCalls(prefix) = {} /\ IncompleteTurns(prefix) = {}

(* A turn that returns leaves no dangling call and no incomplete turn, so  *)
(* that the session accepts the next one.                                  *)
TurnLeavesSessionUsable ==
  pc = "idle" => DanglingCalls(log) = {} /\ IncompleteTurns(log) = {}

(* A cancelled turn ends, wherever the abort finds it, also while it waits *)
(* for an approval nobody answers.                                         *)
CancelEndsTurn == (Running /\ aborted) ~> ~Running

(* A turn ends or waits for the user: steps and retries are bounded.       *)
TurnSettles == Running ~> (~Running \/ pc = "waiting")

-----------------------------------------------------------------------------
(* What the log promises to its readers, see TurnLedger.                   *)

TypesOf(test(_)) == {log[i].type : i \in {j \in DOMAIN log : test(log[j])}}

TurnStatus(t) ==
  LET types == TypesOf(LAMBDA e : e.turn = t)
  IN  IF types \cap TurnTerminalTypes # {} THEN "closed"
      ELSE IF "turn.started" \in types THEN "open" ELSE "new"

CallStatus(c) ==
  LET types == TypesOf(LAMBDA e : e.call = c)
  IN  IF types \cap ToolTerminalTypes # {} THEN "closed"
      ELSE IF "tool.started" \in types THEN "started"
      ELSE IF "tool.authorized" \in types THEN "authorized"
      ELSE IF "tool.requested" \in types THEN "requested" ELSE "new"

Ledger == INSTANCE TurnLedger
  WITH Turn <- 1 .. MaxTurns,
       turnStatus <- [t \in 1 .. MaxTurns |-> TurnStatus(t)],
       callStatus <- [c \in Call |-> CallStatus(c)],
       executions <- executed

(* The log is an implementation of the ledger.                             *)
ImplementsLedger == Ledger!Spec
=============================================================================
