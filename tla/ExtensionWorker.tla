--------------------------- MODULE ExtensionWorker ---------------------------
(***************************************************************************)
(* One extension worker: the host in the harness (ExtensionWorkerHost) and *)
(* the bootstrap in the worker thread, joined by two message channels.     *)
(* The handlers are code the harness does not control: they may answer     *)
(* late, never, twice, wrongly, or take the thread down.  Timers may fire  *)
(* at any moment while they are armed.                                     *)
(***************************************************************************)
EXTENDS Sequences, Naturals, FiniteSets

CONSTANTS
  Call,
  Body,       (* what a handler's answer may hold: "completed", "malformed",
                 or the category of a failure                              *)
  MaxStray    (* bound: messages an extension sends on its own             *)

ASSUME WorkerAssumption ==
  /\ MaxStray \in Nat
  /\ Call \cap {"initialize", "unknown", "host"} = {}

VARIABLES
  starting,     (* the initialize request is pending                        *)
  usable,       (* open() has resolved: the host has been handed out        *)
  pending,      (* "none", "waiting", or "early": settled, still in the map *)
  answer,       (* what each caller was told                                *)
  closed, shuttingDown,
  faults,       (* how often onFault was called                             *)
  toWorker, fromWorker,
  thread,       (* "up", "doomed" (told to end) or "exited"                 *)
  running,      (* calls whose handler has not returned                     *)
  stray

hostVars   == <<starting, usable, pending, answer, closed, shuttingDown, faults>>
threadVars == <<thread, running, stray>>
workerVars == <<starting, usable, pending, answer, closed, shuttingDown, faults,
          toWorker, fromWorker, thread, running, stray>>

ErrorCategories ==
  {"configuration", "provider_auth", "provider_rate_limit", "provider_network",
   "provider_protocol", "invalid_tool_input", "workspace_violation",
   "policy_denied", "tool_timeout", "tool_execution", "storage", "cancelled",
   "internal"}

Outcomes ==
  {"completed", "failed", "handler_failed", "cancelled", "timeout", "fault",
   "unavailable", "refused"}

Msg(type, id, body) == [type |-> type, id |-> id, body |-> body]
Message ==
  [type: {"initialize", "execute", "cancel", "shutdown", "ready", "failure",
          "result", "protocol_error", "malformed", "exit"},
   id: Call \cup {"initialize", "unknown", "host"},
   body: Body \cup {"none"}]
Nothing == Msg("exit", "host", "none")

WorkerInit ==
  /\ starting = TRUE /\ usable = FALSE
  /\ pending = [c \in Call |-> "none"]
  /\ answer = [c \in Call |-> "none"]
  /\ closed = FALSE /\ shuttingDown = FALSE
  /\ faults = 0
  /\ toWorker = <<Msg("initialize", "initialize", "none")>>
  /\ fromWorker = <<>>
  /\ thread = "up" /\ running = {} /\ stray = 0

-----------------------------------------------------------------------------
(* The host *)

ActiveCalls == {c \in Call : pending[c] # "none"}

\* fault(): nothing once a shutdown began or a fault was reported; else close,
\* report, answer everybody who waits, and end the thread.
Fault ==
  IF shuttingDown \/ closed
  THEN UNCHANGED <<starting, usable, pending, answer, closed, faults, thread>>
  ELSE /\ closed' = TRUE
       /\ faults' = faults + 1
       /\ starting' = FALSE
       /\ answer' = [c \in Call |-> IF pending[c] = "waiting" THEN "fault" ELSE answer[c]]
       /\ pending' = [c \in Call |-> "none"]
       /\ thread' = IF thread = "exited" THEN "exited" ELSE "doomed"
       /\ UNCHANGED usable

\* execute(): refusals first, then the call is pending and posted.
Execute(c) ==
  /\ usable /\ answer[c] = "none" /\ pending[c] = "none"
  /\ \/ /\ closed
        /\ answer' = [answer EXCEPT ![c] = "unavailable"]
        /\ UNCHANGED <<pending, toWorker>>
     \/ /\ ~closed
        /\ \E refusal \in {"refused", "cancelled"} :
             answer' = [answer EXCEPT ![c] = refusal]
        /\ UNCHANGED <<pending, toWorker>>
     \/ /\ ~closed
        /\ pending' = [pending EXCEPT ![c] = "waiting"]
        /\ toWorker' = Append(toWorker, Msg("execute", c, "none"))
        /\ UNCHANGED answer
  /\ UNCHANGED <<starting, usable, closed, shuttingDown, faults, fromWorker, threadVars>>

\* cancelCall(): the caller is answered now; the worker gets a grace period.
CancelCall(c, reason) ==
  /\ pending[c] = "waiting"
  /\ pending' = [pending EXCEPT ![c] = "early"]
  /\ answer' = [answer EXCEPT ![c] = reason]
  /\ toWorker' = Append(toWorker, Msg("cancel", c, "none"))
  /\ UNCHANGED <<starting, usable, closed, shuttingDown, faults, fromWorker, threadVars>>

Abort(c) == CancelCall(c, "cancelled")
CallTimer(c) == CancelCall(c, "timeout")

GraceTimerOfTimeouts(c) ==
  /\ pending[c] = "early" /\ answer[c] = "timeout"
  /\ Fault
  /\ UNCHANGED <<shuttingDown, toWorker, fromWorker, running, stray>>

GraceTimer(c) ==
  /\ pending[c] = "early"
  /\ Fault
  /\ UNCHANGED <<shuttingDown, toWorker, fromWorker, running, stray>>

InitializeTimer ==
  /\ starting
  /\ Fault
  /\ UNCHANGED <<shuttingDown, toWorker, fromWorker, running, stray>>

SettleCall(c, outcome) ==
  /\ pending' = [pending EXCEPT ![c] = "none"]
  /\ answer' = [answer EXCEPT ![c] = outcome]
  /\ UNCHANGED <<starting, usable, closed, faults, thread>>

\* removePending() without a resolve: the caller has its answer.
Forget(c) ==
  /\ pending' = [pending EXCEPT ![c] = "none"]
  /\ UNCHANGED <<starting, usable, answer, closed, faults, thread>>

InitializeAnswer(m) ==
  IF m.type = "ready"
  THEN /\ starting' = FALSE /\ usable' = TRUE
       /\ UNCHANGED <<pending, answer, closed, faults, thread>>
  ELSE Fault

\* normalizeExecution(): the outcome, or a protocol error.
Valid(body) == body = "completed" \/ body \in ErrorCategories
OutcomeOf(body) == IF body = "completed" THEN "completed" ELSE "failed"

LateAnswerCounts(m, c) ==
  IF m.type = "failure" THEN SettleCall(c, "handler_failed")
  ELSE IF m.type = "result" /\ Valid(m.body) THEN SettleCall(c, OutcomeOf(m.body))
  ELSE Fault

CallAnswer(m, c) ==
  IF pending[c] = "early" THEN Forget(c)
  ELSE IF m.type = "failure" THEN SettleCall(c, "handler_failed")
  ELSE IF m.type = "result" /\ Valid(m.body) THEN SettleCall(c, OutcomeOf(m.body))
  ELSE Fault

\* onMessage(), and the thread's exit event, in the order they were sent.
Receive ==
  /\ fromWorker # <<>>
  /\ LET m == Head(fromWorker) IN
       IF m.type = "exit"
       THEN Fault
       ELSE IF m.id = "initialize" /\ starting
       THEN InitializeAnswer(m)
       ELSE IF m.id \in ActiveCalls /\ m.type # "malformed"
       THEN CallAnswer(m, m.id)
       ELSE Fault
  /\ fromWorker' = Tail(fromWorker)
  /\ UNCHANGED <<shuttingDown, toWorker, running, stray>>

\* shutdown(): refused while calls are pending.
Shutdown ==
  /\ usable /\ ~closed /\ ActiveCalls = {}
  /\ shuttingDown' = TRUE /\ closed' = TRUE
  /\ toWorker' = Append(toWorker, Msg("shutdown", "unknown", "none"))
  /\ UNCHANGED <<starting, usable, pending, answer, faults, fromWorker, threadVars>>

ShutdownTimer ==
  /\ shuttingDown /\ thread = "up"
  /\ thread' = "doomed"
  /\ UNCHANGED <<hostVars, toWorker, fromWorker, running, stray>>

-----------------------------------------------------------------------------
(* The worker thread *)

Send(m) == fromWorker' = Append(fromWorker, m)

Handle ==
  /\ thread # "exited" /\ toWorker # <<>>
  /\ toWorker' = Tail(toWorker)
  /\ LET m == Head(toWorker) IN
       \/ /\ m.type = "initialize"
          /\ \E type \in {"ready", "failure"} : Send(Msg(type, "initialize", "none"))
          /\ UNCHANGED <<thread, running>>
       \/ /\ m.type = "execute"
          /\ running' = running \cup {m.id}
          /\ UNCHANGED <<fromWorker, thread>>
       \/ /\ m.type = "cancel"
          /\ UNCHANGED <<fromWorker, thread, running>>
       \/ /\ m.type = "shutdown"
          /\ Send(Msg("ready", "unknown", "none"))
          /\ thread' = "doomed"
          /\ UNCHANGED running
  /\ UNCHANGED <<hostVars, stray>>

HandlerReturns(c) ==
  /\ thread # "exited" /\ c \in running
  /\ running' = running \ {c}
  /\ \/ \E body \in Body : Send(Msg("result", c, body))
     \/ \E type \in {"failure", "protocol_error"} : Send(Msg(type, c, "none"))
  /\ UNCHANGED <<hostVars, toWorker, thread, stray>>

\* An extension may post on its own, under an identifier it has seen or not.
Stray(id) ==
  /\ thread # "exited" /\ stray < MaxStray
  /\ stray' = stray + 1
  /\ \E type \in {"malformed", "result"} :
       Send(Msg(type, id, IF type = "result" THEN "completed" ELSE "none"))
  /\ UNCHANGED <<hostVars, toWorker, thread, running>>

\* Whatever was posted before the exit is delivered before it.
Exit ==
  /\ thread # "exited"
  /\ thread' = "exited" /\ running' = {}
  /\ Send(Nothing)
  /\ UNCHANGED <<hostVars, toWorker, stray>>

DoomedExit == thread = "doomed" /\ Exit

-----------------------------------------------------------------------------
WorkerNext ==
  \/ Receive \/ InitializeTimer \/ Shutdown \/ ShutdownTimer
  \/ Handle \/ Exit \/ Stray("unknown")
  \/ \E c \in Call : \/ Execute(c) \/ Abort(c) \/ CallTimer(c) \/ GraceTimer(c)
                     \/ HandlerReturns(c) \/ (c \in running /\ Stray(c))

WorkerSpec == WorkerInit /\ [][WorkerNext]_workerVars

\* Timers fire, delivered messages are handled and a thread told to end ends.
\* Nothing is assumed of the extension's handlers.
Fairness ==
  /\ WF_workerVars(Receive) /\ WF_workerVars(InitializeTimer) /\ WF_workerVars(ShutdownTimer)
  /\ WF_workerVars(DoomedExit)
  /\ \A c \in Call : WF_workerVars(CallTimer(c)) /\ WF_workerVars(GraceTimer(c))

FairWorkerSpec == WorkerSpec /\ Fairness

-----------------------------------------------------------------------------
WorkerTypeOK ==
  /\ starting \in BOOLEAN /\ usable \in BOOLEAN
  /\ pending \in [Call -> {"none", "waiting", "early"}]
  /\ answer \in [Call -> Outcomes \cup {"none"}]
  /\ closed \in BOOLEAN /\ shuttingDown \in BOOLEAN
  /\ faults \in 0..1
  /\ toWorker \in Seq(Message) /\ fromWorker \in Seq(Message)
  /\ thread \in {"up", "doomed", "exited"}
  /\ running \subseteq Call /\ stray \in 0..MaxStray

\* The host keeps the promise the runtime manager builds on: every call is
\* answered once and never again, and the host closes once.
Contract ==
  INSTANCE WorkerContract WITH
    Outcome <- Outcomes, Unanswered <- "none",
    open <- ~closed, owed <- {c \in Call : pending[c] = "waiting"},
    held <- ActiveCalls, answered <- answer, told <- faults > 0
KeepsContract == Contract!Spec

\* A call does not keep an extension busy for ever, and a thread does not
\* outlive its host, whatever the handlers do (time limit, grace period,
\* shutdown's time limit).
WorkerLetsGo ==
  /\ \A c \in Call : (pending[c] # "none") ~> (pending[c] = "none")
  /\ closed ~> (thread = "exited")
=============================================================================
