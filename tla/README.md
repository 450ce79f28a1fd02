# Verification of ECHO Harness

ECHO Harness is a TypeScript coding agent with a command line and a web front end. One process serves one
workspace; sessions are append-only JSONL files, and everything the agent does is an event in one of them.
This directory holds TLA+ models of the parts whose correctness depends on the order of steps or on the
interplay of several readers and writers, TLC configurations that check them on small instances, and proofs
that TLAPS checks for every instance. Source paths below are relative to the repository's `src/`.

## 1. The system

| component | state it keeps | operations | who calls it |
|---|---|---|---|
| event log (`contracts/events.ts`, `session/session-query.ts`) | a sequence of numbered events per session | queries: open calls, open turns, runtime state | everyone |
| JSONL store (`session/jsonl-session-store.ts`) | the file; `lastSequences` cache; one append queue per session; ids being deleted | append, read, delete | loop, repository, service |
| repository (`session/jsonl-session-repository.ts`) | none of its own | create, resume (with compensation), list, delete | service |
| agent loop (`agent/agent-loop.ts`) | one turn: step, calls, approvals, seen ids, signatures, sequence number | run a turn; dispatch a call; repair after a storage failure | service |
| application service (`application/echo-application-service.ts`) | remembered model and safety mode, active turns, pending, settled and expired approvals | create, resume, run, cancel, answer, settings, delete, close | coordinator, web API, command line |
| active turn coordinator (`application/active-turn-coordinator.ts`) | the one active turn; a queue of submissions and deletions | submit, cancel, delete, shutdown | web API |
| web session API (`web/server/session-api.ts`) | none of its own | turns, cancel, approvals, settings, views, trace, event stream | browser |
| event hub (`web/sse-hub.ts`) | listeners; the one stream lease with its buffer | publish, claim, hand over, release | service, web API |
| idempotency (`web/idempotency.ts`) | pending and completed records | begin, commit | web API |
| projections (`web/session-projection.ts`, `web/trace/`, `session/policy-explain.ts`) | none (pure) | chat, view, trace records, details | web API |
| extension lifecycle (`extensions/lifecycle-manager.ts`, `workspace-extension-store.ts`) | catalogue, installed content, staging, trash; queue of operations | check, init, install, enable, disable, uninstall, quarantine | tools, web API |
| extension runtime (`extensions/runtime-manager.ts`, `worker-host.ts`) | workers, pending calls with timers | load, execute, cancel, unload, fault | lifecycle, tool registry |
| context builder (`context/`) | none (pure) | project events to messages under a budget | loop |
| provider (`provider/`) | model catalogue cache | stream a reply, list models | loop, web API, chat |
| safety policy (`security/`) | none (pure) | allow, ask or deny a call | loop |
| tools and execution (`tools/`, `execution/`) | the workspace's files, child processes | read, search, write, patch, run | loop |
| configuration (`config/`) | the configuration file, a write lock per process | load, merge, write | command line, web API |
| chat (`cli/`) | input reader, the session's mode and model | messages, Slash commands, questions | user |
| web client (`web/client/transport/`) | the selected session's snapshot, its event source | select, follow, reload | user |

How they interact. A submission goes browser → web API → coordinator (queued) → service → loop. The loop
appends every event before it acts on it, then hands it to an observer that feeds the hub and, through it, the
live stream. An approval travels the other way: the loop waits on a promise that the service keeps until
the user answers or the turn is aborted. Settings requests go around the coordinator's queue and append to the
same file as the loop. Before a turn the extension system loads or unloads workers, and their calls go from the
loop through the registry to a worker thread. After a crash only the files are left; resume closes what the crash
left open. Everything a person or the model reads of a session (chat, trace, terminal, context) is computed from
its log.

What is hard here:

- Everything in a process is one JavaScript thread, so the steps between two `await`s that really wait are
  atomic; what is checked before such an `await` and used after it is not.
- An append may fail, or take effect and still report a failure (the rename happened, the error came
  later). The code then repairs the log instead of retrying.
- The process may die between any two appends, file operations or renames.
- A person may answer late, never, or twice; a cancellation may meet the turn anywhere; lines are typed ahead.
- A browser repeats requests, reconnects streams and loads two snapshots at once.
- Extensions are code of others: they answer late, twice, wrongly or never, and take their thread down.
- Other programs change files and links while a tool works on them; a command leaves processes behind.

## 2. Hazards and the properties that make each part correct

`PROJECT.json` lists the hazards with their lines, each with the properties that would show it going wrong, or
the reason why none does. In short:

- *Log and turn*: numbers strictly increase; a call has one terminal event; a turn ends once and closes its
  calls; a tool runs once, and only after the file says it was requested, authorised and started; a session
  approval that is acted on is on file; after a failure the session accepts the next turn; a resume leaves
  nothing open; a cancelled turn ends; a turn ends or waits for the user.
- *Readers*: what the chat, the trace, the terminal and the model's context tell is what the log says, at every
  moment at which they can look, also across pages and live updates.
- *Service*: at most one turn runs; the snapshot is true; an accepted answer is the one on file; a deleted
  session does not come back; every request is answered; a closed server runs nothing.
- *Stream*: the client's trace has no hole, the one lease is never lost, a client at rest has caught up.
- *Requests and settings*: a repeated request runs once; a merge keeps what it does not name; a failed save
  leaves nothing; the configuration is never lost.
- *Extensions*: catalogue, content and runtime agree; what is offered is served; a call settles once.
- *Policy and tools*: nothing runs unasked that must be asked; file tools stay inside the workspace; a result tells
  what happened; a command's call ends.
- *Provider and console*: one answer, whole, or none; a line serves once; Full Access is confirmed.

## 3. Plan

Written, in the order of importance: `SessionLog`, `AgentTurn`, `TurnLedger`, `AgentTurnInvariants` and `AgentTurnProofs` (log, store,
turn, repair, resume and the abstract ledger); `TurnService`, `TurnServiceProofs` (coordinator and service);
`SessionStream` (hub, stream and client); `ExtensionWorker` with the abstract `WorkerContract`,
`ExtensionLifecycle`; `SessionViews`, `TraceDetails`, `TurnScreen`, `ContextProjection`, composed with `AgentTurn`
in `AgentTurnContext` and `AgentTurnReaders`; `ProviderSettings` (configuration and idempotency); `SafetyPolicy`, `ToolCalls`; `ChatConsole`;
`ProviderCall`; the proofs about them in `ExtensionProofs`, `SessionStreamProofs`, `ToolCallsProofs`,
`ProviderSettingsProofs`, `ChatConsoleProofs` and `ProviderCallProofs`.

To do, in this order:

1. An abstract one-turn-at-a-time service that `TurnService` refines.
2. Two processes on one session file (a chat that resumes what a web server runs).
3. The other requests of the browser's transport (details, runtime, the list of sessions), which apply late answers.
4. The bounded output buffer of a command, and the model catalogue shared by several requests.

## 4. What is modelled

Conventions. A stretch of code between two awaits that wait for something outside is one action; texts, names
and payloads are members of small sets; a bound on a counter is a constant `Max...` in the guard. A variable whose
comment says *history* only records what happened, for the properties. Operators that are plausible mistakes stand
before the definition they spoil; no specification uses them.

### SessionLog
Events as records (`seq`, `type`, `turn`, `call`, `op`) and the queries the code evaluates over a log:
`DanglingCalls` (calls requested without a terminal event), `IncompleteTurns`, `SeenCalls`, `SessionGrants`, and
`Readable`, the check `read()` makes line by line. Payload text is left out; `op` stands for a call's
approval key and signature.

### AgentTurn
The variables are the fields of `TurnState` in `agent-loop.ts` (`step`, `calls`, `approvals`, `seen`, `sigs`, `seqn`),
the file (`log`), the store's cache (`cached`), the abort signal (`aborted`), and the place of the loop
(`pc`). The code's shape is kept in this way: a stretch of code between two appends is one action, which
decides what will be appended and puts it in `script`; `Emit` appends the first draft, `EmitFails` is the error path of any of
these appends (`handleTurnException`, then the repair).

| code | actions |
|---|---|
| `continueSession`, `createState`, `executeTurn` | `BeginTurn` |
| `runSteps` | `StepTop`, `BuildContext`, `ModelReplies`, `ModelFailed`, `EndOfStep` |
| `dispatchTool` | `DispatchTool`, `EvaluateCall`, `AskApproval`, `Answer`, `ApprovalAborted`, `StartTool`, `Execute`, `ToolReturns`, `ToolThrowsStorage` |
| `finishCancelled` | `CancelCall`, used wherever the code looks at the signal |
| `repairStorageFailure` | `RepairRead`, `RepairGivesUp`, `RepairCall`, `RepairRefresh`, `RepairTurn` |
| `runTurn`'s `finally` | `EndTurn` |
| `resume`, `compensateIncomplete` | `Resume`, `ResumeStep` |
| `PATCH .../runtime`, `appendEvent` | `WriteCheck`, `WriteRead`, `WriteAppend` |
| `appendOrdered` | `Persist`, or `AppendFails`: `Refuse` (number not above the last), `Lose` (nothing written), `Blur` (written, but reported as failed) |
| process death | `Crash` |

A storage error inside a tool (`thrown`) and an unreadable file (`unreadable`) are the two other faults.

### TurnLedger
What the log promises to a reader: one turn open at a time, calls one after the other through request,
authorisation, start and exactly one end, one execution, and no turn closed before its calls. `AgentTurn`
maps its log to the ledger by the operators `TurnStatus` and `CallStatus`.

### SessionViews, TraceDetails, TurnScreen, ContextProjection; AgentTurnContext, AgentTurnReaders
Pure functions of a log, so these modules have no variables. `SessionViews` is the state, the chat and the trace
records of the web console (`projectSessionView`, `projectChat`, `projectTrace`), the delta and event a live update
carries, and a page of the chat. `TraceDetails` is the answer to a request for one record: its relations, its
explanation of a policy decision, and pages of the trace. `TurnScreen` folds the events of a turn into the lines
`event-renderer.ts` prints, and its final `Result`. `ContextProjection` is `EventContextBuilder`: the log cut into
fragments, calls paired with results, the latest fragments word for word, the older ones as a summary that is cut to
the room left; a text is its size in tokens, one size per kind.

`AgentTurnContext` EXTENDS `AgentTurn` with the last of them and says what the model may rely on (`ContextIsSound`),
`AgentTurnReaders` adds the others and says it of every reader at every moment. In this way each function is applied to every log the loop, the repair and the resume can leave behind, instead of to
logs made up for it.

### TurnService
A request of the web server is a process: `req` is what it asks, `pc` where it stands, `answer` its response. A
submission that is accepted goes on as its turn, so the turn is named by its request. The other variables
are the coordinator's (`chain`, `active`), the service's (`memory`, `activeTurns`, `pending`, `settled`,
`expired`), the store's (`log`, `deleting`) and the server's state (`server`).

| code | actions |
|---|---|
| `submitTurn`, `runTurn` before `turn.started` | `Enqueue`, `Submit`, `Register`, `PrepareFails`, `Prepared`, `Start` |
| the turn, reduced to at most one approval and its end | `Work`, `Ask`, `Record`, `End`, `LoopAppendFails`, `Repair` |
| `cancelTurn`, `respondToApproval` | `Cancel`, `Answer` |
| `deleteSession` of coordinator, service and store | `Enqueue`, `Delete`, `TurnStopped`, `MarkDeleting`, `Unlink`, `UnlinkFails` |
| `PATCH .../runtime` for the safety mode | `AskMode`, `Switch`, `Number`, `AppendMode` |
| `createWebServer`'s `close`, `shutdown`, `service.close` | `Shutdown`, `Close` |

What is one action. Between two awaits that wait for I/O the code runs in one go, together with the
continuations it makes ready (microtasks): `runTurn`'s `finally`, the coordinator's `finally` and the release
of its queue are one step (`Returns`), and the head of the queue begins before anything that waits for I/O goes on
(`Stands` lets nothing else happen while the head is `queued`). A file read followed by its use is one action at
the moment of use, except where an append can come between the read and what is based on it: `Prepared` and
`Number` take the sequence number that `Start`, the turn's appends and `AppendMode` use later. For `Register`, `Switch` and
`MarkDeleting` an older read makes no difference: a session is only deleted from the coordinator's queue, and an
append based on a deleted file is refused by the store. A settings request with the mode already in force is
written again if the remembered source differs; sources are left out, so `Switch` may do either.

### SessionStream
The server's end of each connection (`conn`: its stage, buffer and `lastSent`), the one `lease`, the files with what
was appended and what was published, the wire, and the client: its `source`, `lastSeq`, the snapshots it is loading
and the `screen`. An event is its number; a view is the number up to which the log was read for it.

| code | actions |
|---|---|
| the events route: `claim`, `loadView`, hand-over | `Claim` (or `Refuse`), `ReadHistory`, `ReadFails`, `GoLive` (through `HandOver`) |
| `publish`, `sendBusiness`, the socket's `close` | `Publish` (through `Emit`), `Notice` |
| a turn that appends and then publishes | `StartTurn`, `AppendEvent`, `Publish`, `EndTurn` |
| `loadSelected` and what it shows | `Select`, `ReadSnapshot`, `LoadFails`, `Apply` |
| `connectStream`, `applyStream`, `resync.required` | `Connect`, `Receive`, `ShowEvent` |
| the browser's own reconnection (external) | `Drop`, `Reconnect` |

### ExtensionWorker and WorkerContract
`ExtensionWorkerHost` and the bootstrap of the worker thread, joined by the two message channels `toWorker` and
`fromWorker`. `Execute`, `CancelCall` (by `Abort` or `CallTimer`), `GraceTimer`, `InitializeTimer`, `Shutdown`,
`ShutdownTimer`, `Receive` (`onMessage` and the exit event) and `Fault` are the host; `Handle`, `HandlerReturns`, `Stray` and
`Exit` are the thread, whose handlers may do anything. `WorkerContract` is what the runtime manager builds on, in
terms of calls *owed* to a caller and *held* by the worker; `ExtensionWorker!Contract` is the refinement mapping.

### ExtensionLifecycle
The disk (`staging`, `installed`, `trash`, `catalogue`), the runtime (`host`, `tools`, `worker`), the queue of
operations with the one at work (`op`, with its place `pc`), and what `WorkspaceExtensionSystem` does before and after a turn (`sys`).

| code | actions |
|---|---|
| `serialize`, the operations | `Request`, `Begin`, `Start`, `Finish` |
| `init`, install's copy and probe | `InitStaging`, `Materialize`, `Probe`, `Discard` |
| unload, open, register | `UnloadOld`, `Open`, `Opened`, `Settle` |
| `replaceCatalog` and the undo when it fails | `Commit`, `CommitFails`, `Restore`, `Restored` |
| clean-up of staging, content and trash | `ListLeftovers`, `Sweep`, `EndSweep` |
| a worker's fault and `persistQuarantine` | `WorkerFault`, `Quarantine` |
| `prepareForTurn`, `activateEnabled`, deactivation, `close` | `PrepareRestricted`, `PrepareFull`, `ActivateNext`, `TurnStarts`, `Rollback`, `TurnEnds`, `Close` |
| tool calls, an author's edits, process death | `CallBegins`, `CallEnds`, `EditStaging`, `Crash` |

Manifests and hashes are reduced to which version is which and which tool names it declares.

### ProviderSettings
The configuration file, the backups and temporary files of its writers, the web requests that merge into it under
the process's lock, the idempotency records, and the wizard of the command line, another process without that lock.

| code | actions |
|---|---|
| `withIdempotency`, the routes' guards | `Deliver` (`Begin`, `Repeat`), `Commit` |
| `discoverModels`, `saveProviderSettings` | `Discover`, `TakeLock`, `ReadExisting` (`Merged`), `Answer` |
| `replaceFile`, `writePersistentConfigFile`, by a request or the wizard | `WriteTemp`, `Rename`, `Aside`, `Second`, `Cleanup`, `Restore` |
| `config-wizard.ts` | `WizardStarts`, `WizardAnswered` |
| a turn, the deaths of either process | `Turn`, `ServerDies`, `WizardDies` |

### SafetyPolicy and ToolCalls
`SafetyPolicy!Evaluate` is the policy's decision from mode, declared paths, the traits its patterns find in a command
and the approvals. `ToolCalls` composes it with what the tools do: `Ask`, `Approve`, `ChangeMode`, `Cancel` are the
user's; a file tool goes through its stages one file operation at a time (`ResolvePatch`, `ReadBase`, `Resolve`,
`ReadPrevious`, `Revalidate`, `Open`, `Fill` for writes; `ResolveRead`, `ReadFile`; `ReadRoot`, `ReadGit`, `Visit`,
`Listed`, `Walked`, `SearchFile`, `Searched`, `Reported` for walks) while `Meddle` edits a file or turns a name into a
link between any two of them; a command goes through `Spawn`, `TimeLimit`, `AbortHeard`, `KillEnds`, `Close`,
`Fallback` and `Answer`, and `Process` is the external process with its descendants.

### ChatConsole
`chat` as a loop (`at`) over the reader's queue (`input`) with what was typed and not yet read (`tty`). `OnData`,
`OnEnd`, `Pause`, `Resume` are the reader; `ReadLine` parses a line and goes to a command, a message or the end;
`ConfirmOpen`, `ConfirmMode` and `AnswerTurn` are the questions read from the terminal while the reader is paused;
`Catalogue` and `WriteModel` are `/model`; `TurnStarts`, `TurnAsks`, `QuestionAborted`, `TurnEnds` and `TurnOver` are a
turn reduced to whether it runs, asks or was cancelled; `Interrupt` is Ctrl+C wherever the process hears it.

### ProviderCall
One request to the model: `Connected`, `ConnectFails`, `NextAttempt` are the attempts of `withRetries`; `TextArrives`,
`ReasoningArrives`, `CallArrives`, `FinishArrives` are the stream, the fragments of several calls in any order;
`Breaks`, `SeesAbort` and `Ends` are its ends, and `Calls`, `Aggregated` and `Completed` what `stream-aggregation.ts`,
`reasoning.ts` and `callModel` make of what arrived. The HTTP client is external.

## 5. The runs

| run | question | bounds |
|---|---|---|
| `turn` | does one turn end as the contract says for every reply, verdict, answer, abort and single fault, and do its readers see what is on file? | 2 calls, 2 operations, 13 replies, 2 steps, repetition limit 3, 1 turn, 1 fault |
| `session` | do repair, crash and resume keep executions on file, close what is open, leave a log from which a sound context is built, and implement the ledger? | 2 turns of up to 2 steps, 3 replies, 1 fault, 1 crash, 1 resume, 4 budgets |
| `live` | does a cancelled turn end, does every turn settle, and does the file stay ordered, while a settings request races? | 2 steps, 2 faults of any kind but an ambiguous append (those are in `turn` and `session`), 1 settings request |
| `requests` | one turn at a time, a true snapshot, deletions that wait and last, approvals on file as answered, a clean close? | 2 sessions, 3 requests of any kind, 2 modes, 1 failing append or unlink |
| `answered` | does every request get a response although no user ever answers? | 1 session, 3 requests, 1 fault |
| `stream` | no hole, no lost lease, and caught up at rest? | 2 sessions, 3 connections, 2 snapshots at once, 5 events, pages of 2, 2 selections, 1 lost connection or failed read |
| `worker` | is every call answered once and let go, whatever the handlers do? | 2 calls, 3 kinds of answer, 1 message an extension sends on its own |
| `extensions` | do disk, catalogue and runtime agree, and does every operation end? | 2 extensions, 2 versions (one takes a tool name of the other), 2 workers, 2 requests, 2 turns, 1 failure or crash |
| `settings` | once per request, nothing lost in a merge, a save or a crash, the lock passed on? | 2 deliveries, 2 identifiers, 4 drafts, 1 run of the wizard, 1 refused replacement, 1 failure, 1 crash |
| `tools` | is what runs allowed, inside, and truly reported, and does a command's call end? | 2 calls out of 17 kinds, 4 modes, 1 step of somebody else, 4 places |
| `console` | does each line serve once, are mode and model as chosen, do interrupts take effect? | 5 ways to start, 3 lines of 7 kinds, 2 interrupts |
| `provider` | one answer, whole, and the end of a cancelled request? | 2 attempts, 5 errors, 144 answers with up to 2 pieces of text and reasoning and 2 calls |

Why the bounds are enough.

- *turn, session, live*: two calls let one be closed while another is open and let an identifier
  be repeated; two steps reach the step limit through the ordinary end of a step; a repetition limit of three is
  passed by three calls of an operation; two turns are needed for anything said about "the file" as opposed to "the
  turn", and for earlier turns in a context; the budgets reach every case of the summary: none, whole, cut, no room,
  and a latest fragment that does not fit. One fault, crash and resume are the longest chain the code treats
  differently (fault, failed repair, crash, resume).
- *requests, answered*: three requests let a turn meet another submission and a deletion, or a deletion, an answer
  and a cancel, or two answers; two sessions let a deletion and a settings request meet the turn of another
  session. In `answered` one mode is enough: a settings request matters there only because its append competes for a
  number.
- *stream*: three connections are one that streams, one that is being replaced and one that is refused; a page of two
  records leaves a rest of the trace to the stream; five events reach past the page in either session.
- *worker, extensions*: a call early and another waiting is the most a fault can meet; two versions and two ids give
  an update, a clash of names and a quarantine of the wrong version; one failure suffices to reach each undo.
- *settings*: two deliveries are the owner and the copy of a request, or two owners of the lock; with the wizard there
  are three writers of one file.
- *tools*: two calls let an approval for the session be used by a later one; two places inside, one below `.git` and
  one outside are all a link can lead to.
- *console*: three lines are a command, the answer to its question and one typed ahead of both; two interrupts are
  one heard and one more.
- *provider*: two calls with two fragments each interleave in every way that can go wrong.

The theorems lift the bounds for the properties they state. Each module states a `TypeOK` as
a guide to its variables, and that of every component is a theorem.

Some remarks on single properties. `TurnEndsClean` and `TurnLeavesSessionUsable` are stated for one fault: with a second
one the recovery append of a call may be lost and `turn.failed` is written all the same (the code calls this best
effort). `ReadersSeeTheLog` exempts what the log does not tell: the trace's record of a decision no event carries,
and a record that shares its event's number with the last record of a page. `ToolsStayInside` is stated up to a link
that changes between the last resolution of a path and its use, `FileIsAsSaved` up to a merge that reads while another
process has the file moved aside: in both the code has no means to do better, and the history variables `relinked` and
`blind` say exactly when.

### Where the code and its documents or comments differ

Met while modelling; the model follows the code.

- `repairStorageFailure` (`agent-loop.ts:1111`) asks whether the file holds *any* turn's terminal event, so only the first
  turn of a session gets its `turn.failed`; a later one stays open and the session refuses the next turn until
  it is resumed. `TurnLeavesSessionUsable` is therefore checked on a first turn.
- After an append that took effect but was reported as failed, the store's cache is behind the file, and
  a settings request that read the old file appends the same number again; the file can no longer be read.
- A settings request looks for an active turn when it comes and again before it sets the safety mode, but an await
  and an append still follow; its event can land inside a turn that started meanwhile. The new mode is
  remembered before its event is on file: when the append is refused the request fails, but the mode stays in force.
- A submission sent during a turn, behind a deletion that stops that turn, waits and then runs.
- An approval whose event is appended while the turn is being aborted becomes pending after the abort, and an
  answer to it is reported as accepted although the loop never looks at it; in the trace it stays "pending" for ever.
- Ctrl+C in the chat during the first file read of a turn is lost (`chat.ts` cancels a turn that `runTurn` has not
  registered yet), although the repository's README says that it cancels a running turn.
- A model's stream that ends without a finish reason is taken for a completed answer, and an announced call without
  arguments for one with none; item 7 of section 13 of `docs/contracts.md`, that cut output must not pass for a
  complete result, speaks against it.
- The authoring guide of extensions names the category `timeout`; the host accepts `tool_timeout` and takes the other for a
  violation of the protocol.
- A page of the trace that ends between two records of one event never shows the second (`session-api.ts:633`).
- A link that leads outside or nowhere makes a listing or a search of the whole directory fail (`traversal.ts`).

## 6. Fairness

- `AgentTurn!FairSpec`: weak fairness of the loop's own steps: appends and reads finish, the provider and the tools have
  time limits and obey the abort signal, so whatever the loop awaits settles. Nothing is assumed of the user
  (`Answer`, `Abort`), of settings requests or of crashes. `ProviderCall!CancelEndsRequest`, `ToolCalls!CommandEnds` and
  `ExtensionWorker!WorkerLetsGo` check in detail what is assumed here of a provider, a command and an extension.
- `TurnService!FairSpec`: weak fairness of the steps of requests that have arrived, taken together: every step that stands
  ready waits for a file operation or for the loop, and both finish. Arrivals, answers, cancels and the shutdown are
  not fair.
- `ExtensionWorker!FairWorkerSpec`: armed timers fire, delivered messages are handled, a thread told to end ends. Nothing of
  the handlers.
- `ExtensionLifecycle!FairSpec`: the operation at work goes on, and so does the preparation of a turn; requests, calls,
  faults and edits are not fair.
- `ToolCalls!Spec`: file operations return, and what the host does about a command (timers, kills, the wait for its
  output) happens; no process ends by itself.
- `ChatConsole!Spec`: the loop and the reader go on, and a cancelled turn ends (`AgentTurn!CancelEndsTurn`); nobody has to
  type, and a turn nobody cancels may run for ever.
- `ProviderCall!Spec`: the wait between attempts is over some time and the HTTP client answers a signal it was given; no
  server has to send anything.
- `SessionStream` and `ProviderSettings` state no fairness: what must come about there is said of the moments at
  which nothing is under way (`CaughtUpAtRest`) or of who may go on (`LockServes`).

## 7. What is proved

In `AgentTurnProofs`, for every number of turns, faults, crashes, resumes and requests, and any set of calls and replies,
with the inductive invariants of `AgentTurnInvariants`:

- `TypeCorrect`: `Spec => []TypeOK`.
- `LogStaysOrdered`: without ambiguous appends, `Spec => []LogOrdered`. The inductive invariant `OrderInv` says that the
  numbers increase and that the cache, when set, is the last number on file; then the store's check is enough
  whoever appends. The assumption is needed: see the second difference in §5.
- `LogOrderedWithoutWrites`: without settings requests, `Spec => []LogOrdered` even with ambiguous appends. `SeqInv`:
  whoever of the loop, a repair or a resume holds a number holds one not below the last on file, and the cache is not
  ahead of the file, also after an append whose outcome was ambiguous. So it takes a second writer *and* an ambiguous
  append to lose the order.
- `CallsEndOnce`: `Spec => []OneTerminalPerCall`, with all faults. The invariant `CallInv` adds to the property who may
  still write a terminal event: the call in hand, if it is in none (`CallInHand`); a call of the current reply,
  which is fresh (`CallsToCome`, `CallsSeen`); a call a repair or a resume holds, which is open on file
  (`OrphansAreOpen`); and that queued terminal drafts are for such calls (`TerminalsAreFresh`). TLC checked
  `CallInv` on the instances of `turn`, `session` and `live` before it was proved.
- `EffectsOnFile`: `Spec => []EffectsAreOnFile`. `EffectInv` says how far the call in hand has come and that the file
  has what this stage presupposes (`StageInv`), that drafts still queued are the next things to be said of that call,
  and that what a call has done is on file (`FileInv`). `ShapeInv` ties the place of the loop to what is queued.
- `ResumeLeavesNothingOpen`: `Spec => []ResumeCloses`. `ResumeInv`: a resume holds every call that is open
  on file until it has closed it; the turns follow, and the record of the resume comes last.
- `TurnsEndClean` and `LogImplementsLedger`: `TurnEndsClean` and the refinement of `TurnLedger`, in every behaviour that
  satisfies `[][RecoveryReachesFile]_vars`: a step `RepairCall` puts the call's end on file, whatever its caller is
  told. Without the hypothesis the properties are false of the code: a repair that loses this append goes on and writes
  `turn.failed` over an open call, which the code calls best effort. `EndInv` says that only the turn at hand may be open
  on file (`TurnsInv`), that an open call is in it, and what the loop, a repair and a resume know of both at each place
  (`TurnInHand`, `CallStillOpen`); so every append is `Proper`, one the ledger allows. A step of the model maps to a
  step of the ledger or to a stutter event by event, by lemmas on what one more event adds to a log.
- `OneFaultIsRepaired`: with at most one fault and no settings requests the hypothesis holds (`FaultInv`: a repair has
  already met a fault), so both follow outright, for any number of turns, crashes and resumes.
- `FirstTurnLeavesSessionUsable`: one turn, at most one fault, no crash and no settings request imply
  `[]TurnLeavesSessionUsable`. Each restriction is needed; §5 and its first difference say what happens otherwise.
- `ContextSound`: `Spec => []ContextIsSound`, with all faults, crashes and resumes, any budgets and any sizes of texts.
  Most of it holds of every log, which is what the lemmas say: a fragment of the conversation carries calls and
  results of one turn only; pairing (`Only`) keeps exactly the calls that have a result, and what is sent for
  several fragments is what is sent for one after the other; what is kept word for word is a last part of the
  conversation, and what is summarised takes the room that is left. `BegunInv` adds that a context is built for a
  turn and a step which are on file, so that the conversation of the latest turn begins with its goal. `Conversation`
  and the sums are recursive functions; the lemmas `Counting` and `Recursion` do the induction for them over a set
  of numbers, which the prover can be given where a predicate it cannot.
- `LiveTraceIsWhole`: `Spec => [](LogOrdered => LiveTraceFollows)`, with all faults, crashes, resumes and settings
  requests: the part of `ReadersSeeTheLog` about a client of the live stream. One more event creates or touches only
  records of its own turn, step or call and stamps each with its number (`EarlierPatches`, `TouchedDraft`,
  `UntouchedDraft`), the numbers before it are lower, and what is said of a decision, once it is said, stays
  (`DecisionLasts`): so the records of the last event are all that changed, up to decisions no event tells. The
  hypothesis is what `read()` asks for: no client gets a trace from a file that cannot be read.
- `ViewShowsTheTurn`: `ViewIsTrue`, the part about the console, in every behaviour that satisfies
  `[][RecoveryReachesFile]_vars`. The invariant of `AgentTurnInvariants!ViewInv`: nothing but its end is told of a call that
  has ended (`LastWord`), the event that ends a turn leaves nothing open (`EndedClean`), a call is not authorised while
  its approval is open (`AsksAnswered`), a refusal is queued as a whole (`Denials`), and a repair finds no call open but
  the one in hand (`RepairsTheCall`).
- `TraceConnects`: `TraceIsConnected`, the part about the inspector, under the same condition and for any choice of the
  completed calls that were commands. When the last event ends a turn nothing is open, so every requested call has an end,
  which is the last thing told of it (`CallHasItsEnd`, from `OneTerminalPerCall`, `ClosedAfterRequest` and `LastWord`):
  that is the event its record and its details show (`ToolRecordIs`). `TraceInv` says what else the details rest on: an
  event about a call is about one that was requested (`NamedInv`), an approval is answered after it was asked for
  (`AskedInv`), what completed had started in a turn that had begun (`RanInv`), and a call that was asked for and
  then denied was refused by the user (`DeniedInv`). So both ends of a link are records (`RelationsLead`), and the decision
  shown agrees with the end of the call (`PolicySays`).
- `OneFaultIsShown`: with at most one fault and no settings requests the three follow outright.

In `TurnServiceProofs`, for any sets of sessions, requests and modes, and any number of faults:

- `ServiceTypes`: `Spec => []TypeOK`.
- `OneTurn`: `Spec => []OneTurnAtATime`. Neither the queue nor the coordinator's `active` alone keeps two turns apart:
  a turn leaves the queue when its `turn.started` is on file and runs on. `QueueInv` says that the requests in the
  queue are distinct and only the first is at work, that the active turn is not among them, and that a request
  that reads, prepares or starts does so while no turn is active.
- `SnapshotHolds`: `Spec => []SnapshotIsTrue`. `OnFileInv` says that the active turn is on file and that a turn that
  is neither active nor done is on no file. It needs the next one, or a deletion could take the active turn's file.
- `DeletionWaits`: `Spec => DeleteWaitsForTurn`. `RegisteredInv` says that the service's `activeTurns` are exactly the
  registered turns, each under its session, and that a session whose file is being unlinked has none: only the head
  of the queue registers, and the head is then the deletion.
- `DeletionLasts`: `Spec => []DeletedStaysDeleted`. A file that is gone is marked as being deleted, so no append brings
  it back, and a failed unlink takes the mark from a file that is still there (`TypeInv`, `DeleteInv`).

- `AnswersOnFile`: `Spec => []AnswerOnFileWasGiven`. `AnswerInv` follows an approval from the question to the file: while
  it is pending there is no accepted answer to it, once it is settled there is one, and the turn that is about to append
  holds that one (`Asked`, `Engaged`).
- `CloseStops`: `Spec => []CloseStopsTurns`. `CloseInv`: once the server is closed every registered turn is aborted
  but one that is still being prepared, which finds this out before its `turn.started`.

`ServiceInv`, the conjunction of the first five, is inductive; each lemma `Next...` shows that every step keeps one
part; `AnswerInv` and `CloseInv` are inductive on top of it. TLC finds all parts true on the instance of `requests`.

In `ExtensionProofs`, of the worker, for any calls and time limits and any number of stray messages:

- `WorkerKeepsContract`: `Spec => KeepsContract`, that is, `ExtensionWorker` implements `WorkerContract`. `HostStep` sorts
  the steps: each leaves the calls alone or asks, refuses, answers or releases one, stops a host without calls, or
  fails it and answers all; the lemma `NextIsHostStep` shows it action by action. The invariant `WorkerInv` (a call
  waits exactly while its caller has no answer; a closed host holds no call) makes each sort an action of the
  contract.
- `ClosedHostOwesNothing`: `Spec => []NobodyLeftWaiting` (a closed host holds no call, and its fault was counted once at
  most), and `AnswersAreFinal`: `Spec => [][AnswersStay]_vars`, from the same invariant and lemma.
- `WorkerTypes`: `WorkerSpec => []WorkerTypeOK`, if "completed" is something a handler may answer. `ThreadInv` adds that the
  thread is only told to execute calls.

And of the lifecycle, for any extensions, versions, tool names, workers, requests and turns, and any number of
failures, faults, edits and crashes:

- `TypeCorrect`: `Spec => []TypeOK`. The type of the operation at work says which fields it has at which place
  (`OpInv`), and that of the runtime which extension has a worker (`RunType`).
- `ToolsAreServed`: `Spec => []ToolsServed`. `NamesInv`: the names in the registry are those that the loaded versions
  declare, disjoint between extensions. Each step moves the runtime in one of few ways (`RuntimeMoves`: open, register,
  take back, close), and each way keeps it.
- `StorageIsKept`: `Spec => []StorageAgrees`. That the catalogue's entries are on disk is not inductive by itself: an
  update replaces content before it commits the catalogue and must be able to undo it. `StoreInv` says for every place
  of an operation where the old and the new version are (staging, installed, trash) and what the catalogue holds
  (`Found`, `Committed`, `Gone`), `EmptyInv` what is left when no operation runs, and `LoadedInv` that what is loaded is
  enabled in the catalogue except where the operation at work is just changing it. `NoneAssumption`, that the mark for
  "no extension" is no extension, is needed throughout.

TLC finds these invariants true on the instance of `extensions`.

In `SessionStreamProofs`, for any sessions and connections, page size, selections and faults:

- `LeaseServed`: `Spec => []LeaseIsServed`. The property is inductive once it is known what connections look like
  (`LeaseInv`) and that the client's source names a connection or none (`SourceInv`). Every step keeps the
  connections at their places, lets one leave and gives back the lease it held, or moves one on with it.
- `TraceHasNoHole`: `Spec => []NoHole`, and `RestIsCaughtUp`: `Spec => []CaughtUpAtRest`. `ViewInv` follows the events from
  the file to the screen. `ServedInv`, of the server's end: while a connection is set up, its buffer has all that was
  published since the history was read; once it is live, all that was published was sent (here `LeaseIsServed` is
  needed: who does not hold the lease hears nothing, and is not set up yet). `FollowInv`, of the connection the client
  listens to: what is under way joins what was seen, each event at most one after the one before it, and the last of it
  is the last that was sent. `ScreenInv`: what is shown are the numbers from 1 to the last one seen. What a hand-over
  sends is stated without recursion (`Continues`), so that the lemma `HandOverRun` can say it. It follows that no
  number is ever missing where the code looks for one: in this model `resync.required` is a guard that nothing trips.
- `StreamTypes`: `Spec => []TypeOK`, for finitely many sessions and a `MaxSeq` of at least 1, since `TypeOK` has the
  model's bound in it. `BoundInv`: what a connection buffers, sends or asks for, what a snapshot reads and what the client
  shows are numbers of events on file. The three theorems before need no bound.

In `ToolCallsProofs`, for any calls, trees and limits and any meddling by others:

- `NothingUnasked`: `Spec => []NothingRunsUnasked`. The lemma `PolicyHolds` says it of the policy: outside Full Access
  what it refuses may not pass, and what must be asked passes only if approved. `AskInv` adds that a call that waits
  for the user was let pass under a mode that asks, so that an answer can only start what the policy has seen; the mode
  and the approvals do not change while a call is in hand (`ToolStep`).
- `ToolsInside`: `Spec => []ToolsStayInside`. `StayInv` says what a tool holds at each stage: between the resolution of
  its path and its use, the place it resolved is allowed, or a link was changed since (`relinked`). Following links
  is stated without recursion (`LeadsTo`: what every set closed under links contains), so that the prover can use it.
- `ToolTypes`: `Spec => []TypeOK`. `WorkOK` says what a file tool holds at each stage, `CallAt` which tool can be there.
- `ResultsHold`: `Spec => []ResultsAreTrue`. `ProcessInv`: a command nobody told to stop is not being killed, and is
  over only when nothing of it is left. `PatchInv`: from the second reading on the file has the text the patch was
  made from, unless somebody edited it. `SearchInv`, as long as nobody edits anything: of a walk, every plain file was
  seen or is still to be visited, none twice (`WalkSoFar`); of a search, what was found are the lines of the files that
  were searched, each once (`SearchSoFar`). The lemma `Counting` is induction over a set of numbers instead of a
  predicate; with it the prover can follow the edits of a patch, which are a recursive function.

In `ProviderSettingsProofs`, for any identifiers, deliveries and drafts and any number of failures and crashes:

- `NothingIsLost`: `Spec => ConfigSurvives`. `SavedInv` is needed: whoever moved the file aside still has the old one, and
  a writer that cleans up does not hold the last copy, as it put its own in place before. Other processes may take the
  file between these steps, which is why the invariant speaks of some writer and not of this one.
- `LockIsServed`: `Spec => []LockServes`. `LockInv`: the line has exactly those who wait for the lock or hold it, each
  once, and only the first is past the lock.
- `RequestsRunOnce`: `Spec => []OncePerRequest`. `OnceInv`: whoever is under way finds its own body in a pending record;
  whoever has an answer finds it in the record, or asked for something else; a record is made once and has one
  owner.
- `SavesAreTrue`: `Spec => []FileIsAsSaved`. `RestInv`: as long as no merge was blind, what is on file, set aside or about to
  be written has a rest the user put there. `PlacedInv`: of a request that has not put its file into place there is none
  anywhere, one that may have to go back does not hold its own as the old one, and when it failed its file is gone or
  with somebody who will not put it back. It needs `NumberInv`, that requests are told apart by their numbers, and
  `RestoreInv`, that only who lost a file operation restores.
- `SettingsTypes`: `Spec => []TypeOK`. `TypeInv` adds that whoever is under way, or waits for who is, has asked for something
  (`AsksOK`), and that the number a request writes into the file is one of the deliveries counted.

In `ChatConsoleProofs`, for any lines, models, ways to start and lists the provider may offer, and any number of
interrupts:

- `ConsoleTypes`: `Spec => []TypeOK`. `Shape` adds that the reader does not listen while a question is open or a command or
  turn is under way, and that the command carried out is that of the line.
- `SettingsChosen`: `Spec => []SettingsWereChosen`. `ConsentInv`: before there is a session consent is the answer to the
  question the start asks, later Full Access has it, also in the mode a command is about to set. `SeenInv`: every list a
  model is chosen from was seen, also the one that came with a failed request.
- `LinesServeOnce`: `Spec => []EachLineServesOnce`. `LinesInv` speaks of what is not served yet as one sequence, the
  reader's queue and then the terminal's (`Unserved`): it is numbered, rises, lies behind all that the prompt took, and
  has no answer. Every step leaves the sequence as it is, adds to its end, takes its head, puts the mark of the
  end in, or takes a piece out of its middle (an answer and what came with it); there is a lemma for each.

In `ProviderCallProofs`, for any answer of the model, any fragments and any number of attempts and faults:

- `OneAnswer`: `Spec => []OneAnswerIsHeard`, and `WholeAnswer`: `Spec => []AnswerIsWhole`. `StreamInv` follows the answer from
  the server to the reader. `SentOK`: the counts of what the server has sent lie within its answer.
  `FragmentsOK`: the calls begun are the first ones of the answer; of each the fragments, in the order of arrival, are as
  much of its arguments as was sent, and they bear the call's identifier if it has one. `HeardOK`: so is the text.
  `AttemptOK` counts the failures against the attempts: an attempt follows only a failure that may be tried again,
  and before the stream nothing was heard. A beginning of the arguments that can be parsed is all of them or nothing, and nothing only
  if the stream was cut, which is what the client looks for. `ArgsOf` is stated without recursion, by the ranks of the
  fragments, so that the lemmas `Joined...` can say what one more fragment adds.
- `ProviderTypes`: `Spec => []TypeOK`; a retry never goes beyond the last attempt.

TLC finds the invariants of the last three modules true on the instances of `settings`, `console` and `provider`, those of `ToolCallsProofs` on
that of `tools`, `ViewInv` of `SessionStreamProofs` on that of `stream`, and `TraceInv` on those of `turn` and `session`.

The proofs assume only `ConstantsAssumption`, the assumptions of `SessionLog`, `SizesAssumption`, `BudgetsAssumption`, `ServiceAssumption`, `WorkerAssumption`,
`LifecycleAssumption`, `NoneAssumption`, `StreamAssumption`, `ToolAssumption`, `SettingsAssumption`,
`ConsoleAssumption` and `ProviderAssumption`, which TLC evaluates in the runs, and the hypotheses named with the theorems.

Model-checked only: liveness (`live`, `answered`, and the temporal properties of the other runs), which the prover
does not reach; and of `ReadersSeeTheLog` the parts `PagesAreWhole` and `ScreenIsTrue`, which are about sequences of pages
and the terminal's fold over a turn, a sequence of lines with a state of many parts.

## 8. What is not modelled

- Wording, redaction, JSON and layout of events; the contents of messages; the patterns by which the policy finds a
  trait in a command; schemas and type declarations (`contracts/`), which hold no behaviour.
- The file system below one append (its temporary file and rename are one step that succeeds, fails, or succeeds and
  reports a failure), the listing of sessions and the creation of a session's first event.
- Extension manifests, hashing and JSON schemas: their verdict is a choice of `ExtensionLifecycle`.
- The shell and components of the browser, the sample transport for its development, and the transport's other
  requests. By reading: answers that come after another session was selected are applied to it
  (`http-transport.ts:559`, `625`), and a failed load leaves the loading mark set.
- The one-shot commands of the command line, colours and layout of the terminal, exit codes.
- The bounded buffer of a command's output, the environment of the child, PowerShell itself.
- HTTP and TLS; the mapping of a request to the provider's format.
- Two processes on one session file: nothing in the code keeps them apart, and `resume` in a chat may
  compensate a turn that a web server runs.

`PROJECT.json` names, for each component, what is modelled and what is left out.
