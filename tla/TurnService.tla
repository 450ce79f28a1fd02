----------------------------- MODULE TurnService -----------------------------
(***************************************************************************)
(* The web server's requests over several sessions: ActiveTurnCoordinator  *)
(* (submissions and deletions in one queue, one active turn, cancel,       *)
(* shutdown) and EchoApplicationService (remembered safety modes, active   *)
(* turns, approvals), over session files that may be deleted.              *)
(*                                                                         *)
(* A request is a process; what it does between two awaits that really     *)
(* wait (file reads, appends, unlink, the loop's work) is one action.  A   *)
(* submission goes on as its turn: the request names the turn.  What a     *)
(* turn does is reduced to at most one approval and its end: AgentTurn has *)
(* the details.                                                            *)
(***************************************************************************)
EXTENDS Sequences, FiniteSets, Naturals

CONSTANTS
  Session, Request, Mode,
  None,
  Kind,        (* kinds of requests considered *)
  MaxFaults    (* bound: appends and unlinks that fail *)

ASSUME ServiceAssumption ==
  /\ Kind \subseteq {"submit", "delete", "cancel", "answer", "mode"}
  /\ None \notin Session \cup Request \cup Mode
  /\ MaxFaults \in Nat

VARIABLES
  log,         (* the file of each session; empty: there is none            *)
  deleting,    (* the store's deletingSessionIds                            *)
  memory,      (* the remembered mode of each session                       *)
  chain,       (* the coordinator's queue; its head is at work              *)
  active,      (* the coordinator's active turn                             *)
  activeTurns, (* the service's active turn of each session                 *)
  pending, settled, expired,   (* approvals, named by their turn            *)
  server,      (* "up", "stopping" or "closed"                              *)
  req,         (* what each request asks for, and, as history, whether a    *)
               (* turn was active when it came                              *)
  pc,          (* where each request, or the turn it started, stands        *)
  answer,      (* the response to each request                              *)
  mode,        (* the mode a turn runs in, or a request wants               *)
  seqn,        (* the number a turn or a request believes to be the last    *)
  aborted,     (* the turns whose signal is aborted                         *)
  choice,      (* the accepted answer to each turn's approval               *)
  faults

storeVars    == <<log, deleting, faults>>
serviceVars  == <<memory, activeTurns>>
approvalVars == <<pending, settled, expired, choice>>
coordVars    == <<chain, active>>
requestVars  == <<req, mode, seqn>>
vars == <<log, deleting, memory, chain, active, activeTurns, pending, settled,
          expired, server, req, pc, answer, mode, seqn, aborted, choice, faults>>

Event ==
  [type: {"session.started", "safety.changed"}, turn: {None}, mode: Mode]
  \cup [type: {"turn.started"}, turn: Request, mode: Mode]
  \cup [type: {"approval.requested", "approval.granted", "approval.denied",
               "turn.end"}, turn: Request, mode: {None}]

Ev(type, turn, m) == [type |-> type, turn |-> turn, mode |-> m]

(* The mode a session's file shows.                                        *)
FileMode(s) ==
  LET changes == {i \in DOMAIN log[s] :
                    log[s][i].type \in {"session.started", "safety.changed"}}
  IN  log[s][CHOOSE i \in changes : \A j \in changes : j =< i].mode

Has(s, type, t) == \E i \in DOMAIN log[s] : log[s][i].type = type /\ log[s][i].turn = t

OpenTurns(s) == {t \in Request : Has(s, "turn.started", t) /\ ~Has(s, "turn.end", t)}

NoRequest == [kind |-> "none", session |-> None, turn |-> None, choice |-> None,
              busy |-> FALSE]

Init ==
  /\ \E m \in [Session -> Mode] :
       /\ log = [s \in Session |-> <<Ev("session.started", None, m[s])>>]
       /\ memory \in [Session -> Mode \cup {None}]
       /\ \A s \in Session : memory[s] \in {m[s], None}
  /\ deleting = {}
  /\ chain = <<>> /\ active = None
  /\ activeTurns = [s \in Session |-> None]
  /\ pending = {} /\ settled = {} /\ expired = {}
  /\ server = "up"
  /\ req = [r \in Request |-> NoRequest]
  /\ pc = [r \in Request |-> "unsent"]
  /\ answer = [r \in Request |-> "none"]
  /\ mode = [r \in Request |-> None]
  /\ seqn = [r \in Request |-> 0]
  /\ aborted = {}
  /\ choice = [r \in Request |-> "none"]
  /\ faults = 0

-----------------------------------------------------------------------------
(* Helpers: the store, the queue, responses.                               *)

Respond(r, what) == answer' = [answer EXCEPT ![r] = what]

Goto(r, place) == pc' = [pc EXCEPT ![r] = place]

(* Mutant: no queue.                                                       *)
AtOnce(r, place) == pc[r] = place

(* A queued request begins when it is the head of the queue, and that in   *)
(* the microtask after it got there, before anything awaited goes on.      *)
AtWork(r, place) == chain # <<>> /\ Head(chain) = r /\ pc[r] = place

HeadWaits == \E r \in Request : AtWork(r, "queued")

Stands(r, place) == pc[r] = place /\ ~HeadWaits

Fault == faults < MaxFaults /\ faults' = faults + 1

(* The coordinator has an active turn; mutant: it never looks.             *)
NeverBusy == FALSE

Busy == active # None

(* Mutant: the session's deletion is not looked at.                        *)
AcceptsWhenDeleting(s, n) == n > Len(log[s])

(* The append of an event under the number n: refused while the session is *)
(* being deleted and when the number is not above the last one.            *)
Accepts(s, n) == s \notin deleting /\ n > Len(log[s])

AppendOk(s, n, e) ==
  /\ Accepts(s, n)
  /\ log' = [log EXCEPT ![s] = Append(@, e)]
  /\ UNCHANGED <<deleting, faults>>

AppendFails(s, n) ==
  /\ IF Accepts(s, n) THEN Fault ELSE UNCHANGED faults
  /\ UNCHANGED <<log, deleting>>

(* The mode getRuntimeState returns.                                       *)
Remembered(s) == IF memory[s] = None THEN FileMode(s) ELSE memory[s]

S(r) == req[r].session

-----------------------------------------------------------------------------
(* Requests arrive while the server is up.                                 *)

Arrive(r, kind, s, t, c) ==
  /\ server = "up" /\ Stands(r, "unsent") /\ kind \in Kind
  /\ req' = [req EXCEPT ![r] =
               [kind |-> kind, session |-> s, turn |-> t, choice |-> c,
                busy |-> kind = "submit" /\ Busy]]

(* Submissions and deletions are queued.                                   *)
Enqueue(r) ==
  /\ \E k \in {"submit", "delete"}, s \in Session : Arrive(r, k, s, None, None)
  /\ chain' = Append(chain, r)
  /\ Goto(r, "queued")
  /\ UNCHANGED <<storeVars, serviceVars, approvalVars, active, server, answer,
                 mode, seqn, aborted>>

(* Mutant: only the server's stop reaches a pending approval.              *)
WaitingOfStopped(T) == IF server = "up" THEN {} ELSE {t \in T : t \in pending}

(* The signals of the turns T are aborted: the pending approval a turn     *)
(* waits for expires, and the turn unwinds.                                *)
WaitingOf(T) == {t \in T : pc[t] = "waiting" /\ t \in pending}

Aborts(T) ==
  /\ aborted' = aborted \cup T
  /\ pending' = pending \ WaitingOf(T)
  /\ expired' = expired \cup WaitingOf(T)
  /\ UNCHANGED <<settled, choice>>

Unwinding(T) == [r \in Request |-> IF r \in WaitingOf(T) THEN "ending" ELSE pc[r]]

Cancel(r) ==
  /\ \E t \in Request :
       /\ req[t].kind = "submit"
       /\ Arrive(r, "cancel", S(t), t, None)
       /\ IF active = t
          THEN /\ Aborts({t}) /\ Respond(r, "ok")
               /\ pc' = [Unwinding({t}) EXCEPT ![r] = "done"]
          ELSE /\ Respond(r, "not_active") /\ Goto(r, "done")
               /\ UNCHANGED <<approvalVars, aborted>>
  /\ UNCHANGED <<storeVars, serviceVars, chain, active, server, mode, seqn>>

(* Mutant: an answered approval stays pending.                             *)
PendingAsBefore(t) == pending

StillPending(t) == pending \ {t}

(* respondToApproval.                                                      *)
Answer(r) ==
  /\ \E t \in Request, c \in {"granted", "denied"} :
       /\ req[t].kind = "submit"
       /\ Arrive(r, "answer", S(t), t, c)
       /\ IF t \in pending
          THEN /\ pending' = StillPending(t) /\ settled' = settled \cup {t}
               /\ choice' = [choice EXCEPT ![t] = c]
               /\ Respond(r, "ok")
               /\ pc' = [pc EXCEPT ![r] = "done",
                           ![t] = IF pc[t] = "waiting" THEN "recording" ELSE pc[t]]
          ELSE /\ Respond(r, IF t \in settled THEN "duplicate"
                             ELSE IF t \in expired THEN "expired" ELSE "not_pending")
               /\ Goto(r, "done")
               /\ UNCHANGED <<pending, settled, choice>>
  /\ UNCHANGED <<storeVars, serviceVars, expired, chain, active, server, mode,
                 seqn, aborted>>

-----------------------------------------------------------------------------
(* A submission: submitTurn and runTurn up to turn.started.                *)

Leave(r) == chain' = IF chain # <<>> /\ Head(chain) = r THEN Tail(chain) ELSE chain

Submit(r) ==
  /\ AtWork(r, "queued") /\ req[r].kind = "submit"
  /\ IF Busy
     THEN Respond(r, "turn_active") /\ Goto(r, "done") /\ Leave(r)
     ELSE IF activeTurns[S(r)] # None
     THEN Respond(r, "error") /\ Goto(r, "done") /\ Leave(r)
     ELSE Goto(r, "reading") /\ UNCHANGED <<answer, chain>>
  /\ UNCHANGED <<storeVars, serviceVars, approvalVars, active, server,
                 requestVars, aborted>>

(* getRuntimeState has read the file; the turn registers itself.           *)
Register(r) ==
  /\ Stands(r, "reading")
  /\ IF log[S(r)] = <<>> \/ OpenTurns(S(r)) # {}
     THEN /\ Respond(r, "error") /\ Goto(r, "done") /\ Leave(r)
          /\ UNCHANGED <<serviceVars, mode>>
     ELSE /\ mode' = [mode EXCEPT ![r] = Remembered(S(r))]
          /\ memory' = [memory EXCEPT ![S(r)] = Remembered(S(r))]
          /\ activeTurns' = [activeTurns EXCEPT ![S(r)] = r]
          /\ Goto(r, "preparing")
          /\ UNCHANGED <<answer, chain>>
  /\ UNCHANGED <<storeVars, approvalVars, active, server, req, seqn, aborted>>

(* Mutant: the coordinator forgets only a turn that was cancelled.         *)
ActiveAfterCancel(r) == IF active = r /\ r \in aborted THEN None ELSE active

ActiveAfter(r) == IF active = r THEN None ELSE active

(* runTurn's finally, and the coordinator's after it.                      *)
Returns(r) ==
  LET mine == {t \in pending : S(t) = S(r)} IN
  /\ pending' = pending \ mine /\ expired' = expired \cup mine
  /\ activeTurns' = [activeTurns EXCEPT ![S(r)] = None]
  /\ active' = ActiveAfter(r)
  /\ Goto(r, "done")
  /\ Leave(r)
  /\ UNCHANGED <<settled, choice, memory>>

(* Mutant: a closed extension system still prepares a turn.                *)
ExtensionsUnchecked == TRUE

ExtensionsOpen == server # "closed"

(* prepareToolsForTurn fails, as it does once the extensions are closed.   *)
PrepareFails(r) ==
  /\ Stands(r, "preparing")
  /\ Returns(r) /\ Respond(r, "error")
  /\ UNCHANGED <<storeVars, server, requestVars, aborted>>

(* The tools are ready and continueSession has read the file.              *)
Prepared(r) ==
  /\ Stands(r, "preparing") /\ ExtensionsOpen
  /\ seqn' = [seqn EXCEPT ![r] = Len(log[S(r)])]
  /\ Goto(r, "starting")
  /\ UNCHANGED <<storeVars, serviceVars, approvalVars, chain, active, server, req,
                 answer, mode, aborted>>

(* turn.started is on file: the observer tells the coordinator, which      *)
(* answers and lets the next request go on.                                *)
Start(r) ==
  /\ Stands(r, "starting")
  /\ AppendOk(S(r), seqn[r] + 1, Ev("turn.started", r, mode[r]))
  /\ seqn' = [seqn EXCEPT ![r] = @ + 1]
  /\ active' = r /\ Leave(r)
  /\ Respond(r, "ok") /\ Goto(r, "running")
  /\ UNCHANGED <<serviceVars, approvalVars, server, req, mode, aborted>>

(* Any append of the turn that fails ends it with a repair.                *)
LoopAppendFails(r) ==
  /\ \E place \in {"starting", "asking", "recording", "ending"} : Stands(r, place)
  /\ AppendFails(S(r), seqn[r] + 1)
  /\ Goto(r, "repair")
  /\ UNCHANGED <<serviceVars, approvalVars, chain, active, server, requestVars,
                 answer, aborted>>

-----------------------------------------------------------------------------
(* The turn.                                                               *)

Emits(r, e) ==
  /\ AppendOk(S(r), seqn[r] + 1, e)
  /\ seqn' = [seqn EXCEPT ![r] = @ + 1]

(* The loop has work to ask about, or none left, or sees the signal.       *)
Work(r) ==
  /\ Stands(r, "running")
  /\ \/ /\ r \notin aborted /\ ~Has(S(r), "approval.requested", r)
        /\ Goto(r, "asking")
     \/ Goto(r, "ending")
  /\ UNCHANGED <<storeVars, serviceVars, approvalVars, chain, active, server,
                 requestVars, answer, aborted>>

(* approval.requested is on file: the observer enters the approval, then   *)
(* the loop looks at the signal and waits.                                 *)
Ask(r) ==
  /\ Stands(r, "asking")
  /\ Emits(r, Ev("approval.requested", r, None))
  /\ pending' = pending \cup {r}
  /\ Goto(r, IF r \in aborted THEN "ending" ELSE "waiting")
  /\ UNCHANGED <<serviceVars, settled, expired, choice, chain, active, server, req,
                 answer, mode, aborted>>

(* The event of an answer.                                                 *)
ApprovalEvent(c) == IF c = "granted" THEN "approval.granted" ELSE "approval.denied"

Record(r) ==
  /\ Stands(r, "recording")
  /\ Emits(r, Ev(ApprovalEvent(choice[r]), r, None))
  /\ Goto(r, "running")
  /\ UNCHANGED <<serviceVars, approvalVars, chain, active, server, req, answer,
                 mode, aborted>>

(* The terminal event is on file and runTurn returns.                      *)
End(r) ==
  /\ Stands(r, "ending")
  /\ Emits(r, Ev("turn.end", r, None))
  /\ Returns(r)
  /\ UNCHANGED <<server, req, answer, mode, aborted>>

(* The repair closes the turn only in a file without any turn's end; the   *)
(* result is returned either way, also if turn.started was never written.  *)
Repair(r) ==
  /\ Stands(r, "repair")
  /\ LET s == S(r)
         open == /\ \A t \in Request : ~Has(s, "turn.end", t)
                 /\ \E t \in Request : Has(s, "turn.started", t)
     IN  \/ open /\ AppendOk(s, Len(log[s]) + 1, Ev("turn.end", r, None))
         \/ open /\ AppendFails(s, Len(log[s]) + 1)
         \/ ~open /\ UNCHANGED storeVars
  /\ Returns(r)
  /\ Respond(r, "ok")
  /\ UNCHANGED <<server, requestVars, aborted>>

-----------------------------------------------------------------------------
(* A deletion: stop the session's turn, wait for it, delete the file.      *)

Delete(r) ==
  /\ AtWork(r, "queued") /\ req[r].kind = "delete"
  /\ IF Busy /\ S(active) = S(r)
     THEN /\ Aborts({active})
          /\ req' = [req EXCEPT ![r].turn = active]
          /\ pc' = [Unwinding({active}) EXCEPT ![r] = "stopping"]
     ELSE /\ Goto(r, "deleting")
          /\ UNCHANGED <<req, approvalVars, aborted>>
  /\ UNCHANGED <<storeVars, serviceVars, chain, active, server, answer, mode, seqn>>

TurnStopped(r) ==
  /\ Stands(r, "stopping") /\ pc[req[r].turn] = "done"
  /\ Goto(r, "deleting")
  /\ UNCHANGED <<storeVars, serviceVars, approvalVars, chain, active, server,
                 requestVars, answer, aborted>>

(* repository.delete has read the file; from here on appends are refused.  *)
MarkDeleting(r) ==
  /\ Stands(r, "deleting")
  /\ IF activeTurns[S(r)] # None \/ log[S(r)] = <<>>
     THEN /\ Respond(r, "error") /\ Goto(r, "done") /\ Leave(r)
          /\ UNCHANGED deleting
     ELSE /\ deleting' = deleting \cup {S(r)}
          /\ Goto(r, "unlinking")
          /\ UNCHANGED <<answer, chain>>
  /\ UNCHANGED <<log, faults, serviceVars, approvalVars, active, server,
                 requestVars, aborted>>

Unlink(r) ==
  /\ Stands(r, "unlinking")
  /\ log' = [log EXCEPT ![S(r)] = <<>>]
  /\ memory' = [memory EXCEPT ![S(r)] = None]
  /\ settled' = {t \in settled : S(t) # S(r)}
  /\ expired' = {t \in expired : S(t) # S(r)}
  /\ Respond(r, "ok") /\ Goto(r, "done") /\ Leave(r)
  /\ UNCHANGED <<deleting, faults, activeTurns, pending, choice, active, server,
                 requestVars, aborted>>

UnlinkFails(r) ==
  /\ Stands(r, "unlinking")
  /\ Fault
  /\ deleting' = deleting \ {S(r)}
  /\ Respond(r, "error") /\ Goto(r, "done") /\ Leave(r)
  /\ UNCHANGED <<log, serviceVars, approvalVars, active, server, requestVars, aborted>>

-----------------------------------------------------------------------------
(* A settings request for the safety mode: PATCH runtime, outside the      *)
(* coordinator's queue.                                                    *)

AskMode(r) ==
  /\ \E s \in Session, m \in Mode :
       /\ Arrive(r, "mode", s, None, None)
       /\ mode' = [mode EXCEPT ![r] = m]
  /\ IF Busy
     THEN Respond(r, "turn_active") /\ Goto(r, "done")
     ELSE Goto(r, "switching") /\ UNCHANGED answer
  /\ UNCHANGED <<storeVars, serviceVars, approvalVars, coordVars, server, seqn,
                 aborted>>

(* getRuntimeState has read the file; the new mode is remembered at once.  *)
(* The same mode is switched to again only if its source differs, which is *)
(* left open here.                                                         *)
Switch(r) ==
  LET s == S(r)
      same == Remembered(s) = mode[r]
      refused == log[s] = <<>> \/ (activeTurns[s] # None /\ ~same)
  IN
  /\ Stands(r, "switching")
  /\ memory' = IF log[s] = <<>> THEN memory
               ELSE [memory EXCEPT ![s] = IF refused THEN Remembered(s) ELSE mode[r]]
  /\ \/ refused /\ Respond(r, "error") /\ Goto(r, "done")
     \/ ~refused /\ same /\ Respond(r, "ok") /\ Goto(r, "done")
     \/ ~refused /\ Goto(r, "numbering") /\ UNCHANGED answer
  /\ UNCHANGED <<storeVars, activeTurns, approvalVars, coordVars, server,
                 requestVars, aborted>>

(* appendEvent has read the file.                                          *)
Number(r) ==
  /\ Stands(r, "numbering")
  /\ seqn' = [seqn EXCEPT ![r] = Len(log[S(r)])]
  /\ Goto(r, "switched")
  /\ UNCHANGED <<storeVars, serviceVars, approvalVars, coordVars, server, req, mode,
                 answer, aborted>>

AppendMode(r) ==
  /\ Stands(r, "switched")
  /\ \/ /\ AppendOk(S(r), seqn[r] + 1, Ev("safety.changed", None, mode[r]))
        /\ Respond(r, "ok")
     \/ /\ AppendFails(S(r), seqn[r] + 1)
        /\ Respond(r, "error")
  /\ Goto(r, "done")
  /\ UNCHANGED <<serviceVars, approvalVars, coordVars, server, requestVars, aborted>>

-----------------------------------------------------------------------------
ActiveTurn == {active} \ {None}

(* The server stops: no more requests, the active turn is cancelled; when  *)
(* it has ended, or after the time limit, the service closes.              *)

Shutdown ==
  /\ server = "up" /\ ~HeadWaits /\ server' = "stopping"
  /\ Aborts(ActiveTurn) /\ pc' = Unwinding(ActiveTurn)
  /\ UNCHANGED <<storeVars, serviceVars, coordVars, requestVars, answer>>

Close ==
  /\ server = "stopping" /\ ~HeadWaits /\ server' = "closed"
  /\ LET T == {activeTurns[s] : s \in Session} \ {None} IN Aborts(T) /\ pc' = Unwinding(T)
  /\ UNCHANGED <<storeVars, serviceVars, coordVars, requestVars, answer>>

Done ==
  /\ \A r \in Request : pc[r] \in {"unsent", "done"}
  /\ server = "closed"
  /\ UNCHANGED vars

TurnStep(r) ==
  \/ Submit(r) \/ Register(r) \/ PrepareFails(r) \/ Prepared(r) \/ Start(r)
  \/ LoopAppendFails(r) \/ Work(r) \/ Ask(r) \/ Record(r) \/ End(r) \/ Repair(r)

DeleteStep(r) ==
  Delete(r) \/ TurnStopped(r) \/ MarkDeleting(r) \/ Unlink(r) \/ UnlinkFails(r)

ModeStep(r) == Switch(r) \/ Number(r) \/ AppendMode(r)

Arrival(r) == Enqueue(r) \/ Cancel(r) \/ Answer(r) \/ AskMode(r)

Next ==
  \/ \E r \in Request : Arrival(r) \/ TurnStep(r) \/ DeleteStep(r) \/ ModeStep(r)
  \/ Shutdown \/ Close \/ Done

Spec == Init /\ [][Next]_vars

(* Reads, appends and the loop's work finish; users may never answer.      *)
FairSpec ==
  Spec /\ WF_vars(\E r \in Request : TurnStep(r) \/ DeleteStep(r) \/ ModeStep(r))

-----------------------------------------------------------------------------
(* Properties.                                                             *)

Registered ==
  {"preparing", "starting", "running", "asking", "waiting", "recording", "ending",
   "repair"}

Live == {r \in Request : pc[r] \in Registered}

Place ==
  Registered \cup
    {"unsent", "queued", "reading", "stopping", "deleting", "unlinking", "switching",
     "numbering", "switched", "done"}

Response ==
  {"none", "ok", "error", "turn_active", "not_active", "duplicate", "expired",
   "not_pending"}

(* Every variable has its type.                                            *)
TypeOK ==
  /\ log \in [Session -> Seq(Event)] /\ deleting \subseteq Session
  /\ memory \in [Session -> Mode \cup {None}]
  /\ chain \in Seq(Request) /\ active \in Request \cup {None}
  /\ activeTurns \in [Session -> Request \cup {None}]
  /\ pending \subseteq Request /\ settled \subseteq Request /\ expired \subseteq Request
  /\ server \in {"up", "stopping", "closed"}
  /\ pc \in [Request -> Place] /\ answer \in [Request -> Response]
  /\ mode \in [Request -> Mode \cup {None}] /\ seqn \in [Request -> Nat]
  /\ aborted \subseteq Request
  /\ choice \in [Request -> {"none", "granted", "denied"}]
  /\ faults \in Nat

(* One turn runs at a time in the whole process, also while a cancelled    *)
(* one still unwinds and while submissions and deletions wait.             *)
OneTurnAtATime == Cardinality(Live) =< 1

(* The coordinator's snapshot, on which settings requests and the event    *)
(* stream rely: it names a turn exactly from its turn.started to its end.  *)
SnapshotIsTrue ==
  \A r \in Request :
    active = r <=> r \in Live /\ Has(S(r), "turn.started", r)

(* A deletion never takes the file from under a turn: no turn of the       *)
(* session is registered, in the service or the coordinator.               *)
DeleteWaitsForTurn ==
  [][\A s \in Session :
       log[s] # <<>> /\ log'[s] = <<>> =>
         /\ activeTurns[s] = None /\ \A r \in Live : S(r) # s
         /\ active = None \/ S(active) # s]_vars

(* A deleted session stays deleted, whatever was reading or writing it.    *)
DeletedStaysDeleted ==
  \A r \in Request : req[r].kind = "delete" /\ answer[r] = "ok" => log[S(r)] = <<>>

(* The requests whose answer to a turn's approval was accepted.            *)
Given(t) ==
  {r \in Request : req[r].kind = "answer" /\ req[r].turn = t /\ answer[r] = "ok"}

(* What the file says about an approval is the one accepted answer to it.  *)
AnswerOnFileWasGiven ==
  \A t \in Request :
    /\ Cardinality(Given(t)) =< 1
    /\ req[t].kind = "submit" =>
         \A c \in {"granted", "denied"} :
           Has(S(t), ApprovalEvent(c), t) => \E r \in Given(t) : req[r].choice = c

(* Once the service has closed, no turn starts, and a turn that still runs *)
(* has been aborted.                                                       *)
CloseStopsTurns ==
  server = "closed" =>
    \A r \in Live : Has(S(r), "turn.started", r) => r \in aborted

(* Every request is answered, also behind a deletion that stops a turn     *)
(* that waits for a user.                                                  *)
RequestsAnswered == \A r \in Request : pc[r] # "unsent" ~> answer[r] # "none"

-----------------------------------------------------------------------------
(* Statements of the documents that the code does not keep.                *)

(* security.md: while a session has an active turn, every switch of its    *)
(* safety mode fails.  So none is on file between a turn's start and end.  *)
NoSwitchDuringTurn ==
  \A s \in Session : \A j \in DOMAIN log[s] :
    log[s][j].type = "safety.changed" =>
      \A i \in 1 .. j - 1 :
        log[s][i].type = "turn.started" =>
          \E k \in i + 1 .. j - 1 :
            log[s][k].type = "turn.end" /\ log[s][k].turn = log[s][i].turn

(* contracts.md: a switch appends safety.changed.  So when no request is   *)
(* at work, the mode remembered for a session is the one its file shows.   *)
SwitchIsOnFile ==
  (\A r \in Request : pc[r] \in {"unsent", "done"}) =>
    \A s \in Session :
      log[s] # <<>> /\ memory[s] # None => memory[s] = FileMode(s)

(* web-api.md: a submission is refused while a turn is active, and never   *)
(* queued.                                                                 *)
NoAutoQueue ==
  \A r \in Request : req[r].kind = "submit" /\ req[r].busy => r \notin Live

(* contracts.md: an answer to an approval that has expired is rejected, not *)
(* treated as a success.  So none is accepted for a turn that is aborted.  *)
LateAnswerRejected == [][\A t \in aborted : choice'[t] = choice[t]]_vars
=============================================================================
