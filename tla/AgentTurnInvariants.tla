------------------------ MODULE AgentTurnInvariants ------------------------
(***************************************************************************)
(* The inductive invariants of AgentTurn: why its properties hold.  They   *)
(* build on one another, in the order of the sections:                     *)
(*   TypeInv    types; the calls a resume holds were requested             *)
(*   OrderInv   numbers increase, and the cache is the last one or empty   *)
(*   CallInv    who may still write the end of a call                      *)
(*   ShapeInv   what may be queued at each place of the loop               *)
(*   EffectInv  how far the call in hand has come, and that it is on file  *)
(*   ResumeInv  a resume holds every call that is open                     *)
(*   EndInv     only the turn in hand is open, and open calls are in it    *)
(*   SeqInv, FaultInv   whoever holds a number holds one not below the last*)
(*   UsableInv  the session after its first turn                           *)
(*   BegunInv   the turn a context is built for, and its step, are on file *)
(*   ViewInv    nothing but its end is told of a call that has ended       *)
(*   TraceInv   what is told of a call, and in which order                 *)
(* LoopInv is the conjunction of those of the loop.                        *)
(***************************************************************************)
EXTENDS AgentTurnReaders

-----------------------------------------------------------------------------
(* Type correctness.  The turn of a call is looked up in the log when a    *)
(* resume closes it, so the calls a resume holds must be in the log; an    *)
(* approval is asked for an operation.                                     *)

RequestedIn(l) == CallsWith(l, {"tool.requested"})

TypeInv ==
  /\ TypeOK
  /\ pc = "resume" => orphans \subseteq RequestedIn(log)
  /\ pc \in {"ask", "waiting"} => op \in Op

-----------------------------------------------------------------------------
(* The file stays readable as long as no append is ambiguous, that is, as  *)
(* long as the store's last sequence number is the file's: the settings    *)
(* request, the loop, its repair and a resume may then interleave at will. *)

OrderInv == Readable(log) /\ cached \in {0, Top(log)}

-----------------------------------------------------------------------------
(* One terminal event per call.  A terminal event reaches the file in two  *)
(* ways.  The loop queues one for the call in hand, which must not have    *)
(* one yet; therefore calls still to come must not have one either, and    *)
(* differ from each other, which is what validateToolCallIds sees to, as   *)
(* long as the identifiers it knows cover the terminal events on file.     *)
(* A repair or a resume closes the calls it found open when it read the    *)
(* file, and must drop each one after one attempt, whatever its outcome.   *)

Closed(l) == CallsWith(l, ToolTerminalTypes)

Busy == {"evaluate", "ask", "waiting", "authorized", "execute", "executing"}

Repairing == {"repairCalls", "repairRefresh", "resume"}

OneTerminal ==
  /\ OneTerminalPerCall
  /\ Closed(log) \subseteq RequestedIn(log)

TerminalsAreFresh ==
  \A i \in DOMAIN script :
    script[i].type \in ToolTerminalTypes =>
      /\ script[i].call = cur
      /\ cur \notin Closed(log) /\ cur \in RequestedIn(log) /\ cur \in seen
      /\ \A j \in DOMAIN script : script[j].type \in ToolTerminalTypes => j = i
      /\ pc \in {"dispatch", "end"}

CallInHand ==
  pc \in Busy =>
    /\ cur \notin Closed(log) /\ cur \in seen
    /\ \/ cur \in RequestedIn(log)
       \/ pc = "evaluate" /\ script = <<About("tool.requested", cur)>>

CallsToCome ==
  pc \in Busy \cup {"dispatch"} =>
    \A i \in next .. Len(calls) :
      /\ calls[i] \notin Closed(log) /\ calls[i] # cur /\ calls[i] \in seen
      /\ \A j \in i + 1 .. Len(calls) : calls[j] # calls[i]

CallsSeen ==
  pc \notin {"idle", "repair"} \cup Repairing =>
    Closed(log) \subseteq seen /\ cur \in seen \cup {NoCall}

OrphansAreOpen ==
  pc \in Repairing =>
    /\ script = <<>>
    /\ orphans \cap Closed(log) = {} /\ orphans \subseteq RequestedIn(log)

CallInv ==
  /\ OneTerminal
  /\ TerminalsAreFresh /\ CallInHand /\ CallsToCome /\ CallsSeen /\ OrphansAreOpen

-----------------------------------------------------------------------------
(* What the script can hold at each place.  An event that opens a turn, a  *)
(* call or a stage of a call is queued alone, at the place that waits for  *)
(* it; a turn's terminal event is the last of a script that ends the turn. *)

MarkedTypes ==
  {"session.started", "session.resumed", "turn.started", "tool.requested",
   "approval.requested", "approval.granted", "tool.authorized", "tool.started"}
  \cup TurnTerminalTypes

Plain(s) == \A i \in DOMAIN s : s[i].type \notin MarkedTypes

Final(s) ==
  /\ s # <<>> /\ s[Len(s)].type \in TurnTerminalTypes
  /\ \A i \in 1 .. Len(s) - 1 : s[i].type \notin MarkedTypes

Authorization(s) ==
  \/ \E o \in Op \cup {NoOp} : s = <<With("tool.authorized", cur, o)>>
  \/ \E g \in {NoOp, op} :
       s = <<With("approval.granted", cur, g), With("tool.authorized", cur, op)>>

ShapeInv ==
  \/ script = <<>>
  \/ pc = "stepTop" /\ script = <<Note("turn.started")>>
  \/ pc \in {"context", "model", "modelCancelled", "modelFailed", "dispatch"} /\ Plain(script)
  \/ pc = "end" /\ Final(script)
  \/ pc = "evaluate" /\ script = <<About("tool.requested", cur)>>
  \/ pc = "ask" /\ script = <<About("approval.requested", cur)>>
  \/ pc = "authorized" /\ Authorization(script)
  \/ pc = "execute" /\ script = <<About("tool.started", cur)>>

-----------------------------------------------------------------------------
(* What a tool does is on file before it does it.  The file alone obeys    *)
(* FileInv: a call's events follow each other, with the approval that was  *)
(* asked for among them.  Each append keeps it that is Sound, and StageInv *)
(* says why those of the loop are: what the call in hand has on file, and  *)
(* that the calls to come have nothing, which rests on the identifiers the *)
(* loop has seen.                                                          *)

AskedIn(l)      == CallsWith(l, {"approval.requested"})
GrantedIn(l)    == CallsWith(l, {"approval.granted"})
AuthorizedIn(l) == CallsWith(l, {"tool.authorized"})
StartedIn(l)    == CallsWith(l, {"tool.started"})

InLoop == pc \notin {"idle", "repair"} \cup Repairing

Chain ==
  /\ StartedIn(log) \subseteq AuthorizedIn(log)
  /\ AuthorizedIn(log) \cup AskedIn(log) \cup GrantedIn(log) \subseteq RequestedIn(log)
  /\ RequestedIn(log) \subseteq Call

(* Where a log holds an event of a call.                                   *)
Occurs(l, c, type) == {i \in DOMAIN l : l[i].type = type /\ l[i].call = c}

GrantTrail(l, c) ==
  \E i \in Occurs(l, c, "tool.requested"), g \in Occurs(l, c, "approval.granted") : i < g

AuthTrail(l, c) ==
  \E i \in Occurs(l, c, "tool.requested"), j \in Occurs(l, c, "tool.authorized") :
    /\ i < j
    /\ Occurs(l, c, "approval.requested") # {} =>
         \E g \in Occurs(l, c, "approval.granted") : i < g /\ g < j

StartTrail(l, c) ==
  \E i \in Occurs(l, c, "tool.requested"), j \in Occurs(l, c, "tool.authorized"),
     k \in Occurs(l, c, "tool.started") :
    /\ i < j /\ j < k
    /\ Occurs(l, c, "approval.requested") # {} =>
         \E g \in Occurs(l, c, "approval.granted") : i < g /\ g < j

Trails ==
  /\ \A c \in GrantedIn(log) : GrantTrail(log, c)
  /\ \A c \in AuthorizedIn(log) : AuthTrail(log, c)
  /\ \A c \in StartedIn(log) : StartTrail(log, c)

FileInv == Chain /\ Trails /\ SessionGrantIsOnFile

Fresh ==
  /\ InLoop => RequestedIn(log) \subseteq seen
  /\ pc \in Busy \cup {"dispatch"} =>
       \A i \in next .. Len(calls) : calls[i] \notin RequestedIn(log)

Stage ==
  /\ pc = "evaluate" /\ script # <<>> => cur \in Call \ RequestedIn(log)
  /\ pc = "evaluate" /\ script = <<>> =>
       cur \in RequestedIn(log) \ (AuthorizedIn(log) \cup AskedIn(log))
  /\ pc \in {"ask", "waiting"} => cur \in RequestedIn(log) \ AuthorizedIn(log)
  /\ pc = "authorized" /\ script # <<>> =>
       /\ cur \in RequestedIn(log) \ AuthorizedIn(log)
       /\ script[1].type = "tool.authorized" =>
            /\ cur \in AskedIn(log) => cur \in GrantedIn(log)
            /\ script[1].op # NoOp =>
                 cur \in GrantedIn(log) \/ script[1].op \in SessionGrants(log)
  /\ pc = "authorized" /\ script = <<>> => cur \in AuthorizedIn(log) \ StartedIn(log)
  /\ pc = "execute" /\ script # <<>> => cur \in AuthorizedIn(log) \ StartedIn(log)
  /\ pc = "execute" /\ script = <<>> => cur \in StartedIn(log) /\ executed[cur] = 0

Granted ==
  InLoop => \A o \in approvals :
    \/ o \in SessionGrants(log)
    \/ script # <<>> /\ script[1].type = "approval.granted" /\ script[1].op = o

Counted ==
  \A c \in Call : executed[c] \in {0, 1} /\ (executed[c] = 1 => c \in StartedIn(log))

StageInv == Fresh /\ Stage /\ Granted /\ Counted

EffectInv == FileInv /\ StageInv

(* An append that keeps FileInv.                                           *)
Sound(r) ==
  /\ r.type = "tool.requested" => r.call \in Call
  /\ r.type = "approval.requested" => r.call \in RequestedIn(log) \ AuthorizedIn(log)
  /\ r.type = "approval.granted" => r.call \in RequestedIn(log)
  /\ r.type = "tool.authorized" =>
       /\ r.call \in RequestedIn(log)
       /\ r.call \in AskedIn(log) => r.call \in GrantedIn(log)
       /\ r.op # NoOp => r.call \in GrantedIn(log) \/ r.op \in SessionGrants(log)
  /\ r.type = "tool.started" => r.call \in AuthorizedIn(log)

(* The event a step may append, by the place the loop stands at.           *)
Pending(r) ==
  \/ script # <<>> /\ r = CurrentRecord
  \/ /\ pc = "repairCalls" /\ script = <<>>
     /\ r.type = "tool.failed" /\ r.call \in orphans /\ r.turn = turn
  \/ /\ pc = "repairCalls" /\ script = <<>> /\ orphans = {} /\ TurnStillOpen(persisted)
     /\ r.type = "turn.failed" /\ r.call = NoCall /\ r.turn = turn
  \/ /\ pc = "resume" /\ script = <<>>
     /\ r.type = "tool.failed" /\ r.call \in orphans /\ r.turn = TurnOf(log, r.call)
  \/ /\ pc = "resume" /\ script = <<>> /\ orphans = {}
     /\ r.type = "turn.failed" /\ r.call = NoCall /\ r.turn \in IncompleteTurns(log)
  \/ /\ pc = "resume" /\ script = <<>> /\ orphans = {} /\ IncompleteTurns(log) = {}
     /\ r.type = "session.resumed" /\ r.call = NoCall /\ r.turn = 0
  \/ r.type = "model.changed" /\ r.call = NoCall /\ r.turn = 0

-----------------------------------------------------------------------------
(* What is open in a file.  A resume holds every call it found open until  *)
(* it has closed it, so that when it holds none, none is open.             *)

ResumeInv == pc = "resume" => DanglingCalls(log) \subseteq orphans

-----------------------------------------------------------------------------
(* How turns end.  A repair gives each open call one recovery append, and  *)
(* closes the turn even if one was lost: what follows is about the         *)
(* behaviours in which every recovery append for a call reaches the file,  *)
(* whatever its caller is told.                                            *)

RecoveryReachesFile == RepairCall => log' # log

Begun(l) == TurnsWith(l, {"turn.started"})
Ended(l) == TurnsWith(l, TurnTerminalTypes)

TurnsInv ==
  /\ \A i \in DOMAIN log : log[i].turn =< turn
  /\ Ended(log) \subseteq Begun(log)
  /\ Begun(log) \subseteq 1 .. turn /\ turn =< MaxTurns
  /\ IncompleteTurns(log) \subseteq {turn}

OpenCallsInOpenTurn ==
  \A j \in DOMAIN log :
    log[j].type = "tool.requested" /\ log[j].call \in DanglingCalls(log) =>
      log[j].turn \in IncompleteTurns(log)

ClosedAfterRequest ==
  \A j \in DOMAIN log :
    log[j].type = "tool.requested" /\ log[j].call \in Closed(log) =>
      \E k \in j + 1 .. Len(log) :
        log[k].type \in ToolTerminalTypes /\ log[k].call = log[j].call

EndFile == TurnsInv /\ OpenCallsInOpenTurn /\ ClosedAfterRequest /\ TurnEndsClean

Opening == script = <<Note("turn.started")>>

(* What the loop, a repair and a resume know of the open turn.             *)
TurnInHand ==
  /\ InLoop =>
       IF Opening THEN IncompleteTurns(log) = {} /\ turn \notin Begun(log) /\ turn >= 1
       ELSE IF pc = "end" /\ script = <<>> THEN IncompleteTurns(log) = {}
       ELSE IncompleteTurns(log) = {turn}
  /\ pc \in {"repairCalls", "repairRefresh"} =>
       Begun(persisted) = Begun(log) /\ Ended(persisted) = Ended(log)

(* ... and of the open call.                                               *)
CallStillOpen ==
  /\ InLoop =>
       /\ DanglingCalls(log) \subseteq {cur}
       /\ DanglingCalls(log) # {} =>
            pc \in Busy \/ \E i \in DOMAIN script : script[i].type \in ToolTerminalTypes
  /\ pc \in Repairing => DanglingCalls(log) \subseteq orphans

EndInv == EndFile /\ TurnInHand /\ CallStillOpen

(* An append that keeps EndFile, and that the ledger allows.               *)
Proper(r) ==
  /\ r.turn =< turn /\ r.turn \notin Ended(log)
  /\ r.type = "turn.started" =>
       r.turn = turn /\ turn >= 1 /\ turn \notin Begun(log) /\ IncompleteTurns(log) = {}
  /\ r.type \in TurnTerminalTypes =>
       r.turn \in IncompleteTurns(log) /\ DanglingCalls(log) = {}
  /\ r.type = "tool.requested" =>
       /\ r.call \in Call \ RequestedIn(log)
       /\ r.turn \in IncompleteTurns(log) /\ DanglingCalls(log) = {}
  /\ r.type \in {"tool.authorized", "tool.started"} \cup ToolTerminalTypes =>
       r.call \in DanglingCalls(log) /\ IncompleteTurns(log) # {}
  /\ r.type = "tool.authorized" => r.call \notin AuthorizedIn(log)
  /\ r.type = "tool.started" => r.call \in AuthorizedIn(log) \ StartedIn(log)

LoopInv == TypeInv /\ CallInv /\ ShapeInv /\ EffectInv

-----------------------------------------------------------------------------
(* Without settings requests the loop, a repair and a resume are alone     *)
(* with the file: the number each of them holds is not below its last one, *)
(* also after an append whose outcome was ambiguous.                       *)

SeqInv ==
  /\ wpc = "idle"
  /\ Readable(log) /\ cached =< Top(log)
  /\ pc \notin {"idle", "repair"} => Top(log) =< seqn

FaultInv ==
  /\ faults =< MaxFaults
  /\ pc \in {"repair", "repairCalls", "repairRefresh"} => faults > 0

-----------------------------------------------------------------------------
(* A session whose first turn has returned.                                *)

UsableInv == pc \in {"idle", "resume"} => IncompleteTurns(log) = {}

-----------------------------------------------------------------------------
(* The turn and the step that a context is built for are on file.          *)

OnFile(type) == \E i \in DOMAIN log : log[i].type = type

AtWork == {"context", "model", "dispatch", "evaluate", "ask", "waiting", "authorized",
           "execute", "executing"}

BegunInv ==
  /\ pc = "stepTop" => script = <<Note("turn.started")>> \/ OnFile("turn.started")
  /\ pc \in AtWork => OnFile("turn.started")
  /\ pc = "context" => script = <<Note("step.started")>> \/ OnFile("step.started")

-----------------------------------------------------------------------------
(* What the console shows rests on the order in which the events of a call *)
(* come: nothing but its end is told of a call that has ended, and no      *)
(* approval is left open but that of the call in hand.                     *)

Spoken ==
  {"approval.requested", "approval.granted", "approval.denied", "tool.authorized", "tool.started"}

AskOpen(l, c) ==
  \E i \in DOMAIN l :
    /\ l[i].type = "approval.requested" /\ l[i].call = c
    /\ \A j \in i + 1 .. Len(l) : ~Settles(l, j, c)

LastWord ==
  \A i, j \in DOMAIN log :
    i < j /\ log[i].type \in ToolTerminalTypes /\ log[j].call = log[i].call
      => log[j].type \notin Spoken

EndedClean ==
  log[Len(log)].type \in TurnTerminalTypes => DanglingCalls(log) = {} /\ IncompleteTurns(log) = {}

AsksAnswered ==
  /\ \A c \in AuthorizedIn(log) : ~AskOpen(log, c)
  /\ pc = "authorized" /\ script # <<>> /\ script[1].type = "tool.authorized" => ~AskOpen(log, cur)
  /\ pc = "executing" => cur \in AuthorizedIn(log)

Undenied(s) == \A i \in DOMAIN s : s[i].type # "approval.denied"

Denial(c) == <<About("approval.denied", c), About("tool.denied", c), Note("turn.failed")>>

Denials == Undenied(script) \/ script = Denial(cur)

RepairsTheCall == pc \in {"repair", "repairCalls", "repairRefresh"} => DanglingCalls(log) \subseteq {cur}

ActiveRuns == active => Running

ViewInv ==
  /\ log # <<>>
  /\ LastWord /\ EndedClean /\ AsksAnswered
  /\ Denials /\ RepairsTheCall /\ ActiveRuns

(* Events about a call.                                                    *)
CallTypes == {"model.tool_call", "tool.requested"} \cup Spoken \cup ToolTerminalTypes

-----------------------------------------------------------------------------
(* What the details of a trace rest on: an event about a call is about one *)
(* that was requested; an approval is answered after it was asked for; a   *)
(* call that completed had started, in a turn that had begun; and a call   *)
(* that was asked for and then denied was refused by the user.             *)

RefusedIn(l) == CallsWith(l, {"approval.denied"})
DeniedIn(l)  == CallsWith(l, {"tool.denied"})

Named(s) == \A i \in DOMAIN s : s[i].type \in CallTypes \/ s[i].call = NoCall

NamedInv ==
  /\ Named(script)
  /\ \A i \in DOMAIN log :
       log[i].call = NoCall \/ log[i].type = "model.tool_call" \/ log[i].call \in RequestedIn(log)

AnswersAsked == GrantedIn(log) \cup RefusedIn(log) \subseteq AskedIn(log)

AskedInv ==
  /\ AnswersAsked
  /\ pc = "waiting" \/ (pc = "ask" /\ script = <<>>) => cur \in AskedIn(log)
  /\ script # <<>> /\ script[1].type \in {"approval.granted", "approval.denied"} =>
       cur \in AskedIn(log)

CompletedRan ==
  \A i \in DOMAIN log :
    log[i].type = "tool.completed" =>
      log[i].call \in StartedIn(log) /\ log[i].turn \in Begun(log)

RanInv ==
  /\ CompletedRan
  /\ pc = "executing" => cur \in StartedIn(log)
  /\ \A i \in DOMAIN script : script[i].type = "tool.completed" => cur \in StartedIn(log)

DenialsAnswered == DeniedIn(log) \cap AskedIn(log) \subseteq RefusedIn(log)

DeniedInv ==
  /\ DenialsAnswered
  /\ \A i \in DOMAIN script :
       script[i].type = "tool.denied" /\ cur \in AskedIn(log) =>
         cur \in RefusedIn(log) \/ script[1].type = "approval.denied"

TraceInv == NamedInv /\ AskedInv /\ RanInv /\ DeniedInv
=============================================================================
