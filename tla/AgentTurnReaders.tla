-------------------------- MODULE AgentTurnReaders --------------------------
(***************************************************************************)
(* The log that AgentTurn writes, and its readers: the web console         *)
(* (SessionViews, TraceDetails), the command line (TurnScreen) and, in     *)
(* AgentTurnContext, the model.  The properties say what a reader may rely *)
(* on, at every moment at which it can read.                               *)
(***************************************************************************)
EXTENDS AgentTurnContext, TraceDetails, TurnScreen

-----------------------------------------------------------------------------
(* The console *)

(* A decision that no event tells enters the trace with the number of its  *)
(* call's first event, so that no delta ever carries it.                   *)
Untold(r) == r.id.kind = "policy" /\ Decision(log, r.id.call) = "unavailable"

Told(records) == {r \in records : ~Untold(r)}

(* A client that merges the delta of each live event into the trace it has *)
(* sees what a client sees that loads the trace anew: no record is missing *)
(* or stale.  Exempt are decisions the log does not tell.                  *)
LiveTraceFollows ==
  Len(log) > 1 =>
    LET now == TraceRecords(log)
    IN  Told(Upsert(TraceRecords(Front(log)), Delta(now, log))) = Told(now)

(* What the console shows of an ended turn is final, and what it lets the  *)
(* user do is still to be done: each call an ended turn requested has its  *)
(* outcome, the event that ends the turn offers the next one and nothing   *)
(* else, and the approval a running turn asks for is the one it waits for. *)
ViewIsTrue ==
  /\ \A t \in Turns(log) :
       TurnOutcome(log, t) # "running" =>
         \A i \in OfTurn(log, t) \cap Indices(log, {"tool.requested"}) :
           ChatTurn(log, t).tools[log[i].call] \in ToolTerminalTypes
  /\ log[Len(log)].type \in TurnTerminalTypes =>
       LET shown == StreamEvent(log, active) IN
       /\ shown.type = "turn.terminal" /\ shown.view.phase = log[Len(log)].type
       /\ shown.view.can = [submit |-> TRUE, cancel |-> FALSE, respond |-> FALSE]
       /\ shown.view.pending = NoCall
  /\ View(log, active).can.respond =>
       /\ PendingApproval(log) = cur
       /\ pc \in {"ask", "waiting", "repair", "repairCalls", "repairRefresh"} \/ script # <<>>

(* In the trace of a turn that has returned every link leads somewhere,    *)
(* the details of a call are those of the end its record shows, what is    *)
(* said of a decision agrees with what became of the call, an approval is  *)
(* left pending only by an abort or a repair, and the turn names the last  *)
(* command it ran, if it ran one.                                          *)
TraceIsConnected ==
  (pc = "idle" /\ log[Len(log)].type \in TurnTerminalTypes) =>
    LET completed == CallsWith(log, {"tool.completed"})
        records == TraceRecords(log)
        ended == log[Len(log)].turn
    IN
    \A commands \in SUBSET completed :
      LET ids == RecordIds(log, records, commands)
          relations == AllRelations(log, commands)
          details(id) == DetailAnswer(log, ids, id, relations, {})
          ran == {i \in OfTurn(log, ended) : log[i].type = "tool.completed" /\ log[i].call \in commands}
      IN
      /\ \A id \in ids : \A other \in details(id).related : details(other) # NotFound
      /\ \A r \in {x \in records : x.id.kind = "tool"} :
           LET d == details(r.id) IN
           "result" \in d.sections /\ log[d.from].type = r.status /\ log[d.from].seq = r.seq
      /\ \A id \in {x \in ids : x.kind = "policy"} :
           \A told \in details(id).says :
             /\ told.execution \in ToolTerminalTypes
             /\ told.approval = "pending" => told.execution \in {"tool.failed", "tool.cancelled"}
             /\ told.execution = "tool.completed" =>
                  <<told.decision, told.approval>> \in {<<"ask", "allowed">>, <<"allow", "not_required">>}
      /\ {id \in details(Id("turn", ended, 0, NoCall)).related : id.kind = "verification"}
           = {Verification(log[i].call) : i \in {j \in ran : \A k \in ran : k <= j}}

(* A reader that follows the pages of the trace reads records in their     *)
(* order, each once, and misses none but those that a page's end parts     *)
(* from another record of the same event; the pages of the chat, from the  *)
(* last one back, have every turn once, also if turns were added since.    *)
PagesAreWhole ==
  pc = "idle" =>
    LET records == TraceRecords(log) IN
    \A limit \in 1 .. 3 :
      LET read[after \in 0 .. Top(log)] ==
            LET page == TracePage(records, after, limit)
            IN  <<page.items>> \o (IF page.next = 0 THEN <<>> ELSE read[page.next])
          pages == read[0]
          chat[before \in Turns(log)] ==
            LET page == ChatPage(log, before, limit)
            IN  page.items \cup (IF page.next = 0 THEN {} ELSE chat[page.next])
      IN
      /\ \A i, j \in DOMAIN pages : i < j => \A r \in pages[i], s \in pages[j] : r.seq < s.seq
      /\ \A r \in records \ UNION ToSet(pages) :
           \E i \in DOMAIN pages : Cardinality(pages[i]) = limit /\ r.seq = Max({s.seq : s \in pages[i]})
      /\ \A i \in DOMAIN log :
           LET first == ChatPage(SubSeq(log, 1, i), 0, limit)
           IN  first.items \cup (IF first.next = 0 THEN {} ELSE chat[first.next])
                 = Turns(SubSeq(log, 1, i))

-----------------------------------------------------------------------------
(* The command line *)

OutcomeLabels == {"RESULT", "DENIED", "CANCELLED"}

(* Of a turn that has ended without a storage failure, the user saw every  *)
(* call once and then, before the next call, how it ended, once; saw the   *)
(* text that came with calls before the calls; was warned of each output   *)
(* that was cut; and is told in the result whether something was denied,   *)
(* whether files changed, and that the work is verified only if the turn   *)
(* was completed and the last command to finish in it succeeded.           *)
ScreenIsTrue ==
  (At("end") /\ faults = 0) =>
    LET events == SelectSeq(log, LAMBDA e : e.turn = turn)
        typed(types) == {i \in DOMAIN events : events[i].type \in types}
        completed == CallsWith(events, {"tool.completed"})
    IN
    \A outcomes \in [completed -> ToolOutcome] :
      LET lines == Screen(events, outcomes).lines
          result == Result(events, outcomes)
          about(c, labels) ==
            {i \in DOMAIN lines : lines[i].call = c /\ lines[i].label \in labels}
          of(tool) == {i \in typed({"tool.completed"}) : outcomes[events[i].call].tool = tool}
          cut == {c \in completed : outcomes[c].truncated}
      IN
      /\ \A c \in CallsWith(events, {"tool.requested"}) :
           \E asked, told \in DOMAIN lines :
             /\ about(c, {"TOOL"}) = {asked} /\ about(c, OutcomeLabels) = {told}
             /\ asked < told
             /\ \A i \in asked + 1 .. told : lines[i].label # "TOOL"
             /\ about(c, {"WARN"}) = (IF c \in cut THEN {told + 1} ELSE {})
      /\ \A i \in typed({"tool.requested"}) :
           LET s == StepOf(events, i)
               said == {j \in DOMAIN lines : lines[j].label = "ECHO" /\ lines[j].step = s}
               spoke == \E j \in typed({"model.text"}) : StepOf(events, j) = s
           IN  /\ Cardinality(said) = (IF spoke THEN 1 ELSE 0)
               /\ \A j \in said : j < Max(about(events[i].call, {"TOOL"}))
      /\ result.denied <=> typed({"tool.denied"}) # {}
      /\ result.changes # {} <=> of("write_file") # {}
      /\ result.truncated <=> cut # {}
      /\ result.check = "VERIFIED" <=>
           /\ typed({"turn.completed"}) # {}
           /\ of("run_command") # {}
           /\ ~outcomes[events[Max(of("run_command"))].call].failed

(* What the readers of the log see is what it says. *)
ReadersSeeTheLog ==
  /\ LiveTraceFollows /\ ViewIsTrue
  /\ TraceIsConnected /\ PagesAreWhole
  /\ ScreenIsTrue
=============================================================================
