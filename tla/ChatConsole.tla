------------------------------ MODULE ChatConsole -----------------------------
(***************************************************************************)
(* The interactive console: echo-harness chat (src/cli/chat.ts), the       *)
(* reader of its input, its Slash commands with the model catalogue, and   *)
(* the two questions that are asked on the same terminal while the reader  *)
(* is paused: the confirmation of Full Access and the approvals of a turn. *)
(*                                                                         *)
(* A line is what the user typed or pasted in one go, numbered in order.   *)
(* Of the turn there is whether it runs, asks and was cancelled: AgentTurn *)
(* has the rest.                                                           *)
(***************************************************************************)
EXTENDS Naturals, Sequences, FiniteSets

CONSTANTS
  Line,         (* what a line may say: [text, pasted]                     *)
  Model,        (* model identifiers                                       *)
  Offer,        (* what the provider may list                              *)
  Start,        (* how the console may be started, on which session        *)
  MaxLines,     (* bound: lines typed                                      *)
  MaxInterrupts (* bound: interrupts                                       *)

Modes == {"safe", "full-access"}   (* the others are like "safe" here      *)

Texts == {"message", "quit", "help", "model", "refresh", "full-access", "safe", "confirm"}
           \cup Model

ASSUME ConsoleAssumption ==
  /\ Line \subseteq [text : Texts, pasted : BOOLEAN]
  /\ Offer \subseteq SUBSET Model
  /\ Start \subseteq [resume : BOOLEAN, mode : Modes \cup {"unset"}, interactive : BOOLEAN,
                     source : {"manual", "discover"}, listed : SUBSET Model,
                     session : [mode : Modes, model : Model]]
  /\ {MaxLines, MaxInterrupts} \subseteq Nat

VARIABLES
  options,   (* how the console was started                                *)
  session,   (* the session's mode and model                               *)
  tty,       (* typed, and not yet read by anybody                         *)
  hungUp,    (* there will be no more                                      *)
  input,     (* the reader: listening, closed, and what it holds           *)
  at,        (* where the loop stands                                      *)
  line,      (* the line it is at                                          *)
  idleInterrupt, aborted, catalogAbort,
  cache,     (* the catalogue's process-wide list; {} before there is one  *)
  prompted, answers,  (* history: lines taken at the prompt, and as answers *)
  consent,   (* history: Full Access was confirmed for the session         *)
  seen,      (* history: the models the session may be switched to         *)
  spent      (* lines typed, interrupts                                    *)

person  == <<tty, hungUp, spent>>
signals == <<idleInterrupt, aborted, catalogAbort>>
used    == <<prompted, answers>>
vars    == <<options, session, person, input, at, line, signals, cache, used, consent, seen>>

NoLine == [id |-> 0, text |-> "help", pasted |-> FALSE]

Init ==
  /\ options \in Start /\ session = options.session
  /\ tty = <<>> /\ hungUp = FALSE
  /\ input = [listening |-> FALSE, closed |-> FALSE, queue |-> <<>>]
  /\ at = "open" /\ line = NoLine
  /\ idleInterrupt = FALSE /\ aborted = FALSE /\ catalogAbort = FALSE
  /\ cache = {}
  /\ prompted = <<>> /\ answers = {}
  /\ consent = (options.resume /\ session.mode = "full-access")
  /\ seen = {session.model} \cup (IF options.source = "manual" THEN options.listed ELSE {})
  /\ spent = [lines |-> 0, interrupts |-> 0]

-----------------------------------------------------------------------------
(* The terminal                                                            *)

Type ==
  /\ at # "over" /\ ~hungUp /\ spent.lines < MaxLines
  /\ spent' = [spent EXCEPT !.lines = @ + 1]
  /\ \E l \in Line :
       tty' = Append(tty, [id |-> spent'.lines, text |-> l.text, pasted |-> l.pasted])
  /\ UNCHANGED <<options, session, hungUp, input, at, line, signals, cache, used, consent, seen>>

HangUp ==
  /\ at # "over" /\ ~hungUp /\ hungUp' = TRUE
  /\ UNCHANGED <<options, session, tty, spent, input, at, line, signals, cache, used, consent, seen>>

(* Somebody reads the terminal: a chunk, which may hold several lines.     *)
Chunk(n) == n \in 1 .. Len(tty) /\ tty' = SubSeq(tty, n + 1, Len(tty)) /\ UNCHANGED <<hungUp, spent>>

-----------------------------------------------------------------------------
(* The reader: StreamChatInput                                             *)

Eof == [id |-> 0, text |-> "eof", pasted |-> FALSE]

Pushed(events) == [input EXCEPT !.queue = @ \o events]

(* Mutant: the reader listens on while a question is open.                 *)
KeepListening(in) == in

Pause(in) == [in EXCEPT !.listening = FALSE]

Resume(in) == IF in.closed THEN in ELSE [in EXCEPT !.listening = TRUE]

(* close(): the end of the input is the last thing to be read.             *)
CloseInput(in) ==
  IF in.closed THEN in
  ELSE [listening |-> FALSE, closed |-> TRUE, queue |-> Append(in.queue, Eof)]

OnData ==
  /\ input.listening /\ at \notin {"confirm mode", "turn asks"}
  /\ \E n \in 1 .. Len(tty) : Chunk(n) /\ input' = Pushed(SubSeq(tty, 1, n))
  /\ UNCHANGED <<options, session, at, line, signals, cache, used, consent, seen>>

OnEnd ==
  /\ input.listening /\ hungUp /\ tty = <<>> /\ ~input.closed
  /\ input' = [Pushed(<<Eof>>) EXCEPT !.closed = TRUE]
  /\ UNCHANGED <<options, session, person, at, line, signals, cache, used, consent, seen>>

-----------------------------------------------------------------------------
(* Questions: confirmFullAccess and the approval handler read one line     *)
(* themselves; what else came with it is gone.                             *)

Hears(lines) == IF input.listening THEN Pushed(lines) ELSE input

Answered(n) ==
  /\ Chunk(n) /\ answers' = answers \cup {Head(tty).id} /\ UNCHANGED prompted

Agrees == Head(tty).text = "confirm"

(* Mutant: any answer confirms.                                            *)
AnyAnswer == TRUE

Confirms == Agrees

(* resolveCliFullAccessConfirmation() with a terminal, or without one,     *)
(* where chat has no flag to confirm with.                                 *)
NeedsConfirmation(current, target) == target = "full-access" /\ current # "full-access"

-----------------------------------------------------------------------------
(* openSession()                                                           *)

Target == IF options.mode # "unset" THEN options.mode ELSE session.mode

Current == IF options.resume THEN session.mode ELSE "none"

Fails == at' = "over"

(* A session that does not exist, an identifier that fits several, or a    *)
(* provider that is not the session's: the console ends before it began.   *)
Open ==
  /\ at = "open"
  /\ \/ Fails
     \/ /\ at' = IF ~NeedsConfirmation(Current, Target) THEN "opening"
                 ELSE IF options.interactive THEN "confirm open" ELSE "over"
  /\ UNCHANGED <<options, session, person, input, line, signals, cache, used, consent, seen>>

ConfirmOpen ==
  /\ at = "confirm open"
  /\ \E n \in 1 .. Len(tty) : Answered(n) /\ input' = Hears(SubSeq(tty, 1, n))
  /\ IF Confirms THEN at' = "opening" /\ consent' = Agrees ELSE Fails /\ UNCHANGED consent
  /\ UNCHANGED <<options, session, line, signals, cache, seen>>

(* The session is created or resumed; then the input is read.              *)
Opened ==
  /\ at = "opening"
  /\ \/ /\ session' = [session EXCEPT !.mode = Target]
        /\ consent' = (consent /\ Target = "full-access")
        /\ input' = Resume(input) /\ at' = "prompt"
     \/ Fails /\ UNCHANGED <<session, consent, input>>
  /\ UNCHANGED <<options, person, line, signals, cache, used, seen>>

-----------------------------------------------------------------------------
(* The loop                                                                *)

(* handleSlash(): where a command leads; help and status only say something. *)
Slash(name) ==
  CASE name = "quit" -> "closing"
    [] name = "help" -> "prompt"
    [] name = "safe" -> "write mode"
    [] name = "full-access" ->
         IF ~NeedsConfirmation(session.mode, "full-access") THEN "write mode"
         ELSE IF options.interactive THEN "confirm mode" ELSE "prompt"
    [] OTHER -> "catalogue"

(* Where a line leads: a Slash command is one typed line, and a paste is   *)
(* a message whatever it says.                                             *)
Leads(l) ==
  IF l.pasted \/ l.text \in {"message", "confirm"} THEN "turn starts" ELSE Slash(l.text)

Take(in) == [in EXCEPT !.queue = Tail(@)]

ReadLine ==
  /\ at = "prompt" /\ ~idleInterrupt
  /\ IF input.queue = <<>>
     THEN input.closed /\ at' = "closing" /\ UNCHANGED <<input, line, used>>
     ELSE LET next == Head(input.queue) IN
          IF next.text = "eof" THEN at' = "closing" /\ UNCHANGED <<input, line, used>>
          ELSE /\ line' = next /\ at' = Leads(next)
               /\ prompted' = Append(prompted, next.id) /\ UNCHANGED answers
               /\ input' = IF Leads(next) \in {"prompt", "closing"} THEN Take(input)
                           ELSE Pause(Take(input))
  /\ UNCHANGED <<options, session, person, signals, cache, consent, seen>>

(* The prompt sees that it was interrupted.                                *)
Leave ==
  /\ at = "prompt" /\ idleInterrupt /\ at' = "closing"
  /\ UNCHANGED <<options, session, person, input, line, signals, cache, used, consent, seen>>

BackToPrompt == at' = "prompt" /\ input' = Resume(input)

ConfirmMode ==
  /\ at = "confirm mode"
  /\ \E n \in 1 .. Len(tty) :
       /\ Answered(n)
       /\ input' = IF Confirms THEN Hears(SubSeq(tty, 1, n)) ELSE Resume(Hears(SubSeq(tty, 1, n)))
  /\ IF Confirms THEN at' = "write mode" /\ consent' = Agrees
     ELSE at' = "prompt" /\ UNCHANGED consent
  /\ UNCHANGED <<options, session, line, signals, cache, seen>>

(* A service that fails ends the console.                                  *)
WriteMode ==
  /\ at = "write mode"
  /\ session' = [session EXCEPT !.mode = line.text]
  /\ consent' = (consent /\ line.text = "full-access")
  /\ \/ BackToPrompt
     \/ at' = "closing" /\ UNCHANGED input
  /\ UNCHANGED <<options, person, line, signals, cache, used, seen>>

-----------------------------------------------------------------------------
(* /model                                                                  *)

(* listCandidates(): the list of the configuration, the one in the cache,  *)
(* or one the provider is asked for; a list that cannot be had leaves the  *)
(* cached one, and the current model always is a candidate.                *)
FromProvider == options.source = "discover" /\ (line.text = "refresh" \/ cache = {})

(* Mutant: when there is no list any model may be chosen.                  *)
SelectableUnlessListed(models) == models = {} \/ line.text \in models \cup {session.model}

(* isSelectableChatModel() *)
Selectable(models) ==
  line.text \in models \cup (IF options.source = "discover" THEN {session.model} ELSE {})

Chosen(models) ==
  IF ~catalogAbort /\ line.text \in Model /\ Selectable(models)
  THEN at' = "write model" /\ UNCHANGED input
  ELSE BackToPrompt

Catalogue ==
  /\ at = "catalogue"
  /\ \/ /\ ~FromProvider /\ UNCHANGED <<cache, seen>>
        /\ Chosen(IF options.source = "manual" THEN options.listed ELSE cache)
     \/ /\ FromProvider /\ ~catalogAbort
        /\ \E models \in Offer \ {{}} :
             cache' = models /\ seen' = seen \cup models /\ Chosen(models)
     \/ FromProvider /\ Chosen(cache) /\ UNCHANGED <<cache, seen>>
  /\ catalogAbort' = FALSE
  /\ UNCHANGED <<options, session, person, line, idleInterrupt, aborted, used, consent>>

WriteModel ==
  /\ at = "write model"
  /\ session' = [session EXCEPT !.model = line.text]
  /\ \/ BackToPrompt
     \/ at' = "closing" /\ UNCHANGED input
  /\ UNCHANGED <<options, person, line, signals, cache, used, consent, seen>>

-----------------------------------------------------------------------------
(* A turn                                                                  *)

(* runTurn() has read the session and registers the turn; a session with   *)
(* a turn left open, or that cannot be read, ends the console.             *)
TurnStarts ==
  /\ at = "turn starts"
  /\ \/ at' = "turn" /\ aborted' = FALSE /\ UNCHANGED input
     \/ at' = "closing" /\ input' = Resume(input) /\ UNCHANGED aborted
  /\ UNCHANGED <<options, session, person, line, idleInterrupt, catalogAbort, cache, used,
                 consent, seen>>

TurnAsks ==
  /\ at = "turn" /\ ~aborted /\ options.interactive /\ session.mode # "full-access"
  /\ at' = "turn asks"
  /\ UNCHANGED <<options, session, person, input, line, signals, cache, used, consent, seen>>

AnswerTurn ==
  /\ at = "turn asks" /\ at' = "turn"
  /\ \E n \in 1 .. Len(tty) : Answered(n) /\ input' = Hears(SubSeq(tty, 1, n))
  /\ UNCHANGED <<options, session, line, signals, cache, consent, seen>>

(* Mutant: the question is not told that the turn was cancelled.           *)
AskOn == FALSE /\ UNCHANGED vars

(* The question has the turn's signal.                                     *)
QuestionAborted ==
  /\ at = "turn asks" /\ aborted /\ at' = "turn"
  /\ UNCHANGED <<options, session, person, input, line, signals, cache, used, consent, seen>>

TurnEnds ==
  /\ at = "turn"
  /\ aborted' = FALSE /\ at' = "turn over" /\ input' = Resume(input)
  /\ UNCHANGED <<options, session, person, line, idleInterrupt, catalogAbort, cache, used,
                 consent, seen>>

(* getRuntimeState() once the input is read again.                         *)
TurnOver ==
  /\ at = "turn over" /\ at' \in {"prompt", "closing"}
  /\ UNCHANGED <<options, session, person, input, line, signals, cache, used, consent, seen>>

Closing ==
  /\ at = "closing" /\ at' = "over" /\ input' = CloseInput(input)
  /\ UNCHANGED <<options, session, person, line, signals, cache, used, consent, seen>>

-----------------------------------------------------------------------------
(* Interrupts                                                              *)

TurnRunning == at \in {"turn starts", "turn", "turn asks"}

(* A turn that runs is cancelled, once the service knows it; otherwise the *)
(* console goes.                                                           *)
InterruptWhat ==
  IF TurnRunning
  THEN aborted' = (aborted \/ at # "turn starts") /\ UNCHANGED <<idleInterrupt, input>>
  ELSE idleInterrupt' = TRUE /\ input' = CloseInput(input) /\ UNCHANGED aborted

Interrupt ==
  /\ at \notin {"open", "confirm open", "opening", "closing", "over"}
  /\ spent.interrupts < MaxInterrupts
  /\ spent' = [spent EXCEPT !.interrupts = @ + 1]
  /\ catalogAbort' = (at = "catalogue")
  /\ InterruptWhat
  /\ UNCHANGED <<options, session, tty, hungUp, at, line, cache, used, consent, seen>>

-----------------------------------------------------------------------------
LoopStep ==
  \/ Open \/ Opened \/ ReadLine \/ Leave \/ WriteMode \/ Catalogue \/ WriteModel
  \/ TurnStarts \/ QuestionAborted \/ TurnOver \/ Closing

Next ==
  \/ Type \/ HangUp \/ Interrupt
  \/ OnData \/ OnEnd \/ LoopStep
  \/ ConfirmOpen \/ ConfirmMode \/ TurnAsks \/ AnswerTurn \/ TurnEnds

(* A cancelled turn ends (AgentTurn!CancelEndsTurn); nobody has to answer, *)
(* and a turn nobody cancels may take for ever.                            *)
Spec ==
  /\ Init /\ [][Next]_vars
  /\ WF_vars(LoopStep) /\ WF_vars(OnData \/ OnEnd) /\ WF_vars(TurnEnds /\ aborted)

-----------------------------------------------------------------------------
(* Properties                                                              *)

TypeOK ==
  /\ session \in [mode : Modes, model : Model] /\ cache \subseteq Model /\ seen \subseteq Model
  /\ input.listening \in BOOLEAN /\ input.closed \in BOOLEAN
  /\ at \in {"open", "confirm open", "opening", "prompt", "confirm mode", "write mode", "catalogue",
             "write model", "turn starts", "turn", "turn asks", "turn over", "closing", "over"}
  /\ {idleInterrupt, aborted, catalogAbort, consent, hungUp} \subseteq BOOLEAN

(* What is typed and not served: what the reader holds, then what waits to *)
(* be read.  The mark of the end is no line.                               *)
Unserved == input.queue \o tty

IsLine(l) == l.id # Eof.id

(* What the user types serves once: the prompt takes lines in the order    *)
(* they were typed, a line that answered a question is never taken for a   *)
(* message or a command too, what is not served yet waits in the order it  *)
(* was typed, behind all that was taken, and as long as no question was    *)
(* asked every line typed has been taken or waits.                         *)
EachLineServesOnce ==
  /\ \A i, j \in DOMAIN prompted : i < j => prompted[i] < prompted[j]
  /\ \A i \in DOMAIN prompted : prompted[i] \notin answers
  /\ \A i \in DOMAIN input.queue : input.queue[i].id \notin answers
  /\ \A i, j \in DOMAIN Unserved :
       (i < j /\ IsLine(Unserved[i]) /\ IsLine(Unserved[j])) => Unserved[i].id < Unserved[j].id
  /\ \A i \in DOMAIN prompted, j \in DOMAIN Unserved :
       IsLine(Unserved[j]) => prompted[i] < Unserved[j].id
  /\ answers = {} =>
       \A n \in 1 .. spent.lines :
         \/ \E i \in DOMAIN prompted : prompted[i] = n
         \/ \E i \in DOMAIN Unserved : Unserved[i].id = n

(* The session is in Full Access only if the user confirmed it in this     *)
(* console after it last was in another mode, or resumed a session that    *)
(* had it; never because of a command line, a configuration or a Slash     *)
(* command alone, nor of an answer to some other question.                 *)
FullAccessWasConfirmed ==
  (session.mode = "full-access" /\ at \notin {"open", "confirm open", "opening", "over"}) => consent

(* The session never runs with a model nobody offered: whatever becomes of *)
(* the request for the list, the model is the one the session had, one of  *)
(* the configured list, or one the provider listed to this process.        *)
ModelWasOffered == session.model \in seen

(* The session runs in the mode and with the model the user chose.         *)
SettingsWereChosen == FullAccessWasConfirmed /\ ModelWasOffered

(* An interrupt that reaches the turn ends it, also while it waits for an  *)
(* answer; one that reaches the console ends the console, except that the  *)
(* question for Full Access still has to be answered.                      *)
InterruptsTakeEffect ==
  /\ aborted ~> ~TurnRunning
  /\ idleInterrupt ~> (at \in {"confirm mode", "over"})
=============================================================================
