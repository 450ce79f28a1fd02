--------------------------- MODULE ChatConsoleProofs --------------------------
(***************************************************************************)
(* The interactive console for any lines, any way it is started, any list  *)
(* the provider may offer and any interrupts: the session runs in the mode *)
(* and with the model the user chose, and what is typed serves once.       *)
(***************************************************************************)
EXTENDS ChatConsole, Integers, TLAPS

(* Before the session is there, and while it is.                           *)
Opening == {"open", "confirm open", "opening"}
Asking  == {"confirm open", "confirm mode", "turn asks"}

(* Where the reader does not listen.                                       *)
Paused == Opening \cup {"confirm mode", "write mode", "catalogue", "write model",
                        "turn starts", "turn", "turn asks"}

Places == Paused \cup {"prompt", "turn over", "closing", "over"}

TypedLine == [id : Nat, text : Texts \cup {Eof.text}, pasted : BOOLEAN]

TypeInv ==
  /\ options \in Start
  /\ session \in [mode : Modes, model : Model] /\ cache \subseteq Model /\ seen \subseteq Model
  /\ tty \in Seq(TypedLine) /\ line \in TypedLine
  /\ input \in [listening : BOOLEAN, closed : BOOLEAN, queue : Seq(TypedLine)]
  /\ at \in Places
  /\ idleInterrupt \in BOOLEAN /\ aborted \in BOOLEAN /\ catalogAbort \in BOOLEAN
  /\ consent \in BOOLEAN /\ hungUp \in BOOLEAN
  /\ spent \in [lines : Nat, interrupts : Nat]
  /\ prompted \in Seq(Nat)

-----------------------------------------------------------------------------
(* The shape of the state                                                  *)

LEMMA EofIsTyped == Eof \in TypedLine
BY DEF Eof, TypedLine

LEMMA PieceOf ==
  ASSUME NEW s \in Seq(TypedLine), NEW n \in 1 .. Len(s)
  PROVE  /\ SubSeq(s, 1, n) \in Seq(TypedLine) /\ Len(SubSeq(s, 1, n)) = n
         /\ \A i \in 1 .. n : SubSeq(s, 1, n)[i] = s[i]
         /\ SubSeq(s, n + 1, Len(s)) \in Seq(TypedLine)
         /\ Len(SubSeq(s, n + 1, Len(s))) = Len(s) - n
         /\ \A i \in 1 .. (Len(s) - n) : SubSeq(s, n + 1, Len(s))[i] = s[n + i]
OBVIOUS

InputType == [listening : BOOLEAN, closed : BOOLEAN, queue : Seq(TypedLine)]

LEMMA InputMoves ==
  ASSUME NEW in \in InputType
  PROVE  /\ Pause(in) \in InputType /\ ~Pause(in).listening /\ Pause(in).queue = in.queue
         /\ Resume(in) \in InputType /\ Resume(in).queue = in.queue
         /\ CloseInput(in) \in InputType /\ (CloseInput(in).listening => in.listening)
         /\ CloseInput(in).queue \in {in.queue, Append(in.queue, Eof)}
<1>1. Pause(in) \in InputType /\ ~Pause(in).listening /\ Pause(in).queue = in.queue
  BY DEF Pause, InputType
<1>2. Resume(in) \in InputType /\ Resume(in).queue = in.queue
  BY DEF Resume, InputType
<1>3. /\ CloseInput(in) \in InputType /\ (CloseInput(in).listening => in.listening)
      /\ CloseInput(in).queue \in {in.queue, Append(in.queue, Eof)}
  BY EofIsTyped DEF CloseInput, InputType
<1> QED BY <1>1, <1>2, <1>3

LEMMA Pushing ==
  ASSUME input \in InputType, NEW s \in Seq(TypedLine)
  PROVE  /\ Pushed(s) \in InputType /\ Pushed(s).queue = input.queue \o s
         /\ Pushed(s).listening = input.listening /\ Pushed(s).closed = input.closed
         /\ Hears(s) \in InputType
         /\ ~input.listening => Hears(s) = input
<1>1. /\ Pushed(s) \in InputType /\ Pushed(s).queue = input.queue \o s
      /\ Pushed(s).listening = input.listening /\ Pushed(s).closed = input.closed
  <2>1. input.queue \o s \in Seq(TypedLine)
    BY DEF InputType
  <2> DEFINE both == input.queue \o s
  <2>2. Pushed(s) = [input EXCEPT !.queue = both]
    BY DEF Pushed
  <2> HIDE DEF both
  <2>3. both \in Seq(TypedLine)
    BY <2>1 DEF both
  <2>4. /\ Pushed(s) \in InputType /\ Pushed(s).queue = both
        /\ Pushed(s).listening = input.listening /\ Pushed(s).closed = input.closed
    BY <2>2, <2>3 DEF InputType
  <2> QED BY <2>4 DEF both
<1> QED BY <1>1 DEF Hears

LEMMA Taking ==
  ASSUME input \in InputType, input.queue # <<>>
  PROVE  /\ Take(input) \in InputType /\ Take(input).queue = Tail(input.queue)
         /\ Take(input).listening = input.listening
         /\ Head(input.queue) \in TypedLine /\ Head(input.queue) = input.queue[1]
BY DEF Take, InputType

(* The reader does not listen while a question is open, or any other step  *)
(* of a command or a turn is under way.                                    *)
PauseInv == at \in Paused => ~input.listening

(* The command that is carried out is the one of the line.                 *)
CommandInv ==
  /\ at = "write mode" => line.text \in Modes
  /\ at = "confirm mode" => line.text = "full-access"
  /\ at = "write model" => line.text \in Model

Shape == TypeInv /\ PauseInv /\ CommandInv

(* What a step does to what was typed: it goes from the terminal to the    *)
(* reader, from the reader to the prompt, or from the terminal into an     *)
(* answer.                                                                 *)
TakesNothing == UNCHANGED <<tty, prompted, answers>> /\ spent'.lines = spent.lines
QueueStays == input'.queue = input.queue
QueueEnds  == input'.queue = Append(input.queue, Eof)

Typing ==
  /\ spent'.lines = spent.lines + 1 /\ UNCHANGED <<prompted, answers>> /\ QueueStays
  /\ \E l \in TypedLine : l.id = spent.lines + 1 /\ tty' = Append(tty, l)

Reading ==
  /\ UNCHANGED <<prompted, answers>> /\ spent'.lines = spent.lines
  /\ \E n \in 1 .. Len(tty) :
       /\ tty' = SubSeq(tty, n + 1, Len(tty))
       /\ input'.queue = input.queue \o SubSeq(tty, 1, n)

Answering ==
  /\ QueueStays /\ prompted' = prompted /\ spent'.lines = spent.lines
  /\ \E n \in 1 .. Len(tty) :
       /\ tty' = SubSeq(tty, n + 1, Len(tty))
       /\ answers' = answers \cup {tty[1].id}

Prompting ==
  /\ UNCHANGED <<tty, answers>> /\ spent'.lines = spent.lines
  /\ input.queue # <<>> /\ input.queue[1].text # Eof.text
  /\ input'.queue = Tail(input.queue)
  /\ prompted' = Append(prompted, input.queue[1].id)

LineStep ==
  \/ TakesNothing /\ (QueueStays \/ QueueEnds)
  \/ Typing \/ Reading \/ Answering \/ Prompting

Stays == UNCHANGED <<options, session, tty, hungUp, spent, input, line, idleInterrupt, aborted,
                     catalogAbort, cache, prompted, answers, consent, seen>>

LEMMA AnsweringMoves ==
  ASSUME Shape, at \in Asking, NEW n, Answered(n), NEW in,
         in = Hears(SubSeq(tty, 1, n)), input' \in {in, Resume(in)}
  PROVE  /\ Answering /\ input' \in InputType /\ tty' \in Seq(TypedLine)
         /\ input' = input \/ input' = Resume(input)
         /\ UNCHANGED <<hungUp, spent, prompted>>
<1>1. /\ n \in 1 .. Len(tty) /\ tty' = SubSeq(tty, n + 1, Len(tty))
      /\ UNCHANGED <<hungUp, spent, prompted>> /\ answers' = answers \cup {Head(tty).id}
  BY DEF Answered, Chunk
<1>2. /\ tty \in Seq(TypedLine) /\ input \in InputType /\ ~input.listening
  BY DEF Shape, TypeInv, PauseInv, InputType, Asking, Paused, Opening
<1>3. in = input
  BY <1>1, <1>2, PieceOf, Pushing
<1>4. tty' \in Seq(TypedLine) /\ Head(tty) = tty[1]
  BY <1>1, <1>2, PieceOf
<1>5. input' \in InputType /\ QueueStays
  BY <1>2, <1>3, InputMoves DEF QueueStays
<1> QED BY <1>1, <1>3, <1>4, <1>5 DEF Answering

LEMMA PersonSteps ==
  ASSUME Shape, Type \/ HangUp \/ Interrupt \/ OnData \/ OnEnd
  PROVE  Shape' /\ LineStep
<1> USE DEF Shape
<1>0. input \in InputType /\ tty \in Seq(TypedLine)
  BY DEF TypeInv, InputType
<1>1. CASE Type
  <2>1. /\ spent' = [spent EXCEPT !.lines = @ + 1]
        /\ UNCHANGED <<options, session, hungUp, input, at, line, idleInterrupt, aborted,
                       catalogAbort, cache, prompted, answers, consent, seen>>
    BY <1>1 DEF Type, signals, used
  <2>2. PICK l \in Line : tty' = Append(tty, [id |-> spent'.lines, text |-> l.text, pasted |-> l.pasted])
    BY <1>1 DEF Type
  <2>3. l.text \in Texts /\ l.pasted \in BOOLEAN
    BY ConsoleAssumption
  <2>4. spent' \in [lines : Nat, interrupts : Nat] /\ spent'.lines = spent.lines + 1
    <3>1. spent.lines + 1 \in Nat /\ spent \in [lines : Nat, interrupts : Nat]
      BY DEF TypeInv
    <3>2. spent' = [spent EXCEPT !.lines = spent.lines + 1]
      BY <2>1
    <3> QED BY <3>1, <3>2
  <2>5. [id |-> spent'.lines, text |-> l.text, pasted |-> l.pasted] \in TypedLine
    BY <2>3, <2>4 DEF TypedLine
  <2>6. tty' \in Seq(TypedLine)
    BY <1>0, <2>2, <2>5
  <2>7. Typing
    BY <2>1, <2>2, <2>4, <2>5 DEF Typing, QueueStays
  <2> QED BY <2>1, <2>4, <2>6, <2>7 DEF TypeInv, PauseInv, CommandInv, LineStep
<1>2. CASE HangUp
  BY <1>2 DEF HangUp, TypeInv, PauseInv, CommandInv, LineStep, TakesNothing, QueueStays, signals, used
<1>3. CASE Interrupt
  <2>1. /\ spent' = [spent EXCEPT !.interrupts = @ + 1] /\ catalogAbort' \in BOOLEAN
        /\ UNCHANGED <<options, session, tty, hungUp, at, line, cache, prompted, answers,
                       consent, seen>>
        /\ aborted' \in BOOLEAN /\ idleInterrupt' \in BOOLEAN
        /\ input' = input \/ input' = CloseInput(input)
    BY <1>3 DEF Interrupt, InterruptWhat, TypeInv, used
  <2>2. spent' \in [lines : Nat, interrupts : Nat] /\ spent'.lines = spent.lines
    <3>1. spent.interrupts + 1 \in Nat /\ spent \in [lines : Nat, interrupts : Nat]
      BY DEF TypeInv
    <3>2. spent' = [spent EXCEPT !.interrupts = spent.interrupts + 1]
      BY <2>1
    <3> QED BY <3>1, <3>2
  <2>3. /\ input' \in InputType /\ (input'.listening => input.listening)
        /\ input'.queue \in {input.queue, Append(input.queue, Eof)}
    BY <1>0, <2>1, InputMoves
  <2> QED BY <2>1, <2>2, <2>3
          DEF TypeInv, PauseInv, CommandInv, InputType, LineStep, TakesNothing, QueueStays, QueueEnds
<1>4. CASE OnData
  <2>1. PICK n \in 1 .. Len(tty) : Chunk(n) /\ input' = Pushed(SubSeq(tty, 1, n))
    BY <1>4 DEF OnData
  <2>2. /\ tty' = SubSeq(tty, n + 1, Len(tty))
        /\ UNCHANGED <<options, session, hungUp, spent, at, line, idleInterrupt, aborted,
                       catalogAbort, cache, prompted, answers, consent, seen>>
    BY <1>4, <2>1 DEF OnData, Chunk, signals, used
  <2>3. /\ input' \in InputType /\ input'.queue = input.queue \o SubSeq(tty, 1, n)
        /\ input'.listening = input.listening /\ tty' \in Seq(TypedLine)
    BY <1>0, <2>1, <2>2, PieceOf, Pushing
  <2>4. Reading
    BY <2>2, <2>3 DEF Reading
  <2> QED BY <2>2, <2>3, <2>4 DEF TypeInv, PauseInv, CommandInv, InputType, LineStep
<1>5. CASE OnEnd
  <2>1. /\ input' = [Pushed(<<Eof>>) EXCEPT !.closed = TRUE]
        /\ UNCHANGED <<options, session, tty, hungUp, spent, at, line, idleInterrupt, aborted,
                       catalogAbort, cache, prompted, answers, consent, seen>>
    BY <1>5 DEF OnEnd, person, signals, used
  <2>2. <<Eof>> \in Seq(TypedLine)
    BY EofIsTyped
  <2>3. /\ Pushed(<<Eof>>) \in InputType /\ Pushed(<<Eof>>).queue = input.queue \o <<Eof>>
        /\ Pushed(<<Eof>>).listening = input.listening
    BY <1>0, <2>2, Pushing
  <2>4. /\ input' \in InputType /\ input'.listening = input.listening
        /\ input'.queue = input.queue \o <<Eof>>
    BY <2>1, <2>3 DEF InputType
  <2>5. input.queue \o <<Eof>> = Append(input.queue, Eof)
    BY <1>0, EofIsTyped DEF InputType
  <2> QED BY <2>1, <2>4, <2>5 DEF TypeInv, PauseInv, CommandInv, InputType, LineStep, TakesNothing, QueueEnds
<1> QED BY <1>1, <1>2, <1>3, <1>4, <1>5

LEMMA QuestionSteps ==
  ASSUME Shape, ConfirmOpen \/ ConfirmMode \/ AnswerTurn
  PROVE  Shape' /\ LineStep
<1> USE DEF Shape
<1>1. PICK n : /\ Answered(n) /\ at \in Asking
               /\ input' \in {Hears(SubSeq(tty, 1, n)), Resume(Hears(SubSeq(tty, 1, n)))}
               /\ (at \in {"confirm open", "turn asks"} \/ at' = "write mode") =>
                     input' = Hears(SubSeq(tty, 1, n))
  BY DEF ConfirmOpen, ConfirmMode, AnswerTurn, Asking
<1>2. /\ Answering /\ input' \in InputType /\ tty' \in Seq(TypedLine)
      /\ input' = input \/ input' = Resume(input)
      /\ UNCHANGED <<hungUp, spent, prompted>>
  <2> DEFINE in == Hears(SubSeq(tty, 1, n))
  <2>1. input' \in {in, Resume(in)}
    BY <1>1
  <2> QED BY <1>1, <2>1, AnsweringMoves
<1>3. /\ consent' \in BOOLEAN /\ at' \in {"opening", "over", "write mode", "prompt", "turn"}
      /\ UNCHANGED <<options, session, line, cache, seen, idleInterrupt, aborted, catalogAbort>>
  BY DEF ConfirmOpen, ConfirmMode, AnswerTurn, Fails, Agrees, TypeInv, signals
<1>4. at' \in Paused => ~input'.listening
  <2>1. n \in 1 .. Len(tty)
    BY <1>1 DEF Answered, Chunk
  <2>2. Hears(SubSeq(tty, 1, n)) = input /\ ~input.listening
    BY <1>1, <2>1, PieceOf, Pushing DEF TypeInv, PauseInv, InputType, Asking, Paused, Opening
  <2>3. at' \in Paused => at \in {"confirm open", "turn asks"} \/ at' = "write mode"
    BY DEF ConfirmOpen, ConfirmMode, AnswerTurn, Paused, Opening
  <2> QED BY <1>1, <2>2, <2>3
<1>5. at' \in Places
  BY <1>3 DEF Places, Paused, Opening
<1>6. CommandInv'
  BY <1>3 DEF CommandInv, ConfirmOpen, ConfirmMode, AnswerTurn, Fails, Modes
<1> QED BY <1>2, <1>3, <1>4, <1>5, <1>6 DEF TypeInv, PauseInv, InputType, LineStep

LEMMA LoopSteps ==
  ASSUME Shape, LoopStep \/ TurnAsks \/ TurnEnds
  PROVE  Shape' /\ LineStep
<1> USE DEF Shape
<1>0. input \in InputType
  BY DEF TypeInv, InputType
<1>1. CASE ReadLine
  <2>1. /\ UNCHANGED <<options, session, tty, hungUp, spent, idleInterrupt, aborted,
                       catalogAbort, cache, answers, consent, seen>>
    BY <1>1 DEF ReadLine, person, signals, used
  <2>2. CASE at' = "closing" /\ UNCHANGED <<input, line, prompted>>
    BY <2>1, <2>2 DEF TypeInv, PauseInv, CommandInv, Places, Paused, Opening, LineStep, TakesNothing, QueueStays
  <2>3. CASE ~(at' = "closing" /\ UNCHANGED <<input, line, prompted>>)
    <3> DEFINE next == Head(input.queue)
    <3>1. /\ input.queue # <<>> /\ next.text # "eof" /\ line' = next /\ at' = Leads(next)
          /\ prompted' = Append(prompted, next.id)
          /\ input' = IF Leads(next) \in {"prompt", "closing"} THEN Take(input)
                      ELSE Pause(Take(input))
      BY <1>1, <2>3 DEF ReadLine, used
    <3>2. /\ Take(input) \in InputType /\ Take(input).queue = Tail(input.queue)
          /\ next \in TypedLine /\ next = input.queue[1]
      BY <1>0, <3>1, Taking
    <3>3. /\ input' \in InputType /\ input'.queue = Tail(input.queue)
          /\ at' \notin {"prompt", "closing"} => ~input'.listening
      BY <3>1, <3>2, InputMoves
    <3>4. /\ Leads(next) \in {"turn starts", "closing", "prompt", "write mode", "confirm mode",
                             "catalogue"}
          /\ Leads(next) = "write mode" => next.text \in Modes
          /\ Leads(next) = "confirm mode" => next.text = "full-access"
      BY DEF Leads, Slash, Modes
    <3>5. prompted' \in Seq(Nat)
      BY <3>1, <3>2 DEF TypeInv, TypedLine
    <3>6. Prompting
      BY <2>1, <3>1, <3>2, <3>3 DEF Prompting, Eof
    <3> QED BY <2>1, <3>1, <3>2, <3>3, <3>4, <3>5, <3>6
            DEF TypeInv, PauseInv, CommandInv, InputType, Places, Paused, Opening, LineStep
  <2> QED BY <2>2, <2>3
<1>2. ASSUME /\ UNCHANGED <<options, tty, hungUp, spent, line, prompted, answers>>
             /\ input' \in {input, Resume(input), CloseInput(input)}
             /\ session' \in [mode : Modes, model : Model]
             /\ cache' \subseteq Model /\ seen' \subseteq Model
             /\ idleInterrupt' \in BOOLEAN /\ aborted' \in BOOLEAN /\ catalogAbort' \in BOOLEAN
             /\ consent' \in BOOLEAN /\ at' \in Places
             /\ at' \in Paused => input' = input /\ at \in Paused
             /\ at' \notin {"write mode", "confirm mode"}
             /\ at' = "write model" => line.text \in Model
      PROVE  Shape' /\ LineStep
  <2>1. /\ input' \in InputType
        /\ input'.queue \in {input.queue, Append(input.queue, Eof)}
    <3>1. CASE input' = input
      BY <1>0, <3>1
    <3>2. CASE input' = Resume(input)
      BY <1>0, <3>2, InputMoves
    <3>3. CASE input' = CloseInput(input)
      BY <1>0, <3>3, InputMoves
    <3> QED BY <1>2, <3>1, <3>2, <3>3
  <2>2. LineStep
    BY <1>2, <2>1 DEF LineStep, TakesNothing, QueueStays, QueueEnds
  <2>3. PauseInv'
    BY <1>2 DEF PauseInv
  <2>4. TypeInv'
    BY <1>2, <2>1 DEF TypeInv, InputType
  <2>5. CommandInv'
    BY <1>2 DEF CommandInv
  <2> QED BY <2>2, <2>3, <2>4, <2>5
<1> USE DEF Places, Paused, Opening
<1>3. CASE Open \/ Leave \/ TurnStarts \/ TurnAsks \/ QuestionAborted \/ TurnEnds \/ TurnOver \/ Closing
  BY <1>2, <1>3
  DEF Open, Leave, TurnStarts, TurnAsks, QuestionAborted, TurnEnds, TurnOver, Closing, Fails,
      TypeInv, person, signals, used
<1>4. CASE Opened
  <2>1. /\ UNCHANGED <<options, tty, hungUp, spent, line, prompted, answers, seen, cache,
                       idleInterrupt, aborted, catalogAbort>>
        /\ \/ /\ session' = [session EXCEPT !.mode = Target] /\ input' = Resume(input)
              /\ consent' = (consent /\ Target = "full-access") /\ at' = "prompt"
           \/ at' = "over" /\ UNCHANGED <<session, consent, input>>
    BY <1>4 DEF Opened, Fails, person, signals, used
  <2>2. Target \in Modes
    BY ConsoleAssumption DEF Target, TypeInv
  <2>3. session' \in [mode : Modes, model : Model] /\ consent' \in BOOLEAN
    BY <2>1, <2>2 DEF TypeInv
  <2> QED BY <1>2, <2>1, <2>3 DEF TypeInv
<1>5. CASE WriteModel
  <2>1. /\ UNCHANGED <<options, tty, hungUp, spent, line, prompted, answers, seen, cache,
                       idleInterrupt, aborted, catalogAbort, consent>>
        /\ session' = [session EXCEPT !.model = line.text]
        /\ at = "write model"
        /\ \/ at' = "prompt" /\ input' = Resume(input)
           \/ at' = "closing" /\ UNCHANGED input
    BY <1>5 DEF WriteModel, BackToPrompt, person, signals, used
  <2>2. session' \in [mode : Modes, model : Model]
    BY <2>1 DEF TypeInv, CommandInv
  <2> QED BY <1>2, <2>1, <2>2 DEF TypeInv
<1>6. CASE WriteMode
  <2>1. /\ UNCHANGED <<options, tty, hungUp, spent, line, prompted, answers, seen, cache,
                       idleInterrupt, aborted, catalogAbort>>
        /\ session' = [session EXCEPT !.mode = line.text] /\ at = "write mode"
        /\ consent' = (consent /\ line.text = "full-access")
        /\ \/ at' = "prompt" /\ input' = Resume(input)
           \/ at' = "closing" /\ UNCHANGED input
    BY <1>6 DEF WriteMode, BackToPrompt, person, signals, used
  <2>2. session' \in [mode : Modes, model : Model] /\ consent' \in BOOLEAN
    BY <2>1 DEF TypeInv, CommandInv
  <2> QED BY <1>2, <2>1, <2>2 DEF TypeInv
<1>7. CASE Catalogue
  <2>1. /\ UNCHANGED <<options, session, tty, hungUp, spent, line, prompted, answers,
                       idleInterrupt, aborted, consent>>
        /\ catalogAbort' = FALSE /\ at = "catalogue"
    BY <1>7 DEF Catalogue, person, used
  <2>2. \E models : Chosen(models)
    BY <1>7 DEF Catalogue
  <2>3. \/ at' = "write model" /\ UNCHANGED input /\ line.text \in Model
        \/ at' = "prompt" /\ input' = Resume(input)
    BY <2>2 DEF Chosen, BackToPrompt
  <2>4. \/ UNCHANGED <<cache, seen>>
        \/ \E models \in Offer : cache' = models /\ seen' = seen \cup models
    BY <1>7 DEF Catalogue
  <2>5. cache' \subseteq Model /\ seen' \subseteq Model
    BY <2>4, ConsoleAssumption DEF TypeInv
  <2> QED BY <1>2, <2>1, <2>3, <2>5 DEF TypeInv
<1> QED BY <1>1, <1>3, <1>4, <1>5, <1>6, <1>7 DEF LoopStep

LEMMA ShapeStep ==
  ASSUME Shape, [Next]_vars
  PROVE  Shape' /\ LineStep
<1>1. CASE UNCHANGED vars
  <2>1. UNCHANGED <<options, session, tty, hungUp, spent, input, at, line, idleInterrupt,
                    aborted, catalogAbort, cache, prompted, answers, consent, seen>>
    BY <1>1 DEF vars, person, signals, used
  <2> QED BY <2>1 DEF Shape, TypeInv, PauseInv, CommandInv, LineStep, TakesNothing, QueueStays
<1> QED BY <1>1, PersonSteps, QuestionSteps, LoopSteps DEF Next

LEMMA ShapeInit == Init => Shape
<1> SUFFICES ASSUME Init PROVE Shape
  OBVIOUS
<1>1. /\ options \in Start /\ session = options.session /\ tty = <<>> /\ hungUp = FALSE
      /\ input = [listening |-> FALSE, closed |-> FALSE, queue |-> <<>>]
      /\ at = "open" /\ line = NoLine /\ cache = {} /\ prompted = <<>>
      /\ idleInterrupt = FALSE /\ aborted = FALSE /\ catalogAbort = FALSE
      /\ consent = (options.resume /\ session.mode = "full-access")
      /\ seen = {session.model} \cup (IF options.source = "manual" THEN options.listed ELSE {})
      /\ spent = [lines |-> 0, interrupts |-> 0]
  BY DEF Init
<1>2. options.resume \in BOOLEAN /\ session \in [mode : Modes, model : Model]
      /\ options.listed \subseteq Model
  BY <1>1, ConsoleAssumption
<1>3. line \in TypedLine
  BY <1>1 DEF NoLine, TypedLine, Texts
<1>4. input \in [listening : BOOLEAN, closed : BOOLEAN, queue : Seq(TypedLine)]
  BY <1>1
<1>5. consent \in BOOLEAN /\ seen \subseteq Model
  BY <1>1, <1>2
<1>6. tty \in Seq(TypedLine) /\ prompted \in Seq(Nat) /\ spent \in [lines : Nat, interrupts : Nat]
  BY <1>1
<1> QED BY <1>1, <1>2, <1>3, <1>4, <1>5, <1>6
        DEF Shape, TypeInv, PauseInv, CommandInv, Places, Paused, Opening

(* The console's state keeps its types, whatever is typed.                 *)
THEOREM ConsoleTypes == Spec => []TypeOK
<1>1. Shape => TypeOK
  BY DEF Shape, TypeInv, TypeOK, Places, Paused, Opening
<1> QED BY <1>1, ShapeInit, ShapeStep, PTL DEF Spec

-----------------------------------------------------------------------------
(* The mode and the model                                                  *)

(* Before there is a session, consent is the user's answer to the question *)
(* the start asks; then Full Access and consent go together, and so they   *)
(* do when a command is about to set it.                                   *)
ConsentInv ==
  /\ at \in Opening =>
       /\ session = options.session
       /\ (options.resume /\ session.mode = "full-access") => consent
  /\ (at = "opening" /\ NeedsConfirmation(Current, Target)) => consent
  /\ (at \notin Opening \cup {"over"} /\ session.mode = "full-access") => consent
  /\ (at = "write mode" /\ line.text = "full-access") => consent

(* Every list a model may be chosen from was seen.                         *)
SeenInv ==
  /\ session.model \in seen /\ cache \subseteq seen
  /\ options.source = "manual" => options.listed \subseteq seen
  /\ at = "write model" => line.text \in seen

(* The user and the terminal set nothing.                                  *)
LEMMA SettingsQuiet ==
  ASSUME ConsentInv, SeenInv, UNCHANGED <<options, session, line, cache, consent, seen>>,
         \/ at' = at
         \/ at' \in {"turn", "turn asks", "turn over", "prompt", "closing", "over", "turn starts"}
              /\ at \notin Opening \cup {"over"}
         \/ at' = "over"
  PROVE  ConsentInv' /\ SeenInv'
BY DEF ConsentInv, SeenInv, Opening, NeedsConfirmation, Current, Target

LEMMA SettingsStep ==
  ASSUME Shape, ConsentInv, SeenInv, [Next]_vars
  PROVE  ConsentInv' /\ SeenInv'
<1>1. CASE UNCHANGED vars \/ Type \/ HangUp \/ Interrupt \/ OnData \/ OnEnd
  BY <1>1, SettingsQuiet DEF vars, Type, HangUp, Interrupt, OnData, OnEnd
<1>2. CASE Leave \/ TurnStarts \/ QuestionAborted \/ TurnOver \/ Closing \/ TurnAsks
           \/ AnswerTurn \/ TurnEnds
  BY <1>2, SettingsQuiet
  DEF Leave, TurnStarts, QuestionAborted, TurnOver, Closing, TurnAsks, AnswerTurn, TurnEnds,
      Opening
<1>3. CASE Open
  <2>1. /\ UNCHANGED <<options, session, line, cache, consent, seen>> /\ at = "open"
        /\ at' = "over" \/ at' \in {"opening", "confirm open"}
        /\ at' = "opening" => ~NeedsConfirmation(Current, Target)
    BY <1>3 DEF Open, Fails
  <2>2. NeedsConfirmation(Current, Target)' = NeedsConfirmation(Current, Target)
    BY <2>1 DEF NeedsConfirmation, Current, Target
  <2> QED BY <2>1, <2>2 DEF ConsentInv, SeenInv, Opening
<1>4. CASE ConfirmOpen
  <2>1. /\ UNCHANGED <<options, session, line, cache, seen>> /\ at = "confirm open"
        /\ \/ at' = "opening" /\ consent' = TRUE
           \/ at' = "over" /\ consent' = consent
    BY <1>4 DEF ConfirmOpen, Fails, Confirms
  <2> QED BY <2>1 DEF ConsentInv, SeenInv, Opening
<1>5. CASE Opened
  <2>1. /\ UNCHANGED <<options, line, cache, seen>> /\ at = "opening"
        /\ \/ /\ session' = [session EXCEPT !.mode = Target] /\ at' = "prompt"
              /\ consent' = (consent /\ Target = "full-access")
           \/ at' = "over" /\ UNCHANGED <<session, consent>>
    BY <1>5 DEF Opened, Fails
  <2>2. CASE at' = "over" /\ UNCHANGED <<session, consent>>
    BY <2>1, <2>2 DEF ConsentInv, SeenInv, Opening
  <2>3. CASE /\ session' = [session EXCEPT !.mode = Target] /\ at' = "prompt"
             /\ consent' = (consent /\ Target = "full-access")
    <3>1. session'.mode = Target /\ session'.model = session.model
      BY <2>3 DEF Shape, TypeInv
    <3>2. Target = "full-access" => consent
      BY <2>1 DEF ConsentInv, Opening, NeedsConfirmation, Current
    <3>3. Target = "full-access" => consent'
      BY <2>3, <3>2
    <3>4. ConsentInv'
      BY <2>3, <3>1, <3>3 DEF ConsentInv, Opening
    <3>5. SeenInv'
      BY <2>1, <2>3, <3>1 DEF SeenInv
    <3> QED BY <3>4, <3>5
  <2> QED BY <2>1, <2>2, <2>3
<1>6. CASE ReadLine
  <2>1. UNCHANGED <<options, session, cache, consent, seen>> /\ at = "prompt"
    BY <1>6 DEF ReadLine
  <2>2. \/ at' = "closing" /\ line' = line
        \/ /\ at' \in {"turn starts", "closing", "prompt", "write mode", "confirm mode", "catalogue"}
           /\ (at' = "write mode" /\ line'.text = "full-access") => session.mode = "full-access"
    BY <1>6 DEF ReadLine, Leads, Slash, NeedsConfirmation
  <2> QED BY <2>1, <2>2 DEF ConsentInv, SeenInv, Opening
<1>7. CASE ConfirmMode
  <2>1. /\ UNCHANGED <<options, session, line, cache, seen>> /\ at = "confirm mode"
        /\ \/ at' = "write mode" /\ consent' = TRUE
           \/ at' = "prompt" /\ consent' = consent
    BY <1>7 DEF ConfirmMode, Confirms
  <2> QED BY <2>1 DEF ConsentInv, SeenInv, Opening
<1>8. CASE WriteMode
  <2>1. /\ UNCHANGED <<options, line, cache, seen>> /\ at = "write mode"
        /\ session' = [session EXCEPT !.mode = line.text]
        /\ consent' = (consent /\ line.text = "full-access")
        /\ at' \in {"prompt", "closing"}
    BY <1>8 DEF WriteMode, BackToPrompt
  <2>2. session'.mode = line.text /\ session'.model = session.model
    BY <2>1 DEF Shape, TypeInv
  <2>3. line.text = "full-access" => consent'
    BY <2>1 DEF ConsentInv
  <2>4. ConsentInv'
    BY <2>1, <2>2, <2>3 DEF ConsentInv, Opening
  <2>5. SeenInv'
    <3>1. /\ at' # "write model" /\ options' = options /\ cache' = cache /\ seen' = seen
          /\ session'.model = session.model
      BY <2>1, <2>2
    <3> QED BY <3>1 DEF SeenInv
  <2> QED BY <2>4, <2>5
<1>9. CASE Catalogue
  <2>1. UNCHANGED <<options, session, line, consent>> /\ at = "catalogue"
    BY <1>9 DEF Catalogue
  <2>2. \E models :
          /\ Chosen(models) /\ cache' \subseteq seen' /\ seen \subseteq seen'
          /\ models \subseteq seen'
    <3>1. CASE ~FromProvider /\ UNCHANGED <<cache, seen>>
                 /\ Chosen(IF options.source = "manual" THEN options.listed ELSE cache)
      BY <3>1 DEF SeenInv
    <3>2. CASE \E models \in Offer \ {{}} :
                 cache' = models /\ seen' = seen \cup models /\ Chosen(models)
      BY <3>2 DEF SeenInv
    <3>3. CASE Chosen(cache) /\ UNCHANGED <<cache, seen>>
      BY <3>3 DEF SeenInv
    <3> QED BY <1>9, <3>1, <3>2, <3>3 DEF Catalogue
  <2>3. at' = "prompt" \/ (at' = "write model" /\ line.text \in seen')
    BY <2>1, <2>2 DEF Chosen, BackToPrompt, Selectable, SeenInv
  <2> QED BY <2>1, <2>2, <2>3 DEF ConsentInv, SeenInv, Opening
<1>10. CASE WriteModel
  <2>1. /\ UNCHANGED <<options, line, cache, seen, consent>> /\ at = "write model"
        /\ session' = [session EXCEPT !.model = line.text]
        /\ at' \in {"prompt", "closing"}
    BY <1>10 DEF WriteModel, BackToPrompt
  <2>2. session'.mode = session.mode /\ session'.model = line.text
    BY <2>1 DEF Shape, TypeInv
  <2>3. ConsentInv'
    BY <2>1, <2>2 DEF ConsentInv, Opening
  <2>4. SeenInv'
    <3>1. /\ at' # "write model" /\ options' = options /\ cache' = cache /\ seen' = seen
          /\ session'.model = line.text /\ at = "write model"
      BY <2>1, <2>2
    <3> QED BY <3>1 DEF SeenInv
  <2> QED BY <2>3, <2>4
<1> QED BY <1>1, <1>2, <1>3, <1>4, <1>5, <1>6, <1>7, <1>8, <1>9, <1>10 DEF Next, LoopStep

(* Full Access was confirmed, and the model was offered, however commands, *)
(* questions, interrupts and answers of the provider meet.                 *)
THEOREM SettingsChosen == Spec => []SettingsWereChosen
<1>1. Init => ConsentInv /\ SeenInv
  <2> SUFFICES ASSUME Init PROVE ConsentInv /\ SeenInv
    OBVIOUS
  <2>1. /\ session = options.session /\ at = "open" /\ cache = {}
        /\ consent = (options.resume /\ session.mode = "full-access")
        /\ seen = {session.model} \cup (IF options.source = "manual" THEN options.listed ELSE {})
    BY DEF Init
  <2> QED BY <2>1 DEF ConsentInv, SeenInv, Opening
<1>2. ConsentInv /\ SeenInv => SettingsWereChosen
  BY DEF ConsentInv, SeenInv, SettingsWereChosen, FullAccessWasConfirmed, ModelWasOffered, Opening
<1>3. (Shape /\ ConsentInv /\ SeenInv) /\ [Next]_vars => (Shape /\ ConsentInv /\ SeenInv)'
  BY ShapeStep, SettingsStep
<1> QED BY <1>1, <1>2, <1>3, ShapeInit, PTL DEF Spec

-----------------------------------------------------------------------------
(* What is typed serves once                                               *)

(* Lines u, not served yet, are numbered as they were typed, up to n, and  *)
(* so are those that were taken, p, and the answers a.                     *)
Numbered(u, p, a, n) ==
  /\ \A i \in 1 .. Len(u) : u[i].id <= n /\ (~IsLine(u[i]) => u[i].text = Eof.text)
  /\ \A i \in 1 .. Len(p) : p[i] <= n
  /\ \A k \in a : k \in Nat /\ k # Eof.id /\ k <= n

(* They wait in the order they were typed, behind all that was taken.      *)
Rises(u) ==
  \A i, j \in 1 .. Len(u) : (i < j /\ IsLine(u[i]) /\ IsLine(u[j])) => u[i].id < u[j].id

Ordered(u, p) ==
  /\ Rises(u)
  /\ \A i, j \in 1 .. Len(p) : i < j => p[i] < p[j]
  /\ \A i \in 1 .. Len(p), j \in 1 .. Len(u) : IsLine(u[j]) => p[i] < u[j].id

(* An answer is neither taken nor waits.                                   *)
Unanswered(u, p, a) ==
  /\ \A i \in 1 .. Len(u) : u[i].id \notin a
  /\ \A i \in 1 .. Len(p) : p[i] \notin a

(* Without a question nothing is lost.                                     *)
Kept(u, p, a, n) ==
  a = {} =>
    \A k \in 1 .. n : \/ \E i \in 1 .. Len(p) : p[i] = k
                      \/ \E i \in 1 .. Len(u) : u[i].id = k

LinesInv ==
  /\ \A i \in 1 .. Len(tty) : IsLine(tty[i])
  /\ Numbered(Unserved, prompted, answers, spent.lines)
  /\ Ordered(Unserved, prompted)
  /\ Unanswered(Unserved, prompted, answers)
  /\ Kept(Unserved, prompted, answers, spent.lines)

LineTypes ==
  /\ tty \in Seq(TypedLine) /\ input.queue \in Seq(TypedLine) /\ prompted \in Seq(Nat)
  /\ spent.lines \in Nat

LEMMA LineNumbers ==
  ASSUME NEW u \in Seq(TypedLine)
  PROVE  Len(u) \in Nat /\ \A i \in 1 .. Len(u) : u[i] \in TypedLine /\ u[i].id \in Nat
<1>1. Len(u) \in Nat /\ \A i \in 1 .. Len(u) : u[i] \in TypedLine
  OBVIOUS
<1>2. \A l \in TypedLine : l.id \in Nat
  BY DEF TypedLine
<1> QED BY <1>1, <1>2

LEMMA TwoParts ==
  ASSUME NEW s \in Seq(TypedLine), NEW t \in Seq(TypedLine)
  PROVE  /\ s \o t \in Seq(TypedLine) /\ Len(s \o t) = Len(s) + Len(t)
         /\ Len(s) \in Nat /\ Len(t) \in Nat
         /\ \A i \in 1 .. Len(s) : (s \o t)[i] = s[i]
         /\ \A i \in 1 .. Len(t) : (s \o t)[Len(s) + i] = t[i]
         /\ \A i \in 1 .. (Len(s) + Len(t)) :
              i > Len(s) => i - Len(s) \in 1 .. Len(t) /\ (s \o t)[i] = t[i - Len(s)]
<1> DEFINE u == s \o t
<1>1. /\ u \in Seq(TypedLine) /\ Len(u) = Len(s) + Len(t)
      /\ Len(s) \in Nat /\ Len(t) \in Nat
  OBVIOUS
<1>2. \A i \in 1 .. Len(s) : u[i] = s[i]
  OBVIOUS
<1>3. \A i \in 1 .. (Len(s) + Len(t)) :
        i > Len(s) => i - Len(s) \in 1 .. Len(t) /\ u[i] = t[i - Len(s)]
  OBVIOUS
<1>4. ASSUME NEW i \in 1 .. Len(t)
      PROVE  u[Len(s) + i] = t[i]
  <2>1. Len(s) + i \in 1 .. (Len(s) + Len(t)) /\ Len(s) + i > Len(s) /\ (Len(s) + i) - Len(s) = i
    BY <1>1
  <2> HIDE DEF u
  <2> QED BY <1>3, <2>1
<1> QED BY <1>1, <1>2, <1>3, <1>4

(* After the first q lines some were left out, or the end was put in.      *)
Thins(u, v, q, shift) ==
  \A i \in 1 .. Len(v) :
    \/ i <= q /\ i <= Len(u) /\ v[i] = u[i]
    \/ v[i] = Eof
    \/ i > q /\ i + shift > q /\ i + shift <= Len(u) /\ v[i] = u[i + shift]

LEMMA Thinning ==
  ASSUME NEW u \in Seq(TypedLine), NEW v \in Seq(TypedLine), NEW q \in Nat, NEW shift \in Int,
         Thins(u, v, q, shift)
  PROVE  /\ \A i \in 1 .. Len(v) : v[i] = Eof \/ \E j \in 1 .. Len(u) : v[i] = u[j]
         /\ Rises(u) => Rises(v)
<1>0. Len(u) \in Nat /\ Len(v) \in Nat
  OBVIOUS
<1>1. \A i \in 1 .. Len(v) : v[i] = Eof \/ \E j \in 1 .. Len(u) : v[i] = u[j]
  <2> SUFFICES ASSUME NEW i \in 1 .. Len(v), v[i] # Eof
               PROVE  \E j \in 1 .. Len(u) : v[i] = u[j]
    OBVIOUS
  <2>1. CASE i <= q /\ i <= Len(u) /\ v[i] = u[i]
    BY <1>0, <2>1
  <2>2. CASE i > q /\ i + shift > q /\ i + shift <= Len(u) /\ v[i] = u[i + shift]
    <3>1. i + shift \in 1 .. Len(u)
      BY <1>0, <2>2
    <3> QED BY <2>2, <3>1
  <2> QED BY <2>1, <2>2 DEF Thins
<1>2. ASSUME Rises(u), NEW i \in 1 .. Len(v), NEW j \in 1 .. Len(v),
             i < j, IsLine(v[i]), IsLine(v[j])
      PROVE  v[i].id < v[j].id
  <2>1. v[i] # Eof /\ v[j] # Eof
    BY <1>2 DEF IsLine
  <2>2. \E k \in 1 .. Len(u), l \in 1 .. Len(u) : k < l /\ v[i] = u[k] /\ v[j] = u[l]
    <3>1. CASE i <= q /\ j <= q
      BY <1>0, <1>2, <2>1, <3>1 DEF Thins
    <3>2. CASE i <= q /\ j > q
      <4>1. i \in 1 .. Len(u) /\ j + shift \in 1 .. Len(u) /\ i < j + shift
            /\ v[i] = u[i] /\ v[j] = u[j + shift]
        BY <1>0, <2>1, <3>2 DEF Thins
      <4> QED BY <4>1
    <3>3. CASE i > q
      <4>1. i + shift \in 1 .. Len(u) /\ j + shift \in 1 .. Len(u) /\ i + shift < j + shift
            /\ v[i] = u[i + shift] /\ v[j] = u[j + shift]
        BY <1>0, <1>2, <2>1, <3>3 DEF Thins
      <4> QED BY <4>1
    <3> QED BY <1>0, <3>1, <3>2, <3>3
  <2> QED BY <1>2, <2>2 DEF Rises
<1> QED BY <1>1, <1>2 DEF Rises

(* What is thinned stays in order, numbered and free of answers.           *)
LEMMA ThinnedKeeps ==
  ASSUME NEW u \in Seq(TypedLine), NEW v \in Seq(TypedLine), NEW q \in Nat, NEW shift \in Int,
         NEW p, NEW a, NEW n, Thins(u, v, q, shift), n \in Nat,
         Numbered(u, p, a, n), Ordered(u, p), Unanswered(u, p, a)
  PROVE  Numbered(v, p, a, n) /\ Ordered(v, p) /\ Unanswered(v, p, a)
<1>0. Eof.id = 0 /\ ~IsLine(Eof)
  BY DEF Eof, IsLine
<1>1. \A i \in 1 .. Len(v) : v[i] = Eof \/ \E j \in 1 .. Len(u) : v[i] = u[j]
  BY Thinning
<1>2. Numbered(v, p, a, n)
  BY <1>0, <1>1 DEF Numbered
<1>3. Rises(v)
  BY Thinning DEF Ordered
<1>4. Ordered(v, p)
  BY <1>0, <1>1, <1>3 DEF Ordered
<1>5. \A i \in 1 .. Len(v) : v[i].id \notin a
  BY <1>0, <1>1 DEF Numbered, Unanswered
<1> QED BY <1>2, <1>4, <1>5 DEF Unanswered

(* The end of the input is no line.                                        *)
LEMMA EndKeeps ==
  ASSUME LinesInv, LineTypes, LineTypes', TakesNothing, QueueEnds
  PROVE  LinesInv'
<1> DEFINE queue == input.queue
           u == queue \o tty
           v == Append(queue, Eof) \o tty
<1>1. queue \in Seq(TypedLine) /\ tty \in Seq(TypedLine) /\ spent.lines \in Nat
  BY DEF LineTypes
<1>2. UNCHANGED <<tty, prompted, answers>> /\ spent'.lines = spent.lines
      /\ Unserved' = v /\ Unserved = u
  BY DEF TakesNothing, QueueEnds, Unserved
<1>3. /\ Append(queue, Eof) \in Seq(TypedLine) /\ Len(Append(queue, Eof)) = Len(queue) + 1
      /\ \A i \in 1 .. Len(queue) : Append(queue, Eof)[i] = queue[i]
      /\ Append(queue, Eof)[Len(queue) + 1] = Eof
  BY <1>1, EofIsTyped
<1>4. /\ u \in Seq(TypedLine) /\ Len(u) = Len(queue) + Len(tty)
      /\ Len(queue) \in Nat /\ Len(tty) \in Nat
      /\ \A i \in 1 .. Len(queue) : u[i] = queue[i]
      /\ \A i \in 1 .. Len(tty) : u[Len(queue) + i] = tty[i]
      /\ \A i \in 1 .. (Len(queue) + Len(tty)) :
           i > Len(queue) => i - Len(queue) \in 1 .. Len(tty) /\ u[i] = tty[i - Len(queue)]
  BY <1>1, TwoParts
<1>5. /\ v \in Seq(TypedLine) /\ Len(v) = Len(queue) + 1 + Len(tty)
      /\ \A i \in 1 .. (Len(queue) + 1) : v[i] = Append(queue, Eof)[i]
      /\ \A i \in 1 .. Len(tty) : v[Len(queue) + 1 + i] = tty[i]
      /\ \A i \in 1 .. (Len(queue) + 1 + Len(tty)) :
           i > Len(queue) + 1 =>
             i - (Len(queue) + 1) \in 1 .. Len(tty) /\ v[i] = tty[i - (Len(queue) + 1)]
  BY <1>1, <1>3, TwoParts
<1> HIDE DEF u, v, queue
<1>6. Thins(u, v, Len(queue), -1)
  <2> SUFFICES ASSUME NEW i \in 1 .. Len(v)
               PROVE  \/ i <= Len(queue) /\ i <= Len(u) /\ v[i] = u[i]
                      \/ v[i] = Eof
                      \/ /\ i > Len(queue) /\ i + (-1) > Len(queue) /\ i + (-1) <= Len(u)
                         /\ v[i] = u[i + (-1)]
    BY DEF Thins
  <2>1. CASE i <= Len(queue)
    <3>1. i \in 1 .. Len(queue) /\ i \in 1 .. (Len(queue) + 1)
      BY <1>4, <2>1
    <3>2. i <= Len(u) /\ v[i] = u[i]
      BY <1>3, <1>4, <1>5, <3>1
    <3> QED BY <2>1, <3>2
  <2>2. CASE i = Len(queue) + 1
    BY <1>3, <1>4, <1>5, <2>2
  <2>3. CASE i > Len(queue) + 1
    <3>1. i - (Len(queue) + 1) \in 1 .. Len(tty) /\ v[i] = tty[i - (Len(queue) + 1)]
      BY <1>4, <1>5, <2>3
    <3>2. u[Len(queue) + (i - (Len(queue) + 1))] = tty[i - (Len(queue) + 1)]
      BY <1>4, <3>1
    <3>3. Len(queue) + (i - (Len(queue) + 1)) = i + (-1) /\ i + (-1) <= Len(u)
          /\ i + (-1) > Len(queue)
      BY <1>4, <1>5, <2>3
    <3> QED BY <2>3, <3>1, <3>2, <3>3
  <2> QED BY <1>4, <1>5, <2>1, <2>2, <2>3
<1>7. /\ Numbered(v, prompted, answers, spent.lines) /\ Ordered(v, prompted)
      /\ Unanswered(v, prompted, answers)
  <2>1. -1 \in Int
    OBVIOUS
  <2> QED BY <1>1, <1>2, <1>4, <1>5, <1>6, <2>1, ThinnedKeeps DEF LinesInv
<1>8. Kept(v, prompted, answers, spent.lines)
  <2>1. ASSUME NEW i \in 1 .. Len(u) PROVE \E j \in 1 .. Len(v) : v[j] = u[i]
    <3>1. CASE i <= Len(queue)
      <4>1. i \in 1 .. Len(queue) /\ i \in 1 .. (Len(queue) + 1)
        BY <1>4, <3>1
      <4>2. i \in 1 .. Len(v) /\ v[i] = u[i]
        BY <1>3, <1>4, <1>5, <4>1
      <4> QED BY <4>2
    <3>2. CASE i > Len(queue)
      <4>1. i - Len(queue) \in 1 .. Len(tty) /\ u[i] = tty[i - Len(queue)]
        BY <1>4, <3>2
      <4>2. v[Len(queue) + 1 + (i - Len(queue))] = u[i]
        BY <1>5, <4>1
      <4>3. Len(queue) + 1 + (i - Len(queue)) \in 1 .. Len(v)
        BY <1>4, <1>5, <3>2
      <4> QED BY <4>2, <4>3
    <3> QED BY <1>4, <3>1, <3>2
  <2> QED BY <1>2, <2>1 DEF LinesInv, Kept
<1> QED BY <1>2, <1>7, <1>8 DEF LinesInv, IsLine, Numbered, Ordered, Rises, Unanswered, Kept

(* A line that is typed comes after all the others.                        *)
LEMMA TypedKeeps ==
  ASSUME NEW u \in Seq(TypedLine), NEW l \in TypedLine, NEW p, NEW a, NEW n \in Nat, l.id = n + 1,
         Numbered(u, p, a, n), Ordered(u, p), Unanswered(u, p, a), Kept(u, p, a, n),
         \A i \in 1 .. Len(p) : p[i] \in Nat
  PROVE  /\ Numbered(Append(u, l), p, a, n + 1) /\ Ordered(Append(u, l), p)
         /\ Unanswered(Append(u, l), p, a) /\ Kept(Append(u, l), p, a, n + 1)
<1> DEFINE v == Append(u, l)
<1>1. /\ Len(u) \in Nat /\ Len(v) = Len(u) + 1 /\ v[Len(u) + 1] = l
      /\ \A i \in 1 .. Len(u) : v[i] = u[i] /\ u[i].id \in Nat
  BY LineNumbers
<1>2. IsLine(l)
  BY DEF IsLine, Eof
<1> HIDE DEF v
<1>3. \A i \in 1 .. Len(v) : i \in 1 .. Len(u) \/ i = Len(u) + 1
  BY <1>1
<1>4. Numbered(v, p, a, n + 1)
  <2>1. \A i \in 1 .. Len(v) : v[i].id <= n + 1 /\ (~IsLine(v[i]) => v[i].text = Eof.text)
    BY <1>1, <1>2, <1>3 DEF Numbered
  <2>2. \A i \in 1 .. Len(p) : p[i] <= n + 1
    BY DEF Numbered
  <2>3. \A k \in a : k \in Nat /\ k # Eof.id /\ k <= n + 1
    BY DEF Numbered
  <2> QED BY <2>1, <2>2, <2>3 DEF Numbered
<1>5. Ordered(v, p)
  <2>1. Rises(v)
    <3> SUFFICES ASSUME NEW i \in 1 .. Len(v), NEW j \in 1 .. Len(v),
                        i < j, IsLine(v[i]), IsLine(v[j])
                 PROVE  v[i].id < v[j].id
      BY DEF Rises
    <3>1. i \in 1 .. Len(u)
      BY <1>1, <1>3
    <3>2. CASE j \in 1 .. Len(u)
      BY <1>1, <3>1, <3>2 DEF Ordered, Rises
    <3>3. CASE j = Len(u) + 1
      BY <1>1, <3>1, <3>3 DEF Numbered
    <3> QED BY <1>3, <3>2, <3>3
  <2>2. \A i \in 1 .. Len(p), j \in 1 .. Len(v) : IsLine(v[j]) => p[i] < v[j].id
    BY <1>1, <1>3 DEF Ordered, Numbered
  <2> QED BY <2>1, <2>2 DEF Ordered
<1>6. Unanswered(v, p, a)
  <2>1. l.id \notin a
    BY DEF Numbered
  <2> QED BY <1>1, <1>3, <2>1 DEF Unanswered
<1>7. Kept(v, p, a, n + 1)
  <2> SUFFICES ASSUME a = {}, NEW k \in 1 .. (n + 1)
               PROVE  \/ \E i \in 1 .. Len(p) : p[i] = k
                      \/ \E i \in 1 .. Len(v) : v[i].id = k
    BY DEF Kept
  <2>1. CASE k = n + 1
    <3>1. Len(u) + 1 \in 1 .. Len(v)
      BY <1>1
    <3> QED BY <1>1, <2>1, <3>1
  <2>2. CASE k \in 1 .. n
    <3>1. CASE \E i \in 1 .. Len(p) : p[i] = k
      BY <3>1
    <3>2. CASE \E i \in 1 .. Len(u) : u[i].id = k
      <4>1. PICK i \in 1 .. Len(u) : u[i].id = k
        BY <3>2
      <4>2. i \in 1 .. Len(v) /\ v[i].id = k
        BY <1>1, <4>1
      <4> QED BY <4>2
    <3> QED BY <2>2, <3>1, <3>2 DEF Kept
  <2> QED BY <2>1, <2>2
<1> QED BY <1>4, <1>5, <1>6, <1>7 DEF v

(* What the prompt takes is the first of what waits.                       *)
LEMMA TakenKeeps ==
  ASSUME NEW u \in Seq(TypedLine), u # <<>>, IsLine(u[1]), NEW p \in Seq(Nat), NEW a, NEW n \in Nat,
         Numbered(u, p, a, n), Ordered(u, p), Unanswered(u, p, a), Kept(u, p, a, n)
  PROVE  /\ Numbered(Tail(u), Append(p, u[1].id), a, n) /\ Ordered(Tail(u), Append(p, u[1].id))
         /\ Unanswered(Tail(u), Append(p, u[1].id), a) /\ Kept(Tail(u), Append(p, u[1].id), a, n)
<1> DEFINE v == Tail(u)
           k == u[1].id
           r == Append(p, k)
<1>1. /\ v \in Seq(TypedLine) /\ Len(u) \in Nat /\ Len(u) >= 1 /\ Len(v) = Len(u) - 1
      /\ \A i \in 1 .. Len(v) : v[i] = u[i + 1]
  OBVIOUS
<1>2. \A i \in 1 .. Len(u) : u[i].id \in Nat
  BY LineNumbers
<1>3. k \in Nat
  BY <1>1, <1>2
<1>4. /\ Len(p) \in Nat /\ Len(r) = Len(p) + 1 /\ r[Len(p) + 1] = k
      /\ \A i \in 1 .. Len(p) : r[i] = p[i] /\ p[i] \in Nat
  BY <1>3
<1>5. \A i \in 1 .. Len(r) : i \in 1 .. Len(p) \/ i = Len(p) + 1
  BY <1>4
<1> HIDE DEF v, r
<1>6. Thins(u, v, 0, 1)
  BY <1>1 DEF Thins
<1>7. Numbered(v, p, a, n) /\ Ordered(v, p) /\ Unanswered(v, p, a)
  BY <1>1, <1>6, ThinnedKeeps
<1>8. Numbered(v, r, a, n)
  <2>1. k <= n
    BY <1>1 DEF Numbered
  <2> QED BY <1>4, <1>5, <1>7, <2>1 DEF Numbered
<1>9. Ordered(v, r)
  <2>1. \A i, j \in 1 .. Len(r) : i < j => r[i] < r[j]
    <3> SUFFICES ASSUME NEW i \in 1 .. Len(r), NEW j \in 1 .. Len(r), i < j
                 PROVE  r[i] < r[j]
      OBVIOUS
    <3>1. i \in 1 .. Len(p)
      BY <1>4, <1>5
    <3>2. CASE j \in 1 .. Len(p)
      BY <1>4, <3>1, <3>2 DEF Ordered
    <3>3. CASE j = Len(p) + 1
      BY <1>1, <1>4, <3>1, <3>3 DEF Ordered
    <3> QED BY <1>5, <3>2, <3>3
  <2>2. \A j \in 1 .. Len(v) : IsLine(v[j]) => k < v[j].id
    BY <1>1 DEF Ordered, Rises
  <2>3. \A i \in 1 .. Len(r), j \in 1 .. Len(v) : IsLine(v[j]) => r[i] < v[j].id
    BY <1>4, <1>5, <1>7, <2>2 DEF Ordered
  <2> QED BY <1>7, <2>1, <2>3 DEF Ordered
<1>10. Unanswered(v, r, a)
  <2>1. k \notin a
    BY <1>1 DEF Unanswered
  <2> QED BY <1>4, <1>5, <1>7, <2>1 DEF Unanswered
<1>11. Kept(v, r, a, n)
  <2> SUFFICES ASSUME a = {}, NEW m \in 1 .. n
               PROVE  \/ \E i \in 1 .. Len(r) : r[i] = m
                      \/ \E i \in 1 .. Len(v) : v[i].id = m
    BY DEF Kept
  <2>1. CASE \E i \in 1 .. Len(p) : p[i] = m
    <3>1. PICK i \in 1 .. Len(p) : p[i] = m
      BY <2>1
    <3>2. i \in 1 .. Len(r) /\ r[i] = m
      BY <1>4, <3>1
    <3> QED BY <3>2
  <2>2. CASE \E i \in 1 .. Len(u) : u[i].id = m
    <3>1. PICK i \in 1 .. Len(u) : u[i].id = m
      BY <2>2
    <3>2. CASE i = 1
      <4>1. Len(p) + 1 \in 1 .. Len(r) /\ r[Len(p) + 1] = m
        BY <1>4, <3>1, <3>2
      <4> QED BY <4>1
    <3>3. CASE i # 1
      <4>1. i - 1 \in 1 .. Len(v) /\ v[i - 1] = u[i]
        BY <1>1, <3>3
      <4> QED BY <3>1, <4>1
    <3> QED BY <3>2, <3>3
  <2> QED BY <2>1, <2>2 DEF Kept
<1> QED BY <1>8, <1>9, <1>10, <1>11 DEF v, r

(* An answer is the first line at the terminal; what came with it is gone. *)
LEMMA AnsweredKeeps ==
  ASSUME NEW q \in Seq(TypedLine), NEW t \in Seq(TypedLine), NEW m \in 1 .. Len(t), IsLine(t[1]),
         NEW p, NEW a, NEW n \in Nat, \A i \in 1 .. Len(p) : p[i] \in Nat,
         Numbered(q \o t, p, a, n), Ordered(q \o t, p), Unanswered(q \o t, p, a)
  PROVE  LET v == q \o SubSeq(t, m + 1, Len(t))
             b == a \cup {t[1].id}
         IN  Numbered(v, p, b, n) /\ Ordered(v, p) /\ Unanswered(v, p, b) /\ Kept(v, p, b, n)
<1> DEFINE left == SubSeq(t, m + 1, Len(t))
           u == q \o t
           v == q \o left
           k == t[1].id
           b == a \cup {k}
<1>1. /\ left \in Seq(TypedLine) /\ Len(left) = Len(t) - m /\ Len(t) \in Nat /\ m >= 1
      /\ \A i \in 1 .. (Len(t) - m) : left[i] = t[m + i]
  BY PieceOf
<1> HIDE DEF left
<1>2. /\ u \in Seq(TypedLine) /\ Len(u) = Len(q) + Len(t) /\ Len(q) \in Nat
      /\ \A i \in 1 .. Len(q) : u[i] = q[i]
      /\ \A i \in 1 .. Len(t) : u[Len(q) + i] = t[i]
  BY TwoParts
<1>3. /\ v \in Seq(TypedLine) /\ Len(v) = Len(q) + Len(left)
      /\ \A i \in 1 .. Len(q) : v[i] = q[i]
      /\ \A i \in 1 .. (Len(q) + Len(left)) :
           i > Len(q) => i - Len(q) \in 1 .. Len(left) /\ v[i] = left[i - Len(q)]
  BY <1>1, TwoParts
<1> HIDE DEF u, v
<1>4. \A i \in 1 .. Len(u) : u[i].id \in Nat
  BY <1>2, LineNumbers
<1>5. /\ Numbered(u, p, a, n) /\ Ordered(u, p) /\ Unanswered(u, p, a)
      /\ Len(q) + 1 \in 1 .. Len(u) /\ u[Len(q) + 1] = t[1]
  BY <1>1, <1>2 DEF u
<1>6. ASSUME NEW i \in 1 .. Len(v)
      PROVE  \/ i <= Len(q) /\ i <= Len(u) /\ v[i] = u[i]
             \/ i > Len(q) /\ i + m > Len(q) + 1 /\ i + m <= Len(u) /\ v[i] = u[i + m]
  <2>1. CASE i <= Len(q)
    <3>1. i \in 1 .. Len(q)
      BY <1>2, <2>1
    <3>2. i <= Len(u) /\ v[i] = u[i]
      BY <1>1, <1>2, <1>3, <3>1
    <3> QED BY <2>1, <3>2
  <2>2. CASE i > Len(q)
    <3>1. i - Len(q) \in 1 .. Len(left) /\ v[i] = left[i - Len(q)]
      <4>1. i \in 1 .. (Len(q) + Len(left)) /\ i > Len(q)
        BY <1>3, <2>2
      <4> QED BY <1>3, <4>1
    <3>2. m + (i - Len(q)) \in 1 .. Len(t) /\ v[i] = t[m + (i - Len(q))]
      <4> DEFINE k1 == i - Len(q)
      <4>1. k1 \in 1 .. Len(left) /\ v[i] = left[k1]
        BY <3>1
      <4> HIDE DEF k1
      <4>2. k1 \in 1 .. (Len(t) - m)
        BY <1>1, <4>1
      <4>3. m + k1 \in 1 .. Len(t) /\ left[k1] = t[m + k1]
        BY <1>1, <4>2
      <4> QED BY <4>1, <4>3 DEF k1
    <3>3. u[Len(q) + (m + (i - Len(q)))] = v[i]
      BY <1>2, <3>2
    <3>4. Len(q) + (m + (i - Len(q))) = i + m
      BY <1>1, <1>2
    <3>5. i + m > Len(q) + 1 /\ i + m <= Len(u)
      BY <1>1, <1>2, <2>2, <3>2
    <3> QED BY <2>2, <3>3, <3>4, <3>5
  <2> QED BY <1>2, <2>1, <2>2
<1>7. Thins(u, v, Len(q), m)
  <2> SUFFICES ASSUME NEW i \in 1 .. Len(v)
               PROVE  \/ i <= Len(q) /\ i <= Len(u) /\ v[i] = u[i]
                      \/ v[i] = Eof
                      \/ i > Len(q) /\ i + m > Len(q) /\ i + m <= Len(u) /\ v[i] = u[i + m]
    BY DEF Thins
  <2>1. i > Len(q) => i + m > Len(q)
    BY <1>1, <1>2
  <2> QED BY <1>6, <2>1
<1>8. Numbered(v, p, a, n) /\ Ordered(v, p) /\ Unanswered(v, p, a)
  <2>1. m \in Int
    OBVIOUS
  <2> QED BY <1>2, <1>3, <1>5, <1>7, <2>1, ThinnedKeeps
<1>9. k \in Nat /\ k # Eof.id /\ k <= n
  BY <1>4, <1>5 DEF Numbered, IsLine
<1>10. \A i \in 1 .. Len(v) : v[i].id # k
  <2> SUFFICES ASSUME NEW i \in 1 .. Len(v), IsLine(v[i]) PROVE v[i].id # k
    BY <1>9 DEF IsLine
  <2>1. CASE i <= Len(q) /\ i <= Len(u) /\ v[i] = u[i]
    <3>1. i \in 1 .. Len(u) /\ i < Len(q) + 1
      BY <1>2, <2>1
    <3>2. u[i].id < u[Len(q) + 1].id
      BY <1>5, <2>1, <3>1 DEF Ordered, Rises
    <3> QED BY <1>4, <1>5, <2>1, <3>1, <3>2
  <2>2. CASE i > Len(q) /\ i + m > Len(q) + 1 /\ i + m <= Len(u) /\ v[i] = u[i + m]
    <3>1. i + m \in 1 .. Len(u) /\ Len(q) + 1 < i + m
      BY <1>1, <1>2, <2>2
    <3>2. u[Len(q) + 1].id < u[i + m].id
      BY <1>5, <2>2, <3>1 DEF Ordered, Rises
    <3> QED BY <1>4, <1>5, <2>2, <3>1, <3>2
  <2> QED BY <1>6, <2>1, <2>2
<1>11. \A i \in 1 .. Len(p) : p[i] # k
  BY <1>5, <1>9 DEF Ordered
<1>12. Numbered(v, p, b, n) /\ Unanswered(v, p, b) /\ Kept(v, p, b, n)
  <2>1. Numbered(v, p, b, n)
    BY <1>8, <1>9 DEF Numbered
  <2>2. Unanswered(v, p, b)
    BY <1>8, <1>10, <1>11 DEF Unanswered
  <2> QED BY <2>1, <2>2 DEF Kept
<1> QED BY <1>8, <1>12 DEF v, left

(* A chunk goes over in the order it was typed.                            *)
LEMMA ReadInOrder ==
  ASSUME NEW q \in Seq(TypedLine), NEW t \in Seq(TypedLine), NEW m \in 1 .. Len(t)
  PROVE  (q \o SubSeq(t, 1, m)) \o SubSeq(t, m + 1, Len(t)) = q \o t
<1> DEFINE read == SubSeq(t, 1, m)
           left == SubSeq(t, m + 1, Len(t))
<1>1. /\ read \in Seq(TypedLine) /\ Len(read) = m /\ \A i \in 1 .. m : read[i] = t[i]
      /\ left \in Seq(TypedLine) /\ Len(left) = Len(t) - m
      /\ \A i \in 1 .. (Len(t) - m) : left[i] = t[m + i]
  BY PieceOf
<1>2. read \o left = t
  BY PieceOf
<1> HIDE DEF read, left
<1>3. (q \o read) \o left = q \o (read \o left)
  BY <1>1
<1> QED BY <1>2, <1>3 DEF read, left

LEMMA TypedBehind ==
  ASSUME NEW q \in Seq(TypedLine), NEW t \in Seq(TypedLine), NEW l \in TypedLine
  PROVE  q \o Append(t, l) = Append(q \o t, l)
OBVIOUS

LEMMA HeadFirst ==
  ASSUME NEW q \in Seq(TypedLine), NEW t \in Seq(TypedLine), q # <<>>
  PROVE  q \o t # <<>> /\ (q \o t)[1] = q[1] /\ Tail(q) \o t = Tail(q \o t)
OBVIOUS

LEMMA LinesStep ==
  ASSUME LinesInv, LineTypes, LineTypes', LineStep
  PROVE  LinesInv'
<1> DEFINE queue == input.queue
<1>0. /\ queue \in Seq(TypedLine) /\ tty \in Seq(TypedLine) /\ spent.lines \in Nat
      /\ prompted \in Seq(Nat) /\ \A i \in 1 .. Len(prompted) : prompted[i] \in Nat
      /\ Unserved = queue \o tty /\ Unserved \in Seq(TypedLine)
  BY DEF LineTypes, Unserved
<1>1. CASE TakesNothing /\ QueueStays
  <2>1. Unserved' = Unserved /\ UNCHANGED <<tty, prompted, answers>> /\ spent'.lines = spent.lines
    BY <1>1 DEF TakesNothing, QueueStays, Unserved
  <2> QED BY <2>1 DEF LinesInv, Numbered, Ordered, Rises, Unanswered, Kept
<1>2. CASE TakesNothing /\ QueueEnds
  BY <1>2, EndKeeps
<1>3. CASE Typing
  <2>1. PICK l \in TypedLine : l.id = spent.lines + 1 /\ tty' = Append(tty, l)
    BY <1>3 DEF Typing
  <2>2. UNCHANGED <<prompted, answers>> /\ spent'.lines = spent.lines + 1
        /\ Unserved' = queue \o Append(tty, l)
    BY <1>3, <2>1 DEF Typing, QueueStays, Unserved
  <2>3. Unserved' = Append(Unserved, l)
    BY <1>0, <2>2, TypedBehind
  <2> DEFINE u == Unserved
             v == Append(u, l)
             n == spent.lines + 1
  <2>4. /\ Numbered(v, prompted, answers, n) /\ Ordered(v, prompted)
        /\ Unanswered(v, prompted, answers) /\ Kept(v, prompted, answers, n)
    BY <1>0, <2>1, TypedKeeps DEF LinesInv
  <2>5. \A i \in 1 .. Len(tty') : IsLine(tty'[i])
    BY <1>0, <2>1 DEF LinesInv, IsLine, Eof
  <2> HIDE DEF u, v, n
  <2>6. Unserved' = v /\ spent'.lines = n
    BY <2>2, <2>3 DEF u, v, n
  <2> QED BY <2>2, <2>4, <2>5, <2>6 DEF LinesInv, IsLine, Numbered, Ordered, Rises, Unanswered, Kept
<1>4. CASE Reading
  <2>1. PICK m \in 1 .. Len(tty) : /\ tty' = SubSeq(tty, m + 1, Len(tty))
                                   /\ input'.queue = queue \o SubSeq(tty, 1, m)
    BY <1>4 DEF Reading
  <2>2. Unserved' = (queue \o SubSeq(tty, 1, m)) \o SubSeq(tty, m + 1, Len(tty))
    BY <2>1 DEF Unserved
  <2>3. Unserved' = Unserved
    BY <1>0, <2>2, ReadInOrder
  <2>4. UNCHANGED <<prompted, answers>> /\ spent'.lines = spent.lines
    BY <1>4 DEF Reading
  <2>5. \A i \in 1 .. Len(tty') : IsLine(tty'[i])
    BY <1>0, <2>1, PieceOf DEF LinesInv, IsLine
  <2> QED BY <2>3, <2>4, <2>5 DEF LinesInv, IsLine, Numbered, Ordered, Rises, Unanswered, Kept
<1>5. CASE Answering
  <2>1. PICK m \in 1 .. Len(tty) : /\ tty' = SubSeq(tty, m + 1, Len(tty))
                                   /\ answers' = answers \cup {tty[1].id}
    BY <1>5 DEF Answering
  <2>2. /\ prompted' = prompted /\ spent'.lines = spent.lines
        /\ Unserved' = queue \o SubSeq(tty, m + 1, Len(tty))
    BY <1>5, <2>1 DEF Answering, QueueStays, Unserved
  <2> DEFINE v == queue \o SubSeq(tty, m + 1, Len(tty))
             b == answers \cup {tty[1].id}
             n == spent.lines
  <2>3. IsLine(tty[1])
    BY <1>0, <2>1 DEF LinesInv
  <2>4. Numbered(v, prompted, b, n) /\ Ordered(v, prompted) /\ Unanswered(v, prompted, b)
        /\ Kept(v, prompted, b, n)
    BY <1>0, <2>3, AnsweredKeeps DEF LinesInv
  <2>5. \A i \in 1 .. Len(tty') : IsLine(tty'[i])
    BY <1>0, <2>1, PieceOf DEF LinesInv, IsLine
  <2> HIDE DEF v, b, n
  <2>6. Unserved' = v /\ answers' = b /\ spent'.lines = n
    BY <2>1, <2>2 DEF v, b, n
  <2> QED BY <2>2, <2>4, <2>5, <2>6 DEF LinesInv, IsLine, Numbered, Ordered, Rises, Unanswered, Kept
<1>6. CASE Prompting
  <2> DEFINE u == Unserved
             v == Tail(u)
             r == Append(prompted, u[1].id)
  <2>1. /\ queue # <<>> /\ queue[1].text # Eof.text /\ UNCHANGED <<tty, answers>>
        /\ spent'.lines = spent.lines /\ Unserved' = Tail(queue) \o tty
        /\ prompted' = Append(prompted, queue[1].id)
    BY <1>6 DEF Prompting, Unserved
  <2>2. u # <<>> /\ u[1] = queue[1] /\ Tail(queue) \o tty = v
    BY <1>0, <2>1, HeadFirst
  <2>3. IsLine(u[1])
    <3>1. 1 \in 1 .. Len(u)
      BY <1>0, <2>2
    <3> QED BY <2>1, <2>2, <3>1 DEF LinesInv, Numbered
  <2>4. Numbered(v, r, answers, spent.lines) /\ Ordered(v, r) /\ Unanswered(v, r, answers)
        /\ Kept(v, r, answers, spent.lines)
    BY <1>0, <2>2, <2>3, TakenKeeps DEF LinesInv
  <2> HIDE DEF u, v, r
  <2>5. Unserved' = v /\ prompted' = r
    BY <2>1, <2>2 DEF u, v, r
  <2>6. tty' = tty /\ answers' = answers /\ spent'.lines = spent.lines
    BY <2>1
  <2>7. \A i \in 1 .. Len(tty') : IsLine(tty'[i])
    BY <2>6 DEF LinesInv, IsLine
  <2> QED BY <2>4, <2>5, <2>6, <2>7 DEF LinesInv, IsLine, Numbered, Ordered, Rises, Unanswered, Kept
<1> QED BY <1>1, <1>2, <1>3, <1>4, <1>5, <1>6 DEF LineStep

(* Whatever is typed ahead, asked and interrupted, each line serves once   *)
(* and in its turn.                                                        *)
THEOREM LinesServeOnce == Spec => []EachLineServesOnce
<1>1. Init => LinesInv
  <2> SUFFICES ASSUME Init PROVE LinesInv
    OBVIOUS
  <2>1. /\ tty = <<>> /\ prompted = <<>> /\ answers = {} /\ input.queue = <<>> /\ spent.lines = 0
    BY DEF Init
  <2>2. Unserved = <<>>
    BY <2>1 DEF Unserved
  <2> QED BY <2>1, <2>2 DEF LinesInv, Numbered, Ordered, Rises, Unanswered, Kept
<1>2. Shape => LineTypes
  BY DEF Shape, TypeInv, LineTypes
<1>3. LinesInv /\ LineTypes => EachLineServesOnce
  <2> SUFFICES ASSUME LinesInv, LineTypes PROVE EachLineServesOnce
    OBVIOUS
  <2>1. /\ DOMAIN prompted = 1 .. Len(prompted) /\ DOMAIN input.queue = 1 .. Len(input.queue)
        /\ DOMAIN Unserved = 1 .. Len(Unserved)
    BY DEF LineTypes, Unserved
  <2>2. \A i \in 1 .. Len(input.queue) : i \in 1 .. Len(Unserved) /\ Unserved[i] = input.queue[i]
    <3> DEFINE s == input.queue
    <3>1. s \in Seq(TypedLine) /\ tty \in Seq(TypedLine) /\ Unserved = s \o tty
      BY DEF LineTypes, Unserved
    <3> HIDE DEF s
    <3>2. /\ Len(s \o tty) = Len(s) + Len(tty) /\ Len(s) \in Nat /\ Len(tty) \in Nat
          /\ \A i \in 1 .. Len(s) : (s \o tty)[i] = s[i]
      BY <3>1, TwoParts
    <3> QED BY <3>1, <3>2 DEF s
  <2>3. \A i \in 1 .. Len(input.queue) : input.queue[i].id \notin answers
    BY <2>2 DEF LinesInv, Unanswered
  <2> QED BY <2>1, <2>3 DEF LinesInv, Ordered, Rises, Unanswered, Kept, EachLineServesOnce
<1>4. Shape /\ LinesInv /\ [Next]_vars => (Shape /\ LinesInv)'
  <2> SUFFICES ASSUME Shape, LinesInv, [Next]_vars PROVE (Shape /\ LinesInv)'
    OBVIOUS
  <2>1. Shape' /\ LineStep
    BY ShapeStep
  <2>2. LineTypes /\ LineTypes'
    BY <2>1 DEF Shape, TypeInv, LineTypes
  <2> QED BY <2>1, <2>2, LinesStep
<1> QED BY <1>1, <1>2, <1>3, <1>4, ShapeInit, PTL DEF Spec
=============================================================================
