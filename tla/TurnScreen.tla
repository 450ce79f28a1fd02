----------------------------- MODULE TurnScreen -----------------------------
(***************************************************************************)
(* What the command line shows of a turn: the event renderer, a fold over  *)
(* the events of the turn as they are appended, and the rows under the     *)
(* turn's result.  The module has no state.  Wording, layout, redaction    *)
(* and what only --verbose shows are left out: a line is its label and the *)
(* call or step it is about.  What the tools returned is a parameter,      *)
(* since the log leaves it out.                                                 *)
(***************************************************************************)
EXTENDS SessionLog, SequencesExt

(* What is shown of the result of a call that was completed.               *)
ToolOutcome == [tool : {"run_command"}, failed : BOOLEAN, truncated : BOOLEAN]
         \cup [tool : {"write_file", "read_file"}, failed : {FALSE}, truncated : BOOLEAN]

(* The fields of the renderer.  "shown" is the reason of the last denial   *)
(* on the screen, "refused" the calls whose approval was denied, which     *)
(* gives their denial the same reason.                                     *)
Blank ==
  [lines |-> <<>>, step |-> 0, text |-> FALSE, calls |-> 0, flushed |-> FALSE,
   shown |-> "none", refused |-> {}, check |-> NoCall, changes |-> {},
   truncated |-> FALSE, denied |-> FALSE, limited |-> FALSE]

Show(screen, label, call) ==
  [screen EXCEPT !.lines = Append(@, [label |-> label, call |-> call, step |-> screen.step])]

(* resetStep() *)
NewStep(screen) ==
  Show([screen EXCEPT !.step = @ + 1, !.text = FALSE, !.calls = 0, !.flushed = FALSE,
                      !.shown = "none"], "STEP", NoCall)

(* flushProgress(): once a step, if there is text.  Text that repeats the   *)
(* last text shown, or only says "thinking", is left out.                  *)
FlushProgress(screen) ==
  IF screen.flushed THEN screen
  ELSE LET done == [screen EXCEPT !.flushed = TRUE, !.text = FALSE]
       IN  IF screen.text THEN Show(done, "ECHO", NoCall) ELSE done

OfModel(screen, e) ==
  CASE e.type = "model.text"      -> [screen EXCEPT !.text = TRUE]
    [] e.type = "model.tool_call" -> [screen EXCEPT !.calls = @ + 1]
    [] e.type = "model.completed" -> IF screen.calls > 0 THEN FlushProgress(screen) ELSE screen
    [] e.type = "model.failed"    -> Show(screen, "FAIL", NoCall)
    [] OTHER                      -> screen

Requested(screen, e) == Show(FlushProgress([screen EXCEPT !.shown = "none"]), "TOOL", e.call)

Refused(screen, e) ==
  Show([screen EXCEPT !.denied = TRUE, !.shown = "user", !.refused = @ \cup {e.call}],
       "DENIED", e.call)

(* Mutant: a denial is shown again although its reason has just been.      *)
DeniedAgain(screen, e) ==
  Show([screen EXCEPT !.denied = TRUE, !.shown = "policy"], "DENIED", e.call)

(* A denial whose reason is on the screen is not shown again.              *)
Denied(screen, e) ==
  LET reason == IF e.call \in screen.refused THEN "user" ELSE "policy"
      noted == [screen EXCEPT !.denied = TRUE]
  IN  IF screen.shown = reason THEN noted
      ELSE Show([noted EXCEPT !.shown = reason], "DENIED", e.call)

(* resultChunks(), renderCommand(), renderFileChange()                     *)
ShowResult(screen, call, outcome) ==
  LET shown == Show(screen, "RESULT", call)
  IN  IF outcome.truncated THEN Show([shown EXCEPT !.truncated = TRUE], "WARN", call) ELSE shown

(* renderCompleted(): a command is what the turn can show for itself, and  *)
(* changed files are counted.                                              *)
Completed(screen, e, outcome) ==
  ShowResult([screen EXCEPT
                !.check   = IF outcome.tool = "run_command" THEN e.call ELSE @,
                !.changes = IF outcome.tool = "write_file" THEN @ \cup {e.call} ELSE @],
             e.call, outcome)

OfTool(screen, e, outcomes) ==
  CASE e.type = "tool.requested"     -> Requested(screen, e)
    [] e.type = "approval.requested" -> Show(screen, "APPROVAL", e.call)
    [] e.type = "approval.granted"   -> Show(screen, "APPROVED", e.call)
    [] e.type = "approval.denied"    -> Refused(screen, e)
    [] e.type = "tool.completed"     -> Completed(screen, e, outcomes[e.call])
    [] e.type = "tool.failed"        -> Show(screen, "RESULT", e.call)
    [] e.type = "tool.denied"        -> Denied(screen, e)
    [] e.type = "tool.cancelled"     -> Show(screen, "CANCELLED", e.call)
    [] OTHER                         -> screen

(* renderEvent() *)
Rendered(screen, e, outcomes) ==
  CASE e.type = "turn.started"  -> Show(screen, "GOAL", NoCall)
    [] e.type = "step.started"  -> NewStep(screen)
    [] e.type = "limit.reached" -> Show([screen EXCEPT !.limited = TRUE], "LIMIT", NoCall)
    [] e.call = NoCall \/ e.type = "model.tool_call" -> OfModel(screen, e)
    [] OTHER                    -> OfTool(screen, e, outcomes)

Screen(events, outcomes) ==
  FoldLeft(LAMBDA screen, e : Rendered(screen, e, outcomes), Blank, events)

(* Mutant: a turn that failed shows the last good check as verified.       *)
CheckOnly(screen, completed, outcomes) ==
  IF screen.check = NoCall THEN "NOT VERIFIED"
  ELSE IF ~outcomes[screen.check].failed THEN "VERIFIED" ELSE "LAST CHECK"

(* verificationRows() *)
VerificationRow(screen, completed, outcomes) ==
  IF screen.check = NoCall THEN "NOT VERIFIED"
  ELSE IF completed /\ ~outcomes[screen.check].failed THEN "VERIFIED" ELSE "LAST CHECK"

(* renderResult(): the title by the end of the turn, then the rows.  A turn *)
(* that a limit ended is failed on file, and titled limited.               *)
Result(events, outcomes) ==
  LET screen == Screen(events, outcomes)
      end == events[Len(events)].type
  IN  [title |-> end, changes |-> screen.changes,
       check |-> VerificationRow(screen, end = "turn.completed", outcomes),
       denied |-> screen.denied, limited |-> screen.limited, truncated |-> screen.truncated]
=============================================================================
