-------------------------- MODULE ToolCallsProofs --------------------------
(***************************************************************************)
(* Nothing runs unasked, file tools stay inside, every variable keeps its  *)
(* type, and exits, patches and searches are what they are reported to be: *)
(* for any calls, any approvals, any limits and any sequence of mode       *)
(* changes, cancellations and changes by others on the file system.        *)
(***************************************************************************)
EXTENDS ToolCalls, FiniteSetTheorems, SequenceTheorems, Integers, TLAPS

Idle == {"idle", "asked"}

(* What holds of a call the policy let pass, asked or not.                 *)
Passable(c) ==
  /\ c.tool \in ReadTools \cup WriteTools \cup {CommandTool}
  /\ c.kind # "outside"
  /\ c.tool \in WriteTools => c.kind # "git"
  /\ c.tool = CommandTool => c.traits \cap HardTraits = {}

NeedsAnswer(c) == c.tool = CommandTool /\ c.traits \cap AskTraits # {}

(* A call that waits for the user was let pass; one that runs was, and was *)
(* answered for if it had to be.                                           *)
AskInv ==
  /\ at = "asked" => mode # "full-access" /\ Passable(call)
  /\ (at \notin Idle /\ mode # "full-access") =>
       /\ Passable(call)
       /\ NeedsAnswer(call) => once \/ call \in approvals

(* The policy refuses what no approval may lift, and allows what has to be *)
(* asked only if it was approved, in every mode but Full Access.           *)
LEMMA PolicyHolds ==
  ASSUME NEW m, NEW c, NEW approved \in BOOLEAN, m # "full-access",
         Evaluate(m, c, approved) # "deny"
  PROVE  /\ Passable(c)
         /\ NeedsAnswer(c) /\ Evaluate(m, c, approved) = "allow" => approved
<1>1. ~PathViolated(c.tool, c.kind)
  BY DEF Evaluate
<1>2. CASE c.tool \in ReadTools \cup WriteTools
  BY <1>1, <1>2
  DEF Passable, PathViolated, NeedsAnswer, ReadTools, WriteTools, CommandTool
<1>3. CASE c.tool \notin ReadTools \cup WriteTools
  <2>1. c.tool = CommandTool /\ Classify(c.traits) # "refused"
    BY <1>1, <1>3 DEF Evaluate
  <2>2. c.traits \cap HardTraits = {}
    BY <2>1 DEF Classify
  <2>3. Passable(c)
    BY <1>1, <1>3, <2>1, <2>2 DEF Passable, PathViolated
  <2>4. ASSUME NeedsAnswer(c), Evaluate(m, c, approved) = "allow"
        PROVE  approved
    <3>1. Classify(c.traits) = "ask"
      BY <2>1, <2>4 DEF NeedsAnswer, Classify
    <3>2. ModeDecision(m, "ask", approved) = "allow"
      BY <1>1, <1>3, <2>1, <2>4, <3>1 DEF Evaluate
    <3>3. ModeDecision(m, "ask", approved) = AskOrApproved(approved)
      BY DEF ModeDecision
    <3> QED BY <3>2, <3>3 DEF AskOrApproved
  <2> QED BY <2>3, <2>4
<1> QED BY <1>2, <1>3

-----------------------------------------------------------------------------
(* A step of a tool ends the call or goes on with the same call under the  *)
(* same mode and the same approvals.                                       *)
ToolStep ==
  /\ at \notin Idle
  /\ UNCHANGED <<mode, approvals, call>>
  /\ \/ at' = "idle"
     \/ at' # "asked" /\ once' = once

LEMMA ToolStepKeeps ==
  ASSUME AskInv, ToolStep
  PROVE  AskInv'
BY DEF AskInv, ToolStep, Idle

LEMMA FailsOrGoes ==
  ASSUME Steady, at \notin Idle,
         \/ FileToolFails
         \/ UNCHANGED <<at, result, once>>
         \/ \E place : place # "asked" /\ Goes(place)
         \/ \E how : Ended(how)
  PROVE  ToolStep
BY DEF Steady, FileToolFails, Ended, Goes, ToolStep, Idle

LEMMA FileSteps ==
  ASSUME FileStep
  PROVE  ToolStep
<1>1. CASE ResolvePatch
  BY <1>1, FailsOrGoes DEF ResolvePatch, Idle
<1>2. CASE ReadBase
  BY <1>2, FailsOrGoes DEF ReadBase, Idle
<1>3. CASE Resolve
  BY <1>3, FailsOrGoes DEF Resolve, Idle
<1>4. CASE ReadPrevious
  BY <1>4, FailsOrGoes DEF ReadPrevious, Idle
<1>5. CASE Revalidate
  BY <1>5, FailsOrGoes DEF Revalidate, Idle
<1>6. CASE Open
  BY <1>6, FailsOrGoes DEF Open, Idle
<1>7. CASE Fill
  BY <1>7, FailsOrGoes DEF Fill, Idle
<1>8. CASE ResolveRead
  <2>1. ASSUME NEW place \in {"search", "read file"}, Goes(place)
        PROVE  ToolStep
    BY <1>8, <2>1, FailsOrGoes DEF ResolveRead, Idle
  <2>2. CASE FileToolFails
    BY <1>8, <2>2, FailsOrGoes DEF ResolveRead, Idle
  <2> QED BY <1>8, <2>1, <2>2 DEF ResolveRead
<1>9. CASE ReadFile
  BY <1>9, FailsOrGoes DEF ReadFile, Reports, Idle
<1>10. CASE ReadRoot
  BY <1>10, FailsOrGoes DEF ReadRoot, Idle
<1>11. CASE ReadGit
  BY <1>11, FailsOrGoes DEF ReadGit, Idle
<1>12. CASE Visit
  BY <1>12, FailsOrGoes DEF Visit, Idle
<1>13. CASE Listed
  BY <1>13, FailsOrGoes DEF Listed, Reports, Idle
<1>14. CASE Walked
  BY <1>14, FailsOrGoes DEF Walked, Idle
<1>15. CASE SearchFile
  BY <1>15, FailsOrGoes DEF SearchFile, Idle
<1>16. CASE Searched
  BY <1>16, FailsOrGoes DEF Searched, Reports, Idle
<1>17. CASE Reported
  BY <1>17, FailsOrGoes DEF Reported, Idle
<1> QED
  BY <1>1, <1>2, <1>3, <1>4, <1>5, <1>6, <1>7, <1>8, <1>9, <1>10, <1>11,
     <1>12, <1>13, <1>14, <1>15, <1>16, <1>17 DEF FileStep

LEMMA CommandSteps ==
  ASSUME CommandStep \/ Process
  PROVE  ToolStep
<1>1. CASE \E fields : Change(fields)
  BY <1>1 DEF Change, Running, CommandSteady, ToolStep, Idle
<1>2. CASE Spawn
  BY <1>2 DEF Spawn, Ended, CommandSteady, ToolStep, Idle
<1>3. CASE Answer
  BY <1>3 DEF Answer, Running, Ended, CommandSteady, ToolStep, Idle
<1>4. CASE Process
  BY <1>1, <1>4 DEF Process
<1>5. CASE TimeLimit \/ AbortHeard
  BY <1>1, <1>5 DEF TimeLimit, AbortHeard, Tell
<1>6. CASE KillEnds
  BY <1>1, <1>6 DEF KillEnds
<1>7. CASE Close \/ Fallback
  BY <1>1, <1>7 DEF Close, Fallback
<1> QED BY <1>2, <1>3, <1>4, <1>5, <1>6, <1>7 DEF CommandStep

-----------------------------------------------------------------------------
LEMMA AskKeeps ==
  ASSUME AskInv, Ask
  PROVE  AskInv'
<1>1. PICK c \in Call :
        LET decision == Evaluate(mode, c, Key(c) \in approvals) IN
        /\ call' = c
        /\ at' = CASE decision = "deny" -> "idle"
                   [] decision = "ask" -> "asked"
                   [] decision = "allow" -> FirstStep(c)
  BY DEF Ask
<1> DEFINE decision == Evaluate(mode, c, c \in approvals)
<1>2. /\ call' = c /\ mode' = mode /\ approvals' = approvals /\ once' = once
      /\ at' = CASE decision = "deny" -> "idle"
                 [] decision = "ask" -> "asked"
                 [] decision = "allow" -> FirstStep(c)
  BY <1>1 DEF Ask, session, Key
<1>3. decision \in {"deny", "ask", "allow"}
  <2>1. ModeDecision(mode, Classify(c.traits), c \in approvals) \in {"ask", "allow"}
    BY DEF ModeDecision, AskOrApproved
  <2> QED BY <2>1 DEF Evaluate, AskOrApproved
<1>4. mode = "full-access" => decision = "allow"
  BY DEF Evaluate
<1>5. decision # "deny" /\ mode # "full-access" =>
        Passable(c) /\ (NeedsAnswer(c) /\ decision = "allow" => c \in approvals)
  <2>1. \A approved \in BOOLEAN :
          mode # "full-access" /\ Evaluate(mode, c, approved) # "deny" =>
            Passable(c) /\ (NeedsAnswer(c) /\ Evaluate(mode, c, approved) = "allow" => approved)
    BY PolicyHolds
  <2>2. (c \in approvals) \in BOOLEAN
    OBVIOUS
  <2> QED BY <2>1, <2>2, Zenon
<1>6. FirstStep(c) \notin Idle
  BY DEF FirstStep, Idle
<1> HIDE DEF decision
<1>7. CASE decision = "deny"
  <2>1. at' = "idle"
    BY <1>2, <1>7
  <2> QED BY <2>1 DEF AskInv, Idle
<1>8. CASE decision = "ask"
  <2>1. at' = "asked"
    BY <1>2, <1>8
  <2> QED BY <1>2, <1>4, <1>5, <1>8, <2>1 DEF AskInv, Idle
<1>9. CASE decision = "allow"
  <2>1. at' = FirstStep(c)
    BY <1>2, <1>9
  <2> QED BY <1>2, <1>5, <1>6, <1>9, <2>1 DEF AskInv, Idle
<1> QED BY <1>3, <1>7, <1>8, <1>9

LEMMA AskInvStep ==
  ASSUME AskInv, [Next]_vars
  PROVE  AskInv'
<1>1. CASE UNCHANGED vars
  BY <1>1 DEF vars, session, AskInv
<1>2. CASE Ask
  BY <1>2, AskKeeps
<1>3. CASE Approve
  <2>1. /\ mode' = mode /\ call' = call /\ at = "asked"
        /\ \/ once' = TRUE /\ at' = FirstStep(call)
           \/ at' = "idle"
    BY <1>3 DEF Approve, Ended
  <2>2. FirstStep(call) \notin Idle
    BY DEF FirstStep, Idle
  <2> QED BY <2>1, <2>2 DEF AskInv, Idle
<1>4. CASE ChangeMode
  BY <1>4 DEF ChangeMode, AskInv, Idle
<1>5. CASE Cancel
  <2>1. /\ mode' = mode /\ call' = call /\ approvals' = approvals
        /\ at' = "idle" \/ (at' = at /\ once' = once)
    BY <1>5 DEF Cancel, Ended
  <2> QED BY <2>1 DEF AskInv, Idle
<1>6. CASE ExtensionTool
  BY <1>6, ToolStepKeeps DEF ExtensionTool, Ended, ToolStep, Idle
<1>7. CASE FileStep \/ CommandStep \/ Process
  BY <1>7, FileSteps, CommandSteps, ToolStepKeeps
<1>8. CASE Meddle
  BY <1>8 DEF Meddle, session, AskInv
<1> QED BY <1>1, <1>2, <1>3, <1>4, <1>5, <1>6, <1>7, <1>8 DEF Next

(* Outside Full Access nothing runs that the policy refuses outright, and  *)
(* nothing that has to be asked without the user's approval.               *)
THEOREM NothingUnasked == Spec => []NothingRunsUnasked
<1>1. Init => AskInv
  BY DEF Init, AskInv, Idle
<1>2. AskInv => NothingRunsUnasked
  BY DEF AskInv, NothingRunsUnasked, Passable, NeedsAnswer, Idle
<1>3. AskInv /\ [Next]_vars => AskInv'
  BY AskInvStep
<1> QED BY <1>1, <1>2, <1>3, PTL DEF Spec

-----------------------------------------------------------------------------
(* File tools stay inside: what a tool holds is a real place it may use,   *)
(* as long as no link was changed since it looked.                         *)

(* A place that is no link, among those a tool may use.                    *)
Settled(p, places) == p \in places /\ alias[p] = p

Readable == Inside \cup InGit

(* The shape of what a tool holds, as far as places go.                    *)
WorkShape ==
  /\ work = [f \in DOMAIN NoWork |-> work[f]]
  /\ work.files \in Seq(Place)
  /\ at = "search" => work.todo \in Seq(Place)
  /\ at \in {"idle", "asked", "read root", "read git"} => work.files = <<>>

(* The places a tool is about to use, unless links were changed.           *)
Held ==
  ~relinked =>
    /\ at \in {"read base", "read", "revalidate", "write"} => Settled(work.place, Inside)
    /\ at = "read file" => Settled(work.place, Readable)
    /\ at = "walk" => \A i \in DOMAIN work.files : Settled(work.files[i], Readable)
    /\ at = "search" => \A i \in DOMAIN work.todo : Settled(work.todo[i], Readable)

StayInv ==
  /\ alias \in [Place -> Place \cup {Nowhere}]
  /\ WorkShape
  /\ Held
  /\ strays = {}

(* Where links end there is no link.                                       *)
LEMMA RealEnds ==
  ASSUME NEW p
  PROVE  Real(p) = Nowhere \/ (Real(p) \in Place /\ alias[Real(p)] = Real(p))
BY DEF Real

(* The name of a place that is no link leads to it, and nowhere else.      *)
LEMMA SettledIsReal ==
  ASSUME NEW p \in Place, alias[p] = p
  PROVE  Real(p) = p
<1> DEFINE ends == {q \in Place : alias[q] = q /\ LeadsTo(p, q)}
<1>1. p \in ends
  BY DEF LeadsTo
<1>2. ASSUME NEW q \in ends PROVE q = p
  <2>1. {alias[n] : n \in {p}} \subseteq {p} \cup {Nowhere}
    OBVIOUS
  <2>2. {p} \in SUBSET Place
    OBVIOUS
  <2>3. LeadsTo(p, q)
    OBVIOUS
  <2>4. q \in {p}
    BY <2>1, <2>2, <2>3 DEF LeadsTo
  <2> QED BY <2>4
<1>3. p # Nowhere
  BY ToolAssumption
<1>4. ends = {p}
  BY <1>1, <1>2
<1>5. Real(p) = CHOOSE q \in ends : TRUE
  BY <1>3, <1>4 DEF Real
<1> HIDE DEF ends
<1> QED BY <1>4, <1>5

(* What resolveWorkspacePath() lets through.                               *)
LEMMA AllowedIsSettled ==
  ASSUME NEW c, NEW write, NEW must, Resolved(c, write, must)
  PROVE  /\ Real(c.place) \in Place /\ Settled(Real(c.place), Readable)
         /\ write => Settled(Real(c.place), Inside)
<1>1. Real(c.place) \in Readable /\ (write => Real(c.place) \notin InGit)
  BY DEF Resolved, Allowed, Readable
<1>2. Real(c.place) # Nowhere
  BY <1>1, ToolAssumption DEF Readable, Place
<1> QED BY <1>1, <1>2, RealEnds DEF Settled, Readable

(* A tool that uses such a place gets nowhere else.                        *)
LEMMA NothingReached ==
  ASSUME StayInv, NEW p, NEW write \in BOOLEAN, Reaches(p, write),
         ~relinked => Settled(p, IF write THEN Inside ELSE Readable)
  PROVE  strays' = {}
<1>1. CASE relinked
  BY <1>1 DEF Reaches, StayInv
<1>2. CASE ~relinked
  <2>1. p \in Place /\ Real(p) = p
    BY <1>2, SettledIsReal DEF Settled, Readable, Place
  <2>2. p \notin (IF write THEN InGit \cup Outside ELSE Outside)
    BY <1>2, ToolAssumption DEF Settled, Readable
  <2> QED BY <2>1, <2>2 DEF Reaches, StayInv
<1> QED BY <1>1, <1>2

(* A call that ends holds nothing.                                         *)
LEMMA EndStays ==
  ASSUME StayInv, at' \in {"idle", "asked"}, work' = NoWork, UNCHANGED <<alias, strays>>
  PROVE  StayInv'
<1>1. /\ NoWork.files = <<>> /\ <<>> \in Seq(Place)
      /\ NoWork = [f \in DOMAIN NoWork |-> NoWork[f]]
  BY DEF NoWork
<1> QED BY <1>1 DEF StayInv, WorkShape, Held, Settled

LEMMA FailStays ==
  ASSUME StayInv, FileToolFails, Steady
  PROVE  StayInv'
BY EndStays DEF FileToolFails, Ended, Steady

(* A step that changes none of what is looked at here, and does not begin  *)
(* to use anything.                                                        *)
Uses == {"read base", "read", "revalidate", "write", "read file", "walk", "search",
         "idle", "asked", "read root", "read git"}

LEMMA QuietStays ==
  ASSUME StayInv, UNCHANGED <<alias, work, relinked, strays>>,
         \/ at' = at \/ at' \notin Uses
         \/ at \in {"idle", "asked"} /\ at' \in {"idle", "asked", "read root"}
  PROVE  StayInv'
BY DEF StayInv, WorkShape, Held, Uses, Settled

(* Patches and writes: every use comes after a look that found the place.  *)
LEMMA WriteStays ==
  ASSUME StayInv,
         ResolvePatch \/ ReadBase \/ Resolve \/ ReadPrevious \/ Revalidate \/ Open \/ Fill
  PROVE  StayInv'
<1> USE DEF StayInv
<1>0. CASE FileToolFails /\ Steady
  BY <1>0, FailStays
<1>1. CASE ResolvePatch /\ ~FileToolFails
  <2>1. /\ Resolved(call, TRUE, TRUE) /\ work' = [work EXCEPT !.place = Real(call.place)]
        /\ at' = "read base" /\ UNCHANGED <<strays, alias>>
    BY <1>1 DEF ResolvePatch, Goes, Steady
  <2>2. Settled(Real(call.place), Inside)
    BY <2>1, AllowedIsSettled
  <2>3. /\ work'.place = Real(call.place) /\ work'.files = work.files
        /\ work' = [f \in DOMAIN NoWork |-> work'[f]]
    BY <2>1 DEF WorkShape, NoWork
  <2> QED BY <2>1, <2>2, <2>3 DEF WorkShape, Held, Settled
<1>2. CASE ReadBase /\ ~FileToolFails
  <2>1. PICK x, y : work' = [work EXCEPT !.base = x, !.text = y]
    BY <1>2 DEF ReadBase
  <2>2. /\ at = "read base" /\ at' = "resolve" /\ UNCHANGED <<alias, relinked>>
        /\ Reaches(work.place, TRUE)
    BY <1>2 DEF ReadBase, Goes, Steady
  <2>3. strays' = {}
    BY <2>2, NothingReached DEF Held
  <2>4. /\ work'.files = work.files /\ work' = [f \in DOMAIN NoWork |-> work'[f]]
    BY <2>1 DEF WorkShape, NoWork
  <2> QED BY <2>2, <2>3, <2>4 DEF WorkShape, Held
<1>3. CASE Resolve /\ ~FileToolFails
  <2>1. /\ Resolved(call, TRUE, FALSE)
        /\ at' = "read" /\ UNCHANGED <<strays, alias>>
    BY <1>3 DEF Resolve, Goes, Steady
  <2>2. PICK x, y : work' = [work EXCEPT !.place = Real(call.place), !.exists = x, !.text = y]
    <3>1. work' = [work EXCEPT !.place = Real(call.place),
                               !.exists = content[Real(call.place)] # Absent,
                               !.text = IF call.tool = "write_file" THEN call.text ELSE @]
      BY <1>3 DEF Resolve
    <3>2. PICK y : y = IF call.tool = "write_file" THEN call.text ELSE work.text
      OBVIOUS
    <3> QED BY <3>1, <3>2
  <2>3. Settled(Real(call.place), Inside)
    BY <2>1, AllowedIsSettled
  <2>4. /\ work'.place = Real(call.place) /\ work'.files = work.files
        /\ work' = [f \in DOMAIN NoWork |-> work'[f]]
    BY <2>2 DEF WorkShape, NoWork
  <2> QED BY <2>1, <2>3, <2>4 DEF WorkShape, Held, Settled
<1>4. CASE ReadPrevious /\ ~FileToolFails
  <2>1. /\ at = "read" /\ at' = "revalidate" /\ UNCHANGED <<alias, relinked, work>>
        /\ Reaches(work.place, TRUE) \/ UNCHANGED strays
    BY <1>4 DEF ReadPrevious, Goes, Steady
  <2>2. strays' = {}
    BY <2>1, NothingReached DEF Held
  <2> QED BY <2>1, <2>2 DEF WorkShape, Held, Settled
<1>5. CASE Revalidate /\ ~FileToolFails
  <2>1. /\ Resolved(call, TRUE, work.exists) /\ Real(call.place) = work.place
        /\ at' = "write" /\ UNCHANGED <<strays, alias, work>>
    BY <1>5 DEF Revalidate, Goes, Steady
  <2>2. Settled(work.place, Inside)
    BY <2>1, AllowedIsSettled
  <2> QED BY <2>1, <2>2 DEF WorkShape, Held, Settled
<1>6. CASE Open /\ ~FileToolFails
  <2>1. /\ at = "write" /\ at' = "writing" /\ UNCHANGED <<alias, relinked>>
        /\ work' = [work EXCEPT !.place = Real(work.place)]
        /\ Reaches(work.place, TRUE)
    BY <1>6 DEF Open, Goes, Steady
  <2>2. strays' = {}
    BY <2>1, NothingReached DEF Held
  <2>3. work'.files = work.files /\ work' = [f \in DOMAIN NoWork |-> work'[f]]
    BY <2>1 DEF WorkShape, NoWork
  <2> QED BY <2>1, <2>2, <2>3 DEF WorkShape, Held
<1>7. CASE Fill /\ ~FileToolFails
  BY <1>7, EndStays DEF Fill, Ended, Steady
<1> QED BY <1>0, <1>1, <1>2, <1>3, <1>4, <1>5, <1>6, <1>7
        DEF ResolvePatch, ReadBase, Resolve, ReadPrevious, Revalidate, Open, Fill

(* What is reported is nothing to use.                                     *)
LEMMA ReportStays ==
  ASSUME StayInv, NEW records, NEW most, Reports(records, most), Steady,
         strays' = {}, at \notin {"idle", "asked"}
  PROVE  StayInv'
<1>1. PICK x, y : work' = [work EXCEPT !.found = x, !.omitted = y, !.todo = <<>>]
  BY DEF Reports
<1>2. at' = "report" /\ UNCHANGED alias
  BY DEF Reports, Goes, Steady
<1>3. work'.files = work.files /\ work' = [f \in DOMAIN NoWork |-> work'[f]]
  BY <1>1 DEF StayInv, WorkShape, NoWork
<1> QED BY <1>2, <1>3 DEF StayInv, WorkShape, Held

(* Reads, listings and searches: the walk keeps the real places of the     *)
(* files it found, and no links.                                           *)
LEMMA ReadStays ==
  ASSUME StayInv,
         \/ ResolveRead \/ ReadFile \/ ReadRoot \/ ReadGit \/ Visit \/ Listed
         \/ Walked \/ SearchFile \/ Searched \/ Reported
  PROVE  StayInv'
<1> USE DEF StayInv
<1>0. CASE FileToolFails /\ Steady
  BY <1>0, FailStays
<1>1. CASE ResolveRead /\ ~FileToolFails
  <2> DEFINE here == Real(call.place)
  <2>1. /\ Resolved(call, FALSE, TRUE) /\ at' \in {"search", "read file"}
        /\ UNCHANGED <<strays, alias>>
        /\ work' = [work EXCEPT !.place = here, !.files = <<here>>, !.todo = <<here>>]
    BY <1>1 DEF ResolveRead, Goes, Steady
  <2>2. here \in Place /\ Settled(here, Readable)
    BY <2>1, AllowedIsSettled
  <2>3. /\ work'.place = here /\ work'.files = <<here>> /\ work'.todo = <<here>>
        /\ work' = [f \in DOMAIN NoWork |-> work'[f]]
    BY <2>1 DEF WorkShape, NoWork
  <2> HIDE DEF here
  <2>4. <<here>> \in Seq(Place) /\ DOMAIN <<here>> = {1} /\ <<here>>[1] = here
    BY <2>2
  <2>5. WorkShape'
    BY <2>1, <2>3, <2>4 DEF WorkShape
  <2>6. here \in Readable /\ alias'[here] = here
    BY <2>1, <2>2 DEF Settled
  <2>7. Held'
    <3>1. at' \notin {"read base", "read", "revalidate", "write", "walk"}
      BY <2>1
    <3>2. \A i \in DOMAIN work'.todo : work'.todo[i] = here
      BY <2>3, <2>4
    <3> QED BY <2>3, <2>6, <3>1, <3>2 DEF Held, Settled, Readable
  <2> QED BY <2>1, <2>5, <2>7
<1>2. CASE ReadFile /\ ~FileToolFails
  <2>1. /\ at = "read file" /\ Reaches(work.place, FALSE) /\ Steady
        /\ \E records, most : Reports(records, most)
    BY <1>2 DEF ReadFile
  <2>2. strays' = {}
    BY <2>1, NothingReached DEF Held
  <2> QED BY <2>1, <2>2, ReportStays
<1>3. CASE ReadRoot /\ ~FileToolFails
  <2>1. /\ at = "read root" /\ at' = "read git" /\ UNCHANGED <<strays, alias>>
        /\ work' = [work EXCEPT !.todo = Names(Inside)]
    BY <1>3 DEF ReadRoot, Goes, Steady
  <2>2. work'.files = work.files /\ work' = [f \in DOMAIN NoWork |-> work'[f]]
    BY <2>1 DEF WorkShape, NoWork
  <2> QED BY <2>1, <2>2 DEF WorkShape, Held
<1>4. CASE ReadGit /\ ~FileToolFails
  <2>1. /\ at = "read git" /\ at' = "walk" /\ UNCHANGED <<strays, alias>>
        /\ \E x : work' = [work EXCEPT !.todo = x, !.visited = 1]
    BY <1>4 DEF ReadGit, Goes, Steady
  <2>2. work'.files = work.files /\ work' = [f \in DOMAIN NoWork |-> work'[f]]
    BY <2>1 DEF WorkShape, NoWork
  <2>3. work'.files = <<>> /\ \A i \in DOMAIN work'.files : FALSE
    <3>1. work'.files = <<>>
      BY <2>1, <2>2 DEF WorkShape
    <3>2. \A i \in DOMAIN <<>> : FALSE
      OBVIOUS
    <3> QED BY <3>1, <3>2
  <2> QED BY <2>1, <2>2, <2>3 DEF WorkShape, Held
<1>5. CASE Visit /\ ~FileToolFails
  <2> DEFINE child == Head(work.todo)
             files == IF child.link THEN work.files ELSE Append(work.files, Real(child.name))
  <2>1. /\ at = "walk" /\ at' = at /\ UNCHANGED <<strays, alias, relinked>>
        /\ Real(child.name) \in Readable
        /\ \E x, y, z :
             work' = [work EXCEPT !.todo = x, !.visited = y, !.found = z, !.files = files]
    BY <1>5 DEF Visit, Steady, Readable
  <2>2. work'.files = files /\ work' = [f \in DOMAIN NoWork |-> work'[f]]
    BY <2>1 DEF WorkShape, NoWork
  <2>3. Real(child.name) \in Place /\ Settled(Real(child.name), Readable)
    <3>1. Real(child.name) # Nowhere
      BY <2>1, ToolAssumption DEF Readable, Place
    <3> QED BY <2>1, <3>1, RealEnds DEF Settled
  <2>4. /\ files \in Seq(Place)
        /\ \A i \in DOMAIN files : files[i] = Real(child.name)
                                     \/ (i \in DOMAIN work.files /\ files[i] = work.files[i])
    <3>1. PICK p \in Place : p = Real(child.name)
      BY <2>3
    <3>2. work.files \in Seq(Place)
      BY DEF WorkShape
    <3>3. /\ Append(work.files, p) \in Seq(Place)
          /\ \A i \in DOMAIN Append(work.files, p) :
               Append(work.files, p)[i] = p
                 \/ (i \in DOMAIN work.files /\ Append(work.files, p)[i] = work.files[i])
      BY <3>2
    <3> QED BY <3>1, <3>2, <3>3
  <2> HIDE DEF files, child
  <2> QED BY <2>1, <2>2, <2>3, <2>4 DEF WorkShape, Held, Settled
<1>6. CASE Listed
  <2>1. /\ at = "walk" /\ Steady /\ strays' = {} /\ \E records, most : Reports(records, most)
    BY <1>6 DEF Listed, history
  <2> QED BY <2>1, ReportStays
<1>7. CASE Walked
  <2>1. /\ at = "walk" /\ at' = "search" /\ UNCHANGED <<strays, alias, relinked>>
        /\ work' = [work EXCEPT !.todo = work.files, !.found = <<>>]
    BY <1>7 DEF Walked, Goes, Steady, history
  <2>2. /\ work'.files = work.files /\ work'.todo = work.files
        /\ work' = [f \in DOMAIN NoWork |-> work'[f]]
    BY <2>1 DEF WorkShape, NoWork
  <2> QED BY <2>1, <2>2 DEF WorkShape, Held, Settled
<1>8. CASE SearchFile /\ ~FileToolFails
  <2> DEFINE file == Head(work.todo)
  <2>1. /\ at = "search" /\ at' = at /\ UNCHANGED <<alias, relinked>>
        /\ work.todo # <<>> /\ Reaches(file, FALSE)
        /\ \E x : work' = [work EXCEPT !.todo = Tail(work.todo), !.found = x]
    BY <1>8 DEF SearchFile, Steady
  <2>2. /\ work.todo \in Seq(Place) /\ 1 \in DOMAIN work.todo /\ file = work.todo[1]
        /\ Tail(work.todo) \in Seq(Place)
        /\ \A i \in DOMAIN Tail(work.todo) :
             i + 1 \in DOMAIN work.todo /\ Tail(work.todo)[i] = work.todo[i + 1]
    BY <2>1 DEF WorkShape
  <2>3. ~relinked => Settled(file, Readable)
    BY <2>1, <2>2 DEF Held
  <2> HIDE DEF file
  <2>4. strays' = {}
    BY <2>1, <2>3, NothingReached
  <2>5. /\ work'.files = work.files /\ work'.todo = Tail(work.todo)
        /\ work' = [f \in DOMAIN NoWork |-> work'[f]]
    BY <2>1 DEF WorkShape, NoWork
  <2>6. WorkShape'
    BY <2>1, <2>2, <2>5 DEF WorkShape
  <2>7. ASSUME ~relinked, NEW i \in DOMAIN work'.todo PROVE Settled(work'.todo[i], Readable)
    <3>1. i + 1 \in DOMAIN work.todo /\ work'.todo[i] = work.todo[i + 1]
      BY <2>2, <2>5, <2>7
    <3> QED BY <2>1, <2>7, <3>1 DEF Held
  <2>8. Held'
    BY <2>1, <2>7 DEF Held, Settled
  <2> QED BY <2>1, <2>4, <2>6, <2>8
<1>9. CASE Searched
  <2>1. /\ at = "search" /\ Steady /\ strays' = {} /\ \E records, most : Reports(records, most)
    BY <1>9 DEF Searched, history
  <2> QED BY <2>1, ReportStays
<1>10. CASE Reported
  BY <1>10, EndStays DEF Reported, Ended, Steady
<1> QED BY <1>0, <1>1, <1>2, <1>3, <1>4, <1>5, <1>6, <1>7, <1>8, <1>9, <1>10
        DEF ResolveRead, ReadFile, ReadRoot, ReadGit, Visit, SearchFile

(* What the policy decides.                                                *)
LEMMA DecisionKinds ==
  ASSUME NEW m, NEW c, NEW approved \in BOOLEAN
  PROVE  Evaluate(m, c, approved) \in {"deny", "ask", "allow"}
<1>1. ModeDecision(m, Classify(c.traits), approved) \in {"ask", "allow"}
  BY DEF ModeDecision, AskOrApproved
<1> QED BY <1>1 DEF Evaluate, AskOrApproved

(* The other steps use nothing; who changes a link says so.                *)
LEMMA StayStep ==
  ASSUME StayInv, [Next]_vars
  PROVE  StayInv'
<1> USE DEF disk, history, session
<1>1. CASE FileStep
  BY <1>1, WriteStays, ReadStays DEF FileStep
<1>2. CASE Ask
  <2>1. UNCHANGED <<alias, work, relinked, strays>> /\ at = "idle"
    BY <1>2 DEF Ask
  <2>2. at' \notin Uses \/ at' \in {"idle", "asked", "read root"}
    <3>1. PICK c \in Call :
            LET decision == Evaluate(mode, c, Key(c) \in approvals) IN
            at' = CASE decision = "deny" -> "idle"
                    [] decision = "ask" -> "asked"
                    [] decision = "allow" -> FirstStep(c)
      BY <1>2 DEF Ask
    <3>2. FirstStep(c) \notin Uses \/ FirstStep(c) = "read root"
      BY DEF FirstStep, Uses
    <3>3. Evaluate(mode, c, Key(c) \in approvals) \in {"deny", "ask", "allow"}
      <4>1. \A approved \in BOOLEAN : Evaluate(mode, c, approved) \in {"deny", "ask", "allow"}
        BY DecisionKinds
      <4>2. (Key(c) \in approvals) \in BOOLEAN
        OBVIOUS
      <4> QED BY <4>1, <4>2, Zenon
    <3> QED BY <3>1, <3>2, <3>3
  <2> QED BY <2>1, <2>2, QuietStays
<1>3. CASE Approve
  <2>1. UNCHANGED <<alias, relinked, strays>> /\ at = "asked"
    BY <1>3 DEF Approve
  <2>2. CASE Ended("refused")
    BY <2>1, <2>2, EndStays DEF Ended
  <2>3. CASE ~Ended("refused")
    <3>1. work' = work /\ at' = FirstStep(call)
      BY <1>3, <2>3 DEF Approve
    <3>2. at' \notin Uses \/ at' \in {"idle", "asked", "read root"}
      BY <3>1 DEF FirstStep, Uses
    <3> QED BY <2>1, <3>1, <3>2, QuietStays
  <2> QED BY <2>2, <2>3
<1>4. CASE ChangeMode
  BY <1>4, QuietStays DEF ChangeMode
<1>5. CASE Cancel
  <2>1. UNCHANGED <<alias, relinked, strays>> /\ (Ended("cancelled") \/ UNCHANGED <<at, work>>)
    BY <1>5 DEF Cancel
  <2> QED BY <2>1, EndStays, QuietStays DEF Ended
<1>6. CASE ExtensionTool
  BY <1>6, EndStays DEF ExtensionTool, Ended
<1>7. CASE Meddle
  <2>1. /\ UNCHANGED <<at, work, strays>>
        /\ relinked' = TRUE \/ UNCHANGED <<alias, relinked>>
        /\ \/ UNCHANGED alias
           \/ \E p \in Inside : \E q \in Place \cup {Nowhere} : alias' = [alias EXCEPT ![p] = q]
    BY <1>7 DEF Meddle
  <2>2. alias' \in [Place -> Place \cup {Nowhere}]
    BY <2>1 DEF StayInv, Place
  <2>3. WorkShape'
    BY <2>1 DEF StayInv, WorkShape
  <2>4. Held'
    <3>1. CASE relinked' = TRUE
      BY <3>1 DEF Held
    <3>2. CASE UNCHANGED <<alias, relinked>>
      BY <2>1, <3>2 DEF StayInv, Held, Settled
    <3> QED BY <2>1, <3>1, <3>2
  <2> QED BY <2>1, <2>2, <2>3, <2>4 DEF StayInv
<1>8. CASE CommandStep \/ Process
  <2>1. UNCHANGED <<alias, relinked, strays>> /\ ((work' = NoWork /\ at' = "idle") \/ UNCHANGED work)
    BY <1>8 DEF CommandStep, Process, Spawn, TimeLimit, AbortHeard, KillEnds, Close, Fallback,
           Answer, Tell, Change, Ended, CommandSteady
  <2>2. at' \in {at, "idle", "command"}
    BY <1>8 DEF CommandStep, Process, Spawn, TimeLimit, AbortHeard, KillEnds, Close, Fallback,
           Answer, Tell, Change, Ended, CommandSteady
  <2>3. at' = "idle" => work' = NoWork \/ at = "idle"
    BY <1>8 DEF CommandStep, Process, Spawn, TimeLimit, AbortHeard, KillEnds, Close, Fallback,
           Answer, Tell, Change, Ended, CommandSteady
  <2> QED BY <2>1, <2>2, <2>3, EndStays, QuietStays DEF Uses
<1>9. CASE UNCHANGED vars
  BY <1>9, QuietStays DEF vars
<1> QED BY <1>1, <1>2, <1>3, <1>4, <1>5, <1>6, <1>7, <1>8, <1>9 DEF Next

(* As long as nobody changes a link between the moment a tool resolved its *)
(* path and the moment it uses it, file tools stay where they may be.      *)
THEOREM ToolsInside == Spec => []ToolsStayInside
<1>1. Init => StayInv
  BY DEF Init, StayInv, WorkShape, Held, NoWork
<1>2. StayInv => ToolsStayInside
  BY DEF StayInv, ToolsStayInside
<1> QED BY <1>1, <1>2, StayStep, PTL DEF Spec
-----------------------------------------------------------------------------
(* What a call reports: exits and patches.                                 *)

(* A process nobody told to stop is not being killed and has no second     *)
(* clock; its call is over when nothing of it is left.                     *)
ProcessInv ==
  /\ process = [f \in DOMAIN NoProcess |-> process[f]]
  /\ process.told \in {"no", "timeout", "cancelled"}
  /\ process.told = "no" =>
       /\ ~process.fallback /\ process.kill = "none"
       /\ process.finishing => ~process.main /\ ~process.others
  /\ ExitIsReal

(* From the second reading on, the file has the text of the patch's base,  *)
(* or is as absent as the base is, unless it was changed.                  *)
PatchInv ==
  (call.tool = "apply_patch" /\ ~edited) =>
    /\ at = "revalidate" => work.base = IF work.exists THEN At(work.place) ELSE Absent
    /\ at = "write" => content[Real(work.place)] = work.base

(* A step of a call other than the end of a command.                       *)
LEMMA ProcessKept ==
  ASSUME ProcessInv, process' = process,
         \/ UNCHANGED <<at, result>>
         \/ at' # "idle"
         \/ result' # "exited"
  PROVE  ProcessInv'
BY DEF ProcessInv, ExitIsReal

LEMMA CommandKept ==
  ASSUME ProcessInv, CommandStep \/ Process
  PROVE  ProcessInv'
<1>1. CASE Spawn
  <2>1. CASE process' = process
    BY <1>1, <2>1, ProcessKept DEF Spawn, Ended
  <2>2. CASE process' # process
    <3>1. process' = [NoProcess EXCEPT !.main = TRUE] /\ at' = "command"
      BY <1>1, <2>2 DEF Spawn
    <3>2. /\ process' = [f \in DOMAIN NoProcess |-> process'[f]]
          /\ process'.told = "no" /\ process'.kill = "none"
          /\ ~process'.fallback /\ ~process'.finishing
      BY <3>1 DEF NoProcess
    <3> QED BY <3>1, <3>2 DEF ProcessInv, ExitIsReal
  <2> QED BY <2>1, <2>2
<1>2. CASE Answer
  <2>1. /\ process' = process /\ process.finishing
        /\ result' = IF process.told = "no" THEN "exited" ELSE process.told
    BY <1>2 DEF Answer, Ended
  <2>2. CASE process.told = "no"
    BY <2>1, <2>2 DEF ProcessInv, ExitIsReal
  <2>3. CASE process.told # "no"
    BY <2>1, <2>3, ProcessKept DEF ProcessInv
  <2> QED BY <2>2, <2>3
<1>3. ASSUME NEW fields, Change(fields),
             fields = [f \in DOMAIN NoProcess |-> fields[f]],
             fields.told \in {"no", "timeout", "cancelled"},
             fields.told = "no" =>
               /\ ~fields.fallback /\ fields.kill = "none"
               /\ fields.finishing => ~fields.main /\ ~fields.others
      PROVE  ProcessInv'
  BY <1>3 DEF Change, Running, ProcessInv, ExitIsReal
<1>4. CASE Process
  <2>1. ASSUME process.main, Change([process EXCEPT !.others = TRUE]) PROVE ProcessInv'
    BY <1>3, <2>1 DEF ProcessInv, NoProcess
  <2>2. ASSUME Change([process EXCEPT !.main = FALSE]) PROVE ProcessInv'
    BY <1>3, <2>2 DEF ProcessInv, NoProcess
  <2>3. ASSUME Change([process EXCEPT !.others = FALSE]) PROVE ProcessInv'
    BY <1>3, <2>3 DEF ProcessInv, NoProcess
  <2> QED BY <1>4, <2>1, <2>2, <2>3 DEF Process
<1>5. CASE TimeLimit \/ AbortHeard
  <2>1. PICK reason \in {"timeout", "cancelled"} :
          Change([process EXCEPT !.told = reason, !.kill = "running", !.fallback = TRUE])
    BY <1>5 DEF TimeLimit, AbortHeard, Tell
  <2> QED BY <1>3, <2>1 DEF ProcessInv, NoProcess
<1>6. CASE KillEnds
  <2>1. PICK others, how, main :
          Change([process EXCEPT !.kill = how, !.others = others, !.main = main])
    <3>1. PICK others, how :
            Change([process EXCEPT !.kill = how, !.others = others,
                                   !.main = IF how = "ok" \/ ~process.finishing THEN FALSE ELSE @])
      BY <1>6 DEF KillEnds
    <3>2. PICK main : main = IF how = "ok" \/ ~process.finishing THEN FALSE ELSE process.main
      OBVIOUS
    <3> QED BY <3>1, <3>2
  <2>2. process.kill = "running"
    BY <1>6 DEF KillEnds
  <2> QED BY <1>3, <2>1, <2>2 DEF ProcessInv, NoProcess
<1>7. CASE Close
  <2>1. /\ ~process.main /\ ~process.others
        /\ Change([process EXCEPT !.finishing = TRUE, !.fallback = FALSE])
    BY <1>7 DEF Close
  <2> QED BY <1>3, <2>1 DEF ProcessInv, NoProcess
<1>8. CASE Fallback
  <2>1. process.fallback /\ Change([process EXCEPT !.finishing = TRUE, !.fallback = FALSE])
    BY <1>8 DEF Fallback
  <2> QED BY <1>3, <2>1 DEF ProcessInv, NoProcess
<1> QED BY <1>1, <1>2, <1>4, <1>5, <1>6, <1>7, <1>8 DEF CommandStep

(* Every step keeps what is known of the command's process.                *)
LEMMA ProcessStep ==
  ASSUME ProcessInv, [Next]_vars
  PROVE  ProcessInv'
<1> USE DEF disk, history, session
<1>1. CASE CommandStep \/ Process
  BY <1>1, CommandKept
<1>2. CASE Ask
  <2>1. process' = NoProcess /\ result' # "exited"
    BY <1>2 DEF Ask
  <2>2. /\ NoProcess = [f \in DOMAIN NoProcess |-> NoProcess[f]]
        /\ NoProcess.told = "no" /\ NoProcess.kill = "none"
        /\ ~NoProcess.fallback /\ ~NoProcess.finishing
    BY DEF NoProcess
  <2> QED BY <2>1, <2>2 DEF ProcessInv, ExitIsReal
<1>3. CASE Approve
  <2>1. FirstStep(call) # "idle"
    BY DEF FirstStep
  <2> QED BY <1>3, <2>1, ProcessKept DEF Approve, Ended
<1>4. CASE ChangeMode \/ Cancel \/ ExtensionTool \/ Meddle \/ UNCHANGED vars
  BY <1>4, ProcessKept DEF ChangeMode, Cancel, ExtensionTool, Ended, Meddle, vars
<1>5. CASE FileStep
  <2>1. process' = process
    BY <1>5 DEF FileStep, ResolvePatch, ReadBase, Resolve, ReadPrevious, Revalidate, Open, Fill,
           ResolveRead, ReadFile, ReadRoot, ReadGit, Visit, Listed, Walked, SearchFile, Searched,
           Reported, Steady
  <2>2. UNCHANGED <<at, result>> \/ at' # "idle" \/ result' # "exited"
    <3>1. ASSUME FileToolFails PROVE result' # "exited"
      BY <3>1 DEF FileToolFails, Ended
    <3>2. CASE ResolvePatch \/ ReadBase \/ Resolve \/ ReadPrevious \/ Revalidate \/ Open \/ Fill
      BY <3>1, <3>2 DEF ResolvePatch, ReadBase, Resolve, ReadPrevious, Revalidate, Open, Fill,
             Goes, Ended
    <3>3. CASE \/ ResolveRead \/ ReadFile \/ ReadRoot \/ ReadGit \/ Visit \/ Listed
               \/ Walked \/ SearchFile \/ Searched \/ Reported
      BY <3>1, <3>3 DEF ResolveRead, ReadFile, ReadRoot, ReadGit, Visit, Listed, Walked,
             SearchFile, Searched, Reported, Reports, Goes, Ended
    <3> QED BY <1>5, <3>2, <3>3 DEF FileStep
  <2> QED BY <2>1, <2>2, ProcessKept
<1> QED BY <1>1, <1>2, <1>3, <1>4, <1>5 DEF Next

(* Every step keeps what is known of the patch's base.                     *)
LEMMA PatchStep ==
  ASSUME PatchInv, [Next]_vars
  PROVE  PatchInv'
<1> USE DEF disk, history, session
<1>1. CASE ReadPrevious
  <2>1. CASE FileToolFails
    BY <2>1 DEF FileToolFails, Ended, PatchInv
  <2>2. CASE ~FileToolFails
    <3>1. /\ at' = "revalidate" /\ UNCHANGED <<call, work, content, alias>>
          /\ call.tool = "apply_patch" =>
               work.base = IF work.exists THEN At(work.place) ELSE Absent
      BY <1>1, <2>2 DEF ReadPrevious, Goes, Steady
    <3>2. At(work.place)' = At(work.place)
      BY <3>1 DEF At, Real, LeadsTo
    <3> QED BY <3>1, <3>2 DEF PatchInv
  <2> QED BY <2>1, <2>2
<1>2. CASE Revalidate
  <2>1. CASE FileToolFails
    BY <2>1 DEF FileToolFails, Ended, PatchInv
  <2>2. CASE ~FileToolFails
    <3>1. /\ at = "revalidate" /\ at' = "write"
          /\ UNCHANGED <<call, work, content, alias, edited>>
          /\ Resolved(call, TRUE, work.exists) /\ Real(call.place) = work.place
          /\ work.exists = (content[Real(call.place)] # Absent)
      BY <1>2, <2>2 DEF Revalidate, Goes, Steady
    <3>2. Real(work.place) = work.place /\ work.place # Nowhere
      BY <3>1, AllowedIsSettled, SettledIsReal, ToolAssumption DEF Settled
    <3>3. At(work.place) = content[work.place]
      BY <3>2 DEF At
    <3>4. (call.tool = "apply_patch" /\ ~edited) => content[work.place] = work.base
      BY <3>1, <3>3 DEF PatchInv
    <3>5. Real(work.place)' = work.place
      BY <3>1, <3>2 DEF Real, LeadsTo
    <3> QED BY <3>1, <3>4, <3>5 DEF PatchInv
  <2> QED BY <2>1, <2>2
<1>3. CASE Meddle
  BY <1>3 DEF Meddle, PatchInv
<1>4. ASSUME \/ at' \notin {"revalidate", "write"}
             \/ UNCHANGED <<at, call, edited, work, content, alias>>
      PROVE  PatchInv'
  <2>1. CASE at' \notin {"revalidate", "write"}
    BY <2>1 DEF PatchInv
  <2>2. CASE UNCHANGED <<at, call, edited, work, content, alias>>
    <3>1. Real(work.place)' = Real(work.place) /\ Real(work.place)' = Real(work'.place)
      BY <2>2 DEF Real, LeadsTo
    <3>2. At(work.place)' = At(work.place)
      BY <2>2, <3>1 DEF At
    <3>3. content'[Real(work.place)'] = content[Real(work.place)]
      BY <2>2, <3>1
    <3> QED BY <2>2, <3>1, <3>2, <3>3 DEF PatchInv
  <2> QED BY <1>4, <2>1, <2>2
<1>5. CASE FileStep /\ ~ReadPrevious /\ ~Revalidate
  <2>1. ASSUME FileToolFails PROVE at' = "idle"
    BY <2>1 DEF FileToolFails, Ended
  <2>2. CASE ResolvePatch \/ ReadBase \/ Resolve \/ Open \/ Fill
    BY <1>4, <2>1, <2>2 DEF ResolvePatch, ReadBase, Resolve, Open, Fill, Goes, Ended
  <2>3. CASE \/ ResolveRead \/ ReadFile \/ ReadRoot \/ ReadGit \/ Visit \/ Listed
             \/ Walked \/ SearchFile \/ Searched \/ Reported
    BY <1>4, <2>1, <2>3 DEF ResolveRead, ReadFile, ReadRoot, ReadGit, Visit, Listed, Walked,
           SearchFile, Searched, Reported, Reports, Goes, Ended
  <2> QED BY <1>5, <2>2, <2>3 DEF FileStep
<1>6. CASE Ask
  <2>1. PICK c \in Call :
          LET decision == Evaluate(mode, c, Key(c) \in approvals) IN
          at' = CASE decision = "deny" -> "idle"
                  [] decision = "ask" -> "asked"
                  [] decision = "allow" -> FirstStep(c)
    BY <1>6 DEF Ask
  <2>2. FirstStep(c) \notin {"revalidate", "write"}
    BY DEF FirstStep
  <2>3. Evaluate(mode, c, Key(c) \in approvals) \in {"deny", "ask", "allow"}
    <3>1. \A approved \in BOOLEAN : Evaluate(mode, c, approved) \in {"deny", "ask", "allow"}
      BY DecisionKinds
    <3>2. (Key(c) \in approvals) \in BOOLEAN
      OBVIOUS
    <3> QED BY <3>1, <3>2, Zenon
  <2> QED BY <1>4, <2>1, <2>2, <2>3
<1>7. CASE Approve
  <2>1. FirstStep(call) \notin {"revalidate", "write"}
    BY DEF FirstStep
  <2> QED BY <1>4, <1>7, <2>1 DEF Approve, Ended
<1>8. CASE Cancel
  <2>1. at' = "idle" \/ UNCHANGED <<at, call, edited, work, content, alias>>
    BY <1>8 DEF Cancel, Ended
  <2> QED BY <1>4, <2>1
<1>9. CASE ChangeMode \/ ExtensionTool
  BY <1>4, <1>9 DEF ChangeMode, ExtensionTool, Ended
<1>10. CASE CommandStep \/ Process
  <2>1. at' \in {"idle", "command"}
    BY <1>10 DEF CommandStep, Process, Spawn, TimeLimit, AbortHeard, KillEnds, Close, Fallback,
           Answer, Tell, Change, Running, Ended
  <2> QED BY <1>4, <2>1
<1>11. CASE UNCHANGED vars
  BY <1>4, <1>11 DEF vars
<1> QED BY <1>1, <1>2, <1>3, <1>5, <1>6, <1>7, <1>8, <1>9, <1>10, <1>11 DEF Next

-----------------------------------------------------------------------------
(* Types                                                                   *)

(* What holds of 0 and of the next number holds of every number.           *)
LEMMA Counting ==
  ASSUME NEW S \in SUBSET Nat, 0 \in S, \A k \in S : k + 1 \in S
  PROVE  S = Nat
<1> SUFFICES ASSUME NEW n \in Nat, n \notin S PROVE FALSE
  OBVIOUS
<1> DEFINE D == {k \in 0 .. n : k \notin S}
           f == [k \in D |-> k - 1]
<1>1. IsFiniteSet(D)
  <2>1. IsFiniteSet(0 .. n) /\ D \in SUBSET (0 .. n)
    BY FS_Interval
  <2> QED BY <2>1, FS_Subset
<1>2. ASSUME NEW k \in D PROVE k - 1 \in D
  <2>1. k \in Nat /\ k # 0 /\ k - 1 \in Nat /\ k - 1 <= n /\ (k - 1) + 1 = k
    OBVIOUS
  <2> QED BY <2>1
<1>3. f \in [D -> D] /\ \A a, b \in D : f[a] = f[b] => a = b
  BY <1>2
<1> HIDE DEF f
<1>4. f \in Injection(D, D)
  BY <1>3 DEF Injection, IsInjective
<1>5. f \in Surjection(D, D)
  BY <1>1, <1>4, FS_Injection
<1>6. n \in D
  OBVIOUS
<1>7. PICK k \in D : f[k] = n
  BY <1>5, <1>6 DEF Surjection
<1> QED BY <1>7 DEF f

LEMMA TextsAreShown ==
  /\ Seq(Token) \subseteq Seq(Shown)
  /\ {Absent, Torn, Binary} \subseteq Seq(Shown)
  /\ Text \subseteq Seq(Shown)
<1>1. Token \subseteq Shown /\ {"absent", "torn", "binary"} \subseteq Shown
  BY DEF Shown
<1>2. Seq(Token) \subseteq Seq(Shown)
  <2> HIDE DEF Token, Shown
  <2> QED BY <1>1
<1>3. {Absent, Torn, Binary} \subseteq Seq(Shown)
  BY <1>1 DEF Absent, Torn, Binary
<1> QED BY <1>2, <1>3, ToolAssumption

LEMMA EditsKeepType ==
  ASSUME NEW edit \in Edit, NEW text \in Seq(Shown)
  PROVE  OneEdit(edit, text) \in Seq(Shown)
<1>1. edit.new \in Shown
  BY DEF Edit, Shown
<1>2. ASSUME NEW first
      PROVE  [i \in DOMAIN text |->
                IF text[i] = edit.old /\ (edit.all \/ i = first) THEN edit.new ELSE text[i]]
               \in Seq(Shown)
  <2> HIDE DEF Shown
  <2> QED BY <1>1
<1>3. CASE OneEdit(edit, text) = Absent
  BY <1>3, TextsAreShown
<1>4. CASE OneEdit(edit, text) # Absent
  <2> DEFINE first == CHOOSE i \in DOMAIN text :
                        text[i] = edit.old /\ \A j \in 1 .. i - 1 : text[j] # edit.old
  <2>1. OneEdit(edit, text) =
          [i \in DOMAIN text |->
             IF text[i] = edit.old /\ (edit.all \/ i = first) THEN edit.new ELSE text[i]]
    BY <1>4, Zenon DEF OneEdit
  <2> HIDE DEF first
  <2> QED BY <1>2, <2>1
<1> QED BY <1>3, <1>4

(* The texts after each of the edits.                                      *)
LEMMA PatchesKeepType ==
  ASSUME NEW edits \in Seq(Edit), NEW text \in Seq(Shown)
  PROVE  Patched(text, edits) \in Seq(Shown)
<1> DEFINE n == Len(edits)
           Upto(f, k) == [i \in 0 .. k |-> IF i = 0 THEN text ELSE OneEdit(edits[i], f[i - 1])]
           after == CHOOSE f : f = Upto(f, n)
           S == {k \in Nat : \E f : f = Upto(f, k)}
           T == {k \in Nat : k <= n => after[k] \in Seq(Shown)}
<1>0. n \in Nat /\ \A i \in 1 .. n : edits[i] \in Edit
  OBVIOUS
<1>1. 0 \in S
  <2>1. [i \in {0} |-> text] = Upto([i \in {0} |-> text], 0)
    OBVIOUS
  <2> QED BY <2>1
<1>2. ASSUME NEW k \in S PROVE k + 1 \in S
  <2>1. PICK f : f = Upto(f, k)
    OBVIOUS
  <2> DEFINE g == [i \in 0 .. k + 1 |-> IF i = k + 1 THEN OneEdit(edits[k + 1], f[k]) ELSE f[i]]
  <2>2. g = Upto(g, k + 1)
    <3>1. \A i \in 0 .. k + 1 : g[i] = Upto(g, k + 1)[i]
      <4> TAKE i \in 0 .. k + 1
      <4>1. CASE i = k + 1
        BY <4>1
      <4>2. CASE i # k + 1
        <5>1. i \in 0 .. k /\ g[i] = f[i] /\ (i # 0 => g[i - 1] = f[i - 1])
          BY <4>2
        <5>2. f[i] = IF i = 0 THEN text ELSE OneEdit(edits[i], f[i - 1])
          BY <2>1, <5>1
        <5> QED BY <5>1, <5>2
      <4> QED BY <4>1, <4>2
    <3> QED BY <3>1
  <2> HIDE DEF g
  <2>3. \E h : h = Upto(h, k + 1)
    BY <2>2
  <2> QED BY <2>3
<1>3. S = Nat
  <2> HIDE DEF S
  <2>1. S \in SUBSET Nat
    BY DEF S
  <2> QED BY <1>1, <1>2, <2>1, Counting
<1>4. after = Upto(after, n)
  <2>1. \E f : f = Upto(f, n)
    BY <1>0, <1>3
  <2> QED BY <2>1
<1>5. Patched(text, edits) = after[n]
  BY DEF Patched
<1> HIDE DEF after
<1>6. 0 \in T
  BY <1>0, <1>4
<1>7. ASSUME NEW k \in T PROVE k + 1 \in T
  <2>1. CASE k + 1 <= n
    <3>1. after[k + 1] = OneEdit(edits[k + 1], after[k]) /\ after[k] \in Seq(Shown)
      BY <1>0, <1>4, <2>1
    <3>2. edits[k + 1] \in Edit
      BY <1>0, <2>1
    <3> QED BY <3>1, <3>2, EditsKeepType
  <2>2. CASE ~(k + 1 <= n)
    BY <2>2
  <2> QED BY <2>1, <2>2
<1>8. T = Nat
  <2> HIDE DEF T
  <2>1. T \in SUBSET Nat
    BY DEF T
  <2> QED BY <1>6, <1>7, <2>1, Counting
<1> QED BY <1>0, <1>5, <1>8

-----------------------------------------------------------------------------
(* Sequences: what is left of the head and the tail, names, lines          *)

Distinct(s) == \A i, j \in DOMAIN s : s[i] = s[j] => i = j

LEMMA LesserOfTwo ==
  ASSUME NEW m \in Nat, NEW n \in Nat
  PROVE  Min({m, n}) = IF m <= n THEN m ELSE n
<1> DEFINE k == IF m <= n THEN m ELSE n
<1>1. k \in {m, n} /\ \A y \in {m, n} : k <= y
  OBVIOUS
<1>2. ASSUME NEW x \in {m, n}, \A y \in {m, n} : x <= y PROVE x = k
  BY <1>2
<1> QED BY <1>1, <1>2 DEF Min

LEMMA HeadTailKeeps ==
  ASSUME NEW S, NEW records \in Seq(S), NEW most \in Nat
  PROVE  /\ HeadTail(records, most) \in Seq(S)
         /\ Len(records) - Len(HeadTail(records, most)) \in Nat
         /\ ToSet(HeadTail(records, most)) \subseteq ToSet(records)
         /\ Distinct(records) => Distinct(HeadTail(records, most))
<1> DEFINE len == Len(records)
           n == IF len <= most THEN len ELSE most
           tail == n \div 2
           head == n - tail
           kept == [i \in 1 .. n |-> records[IF i <= head THEN i ELSE i + (len - n)]]
<1>1. len \in Nat /\ n \in Nat /\ n <= len /\ Min({len, most}) = n
  BY LesserOfTwo
<1>2. tail \in Nat /\ tail <= n /\ head \in Nat /\ head + tail = n
  <2>1. \A m \in Nat : m \div 2 \in Nat /\ m \div 2 <= m
    OBVIOUS
  <2> HIDE DEF n
  <2> QED BY <1>1, <2>1
<1> HIDE DEF n, tail
<1>3. /\ SubSeq(records, 1, head) \in Seq(S) /\ Len(SubSeq(records, 1, head)) = head
      /\ \A i \in 1 .. head : SubSeq(records, 1, head)[i] = records[i]
  BY <1>1, <1>2
<1>4. /\ SubSeq(records, len - tail + 1, len) \in Seq(S)
      /\ Len(SubSeq(records, len - tail + 1, len)) = tail
      /\ \A i \in 1 .. tail : SubSeq(records, len - tail + 1, len)[i] = records[i + (len - tail)]
  BY <1>1, <1>2
<1>5. HeadTail(records, most) = SubSeq(records, 1, head) \o SubSeq(records, len - tail + 1, len)
  BY <1>1 DEF HeadTail, tail
<1>6. /\ HeadTail(records, most) \in Seq(S) /\ Len(HeadTail(records, most)) = n
      /\ \A i \in 1 .. n :
           HeadTail(records, most)[i] = records[IF i <= head THEN i ELSE i + (len - n)]
  <2>1. ASSUME NEW s \in Seq(S), NEW t \in Seq(S), Len(s) = head, Len(t) = tail
        PROVE  /\ s \o t \in Seq(S) /\ Len(s \o t) = n
               /\ \A i \in 1 .. n : (s \o t)[i] = IF i <= head THEN s[i] ELSE t[i - head]
    BY <1>2, <2>1
  <2>2. ASSUME NEW i \in 1 .. n, ~(i <= head)
        PROVE  i - head \in 1 .. tail /\ (i - head) + (len - tail) = i + (len - n)
    BY <1>1, <1>2, <2>2
  <2>3. \A i \in 1 .. n : i <= head => i \in 1 .. head
    BY <1>1, <1>2
  <2> DEFINE s == SubSeq(records, 1, head)
             t == SubSeq(records, len - tail + 1, len)
  <2> HIDE DEF s, t
  <2>4. /\ HeadTail(records, most) \in Seq(S) /\ Len(HeadTail(records, most)) = n
        /\ \A i \in 1 .. n :
             HeadTail(records, most)[i] = IF i <= head THEN s[i] ELSE t[i - head]
    <3>1. s \in Seq(S) /\ t \in Seq(S) /\ Len(s) = head /\ Len(t) = tail
      BY <1>3, <1>4 DEF s, t
    <3>2. HeadTail(records, most) = s \o t
      BY <1>5 DEF s, t
    <3>3. /\ s \o t \in Seq(S) /\ Len(s \o t) = n
          /\ \A i \in 1 .. n : (s \o t)[i] = IF i <= head THEN s[i] ELSE t[i - head]
      BY <2>1, <3>1
    <3> QED BY <3>2, <3>3
  <2>5. \A i \in 1 .. head : s[i] = records[i]
    BY <1>3 DEF s
  <2>6. \A i \in 1 .. tail : t[i] = records[i + (len - tail)]
    BY <1>4 DEF t
  <2>7. ASSUME NEW i \in 1 .. n, ~(i <= head)
        PROVE  HeadTail(records, most)[i] = records[i + (len - n)]
    BY <2>2, <2>4, <2>6, <2>7
  <2> QED BY <2>3, <2>4, <2>5, <2>7
<1> DEFINE at1(i) == IF i <= head THEN i ELSE i + (len - n)
<1>7. \A i \in 1 .. n : at1(i) \in 1 .. len
  BY <1>1, <1>2
<1>8. \A i, j \in 1 .. n : at1(i) = at1(j) => i = j
  BY <1>1, <1>2
<1>9. DOMAIN HeadTail(records, most) = 1 .. n /\ DOMAIN records = 1 .. len
  BY <1>1, <1>6
<1>10. \A i \in 1 .. n : HeadTail(records, most)[i] = records[at1(i)]
  BY <1>6
<1> HIDE DEF at1
<1>11. ToSet(HeadTail(records, most)) \subseteq ToSet(records)
  BY <1>7, <1>9, <1>10 DEF ToSet
<1>12. Distinct(records) => Distinct(HeadTail(records, most))
  BY <1>7, <1>8, <1>9, <1>10 DEF Distinct
<1>13. len - n \in Nat
  BY <1>1
<1> QED BY <1>6, <1>11, <1>12, <1>13

(* A set as a sequence.                                                    *)
LEMMA SetAsSeq ==
  ASSUME NEW S, IsFiniteSet(S)
  PROVE  SetToSeq(S) \in Seq(S) /\ Distinct(SetToSeq(S)) /\ ToSet(SetToSeq(S)) = S
<1> DEFINE n == Cardinality(S)
<1>1. n \in Nat /\ ExistsBijection(1 .. n, S)
  BY FS_CardinalityType
<1>2. \E f \in [1 .. n -> S] : IsInjective(f)
  BY <1>1 DEF ExistsBijection, Bijection, Injection
<1>3. SetToSeq(S) \in [1 .. n -> S] /\ IsInjective(SetToSeq(S))
  BY <1>2 DEF SetToSeq
<1>4. SetToSeq(S) \in Surjection(1 .. n, S)
  <2>1. SetToSeq(S) \in Injection(1 .. n, S)
    BY <1>3 DEF Injection
  <2>2. IsFiniteSet(1 .. n) /\ Cardinality(1 .. n) = n
    BY <1>1, FS_Interval
  <2> QED BY <2>1, <2>2, FS_Injection
<1>5. SetToSeq(S) \in Seq(S)
  <2> HIDE DEF n
  <2> QED BY <1>1, <1>3
<1>6. ToSet(SetToSeq(S)) = S
  BY <1>3, <1>4 DEF ToSet, Surjection
<1> QED BY <1>3, <1>5, <1>6 DEF Distinct, IsInjective

(* A sequence without repetitions has as many elements as places.          *)
LEMMA DistinctCounted ==
  ASSUME NEW S, NEW s \in Seq(S), Distinct(s)
  PROVE  IsFiniteSet(ToSet(s)) /\ Cardinality(ToSet(s)) = Len(s)
<1>1. Len(s) \in Nat /\ DOMAIN s = 1 .. Len(s)
  OBVIOUS
<1>2. s \in [1 .. Len(s) -> ToSet(s)]
  BY <1>1 DEF ToSet
<1>3. s \in Bijection(1 .. Len(s), ToSet(s))
  BY <1>1, <1>2 DEF Bijection, Injection, Surjection, IsInjective, Distinct, ToSet
<1>4. ExistsBijection(1 .. Len(s), ToSet(s))
  BY <1>3 DEF ExistsBijection
<1>5. IsFiniteSet(1 .. Len(s))
  BY <1>1, FS_Interval
<1> QED BY <1>1, <1>4, <1>5, FS_CountingElements, FS_Bijection

(* The lines that have the query, by their numbers.                        *)
NumberedHits(p, text, query) == {p} \X {i \in DOMAIN text : text[i] = query}

(* Every line that has the query is listed once.                           *)
LEMMA LinesAreHits ==
  ASSUME NEW S, NEW text \in Seq(S), NEW p, NEW query
  PROVE  /\ Lines(p, text, query) \in Seq({p} \X Nat) /\ Distinct(Lines(p, text, query))
         /\ ToSet(Lines(p, text, query)) = NumberedHits(p, text, query)
<1> DEFINE N == {i \in DOMAIN text : text[i] = query}
           Below(i) == {j \in N : j <= i}
           c == Cardinality(N)
           rank == [i \in N |-> Cardinality(Below(i))]
           line == [k \in 1 .. c |-> CHOOSE i \in N : Cardinality(Below(i)) = k]
<1>1. N \in SUBSET (1 .. Len(text)) /\ Len(text) \in Nat
  OBVIOUS
<1> HIDE DEF N
<1>2. IsFiniteSet(N) /\ c \in Nat
  <2>1. IsFiniteSet(1 .. Len(text))
    BY <1>1, FS_Interval
  <2> QED BY <1>1, <2>1, FS_Subset, FS_CardinalityType
<1>3. ASSUME NEW i \in N
      PROVE  IsFiniteSet(Below(i)) /\ Cardinality(Below(i)) \in 1 .. c
  <2>1. Below(i) \in SUBSET N /\ i \in Below(i)
    BY <1>1
  <2>2. IsFiniteSet(Below(i)) /\ Cardinality(Below(i)) <= c /\ Cardinality(Below(i)) \in Nat
    BY <1>2, <2>1, FS_Subset, FS_CardinalityType
  <2>3. Cardinality(Below(i)) # 0
    BY <2>1, <2>2, FS_EmptySet
  <2> QED BY <1>2, <2>2, <2>3
<1>4. ASSUME NEW i \in N, NEW j \in N, i < j
      PROVE  Cardinality(Below(i)) # Cardinality(Below(j))
  <2>0. i \in Nat /\ j \in Nat /\ \A m \in N : m \in Nat
    BY <1>1
  <2>1. \A m \in N : m <= i => m <= j
    BY <1>4, <2>0
  <2>2. j <= j /\ ~(j <= i)
    BY <1>4, <2>0
  <2>3. Below(i) \in SUBSET Below(j) /\ j \in Below(j) /\ j \notin Below(i)
    BY <2>1, <2>2
  <2> QED BY <1>3, <2>3, FS_Subset
<1>5. ASSUME NEW i \in N, NEW j \in N, Cardinality(Below(i)) = Cardinality(Below(j))
      PROVE  i = j
  BY <1>1, <1>4, <1>5
<1>6. rank \in Injection(N, 1 .. c)
  BY <1>3, <1>5 DEF Injection, IsInjective
<1>7. rank \in Surjection(N, 1 .. c)
  <2>1. IsFiniteSet(1 .. c) /\ Cardinality(1 .. c) = c
    BY <1>2, FS_Interval
  <2> QED BY <1>2, <1>6, <2>1, FS_Injection
<1>8. \A k \in 1 .. c : \E i \in N : Cardinality(Below(i)) = k
  BY <1>7 DEF Surjection
<1>9. \A k \in 1 .. c : line[k] \in N /\ Cardinality(Below(line[k])) = k
  BY <1>8
<1>10. \A i \in N : line[Cardinality(Below(i))] = i
  BY <1>3, <1>5, <1>9
<1>11. Lines(p, text, query) = [k \in 1 .. c |-> <<p, line[k]>>]
  <2>1. Lines(p, text, query) = [k \in 1 .. c |-> <<p, CHOOSE i \in N : Cardinality(Below(i)) = k>>]
    BY Zenon DEF Lines, N
  <2>2. \A k \in 1 .. c : line[k] = CHOOSE i \in N : Cardinality(Below(i)) = k
    OBVIOUS
  <2> HIDE DEF line
  <2> QED BY <2>1, <2>2
<1> HIDE DEF line, Below, c
<1>12. Lines(p, text, query) \in Seq({p} \X Nat)
  <2>0. N \in SUBSET Nat
    BY <1>1
  <2>1. \A k \in 1 .. c : <<p, line[k]>> \in {p} \X Nat
    BY <1>9, <2>0
  <2> QED BY <1>2, <1>11, <2>1 DEF c
<1>13. DOMAIN Lines(p, text, query) = 1 .. c
  BY <1>11
<1>14. Distinct(Lines(p, text, query))
  <2>1. \A k, m \in 1 .. c : <<p, line[k]>> = <<p, line[m]>> => k = m
    BY <1>9
  <2> QED BY <1>11, <1>13, <2>1 DEF Distinct
<1>15. ToSet(Lines(p, text, query)) = {p} \X N
  <2>1. \A k \in 1 .. c : <<p, line[k]>> \in {p} \X N
    BY <1>9
  <2>2. ASSUME NEW x \in {p} \X N PROVE \E k \in 1 .. c : <<p, line[k]>> = x
    <3>1. PICK i \in N : x = <<p, i>>
      OBVIOUS
    <3>2. Cardinality(Below(i)) \in 1 .. c /\ line[Cardinality(Below(i))] = i
      BY <1>3, <1>10 DEF c, Below
    <3> QED BY <3>1, <3>2
  <2> QED BY <1>11, <1>13, <2>1, <2>2 DEF ToSet
<1> QED BY <1>12, <1>14, <1>15 DEF N, NumberedHits

(* The names of a directory, each once, and each with whether it is a link. *)
Truthful(todo, a) == \A i \in DOMAIN todo : todo[i].link = (a[todo[i].name] # todo[i].name)

NamedOnce(todo) == \A i, j \in DOMAIN todo : todo[i].name = todo[j].name => i = j

NamesOf(todo) == {todo[i].name : i \in DOMAIN todo}

LEMMA NamesAreListed ==
  ASSUME NEW places \in SUBSET Readable
  PROVE  /\ Names(places) \in Seq(Entry)
         /\ Truthful(Names(places), alias) /\ NamedOnce(Names(places))
         /\ NamesOf(Names(places)) = {p \in places : content[p] # Absent \/ alias[p] # p}
<1> DEFINE here == {p \in places : content[p] # Absent \/ alias[p] # p}
           there == SetToSeq(here)
<1>1. there \in Seq(here) /\ Distinct(there) /\ ToSet(there) = here
  <2>1. here \in SUBSET (Inside \cup InGit)
    BY DEF Readable
  <2>2. IsFiniteSet(here)
    BY <2>1, ToolAssumption, FS_Subset
  <2> QED BY <2>2, SetAsSeq
<1>2. Names(places) = [i \in DOMAIN there |-> [name |-> there[i], link |-> alias[there[i]] # there[i]]]
  BY DEF Names
<1>3. here \in SUBSET Place
  BY DEF Readable, Place
<1> HIDE DEF here, there
<1>4. \A i \in DOMAIN there : there[i] \in Place
  BY <1>1, <1>3
<1>5. \A i \in DOMAIN there : Names(places)[i] \in Entry
  BY <1>2, <1>4 DEF Entry
<1>6. DOMAIN there = 1 .. Len(there) /\ Len(there) \in Nat /\ DOMAIN Names(places) = DOMAIN there
  BY <1>1, <1>2
<1>7. Names(places) \in Seq(Entry)
  BY <1>2, <1>5, <1>6
<1>8. \A i \in DOMAIN there : /\ Names(places)[i].name = there[i]
                              /\ Names(places)[i].link = (alias[there[i]] # there[i])
  BY <1>2
<1>9. NamesOf(Names(places)) = here
  BY <1>1, <1>6, <1>8 DEF NamesOf, ToSet
<1>10. NamedOnce(Names(places))
  BY <1>1, <1>6, <1>8 DEF NamedOnce, Distinct
<1> QED BY <1>6, <1>7, <1>8, <1>9, <1>10 DEF Truthful, here

-----------------------------------------------------------------------------
(* Every variable keeps its type                                           *)

(* What a file tool holds at each stage.                                   *)
WorkOK(w, stage, tool) ==
  /\ w = [f \in DOMAIN NoWork |-> w[f]]
  /\ w.place \in Place \cup {Nowhere} /\ w.exists \in BOOLEAN
  /\ w.base \in Seq(Shown) /\ w.text \in Seq(Shown)
  /\ w.todo \in Seq(IF stage \in {"read git", "walk"} THEN Entry ELSE Place)
  /\ w.visited \in 0 .. MaxEntries /\ w.files \in Seq(Place)
  /\ w.found \in Seq(IF tool = "search_text" /\ stage # "walk" THEN Match ELSE Shown \cup Place)
  /\ w.omitted \in Nat
  /\ stage \in {"idle", "asked", "read root", "resolve read"} => w = NoWork
  /\ stage \notin {"read file", "read git", "walk", "search"} => w.todo = <<>>
  /\ stage \notin {"walk", "search", "report"} => w.found = <<>>

(* The call that is at this stage.                                         *)
CallAt(c, stage) ==
  /\ stage = "resolve read" => c.tool \in {"read_file", "search_text"} /\ ~c.root
  /\ stage = "read file" => c.tool = "read_file"
  /\ stage \in {"read root", "read git", "walk"} => c.tool \in {"list_files", "search_text"}
  /\ stage = "search" => c.tool = "search_text"

TypeInv ==
  /\ TypeOK
  /\ WorkOK(work, at, call.tool)
  /\ CallAt(call, at)

LEMMA WorkIsTyped ==
  ASSUME WorkOK(work, at, call.tool)
  PROVE  work \in Work
<1>1. DOMAIN NoWork = {"place", "exists", "base", "text", "todo", "visited", "files", "found", "omitted"}
  BY DEF NoWork
<1>2. work = [place |-> work.place, exists |-> work.exists, base |-> work.base,
              text |-> work.text, todo |-> work.todo, visited |-> work.visited,
              files |-> work.files, omitted |-> work.omitted, found |-> work.found]
  BY <1>1 DEF WorkOK
<1> QED BY <1>2 DEF WorkOK, Work

LEMMA NothingHeld == \A stage, tool : WorkOK(NoWork, stage, tool)
<1>1. 0 \in 0 .. MaxEntries
  BY ToolAssumption
<1>2. Absent \in Seq(Shown)
  BY TextsAreShown
<1> QED BY <1>1, <1>2 DEF WorkOK, NoWork

(* A step of a file tool that goes on.                                     *)
LEMMA FileToolGoesOn ==
  ASSUME TypeInv, Steady, UNCHANGED <<result, once>>, at' \in FileStage,
         content' \in [Place -> Seq(Shown)], relinked' \in BOOLEAN, edited' \in BOOLEAN,
         strays' \subseteq Place, WorkOK(work', at', call.tool), CallAt(call, at')
  PROVE  TypeInv'
<1>1. WorkOK(work, at, call.tool)'
  BY DEF Steady
<1>2. (work \in Work)'
  BY <1>1, WorkIsTyped, PTL
<1>3. TypeOK'
  <2>1. UNCHANGED <<mode, approvals, once, call, aborted, alias, process, spent, result>>
    BY DEF Steady
  <2> QED BY <1>2, <2>1 DEF TypeInv, TypeOK
<1>4. CallAt(call, at)'
  BY DEF Steady
<1> QED BY <1>1, <1>3, <1>4 DEF TypeInv

LEMMA FileToolEnds ==
  ASSUME TypeInv, Steady, NEW how \in {"done", "failed", "cancelled"}, Ended(how),
         content' \in [Place -> Seq(Shown)], relinked' = FALSE, edited' = FALSE,
         UNCHANGED strays
  PROVE  TypeInv'
<1>1. WorkOK(work, at, call.tool)'
  BY NothingHeld DEF Ended
<1>2. (work \in Work)'
  BY <1>1, WorkIsTyped, PTL
<1> QED BY <1>1, <1>2 DEF TypeInv, TypeOK, Steady, Ended, CallAt

LEMMA FailureTyped ==
  ASSUME TypeInv, Steady, FileToolFails
  PROVE  TypeInv'
BY FileToolEnds DEF FileToolFails, TypeInv, TypeOK

LEMMA ReachedIsPlace ==
  ASSUME strays \subseteq Place, NEW p, NEW write, Reaches(p, write)
  PROVE  strays' \subseteq Place
BY DEF Reaches, Place

LEMMA AtIsShown ==
  ASSUME TypeInv, NEW p
  PROVE  At(p) \in Seq(Shown)
<1>1. Real(p) = Nowhere \/ Real(p) \in Place
  BY RealEnds
<1>2. Absent \in Seq(Shown) /\ content \in [Place -> Seq(Shown)]
  BY TextsAreShown DEF TypeInv, TypeOK
<1> HIDE DEF Shown
<1> QED BY <1>1, <1>2 DEF At

(* The tools that write.                                                   *)
LEMMA WriteTypes ==
  ASSUME TypeInv,
         ResolvePatch \/ ReadBase \/ Resolve \/ ReadPrevious \/ Revalidate \/ Open \/ Fill
  PROVE  TypeInv'
<1> USE DEF history, Goes
<1>0. /\ WorkOK(work, at, call.tool) /\ CallAt(call, at) /\ call \in Call
      /\ content \in [Place -> Seq(Shown)] /\ relinked \in BOOLEAN /\ edited \in BOOLEAN
      /\ strays \subseteq Place
  BY DEF TypeInv, TypeOK
<1>1. Steady
  BY DEF ResolvePatch, ReadBase, Resolve, ReadPrevious, Revalidate, Open, Fill
<1>2. CASE FileToolFails
  BY <1>1, <1>2, FailureTyped
<1>3. ASSUME at' \in {"read base", "resolve", "read", "revalidate", "write", "writing"}
      PROVE  CallAt(call, at') /\ at' \in FileStage
  BY <1>3 DEF CallAt, FileStage
<1>4. ASSUME at \in {"resolve patch", "read base", "resolve", "read", "revalidate", "write"},
             at' \in {"read base", "resolve", "read", "revalidate", "write", "writing"},
             work' = [f \in DOMAIN NoWork |-> work'[f]],
             work'.place \in Place \cup {Nowhere}, work'.exists \in BOOLEAN,
             work'.base \in Seq(Shown), work'.text \in Seq(Shown),
             UNCHANGED <<work.todo, work.visited, work.files, work.found, work.omitted>>
      PROVE  WorkOK(work', at', call.tool)
  <2>1. work.todo = <<>> /\ work.found = <<>>
    BY <1>0, <1>4 DEF WorkOK
  <2>2. work.visited \in 0 .. MaxEntries /\ work.files \in Seq(Place) /\ work.omitted \in Nat
    BY <1>0 DEF WorkOK
  <2>3. /\ work'.todo = <<>> /\ work'.found = <<>> /\ work'.visited = work.visited
        /\ work'.files = work.files /\ work'.omitted = work.omitted
    BY <1>4, <2>1
  <2>4. \A S : <<>> \in Seq(S)
    OBVIOUS
  <2> HIDE DEF Shown, Match, Entry
  <2> QED BY <1>4, <2>2, <2>3, <2>4 DEF WorkOK
<1>5. CASE ResolvePatch /\ ~FileToolFails
  <2>1. /\ work' = [work EXCEPT !.place = Real(call.place)] /\ relinked' = FALSE
        /\ at = "resolve patch" /\ at' = "read base"
        /\ UNCHANGED <<result, once, content, edited, strays>>
    BY <1>5 DEF ResolvePatch
  <2>2. Real(call.place) \in Place \cup {Nowhere}
    BY RealEnds
  <2>3. WorkOK(work', at', call.tool)
    BY <1>0, <1>4, <2>1, <2>2 DEF WorkOK, NoWork
  <2> QED BY <1>0, <1>1, <1>3, <2>1, <2>3, FileToolGoesOn
<1>6. CASE ReadBase /\ ~FileToolFails
  <2>1. /\ work' = [work EXCEPT !.base = At(work.place), !.text = Patched(At(work.place), call.edits)]
        /\ Reaches(work.place, TRUE) /\ at = "read base" /\ at' = "resolve"
        /\ UNCHANGED <<result, once, content, relinked, edited>>
    BY <1>6 DEF ReadBase
  <2>2. At(work.place) \in Seq(Shown)
    BY AtIsShown
  <2>3. Patched(At(work.place), call.edits) \in Seq(Shown)
    BY <1>0, <2>2, ToolAssumption, PatchesKeepType
  <2>4. WorkOK(work', at', call.tool)
    BY <1>0, <1>4, <2>1, <2>2, <2>3 DEF WorkOK, NoWork
  <2>5. strays' \subseteq Place
    BY <1>0, <2>1, ReachedIsPlace
  <2> QED BY <1>0, <1>1, <1>3, <2>1, <2>4, <2>5, FileToolGoesOn
<1>7. CASE Resolve /\ ~FileToolFails
  <2>1. /\ work' = [work EXCEPT !.place = Real(call.place),
                                !.exists = content[Real(call.place)] # Absent,
                                !.text = IF call.tool = "write_file" THEN call.text ELSE @]
        /\ relinked' = FALSE /\ at = "resolve" /\ at' = "read"
        /\ UNCHANGED <<result, once, content, edited, strays>>
    BY <1>7 DEF Resolve
  <2>2. Real(call.place) \in Place \cup {Nowhere}
    BY RealEnds
  <2>3. call.tool = "write_file" => call.text \in Seq(Shown)
    <3>1. call.tool = "write_file" => call.text \in Seq(Token)
      BY <1>0, ToolAssumption
    <3> QED BY <3>1, TextsAreShown
  <2>4. WorkOK(work', at', call.tool)
    BY <1>0, <1>4, <2>1, <2>2, <2>3 DEF WorkOK, NoWork
  <2> QED BY <1>0, <1>1, <1>3, <2>1, <2>4, FileToolGoesOn
<1>8. CASE (ReadPrevious \/ Revalidate) /\ ~FileToolFails
  <2>1. /\ work' = work /\ at \in {"read", "revalidate"} /\ at' \in {"revalidate", "write"}
        /\ UNCHANGED <<result, once, content>>
        /\ relinked' \in {relinked, FALSE} /\ edited' \in {edited, FALSE}
    BY <1>8 DEF ReadPrevious, Revalidate
  <2>2. strays' \subseteq Place
    BY <1>0, <1>8, ReachedIsPlace DEF ReadPrevious, Revalidate
  <2>3. WorkOK(work', at', call.tool)
    BY <1>0, <1>4, <2>1 DEF WorkOK
  <2> QED BY <1>0, <1>1, <1>3, <2>1, <2>2, <2>3, FileToolGoesOn
<1>9. CASE Open /\ ~FileToolFails
  <2>1. /\ content' = [content EXCEPT ![Real(work.place)] = Torn]
        /\ work' = [work EXCEPT !.place = Real(work.place)]
        /\ Reaches(work.place, TRUE) /\ at = "write" /\ at' = "writing"
        /\ UNCHANGED <<result, once, relinked, edited>>
    BY <1>9 DEF Open
  <2>2. Real(work.place) \in Place \cup {Nowhere}
    BY RealEnds
  <2>3. content' \in [Place -> Seq(Shown)]
    BY <1>0, <2>1, TextsAreShown
  <2>4. WorkOK(work', at', call.tool)
    BY <1>0, <1>4, <2>1, <2>2 DEF WorkOK, NoWork
  <2>5. strays' \subseteq Place
    BY <1>0, <2>1, ReachedIsPlace
  <2> QED BY <1>0, <1>1, <1>3, <2>1, <2>3, <2>4, <2>5, FileToolGoesOn
<1>10. CASE Fill /\ ~FileToolFails
  <2>1. /\ content' = [content EXCEPT ![work.place] = work.text] /\ Ended("done")
        /\ relinked' = FALSE /\ edited' = FALSE /\ UNCHANGED strays
    BY <1>10 DEF Fill
  <2>2. work.text \in Seq(Shown)
    BY <1>0 DEF WorkOK
  <2>3. content' \in [Place -> Seq(Shown)]
    BY <1>0, <2>1, <2>2
  <2> QED BY <1>1, <2>1, <2>3, FileToolEnds
<1> QED BY <1>2, <1>5, <1>6, <1>7, <1>8, <1>9, <1>10

(* What is reported is part of what was found.                             *)
LEMMA ReportTypes ==
  ASSUME TypeInv, Steady, at' = "report", UNCHANGED <<result, once, content, relinked, edited>>,
         strays' \subseteq Place, NEW S, NEW records \in Seq(S), NEW most \in Nat,
         S \subseteq IF call.tool = "search_text" THEN Match ELSE Shown \cup Place,
         Reports(records, most)
  PROVE  TypeInv'
<1> DEFINE kept == HeadTail(records, most)
<1>1. WorkOK(work, at, call.tool) /\ content \in [Place -> Seq(Shown)]
      /\ relinked \in BOOLEAN /\ edited \in BOOLEAN
  BY DEF TypeInv, TypeOK
<1>2. kept \in Seq(S) /\ Len(records) - Len(kept) \in Nat
  BY HeadTailKeeps
<1>3. work' = [work EXCEPT !.found = kept, !.omitted = Len(records) - Len(kept), !.todo = <<>>]
  BY DEF Reports
<1> HIDE DEF kept, Shown, Match
<1>4. kept \in Seq(IF call.tool = "search_text" THEN Match ELSE Shown \cup Place)
  BY <1>2
<1>5. /\ work' = [f \in DOMAIN NoWork |-> work'[f]] /\ work'.todo = <<>>
      /\ work'.found = kept /\ work'.omitted = Len(records) - Len(kept)
      /\ work'.place = work.place /\ work'.exists = work.exists /\ work'.base = work.base
      /\ work'.text = work.text /\ work'.visited = work.visited /\ work'.files = work.files
  BY <1>1, <1>3 DEF WorkOK, NoWork
<1>6. \A T : <<>> \in Seq(T)
  OBVIOUS
<1>7. WorkOK(work', at', call.tool)
  BY <1>1, <1>2, <1>4, <1>5, <1>6 DEF WorkOK
<1>8. CallAt(call, at') /\ at' \in FileStage
  BY DEF CallAt, FileStage
<1> QED BY <1>1, <1>7, <1>8, FileToolGoesOn

(* The tools that read.                                                    *)
LEMMA ReadTypes ==
  ASSUME TypeInv,
         \/ ResolveRead \/ ReadFile \/ ReadRoot \/ ReadGit \/ Visit \/ Listed
         \/ Walked \/ SearchFile \/ Searched \/ Reported
  PROVE  TypeInv'
<1> USE DEF history, Goes
<1>0. /\ WorkOK(work, at, call.tool) /\ CallAt(call, at) /\ call \in Call
      /\ content \in [Place -> Seq(Shown)] /\ relinked \in BOOLEAN /\ edited \in BOOLEAN
      /\ strays \subseteq Place /\ MaxOutput \in Nat /\ MaxEntries \in Nat
  BY ToolAssumption DEF TypeInv, TypeOK
<1>1. Steady
  BY DEF ResolveRead, ReadFile, ReadRoot, ReadGit, Visit, Listed, Walked, SearchFile, Searched,
         Reported
<1>2. CASE FileToolFails
  BY <1>1, <1>2, FailureTyped
<1>3. \A T : <<>> \in Seq(T)
  OBVIOUS
<1>4. CASE ResolveRead /\ ~FileToolFails
  <2>1. /\ work' = [work EXCEPT !.place = Real(call.place), !.files = <<Real(call.place)>>,
                                !.todo = <<Real(call.place)>>]
        /\ at = "resolve read" /\ Resolved(call, FALSE, TRUE)
        /\ at' = IF call.tool = "search_text" THEN "search" ELSE "read file"
        /\ relinked' = FALSE /\ edited' = FALSE /\ UNCHANGED <<result, once, content, strays>>
    BY <1>4 DEF ResolveRead
  <2>2. Real(call.place) \in Place
    BY <2>1, AllowedIsSettled
  <2>3. work = NoWork
    BY <1>0, <2>1 DEF WorkOK
  <2> DEFINE one == <<Real(call.place)>>
  <2>7. one \in Seq(Place)
    BY <2>2
  <2> HIDE DEF one
  <2>8. work' = [work EXCEPT !.place = Real(call.place), !.files = one, !.todo = one]
    BY <2>1 DEF one
  <2>4. /\ work' = [f \in DOMAIN NoWork |-> work'[f]]
        /\ work'.place \in Place /\ work'.files \in Seq(Place) /\ work'.todo \in Seq(Place)
        /\ UNCHANGED <<work.exists, work.base, work.text, work.visited, work.omitted>>
        /\ work'.found = <<>>
    BY <2>2, <2>3, <2>7, <2>8 DEF NoWork
  <2>5. WorkOK(work', at', call.tool)
    <3> HIDE DEF Shown, Match, Entry
    <3> QED BY <1>0, <1>3, <2>1, <2>4 DEF WorkOK
  <2>6. CallAt(call, at') /\ at' \in FileStage
    BY <1>0, <2>1 DEF CallAt, FileStage
  <2> QED BY <1>0, <1>1, <2>1, <2>5, <2>6, FileToolGoesOn
<1>5. CASE ReadFile /\ ~FileToolFails
  <2> DEFINE text == At(work.place)
             last == Min({call.last, Len(text)})
             lines == SubSeq(text, call.first, last)
  <2>1. /\ Reports(lines, MaxOutput) /\ at = "read file" /\ call.first <= Len(text)
        /\ Reaches(work.place, FALSE) /\ UNCHANGED <<content, relinked, edited>>
    BY <1>5 DEF ReadFile
  <2>2. text \in Seq(Shown)
    BY AtIsShown
  <2>3. call.tool = "read_file" /\ call.first \in Nat \ {0} /\ call.last \in Nat
    BY <1>0, <2>1, ToolAssumption DEF CallAt
  <2>4. last \in Nat /\ last <= Len(text)
    <3> HIDE DEF Shown
    <3>1. Len(text) \in Nat
      BY <2>2
    <3> HIDE DEF text
    <3> QED BY <2>3, <3>1, LesserOfTwo
  <2>5. lines \in Seq(Shown)
    <3> HIDE DEF Shown, text, last
    <3> QED BY <2>2, <2>3, <2>4
  <2>6. strays' \subseteq Place
    BY <1>0, <2>1, ReachedIsPlace
  <2>7. at' = "report" /\ UNCHANGED <<result, once>>
    BY <2>1 DEF Reports
  <2> HIDE DEF lines
  <2> QED BY <1>0, <1>1, <2>1, <2>3, <2>5, <2>6, <2>7, ReportTypes
<1>6. CASE (ReadRoot \/ ReadGit) /\ ~FileToolFails
  <2>1. /\ UNCHANGED <<result, once, content, strays>> /\ at' \in {"read git", "walk"}
        /\ relinked' \in {relinked, FALSE} /\ edited' \in {edited, FALSE}
        /\ call.tool \in {"list_files", "search_text"}
    BY <1>0, <1>6 DEF ReadRoot, ReadGit, CallAt
  <2>2. Names(Inside) \in Seq(Entry) /\ Names(InGit) \in Seq(Entry)
    BY NamesAreListed DEF Readable
  <2>3. WorkOK(work', at', call.tool)
    <3>1. CASE ReadRoot
      <4>1. work = NoWork /\ work' = [work EXCEPT !.todo = Names(Inside)] /\ at' = "read git"
        BY <1>0, <1>6, <3>1 DEF ReadRoot, WorkOK
      <4>2. /\ work' = [f \in DOMAIN NoWork |-> work'[f]]
            /\ work'.todo = Names(Inside) /\ work'.files = work.files
            /\ UNCHANGED <<work.exists, work.base, work.text, work.visited, work.omitted, work.place>>
            /\ work'.found = <<>>
        BY <4>1 DEF NoWork
      <4>3. WorkOK(work, at, call.tool)
        BY <1>0
      <4>4. at' = "read git"
        BY <4>1
      <4> HIDE DEF Shown, Match, Entry
      <4> QED BY <1>3, <2>2, <4>2, <4>3, <4>4 DEF WorkOK
    <3>2. CASE ReadGit
      <4>1. /\ work' = [work EXCEPT !.todo = IF call.tool = "search_text" \/ call.deep
                                             THEN Names(InGit) \o @ ELSE @,
                                    !.visited = 1]
            /\ at = "read git" /\ at' = "walk" /\ MaxEntries > 0
        BY <1>6, <3>2 DEF ReadGit
      <4>2. work.todo \in Seq(Entry) /\ work.found = <<>>
        BY <1>0, <4>1 DEF WorkOK
      <4>3. Names(InGit) \o work.todo \in Seq(Entry)
        <5> HIDE DEF Entry
        <5> QED BY <2>2, <4>2
      <4>4. /\ work' = [f \in DOMAIN NoWork |-> work'[f]]
            /\ work'.todo \in Seq(Entry) /\ work'.files = work.files
            /\ UNCHANGED <<work.exists, work.base, work.text, work.omitted, work.place>>
            /\ work'.found = <<>> /\ work'.visited = 1
        BY <1>0, <4>1, <4>2, <4>3 DEF NoWork, WorkOK
      <4>5. 1 \in 0 .. MaxEntries
        <5>1. MaxEntries > 0 /\ MaxEntries \in Nat
          BY <1>0, <4>1
        <5> QED BY <5>1
      <4> HIDE DEF Shown, Match, Entry
      <4> QED BY <1>0, <1>3, <4>1, <4>4, <4>5 DEF WorkOK
    <3> QED BY <1>6, <3>1, <3>2
  <2>4. CallAt(call, at') /\ at' \in FileStage
    BY <2>1 DEF CallAt, FileStage
  <2> QED BY <1>0, <1>1, <2>1, <2>3, <2>4, FileToolGoesOn
<1>7. CASE Visit /\ ~FileToolFails
  <2> DEFINE child == Head(work.todo)
  <2>1. /\ work' = [work EXCEPT !.todo = Tail(@), !.visited = @ + 1,
                                !.found = Append(@, child.name),
                                !.files = IF child.link THEN @ ELSE Append(@, Real(child.name))]
        /\ Real(child.name) \in Inside \cup InGit /\ work.visited < MaxEntries
        /\ at = "walk" /\ work.todo # <<>>
        /\ UNCHANGED <<at, result, once, content, relinked, edited, strays>>
    BY <1>7 DEF Visit
  <2>2. work.todo \in Seq(Entry) /\ work.files \in Seq(Place) /\ work.found \in Seq(Shown \cup Place)
    BY <1>0, <2>1 DEF WorkOK
  <2>3. Tail(work.todo) \in Seq(Entry) /\ child \in Entry
    <3> HIDE DEF Entry
    <3> QED BY <2>1, <2>2
  <2>4. child.name \in Shown \cup Place /\ Real(child.name) \in Place
    BY <2>1, <2>3 DEF Entry, Place
  <2>5. Append(work.found, child.name) \in Seq(Shown \cup Place)
    <3> HIDE DEF Shown, child
    <3> QED BY <2>2, <2>4
  <2>6. Append(work.files, Real(child.name)) \in Seq(Place)
    <3> HIDE DEF child
    <3> QED BY <2>2, <2>4
  <2>7. work.visited + 1 \in 0 .. MaxEntries
    BY <1>0, <2>1 DEF WorkOK
  <2> HIDE DEF child
  <2>8. /\ work' = [f \in DOMAIN NoWork |-> work'[f]]
        /\ work'.todo = Tail(work.todo) /\ work'.found = Append(work.found, child.name)
        /\ work'.files \in Seq(Place) /\ work'.visited = work.visited + 1
        /\ UNCHANGED <<work.exists, work.base, work.text, work.omitted, work.place>>
    BY <1>0, <2>1, <2>2, <2>6 DEF NoWork, WorkOK
  <2>9. WorkOK(work', at', call.tool)
    <3> HIDE DEF Shown, Match, Entry
    <3> QED BY <1>0, <2>1, <2>3, <2>5, <2>7, <2>8 DEF WorkOK
  <2> QED BY <1>0, <1>1, <2>1, <2>9, FileToolGoesOn DEF FileStage
<1>8. CASE Listed /\ ~FileToolFails
  <2>1. /\ Reports(work.found, MaxOutput) /\ at = "walk" /\ call.tool = "list_files"
        /\ UNCHANGED <<content, relinked, edited, strays>>
    BY <1>8 DEF Listed
  <2>2. work.found \in Seq(Shown \cup Place)
    BY <1>0, <2>1 DEF WorkOK
  <2>3. at' = "report" /\ UNCHANGED <<result, once>>
    BY <2>1 DEF Reports
  <2> QED BY <1>0, <1>1, <2>1, <2>2, <2>3, ReportTypes
<1>9. CASE Walked /\ ~FileToolFails
  <2>1. /\ work' = [work EXCEPT !.todo = work.files, !.found = <<>>]
        /\ at = "walk" /\ at' = "search" /\ call.tool = "search_text"
        /\ UNCHANGED <<result, once, content, relinked, edited, strays>>
    BY <1>9 DEF Walked
  <2>2. /\ work' = [f \in DOMAIN NoWork |-> work'[f]]
        /\ work'.todo \in Seq(Place) /\ work'.found = <<>>
        /\ UNCHANGED <<work.exists, work.base, work.text, work.omitted, work.place, work.visited, work.files>>
    BY <1>0, <2>1 DEF NoWork, WorkOK
  <2>3. WorkOK(work', at', call.tool)
    <3> HIDE DEF Shown, Match, Entry
    <3> QED BY <1>0, <1>3, <2>1, <2>2 DEF WorkOK
  <2>4. CallAt(call, at') /\ at' \in FileStage
    BY <2>1 DEF CallAt, FileStage
  <2> QED BY <1>0, <1>1, <2>1, <2>3, <2>4, FileToolGoesOn
<1>10. CASE SearchFile /\ ~FileToolFails
  <2> DEFINE file == Head(work.todo)
             text == At(file)
             lines == IF text = Binary THEN <<>> ELSE Lines(file, text, call.query)
  <2>1. /\ work' = [work EXCEPT !.todo = Tail(@), !.found = @ \o lines]
        /\ at = "search" /\ work.todo # <<>> /\ Reaches(file, FALSE)
        /\ UNCHANGED <<at, result, once, content, relinked, edited>>
    BY <1>10 DEF SearchFile
  <2>2. /\ work.todo \in Seq(Place) /\ work.found \in Seq(Match) /\ call.tool = "search_text"
    BY <1>0, <2>1 DEF WorkOK, CallAt
  <2>3. Tail(work.todo) \in Seq(Place) /\ file \in Place
    BY <2>1, <2>2
  <2>4. lines \in Seq(Match)
    <3>1. text \in Seq(Shown)
      BY AtIsShown
    <3>2. Lines(file, text, call.query) \in Seq({file} \X Nat)
      BY <3>1, LinesAreHits
    <3>3. {file} \X Nat \subseteq Match
      BY <2>3 DEF Match
    <3> DEFINE M == {file} \X Nat
    <3> HIDE DEF Match, M, file, text
    <3>4. Lines(file, text, call.query) \in Seq(Match)
      BY <3>2, <3>3 DEF M
    <3> QED BY <1>3, <3>4
  <2>5. work.found \o lines \in Seq(Match)
    <3> HIDE DEF lines, Match
    <3> QED BY <2>2, <2>4
  <2> HIDE DEF lines, file
  <2>6. /\ work' = [f \in DOMAIN NoWork |-> work'[f]]
        /\ work'.todo = Tail(work.todo) /\ work'.found = work.found \o lines
        /\ UNCHANGED <<work.exists, work.base, work.text, work.omitted, work.place, work.visited, work.files>>
    BY <1>0, <2>1 DEF NoWork, WorkOK
  <2>7. WorkOK(work', at', call.tool)
    <3> HIDE DEF Shown, Match, Entry
    <3> QED BY <1>0, <2>1, <2>2, <2>3, <2>5, <2>6 DEF WorkOK
  <2>8. strays' \subseteq Place
    BY <1>0, <2>1, ReachedIsPlace
  <2> QED BY <1>0, <1>1, <2>1, <2>7, <2>8, FileToolGoesOn DEF FileStage
<1>11. CASE Searched /\ ~FileToolFails
  <2>1. /\ Reports(work.found, Min({call.most, MaxOutput})) /\ at = "search"
        /\ UNCHANGED <<content, relinked, edited, strays>>
    BY <1>11 DEF Searched
  <2>2. work.found \in Seq(Match) /\ call.tool = "search_text"
    BY <1>0, <2>1 DEF WorkOK, CallAt
  <2>3. Min({call.most, MaxOutput}) \in Nat
    <3>1. call.most \in Nat /\ MaxOutput \in Nat
      BY <1>0, <2>2, ToolAssumption
    <3>2. Min({call.most, MaxOutput}) \in {call.most, MaxOutput}
      BY <3>1, LesserOfTwo
    <3> QED BY <3>1, <3>2
  <2>4. at' = "report" /\ UNCHANGED <<result, once>>
    BY <2>1 DEF Reports
  <2> QED BY <1>0, <1>1, <2>1, <2>2, <2>3, <2>4, ReportTypes
<1>12. CASE Reported
  BY <1>0, <1>1, <1>12, FileToolEnds DEF Reported
<1> QED BY <1>2, <1>4, <1>5, <1>6, <1>7, <1>8, <1>9, <1>10, <1>11, <1>12

(* The step a call begins with fits its tool.                              *)
LEMMA FirstStepFits ==
  ASSUME NEW c \in Call
  PROVE  /\ CallAt(c, FirstStep(c))
         /\ FirstStep(c) \in FileStage \cup {"extension", "spawn"}
<1>1. /\ c.tool = "read_file" => ~c.root
      /\ c.tool = "list_files" => c.root
  BY ToolAssumption
<1> QED BY <1>1 DEF FirstStep, CallAt, FileStage, ReadTools, CommandTool

ProcessType ==
  [main : BOOLEAN, others : BOOLEAN, told : {"no", "timeout", "cancelled"},
   kill : {"none", "running", "ok", "failed"}, fallback : BOOLEAN, finishing : BOOLEAN]

(* The steps of a command change its process, and end the call.            *)
LEMMA CommandTypes ==
  ASSUME TypeInv, CommandStep \/ Process
  PROVE  /\ process' \in ProcessType
         /\ \/ UNCHANGED <<at, result, once, work>>
            \/ at = "spawn" /\ at' = "command" /\ UNCHANGED <<result, once, work>>
            \/ \E how \in {"cancelled", "spawn_error", "exited", "timeout"} : Ended(how)
         /\ UNCHANGED <<mode, approvals, call, aborted, content, alias, relinked, edited, strays, spent>>
<1> USE DEF CommandSteady, disk, history
<1>0. process \in ProcessType
  BY DEF TypeInv, TypeOK, ProcessType
<1>1. ASSUME NEW fields \in ProcessType, Change(fields)
      PROVE  /\ process' \in ProcessType /\ UNCHANGED <<at, result, once, work>>
             /\ UNCHANGED <<mode, approvals, call, aborted, content, alias, relinked, edited, strays, spent>>
  BY <1>1 DEF Change
<1>2. CASE Spawn
  <2>1. [NoProcess EXCEPT !.main = TRUE] \in ProcessType
    BY DEF NoProcess, ProcessType
  <2>2. process' \in ProcessType
    BY <1>0, <1>2, <2>1 DEF Spawn
  <2> QED BY <1>2, <2>2 DEF Spawn
<1>3. CASE TimeLimit \/ AbortHeard
  <2>1. PICK reason \in {"timeout", "cancelled"} :
          Change([process EXCEPT !.told = reason, !.kill = "running", !.fallback = TRUE])
    BY <1>3 DEF TimeLimit, AbortHeard, Tell
  <2>2. [process EXCEPT !.told = reason, !.kill = "running", !.fallback = TRUE] \in ProcessType
    BY <1>0 DEF ProcessType
  <2> QED BY <1>1, <2>1, <2>2
<1>4. CASE KillEnds
  <2>1. PICK others \in {process.others, FALSE}, how \in {"ok", "failed"} :
          Change([process EXCEPT !.kill = how, !.others = others,
                                 !.main = IF how = "ok" \/ ~process.finishing THEN FALSE ELSE @])
    BY <1>4 DEF KillEnds
  <2>2. [process EXCEPT !.kill = how, !.others = others,
                        !.main = IF how = "ok" \/ ~process.finishing THEN FALSE ELSE @] \in ProcessType
    BY <1>0 DEF ProcessType
  <2> QED BY <1>1, <2>1, <2>2
<1>5. CASE Close \/ Fallback
  <2>1. Change([process EXCEPT !.finishing = TRUE, !.fallback = FALSE])
    BY <1>5 DEF Close, Fallback
  <2>2. [process EXCEPT !.finishing = TRUE, !.fallback = FALSE] \in ProcessType
    BY <1>0 DEF ProcessType
  <2> QED BY <1>1, <2>1, <2>2
<1>6. CASE Answer
  <2>1. PICK how : how = (IF process.told = "no" THEN "exited" ELSE process.told) /\ Ended(how)
    BY <1>6 DEF Answer
  <2>2. how \in {"cancelled", "spawn_error", "exited", "timeout"}
    BY <1>0, <2>1 DEF ProcessType
  <2> QED BY <1>0, <1>6, <2>1, <2>2 DEF Answer
<1>7. CASE Process
  <2>1. /\ [process EXCEPT !.others = TRUE] \in ProcessType
        /\ [process EXCEPT !.main = FALSE] \in ProcessType
        /\ [process EXCEPT !.others = FALSE] \in ProcessType
    BY <1>0 DEF ProcessType
  <2> QED BY <1>1, <1>7, <2>1 DEF Process
<1> QED BY <1>2, <1>3, <1>4, <1>5, <1>6, <1>7 DEF CommandStep

(* Every step keeps the types.                                             *)
LEMMA TypeStep ==
  ASSUME TypeInv, [Next]_vars
  PROVE  TypeInv'
<1> USE DEF disk, history, session
<1>0. /\ TypeOK /\ WorkOK(work, at, call.tool) /\ CallAt(call, at)
  BY DEF TypeInv
<1>1. CASE FileStep
  BY <1>1, WriteTypes, ReadTypes DEF FileStep
<1>2. ASSUME WorkOK(work', at', call'.tool)
      PROVE  (work \in Work)'
  <2>1. WorkOK(work, at, call.tool)'
    BY <1>2
  <2> QED BY <2>1, WorkIsTyped, PTL
<1>3. CASE Ask
  <2>1. PICK c \in Call :
          LET decision == Evaluate(mode, c, Key(c) \in approvals) IN
          /\ call' = c
          /\ result' = IF decision = "deny" THEN "refused" ELSE "none"
          /\ at' = CASE decision = "deny" -> "idle"
                     [] decision = "ask" -> "asked"
                     [] decision = "allow" -> FirstStep(c)
    BY <1>3 DEF Ask
  <2>2. Evaluate(mode, c, Key(c) \in approvals) \in {"deny", "ask", "allow"}
    <3>1. \A approved \in BOOLEAN : Evaluate(mode, c, approved) \in {"deny", "ask", "allow"}
      BY DecisionKinds
    <3>2. (Key(c) \in approvals) \in BOOLEAN
      OBVIOUS
    <3> QED BY <3>1, <3>2, Zenon
  <2>3. at' \in {"idle", "asked", FirstStep(c)} /\ result' \in {"refused", "none"}
    BY <2>1, <2>2
  <2>4. CallAt(call', at') /\ at' \in FileStage \cup {"idle", "asked", "extension", "spawn"}
    BY <2>1, <2>3, FirstStepFits DEF CallAt
  <2>5. work' = NoWork /\ aborted' = FALSE /\ process' = NoProcess
        /\ UNCHANGED <<mode, approvals, once, content, alias, relinked, edited, strays>>
    BY <1>0, <1>3 DEF Ask, WorkOK
  <2>6. WorkOK(work', at', call'.tool)
    BY <2>5, NothingHeld
  <2>7. spent' \in [calls : 0 .. MaxCalls, meddling : 0 .. MaxMeddling]
    <3>1. spent.calls + 1 \in 0 .. MaxCalls
      BY <1>0, <1>3, ToolAssumption DEF Ask, TypeOK
    <3>2. spent' = [spent EXCEPT !.calls = spent.calls + 1]
      BY <1>3 DEF Ask
    <3> QED BY <1>0, <3>1, <3>2 DEF TypeOK
  <2>8. NoProcess \in ProcessType
    BY DEF NoProcess, ProcessType
  <2>9. TypeOK'
    <3>1. call' \in Call /\ at' \in FileStage \cup {"idle", "asked", "extension", "spawn", "command"}
      BY <2>1, <2>4
    <3>2. (work \in Work)' /\ result' \in {"refused", "none"}
      BY <1>2, <2>3, <2>6
    <3> QED BY <1>0, <2>5, <2>7, <2>8, <3>1, <3>2 DEF TypeOK, ProcessType
  <2> QED BY <2>4, <2>6, <2>9 DEF TypeInv
<1>4. CASE Approve
  <2>1. CASE Ended("refused")
    <3>1. WorkOK(work', at', call'.tool) /\ CallAt(call', at')
      BY <2>1, NothingHeld DEF Ended, CallAt
    <3> QED BY <1>0, <1>2, <1>4, <2>1, <3>1 DEF TypeInv, TypeOK, Approve, Ended
  <2>2. CASE ~Ended("refused")
    <3>1. /\ approvals' \in {approvals, approvals \cup {call}} /\ once' = TRUE
          /\ at = "asked" /\ at' = FirstStep(call)
          /\ UNCHANGED <<mode, result, work, call, aborted, content, alias, process, relinked, edited, strays, spent>>
      BY <1>4, <2>2 DEF Approve, Key
    <3>2. work' = NoWork
      BY <1>0, <3>1 DEF WorkOK
    <3>3. WorkOK(work', at', call'.tool)
      BY <3>2, NothingHeld
    <3>4. CallAt(call', at') /\ at' \in FileStage \cup {"extension", "spawn"}
      BY <1>0, <3>1, FirstStepFits DEF TypeOK
    <3>5. TypeOK'
      BY <1>0, <1>2, <3>1, <3>3, <3>4 DEF TypeOK
    <3> QED BY <3>3, <3>4, <3>5 DEF TypeInv
  <2> QED BY <2>1, <2>2
<1>5. CASE ChangeMode
  <2>1. WorkOK(work', at', call'.tool) /\ CallAt(call', at')
    BY <1>0, <1>5 DEF ChangeMode
  <2> QED BY <1>0, <1>2, <1>5, <2>1 DEF TypeInv, TypeOK, ChangeMode
<1>6. CASE Cancel \/ ExtensionTool
  <2>1. /\ \/ \E how \in {"cancelled", "done"} : Ended(how)
           \/ UNCHANGED <<at, result, once, work>>
        /\ aborted' \in BOOLEAN
        /\ UNCHANGED <<mode, approvals, call, content, alias, process, relinked, edited, strays, spent>>
    BY <1>0, <1>6 DEF Cancel, ExtensionTool, TypeOK
  <2>2. WorkOK(work', at', call'.tool) /\ CallAt(call', at')
    BY <1>0, <2>1, NothingHeld DEF Ended, CallAt
  <2>3. /\ once' \in BOOLEAN
        /\ at' \in FileStage \cup {"idle", "asked", "extension", "spawn", "command"}
        /\ result' \in {"none", "refused", "done", "failed", "cancelled", "timeout", "exited", "spawn_error"}
    BY <1>0, <2>1 DEF Ended, TypeOK
  <2>4. TypeOK'
    BY <1>0, <1>2, <2>1, <2>2, <2>3 DEF TypeOK
  <2> QED BY <2>2, <2>4 DEF TypeInv
<1>7. CASE Meddle
  <2>1. UNCHANGED <<mode, approvals, once, call, at, aborted, work, process, result, strays>>
    BY <1>7 DEF Meddle
  <2>2. /\ content' \in [Place -> Seq(Shown)] /\ alias' \in [Place -> Place \cup {Nowhere}]
        /\ relinked' \in BOOLEAN /\ edited' \in BOOLEAN
    <3>1. {Absent, Binary} \cup Text \subseteq Seq(Shown)
      BY TextsAreShown
    <3> HIDE DEF Shown
    <3> QED BY <1>0, <1>7, <3>1 DEF Meddle, TypeOK
  <2>3. spent' \in [calls : 0 .. MaxCalls, meddling : 0 .. MaxMeddling]
    <3>1. spent.meddling + 1 \in 0 .. MaxMeddling
      BY <1>0, <1>7, ToolAssumption DEF Meddle, TypeOK
    <3>2. spent' = [spent EXCEPT !.meddling = spent.meddling + 1]
      BY <1>7 DEF Meddle
    <3> QED BY <1>0, <3>1, <3>2 DEF TypeOK
  <2>4. WorkOK(work', at', call'.tool) /\ CallAt(call', at')
    BY <1>0, <2>1
  <2>5. TypeOK'
    BY <1>0, <1>2, <2>1, <2>2, <2>3, <2>4 DEF TypeOK
  <2> QED BY <2>4, <2>5 DEF TypeInv
<1>8. CASE CommandStep \/ Process
  <2>1. /\ process' \in ProcessType
        /\ \/ UNCHANGED <<at, result, once, work>>
           \/ at = "spawn" /\ at' = "command" /\ UNCHANGED <<result, once, work>>
           \/ \E how \in {"cancelled", "spawn_error", "exited", "timeout"} : Ended(how)
        /\ UNCHANGED <<mode, approvals, call, aborted, content, alias, relinked, edited, strays, spent>>
    BY <1>8, CommandTypes
  <2>2. WorkOK(work', at', call'.tool)
    <3>1. CASE at = "spawn" /\ at' = "command" /\ work' = work
      BY <1>0, <2>1, <3>1 DEF WorkOK
    <3>2. CASE work' = NoWork
      BY <3>2, NothingHeld
    <3> QED BY <1>0, <2>1, <3>1, <3>2 DEF Ended
  <2>3. CallAt(call', at')
    BY <1>0, <2>1 DEF CallAt, Ended
  <2>4. /\ once' \in BOOLEAN
        /\ at' \in FileStage \cup {"idle", "asked", "extension", "spawn", "command"}
        /\ result' \in {"none", "refused", "done", "failed", "cancelled", "timeout", "exited", "spawn_error"}
    BY <1>0, <2>1 DEF Ended, TypeOK
  <2>5. TypeOK'
    BY <1>0, <1>2, <2>1, <2>2, <2>4 DEF TypeOK, ProcessType
  <2> QED BY <2>2, <2>3, <2>5 DEF TypeInv
<1>9. CASE UNCHANGED vars
  <2>1. WorkOK(work', at', call'.tool) /\ CallAt(call', at')
    BY <1>0, <1>9 DEF vars
  <2> QED BY <1>0, <1>2, <1>9, <2>1 DEF vars, TypeInv, TypeOK
<1> QED BY <1>1, <1>3, <1>4, <1>5, <1>6, <1>7, <1>8, <1>9 DEF Next

LEMMA TypeInit == Init => TypeInv
<1> SUFFICES ASSUME Init PROVE TypeInv
  OBVIOUS
<1>1. (CHOOSE c \in Call : TRUE) \in Call
  BY ToolAssumption
<1>2. WorkOK(work, at, call.tool) /\ CallAt(call, at)
  BY NothingHeld DEF Init, CallAt
<1>3. work \in Work
  BY <1>2, WorkIsTyped
<1>4. content \in [Place -> Seq(Shown)]
  BY TextsAreShown DEF Init
<1>5. process \in ProcessType
  BY DEF Init, NoProcess, ProcessType
<1>6. alias \in [Place -> Place \cup {Nowhere}]
  BY DEF Init
<1>7. spent \in [calls : 0 .. MaxCalls, meddling : 0 .. MaxMeddling]
  BY ToolAssumption DEF Init
<1>8. TypeOK
  BY <1>1, <1>3, <1>4, <1>5, <1>6, <1>7 DEF Init, TypeOK, ProcessType
<1> QED BY <1>2, <1>8 DEF TypeInv

(* Every variable keeps its type: the texts of files stay texts, and what  *)
(* a tool holds fits the stage it has reached.                             *)
THEOREM ToolTypes == Spec => []TypeOK
<1>1. TypeInv => TypeOK
  BY DEF TypeInv
<1> QED BY <1>1, TypeInit, TypeStep, PTL DEF Spec

-----------------------------------------------------------------------------
(* A search of the workspace finds everything                              *)

LEMMA HeadAndTail ==
  ASSUME NEW S, NEW s \in Seq(S), s # <<>>
  PROVE  /\ Head(s) \in ToSet(s) /\ ToSet(s) = {Head(s)} \cup ToSet(Tail(s))
         /\ \A i \in DOMAIN Tail(s) : i + 1 \in DOMAIN s /\ Tail(s)[i] = s[i + 1]
         /\ Distinct(s) => Distinct(Tail(s)) /\ Head(s) \notin ToSet(Tail(s))
<1>1. /\ Len(s) \in Nat \ {0} /\ DOMAIN s = 1 .. Len(s) /\ DOMAIN Tail(s) = 1 .. Len(s) - 1
      /\ Head(s) = s[1] /\ \A i \in 1 .. Len(s) - 1 : Tail(s)[i] = s[i + 1]
  OBVIOUS
<1>2. \A i \in DOMAIN Tail(s) : i + 1 \in DOMAIN s /\ i + 1 # 1 /\ Tail(s)[i] = s[i + 1]
  BY <1>1
<1>3. \A j \in DOMAIN s : j = 1 \/ (j - 1 \in DOMAIN Tail(s) /\ Tail(s)[j - 1] = s[j])
  BY <1>1
<1>4. 1 \in DOMAIN s
  BY <1>1
<1>5. ToSet(s) = {Head(s)} \cup ToSet(Tail(s))
  <2>1. ToSet(s) \subseteq {Head(s)} \cup ToSet(Tail(s))
    BY <1>1, <1>3 DEF ToSet
  <2>2. {Head(s)} \cup ToSet(Tail(s)) \subseteq ToSet(s)
    BY <1>1, <1>2, <1>4 DEF ToSet
  <2> QED BY <2>1, <2>2
<1>6. ASSUME Distinct(s)
      PROVE  Distinct(Tail(s)) /\ Head(s) \notin ToSet(Tail(s))
  <2>1. \A i \in DOMAIN Tail(s) : Tail(s)[i] # Head(s)
    BY <1>1, <1>2, <1>4, <1>6 DEF Distinct
  <2>2. ASSUME NEW i \in DOMAIN Tail(s), NEW j \in DOMAIN Tail(s), Tail(s)[i] = Tail(s)[j]
        PROVE  i = j
    <3>1. i + 1 = j + 1 /\ i \in Nat /\ j \in Nat
      BY <1>1, <1>2, <1>6, <2>2 DEF Distinct
    <3> QED BY <3>1
  <2> QED BY <2>1, <2>2 DEF Distinct, ToSet
<1> QED BY <1>2, <1>5, <1>6

LEMMA JoinedSequences ==
  ASSUME NEW S, NEW s \in Seq(S), NEW t \in Seq(S)
  PROVE  /\ ToSet(s \o t) = ToSet(s) \cup ToSet(t)
         /\ Distinct(s) /\ Distinct(t) /\ ToSet(s) \cap ToSet(t) = {} => Distinct(s \o t)
<1> DEFINE m == Len(s)
           n == Len(t)
<1>1. /\ m \in Nat /\ n \in Nat /\ DOMAIN s = 1 .. m /\ DOMAIN t = 1 .. n
      /\ DOMAIN (s \o t) = 1 .. m + n
      /\ \A i \in 1 .. m + n : (s \o t)[i] = IF i <= m THEN s[i] ELSE t[i - m]
  OBVIOUS
<1> HIDE DEF m, n
<1>2. \A i \in 1 .. m : i \in 1 .. m + n /\ (s \o t)[i] = s[i]
  BY <1>1
<1>3. \A i \in 1 .. n : i + m \in 1 .. m + n /\ (s \o t)[i + m] = t[i]
  BY <1>1
<1>4. \A i \in 1 .. m + n : \/ i \in 1 .. m /\ (s \o t)[i] = s[i]
                            \/ ~(i <= m) /\ i - m \in 1 .. n /\ (s \o t)[i] = t[i - m]
  BY <1>1
<1>5. ToSet(s \o t) = ToSet(s) \cup ToSet(t)
  <2>1. ToSet(s \o t) \subseteq ToSet(s) \cup ToSet(t)
    BY <1>1, <1>4 DEF ToSet
  <2>2. ToSet(s) \subseteq ToSet(s \o t)
    BY <1>1, <1>2 DEF ToSet
  <2>3. ToSet(t) \subseteq ToSet(s \o t)
    BY <1>1, <1>3 DEF ToSet
  <2> QED BY <2>1, <2>2, <2>3
<1>6. ASSUME Distinct(s), Distinct(t), ToSet(s) \cap ToSet(t) = {}
      PROVE  Distinct(s \o t)
  <2> SUFFICES ASSUME NEW i \in 1 .. m + n, NEW j \in 1 .. m + n, (s \o t)[i] = (s \o t)[j]
               PROVE  i = j
    BY <1>1 DEF Distinct
  <2>1. \A a \in 1 .. m, b \in 1 .. n : s[a] # t[b]
    BY <1>1, <1>6 DEF ToSet
  <2>2. CASE i \in 1 .. m /\ j \in 1 .. m
    BY <1>1, <1>2, <1>6, <2>2 DEF Distinct
  <2>3. CASE ~(i <= m) /\ ~(j <= m)
    <3>1. i - m \in 1 .. n /\ j - m \in 1 .. n /\ t[i - m] = t[j - m]
      BY <1>1, <1>4, <2>3
    <3>2. i - m = j - m
      BY <1>1, <1>6, <3>1 DEF Distinct
    <3> QED BY <1>1, <3>2
  <2>4. CASE i \in 1 .. m /\ ~(j <= m)
    BY <1>1, <1>4, <2>1, <2>4
  <2>5. CASE j \in 1 .. m /\ ~(i <= m)
    BY <1>1, <1>4, <2>1, <2>5
  <2> QED BY <1>4, <2>2, <2>3, <2>4, <2>5
<1> QED BY <1>5, <1>6

(* The files of the workspace, and the lines of them that have the query.  *)
PlainIn(c, a) == {p \in Readable : a[p] = p /\ c[p] # Absent}

HitsIn(c, q, places) ==
  {x \in places \X Nat : c[x[1]] # Binary /\ x[2] \in DOMAIN c[x[1]] /\ c[x[1]][x[2]] = q}

(* Every file was seen or is still to be visited, and none comes twice.    *)
WalkSoFar(todo, files, c, a) ==
  /\ NamesOf(todo) \subseteq Readable /\ Truthful(todo, a) /\ NamedOnce(todo)
  /\ Distinct(files) /\ ToSet(files) \subseteq PlainIn(c, a)
  /\ ToSet(files) \cap NamesOf(todo) = {}
  /\ PlainIn(c, a) \subseteq ToSet(files) \cup NamesOf(todo)

(* What was found are the lines of the files that were searched.           *)
SearchSoFar(todo, found, c, a, q) ==
  /\ Distinct(todo) /\ ToSet(todo) \subseteq PlainIn(c, a)
  /\ Distinct(found) /\ ToSet(found) = HitsIn(c, q, PlainIn(c, a) \ ToSet(todo))

Complete(found, omitted, c, a, q) ==
  LET hits == HitsIn(c, q, PlainIn(c, a))
  IN  /\ Distinct(found) /\ ToSet(found) \subseteq hits
      /\ Len(found) + omitted = Cardinality(hits)

SearchInv ==
  (call.tool = "search_text" /\ call.root /\ ~edited) =>
    /\ at = "read git" =>
         /\ Truthful(work.todo, alias) /\ NamedOnce(work.todo)
         /\ NamesOf(work.todo) = {p \in Inside : content[p] # Absent \/ alias[p] # p}
    /\ at = "walk" => WalkSoFar(work.todo, work.files, content, alias)
    /\ at = "search" => SearchSoFar(work.todo, work.found, content, alias, call.query)
    /\ at = "report" => Complete(work.found, work.omitted, content, alias, call.query)

(* The walk begins with the names of .git and then those of the root.      *)
LEMMA WalkBegins ==
  ASSUME NEW root \in Seq(Entry), Truthful(root, alias), NamedOnce(root),
         NamesOf(root) = {p \in Inside : content[p] # Absent \/ alias[p] # p}
  PROVE  WalkSoFar(Names(InGit) \o root, <<>>, content, alias)
<1> DEFINE git == Names(InGit)
           todo == git \o root
           m == Len(git)
           n == Len(root)
<1>1. /\ git \in Seq(Entry) /\ Truthful(git, alias) /\ NamedOnce(git)
      /\ NamesOf(git) = {p \in InGit : content[p] # Absent \/ alias[p] # p}
  BY NamesAreListed DEF Readable
<1> HIDE DEF git
<1>2. /\ m \in Nat /\ n \in Nat /\ DOMAIN git = 1 .. m /\ DOMAIN root = 1 .. n
      /\ DOMAIN todo = 1 .. m + n
      /\ \A i \in 1 .. m + n : todo[i] = IF i <= m THEN git[i] ELSE root[i - m]
  BY <1>1
<1> HIDE DEF m, n, todo
<1>3. \A i \in 1 .. m : i \in 1 .. m + n /\ todo[i] = git[i]
  BY <1>2
<1>4. \A i \in 1 .. n : i + m \in 1 .. m + n /\ todo[i + m] = root[i]
  BY <1>2
<1>5. \A i \in 1 .. m + n : \/ i \in 1 .. m /\ todo[i] = git[i]
                            \/ ~(i <= m) /\ i - m \in 1 .. n /\ todo[i] = root[i - m]
  BY <1>2
<1>6. NamesOf(todo) = NamesOf(git) \cup NamesOf(root)
  <2>1. NamesOf(todo) \subseteq NamesOf(git) \cup NamesOf(root)
    <3>1. ASSUME NEW i \in DOMAIN todo PROVE todo[i].name \in NamesOf(git) \cup NamesOf(root)
      <4>1. i \in 1 .. m + n
        BY <1>2, <3>1
      <4>2. \/ i \in DOMAIN git /\ todo[i] = git[i]
            \/ i - m \in DOMAIN root /\ todo[i] = root[i - m]
        BY <1>2, <1>5, <4>1
      <4> QED BY <4>2 DEF NamesOf
    <3> QED BY <3>1 DEF NamesOf
  <2>2. NamesOf(git) \subseteq NamesOf(todo)
    BY <1>2, <1>3 DEF NamesOf
  <2>3. NamesOf(root) \subseteq NamesOf(todo)
    <3>1. ASSUME NEW i \in DOMAIN root PROVE root[i].name \in NamesOf(todo)
      <4>1. i + m \in DOMAIN todo /\ todo[i + m] = root[i]
        BY <1>2, <1>4, <3>1
      <4> QED BY <4>1 DEF NamesOf
    <3> QED BY <3>1 DEF NamesOf
  <2> QED BY <2>1, <2>2, <2>3
<1>7. Truthful(todo, alias)
  BY <1>1, <1>2, <1>5 DEF Truthful
<1>8. NamedOnce(todo)
  <2> SUFFICES ASSUME NEW i \in 1 .. m + n, NEW j \in 1 .. m + n, todo[i].name = todo[j].name
               PROVE  i = j
    BY <1>2 DEF NamedOnce
  <2>1. \A a \in 1 .. m, b \in 1 .. n : git[a].name # root[b].name
    <3>1. \A a \in 1 .. m : git[a].name \in InGit
      <4>1. \A a \in DOMAIN git : git[a].name \in NamesOf(git)
        BY DEF NamesOf
      <4> QED BY <1>1, <1>2, <4>1
    <3>2. \A b \in 1 .. n : root[b].name \in Inside
      <4>1. \A b \in DOMAIN root : root[b].name \in NamesOf(root)
        BY DEF NamesOf
      <4> QED BY <1>2, <4>1
    <3> QED BY <3>1, <3>2, ToolAssumption
  <2>2. CASE i \in 1 .. m /\ j \in 1 .. m
    BY <1>1, <1>2, <1>3, <2>2 DEF NamedOnce
  <2>3. CASE ~(i <= m) /\ ~(j <= m)
    <3>1. i - m \in 1 .. n /\ j - m \in 1 .. n /\ root[i - m].name = root[j - m].name
      BY <1>5, <2>3
    <3>2. i - m = j - m
      BY <1>2, <3>1 DEF NamedOnce
    <3> QED BY <1>2, <3>2
  <2>4. CASE i \in 1 .. m /\ ~(j <= m)
    BY <1>5, <2>1, <2>4
  <2>5. CASE j \in 1 .. m /\ ~(i <= m)
    BY <1>5, <2>1, <2>5
  <2> QED BY <1>5, <2>2, <2>3, <2>4, <2>5
<1>9. PlainIn(content, alias) \subseteq NamesOf(todo) /\ NamesOf(todo) \subseteq Readable
  BY <1>1, <1>6 DEF PlainIn, Readable
<1>10. ToSet(<<>>) = {} /\ Distinct(<<>>)
  BY DEF ToSet, Distinct
<1> QED BY <1>7, <1>8, <1>9, <1>10 DEF WalkSoFar, todo, git

LEMMA OneAppended ==
  ASSUME NEW S, NEW s \in Seq(S), NEW e \in S
  PROVE  /\ ToSet(Append(s, e)) = ToSet(s) \cup {e}
         /\ Distinct(s) /\ e \notin ToSet(s) => Distinct(Append(s, e))
<1>1. Append(s, e) = s \o <<e>> /\ <<e>> \in Seq(S)
  OBVIOUS
<1>2. ToSet(<<e>>) = {e} /\ Distinct(<<e>>)
  BY DEF ToSet, Distinct
<1> DEFINE t == <<e>>
<1> HIDE DEF t
<1>3. /\ ToSet(s \o t) = ToSet(s) \cup ToSet(t)
      /\ Distinct(s) /\ Distinct(t) /\ ToSet(s) \cap ToSet(t) = {} => Distinct(s \o t)
  BY <1>1, JoinedSequences DEF t
<1>4. Append(s, e) = s \o t /\ ToSet(t) = {e} /\ Distinct(t)
  BY <1>1, <1>2 DEF t
<1> QED BY <1>3, <1>4

(* A name is visited: what is no link is a file to be searched.            *)
LEMMA WalkGoesOn ==
  ASSUME NEW todo \in Seq(Entry), NEW files \in Seq(Place), NEW c, NEW a,
         WalkSoFar(todo, files, c, a), todo # <<>>,
         c[Head(todo).name] # Absent \/ Head(todo).link
  PROVE  WalkSoFar(Tail(todo), IF Head(todo).link THEN files ELSE Append(files, Head(todo).name), c, a)
<1> DEFINE child == Head(todo)
           rest == Tail(todo)
<1>1. /\ child \in Entry /\ rest \in Seq(Entry) /\ 1 \in DOMAIN todo /\ child = todo[1]
      /\ DOMAIN rest \subseteq Nat /\ DOMAIN todo = 1 .. Len(todo) /\ Len(todo) \in Nat
  <2> HIDE DEF Entry
  <2> QED OBVIOUS
<1>2. \A i \in DOMAIN rest : i + 1 \in DOMAIN todo /\ i + 1 # 1 /\ i \in Nat /\ rest[i] = todo[i + 1]
  <2>1. \A i \in DOMAIN rest : i + 1 \in DOMAIN todo /\ rest[i] = todo[i + 1]
    BY HeadAndTail
  <2> HIDE DEF rest
  <2>2. \A i \in DOMAIN rest : i \in Nat /\ (i + 1 = 1 => i = 0)
    BY <1>1
  <2>3. 0 \notin DOMAIN rest
    BY <1>1 DEF rest
  <2> QED BY <2>1, <2>2, <2>3
<1>3. ToSet(todo) = {child} \cup ToSet(rest)
  BY HeadAndTail
<1>4. child.name \in Place /\ child.link = (a[child.name] # child.name)
  BY <1>1 DEF WalkSoFar, Truthful, Entry
<1> HIDE DEF child, rest
<1>5. NamesOf(todo) = {child.name} \cup NamesOf(rest)
  <2>1. \A s : NamesOf(s) = {e.name : e \in ToSet(s)}
    BY DEF NamesOf, ToSet
  <2>2. NamesOf(todo) = {e.name : e \in ToSet(todo)} /\ NamesOf(rest) = {e.name : e \in ToSet(rest)}
    BY <2>1
  <2> QED BY <1>3, <2>2
<1>6. child.name \notin NamesOf(rest)
  <2>1. \A i \in DOMAIN rest : rest[i].name # child.name
    BY <1>1, <1>2 DEF WalkSoFar, NamedOnce
  <2> QED BY <2>1 DEF NamesOf
<1>7. Truthful(rest, a) /\ NamedOnce(rest)
  <2>1. Truthful(rest, a)
    BY <1>2 DEF WalkSoFar, Truthful
  <2>2. ASSUME NEW i \in DOMAIN rest, NEW j \in DOMAIN rest, rest[i].name = rest[j].name
        PROVE  i = j
    <3>1. i + 1 = j + 1 /\ i \in Nat /\ j \in Nat
      BY <1>2, <2>2 DEF WalkSoFar, NamedOnce
    <3> QED BY <3>1
  <2> QED BY <2>1, <2>2 DEF NamedOnce
<1>8. CASE child.link
  <2>1. child.name \notin PlainIn(c, a)
    BY <1>4, <1>8 DEF PlainIn
  <2>2. WalkSoFar(rest, files, c, a)
    BY <1>5, <1>7, <2>1 DEF WalkSoFar
  <2> QED BY <1>8, <2>2 DEF child, rest
<1>9. CASE ~child.link
  <2>1. child.name \in PlainIn(c, a)
    BY <1>4, <1>5, <1>9 DEF PlainIn, WalkSoFar, child
  <2>2. child.name \notin ToSet(files)
    BY <1>5 DEF WalkSoFar
  <2>3. /\ ToSet(Append(files, child.name)) = ToSet(files) \cup {child.name}
        /\ Distinct(Append(files, child.name))
    BY <1>4, <2>2, OneAppended DEF WalkSoFar
  <2>4. WalkSoFar(rest, Append(files, child.name), c, a)
    BY <1>5, <1>6, <1>7, <2>1, <2>3 DEF WalkSoFar
  <2> QED BY <1>9, <2>4 DEF child, rest
<1> QED BY <1>8, <1>9

(* When all names are visited, the files are all there is to search.       *)
LEMMA SearchBegins ==
  ASSUME NEW files, NEW c, NEW a, NEW q, WalkSoFar(<<>>, files, c, a)
  PROVE  SearchSoFar(files, <<>>, c, a, q)
<1>1. NamesOf(<<>>) = {} /\ ToSet(<<>>) = {} /\ Distinct(<<>>)
  BY DEF NamesOf, ToSet, Distinct
<1>2. ToSet(files) = PlainIn(c, a) /\ Distinct(files)
  BY <1>1 DEF WalkSoFar
<1>3. HitsIn(c, q, PlainIn(c, a) \ ToSet(files)) = {}
  BY <1>2 DEF HitsIn
<1> QED BY <1>1, <1>2, <1>3 DEF SearchSoFar

(* A file is searched.                                                     *)
LEMMA SearchGoesOn ==
  ASSUME NEW todo \in Seq(Place), NEW found \in Seq(Match), NEW c, NEW a, NEW q,
         SearchSoFar(todo, found, c, a, q), todo # <<>>, c[Head(todo)] \in Seq(Shown)
  PROVE  LET lines == IF c[Head(todo)] = Binary THEN <<>> ELSE Lines(Head(todo), c[Head(todo)], q)
         IN  SearchSoFar(Tail(todo), found \o lines, c, a, q)
<1> DEFINE file == Head(todo)
           rest == Tail(todo)
           lines == IF c[file] = Binary THEN <<>> ELSE Lines(file, c[file], q)
           plain == PlainIn(c, a)
<1>1. /\ ToSet(todo) = {file} \cup ToSet(rest) /\ Distinct(rest) /\ file \notin ToSet(rest)
  BY HeadAndTail DEF SearchSoFar
<1>2. file \in Place
  OBVIOUS
<1>3. /\ Lines(file, c[file], q) \in Seq({file} \X Nat) /\ Distinct(Lines(file, c[file], q))
      /\ ToSet(Lines(file, c[file], q)) = NumberedHits(file, c[file], q)
  <2>1. c[file] \in Seq(Shown)
    OBVIOUS
  <2> DEFINE text == c[file]
  <2> HIDE DEF text, file
  <2>2. /\ Lines(file, text, q) \in Seq({file} \X Nat) /\ Distinct(Lines(file, text, q))
        /\ ToSet(Lines(file, text, q)) = NumberedHits(file, text, q)
    <3>1. text \in Seq(Shown)
      BY <2>1 DEF text
    <3> DEFINE S == Shown
    <3> HIDE DEF S
    <3>2. text \in Seq(S)
      BY <3>1 DEF S
    <3>3. Lines(file, text, q) \in Seq({file} \X Nat)
      BY <3>2, LinesAreHits
    <3>4. Distinct(Lines(file, text, q))
      BY <3>2, LinesAreHits
    <3>5. ToSet(Lines(file, text, q)) = NumberedHits(file, text, q)
      BY <3>2, LinesAreHits
    <3> QED BY <3>3, <3>4, <3>5
  <2> QED BY <2>2 DEF text
<1>4. DOMAIN c[file] \subseteq Nat
  <2> HIDE DEF Shown, file
  <2>1. c[file] \in Seq(Shown)
    BY DEF file
  <2> QED BY <2>1
<1> HIDE DEF file, rest, plain
<1>5. ToSet(<<>>) = {} /\ Distinct(<<>>)
  BY DEF ToSet, Distinct
<1>6. Distinct(lines) /\ ToSet(lines) = HitsIn(c, q, {file})
  <2>1. CASE c[file] = Binary
    <3>1. HitsIn(c, q, {file}) = {}
      BY <2>1 DEF HitsIn
    <3> QED BY <1>5, <2>1, <3>1
  <2>2. CASE c[file] # Binary
    <3>1. HitsIn(c, q, {file}) = NumberedHits(file, c[file], q)
      BY <1>4, <2>2 DEF HitsIn, NumberedHits
    <3> QED BY <1>3, <2>2, <3>1
  <2> QED BY <2>1, <2>2
<1>7. lines \in Seq(Match)
  <2>1. {file} \X Nat \subseteq Match
    BY <1>2 DEF Match
  <2> DEFINE M == {file} \X Nat
  <2> HIDE DEF M, Match
  <2>2. Lines(file, c[file], q) \in Seq(Match)
    BY <1>3, <2>1 DEF M
  <2>3. <<>> \in Seq(Match)
    OBVIOUS
  <2> QED BY <2>2, <2>3
<1> HIDE DEF lines
<1>8. file \in plain /\ ToSet(rest) \subseteq plain
  BY <1>1 DEF SearchSoFar, plain
<1>9. plain \ ToSet(rest) = (plain \ ToSet(todo)) \cup {file}
  BY <1>1, <1>8
<1>10. HitsIn(c, q, plain \ ToSet(rest)) = HitsIn(c, q, plain \ ToSet(todo)) \cup HitsIn(c, q, {file})
  BY <1>9 DEF HitsIn
<1>11. HitsIn(c, q, plain \ ToSet(todo)) \cap HitsIn(c, q, {file}) = {}
  <2>1. file \notin plain \ ToSet(todo)
    BY <1>1
  <2>2. \A x, P : x \in HitsIn(c, q, P) => x[1] \in P
    BY DEF HitsIn
  <2> QED BY <2>1, <2>2
<1>12. ToSet(found) = HitsIn(c, q, plain \ ToSet(todo)) /\ Distinct(found)
  BY DEF SearchSoFar, plain
<1>13. ToSet(found \o lines) = ToSet(found) \cup ToSet(lines) /\ Distinct(found \o lines)
  <2>1. ToSet(found) \cap ToSet(lines) = {}
    BY <1>6, <1>11, <1>12
  <2>2. /\ ToSet(found \o lines) = ToSet(found) \cup ToSet(lines)
        /\ Distinct(found) /\ Distinct(lines) /\ ToSet(found) \cap ToSet(lines) = {}
             => Distinct(found \o lines)
    BY <1>7, JoinedSequences
  <2> QED BY <1>6, <1>12, <2>1, <2>2
<1>14. SearchSoFar(rest, found \o lines, c, a, q)
  BY <1>1, <1>6, <1>8, <1>10, <1>12, <1>13 DEF SearchSoFar, plain
<1> QED BY <1>14 DEF lines, rest, file

(* When all files are searched, what is reported and what is left out      *)
(* together are all there is.                                              *)
LEMMA SearchEnds ==
  ASSUME NEW found \in Seq(Match), NEW most \in Nat, NEW c, NEW a, NEW q,
         SearchSoFar(<<>>, found, c, a, q)
  PROVE  Complete(HeadTail(found, most), Len(found) - Len(HeadTail(found, most)), c, a, q)
<1>1. ToSet(<<>>) = {}
  BY DEF ToSet
<1>2. Distinct(found) /\ ToSet(found) = HitsIn(c, q, PlainIn(c, a))
  <2>1. PlainIn(c, a) \ ToSet(<<>>) = PlainIn(c, a)
    BY <1>1
  <2> QED BY <2>1 DEF SearchSoFar
<1>3. Cardinality(ToSet(found)) = Len(found)
  BY <1>2, DistinctCounted
<1> DEFINE kept == HeadTail(found, most)
<1>4. /\ kept \in Seq(Match) /\ Len(found) - Len(kept) \in Nat
      /\ ToSet(kept) \subseteq ToSet(found) /\ Distinct(kept)
  BY <1>2, HeadTailKeeps
<1> HIDE DEF kept
<1>5. Len(kept) + (Len(found) - Len(kept)) = Len(found)
  <2> HIDE DEF Match
  <2>1. Len(kept) \in Nat /\ Len(found) \in Nat
    BY <1>4
  <2> QED BY <2>1
<1> QED BY <1>2, <1>3, <1>4, <1>5 DEF Complete, kept

(* The steps of a search.                                                  *)
LEMMA SearchReads ==
  ASSUME TypeInv, WorkShape, SearchInv, FileStep
  PROVE  SearchInv'
<1> DEFINE Whole == call.tool = "search_text" /\ call.root /\ ~edited
<1>0. /\ WorkOK(work, at, call.tool) /\ CallAt(call, at) /\ call \in Call
      /\ content \in [Place -> Seq(Shown)]
  BY DEF TypeInv, TypeOK
<1>1. ASSUME at' \notin {"read git", "walk", "search", "report"}
      PROVE  SearchInv'
  BY <1>1 DEF SearchInv
<1>2. ASSUME ~(call'.tool = "search_text" /\ call'.root)
      PROVE  SearchInv'
  BY <1>2 DEF SearchInv
<1>3. CASE FileToolFails
  BY <1>1, <1>3 DEF FileToolFails, Ended
<1>4. CASE ResolvePatch \/ ReadBase \/ Resolve \/ ReadPrevious \/ Revalidate \/ Open \/ Fill \/ Reported
  BY <1>1, <1>3, <1>4 DEF ResolvePatch, ReadBase, Resolve, ReadPrevious, Revalidate, Open, Fill,
     Reported, Goes, Ended
<1>5. CASE (ResolveRead \/ ReadFile \/ Listed) /\ ~FileToolFails
  <2>1. call' = call
    BY <1>5 DEF ResolveRead, ReadFile, Listed, Steady
  <2>2. ~(call.tool = "search_text" /\ call.root)
    BY <1>0, <1>5 DEF ResolveRead, ReadFile, Listed, CallAt
  <2> QED BY <1>2, <2>1, <2>2
<1>6. CASE ReadRoot /\ ~FileToolFails
  <2>1. /\ work' = [work EXCEPT !.todo = Names(Inside)] /\ at' = "read git"
        /\ UNCHANGED <<content, alias, call>>
    BY <1>6 DEF ReadRoot, Goes, Steady
  <2>2. work'.todo = Names(Inside)
    BY <1>0, <2>1 DEF WorkOK, NoWork
  <2>3. /\ Truthful(work'.todo, alias) /\ NamedOnce(work'.todo)
        /\ NamesOf(work'.todo) = {p \in Inside : content[p] # Absent \/ alias[p] # p}
    BY <2>2, NamesAreListed DEF Readable
  <2> QED BY <2>1, <2>3 DEF SearchInv
<1>7. CASE ReadGit /\ ~FileToolFails
  <2>1. /\ work' = [work EXCEPT !.todo = IF call.tool = "search_text" \/ call.deep
                                         THEN Names(InGit) \o @ ELSE @,
                                !.visited = 1]
        /\ at = "read git" /\ at' = "walk" /\ UNCHANGED <<content, alias, call, edited>>
    BY <1>7 DEF ReadGit, Goes, Steady
  <2>2. CASE Whole
    <3>1. work.todo \in Seq(Entry) /\ work.files = <<>>
      BY <1>0, <2>1 DEF WorkOK, WorkShape
    <3>2. /\ Truthful(work.todo, alias) /\ NamedOnce(work.todo)
          /\ NamesOf(work.todo) = {p \in Inside : content[p] # Absent \/ alias[p] # p}
      BY <2>1, <2>2 DEF SearchInv
    <3>3. WalkSoFar(Names(InGit) \o work.todo, <<>>, content, alias)
      BY <3>1, <3>2, WalkBegins
    <3>4. work'.todo = Names(InGit) \o work.todo /\ work'.files = <<>>
      BY <1>0, <2>1, <2>2, <3>1 DEF WorkOK, NoWork
    <3> QED BY <2>1, <3>3, <3>4 DEF SearchInv
  <2>3. CASE ~Whole
    BY <2>1, <2>3 DEF SearchInv
  <2> QED BY <2>2, <2>3
<1>8. CASE Visit /\ ~FileToolFails
  <2> DEFINE child == Head(work.todo)
  <2>1. /\ work' = [work EXCEPT !.todo = Tail(@), !.visited = @ + 1,
                                !.found = Append(@, child.name),
                                !.files = IF child.link THEN @ ELSE Append(@, Real(child.name))]
        /\ at = "walk" /\ work.todo # <<>> /\ At(child.name) # Absent
        /\ UNCHANGED <<at, content, alias, call, edited>>
    BY <1>8 DEF Visit, Steady
  <2>2. CASE Whole
    <3>1. WalkSoFar(work.todo, work.files, content, alias)
      BY <2>1, <2>2 DEF SearchInv
    <3>2. work.todo \in Seq(Entry) /\ work.files \in Seq(Place)
      BY <1>0, <2>1 DEF WorkOK
    <3>3. child.name \in Place /\ child.link = (alias[child.name] # child.name)
      <4>1. child = work.todo[1] /\ 1 \in DOMAIN work.todo /\ child \in Entry
        <5> HIDE DEF Entry
        <5> QED BY <2>1, <3>2
      <4> QED BY <3>1, <4>1 DEF WalkSoFar, Truthful, Entry
    <3>4. ~child.link => Real(child.name) = child.name /\ content[child.name] # Absent
      BY <2>1, <3>3, SettledIsReal, ToolAssumption DEF At
    <3> HIDE DEF child
    <3>5. WalkSoFar(Tail(work.todo), IF child.link THEN work.files ELSE Append(work.files, child.name),
                    content, alias)
      BY <2>1, <3>1, <3>2, <3>4, WalkGoesOn DEF child
    <3>6. /\ work'.todo = Tail(work.todo)
          /\ work'.files = IF child.link THEN work.files ELSE Append(work.files, child.name)
      BY <1>0, <2>1, <3>4 DEF WorkOK, NoWork
    <3> QED BY <2>1, <3>5, <3>6 DEF SearchInv
  <2>3. CASE ~Whole
    BY <2>1, <2>3 DEF SearchInv
  <2> QED BY <2>2, <2>3
<1>9. CASE Walked /\ ~FileToolFails
  <2>1. /\ work' = [work EXCEPT !.todo = work.files, !.found = <<>>] /\ work.todo = <<>>
        /\ at = "walk" /\ at' = "search" /\ UNCHANGED <<content, alias, call, edited>>
    BY <1>9 DEF Walked, Goes, Steady, history
  <2>2. CASE Whole
    <3>1. WalkSoFar(<<>>, work.files, content, alias)
      BY <2>1, <2>2 DEF SearchInv
    <3>2. SearchSoFar(work.files, <<>>, content, alias, call.query)
      BY <3>1, SearchBegins
    <3>3. work'.todo = work.files /\ work'.found = <<>>
      BY <1>0, <2>1 DEF WorkOK, NoWork
    <3> QED BY <2>1, <3>2, <3>3 DEF SearchInv
  <2>3. CASE ~Whole
    BY <2>1, <2>3 DEF SearchInv
  <2> QED BY <2>2, <2>3
<1>10. CASE SearchFile /\ ~FileToolFails
  <2> DEFINE file == Head(work.todo)
             lines == IF At(file) = Binary THEN <<>> ELSE Lines(file, At(file), call.query)
             shown == IF content[file] = Binary THEN <<>> ELSE Lines(file, content[file], call.query)
  <2>1. /\ work' = [work EXCEPT !.todo = Tail(@), !.found = @ \o lines]
        /\ at = "search" /\ work.todo # <<>> /\ UNCHANGED <<at, content, alias, call, edited>>
    BY <1>10 DEF SearchFile, Steady
  <2>2. CASE Whole
    <3>1. SearchSoFar(work.todo, work.found, content, alias, call.query)
      BY <2>1, <2>2 DEF SearchInv
    <3>2. work.todo \in Seq(Place) /\ work.found \in Seq(Match)
      BY <1>0, <2>1, <2>2 DEF WorkOK
    <3>3. file \in ToSet(work.todo) /\ file \in Place
      BY <2>1, <3>2, HeadAndTail
    <3>4. alias[file] = file
      BY <3>1, <3>3 DEF SearchSoFar, PlainIn
    <3>5. At(file) = content[file]
      BY <3>3, <3>4, SettledIsReal, ToolAssumption DEF At
    <3>6. content[file] \in Seq(Shown)
      <4> HIDE DEF Shown, file
      <4> QED BY <1>0, <3>3
    <3>7. SearchSoFar(Tail(work.todo), work.found \o shown, content, alias, call.query)
      BY <2>1, <3>1, <3>2, <3>6, SearchGoesOn
    <3>8. lines = shown
      BY <3>5
    <3> HIDE DEF lines, shown
    <3>9. work'.todo = Tail(work.todo) /\ work'.found = work.found \o shown
      BY <1>0, <2>1, <3>8 DEF WorkOK, NoWork
    <3> QED BY <2>1, <3>7, <3>9 DEF SearchInv
  <2>3. CASE ~Whole
    BY <2>1, <2>3 DEF SearchInv
  <2> QED BY <2>2, <2>3
<1>11. CASE Searched /\ ~FileToolFails
  <2> DEFINE most == Min({call.most, MaxOutput})
             kept == HeadTail(work.found, most)
  <2>1. /\ work' = [work EXCEPT !.found = kept, !.omitted = Len(work.found) - Len(kept), !.todo = <<>>]
        /\ at = "search" /\ work.todo = <<>> /\ at' = "report"
        /\ UNCHANGED <<content, alias, call, edited>>
    BY <1>11 DEF Searched, Reports, Goes, Steady, history
  <2>2. CASE Whole
    <3>1. SearchSoFar(<<>>, work.found, content, alias, call.query)
      BY <2>1, <2>2 DEF SearchInv
    <3>2. work.found \in Seq(Match)
      BY <1>0, <2>1, <2>2 DEF WorkOK
    <3>3. most \in Nat
      <4>1. call.most \in Nat /\ MaxOutput \in Nat
        BY <1>0, <2>2, ToolAssumption
      <4> QED BY <4>1, LesserOfTwo
    <3> HIDE DEF most
    <3>4. Complete(kept, Len(work.found) - Len(kept), content, alias, call.query)
      BY <3>1, <3>2, <3>3, SearchEnds
    <3> HIDE DEF kept
    <3>5. work'.found = kept /\ work'.omitted = Len(work.found) - Len(kept)
      BY <1>0, <2>1 DEF WorkOK, NoWork
    <3> QED BY <2>1, <3>4, <3>5 DEF SearchInv
  <2>3. CASE ~Whole
    BY <2>1, <2>3 DEF SearchInv
  <2> QED BY <2>2, <2>3
<1> QED BY <1>3, <1>4, <1>5, <1>6, <1>7, <1>8, <1>9, <1>10, <1>11 DEF FileStep

(* No other step begins a search, goes on with one or ends it.             *)
LEMMA SearchStep ==
  ASSUME TypeInv, WorkShape, SearchInv, [Next]_vars
  PROVE  SearchInv'
<1> USE DEF disk, history, session
<1>1. ASSUME \/ at' \notin {"read git", "walk", "search", "report"}
             \/ edited' = TRUE
             \/ UNCHANGED <<at, call, edited, work, content, alias>>
      PROVE  SearchInv'
  BY <1>1 DEF SearchInv
<1>2. CASE FileStep
  BY <1>2, SearchReads
<1>3. CASE Ask
  <2>1. PICK c \in Call :
          LET decision == Evaluate(mode, c, Key(c) \in approvals) IN
          at' = CASE decision = "deny" -> "idle"
                  [] decision = "ask" -> "asked"
                  [] decision = "allow" -> FirstStep(c)
    BY <1>3 DEF Ask
  <2>2. Evaluate(mode, c, Key(c) \in approvals) \in {"deny", "ask", "allow"}
    <3>1. \A approved \in BOOLEAN : Evaluate(mode, c, approved) \in {"deny", "ask", "allow"}
      BY DecisionKinds
    <3>2. (Key(c) \in approvals) \in BOOLEAN
      OBVIOUS
    <3> QED BY <3>1, <3>2, Zenon
  <2>3. at' \in {"idle", "asked", FirstStep(c)}
    BY <2>1, <2>2
  <2> QED BY <1>1, <2>3 DEF FirstStep
<1>4. CASE Approve
  <2>1. at' \in {"idle", FirstStep(call)}
    BY <1>4 DEF Approve, Ended
  <2> QED BY <1>1, <2>1 DEF FirstStep
<1>5. CASE ChangeMode
  BY <1>1, <1>5 DEF ChangeMode
<1>6. CASE Cancel
  <2>1. at' = "idle" \/ UNCHANGED <<at, call, edited, work, content, alias>>
    BY <1>6 DEF Cancel, Ended
  <2> QED BY <1>1, <2>1
<1>7. CASE ExtensionTool
  BY <1>1, <1>7 DEF ExtensionTool, Ended
<1>8. CASE Meddle
  BY <1>1, <1>8 DEF Meddle
<1>9. CASE CommandStep \/ Process
  <2>1. at' \in {"idle", "command"}
    BY <1>9 DEF CommandStep, Process, Spawn, TimeLimit, AbortHeard, KillEnds, Close, Fallback,
           Answer, Tell, Change, Running, Ended
  <2> QED BY <1>1, <2>1
<1>10. CASE UNCHANGED vars
  BY <1>1, <1>10 DEF vars
<1> QED BY <1>2, <1>3, <1>4, <1>5, <1>6, <1>7, <1>8, <1>9, <1>10 DEF Next

(* What is complete is what the property asks for.                         *)
LEMMA CompleteIsComplete ==
  ASSUME TypeInv, SearchInv
  PROVE  SearchIsComplete
<1> DEFINE Hits(p) == {i \in DOMAIN content[p] : content[p][i] = call.query}
           plain == {p \in Inside \cup InGit : alias[p] = p /\ content[p] \notin {Absent, Binary}}
           hits == UNION {{p} \X Hits(p) : p \in plain}
<1> SUFFICES ASSUME at = "report", call.tool = "search_text", call.root, ~edited
             PROVE  /\ ToSet(work.found) \subseteq hits
                    /\ Len(work.found) = Cardinality(ToSet(work.found))
                    /\ Len(work.found) + work.omitted = Cardinality(hits)
  BY DEF SearchIsComplete
<1>1. Complete(work.found, work.omitted, content, alias, call.query)
  BY DEF SearchInv
<1>2. \A p \in Inside \cup InGit : DOMAIN content[p] \subseteq Nat
  <2>1. content \in [Place -> Seq(Shown)]
    BY DEF TypeInv, TypeOK
  <2> HIDE DEF Shown
  <2> QED BY <2>1 DEF Place
<1>3. hits = HitsIn(content, call.query, PlainIn(content, alias))
  BY <1>2 DEF HitsIn, PlainIn, Readable
<1>4. work.found \in Seq(Match)
  BY DEF TypeInv, WorkOK
<1>5. Distinct(work.found)
  BY <1>1 DEF Complete
<1>6. Cardinality(ToSet(work.found)) = Len(work.found)
  BY <1>4, <1>5, DistinctCounted
<1> HIDE DEF hits
<1> QED BY <1>1, <1>3, <1>6 DEF Complete

(* What a call reports is what happened: a command reported to have exited *)
(* left nothing behind, a patch replaces the text it was made from, and a  *)
(* search of a workspace nobody touched has every line or says how many it *)
(* left out.                                                               *)
THEOREM ResultsHold == Spec => []ResultsAreTrue
<1> DEFINE Inv == TypeInv /\ StayInv /\ SearchInv /\ ProcessInv /\ PatchInv
<1>1. Init => Inv
  <2>1. Init => SearchInv
    BY DEF Init, SearchInv
  <2>2. Init => StayInv /\ ProcessInv /\ PatchInv
    BY DEF Init, StayInv, WorkShape, Held, ProcessInv, ExitIsReal, PatchInv, NoProcess, NoWork
  <2> QED BY <2>1, <2>2, TypeInit
<1>2. Inv /\ [Next]_vars => Inv'
  BY TypeStep, StayStep, SearchStep, ProcessStep, PatchStep DEF StayInv
<1>3. Inv => ResultsAreTrue
  BY CompleteIsComplete DEF ResultsAreTrue, ProcessInv, PatchInv, PatchReplacesItsBase
<1> QED BY <1>1, <1>2, <1>3, PTL DEF Spec
=============================================================================
