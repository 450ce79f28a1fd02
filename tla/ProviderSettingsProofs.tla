----------------------- MODULE ProviderSettingsProofs -----------------------
(***************************************************************************)
(* The provider settings for any number of requests, identifiers, drafts,  *)
(* failures and crashes: a request is executed once, saves are served one  *)
(* at a time, a configuration is never lost, and what is on file is what   *)
(* was asked for.                                                          *)
(***************************************************************************)
EXTENDS ProviderSettings, TLAPS, FiniteSetTheorems

Writing == {"temp", "rename", "aside", "second", "cleanup", "restore"}
Places  == Writing \cup {"idle", "joined", "queued", "asking", "reading", "prompting"}

PlaceInv == at \in [Writer -> Places]

-----------------------------------------------------------------------------
(* How the steps move requests and writers.                                *)

(* Who has joined w's request is done when w is.                           *)
OthersStay(w) ==
  \A v \in Writer \ {w} : at'[v] = at[v] \/ (at[v] = "joined" /\ at'[v] = "idle")

Ending(w) ==
  /\ at'[w] = "idle" /\ OthersStay(w)
  /\ new' = [new EXCEPT ![w] = Missing]
  /\ waiting' = IF w \in Delivery THEN Tail(waiting) ELSE waiting

Going(w, place) ==
  /\ at'[w] = place /\ \A v \in Writer \ {w} : at'[v] = at[v]
  /\ new' = new /\ waiting' = waiting

LEMMA CommitMoves ==
  ASSUME PlaceInv, NEW d \in Delivery, NEW result, Commit(d, result)
  PROVE  PlaceInv' /\ at'[d] = "idle" /\ OthersStay(d)
BY DEF PlaceInv, Commit, OthersStay, Writer, Places

LEMMA EndsMoves ==
  ASSUME PlaceInv, NEW w \in Writer, NEW result, Ends(w, result)
  PROVE  PlaceInv' /\ Ending(w)
<1>1. CASE w \in Delivery
  <2>1. Commit(w, result) /\ waiting' = Tail(waiting) /\ new' = [new EXCEPT ![w] = Missing]
    BY <1>1 DEF Ends, Answer, Release
  <2> QED BY <1>1, <2>1, CommitMoves DEF Ending
<1>2. CASE w \notin Delivery
  BY <1>2 DEF Ends, Ending, OthersStay, PlaceInv, Places
<1> QED BY <1>1, <1>2

LEMMA GoesMoves ==
  ASSUME PlaceInv, NEW w \in Writer, NEW place \in Places, Goes(w, place)
  PROVE  PlaceInv' /\ Going(w, place)
BY DEF PlaceInv, Goes, Going

(* A writer's step goes on to another place of the write, or ends it.      *)
LEMMA WriteMoves ==
  ASSUME PlaceInv, NEW w \in Writer, WriteStep(w)
  PROVE  /\ PlaceInv' /\ at[w] \in Writing
         /\ Ending(w) \/ \E place \in Writing : Going(w, place)
<1>1. at[w] \in Writing
  BY DEF WriteStep, WriteTemp, Rename, Aside, Second, Cleanup, Restore, Writing
<1>2. (\E result : Ends(w, result)) \/ \E place \in Writing : Goes(w, place)
  BY DEF WriteStep, WriteTemp, Rename, Aside, Second, Cleanup, Restore, GivesUp, Writing
<1>3. CASE \E result : Ends(w, result)
  BY <1>1, <1>3, EndsMoves
<1>4. ASSUME NEW place \in Writing, Goes(w, place)
      PROVE  PlaceInv' /\ Going(w, place)
  BY <1>4, GoesMoves DEF Places
<1> QED BY <1>1, <1>2, <1>3, <1>4

-----------------------------------------------------------------------------
(* A configuration is never lost.                                          *)

(* Whoever moved the file aside and has not put the new one into place     *)
(* still has the old one; a writer that cleans up does not hold the last.  *)
SavedInv ==
  /\ PlaceInv
  /\ new = [w \in Writer |-> new[w]] /\ backup = [w \in Writer |-> backup[w]]
  /\ \A w \in Writer : at[w] \in Writing => new[w] # Missing
  /\ \A w \in Writer : at[w] \in {"second", "cleanup", "restore"} => backup[w] # Missing
  /\ \/ file # Missing
     \/ \A w \in Writer : backup[w] = Missing
     \/ \E w \in Writer : backup[w] # Missing /\ at[w] # "cleanup"

LEMMA MadeIsThere ==
  ASSUME NEW draft, NEW rest, NEW by
  PROVE  Made(draft, rest, by) # Missing
<1>1. "url" \in DOMAIN Made(draft, rest, by) /\ "url" \notin DOMAIN Missing
  BY DEF Made, Missing
<1> QED BY <1>1

LEMMA SavedInit == Init => SavedInv
<1> SUFFICES ASSUME Init PROVE SavedInv
  OBVIOUS
<1>1. /\ backup = [w \in Writer |-> Missing] /\ new = [w \in Writer |-> Missing]
      /\ at = [w \in Writer |-> "idle"]
  BY DEF Init
<1> QED BY <1>1 DEF SavedInv, PlaceInv, Places, Writing

(* Steps that leave the files alone.                                       *)
LEMMA SavedQuiet ==
  ASSUME SavedInv, PlaceInv', UNCHANGED files, new' = [w \in Writer |-> new'[w]],
         \A w \in Writer :
           \/ at'[w] = at[w] /\ new'[w] = new[w]
           \/ at'[w] \notin Writing
           \/ at'[w] = "temp" /\ new'[w] # Missing
  PROVE  SavedInv'
BY DEF SavedInv, files, Writing

LEMMA SavedWrite ==
  ASSUME SavedInv, NEW w \in Writer, WriteStep(w)
  PROVE  SavedInv' /\ (Survives => Survives')
<1>0. PlaceInv /\ PlaceInv' /\ at[w] \in Writing
  BY WriteMoves DEF SavedInv
<1> DEFINE EndingOr(place) == Ending(w) \/ Going(w, place)
<1>1. CASE WriteTemp(w)
  <2>1. Ending(w) \/ Going(w, "rename")
    BY <1>0, <1>1, EndsMoves, GoesMoves DEF WriteTemp, GivesUp, Places, Writing
  <2>2. UNCHANGED <<file, backup>>
    BY <1>1 DEF WriteTemp
  <2> QED BY <1>0, <2>1, <2>2
          DEF SavedInv, Ending, Going, OthersStay, Writing, Survives
<1>2. CASE Rename(w)
  <2>1. \/ file' = new[w] /\ Ending(w)
        \/ file' = file /\ (Ending(w) \/ Going(w, "aside"))
    BY <1>0, <1>2, EndsMoves, GoesMoves DEF Rename, GivesUp, Places, Writing
  <2>2. backup' = backup /\ new[w] # Missing
    BY <1>0, <1>2 DEF Rename, SavedInv
  <2> QED BY <1>0, <2>1, <2>2
          DEF SavedInv, Ending, Going, OthersStay, Writing, Survives
<1>3. CASE Aside(w)
  <2>1. \/ /\ file # Missing /\ file' = Missing
           /\ backup' = [backup EXCEPT ![w] = file] /\ Going(w, "second")
        \/ UNCHANGED <<file, backup>> /\ Ending(w)
    BY <1>0, <1>3, EndsMoves, GoesMoves DEF Aside, GivesUp, Places, Writing
  <2> QED BY <1>0, <2>1
          DEF SavedInv, Ending, Going, OthersStay, Writing, Survives
<1>4. CASE Second(w)
  <2>1. \/ file' = new[w] /\ Going(w, "cleanup")
        \/ file' = file /\ Going(w, "restore")
    BY <1>0, <1>4, GoesMoves DEF Second, Places, Writing
  <2>2. backup' = backup /\ new[w] # Missing /\ at[w] = "second"
    BY <1>0, <1>4 DEF Second, SavedInv
  <2> QED BY <1>0, <2>1, <2>2
          DEF SavedInv, Ending, Going, OthersStay, Writing, Survives
<1>5. CASE Cleanup(w)
  <2>1. \/ backup' = [backup EXCEPT ![w] = Missing] /\ Ending(w)
        \/ backup' = backup /\ Going(w, "restore")
    BY <1>0, <1>5, EndsMoves, GoesMoves DEF Cleanup, Places, Writing
  <2>2. file' = file /\ at[w] = "cleanup"
    BY <1>5 DEF Cleanup
  <2> QED BY <1>0, <2>1, <2>2
          DEF SavedInv, Ending, Going, OthersStay, Writing, Survives
<1>6. CASE Restore(w)
  <2>1. Ending(w) /\ at[w] = "restore"
    BY <1>0, <1>6, EndsMoves DEF Restore, GivesUp
  <2>2. \/ file' = backup[w] /\ backup' = [backup EXCEPT ![w] = Missing]
        \/ UNCHANGED <<file, backup>>
    BY <1>6 DEF Restore
  <2> QED BY <1>0, <2>1, <2>2
          DEF SavedInv, Ending, Going, OthersStay, Writing, Survives
<1> QED BY <1>1, <1>2, <1>3, <1>4, <1>5, <1>6 DEF WriteStep

(* The steps of a request that write no file.                              *)
LEMMA RequestMoves ==
  ASSUME PlaceInv, SettingsAssumption, NEW d \in Delivery,
         Deliver(d) \/ Discover(d) \/ TakeLock(d) \/ ReadExisting(d)
  PROVE  /\ PlaceInv' /\ OthersStay(d)
         /\ at'[d] \in {"idle", "joined", "queued", "asking", "reading", "temp"}
         /\ UNCHANGED files
<1>1. CASE Deliver(d)
  <2>1. \E place \in {"idle", "joined", "queued", "asking"} : at' = [at EXCEPT ![d] = place]
    BY <1>1 DEF Deliver, Begin, Repeat
  <2> QED BY <1>1, <2>1 DEF Deliver, PlaceInv, OthersStay, Writer, Places
<1>2. CASE Discover(d)
  <2>1. \E result : Commit(d, result)
    BY <1>2 DEF Discover
  <2> QED BY <1>2, <2>1, CommitMoves DEF Discover
<1>3. CASE TakeLock(d)
  <2>1. at' = [at EXCEPT ![d] = "reading"] \/ \E result : Commit(d, result)
    BY <1>3 DEF TakeLock, Answer
  <2>2. UNCHANGED files
    BY <1>3 DEF TakeLock
  <2>3. CASE at' = [at EXCEPT ![d] = "reading"]
    BY <2>2, <2>3 DEF PlaceInv, OthersStay, Writer, Places
  <2> QED BY <2>1, <2>2, <2>3, CommitMoves
<1>4. CASE ReadExisting(d)
  <2>1. at' = [at EXCEPT ![d] = "temp"] \/ \E result : Commit(d, result)
    BY <1>4 DEF ReadExisting, Answer
  <2>2. UNCHANGED files
    BY <1>4 DEF ReadExisting
  <2>3. CASE at' = [at EXCEPT ![d] = "temp"]
    BY <2>2, <2>3 DEF PlaceInv, OthersStay, Writer, Places, Writing
  <2> QED BY <2>1, <2>2, <2>3, CommitMoves
<1> QED BY <1>1, <1>2, <1>3, <1>4

LEMMA SavedRequest ==
  ASSUME SavedInv, SettingsAssumption, NEW d \in Delivery,
         Deliver(d) \/ Discover(d) \/ TakeLock(d) \/ ReadExisting(d)
  PROVE  SavedInv' /\ UNCHANGED files
<1>1. /\ PlaceInv' /\ OthersStay(d) /\ UNCHANGED files
      /\ at'[d] \in {"idle", "joined", "queued", "asking", "reading", "temp"}
  BY RequestMoves DEF SavedInv
<1>2. /\ new' = [w \in Writer |-> new'[w]]
      /\ \A w \in Writer \ {d} : new'[w] = new[w]
      /\ at'[d] = "temp" => new'[d] # Missing
  <2>1. CASE Deliver(d) \/ Discover(d)
    <3>1. new' = new /\ at'[d] # "temp"
      <4>1. CASE Deliver(d)
        <5>1. \E place \in {"idle", "joined", "queued", "asking"} : at' = [at EXCEPT ![d] = place]
          BY <4>1 DEF Deliver, Begin, Repeat
        <5> QED BY <4>1, <5>1 DEF Deliver, SavedInv, PlaceInv, Writer
      <4>2. CASE Discover(d)
        BY <4>2, CommitMoves DEF Discover, SavedInv
      <4> QED BY <2>1, <4>1, <4>2
    <3> QED BY <3>1 DEF SavedInv
  <2>2. CASE TakeLock(d)
    <3>1. \/ new' = new /\ at' = [at EXCEPT ![d] = "reading"]
          \/ new' = [new EXCEPT ![d] = Missing] /\ Commit(d, "invalid")
      BY <2>2 DEF TakeLock, Answer
    <3>2. at'[d] # "temp"
      BY <3>1, CommitMoves DEF SavedInv, PlaceInv, Writer
    <3> QED BY <3>1, <3>2 DEF SavedInv
  <2>3. CASE ReadExisting(d)
    <3>1. \/ new' = [new EXCEPT ![d] = Merged(d)]
          \/ new' = [new EXCEPT ![d] = Missing] /\ Commit(d, "failed")
      BY <2>3 DEF ReadExisting, Answer
    <3>2. Merged(d) # Missing
      BY MadeIsThere DEF Merged
    <3>3. CASE new' = [new EXCEPT ![d] = Merged(d)]
      BY <3>2, <3>3 DEF SavedInv, Writer
    <3>4. CASE new' = [new EXCEPT ![d] = Missing] /\ Commit(d, "failed")
      BY <3>4, CommitMoves DEF SavedInv
    <3> QED BY <3>1, <3>3, <3>4
  <2> QED BY <2>1, <2>2, <2>3
<1>3. \A w \in Writer :
        \/ at'[w] = at[w] /\ new'[w] = new[w]
        \/ at'[w] \notin Writing
        \/ at'[w] = "temp" /\ new'[w] # Missing
  <2>1. ASSUME NEW w \in Writer, w # d
        PROVE  (at'[w] = at[w] /\ new'[w] = new[w]) \/ at'[w] \notin Writing
    BY <1>1, <1>2, <2>1 DEF OthersStay, Writing
  <2>2. at'[d] \notin Writing \/ (at'[d] = "temp" /\ new'[d] # Missing)
    BY <1>1, <1>2 DEF Writing
  <2> QED BY <2>1, <2>2
<1> QED BY <1>1, <1>2, <1>3, SavedQuiet

LEMMA SavedOther ==
  ASSUME SavedInv,
         WizardStarts \/ WizardAnswered \/ Turn \/ ServerDies \/ WizardDies
  PROVE  SavedInv' /\ UNCHANGED files
<1>1. CASE WizardStarts
  BY <1>1, SavedQuiet DEF WizardStarts, SavedInv, PlaceInv, Places, Writing, Writer
<1>2. CASE WizardAnswered
  <2>1. \/ /\ \E d \in Draft : new' = [new EXCEPT ![Wizard] = Made(d, WizardRest, 0)]
           /\ at' = [at EXCEPT ![Wizard] = "temp"]
        \/ /\ at' = [at EXCEPT ![Wizard] = "idle"] /\ new' = [new EXCEPT ![Wizard] = Missing]
    BY <1>2 DEF WizardAnswered
  <2>2. UNCHANGED files
    BY <1>2 DEF WizardAnswered
  <2>3. PlaceInv'
    BY <2>1 DEF SavedInv, PlaceInv, Places, Writing, Writer
  <2>4. new' = [w \in Writer |-> new'[w]]
    BY <2>1 DEF SavedInv
  <2>5. \A w \in Writer :
        \/ at'[w] = at[w] /\ new'[w] = new[w]
        \/ at'[w] \notin Writing
        \/ at'[w] = "temp" /\ new'[w] # Missing
    <3>1. CASE \E d \in Draft : new' = [new EXCEPT ![Wizard] = Made(d, WizardRest, 0)]
      <4>1. new'[Wizard] # Missing \/ Wizard \notin Writer
        BY <3>1, MadeIsThere DEF SavedInv
      <4>2. \A w \in Writer \ {Wizard} : at'[w] = at[w] /\ new'[w] = new[w]
        BY <2>1, <3>1 DEF SavedInv, PlaceInv
      <4>3. at'[Wizard] \in {"temp", "idle"}
        BY <2>1 DEF SavedInv, PlaceInv, Writer
      <4> QED BY <4>1, <4>2, <4>3 DEF Writing
    <3>2. CASE at' = [at EXCEPT ![Wizard] = "idle"] /\ new' = [new EXCEPT ![Wizard] = Missing]
      BY <3>2 DEF SavedInv, PlaceInv, Writing
    <3> QED BY <2>1, <3>1, <3>2
  <2> QED BY <2>2, <2>3, <2>4, <2>5, SavedQuiet
<1>3. CASE Turn
  BY <1>3, SavedQuiet DEF Turn, SavedInv, PlaceInv
<1>4. CASE ServerDies
  BY <1>4, SavedQuiet DEF ServerDies, SavedInv, PlaceInv, Places, Writing, Writer
<1>5. CASE WizardDies
  BY <1>5, SavedQuiet DEF WizardDies, SavedInv, PlaceInv, Places, Writing, Writer
<1> QED BY <1>1, <1>2, <1>3, <1>4, <1>5

LEMMA SavedStep ==
  ASSUME SavedInv, [Next]_vars
  PROVE  SavedInv' /\ [Survives => Survives']_files
<1>1. CASE UNCHANGED vars
  <2>1. UNCHANGED <<files, at, new>>
    BY <1>1 DEF vars, files
  <2> QED BY <2>1 DEF SavedInv, PlaceInv, files
<1>2. ASSUME NEW d \in Delivery, Deliver(d) \/ Discover(d) \/ TakeLock(d) \/ ReadExisting(d)
      PROVE  SavedInv' /\ UNCHANGED files
  BY <1>2, SavedRequest, SettingsAssumption
<1>3. ASSUME NEW w \in Writer, WriteStep(w)
      PROVE  SavedInv' /\ (Survives => Survives')
  BY <1>3, SavedWrite
<1>4. CASE WizardStarts \/ WizardAnswered \/ Turn \/ ServerDies \/ WizardDies
  BY <1>4, SavedOther
<1> QED BY <1>1, <1>2, <1>3, <1>4 DEF Next, RequestStep, Writer

(* A configuration that was on file once is on file or set aside for ever, *)
(* whatever the writers, the failing file operations and the crashes do.   *)
THEOREM NothingIsLost == Spec => ConfigSurvives
<1>1. SavedInv /\ [Next]_vars => SavedInv' /\ [Survives => Survives']_files
  BY SavedStep
<1> QED BY SavedInit, <1>1, PTL DEF Spec, ConfigSurvives

-----------------------------------------------------------------------------
(* The lock.                                                               *)

Locked == {"reading"} \cup Writing
InLine == {"queued"} \cup Locked

(* The line has exactly those who wait for the lock or hold it, each once, *)
(* and only the first of the line is past the lock.                        *)
LockInv ==
  /\ PlaceInv /\ waiting \in Seq(Delivery)
  /\ \A i, j \in 1 .. Len(waiting) : waiting[i] = waiting[j] => i = j
  /\ \A d \in Delivery : at[d] \in InLine <=> \E i \in 1 .. Len(waiting) : waiting[i] = d
  /\ \A d \in Delivery : at[d] \in Locked => waiting[1] = d

LEMMA LockQuiet ==
  ASSUME LockInv, PlaceInv', waiting' = waiting,
         \A d \in Delivery :
           \/ at'[d] = at[d]
           \/ at[d] \notin InLine /\ at'[d] \notin InLine
           \/ at[d] \in InLine /\ at'[d] \in Locked /\ waiting[1] = d
  PROVE  LockInv'
BY DEF LockInv, InLine

LEMMA LockLeave ==
  ASSUME LockInv, PlaceInv', NEW d \in Delivery,
         at[d] \in InLine, waiting[1] = d, waiting' = Tail(waiting),
         at'[d] = "idle", OthersStay(d)
  PROVE  LockInv'
<1>1. waiting # <<>> /\ Len(waiting) \in Nat \ {0}
  BY DEF LockInv
<1>2. /\ waiting' \in Seq(Delivery) /\ Len(waiting') = Len(waiting) - 1
      /\ \A i \in 1 .. Len(waiting') : waiting'[i] = waiting[i + 1]
  BY <1>1 DEF LockInv
<1>3. \A i, j \in 1 .. Len(waiting') : waiting'[i] = waiting'[j] => i = j
  BY <1>1, <1>2 DEF LockInv
<1>4. \A i \in 1 .. Len(waiting') : waiting'[i] # d
  BY <1>1, <1>2 DEF LockInv
<1>5. ASSUME NEW e \in Delivery, e # d
      PROVE  /\ at'[e] \in InLine <=> at[e] \in InLine
             /\ at'[e] \notin Locked
             /\ (\E i \in 1 .. Len(waiting) : waiting[i] = e)
                  <=> (\E i \in 1 .. Len(waiting') : waiting'[i] = e)
  <2>1. at'[e] \in InLine <=> at[e] \in InLine
    BY <1>5 DEF OthersStay, InLine, Locked, Writing, Writer
  <2>2. at'[e] \notin Locked
    BY <1>5 DEF OthersStay, LockInv, Locked, Writing, Writer
  <2>3. ASSUME NEW i \in 1 .. Len(waiting), waiting[i] = e
        PROVE  \E k \in 1 .. Len(waiting') : waiting'[k] = e
    <3> DEFINE k == i - 1
    <3>1. k \in 1 .. Len(waiting') /\ k + 1 = i
      BY <1>1, <1>2, <1>5, <2>3
    <3>2. waiting'[k] = waiting[k + 1]
      BY <1>2, <3>1
    <3>3. waiting'[k] = e
      BY <2>3, <3>1, <3>2
    <3> QED BY <3>1, <3>3
  <2>4. ASSUME NEW i \in 1 .. Len(waiting'), waiting'[i] = e
        PROVE  \E k \in 1 .. Len(waiting) : waiting[k] = e
    BY <1>1, <1>2, <2>4
  <2> QED BY <2>1, <2>2, <2>3, <2>4
<1>6. at'[d] \notin InLine /\ at'[d] \notin Locked
  BY DEF InLine, Locked, Writing
<1> QED BY <1>2, <1>3, <1>4, <1>5, <1>6 DEF LockInv

LEMMA LockQueue ==
  ASSUME LockInv, PlaceInv', NEW d \in Delivery,
         at[d] \notin InLine, waiting' = Append(waiting, d),
         at'[d] = "queued", \A e \in Delivery \ {d} : at'[e] = at[e]
  PROVE  LockInv'
<1>1. /\ waiting' \in Seq(Delivery) /\ Len(waiting') = Len(waiting) + 1
      /\ \A i \in 1 .. Len(waiting) : waiting'[i] = waiting[i]
      /\ waiting'[Len(waiting) + 1] = d /\ Len(waiting) \in Nat
  BY DEF LockInv
<1>2. \A i \in 1 .. Len(waiting) : waiting[i] # d
  BY DEF LockInv
<1>3. \A i, j \in 1 .. Len(waiting') : waiting'[i] = waiting'[j] => i = j
  BY <1>1, <1>2 DEF LockInv
<1>4. \A e \in Delivery : at'[e] \in InLine <=> \E i \in 1 .. Len(waiting') : waiting'[i] = e
  <2>1. at'[d] \in InLine
    BY DEF InLine
  <2>2. ASSUME NEW e \in Delivery, e # d
        PROVE  at'[e] \in InLine <=> \E i \in 1 .. Len(waiting') : waiting'[i] = e
    <3>1. at'[e] \in InLine <=> \E i \in 1 .. Len(waiting) : waiting[i] = e
      BY <2>2 DEF LockInv
    <3>2. (\E i \in 1 .. Len(waiting) : waiting[i] = e)
            <=> \E i \in 1 .. Len(waiting') : waiting'[i] = e
      BY <1>1, <2>2
    <3> QED BY <3>1, <3>2
  <2> QED BY <1>1, <2>1, <2>2
<1>5. \A e \in Delivery : at'[e] \in Locked => waiting'[1] = e
  <2>1. at'[d] \notin Locked
    BY DEF Locked, Writing
  <2>2. ASSUME NEW e \in Delivery, e # d, at'[e] \in Locked
        PROVE  waiting'[1] = e
    <3>1. at[e] \in InLine /\ waiting[1] = e
      BY <2>2 DEF LockInv, InLine
    <3>2. Len(waiting) >= 1
      BY <1>1, <3>1 DEF LockInv
    <3> QED BY <1>1, <3>1, <3>2
  <2> QED BY <2>1, <2>2
<1> QED BY <1>1, <1>3, <1>4, <1>5 DEF LockInv

LEMMA LockWrite ==
  ASSUME LockInv, NEW w \in Writer, WriteStep(w)
  PROVE  LockInv'
<1>1. /\ PlaceInv' /\ at[w] \in Writing
      /\ Ending(w) \/ \E place \in Writing : Going(w, place)
  BY WriteMoves DEF LockInv
<1>2. CASE w \in Delivery
  <2>1. at[w] \in InLine /\ waiting[1] = w
    BY <1>1, <1>2 DEF LockInv, InLine, Locked
  <2>2. CASE Ending(w)
    BY <1>1, <1>2, <2>1, <2>2, LockLeave DEF Ending
  <2>3. CASE \E place \in Writing : Going(w, place)
    BY <1>1, <2>1, <2>3, LockQuiet DEF Going, Locked, Writer
  <2> QED BY <1>1, <2>2, <2>3
<1>3. CASE w \notin Delivery
  <2>1. waiting' = waiting
    BY <1>1, <1>3 DEF Ending, Going
  <2>2. \A d \in Delivery : at'[d] = at[d] \/ (at[d] \notin InLine /\ at'[d] \notin InLine)
    BY <1>1, <1>3 DEF Ending, Going, OthersStay, InLine, Locked, Writing, Writer
  <2> QED BY <1>1, <2>1, <2>2, LockQuiet
<1> QED BY <1>2, <1>3

LEMMA LockRequest ==
  ASSUME LockInv, SettingsAssumption, NEW d \in Delivery,
         Deliver(d) \/ Discover(d) \/ TakeLock(d) \/ ReadExisting(d)
  PROVE  LockInv'
<1>1. PlaceInv' /\ OthersStay(d)
  BY RequestMoves DEF LockInv
<1>2. \A e \in Delivery \ {d} : at'[e] = at[e] \/ (at[e] \notin InLine /\ at'[e] \notin InLine)
  BY <1>1 DEF OthersStay, InLine, Locked, Writing, Writer
<1>3. CASE Deliver(d)
  <2>1. \/ /\ waiting' = waiting
           /\ \E place \in {"idle", "joined", "asking"} : at' = [at EXCEPT ![d] = place]
        \/ waiting' = Append(waiting, d) /\ at' = [at EXCEPT ![d] = "queued"]
    <3>1. PICK k, body : Begin(d, k, body) \/ Repeat(d, Known(k), body)
      BY <1>3 DEF Deliver
    <3>2. CASE Repeat(d, Known(k), body)
      BY <3>2 DEF Repeat
    <3>3. CASE Begin(d, k, body)
      BY <3>3 DEF Begin
    <3> QED BY <3>1, <3>2, <3>3
  <2>2. at[d] \notin InLine
    BY <1>3 DEF Deliver, InLine, Locked, Writing
  <2>3. CASE waiting' = Append(waiting, d) /\ at' = [at EXCEPT ![d] = "queued"]
    BY <1>1, <2>2, <2>3, LockQueue DEF LockInv, PlaceInv, Writer
  <2>4. ASSUME NEW place \in {"idle", "joined", "asking"},
               at' = [at EXCEPT ![d] = place], waiting' = waiting
        PROVE  LockInv'
    <3>1. at'[d] \notin InLine
      BY <2>4 DEF LockInv, PlaceInv, InLine, Locked, Writing, Writer
    <3> QED BY <1>1, <1>2, <2>2, <2>4, <3>1, LockQuiet
  <2> QED BY <2>1, <2>3, <2>4
<1>4. CASE Discover(d)
  <2>1. waiting' = waiting /\ at[d] = "asking" /\ \E result : Commit(d, result)
    BY <1>4 DEF Discover
  <2>2. at'[d] = "idle"
    BY <2>1, CommitMoves DEF LockInv
  <2> QED BY <1>1, <1>2, <2>1, <2>2, LockQuiet DEF InLine, Locked, Writing
<1>5. CASE TakeLock(d)
  <2>1. at[d] \in InLine /\ waiting[1] = d
    <3>1. at[d] = "queued" /\ Head(waiting) = d
      BY <1>5 DEF TakeLock
    <3> QED BY <3>1 DEF InLine, LockInv
  <2>2. \/ at' = [at EXCEPT ![d] = "reading"] /\ waiting' = waiting
        \/ Commit(d, "invalid") /\ waiting' = Tail(waiting)
    BY <1>5 DEF TakeLock, Answer, Release
  <2>3. CASE at' = [at EXCEPT ![d] = "reading"] /\ waiting' = waiting
    <3>1. at'[d] \in Locked
      BY <2>3 DEF LockInv, PlaceInv, Locked, Writer
    <3> QED BY <1>1, <1>2, <2>1, <2>3, <3>1, LockQuiet
  <2>4. CASE Commit(d, "invalid") /\ waiting' = Tail(waiting)
    BY <1>1, <2>1, <2>4, LockLeave, CommitMoves DEF LockInv
  <2> QED BY <2>2, <2>3, <2>4
<1>6. CASE ReadExisting(d)
  <2>1. at[d] = "reading" /\ at[d] \in InLine /\ waiting[1] = d
    BY <1>6 DEF ReadExisting, InLine, Locked, LockInv
  <2>2. \/ at' = [at EXCEPT ![d] = "temp"] /\ waiting' = waiting
        \/ Commit(d, "failed") /\ waiting' = Tail(waiting)
    BY <1>6 DEF ReadExisting, Answer, Release
  <2>3. CASE at' = [at EXCEPT ![d] = "temp"] /\ waiting' = waiting
    <3>1. at'[d] \in Locked
      BY <2>3 DEF LockInv, PlaceInv, Locked, Writing, Writer
    <3> QED BY <1>1, <1>2, <2>1, <2>3, <3>1, LockQuiet
  <2>4. CASE Commit(d, "failed") /\ waiting' = Tail(waiting)
    BY <1>1, <2>1, <2>4, LockLeave, CommitMoves DEF LockInv
  <2> QED BY <2>2, <2>3, <2>4
<1> QED BY <1>3, <1>4, <1>5, <1>6

LEMMA LockOther ==
  ASSUME LockInv, SettingsAssumption,
         WizardStarts \/ WizardAnswered \/ Turn \/ ServerDies \/ WizardDies
  PROVE  LockInv'
<1>1. CASE ServerDies
  <2>1. waiting' = <<>> /\ \A d \in Delivery : at'[d] = "idle"
    BY <1>1 DEF ServerDies, Writer
  <2>2. PlaceInv'
    BY <1>1 DEF ServerDies, LockInv, PlaceInv, Places
  <2> QED BY <2>1, <2>2 DEF LockInv, InLine, Locked, Writing
<1>2. CASE WizardStarts \/ WizardAnswered \/ Turn \/ WizardDies
  <2>1. /\ waiting' = waiting
        /\ at' = at \/ \E place \in {"idle", "prompting", "temp"} : at' = [at EXCEPT ![Wizard] = place]
    BY <1>2 DEF WizardStarts, WizardAnswered, Turn, WizardDies
  <2>2. PlaceInv' /\ \A d \in Delivery : at'[d] = at[d]
    BY <2>1, SettingsAssumption DEF LockInv, PlaceInv, Places, Writing, Writer, SettingsAssumption
  <2> QED BY <2>1, <2>2, LockQuiet
<1> QED BY <1>1, <1>2

LEMMA LockStep ==
  ASSUME LockInv, [Next]_vars
  PROVE  LockInv'
<1>1. CASE UNCHANGED vars
  BY <1>1 DEF vars, LockInv, PlaceInv
<1> QED
  BY <1>1, LockWrite, LockRequest, LockOther, SettingsAssumption DEF Next, RequestStep, Writer

LEMMA IntervalSize ==
  ASSUME NEW n \in Nat
  PROVE  IsFiniteSet(1 .. n) /\ Cardinality(1 .. n) = n
BY FS_Interval

(* The saves of a server are served one at a time and in order; whoever    *)
(* ended, by an answer, an error or a crash, is out of the line.           *)
THEOREM LockIsServed == Spec => []LockServes
<1>1. Init => LockInv
  <2> SUFFICES ASSUME Init PROVE LockInv
    OBVIOUS
  <2>1. at = [w \in Writer |-> "idle"] /\ waiting = <<>>
    BY DEF Init
  <2> QED BY <2>1 DEF LockInv, PlaceInv, Places, InLine, Locked, Writing, Writer
<1>2. LockInv => LockServes
  <2> SUFFICES ASSUME LockInv PROVE LockServes
    OBVIOUS
  <2> DEFINE n == Len(waiting)
             line == [i \in 1 .. n |-> waiting[i]]
             who == {waiting[i] : i \in 1 .. n}
  <2>1. n \in Nat
    BY DEF LockInv
  <2>2. line \in Bijection(1 .. n, who)
    BY DEF LockInv, Bijection, Injection, Surjection, IsInjective
  <2>3. IsFiniteSet(1 .. n) /\ Cardinality(1 .. n) = n
    BY <2>1, IntervalSize
  <2>4. Cardinality(who) = n
    BY <2>2, <2>3, FS_Bijection DEF ExistsBijection
  <2>5. \A d \in Delivery : at[d] \in Locked => Head(waiting) = d
    BY DEF LockInv, InLine
  <2>6. \A i \in 1 .. n : at[waiting[i]] # "idle"
    BY DEF LockInv, InLine, Locked, Writing
  <2> QED BY <2>4, <2>5, <2>6 DEF LockServes, Locked, Writing
<1>3. LockInv /\ [Next]_vars => LockInv'
  BY LockStep
<1> QED BY <1>1, <1>2, <1>3, PTL DEF Spec

-----------------------------------------------------------------------------
(* The idempotency store.                                                  *)

Owner(d) == at[d] \notin {"idle", "joined"}

(* Whoever is under way finds its own body in a pending record, whoever    *)
(* has an answer finds it in the record or asked for something else, and a *)
(* record is made once and by one request.                                 *)
OnceInv ==
  /\ PlaceInv
  /\ records = [k \in Keys |-> records[k]] /\ runs = [k \in Keys |-> runs[k]]
  /\ answer = [d \in Delivery |-> answer[d]] /\ asked = [d \in Delivery |-> asked[d]]
  /\ \A k \in Keys : runs[k] \in {0, 1} /\ (records[k] = NoRecord => runs[k] = 0)
  /\ \A d \in Delivery : at[d] # "idle" =>
       /\ answer[d] = "none" /\ asked[d].key \in Keys
       /\ records[asked[d].key] # NoRecord
       /\ records[asked[d].key].body = asked[d].body
       /\ records[asked[d].key].answer = Pending
  /\ \A d \in Delivery : answer[d] # "none" =>
       /\ asked[d].key \in Keys /\ records[asked[d].key] # NoRecord
       /\ IF records[asked[d].key].body = asked[d].body
          THEN answer[d] = records[asked[d].key].answer /\ answer[d] # Pending
          ELSE answer[d] = "conflict"
  /\ \A d, e \in Delivery :
       Owner(d) /\ Owner(e) /\ asked[d].key = asked[e].key => d = e

LEMMA OnceQuiet ==
  ASSUME OnceInv, PlaceInv', UNCHANGED <<records, answer, asked, runs>>,
         \A d \in Delivery : at'[d] = at[d] \/ (Owner(d) /\ Owner(d)')
  PROVE  OnceInv'
BY DEF OnceInv, Owner

LEMMA RecordIsThere ==
  ASSUME NEW body, NEW result, result # "none"
  PROVE  [body |-> body, answer |-> result] # NoRecord
<1>1. [body |-> body, answer |-> result].answer = result /\ NoRecord.answer = "none"
  BY DEF NoRecord
<1> QED BY <1>1

LEMMA OnceCommit ==
  ASSUME OnceInv, NEW d \in Delivery, Owner(d),
         NEW result, result \notin {"none", Pending},
         Commit(d, result), UNCHANGED <<asked, runs>>
  PROVE  OnceInv'
<1> DEFINE k == asked[d].key
           joined == {e \in Delivery : at[e] = "joined" /\ asked[e].key = k}
           made == [body |-> asked[d].body, answer |-> result]
<1>1. /\ records' = [records EXCEPT ![k] = made]
      /\ answer' = [e \in Delivery |-> IF e \in joined \cup {d} THEN result ELSE answer[e]]
      /\ at' = [w \in Writer |-> IF w \in joined \cup {d} THEN "idle" ELSE at[w]]
  BY DEF Commit
<1>2. k \in Keys /\ records[k].body = asked[d].body /\ records[k].answer = Pending
  BY DEF OnceInv, Owner
<1>3. made # NoRecord /\ made.body = asked[d].body /\ made.answer = result
  BY RecordIsThere
<1>4. records[k] # NoRecord
  BY DEF OnceInv, Owner
<1> HIDE DEF made
<1>5. /\ records' = [l \in Keys |-> records'[l]]
      /\ records'[k] = made /\ \A l \in Keys \ {k} : records'[l] = records[l]
  BY <1>1, <1>2 DEF OnceInv
<1>6. PlaceInv'
  BY <1>1 DEF OnceInv, PlaceInv, Places
<1>7. \A e \in Delivery : at'[e] # "idle" => at'[e] = at[e] /\ e \notin joined \cup {d}
  BY <1>1 DEF Writer
<1>8. ASSUME NEW e \in Delivery, at'[e] # "idle"
      PROVE  /\ answer'[e] = "none" /\ asked[e].key \in Keys
             /\ records'[asked[e].key] # NoRecord
             /\ records'[asked[e].key].body = asked[e].body
             /\ records'[asked[e].key].answer = Pending
  <2>1. at[e] # "idle" /\ e # d /\ e \notin joined
    BY <1>7, <1>8
  <2>2. asked[e].key # k
    BY <2>1 DEF OnceInv, Owner
  <2>3. answer'[e] = answer[e] /\ asked[e].key \in Keys
    BY <1>1, <2>1 DEF OnceInv
  <2> QED BY <1>5, <2>1, <2>2, <2>3 DEF OnceInv
<1>9. ASSUME NEW e \in Delivery, answer'[e] # "none"
      PROVE  /\ asked[e].key \in Keys /\ records'[asked[e].key] # NoRecord
             /\ IF records'[asked[e].key].body = asked[e].body
                THEN answer'[e] = records'[asked[e].key].answer /\ answer'[e] # Pending
                ELSE answer'[e] = "conflict"
  <2>1. CASE e \in joined \cup {d}
    <3>1. asked[e].key = k /\ answer'[e] = result
      BY <1>1, <2>1
    <3>2. asked[e].body = asked[d].body
      BY <1>2, <2>1, <3>1 DEF OnceInv
    <3> QED BY <1>2, <1>3, <1>5, <3>1, <3>2
  <2>2. CASE e \notin joined \cup {d}
    <3>1. answer'[e] = answer[e]
      BY <1>1, <2>2
    <3>2. CASE asked[e].key = k
      <4>1. records[k].body # asked[e].body /\ answer[e] = "conflict"
        BY <1>2, <1>9, <3>1, <3>2 DEF OnceInv
      <4> QED BY <1>2, <1>3, <1>5, <3>1, <3>2, <4>1
    <3>3. CASE asked[e].key # k
      BY <1>5, <1>9, <3>1, <3>3 DEF OnceInv
    <3> QED BY <3>2, <3>3
  <2> QED BY <2>1, <2>2
<1>10. \A e \in Delivery : Owner(e)' => Owner(e)
  BY <1>7 DEF Owner
<1>11. \A l \in Keys : runs[l] \in {0, 1} /\ (records'[l] = NoRecord => runs[l] = 0)
  BY <1>3, <1>5 DEF OnceInv
<1>12. answer' = [e \in Delivery |-> answer'[e]]
  BY <1>1
<1> QED
  BY <1>5, <1>6, <1>8, <1>9, <1>10, <1>11, <1>12 DEF OnceInv

LEMMA OnceDeliver ==
  ASSUME OnceInv, SettingsAssumption, NEW d \in Delivery, Deliver(d)
  PROVE  OnceInv'
<1>0. PICK k \in Keys : \E body \in Draft :
        /\ asked' = [asked EXCEPT ![d] = [no |-> spent.deliveries + 1, key |-> k, body |-> body]]
        /\ IF Known(k) = NoRecord THEN Begin(d, k, body) ELSE Repeat(d, Known(k), body)
  BY DEF Deliver, Keys
<1>1. PICK body \in Draft :
        /\ asked' = [asked EXCEPT ![d] = [no |-> spent.deliveries + 1, key |-> k, body |-> body]]
        /\ IF Known(k) = NoRecord THEN Begin(d, k, body) ELSE Repeat(d, Known(k), body)
  BY <1>0
<1>2. at[d] = "idle" /\ PlaceInv' /\ OthersStay(d)
  BY RequestMoves DEF Deliver, OnceInv
<1>3. /\ asked'[d].key = k /\ asked'[d].body = body
      /\ asked' = [e \in Delivery |-> asked'[e]]
      /\ \A e \in Delivery \ {d} : asked'[e] = asked[e]
  BY <1>1 DEF OnceInv
<1>4. CASE Known(k) # NoRecord
  <2>1. Repeat(d, records[k], body) /\ UNCHANGED <<records, runs>>
    BY <1>1, <1>4 DEF Known, Repeat
  <2>2. \/ /\ records[k].body # body
           /\ answer' = [answer EXCEPT ![d] = "conflict"] /\ at' = [at EXCEPT ![d] = "idle"]
        \/ /\ records[k].body = body /\ records[k].answer = Pending
           /\ answer' = [answer EXCEPT ![d] = "none"] /\ at' = [at EXCEPT ![d] = "joined"]
        \/ /\ records[k].body = body /\ records[k].answer # Pending
           /\ answer' = [answer EXCEPT ![d] = records[k].answer]
           /\ at' = [at EXCEPT ![d] = "idle"]
    BY <2>1 DEF Repeat, SamePrint
  <2>3. \A e \in Delivery \ {d} : answer'[e] = answer[e] /\ at'[e] = at[e]
    BY <2>2 DEF OnceInv, PlaceInv, Writer
  <2>4. answer' = [e \in Delivery |-> answer'[e]]
    BY <2>2 DEF OnceInv
  <2>5. \/ records[k].body # body /\ answer'[d] = "conflict" /\ at'[d] = "idle"
        \/ /\ records[k].body = body /\ records[k].answer = Pending
           /\ answer'[d] = "none" /\ at'[d] = "joined"
        \/ /\ records[k].body = body /\ records[k].answer # Pending
           /\ answer'[d] = records[k].answer /\ at'[d] = "idle"
    BY <2>2 DEF OnceInv, PlaceInv, Writer
  <2>6. records[k] # NoRecord
    BY <1>4 DEF Known
  <2>7. \A e \in Delivery : Owner(e)' => Owner(e) /\ e # d
    BY <2>3, <2>5 DEF Owner
  <2>8. \A e, f \in Delivery :
          Owner(e)' /\ Owner(f)' /\ asked'[e].key = asked'[f].key => e = f
    BY <1>3, <2>7 DEF OnceInv
  <2>9. ASSUME NEW e \in Delivery, at'[e] # "idle"
        PROVE  /\ answer'[e] = "none" /\ asked'[e].key \in Keys
               /\ records[asked'[e].key] # NoRecord
               /\ records[asked'[e].key].body = asked'[e].body
               /\ records[asked'[e].key].answer = Pending
    <3>1. CASE e = d
      BY <1>3, <2>5, <2>6, <2>9, <3>1
    <3>2. CASE e # d
      <4>1. answer'[e] = answer[e] /\ at'[e] = at[e] /\ asked'[e] = asked[e]
        BY <1>3, <2>3, <3>2
      <4> QED BY <2>9, <4>1 DEF OnceInv
    <3> QED BY <3>1, <3>2
  <2>10. \A e \in Delivery : answer'[e] # "none" =>
          /\ asked'[e].key \in Keys /\ records[asked'[e].key] # NoRecord
          /\ IF records[asked'[e].key].body = asked'[e].body
             THEN answer'[e] = records[asked'[e].key].answer /\ answer'[e] # Pending
             ELSE answer'[e] = "conflict"
    BY <1>3, <2>3, <2>5, <2>6 DEF OnceInv
  <2> QED BY <1>2, <1>3, <2>1, <2>4, <2>8, <2>9, <2>10 DEF OnceInv
<1>5. CASE Known(k) = NoRecord
  <2>1. Begin(d, k, body) /\ records[k] = NoRecord
    BY <1>1, <1>5 DEF Known
  <2>2. PICK result \in {"busy", "invalid", Pending} :
          /\ records' = [records EXCEPT ![k] = [body |-> body, answer |-> result]]
          /\ answer' = [answer EXCEPT ![d] = IF result = Pending THEN "none" ELSE result]
          /\ result # Pending => at' = [at EXCEPT ![d] = "idle"]
    BY <2>1 DEF Begin, Pending
  <2>3. /\ runs' = [runs EXCEPT ![k] = @ + 1] /\ runs[k] = 0
    BY <2>1 DEF Begin, OnceInv
  <2> DEFINE made == [body |-> body, answer |-> result]
  <2>4. made # NoRecord /\ made.body = body /\ made.answer = result
    BY RecordIsThere DEF Pending
  <2> HIDE DEF made
  <2>5. /\ records' = [l \in Keys |-> records'[l]] /\ records'[k] = made
        /\ \A l \in Keys \ {k} : records'[l] = records[l]
    BY <2>2 DEF OnceInv, made
  <2>6. /\ runs' = [l \in Keys |-> runs'[l]] /\ runs'[k] = 1
        /\ \A l \in Keys \ {k} : runs'[l] = runs[l]
    BY <2>3 DEF OnceInv
  <2>7. /\ answer' = [e \in Delivery |-> answer'[e]]
        /\ answer'[d] = IF result = Pending THEN "none" ELSE result
        /\ \A e \in Delivery \ {d} : answer'[e] = answer[e]
    BY <2>2 DEF OnceInv
  <2>8. result # Pending => at'[d] = "idle"
    BY <2>2 DEF OnceInv, PlaceInv, Writer
  <2>9. \A e \in Delivery \ {d} :
          /\ at[e] # "idle" => asked[e].key # k
          /\ answer[e] # "none" => asked[e].key # k
    BY <2>1 DEF OnceInv
  <2>10. \A e \in Delivery \ {d} : at'[e] # "idle" => at'[e] = at[e]
    BY <1>2 DEF OthersStay, Writer
  <2>11. ASSUME NEW e \in Delivery, at'[e] # "idle"
         PROVE  /\ answer'[e] = "none" /\ asked'[e].key \in Keys
                /\ records'[asked'[e].key] # NoRecord
                /\ records'[asked'[e].key].body = asked'[e].body
                /\ records'[asked'[e].key].answer = Pending
    <3>1. CASE e = d
      BY <1>3, <2>4, <2>5, <2>7, <2>8, <2>11, <3>1
    <3>2. CASE e # d
      <4>1. answer'[e] = answer[e] /\ at[e] # "idle" /\ asked'[e] = asked[e]
        BY <1>3, <2>7, <2>10, <2>11, <3>2
      <4>2. asked[e].key \in Keys /\ asked[e].key # k
        BY <2>9, <3>2, <4>1 DEF OnceInv
      <4>3. records'[asked[e].key] = records[asked[e].key]
        BY <2>5, <4>2
      <4> QED BY <4>1, <4>2, <4>3 DEF OnceInv
    <3> QED BY <3>1, <3>2
  <2>12. \A e \in Delivery : answer'[e] # "none" =>
           /\ asked'[e].key \in Keys /\ records'[asked'[e].key] # NoRecord
           /\ IF records'[asked'[e].key].body = asked'[e].body
              THEN answer'[e] = records'[asked'[e].key].answer /\ answer'[e] # Pending
              ELSE answer'[e] = "conflict"
    BY <1>3, <2>4, <2>5, <2>7, <2>9 DEF OnceInv
  <2>13. \A e, f \in Delivery :
           Owner(e)' /\ Owner(f)' /\ asked'[e].key = asked'[f].key => e = f
    BY <1>3, <2>9, <2>10 DEF OnceInv, Owner
  <2>14. \A l \in Keys : runs'[l] \in {0, 1} /\ (records'[l] = NoRecord => runs'[l] = 0)
    BY <2>4, <2>5, <2>6 DEF OnceInv
  <2> QED BY <1>2, <1>3, <2>5, <2>6, <2>7, <2>11, <2>12, <2>13, <2>14 DEF OnceInv
<1> QED BY <1>4, <1>5

(* The writes of a request end in a commit or leave the store alone; those *)
(* of the wizard always do.                                                *)
LEMMA OnceWrite ==
  ASSUME OnceInv, SettingsAssumption, NEW w \in Writer, WriteStep(w)
  PROVE  OnceInv'
<1>1. /\ PlaceInv' /\ at[w] \in Writing
      /\ Ending(w) \/ \E place \in Writing : Going(w, place)
  BY WriteMoves DEF OnceInv
<1>2. UNCHANGED <<asked, runs>>
  BY DEF WriteStep, WriteTemp, Rename, Aside, Second, Cleanup, Restore, Unwritten
<1>3. \/ \E result \in {"ok", "failed"} : Ends(w, result)
      \/ \E place \in Writing : Goes(w, place)
  BY DEF WriteStep, WriteTemp, Rename, Aside, Second, Cleanup, Restore, GivesUp, Writing
<1>4. CASE \E place \in Writing : Goes(w, place)
  <2>1. UNCHANGED <<records, answer>> /\ \E place \in Writing : at' = [at EXCEPT ![w] = place]
    BY <1>4 DEF Goes
  <2>2. \A d \in Delivery : at'[d] = at[d] \/ (Owner(d) /\ Owner(d)')
    BY <1>1, <2>1 DEF OnceInv, PlaceInv, Owner, Writing, Writer
  <2> QED BY <1>1, <1>2, <2>1, <2>2, OnceQuiet
<1>5. ASSUME NEW result \in {"ok", "failed"}, Ends(w, result)
      PROVE  OnceInv'
  <2>1. CASE w \in Delivery
    <3>1. Commit(w, result) /\ Owner(w)
      BY <1>1, <1>5, <2>1 DEF Ends, Answer, Owner, Writing
    <3> QED BY <1>2, <1>5, <2>1, <3>1, OnceCommit DEF Pending
  <2>2. CASE w \notin Delivery
    <3>1. UNCHANGED <<records, answer>> /\ at' = [at EXCEPT ![w] = "idle"]
      BY <1>5, <2>2 DEF Ends
    <3>2. \A d \in Delivery : at'[d] = at[d]
      BY <2>2, <3>1 DEF OnceInv, PlaceInv, Writer
    <3> QED BY <1>1, <1>2, <3>1, <3>2, OnceQuiet
  <2> QED BY <2>1, <2>2
<1> QED BY <1>3, <1>4, <1>5

LEMMA OnceRequest ==
  ASSUME OnceInv, SettingsAssumption, NEW d \in Delivery,
         Discover(d) \/ TakeLock(d) \/ ReadExisting(d)
  PROVE  OnceInv'
<1>1. PlaceInv'
  BY RequestMoves DEF OnceInv
<1>2. Owner(d) /\ UNCHANGED <<asked, runs>>
  BY DEF Discover, TakeLock, ReadExisting, Owner
<1>3. \/ \E result \in {"ok", "unavailable", "invalid", "failed"} : Commit(d, result)
      \/ /\ UNCHANGED <<records, answer>>
         /\ \E place \in {"reading", "temp"} : at' = [at EXCEPT ![d] = place]
  BY DEF Discover, TakeLock, ReadExisting, Answer
<1>4. CASE \E result \in {"ok", "unavailable", "invalid", "failed"} : Commit(d, result)
  BY <1>2, <1>4, OnceCommit DEF Pending
<1>5. ASSUME NEW place \in {"reading", "temp"},
             UNCHANGED <<records, answer>>, at' = [at EXCEPT ![d] = place]
      PROVE  OnceInv'
  <2>1. \A e \in Delivery : at'[e] = at[e] \/ (Owner(e) /\ Owner(e)')
    BY <1>2, <1>5 DEF OnceInv, PlaceInv, Owner, Writer
  <2> QED BY <1>1, <1>2, <1>5, <2>1, OnceQuiet
<1> QED BY <1>3, <1>4, <1>5

LEMMA OnceOther ==
  ASSUME OnceInv, SettingsAssumption,
         WizardStarts \/ WizardAnswered \/ Turn \/ ServerDies \/ WizardDies
  PROVE  OnceInv'
<1>1. CASE ServerDies
  <2>1. /\ \A d \in Delivery : at'[d] = "idle" /\ answer'[d] = "none"
        /\ asked' = [d \in Delivery |-> NoAsk] /\ answer' = [d \in Delivery |-> "none"]
        /\ records' = [k \in Keys |-> NoRecord] /\ runs' = [k \in Keys |-> 0]
    BY <1>1 DEF ServerDies, Writer
  <2>2. PlaceInv'
    BY <1>1 DEF ServerDies, OnceInv, PlaceInv, Places
  <2> QED BY <2>1, <2>2 DEF OnceInv, Owner
<1>2. CASE WizardStarts \/ WizardAnswered \/ Turn \/ WizardDies
  <2>1. /\ UNCHANGED <<records, answer, asked, runs>>
        /\ at' = at \/ \E place \in {"idle", "prompting", "temp"} : at' = [at EXCEPT ![Wizard] = place]
    BY <1>2 DEF WizardStarts, WizardAnswered, Turn, WizardDies
  <2>2. PlaceInv' /\ \A d \in Delivery : at'[d] = at[d]
    BY <2>1 DEF OnceInv, PlaceInv, Places, Writing, Writer, SettingsAssumption
  <2> QED BY <2>1, <2>2, OnceQuiet
<1> QED BY <1>1, <1>2

LEMMA OnceStep ==
  ASSUME OnceInv, [Next]_vars
  PROVE  OnceInv'
<1>1. CASE UNCHANGED vars
  BY <1>1 DEF vars, OnceInv, PlaceInv, Owner
<1> QED
  BY <1>1, OnceDeliver, OnceRequest, OnceWrite, OnceOther, SettingsAssumption
  DEF Next, RequestStep, Writer

(* A request is executed once in the life of a server, however often it is *)
(* sent and whenever, and its repetitions get the answer of the first.     *)
THEOREM RequestsRunOnce == Spec => []OncePerRequest
<1>1. Init => OnceInv
  <2> SUFFICES ASSUME Init PROVE OnceInv
    OBVIOUS
  <2>1. /\ at = [w \in Writer |-> "idle"] /\ runs = [k \in Keys |-> 0]
        /\ records = [k \in Keys |-> NoRecord]
        /\ answer = [d \in Delivery |-> "none"] /\ asked = [d \in Delivery |-> NoAsk]
    BY DEF Init
  <2> QED BY <2>1 DEF OnceInv, Owner, PlaceInv, Places, Writer
<1>2. OnceInv => OncePerRequest
  BY DEF OnceInv, OncePerRequest
<1>3. OnceInv /\ [Next]_vars => OnceInv'
  BY OnceStep
<1> QED BY <1>1, <1>2, <1>3, PTL DEF Spec

-----------------------------------------------------------------------------
(* What is on file is what was asked for.                                  *)

(* A configuration, and not the lack of one.                               *)
There(c) == c # Missing /\ c # Broken

(* As long as no merge was blind, every configuration on file, set aside   *)
(* or about to be written has a rest the user put there; and so have the   *)
(* defaults while there was no configuration yet.                          *)
RestInv ==
  /\ Survives \/ DefaultRest \in chosen
  /\ ~blind =>
       /\ There(file) => file.rest \in chosen
       /\ \A w \in Writer : There(backup[w]) => backup[w].rest \in chosen
       /\ \A w \in Writer : There(new[w]) => new[w].rest \in chosen

LEMMA MadeIsReadable ==
  ASSUME NEW draft, NEW rest, NEW by
  PROVE  /\ There(Made(draft, rest, by))
         /\ Made(draft, rest, by).rest = rest /\ Made(draft, rest, by).by = by
<1>1. "url" \in DOMAIN Made(draft, rest, by)
  BY DEF Made
<1>2. "url" \notin DOMAIN Missing /\ "url" \notin DOMAIN Broken
  BY DEF Missing, Broken
<1>3. There(Made(draft, rest, by))
  BY <1>1, <1>2 DEF There
<1> QED BY <1>3 DEF Made

(* Files are copied, never changed: what a write leaves somewhere was      *)
(* somewhere before.                                                       *)
LEMMA WriteCopies ==
  ASSUME SavedInv, NEW w \in Writer, WriteStep(w)
  PROVE  /\ UNCHANGED <<asked, chosen, blind>>
         /\ file' \in {file, Missing, new[w], backup[w]}
         /\ \A v \in Writer : backup'[v] = backup[v] \/ (v = w /\ backup'[v] \in {Missing, file})
         /\ \A v \in Writer : new'[v] \in {new[v], Missing}
<1>1. UNCHANGED <<asked, chosen, blind>>
  BY DEF WriteStep, WriteTemp, Rename, Aside, Second, Cleanup, Restore, Unwritten
<1>2. \A v \in Writer : new'[v] \in {new[v], Missing}
  <2>1. Ending(w) \/ \E place \in Writing : Going(w, place)
    BY WriteMoves DEF SavedInv
  <2> QED BY <2>1 DEF Ending, Going, SavedInv
<1>3. /\ file' \in {file, Missing, new[w], backup[w]}
      /\ \E b \in {backup[w], Missing, file} : backup' = [backup EXCEPT ![w] = b] \/ backup' = backup
  BY DEF WriteStep, WriteTemp, Rename, Aside, Second, Cleanup, Restore
<1> QED BY <1>1, <1>2, <1>3 DEF SavedInv

LEMMA RestWrite ==
  ASSUME SavedInv, RestInv, Survives => Survives', NEW w \in Writer, WriteStep(w)
  PROVE  RestInv'
<1>1. /\ UNCHANGED <<asked, chosen, blind>>
      /\ file' \in {file, Missing, new[w], backup[w]}
      /\ \A v \in Writer : backup'[v] = backup[v] \/ (v = w /\ backup'[v] \in {Missing, file})
      /\ \A v \in Writer : new'[v] \in {new[v], Missing}
  BY WriteCopies
<1>2. Survives' \/ DefaultRest \in chosen'
  BY <1>1 DEF RestInv
<1>3. ~blind' =>
        /\ There(file)' => file'.rest \in chosen'
        /\ \A v \in Writer : There(backup'[v]) => backup'[v].rest \in chosen'
        /\ \A v \in Writer : There(new'[v]) => new'[v].rest \in chosen'
  BY <1>1 DEF RestInv, There
<1> QED BY <1>2, <1>3 DEF RestInv, There

(* Requests write nothing but what they merged.                            *)
LEMMA RestRequest ==
  ASSUME SavedInv, RestInv, NEW d \in Delivery,
         Deliver(d) \/ Discover(d) \/ TakeLock(d) \/ ReadExisting(d)
  PROVE  RestInv'
<1>1. UNCHANGED files
  BY SavedRequest, SettingsAssumption
<1>2. CASE Deliver(d) \/ Discover(d)
  <2>1. UNCHANGED <<new, chosen, blind>>
    BY <1>2 DEF Deliver, Discover
  <2> QED BY <1>1, <2>1 DEF RestInv, There, files, Survives
<1>3. CASE TakeLock(d)
  <2>1. UNCHANGED <<chosen, blind>> /\ (new' = new \/ new' = [new EXCEPT ![d] = Missing])
    BY <1>3 DEF TakeLock, Answer
  <2>2. \A w \in Writer : new'[w] \in {new[w], Missing}
    BY <2>1 DEF SavedInv
  <2> QED BY <1>1, <2>1, <2>2 DEF RestInv, There, files, Survives
<1>4. CASE ReadExisting(d)
  <2>1. CASE file = Broken
    <3>1. UNCHANGED <<chosen, blind>> /\ new' = [new EXCEPT ![d] = Missing]
      BY <1>4, <2>1 DEF ReadExisting, Answer
    <3>2. \A w \in Writer : new'[w] \in {new[w], Missing}
      BY <3>1 DEF SavedInv
    <3> QED BY <1>1, <3>1, <3>2 DEF RestInv, There, files, Survives
  <2>2. CASE file # Broken
    <3>1. /\ chosen' = chosen /\ new' = [new EXCEPT ![d] = Merged(d)]
          /\ blind' = (blind \/ (file = Missing /\ \E w \in Writer : backup[w] # Missing))
      BY <1>4, <2>2 DEF ReadExisting
    <3>2. Merged(d).rest = IF file = Missing THEN DefaultRest ELSE file.rest
      BY MadeIsReadable DEF Merged
    <3>3. ~blind' => Merged(d).rest \in chosen
      BY <2>2, <3>1, <3>2 DEF RestInv, Survives, There
    <3>4. \A w \in Writer : new'[w] = new[w] \/ new'[w] = Merged(d)
      BY <3>1 DEF SavedInv
    <3>5. ~blind' => ~blind
      BY <3>1
    <3> QED BY <1>1, <3>1, <3>3, <3>4, <3>5 DEF RestInv, There, files, Survives
  <2> QED BY <2>1, <2>2
<1> QED BY <1>2, <1>3, <1>4

LEMMA RestOther ==
  ASSUME SavedInv, RestInv,
         WizardStarts \/ WizardAnswered \/ Turn \/ ServerDies \/ WizardDies
  PROVE  RestInv'
<1>1. UNCHANGED files
  BY SavedOther
<1>2. UNCHANGED blind
  BY DEF WizardStarts, WizardAnswered, Turn, ServerDies, WizardDies
<1>3. chosen \subseteq chosen'
  BY DEF WizardStarts, WizardAnswered, Turn, ServerDies, WizardDies
<1>4. \A w \in Writer : new'[w] \in {new[w], Missing, file}
                        \/ new'[w].rest \in chosen'
  <2>1. CASE WizardStarts \/ Turn \/ ServerDies \/ WizardDies
    BY <2>1 DEF WizardStarts, Turn, ServerDies, WizardDies, SavedInv
  <2>2. CASE WizardAnswered
    <3>1. \/ \E d \in Draft : /\ new' = [new EXCEPT ![Wizard] = Made(d, WizardRest, 0)]
                              /\ WizardRest \in chosen'
          \/ new' = [new EXCEPT ![Wizard] = Missing]
      BY <2>2 DEF WizardAnswered
    <3>2. \A d : Made(d, WizardRest, 0).rest = WizardRest
      BY MadeIsReadable
    <3> QED BY <3>1, <3>2 DEF SavedInv
  <2> QED BY <2>1, <2>2
<1> QED BY <1>1, <1>2, <1>3, <1>4 DEF RestInv, There, files, Survives

LEMMA RestStep ==
  ASSUME SavedInv, RestInv, [Next]_vars
  PROVE  RestInv'
<1>1. CASE UNCHANGED vars
  BY <1>1 DEF vars, RestInv, There, Survives
<1>2. ASSUME NEW w \in Writer, WriteStep(w) PROVE RestInv'
  BY <1>2, SavedWrite, RestWrite
<1> QED BY <1>1, <1>2, RestRequest, RestOther DEF Next, RequestStep, Writer

-----------------------------------------------------------------------------
(* A save that failed left nothing.                                        *)

Number(d) == asked[d].no

OnFile(n) == There(file) /\ file.by = n

SetAside(w, n) == There(backup[w]) /\ backup[w].by = n

(* Requests are numbered as they come; a configuration has the number of   *)
(* the request that wrote it, or none.                                     *)
NumberInv ==
  /\ spent = [kind \in DOMAIN spent |-> spent[kind]]
  /\ {"deliveries", "fails"} \subseteq DOMAIN spent
  /\ spent.deliveries \in Nat /\ spent.fails \in Nat
  /\ \A d \in Delivery : Number(d) \in 0 .. spent.deliveries
  /\ \A d, e \in Delivery : (d # e /\ Number(d) = Number(e)) => Number(d) = 0
  /\ \A d \in Delivery : (at[d] # "idle" \/ answer[d] = "failed") => Number(d) # 0
  /\ There(file) => file.by \in 0 .. spent.deliveries
  /\ \A w \in Writer : There(backup[w]) => backup[w].by \in 0 .. spent.deliveries
  /\ \A w \in Writer : at[w] \in Writing =>
       There(new[w]) /\ new[w].by = IF w \in Delivery THEN Number(w) ELSE 0

(* Only who lost a file operation has something to restore.                *)
RestoreInv ==
  /\ spent.fails = 0 => \A w \in Writer : at[w] # "restore"
  /\ spent.fails = 1 => \A v, w \in Writer : at[v] = "restore" /\ at[w] = "restore" => v = w

(* Before the new file is in place, or in the second attempt being put.    *)
Unplaced == {"joined", "queued", "asking", "reading", "temp", "rename", "aside", "second"}

(* Before a request has put its file into place there is none of it; while *)
(* it may have to go back it does not hold its own as the old one; and     *)
(* when it failed its file is gone, or set aside by somebody who will not  *)
(* put it back.                                                            *)
PlacedInv ==
  /\ \A d \in Delivery : at[d] \in Unplaced =>
       ~OnFile(Number(d)) /\ \A w \in Writer : ~SetAside(w, Number(d))
  /\ \A d \in Delivery : at[d] \in {"cleanup", "restore"} => ~SetAside(d, Number(d))
  /\ \A d \in Delivery : (at[d] = "idle" /\ answer[d] = "failed" /\ spent.fails <= 1) =>
       /\ ~OnFile(Number(d))
       /\ \A w \in Writer : SetAside(w, Number(d)) => at[w] # "restore" /\ spent.fails = 1

FailInv == SavedInv /\ OnceInv /\ NumberInv /\ RestoreInv /\ PlacedInv

(* Who has failed after a step failed before it, had joined a request that *)
(* failed with it, or took the step.                                       *)
FailsWith(w) ==
  \A d \in Delivery : (at'[d] = "idle" /\ answer'[d] = "failed") =>
    d = w \/ at[d] = "joined" \/ (at[d] = "idle" /\ answer[d] = "failed")

LEMMA CommitFails ==
  ASSUME OnceInv, NEW d \in Delivery, NEW result, Commit(d, result)
  PROVE  FailsWith(d) /\ answer'[d] = result
BY DEF Commit, FailsWith, OnceInv, PlaceInv, Writer

LEMMA EndsFails ==
  ASSUME OnceInv, SettingsAssumption, NEW w \in Writer, NEW result, Ends(w, result)
  PROVE  FailsWith(w) /\ (w \in Delivery => answer'[w] = result)
<1>1. CASE w \in Delivery
  BY <1>1, CommitFails DEF Ends, Answer
<1>2. CASE w \notin Delivery
  BY <1>2 DEF Ends, FailsWith, OnceInv, PlaceInv, Writer
<1> QED BY <1>1, <1>2

LEMMA GoesFails ==
  ASSUME OnceInv, NEW w \in Writer, NEW place, Goes(w, place)
  PROVE  FailsWith(w)
BY DEF Goes, FailsWith, OnceInv, PlaceInv, Writer

(* What a step of a write does to the files, by where the writer stands.   *)
FilesStay == UNCHANGED <<file, backup>>
Won(w)    == w \in Delivery => answer'[w] = "ok"

Outcome(w) ==
  \/ at[w] \in {"temp", "rename"} /\ at'[w] \in {"rename", "aside"} /\ FilesStay
       /\ spent'.fails = spent.fails
  \/ at[w] \in {"temp", "rename", "aside"} /\ at'[w] = "idle" /\ FilesStay
       /\ spent'.fails \in {spent.fails, spent.fails + 1}
  \/ at[w] = "rename" /\ at'[w] = "idle" /\ file' = new[w] /\ backup' = backup /\ Won(w)
       /\ spent'.fails = spent.fails
  \/ at[w] = "aside" /\ at'[w] = "second" /\ file' = Missing
       /\ backup' = [backup EXCEPT ![w] = file] /\ spent'.fails = spent.fails
  \/ at[w] = "second" /\ at'[w] = "cleanup" /\ file' = new[w] /\ backup' = backup
       /\ spent'.fails = spent.fails
  \/ at[w] \in {"second", "cleanup"} /\ at'[w] = "restore" /\ FilesStay
       /\ spent'.fails = spent.fails + 1
  \/ at[w] = "cleanup" /\ at'[w] = "idle" /\ file' = file
       /\ backup' = [backup EXCEPT ![w] = Missing] /\ Won(w) /\ spent'.fails = spent.fails
  \/ at[w] = "restore" /\ at'[w] = "idle" /\ file' = backup[w]
       /\ backup' = [backup EXCEPT ![w] = Missing] /\ spent'.fails = spent.fails
  \/ at[w] = "restore" /\ at'[w] = "idle" /\ FilesStay
       /\ spent'.fails = spent.fails + 1

SpentShape ==
  /\ spent = [kind \in DOMAIN spent |-> spent[kind]]
  /\ {"deliveries", "fails"} \subseteq DOMAIN spent
  /\ spent.deliveries \in Nat /\ spent.fails \in Nat

LEMMA Spending ==
  ASSUME SpentShape
  PROVE  /\ Fails => spent'.fails = spent.fails + 1 /\ spent'.deliveries = spent.deliveries
         /\ Spend(MaxRefusals, "refusals") =>
              spent'.fails = spent.fails /\ spent'.deliveries = spent.deliveries
         /\ Fails \/ Spend(MaxRefusals, "refusals") => SpentShape'
<1>1. ASSUME Fails
      PROVE  /\ spent'.fails = spent.fails + 1 /\ spent'.deliveries = spent.deliveries
             /\ SpentShape'
  <2>1. spent' = [spent EXCEPT !["fails"] = @ + 1]
    BY <1>1 DEF Fails, Spend
  <2>2. /\ spent'.fails = spent.fails + 1 /\ spent'.deliveries = spent.deliveries
        /\ DOMAIN spent' = DOMAIN spent
    BY <2>1 DEF SpentShape
  <2>3. spent' = [kind \in DOMAIN spent' |-> spent'[kind]]
    BY <2>1 DEF SpentShape
  <2> QED BY <2>2, <2>3 DEF SpentShape
<1>2. ASSUME Spend(MaxRefusals, "refusals")
      PROVE  /\ spent'.fails = spent.fails /\ spent'.deliveries = spent.deliveries
             /\ SpentShape'
  <2>1. spent' = [spent EXCEPT !["refusals"] = @ + 1]
    BY <1>2 DEF Spend
  <2> QED BY <2>1 DEF SpentShape
<1> QED BY <1>1, <1>2

LEMMA WriteSpends ==
  ASSUME SpentShape, NEW w \in Writer, WriteStep(w)
  PROVE  SpentShape' /\ spent'.deliveries = spent.deliveries
<1>1. UNCHANGED spent \/ Fails \/ Spend(MaxRefusals, "refusals")
  BY DEF WriteStep, WriteTemp, Rename, Aside, Second, Cleanup, Restore
<1>2. CASE UNCHANGED spent
  BY <1>2 DEF SpentShape
<1>3. CASE Fails \/ Spend(MaxRefusals, "refusals")
  BY <1>3, Spending
<1> QED BY <1>1, <1>2, <1>3

LEMMA WriteOutcome ==
  ASSUME SavedInv, OnceInv, SpentShape, NEW w \in Writer, WriteStep(w)
  PROVE  FailsWith(w) /\ OthersStay(w) /\ Outcome(w)
<1>0. PlaceInv /\ SettingsAssumption
  BY SettingsAssumption DEF SavedInv
<1>1. FailsWith(w) /\ OthersStay(w)
  <2>1. (\E result : Ends(w, result)) \/ \E place \in Writing : Goes(w, place)
    BY DEF WriteStep, WriteTemp, Rename, Aside, Second, Cleanup, Restore, GivesUp, Writing
  <2>2. CASE \E result : Ends(w, result)
    BY <1>0, <2>2, EndsFails, EndsMoves DEF Ending
  <2>3. ASSUME NEW place \in Writing, Goes(w, place)
        PROVE  FailsWith(w) /\ OthersStay(w)
    BY <1>0, <2>3, GoesFails, GoesMoves DEF Going, OthersStay, Places
  <2> QED BY <2>1, <2>2, <2>3
<1>2. ASSUME NEW result, Ends(w, result)
      PROVE  at'[w] = "idle" /\ (w \in Delivery => answer'[w] = result)
  BY <1>0, <1>2, EndsMoves, EndsFails DEF Ending
<1>3. ASSUME NEW place \in Writing, Goes(w, place)
      PROVE  at'[w] = place
  BY <1>0, <1>3, GoesMoves DEF Going, Places
<1>4. GivesUp(w) => at'[w] = "idle"
  BY <1>2 DEF GivesUp
<1>5. CASE WriteTemp(w)
  <2>1. at[w] = "temp" /\ FilesStay
    BY <1>5 DEF WriteTemp, FilesStay
  <2>2. (Goes(w, "rename") /\ UNCHANGED spent) \/ (Fails /\ GivesUp(w))
    BY <1>5 DEF WriteTemp
  <2>3. \/ at'[w] = "rename" /\ spent'.fails = spent.fails
        \/ at'[w] = "idle" /\ spent'.fails = spent.fails + 1
    BY <1>3, <1>4, <2>2, Spending DEF Writing
  <2> QED BY <1>1, <2>1, <2>3 DEF Outcome
<1>6. CASE Rename(w)
  <2>1. at[w] = "rename" /\ backup' = backup
    BY <1>6 DEF Rename
  <2>2. \/ file' = new[w] /\ Ends(w, "ok") /\ UNCHANGED spent
        \/ Spend(MaxRefusals, "refusals") /\ Goes(w, "aside") /\ UNCHANGED file
        \/ Fails /\ GivesUp(w) /\ UNCHANGED file
    BY <1>6 DEF Rename
  <2>3. CASE file' = new[w] /\ Ends(w, "ok") /\ UNCHANGED spent
    <3>1. at'[w] = "idle" /\ Won(w)
      BY <1>2, <2>3 DEF Won
    <3> QED BY <1>1, <2>1, <2>3, <3>1 DEF Outcome
  <2>4. CASE Spend(MaxRefusals, "refusals") /\ Goes(w, "aside") /\ UNCHANGED file
    BY <1>1, <1>3, <2>1, <2>4, Spending DEF Writing, Outcome, FilesStay
  <2>5. CASE Fails /\ GivesUp(w) /\ UNCHANGED file
    BY <1>1, <1>4, <2>1, <2>5, Spending DEF Outcome, FilesStay
  <2> QED BY <2>2, <2>3, <2>4, <2>5
<1>7. CASE Aside(w)
  <2>1. at[w] = "aside"
    BY <1>7 DEF Aside
  <2>2. \/ /\ backup' = [backup EXCEPT ![w] = file] /\ file' = Missing
           /\ Goes(w, "second") /\ UNCHANGED spent
        \/ /\ UNCHANGED spent \/ Fails
           /\ GivesUp(w) /\ FilesStay
    BY <1>7 DEF Aside, FilesStay
  <2>3. CASE /\ backup' = [backup EXCEPT ![w] = file] /\ file' = Missing
             /\ Goes(w, "second") /\ UNCHANGED spent
    BY <1>1, <1>3, <2>1, <2>3 DEF Writing, Outcome
  <2>4. CASE (UNCHANGED spent \/ Fails) /\ GivesUp(w) /\ FilesStay
    BY <1>1, <1>4, <2>1, <2>4, Spending DEF Outcome
  <2> QED BY <2>2, <2>3, <2>4
<1>8. CASE Second(w)
  <2>1. at[w] = "second" /\ backup' = backup
    BY <1>8 DEF Second
  <2>2. \/ file' = new[w] /\ Goes(w, "cleanup") /\ UNCHANGED spent
        \/ Fails /\ Goes(w, "restore") /\ UNCHANGED file
    BY <1>8 DEF Second
  <2> QED BY <1>1, <1>3, <2>1, <2>2, Spending DEF Writing, Outcome, FilesStay
<1>9. CASE Cleanup(w)
  <2>1. at[w] = "cleanup" /\ file' = file
    BY <1>9 DEF Cleanup
  <2>2. \/ backup' = [backup EXCEPT ![w] = Missing] /\ Ends(w, "ok") /\ UNCHANGED spent
        \/ Fails /\ Goes(w, "restore") /\ UNCHANGED backup
    BY <1>9 DEF Cleanup
  <2>3. CASE backup' = [backup EXCEPT ![w] = Missing] /\ Ends(w, "ok") /\ UNCHANGED spent
    <3>1. at'[w] = "idle" /\ Won(w)
      BY <1>2, <2>3 DEF Won
    <3> QED BY <1>1, <2>1, <2>3, <3>1 DEF Outcome
  <2>4. CASE Fails /\ Goes(w, "restore") /\ UNCHANGED backup
    BY <1>1, <1>3, <2>1, <2>4, Spending DEF Writing, Outcome, FilesStay
  <2> QED BY <2>2, <2>3, <2>4
<1>10. CASE Restore(w)
  <2>1. at[w] = "restore" /\ at'[w] = "idle"
    BY <1>4, <1>10 DEF Restore
  <2>2. \/ file' = backup[w] /\ backup' = [backup EXCEPT ![w] = Missing] /\ UNCHANGED spent
        \/ Fails /\ FilesStay
    BY <1>10 DEF Restore, FilesStay
  <2> QED BY <1>1, <2>1, <2>2, Spending DEF Outcome
<1> QED BY <1>5, <1>6, <1>7, <1>8, <1>9, <1>10 DEF WriteStep

(* A writer's step keeps the numbers.                                      *)
LEMMA NumberWrite ==
  ASSUME FailInv, NEW w \in Writer, WriteStep(w)
  PROVE  NumberInv'
<1>0. SavedInv /\ OnceInv /\ NumberInv /\ SpentShape /\ PlaceInv
  BY DEF FailInv, NumberInv, SpentShape, SavedInv
<1>1. FailsWith(w) /\ OthersStay(w) /\ Outcome(w)
  BY <1>0, WriteOutcome
<1>2. SpentShape' /\ spent'.deliveries = spent.deliveries
  BY <1>0, WriteSpends
<1>3. /\ asked' = asked
      /\ file' \in {file, Missing, new[w], backup[w]}
      /\ \A v \in Writer : backup'[v] = backup[v] \/ (v = w /\ backup'[v] \in {Missing, file})
  BY <1>0, WriteCopies
<1>4. at[w] \in Writing
  BY <1>0, WriteMoves
<1>5. There(new[w]) /\ new[w].by \in 0 .. spent.deliveries
  BY <1>0, <1>4 DEF NumberInv
<1>6. /\ There(file') => file'.by \in 0 .. spent.deliveries
      /\ \A v \in Writer : There(backup'[v]) => backup'[v].by \in 0 .. spent.deliveries
  BY <1>0, <1>3, <1>5 DEF NumberInv, There
<1>7. \A d \in Delivery : (at'[d] # "idle" \/ answer'[d] = "failed") => Number(d) # 0
  <2> SUFFICES ASSUME NEW d \in Delivery, at'[d] # "idle" \/ answer'[d] = "failed"
               PROVE  Number(d) # 0
    OBVIOUS
  <2>1. CASE at'[d] # "idle"
    BY <1>0, <1>1, <1>4, <2>1 DEF OthersStay, NumberInv, Writing, Writer
  <2>2. CASE at'[d] = "idle"
    BY <1>0, <1>1, <1>4, <2>2 DEF FailsWith, NumberInv, Writing
  <2> QED BY <2>1, <2>2
<1>8. \A v \in Writer : at'[v] \in Writing =>
        There(new'[v]) /\ new'[v].by = IF v \in Delivery THEN Number(v) ELSE 0
  <2>1. /\ Ending(w) \/ \E place \in Writing : Going(w, place)
    BY <1>0, WriteMoves
  <2>2. \A v \in Writer : at'[v] \in Writing => at[v] \in Writing /\ new'[v] = new[v]
    BY <1>0, <1>4, <2>1 DEF Ending, Going, OthersStay, SavedInv, Writing
  <2> QED BY <1>0, <2>2 DEF NumberInv
<1>9. Number(w)' = Number(w) /\ \A d \in Delivery : Number(d)' = Number(d)
  BY <1>3 DEF Number
<1> QED BY <1>0, <1>2, <1>3, <1>6, <1>7, <1>8, <1>9 DEF NumberInv, SpentShape, There, Number

LEMMA RestoreWrite ==
  ASSUME FailInv, NEW w \in Writer, WriteStep(w)
  PROVE  RestoreInv'
<1>0. SavedInv /\ OnceInv /\ SpentShape /\ RestoreInv
  BY DEF FailInv, NumberInv, SpentShape
<1>1. OthersStay(w) /\ Outcome(w)
  BY <1>0, WriteOutcome
<1>2. \A v \in Writer : v # w /\ at'[v] = "restore" => at[v] = "restore"
  BY <1>1 DEF OthersStay
<1>3. \/ at'[w] # "restore" /\ spent'.fails \in {spent.fails, spent.fails + 1}
      \/ at'[w] = "restore" /\ spent'.fails = spent.fails + 1
  BY <1>1 DEF Outcome
<1>4. spent.fails \in Nat
  BY <1>0 DEF SpentShape
<1>5. spent'.fails = 0 => spent.fails = 0
  BY <1>3, <1>4
<1>6. spent'.fails = 1 => (spent.fails = 0 \/ (spent.fails = 1 /\ at'[w] # "restore"))
  BY <1>3, <1>4
<1>7. spent'.fails = 0 => \A v \in Writer : at'[v] # "restore"
  BY <1>0, <1>2, <1>3, <1>4, <1>5 DEF RestoreInv
<1>8. spent'.fails = 1 =>
        \A u, v \in Writer : at'[u] = "restore" /\ at'[v] = "restore" => u = v
  BY <1>0, <1>2, <1>6 DEF RestoreInv
<1> QED BY <1>7, <1>8 DEF RestoreInv

LEMMA PlacedWrite ==
  ASSUME FailInv, NEW w \in Writer, WriteStep(w)
  PROVE  PlacedInv'
<1>0. SavedInv /\ OnceInv /\ NumberInv /\ SpentShape /\ PlaceInv /\ RestoreInv /\ PlacedInv
  BY DEF FailInv, NumberInv, SpentShape, SavedInv
<1>1. FailsWith(w) /\ OthersStay(w) /\ Outcome(w)
  BY <1>0, WriteOutcome
<1>2. /\ asked' = asked
      /\ file' \in {file, Missing, new[w], backup[w]}
      /\ \A v \in Writer : backup'[v] = backup[v] \/ (v = w /\ backup'[v] \in {Missing, file})
  BY <1>0, WriteCopies
<1>3. at[w] \in Writing /\ There(new[w])
  BY <1>0, WriteMoves DEF NumberInv
<1>4. spent.fails \in Nat /\ spent'.fails \in {spent.fails, spent.fails + 1}
  BY <1>0, <1>1 DEF SpentShape, Outcome
(* The writer's file is its own, not another request's.                    *)
<1>5. ASSUME NEW d \in Delivery, d # w, Number(d) # 0
      PROVE  new[w].by # Number(d)
  BY <1>0, <1>3, <1>5 DEF NumberInv
<1>6. ASSUME NEW d \in Delivery, at'[d] \in Unplaced
      PROVE  ~OnFile(Number(d))' /\ \A v \in Writer : ~SetAside(v, Number(d))'
  <2>1. at[d] \in Unplaced /\ Number(d) # 0
    <3>1. d # w => at[d] = at'[d] /\ at[d] # "idle"
      BY <1>1, <1>6 DEF OthersStay, Unplaced, Writer
    <3>2. d = w => at[d] \in Unplaced
      BY <1>1, <1>6 DEF Outcome, Unplaced
    <3> QED BY <1>0, <1>6, <3>1, <3>2 DEF NumberInv, Unplaced
  <2>2. ~OnFile(Number(d)) /\ \A v \in Writer : ~SetAside(v, Number(d))
    BY <1>0, <2>1 DEF PlacedInv
  <2>3. d = w => file' \in {file, Missing}
    BY <1>1, <1>6 DEF Outcome, Unplaced, FilesStay
  <2>4. ~OnFile(Number(d))'
    BY <1>2, <1>5, <2>1, <2>2, <2>3 DEF OnFile, SetAside, Number, There
  <2> QED BY <1>2, <2>2, <2>4 DEF OnFile, SetAside, Number, There
<1>7. ASSUME NEW d \in Delivery, at'[d] \in {"cleanup", "restore"}
      PROVE  ~SetAside(d, Number(d))'
  <2>1. at[d] \in {"second", "cleanup", "restore"} /\ d \in Writer
    BY <1>1, <1>7 DEF Outcome, OthersStay, Writer
  <2>2. ~SetAside(d, Number(d))
    BY <1>0, <2>1 DEF PlacedInv, Unplaced
  <2>3. backup'[d] = backup[d]
    BY <1>1, <1>2, <1>7, <2>1 DEF Outcome, FilesStay
  <2> QED BY <1>2, <2>2, <2>3 DEF SetAside, Number
<1>8. ASSUME NEW d \in Delivery, at'[d] = "idle", answer'[d] = "failed", spent'.fails <= 1
      PROVE  /\ ~OnFile(Number(d))'
             /\ \A v \in Writer :
                  SetAside(v, Number(d))' => at'[v] # "restore" /\ spent'.fails = 1
  <2>0. d \in Writer
    BY DEF Writer
  <2>1. d # w => at[d] \in Unplaced \/ (at[d] = "idle" /\ answer[d] = "failed")
    BY <1>1, <1>8 DEF FailsWith, Unplaced
  <2>2. Number(d) # 0
    BY <1>0, <1>3, <2>1 DEF NumberInv, Unplaced, Writing
  <2>3. spent.fails <= 1 /\ (spent.fails = 1 => spent'.fails = 1)
    BY <1>4, <1>8
  <2>4. CASE d # w /\ at[d] \in Unplaced
    <3>1. ~OnFile(Number(d)) /\ \A v \in Writer : ~SetAside(v, Number(d))
      BY <1>0, <2>4 DEF PlacedInv
    <3> QED BY <1>2, <1>5, <2>2, <2>4, <3>1 DEF OnFile, SetAside, Number, There
  <2>5. CASE d # w /\ at[d] = "idle" /\ answer[d] = "failed"
    <3>1. /\ ~OnFile(Number(d))
          /\ \A v \in Writer : SetAside(v, Number(d)) => at[v] # "restore" /\ spent.fails = 1
      BY <1>0, <2>3, <2>5 DEF PlacedInv
    <3>2. ~OnFile(Number(d))'
      <4>1. CASE file' = file \/ file' = Missing
        BY <1>2, <3>1, <4>1 DEF OnFile, Number, There
      <4>2. CASE file' = new[w]
        BY <1>2, <1>5, <2>2, <2>5, <4>2 DEF OnFile, Number, There
      <4>3. CASE at[w] = "restore" /\ file' = backup[w]
        BY <1>2, <3>1, <4>3 DEF OnFile, SetAside, Number, There
      <4> QED BY <1>1, <4>1, <4>2, <4>3 DEF Outcome, FilesStay
    <3>3. ASSUME NEW v \in Writer, SetAside(v, Number(d))'
          PROVE  SetAside(v, Number(d))
      BY <1>2, <3>1, <3>3 DEF OnFile, SetAside, Number, There
    <3>4. ASSUME NEW v \in Writer, SetAside(v, Number(d))'
          PROVE  at'[v] # "restore" /\ spent'.fails = 1
      <4>1. at[v] # "restore" /\ spent.fails = 1 /\ spent'.fails = 1
        BY <2>3, <3>1, <3>3, <3>4
      <4>2. v = w => at'[v] # "restore"
        BY <1>1, <4>1 DEF Outcome
      <4>3. v # w => at'[v] # "restore"
        BY <1>1, <4>1 DEF OthersStay
      <4> QED BY <4>1, <4>2, <4>3
    <3> QED BY <3>2, <3>4
  <2>6. CASE d = w
    <3>1. CASE at[w] \in {"temp", "rename", "aside"} /\ FilesStay
      <4>1. ~OnFile(Number(d)) /\ \A v \in Writer : ~SetAside(v, Number(d))
        BY <1>0, <2>6, <3>1 DEF PlacedInv, Unplaced
      <4> QED BY <1>2, <3>1, <4>1 DEF FilesStay, OnFile, SetAside, Number
    <3>2. CASE at[w] = "restore"
      <4>1. spent.fails # 0
        BY <1>0, <3>2 DEF RestoreInv
      <4>2. spent.fails = 1 /\ spent'.fails = 1
        BY <1>4, <1>8, <4>1
      <4>3. file' = backup[w]
        BY <1>1, <3>2, <4>2 DEF Outcome
      <4>4. ~SetAside(w, Number(w))
        BY <1>0, <2>6, <3>2 DEF PlacedInv
      <4>5. \A v \in Writer : at'[v] # "restore"
        <5>1. \A v \in Writer : v # w => at[v] # "restore"
          BY <1>0, <3>2, <4>2 DEF RestoreInv
        <5> QED BY <1>1, <1>8, <2>6, <5>1 DEF OthersStay
      <4> QED BY <1>2, <2>6, <4>2, <4>3, <4>4, <4>5 DEF OnFile, SetAside, Number
    <3> QED BY <1>1, <1>8, <2>6, <3>1, <3>2 DEF Outcome, Won
  <2> QED BY <2>1, <2>4, <2>5, <2>6
<1> QED BY <1>6, <1>7, <1>8 DEF PlacedInv, OnFile, SetAside, Number

(* A request that is new, reads or merges finds no number of its own; one  *)
(* that ends has none on file.                                             *)
LEMMA FailRequest ==
  ASSUME FailInv, NEW d \in Delivery,
         Deliver(d) \/ Discover(d) \/ TakeLock(d) \/ ReadExisting(d)
  PROVE  NumberInv' /\ RestoreInv' /\ PlacedInv'
<1>0. SavedInv /\ OnceInv /\ NumberInv /\ SpentShape /\ PlaceInv /\ RestoreInv /\ PlacedInv
  BY DEF FailInv, NumberInv, SpentShape, SavedInv
<1>1. /\ PlaceInv' /\ OthersStay(d) /\ UNCHANGED files
      /\ at'[d] \in {"idle", "joined", "queued", "asking", "reading", "temp"}
  BY <1>0, RequestMoves, SettingsAssumption
<1>2. /\ \A w \in Writer \ {d} : new'[w] = new[w]
      /\ at'[d] = "temp" =>
           There(new'[d]) /\ new'[d].by = Number(d)' /\ at[d] = "reading" /\ asked' = asked
  <2>1. CASE Deliver(d) \/ Discover(d)
    <3>1. new' = new /\ at'[d] # "temp"
      <4>1. CASE Deliver(d)
        <5>1. \E place \in {"idle", "joined", "queued", "asking"} : at' = [at EXCEPT ![d] = place]
          BY <4>1 DEF Deliver, Begin, Repeat
        <5> QED BY <1>0, <4>1, <5>1 DEF Deliver, PlaceInv, Writer
      <4>2. CASE Discover(d)
        BY <1>0, <4>2, CommitMoves DEF Discover
      <4> QED BY <2>1, <4>1, <4>2
    <3> QED BY <3>1
  <2>2. CASE TakeLock(d)
    <3>1. \/ new' = new /\ at' = [at EXCEPT ![d] = "reading"]
          \/ new' = [new EXCEPT ![d] = Missing] /\ Commit(d, "invalid")
      BY <2>2 DEF TakeLock, Answer
    <3>2. at'[d] # "temp"
      BY <1>0, <3>1, CommitMoves DEF PlaceInv, Writer
    <3> QED BY <1>0, <3>1, <3>2 DEF SavedInv
  <2>3. CASE ReadExisting(d)
    <3>1. \/ new' = [new EXCEPT ![d] = Merged(d)]
          \/ new' = [new EXCEPT ![d] = Missing] /\ Commit(d, "failed")
      BY <2>3 DEF ReadExisting, Answer
    <3>2. There(Merged(d)) /\ Merged(d).by = Number(d)
      BY MadeIsReadable DEF Merged, Number
    <3>3. asked' = asked /\ at[d] = "reading"
      BY <2>3 DEF ReadExisting
    <3>4. CASE new' = [new EXCEPT ![d] = Merged(d)]
      BY <1>0, <3>2, <3>3, <3>4 DEF SavedInv, Writer, Number
    <3>5. CASE new' = [new EXCEPT ![d] = Missing] /\ Commit(d, "failed")
      BY <1>0, <3>5, CommitMoves DEF SavedInv
    <3> QED BY <3>1, <3>4, <3>5
  <2> QED BY <2>1, <2>2, <2>3
<1>3. \A w \in Writer : at'[w] \in {"cleanup", "restore"} => at'[w] = at[w] /\ w # d
  BY <1>1 DEF OthersStay
<1>4. CASE Deliver(d)
  <2>1. /\ spent' = [spent EXCEPT !["deliveries"] = @ + 1]
        /\ \E k, body : asked' = [asked EXCEPT ![d] =
             [no |-> spent.deliveries + 1, key |-> k, body |-> body]]
    BY <1>4 DEF Deliver, Spend
  <2>2. SpentShape' /\ spent'.deliveries = spent.deliveries + 1 /\ spent'.fails = spent.fails
    <3>1. /\ spent'.fails = spent.fails /\ spent'.deliveries = spent.deliveries + 1
          /\ DOMAIN spent' = DOMAIN spent
      BY <1>0, <2>1 DEF SpentShape
    <3>2. spent' = [kind \in DOMAIN spent' |-> spent'[kind]]
      BY <1>0, <2>1 DEF SpentShape
    <3> QED BY <1>0, <3>1, <3>2 DEF SpentShape
  <2>3. /\ Number(d)' = spent.deliveries + 1
        /\ \A e \in Delivery : e # d => Number(e)' = Number(e)
    BY <1>0, <2>1 DEF OnceInv, Number
  <2>4. \A e \in Delivery : e # d => at'[e] = at[e] /\ answer'[e] = answer[e]
    <3>1. /\ \E place : at' = [at EXCEPT ![d] = place]
          /\ \E a : answer' = [answer EXCEPT ![d] = a]
      <4>1. PICK k \in Keys, body \in Draft :
              IF Known(k) = NoRecord THEN Begin(d, k, body) ELSE Repeat(d, Known(k), body)
        BY <1>4 DEF Deliver, Keys
      <4>2. CASE Begin(d, k, body)
        BY <4>2 DEF Begin
      <4>3. CASE Repeat(d, Known(k), body)
        BY <4>3 DEF Repeat
      <4> QED BY <4>1, <4>2, <4>3
    <3> QED BY <1>0, <3>1 DEF OnceInv, PlaceInv, Writer
  <2>5. NumberInv'
    <3>1. \A e \in Delivery : Number(e)' \in 0 .. spent'.deliveries
      BY <1>0, <2>2, <2>3 DEF NumberInv
    <3>2. \A e, f \in Delivery : (e # f /\ Number(e)' = Number(f)') => Number(e)' = 0
      BY <1>0, <2>3 DEF NumberInv
    <3>3. \A e \in Delivery : (at'[e] # "idle" \/ answer'[e] = "failed") => Number(e)' # 0
      BY <1>0, <2>3, <2>4 DEF NumberInv
    <3>4. /\ There(file') => file'.by \in 0 .. spent'.deliveries
          /\ \A w \in Writer : There(backup'[w]) => backup'[w].by \in 0 .. spent'.deliveries
      BY <1>0, <1>1, <2>2 DEF NumberInv, files
    <3>5. \A w \in Writer : at'[w] \in Writing =>
            There(new'[w]) /\ new'[w].by = IF w \in Delivery THEN Number(w)' ELSE 0
      BY <1>0, <1>1, <1>2, <2>3 DEF NumberInv, OthersStay, Writing
    <3> QED BY <2>2, <3>1, <3>2, <3>3, <3>4, <3>5 DEF NumberInv, SpentShape, There, Number
  <2>6. ~OnFile(Number(d))' /\ \A w \in Writer : ~SetAside(w, Number(d))'
    BY <1>0, <1>1, <2>3 DEF NumberInv, OnFile, SetAside, files, There
  <2>7. \A e \in Delivery : e # d =>
          /\ OnFile(Number(e))' = OnFile(Number(e))
          /\ \A w \in Writer : SetAside(w, Number(e))' = SetAside(w, Number(e))
    BY <1>1, <2>3 DEF OnFile, SetAside, files, There
  <2>8. PlacedInv'
    <3>1. \A e \in Delivery : at'[e] \in Unplaced =>
            ~OnFile(Number(e))' /\ \A w \in Writer : ~SetAside(w, Number(e))'
      BY <1>0, <2>4, <2>6, <2>7 DEF PlacedInv
    <3>2. \A e \in Delivery : at'[e] \in {"cleanup", "restore"} => ~SetAside(e, Number(e))'
      BY <1>0, <1>3, <2>7 DEF PlacedInv, Writer
    <3>3. \A e \in Delivery : (at'[e] = "idle" /\ answer'[e] = "failed" /\ spent'.fails <= 1) =>
            /\ ~OnFile(Number(e))'
            /\ \A w \in Writer :
                 SetAside(w, Number(e))' => at'[w] # "restore" /\ spent'.fails = 1
      BY <1>0, <1>3, <2>2, <2>4, <2>6, <2>7 DEF PlacedInv
    <3> QED BY <3>1, <3>2, <3>3 DEF PlacedInv, OnFile, SetAside, Number
  <2>9. RestoreInv'
    BY <1>0, <1>3, <2>2 DEF RestoreInv
  <2> QED BY <2>5, <2>8, <2>9
<1>5. CASE Discover(d) \/ TakeLock(d) \/ ReadExisting(d)
  <2>1. /\ UNCHANGED <<spent, asked>> /\ at[d] \in {"asking", "queued", "reading"}
    BY <1>5 DEF Discover, TakeLock, ReadExisting
  <2>2. FailsWith(d)
    <3>1. \/ \E result : Commit(d, result)
          \/ answer' = answer /\ \E place \in {"reading", "temp"} : at' = [at EXCEPT ![d] = place]
      BY <1>5 DEF Discover, TakeLock, ReadExisting, Answer
    <3>2. CASE answer' = answer
               /\ \E place \in {"reading", "temp"} : at' = [at EXCEPT ![d] = place]
      BY <1>0, <3>2 DEF FailsWith, PlaceInv, Writer
    <3> QED BY <1>0, <3>1, <3>2, CommitFails
  <2>3. \A e : Number(e)' = Number(e) /\ OnFile(Number(e))' = OnFile(Number(e))
               /\ \A w \in Writer : SetAside(w, Number(e))' = SetAside(w, Number(e))
    BY <1>1, <2>1 DEF Number, OnFile, SetAside, There, files
  <2>4. \A e \in Delivery : at'[e] \in Unplaced => at[e] \in Unplaced
    BY <1>1, <2>1 DEF OthersStay, Unplaced, Writer
  <2>5. \A e \in Delivery : (at'[e] = "idle" /\ answer'[e] = "failed") =>
          at[e] \in Unplaced \/ (at[e] = "idle" /\ answer[e] = "failed")
    BY <2>1, <2>2 DEF FailsWith, Unplaced
  <2>6. NumberInv'
    <3>1. \A e \in Delivery : (at'[e] # "idle" \/ answer'[e] = "failed") => Number(e) # 0
      <4>1. \A e \in Delivery : at'[e] # "idle" => at[e] # "idle"
        BY <1>1, <2>1 DEF OthersStay, Writer
      <4> QED BY <1>0, <2>5, <4>1 DEF NumberInv, Unplaced
    <3>2. \A w \in Writer : at'[w] \in Writing =>
            There(new'[w]) /\ new'[w].by = IF w \in Delivery THEN Number(w) ELSE 0
      <4>1. \A w \in Writer : at'[w] \in Writing /\ w # d => at[w] \in Writing
        BY <1>1 DEF OthersStay, Writing
      <4>2. at'[d] \in Writing => at'[d] = "temp"
        BY <1>1 DEF Writing
      <4> QED BY <1>0, <1>2, <2>3, <4>1, <4>2 DEF NumberInv
    <3> QED BY <1>0, <1>1, <2>1, <3>1, <3>2 DEF NumberInv, files, There, Number
  <2>7. PlacedInv'
    <3>1. \A e \in Delivery : at'[e] \in Unplaced =>
            ~OnFile(Number(e))' /\ \A w \in Writer : ~SetAside(w, Number(e))'
      BY <1>0, <2>3, <2>4 DEF PlacedInv
    <3>2. \A e \in Delivery : at'[e] \in {"cleanup", "restore"} => ~SetAside(e, Number(e))'
      BY <1>0, <1>3, <2>3 DEF PlacedInv, Writer
    <3>3. \A e \in Delivery : (at'[e] = "idle" /\ answer'[e] = "failed" /\ spent'.fails <= 1) =>
            /\ ~OnFile(Number(e))'
            /\ \A w \in Writer :
                 SetAside(w, Number(e))' => at'[w] # "restore" /\ spent'.fails = 1
      BY <1>0, <1>3, <2>1, <2>3, <2>5 DEF PlacedInv
    <3> QED BY <3>1, <3>2, <3>3 DEF PlacedInv, OnFile, SetAside, Number
  <2>8. RestoreInv'
    BY <1>0, <1>3, <2>1 DEF RestoreInv
  <2> QED BY <2>6, <2>7, <2>8
<1> QED BY <1>4, <1>5

(* The wizard's questions, turns and the death of a process put nothing    *)
(* anywhere.  With the server its requests are gone.                       *)
LEMMA FailOther ==
  ASSUME FailInv, WizardStarts \/ WizardAnswered \/ Turn \/ ServerDies \/ WizardDies
  PROVE  NumberInv' /\ RestoreInv' /\ PlacedInv'
<1>0. SavedInv /\ OnceInv /\ NumberInv /\ SpentShape /\ PlaceInv /\ RestoreInv /\ PlacedInv
  BY DEF FailInv, NumberInv, SpentShape, SavedInv
<1>1. UNCHANGED files
  BY <1>0, SavedOther
<1>2. SpentShape' /\ spent'.deliveries = spent.deliveries /\ spent'.fails = spent.fails
  <2>1. \/ spent' = spent
        \/ \E kind \in {"wizards", "crashes"} : spent' = [spent EXCEPT ![kind] = @ + 1]
    BY DEF WizardStarts, WizardAnswered, Turn, ServerDies, WizardDies, Spend
  <2>2. ASSUME NEW kind \in {"wizards", "crashes"}, spent' = [spent EXCEPT ![kind] = @ + 1]
        PROVE  /\ spent'.deliveries = spent.deliveries /\ spent'.fails = spent.fails
               /\ SpentShape'
    <3>1. /\ spent'.deliveries = spent.deliveries /\ spent'.fails = spent.fails
          /\ DOMAIN spent' = DOMAIN spent
      BY <1>0, <2>2 DEF SpentShape
    <3>2. spent' = [k \in DOMAIN spent' |-> spent'[k]]
      BY <1>0, <2>2 DEF SpentShape
    <3> QED BY <1>0, <3>1, <3>2 DEF SpentShape
  <2> QED BY <1>0, <2>1, <2>2 DEF SpentShape
<1>3. \A w \in Writer : at'[w] \in {"cleanup", "restore"} => at'[w] = at[w]
  BY <1>0 DEF WizardStarts, WizardAnswered, Turn, ServerDies, WizardDies, PlaceInv, Writer
<1>4. \A w \in Writer : at'[w] \in Writing =>
        \/ at[w] \in Writing /\ new'[w] = new[w]
        \/ w = Wizard /\ There(new'[w]) /\ new'[w].by = 0
  <2>1. CASE WizardAnswered
    <3>1. \/ /\ \E x \in Draft : new' = [new EXCEPT ![Wizard] = Made(x, WizardRest, 0)]
             /\ at' = [at EXCEPT ![Wizard] = "temp"]
          \/ /\ new' = [new EXCEPT ![Wizard] = Missing]
             /\ at' = [at EXCEPT ![Wizard] = "idle"]
      BY <2>1 DEF WizardAnswered
    <3>2. \A x : There(Made(x, WizardRest, 0)) /\ Made(x, WizardRest, 0).by = 0
      BY MadeIsReadable
    <3>3. \A w \in Writer \ {Wizard} : at'[w] = at[w] /\ new'[w] = new[w]
      BY <1>0, <3>1 DEF SavedInv, PlaceInv
    <3>4. CASE at' = [at EXCEPT ![Wizard] = "idle"]
      BY <1>0, <3>3, <3>4 DEF PlaceInv, Writing
    <3>5. CASE \E x \in Draft : new' = [new EXCEPT ![Wizard] = Made(x, WizardRest, 0)]
      <4>1. Wizard \in Writer => There(new'[Wizard]) /\ new'[Wizard].by = 0
        BY <1>0, <3>2, <3>5 DEF SavedInv
      <4> QED BY <3>3, <4>1
    <3> QED BY <3>1, <3>4, <3>5
  <2>2. CASE WizardStarts \/ Turn \/ ServerDies \/ WizardDies
    BY <1>0, <2>2 DEF WizardStarts, Turn, ServerDies, WizardDies, SavedInv, PlaceInv, Writing
  <2> QED BY <2>1, <2>2
<1>5. RestoreInv'
  BY <1>0, <1>2, <1>3 DEF RestoreInv
<1>6. CASE ServerDies
  <2>1. \A d \in Delivery : at'[d] = "idle" /\ answer'[d] = "none" /\ Number(d)' = 0
    BY <1>6 DEF ServerDies, Number, NoAsk, Writer
  <2>2. PlacedInv'
    BY <2>1 DEF PlacedInv, Unplaced
  <2>3. \A w \in Writer : at'[w] \in Writing => w \notin Delivery
    BY <2>1 DEF Writing
  <2>4. \A w \in Writer : at'[w] \in Writing =>
          There(new'[w]) /\ new'[w].by = IF w \in Delivery THEN Number(w)' ELSE 0
    BY <1>0, <1>4, <2>3 DEF NumberInv
  <2>5. \A d \in Delivery : Number(d)' \in 0 .. spent'.deliveries
    BY <1>2, <2>1 DEF SpentShape
  <2>6. /\ There(file') => file'.by \in 0 .. spent'.deliveries
        /\ \A w \in Writer : There(backup'[w]) => backup'[w].by \in 0 .. spent'.deliveries
    BY <1>0, <1>1, <1>2 DEF NumberInv, files
  <2>7. NumberInv'
    BY <1>2, <2>1, <2>4, <2>5, <2>6 DEF NumberInv, SpentShape, There, Number
  <2> QED BY <1>5, <2>2, <2>7
<1>7. CASE WizardStarts \/ WizardAnswered \/ Turn \/ WizardDies
  <2>1. /\ UNCHANGED <<asked, answer>> /\ \A d \in Delivery : at'[d] = at[d]
    BY <1>0, <1>7, SettingsAssumption
    DEF WizardStarts, WizardAnswered, Turn, WizardDies, PlaceInv, Writer
  <2>2. \A d : Number(d)' = Number(d) /\ OnFile(Number(d))' = OnFile(Number(d))
               /\ \A w \in Writer : SetAside(w, Number(d))' = SetAside(w, Number(d))
    BY <1>1, <2>1 DEF Number, OnFile, SetAside, There, files
  <2>3. \A w \in Writer : at'[w] \in Writing =>
          There(new'[w]) /\ new'[w].by = IF w \in Delivery THEN Number(w)' ELSE 0
    BY <1>0, <1>4, <2>2, SettingsAssumption DEF NumberInv
  <2>4. /\ There(file') => file'.by \in 0 .. spent'.deliveries
        /\ \A w \in Writer : There(backup'[w]) => backup'[w].by \in 0 .. spent'.deliveries
    BY <1>0, <1>1, <1>2 DEF NumberInv, files
  <2>5. NumberInv'
    BY <1>0, <1>2, <2>1, <2>2, <2>3, <2>4 DEF NumberInv, SpentShape, There, Number
  <2>6. PlacedInv'
    <3>1. \A d \in Delivery : at'[d] \in Unplaced =>
            ~OnFile(Number(d))' /\ \A w \in Writer : ~SetAside(w, Number(d))'
      BY <1>0, <2>1, <2>2 DEF PlacedInv
    <3>2. \A d \in Delivery : at'[d] \in {"cleanup", "restore"} => ~SetAside(d, Number(d))'
      BY <1>0, <2>1, <2>2 DEF PlacedInv, Writer
    <3>3. \A d \in Delivery : (at'[d] = "idle" /\ answer'[d] = "failed" /\ spent'.fails <= 1) =>
            /\ ~OnFile(Number(d))'
            /\ \A w \in Writer :
                 SetAside(w, Number(d))' => at'[w] # "restore" /\ spent'.fails = 1
      BY <1>0, <1>2, <1>3, <2>1, <2>2 DEF PlacedInv
    <3> QED BY <3>1, <3>2, <3>3 DEF PlacedInv, OnFile, SetAside, Number
  <2> QED BY <1>5, <2>5, <2>6
<1> QED BY <1>6, <1>7

LEMMA FailStep ==
  ASSUME FailInv, [Next]_vars
  PROVE  FailInv'
<1>1. SavedInv' /\ OnceInv'
  BY SavedStep, OnceStep DEF FailInv
<1>2. CASE UNCHANGED vars
  <2>1. UNCHANGED <<file, backup, at, asked, answer, new, spent>>
    BY <1>2 DEF vars
  <2>2. NumberInv' /\ RestoreInv'
    BY <2>1 DEF FailInv, NumberInv, RestoreInv, There, Number
  <2>3. PlacedInv'
    BY <2>1 DEF FailInv, PlacedInv, OnFile, SetAside, There, Number
  <2> QED BY <1>1, <2>2, <2>3 DEF FailInv
<1>3. ASSUME NEW w \in Writer, WriteStep(w)
      PROVE  FailInv'
  BY <1>1, <1>3, NumberWrite, RestoreWrite, PlacedWrite DEF FailInv
<1>4. ASSUME NEW d \in Delivery, Deliver(d) \/ Discover(d) \/ TakeLock(d) \/ ReadExisting(d)
      PROVE  FailInv'
  BY <1>1, <1>4, FailRequest DEF FailInv
<1>5. CASE WizardStarts \/ WizardAnswered \/ Turn \/ ServerDies \/ WizardDies
  BY <1>1, <1>5, FailOther DEF FailInv
<1> QED BY <1>2, <1>3, <1>4, <1>5 DEF Next, RequestStep, Writer

(* The file has what was asked for: whatever the writers, the refused and  *)
(* failing file operations and the crashes do, a merge that was not blind  *)
(* keeps what the request did not name, and a save that was answered with  *)
(* an error is not on file as long as one operation failed at most.        *)
THEOREM SavesAreTrue == Spec => []FileIsAsSaved
<1>1. Init => FailInv /\ RestInv
  <2> SUFFICES ASSUME Init PROVE FailInv /\ RestInv
    OBVIOUS
  <2>1. /\ at = [w \in Writer |-> "idle"] /\ runs = [k \in Keys |-> 0]
        /\ records = [k \in Keys |-> NoRecord]
        /\ answer = [d \in Delivery |-> "none"] /\ asked = [d \in Delivery |-> NoAsk]
        /\ backup = [w \in Writer |-> Missing] /\ new = [w \in Writer |-> Missing]
        /\ chosen = IF Readable THEN {file.rest} ELSE {DefaultRest}
        /\ spent = [kind \in {"deliveries", "wizards", "refusals", "fails", "crashes"} |-> 0]
    BY DEF Init
  <2>2. SavedInv
    BY SavedInit
  <2>3. OnceInv
    BY <2>1 DEF OnceInv, Owner, PlaceInv, Places, Writer
  <2>4. There(file) => file.by = 0
    <3>1. \A draft, rest : Made(draft, rest, 0).by = 0
      BY MadeIsReadable
    <3> QED BY <3>1 DEF Init, There
  <2>5. \A d \in Delivery : Number(d) = 0
    BY <2>1 DEF Number, NoAsk
  <2>6. NumberInv
    BY <2>1, <2>4, <2>5 DEF NumberInv, There, Writing, Writer
  <2>7. RestoreInv
    BY <2>1 DEF RestoreInv
  <2>8. PlacedInv
    BY <2>1 DEF PlacedInv, Unplaced, Writer
  <2>9. RestInv
    BY <2>1 DEF RestInv, There, Survives, Readable
  <2> QED BY <2>2, <2>3, <2>6, <2>7, <2>8, <2>9 DEF FailInv
<1>2. FailInv /\ RestInv => FileIsAsSaved
  <2> SUFFICES ASSUME FailInv, RestInv PROVE FileIsAsSaved
    OBVIOUS
  <2>1. MergeKeepsTheRest
    BY DEF MergeKeepsTheRest, RestInv, There, Readable
  <2>2. FailedSaveLeavesNothing
    BY DEF FailedSaveLeavesNothing, FailInv, PlacedInv, OnFile, There, Readable, Number
  <2> QED BY <2>1, <2>2 DEF FileIsAsSaved
<1>3. (FailInv /\ RestInv) /\ [Next]_vars => (FailInv /\ RestInv)'
  BY FailStep, RestStep DEF FailInv
<1> QED BY <1>1, <1>2, <1>3, PTL DEF Spec

-----------------------------------------------------------------------------
(* Types.                                                                  *)

Stored == Config \cup {Missing, Broken}
Asking == [no : 0 .. MaxDeliveries, key : Keys, body : Draft]
Record == [body : Draft, answer : Answers \cup {Pending}]

FilesOK ==
  /\ file \in Stored /\ backup \in [Writer -> Stored] /\ new \in [Writer -> Stored]
  /\ temp \subseteq Writer /\ chosen \subseteq Rest /\ blind \in BOOLEAN

(* Whoever is under way, or waits for who is, has asked for something.     *)
AsksOK ==
  /\ asked \in [Delivery -> Asking \cup {NoAsk}]
  /\ \A d \in Delivery : at[d] # "idle" => asked[d] \in Asking
  /\ answer \in [Delivery -> Answers \cup {"none"}]
  /\ records \in [Keys -> Record \cup {NoRecord}]
  /\ cache \in [Url -> SUBSET Model] /\ turnRuns \in BOOLEAN

(* The number a request writes into the file is one of those counted.      *)
TypeInv ==
  /\ SavedInv /\ LockInv /\ FilesOK /\ AsksOK
  /\ SpentShape /\ spent.deliveries <= MaxDeliveries

LEMMA MadeIsConfig ==
  ASSUME SettingsAssumption, NEW draft \in Draft, NEW rest \in Rest, NEW by \in 0 .. MaxDeliveries
  PROVE  Made(draft, rest, by) \in Config
BY DEF SettingsAssumption, DraftType, Made, Config

LEMMA StoredHasRest ==
  ASSUME NEW c \in Stored, c # Missing, c # Broken
  PROVE  c.rest \in Rest
BY DEF Stored, Config

LEMMA TypeInit == Init => TypeInv
<1> SUFFICES ASSUME Init PROVE TypeInv
  OBVIOUS
<1>1. /\ backup = [w \in Writer |-> Missing] /\ temp = {}
      /\ at = [w \in Writer |-> "idle"]
      /\ asked = [d \in Delivery |-> NoAsk] /\ answer = [d \in Delivery |-> "none"]
      /\ new = [w \in Writer |-> Missing] /\ waiting = <<>>
      /\ records = [k \in Keys |-> NoRecord] /\ cache = [u \in Url |-> {}]
      /\ turnRuns = FALSE /\ blind = FALSE
      /\ chosen = IF Readable THEN {file.rest} ELSE {DefaultRest}
      /\ spent = [kind \in {"deliveries", "wizards", "refusals", "fails", "crashes"} |-> 0]
  BY DEF Init
<1>2. LockInv
  BY <1>1 DEF LockInv, PlaceInv, Places, InLine, Locked, Writing, Writer
<1>3. file \in Stored
  <2>1. DefaultRest \in Rest /\ [shared |-> "tuned", limits |-> "tuned"] \in Rest
    BY DEF DefaultRest, Rest
  <2>2. 0 \in 0 .. MaxDeliveries
    BY SettingsAssumption DEF SettingsAssumption
  <2>3. \/ file \in {Missing, Broken}
        \/ \E d \in Draft, r \in Rest : file = Made(d, r, 0)
    BY <2>1 DEF Init
  <2> QED BY <2>2, <2>3, MadeIsConfig, SettingsAssumption DEF Stored
<1>4. chosen \subseteq Rest
  <2>1. DefaultRest \in Rest
    BY DEF DefaultRest, Rest
  <2>2. Readable => file.rest \in Rest
    BY <1>3, StoredHasRest DEF Readable
  <2> QED BY <1>1, <2>1, <2>2
<1>5. FilesOK
  BY <1>1, <1>3, <1>4 DEF FilesOK, Stored
<1>6. AsksOK
  BY <1>1 DEF AsksOK, Writer
<1>7. SpentShape /\ spent.deliveries <= MaxDeliveries
  BY <1>1, SettingsAssumption DEF SpentShape, SettingsAssumption
<1> QED BY <1>2, <1>5, <1>6, <1>7, SavedInit DEF TypeInv

(* A request that ends leaves its answer to those who joined it.           *)
LEMMA CommitTypes ==
  ASSUME AsksOK, PlaceInv, NEW d \in Delivery, at[d] # "idle",
         NEW result \in Answers, Commit(d, result), UNCHANGED <<asked, turnRuns>>,
         cache' \in [Url -> SUBSET Model]
  PROVE  AsksOK'
<1>1. asked[d] \in Asking
  BY DEF AsksOK
<1>2. [body |-> asked[d].body, answer |-> result] \in Record
  BY <1>1 DEF Asking, Record
<1>3. records' \in [Keys -> Record \cup {NoRecord}]
  BY <1>1, <1>2 DEF Commit, AsksOK
<1>4. answer' \in [Delivery -> Answers \cup {"none"}]
  BY DEF Commit, AsksOK
<1>5. \A e \in Delivery : at'[e] # "idle" => at[e] # "idle"
  BY DEF Commit, PlaceInv, Writer
<1> QED BY <1>3, <1>4, <1>5 DEF AsksOK

(* A writer has only what was somewhere before, and answers only itself.   *)
LEMMA TypeWrite ==
  ASSUME TypeInv, NEW w \in Writer, WriteStep(w)
  PROVE  FilesOK' /\ AsksOK' /\ SpentShape' /\ spent'.deliveries <= MaxDeliveries
<1>1. /\ SavedInv /\ FilesOK /\ AsksOK /\ PlaceInv
      /\ SpentShape /\ spent.deliveries <= MaxDeliveries
  BY DEF TypeInv, SavedInv
<1>2. SpentShape' /\ spent'.deliveries <= MaxDeliveries
  BY <1>1, WriteSpends
<1>3. FilesOK'
  <2>1. /\ UNCHANGED <<chosen, blind>>
        /\ file' \in {file, Missing, new[w], backup[w]}
    BY <1>1, WriteCopies
  <2>2. temp' \subseteq Writer
    BY <1>1 DEF WriteStep, WriteTemp, Rename, Aside, Second, Cleanup, Restore, GivesUp, FilesOK
  <2>3. backup' \in [Writer -> Stored]
    <3>1. \E b \in {backup[w], Missing, file} :
            backup' = [backup EXCEPT ![w] = b] \/ backup' = backup
      BY DEF WriteStep, WriteTemp, Rename, Aside, Second, Cleanup, Restore
    <3> QED BY <1>1, <3>1 DEF FilesOK, Stored
  <2>4. new' \in [Writer -> Stored]
    <3>1. new' = new \/ new' = [new EXCEPT ![w] = Missing]
      BY <1>1, WriteMoves DEF Ending, Going
    <3> QED BY <1>1, <3>1 DEF FilesOK, Stored
  <2> QED BY <1>1, <2>1, <2>2, <2>3, <2>4 DEF FilesOK, Stored
<1>4. AsksOK'
  <2>1. UNCHANGED <<asked, cache, turnRuns>> /\ at[w] # "idle"
    BY <1>1, WriteMoves
    DEF WriteStep, WriteTemp, Rename, Aside, Second, Cleanup, Restore, Unwritten, Writing
  <2>2. \/ \E result \in {"ok", "failed"} : Ends(w, result)
        \/ \E place \in Writing : Goes(w, place)
    BY DEF WriteStep, WriteTemp, Rename, Aside, Second, Cleanup, Restore, GivesUp, Writing
  <2>3. CASE \E place \in Writing : Goes(w, place)
    <3>1. UNCHANGED <<records, answer>> /\ \E place : at' = [at EXCEPT ![w] = place]
      BY <2>3 DEF Goes
    <3>2. \A e \in Delivery : at'[e] # "idle" => at[e] # "idle"
      BY <1>1, <2>1, <3>1 DEF PlaceInv, Writer
    <3> QED BY <1>1, <2>1, <3>1, <3>2 DEF AsksOK
  <2>4. ASSUME NEW result \in {"ok", "failed"}, Ends(w, result)
        PROVE  AsksOK'
    <3>1. CASE w \in Delivery
      <4>1. Commit(w, result) /\ result \in Answers
        BY <2>4, <3>1 DEF Ends, Answer, Answers
      <4> QED BY <1>1, <2>1, <3>1, <4>1, CommitTypes DEF AsksOK
    <3>2. CASE w \notin Delivery
      <4>1. UNCHANGED <<records, answer>> /\ at' = [at EXCEPT ![w] = "idle"]
        BY <2>4, <3>2 DEF Ends
      <4>2. \A e \in Delivery : at'[e] # "idle" => at[e] # "idle"
        BY <1>1, <3>2, <4>1 DEF PlaceInv, Writer
      <4> QED BY <1>1, <2>1, <4>1, <4>2 DEF AsksOK
    <3> QED BY <3>1, <3>2
  <2> QED BY <2>2, <2>3, <2>4
<1> QED BY <1>2, <1>3, <1>4

(* A delivery counts itself, and makes a record or reads one.              *)
LEMMA TypeDeliver ==
  ASSUME TypeInv, NEW d \in Delivery, Deliver(d)
  PROVE  FilesOK' /\ AsksOK' /\ SpentShape' /\ spent'.deliveries <= MaxDeliveries
<1>1. /\ FilesOK /\ AsksOK /\ PlaceInv /\ SpentShape /\ spent.deliveries <= MaxDeliveries
  BY DEF TypeInv, SavedInv
<1>2. SpentShape' /\ spent'.deliveries = spent.deliveries + 1 /\ spent.deliveries < MaxDeliveries
  <2>1. /\ spent.deliveries < MaxDeliveries
        /\ spent' = [spent EXCEPT !["deliveries"] = @ + 1]
    BY DEF Deliver, Spend
  <2>2. /\ spent'.deliveries = spent.deliveries + 1 /\ spent'.fails = spent.fails
        /\ DOMAIN spent' = DOMAIN spent
    BY <1>1, <2>1 DEF SpentShape
  <2>3. spent' = [kind \in DOMAIN spent' |-> spent'[kind]]
    BY <1>1, <2>1 DEF SpentShape
  <2> QED BY <1>1, <2>1, <2>2, <2>3 DEF SpentShape
<1>3. FilesOK'
  BY <1>1 DEF Deliver, files, FilesOK
<1>4. PICK k \in Keys, body \in Draft :
        /\ asked' = [asked EXCEPT ![d] = [no |-> spent.deliveries + 1, key |-> k, body |-> body]]
        /\ IF Known(k) = NoRecord THEN Begin(d, k, body) ELSE Repeat(d, Known(k), body)
  BY DEF Deliver, Keys
<1>5. [no |-> spent.deliveries + 1, key |-> k, body |-> body] \in Asking
  <2>1. spent.deliveries + 1 \in 0 .. MaxDeliveries
    BY <1>1, <1>2, SettingsAssumption DEF SpentShape, SettingsAssumption
  <2> QED BY <2>1 DEF Asking
<1>6. asked' \in [Delivery -> Asking \cup {NoAsk}] /\ asked'[d] \in Asking
      /\ \A e \in Delivery \ {d} : asked'[e] = asked[e]
  BY <1>1, <1>4, <1>5 DEF AsksOK
<1>7. \A e \in Delivery \ {d} : at'[e] # "idle" => at[e] # "idle"
  BY <1>1, RequestMoves, SettingsAssumption DEF OthersStay, Writer
<1>8. /\ records' \in [Keys -> Record \cup {NoRecord}]
      /\ answer' \in [Delivery -> Answers \cup {"none"}]
  <2>1. CASE Begin(d, k, body)
    <3>1. \/ /\ records' = [records EXCEPT ![k] = [body |-> body, answer |-> "busy"]]
             /\ answer' = [answer EXCEPT ![d] = "busy"]
          \/ /\ records' = [records EXCEPT ![k] = [body |-> body, answer |-> "invalid"]]
             /\ answer' = [answer EXCEPT ![d] = "invalid"]
          \/ /\ records' = [records EXCEPT ![k] = [body |-> body, answer |-> Pending]]
             /\ answer' = [answer EXCEPT ![d] = "none"]
      <4>1. CASE turnRuns
        BY <2>1, <4>1 DEF Begin
      <4>2. CASE ~turnRuns /\ ~body.clean
        BY <2>1, <4>2 DEF Begin
      <4>3. CASE ~(turnRuns \/ ~body.clean)
        <5>1. /\ records' = [records EXCEPT ![k] = [body |-> body, answer |-> Pending]]
              /\ answer' = [answer EXCEPT ![d] = "none"]
          BY <2>1, <4>3, Zenon DEF Begin
        <5> QED BY <5>1
      <4> QED BY <4>1, <4>2, <4>3
    <3>2. \A a \in {"busy", "invalid", Pending} : [body |-> body, answer |-> a] \in Record
      BY DEF Record, Answers
    <3> QED BY <1>1, <3>1, <3>2 DEF AsksOK, Answers
  <2>2. CASE Known(k) # NoRecord /\ Repeat(d, Known(k), body)
    <3>1. records' = records
      BY <2>2 DEF Repeat
    <3>2. records[k] \in Record
      BY <1>1, <2>2 DEF AsksOK, Known
    <3>3. \/ \E a \in {"conflict", "none"} : answer' = [answer EXCEPT ![d] = a]
          \/ answer' = [answer EXCEPT ![d] = records[k].answer] /\ records[k].answer # Pending
      BY <2>2 DEF Repeat, Known
    <3>4. records[k].answer # Pending => records[k].answer \in Answers
      BY <3>2 DEF Record
    <3> QED BY <1>1, <3>1, <3>3, <3>4 DEF AsksOK, Answers
  <2> QED BY <1>4, <2>1, <2>2
<1>9. UNCHANGED <<cache, turnRuns>>
  BY DEF Deliver
<1>10. AsksOK'
  BY <1>1, <1>6, <1>7, <1>8, <1>9 DEF AsksOK
<1> QED BY <1>1, <1>2, <1>3, <1>10, SettingsAssumption DEF SpentShape, SettingsAssumption

(* What is merged has the request's settings and a rest that was read.     *)
LEMMA TypeRequest ==
  ASSUME TypeInv, NEW d \in Delivery, Discover(d) \/ TakeLock(d) \/ ReadExisting(d)
  PROVE  FilesOK' /\ AsksOK' /\ SpentShape' /\ spent'.deliveries <= MaxDeliveries
<1>1. /\ FilesOK /\ AsksOK /\ PlaceInv /\ SpentShape /\ spent.deliveries <= MaxDeliveries
  BY DEF TypeInv, SavedInv
<1>2. UNCHANGED <<files, asked, spent, chosen, turnRuns>> /\ at[d] # "idle"
  BY DEF Discover, TakeLock, ReadExisting
<1>3. SpentShape' /\ spent'.deliveries <= MaxDeliveries
  BY <1>1, <1>2 DEF SpentShape
<1>4. asked[d] \in Asking
  BY <1>1, <1>2 DEF AsksOK
<1>5. cache' \in [Url -> SUBSET Model]
  <2>1. cache' = cache \/ \E found \in SUBSET Model : cache' = [cache EXCEPT ![asked[d].body.url] = found]
    BY DEF Discover, TakeLock, ReadExisting
  <2> QED BY <1>1, <2>1 DEF AsksOK
<1>6. \/ \E result \in Answers : Commit(d, result)
      \/ /\ UNCHANGED <<records, answer>>
         /\ \E place : at' = [at EXCEPT ![d] = place]
  BY DEF Discover, TakeLock, ReadExisting, Answer, Answers
<1>7. AsksOK'
  <2>1. CASE \E result \in Answers : Commit(d, result)
    BY <1>1, <1>2, <1>5, <2>1, CommitTypes
  <2>2. CASE UNCHANGED <<records, answer>> /\ \E place : at' = [at EXCEPT ![d] = place]
    <3>1. \A e \in Delivery : at'[e] # "idle" => at[e] # "idle"
      BY <1>1, <1>2, <2>2 DEF PlaceInv, Writer
    <3> QED BY <1>1, <1>2, <1>5, <2>2, <3>1 DEF AsksOK
  <2> QED BY <1>6, <2>1, <2>2
<1>8. /\ blind' \in BOOLEAN
      /\ \/ new' = new \/ new' = [new EXCEPT ![d] = Missing]
         \/ file # Broken /\ new' = [new EXCEPT ![d] = Merged(d)]
  BY <1>1 DEF Discover, TakeLock, ReadExisting, Answer, FilesOK
<1>9. file # Broken => Merged(d) \in Config
  <2>1. DefaultRest \in Rest
    BY DEF DefaultRest, Rest
  <2>2. (file # Broken /\ file # Missing) => file.rest \in Rest
    BY <1>1, StoredHasRest DEF FilesOK
  <2>3. asked[d].body \in Draft /\ asked[d].no \in 0 .. MaxDeliveries
    BY <1>4 DEF Asking
  <2> QED BY <2>1, <2>2, <2>3, MadeIsConfig, SettingsAssumption DEF Merged
<1>10. FilesOK'
  BY <1>1, <1>2, <1>8, <1>9 DEF FilesOK, files, Stored, Writer
<1> QED BY <1>3, <1>7, <1>10

(* The wizard writes what it read, or the default, for what it does not ask. *)
LEMMA TypeOther ==
  ASSUME TypeInv, WizardStarts \/ WizardAnswered \/ Turn \/ ServerDies \/ WizardDies
  PROVE  FilesOK' /\ AsksOK' /\ SpentShape' /\ spent'.deliveries <= MaxDeliveries
<1>1. /\ FilesOK /\ AsksOK /\ PlaceInv /\ SpentShape /\ spent.deliveries <= MaxDeliveries
  BY DEF TypeInv, SavedInv
<1>2. SpentShape' /\ spent'.deliveries = spent.deliveries
  <2>1. \/ spent' = spent
        \/ \E kind \in {"wizards", "crashes"} : spent' = [spent EXCEPT ![kind] = @ + 1]
    BY DEF WizardStarts, WizardAnswered, Turn, ServerDies, WizardDies, Spend
  <2>2. ASSUME NEW kind \in {"wizards", "crashes"}, spent' = [spent EXCEPT ![kind] = @ + 1]
        PROVE  SpentShape' /\ spent'.deliveries = spent.deliveries
    <3>1. /\ spent'.deliveries = spent.deliveries /\ spent'.fails = spent.fails
          /\ DOMAIN spent' = DOMAIN spent
      BY <1>1, <2>2 DEF SpentShape
    <3>2. spent' = [k \in DOMAIN spent' |-> spent'[k]]
      BY <1>1, <2>2 DEF SpentShape
    <3> QED BY <1>1, <3>1, <3>2 DEF SpentShape
  <2> QED BY <1>1, <2>1, <2>2 DEF SpentShape
<1>3. UNCHANGED files /\ blind' = blind
  BY DEF WizardStarts, WizardAnswered, Turn, ServerDies, WizardDies
<1>4. Wizard \in Writer /\ new[Wizard] \in Stored
  BY <1>1 DEF Writer, FilesOK
<1>5. WizardRest \in Rest
  <2>1. new[Wizard] \notin {Missing, Broken} => new[Wizard].rest \in Rest
    BY <1>4, StoredHasRest
  <2> QED BY <2>1 DEF WizardRest, Rest
<1>6. chosen' \subseteq Rest
  BY <1>1, <1>5 DEF WizardStarts, WizardAnswered, Turn, ServerDies, WizardDies, FilesOK
<1>7. new' \in [Writer -> Stored]
  <2>1. \/ new' = new
        \/ \E c \in {Missing, file} : new' = [new EXCEPT ![Wizard] = c]
        \/ \E d \in Draft : new' = [new EXCEPT ![Wizard] = Made(d, WizardRest, 0)]
        \/ new' = [w \in Writer |-> IF w \in Delivery THEN Missing ELSE new[w]]
    BY DEF WizardStarts, WizardAnswered, Turn, ServerDies, WizardDies
  <2>2. \A d \in Draft : Made(d, WizardRest, 0) \in Config
    BY <1>5, MadeIsConfig, SettingsAssumption DEF SettingsAssumption
  <2> QED BY <1>1, <2>1, <2>2 DEF FilesOK, Stored
<1>8. FilesOK'
  BY <1>1, <1>3, <1>6, <1>7 DEF FilesOK, files
<1>9. AsksOK'
  <2>1. CASE ServerDies
    BY <2>1 DEF ServerDies, AsksOK, Writer
  <2>2. CASE WizardStarts \/ WizardAnswered \/ Turn \/ WizardDies
    <3>1. /\ UNCHANGED <<asked, answer, records, cache>> /\ turnRuns' \in BOOLEAN
          /\ \A e \in Delivery : at'[e] = at[e]
      BY <1>1, <2>2, SettingsAssumption
      DEF WizardStarts, WizardAnswered, Turn, WizardDies, AsksOK, PlaceInv, Writer, SettingsAssumption
    <3> QED BY <1>1, <3>1 DEF AsksOK
  <2> QED BY <2>1, <2>2
<1> QED BY <1>1, <1>2, <1>8, <1>9

LEMMA TypeStep ==
  ASSUME TypeInv, [Next]_vars
  PROVE  TypeInv'
<1>1. SavedInv' /\ LockInv'
  BY SavedStep, LockStep DEF TypeInv
<1>2. CASE UNCHANGED vars
  BY <1>1, <1>2 DEF TypeInv, FilesOK, AsksOK, SpentShape, vars
<1>3. ASSUME NEW w \in Writer, WriteStep(w)
      PROVE  TypeInv'
  BY <1>1, <1>3, TypeWrite DEF TypeInv
<1>4. ASSUME NEW d \in Delivery, Deliver(d)
      PROVE  TypeInv'
  BY <1>1, <1>4, TypeDeliver DEF TypeInv
<1>5. ASSUME NEW d \in Delivery, Discover(d) \/ TakeLock(d) \/ ReadExisting(d)
      PROVE  TypeInv'
  BY <1>1, <1>5, TypeRequest DEF TypeInv
<1>6. CASE WizardStarts \/ WizardAnswered \/ Turn \/ ServerDies \/ WizardDies
  BY <1>1, <1>6, TypeOther DEF TypeInv
<1> QED BY <1>2, <1>3, <1>4, <1>5, <1>6 DEF Next, RequestStep, Writer

(* The variables keep their types: a merge reads its rest only from a file *)
(* that can be read, the wizard only from what it could read, and a repeat *)
(* takes its answer only from a record that has one.                       *)
THEOREM SettingsTypes == Spec => []TypeOK
<1>1. TypeInv => TypeOK
  <2> SUFFICES ASSUME TypeInv PROVE TypeOK
    OBVIOUS
  <2>1. FilesOK /\ AsksOK /\ waiting \in Seq(Delivery) /\ at \in [Writer -> Places]
    BY DEF TypeInv, LockInv, PlaceInv
  <2> QED BY <2>1 DEF TypeOK, FilesOK, AsksOK, Stored, Places, Writing
<1>2. TypeInv /\ [Next]_vars => TypeInv'
  BY TypeStep
<1> QED BY TypeInit, <1>1, <1>2, PTL DEF Spec
=============================================================================
