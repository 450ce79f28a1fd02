------------------------------- MODULE ToolCalls ------------------------------
(***************************************************************************)
(* The tool calls of a session, one at a time: the safety policy decides,  *)
(* the user is asked where it says so, and the tool runs.  A file tool     *)
(* resolves its path, reads, resolves again and writes, while somebody     *)
(* else edits files and turns directories into links; the run_command tool *)
(* starts a process and answers when it ends, or is made to end.           *)
(*                                                                         *)
(* A place is a file by its real path; alias says where a place's name     *)
(* leads once links are followed.  A text is a sequence of tokens.         *)
(***************************************************************************)
EXTENDS Naturals, Sequences, FiniteSets, SequencesExt, SafetyPolicy

CONSTANTS
  Inside, InGit, Outside,  (* places in the workspace, below .git, elsewhere *)
  Text,                    (* texts, as sequences of tokens                  *)
  Call,                    (* the tool calls the model may ask for           *)
  MaxEntries,              (* MAX_TRAVERSED_ENTRIES                          *)
  MaxOutput,               (* maxOutputChars, counted in lines or records    *)
  MaxCalls,                (* bound: tool calls                              *)
  MaxMeddling              (* bound: steps of others on the file system      *)

Place == Inside \cup InGit \cup Outside

Nowhere == "nowhere"            (* a link whose target is not there     *)
Absent  == <<"absent">>         (* the content of a file that is not there *)
Torn    == <<"torn">>           (* what a write that stopped midway leaves *)
Binary  == <<"binary">>         (* what is not text                        *)

Token == UNION {ToSet(text) : text \in Text}

Edit == [old : Token, new : Token, all : BOOLEAN]

ASSUME ToolAssumption ==
  /\ Inside \cap InGit = {} /\ (Inside \cup InGit) \cap Outside = {}
  /\ Nowhere \notin Place /\ IsFiniteSet(Inside \cup InGit)
  /\ {Absent, Torn, Binary} \cap Text = {} /\ Text \subseteq Seq(Token)
  /\ Call # {}
  /\ \A c \in Call :
       /\ c.kind \in PathKinds /\ c.traits \subseteq Traits /\ c.place \in Place
       /\ c.edits \in Seq(Edit)
       /\ c.tool = "write_file" => c.text \in Seq(Token)
       /\ c.tool = "read_file" => {c.first, c.last} \subseteq Nat \ {0} /\ ~c.root
       /\ c.tool = "search_text" => c.most \in Nat /\ c.root \in BOOLEAN
       /\ c.tool = "list_files" => c.root
  /\ {MaxCalls, MaxMeddling, MaxEntries, MaxOutput} \subseteq Nat

VARIABLES
  mode,       (* the session's safety mode                              *)
  approvals,  (* the operations the user approved for the session       *)
  call,       (* the call under way                                     *)
  at,         (* where it stands                                        *)
  once,       (* the user approved this call                            *)
  aborted,    (* the turn was cancelled                                 *)
  content,    (* the text at each place                                 *)
  alias,      (* where the name of a place leads                        *)
  work,       (* what a file tool holds between its steps               *)
  process,    (* the command's process                                  *)
  result,     (* how the last call ended                                *)
  relinked,   (* history: links changed since the path was resolved     *)
  edited,     (* history: files changed since the tool last read        *)
  strays,     (* history: places beyond the tools' reach they got to    *)
  spent       (* what was spent of the bounds                           *)

session == <<mode, approvals, once>>
disk    == <<content, alias>>
history == <<relinked, edited, strays>>
vars    == <<session, call, at, aborted, disk, work, process, result, history, spent>>

NoWork == [place |-> Nowhere, exists |-> FALSE, base |-> Absent, text |-> Absent,
           todo |-> <<>>, visited |-> 0, files |-> <<>>, found |-> <<>>, omitted |-> 0]

NoProcess == [main |-> FALSE, others |-> FALSE, told |-> "no", kill |-> "none",
              fallback |-> FALSE, finishing |-> FALSE]

Init ==
  /\ mode \in Modes /\ approvals = {} /\ once = FALSE
  /\ call = (CHOOSE c \in Call : TRUE) /\ at = "idle" /\ aborted = FALSE
  /\ \E text \in Text, missing \in SUBSET Inside :
       content = [p \in Place |-> IF p \in missing THEN Absent ELSE text]
  /\ alias = [p \in Place |-> p]
  /\ work = NoWork /\ process = NoProcess /\ result = "none"
  /\ relinked = FALSE /\ edited = FALSE /\ strays = {}
  /\ spent = [calls |-> 0, meddling |-> 0]

-----------------------------------------------------------------------------
(* The decision                                                            *)

(* approvalKey(): the tool and all of its normalised input.                *)
Key(c) == c

(* A call that ends leaves nothing behind but its result; whatever is left *)
(* of its process is somebody else when the next call starts.              *)
Ended(how) ==
  /\ at' = "idle" /\ result' = how /\ once' = FALSE /\ work' = NoWork

FirstStep(c) ==
  IF c.tool = CommandTool THEN "spawn"
  ELSE IF c.tool = "apply_patch" THEN "resolve patch"
  ELSE IF c.tool = "write_file" THEN "resolve"
  ELSE IF c.tool \in ReadTools THEN IF c.root THEN "read root" ELSE "resolve read"
  ELSE "extension"

Ask ==
  /\ at = "idle" /\ spent.calls < MaxCalls
  /\ spent' = [spent EXCEPT !.calls = @ + 1]
  /\ \E c \in Call :
       LET decision == Evaluate(mode, c, Key(c) \in approvals) IN
       /\ call' = c
       /\ result' = IF decision = "deny" THEN "refused" ELSE "none"
       /\ at' = CASE decision = "deny" -> "idle"
                  [] decision = "ask" -> "asked"
                  [] decision = "allow" -> FirstStep(c)
  /\ aborted' = FALSE /\ process' = NoProcess
  /\ UNCHANGED <<session, disk, work, history>>

(* The user answers, for this call or for the session, or refuses.         *)
Approve ==
  /\ at = "asked"
  /\ \/ /\ approvals' \in {approvals, approvals \cup {Key(call)}}
        /\ once' = TRUE /\ at' = FirstStep(call)
        /\ UNCHANGED <<mode, result, work>>
     \/ Ended("refused") /\ UNCHANGED <<mode, approvals>>
  /\ UNCHANGED <<call, aborted, disk, process, history, spent>>

(* The mode is a matter of the session, between turns.                     *)
ChangeMode ==
  /\ at = "idle" /\ spent.calls < MaxCalls
  /\ mode' \in Modes
  /\ UNCHANGED <<approvals, once, call, at, aborted, disk, work, process, result, history, spent>>

Cancel ==
  /\ at # "idle" /\ ~aborted
  /\ aborted' = TRUE
  /\ IF at = "asked" THEN Ended("cancelled") ELSE UNCHANGED <<at, result, once, work>>
  /\ UNCHANGED <<mode, approvals, call, disk, process, history, spent>>

(* A tool of an extension is not followed any further here.                *)
ExtensionTool ==
  /\ at = "extension" /\ Ended("done")
  /\ UNCHANGED <<mode, approvals, call, aborted, disk, process, history, spent>>

-----------------------------------------------------------------------------
(* Paths                                                                   *)

(* Following links from p one comes to q: every set of names that has p    *)
(* and the targets of its links has q.                                     *)
LeadsTo(p, q) ==
  \A names \in SUBSET Place :
    p \in names /\ {alias[n] : n \in names} \subseteq names \cup {Nowhere} => q \in names

(* realpath(): links are followed to the end, which is not a link; there   *)
(* may be none.                                                            *)
Real(p) ==
  LET ends == {q \in Place : alias[q] = q /\ LeadsTo(p, q)}
  IN  IF p = Nowhere \/ ends = {} THEN Nowhere ELSE CHOOSE q \in ends : TRUE

(* Mutant: what a write may not touch is told by the path as requested.    *)
AllowedAsRequested(c, write) ==
  /\ c.kind \in {"inside", "git"} /\ Real(c.place) # Nowhere
  /\ write => c.place \notin InGit

(* validateRelativePath(), ensureInsideWorkspace() and the checks of .git: *)
(* on the path as requested, then on the real path.                        *)
Allowed(c, write) ==
  /\ c.kind \in {"inside", "git"}
  /\ Real(c.place) \in Inside \cup InGit
  /\ write => c.place \notin InGit /\ Real(c.place) \notin InGit

(* resolveWorkspacePath() *)
Resolved(c, write, mustExist) ==
  /\ Allowed(c, write)
  /\ mustExist => content[Real(c.place)] # Absent

FileStage == {"resolve patch", "read base", "resolve", "read", "revalidate", "write", "writing",
              "resolve read", "read file", "read root", "read git", "walk", "search", "report"}

(* assertNotAborted(), and every other way for a file tool to give up.     *)
FileToolFails ==
  /\ Ended(IF aborted THEN "cancelled" ELSE "failed")
  /\ relinked' = FALSE /\ edited' = FALSE /\ UNCHANGED <<content, strays>>

Steady == UNCHANGED <<mode, approvals, call, aborted, alias, process, spent>>

Goes(place) == at' = place /\ UNCHANGED <<result, once>>

(* What a name shows now.                                                  *)
At(p) == IF Real(p) = Nowhere THEN Absent ELSE content[Real(p)]

(* The file tool reaches a place through the name it resolved.             *)
Reaches(p, write) ==
  LET beyond == IF write THEN InGit \cup Outside ELSE Outside
  IN  strays' = IF Real(p) \in beyond /\ ~relinked THEN strays \cup {Real(p)} ELSE strays

-----------------------------------------------------------------------------
(* File tools                                                              *)

(* countOccurrences() *)
Occurrences(text, t) == Cardinality({i \in DOMAIN text : text[i] = t})

(* An edit has to match, and to match once if it is not for all matches.   *)
OneEdit(edit, text) ==
  LET n == Occurrences(text, edit.old)
      first == CHOOSE i \in DOMAIN text :
                 text[i] = edit.old /\ \A j \in 1 .. i - 1 : text[j] # edit.old
  IN  IF text = Absent \/ n = 0 \/ (n > 1 /\ ~edit.all) THEN Absent
      ELSE [i \in DOMAIN text |->
              IF text[i] = edit.old /\ (edit.all \/ i = first) THEN edit.new ELSE text[i]]

(* The edits in order, each on the result of those before it; Absent when  *)
(* one of them does not apply.                                             *)
Patched(text, edits) ==
  LET after[i \in 0 .. Len(edits)] ==
        IF i = 0 THEN text ELSE OneEdit(edits[i], after[i - 1])
  IN  after[Len(edits)]

ResolvePatch ==
  /\ at = "resolve patch"
  /\ IF ~aborted /\ Resolved(call, TRUE, TRUE)
     THEN /\ work' = [work EXCEPT !.place = Real(call.place)] /\ relinked' = FALSE
          /\ Goes("read base") /\ UNCHANGED <<content, edited, strays>>
     ELSE FileToolFails
  /\ Steady

(* The patch is made from what the file has now; nothing is written when   *)
(* an edit does not match.                                                 *)
ReadBase ==
  /\ at = "read base"
  /\ LET now == At(work.place)
         next == Patched(now, call.edits)
     IN  IF ~aborted /\ now # Binary /\ next # Absent
         THEN /\ work' = [work EXCEPT !.base = now, !.text = next]
              /\ Reaches(work.place, TRUE) /\ Goes("resolve")
              /\ UNCHANGED <<content, relinked, edited>>
         ELSE FileToolFails
  /\ Steady

(* writeWorkspaceText() resolves the path ...                              *)
Resolve ==
  /\ at = "resolve"
  /\ IF Resolved(call, TRUE, FALSE)
     THEN /\ work' = [work EXCEPT !.place = Real(call.place),
                                  !.exists = content[Real(call.place)] # Absent,
                                  !.text = IF call.tool = "write_file" THEN call.text ELSE @]
          /\ relinked' = FALSE /\ Goes("read") /\ UNCHANGED <<content, edited, strays>>
     ELSE FileToolFails
  /\ Steady

(* Mutant: the patch is not compared with what the file has now.           *)
ReadUncompared ==
  /\ at = "read"
  /\ edited' = FALSE /\ Goes("revalidate")
  /\ UNCHANGED <<work, content, relinked, strays>> /\ Steady

(* ... reads what is there, which for a patch is what it was made from ... *)
ReadPrevious ==
  /\ at = "read"
  /\ LET now == IF work.exists THEN At(work.place) ELSE Absent
     IN  IF /\ ~aborted /\ (work.exists => now \notin {Absent, Binary})
            /\ call.tool = "apply_patch" => now = work.base
         THEN /\ edited' = FALSE /\ Goes("revalidate")
              /\ IF work.exists THEN Reaches(work.place, TRUE) ELSE UNCHANGED strays
              /\ UNCHANGED <<work, content, relinked>>
         ELSE FileToolFails
  /\ Steady

(* ... resolves again and insists on the same answer ...                   *)
Revalidate ==
  /\ at = "revalidate"
  /\ IF /\ ~aborted /\ Resolved(call, TRUE, work.exists)
        /\ Real(call.place) = work.place
        /\ work.exists = (content[Real(call.place)] # Absent)
     THEN relinked' = FALSE /\ Goes("write") /\ UNCHANGED <<work, content, edited, strays>>
     ELSE FileToolFails
  /\ Steady

(* ... and writes: the file is emptied, then filled; a cancellation or an  *)
(* error in between leaves it as it is.                                    *)
Open ==
  /\ at = "write"
  /\ IF ~aborted /\ Real(work.place) # Nowhere
     THEN /\ content' = [content EXCEPT ![Real(work.place)] = Torn]
          /\ work' = [work EXCEPT !.place = Real(work.place)]
          /\ Reaches(work.place, TRUE) /\ Goes("writing") /\ UNCHANGED <<relinked, edited>>
     ELSE FileToolFails
  /\ Steady

Fill ==
  /\ at = "writing"
  /\ \/ /\ content' = [content EXCEPT ![work.place] = work.text]
        /\ Ended("done") /\ relinked' = FALSE /\ edited' = FALSE /\ UNCHANGED strays
     \/ FileToolFails
  /\ Steady

(* limitRecordsHeadTail(), truncateHeadTail(): of what is too much, the    *)
(* middle is left out.                                                     *)
HeadTail(records, most) ==
  LET n == Min({Len(records), most})
      tail == n \div 2
  IN  SubSeq(records, 1, n - tail) \o SubSeq(records, Len(records) - tail + 1, Len(records))

Reports(records, most) ==
  LET kept == HeadTail(records, most)
  IN  /\ work' = [work EXCEPT !.found = kept, !.omitted = Len(records) - Len(kept), !.todo = <<>>]
      /\ Goes("report")

(* read_file, and search_text of a single file: resolve, then read.        *)
ResolveRead ==
  /\ at = "resolve read"
  /\ IF ~aborted /\ Resolved(call, FALSE, TRUE)
     THEN /\ work' = [work EXCEPT !.place = Real(call.place), !.files = <<Real(call.place)>>,
                                  !.todo = <<Real(call.place)>>]
          /\ relinked' = FALSE /\ edited' = FALSE
          /\ Goes(IF call.tool = "search_text" THEN "search" ELSE "read file")
          /\ UNCHANGED <<content, strays>>
     ELSE FileToolFails
  /\ Steady

(* read_file: the lines asked for, which must begin within the file.       *)
ReadFile ==
  /\ at = "read file"
  /\ LET text == At(work.place) IN
     IF ~aborted /\ text \notin {Absent, Binary} /\ call.first <= Len(text)
     THEN /\ Reports(SubSeq(text, call.first, Min({call.last, Len(text)})), MaxOutput)
          /\ Reaches(work.place, FALSE) /\ UNCHANGED <<content, relinked, edited>>
     ELSE FileToolFails
  /\ Steady

-----------------------------------------------------------------------------
(* Walks: list_files and search_text of the whole workspace.  The tree has *)
(* the files of the root and, in a directory that comes first, .git's.     *)

(* readdir(): the names there, each with whether it is a link.             *)
Names(places) ==
  LET there == SetToSeq({p \in places : content[p] # Absent \/ alias[p] # p})
  IN  [i \in DOMAIN there |-> [name |-> there[i], link |-> alias[there[i]] # there[i]]]

ReadRoot ==
  /\ at = "read root"
  /\ IF ~aborted
     THEN /\ work' = [work EXCEPT !.todo = Names(Inside)]
          /\ relinked' = FALSE /\ edited' = FALSE /\ Goes("read git")
          /\ UNCHANGED <<content, strays>>
     ELSE FileToolFails
  /\ Steady

(* .git counts as an entry; below it the walk goes if it may go that deep, *)
(* which a search always may.                                              *)
ReadGit ==
  /\ at = "read git"
  /\ IF ~aborted /\ MaxEntries > 0
     THEN /\ work' = [work EXCEPT !.todo = IF call.tool = "search_text" \/ call.deep
                                           THEN Names(InGit) \o @ ELSE @,
                                  !.visited = 1]
          /\ Goes("walk") /\ UNCHANGED <<content, relinked, edited, strays>>
     ELSE FileToolFails
  /\ Steady

(* Mutant: what a link leads to is searched like a file of its own.        *)
VisitLinks ==
  /\ at = "walk" /\ work.todo # <<>>
  /\ LET child == Head(work.todo) IN
     IF /\ ~aborted /\ work.visited < MaxEntries
        /\ Real(child.name) \in Inside \cup InGit /\ At(child.name) # Absent
     THEN /\ work' = [work EXCEPT !.todo = Tail(@), !.visited = @ + 1,
                                  !.found = Append(@, child.name),
                                  !.files = Append(@, Real(child.name))]
          /\ UNCHANGED <<at, result, once, content, relinked, edited, strays>>
     ELSE FileToolFails
  /\ Steady

(* One entry that leads nowhere or out of the workspace fails the call.  A *)
(* link is listed and not followed.                                        *)
Visit ==
  /\ at = "walk" /\ work.todo # <<>>
  /\ LET child == Head(work.todo) IN
     IF /\ ~aborted /\ work.visited < MaxEntries
        /\ Real(child.name) \in Inside \cup InGit /\ At(child.name) # Absent
     THEN /\ work' = [work EXCEPT !.todo = Tail(@), !.visited = @ + 1,
                                  !.found = Append(@, child.name),
                                  !.files = IF child.link THEN @ ELSE Append(@, Real(child.name))]
          /\ UNCHANGED <<at, result, once, content, relinked, edited, strays>>
     ELSE FileToolFails
  /\ Steady

(* The walk is done: a listing is reported, a search reads the files.      *)
Listed ==
  /\ at = "walk" /\ work.todo = <<>> /\ call.tool = "list_files"
  /\ Reports(work.found, MaxOutput)
  /\ UNCHANGED <<content, history>> /\ Steady

Walked ==
  /\ at = "walk" /\ work.todo = <<>> /\ call.tool = "search_text"
  /\ work' = [work EXCEPT !.todo = work.files, !.found = <<>>]
  /\ Goes("search") /\ UNCHANGED <<content, history>> /\ Steady

(* The lines that have the query; a line counts once.                      *)
Lines(p, text, query) ==
  LET numbers == {i \in DOMAIN text : text[i] = query}
      Rank(i) == Cardinality({j \in numbers : j <= i})
  IN  [k \in 1 .. Cardinality(numbers) |-> <<p, CHOOSE i \in numbers : Rank(i) = k>>]

(* What is not text is passed over, unless it is the only file.            *)
SearchFile ==
  /\ at = "search" /\ work.todo # <<>>
  /\ LET file == Head(work.todo)
         text == At(file)
     IN  IF /\ ~aborted /\ text # Absent
            /\ text = Binary => Len(work.files) > 1
         THEN /\ work' = [work EXCEPT !.todo = Tail(@),
                            !.found = @ \o IF text = Binary THEN <<>> ELSE Lines(file, text, call.query)]
              /\ Reaches(file, FALSE)
              /\ UNCHANGED <<at, result, once, content, relinked, edited>>
         ELSE FileToolFails
  /\ Steady

Searched ==
  /\ at = "search" /\ work.todo = <<>>
  /\ Reports(work.found, Min({call.most, MaxOutput}))
  /\ UNCHANGED <<content, history>> /\ Steady

(* The answer goes to the loop, also when the turn was cancelled meanwhile. *)
Reported ==
  /\ at = "report" /\ Ended("done")
  /\ relinked' = FALSE /\ edited' = FALSE /\ UNCHANGED <<content, strays>> /\ Steady

(* Somebody else changes a file or a link while a file tool is at work.    *)
Meddle ==
  /\ at \in FileStage \ {"writing", "report"} /\ spent.meddling < MaxMeddling
  /\ spent' = [spent EXCEPT !.meddling = @ + 1]
  /\ \E p \in Inside :
       \/ /\ Real(p) \in Inside
          /\ \E text \in {Absent, Binary} \cup Text :
               content' = [content EXCEPT ![Real(p)] = text]
          /\ edited' = TRUE /\ UNCHANGED <<alias, relinked>>
       \/ /\ \E q \in Place \cup {Nowhere} : alias' = [alias EXCEPT ![p] = q]
          /\ relinked' = TRUE /\ edited' = TRUE /\ UNCHANGED content
  /\ UNCHANGED <<session, call, at, aborted, work, process, result, strays>>

-----------------------------------------------------------------------------
(* run_command                                                             *)

CommandSteady == UNCHANGED <<mode, approvals, call, disk, history, spent>>

(* executePowerShell() up to the start of the process.                     *)
Spawn ==
  /\ at = "spawn"
  /\ IF aborted THEN Ended("cancelled") /\ UNCHANGED process
     ELSE \/ Ended("spawn_error") /\ UNCHANGED process
          \/ /\ process' = [NoProcess EXCEPT !.main = TRUE]
             /\ at' = "command" /\ UNCHANGED <<result, once, work>>
  /\ UNCHANGED aborted /\ CommandSteady

Running == at = "command"

Change(fields) ==
  /\ Running /\ process' = fields
  /\ UNCHANGED <<at, result, once, work, aborted>> /\ CommandSteady

(* The command starts something that keeps its output open; processes end. *)
Process ==
  \/ process.main /\ ~process.others /\ Change([process EXCEPT !.others = TRUE])
  \/ process.main /\ Change([process EXCEPT !.main = FALSE])
  \/ process.others /\ Change([process EXCEPT !.others = FALSE])

(* Mutant: no second clock runs once the process was told to stop.         *)
TellWithoutFallback(reason) ==
  /\ process.told = "no" /\ ~process.finishing
  /\ Change([process EXCEPT !.told = reason, !.kill = "running"])

(* requestTermination() *)
Tell(reason) ==
  /\ process.told = "no" /\ ~process.finishing
  /\ Change([process EXCEPT !.told = reason, !.kill = "running", !.fallback = TRUE])

TimeLimit == Tell("timeout")

AbortHeard == aborted /\ Tell("cancelled")

(* terminateProcessTree(): it may not find all of the tree, or fail; then  *)
(* at least the process itself is killed.                                  *)
KillEnds ==
  /\ process.kill = "running"
  /\ \E others \in {process.others, FALSE}, how \in {"ok", "failed"} :
       Change([process EXCEPT !.kill = how, !.others = others,
                              !.main = IF how = "ok" \/ ~process.finishing THEN FALSE ELSE @])

(* Mutant: the exit of the process is enough.                              *)
CloseOnExit ==
  /\ ~process.main /\ ~process.finishing
  /\ Change([process EXCEPT !.finishing = TRUE, !.fallback = FALSE])

(* The process ended and nobody holds its output any more.                 *)
Close ==
  /\ ~process.main /\ ~process.others /\ ~process.finishing
  /\ Change([process EXCEPT !.finishing = TRUE, !.fallback = FALSE])

Fallback ==
  /\ process.fallback /\ ~process.finishing
  /\ Change([process EXCEPT !.finishing = TRUE, !.fallback = FALSE])

(* finish() waits for the kill that was begun, then answers.               *)
Answer ==
  /\ Running /\ process.finishing /\ process.kill # "running"
  /\ Ended(IF process.told = "no" THEN "exited" ELSE process.told)
  /\ UNCHANGED <<aborted, process>> /\ CommandSteady

-----------------------------------------------------------------------------
FileStep ==
  \/ ResolvePatch \/ ReadBase \/ Resolve \/ ReadPrevious \/ Revalidate \/ Open \/ Fill
  \/ ResolveRead \/ ReadFile \/ ReadRoot \/ ReadGit \/ Visit \/ Listed
  \/ Walked \/ SearchFile \/ Searched \/ Reported

CommandStep == Spawn \/ TimeLimit \/ AbortHeard \/ KillEnds \/ Close \/ Fallback \/ Answer

Next ==
  \/ Ask \/ Approve \/ ChangeMode \/ Cancel \/ ExtensionTool
  \/ FileStep \/ Meddle
  \/ CommandStep \/ Process

(* The time limits run out, the operating system answers; nothing makes a  *)
(* process of the command end by itself.                                   *)
Spec == Init /\ [][Next]_vars /\ WF_vars(FileStep) /\ WF_vars(CommandStep)

-----------------------------------------------------------------------------
(* Properties                                                              *)

Shown == Token \cup {"absent", "torn", "binary"}

(* What is to do are names in a walk, and files in a search; what was found *)
(* are lines of a search, otherwise lines of a file or names.              *)
Entry == [name : Place, link : BOOLEAN]
Match == Place \X Nat

Work ==
  [place : Place \cup {Nowhere}, exists : BOOLEAN, base : Seq(Shown), text : Seq(Shown),
   todo    : Seq(IF at \in {"read git", "walk"} THEN Entry ELSE Place),
   visited : 0 .. MaxEntries, files : Seq(Place), omitted : Nat,
   found   : Seq(IF call.tool = "search_text" /\ at # "walk" THEN Match ELSE Shown \cup Place)]

TypeOK ==
  /\ mode \in Modes /\ approvals \subseteq Call /\ once \in BOOLEAN
  /\ call \in Call /\ aborted \in BOOLEAN
  /\ at \in FileStage \cup {"idle", "asked", "extension", "spawn", "command"}
  /\ content \in [Place -> Seq(Shown)] /\ alias \in [Place -> Place \cup {Nowhere}]
  /\ work \in Work
  /\ process \in [main : BOOLEAN, others : BOOLEAN, told : {"no", "timeout", "cancelled"},
                  kill : {"none", "running", "ok", "failed"}, fallback : BOOLEAN,
                  finishing : BOOLEAN]
  /\ result \in {"none", "refused", "done", "failed", "cancelled", "timeout", "exited",
                 "spawn_error"}
  /\ relinked \in BOOLEAN /\ edited \in BOOLEAN /\ strays \subseteq Place
  /\ spent \in [calls : 0 .. MaxCalls, meddling : 0 .. MaxMeddling]

(* What runs outside Full Access was never refused outright: no tool the   *)
(* policy does not know, no path it forbids, no command with a trait that  *)
(* no approval can lift; and what has to be asked runs only if the user    *)
(* approved this call, or this very operation for the session.             *)
NothingRunsUnasked ==
  (at \notin {"idle", "asked"} /\ mode # "full-access") =>
    /\ call.tool \in ReadTools \cup WriteTools \cup {CommandTool}
    /\ call.kind # "outside"
    /\ call.tool \in WriteTools => call.kind # "git"
    /\ call.tool = CommandTool => call.traits \cap HardTraits = {}
    /\ (call.tool = CommandTool /\ call.traits \cap AskTraits # {}) =>
         once \/ call \in approvals

(* In every mode: as long as nobody changes a link between the moment a    *)
(* tool resolved its path and the moment it uses it, file tools read       *)
(* nothing outside the workspace and write nothing outside or below .git.  *)
ToolsStayInside == strays = {}

(* A patch replaces the text it was made from: when it is about to write,  *)
(* the file has that text, unless it was changed after the second reading. *)
PatchReplacesItsBase ==
  (at = "write" /\ call.tool = "apply_patch" /\ ~edited) =>
    content[Real(work.place)] = work.base

(* A command reported to have exited left no process that could still      *)
(* write to its output, and nobody told it to stop.                        *)
ExitIsReal ==
  (result = "exited" /\ at = "idle") => ~process.main /\ ~process.others

(* When nobody changed anything since it began, a search of the workspace  *)
(* reports every line of every text file once, or says how many it left    *)
(* out; lines reached only through links are not counted twice.            *)
SearchIsComplete ==
  (at = "report" /\ call.tool = "search_text" /\ call.root /\ ~edited) =>
    LET Hits(p) == {i \in DOMAIN content[p] : content[p][i] = call.query}
        plain == {p \in Inside \cup InGit : alias[p] = p /\ content[p] \notin {Absent, Binary}}
        hits == UNION {{p} \X Hits(p) : p \in plain}
    IN  /\ ToSet(work.found) \subseteq hits
        /\ Len(work.found) = Cardinality(ToSet(work.found))
        /\ Len(work.found) + work.omitted = Cardinality(hits)

(* What a call reports is what happened, and a patch that is reported made *)
(* the change it shows.                                                    *)
ResultsAreTrue == ExitIsReal /\ SearchIsComplete /\ PatchReplacesItsBase

(* Whatever the command does, and whether or not it can be killed, the     *)
(* call is answered.                                                       *)
CommandEnds == Running ~> ~Running
=============================================================================
