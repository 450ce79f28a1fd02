--------------------------- MODULE ProviderSettings ---------------------------
(***************************************************************************)
(* The provider settings: the configuration file, the requests of the web  *)
(* console that merge into it (provider-api, config-service), the command  *)
(* line's wizard that replaces it, in a process of its own, and the        *)
(* idempotency store that joins repeated requests.  A web request holds    *)
(* the write lock of its process while it reads, merges and writes; the    *)
(* lock says nothing to the wizard.  A write goes to a temporary file and  *)
(* is renamed into place; where the system refuses to replace a file, the  *)
(* old one is moved aside first.  Each file operation is one step.         *)
(***************************************************************************)
EXTENDS Naturals, Sequences, FiniteSets

CONSTANTS
  Delivery,       (* HTTP requests that can be under way at once     *)
  Wizard,         (* the wizard's process                            *)
  RequestId,
  Url, Model,
  Draft,          (* settings a client or the user may enter         *)
  MaxDeliveries,  (* bound: requests delivered                       *)
  MaxWizards,     (* bound: runs of the wizard                       *)
  MaxRefusals,    (* bound: replacements the system refuses          *)
  MaxFails,       (* bound: file operations that fail                *)
  MaxCrashes      (* bound: deaths of the server or the wizard       *)

Writer == Delivery \cup {Wizard}

Routes == {"PUT provider", "POST discover"}

DraftType ==
  [url: Url, model: Model, source: {"discover", "manual"}, models: SUBSET Model, clean: BOOLEAN]

ASSUME SettingsAssumption ==
  /\ Wizard \notin Delivery
  /\ Draft \subseteq DraftType
  /\ {MaxDeliveries, MaxWizards, MaxRefusals, MaxFails, MaxCrashes} \subseteq Nat

(* What a request leaves alone: "shared" is the safety mode, the context   *)
(* and the output limit, "limits" the steps and the two time limits.       *)
Rest == [shared: {"default", "tuned"}, limits: {"default", "tuned"}]

DefaultRest == [shared |-> "default", limits |-> "default"]

Config == [url: Url, model: Model, source: {"discover", "manual"}, models: SUBSET Model,
           rest: Rest, by: 0 .. MaxDeliveries]

Missing == [is |-> "missing"]
Broken  == [is |-> "broken"]
Answers == {"ok", "invalid", "failed", "busy", "conflict", "unavailable"}
Pending == "pending"
NoRecord == [answer |-> "none"]

VARIABLES
  file,      (* the configuration file: a Config, Missing or Broken       *)
  backup,    (* the file each writer moved aside                          *)
  temp,      (* writers whose temporary file exists                       *)
  at,        (* where each request and the wizard stands                  *)
  asked,     (* the request: number, route with identifier, body          *)
  answer,    (* the last answer each request got                          *)
  new,       (* what each writer is about to write                        *)
  waiting,   (* the write lock: requests in the order they asked for it   *)
  records,   (* the idempotency store                                     *)
  cache,     (* discovered models, for each URL                           *)
  turnRuns,  (* a turn is active, or the server is closing                *)
  runs,      (* history: executions of a request in this server's life    *)
  chosen,    (* history: the rests the user put on file                   *)
  blind,     (* history: a merge read while the file was moved aside      *)
  spent      (* what was spent of the bounds                              *)

files == <<file, backup, temp>>
vars  == <<file, backup, temp, at, asked, answer, new, waiting, records, cache, turnRuns,
           runs, chosen, blind, spent>>

Keys == Routes \X RequestId

NoAsk == [no |-> 0]

Spend(bound, kind) == spent[kind] < bound /\ spent' = [spent EXCEPT ![kind] = @ + 1]

-----------------------------------------------------------------------------
(* What a draft has to satisfy                                             *)

(* settingsFieldIssues(), parsePersistentConfig(): no unknown key and no   *)
(* credential, a manual list has a model, the default model among them.    *)
Valid(c) ==
  /\ c.source = "manual" => c.models # {} /\ c.model \in c.models
  /\ c.source = "discover" => c.models = {}

Accepted(draft) == draft.clean /\ Valid(draft)

Made(draft, rest, by) ==
  [url |-> draft.url, model |-> draft.model, source |-> draft.source, models |-> draft.models,
   rest |-> rest, by |-> by]

Readable == file # Missing /\ file # Broken

Init ==
  /\ file \in {Missing, Broken} \cup
       {Made(d, r, 0) : d \in {x \in Draft : Accepted(x)},
                             r \in {DefaultRest, [shared |-> "tuned", limits |-> "tuned"]}}
  /\ backup = [w \in Writer |-> Missing] /\ temp = {}
  /\ at = [w \in Writer |-> "idle"]
  /\ asked = [d \in Delivery |-> NoAsk] /\ answer = [d \in Delivery |-> "none"]
  /\ new = [w \in Writer |-> Missing]
  /\ waiting = <<>>
  /\ records = [k \in Keys |-> NoRecord]
  /\ cache = [u \in Url |-> {}]
  /\ turnRuns = FALSE
  /\ runs = [k \in Keys |-> 0]
  /\ chosen = IF Readable THEN {file.rest} ELSE {DefaultRest}
  /\ blind = FALSE
  /\ spent = [kind \in {"deliveries", "wizards", "refusals", "fails", "crashes"} |-> 0]

-----------------------------------------------------------------------------
(* Requests                                                                *)

(* Mutant: the store knows a request only once it was answered.            *)
KnownWhenAnswered(k) == IF records[k] # NoRecord /\ records[k].answer # Pending
                        THEN records[k] ELSE NoRecord

Known(k) == records[k]

(* The answers of a request and of all that wait for it.                   *)
Commit(d, result) ==
  LET k == asked[d].key
      joined == {e \in Delivery : at[e] = "joined" /\ asked[e].key = k}
  IN  /\ records' = [records EXCEPT ![k] = [body |-> asked[d].body, answer |-> result]]
      /\ answer' = [e \in Delivery |-> IF e \in joined \cup {d} THEN result ELSE answer[e]]
      /\ at' = [w \in Writer |-> IF w \in joined \cup {d} THEN "idle" ELSE at[w]]

(* Up to its first await a request runs in one step: the store, the guard  *)
(* (no turn, the server runs), the schema, and a place in the queue of the *)
(* lock.                                                                   *)
Begin(d, k, body) ==
  /\ runs' = [runs EXCEPT ![k] = @ + 1]
  /\ IF turnRuns \/ ~body.clean
     THEN /\ records' = [records EXCEPT ![k] = [body |-> body, answer |->
                          IF turnRuns THEN "busy" ELSE "invalid"]]
          /\ answer' = [answer EXCEPT ![d] = IF turnRuns THEN "busy" ELSE "invalid"]
          /\ at' = [at EXCEPT ![d] = "idle"]
          /\ UNCHANGED waiting
     ELSE /\ records' = [records EXCEPT ![k] = [body |-> body, answer |-> Pending]]
          /\ answer' = [answer EXCEPT ![d] = "none"]
          /\ at' = [at EXCEPT ![d] = IF k[1] = "PUT provider" THEN "queued" ELSE "asking"]
          /\ waiting' = IF k[1] = "PUT provider" THEN Append(waiting, d) ELSE waiting

(* fingerprintIdempotencyRequest(): the body, whatever the order of its keys. *)
SamePrint(known, body) == known.body = body

Repeat(d, known, body) ==
  /\ UNCHANGED <<runs, records, waiting>>
  /\ CASE ~SamePrint(known, body) -> /\ answer' = [answer EXCEPT ![d] = "conflict"]
                               /\ at' = [at EXCEPT ![d] = "idle"]
       [] SamePrint(known, body) /\ known.answer = Pending ->
                               /\ answer' = [answer EXCEPT ![d] = "none"]
                               /\ at' = [at EXCEPT ![d] = "joined"]
       [] OTHER -> /\ answer' = [answer EXCEPT ![d] = known.answer]
                   /\ at' = [at EXCEPT ![d] = "idle"]

(* withIdempotency(): the first request with an identifier is executed.    *)
Deliver(d) ==
  /\ at[d] = "idle" /\ Spend(MaxDeliveries, "deliveries")
  /\ \E id \in RequestId, route \in Routes, body \in Draft :
       LET k == <<route, id>> IN
       /\ asked' = [asked EXCEPT ![d] = [no |-> spent.deliveries + 1, key |-> k, body |-> body]]
       /\ IF Known(k) = NoRecord THEN Begin(d, k, body) ELSE Repeat(d, Known(k), body)
  /\ UNCHANGED <<files, new, cache, turnRuns, chosen, blind>>

(* discoverModels() saves nothing; what it found is kept for the URL.      *)
Discover(d) ==
  /\ at[d] = "asking"
  /\ \/ \E found \in SUBSET Model \ {{}} :
          cache' = [cache EXCEPT ![asked[d].body.url] = found] /\ Commit(d, "ok")
     \/ UNCHANGED cache /\ Commit(d, "unavailable")
  /\ UNCHANGED <<files, asked, new, waiting, turnRuns, runs, chosen, blind, spent>>

(* Only the provider configuration's own requests care for a turn.         *)
Turn ==
  /\ turnRuns' = ~turnRuns
  /\ UNCHANGED <<files, at, asked, answer, new, waiting, records, cache, runs, chosen, blind,
                 spent>>

-----------------------------------------------------------------------------
(* saveProviderSettings()                                                  *)

(* Mutant: a request that fails keeps the lock.                            *)
ReleaseOnSuccess(d, result) == IF result = "ok" THEN Tail(waiting) ELSE waiting

Release(d, result) == Tail(waiting)

(* The request ends, the next one gets the lock.                           *)
Answer(d, result) ==
  /\ Commit(d, result)
  /\ waiting' = Release(d, result)
  /\ new' = [new EXCEPT ![d] = Missing]

TakeLock(d) ==
  /\ at[d] = "queued" /\ Head(waiting) = d
  /\ IF Accepted(asked[d].body)
     THEN at' = [at EXCEPT ![d] = "reading"] /\ UNCHANGED <<records, answer, waiting, new>>
     ELSE Answer(d, "invalid")
  /\ UNCHANGED <<files, asked, cache, turnRuns, runs, chosen, blind, spent>>

(* Mutant: the merge starts from the defaults.                             *)
MergedAnew(d) == Made(asked[d].body, DefaultRest, asked[d].no)

(* persistKnownFields(): the rest is what the file has, or the default.    *)
Merged(d) == Made(asked[d].body, IF file = Missing THEN DefaultRest ELSE file.rest, asked[d].no)

(* loadExisting() and the merge; a file that cannot be parsed is kept.     *)
ReadExisting(d) ==
  /\ at[d] = "reading"
  /\ IF file = Broken
     THEN Answer(d, "failed") /\ UNCHANGED blind
     ELSE /\ new' = [new EXCEPT ![d] = Merged(d)]
          /\ at' = [at EXCEPT ![d] = "temp"]
          /\ blind' = (blind \/ (file = Missing /\ \E w \in Writer : backup[w] # Missing))
          /\ UNCHANGED <<records, answer, waiting>>
  /\ UNCHANGED <<files, asked, cache, turnRuns, runs, chosen, spent>>

-----------------------------------------------------------------------------
(* writePersistentConfigFile(), by a request or by the wizard              *)

Ends(w, result) ==
  IF w \in Delivery THEN Answer(w, result)
  ELSE /\ at' = [at EXCEPT ![w] = "idle"] /\ new' = [new EXCEPT ![w] = Missing]
       /\ UNCHANGED <<records, answer, waiting>>

Goes(w, place) ==
  /\ at' = [at EXCEPT ![w] = place]
  /\ UNCHANGED <<records, answer, waiting, new>>

Fails == Spend(MaxFails, "fails")

(* The temporary file is removed with the error.                           *)
GivesUp(w) == Ends(w, "failed") /\ temp' = temp \ {w}

Unwritten == UNCHANGED <<asked, cache, turnRuns, runs, chosen, blind>>

WriteTemp(w) ==
  /\ at[w] = "temp"
  /\ \/ Goes(w, "rename") /\ temp' = temp \cup {w} /\ UNCHANGED spent
     \/ Fails /\ GivesUp(w)
  /\ UNCHANGED <<file, backup>> /\ Unwritten

Rename(w) ==
  /\ at[w] = "rename"
  /\ \/ file' = new[w] /\ temp' = temp \ {w} /\ Ends(w, "ok") /\ UNCHANGED spent
     \/ Spend(MaxRefusals, "refusals") /\ Goes(w, "aside") /\ UNCHANGED <<file, temp>>
     \/ Fails /\ GivesUp(w) /\ UNCHANGED file
  /\ UNCHANGED backup /\ Unwritten

(* Mutant: the file that is in the way is deleted.                         *)
AsideDeleted(w) ==
  /\ at[w] = "aside"
  /\ file' = Missing /\ Goes(w, "second")
  /\ UNCHANGED <<backup, temp, spent>> /\ Unwritten

(* Another process may have moved the file already.                        *)
Aside(w) ==
  /\ at[w] = "aside"
  /\ \/ /\ file # Missing
        /\ backup' = [backup EXCEPT ![w] = file] /\ file' = Missing
        /\ Goes(w, "second") /\ UNCHANGED <<temp, spent>>
     \/ /\ IF file = Missing THEN UNCHANGED spent ELSE Fails
        /\ GivesUp(w) /\ UNCHANGED <<file, backup>>
  /\ Unwritten

Second(w) ==
  /\ at[w] = "second"
  /\ \/ file' = new[w] /\ temp' = temp \ {w} /\ Goes(w, "cleanup") /\ UNCHANGED spent
     \/ Fails /\ Goes(w, "restore") /\ UNCHANGED <<file, temp>>
  /\ UNCHANGED backup /\ Unwritten

Cleanup(w) ==
  /\ at[w] = "cleanup"
  /\ \/ backup' = [backup EXCEPT ![w] = Missing] /\ Ends(w, "ok") /\ UNCHANGED spent
     \/ Fails /\ Goes(w, "restore") /\ UNCHANGED backup
  /\ UNCHANGED <<file, temp>> /\ Unwritten

(* Mutant: a backup that could not be removed is left, and so is the file. *)
RestoreNothing(w) ==
  /\ at[w] = "restore"
  /\ GivesUp(w) /\ UNCHANGED <<file, backup, spent>>
  /\ Unwritten

(* The error is reported whether or not the old file could be put back.    *)
Restore(w) ==
  /\ at[w] = "restore"
  /\ GivesUp(w)
  /\ \/ file' = backup[w] /\ backup' = [backup EXCEPT ![w] = Missing] /\ UNCHANGED spent
     \/ Fails /\ UNCHANGED <<file, backup>>
  /\ Unwritten

-----------------------------------------------------------------------------
(* The wizard                                                              *)

(* It proposes what the file has when it starts, if the file is valid.     *)
WizardStarts ==
  /\ at[Wizard] = "idle" /\ Spend(MaxWizards, "wizards")
  /\ at' = [at EXCEPT ![Wizard] = "prompting"]
  /\ new' = [new EXCEPT ![Wizard] = file]
  /\ UNCHANGED <<files, asked, answer, waiting, records, cache, turnRuns, runs, chosen, blind>>

(* The steps and the time limits of the file are not among its questions   *)
(* and not in what it writes.                                              *)
WizardRest == [shared |-> IF new[Wizard] \in {Missing, Broken} THEN "default"
                          ELSE new[Wizard].rest.shared,
               limits |-> "default"]

(* The user is asked until each answer is valid, and confirms or leaves.   *)
WizardAnswered ==
  /\ at[Wizard] = "prompting"
  /\ \/ \E d \in Draft :
          /\ Accepted(d)
          /\ new' = [new EXCEPT ![Wizard] = Made(d, WizardRest, 0)]
          /\ chosen' = chosen \cup {WizardRest}
          /\ at' = [at EXCEPT ![Wizard] = "temp"]
     \/ /\ at' = [at EXCEPT ![Wizard] = "idle"] /\ new' = [new EXCEPT ![Wizard] = Missing]
        /\ UNCHANGED chosen
  /\ UNCHANGED <<files, asked, answer, waiting, records, cache, turnRuns, runs, blind, spent>>

-----------------------------------------------------------------------------
(* A process dies.  The server forgets its requests, records and models;   *)
(* files stay as they are.                                                 *)

ServerDies ==
  /\ \E d \in Delivery : at[d] # "idle"
  /\ Spend(MaxCrashes, "crashes")
  /\ at' = [w \in Writer |-> IF w \in Delivery THEN "idle" ELSE at[w]]
  /\ asked' = [d \in Delivery |-> NoAsk] /\ answer' = [d \in Delivery |-> "none"]
  /\ new' = [w \in Writer |-> IF w \in Delivery THEN Missing ELSE new[w]]
  /\ waiting' = <<>> /\ records' = [k \in Keys |-> NoRecord] /\ runs' = [k \in Keys |-> 0]
  /\ cache' = [u \in Url |-> {}] /\ turnRuns' = FALSE
  /\ UNCHANGED <<files, chosen, blind>>

WizardDies ==
  /\ at[Wizard] # "idle" /\ Spend(MaxCrashes, "crashes")
  /\ at' = [at EXCEPT ![Wizard] = "idle"] /\ new' = [new EXCEPT ![Wizard] = Missing]
  /\ UNCHANGED <<files, asked, answer, waiting, records, cache, turnRuns, runs, chosen, blind>>

WriteStep(w) ==
  WriteTemp(w) \/ Rename(w) \/ Aside(w) \/ Second(w) \/ Cleanup(w) \/ Restore(w)

RequestStep(d) == Discover(d) \/ TakeLock(d) \/ ReadExisting(d) \/ WriteStep(d)

Next ==
  \/ \E d \in Delivery : Deliver(d) \/ RequestStep(d)
  \/ WriteStep(Wizard) \/ WizardStarts \/ WizardAnswered
  \/ Turn \/ ServerDies \/ WizardDies

Spec == Init /\ [][Next]_vars

-----------------------------------------------------------------------------
(* Properties                                                              *)

TypeOK ==
  /\ file \in Config \cup {Missing, Broken}
  /\ backup \in [Writer -> Config \cup {Missing, Broken}] /\ temp \subseteq Writer
  /\ at \in [Writer -> {"idle", "joined", "queued", "asking", "reading", "prompting", "temp",
                        "rename", "aside", "second", "cleanup", "restore"}]
  /\ answer \in [Delivery -> Answers \cup {"none"}]
  /\ new \in [Writer -> Config \cup {Missing, Broken}]
  /\ waiting \in Seq(Delivery)
  /\ cache \in [Url -> SUBSET Model] /\ turnRuns \in BOOLEAN /\ blind \in BOOLEAN
  /\ chosen \subseteq Rest

(* A request that is repeated while the first is under way, or after it    *)
(* ended, is executed once, and every repetition with the same body gets   *)
(* the answer of the first.                                                *)
OncePerRequest ==
  /\ \A k \in Keys : runs[k] <= 1
  /\ \A d, e \in Delivery :
       (/\ "none" \notin {answer[d], answer[e]}
        /\ asked[d].key = asked[e].key /\ asked[d].body = asked[e].body) => answer[d] = answer[e]

(* What a request does not name keeps its value: whoever writes, and       *)
(* whatever fails, the file has the rest the user put there, unless a      *)
(* request merged while another process, or a crash, had it moved aside.   *)
MergeKeepsTheRest == (Readable /\ ~blind) => file.rest \in chosen

(* A save that is answered with an error has changed nothing, if no more   *)
(* than one file operation failed: what the request would have written is  *)
(* not on file.                                                            *)
FailedSaveLeavesNothing ==
  \A d \in Delivery :
    (spent.fails <= 1 /\ at[d] = "idle" /\ answer[d] = "failed" /\ Readable) =>
      file.by # asked[d].no

(* What is on file is what was asked for: no part of it is lost, and none  *)
(* comes from a save that was reported to have failed.                     *)
FileIsAsSaved == MergeKeepsTheRest /\ FailedSaveLeavesNothing

(* There is a configuration, on file or moved aside.                       *)
Survives == file # Missing \/ \E w \in Writer : backup[w] # Missing

(* A configuration that was on file once is never gone: when the file is   *)
(* missing, a backup holds one, whichever process died where.              *)
ConfigSurvives == [][Survives => Survives']_files

(* The lock serves the saves one at a time, in the order they asked, and   *)
(* no request that ended, however it ended, keeps the others waiting.      *)
LockServes ==
  /\ \A d \in Delivery :
       at[d] \in {"reading", "temp", "rename", "aside", "second", "cleanup", "restore"} =>
         Head(waiting) = d
  /\ \A i \in 1 .. Len(waiting) : at[waiting[i]] # "idle"
  /\ Cardinality({waiting[i] : i \in 1 .. Len(waiting)}) = Len(waiting)
=============================================================================
