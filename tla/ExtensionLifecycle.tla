------------------------- MODULE ExtensionLifecycle -------------------------
(***************************************************************************)
(* Workspace extensions: the catalogue and content on disk                 *)
(* (WorkspaceExtensionStore), the operations that change them one at a     *)
(* time (ExtensionLifecycleManager), the loaded workers and their tools    *)
(* (ExtensionRuntimeManager, ToolRegistry) and what a turn does to them    *)
(* before it starts (WorkspaceExtensionSystem).                            *)
(*                                                                         *)
(* An operation is a sequence of steps with awaits between them.  Other    *)
(* operations wait for it; turns, tool calls, worker faults, edits of the  *)
(* staging directory and crashes do not.  A worker is reduced to whether   *)
(* its host is open and holds a call: ExtensionWorker has the details.     *)
(***************************************************************************)
EXTENDS Sequences, Naturals, FiniteSets

CONSTANTS
  Ext, Hash,
  Tools,        (* Tools[e][h]: the tool names version h of e declares      *)
  None,
  Worker,       (* identities of worker hosts, reused once they are closed  *)
  Kinds,        (* the operations asked for                                 *)
  MaxRequests,  (* bound: operations asked for                              *)
  MaxTurns,     (* bound: turns                                             *)
  MaxFaults     (* bound: failures of file operations and of the process    *)

ASSUME LifecycleAssumption ==
  /\ None \notin Ext \cup Hash \cup Worker
  /\ Kinds \subseteq {"init", "install", "enable", "disable", "uninstall"}
  /\ MaxRequests \in Nat /\ MaxTurns \in Nat /\ MaxFaults \in Nat

VARIABLES
  staging,      (* what the author has put in extension-staging/<id>        *)
  installed,    (* extensions/<id>/<hash> directories                       *)
  trash,        (* how many leftovers of each id extensions/.trash holds    *)
  catalogue,    (* the entry of each id                                     *)
  onFile,       (* catalog.json exists                                      *)
  host, tools,  (* the runtime's host and the registry's owner of each id   *)
  worker,       (* hosts that are open                                      *)
  allowed,      (* runtimeAllowed                                           *)
  loading,      (* ids whose worker is being opened                         *)
  queue, op,    (* operations waiting, and the one at work                  *)
  sys,          (* prepareForTurn and close                                 *)
  turn,         (* "none", "restricted" or "full"                           *)
  damaged,      (* history: a crash, or an undo that failed silently        *)
  requests, turns, failures

disk    == <<installed, trash, catalogue, onFile>>
runtime == <<host, tools, worker>>
bounds  == <<requests, turns, failures>>
vars == <<staging, installed, trash, catalogue, onFile, host, tools, worker, allowed,
          loading, queue, op, sys, turn, damaged, requests, turns, failures>>

Entry == [state: {"enabled", "disabled", "quarantined"}, hash: Hash, pending: BOOLEAN]
OpKind == {"init", "install", "enable", "disable", "uninstall", "quarantine", "list"}
Place == {"start", "materialize", "probe", "abandon", "unload", "open", "opening", "commit",
          "discard", "restore", "restoring", "settle", "list", "sweep", "quarantine"}
Leftovers == [staging: BOOLEAN, content: SUBSET SUBSET Hash, trash: 0..MaxFaults]
Op == [kind: OpKind, ext: Ext \cup {None}, activation: BOOLEAN, pc: Place,
       hash: Hash \cup {None}, created: BOOLEAN, old: Entry \cup {None},
       sweep: Leftovers, complete: BOOLEAN]

\* What may be absent is never mistaken for None.
ASSUME NoneAssumption ==
  None \notin Entry \cup Op \cup [ext: Ext, hash: Hash, busy: BOOLEAN]

Clean == [staging |-> FALSE, content |-> {}, trash |-> 0]
Contents(e) == {h \in Hash : <<e, h>> \in installed}
NewOp(kind, e, activation) ==
  [kind |-> kind, ext |-> e, activation |-> activation, pc |-> "start", hash |-> None,
   created |-> FALSE, old |-> None, sweep |-> Clean, complete |-> TRUE]

Init ==
  /\ staging \in [Ext -> Hash \cup {None}]
  /\ installed = {} /\ trash = [e \in Ext |-> 0]
  /\ catalogue = [e \in Ext |-> None] /\ onFile = FALSE
  /\ host = [e \in Ext |-> None] /\ tools = [e \in Ext |-> None]
  /\ worker = [w \in Worker |-> None]
  /\ allowed = FALSE /\ loading = {}
  /\ queue = <<>> /\ op = None
  /\ sys = [pc |-> "idle", todo |-> {}]
  /\ turn = "none" /\ damaged = FALSE
  /\ requests = 0 /\ turns = 0 /\ failures = 0

-----------------------------------------------------------------------------
(* The store *)

\* verifyCatalog(): every entry has its content and its tool names to itself.
Verified(c) ==
  \A e \in Ext : c[e] # None =>
    /\ <<e, c[e].hash>> \in installed
    /\ \A f \in Ext \ {e} : c[f] # None =>
         Tools[e][c[e].hash] \cap Tools[f][c[f].hash] = {}

\* readCatalog(): without a catalogue, any content is an uncertain recovery.
Readable == (onFile \/ installed = {}) /\ Verified(catalogue)

\* assertToolNamesAvailable().
NamesAvailable(e, h) ==
  \A f \in Ext \ {e} : catalogue[f] # None =>
    Tools[e][h] \cap Tools[f][catalogue[f].hash] = {}

Replaced(e, entry) == [catalogue EXCEPT ![e] = entry]

\* replaceCatalog(): both catalogues are verified, the write is atomic.
Write(c) ==
  /\ Verified(catalogue) /\ Verified(c)
  /\ catalogue' = c /\ onFile' = TRUE
  /\ UNCHANGED failures
WriteFails(c) ==
  /\ UNCHANGED <<catalogue, onFile>>
  /\ \/ ~(Verified(catalogue) /\ Verified(c)) /\ UNCHANGED failures
     \/ failures < MaxFaults /\ failures' = failures + 1

-----------------------------------------------------------------------------
(* The runtime manager and the registry *)

IsLoaded(e) == host[e] # None
Busy(e) == IsLoaded(e) /\ worker[host[e]].busy
Live == {w \in Worker : worker[w] # None}

\* registerExtension() and hosts.set() in one turn of the event loop.
Register(e, w, h) ==
  /\ worker' = [worker EXCEPT ![w] = [ext |-> e, hash |-> h, busy |-> FALSE]]
  /\ host' = [host EXCEPT ![e] = w]
  /\ tools' = [tools EXCEPT ![e] = w]

ToolsInUse(e) ==
  UNION {Tools[f][worker[tools[f]].hash] : f \in {g \in Ext \ {e} : tools[g] # None}}

\* unload(): the tools go first; the host is idle, so its shutdown succeeds.
Unload(e) ==
  IF IsLoaded(e)
  THEN /\ worker' = [worker EXCEPT ![host[e]] = None]
       /\ host' = [host EXCEPT ![e] = None]
       /\ tools' = [tools EXCEPT ![e] = None]
  ELSE UNCHANGED runtime

\* Mutant: what fails to commit stays loaded.
TryUnloadNothing(e) == UNCHANGED runtime

\* unload(...).catch(): a busy extension stays loaded.
TryUnload(e) == IF Busy(e) THEN UNCHANGED runtime ELSE Unload(e)

\* shutdownAll(): every host is forgotten; a busy one refuses to shut down.
BusyHosts == {w \in Live : worker[w].busy /\ \E e \in Ext : host[e] = w}
ShutdownAll ==
  /\ host' = [e \in Ext |-> None]
  /\ tools' = [e \in Ext |-> None]
  /\ worker' = [w \in Worker |->
                  IF w \notin BusyHosts /\ \E e \in Ext : host[e] = w THEN None ELSE worker[w]]

\* Mutant: a faulted worker keeps its tools in the registry.
WorkerFaultKeepsTools(w) ==
  /\ w \in Live
  /\ LET e == worker[w].ext IN
       /\ host' = IF host[e] = w THEN [host EXCEPT ![e] = None] ELSE host
       /\ queue' = IF e \in loading THEN queue ELSE Append(queue, NewOp("quarantine", e, FALSE))
  /\ worker' = [worker EXCEPT ![w] = None]
  /\ UNCHANGED <<staging, disk, tools, allowed, loading, op, sys, turn, damaged, bounds>>

\* handleFault() and workerFault(): a fault of a host that was replaced, or of
\* one being opened, is nobody's business; another is queued as a quarantine.
WorkerFault(w) ==
  /\ w \in Live
  /\ LET e == worker[w].ext IN
       IF host[e] \in {w, None}
       THEN /\ host' = [host EXCEPT ![e] = None]
            /\ tools' = [tools EXCEPT ![e] = None]
            /\ queue' = IF e \in loading THEN queue
                        ELSE Append(queue, NewOp("quarantine", e, FALSE))
       ELSE UNCHANGED <<host, tools, queue>>
  /\ worker' = [worker EXCEPT ![w] = None]
  /\ UNCHANGED <<staging, disk, allowed, loading, op, sys, turn, damaged, bounds>>

\* A turn in full access calls a registered tool; the call may be answered
\* before the worker is done with it, so the turn may end first.
CallBegins(e) ==
  /\ turn = "full" /\ tools[e] # None /\ ~worker[tools[e]].busy
  /\ worker' = [worker EXCEPT ![tools[e]].busy = TRUE]
  /\ UNCHANGED <<staging, disk, host, tools, allowed, loading, queue, op, sys, turn, damaged, bounds>>

CallEnds(w) ==
  /\ w \in Live /\ worker[w].busy
  /\ worker' = [worker EXCEPT ![w].busy = FALSE]
  /\ UNCHANGED <<staging, disk, host, tools, allowed, loading, queue, op, sys, turn, damaged, bounds>>

-----------------------------------------------------------------------------
(* Turns *)

Enqueue(kind, e, activation) == queue' = Append(queue, NewOp(kind, e, activation))

PrepareRestricted ==
  /\ turn = "none" /\ sys.pc = "idle" /\ turns < MaxTurns
  /\ turns' = turns + 1
  /\ allowed' = FALSE
  /\ ShutdownAll
  /\ sys' = [sys EXCEPT !.pc = IF BusyHosts = {} THEN "restricted" ELSE "idle"]
  /\ UNCHANGED <<staging, disk, loading, queue, op, turn, damaged, requests, failures>>

PrepareFull ==
  /\ turn = "none" /\ sys.pc = "idle" /\ turns < MaxTurns
  /\ turns' = turns + 1
  /\ allowed' = TRUE
  /\ Enqueue("list", None, TRUE)
  /\ sys' = [sys EXCEPT !.pc = "waiting"]
  /\ UNCHANGED <<staging, disk, runtime, loading, op, turn, damaged, requests, failures>>

ActivateNext ==
  /\ sys.pc = "activating"
  /\ \E e \in sys.todo :
       /\ Enqueue("enable", e, TRUE)
       /\ sys' = [pc |-> "waiting", todo |-> sys.todo \ {e}]
  /\ UNCHANGED <<staging, disk, runtime, allowed, loading, op, turn, damaged, bounds>>

TurnStarts ==
  /\ \/ sys.pc = "restricted" /\ turn' = "restricted"
     \/ sys.pc = "activating" /\ sys.todo = {} /\ turn' = "full"
  /\ sys' = [sys EXCEPT !.pc = "idle"]
  /\ UNCHANGED <<staging, disk, runtime, allowed, loading, queue, op, damaged, bounds>>

TurnEnds ==
  /\ turn # "none"
  /\ turn' = "none"
  /\ UNCHANGED <<staging, disk, runtime, allowed, loading, queue, op, sys, damaged, bounds>>

\* activateEnabled() failed: prepareForTurn takes everything back.
Rollback ==
  /\ sys.pc = "rollback"
  /\ allowed' = FALSE
  /\ ShutdownAll
  /\ sys' = [pc |-> "idle", todo |-> {}]
  /\ UNCHANGED <<staging, disk, loading, queue, op, turn, damaged, bounds>>

\* close(): no turn is prepared any more.
Close ==
  /\ sys.pc = "idle" /\ turn = "none"
  /\ allowed' = FALSE
  /\ ShutdownAll
  /\ sys' = [pc |-> "closed", todo |-> {}]
  /\ UNCHANGED <<staging, disk, loading, queue, op, turn, damaged, bounds>>

-----------------------------------------------------------------------------
(* Operations: exclusive() *)

\* From the settings page at any time; init and install are tools of full access.
Request(kind, e) ==
  /\ kind \in Kinds /\ requests < MaxRequests
  /\ kind \in {"init", "install"} => turn = "full"
  /\ requests' = requests + 1
  /\ Enqueue(kind, e, FALSE)
  /\ UNCHANGED <<staging, disk, runtime, allowed, loading, op, sys, turn, damaged, turns, failures>>

EditStaging(e) ==
  /\ turn = "full" /\ staging[e] # None
  /\ \E h \in Hash : staging' = [staging EXCEPT ![e] = h]
  /\ UNCHANGED <<disk, runtime, allowed, loading, queue, op, sys, turn, damaged, bounds>>

Begin ==
  /\ op = None /\ queue # <<>>
  /\ op' = Head(queue) /\ queue' = Tail(queue)
  /\ UNCHANGED <<staging, disk, runtime, allowed, loading, sys, turn, damaged, bounds>>

At(pc) == op # None /\ op.pc = pc
GoTo(pc) == op' = [op EXCEPT !.pc = pc] /\ UNCHANGED sys

\* Mutant: an operation that fails does not let the next one in.
FinishHeld(result) ==
  /\ op' = IF result = "error" THEN op ELSE None
  /\ sys' = IF ~op.activation THEN sys
            ELSE [pc |-> "activating",
                  todo |-> IF op.kind # "list" THEN sys.todo
                           ELSE {e \in Ext : /\ catalogue[e] # None
                                             /\ catalogue[e].state = "enabled"
                                             /\ ~IsLoaded(e)}]

\* The operation ends; an activation waits for its result and gives up on any
\* failure but that of the extension itself.
Finish(result) ==
  /\ op' = None
  /\ sys' = IF ~op.activation THEN sys
            ELSE IF op.kind = "list" /\ result = "done"
            THEN [pc |-> "activating",
                  todo |-> {e \in Ext : /\ catalogue[e] # None
                                        /\ catalogue[e].state = "enabled"
                                        /\ ~IsLoaded(e)}]
            ELSE [sys EXCEPT !.pc = IF result = "error" THEN "rollback" ELSE "activating"]

Stay == UNCHANGED <<staging, allowed, queue, turn, damaged, requests, turns>>

Unchanged ==
  CASE op.kind = "install" ->
         /\ catalogue[op.ext] # None /\ catalogue[op.ext].hash = staging[op.ext]
         /\ catalogue[op.ext].state = "enabled" /\ ~catalogue[op.ext].pending
         /\ IsLoaded(op.ext) \/ ~allowed
    [] op.kind = "enable" ->
         catalogue[op.ext].state = "enabled" /\ (IsLoaded(op.ext) \/ ~allowed)
    [] op.kind = "disable" ->
         catalogue[op.ext].state = "disabled" /\ ~IsLoaded(op.ext)
    [] OTHER -> FALSE

Possible ==
  /\ Readable
  /\ op.kind \in {"enable", "disable"} => catalogue[op.ext] # None
  /\ op.kind = "install" => staging[op.ext] # None /\ NamesAvailable(op.ext, staging[op.ext])

\* Reads and checks up to the first change; the checks of an install run code
\* of the extension, so they may fail whatever it holds.
Start ==
  /\ At("start") /\ op.kind \in {"install", "enable", "disable", "uninstall"}
  /\ \/ ~Possible /\ Finish("error")
     \/ Possible /\ op.kind = "install" /\ Finish("error")
     \/ Possible /\ Unchanged /\ Finish("done")
     \/ Possible /\ ~Unchanged /\ Busy(op.ext) /\ Finish("error")
     \/ /\ Possible /\ ~Unchanged /\ ~Busy(op.ext)
        /\ op' = [op EXCEPT !.old = catalogue[op.ext],
                            !.hash = IF op.kind = "install" THEN staging[op.ext]
                                     ELSE IF catalogue[op.ext] = None THEN None
                                     ELSE catalogue[op.ext].hash,
                            !.pc = IF op.kind = "install" THEN "materialize" ELSE "unload"]
        /\ UNCHANGED sys
  /\ UNCHANGED <<disk, runtime, loading, failures>> /\ Stay

StartList ==
  /\ At("start") /\ op.kind = "list"
  /\ Finish(IF Readable THEN "done" ELSE "error")
  /\ UNCHANGED <<disk, runtime, loading, failures>> /\ Stay

\* init(): writes the template unless the author has something there.
InitStaging ==
  /\ At("start") /\ op.kind = "init"
  /\ \/ Finish("error") /\ UNCHANGED staging
     \/ /\ Readable /\ staging[op.ext] = None
        /\ \E h \in Hash : NamesAvailable(op.ext, h) /\ staging' = [staging EXCEPT ![op.ext] = h]
        /\ Finish("done")
  /\ UNCHANGED <<disk, runtime, loading, allowed, queue, turn, damaged, bounds>>

\* materializeInstalled(): existing content is reused, else a copy is renamed
\* into place once its hash is the one that was checked.
Materialize ==
  /\ At("materialize")
  /\ LET target == <<op.ext, op.hash>> IN
       \/ /\ target \in installed \/ staging[op.ext] = op.hash
          /\ installed' = installed \cup {target}
          /\ op' = [op EXCEPT !.created = target \notin installed, !.pc = "probe"]
          /\ UNCHANGED sys
       \/ /\ target \notin installed /\ staging[op.ext] # op.hash
          /\ Finish("error")
          /\ UNCHANGED installed
  /\ UNCHANGED <<trash, catalogue, onFile, runtime, loading, failures>> /\ Stay

\* Mutant: a failed handshake leaves the new content behind.
ProbeKeepsContent ==
  /\ At("probe")
  /\ \/ GoTo(IF op.kind = "install" THEN "unload" ELSE "open")
     \/ IF op.kind = "install" THEN Finish("error") ELSE GoTo("quarantine")
  /\ UNCHANGED <<disk, runtime, loading, failures>> /\ Stay

Probe ==
  /\ At("probe")
  /\ \/ GoTo(IF op.kind = "install" THEN "unload" ELSE "open")
     \/ GoTo(IF op.kind = "install" THEN "abandon" ELSE "quarantine")
  /\ UNCHANGED <<disk, runtime, loading, failures>> /\ Stay

\* Mutant: content that was there before is removed as well.
DiscardAnything ==
  /\ At("abandon") \/ At("discard")
  /\ installed' = installed \ {<<op.ext, op.hash>>}
  /\ IF op.pc = "abandon" THEN Finish("error") ELSE GoTo("restore")
  /\ UNCHANGED <<staging, trash, catalogue, onFile, runtime, allowed, loading, queue, turn,
                 damaged, bounds>>

\* discardMaterialized(): removes what this operation created; the removal may
\* fail silently.  After a failed load or commit the old version is restored.
Discard ==
  /\ At("abandon") \/ At("discard")
  /\ \/ /\ installed' = IF op.created THEN installed \ {<<op.ext, op.hash>>} ELSE installed
        /\ UNCHANGED <<damaged, failures>>
     \/ /\ op.created /\ failures < MaxFaults
        /\ failures' = failures + 1 /\ damaged' = TRUE
        /\ UNCHANGED installed
  /\ IF op.pc = "abandon" THEN Finish("error") ELSE GoTo("restore")
  /\ UNCHANGED <<staging, trash, catalogue, onFile, runtime, allowed, loading, queue, turn,
                 requests, turns>>

AfterUnload == [install |-> "open", enable |-> "probe", disable |-> "commit", uninstall |-> "commit"]

\* The call count was looked at before the last await: a call may have begun.
UnloadOld ==
  /\ At("unload")
  /\ \/ Busy(op.ext) /\ Finish("error") /\ UNCHANGED runtime
     \/ ~Busy(op.ext) /\ Unload(op.ext) /\ GoTo(AfterUnload[op.kind])
  /\ UNCHANGED <<disk, loading, failures>> /\ Stay

\* loadRuntime(), first half: runtimeAllowed() is asked before the worker opens.
Open ==
  /\ At("open")
  /\ IF allowed THEN loading' = loading \cup {op.ext} /\ GoTo("opening")
     ELSE UNCHANGED loading /\ GoTo("commit")
  /\ UNCHANGED <<disk, runtime, failures>> /\ Stay

\* ... second half: the host is registered, whatever was allowed meanwhile.
Opened ==
  /\ At("opening")
  /\ loading' = loading \ {op.ext}
  /\ \/ /\ ToolsInUse(op.ext) \cap Tools[op.ext][op.hash] = {}
        /\ \E w \in Worker \ Live : Register(op.ext, w, op.hash)
        /\ GoTo("commit")
     \/ /\ UNCHANGED runtime
        /\ GoTo(IF op.kind = "install" THEN "discard" ELSE "quarantine")
  /\ UNCHANGED <<disk, failures>> /\ Stay

\* The entry each operation commits.  Only disable carries a pending clean-up over.
CleanupNeeded == op.old # None /\ (op.old.hash # op.hash \/ op.old.pending)
NewEntry ==
  CASE op.kind = "install" -> [state |-> "enabled", hash |-> op.hash, pending |-> CleanupNeeded]
    [] op.kind = "enable"  -> [state |-> "enabled", hash |-> op.hash, pending |-> FALSE]
    [] op.kind = "disable" -> [state |-> "disabled", hash |-> op.hash, pending |-> op.old.pending]
    [] OTHER -> None

AfterCommit == [install |-> "settle", enable |-> "end", disable |-> "end", uninstall |-> "list"]

\* Uninstalling what the catalogue does not know writes nothing.
Commit ==
  /\ At("commit")
  /\ IF op.kind = "uninstall" /\ op.old = None
     THEN UNCHANGED <<catalogue, onFile, failures>>
     ELSE Write(Replaced(op.ext, NewEntry))
  /\ IF AfterCommit[op.kind] = "end" THEN Finish("done") ELSE GoTo(AfterCommit[op.kind])
  /\ UNCHANGED <<staging, installed, trash, runtime, allowed, loading, queue, turn, damaged,
                 requests, turns>>

\* A failed commit: install takes its worker and content back and restores the
\* old version, enable takes its worker back, disable restores.
AfterFailure == [install |-> "discard", disable |-> "restore", enable |-> "end", uninstall |-> "end"]
CommitFails ==
  /\ At("commit") /\ ~(op.kind = "uninstall" /\ op.old = None)
  /\ WriteFails(Replaced(op.ext, NewEntry))
  /\ IF op.kind \in {"install", "enable"}
     THEN TryUnload(op.ext) /\ damaged' = (damaged \/ Busy(op.ext))
     ELSE UNCHANGED <<runtime, damaged>>
  /\ IF AfterFailure[op.kind] = "end" THEN Finish("error") ELSE GoTo(AfterFailure[op.kind])
  /\ UNCHANGED <<staging, installed, trash, allowed, loading, queue, turn, requests, turns>>

\* restoreRuntime(): the version that was enabled before is loaded again.
Restore ==
  /\ At("restore")
  /\ IF /\ allowed /\ op.old # None /\ op.old.state = "enabled" /\ ~IsLoaded(op.ext)
        /\ <<op.ext, op.old.hash>> \in installed
     THEN GoTo("restoring") /\ loading' = loading \cup {op.ext}
     ELSE Finish("error") /\ UNCHANGED loading
  /\ UNCHANGED <<disk, runtime, failures>> /\ Stay

Restored ==
  /\ At("restoring")
  /\ loading' = loading \ {op.ext}
  /\ \/ /\ ToolsInUse(op.ext) \cap Tools[op.ext][op.old.hash] = {}
        /\ \E w \in Worker \ Live : Register(op.ext, w, op.old.hash)
     \/ UNCHANGED runtime
  /\ Finish("error")
  /\ UNCHANGED <<disk, failures>> /\ Stay

\* The worker may have closed during the commit; superseded content is swept.
Settle ==
  /\ At("settle")
  /\ IF allowed /\ ~IsLoaded(op.ext) THEN GoTo("quarantine")
     ELSE IF ~CleanupNeeded THEN Finish("done")
     ELSE /\ op' = [op EXCEPT !.pc = "sweep",
                              !.sweep = [staging |-> FALSE,
                                         content |-> {{h} : h \in Contents(op.ext) \ {op.hash}},
                                         trash |-> trash[op.ext]]]
          /\ UNCHANGED sys
  /\ UNCHANGED <<disk, runtime, loading, failures>> /\ Stay

\* cleanupExtensionArtifacts(): staging, all content at once, and trash.
ListLeftovers ==
  /\ At("list")
  /\ op' = [op EXCEPT !.pc = "sweep",
                      !.sweep = [staging |-> staging[op.ext] # None,
                                 content |-> {Contents(op.ext)} \ {{}},
                                 trash |-> trash[op.ext]]]
  /\ UNCHANGED <<disk, runtime, loading, sys, failures>> /\ Stay

\* A candidate is moved to the trash and removed there; either may fail, which
\* leaves it where it was or in the trash, and the sweep goes on.
Swept(left, moved, unmoved) ==
  \/ /\ op' = [op EXCEPT !.sweep = left]
     /\ moved /\ UNCHANGED <<trash, failures>>
  \/ /\ failures < MaxFaults /\ failures' = failures + 1
     /\ op' = [op EXCEPT !.sweep = left, !.complete = FALSE]
     /\ \/ moved /\ trash' = [trash EXCEPT ![op.ext] = @ + 1]
        \/ unmoved /\ UNCHANGED trash

SweepStaging ==
  /\ op.sweep.staging
  /\ Swept([op.sweep EXCEPT !.staging = FALSE],
           staging' = [staging EXCEPT ![op.ext] = None], UNCHANGED staging)
  /\ UNCHANGED installed

SweepContent ==
  /\ ~op.sweep.staging
  /\ \E hs \in op.sweep.content :
       Swept([op.sweep EXCEPT !.content = @ \ {hs}],
             installed' = installed \ ({op.ext} \X hs), UNCHANGED installed)
  /\ UNCHANGED staging

\* What is in the trash already is only removed.
SweepTrash ==
  /\ ~op.sweep.staging /\ op.sweep.content = {} /\ op.sweep.trash > 0
  /\ \/ /\ trash' = [trash EXCEPT ![op.ext] = @ - 1]
        /\ op' = [op EXCEPT !.sweep.trash = @ - 1]
        /\ UNCHANGED failures
     \/ /\ failures < MaxFaults /\ failures' = failures + 1
        /\ op' = [op EXCEPT !.sweep.trash = @ - 1, !.complete = FALSE]
        /\ UNCHANGED trash
  /\ UNCHANGED <<staging, installed>>

Sweep ==
  /\ At("sweep")
  /\ SweepStaging \/ SweepContent \/ SweepTrash
  /\ UNCHANGED <<catalogue, onFile, runtime, allowed, loading, queue, sys, turn, damaged,
                 requests, turns>>

\* The second write of an install clears the flag only after a complete sweep;
\* its failure is swallowed.
EndSweep ==
  /\ At("sweep") /\ op.sweep = Clean
  /\ IF op.kind = "install" /\ op.complete
     THEN LET c == Replaced(op.ext, [NewEntry EXCEPT !.pending = FALSE]) IN
          Write(c) \/ WriteFails(c)
     ELSE UNCHANGED <<catalogue, onFile, failures>>
  /\ Finish("done")
  /\ UNCHANGED <<staging, installed, trash, runtime, allowed, loading, queue, turn, damaged,
                 requests, turns>>

\* persistQuarantine(): of whatever entry the id has by now.
Quarantine ==
  /\ At("quarantine") \/ (At("start") /\ op.kind = "quarantine")
  /\ \/ /\ ~Readable \/ catalogue[op.ext] = None
        /\ UNCHANGED <<catalogue, onFile, failures>>
     \/ /\ Readable /\ catalogue[op.ext] # None
        /\ LET c == Replaced(op.ext, [catalogue[op.ext] EXCEPT !.state = "quarantined",
                                                               !.pending = FALSE])
           IN Write(c) \/ WriteFails(c)
  /\ Finish("failed")
  /\ UNCHANGED <<staging, installed, trash, runtime, allowed, loading, queue, turn, damaged,
                 requests, turns>>

-----------------------------------------------------------------------------
\* The process dies and starts again: the disk is all that is left.
Crash ==
  /\ failures < MaxFaults /\ failures' = failures + 1 /\ damaged' = TRUE
  /\ host' = [e \in Ext |-> None] /\ tools' = [e \in Ext |-> None]
  /\ worker' = [w \in Worker |-> None]
  /\ allowed' = FALSE /\ loading' = {} /\ queue' = <<>> /\ op' = None
  /\ sys' = [pc |-> "idle", todo |-> {}] /\ turn' = "none"
  /\ UNCHANGED <<staging, disk, requests, turns>>

Work ==
  \/ Begin \/ Start \/ StartList \/ InitStaging \/ Materialize \/ Probe \/ Discard
  \/ UnloadOld \/ Open \/ Opened \/ Commit \/ CommitFails \/ Restore \/ Restored
  \/ Settle \/ ListLeftovers \/ Sweep \/ EndSweep \/ Quarantine

Prepare == ActivateNext \/ TurnStarts \/ Rollback

Next ==
  \/ Work \/ Prepare \/ PrepareRestricted \/ PrepareFull \/ TurnEnds \/ Close \/ Crash
  \/ \E e \in Ext : CallBegins(e) \/ EditStaging(e) \/ \E kind \in Kinds : Request(kind, e)
  \/ \E w \in Worker : WorkerFault(w) \/ CallEnds(w)

Spec == Init /\ [][Next]_vars

\* Every await of an operation returns, and prepareForTurn goes on when it can.
FairSpec == Spec /\ WF_vars(Work) /\ WF_vars(Prepare)

-----------------------------------------------------------------------------
(* Properties *)

TypeOK ==
  /\ staging \in [Ext -> Hash \cup {None}]
  /\ installed \subseteq Ext \X Hash /\ trash \in [Ext -> 0..MaxFaults]
  /\ catalogue \in [Ext -> Entry \cup {None}] /\ onFile \in BOOLEAN
  /\ host \in [Ext -> Worker \cup {None}] /\ tools \in [Ext -> Worker \cup {None}]
  /\ worker \in [Worker -> [ext: Ext, hash: Hash, busy: BOOLEAN] \cup {None}]
  /\ allowed \in BOOLEAN /\ loading \subseteq Ext
  /\ queue \in Seq(Op) /\ op \in Op \cup {None}
  /\ sys \in [pc: {"idle", "waiting", "activating", "restricted", "rollback", "closed"},
             todo: SUBSET Ext]
  /\ turn \in {"none", "restricted", "full"} /\ damaged \in BOOLEAN

\* Every entry of the catalogue has its content on disk, whatever operation is
\* half done, fails or dies: no order of steps removes content that is listed
\* or lists content that is not there.
CatalogIsBacked == \A e \in Ext : catalogue[e] # None => <<e, catalogue[e].hash>> \in installed

\* What the model may call is served: the tools of an extension belong to the
\* host the runtime holds for it, which is open, and no two extensions offer
\* the same tool.
ToolsServed ==
  \A e \in Ext :
    /\ tools[e] = host[e]
    /\ tools[e] # None =>
         /\ tools[e] \in Live /\ worker[tools[e]].ext = e
         /\ Tools[e][worker[tools[e]].hash] \cap ToolsInUse(e) = {}

\* Between operations an extension that is loaded is the one the catalogue
\* holds, at that content, and not one the user disabled or uninstalled.
LoadedIsOnFile ==
  op = None /\ ~damaged =>
    \A e \in Ext : tools[e] # None =>
      /\ catalogue[e] # None /\ catalogue[e].state # "disabled"
      /\ catalogue[e].hash = worker[tools[e]].hash

\* Failures alone never leave the storage in the state readCatalog() refuses
\* to recover from: only a crash, or an undo that fails as well, can.
StorageStaysReadable == op = None /\ ~damaged => Readable

\* The disk, the catalogue and the runtime tell the same story: what the
\* catalogue names is on disk, what runs is what it names, and it can be read.
StorageAgrees == CatalogIsBacked /\ LoadedIsOnFile /\ StorageStaysReadable

\* Operations always drain and a turn that waits for its extensions gets an
\* answer, whatever fails or faults meanwhile.
OperationsEnd == <>[](op = None /\ queue = <<>> /\ sys.pc \in {"idle", "closed"})
=============================================================================
