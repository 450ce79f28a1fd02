-------------------------- MODULE ExtensionProofs --------------------------
(***************************************************************************)
(* Theorems about an extension's worker (ExtensionWorker), for any calls,  *)
(* whatever the handlers send and whenever the timers fire, and about the  *)
(* life of extensions (ExtensionLifecycle), for every set of extensions,   *)
(* versions and workers and any number of requests, turns and failures.    *)
(*                                                                         *)
(*   WorkerInv          who waits for an answer of a worker                *)
(*   ThreadInv          what is under way to and from a worker             *)
(*   TypeInv, RunType   types, what an operation holds at each place, and  *)
(*                      that a registered host is an open worker           *)
(*   NamesInv           what the registry offers                           *)
(*   StoreInv           the catalogue, the content and the entry that the  *)
(*                      operation at work found                            *)
(*   EmptyInv           content before there is a catalogue                *)
(*   LoadedInv          what is loaded against what is listed              *)
(***************************************************************************)
EXTENDS ExtensionLifecycle, ExtensionWorker, SequenceTheorems, TLAPS

-----------------------------------------------------------------------------
(* The worker: its host keeps WorkerContract.                              *)

Owed == {c \in Call : pending[c] = "waiting"}

(* A caller waits exactly as long as it has no answer; a closed host holds *)
(* no call, and only a closed one has told of a fault.                     *)
WorkerInv ==
  /\ pending \in [Call -> {"none", "waiting", "early"}]
  /\ answer \in [Call -> Outcomes \cup {"none"}]
  /\ closed \in BOOLEAN /\ faults \in 0 .. 1 /\ (~closed => faults = 0)
  /\ \A c \in Call : pending[c] = "waiting" => answer[c] = "none"
  /\ \A c \in Call : pending[c] = "early" => answer[c] # "none"
  /\ closed => \A c \in Call : pending[c] = "none"

(* What a step of the host may do to its calls: nothing, or one of the     *)
(* contract's actions.                                                     *)
Quiet == UNCHANGED <<pending, answer, closed, faults>>

Asked(c) ==
  /\ pending[c] = "none" /\ answer[c] = "none" /\ ~closed
  /\ pending' = [pending EXCEPT ![c] = "waiting"]
  /\ UNCHANGED <<answer, closed, faults>>

Refused(c) ==
  /\ pending[c] = "none" /\ answer[c] = "none"
  /\ \E o \in Outcomes : answer' = [answer EXCEPT ![c] = o]
  /\ UNCHANGED <<pending, closed, faults>>

Answered(c) ==
  /\ pending[c] = "waiting"
  /\ \E p \in {"none", "early"} : pending' = [pending EXCEPT ![c] = p]
  /\ \E o \in Outcomes : answer' = [answer EXCEPT ![c] = o]
  /\ UNCHANGED <<closed, faults>>

Released(c) ==
  /\ pending[c] = "early"
  /\ pending' = [pending EXCEPT ![c] = "none"]
  /\ UNCHANGED <<answer, closed, faults>>

Failed ==
  /\ ~closed /\ closed' = TRUE
  /\ faults' = faults + 1
  /\ answer' = [c \in Call |-> IF pending[c] = "waiting" THEN "fault" ELSE answer[c]]
  /\ pending' = [c \in Call |-> "none"]

Stopped ==
  /\ ~closed /\ ActiveCalls = {} /\ closed' = TRUE
  /\ UNCHANGED <<pending, answer, faults>>

HostStep ==
  \/ Quiet \/ Failed \/ Stopped
  \/ \E c \in Call : Asked(c) \/ Refused(c) \/ Answered(c) \/ Released(c)

LEMMA FaultStep == ASSUME Fault PROVE Quiet \/ Failed
BY DEF Fault, Quiet, Failed

LEMMA SettleStep ==
  ASSUME NEW c \in Call, pending[c] = "waiting", NEW o \in Outcomes, SettleCall(c, o)
  PROVE  Answered(c)
BY DEF SettleCall, Answered

LEMMA CallAnswerStep ==
  ASSUME NEW m, NEW c \in Call, WorkerInv, c \in ActiveCalls, CallAnswer(m, c)
  PROVE  HostStep
<1>0. pending[c] \in {"waiting", "early"}
  BY DEF WorkerInv, ActiveCalls
<1>1. CASE pending[c] = "early"
  <2>1. Released(c)
    BY <1>1 DEF CallAnswer, Forget, Released
  <2> QED BY <2>1 DEF HostStep
<1>2. CASE pending[c] = "waiting"
  <2>1. \/ SettleCall(c, "handler_failed")
        \/ SettleCall(c, OutcomeOf(m.body))
        \/ Fault
    BY <1>2 DEF CallAnswer
  <2>2. "handler_failed" \in Outcomes /\ OutcomeOf(m.body) \in Outcomes
    BY DEF Outcomes, OutcomeOf
  <2>3. Answered(c) \/ Fault
    BY <1>2, <2>1, <2>2, SettleStep
  <2> QED BY <2>3, FaultStep DEF HostStep
<1> QED BY <1>0, <1>1, <1>2

LEMMA NextIsHostStep ==
  ASSUME WorkerInv, [WorkerNext]_workerVars
  PROVE  HostStep
<1>1. CASE UNCHANGED workerVars
  BY <1>1 DEF workerVars, HostStep, Quiet
<1>2. CASE Receive
  <2> DEFINE m == Head(fromWorker)
  <2>1. \/ Fault
        \/ InitializeAnswer(m)
        \/ m.id \in ActiveCalls /\ CallAnswer(m, m.id)
    BY <1>2 DEF Receive
  <2>2. CASE Fault
    BY <2>2, FaultStep DEF HostStep
  <2>3. CASE InitializeAnswer(m)
    <3>1. Quiet \/ Fault
      BY <2>3 DEF InitializeAnswer, Quiet
    <3> QED BY <3>1, FaultStep DEF HostStep
  <2>4. CASE m.id \in ActiveCalls /\ CallAnswer(m, m.id)
    BY <2>4, CallAnswerStep DEF ActiveCalls
  <2> QED BY <2>1, <2>2, <2>3, <2>4
<1>3. CASE InitializeTimer \/ \E c \in Call : GraceTimer(c)
  <2>1. Fault
    BY <1>3 DEF InitializeTimer, GraceTimer
  <2> QED BY <2>1, FaultStep DEF HostStep
<1>4. CASE Shutdown
  BY <1>4 DEF Shutdown, Stopped, HostStep
<1>5. CASE ShutdownTimer \/ Handle \/ Exit
  BY <1>5 DEF ShutdownTimer, Handle, Exit, hostVars, HostStep, Quiet
<1>6. CASE \E id : Stray(id)
  BY <1>6 DEF Stray, hostVars, HostStep, Quiet
<1>7. ASSUME NEW c \in Call, Execute(c)
      PROVE  HostStep
  <2>1. Asked(c) \/ Refused(c)
    BY <1>7 DEF Execute, Asked, Refused, Outcomes
  <2> QED BY <2>1 DEF HostStep
<1>8. ASSUME NEW c \in Call, Abort(c) \/ CallTimer(c)
      PROVE  HostStep
  <2>1. Answered(c)
    BY <1>8 DEF Abort, CallTimer, CancelCall, Answered, Outcomes
  <2> QED BY <2>1 DEF HostStep
<1>9. ASSUME NEW c \in Call, HandlerReturns(c)
      PROVE  HostStep
  BY <1>9 DEF HandlerReturns, hostVars, HostStep, Quiet
<1> QED BY <1>1, <1>2, <1>3, <1>4, <1>5, <1>6, <1>7, <1>8, <1>9 DEF WorkerNext

LEMMA WorkerInvInit == WorkerInit => WorkerInv
<1> SUFFICES ASSUME WorkerInit PROVE WorkerInv
  OBVIOUS
<1>1. /\ pending = [c \in Call |-> "none"] /\ answer = [c \in Call |-> "none"]
      /\ closed = FALSE /\ faults = 0
  BY DEF WorkerInit
<1>2. \A c \in Call : pending[c] = "none" /\ answer[c] = "none"
  BY <1>1
<1>3. faults \in 0 .. 1
  BY <1>1
<1>4. pending \in [Call -> {"none", "waiting", "early"}] /\ answer \in [Call -> Outcomes \cup {"none"}]
  BY <1>1
<1> QED BY <1>1, <1>2, <1>3, <1>4 DEF WorkerInv

LEMMA WorkerInvStep ==
  ASSUME WorkerInv, [WorkerNext]_workerVars
  PROVE  WorkerInv'
<1>0. HostStep
  BY NextIsHostStep
<1>1. CASE Quiet
  BY <1>1 DEF Quiet, WorkerInv
<1>2. CASE Failed
  BY <1>2 DEF Failed, WorkerInv, Outcomes
<1>3. CASE Stopped
  BY <1>3 DEF Stopped, WorkerInv, ActiveCalls
<1>4. ASSUME NEW c \in Call, Asked(c)
      PROVE  WorkerInv'
  BY <1>4 DEF Asked, WorkerInv
<1>5. ASSUME NEW c \in Call, Refused(c)
      PROVE  WorkerInv'
  BY <1>5 DEF Refused, WorkerInv, Outcomes
<1>6. ASSUME NEW c \in Call, Answered(c)
      PROVE  WorkerInv'
  BY <1>6 DEF Answered, WorkerInv, Outcomes
<1>7. ASSUME NEW c \in Call, Released(c)
      PROVE  WorkerInv'
  BY <1>7 DEF Released, WorkerInv
<1> QED BY <1>0, <1>1, <1>2, <1>3, <1>4, <1>5, <1>6, <1>7 DEF HostStep

-----------------------------------------------------------------------------
(* A closed host leaves no call behind and an answered caller is not owed  *)
(* another answer, whatever closed the host: a protocol error, a timer,    *)
(* the thread's death or a shutdown; and no host tells of two faults,      *)
(* however many of these come together.                                    *)
NobodyLeftWaiting ==
  /\ closed => ActiveCalls = {}
  /\ faults <= 1
  /\ \A c \in Owed : answer[c] = "none"

(* For any calls, limits and timers, by WorkerInv.                         *)
THEOREM ClosedHostOwesNothing == WorkerSpec => []NobodyLeftWaiting
<1>1. WorkerInv => NobodyLeftWaiting
  BY DEF WorkerInv, NobodyLeftWaiting, ActiveCalls, Owed
<1>2. WorkerInv /\ [WorkerNext]_workerVars => WorkerInv'
  BY WorkerInvStep
<1> QED BY WorkerInvInit, <1>1, <1>2, PTL DEF WorkerSpec

(* An answer is final: a result that arrives after the time limit, a       *)
(* second answer of a handler or a fault later on does not change it.      *)
AnswersStay == \A c \in Call : answer[c] # "none" => answer'[c] = answer[c]

(* Each way a host moves on leaves the answers that were given alone.      *)
THEOREM AnswersAreFinal == WorkerSpec => [][AnswersStay]_workerVars
<1>1. WorkerInv /\ [WorkerNext]_workerVars => [AnswersStay]_workerVars
  <2> SUFFICES ASSUME WorkerInv, [WorkerNext]_workerVars, NEW c \in Call, answer[c] # "none"
               PROVE  answer'[c] = answer[c]
    BY DEF AnswersStay
  <2>0. HostStep
    BY NextIsHostStep
  <2>1. CASE Quiet \/ Stopped
    BY <2>1 DEF Quiet, Stopped
  <2>2. CASE Failed
    BY <2>2 DEF Failed, WorkerInv
  <2>3. ASSUME NEW d \in Call, Asked(d) \/ Released(d)
        PROVE  answer'[c] = answer[c]
    BY <2>3 DEF Asked, Released
  <2>4. ASSUME NEW d \in Call, Refused(d) \/ Answered(d)
        PROVE  answer'[c] = answer[c]
    <3>1. answer[d] = "none"
      BY <2>4 DEF Refused, Answered, WorkerInv
    <3> QED BY <2>4, <3>1 DEF Refused, Answered, WorkerInv
  <2> QED BY <2>0, <2>1, <2>2, <2>3, <2>4 DEF HostStep
<1>2. WorkerInv /\ [WorkerNext]_workerVars => WorkerInv'
  BY WorkerInvStep
<1> QED BY WorkerInvInit, <1>1, <1>2, PTL DEF WorkerSpec

-----------------------------------------------------------------------------
LEMMA HostStepMaps ==
  ASSUME WorkerInv, HostStep
  PROVE  [Contract!Next]_Contract!contractVars
<1> DEFINE held  == ActiveCalls
           told  == faults > 0
<1>1. CASE Quiet
  BY <1>1 DEF Quiet, Contract!contractVars, ActiveCalls
<1>2. CASE Failed
  <2>1. Owed' = {} /\ held' = {}
    BY <1>2 DEF Failed, Owed, ActiveCalls
  <2>2. told'
    BY <1>2 DEF Failed, WorkerInv
  <2>3. answer' = [c \in Call |-> IF c \in Owed THEN "fault" ELSE answer[c]]
    BY <1>2 DEF Failed, Owed
  <2>4. "fault" \in Outcomes
    BY DEF Outcomes
  <2>5. ~closed /\ closed' = TRUE
    BY <1>2 DEF Failed
  <2>6. Contract!Fail
    BY <2>1, <2>2, <2>3, <2>4, <2>5 DEF Contract!Fail, Owed
  <2> QED BY <2>6 DEF Contract!Next
<1>3. CASE Stopped
  <2>1. Contract!Stop
    BY <1>3 DEF Stopped, Contract!Stop, ActiveCalls
  <2> QED BY <2>1 DEF Contract!Next
<1>4. ASSUME NEW c \in Call, Asked(c)
      PROVE  Contract!Next
  <2>1. Owed' = Owed \cup {c} /\ held' = held \cup {c}
    BY <1>4 DEF Asked, WorkerInv, Owed, ActiveCalls
  <2>2. Contract!Fresh(c)
    BY <1>4 DEF Asked, Contract!Fresh, ActiveCalls
  <2>3. Contract!Ask(c)
    BY <1>4, <2>1, <2>2 DEF Asked, Contract!Ask, Owed
  <2> QED BY <2>3 DEF Contract!Next
<1>5. ASSUME NEW c \in Call, Refused(c)
      PROVE  Contract!Next
  <2>1. Contract!Fresh(c)
    BY <1>5 DEF Refused, Contract!Fresh, ActiveCalls
  <2>2. Contract!Refuse(c)
    BY <1>5, <2>1 DEF Refused, Contract!Refuse, ActiveCalls
  <2> QED BY <2>2 DEF Contract!Next
<1>6. ASSUME NEW c \in Call, Answered(c)
      PROVE  Contract!Next
  <2>1. c \in Owed /\ Owed' = Owed \ {c} /\ held' \in {held, held \ {c}}
    BY <1>6 DEF Answered, WorkerInv, Owed, ActiveCalls
  <2>2. Contract!Answer(c)
    BY <1>6, <2>1 DEF Answered, Contract!Answer, Owed
  <2> QED BY <2>2 DEF Contract!Next
<1>7. ASSUME NEW c \in Call, Released(c)
      PROVE  Contract!Next
  <2>1. c \in held \ Owed /\ held' = held \ {c} /\ Owed' = Owed
    BY <1>7 DEF Released, WorkerInv, Owed, ActiveCalls
  <2>2. Contract!Release(c)
    BY <1>7, <2>1 DEF Released, Contract!Release, Owed
  <2> QED BY <2>2 DEF Contract!Next
<1> QED BY <1>1, <1>2, <1>3, <1>4, <1>5, <1>6, <1>7 DEF HostStep

(* The host implements the contract the extension runtime builds on.       *)
THEOREM WorkerKeepsContract == WorkerSpec => KeepsContract
<1>1. WorkerInit => Contract!Init
  BY DEF WorkerInit, Contract!Init, ActiveCalls
<1>2. WorkerInv /\ [WorkerNext]_workerVars => [Contract!Next]_Contract!contractVars
  BY NextIsHostStep, HostStepMaps
<1>3. WorkerInv /\ [WorkerNext]_workerVars => WorkerInv'
  BY WorkerInvStep
<1> QED BY WorkerInvInit, <1>1, <1>2, <1>3, PTL DEF WorkerSpec, KeepsContract, Contract!Spec

-----------------------------------------------------------------------------
(* Types of the worker: what is under way is a message, and the thread is  *)
(* only told to execute a call.                                            *)

Orders == {m \in Message : m.type = "execute" => m.id \in Call}

ThreadInv ==
  /\ starting \in BOOLEAN /\ usable \in BOOLEAN /\ shuttingDown \in BOOLEAN
  /\ toWorker \in Seq(Orders) /\ fromWorker \in Seq(Message)
  /\ thread \in {"up", "doomed", "exited"}
  /\ running \subseteq Call /\ stray \in 0 .. MaxStray

LEMMA Posted ==
  ASSUME "completed" \in Body
  PROVE  /\ \A id \in Call \cup {"initialize", "unknown", "host"} :
              \A type \in {"initialize", "cancel", "shutdown", "ready", "failure", "result",
                           "protocol_error", "malformed", "exit"} :
                \A body \in Body \cup {"none", "completed"} :
                  Msg(type, id, body) \in Message /\ Msg(type, id, body) \in Orders
         /\ \A c \in Call : Msg("execute", c, "none") \in Orders
         /\ Nothing \in Message
BY DEF Msg, Message, Orders, Nothing

LEMMA Queued ==
  ASSUME NEW S, NEW q \in Seq(S), NEW m \in S
  PROVE  Append(q, m) \in Seq(S)
OBVIOUS

LEMMA Taken ==
  ASSUME NEW S, NEW q \in Seq(S), q # <<>>
  PROVE  Head(q) \in S /\ Tail(q) \in Seq(S)
OBVIOUS

LEMMA FaultThread ==
  ASSUME Fault, ThreadInv
  PROVE  /\ starting' \in BOOLEAN /\ usable' \in BOOLEAN
         /\ thread' \in {"up", "doomed", "exited"}
BY DEF Fault, ThreadInv

LEMMA ReceiveThread ==
  ASSUME Receive, ThreadInv
  PROVE  ThreadInv'
<1> DEFINE m == Head(fromWorker)
<1>1. /\ Fault \/ InitializeAnswer(m) \/ CallAnswer(m, m.id)
      /\ fromWorker # <<>> /\ fromWorker' = Tail(fromWorker)
      /\ UNCHANGED <<shuttingDown, toWorker, running, stray>>
  BY DEF Receive
<1>2. /\ starting' \in BOOLEAN /\ usable' \in BOOLEAN
      /\ thread' \in {"up", "doomed", "exited"}
  <2>1. CASE Fault
    BY <2>1, FaultThread
  <2>2. CASE InitializeAnswer(m)
    BY <2>2, FaultThread DEF InitializeAnswer, ThreadInv
  <2>3. CASE CallAnswer(m, m.id)
    <3>1. Fault \/ UNCHANGED <<starting, usable, thread>>
      BY <2>3 DEF CallAnswer, Forget, SettleCall
    <3> QED BY <3>1, FaultThread DEF ThreadInv
  <2> QED BY <1>1, <2>1, <2>2, <2>3
<1>3. fromWorker' \in Seq(Message)
  BY <1>1, Taken DEF ThreadInv
<1> QED BY <1>1, <1>2, <1>3 DEF ThreadInv

LEMMA HandleThread ==
  ASSUME "completed" \in Body, Handle, ThreadInv
  PROVE  ThreadInv'
<1> DEFINE m == Head(toWorker)
<1>1. toWorker # <<>> /\ toWorker' = Tail(toWorker) /\ UNCHANGED <<starting, usable, shuttingDown, stray>>
  BY DEF Handle, hostVars
<1>2. m \in Orders /\ toWorker' \in Seq(Orders)
  BY <1>1, Taken DEF ThreadInv
<1>3. \/ \E type \in {"ready", "failure"} :
           Send(Msg(type, "initialize", "none")) /\ UNCHANGED <<thread, running>>
      \/ m.type = "execute" /\ running' = running \cup {m.id} /\ UNCHANGED <<fromWorker, thread>>
      \/ UNCHANGED <<fromWorker, thread, running>>
      \/ Send(Msg("ready", "unknown", "none")) /\ thread' = "doomed" /\ UNCHANGED running
  BY DEF Handle
<1>4. running' \subseteq Call /\ thread' \in {"up", "doomed", "exited"}
  BY <1>2, <1>3 DEF ThreadInv, Orders
<1>5. fromWorker' \in Seq(Message)
  <2>1. \/ fromWorker' = fromWorker
        \/ \E n \in Message : fromWorker' = Append(fromWorker, n)
    BY <1>3, Posted DEF Send
  <2> QED BY <2>1, Queued DEF ThreadInv
<1> QED BY <1>1, <1>2, <1>4, <1>5 DEF ThreadInv

(* What else the thread does posts a message and may end it.               *)
LEMMA PostThread ==
  ASSUME "completed" \in Body, ThreadInv,
         Exit \/ Stray("unknown") \/ \E c \in Call : HandlerReturns(c) \/ (c \in running /\ Stray(c))
  PROVE  ThreadInv'
<1>1. UNCHANGED <<starting, usable, shuttingDown, toWorker>>
  BY DEF Exit, Stray, HandlerReturns, hostVars
<1>2. thread' \in {"up", "doomed", "exited"} /\ running' \subseteq Call
  BY DEF Exit, Stray, HandlerReturns, ThreadInv
<1>3. stray' \in 0 .. MaxStray
  BY WorkerAssumption DEF Exit, Stray, HandlerReturns, ThreadInv
<1>4. \E n \in Message : fromWorker' = Append(fromWorker, n)
  <2>1. CASE Exit
    BY <2>1, Posted DEF Exit, Send
  <2>2. ASSUME NEW id \in Call \cup {"unknown"}, Stray(id)
        PROVE  \E n \in Message : fromWorker' = Append(fromWorker, n)
    BY <2>2, Posted DEF Stray, Send
  <2>3. ASSUME NEW c \in Call, HandlerReturns(c)
        PROVE  \E n \in Message : fromWorker' = Append(fromWorker, n)
    BY <2>3, Posted DEF HandlerReturns, Send
  <2> QED BY <2>1, <2>2, <2>3
<1>5. fromWorker' \in Seq(Message)
  BY <1>4, Queued DEF ThreadInv
<1> QED BY <1>1, <1>2, <1>3, <1>5 DEF ThreadInv

LEMMA HostThread ==
  ASSUME "completed" \in Body, ThreadInv,
         InitializeTimer \/ Shutdown \/ ShutdownTimer
           \/ \E c \in Call : Execute(c) \/ Abort(c) \/ CallTimer(c) \/ GraceTimer(c)
  PROVE  ThreadInv'
<1>1. CASE InitializeTimer \/ \E c \in Call : GraceTimer(c)
  <2>1. Fault /\ UNCHANGED <<shuttingDown, toWorker, fromWorker, running, stray>>
    BY <1>1 DEF InitializeTimer, GraceTimer
  <2> QED BY <2>1, FaultThread DEF ThreadInv
<1>2. CASE ShutdownTimer
  BY <1>2 DEF ShutdownTimer, hostVars, ThreadInv
<1>3. CASE Shutdown \/ \E c \in Call : Execute(c) \/ Abort(c) \/ CallTimer(c)
  <2>1. /\ UNCHANGED <<starting, usable, fromWorker, thread, running, stray>>
        /\ shuttingDown' \in BOOLEAN
    BY <1>3 DEF Shutdown, Execute, Abort, CallTimer, CancelCall, threadVars, ThreadInv
  <2>2. toWorker' = toWorker \/ \E n \in Orders : toWorker' = Append(toWorker, n)
    <3>1. CASE Shutdown
      BY <3>1, Posted DEF Shutdown
    <3>2. ASSUME NEW c \in Call, Execute(c)
          PROVE  toWorker' = toWorker \/ \E n \in Orders : toWorker' = Append(toWorker, n)
      BY <3>2, Posted DEF Execute
    <3>3. ASSUME NEW c \in Call, Abort(c) \/ CallTimer(c)
          PROVE  toWorker' = toWorker \/ \E n \in Orders : toWorker' = Append(toWorker, n)
      BY <3>3, Posted DEF Abort, CallTimer, CancelCall
    <3> QED BY <1>3, <3>1, <3>2, <3>3
  <2>3. toWorker' \in Seq(Orders)
    BY <2>2, Queued DEF ThreadInv
  <2> QED BY <2>1, <2>3 DEF ThreadInv
<1> QED BY <1>1, <1>2, <1>3

(* The variables of the worker keep their types, whatever a handler posts  *)
(* (which may well be the answer "completed"): a thread runs only calls,   *)
(* and no fault is counted twice.                                          *)
THEOREM WorkerTypes ==
  ASSUME "completed" \in Body
  PROVE  WorkerSpec => []WorkerTypeOK
<1>1. WorkerInit => ThreadInv
  <2> SUFFICES ASSUME WorkerInit PROVE ThreadInv
    OBVIOUS
  <2>1. toWorker \in Seq(Orders)
    <3>1. Msg("initialize", "initialize", "none") \in Orders
      BY Posted
    <3> QED BY <3>1 DEF WorkerInit
  <2>2. 0 \in 0 .. MaxStray /\ {} \subseteq Call /\ <<>> \in Seq(Message)
    BY WorkerAssumption
  <2>3. /\ starting = TRUE /\ usable = FALSE /\ shuttingDown = FALSE
        /\ fromWorker = <<>> /\ thread = "up" /\ running = {} /\ stray = 0
    BY DEF WorkerInit
  <2> QED BY <2>1, <2>2, <2>3 DEF ThreadInv
<1>2. ThreadInv /\ [WorkerNext]_workerVars => ThreadInv'
  <2> SUFFICES ASSUME ThreadInv, [WorkerNext]_workerVars PROVE ThreadInv'
    OBVIOUS
  <2>1. CASE UNCHANGED workerVars
    BY <2>1 DEF ThreadInv, workerVars
  <2>2. CASE WorkerNext
    BY <2>2, ReceiveThread, HandleThread, PostThread, HostThread DEF WorkerNext
  <2> QED BY <2>1, <2>2
<1>3. WorkerInv /\ ThreadInv => WorkerTypeOK
  <2> SUFFICES ASSUME WorkerInv, ThreadInv PROVE WorkerTypeOK
    OBVIOUS
  <2>1. Orders \subseteq Message
    BY DEF Orders
  <2>2. toWorker \in Seq(Message)
    BY <2>1 DEF ThreadInv
  <2> QED BY <2>2 DEF WorkerInv, ThreadInv, WorkerTypeOK
<1>4. WorkerInv /\ [WorkerNext]_workerVars => WorkerInv'
  BY WorkerInvStep
<1> QED BY WorkerInvInit, <1>1, <1>2, <1>3, <1>4, PTL DEF WorkerSpec

-----------------------------------------------------------------------------
(* Types.                                                                  *)

Places ==
  [install    |-> {"start", "materialize", "probe", "abandon", "unload", "open", "opening",
                   "commit", "discard", "restore", "restoring", "settle", "sweep", "quarantine"},
   enable     |-> {"start", "unload", "probe", "open", "opening", "commit", "quarantine"},
   disable    |-> {"start", "unload", "commit", "restore", "restoring"},
   uninstall  |-> {"start", "unload", "commit", "list", "sweep"},
   init       |-> {"start"}, quarantine |-> {"start"}, list |-> {"start"}]

Waiting == {q \in Op : /\ q.pc = "start" /\ ~q.created /\ q.sweep = Clean
                       /\ q.kind # "list" => q.ext \in Ext}

(* What an operation holds at each place. *)
OpInv ==
  op # None =>
    /\ op \in Op /\ op.pc \in Places[op.kind]
    /\ op.kind # "list" => op.ext \in Ext /\ op.sweep.trash =< trash[op.ext]
    /\ op.pc # "start" /\ op.kind # "uninstall" => op.hash \in Hash
    /\ op.pc # "start" /\ op.kind \in {"enable", "disable"} =>
         op.old # None /\ op.old.hash = op.hash
    /\ op.pc = "restoring" => op.old # None /\ op.old.state = "enabled"
    /\ op.created => op.kind = "install" /\ op.pc # "start"

TypeInv ==
  /\ TypeOK /\ OpInv /\ queue \in Seq(Waiting)
  /\ requests \in Nat /\ turns \in Nat /\ failures \in 0..MaxFaults
  /\ \A e \in Ext : trash[e] =< failures

LEMMA NewOpType ==
  ASSUME NEW kind \in OpKind, NEW e \in Ext \cup {None}, kind # "list" => e \in Ext,
         NEW a \in BOOLEAN
  PROVE  NewOp(kind, e, a) \in Waiting
<1>1. Clean \in Leftovers
  BY LifecycleAssumption DEF Clean, Leftovers
<1>2. NewOp(kind, e, a) \in Op
  BY <1>1 DEF NewOp, Op, Place
<1> QED BY <1>2 DEF NewOp, Waiting

LEMMA EnqueueType ==
  ASSUME TypeInv, NEW kind \in OpKind, NEW e \in Ext \cup {None}, kind # "list" => e \in Ext,
         NEW a \in BOOLEAN, queue' = Append(queue, NewOp(kind, e, a))
  PROVE  queue' \in Seq(Waiting) /\ queue' \in Seq(Op)
<1>1. NewOp(kind, e, a) \in Waiting
  BY NewOpType
<1>2. queue \in Seq(Waiting)
  BY DEF TypeInv
<1>3. queue' \in Seq(Waiting)
  BY <1>1, <1>2
<1>4. Waiting \subseteq Op
  BY DEF Waiting
<1> QED BY <1>3, <1>4, SeqMonotonic

(* An operation that ends leaves nothing to say about itself. *)
LEMMA FinishType ==
  ASSUME TypeInv, op # None, NEW r \in {"done", "error", "failed"}, Finish(r)
  PROVE  /\ op' = None
         /\ sys' \in [pc: {"idle", "waiting", "activating", "restricted", "rollback", "closed"},
                      todo: SUBSET Ext]
BY DEF Finish, TypeInv, TypeOK

LEMMA WriteType ==
  ASSUME TypeInv, NEW c \in [Ext -> Entry \cup {None}], Write(c) \/ WriteFails(c)
  PROVE  /\ catalogue' \in [Ext -> Entry \cup {None}] /\ onFile' \in BOOLEAN
         /\ failures' \in 0..MaxFaults /\ failures =< failures'
<1>1. failures \in 0..MaxFaults /\ MaxFaults \in Nat
  BY LifecycleAssumption DEF TypeInv
<1>2. CASE Write(c)
  BY <1>1, <1>2 DEF Write
<1>3. CASE WriteFails(c)
  BY <1>1, <1>3 DEF WriteFails, TypeInv, TypeOK
<1> QED BY <1>2, <1>3

LEMMA OpShape ==
  ASSUME TypeInv, op # None
  PROVE  /\ op \in Op /\ op.pc \in Places[op.kind]
         /\ op.pc # "start" => op.kind \in {"install", "enable", "disable", "uninstall"} /\ op.ext \in Ext
BY DEF TypeInv, OpInv, Places, Op, OpKind

LEMMA GoToType ==
  ASSUME TypeInv, op # None, NEW pc \in Places[op.kind] \ {"start", "restoring"}, GoTo(pc), op.pc # "start",
         UNCHANGED trash
  PROVE  /\ op' \in Op /\ OpInv'
         /\ op' = [op EXCEPT !.pc = pc]
         /\ op'.kind = op.kind /\ op'.ext = op.ext /\ op'.pc = pc /\ op'.hash = op.hash
         /\ op'.created = op.created /\ op'.old = op.old /\ op'.sweep = op.sweep
<1>1. op \in Op
  BY OpShape
<1>2. pc \in Place
  BY <1>1 DEF Op, Places, OpKind, Place
<1>3. op' \in Op /\ op' # None
  BY <1>1, <1>2, NoneAssumption DEF GoTo, Op
<1> QED BY <1>1, <1>3 DEF GoTo, TypeInv, OpInv, Op

DiskType ==
  /\ installed \subseteq Ext \X Hash /\ trash \in [Ext -> 0..MaxFaults]
  /\ \A e \in Ext : trash[e] =< failures
  /\ catalogue \in [Ext -> Entry \cup {None}] /\ onFile \in BOOLEAN
  /\ staging \in [Ext -> Hash \cup {None}] /\ failures \in 0..MaxFaults
WorkerRecord == [ext: Ext, hash: Hash, busy: BOOLEAN]
Hosted(e) ==
  /\ tools[e] = host[e]
  /\ host[e] # None => worker[host[e]] # None /\ worker[host[e]].ext = e
RunType ==
  /\ host \in [Ext -> Worker \cup {None}] /\ tools \in [Ext -> Worker \cup {None}]
  /\ worker \in [Worker -> [ext: Ext, hash: Hash, busy: BOOLEAN] \cup {None}]
  /\ \A e \in Ext : Hosted(e)
SysPc == {"idle", "waiting", "activating", "restricted", "rollback", "closed"}
RestType ==
  /\ allowed \in BOOLEAN /\ loading \subseteq Ext
  /\ sys \in [pc: SysPc, todo: SUBSET Ext]
  /\ turn \in {"none", "restricted", "full"} /\ damaged \in BOOLEAN
  /\ requests \in Nat /\ turns \in Nat
QueueType == queue \in Seq(Waiting)
OperationType == op = None \/ (op \in Op /\ OpInv)

LEMMA TypeParts == TypeInv /\ RunType <=> DiskType /\ RunType /\ RestType /\ QueueType /\ OperationType
<1>1. queue \in Seq(Waiting) => queue \in Seq(Op)
  <2>1. Waiting \subseteq Op
    BY DEF Waiting
  <2> QED BY <2>1, SeqMonotonic
<1> QED BY <1>1 DEF TypeInv, TypeOK, DiskType, RunType, RestType, SysPc, QueueType, OperationType, OpInv

LEMMA TypePartsPrimed == TypeInv' /\ RunType' <=> DiskType' /\ RunType' /\ RestType' /\ QueueType' /\ OperationType'
<1>1. queue' \in Seq(Waiting) => queue' \in Seq(Op)
  <2>1. Waiting \subseteq Op
    BY DEF Waiting
  <2> QED BY <2>1, SeqMonotonic
<1> QED BY <1>1 DEF TypeInv, TypeOK, DiskType, RunType, RestType, SysPc, QueueType, OperationType, OpInv

LEMMA TypeInit == Init => TypeInv /\ RunType
<1> SUFFICES ASSUME Init PROVE TypeInv /\ RunType
  OBVIOUS
<1> USE LifecycleAssumption DEF Init
<1>1. DiskType
  <2>1. 0 \in 0..MaxFaults
    OBVIOUS
  <2>2. trash \in [Ext -> 0..MaxFaults] /\ \A e \in Ext : trash[e] =< failures
    BY <2>1
  <2>3. staging \in [Ext -> Hash \cup {None}] /\ catalogue \in [Ext -> Entry \cup {None}]
    OBVIOUS
  <2> QED BY <2>1, <2>2, <2>3 DEF DiskType
<1>2. RunType
  BY DEF RunType, Hosted
<1>3. RestType
  BY DEF RestType, SysPc
<1>4. QueueType /\ OperationType
  <2>1. queue = <<>> /\ op = None
    OBVIOUS
  <2>2. QueueType
    BY <2>1, EmptySeq DEF QueueType
  <2> QED BY <2>1, <2>2 DEF OperationType
<1> QED BY <1>1, <1>2, <1>3, <1>4, TypeParts

(* The runtime manager's own steps. *)
LEMMA RegisterType ==
  ASSUME RunType, NEW e \in Ext, NEW w \in Worker \ Live, NEW h \in Hash, Register(e, w, h)
  PROVE  RunType'
<1>1. [ext |-> e, hash |-> h, busy |-> FALSE] \in [ext: Ext, hash: Hash, busy: BOOLEAN]
  OBVIOUS
<1>2. \A f \in Ext : host[f] # w
  BY LifecycleAssumption DEF RunType, Hosted, Live
<1>3. /\ host' \in [Ext -> Worker \cup {None}] /\ tools' \in [Ext -> Worker \cup {None}]
      /\ worker' \in [Worker -> WorkerRecord \cup {None}]
  BY <1>1 DEF RunType, Register, WorkerRecord
<1>4. Hosted(e)'
  BY <1>1, NoneAssumption DEF RunType, Register, Hosted
<1>5. \A f \in Ext \ {e} : Hosted(f)'
  BY <1>2, LifecycleAssumption DEF RunType, Register, Hosted
<1> QED BY <1>3, <1>4, <1>5 DEF RunType, WorkerRecord

LEMMA UnloadType ==
  ASSUME RunType, NEW e \in Ext, Unload(e)
  PROVE  RunType'
BY DEF RunType, Unload, IsLoaded, runtime, Hosted

LEMMA ShutdownType ==
  ASSUME RunType, ShutdownAll
  PROVE  RunType'
BY DEF RunType, ShutdownAll, Hosted

(* Faults, calls and turns leave the operation at work alone. *)
LEMMA Beside ==
  ASSUME TypeInv, RunType,
         \/ TurnEnds \/ Close \/ PrepareRestricted \/ PrepareFull \/ Prepare
         \/ \E e \in Ext : CallBegins(e) \/ EditStaging(e) \/ \E kind \in Kinds : Request(kind, e)
         \/ \E w \in Worker : WorkerFault(w) \/ CallEnds(w)
  PROVE  TypeInv' /\ RunType'
<1> USE DEF disk, runtime, bounds
<1>0. DiskType /\ RunType /\ RestType /\ QueueType /\ OperationType
  BY TypeParts
<1>1. UNCHANGED <<op, trash>> => OperationType'
  BY <1>0 DEF OperationType, OpInv
<1>2. UNCHANGED <<installed, trash, catalogue, onFile, staging, failures>> => DiskType'
  BY <1>0 DEF DiskType
<1>3. UNCHANGED runtime => RunType'
  BY <1>0 DEF RunType, Hosted
<1>4. UNCHANGED <<allowed, loading, sys, turn, damaged, requests, turns>> => RestType'
  BY <1>0 DEF RestType
<1>5. UNCHANGED queue => QueueType'
  BY <1>0 DEF QueueType
<1>6. \A w \in Worker : WorkerFault(w) => TypeInv' /\ RunType'
  <2> SUFFICES ASSUME NEW w \in Worker, WorkerFault(w) PROVE TypeInv' /\ RunType'
    OBVIOUS
  <2>1. worker[w].ext \in Ext
    BY <1>0 DEF WorkerFault, RunType, Live
  <2>2. RunType'
    <3>1. CASE host[worker[w].ext] \in {w, None}
      <4>1. /\ host' = [host EXCEPT ![worker[w].ext] = None]
            /\ tools' = [tools EXCEPT ![worker[w].ext] = None]
            /\ worker' = [worker EXCEPT ![w] = None]
        BY <3>1 DEF WorkerFault
      <4> QED BY <1>0, <2>1, <4>1, LifecycleAssumption DEF RunType, Hosted
    <3>2. CASE host[worker[w].ext] \notin {w, None}
      <4>1. host' = host /\ tools' = tools /\ worker' = [worker EXCEPT ![w] = None]
        BY <3>2 DEF WorkerFault
      <4>2. \A e \in Ext : host[e] # w
        BY <1>0, <3>2, LifecycleAssumption DEF RunType, Hosted
      <4> QED BY <1>0, <2>1, <4>1, <4>2 DEF RunType, Hosted
    <3> QED BY <3>1, <3>2
  <2>3. QueueType'
    BY <2>1, EnqueueType, <1>5 DEF WorkerFault, QueueType, OpKind
  <2> QED BY <2>2, <2>3, <1>1, <1>2, <1>4, TypePartsPrimed DEF WorkerFault
<1>7. \A w \in Worker : CallEnds(w) => TypeInv' /\ RunType'
  <2> SUFFICES ASSUME NEW w \in Worker, CallEnds(w) PROVE TypeInv' /\ RunType'
    OBVIOUS
  <2>1. worker[w] \in [ext: Ext, hash: Hash, busy: BOOLEAN]
    BY <1>0 DEF CallEnds, RunType, Live
  <2>2. [worker[w] EXCEPT !.busy = FALSE] \in [ext: Ext, hash: Hash, busy: BOOLEAN]
    BY <2>1
  <2>3. RunType'
    <3>1. /\ worker' \in [Worker -> WorkerRecord \cup {None}] /\ UNCHANGED <<host, tools>>
          /\ \A x \in Worker : worker[x] # None => worker'[x] # None /\ worker'[x].ext = worker[x].ext
      BY <1>0, <2>1, <2>2, NoneAssumption DEF CallEnds, RunType, WorkerRecord
    <3> QED BY <1>0, <3>1 DEF RunType, Hosted, WorkerRecord
  <2> QED BY <2>3, <1>1, <1>2, <1>4, <1>5, TypePartsPrimed DEF CallEnds
<1>8. \A e \in Ext : CallBegins(e) => TypeInv' /\ RunType'
  <2> SUFFICES ASSUME NEW e \in Ext, CallBegins(e) PROVE TypeInv' /\ RunType'
    OBVIOUS
  <2>1. tools[e] \in Worker
    BY <1>0 DEF CallBegins, RunType
  <2>2. [worker[tools[e]] EXCEPT !.busy = TRUE] \in [ext: Ext, hash: Hash, busy: BOOLEAN] \cup {None}
    <3>1. worker[tools[e]] # None
      BY <1>0 DEF RunType, Hosted, CallBegins
    <3>2. worker[tools[e]] \in [ext: Ext, hash: Hash, busy: BOOLEAN]
      BY <1>0, <2>1, <3>1 DEF RunType
    <3> QED BY <3>2
  <2>3. RunType'
    <3>1. /\ worker' \in [Worker -> WorkerRecord \cup {None}] /\ UNCHANGED <<host, tools>>
          /\ \A x \in Worker : worker[x] # None => worker'[x] # None /\ worker'[x].ext = worker[x].ext
      BY <1>0, <2>1, <2>2, NoneAssumption DEF CallBegins, RunType, WorkerRecord
    <3> QED BY <1>0, <3>1 DEF RunType, Hosted, WorkerRecord
  <2> QED BY <2>3, <1>1, <1>2, <1>4, <1>5, TypePartsPrimed DEF CallBegins
<1>9. \A e \in Ext : EditStaging(e) => TypeInv' /\ RunType'
  <2> SUFFICES ASSUME NEW e \in Ext, EditStaging(e) PROVE TypeInv' /\ RunType'
    OBVIOUS
  <2>1. DiskType'
    BY <1>0 DEF EditStaging, DiskType
  <2> QED BY <2>1, <1>1, <1>3, <1>4, <1>5, TypePartsPrimed DEF EditStaging
<1>10. \A e \in Ext : \A kind \in Kinds : Request(kind, e) => TypeInv' /\ RunType'
  <2> SUFFICES ASSUME NEW e \in Ext, NEW kind \in Kinds, Request(kind, e) PROVE TypeInv' /\ RunType'
    OBVIOUS
  <2>1. kind \in OpKind
    BY LifecycleAssumption DEF OpKind
  <2>2. QueueType'
    BY <2>1, EnqueueType DEF Request, Enqueue, QueueType
  <2>3. RestType'
    BY <1>0 DEF Request, RestType
  <2> QED BY <2>2, <2>3, <1>1, <1>2, <1>3, TypePartsPrimed DEF Request
<1>11. TurnEnds => TypeInv' /\ RunType'
  <2> SUFFICES ASSUME TurnEnds PROVE TypeInv' /\ RunType'
    OBVIOUS
  <2>1. RestType'
    BY <1>0 DEF TurnEnds, RestType
  <2> QED BY <2>1, <1>1, <1>2, <1>3, <1>5, TypePartsPrimed DEF TurnEnds
<1>12. Close \/ PrepareRestricted \/ Rollback => TypeInv' /\ RunType'
  <2> SUFFICES ASSUME Close \/ PrepareRestricted \/ Rollback PROVE TypeInv' /\ RunType'
    OBVIOUS
  <2>1. RestType'
    <3>1. CASE Close \/ Rollback
      <4>1. sys' \in [pc: SysPc, todo: SUBSET Ext]
        BY <3>1 DEF Close, Rollback, SysPc
      <4> QED BY <1>0, <3>1, <4>1 DEF Close, Rollback, RestType
    <3>2. CASE PrepareRestricted
      <4>1. sys' \in [pc: SysPc, todo: SUBSET Ext]
        BY <1>0, <3>2 DEF PrepareRestricted, RestType, SysPc
      <4>2. allowed' = FALSE /\ turns' = turns + 1 /\ UNCHANGED <<loading, turn, damaged, requests>>
        BY <3>2 DEF PrepareRestricted
      <4>3. turns' \in Nat
        BY <1>0, <4>2 DEF RestType
      <4> QED BY <1>0, <4>1, <4>2, <4>3, Zenon DEF RestType
    <3> QED BY <3>1, <3>2
  <2>2. RunType'
    BY <1>0, ShutdownType DEF Close, PrepareRestricted, Rollback
  <2> QED BY <2>1, <2>2, <1>1, <1>2, <1>5, TypePartsPrimed DEF Close, PrepareRestricted, Rollback
<1>13. PrepareFull => TypeInv' /\ RunType'
  <2> SUFFICES ASSUME PrepareFull PROVE TypeInv' /\ RunType'
    OBVIOUS
  <2>1. RestType'
    BY <1>0 DEF PrepareFull, RestType, SysPc
  <2>2. QueueType'
    BY EnqueueType DEF PrepareFull, Enqueue, QueueType, OpKind
  <2> QED BY <2>1, <2>2, <1>1, <1>2, <1>3, TypePartsPrimed DEF PrepareFull
<1>14. ActivateNext => TypeInv' /\ RunType'
  <2> SUFFICES ASSUME ActivateNext PROVE TypeInv' /\ RunType'
    OBVIOUS
  <2>1. PICK e \in sys.todo : Enqueue("enable", e, TRUE) /\ sys' = [pc |-> "waiting", todo |-> sys.todo \ {e}]
    BY DEF ActivateNext
  <2>2. e \in Ext /\ sys.todo \subseteq Ext
    BY <1>0 DEF RestType
  <2>3. RestType'
    BY <1>0, <2>1, <2>2 DEF ActivateNext, RestType, SysPc
  <2>4. QueueType'
    BY <2>1, <2>2, EnqueueType DEF Enqueue, QueueType, OpKind
  <2> QED BY <2>3, <2>4, <1>1, <1>2, <1>3, TypePartsPrimed DEF ActivateNext
<1>15. TurnStarts => TypeInv' /\ RunType'
  <2> SUFFICES ASSUME TurnStarts PROVE TypeInv' /\ RunType'
    OBVIOUS
  <2>1. RestType'
    BY <1>0 DEF TurnStarts, RestType, SysPc
  <2> QED BY <2>1, <1>1, <1>2, <1>3, <1>5, TypePartsPrimed DEF TurnStarts
<1> QED BY <1>6, <1>7, <1>8, <1>9, <1>10, <1>11, <1>12, <1>13, <1>14, <1>15 DEF Prepare

LEMMA AtType ==
  ASSUME TypeInv, NEW pc, At(pc)
  PROVE  /\ op # None /\ op \in Op /\ op.pc = pc /\ op.kind \in OpKind
         /\ pc \in Places[op.kind]
         /\ pc # "start" => /\ op.kind \in {"install", "enable", "disable", "uninstall"}
                            /\ op.ext \in Ext
         /\ pc \in {"materialize", "abandon", "discard", "settle"} => op.kind = "install"
         /\ pc \in {"probe", "open", "opening", "quarantine"} => op.kind \in {"install", "enable"}
         /\ pc \in {"restore", "restoring"} => op.kind \in {"install", "disable"}
         /\ pc = "list" => op.kind = "uninstall"
         /\ pc = "sweep" => op.kind \in {"install", "uninstall"}
BY DEF At, TypeInv, OpInv, Places, Op, OpKind

(* A step of an operation that only says where it goes on, or that it ends. *)
GoesOn(pc) == pc \in Places[op.kind] \ {"start", "restoring"} /\ GoTo(pc) /\ op.pc # "start"
Moves ==
  \/ \E pc \in Place : GoesOn(pc)
  \/ \E r \in {"done", "error", "failed"} : Finish(r)

LEMMA MovesType ==
  ASSUME TypeInv, op # None, Moves, UNCHANGED trash
  PROVE  OperationType' /\ sys' \in [pc: SysPc, todo: SUBSET Ext]
<1>1. CASE \E pc \in Place : GoesOn(pc)
  BY <1>1, GoToType DEF GoesOn, OperationType, GoTo, TypeInv, TypeOK, SysPc
<1>2. CASE \E r \in {"done", "error", "failed"} : Finish(r)
  BY <1>2, FinishType DEF OperationType, SysPc
<1> QED BY <1>1, <1>2 DEF Moves

LEMMA EntryType ==
  ASSUME TypeInv, At("commit")
  PROVE  NewEntry \in Entry \cup {None}
<1>1. /\ op # None /\ op \in Op /\ op.kind \in {"install", "enable", "disable", "uninstall"}
      /\ op.ext \in Ext /\ op.pc = "commit"
  BY AtType
<1>2. op.kind # "uninstall" => op.hash \in Hash
  BY <1>1 DEF TypeInv, OpInv
<1>3. CleanupNeeded \in BOOLEAN
  BY <1>1 DEF CleanupNeeded, Op, Entry
<1>4. op.kind = "disable" => op.old.pending \in BOOLEAN
  BY <1>1 DEF TypeInv, OpInv, Op, Entry
<1> QED BY <1>1, <1>2, <1>3, <1>4 DEF NewEntry, Entry

LEMMA Working ==
  ASSUME TypeInv, RunType, 
         Begin \/ Start \/ StartList \/ InitStaging \/ Materialize \/ Probe \/ Discard \/ UnloadOld
         \/ Open \/ Opened
  PROVE  TypeInv' /\ RunType'
<1> USE DEF disk, runtime, bounds, Stay
<1>0. DiskType /\ RunType /\ RestType /\ QueueType /\ OperationType
  BY TypeParts
<1>2. UNCHANGED <<installed, trash, catalogue, onFile, staging, failures>> => DiskType'
  BY <1>0 DEF DiskType
<1>3. UNCHANGED runtime => RunType'
  BY <1>0 DEF RunType, Hosted
<1>4. ASSUME UNCHANGED <<allowed, loading, turn, damaged, requests, turns>>,
             sys' \in [pc: SysPc, todo: SUBSET Ext]
      PROVE  RestType'
  BY <1>0, <1>4 DEF RestType
<1>5. UNCHANGED queue => QueueType'
  BY <1>0 DEF QueueType
<1>6. CASE Begin
  <2>1. queue \in Seq(Waiting) /\ queue # <<>>
    BY <1>0, <1>6 DEF QueueType, Begin
  <2>2. Head(queue) \in Waiting /\ Tail(queue) \in Seq(Waiting)
    BY <2>1
  <2>3. OpInv'
    <3>1. op' = Head(queue) /\ op' \in Waiting
      BY <1>6, <2>2 DEF Begin
    <3>2. trash' = trash /\ \A e \in Ext : trash[e] \in Nat
      BY <1>0, <1>6, LifecycleAssumption DEF Begin, DiskType
    <3>3. op'.pc = "start" /\ op'.sweep.trash = 0 /\ op' \in Op /\ op'.created = FALSE
          /\ (op'.kind # "list" => op'.ext \in Ext) /\ op'.kind \in OpKind
      BY <3>1 DEF Waiting, Clean, Op
    <3>4. op'.pc \in Places[op'.kind]
      BY <3>3 DEF Places, OpKind
    <3> QED BY <3>2, <3>3, <3>4 DEF OpInv
  <2>4. OperationType'
    BY <1>6, <2>2, <2>3 DEF Begin, OperationType, Waiting
  <2>5. QueueType'
    BY <1>6, <2>2 DEF Begin, QueueType
  <2>6. RestType'
    BY <1>0, <1>6 DEF Begin, RestType
  <2> QED BY <1>6, <2>4, <2>5, <2>6, <1>2, <1>3, TypePartsPrimed DEF Begin
<1>7. CASE Start
  <2>1. op # None /\ op \in Op /\ op.pc = "start" /\ op.kind \in {"install", "enable", "disable", "uninstall"}
    BY <1>7, AtType DEF Start
  <2>2. op.ext \in Ext
    BY <2>1 DEF TypeInv, OpInv
  <2>3. OperationType' /\ sys' \in [pc: SysPc, todo: SUBSET Ext]
    <3>1. CASE Finish("error") \/ Finish("done")
      BY <1>7, <2>1, <3>1, MovesType DEF Start, Moves
    <3>2. CASE /\ Possible /\ UNCHANGED sys
               /\ op' = [op EXCEPT !.old = catalogue[op.ext],
                            !.hash = IF op.kind = "install" THEN staging[op.ext]
                                     ELSE IF catalogue[op.ext] = None THEN None
                                     ELSE catalogue[op.ext].hash,
                            !.pc = IF op.kind = "install" THEN "materialize" ELSE "unload"]
      <4>1. catalogue[op.ext] \in Entry \cup {None} /\ staging[op.ext] \in Hash \cup {None}
        BY <1>0, <2>2 DEF DiskType
      <4>2. op.kind \in {"enable", "disable"} => catalogue[op.ext] # None
        BY <3>2 DEF Possible
      <4>3. op.kind = "install" => staging[op.ext] # None
        BY <3>2 DEF Possible
      <4> DEFINE h == IF op.kind = "install" THEN staging[op.ext]
                      ELSE IF catalogue[op.ext] = None THEN None ELSE catalogue[op.ext].hash
                 p == IF op.kind = "install" THEN "materialize" ELSE "unload"
      <4>4. h \in Hash \cup {None} /\ p \in Place /\ p \in Places[op.kind] /\ p \notin {"start", "restoring"}
        BY <2>1, <4>1 DEF Entry, Place, Places
      <4>5. op.kind # "uninstall" => h \in Hash
        BY <2>1, <4>1, <4>2, <4>3, LifecycleAssumption DEF Entry
      <4>6. op.kind \in {"enable", "disable"} => catalogue[op.ext].hash = h
        BY <4>2
      <4>7. op' = [op EXCEPT !.old = catalogue[op.ext], !.hash = h, !.pc = p]
        BY <3>2
      <4> HIDE DEF h, p
      <4>8. /\ op' \in Op /\ op'.kind = op.kind /\ op'.ext = op.ext /\ op'.pc = p /\ op'.hash = h
            /\ op'.created = op.created /\ op'.old = catalogue[op.ext] /\ op'.sweep = op.sweep
        BY <2>1, <4>1, <4>4, <4>7 DEF Op
      <4>9. OpInv'
        BY <1>7, <2>1, <2>2, <4>2, <4>4, <4>5, <4>6, <4>8 DEF OpInv, TypeInv, Start
      <4> QED BY <3>2, <1>0, <4>8, <4>9 DEF OperationType, RestType
    <3> QED BY <1>7, <3>1, <3>2 DEF Start
  <2> QED BY <1>7, <2>3, <1>2, <1>3, <1>4, <1>5, TypePartsPrimed DEF Start
<1>8. CASE StartList
  <2>1. op # None
    BY <1>8 DEF StartList, At
  <2>2. Moves
    BY <1>8 DEF StartList, Moves
  <2>3. OperationType' /\ sys' \in [pc: SysPc, todo: SUBSET Ext]
    BY <1>8, <2>1, <2>2, MovesType DEF StartList
  <2> QED BY <1>8, <2>3, <1>2, <1>3, <1>4, <1>5, TypePartsPrimed DEF StartList
<1>9. CASE InitStaging
  <2>1. op # None
    BY <1>9 DEF InitStaging, At
  <2>2. Moves
    BY <1>9 DEF InitStaging, Moves
  <2>3. OperationType' /\ sys' \in [pc: SysPc, todo: SUBSET Ext]
    BY <1>9, <2>1, <2>2, MovesType DEF InitStaging
  <2>4. DiskType'
    BY <1>0, <1>9 DEF InitStaging, DiskType
  <2> QED BY <1>9, <2>3, <2>4, <1>3, <1>4, <1>5, TypePartsPrimed DEF InitStaging
<1>10. CASE Materialize
  <2>1. op # None /\ op \in Op /\ op.pc = "materialize" /\ op.kind = "install" /\ op.ext \in Ext
    BY <1>10, AtType DEF Materialize
  <2>2. op.hash \in Hash
    BY <2>1 DEF TypeInv, OpInv
  <2>3. OperationType' /\ sys' \in [pc: SysPc, todo: SUBSET Ext] /\ DiskType'
    <3>1. CASE Finish("error") /\ UNCHANGED installed
      <4>1. OperationType' /\ sys' \in [pc: SysPc, todo: SUBSET Ext]
        BY <1>10, <2>1, <3>1, MovesType DEF Materialize, Moves
      <4>2. DiskType'
        BY <1>10, <3>1, <1>2 DEF Materialize
      <4> QED BY <4>1, <4>2
    <3>2. CASE /\ installed' = installed \cup {<<op.ext, op.hash>>}
               /\ op' = [op EXCEPT !.created = <<op.ext, op.hash>> \notin installed, !.pc = "probe"]
               /\ UNCHANGED sys
      <4>1. (<<op.ext, op.hash>> \notin installed) \in BOOLEAN /\ "probe" \in Place
        BY DEF Place
      <4>2. /\ op' \in Op /\ op'.kind = op.kind /\ op'.ext = op.ext /\ op'.pc = "probe"
            /\ op'.hash = op.hash /\ op'.old = op.old /\ op'.sweep = op.sweep
        BY <2>1, <3>2, <4>1 DEF Op
      <4>3. "probe" \in Places[op'.kind]
        BY <2>1, <4>2 DEF Places
      <4>4. OpInv'
        BY <1>10, <2>1, <2>2, <4>2, <4>3 DEF OpInv, TypeInv, Materialize
      <4>5. DiskType'
        BY <1>0, <1>10, <2>1, <2>2, <3>2 DEF DiskType, Materialize, Stay
      <4> QED BY <3>2, <1>0, <4>2, <4>4, <4>5 DEF OperationType, RestType
    <3> QED BY <1>10, <3>1, <3>2 DEF Materialize
  <2> QED BY <1>10, <2>3, <1>3, <1>4, <1>5, TypePartsPrimed DEF Materialize
<1>11. CASE Probe
  <2>1. op # None /\ op.pc = "probe" /\ op.kind \in {"install", "enable"}
    BY <1>11, AtType DEF Probe
  <2>2. Moves
    BY <1>11, <2>1 DEF Probe, Moves, GoesOn, Place, Places
  <2>3. OperationType' /\ sys' \in [pc: SysPc, todo: SUBSET Ext]
    BY <1>11, <2>1, <2>2, MovesType DEF Probe
  <2> QED BY <1>11, <2>3, <1>2, <1>3, <1>4, <1>5, TypePartsPrimed DEF Probe
<1>12. CASE Discard
  <2>1. op # None /\ op.pc \in {"abandon", "discard"} /\ op.kind = "install" /\ op.ext \in Ext
    BY <1>12, AtType DEF Discard
  <2>2. Moves
    BY <1>12, <2>1 DEF Discard, Moves, GoesOn, Place, Places
  <2>3. OperationType' /\ sys' \in [pc: SysPc, todo: SUBSET Ext]
    BY <1>12, <2>1, <2>2, MovesType DEF Discard
  <2>4. DiskType'
    <3>1. installed' \subseteq installed
      BY <1>12 DEF Discard
    <3>2. failures' \in 0..MaxFaults /\ failures =< failures'
      BY <1>0, <1>12, LifecycleAssumption DEF Discard, DiskType
    <3> QED BY <1>0, <1>12, <3>1, <3>2, LifecycleAssumption DEF Discard, DiskType
  <2>5. RestType'
    BY <1>0, <1>12, <2>3 DEF Discard, RestType
  <2> QED BY <1>12, <2>3, <2>4, <2>5, <1>3, <1>5, TypePartsPrimed DEF Discard
<1>13. CASE UnloadOld
  <2>1. op # None /\ op.pc = "unload" /\ op.kind \in {"install", "enable", "disable", "uninstall"} /\ op.ext \in Ext
    BY <1>13, AtType DEF UnloadOld
  <2>2. Moves
    BY <1>13, <2>1 DEF UnloadOld, Moves, GoesOn, Place, Places, AfterUnload
  <2>3. OperationType' /\ sys' \in [pc: SysPc, todo: SUBSET Ext]
    BY <1>13, <2>1, <2>2, MovesType DEF UnloadOld
  <2>4. RunType'
    BY <1>0, <1>3, <1>13, <2>1, UnloadType DEF UnloadOld
  <2> QED BY <1>13, <2>3, <2>4, <1>2, <1>4, <1>5, TypePartsPrimed DEF UnloadOld
<1>14. CASE Open
  <2>1. op # None /\ op.pc = "open" /\ op.kind \in {"install", "enable"} /\ op.ext \in Ext
    BY <1>14, AtType DEF Open
  <2>2. Moves
    BY <1>14, <2>1 DEF Open, Moves, GoesOn, Place, Places
  <2>3. OperationType' /\ sys' \in [pc: SysPc, todo: SUBSET Ext]
    BY <1>14, <2>1, <2>2, MovesType DEF Open
  <2>4. RestType'
    BY <1>0, <1>14, <2>1, <2>3 DEF Open, RestType
  <2> QED BY <1>14, <2>3, <2>4, <1>2, <1>3, <1>5, TypePartsPrimed DEF Open
<1>15. CASE Opened
  <2>1. op # None /\ op.pc = "opening" /\ op.kind \in {"install", "enable"} /\ op.ext \in Ext
    BY <1>15, AtType DEF Opened
  <2>2. Moves
    BY <1>15, <2>1 DEF Opened, Moves, GoesOn, Place, Places
  <2>3. OperationType' /\ sys' \in [pc: SysPc, todo: SUBSET Ext]
    BY <1>15, <2>1, <2>2, MovesType DEF Opened
  <2>4. RestType'
    BY <1>0, <1>15, <2>1, <2>3 DEF Opened, RestType
  <2>5. op.hash \in Hash
    BY <2>1 DEF TypeInv, OpInv
  <2>6. RunType'
    BY <1>0, <1>3, <1>15, <2>1, <2>5, RegisterType DEF Opened, Live
  <2> QED BY <1>15, <2>3, <2>4, <2>6, <1>2, <1>5, TypePartsPrimed DEF Opened
<1> QED BY <1>6, <1>7, <1>8, <1>9, <1>10, <1>11, <1>12, <1>13, <1>14, <1>15

LEMMA WrittenType ==
  ASSUME DiskType, NEW e \in Ext, NEW n \in Entry \cup {None}
  PROVE  Replaced(e, n) \in [Ext -> Entry \cup {None}]
BY DEF DiskType, Replaced

LEMMA WriteDisk ==
  ASSUME DiskType, NEW c \in [Ext -> Entry \cup {None}], Write(c) \/ WriteFails(c),
         UNCHANGED <<installed, trash, staging>>
  PROVE  DiskType'
<1>1. failures' \in 0..MaxFaults /\ failures =< failures'
  BY LifecycleAssumption DEF DiskType, Write, WriteFails
<1>2. catalogue' \in [Ext -> Entry \cup {None}] /\ onFile' \in BOOLEAN
  BY DEF DiskType, Write, WriteFails
<1> QED BY <1>1, <1>2, LifecycleAssumption DEF DiskType

LEMMA Committing ==
  ASSUME TypeInv, RunType,
         Commit \/ CommitFails \/ Restore \/ Restored \/ Settle \/ ListLeftovers \/ Sweep \/ EndSweep
         \/ Quarantine
  PROVE  TypeInv' /\ RunType'
<1> USE DEF disk, runtime, bounds, Stay
<1>0. DiskType /\ RunType /\ RestType /\ QueueType /\ OperationType
  BY TypeParts
<1>2. UNCHANGED <<installed, trash, catalogue, onFile, staging, failures>> => DiskType'
  BY <1>0 DEF DiskType
<1>3. UNCHANGED runtime => RunType'
  BY <1>0 DEF RunType, Hosted
<1>4. ASSUME UNCHANGED <<allowed, loading, turn, damaged, requests, turns>>,
             sys' \in [pc: SysPc, todo: SUBSET Ext]
      PROVE  RestType'
  BY <1>0, <1>4 DEF RestType
<1>5. UNCHANGED queue => QueueType'
  BY <1>0 DEF QueueType
<1>6. CASE Commit
  <2>1. op # None /\ op.pc = "commit" /\ op.kind \in {"install", "enable", "disable", "uninstall"} /\ op.ext \in Ext
    BY <1>6, AtType DEF Commit
  <2>2. Moves
    BY <1>6, <2>1 DEF Commit, Moves, GoesOn, Place, Places, AfterCommit
  <2>3. OperationType' /\ sys' \in [pc: SysPc, todo: SUBSET Ext]
    BY <1>6, <2>1, <2>2, MovesType DEF Commit
  <2>4. Replaced(op.ext, NewEntry) \in [Ext -> Entry \cup {None}]
    BY <1>0, <1>6, <2>1, EntryType, WrittenType DEF Commit
  <2>5. DiskType'
    BY <1>0, <1>2, <1>6, <2>4, WriteDisk DEF Commit
  <2> QED BY <1>6, <2>3, <2>5, <1>3, <1>4, <1>5, TypePartsPrimed DEF Commit
<1>7. CASE CommitFails
  <2>1. op # None /\ op.pc = "commit" /\ op.kind \in {"install", "enable", "disable", "uninstall"} /\ op.ext \in Ext
    BY <1>7, AtType DEF CommitFails
  <2>2. Moves
    BY <1>7, <2>1 DEF CommitFails, Moves, GoesOn, Place, Places, AfterFailure
  <2>3. OperationType' /\ sys' \in [pc: SysPc, todo: SUBSET Ext]
    BY <1>7, <2>1, <2>2, MovesType DEF CommitFails
  <2>4. Replaced(op.ext, NewEntry) \in [Ext -> Entry \cup {None}]
    BY <1>0, <1>7, <2>1, EntryType, WrittenType DEF CommitFails
  <2>5. DiskType'
    BY <1>0, <1>7, <2>4, WriteDisk DEF CommitFails
  <2>6. RunType'
    BY <1>0, <1>3, <1>7, <2>1, UnloadType DEF CommitFails, TryUnload
  <2>7. damaged' \in BOOLEAN
    BY <1>0, <1>7, <2>1 DEF CommitFails, RestType, Busy, RunType, IsLoaded, WorkerRecord
  <2>8. RestType'
    BY <1>0, <1>7, <2>3, <2>7, Zenon DEF CommitFails, RestType
  <2> QED BY <1>7, <2>3, <2>5, <2>6, <2>8, <1>5, TypePartsPrimed DEF CommitFails
<1>8. CASE Restore
  <2>1. op # None /\ op \in Op /\ op.pc = "restore" /\ op.kind \in {"install", "disable"} /\ op.ext \in Ext
    BY <1>8, AtType DEF Restore
  <2>2. OperationType' /\ sys' \in [pc: SysPc, todo: SUBSET Ext]
    <3>1. CASE Finish("error")
      BY <1>8, <2>1, <3>1, MovesType DEF Restore, Moves
    <3>2. CASE op.old # None /\ op.old.state = "enabled" /\ GoTo("restoring")
      <4>1. "restoring" \in Place /\ "restoring" \in Places[op.kind]
        BY <2>1 DEF Place, Places
      <4>2. /\ op' \in Op /\ op'.kind = op.kind /\ op'.ext = op.ext /\ op'.pc = "restoring"
            /\ op'.hash = op.hash /\ op'.old = op.old /\ op'.sweep = op.sweep /\ op'.created = op.created
        BY <2>1, <3>2, <4>1 DEF Op, GoTo
      <4>3. OpInv'
        BY <1>8, <2>1, <3>2, <4>1, <4>2 DEF OpInv, TypeInv, Restore
      <4> QED BY <1>0, <3>2, <4>2, <4>3 DEF OperationType, GoTo, RestType
    <3> QED BY <1>8, <3>1, <3>2 DEF Restore
  <2>3. RestType'
    BY <1>0, <1>8, <2>1, <2>2 DEF Restore, RestType
  <2> QED BY <1>8, <2>2, <2>3, <1>2, <1>3, <1>5, TypePartsPrimed DEF Restore
<1>9. CASE Restored
  <2>1. op # None /\ op \in Op /\ op.pc = "restoring" /\ op.ext \in Ext
    BY <1>9, AtType DEF Restored
  <2>2. OperationType' /\ sys' \in [pc: SysPc, todo: SUBSET Ext]
    BY <1>9, <2>1, MovesType DEF Restored, Moves
  <2>3. RestType'
    BY <1>0, <1>9, <2>1, <2>2 DEF Restored, RestType
  <2>4. op.old.hash \in Hash
    BY <2>1 DEF TypeInv, OpInv, Op, Entry
  <2>5. RunType'
    BY <1>0, <1>3, <1>9, <2>1, <2>4, RegisterType DEF Restored, Live
  <2> QED BY <1>9, <2>2, <2>3, <2>5, <1>2, <1>5, TypePartsPrimed DEF Restored
<1>10. CASE Settle
  <2>1. op # None /\ op \in Op /\ op.pc = "settle" /\ op.kind = "install" /\ op.ext \in Ext
    BY <1>10, AtType DEF Settle
  <2>2. OperationType' /\ sys' \in [pc: SysPc, todo: SUBSET Ext]
    <3>1. CASE GoTo("quarantine") \/ Finish("done")
      BY <1>10, <2>1, <3>1, MovesType DEF Settle, Moves, GoesOn, Place, Places
    <3> DEFINE left == [staging |-> FALSE, content |-> {{h} : h \in Contents(op.ext) \ {op.hash}},
                        trash |-> trash[op.ext]]
    <3>2. CASE op' = [op EXCEPT !.pc = "sweep", !.sweep = left] /\ UNCHANGED sys
      <4>1. left \in Leftovers /\ left.trash = trash[op.ext] /\ trash[op.ext] \in Nat
        <5>1. trash[op.ext] \in 0..MaxFaults /\ trash[op.ext] \in Nat
          BY <1>0, <2>1, LifecycleAssumption DEF DiskType
        <5>2. {{h} : h \in Contents(op.ext) \ {op.hash}} \in SUBSET SUBSET Hash
          BY DEF Contents
        <5> QED BY <5>1, <5>2 DEF Leftovers
      <4> HIDE DEF left
      <4>2. /\ op' \in Op /\ op'.kind = op.kind /\ op'.ext = op.ext /\ op'.pc = "sweep"
            /\ op'.hash = op.hash /\ op'.old = op.old /\ op'.sweep = left /\ op'.created = op.created
        BY <2>1, <3>2, <4>1 DEF Op, Place
      <4>3. "sweep" \in Places[op'.kind]
        BY <2>1, <4>2 DEF Places
      <4>4. OpInv'
        BY <1>10, <2>1, <4>1, <4>2, <4>3 DEF OpInv, TypeInv, Settle
      <4> QED BY <1>0, <3>2, <4>2, <4>4 DEF OperationType, RestType
    <3> QED BY <1>10, <3>1, <3>2 DEF Settle
  <2> QED BY <1>10, <2>2, <1>2, <1>3, <1>4, <1>5, TypePartsPrimed DEF Settle
<1>11. CASE ListLeftovers
  <2>1. op # None /\ op \in Op /\ op.pc = "list" /\ op.kind = "uninstall" /\ op.ext \in Ext
    BY <1>11, AtType DEF ListLeftovers
  <2>2. OperationType'
    <3> DEFINE left == [staging |-> staging[op.ext] # None, content |-> {Contents(op.ext)} \ {{}},
                        trash |-> trash[op.ext]]
    <3>1. op' = [op EXCEPT !.pc = "sweep", !.sweep = left]
      BY <1>11 DEF ListLeftovers
    <3>2. left \in Leftovers /\ left.trash = trash[op.ext] /\ trash[op.ext] \in Nat
      <4>1. trash[op.ext] \in 0..MaxFaults /\ trash[op.ext] \in Nat
        BY <1>0, <2>1, LifecycleAssumption DEF DiskType
      <4>2. {Contents(op.ext)} \ {{}} \in SUBSET SUBSET Hash
        BY DEF Contents
      <4>3. (staging[op.ext] # None) \in BOOLEAN
        OBVIOUS
      <4> QED BY <4>1, <4>2, <4>3 DEF Leftovers
    <3> HIDE DEF left
    <3>3. /\ op' \in Op /\ op'.kind = op.kind /\ op'.ext = op.ext /\ op'.pc = "sweep"
          /\ op'.hash = op.hash /\ op'.old = op.old /\ op'.sweep = left /\ op'.created = op.created
      BY <2>1, <3>1, <3>2 DEF Op, Place
    <3>4. "sweep" \in Places[op'.kind]
      BY <2>1, <3>3 DEF Places
    <3>5. OpInv'
      BY <1>11, <2>1, <3>2, <3>3, <3>4 DEF OpInv, TypeInv, ListLeftovers
    <3> QED BY <3>3, <3>5 DEF OperationType
  <2>3. sys' \in [pc: SysPc, todo: SUBSET Ext]
    BY <1>0, <1>11 DEF ListLeftovers, RestType
  <2> QED BY <1>11, <2>2, <2>3, <1>2, <1>3, <1>4, <1>5, TypePartsPrimed DEF ListLeftovers
<1>13. CASE EndSweep
  <2>1. op # None /\ op \in Op /\ op.pc = "sweep" /\ op.ext \in Ext
    BY <1>13, AtType DEF EndSweep
  <2>2. OperationType' /\ sys' \in [pc: SysPc, todo: SUBSET Ext]
    BY <1>13, <2>1, MovesType DEF EndSweep, Moves
  <2>3. DiskType'
    <3>1. CASE op.kind = "install" /\ op.complete
      <4>1. [NewEntry EXCEPT !.pending = FALSE] \in Entry
        <5>1. op.hash \in Hash
          BY <2>1, <3>1 DEF TypeInv, OpInv
        <5> QED BY <3>1, <5>1 DEF NewEntry, Entry
      <4> DEFINE c == Replaced(op.ext, [NewEntry EXCEPT !.pending = FALSE])
      <4>2. c \in [Ext -> Entry \cup {None}]
        BY <1>0, <2>1, <4>1, WrittenType
      <4>3. Write(c) \/ WriteFails(c)
        BY <1>13, <3>1 DEF EndSweep
      <4> HIDE DEF c
      <4> QED BY <1>0, <1>13, <4>2, <4>3, WriteDisk DEF EndSweep
    <3>2. CASE ~(op.kind = "install" /\ op.complete)
      BY <1>2, <1>13, <3>2 DEF EndSweep
    <3> QED BY <3>1, <3>2
  <2> QED BY <1>13, <2>2, <2>3, <1>3, <1>4, <1>5, TypePartsPrimed DEF EndSweep
<1>14. CASE Quarantine
  <2>1. op # None /\ op \in Op /\ op.ext \in Ext
    BY <1>14, AtType DEF Quarantine, TypeInv, OpInv, At
  <2>2. OperationType' /\ sys' \in [pc: SysPc, todo: SUBSET Ext]
    BY <1>14, <2>1, MovesType DEF Quarantine, Moves
  <2>3. DiskType'
    <3>1. CASE Readable /\ catalogue[op.ext] # None
      <4>1. [catalogue[op.ext] EXCEPT !.state = "quarantined", !.pending = FALSE] \in Entry
        <5>1. catalogue[op.ext] \in Entry
          BY <1>0, <2>1, <3>1 DEF DiskType
        <5> QED BY <5>1 DEF Entry
      <4> DEFINE c == Replaced(op.ext, [catalogue[op.ext] EXCEPT !.state = "quarantined", !.pending = FALSE])
      <4>2. c \in [Ext -> Entry \cup {None}]
        BY <1>0, <2>1, <4>1, WrittenType
      <4>3. Write(c) \/ WriteFails(c)
        BY <1>14, <3>1 DEF Quarantine
      <4> HIDE DEF c
      <4> QED BY <1>0, <1>14, <4>2, <4>3, WriteDisk DEF Quarantine
    <3>2. CASE ~(Readable /\ catalogue[op.ext] # None)
      BY <1>2, <1>14, <3>2 DEF Quarantine
    <3> QED BY <3>1, <3>2
  <2> QED BY <1>14, <2>2, <2>3, <1>3, <1>4, <1>5, TypePartsPrimed DEF Quarantine
<1>12. CASE Sweep
  <2>1. op # None /\ op \in Op /\ op.pc = "sweep" /\ op.ext \in Ext /\ op.kind \in {"install", "uninstall"}
    BY <1>12, AtType DEF Sweep
  <2>2. /\ op.sweep \in Leftovers /\ op.sweep.trash =< trash[op.ext] /\ OpInv
        /\ trash[op.ext] \in 0..MaxFaults
    BY <1>0, <2>1 DEF TypeInv, OpInv, Op, DiskType
  <2>3. ASSUME NEW left \in Leftovers, NEW b \in BOOLEAN, left.trash =< trash'[op.ext],
               op' = [op EXCEPT !.sweep = left, !.complete = b]
        PROVE  OperationType'
    <3>1. /\ op' \in Op /\ op'.kind = op.kind /\ op'.ext = op.ext /\ op'.pc = op.pc
          /\ op'.hash = op.hash /\ op'.old = op.old /\ op'.sweep = left /\ op'.created = op.created
      BY <2>1, <2>3 DEF Op
    <3>2. OpInv'
      BY <2>1, <2>2, <2>3, <3>1 DEF OpInv
    <3> QED BY <3>1, <3>2 DEF OperationType
  <2>4. op.complete \in BOOLEAN /\ \A left : [op EXCEPT !.sweep = left] = [op EXCEPT !.sweep = left, !.complete = op.complete]
    BY <2>1 DEF Op
  <2>5. /\ UNCHANGED <<catalogue, onFile, runtime, allowed, loading, queue, sys, turn, damaged, requests, turns>>
    BY <1>12 DEF Sweep
  <2>6. ASSUME NEW left \in Leftovers, left.trash =< trash[op.ext], NEW moved, NEW unmoved,
               Swept(left, moved, unmoved)
        PROVE  /\ OperationType' /\ trash' \in [Ext -> 0..MaxFaults] /\ failures' \in 0..MaxFaults
               /\ \A e \in Ext : trash'[e] =< failures'
               /\ moved \/ unmoved
    <3>1. trash[op.ext] \in Nat /\ failures \in Nat /\ MaxFaults \in Nat /\ trash \in [Ext -> 0..MaxFaults]
          /\ \A e \in Ext : trash[e] =< failures
      BY <1>0, <2>1, LifecycleAssumption DEF DiskType
    <3>2. CASE op' = [op EXCEPT !.sweep = left] /\ moved /\ UNCHANGED <<trash, failures>>
      <4>1. left.trash =< trash'[op.ext]
        BY <2>6, <3>2
      <4>2. op' = [op EXCEPT !.sweep = left, !.complete = op.complete]
        BY <2>4, <3>2
      <4> QED BY <1>0, <2>3, <2>4, <3>1, <3>2, <4>1, <4>2 DEF DiskType
    <3>3. CASE /\ failures < MaxFaults /\ failures' = failures + 1
               /\ op' = [op EXCEPT !.sweep = left, !.complete = FALSE]
               /\ \/ moved /\ trash' = [trash EXCEPT ![op.ext] = @ + 1]
                  \/ unmoved /\ UNCHANGED trash
      <4>1. trash' \in [Ext -> 0..MaxFaults] /\ (\A e \in Ext : trash'[e] =< failures')
            /\ trash[op.ext] =< trash'[op.ext] /\ trash'[op.ext] \in Nat
        BY <2>1, <3>1, <3>3
      <4>2. left.trash =< trash'[op.ext]
        BY <2>6, <3>1, <4>1 DEF Leftovers
      <4>3. OperationType'
        BY <2>3, <3>3, <4>2
      <4>4. failures' \in 0..MaxFaults
        BY <3>1, <3>3
      <4> QED BY <3>3, <4>1, <4>3, <4>4
    <3> QED BY <2>6, <3>2, <3>3 DEF Swept
  <2>7. OperationType' /\ DiskType'
    <3>1. CASE SweepStaging
      <4> DEFINE left == [op.sweep EXCEPT !.staging = FALSE]
      <4>1. left \in Leftovers /\ left.trash = op.sweep.trash
        BY <2>2 DEF Leftovers
      <4>2. Swept(left, staging' = [staging EXCEPT ![op.ext] = None], UNCHANGED staging) /\ UNCHANGED installed
        BY <3>1 DEF SweepStaging
      <4> HIDE DEF left
      <4>3. /\ OperationType' /\ trash' \in [Ext -> 0..MaxFaults] /\ failures' \in 0..MaxFaults
            /\ \A e \in Ext : trash'[e] =< failures'
            /\ staging' = [staging EXCEPT ![op.ext] = None] \/ UNCHANGED staging
        BY <2>2, <2>6, <4>1, <4>2
      <4> QED BY <1>0, <2>5, <4>2, <4>3 DEF DiskType
    <3>2. CASE SweepContent
      <4>1. PICK hs \in op.sweep.content :
              Swept([op.sweep EXCEPT !.content = @ \ {hs}],
                    installed' = installed \ ({op.ext} \X hs), UNCHANGED installed)
        BY <3>2 DEF SweepContent
      <4> DEFINE left == [op.sweep EXCEPT !.content = @ \ {hs}]
      <4>2. left \in Leftovers /\ left.trash = op.sweep.trash
        BY <2>2 DEF Leftovers
      <4>3. Swept(left, installed' = installed \ ({op.ext} \X hs), UNCHANGED installed) /\ UNCHANGED staging
        BY <3>2, <4>1 DEF SweepContent
      <4> HIDE DEF left
      <4>4. /\ OperationType' /\ trash' \in [Ext -> 0..MaxFaults] /\ failures' \in 0..MaxFaults
            /\ \A e \in Ext : trash'[e] =< failures'
            /\ installed' = installed \ ({op.ext} \X hs) \/ UNCHANGED installed
        BY <2>2, <2>6, <4>2, <4>3
      <4>5. installed' \subseteq installed
        BY <4>4
      <4> QED BY <1>0, <2>5, <4>3, <4>4, <4>5 DEF DiskType
    <3>3. CASE SweepTrash
      <4>1. op.sweep.trash \in Nat /\ op.sweep.trash > 0 /\ trash[op.ext] \in Nat /\ trash[op.ext] > 0
            /\ failures \in Nat /\ MaxFaults \in Nat /\ op.sweep.trash - 1 \in 0..MaxFaults
        BY <2>2, <1>0, <3>3, LifecycleAssumption DEF Leftovers, SweepTrash, DiskType
      <4> DEFINE left == [op.sweep EXCEPT !.trash = @ - 1]
      <4>2. left \in Leftovers /\ left.trash = op.sweep.trash - 1
        BY <2>2, <4>1 DEF Leftovers
      <4>3. [op EXCEPT !.sweep.trash = @ - 1] = [op EXCEPT !.sweep = left, !.complete = op.complete]
        BY <2>1, <2>2 DEF Op, Leftovers
      <4>4. [op EXCEPT !.sweep.trash = @ - 1, !.complete = FALSE] = [op EXCEPT !.sweep = left, !.complete = FALSE]
        BY <2>1, <2>2 DEF Op, Leftovers
      <4> HIDE DEF left
      <4>5. CASE /\ trash' = [trash EXCEPT ![op.ext] = @ - 1]
                 /\ op' = [op EXCEPT !.sweep.trash = @ - 1]
                 /\ UNCHANGED failures
        <5>1. left.trash =< trash'[op.ext]
          BY <1>0, <2>1, <2>2, <4>1, <4>2, <4>5 DEF DiskType
        <5>2. OperationType'
          BY <2>3, <2>4, <4>2, <4>3, <4>5, <5>1
        <5>3. trash' \in [Ext -> 0..MaxFaults] /\ \A e \in Ext : trash'[e] =< failures'
          BY <1>0, <2>1, <4>1, <4>5 DEF DiskType
        <5> QED BY <1>0, <2>5, <3>3, <4>5, <5>2, <5>3 DEF DiskType, SweepTrash
      <4>6. CASE /\ failures < MaxFaults /\ failures' = failures + 1
                 /\ op' = [op EXCEPT !.sweep.trash = @ - 1, !.complete = FALSE]
                 /\ UNCHANGED trash
        <5>1. left.trash =< trash'[op.ext]
          BY <2>2, <4>1, <4>2, <4>6
        <5>2. OperationType'
          BY <2>3, <4>2, <4>4, <4>6, <5>1
        <5>3. failures' \in 0..MaxFaults /\ \A e \in Ext : trash'[e] =< failures'
          BY <1>0, <4>1, <4>6 DEF DiskType
        <5> QED BY <1>0, <2>5, <3>3, <4>6, <5>2, <5>3 DEF DiskType, SweepTrash
      <4> QED BY <3>3, <4>5, <4>6 DEF SweepTrash
    <3> QED BY <1>12, <3>1, <3>2, <3>3 DEF Sweep
  <2>8. sys' \in [pc: SysPc, todo: SUBSET Ext]
    BY <1>0, <2>5 DEF RestType
  <2> QED BY <2>5, <2>7, <2>8, <1>3, <1>4, <1>5, TypePartsPrimed
<1> QED BY <1>6, <1>7, <1>8, <1>9, <1>10, <1>11, <1>12, <1>13, <1>14

LEMMA CrashType ==
  ASSUME TypeInv, RunType, Crash
  PROVE  TypeInv' /\ RunType'
<1>0. DiskType /\ RunType /\ RestType /\ QueueType /\ OperationType
  BY TypeParts
<1>1. DiskType'
  <2>1. failures' \in 0..MaxFaults /\ failures =< failures'
    BY <1>0, LifecycleAssumption DEF Crash, DiskType
  <2> QED BY <1>0, <2>1, LifecycleAssumption DEF Crash, DiskType, disk
<1>2. RunType'
  BY DEF Crash, RunType, Hosted, WorkerRecord
<1>3. RestType'
  BY <1>0 DEF Crash, RestType, SysPc
<1>4. QueueType' /\ OperationType'
  <2>1. queue' = <<>> /\ op' = None
    BY DEF Crash
  <2>2. QueueType'
    BY <2>1, EmptySeq DEF QueueType
  <2> QED BY <2>1, <2>2 DEF OperationType
<1> QED BY <1>1, <1>2, <1>3, <1>4, TypePartsPrimed

LEMMA TypeStep == TypeInv /\ RunType /\ [Next]_vars => TypeInv' /\ RunType'
<1> SUFFICES ASSUME TypeInv, RunType, [Next]_vars PROVE TypeInv' /\ RunType'
  OBVIOUS
<1>1. CASE Next
  BY <1>1, Beside, Working, Committing, CrashType DEF Next, Work
<1>2. CASE UNCHANGED vars
  <2>1. DiskType /\ RunType /\ RestType /\ QueueType /\ OperationType
    BY TypeParts
  <2>2. DiskType' /\ RestType' /\ QueueType'
    BY <1>2, <2>1 DEF vars, DiskType, RestType, QueueType
  <2>3. RunType' /\ OperationType'
    BY <1>2, <2>1 DEF vars, RunType, Hosted, OperationType, OpInv
  <2> QED BY <2>2, <2>3, TypePartsPrimed
<1> QED BY <1>1, <1>2

(* Every variable keeps its type, for any extensions, versions, workers and *)
(* requests, and any number of faults and crashes.                          *)
THEOREM TypeCorrect == Spec => []TypeOK
<1>1. TypeInv => TypeOK
  BY DEF TypeInv
<1> QED BY TypeInit, TypeStep, <1>1, PTL DEF Spec

-----------------------------------------------------------------------------
(* What may be called.                                                     *)
Version(e) == worker[tools[e]].hash

(* No step but the end of an opening adds tools to the registry.           *)
Shrinks == \A e \in Ext : tools'[e] # None => tools[e] # None /\ Version(e)' = Version(e)

Adds(e, h) ==
  /\ ToolsInUse(e) \cap Tools[e][h] = {}
  /\ \E w \in Worker \ Live : Register(e, w, h)

LEMMA Still ==
  ASSUME UNCHANGED runtime
  PROVE  Shrinks
BY DEF Shrinks, runtime, Version

LEMMA UnloadShrinks ==
  ASSUME TypeInv, RunType, NEW e \in Ext, Unload(e)
  PROVE  Shrinks /\ tools'[e] = None
<1>1. CASE IsLoaded(e)
  <2>1. /\ worker' = [worker EXCEPT ![host[e]] = None]
        /\ tools' = [tools EXCEPT ![e] = None]
    BY <1>1 DEF Unload
  <2>2. \A f \in Ext \ {e} : tools[f] # None => tools[f] # host[e]
    BY <1>1 DEF RunType, Hosted, IsLoaded
  <2>3. tools \in [Ext -> Worker \cup {None}] /\ worker \in [Worker -> WorkerRecord \cup {None}]
    BY DEF RunType, WorkerRecord
  <2> QED BY <2>1, <2>2, <2>3 DEF Shrinks, Version
<1>2. CASE ~IsLoaded(e)
  BY <1>2, Still DEF Unload, RunType, Hosted, IsLoaded, runtime
<1> QED BY <1>1, <1>2

LEMMA RuntimeMoves ==
  ASSUME TypeInv, RunType, Next
  PROVE  \/ Shrinks
         \/ Opened /\ Adds(op.ext, op.hash)
         \/ Restored /\ Adds(op.ext, op.old.hash)
<1> USE DEF runtime, Stay
<1>1. ASSUME Begin \/ Start \/ StartList \/ InitStaging \/ Materialize \/ Probe \/ Discard \/ Open
             \/ Commit \/ Restore \/ Settle \/ ListLeftovers \/ Sweep \/ EndSweep \/ Quarantine
      PROVE  Shrinks
  BY <1>1, Still DEF Begin, Start, StartList, InitStaging, Materialize, Probe, Discard, Open,
     Commit, Restore, Settle, ListLeftovers, Sweep, EndSweep, Quarantine
<1>2. ASSUME ActivateNext \/ TurnStarts \/ PrepareFull \/ TurnEnds \/ \E e \in Ext : EditStaging(e) \/ \E k \in Kinds : Request(k, e)
      PROVE  Shrinks
  BY <1>2, Still DEF ActivateNext, TurnStarts, PrepareFull, TurnEnds, EditStaging, Request
<1>3. ASSUME Rollback \/ PrepareRestricted \/ Close \/ Crash
      PROVE  Shrinks
  BY <1>3 DEF Rollback, PrepareRestricted, Close, Crash, ShutdownAll, Shrinks
<1>4. ASSUME UnloadOld \/ CommitFails
      PROVE  Shrinks
  <2>1. op.ext \in Ext
    BY <1>4, AtType DEF UnloadOld, CommitFails
  <2>2. UNCHANGED runtime \/ Unload(op.ext)
    BY <1>4 DEF UnloadOld, CommitFails, TryUnload
  <2> QED BY <2>1, <2>2, Still, UnloadShrinks
<1>5. ASSUME NEW w \in Worker, WorkerFault(w)
      PROVE  Shrinks
  <2>1. worker[w].ext \in Ext
    BY <1>5 DEF WorkerFault, RunType, Live
  <2>2. CASE host[worker[w].ext] \in {w, None}
    <3>1. /\ tools' = [tools EXCEPT ![worker[w].ext] = None]
          /\ worker' = [worker EXCEPT ![w] = None]
      BY <1>5, <2>2 DEF WorkerFault
    <3>2. \A e \in Ext \ {worker[w].ext} : tools[e] # w
      BY <2>1, LifecycleAssumption DEF RunType, Hosted
    <3> QED BY <2>1, <3>1, <3>2 DEF RunType, Shrinks, Version
  <2>3. CASE host[worker[w].ext] \notin {w, None}
    <3>1. tools' = tools /\ worker' = [worker EXCEPT ![w] = None]
      BY <1>5, <2>3 DEF WorkerFault
    <3>2. \A e \in Ext : tools[e] # w
      BY <2>3, LifecycleAssumption DEF RunType, Hosted
    <3> QED BY <3>1, <3>2 DEF RunType, Shrinks, Version
  <2> QED BY <2>2, <2>3
<1>6. ASSUME NEW w \in Worker, CallEnds(w)
      PROVE  Shrinks
  <2>1. worker[w] \in WorkerRecord
    BY <1>6 DEF CallEnds, RunType, Live, WorkerRecord
  <2>2. tools' = tools /\ worker' = [worker EXCEPT ![w] = [worker[w] EXCEPT !.busy = FALSE]]
    BY <1>6 DEF CallEnds
  <2>3. [worker[w] EXCEPT !.busy = FALSE].hash = worker[w].hash
    BY <2>1 DEF WorkerRecord
  <2> QED BY <2>2, <2>3 DEF RunType, Shrinks, Version
<1>7. ASSUME NEW e \in Ext, CallBegins(e)
      PROVE  Shrinks
  <2>1. tools[e] \in Worker /\ worker[tools[e]] \in WorkerRecord
    BY <1>7 DEF CallBegins, RunType, Hosted, WorkerRecord
  <2>2. tools' = tools /\ worker' = [worker EXCEPT ![tools[e]] = [worker[tools[e]] EXCEPT !.busy = TRUE]]
    BY <1>7 DEF CallBegins
  <2>3. [worker[tools[e]] EXCEPT !.busy = TRUE].hash = worker[tools[e]].hash
    BY <2>1 DEF WorkerRecord
  <2> QED BY <2>1, <2>2, <2>3 DEF RunType, Shrinks, Version
<1>8. CASE Opened
  BY <1>8, Still DEF Opened, Adds
<1>9. CASE Restored
  BY <1>9, Still DEF Restored, Adds
<1> QED BY <1>1, <1>2, <1>3, <1>4, <1>5, <1>6, <1>7, <1>8, <1>9 DEF Next, Work, Prepare

(* No two extensions in the registry declare the same tool.                *)
NamesInv ==
  \A e \in Ext, f \in Ext :
    e # f /\ tools[e] # None /\ tools[f] # None =>
      Tools[e][Version(e)] \cap Tools[f][Version(f)] = {}

LEMMA AddsKeeps ==
  ASSUME RunType, NEW x \in Ext, NEW h \in Hash, Adds(x, h)
  PROVE  /\ \A e \in Ext \ {x} : tools'[e] = tools[e]
         /\ \A e \in Ext \ {x} : tools[e] # None => Version(e)' = Version(e)
         /\ tools'[x] # None /\ Version(x)' = h
<1>1. PICK w \in Worker \ Live : Register(x, w, h)
  BY DEF Adds
<1>2. tools' = [tools EXCEPT ![x] = w]
      /\ worker' = [worker EXCEPT ![w] = [ext |-> x, hash |-> h, busy |-> FALSE]]
  BY <1>1 DEF Register
<1>3. tools \in [Ext -> Worker \cup {None}] /\ w # None /\ worker \in [Worker -> WorkerRecord \cup {None}]
  BY LifecycleAssumption DEF RunType, WorkerRecord
<1>4. \A e \in Ext : tools[e] # w
  BY <1>3 DEF RunType, Hosted, Live
<1>5. worker'[w].hash = h
  BY <1>2, <1>3
<1> QED BY <1>2, <1>3, <1>4, <1>5 DEF Version

LEMMA NamesStep ==
  ASSUME TypeInv, RunType, NamesInv, [Next]_vars
  PROVE  NamesInv'
<1>1. CASE Shrinks
  BY <1>1 DEF Shrinks, NamesInv
<1>2. ASSUME NEW x \in Ext, NEW h \in Hash, Adds(x, h)
      PROVE  NamesInv'
  <2>1. \A e \in Ext \ {x} : tools[e] # None => Tools[x][h] \cap Tools[e][Version(e)] = {}
    BY <1>2 DEF Adds, ToolsInUse, Version
  <2> QED BY <1>2, <2>1, AddsKeeps DEF NamesInv
<1>3. CASE Next
  <2>1. CASE Opened /\ Adds(op.ext, op.hash)
    <3>1. op.ext \in Ext /\ op.hash \in Hash
      BY <2>1, AtType DEF Opened, TypeInv, OpInv
    <3> QED BY <1>2, <2>1, <3>1
  <2>2. CASE Restored /\ Adds(op.ext, op.old.hash)
    <3>1. op.ext \in Ext /\ op.old.hash \in Hash
      BY <2>2, AtType DEF Restored, TypeInv, OpInv, Op, Entry
    <3> QED BY <1>2, <2>2, <3>1
  <2> QED BY <1>1, <1>3, <2>1, <2>2, RuntimeMoves
<1>4. CASE UNCHANGED vars
  BY <1>1, <1>4, Still DEF vars, runtime
<1> QED BY <1>3, <1>4

(* Whatever extensions are installed, loaded, replaced, at fault or taken  *)
(* back, a tool in the registry belongs to an open worker of its extension *)
(* and no two extensions offer the same one.                               *)
THEOREM ToolsAreServed == Spec => []ToolsServed
<1>1. Init => NamesInv
  BY DEF Init, NamesInv
<1>2. RunType /\ NamesInv => ToolsServed
  <2> SUFFICES ASSUME RunType, NamesInv, NEW e \in Ext
               PROVE  /\ tools[e] = host[e]
                      /\ tools[e] # None =>
                           /\ tools[e] \in Live /\ worker[tools[e]].ext = e
                           /\ Tools[e][worker[tools[e]].hash] \cap ToolsInUse(e) = {}
    BY DEF ToolsServed
  <2>1. tools[e] = host[e] /\ (tools[e] # None => tools[e] \in Live /\ worker[tools[e]].ext = e)
    BY DEF RunType, Hosted, Live
  <2>2. tools[e] # None => Tools[e][worker[tools[e]].hash] \cap ToolsInUse(e) = {}
    BY DEF NamesInv, ToolsInUse, Version
  <2> QED BY <2>1, <2>2
<1> QED BY <1>1, <1>2, NamesStep, TypeInit, TypeStep, PTL DEF Spec

-----------------------------------------------------------------------------
(* The catalogue and the content.  Until its commit an operation works on  *)
(* the entry it found, and content it created is not the entry's; an       *)
(* install sweeps around the version it committed, an uninstall when its   *)
(* entry is gone.                                                          *)
Undone == {"materialize", "probe", "abandon", "unload", "open", "opening", "commit",
           "discard", "restore", "restoring"}
BackedInv == Verified(catalogue) /\ \A e \in Ext : catalogue[e] # None => onFile
Found ==
  op.pc \in Undone =>
    /\ op.old = catalogue[op.ext]
    /\ op.created /\ catalogue[op.ext] # None => catalogue[op.ext].hash # op.hash
Committed ==
  op.kind = "install" /\ op.pc \in {"settle", "sweep"} =>
    /\ catalogue[op.ext] # None /\ catalogue[op.ext].hash = op.hash
    /\ op.pc = "sweep" => \A hs \in op.sweep.content : op.hash \notin hs
Gone == op.kind = "uninstall" /\ op.pc \in {"list", "sweep"} => catalogue[op.ext] = None
StoreInv == BackedInv /\ (op # None => Found /\ Committed /\ Gone)

LEMMA WriteBacks ==
  ASSUME BackedInv, NEW c \in [Ext -> Entry \cup {None}], Write(c) \/ WriteFails(c), UNCHANGED installed
  PROVE  BackedInv'
<1>1. CASE Write(c)
  BY <1>1 DEF Write, BackedInv, Verified
<1>2. CASE WriteFails(c)
  BY <1>2 DEF WriteFails, BackedInv, Verified
<1> QED BY <1>1, <1>2

LEMMA NothingToSay ==
  ASSUME BackedInv', op' = None \/ op'.pc \in {"start", "quarantine"}
  PROVE  StoreInv'
BY DEF StoreInv, Found, Committed, Gone, Undone

LEMMA BackedStays ==
  ASSUME BackedInv, UNCHANGED <<catalogue, onFile>>, installed \subseteq installed'
  PROVE  BackedInv'
BY DEF BackedInv, Verified

LEMMA StaysUndone ==
  ASSUME TypeInv, StoreInv, op # None, op.pc \in Undone, NEW pc \in Undone, pc \in Place, GoTo(pc),
         UNCHANGED <<catalogue, onFile>>, BackedInv'
  PROVE  StoreInv'
<1>1. op \in Op
  BY OpShape
<1>2. /\ op'.pc = pc /\ op'.ext = op.ext /\ op'.old = op.old /\ op'.created = op.created
      /\ op'.hash = op.hash /\ op'.kind = op.kind
  BY <1>1 DEF GoTo, Op
<1>3. Found'
  BY <1>2 DEF StoreInv, Found
<1>4. Committed' /\ Gone'
  BY <1>2 DEF Committed, Gone, Undone
<1> QED BY <1>3, <1>4 DEF StoreInv

LEMMA StoreStep ==
  ASSUME TypeInv, RunType, StoreInv, [Next]_vars
  PROVE  StoreInv'
<1> USE DEF disk, runtime, bounds, Stay
<1>1. UNCHANGED <<installed, catalogue, onFile>> => BackedInv'
  BY BackedStays DEF StoreInv
<1>2. ASSUME UNCHANGED <<installed, catalogue, onFile, op>>
      PROVE  StoreInv'
  BY <1>2, <1>1 DEF StoreInv, Found, Committed, Gone
<1>3. ASSUME \/ TurnEnds \/ Close \/ PrepareRestricted \/ PrepareFull \/ Prepare
             \/ \E e \in Ext : CallBegins(e) \/ EditStaging(e) \/ \E kind \in Kinds : Request(kind, e)
             \/ \E w \in Worker : WorkerFault(w) \/ CallEnds(w)
      PROVE  StoreInv'
  BY <1>2, <1>3 DEF TurnEnds, Close, PrepareRestricted, PrepareFull, Prepare, ActivateNext, TurnStarts,
     Rollback, CallBegins, EditStaging, Request, WorkerFault, CallEnds
<1>4. CASE Crash \/ StartList \/ InitStaging
  BY <1>1, <1>4, NothingToSay DEF Crash, StartList, InitStaging, Finish
<1>5. CASE Begin
  <2>1. op'.pc = "start"
    <3>1. queue \in Seq(Waiting) /\ queue # <<>>
      BY <1>5 DEF TypeInv, Begin
    <3>2. Head(queue) \in Waiting
      BY <3>1
    <3> QED BY <1>5, <3>2 DEF Begin, Waiting
  <2> QED BY <1>1, <1>5, <2>1, NothingToSay DEF Begin
<1>6. CASE Start
  <2>1. op # None /\ op \in Op /\ op.ext \in Ext
    BY <1>6, AtType DEF Start, TypeInv, OpInv
  <2>2. BackedInv' /\ UNCHANGED <<catalogue, onFile>>
    BY <1>1, <1>6 DEF Start
  <2>3. CASE Finish("error") \/ Finish("done")
    BY <2>2, <2>3, NothingToSay DEF Finish
  <2>4. CASE op' = [op EXCEPT !.old = catalogue[op.ext],
                            !.hash = IF op.kind = "install" THEN staging[op.ext]
                                     ELSE IF catalogue[op.ext] = None THEN None
                                     ELSE catalogue[op.ext].hash,
                            !.pc = IF op.kind = "install" THEN "materialize" ELSE "unload"]
    <3>1. /\ op'.old = catalogue[op.ext] /\ op'.ext = op.ext /\ op'.created = op.created
          /\ op'.pc \in {"materialize", "unload"} /\ op'.kind = op.kind
      BY <2>1, <2>4 DEF Op
    <3>2. op.created = FALSE
      BY <1>6, <2>1 DEF Start, At, TypeInv, OpInv
    <3>3. Found'
      BY <2>2, <3>1, <3>2 DEF Found
    <3>4. Committed' /\ Gone'
      BY <3>1 DEF Committed, Gone
    <3> QED BY <2>2, <3>3, <3>4 DEF StoreInv
  <2> QED BY <1>6, <2>3, <2>4 DEF Start
<1>7. CASE Materialize
  <2>1. op # None /\ op \in Op /\ op.pc = "materialize" /\ op.kind = "install" /\ op.ext \in Ext
    BY <1>7, AtType DEF Materialize
  <2>2. BackedInv' /\ UNCHANGED <<catalogue, onFile>>
    BY <1>7, BackedStays DEF Materialize, StoreInv
  <2>3. CASE Finish("error")
    BY <2>2, <2>3, NothingToSay DEF Finish
  <2>4. CASE op' = [op EXCEPT !.created = <<op.ext, op.hash>> \notin installed, !.pc = "probe"]
    <3>1. /\ op'.old = op.old /\ op'.ext = op.ext /\ op'.pc = "probe" /\ op'.kind = op.kind
          /\ op'.hash = op.hash /\ (op'.created <=> <<op.ext, op.hash>> \notin installed)
      BY <2>1, <2>4 DEF Op
    <3>2. <<op.ext, op.hash>> \notin installed /\ catalogue[op.ext] # None => catalogue[op.ext].hash # op.hash
      BY <2>1 DEF StoreInv, BackedInv, Verified
    <3>3. op.old = catalogue[op.ext]
      BY <2>1 DEF StoreInv, Found, Undone
    <3>4. Found'
      BY <2>2, <3>1, <3>2, <3>3 DEF Found
    <3>5. Committed' /\ Gone'
      BY <3>1 DEF Committed, Gone
    <3> QED BY <2>2, <3>4, <3>5 DEF StoreInv
  <2> QED BY <1>7, <2>3, <2>4 DEF Materialize
<1>8. CASE Probe
  <2>1. op # None /\ op.pc = "probe" /\ op.kind \in {"install", "enable"}
    BY <1>8, AtType DEF Probe
  <2>2. op \in Op
    BY <2>1, OpShape
  <2>3. BackedInv'
    BY <1>1, <1>8 DEF Probe
  <2>4. CASE GoTo("quarantine")
    <3>1. op'.pc = "quarantine"
      BY <2>2, <2>4 DEF GoTo, Op
    <3> QED BY <2>3, <3>1, NothingToSay
  <2>5. CASE \E pc \in {"unload", "open", "abandon"} : GoTo(pc)
    BY <1>8, <2>1, <2>3, <2>5, StaysUndone DEF Undone, Place, Probe
  <2> QED BY <1>8, <2>4, <2>5 DEF Probe
<1>9. CASE Discard
  <2>1. op # None /\ op \in Op /\ op.pc \in {"abandon", "discard"} /\ op.kind = "install" /\ op.ext \in Ext
    BY <1>9, AtType DEF Discard
  <2>2. UNCHANGED <<catalogue, onFile>>
    BY <1>9 DEF Discard
  <2>3. BackedInv'
    <3>1. CASE installed' = installed \ {<<op.ext, op.hash>>} /\ op.created
      <4>1. catalogue[op.ext] # None => catalogue[op.ext].hash # op.hash
        BY <2>1, <3>1 DEF StoreInv, Found, Undone
      <4>2. \A e \in Ext : catalogue[e] # None => <<e, catalogue[e].hash>> # <<op.ext, op.hash>>
        BY <2>1, <4>1
      <4> QED BY <2>2, <3>1, <4>2 DEF StoreInv, BackedInv, Verified
    <3>2. CASE UNCHANGED installed
      BY <2>2, <3>2, <1>1
    <3> QED BY <1>9, <3>1, <3>2 DEF Discard
  <2>4. CASE Finish("error")
    BY <2>3, <2>4, NothingToSay DEF Finish
  <2>5. CASE GoTo("restore")
    BY <2>1, <2>2, <2>3, <2>5, StaysUndone DEF Undone, Place
  <2> QED BY <1>9, <2>4, <2>5 DEF Discard
<1>10. CASE UnloadOld
  <2>1. op # None /\ op.pc = "unload" /\ op.kind \in {"install", "enable", "disable", "uninstall"}
    BY <1>10, AtType DEF UnloadOld
  <2>2. BackedInv' /\ UNCHANGED <<catalogue, onFile>>
    BY <1>1, <1>10 DEF UnloadOld
  <2>3. CASE Finish("error")
    BY <2>2, <2>3, NothingToSay DEF Finish
  <2>4. CASE GoTo(AfterUnload[op.kind])
    <3>1. AfterUnload[op.kind] \in Undone /\ AfterUnload[op.kind] \in Place
      BY <2>1 DEF AfterUnload, Undone, Place
    <3> QED BY <2>1, <2>2, <2>4, <3>1, StaysUndone DEF Undone
  <2> QED BY <1>10, <2>3, <2>4 DEF UnloadOld
<1>11. CASE Open \/ Opened
  <2>1. op # None /\ op \in Op /\ op.pc \in {"open", "opening"}
    BY <1>11, AtType DEF Open, Opened
  <2>2. BackedInv' /\ UNCHANGED <<catalogue, onFile>>
    BY <1>1, <1>11 DEF Open, Opened
  <2>3. CASE GoTo("quarantine")
    <3>1. op'.pc = "quarantine"
      BY <2>1, <2>3 DEF GoTo, Op
    <3> QED BY <2>2, <3>1, NothingToSay
  <2>4. CASE \E pc \in {"opening", "commit", "discard"} : GoTo(pc)
    BY <2>1, <2>2, <2>4, StaysUndone DEF Undone, Place
  <2> QED BY <1>11, <2>3, <2>4 DEF Open, Opened
<1>12. CASE Commit
  <2>1. op # None /\ op \in Op /\ op.pc = "commit" /\ op.kind \in {"install", "enable", "disable", "uninstall"} /\ op.ext \in Ext
    BY <1>12, AtType DEF Commit
  <2>2. Replaced(op.ext, NewEntry) \in [Ext -> Entry \cup {None}]
    BY <1>12, <2>1, TypeParts, EntryType, WrittenType DEF Commit
  <2>3. BackedInv'
    BY <1>1, <1>12, <2>2, WriteBacks DEF Commit, StoreInv
  <2>4. CASE op.kind \in {"enable", "disable"}
    BY <1>12, <2>3, <2>4, NothingToSay DEF Commit, AfterCommit, Finish
  <2>5. CASE op.kind = "install"
    <3>1. /\ op'.pc = "settle" /\ op'.kind = "install" /\ op'.ext = op.ext /\ op'.hash = op.hash
      BY <1>12, <2>1, <2>5 DEF Commit, AfterCommit, GoTo, Op
    <3>2. catalogue' = Replaced(op.ext, NewEntry)
      BY <1>12, <2>5 DEF Commit, Write
    <3>3. catalogue'[op.ext] = NewEntry
      BY <2>1, <3>2, TypeParts DEF Replaced, DiskType
    <3>4. NewEntry # None /\ NewEntry.hash = op.hash
      <4>1. op.hash \in Hash /\ CleanupNeeded \in BOOLEAN
        BY <2>1, <2>5 DEF TypeInv, OpInv, CleanupNeeded, Op, Entry
      <4>2. NewEntry = [state |-> "enabled", hash |-> op.hash, pending |-> CleanupNeeded]
        BY <2>5 DEF NewEntry
      <4>3. NewEntry \in Entry
        BY <4>1, <4>2 DEF Entry
      <4> QED BY <4>2, <4>3, NoneAssumption
    <3>5. Found' /\ Gone'
      BY <3>1 DEF Found, Gone, Undone
    <3>6. Committed'
      BY <3>1, <3>3, <3>4 DEF Committed
    <3> QED BY <2>3, <3>5, <3>6 DEF StoreInv
  <2>6. CASE op.kind = "uninstall"
    <3>1. op'.pc = "list" /\ op'.kind = "uninstall" /\ op'.ext = op.ext
      BY <1>12, <2>1, <2>6 DEF Commit, AfterCommit, GoTo, Op
    <3>2. catalogue'[op.ext] = None
      <4>1. CASE op.old = None
        BY <1>12, <2>1, <2>6, <4>1 DEF Commit, StoreInv, Found, Undone
      <4>2. CASE op.old # None
        <5>1. catalogue' = Replaced(op.ext, NewEntry) /\ NewEntry = None
          BY <1>12, <2>6, <4>2 DEF Commit, Write, NewEntry
        <5> QED BY <2>1, <5>1, TypeParts DEF Replaced, DiskType
      <4> QED BY <4>1, <4>2
    <3>3. Found' /\ Committed'
      BY <3>1 DEF Found, Committed, Undone
    <3>4. Gone'
      BY <3>1, <3>2 DEF Gone
    <3> QED BY <2>3, <3>3, <3>4 DEF StoreInv
  <2> QED BY <2>1, <2>4, <2>5, <2>6
<1>13. CASE CommitFails
  <2>1. op # None /\ op \in Op /\ op.pc = "commit" /\ op.kind \in {"install", "enable", "disable", "uninstall"} /\ op.ext \in Ext
    BY <1>13, AtType DEF CommitFails
  <2>2. BackedInv' /\ UNCHANGED <<catalogue, onFile>>
    BY <1>1, <1>13 DEF CommitFails, WriteFails
  <2>3. CASE Finish("error")
    BY <2>2, <2>3, NothingToSay DEF Finish
  <2>4. CASE GoTo(AfterFailure[op.kind]) /\ AfterFailure[op.kind] # "end"
    <3>1. AfterFailure[op.kind] \in Undone /\ AfterFailure[op.kind] \in Place
      BY <2>1, <2>4 DEF AfterFailure, Undone, Place
    <3> QED BY <2>1, <2>2, <2>4, <3>1, StaysUndone DEF Undone
  <2> QED BY <1>13, <2>3, <2>4 DEF CommitFails
<1>14. CASE Restore \/ Restored
  <2>1. op # None /\ op \in Op /\ op.pc \in {"restore", "restoring"}
    BY <1>14, AtType DEF Restore, Restored
  <2>2. BackedInv' /\ UNCHANGED <<catalogue, onFile>>
    BY <1>1, <1>14 DEF Restore, Restored
  <2>3. CASE Finish("error")
    BY <2>2, <2>3, NothingToSay DEF Finish
  <2>4. CASE GoTo("restoring")
    BY <2>1, <2>2, <2>4, StaysUndone DEF Undone, Place
  <2> QED BY <1>14, <2>3, <2>4 DEF Restore, Restored
<1>15. CASE Settle
  <2>1. op # None /\ op \in Op /\ op.pc = "settle" /\ op.kind = "install" /\ op.ext \in Ext
    BY <1>15, AtType DEF Settle
  <2>2. BackedInv' /\ UNCHANGED <<catalogue, onFile>>
    BY <1>1, <1>15 DEF Settle
  <2>3. CASE Finish("done")
    BY <2>2, <2>3, NothingToSay DEF Finish
  <2>4. CASE GoTo("quarantine")
    <3>1. op'.pc = "quarantine"
      BY <2>1, <2>4 DEF GoTo, Op
    <3> QED BY <2>2, <3>1, NothingToSay
  <2> DEFINE left == [staging |-> FALSE, content |-> {{h} : h \in Contents(op.ext) \ {op.hash}},
                      trash |-> trash[op.ext]]
  <2>5. CASE op' = [op EXCEPT !.pc = "sweep", !.sweep = left]
    <3>1. \A hs \in left.content : op.hash \notin hs
      OBVIOUS
    <3> HIDE DEF left
    <3>2. op'.pc = "sweep" /\ op'.kind = "install" /\ op'.ext = op.ext /\ op'.hash = op.hash /\ op'.sweep = left
      BY <2>1, <2>5 DEF Op
    <3>3. catalogue[op.ext] # None /\ catalogue[op.ext].hash = op.hash
      BY <2>1 DEF StoreInv, Committed
    <3>4. Committed'
      BY <2>2, <3>1, <3>2, <3>3 DEF Committed
    <3>5. Found' /\ Gone'
      BY <3>2 DEF Found, Gone, Undone
    <3> QED BY <2>2, <3>4, <3>5 DEF StoreInv
  <2> QED BY <1>15, <2>3, <2>4, <2>5 DEF Settle
<1>16. CASE ListLeftovers
  <2>1. op # None /\ op \in Op /\ op.pc = "list" /\ op.kind = "uninstall" /\ op.ext \in Ext
    BY <1>16, AtType DEF ListLeftovers
  <2>2. BackedInv' /\ UNCHANGED <<catalogue, onFile>>
    BY <1>1, <1>16 DEF ListLeftovers
  <2>3. op'.pc = "sweep" /\ op'.kind = "uninstall" /\ op'.ext = op.ext
    BY <1>16, <2>1 DEF ListLeftovers, Op
  <2>4. Gone'
    BY <2>1, <2>2, <2>3 DEF StoreInv, Gone
  <2>5. Found' /\ Committed'
    BY <2>3 DEF Found, Committed, Undone
  <2> QED BY <2>2, <2>4, <2>5 DEF StoreInv
<1>17. CASE Sweep
  <2>1. op # None /\ op \in Op /\ op.pc = "sweep" /\ op.kind \in {"install", "uninstall"} /\ op.ext \in Ext
    BY <1>17, AtType DEF Sweep
  <2>2. UNCHANGED <<catalogue, onFile>>
    BY <1>17 DEF Sweep
  <2>3. ASSUME NEW left, op' = [op EXCEPT !.sweep = left] \/ op' = [op EXCEPT !.sweep = left, !.complete = FALSE],
               left.content \subseteq op.sweep.content, BackedInv'
        PROVE  StoreInv'
    <3>1. op'.pc = "sweep" /\ op'.kind = op.kind /\ op'.ext = op.ext /\ op'.hash = op.hash /\ op'.sweep = left
      BY <2>1, <2>3 DEF Op
    <3>2. Committed'
      BY <2>1, <2>2, <2>3, <3>1 DEF StoreInv, Committed
    <3>3. Gone'
      BY <2>1, <2>2, <3>1 DEF StoreInv, Gone
    <3>4. Found'
      BY <3>1 DEF Found, Undone
    <3> QED BY <2>3, <3>2, <3>3, <3>4 DEF StoreInv
  <2>4. op.sweep \in Leftovers
    BY <2>1 DEF Op
  <2>5. CASE SweepStaging
    <3>1. op' = [op EXCEPT !.sweep = [op.sweep EXCEPT !.staging = FALSE]] \/ op' = [op EXCEPT !.sweep = [op.sweep EXCEPT !.staging = FALSE], !.complete = FALSE]
      BY <2>5 DEF SweepStaging, Swept
    <3>2. [op.sweep EXCEPT !.staging = FALSE].content = op.sweep.content
      BY <2>4 DEF Leftovers
    <3> QED BY <1>1, <2>2, <2>3, <2>5, <3>1, <3>2 DEF SweepStaging
  <2>6. CASE SweepContent
    <3>1. PICK hs \in op.sweep.content :
            Swept([op.sweep EXCEPT !.content = @ \ {hs}],
                  installed' = installed \ ({op.ext} \X hs), UNCHANGED installed)
      BY <2>6 DEF SweepContent
    <3> DEFINE left == [op.sweep EXCEPT !.content = @ \ {hs}]
    <3>2. left.content \subseteq op.sweep.content
      BY <2>4 DEF Leftovers
    <3>3. op' = [op EXCEPT !.sweep = left] \/ op' = [op EXCEPT !.sweep = left, !.complete = FALSE]
      BY <3>1 DEF Swept
    <3>4. installed' = installed \ ({op.ext} \X hs) \/ UNCHANGED installed
      BY <3>1 DEF Swept
    <3>5. catalogue[op.ext] = None \/ catalogue[op.ext].hash \notin hs
      BY <2>1, <3>1 DEF StoreInv, Committed, Gone
    <3>6. BackedInv'
      <4>1. \A e \in Ext : catalogue[e] # None => <<e, catalogue[e].hash>> \in installed
        BY DEF StoreInv, BackedInv, Verified
      <4>2. \A e \in Ext : catalogue[e] # None => <<e, catalogue[e].hash>> \notin {op.ext} \X hs
        BY <3>5
      <4>3. \A e \in Ext : catalogue[e] # None => <<e, catalogue[e].hash>> \in installed'
        BY <3>4, <4>1, <4>2
      <4> QED BY <2>2, <4>3 DEF StoreInv, BackedInv, Verified
    <3> HIDE DEF left
    <3> QED BY <2>3, <3>2, <3>3, <3>6
  <2>7. CASE SweepTrash
    <3> DEFINE left == [op.sweep EXCEPT !.trash = @ - 1]
    <3>1. left.content = op.sweep.content
      BY <2>4 DEF Leftovers
    <3>2. op' = [op EXCEPT !.sweep = left] \/ op' = [op EXCEPT !.sweep = left, !.complete = FALSE]
      BY <2>1, <2>4, <2>7 DEF SweepTrash, Op, Leftovers
    <3> HIDE DEF left
    <3> QED BY <1>1, <2>2, <2>3, <2>7, <3>1, <3>2 DEF SweepTrash
  <2> QED BY <1>17, <2>5, <2>6, <2>7 DEF Sweep
<1>18. CASE EndSweep
  <2>1. op # None /\ op \in Op /\ op.pc = "sweep" /\ op.ext \in Ext
    BY <1>18, AtType DEF EndSweep
  <2>2. BackedInv'
    <3>1. CASE op.kind = "install" /\ op.complete
      <4>1. [NewEntry EXCEPT !.pending = FALSE] \in Entry
        <5>1. op.hash \in Hash
          BY <2>1, <3>1 DEF TypeInv, OpInv
        <5> QED BY <3>1, <5>1 DEF NewEntry, Entry
      <4> DEFINE c == Replaced(op.ext, [NewEntry EXCEPT !.pending = FALSE])
      <4>2. c \in [Ext -> Entry \cup {None}]
        BY <2>1, <4>1, WrittenType, TypeParts
      <4>3. Write(c) \/ WriteFails(c)
        BY <1>18, <3>1 DEF EndSweep
      <4> HIDE DEF c
      <4> QED BY <1>18, <4>2, <4>3, WriteBacks DEF EndSweep, StoreInv
    <3>2. CASE ~(op.kind = "install" /\ op.complete)
      BY <1>1, <1>18, <3>2 DEF EndSweep
    <3> QED BY <3>1, <3>2
  <2> QED BY <1>18, <2>2, NothingToSay DEF EndSweep, Finish
<1>19. CASE Quarantine
  <2>1. op # None /\ op \in Op /\ op.ext \in Ext
    BY <1>19, AtType DEF Quarantine, TypeInv, OpInv, At
  <2>2. BackedInv'
    <3>1. CASE Readable /\ catalogue[op.ext] # None
      <4>1. [catalogue[op.ext] EXCEPT !.state = "quarantined", !.pending = FALSE] \in Entry
        <5>1. catalogue[op.ext] \in Entry
          BY <2>1, <3>1, TypeParts DEF DiskType
        <5> QED BY <5>1 DEF Entry
      <4> DEFINE c == Replaced(op.ext, [catalogue[op.ext] EXCEPT !.state = "quarantined", !.pending = FALSE])
      <4>2. c \in [Ext -> Entry \cup {None}]
        BY <2>1, <4>1, WrittenType, TypeParts
      <4>3. Write(c) \/ WriteFails(c)
        BY <1>19, <3>1 DEF Quarantine
      <4> HIDE DEF c
      <4> QED BY <1>19, <4>2, <4>3, WriteBacks DEF Quarantine, StoreInv
    <3>2. CASE ~(Readable /\ catalogue[op.ext] # None)
      BY <1>1, <1>19, <3>2 DEF Quarantine
    <3> QED BY <3>1, <3>2
  <2> QED BY <1>19, <2>2, NothingToSay DEF Quarantine, Finish
<1>20. CASE UNCHANGED vars
  BY <1>2, <1>20 DEF vars
<1> QED BY <1>3, <1>4, <1>5, <1>6, <1>7, <1>8, <1>9, <1>10, <1>11, <1>12, <1>13, <1>14, <1>15, <1>16,
        <1>17, <1>18, <1>19, <1>20 DEF Next, Work

(* While nothing has gone wrong beyond repair, content without a catalogue *)
(* is only that of the install at work, before its commit.                 *)
NewContent == {"probe", "abandon", "unload", "open", "opening", "commit", "discard"}
EmptyInv ==
  ~damaged =>
    \/ onFile \/ installed = {}
    \/ /\ op # None /\ op.created /\ op.pc \in NewContent
       /\ installed = {<<op.ext, op.hash>>}

(* Where the old version of the operation's extension is not loaded.       *)
Unloaded ==
  \/ op.pc \in {"open", "opening", "discard", "restore", "restoring", "list"}
  \/ op.pc = "probe" /\ op.kind = "enable"
  \/ op.pc = "commit" /\ op.kind \in {"disable", "uninstall"}
  \/ op.pc = "sweep" /\ op.kind = "uninstall"
(* Where a version is loaded that the catalogue does not hold yet.         *)
Ahead == op.pc = "commit" /\ op.kind \in {"install", "enable"}
Agrees(e) ==
  /\ catalogue[e] # None /\ catalogue[e].state # "disabled"
  /\ catalogue[e].hash = Version(e)
InHand(e) == op # None /\ op.ext = e
LoadedInv ==
  ~damaged =>
    \A e \in Ext : tools[e] # None =>
      /\ ~InHand(e) => Agrees(e)
      /\ InHand(e) /\ Ahead => Version(e) = op.hash
      /\ InHand(e) /\ ~Ahead => ~Unloaded /\ Agrees(e)

(* A step of an operation disturbs what is loaded of its extension only.   *)
LEMMA Others ==
  ASSUME LoadedInv, NEW x, op # None, op.ext = x, damaged => damaged', op' # None => op'.ext = x,
         \A e \in Ext \ {x} :
           /\ catalogue'[e] = catalogue[e]
           /\ tools'[e] # None => tools[e] # None /\ Version(e)' = Version(e),
         ~damaged' /\ x \in Ext /\ tools'[x] # None =>
           /\ op' = None => Agrees(x)'
           /\ op' # None /\ Ahead' => Version(x)' = op'.hash
           /\ op' # None /\ ~Ahead' => ~Unloaded' /\ Agrees(x)'
  PROVE  LoadedInv'
<1> SUFFICES ASSUME ~damaged', NEW e \in Ext, tools'[e] # None
             PROVE  /\ ~InHand(e)' => Agrees(e)'
                    /\ InHand(e)' /\ Ahead' => Version(e)' = op'.hash
                    /\ InHand(e)' /\ ~Ahead' => ~Unloaded' /\ Agrees(e)'
  BY DEF LoadedInv
<1>1. CASE e = x
  BY <1>1 DEF InHand
<1>2. CASE e # x
  <2>1. ~InHand(e) /\ ~InHand(e)'
    BY <1>2 DEF InHand
  <2>2. tools[e] # None /\ Version(e)' = Version(e) /\ catalogue'[e] = catalogue[e]
    BY <1>2
  <2>3. Agrees(e)
    BY <2>1, <2>2 DEF LoadedInv
  <2> QED BY <2>1, <2>2, <2>3 DEF Agrees
<1> QED BY <1>1, <1>2

(* What a step that only takes tools away, and does not touch the          *)
(* catalogue, has to say of its own extension.                             *)
LEMMA LoadedMoves ==
  ASSUME LoadedInv, Shrinks, NEW x, op # None, op.ext = x, op \in Op, damaged => damaged', UNCHANGED catalogue,
         op' # None => op'.ext = x,
         \/ op' = None /\ (damaged' \/ (~Ahead /\ ~Unloaded))
         \/ op' # None /\ ~Ahead /\ ~Unloaded /\ ~Ahead' /\ ~Unloaded'
         \/ damaged' \/ Unloaded \/ tools'[x] = None
  PROVE  LoadedInv'
<1>1. \A e \in Ext \ {x} :
           /\ catalogue'[e] = catalogue[e]
           /\ tools'[e] # None => tools[e] # None /\ Version(e)' = Version(e)
  BY DEF Shrinks
<1>2. ASSUME ~damaged', x \in Ext, tools'[x] # None
      PROVE  /\ op' = None => Agrees(x)'
             /\ op' # None /\ Ahead' => Version(x)' = op'.hash
             /\ op' # None /\ ~Ahead' => ~Unloaded' /\ Agrees(x)'
  <2>1. tools[x] # None /\ Version(x)' = Version(x) /\ catalogue' = catalogue /\ ~damaged
    BY <1>2 DEF Shrinks
  <2>2. ~Unloaded
    BY <1>2, <2>1 DEF LoadedInv, InHand, Unloaded, Ahead
  <2>3. ~Ahead /\ (op' # None => ~Ahead' /\ ~Unloaded')
    BY <1>2, <2>2
  <2>4. Agrees(x)
    BY <1>2, <2>1, <2>3 DEF LoadedInv, InHand
  <2> QED BY <2>1, <2>3, <2>4 DEF Agrees
<1> QED BY <1>1, <1>2, Others

LEMMA Aside ==
  ASSUME LoadedInv, Shrinks, UNCHANGED <<catalogue, op, damaged>>
  PROVE  LoadedInv'
BY DEF LoadedInv, Shrinks, InHand, Agrees, Ahead, Unloaded

LEMMA GoToFields ==
  ASSUME op \in Op, NEW pc \in Place, GoTo(pc)
  PROVE  /\ op' # None /\ op'.pc = pc /\ op'.ext = op.ext /\ op'.kind = op.kind
         /\ op'.hash = op.hash /\ op'.created = op.created /\ op'.old = op.old
<1>1. op' \in Op
  BY DEF GoTo, Op
<1> QED BY <1>1, NoneAssumption DEF GoTo, Op

(* A sweep goes on as the same operation.                                  *)
LEMMA SweepStays ==
  ASSUME TypeInv, RunType, Sweep
  PROVE  /\ op' # None /\ op'.ext = op.ext /\ op'.kind = op.kind /\ op'.pc = "sweep"
         /\ op'.created = op.created
<1>1. op # None /\ op \in Op /\ op.pc = "sweep" /\ op.sweep \in Leftovers
  BY AtType DEF Sweep, Op
<1>2. ASSUME NEW left \in Leftovers, NEW b \in BOOLEAN, op' = [op EXCEPT !.sweep = left, !.complete = b]
      PROVE  /\ op' # None /\ op'.ext = op.ext /\ op'.kind = op.kind /\ op'.pc = "sweep"
             /\ op'.created = op.created
  <2>1. op' \in Op
    BY <1>1, <1>2 DEF Op
  <2> QED BY <1>1, <1>2, <2>1, NoneAssumption DEF Op
<1>3. op.complete \in BOOLEAN /\ \A left : [op EXCEPT !.sweep = left] = [op EXCEPT !.sweep = left, !.complete = op.complete]
  BY <1>1 DEF Op
<1>4. CASE SweepStaging
  <2>1. [op.sweep EXCEPT !.staging = FALSE] \in Leftovers
    BY <1>1 DEF Leftovers
  <2> QED BY <1>2, <1>3, <1>4, <2>1 DEF SweepStaging, Swept
<1>5. CASE SweepContent
  <2>1. \A hs : [op.sweep EXCEPT !.content = @ \ {hs}] \in Leftovers
    BY <1>1 DEF Leftovers
  <2>2. PICK left \in Leftovers : op' = [op EXCEPT !.sweep = left] \/ op' = [op EXCEPT !.sweep = left, !.complete = FALSE]
    BY <1>5, <2>1 DEF SweepContent, Swept
  <2> QED BY <1>2, <1>3, <2>2
<1>6. CASE SweepTrash
  <2> DEFINE left == [op.sweep EXCEPT !.trash = @ - 1]
  <2>1. left \in Leftovers
    BY <1>1, <1>6, LifecycleAssumption DEF Leftovers, SweepTrash
  <2>2. op' = [op EXCEPT !.sweep = left] \/ op' = [op EXCEPT !.sweep = left, !.complete = FALSE]
    BY <1>1, <1>6 DEF SweepTrash, Op, Leftovers
  <2> HIDE DEF left
  <2> QED BY <1>2, <1>3, <2>1, <2>2
<1> QED BY <1>4, <1>5, <1>6 DEF Sweep

LEMMA LoadedStep ==
  ASSUME TypeInv, RunType, StoreInv, LoadedInv, [Next]_vars
  PROVE  LoadedInv'
<1> USE DEF disk, runtime, bounds, Stay
<1>1. CASE UNCHANGED vars
  BY <1>1, Aside, Still DEF vars
<1>2. ASSUME \/ TurnEnds \/ Close \/ PrepareRestricted \/ PrepareFull \/ Prepare
             \/ \E e \in Ext : CallBegins(e) \/ EditStaging(e) \/ \E kind \in Kinds : Request(kind, e)
             \/ \E w \in Worker : WorkerFault(w) \/ CallEnds(w)
      PROVE  LoadedInv'
  <2>1. UNCHANGED <<catalogue, op, damaged>>
    BY <1>2 DEF TurnEnds, Close, PrepareRestricted, PrepareFull, Prepare, ActivateNext, TurnStarts,
       Rollback, CallBegins, EditStaging, Request, WorkerFault, CallEnds
  <2>2. op # None => op \in Op
    BY OpShape
  <2>3. Shrinks \/ Opened \/ Restored
    BY <1>2, RuntimeMoves DEF Next
  <2>4. ~(Opened \/ Restored)
    <3> SUFFICES ASSUME Opened \/ Restored PROVE FALSE
      OBVIOUS
    <3>1. op # None /\ op \in Op /\ op.pc \in {"opening", "restoring"}
      BY AtType DEF Opened, Restored
    <3>2. op' = None \/ \E pc \in Place : pc # op.pc /\ GoTo(pc)
      BY <3>1 DEF Opened, Restored, Finish, Place, At
    <3>3. op' # op
      BY <3>1, <3>2, GoToFields
    <3> QED BY <2>1, <3>3
  <2> QED BY <2>1, <2>3, <2>4, Aside
<1>3. CASE Crash
  BY <1>3 DEF Crash, LoadedInv
<1>4. CASE Begin
  <2>1. op = None /\ op' \in Waiting
    <3>1. queue \in Seq(Waiting) /\ queue # <<>>
      BY <1>4 DEF TypeInv, Begin
    <3>2. Head(queue) \in Waiting
      BY <3>1
    <3> QED BY <1>4, <3>2 DEF Begin
  <2>2. op'.pc = "start"
    BY <2>1 DEF Waiting
  <2>3. ~Ahead' /\ ~Unloaded'
    BY <2>2 DEF Ahead, Unloaded
  <2>4. UNCHANGED <<catalogue, tools, worker, damaged>>
    BY <1>4 DEF Begin
  <2> QED BY <2>1, <2>3, <2>4 DEF LoadedInv, InHand, Agrees, Version
<1>5. ASSUME Start \/ StartList \/ InitStaging \/ Materialize
      PROVE  LoadedInv'
  <2>1. op # None /\ op \in Op /\ op.pc \in {"start", "materialize"} /\ (op.pc = "materialize" => op.kind = "install")
    BY <1>5, AtType DEF Start, StartList, InitStaging, Materialize
  <2>2. ~Ahead /\ ~Unloaded
    BY <2>1 DEF Ahead, Unloaded
  <2>3. UNCHANGED <<catalogue, runtime, damaged>>
    BY <1>5 DEF Start, StartList, InitStaging, Materialize
  <2>4. \/ op' = None
        \/ op' # None /\ op'.ext = op.ext /\ op'.kind = op.kind /\ op'.pc \in {"materialize", "unload", "probe"}
           /\ (op'.pc = "probe" => op.kind = "install")
    <3>1. CASE Start
      <4>1. op.ext \in Ext /\ op.kind \in OpKind
        BY <2>1, <3>1, AtType DEF Start, TypeInv, OpInv, At
      <4>2. CASE op' = [op EXCEPT !.old = catalogue[op.ext],
                            !.hash = IF op.kind = "install" THEN staging[op.ext]
                                     ELSE IF catalogue[op.ext] = None THEN None
                                     ELSE catalogue[op.ext].hash,
                            !.pc = IF op.kind = "install" THEN "materialize" ELSE "unload"]
        <5>1. /\ op'.ext = op.ext /\ op'.kind = op.kind /\ op'.pc \in {"materialize", "unload"}
          BY <2>1, <4>2 DEF Op
        <5>2. TypeInv'
          BY <3>1, Working
        <5> QED BY <5>1
      <4> QED BY <3>1, <4>2 DEF Start, Finish
    <3>2. CASE StartList \/ InitStaging
      BY <3>2 DEF StartList, InitStaging, Finish
    <3>3. CASE Materialize
      <4>1. CASE Finish("error")
        BY <4>1 DEF Finish
      <4>2. CASE op' = [op EXCEPT !.created = <<op.ext, op.hash>> \notin installed, !.pc = "probe"]
        BY <2>1, <3>3, <4>2, AtType DEF Op, Materialize
      <4> QED BY <3>3, <4>1, <4>2 DEF Materialize
    <3> QED BY <1>5, <3>1, <3>2, <3>3
  <2>5. op' # None => ~Ahead' /\ ~Unloaded'
    BY <2>4 DEF Ahead, Unloaded
  <2>6. op' # None => op'.ext = op.ext
    BY <2>4
  <2> QED BY <2>1, <2>2, <2>3, <2>5, <2>6, Still, LoadedMoves
<1>6. CASE Probe
  <2>1. op # None /\ op \in Op /\ op.pc = "probe" /\ op.kind \in {"install", "enable"}
    BY <1>6, AtType DEF Probe
  <2>2. UNCHANGED <<catalogue, runtime, damaged>>
    BY <1>6 DEF Probe
  <2>3. CASE op.kind = "enable"
    <3>1. PICK pc \in {"open", "quarantine"} : GoTo(pc)
      BY <1>6, <2>3 DEF Probe
    <3>2. op'.ext = op.ext
      BY <2>1, <3>1, GoToFields DEF Place
    <3> QED BY <2>1, <2>2, <2>3, <3>2, Still, LoadedMoves DEF Unloaded
  <2>4. CASE op.kind = "install"
    <3>1. PICK pc \in {"unload", "abandon"} : GoTo(pc)
      BY <1>6, <2>4 DEF Probe
    <3>2. op' # None /\ op'.ext = op.ext /\ op'.pc = pc /\ op'.kind = "install"
      BY <2>1, <2>4, <3>1, GoToFields DEF Place
    <3>3. ~Ahead /\ ~Unloaded /\ ~Ahead' /\ ~Unloaded'
      BY <2>1, <2>4, <3>1, <3>2 DEF Ahead, Unloaded
    <3> QED BY <2>1, <2>2, <3>2, <3>3, Still, LoadedMoves
  <2> QED BY <2>1, <2>3, <2>4
<1>7. CASE Discard
  <2>1. op # None /\ op \in Op /\ op.pc \in {"abandon", "discard"}
    BY <1>7, AtType DEF Discard
  <2>2. UNCHANGED <<catalogue, runtime>> /\ (damaged => damaged')
    BY <1>7 DEF Discard
  <2>3. CASE op.pc = "abandon"
    <3>1. op' = None /\ ~Ahead /\ ~Unloaded
      BY <1>7, <2>3 DEF Discard, Finish, Ahead, Unloaded
    <3> QED BY <2>1, <2>2, <3>1, Still, LoadedMoves
  <2>4. CASE op.pc = "discard"
    <3>1. op'.ext = op.ext
      BY <1>7, <2>1, <2>4, GoToFields DEF Discard, Place
    <3> QED BY <2>1, <2>2, <2>4, <3>1, Still, LoadedMoves DEF Unloaded
  <2> QED BY <2>1, <2>3, <2>4
<1>8. CASE UnloadOld
  <2>1. /\ op # None /\ op \in Op /\ op.pc = "unload" /\ op.ext \in Ext
        /\ op.kind \in {"install", "enable", "disable", "uninstall"}
    BY <1>8, AtType DEF UnloadOld
  <2>2. UNCHANGED <<catalogue, damaged>>
    BY <1>8 DEF UnloadOld
  <2>3. CASE Finish("error") /\ UNCHANGED runtime
    <3>1. op' = None /\ ~Ahead /\ ~Unloaded
      BY <2>1, <2>3 DEF Finish, Ahead, Unloaded
    <3> QED BY <2>1, <2>2, <2>3, <3>1, Still, LoadedMoves
  <2>4. CASE Unload(op.ext) /\ GoTo(AfterUnload[op.kind])
    <3>1. Shrinks /\ tools'[op.ext] = None
      BY <2>1, <2>4, UnloadShrinks
    <3>2. op'.ext = op.ext
      BY <2>1, <2>4, GoToFields DEF AfterUnload, Place
    <3> QED BY <2>1, <2>2, <3>1, <3>2, LoadedMoves
  <2> QED BY <1>8, <2>3, <2>4 DEF UnloadOld
<1>9. CASE Open
  <2>1. op # None /\ op \in Op /\ op.pc = "open"
    BY <1>9, AtType DEF Open
  <2>2. op'.ext = op.ext
    BY <1>9, <2>1, GoToFields DEF Open, Place
  <2>3. UNCHANGED <<catalogue, runtime, damaged>>
    BY <1>9 DEF Open
  <2> QED BY <2>1, <2>2, <2>3, Still, LoadedMoves DEF Unloaded
<1>10. CASE Opened
  <2>1. /\ op # None /\ op \in Op /\ op.pc = "opening" /\ op.ext \in Ext
        /\ op.kind \in {"install", "enable"} /\ op.hash \in Hash
    BY <1>10, AtType DEF Opened, TypeInv, OpInv
  <2>2. UNCHANGED <<catalogue, damaged>>
    BY <1>10 DEF Opened
  <2>3. CASE UNCHANGED runtime /\ GoTo(IF op.kind = "install" THEN "discard" ELSE "quarantine")
    <3>1. op'.ext = op.ext
      BY <2>1, <2>3, GoToFields DEF Place
    <3> QED BY <2>1, <2>2, <2>3, <3>1, Still, LoadedMoves DEF Unloaded
  <2>4. CASE Adds(op.ext, op.hash) /\ GoTo("commit")
    <3>1. /\ op' # None /\ op'.ext = op.ext /\ op'.pc = "commit" /\ op'.kind = op.kind
          /\ op'.hash = op.hash
      BY <2>1, <2>4, GoToFields DEF Place
    <3>2. Ahead'
      BY <2>1, <3>1 DEF Ahead
    <3>3. PICK x \in Ext : x = op.ext
      BY <2>1
    <3>4. PICK h \in Hash : h = op.hash
      BY <2>1
    <3>5. Adds(x, h)
      BY <2>4, <3>3, <3>4
    <3>6. /\ \A e \in Ext \ {x} : tools'[e] = tools[e]
          /\ \A e \in Ext \ {x} : tools[e] # None => Version(e)' = Version(e)
          /\ Version(x)' = h
      BY <3>5, AddsKeeps
    <3>7. Version(x)' = op'.hash
      BY <3>1, <3>4, <3>6
    <3> QED BY <2>1, <2>2, <3>1, <3>2, <3>3, <3>6, <3>7, Others
  <2> QED BY <1>10, <2>3, <2>4 DEF Opened, Adds
<1>11. CASE Commit
  <2>1. /\ op # None /\ op \in Op /\ op.pc = "commit" /\ op.ext \in Ext
        /\ op.kind \in {"install", "enable", "disable", "uninstall"}
    BY <1>11, AtType DEF Commit
  <2>2. PICK x \in Ext : x = op.ext
    BY <2>1
  <2>3. UNCHANGED <<runtime, damaged>>
    BY <1>11 DEF Commit
  <2>4. op' = None \/ (op' # None /\ op'.ext = op.ext /\ op'.kind = op.kind /\ op'.pc = AfterCommit[op.kind]
                       /\ op.kind \in {"install", "uninstall"})
    BY <1>11, <2>1, GoToFields DEF Commit, AfterCommit, Finish, Place
  <2>5. \A e \in Ext \ {x} : catalogue'[e] = catalogue[e]
    BY <1>11, <2>2, TypeParts DEF Commit, Write, Replaced, DiskType
  <2>6. \A e \in Ext \ {x} : tools'[e] # None => tools[e] # None /\ Version(e)' = Version(e)
    BY <2>3 DEF Version
  <2>7. ASSUME ~damaged', tools'[x] # None
        PROVE  /\ op' = None => Agrees(x)'
               /\ op' # None => ~Ahead' /\ ~Unloaded' /\ Agrees(x)'
    <3>1. tools[x] # None /\ ~damaged /\ InHand(x)
      BY <2>1, <2>2, <2>3, <2>7 DEF InHand
    <3>2. op.kind \in {"install", "enable"}
      BY <2>1, <3>1 DEF LoadedInv, Unloaded, Ahead
    <3>3. Version(x) = op.hash
      BY <2>1, <3>1, <3>2 DEF LoadedInv, Ahead
    <3>4. catalogue' = Replaced(op.ext, NewEntry)
      BY <1>11, <3>2 DEF Commit, Write
    <3>5. catalogue'[x] = NewEntry
      BY <2>2, <3>4, TypeParts DEF Replaced, DiskType
    <3>6. NewEntry # None /\ NewEntry.hash = op.hash /\ NewEntry.state = "enabled"
      <4>1. op.hash \in Hash /\ CleanupNeeded \in BOOLEAN
        BY <2>1, <3>2 DEF TypeInv, OpInv, CleanupNeeded, Op, Entry
      <4>2. \/ NewEntry = [state |-> "enabled", hash |-> op.hash, pending |-> CleanupNeeded]
            \/ NewEntry = [state |-> "enabled", hash |-> op.hash, pending |-> FALSE]
        BY <3>2 DEF NewEntry
      <4>3. CASE NewEntry = [state |-> "enabled", hash |-> op.hash, pending |-> CleanupNeeded]
        <5>1. NewEntry \in Entry
          BY <4>1, <4>3 DEF Entry
        <5> QED BY <4>3, <5>1, NoneAssumption
      <4>4. CASE NewEntry = [state |-> "enabled", hash |-> op.hash, pending |-> FALSE]
        <5>1. NewEntry \in Entry
          BY <4>1, <4>4 DEF Entry
        <5> QED BY <4>4, <5>1, NoneAssumption
      <4> QED BY <4>2, <4>3, <4>4
    <3>7. Version(x)' = Version(x)
      BY <2>3 DEF Version
    <3>8. Agrees(x)'
      BY <3>3, <3>5, <3>6, <3>7 DEF Agrees
    <3>9. op' # None => ~Ahead' /\ ~Unloaded'
      BY <2>4, <3>2 DEF Ahead, Unloaded, AfterCommit
    <3> QED BY <3>8, <3>9
  <2>8. op' # None => op'.ext = x
    BY <2>2, <2>4
  <2> QED BY <2>1, <2>2, <2>3, <2>5, <2>6, <2>7, <2>8, Others
<1>12. CASE CommitFails
  <2>1. /\ op # None /\ op \in Op /\ op.pc = "commit" /\ op.ext \in Ext
        /\ op.kind \in {"install", "enable", "disable", "uninstall"}
    BY <1>12, AtType DEF CommitFails
  <2>2. UNCHANGED catalogue /\ (damaged => damaged')
    BY <1>12 DEF CommitFails, WriteFails
  <2>3. op' # None => op'.ext = op.ext
    BY <1>12, <2>1, GoToFields DEF CommitFails, AfterFailure, Finish, Place
  <2>4. CASE op.kind \in {"disable", "uninstall"}
    <3>1. UNCHANGED runtime /\ Unloaded
      BY <1>12, <2>1, <2>4 DEF CommitFails, Unloaded
    <3> QED BY <2>1, <2>2, <2>3, <3>1, Still, LoadedMoves
  <2>5. CASE op.kind \in {"install", "enable"} /\ Busy(op.ext)
    <3>1. UNCHANGED runtime /\ damaged'
      BY <1>12, <2>5 DEF CommitFails, TryUnload
    <3> QED BY <3>1 DEF LoadedInv
  <2>6. CASE op.kind \in {"install", "enable"} /\ ~Busy(op.ext)
    <3>1. Unload(op.ext)
      BY <1>12, <2>6 DEF CommitFails, TryUnload
    <3>2. Shrinks /\ tools'[op.ext] = None
      BY <2>1, <3>1, UnloadShrinks
    <3> QED BY <2>1, <2>2, <2>3, <3>2, LoadedMoves
  <2> QED BY <2>1, <2>4, <2>5, <2>6
<1>13. CASE Restore
  <2>1. op # None /\ op \in Op /\ op.pc = "restore"
    BY <1>13, AtType DEF Restore
  <2>2. op' # None => op'.ext = op.ext
    BY <1>13, <2>1, GoToFields DEF Restore, Finish, Place
  <2>3. UNCHANGED <<catalogue, runtime, damaged>>
    BY <1>13 DEF Restore
  <2> QED BY <2>1, <2>2, <2>3, Still, LoadedMoves DEF Unloaded
<1>14. CASE Restored
  <2>1. /\ op # None /\ op \in Op /\ op.pc = "restoring" /\ op.ext \in Ext
        /\ op.old # None /\ op.old.state = "enabled" /\ op.old.hash \in Hash
    BY <1>14, AtType DEF Restored, TypeInv, OpInv, Op, Entry
  <2>2. UNCHANGED <<catalogue, damaged>> /\ op' = None
    BY <1>14 DEF Restored, Finish
  <2>3. CASE UNCHANGED runtime
    BY <2>1, <2>2, <2>3, Still, LoadedMoves DEF Unloaded
  <2>4. CASE Adds(op.ext, op.old.hash)
    <3>1. PICK x \in Ext : x = op.ext
      BY <2>1
    <3>2. PICK h \in Hash : h = op.old.hash
      BY <2>1
    <3>3. /\ \A e \in Ext \ {x} : tools'[e] = tools[e]
          /\ \A e \in Ext \ {x} : tools[e] # None => Version(e)' = Version(e)
          /\ Version(x)' = h
      BY <2>4, <3>1, <3>2, AddsKeeps
    <3>4. catalogue[x] = op.old
      BY <2>1, <3>1 DEF StoreInv, Found, Undone
    <3>5. Agrees(x)'
      BY <2>1, <2>2, <3>2, <3>3, <3>4 DEF Agrees
    <3> QED BY <2>1, <2>2, <3>1, <3>3, <3>5, Others
  <2> QED BY <1>14, <2>3, <2>4 DEF Restored, Adds
<1>15. CASE Settle
  <2>1. op # None /\ op \in Op /\ op.pc = "settle" /\ op.kind = "install"
    BY <1>15, AtType DEF Settle
  <2>2. UNCHANGED <<catalogue, runtime, damaged>>
    BY <1>15 DEF Settle
  <2>3. op' = None \/ (op'.ext = op.ext /\ op'.kind = "install" /\ op'.pc \in {"quarantine", "sweep"})
    BY <1>15, <2>1, GoToFields DEF Settle, Finish, Op, Place
  <2>4. ~Ahead /\ ~Unloaded /\ (op' # None => ~Ahead' /\ ~Unloaded')
    BY <2>1, <2>3 DEF Ahead, Unloaded
  <2> QED BY <2>1, <2>2, <2>3, <2>4, Still, LoadedMoves
<1>16. CASE ListLeftovers
  <2>1. op # None /\ op \in Op /\ op.pc = "list"
    BY <1>16, AtType DEF ListLeftovers
  <2>2. op'.ext = op.ext /\ UNCHANGED <<catalogue, runtime, damaged>>
    BY <1>16, <2>1 DEF ListLeftovers, Op
  <2> QED BY <2>1, <2>2, Still, LoadedMoves DEF Unloaded
<1>17. CASE Sweep
  <2>1. op # None /\ op \in Op /\ op.pc = "sweep" /\ op.kind \in {"install", "uninstall"}
    BY <1>17, AtType DEF Sweep
  <2>2. UNCHANGED <<catalogue, runtime, damaged>>
    BY <1>17 DEF Sweep
  <2>3. op'.ext = op.ext /\ op'.kind = op.kind /\ op'.pc = "sweep" /\ op' # None
    BY <1>17, SweepStays
  <2>4. CASE op.kind = "uninstall"
    BY <2>1, <2>2, <2>3, <2>4, Still, LoadedMoves DEF Unloaded
  <2>5. CASE op.kind = "install"
    <3>1. ~Ahead /\ ~Unloaded /\ ~Ahead' /\ ~Unloaded'
      BY <2>1, <2>3, <2>5 DEF Ahead, Unloaded
    <3> QED BY <2>1, <2>2, <2>3, <3>1, Still, LoadedMoves
  <2> QED BY <2>1, <2>4, <2>5
<1>18. CASE EndSweep
  <2>1. op # None /\ op \in Op /\ op.pc = "sweep" /\ op.kind \in {"install", "uninstall"} /\ op.ext \in Ext
    BY <1>18, AtType DEF EndSweep
  <2>2. UNCHANGED <<runtime, damaged>> /\ op' = None
    BY <1>18 DEF EndSweep, Finish
  <2>3. CASE UNCHANGED catalogue
    <3>1. (~Ahead /\ ~Unloaded) \/ Unloaded
      BY <2>1 DEF Ahead, Unloaded
    <3> QED BY <2>1, <2>2, <2>3, <3>1, Still, LoadedMoves
  <2>4. CASE op.kind = "install" /\ catalogue' = Replaced(op.ext, [NewEntry EXCEPT !.pending = FALSE])
    <3>1. PICK x \in Ext : x = op.ext
      BY <2>1
    <3> DEFINE n == [NewEntry EXCEPT !.pending = FALSE]
    <3>2. n \in Entry /\ n # None /\ n.hash = op.hash /\ n.state = "enabled"
      <4>1. op.hash \in Hash
        BY <2>1, <2>4 DEF TypeInv, OpInv
      <4>2. NewEntry = [state |-> "enabled", hash |-> op.hash, pending |-> CleanupNeeded]
        BY <2>4 DEF NewEntry
      <4>3. n \in Entry /\ n.hash = op.hash /\ n.state = "enabled"
        BY <4>1, <4>2 DEF Entry
      <4> QED BY <4>3, NoneAssumption
    <3> HIDE DEF n
    <3>3. catalogue'[x] = n /\ \A e \in Ext \ {x} : catalogue'[e] = catalogue[e]
      BY <2>4, <3>1, TypeParts DEF Replaced, DiskType, n
    <3>4. ASSUME ~damaged', tools'[x] # None
          PROVE  Agrees(x)'
      <4>1. Agrees(x) /\ Version(x)' = Version(x)
        BY <2>1, <2>2, <2>4, <3>1, <3>4 DEF LoadedInv, InHand, Ahead, Unloaded, Version
      <4>2. catalogue[x].hash = op.hash
        BY <2>1, <2>4, <3>1 DEF StoreInv, Committed
      <4> QED BY <3>2, <3>3, <4>1, <4>2 DEF Agrees
    <3>5. \A e \in Ext \ {x} : tools'[e] # None => tools[e] # None /\ Version(e)' = Version(e)
      BY <2>2 DEF Version
    <3> QED BY <2>1, <2>2, <3>1, <3>3, <3>4, <3>5, Others
  <2> QED BY <1>18, <2>3, <2>4 DEF EndSweep, Write, WriteFails
<1>19. CASE Quarantine
  <2>1. op # None /\ op \in Op /\ op.ext \in Ext /\ op.pc \in {"start", "quarantine"}
    BY <1>19, AtType DEF Quarantine, TypeInv, OpInv, At
  <2>2. UNCHANGED <<runtime, damaged>> /\ op' = None /\ ~Ahead /\ ~Unloaded
    BY <1>19, <2>1 DEF Quarantine, Finish, Ahead, Unloaded
  <2>3. CASE UNCHANGED catalogue
    BY <2>1, <2>2, <2>3, Still, LoadedMoves
  <2>4. CASE /\ catalogue[op.ext] # None
             /\ catalogue' = Replaced(op.ext, [catalogue[op.ext] EXCEPT !.state = "quarantined", !.pending = FALSE])
    <3>1. PICK x \in Ext : x = op.ext
      BY <2>1
    <3>2. catalogue[x] \in Entry
      BY <2>4, <3>1, TypeParts DEF DiskType
    <3> DEFINE n == [catalogue[x] EXCEPT !.state = "quarantined", !.pending = FALSE]
    <3>3. n \in Entry /\ n # None /\ n.hash = catalogue[x].hash /\ n.state # "disabled"
      BY <3>2, NoneAssumption DEF Entry
    <3> HIDE DEF n
    <3>4. catalogue'[x] = n /\ \A e \in Ext \ {x} : catalogue'[e] = catalogue[e]
      BY <2>4, <3>1, TypeParts DEF Replaced, DiskType, n
    <3>5. ASSUME ~damaged', tools'[x] # None
          PROVE  Agrees(x)'
      <4>1. Agrees(x) /\ Version(x)' = Version(x)
        BY <2>1, <2>2, <3>1, <3>5 DEF LoadedInv, InHand, Version
      <4> QED BY <3>3, <3>4, <4>1 DEF Agrees
    <3>6. \A e \in Ext \ {x} : tools'[e] # None => tools[e] # None /\ Version(e)' = Version(e)
      BY <2>2 DEF Version
    <3> QED BY <2>1, <2>2, <3>1, <3>4, <3>5, <3>6, Others
  <2> QED BY <1>19, <2>3, <2>4 DEF Quarantine, Write, WriteFails
<1> QED BY <1>1, <1>2, <1>3, <1>4, <1>5, <1>6, <1>7, <1>8, <1>9, <1>10, <1>11, <1>12, <1>13, <1>14, <1>15,
        <1>16, <1>17, <1>18, <1>19 DEF Next, Work

LEMMA EmptyStep ==
  ASSUME TypeInv, RunType, StoreInv, EmptyInv, LoadedInv, [Next]_vars
  PROVE  EmptyInv'
<1> USE DEF disk, runtime, bounds, Stay
<1>1. CASE UNCHANGED vars
  BY <1>1 DEF vars, EmptyInv
<1>2. ASSUME \/ TurnEnds \/ Close \/ PrepareRestricted \/ PrepareFull \/ Prepare
             \/ \E e \in Ext : CallBegins(e) \/ EditStaging(e) \/ \E kind \in Kinds : Request(kind, e)
             \/ \E w \in Worker : WorkerFault(w) \/ CallEnds(w)
      PROVE  EmptyInv'
  <2>1. UNCHANGED <<onFile, installed, op, damaged>>
    BY <1>2 DEF TurnEnds, Close, PrepareRestricted, PrepareFull, Prepare, ActivateNext, TurnStarts,
       Rollback, CallBegins, EditStaging, Request, WorkerFault, CallEnds
  <2> QED BY <2>1 DEF EmptyInv
<1>3. ASSUME op # None => ~op.created \/ op.pc \notin NewContent,
             installed' \subseteq installed, onFile => onFile', damaged => damaged'
      PROVE  EmptyInv'
  BY <1>3 DEF EmptyInv
<1>4. ASSUME op # None, op \in Op, NEW pc \in NewContent, GoTo(pc),
             UNCHANGED <<onFile, installed>>, damaged => damaged'
      PROVE  EmptyInv'
  <2>1. pc \in Place
    BY DEF NewContent, Place
  <2>2. /\ op' # None /\ op'.pc = pc /\ op'.ext = op.ext /\ op'.hash = op.hash /\ op'.created = op.created
    BY <1>4, <2>1, GoToFields
  <2> QED BY <1>4, <2>2 DEF EmptyInv
<1>5. CASE Crash
  BY <1>5 DEF Crash, EmptyInv
<1>6. ASSUME Begin \/ Start \/ StartList \/ InitStaging \/ Restore \/ Restored \/ Settle \/ ListLeftovers
      PROVE  EmptyInv'
  <2>1. op # None => op.pc \notin NewContent
    BY <1>6, AtType DEF Begin, Start, StartList, InitStaging, Restore, Restored, Settle, ListLeftovers,
       NewContent
  <2>2. UNCHANGED <<installed, onFile, damaged>>
    BY <1>6 DEF Begin, Start, StartList, InitStaging, Restore, Restored, Settle, ListLeftovers
  <2> QED BY <1>3, <2>1, <2>2
<1>7. ASSUME Sweep \/ EndSweep \/ Quarantine
      PROVE  EmptyInv'
  <2>1. op # None => op.pc \notin NewContent
    BY <1>7, AtType DEF Sweep, EndSweep, Quarantine, NewContent
  <2>2. installed' \subseteq installed
    BY <1>7 DEF Sweep, SweepStaging, SweepContent, SweepTrash, Swept, EndSweep, Quarantine
  <2>3. (onFile => onFile') /\ UNCHANGED damaged
    BY <1>7 DEF Sweep, EndSweep, Quarantine, Write, WriteFails
  <2> QED BY <1>3, <2>1, <2>2, <2>3
<1>8. CASE Materialize
  <2>1. op # None /\ op \in Op /\ op.pc = "materialize"
    BY <1>8, AtType DEF Materialize
  <2>2. UNCHANGED <<onFile, damaged>>
    BY <1>8 DEF Materialize
  <2>3. ~damaged => onFile \/ installed = {}
    BY <2>1 DEF EmptyInv, NewContent
  <2>4. CASE UNCHANGED installed
    BY <2>2, <2>3, <2>4 DEF EmptyInv
  <2>5. CASE /\ installed' = installed \cup {<<op.ext, op.hash>>}
             /\ op' = [op EXCEPT !.created = <<op.ext, op.hash>> \notin installed, !.pc = "probe"]
    <3>1. /\ op' \in Op /\ op'.pc = "probe" /\ op'.ext = op.ext /\ op'.hash = op.hash
          /\ (op'.created <=> <<op.ext, op.hash>> \notin installed)
      <4>1. (<<op.ext, op.hash>> \notin installed) \in BOOLEAN /\ "probe" \in Place
        BY DEF Place
      <4> QED BY <2>1, <2>5, <4>1 DEF Op
    <3>2. op' # None
      BY <3>1, NoneAssumption
    <3> QED BY <2>2, <2>3, <2>5, <3>1, <3>2 DEF EmptyInv, NewContent
  <2> QED BY <1>8, <2>4, <2>5 DEF Materialize
<1>9. CASE Probe
  <2>1. op # None /\ op \in Op /\ op.pc = "probe" /\ op.kind \in {"install", "enable"}
    BY <1>9, AtType DEF Probe
  <2>2. UNCHANGED <<installed, onFile, damaged>>
    BY <1>9 DEF Probe
  <2>3. CASE op.kind = "enable"
    <3>1. ~op.created
      BY <2>1, <2>3 DEF TypeInv, OpInv
    <3> QED BY <1>3, <2>2, <3>1
  <2>4. CASE op.kind = "install"
    <3>1. PICK pc \in {"unload", "abandon"} : GoTo(pc)
      BY <1>9, <2>4 DEF Probe
    <3> QED BY <1>4, <2>1, <2>2, <3>1 DEF NewContent
  <2> QED BY <2>1, <2>3, <2>4
<1>10. CASE Discard
  <2>1. op # None /\ op \in Op /\ op.pc \in {"abandon", "discard"}
    BY <1>10, AtType DEF Discard
  <2>2. CASE damaged'
    BY <2>2 DEF EmptyInv
  <2>3. CASE ~damaged' /\ op.created
    <3>1. installed' = installed \ {<<op.ext, op.hash>>} /\ UNCHANGED <<onFile, damaged>>
      BY <1>10, <2>3 DEF Discard
    <3>2. onFile \/ installed \subseteq {<<op.ext, op.hash>>}
      BY <2>3, <3>1 DEF EmptyInv
    <3>3. onFile' \/ installed' = {}
      BY <3>1, <3>2
    <3> QED BY <3>3 DEF EmptyInv
  <2>4. CASE ~damaged' /\ ~op.created
    <3>1. UNCHANGED <<installed, onFile, damaged>>
      BY <1>10, <2>4 DEF Discard
    <3> QED BY <1>3, <2>4, <3>1
  <2> QED BY <2>2, <2>3, <2>4
<1>11. CASE UnloadOld
  <2>1. /\ op # None /\ op \in Op /\ op.pc = "unload" /\ op.ext \in Ext
        /\ op.kind \in {"install", "enable", "disable", "uninstall"}
    BY <1>11, AtType DEF UnloadOld
  <2>2. UNCHANGED <<installed, onFile, damaged>>
    BY <1>11 DEF UnloadOld
  <2>3. CASE Busy(op.ext)
    <3>1. PICK x \in Ext : x = op.ext
      BY <2>1
    <3>2. tools[x] # None
      BY <2>3, <3>1 DEF Busy, IsLoaded, RunType, Hosted
    <3>3. ~damaged => Agrees(x)
      BY <2>1, <3>1, <3>2 DEF LoadedInv, InHand, Ahead
    <3>4. ~damaged => onFile
      BY <3>3 DEF Agrees, StoreInv, BackedInv
    <3> QED BY <2>2, <3>4 DEF EmptyInv
  <2>4. CASE GoTo(AfterUnload[op.kind])
    <3>1. AfterUnload[op.kind] \in NewContent
      BY <2>1 DEF AfterUnload, NewContent
    <3> QED BY <1>4, <2>1, <2>2, <2>4, <3>1
  <2> QED BY <1>11, <2>3, <2>4 DEF UnloadOld
<1>12. CASE Open \/ Opened
  <2>1. op # None /\ op \in Op /\ op.pc \in {"open", "opening"} /\ op.kind \in {"install", "enable"}
    BY <1>12, AtType DEF Open, Opened
  <2>2. UNCHANGED <<installed, onFile, damaged>>
    BY <1>12 DEF Open, Opened
  <2>3. CASE op.kind = "enable"
    <3>1. ~op.created
      BY <2>1, <2>3 DEF TypeInv, OpInv
    <3> QED BY <1>3, <2>2, <3>1
  <2>4. CASE op.kind = "install"
    <3>1. PICK pc \in {"opening", "commit", "discard"} : GoTo(pc)
      BY <1>12, <2>4 DEF Open, Opened
    <3> QED BY <1>4, <2>1, <2>2, <3>1 DEF NewContent
  <2> QED BY <2>1, <2>3, <2>4
<1>13. CASE Commit
  <2>1. op # None /\ UNCHANGED <<installed, damaged>>
    BY <1>13 DEF Commit, At
  <2>2. CASE op.kind = "uninstall" /\ op.old = None
    <3>1. ~op.created /\ UNCHANGED onFile
      BY <1>13, <2>1, <2>2 DEF TypeInv, OpInv, Commit
    <3> QED BY <1>3, <2>1, <3>1
  <2>3. CASE ~(op.kind = "uninstall" /\ op.old = None)
    BY <1>13, <2>3 DEF Commit, Write, EmptyInv
  <2> QED BY <2>2, <2>3
<1>14. CASE CommitFails
  <2>1. /\ op # None /\ op \in Op /\ op.pc = "commit"
        /\ op.kind \in {"install", "enable", "disable", "uninstall"}
    BY <1>14, AtType DEF CommitFails
  <2>2. UNCHANGED <<installed, onFile>> /\ (damaged => damaged')
    BY <1>14 DEF CommitFails, WriteFails
  <2>3. CASE op.kind # "install"
    <3>1. ~op.created
      BY <2>1, <2>3 DEF TypeInv, OpInv
    <3> QED BY <1>3, <2>2, <3>1
  <2>4. CASE op.kind = "install"
    <3>1. GoTo("discard")
      BY <1>14, <2>4 DEF CommitFails, AfterFailure
    <3> QED BY <1>4, <2>1, <2>2, <3>1 DEF NewContent
  <2> QED BY <2>3, <2>4
<1> QED BY <1>1, <1>2, <1>5, <1>6, <1>7, <1>8, <1>9, <1>10, <1>11, <1>12, <1>13, <1>14 DEF Next, Work

(* The disk, the catalogue and the runtime agree, whatever is asked for,   *)
(* fails, faults, is edited or called meanwhile, and crashes: what the     *)
(* catalogue lists is on disk at every moment; and between operations,     *)
(* unless a crash or a failed undo came before, what is loaded is what the *)
(* catalogue holds, and the catalogue can be read.                         *)
THEOREM StorageIsKept == Spec => []StorageAgrees
<1>1. Init => StoreInv /\ EmptyInv /\ LoadedInv
  <2> SUFFICES ASSUME Init PROVE StoreInv /\ EmptyInv /\ LoadedInv
    OBVIOUS
  <2>1. StoreInv
    BY DEF Init, StoreInv, BackedInv, Verified
  <2>2. EmptyInv /\ LoadedInv
    BY DEF Init, EmptyInv, LoadedInv
  <2> QED BY <2>1, <2>2
<1>2. StoreInv /\ EmptyInv /\ LoadedInv => StorageAgrees
  <2> SUFFICES ASSUME StoreInv, EmptyInv, LoadedInv PROVE StorageAgrees
    OBVIOUS
  <2>1. CatalogIsBacked
    BY DEF StoreInv, BackedInv, Verified, CatalogIsBacked
  <2>2. LoadedIsOnFile
    BY DEF LoadedInv, InHand, Agrees, Version, LoadedIsOnFile
  <2>3. StorageStaysReadable
    BY DEF StoreInv, BackedInv, EmptyInv, StorageStaysReadable, Readable
  <2> QED BY <2>1, <2>2, <2>3 DEF StorageAgrees
<1> QED BY <1>1, <1>2, TypeInit, TypeStep, StoreStep, EmptyStep, LoadedStep, PTL DEF Spec
=============================================================================
