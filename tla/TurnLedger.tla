----------------------------- MODULE TurnLedger -----------------------------
(***************************************************************************)
(* What the event log of a session promises to whoever reads it: one turn  *)
(* is open at a time, the tool calls of a turn go one after the other      *)
(* through request, authorisation and start to exactly one end, a tool is  *)
(* executed once and only while its call is started, and a turn closes     *)
(* only after its calls.                                                   *)
(***************************************************************************)
EXTENDS Naturals

CONSTANTS Turn, Call

VARIABLES
  turnStatus,   (* "new", "open" or "closed", for each turn               *)
  callStatus,   (* "new", "requested", "authorized", "started", "closed"  *)
  executions    (* how often each call was executed                       *)

vars == <<turnStatus, callStatus, executions>>

Init ==
  /\ turnStatus = [t \in Turn |-> "new"]
  /\ callStatus = [c \in Call |-> "new"]
  /\ executions = [c \in Call |-> 0]

InProgress == {c \in Call : callStatus[c] \notin {"new", "closed"}}

SomeTurnOpen == \E t \in Turn : turnStatus[t] = "open"

OpenTurn(t) ==
  /\ turnStatus[t] = "new" /\ ~SomeTurnOpen
  /\ turnStatus' = [turnStatus EXCEPT ![t] = "open"]
  /\ UNCHANGED <<callStatus, executions>>

Request(c) ==
  /\ callStatus[c] = "new" /\ InProgress = {}
  /\ SomeTurnOpen
  /\ callStatus' = [callStatus EXCEPT ![c] = "requested"]
  /\ UNCHANGED <<turnStatus, executions>>

Advance(c, from, to) ==
  /\ callStatus[c] = from /\ SomeTurnOpen
  /\ callStatus' = [callStatus EXCEPT ![c] = to]
  /\ UNCHANGED <<turnStatus, executions>>

Execute(c) ==
  /\ executions[c] = 0
  /\ executions' = [executions EXCEPT ![c] = 1]
  /\ callStatus[c] = "started"
  /\ UNCHANGED <<turnStatus, callStatus>>

CloseCall(c) ==
  /\ c \in InProgress /\ SomeTurnOpen
  /\ callStatus' = [callStatus EXCEPT ![c] = "closed"]
  /\ UNCHANGED <<turnStatus, executions>>

CloseTurn(t) ==
  /\ turnStatus[t] = "open" /\ InProgress = {}
  /\ turnStatus' = [turnStatus EXCEPT ![t] = "closed"]
  /\ UNCHANGED <<callStatus, executions>>

Next ==
  \/ /\ turnStatus' # turnStatus
     /\ \E t \in Turn : OpenTurn(t) \/ CloseTurn(t)
  \/ /\ callStatus' # callStatus
     /\ \E c \in Call :
          \/ Request(c) \/ CloseCall(c)
          \/ Advance(c, "requested", "authorized")
          \/ Advance(c, "authorized", "started")
  \/ \E c \in Call : Execute(c)

Spec == Init /\ [][Next]_vars
=============================================================================
