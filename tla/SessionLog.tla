----------------------------- MODULE SessionLog -----------------------------
(***************************************************************************)
(* The event log of one session, the file .echo/sessions/<id>.jsonl, as    *)
(* its readers see it: a sequence of events, each with its sequence        *)
(* number, type, turn, tool call and operation.  An operation stands for   *)
(* a tool name with its normalised input: both the signature of the        *)
(* repetition limit and the key of a session approval are functions of it. *)
(* The module has no state.  It holds what the agent loop, the session     *)
(* repository and the application service compute from a log.              *)
(***************************************************************************)
EXTENDS Naturals, Sequences

CONSTANTS
  Call,      (* tool-call identifiers chosen by the model          *)
  NoCall,    (* an empty identifier; also: event without a call    *)
  Op,        (* operations: tool name and normalised input         *)
  NoOp       (* event without an operation                         *)

ASSUME NoCallAssumption == NoCall \notin Call
ASSUME NoOpAssumption == NoOp \notin Op

ToolTerminalTypes ==
  {"tool.completed", "tool.failed", "tool.denied", "tool.cancelled"}

TurnTerminalTypes == {"turn.completed", "turn.failed", "turn.cancelled"}

EventTypes ==
  {"session.started", "session.resumed", "turn.started", "step.started",
   "context.projected", "model.started", "model.text", "model.reasoning",
   "model.tool_call", "model.completed", "model.failed", "model.changed",
   "tool.requested", "approval.requested", "approval.granted",
   "approval.denied", "tool.authorized", "tool.started", "limit.reached"}
  \cup ToolTerminalTypes \cup TurnTerminalTypes

(* What an emitter says of an event; the log adds its place and its turn.  *)
Draft == [type: EventTypes, call: Call \cup {NoCall}, op: Op \cup {NoOp}]

Event == [seq: Nat, turn: Nat, type: EventTypes,
          call: Call \cup {NoCall}, op: Op \cup {NoOp}]

Note(type)           == [type |-> type, call |-> NoCall, op |-> NoOp]
About(type, call)    == [type |-> type, call |-> call, op |-> NoOp]
With(type, call, op) == [type |-> type, call |-> call, op |-> op]

Record(seq, turn, d) ==
  [seq |-> seq, turn |-> turn, type |-> d.type, call |-> d.call, op |-> d.op]

(* The sequence number of the last event, 0 for an empty log.              *)
Top(log) == IF log = <<>> THEN 0 ELSE log[Len(log)].seq

(* What read() accepts: each sequence number is above the one before it.   *)
Readable(log) ==
  \A i \in 2 .. Len(log) : log[i - 1].seq < log[i].seq

(* Calls and turns that have an event of one of the given types.           *)
CallsWith(log, types) ==
  {log[i].call : i \in {j \in DOMAIN log : log[j].type \in types}}

TurnsWith(log, types) ==
  {log[i].turn : i \in {j \in DOMAIN log : log[j].type \in types}}

(* Mutant: calls that have their terminal event count, too.                *)
RequestedCalls(log) == CallsWith(log, {"tool.requested"})

(* Requested calls without a terminal event.                               *)
DanglingCalls(log) ==
  CallsWith(log, {"tool.requested"}) \ CallsWith(log, ToolTerminalTypes)

(* The turn a call was requested in.                                       *)
TurnOf(log, call) ==
  log[CHOOSE i \in DOMAIN log :
        log[i].type = "tool.requested" /\ log[i].call = call].turn

(* Turns that started and have no terminal event.                          *)
IncompleteTurns(log) ==
  TurnsWith(log, {"turn.started"}) \ TurnsWith(log, TurnTerminalTypes)

(* Identifiers a continued session must not see again.                     *)
SeenCalls(log) == CallsWith(log, {"model.tool_call", "tool.requested"})

(* Operations with a session-wide approval; an approval for one call is    *)
(* logged with NoOp, since no later turn reads its key.                    *)
SessionGrants(log) ==
  {log[i].op : i \in {j \in DOMAIN log : log[j].type = "approval.granted"}}
  \ {NoOp}
=============================================================================
