---------------------------- MODULE TraceDetails ----------------------------
(***************************************************************************)
(* The inspector of the web console: the records a command's result adds   *)
(* to the trace, the records each record is related to, and what the       *)
(* details of a record are read from (trace/projector).  The module has no *)
(* state.  Texts, their bounds and redaction are left out: a section of    *)
(* the details is its key.  Which of the completed calls ran commands is a *)
(* parameter, since the log leaves it out.                                 *)
(***************************************************************************)
EXTENDS SessionViews

Verification(c) == CallId("verification", c)
Policy(c)       == CallId("policy", c)

(* maybeVerification(): the end of a command is a record of its own.       *)
Verifications(log, commands) ==
  {Verification(c) : c \in commands \cap CallsWith(log, {"tool.completed"})}

(* lastVerification of a turn                                              *)
LastVerification(log, t, commands) ==
  LET done == {i \in OfTurn(log, t) \cap Indices(log, {"tool.completed"}) :
                 log[i].call \in commands}
  IN  IF done = {} THEN {} ELSE {Verification(log[Max(done)].call)}

RecordIds(log, records, commands) == {r.id : r \in records} \cup Verifications(log, commands)

(* The relations an event adds, as pairs of a record and its related one.  *)
Relations(log, i, commands) ==
  LET e == log[i]
      tool == CallId("tool", e.call)
      approval == CallId("approval", e.call)
      turn == Id("turn", e.turn, 0, NoCall)
      policy == Policy(e.call)
  IN
  CASE e.type = "tool.requested"     -> {<<tool, policy>>}
    [] e.type = "approval.requested" -> {approval} \X {policy, tool} \cup {policy} \X {approval, tool}
    [] e.type = "tool.authorized"    -> {<<policy, tool>>}
    [] e.type = "tool.denied"        -> {<<tool, policy>>, <<policy, tool>>}
    [] e.type = "tool.completed" /\ e.call \in commands ->
         {<<tool, policy>>} \cup {Verification(e.call)} \X {tool, turn}
    [] e.type \in ToolTerminalTypes  -> {<<tool, policy>>}
    [] e.type \in TurnTerminalTypes  ->
         {turn} \X ({Id("user", e.turn, 0, NoCall)} \cup LastVerification(log, e.turn, commands))
    [] OTHER                         -> {}

(* The call, if the trace has a record of an approval for it.              *)
Approvals(log, c) ==
  {log[i].call : i \in OfCall(log, c)
                       \cap Indices(log, {"approval.requested", "approval.granted", "approval.denied"})}

(* Mutant: the policy is related to an approval whether or not one exists. *)
ExplainedRelationsAlways(log) ==
  UNION {{Policy(c)} \X {CallId("tool", c), CallId("approval", c)} :
           c \in {k \in Call : Explained(log, k) # {}}}

(* refreshPolicies() relates a policy to its call and to its approval.     *)
ExplainedRelations(log) ==
  UNION {{Policy(c)} \X ({CallId("tool", c)} \cup {CallId("approval", d) : d \in Approvals(log, c)}) :
           c \in {k \in Call : Explained(log, k) # {}}}

AllRelations(log, commands) ==
  ExplainedRelations(log) \cup UNION {Relations(log, i, commands) : i \in DOMAIN log}

(* relatedRecordIds: a record is not related to itself.                    *)
Related(relations, id) == {p[2] : p \in {q \in relations : q[1] = id}} \ {id}

-----------------------------------------------------------------------------
(* Details *)

(* lastToolResult(), 0 for none.                                           *)
LastToolResult(log, c) ==
  LET ends == OfCall(log, c) \cap Indices(log, ToolTerminalTypes)
  IN  IF ends = {} THEN 0 ELSE Max(ends)

(* lastContextEvent(): of the turn, whichever step the record is about.    *)
LastContext(log, t) ==
  LET projected == OfTurn(log, t) \cap Indices(log, {"context.projected"})
  IN  IF projected = {} THEN 0 ELSE Max(projected)

(* The event of the log the details are read from.                         *)
Shows(log, id) ==
  CASE id.kind = "context"                   -> LastContext(log, id.turn)
    [] id.kind \in {"tool", "verification"}  -> LastToolResult(log, id.call)
    [] OTHER                                 -> 0

(* The sections of the details; limits are those of an output cut short.   *)
Sections(log, id, cut) ==
  {"metadata"} \cup
  CASE id.kind = "user"                    -> {"parameters"}
    [] id.kind = "context"                 -> {"parameters", "limits"}
    [] id.kind = "agent"                   -> {"parameters", "result"}
    [] id.kind = "tool"                    ->
         {"parameters"} \cup (IF Shows(log, id) = 0 THEN {} ELSE {"result"})
                        \cup (IF id.call \in cut THEN {"limits"} ELSE {})
    [] id.kind \in {"policy", "approval"}  -> {"result"}
    [] id.kind \in {"verification", "turn"} -> {"result", "evidence"}

(* policySections(): what is said of a decision.                           *)
Explanation(log, id) ==
  IF id.kind # "policy" THEN {}
  ELSE {[decision |-> Decision(log, id.call), approval |-> ApprovalTold(log, id.call),
         execution |-> ExecutionTold(log, id.call)]}

(* detailFor() *)
Detail(log, id, relations, cut) ==
  [id |-> id, from |-> Shows(log, id), sections |-> Sections(log, id, cut),
   says |-> Explanation(log, id), related |-> Related(relations, id)]

NotFound == [id |-> "NOT_FOUND"]

(* GET /trace/:recordId                                                    *)
DetailAnswer(log, ids, id, relations, cut) ==
  IF id \in ids THEN Detail(log, id, relations, cut) ELSE NotFound

-----------------------------------------------------------------------------
(* Pages *)

(* Mutant: the number is taken for that of the first record of the page.   *)
FollowingNext(records, after) == {r \in records : r.seq > after + 1}

Following(records, after) == {r \in records : r.seq > after}

(* The order of the trace: by number, and by identifier within one event.  *)
Precedes(r, s) ==
  LET rank(k) == CASE k = "approval" -> 1 [] k = "policy" -> 2 [] OTHER -> 3
  IN  r.seq < s.seq \/ (r.seq = s.seq /\ rank(r.id.kind) < rank(s.id.kind))

(* GET /trace: the records after a number, at most limit of them; next is  *)
(* the number to go on from, 0 if there are no more.                       *)
TracePage(records, after, limit) ==
  LET following == Following(records, after)
      page == {r \in following : Cardinality({s \in following : Precedes(s, r)}) < limit}
  IN  [items |-> page, next |-> IF page = following THEN 0 ELSE Max({r.seq : r \in page})]
=============================================================================
