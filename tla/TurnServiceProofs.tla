-------------------------- MODULE TurnServiceProofs --------------------------
(***************************************************************************)
(* Theorems about TurnService, for every value of its constants.           *)
(***************************************************************************)
EXTENDS TurnService, FiniteSetTheorems, TLAPS

-----------------------------------------------------------------------------
(* What TypeOK rests on: the types of requests, the last event of a file   *)
(* that sets a mode, and which requests may stand where.                   *)

RequestRecord ==
  [kind: {"none", "submit", "delete", "cancel", "answer", "mode"},
   session: Session \cup {None}, turn: Request \cup {None},
   choice: {None, "granted", "denied"}, busy: BOOLEAN]

ModeSet(l) == {i \in DOMAIN l : l[i].type \in {"session.started", "safety.changed"}}

HasMode(l) == \E i \in ModeSet(l) : \A j \in ModeSet(l) : j =< i

DeletePlaces == {"stopping", "deleting", "unlinking"}

ModePlaces == {"switching", "numbering", "switched"}

WellPlaced(r) ==
  /\ pc[r] = "unsent" => answer[r] = "none"
  /\ pc[r] = "unsent" <=> req[r].kind = "none"
  /\ req[r].kind # "none" => S(r) \in Session
  /\ pc[r] = "queued" => req[r].kind \in {"submit", "delete"}
  /\ pc[r] \in Registered \cup {"reading"} => req[r].kind = "submit"
  /\ pc[r] \in DeletePlaces => req[r].kind = "delete"
  /\ pc[r] \in ModePlaces => req[r].kind = "mode"
  /\ pc[r] \in Registered \cup ModePlaces => mode[r] \in Mode

TypeInv ==
  /\ TypeOK
  /\ req \in [Request -> RequestRecord]
  /\ \A s \in Session : IF log[s] = <<>> THEN s \in deleting ELSE HasMode(log[s])
  /\ \A r \in Request : WellPlaced(r)

(* The queue: its requests are distinct, only the first one may be at      *)
(* work, and the active turn has left it.  A request before turn.started   *)
(* is the first, and no turn is active then; later it is the active turn.  *)
AtHead == {"reading", "preparing", "starting"} \cup DeletePlaces

Started == {"running", "asking", "waiting", "recording", "ending"}

Outside == {"unsent", "done"} \cup ModePlaces

InQueue(r) == \E i \in DOMAIN chain : chain[i] = r

QueueInv ==
  /\ \A i, j \in DOMAIN chain : chain[i] = chain[j] => i = j
  /\ \A i \in DOMAIN chain :
       /\ chain[i] # active
       /\ pc[chain[i]] \in IF i = 1 THEN AtHead \cup {"queued", "repair"} ELSE {"queued"}
  /\ active # None => pc[active] \in Started \cup {"repair"}
  /\ \A r \in Request :
       /\ pc[r] \in Started => active = r
       /\ pc[r] \in AtHead \cup {"queued"} => InQueue(r)
       /\ pc[r] = "repair" => active = r \/ InQueue(r)
       /\ pc[r] \in {"reading", "preparing", "starting", "repair"} => active \in {None, r}

(* A file that is being unlinked is there and refuses appends; a deleted   *)
(* one stays deleted.                                                      *)
DeleteInv ==
  /\ \A r \in Request :
       pc[r] = "unlinking" => S(r) \in deleting /\ log[S(r)] # <<>>
  /\ DeletedStaysDeleted

(* The service's active turns are the turns that are registered.           *)
RegisteredInv ==
  /\ \A r \in Request :
       /\ pc[r] \in Registered => activeTurns[S(r)] = r
       /\ pc[r] = "unlinking" => activeTurns[S(r)] = None
  /\ \A s \in Session :
       activeTurns[s] # None =>
         /\ activeTurns[s] \in Request /\ pc[activeTurns[s]] \in Registered
         /\ S(activeTurns[s]) = s

(* A turn is on file from the moment it is the active one.                 *)
OnFileInv ==
  \A r \in Request :
    IF active = r THEN Has(S(r), "turn.started", r)
    ELSE pc[r] # "done" => \A s \in Session : ~Has(s, "turn.started", r)

ServiceInv == TypeInv /\ QueueInv /\ DeleteInv /\ RegisteredInv /\ OnFileInv

(* Another event leaves a file with a mode.                                *)
LEMMA HasModeAppend ==
  ASSUME NEW l \in Seq(Event), NEW e \in Event, HasMode(l)
  PROVE  HasMode(Append(l, e))
<1> DEFINE m == Append(l, e)
<1>1. /\ Len(m) = Len(l) + 1 /\ Len(l) \in Nat
      /\ m[Len(l) + 1] = e
      /\ \A i \in 1 .. Len(l) : m[i] = l[i]
      /\ DOMAIN m = 1 .. Len(l) + 1 /\ DOMAIN l = 1 .. Len(l)
  OBVIOUS
<1> HIDE DEF m
<1>2. CASE e.type \in {"session.started", "safety.changed"}
  <2>1. Len(l) + 1 \in ModeSet(m)
    BY <1>1, <1>2 DEF ModeSet
  <2>2. \A j \in ModeSet(m) : j =< Len(l) + 1
    BY <1>1 DEF ModeSet
  <2> QED BY <2>1, <2>2 DEF HasMode, m
<1>3. CASE e.type \notin {"session.started", "safety.changed"}
  <2>1. ModeSet(m) = ModeSet(l)
    BY <1>1, <1>3 DEF ModeSet
  <2> QED BY <2>1 DEF HasMode, m
<1> QED BY <1>2, <1>3

(* The mode of a file is a mode.                                           *)
LEMMA FileModeType ==
  ASSUME TypeInv, NEW s \in Session, log[s] # <<>>
  PROVE  FileMode(s) \in Mode
<1> DEFINE last == CHOOSE i \in ModeSet(log[s]) : \A j \in ModeSet(log[s]) : j =< i
<1>1. last \in ModeSet(log[s])
  BY DEF TypeInv, HasMode
<1>2. FileMode(s) = log[s][last].mode
  BY DEF FileMode, ModeSet
<1>3. log[s][last] \in Event
  BY <1>1 DEF TypeInv, TypeOK, ModeSet
<1>4. log[s][last].type \in {"session.started", "safety.changed"}
  BY <1>1 DEF ModeSet
<1> HIDE DEF last
<1> QED BY <1>2, <1>3, <1>4 DEF Event

(* The mode a turn starts in is one.                                       *)
LEMMA RememberedType ==
  ASSUME TypeInv, NEW s \in Session, log[s] # <<>>
  PROVE  Remembered(s) \in Mode
<1>1. memory[s] \in Mode \cup {None}
  BY DEF TypeInv, TypeOK
<1> QED BY <1>1, FileModeType DEF Remembered

(* What an append leaves of the types.                                     *)
LEMMA AppendTypes ==
  ASSUME TypeInv, NEW s \in Session, NEW n \in Nat, NEW e \in Event,
         AppendOk(s, n, e)
  PROVE  /\ log' \in [Session -> Seq(Event)]
         /\ \A x \in Session : IF log'[x] = <<>> THEN x \in deleting' ELSE HasMode(log'[x])
         /\ UNCHANGED <<deleting, faults>>
<1>1. /\ log[s] \in Seq(Event) /\ log[s] # <<>> /\ HasMode(log[s])
      /\ log' = [log EXCEPT ![s] = Append(@, e)]
      /\ UNCHANGED <<deleting, faults>>
  BY DEF TypeInv, TypeOK, AppendOk, Accepts
<1>2. HasMode(Append(log[s], e)) /\ Append(log[s], e) # <<>>
  BY <1>1, HasModeAppend
<1>3. Append(log[s], e) \in Seq(Event)
  BY <1>1
<1> QED BY <1>1, <1>2, <1>3 DEF TypeInv, TypeOK

(* What a failed append leaves of the types.                               *)
LEMMA AppendFailsTypes ==
  ASSUME TypeInv, NEW s, NEW n, AppendFails(s, n)
  PROVE  UNCHANGED <<log, deleting>> /\ faults' \in Nat
BY ServiceAssumption DEF AppendFails, Fault, TypeInv, TypeOK

(* Leaving the queue keeps its type.                                       *)
LEMMA LeaveType ==
  ASSUME TypeInv, NEW r, Leave(r)
  PROVE  chain' \in Seq(Request)
BY DEF TypeInv, TypeOK, Leave

(* The first state has its types.                                          *)
LEMMA InitTypes == Init => TypeInv
<1> SUFFICES ASSUME Init PROVE TypeInv
  OBVIOUS
<1>1. PICK m \in [Session -> Mode] :
        /\ log = [s \in Session |-> <<Ev("session.started", None, m[s])>>]
        /\ memory \in [Session -> Mode \cup {None}]
  BY DEF Init
<1>2. ASSUME NEW s \in Session
      PROVE  log[s] \in Seq(Event) /\ log[s] # <<>> /\ HasMode(log[s])
  <2>1. Ev("session.started", None, m[s]) \in Event
    BY <1>2 DEF Ev, Event
  <2>2. 1 \in ModeSet(log[s]) /\ \A j \in ModeSet(log[s]) : j =< 1
    BY <1>1, <1>2, <2>1 DEF ModeSet, Ev
  <2> QED BY <1>1, <1>2, <2>1, <2>2 DEF HasMode
<1>3. TypeOK
  BY <1>1, <1>2 DEF Init, TypeOK, Place, Response
<1>4. req \in [Request -> RequestRecord]
  BY DEF Init, NoRequest, RequestRecord
<1>5. \A r \in Request : WellPlaced(r)
  BY DEF Init, NoRequest, WellPlaced, Registered, DeletePlaces, ModePlaces
<1> QED BY <1>2, <1>3, <1>4, <1>5 DEF TypeInv

-----------------------------------------------------------------------------
(* Every step keeps the types.                                             *)

USE DEF S, Respond, Goto, Stands, AtWork, storeVars, serviceVars, approvalVars,
        coordVars, requestVars

(* A request that arrives is a request.                                    *)
LEMMA ArriveTypes ==
  ASSUME TypeInv, NEW r \in Request,
         NEW kind \in {"submit", "delete", "cancel", "answer", "mode"},
         NEW s \in Session, NEW t \in Request \cup {None},
         NEW c \in {None, "granted", "denied"}, Arrive(r, kind, s, t, c)
  PROVE  /\ req' \in [Request -> RequestRecord]
         /\ pc[r] = "unsent" /\ answer[r] = "none"
         /\ req'[r].kind = kind /\ req'[r].session = s
         /\ \A x \in Request \ {r} : req'[x] = req[x]
<1> DEFINE ask == [kind |-> kind, session |-> s, turn |-> t, choice |-> c,
                   busy |-> kind = "submit" /\ Busy]
<1>1. ask \in RequestRecord
  BY DEF RequestRecord
<1>2. req' = [req EXCEPT ![r] = ask] /\ pc[r] = "unsent" /\ req \in [Request -> RequestRecord]
  BY DEF Arrive, TypeInv
<1>3. answer[r] = "none"
  BY <1>2 DEF TypeInv, WellPlaced
<1>4. ask.kind = kind /\ ask.session = s
  OBVIOUS
<1> HIDE DEF ask
<1> QED BY <1>1, <1>2, <1>3, <1>4

(* So does the arrival of a request,                                       *)
LEMMA ArrivalTypes ==
  ASSUME TypeInv, NEW r \in Request, Arrival(r)
  PROVE  TypeInv'
<1> USE ServiceAssumption DEF TypeInv
<1>1. CASE Enqueue(r)
  <2>1. PICK k \in {"submit", "delete"}, s \in Session : Arrive(r, k, s, None, None)
    BY <1>1 DEF Enqueue
  <2>2. TypeOK'
    BY <1>1 DEF TypeOK, Enqueue, Place
  <2>3. /\ req' \in [Request -> RequestRecord]
        /\ req'[r].kind = k /\ req'[r].session = s
        /\ \A x \in Request \ {r} : req'[x] = req[x]
    BY <2>1, ArriveTypes
  <2>4. pc' = [pc EXCEPT ![r] = "queued"] /\ UNCHANGED <<answer, mode, log, deleting>>
    BY <1>1 DEF Enqueue
  <2>5. ASSUME NEW x \in Request PROVE WellPlaced(x)'
    BY <2>3, <2>4 DEF TypeOK, WellPlaced, Registered, DeletePlaces, ModePlaces
  <2> QED BY <2>2, <2>3, <2>4, <2>5
<1>2. CASE Cancel(r)
  <2>1. PICK t \in Request :
          /\ req[t].kind = "submit"
          /\ Arrive(r, "cancel", S(t), t, None)
          /\ IF active = t
             THEN /\ Aborts({t}) /\ Respond(r, "ok")
                  /\ pc' = [Unwinding({t}) EXCEPT ![r] = "done"]
             ELSE /\ Respond(r, "not_active") /\ Goto(r, "done")
                  /\ UNCHANGED <<approvalVars, aborted>>
    BY <1>2 DEF Cancel
  <2>2. UNCHANGED <<storeVars, serviceVars, chain, active, server, mode, seqn>>
    BY <1>2 DEF Cancel
  <2>3. /\ req' \in [Request -> RequestRecord]
        /\ req'[r].kind = "cancel" /\ req'[r].session = S(t) /\ S(t) \in Session
        /\ \A x \in Request \ {r} : req'[x] = req[x]
    BY <2>1, ArriveTypes DEF WellPlaced
  <2>4. /\ \A x \in Request : \/ pc'[x] = pc[x] /\ x # r
                              \/ x # r /\ pc'[x] = "ending" /\ pc[x] = "waiting"
                              \/ x = r /\ pc'[x] = "done"
        /\ DOMAIN pc' = Request /\ pc' = [x \in DOMAIN pc' |-> pc'[x]]
    BY <2>1 DEF Unwinding, WaitingOf, TypeOK
  <2>5. pc' \in [Request -> Place]
    BY <2>4 DEF TypeOK, Place, Registered
  <2>6. answer' \in [Request -> Response]
        /\ \A x \in Request \ {r} : answer'[x] = answer[x]
    BY <2>1 DEF TypeOK, Response
  <2>7. /\ pending' \subseteq Request /\ settled' \subseteq Request
        /\ expired' \subseteq Request /\ aborted' \subseteq Request
        /\ choice' = choice
    BY <2>1 DEF TypeOK, Aborts, WaitingOf
  <2>8. TypeOK'
    BY <2>2, <2>5, <2>6, <2>7 DEF TypeOK
  <2>9. ASSUME NEW x \in Request PROVE WellPlaced(x)'
    BY <2>2, <2>3, <2>4, <2>6 DEF WellPlaced, Registered, DeletePlaces, ModePlaces
  <2> QED BY <2>2, <2>3, <2>8, <2>9
<1>3. CASE Answer(r)
  <2>1. PICK t \in Request, c \in {"granted", "denied"} :
          /\ req[t].kind = "submit"
          /\ Arrive(r, "answer", S(t), t, c)
          /\ IF t \in pending
             THEN /\ pending' = StillPending(t) /\ settled' = settled \cup {t}
                  /\ choice' = [choice EXCEPT ![t] = c]
                  /\ Respond(r, "ok")
                  /\ pc' = [pc EXCEPT ![r] = "done",
                              ![t] = IF pc[t] = "waiting" THEN "recording" ELSE pc[t]]
             ELSE /\ Respond(r, IF t \in settled THEN "duplicate"
                                ELSE IF t \in expired THEN "expired" ELSE "not_pending")
                  /\ Goto(r, "done")
                  /\ UNCHANGED <<pending, settled, choice>>
    BY <1>3 DEF Answer
  <2>2. UNCHANGED <<storeVars, serviceVars, expired, chain, active, server, mode,
                    seqn, aborted>>
    BY <1>3 DEF Answer
  <2>3. /\ req' \in [Request -> RequestRecord]
        /\ req'[r].kind = "answer" /\ req'[r].session = S(t) /\ S(t) \in Session
        /\ \A x \in Request \ {r} : req'[x] = req[x]
        /\ pc[r] = "unsent" /\ pc[t] # "unsent"
    BY <2>1, ArriveTypes DEF WellPlaced
  <2>4. \A x \in Request : \/ pc'[x] = pc[x] /\ x # r
                           \/ x # r /\ pc'[x] = "recording" /\ pc[x] = "waiting"
                           \/ x = r /\ pc'[x] = "done"
    BY <2>1, <2>3 DEF TypeOK
  <2>5. pc' \in [Request -> Place]
    <3>1. /\ (IF pc[t] = "waiting" THEN "recording" ELSE pc[t]) \in Place
          /\ "done" \in Place
      BY DEF TypeOK, Place, Registered
    <3>2. CASE t \in pending
      <4>1. pc' = [pc EXCEPT ![r] = "done",
                     ![t] = IF pc[t] = "waiting" THEN "recording" ELSE pc[t]]
        BY <2>1, <3>2
      <4> QED BY <3>1, <4>1 DEF TypeOK
    <3>3. CASE t \notin pending
      <4>1. pc' = [pc EXCEPT ![r] = "done"]
        BY <2>1, <3>3
      <4> QED BY <3>1, <4>1 DEF TypeOK
    <3> QED BY <3>2, <3>3
  <2>6. answer' \in [Request -> Response]
        /\ \A x \in Request \ {r} : answer'[x] = answer[x]
    BY <2>1 DEF TypeOK, Response
  <2>7. pending' \subseteq Request /\ settled' \subseteq Request
    BY <2>1 DEF TypeOK, StillPending
  <2>10. choice' \in [Request -> {"none", "granted", "denied"}]
    BY <2>1 DEF TypeOK
  <2>8. TypeOK'
    BY <2>2, <2>5, <2>6, <2>7, <2>10 DEF TypeOK
  <2>9. ASSUME NEW x \in Request PROVE WellPlaced(x)'
    BY <2>2, <2>3, <2>4, <2>6 DEF WellPlaced, Registered, DeletePlaces, ModePlaces
  <2> QED BY <2>2, <2>3, <2>8, <2>9
<1>4. CASE AskMode(r)
  <2>1. PICK s \in Session, m \in Mode :
          Arrive(r, "mode", s, None, None) /\ mode' = [mode EXCEPT ![r] = m]
    BY <1>4 DEF AskMode
  <2>2. TypeOK'
    BY <1>4, <2>1 DEF TypeOK, AskMode, Busy, Place, Response
  <2>3. /\ req' \in [Request -> RequestRecord]
        /\ req'[r].kind = "mode" /\ req'[r].session = s
        /\ \A x \in Request \ {r} : req'[x] = req[x]
    BY <2>1, ArriveTypes
  <2>4. /\ pc' = [pc EXCEPT ![r] = "done"] \/ pc' = [pc EXCEPT ![r] = "switching"]
        /\ UNCHANGED <<log, deleting>>
        /\ \A x \in Request \ {r} : answer'[x] = answer[x]
    BY <1>4 DEF AskMode, TypeOK
  <2>5. ASSUME NEW x \in Request PROVE WellPlaced(x)'
    <3>1. CASE x = r
      BY <2>1, <2>3, <2>4, <3>1 DEF TypeOK, WellPlaced, Registered, DeletePlaces, ModePlaces
    <3>2. CASE x # r
      BY <2>1, <2>3, <2>4, <3>2 DEF TypeOK, WellPlaced, Registered, DeletePlaces, ModePlaces
    <3> QED BY <3>1, <3>2
  <2> QED BY <2>2, <2>3, <2>4, <2>5
<1> QED BY <1>1, <1>2, <1>3, <1>4 DEF Arrival

(* A step of one request changes only its own place, and gives no answer   *)
(* to a request that has not come.                                         *)
LEMMA MoveTypes ==
  ASSUME TypeInv, NEW r \in Request, NEW place \in Place,
         pc' = [pc EXCEPT ![r] = place], req' = req,
         pc[r] # "unsent", place # "unsent",
         \A x \in Request \ {r} : answer'[x] = answer[x] /\ mode'[x] = mode[x],
         place = "queued" => req[r].kind \in {"submit", "delete"},
         place \in Registered \cup {"reading"} => req[r].kind = "submit",
         place \in DeletePlaces => req[r].kind = "delete",
         place \in ModePlaces => req[r].kind = "mode",
         place \in Registered \cup ModePlaces => mode'[r] \in Mode
  PROVE  \A x \in Request : WellPlaced(x)'
<1> SUFFICES ASSUME NEW x \in Request PROVE WellPlaced(x)'
  OBVIOUS
<1>1. CASE x = r
  BY <1>1 DEF TypeInv, TypeOK, WellPlaced
<1>2. CASE x # r
  BY <1>2 DEF TypeInv, TypeOK, WellPlaced
<1> QED BY <1>1, <1>2

(* What the place of a request says about it.                              *)
LEMMA PlaceTypes ==
  ASSUME TypeInv, NEW r \in Request
  PROVE  /\ pc[r] # "unsent" => req[r].kind # "none" /\ S(r) \in Session
         /\ pc[r] \in Registered \cup {"reading"} => req[r].kind = "submit"
         /\ pc[r] \in DeletePlaces => req[r].kind = "delete"
         /\ pc[r] \in ModePlaces => req[r].kind = "mode"
         /\ pc[r] \in Registered \cup ModePlaces => mode[r] \in Mode
BY DEF TypeInv, WellPlaced

(* The events a turn or a settings request appends are events.             *)
LEMMA EventTypes ==
  ASSUME NEW r \in Request, NEW m \in Mode
  PROVE  /\ Ev("turn.started", r, m) \in Event
         /\ Ev("safety.changed", None, m) \in Event
         /\ Ev("approval.requested", r, None) \in Event
         /\ Ev("approval.granted", r, None) \in Event
         /\ Ev("approval.denied", r, None) \in Event
         /\ Ev("turn.end", r, None) \in Event
BY DEF Ev, Event

(* What runTurn's return leaves of the types.                              *)
LEMMA ReturnsTypes ==
  ASSUME TypeInv, NEW r \in Request, Returns(r), S(r) \in Session
  PROVE  /\ pending' \subseteq Request /\ expired' \subseteq Request
         /\ activeTurns' \in [Session -> Request \cup {None}]
         /\ active' \in Request \cup {None}
         /\ pc' = [pc EXCEPT ![r] = "done"]
         /\ chain' \in Seq(Request)
         /\ UNCHANGED <<settled, choice, memory>>
<1>1. chain' \in Seq(Request)
  BY LeaveType DEF Returns
<1> QED BY <1>1 DEF Returns, ActiveAfter, TypeInv, TypeOK

(* a step of a turn, from the queue to runTurn's return,                   *)
LEMMA TurnTypes ==
  ASSUME TypeInv, NEW r \in Request, TurnStep(r)
  PROVE  TypeInv'
<1> USE DEF TypeInv
<1>1. CASE Submit(r)
  <2>1. chain' \in Seq(Request)
    BY <1>1, LeaveType DEF Submit, TypeOK
  <2>2. PICK place \in {"done", "reading"} : pc' = [pc EXCEPT ![r] = place]
    BY <1>1 DEF Submit
  <2>3. \E a \in Response : answer' = [answer EXCEPT ![r] = a] \/ answer' = answer
    BY <1>1 DEF Submit, Response
  <2>4. /\ pc[r] = "queued" /\ req[r].kind = "submit"
        /\ UNCHANGED <<storeVars, serviceVars, approvalVars, active, server,
                       requestVars, aborted>>
    BY <1>1 DEF Submit
  <2>5. TypeOK'
    BY <2>1, <2>2, <2>3, <2>4 DEF TypeOK, Place
  <2>6. \A x \in Request : WellPlaced(x)'
    BY <2>2, <2>3, <2>4, MoveTypes DEF TypeOK, Place, Registered, DeletePlaces, ModePlaces
  <2> QED BY <2>4, <2>5, <2>6
<1>2. CASE Register(r)
  <2>1. /\ pc[r] = "reading" /\ req[r].kind = "submit" /\ S(r) \in Session
        /\ UNCHANGED <<storeVars, approvalVars, active, server, req, seqn, aborted>>
    BY <1>2, PlaceTypes DEF Register
  <2>2. CASE log[S(r)] = <<>> \/ OpenTurns(S(r)) # {}
    <3>1. /\ answer' = [answer EXCEPT ![r] = "error"] /\ pc' = [pc EXCEPT ![r] = "done"]
          /\ Leave(r) /\ UNCHANGED <<serviceVars, mode>>
      BY <1>2, <2>2 DEF Register
    <3>2. TypeOK'
      BY <2>1, <3>1, LeaveType DEF TypeOK, Place, Response
    <3>3. \A x \in Request : WellPlaced(x)'
      BY <2>1, <3>1, MoveTypes DEF TypeOK, Place, Registered, DeletePlaces, ModePlaces
    <3> QED BY <2>1, <3>2, <3>3
  <2>3. CASE ~(log[S(r)] = <<>> \/ OpenTurns(S(r)) # {})
    <3>1. /\ mode' = [mode EXCEPT ![r] = Remembered(S(r))]
          /\ memory' = [memory EXCEPT ![S(r)] = Remembered(S(r))]
          /\ activeTurns' = [activeTurns EXCEPT ![S(r)] = r]
          /\ pc' = [pc EXCEPT ![r] = "preparing"]
          /\ UNCHANGED <<answer, chain>>
      BY <1>2, <2>3 DEF Register
    <3>2. Remembered(S(r)) \in Mode
      BY <2>1, <2>3, RememberedType
    <3>3. TypeOK'
      BY <2>1, <3>1, <3>2 DEF TypeOK, Place, Registered
    <3>4. \A x \in Request : WellPlaced(x)'
      BY <2>1, <3>1, <3>2, MoveTypes DEF TypeOK, Place, Registered, DeletePlaces, ModePlaces
    <3> QED BY <2>1, <3>3, <3>4
  <2> QED BY <2>2, <2>3
<1>3. CASE PrepareFails(r)
  <2>1. /\ pc[r] = "preparing" /\ S(r) \in Session /\ Returns(r)
        /\ answer' = [answer EXCEPT ![r] = "error"]
        /\ UNCHANGED <<storeVars, server, requestVars, aborted>>
    BY <1>3, PlaceTypes DEF PrepareFails
  <2>2. TypeOK'
    BY <2>1, ReturnsTypes DEF TypeOK, Place, Response
  <2>3. \A x \in Request : WellPlaced(x)'
    BY <2>1, ReturnsTypes, MoveTypes DEF TypeOK, Place, Registered, DeletePlaces, ModePlaces
  <2> QED BY <2>1, <2>2, <2>3
<1>4. CASE Prepared(r)
  <2>1. /\ pc[r] = "preparing" /\ req[r].kind = "submit" /\ S(r) \in Session /\ mode[r] \in Mode
        /\ seqn' = [seqn EXCEPT ![r] = Len(log[S(r)])]
        /\ pc' = [pc EXCEPT ![r] = "starting"]
        /\ UNCHANGED <<storeVars, serviceVars, approvalVars, chain, active, server,
                       req, answer, mode, aborted>>
    BY <1>4, PlaceTypes DEF Prepared, Registered
  <2>2. Len(log[S(r)]) \in Nat
    BY <2>1 DEF TypeOK
  <2>3. TypeOK'
    BY <2>1, <2>2 DEF TypeOK, Place, Registered
  <2>4. \A x \in Request : WellPlaced(x)'
    BY <2>1, MoveTypes DEF TypeOK, Place, Registered, DeletePlaces, ModePlaces
  <2> QED BY <2>1, <2>3, <2>4
<1>5. CASE Start(r)
  <2>1. /\ pc[r] = "starting" /\ req[r].kind = "submit" /\ S(r) \in Session /\ mode[r] \in Mode
        /\ AppendOk(S(r), seqn[r] + 1, Ev("turn.started", r, mode[r]))
        /\ seqn' = [seqn EXCEPT ![r] = @ + 1]
        /\ active' = r /\ Leave(r)
        /\ answer' = [answer EXCEPT ![r] = "ok"] /\ pc' = [pc EXCEPT ![r] = "running"]
        /\ UNCHANGED <<serviceVars, approvalVars, server, req, mode, aborted>>
    BY <1>5, PlaceTypes DEF Start, Registered
  <2>2. seqn[r] + 1 \in Nat
    BY DEF TypeOK
  <2>3. /\ log' \in [Session -> Seq(Event)]
        /\ \A x \in Session : IF log'[x] = <<>> THEN x \in deleting' ELSE HasMode(log'[x])
        /\ UNCHANGED <<deleting, faults>>
    BY <2>1, <2>2, EventTypes, AppendTypes
  <2>4. TypeOK'
    BY <2>1, <2>2, <2>3, LeaveType DEF TypeOK, Place, Registered, Response
  <2>5. \A x \in Request : WellPlaced(x)'
    BY <2>1, MoveTypes DEF TypeOK, Place, Registered, DeletePlaces, ModePlaces
  <2> QED BY <2>1, <2>3, <2>4, <2>5
<1>6. CASE LoopAppendFails(r)
  <2>1. /\ pc[r] \in Registered /\ req[r].kind = "submit" /\ mode[r] \in Mode /\ pc[r] # "unsent"
        /\ AppendFails(S(r), seqn[r] + 1)
        /\ pc' = [pc EXCEPT ![r] = "repair"]
        /\ UNCHANGED <<serviceVars, approvalVars, chain, active, server, requestVars,
                       answer, aborted>>
    BY <1>6, PlaceTypes DEF LoopAppendFails, Registered
  <2>2. UNCHANGED <<log, deleting>> /\ faults' \in Nat
    BY <2>1, AppendFailsTypes
  <2>3. TypeOK'
    BY <2>1, <2>2 DEF TypeOK, Place, Registered
  <2>4. \A x \in Request : WellPlaced(x)'
    BY <2>1, MoveTypes DEF TypeOK, Place, Registered, DeletePlaces, ModePlaces
  <2> QED BY <2>1, <2>2, <2>3, <2>4
<1>7. CASE Work(r)
  <2>1. PICK place \in {"asking", "ending"} : pc' = [pc EXCEPT ![r] = place]
    BY <1>7 DEF Work
  <2>2. /\ pc[r] = "running" /\ req[r].kind = "submit" /\ mode[r] \in Mode
        /\ UNCHANGED <<storeVars, serviceVars, approvalVars, chain, active, server,
                       requestVars, answer, aborted>>
    BY <1>7, PlaceTypes DEF Work, Registered
  <2>3. TypeOK'
    BY <2>1, <2>2 DEF TypeOK, Place, Registered
  <2>4. \A x \in Request : WellPlaced(x)'
    BY <2>1, <2>2, MoveTypes DEF TypeOK, Place, Registered, DeletePlaces, ModePlaces
  <2> QED BY <2>2, <2>3, <2>4
<1>8. CASE Ask(r)
  <2>1. PICK place \in {"ending", "waiting"} : pc' = [pc EXCEPT ![r] = place]
    BY <1>8 DEF Ask
  <2>2. /\ pc[r] = "asking" /\ req[r].kind = "submit" /\ S(r) \in Session /\ mode[r] \in Mode
        /\ AppendOk(S(r), seqn[r] + 1, Ev("approval.requested", r, None))
        /\ seqn' = [seqn EXCEPT ![r] = @ + 1]
        /\ pending' = pending \cup {r}
        /\ UNCHANGED <<serviceVars, settled, expired, choice, chain, active, server, req,
                       answer, mode, aborted>>
    BY <1>8, PlaceTypes DEF Ask, Emits, Registered
  <2>3. seqn[r] + 1 \in Nat
    BY DEF TypeOK
  <2>4. /\ log' \in [Session -> Seq(Event)]
        /\ \A x \in Session : IF log'[x] = <<>> THEN x \in deleting' ELSE HasMode(log'[x])
        /\ UNCHANGED <<deleting, faults>>
    BY <2>2, <2>3, EventTypes, AppendTypes
  <2>5. TypeOK'
    BY <2>1, <2>2, <2>3, <2>4 DEF TypeOK, Place, Registered
  <2>6. \A x \in Request : WellPlaced(x)'
    BY <2>1, <2>2, MoveTypes DEF TypeOK, Place, Registered, DeletePlaces, ModePlaces
  <2> QED BY <2>2, <2>4, <2>5, <2>6
<1>9. CASE Record(r)
  <2> DEFINE e == Ev(IF choice[r] = "granted" THEN "approval.granted" ELSE "approval.denied",
                     r, None)
  <2>1. /\ pc[r] = "recording" /\ req[r].kind = "submit" /\ S(r) \in Session /\ mode[r] \in Mode
        /\ AppendOk(S(r), seqn[r] + 1, e)
        /\ seqn' = [seqn EXCEPT ![r] = @ + 1]
        /\ pc' = [pc EXCEPT ![r] = "running"]
        /\ UNCHANGED <<serviceVars, approvalVars, chain, active, server, req, answer,
                       mode, aborted>>
    BY <1>9, PlaceTypes DEF Record, ApprovalEvent, Emits, Registered
  <2>2. seqn[r] + 1 \in Nat
    BY DEF TypeOK
  <2>3. e \in Event
    BY <2>1, EventTypes
  <2> HIDE DEF e
  <2>4. /\ log' \in [Session -> Seq(Event)]
        /\ \A x \in Session : IF log'[x] = <<>> THEN x \in deleting' ELSE HasMode(log'[x])
        /\ UNCHANGED <<deleting, faults>>
    BY <2>1, <2>2, <2>3, AppendTypes
  <2>5. TypeOK'
    BY <2>1, <2>2, <2>4 DEF TypeOK, Place, Registered
  <2>6. \A x \in Request : WellPlaced(x)'
    BY <2>1, MoveTypes DEF TypeOK, Place, Registered, DeletePlaces, ModePlaces
  <2> QED BY <2>1, <2>4, <2>5, <2>6
<1>10. CASE End(r)
  <2>1. /\ pc[r] = "ending" /\ req[r].kind = "submit" /\ S(r) \in Session /\ mode[r] \in Mode
        /\ AppendOk(S(r), seqn[r] + 1, Ev("turn.end", r, None))
        /\ seqn' = [seqn EXCEPT ![r] = @ + 1]
        /\ Returns(r)
        /\ UNCHANGED <<server, req, answer, mode, aborted>>
    BY <1>10, PlaceTypes DEF End, Emits, Registered
  <2>2. seqn[r] + 1 \in Nat
    BY DEF TypeOK
  <2>3. /\ log' \in [Session -> Seq(Event)]
        /\ \A x \in Session : IF log'[x] = <<>> THEN x \in deleting' ELSE HasMode(log'[x])
        /\ UNCHANGED <<deleting, faults>>
    BY <2>1, <2>2, EventTypes, AppendTypes
  <2>4. TypeOK'
    BY <2>1, <2>2, <2>3, ReturnsTypes DEF TypeOK, Place
  <2>5. \A x \in Request : WellPlaced(x)'
    BY <2>1, ReturnsTypes, MoveTypes DEF TypeOK, Place, Registered, DeletePlaces, ModePlaces
  <2> QED BY <2>1, <2>3, <2>4, <2>5
<1>11. CASE Repair(r)
  <2>1. /\ pc[r] = "repair" /\ S(r) \in Session
        /\ Returns(r) /\ answer' = [answer EXCEPT ![r] = "ok"]
        /\ UNCHANGED <<server, requestVars, aborted>>
        /\ \/ AppendOk(S(r), Len(log[S(r)]) + 1, Ev("turn.end", r, None))
           \/ AppendFails(S(r), Len(log[S(r)]) + 1)
           \/ UNCHANGED storeVars
    BY <1>11, PlaceTypes DEF Repair
  <2>2. Len(log[S(r)]) + 1 \in Nat /\ Ev("turn.end", r, None) \in Event
    BY <2>1 DEF TypeOK, Ev, Event
  <2>3. /\ log' \in [Session -> Seq(Event)]
        /\ \A x \in Session : IF log'[x] = <<>> THEN x \in deleting' ELSE HasMode(log'[x])
        /\ deleting' = deleting /\ faults' \in Nat
    <3>1. CASE AppendOk(S(r), Len(log[S(r)]) + 1, Ev("turn.end", r, None))
      <4>1. /\ log' \in [Session -> Seq(Event)]
            /\ \A x \in Session : IF log'[x] = <<>> THEN x \in deleting' ELSE HasMode(log'[x])
            /\ UNCHANGED <<deleting, faults>>
        BY <2>1, <2>2, <3>1, AppendTypes
      <4> QED BY <4>1 DEF TypeOK
    <3>2. CASE AppendFails(S(r), Len(log[S(r)]) + 1)
      <4>1. UNCHANGED <<log, deleting>> /\ faults' \in Nat
        BY <3>2, AppendFailsTypes
      <4> QED BY <4>1 DEF TypeOK
    <3>3. CASE UNCHANGED storeVars
      BY <3>3 DEF TypeOK
    <3> QED BY <2>1, <3>1, <3>2, <3>3
  <2>4. TypeOK'
    BY <2>1, <2>3, ReturnsTypes DEF TypeOK, Place, Response
  <2>5. \A x \in Request : WellPlaced(x)'
    BY <2>1, ReturnsTypes, MoveTypes DEF TypeOK, Place, Registered, DeletePlaces, ModePlaces
  <2> QED BY <2>1, <2>3, <2>4, <2>5
<1> QED BY <1>1, <1>2, <1>3, <1>4, <1>5, <1>6, <1>7, <1>8, <1>9, <1>10, <1>11
        DEF TurnStep

(* a step of a deletion,                                                   *)
LEMMA DeleteTypes ==
  ASSUME TypeInv, DeleteInv, NEW r \in Request, DeleteStep(r)
  PROVE  TypeInv'
<1> USE DEF TypeInv
<1>1. CASE Delete(r)
  <2>1. /\ pc[r] = "queued" /\ req[r].kind = "delete"
        /\ UNCHANGED <<storeVars, serviceVars, chain, active, server, answer, mode, seqn>>
    BY <1>1 DEF Delete
  <2>2. CASE Busy /\ S(active) = S(r)
    <3>1. /\ active \in Request /\ Aborts({active})
          /\ req' = [req EXCEPT ![r].turn = active]
          /\ pc' = [Unwinding({active}) EXCEPT ![r] = "stopping"]
      BY <1>1, <2>2 DEF Delete, Busy, TypeOK
    <3>2. /\ req' \in [Request -> RequestRecord]
          /\ \A x \in Request : req'[x].kind = req[x].kind /\ req'[x].session = req[x].session
      BY <3>1 DEF RequestRecord
    <3>3. \A x \in Request : \/ x = r /\ pc'[x] = "stopping"
                             \/ x # r /\ pc'[x] = pc[x]
                             \/ x # r /\ pc'[x] = "ending" /\ pc[x] = "waiting"
      BY <3>1 DEF Unwinding, WaitingOf
    <3>4. pc' \in [Request -> Place]
      <4>1. pc' = [x \in Request |-> pc'[x]]
        BY <3>1 DEF Unwinding
      <4> QED BY <3>3, <4>1 DEF TypeOK, Place, Registered
    <3>5. TypeOK'
      BY <2>1, <3>1, <3>4 DEF TypeOK, Aborts, WaitingOf
    <3>6. ASSUME NEW x \in Request PROVE WellPlaced(x)'
      BY <2>1, <3>2, <3>3 DEF WellPlaced, Registered, DeletePlaces, ModePlaces
    <3> QED BY <2>1, <3>2, <3>5, <3>6
  <2>3. CASE ~(Busy /\ S(active) = S(r))
    <3>1. pc' = [pc EXCEPT ![r] = "deleting"] /\ UNCHANGED <<req, approvalVars, aborted>>
      BY <1>1, <2>3 DEF Delete
    <3>2. TypeOK'
      BY <2>1, <3>1 DEF TypeOK, Place
    <3>3. \A x \in Request : WellPlaced(x)'
      BY <2>1, <3>1, MoveTypes DEF TypeOK, Place, Registered, DeletePlaces, ModePlaces
    <3> QED BY <2>1, <3>1, <3>2, <3>3
  <2> QED BY <2>2, <2>3
<1>2. CASE TurnStopped(r)
  <2>1. /\ pc[r] = "stopping" /\ req[r].kind = "delete"
        /\ pc' = [pc EXCEPT ![r] = "deleting"]
        /\ UNCHANGED <<storeVars, serviceVars, approvalVars, chain, active, server,
                       requestVars, answer, aborted>>
    BY <1>2, PlaceTypes DEF TurnStopped, DeletePlaces
  <2>2. TypeOK'
    BY <2>1 DEF TypeOK, Place
  <2>3. \A x \in Request : WellPlaced(x)'
    BY <2>1, MoveTypes DEF TypeOK, Place, Registered, DeletePlaces, ModePlaces
  <2> QED BY <2>1, <2>2, <2>3
<1>3. CASE MarkDeleting(r)
  <2>1. /\ pc[r] = "deleting" /\ req[r].kind = "delete" /\ S(r) \in Session
        /\ UNCHANGED <<log, faults, serviceVars, approvalVars, active, server,
                       requestVars, aborted>>
    BY <1>3, PlaceTypes DEF MarkDeleting, DeletePlaces
  <2>2. \/ /\ answer' = [answer EXCEPT ![r] = "error"] /\ pc' = [pc EXCEPT ![r] = "done"]
           /\ Leave(r) /\ UNCHANGED deleting
        \/ /\ deleting' = deleting \cup {S(r)}
           /\ pc' = [pc EXCEPT ![r] = "unlinking"] /\ UNCHANGED <<answer, chain>>
    BY <1>3 DEF MarkDeleting
  <2>3. TypeOK'
    BY <2>1, <2>2, LeaveType DEF TypeOK, Place, Response
  <2>4. \A x \in Request : WellPlaced(x)'
    BY <2>1, <2>2, MoveTypes DEF TypeOK, Place, Registered, DeletePlaces, ModePlaces
  <2> QED BY <2>1, <2>2, <2>3, <2>4
<1>4. CASE Unlink(r)
  <2>1. /\ pc[r] = "unlinking" /\ req[r].kind = "delete" /\ S(r) \in Session
        /\ log' = [log EXCEPT ![S(r)] = <<>>]
        /\ memory' = [memory EXCEPT ![S(r)] = None]
        /\ settled' \subseteq settled /\ expired' \subseteq expired
        /\ answer' = [answer EXCEPT ![r] = "ok"] /\ pc' = [pc EXCEPT ![r] = "done"]
        /\ Leave(r)
        /\ UNCHANGED <<deleting, faults, activeTurns, pending, choice, active, server,
                       requestVars, aborted>>
    BY <1>4, PlaceTypes DEF Unlink, DeletePlaces
  <2>2. TypeOK'
    BY <2>1, LeaveType DEF TypeOK, Place, Response
  <2>3. \A x \in Request : WellPlaced(x)'
    BY <2>1, MoveTypes DEF TypeOK, Place, Registered, DeletePlaces, ModePlaces
  <2>4. S(r) \in deleting
    BY <2>1 DEF DeleteInv
  <2> QED BY <2>1, <2>2, <2>3, <2>4 DEF TypeOK
<1>5. CASE UnlinkFails(r)
  <2>1. /\ pc[r] = "unlinking" /\ req[r].kind = "delete" /\ S(r) \in Session
        /\ faults' = faults + 1
        /\ deleting' = deleting \ {S(r)}
        /\ answer' = [answer EXCEPT ![r] = "error"] /\ pc' = [pc EXCEPT ![r] = "done"]
        /\ Leave(r)
        /\ UNCHANGED <<log, serviceVars, approvalVars, active, server, requestVars, aborted>>
    BY <1>5, PlaceTypes DEF UnlinkFails, Fault, DeletePlaces
  <2>2. TypeOK'
    BY <2>1, LeaveType DEF TypeOK, Place, Response
  <2>3. \A x \in Request : WellPlaced(x)'
    BY <2>1, MoveTypes DEF TypeOK, Place, Registered, DeletePlaces, ModePlaces
  <2>4. log[S(r)] # <<>>
    BY <2>1 DEF DeleteInv
  <2> QED BY <2>1, <2>2, <2>3, <2>4
<1> QED BY <1>1, <1>2, <1>3, <1>4, <1>5 DEF DeleteStep


(* a step of a settings request,                                           *)
LEMMA ModeTypes ==
  ASSUME TypeInv, NEW r \in Request, ModeStep(r)
  PROVE  TypeInv'
<1> USE DEF TypeInv
<1>1. CASE Switch(r)
  <2>1. /\ pc[r] = "switching" /\ req[r].kind = "mode" /\ S(r) \in Session /\ mode[r] \in Mode
        /\ UNCHANGED <<storeVars, activeTurns, approvalVars, coordVars, server,
                       requestVars, aborted>>
    BY <1>1, PlaceTypes DEF Switch, ModePlaces
  <2>2. PICK place \in {"done", "numbering"} : pc' = [pc EXCEPT ![r] = place]
    BY <1>1 DEF Switch
  <2>3. \E a \in Response : answer' = [answer EXCEPT ![r] = a] \/ answer' = answer
    BY <1>1 DEF Switch, Response
  <2>4. memory' = memory \/ \E m \in Mode : memory' = [memory EXCEPT ![S(r)] = m]
    <3>1. log[S(r)] # <<>> => Remembered(S(r)) \in Mode
      BY <2>1, RememberedType
    <3> QED BY <1>1, <2>1, <3>1 DEF Switch
  <2>5. TypeOK'
    <3>1. memory' \in [Session -> Mode \cup {None}]
      BY <2>1, <2>4 DEF TypeOK
    <3>2. pc' \in [Request -> Place] /\ answer' \in [Request -> Response]
      BY <2>2, <2>3 DEF TypeOK, Place
    <3> QED BY <2>1, <3>1, <3>2 DEF TypeOK
  <2>6. \A x \in Request : WellPlaced(x)'
    BY <2>1, <2>2, <2>3, MoveTypes DEF TypeOK, Place, Registered, DeletePlaces, ModePlaces
  <2> QED BY <2>1, <2>5, <2>6
<1>2. CASE Number(r)
  <2>1. /\ pc[r] = "numbering" /\ req[r].kind = "mode" /\ S(r) \in Session /\ mode[r] \in Mode
        /\ seqn' = [seqn EXCEPT ![r] = Len(log[S(r)])]
        /\ pc' = [pc EXCEPT ![r] = "switched"]
        /\ UNCHANGED <<storeVars, serviceVars, approvalVars, coordVars, server, req,
                       mode, answer, aborted>>
    BY <1>2, PlaceTypes DEF Number, ModePlaces
  <2>2. Len(log[S(r)]) \in Nat
    BY <2>1 DEF TypeOK
  <2>3. TypeOK'
    BY <2>1, <2>2 DEF TypeOK, Place
  <2>4. \A x \in Request : WellPlaced(x)'
    BY <2>1, MoveTypes DEF TypeOK, Place, Registered, DeletePlaces, ModePlaces
  <2> QED BY <2>1, <2>3, <2>4
<1>3. CASE AppendMode(r)
  <2>1. /\ pc[r] = "switched" /\ req[r].kind = "mode" /\ S(r) \in Session /\ mode[r] \in Mode
        /\ pc' = [pc EXCEPT ![r] = "done"]
        /\ UNCHANGED <<serviceVars, approvalVars, coordVars, server, requestVars,
                       aborted>>
        /\ \/ /\ AppendOk(S(r), seqn[r] + 1, Ev("safety.changed", None, mode[r]))
              /\ answer' = [answer EXCEPT ![r] = "ok"]
           \/ /\ AppendFails(S(r), seqn[r] + 1)
              /\ answer' = [answer EXCEPT ![r] = "error"]
    BY <1>3, PlaceTypes DEF AppendMode, ModePlaces
  <2>2. seqn[r] + 1 \in Nat /\ Ev("safety.changed", None, mode[r]) \in Event
    BY <2>1 DEF TypeOK, Ev, Event
  <2>3. /\ log' \in [Session -> Seq(Event)]
        /\ \A x \in Session : IF log'[x] = <<>> THEN x \in deleting' ELSE HasMode(log'[x])
        /\ deleting' = deleting /\ faults' \in Nat
    <3>1. CASE AppendOk(S(r), seqn[r] + 1, Ev("safety.changed", None, mode[r]))
      <4>1. /\ log' \in [Session -> Seq(Event)]
            /\ \A x \in Session : IF log'[x] = <<>> THEN x \in deleting' ELSE HasMode(log'[x])
            /\ UNCHANGED <<deleting, faults>>
        BY <2>1, <2>2, <3>1, AppendTypes
      <4> QED BY <4>1 DEF TypeOK
    <3>2. CASE AppendFails(S(r), seqn[r] + 1)
      <4>1. UNCHANGED <<log, deleting>> /\ faults' \in Nat
        BY <3>2, AppendFailsTypes
      <4> QED BY <4>1 DEF TypeOK
    <3> QED BY <2>1, <3>1, <3>2
  <2>4. TypeOK'
    BY <2>1, <2>3 DEF TypeOK, Place, Response
  <2>5. \A x \in Request : WellPlaced(x)'
    BY <2>1, MoveTypes DEF TypeOK, Place, Registered, DeletePlaces, ModePlaces
  <2> QED BY <2>1, <2>3, <2>4, <2>5
<1> QED BY <1>1, <1>2, <1>3 DEF ModeStep

(* Aborting turns only moves those that wait.                              *)
LEMMA UnwindingTypes ==
  ASSUME TypeInv, NEW T \in SUBSET Request, Aborts(T), pc' = Unwinding(T),
         UNCHANGED <<storeVars, serviceVars, coordVars, requestVars, answer>>,
         server' \in {"up", "stopping", "closed"}
  PROVE  TypeInv'
<1>1. /\ pc' \in [Request -> Place]
      /\ \A x \in Request : pc'[x] = pc[x] \/ (pc'[x] = "ending" /\ pc[x] = "waiting")
  BY DEF TypeInv, TypeOK, Unwinding, WaitingOf, Place, Registered
<1>2. TypeOK'
  BY <1>1 DEF TypeInv, TypeOK, Aborts, WaitingOf
<1>3. ASSUME NEW x \in Request PROVE WellPlaced(x)'
  BY <1>1 DEF TypeInv, WellPlaced, Registered, DeletePlaces, ModePlaces
<1> QED BY <1>2, <1>3 DEF TypeInv

(* The turns the server's stop or close aborts.                            *)
LEMMA StopAborts ==
  ASSUME TypeInv, Shutdown \/ Close
  PROVE  \E T \in SUBSET Request :
           /\ Aborts(T) /\ pc' = Unwinding(T) /\ server' \in {"stopping", "closed"}
           /\ UNCHANGED <<storeVars, serviceVars, coordVars, requestVars, answer>>
<1>1. CASE Shutdown
  <2>1. ActiveTurn \in SUBSET Request
    BY DEF TypeInv, TypeOK, ActiveTurn
  <2> QED BY <1>1, <2>1 DEF Shutdown
<1>2. CASE Close
  <2>1. ({activeTurns[s] : s \in Session} \ {None}) \in SUBSET Request
    BY DEF TypeInv, TypeOK
  <2> QED BY <1>2, <2>1 DEF Close
<1> QED BY <1>1, <1>2

(* and every step.                                                         *)
LEMMA NextTypes == TypeInv /\ DeleteInv /\ [Next]_vars => TypeInv'
<1> SUFFICES ASSUME TypeInv, DeleteInv, [Next]_vars PROVE TypeInv'
  OBVIOUS
<1>1. ASSUME NEW r \in Request,
             Arrival(r) \/ TurnStep(r) \/ DeleteStep(r) \/ ModeStep(r)
      PROVE  TypeInv'
  BY <1>1, ArrivalTypes, TurnTypes, DeleteTypes, ModeTypes
<1>2. CASE Shutdown \/ Close
  BY <1>2, StopAborts, UnwindingTypes
<1>3. CASE UNCHANGED vars
  BY <1>3 DEF vars, TypeInv, TypeOK, WellPlaced, HasMode, ModeSet
<1> QED BY <1>1, <1>2, <1>3 DEF Next, Done

(* A request that arrives has asked for nothing before.                    *)
LEMMA ArriveAnew ==
  ASSUME TypeInv, NEW r \in Request, NEW k, NEW s, NEW t, NEW c, Arrive(r, k, s, t, c)
  PROVE  /\ req'[r].kind = k /\ req[r].kind = "none" /\ answer[r] = "none"
         /\ pc[r] = "unsent"
         /\ \A x \in Request \ {r} : req'[x] = req[x]
<1> DEFINE ask == [kind |-> k, session |-> s, turn |-> t, choice |-> c,
                   busy |-> k = "submit" /\ Busy]
<1>1. ask.kind = k
  OBVIOUS
<1>2. req' = [req EXCEPT ![r] = ask] /\ pc[r] = "unsent"
  BY DEF Arrive
<1> HIDE DEF ask
<1> QED BY <1>1, <1>2 DEF TypeInv, WellPlaced

(* What arrives, and whom it moves: itself, and a turn that waits.         *)
LEMMA ArrivalArrives ==
  ASSUME TypeInv, NEW r \in Request, Arrival(r)
  PROVE  /\ \E k \in {"submit", "delete", "cancel", "answer", "mode"} :
              /\ \E s, t, c : Arrive(r, k, s, t, c)
              /\ k = "delete" => UNCHANGED answer
         /\ \A x \in Request :
              \/ pc'[x] = pc[x]
              \/ x = r /\ pc[x] = "unsent" /\ pc'[x] \in {"queued", "done", "switching"}
              \/ x # r /\ pc[x] = "waiting" /\ pc'[x] \in {"ending", "recording"}
         /\ \A x \in Request \ {r} : answer'[x] = answer[x]
         /\ pc[r] = "unsent" /\ (pc'[r] = "queued" => Enqueue(r))
<1>1. PICK k \in {"submit", "delete", "cancel", "answer", "mode"} :
        /\ \E s, t, c : Arrive(r, k, s, t, c)
        /\ k = "delete" => UNCHANGED answer
  <2>1. CASE Enqueue(r)
    BY <2>1 DEF Enqueue
  <2>2. CASE Cancel(r)
    BY <2>2 DEF Cancel
  <2>3. CASE Answer(r)
    BY <2>3 DEF Answer
  <2>4. CASE AskMode(r)
    BY <2>4 DEF AskMode
  <2> QED BY <2>1, <2>2, <2>3, <2>4 DEF Arrival
<1>2. pc[r] = "unsent"
  BY <1>1, ArriveAnew
<1>3. \A x \in Request \ {r} : answer'[x] = answer[x]
  <2>1. answer' = answer \/ \E a : answer' = [answer EXCEPT ![r] = a]
    BY DEF Arrival, Enqueue, Cancel, Answer, AskMode
  <2> QED BY <2>1 DEF TypeInv, TypeOK
<1>4. ASSUME NEW x \in Request
      PROVE  \/ pc'[x] = pc[x]
             \/ x = r /\ pc'[x] \in {"queued", "done", "switching"}
             \/ x # r /\ pc[x] = "waiting" /\ pc'[x] \in {"ending", "recording"}
  <2>1. CASE Enqueue(r) \/ AskMode(r)
    BY <2>1 DEF Enqueue, AskMode, TypeInv, TypeOK
  <2>2. CASE Cancel(r)
    BY <2>2 DEF Cancel, Unwinding, WaitingOf, TypeInv, TypeOK
  <2>3. CASE Answer(r)
    <3>1. \/ pc' = [pc EXCEPT ![r] = "done"]
          \/ \E t \in Request :
               pc' = [pc EXCEPT ![r] = "done",
                        ![t] = IF pc[t] = "waiting" THEN "recording" ELSE pc[t]]
      BY <2>3 DEF Answer
    <3> QED BY <1>2, <3>1 DEF TypeInv, TypeOK
  <2> QED BY <2>1, <2>2, <2>3 DEF Arrival
<1>5. ASSUME ~Enqueue(r) PROVE pc'[r] # "queued"
  <2>1. \/ \E q : pc' = [q EXCEPT ![r] = "done"] /\ DOMAIN q = Request
        \/ pc' = [pc EXCEPT ![r] = "switching"]
        \/ \E t \in Request :
             pc' = [pc EXCEPT ![r] = "done",
                      ![t] = IF pc[t] = "waiting" THEN "recording" ELSE pc[t]]
    <3>1. CASE Cancel(r)
      BY <3>1 DEF Cancel, Unwinding, TypeInv, TypeOK
    <3>2. CASE Answer(r)
      BY <3>2 DEF Answer, TypeInv, TypeOK
    <3>3. CASE AskMode(r)
      BY <3>3 DEF AskMode, TypeInv, TypeOK
    <3> QED BY <1>5, <3>1, <3>2, <3>3 DEF Arrival
  <2> QED BY <1>2, <2>1 DEF TypeInv, TypeOK
<1> QED BY <1>1, <1>2, <1>3, <1>4, <1>5

-----------------------------------------------------------------------------
(* Every step keeps the queue.                                             *)

(* Where a step that leaves the queue alone may take a request.            *)
Moves(x) ==
  \/ pc'[x] = pc[x]
  \/ pc[x] \in Outside /\ pc'[x] \in Outside
  \/ pc[x] \in Started /\ pc'[x] \in Started \cup {"repair"}
  \/ /\ chain # <<>> /\ Head(chain) = x /\ pc[x] \in AtHead \cup {"queued"}
     /\ pc'[x] \in AtHead \cup {"repair"}
     /\ pc'[x] \in {"reading", "preparing", "starting", "repair"} => active = None

(* Such a step keeps the queue's invariant.                                *)
LEMMA QueueMoves ==
  ASSUME TypeInv, QueueInv, UNCHANGED coordVars, \A x \in Request : Moves(x)
  PROVE  QueueInv'
<1> USE DEF AtHead, Started, Outside, DeletePlaces, ModePlaces
<1>1. chain \in Seq(Request) /\ active \in Request \cup {None} /\ None \notin Request
  BY ServiceAssumption DEF TypeInv, TypeOK
<1>2. \A i \in DOMAIN chain : chain[i] \in Request /\ (Head(chain) = chain[i] => i = 1)
  BY <1>1 DEF QueueInv
<1>3. ASSUME NEW i \in DOMAIN chain
      PROVE  /\ chain[i] # active
             /\ pc'[chain[i]] \in IF i = 1 THEN AtHead \cup {"queued", "repair"} ELSE {"queued"}
  BY <1>1, <1>2 DEF QueueInv, Moves
<1>4. active # None => pc'[active] \in Started \cup {"repair"}
  BY <1>1 DEF QueueInv, Moves
<1>5. chain # <<>> => InQueue(Head(chain))
  BY <1>1 DEF InQueue
<1>6. ASSUME NEW r \in Request
      PROVE  /\ pc'[r] \in Started => active = r
             /\ pc'[r] \in AtHead \cup {"queued"} => InQueue(r)
             /\ pc'[r] = "repair" => active = r \/ InQueue(r)
             /\ pc'[r] \in {"reading", "preparing", "starting", "repair"} => active \in {None, r}
  BY <1>1, <1>5 DEF QueueInv, Moves
<1> QED BY <1>3, <1>4, <1>6 DEF QueueInv, InQueue

(* A request that comes is put at the end of the queue.                    *)
LEMMA QueueGrows ==
  ASSUME TypeInv, QueueInv, NEW r \in Request, pc[r] = "unsent",
         chain' = Append(chain, r), active' = active,
         pc' = [pc EXCEPT ![r] = "queued"]
  PROVE  QueueInv'
<1> USE DEF AtHead, Started, Outside, DeletePlaces, ModePlaces
<1>1. chain \in Seq(Request) /\ active \in Request \cup {None} /\ None \notin Request
  BY ServiceAssumption DEF TypeInv, TypeOK
<1>2. /\ Len(chain) \in Nat /\ DOMAIN chain = 1 .. Len(chain)
      /\ DOMAIN chain' = 1 .. Len(chain) + 1
      /\ chain'[Len(chain) + 1] = r
      /\ \A i \in 1 .. Len(chain) : chain'[i] = chain[i] /\ chain[i] \in Request
  BY <1>1
<1>3. r # active /\ \A i \in DOMAIN chain : chain[i] # r
  BY <1>1 DEF QueueInv
<1>4. pc'[r] = "queued" /\ \A x \in Request \ {r} : pc'[x] = pc[x]
  BY DEF TypeInv, TypeOK
<1>5. \A i, j \in DOMAIN chain' : chain'[i] = chain'[j] => i = j
  BY <1>2, <1>3 DEF QueueInv
<1>6. ASSUME NEW i \in DOMAIN chain'
      PROVE  /\ chain'[i] # active
             /\ pc'[chain'[i]] \in IF i = 1 THEN AtHead \cup {"queued", "repair"} ELSE {"queued"}
  <2>1. CASE i = Len(chain) + 1
    BY <1>2, <1>3, <1>4, <2>1
  <2>2. CASE i \in DOMAIN chain
    BY <1>2, <1>3, <1>4, <2>2 DEF QueueInv
  <2> QED BY <1>2, <2>1, <2>2
<1>7. active # None => pc'[active] \in Started \cup {"repair"}
  BY <1>1, <1>3, <1>4 DEF QueueInv
<1>8. \A x \in Request : InQueue(x)' <=> (InQueue(x) \/ x = r)
  BY <1>2 DEF InQueue
<1>9. ASSUME NEW x \in Request
      PROVE  /\ pc'[x] \in Started => active = x
             /\ pc'[x] \in AtHead \cup {"queued"} => InQueue(x)'
             /\ pc'[x] = "repair" => active = x \/ InQueue(x)'
             /\ pc'[x] \in {"reading", "preparing", "starting", "repair"} => active \in {None, x}
  BY <1>4, <1>8 DEF QueueInv
<1> QED BY <1>5, <1>6, <1>7, <1>9 DEF QueueInv

(* The queue without its first request.                                    *)
LEMMA QueueTail ==
  ASSUME TypeInv, QueueInv, NEW r \in Request, Leave(r), InQueue(r),
         pc[r] # "queued" \/ Head(chain) = r
  PROVE  /\ Head(chain) = r /\ chain # <<>> /\ chain' = Tail(chain)
         /\ DOMAIN chain' = 1 .. Len(chain) - 1 /\ DOMAIN chain = 1 .. Len(chain)
         /\ Len(chain) \in Nat \ {0}
         /\ \A i \in DOMAIN chain' : chain'[i] = chain[i + 1] /\ chain[i + 1] \in Request
<1>1. chain \in Seq(Request)
  BY DEF TypeInv, TypeOK
<1>2. PICK i \in DOMAIN chain : chain[i] = r
  BY DEF InQueue
<1>3. chain # <<>> /\ Head(chain) = chain[1]
  BY <1>1, <1>2
<1>4. Head(chain) = r
  BY <1>1, <1>2, <1>3 DEF QueueInv
<1> QED BY <1>1, <1>3, <1>4 DEF Leave

(* A request that ends leaves the queue or ends as the active turn; one    *)
(* that starts leaves the queue and becomes the active turn.               *)
LEMMA QueueLeft ==
  ASSUME TypeInv, QueueInv, NEW r \in Request, Leave(r),
         pc[r] \in AtHead \cup Started \cup {"repair"} \/ AtWork(r, "queued"),
         NEW p, pc' = [pc EXCEPT ![r] = p],
         \/ p = "done" /\ active' = ActiveAfter(r)
         \/ p = "running" /\ active' = r /\ pc[r] = "starting"
  PROVE  QueueInv'
<1> USE DEF AtHead, Started, Outside, DeletePlaces, ModePlaces
<1>1. /\ chain \in Seq(Request) /\ active \in Request \cup {None} /\ None \notin Request
      /\ pc'[r] = p /\ \A x \in Request \ {r} : pc'[x] = pc[x]
  BY ServiceAssumption DEF TypeInv, TypeOK
<1>2. CASE InQueue(r)
  <2>1. r # active
    BY <1>2 DEF QueueInv, InQueue
  <2>2. /\ chain' = Tail(chain) /\ Head(chain) = r /\ chain # <<>>
        /\ DOMAIN chain' = 1 .. Len(chain) - 1 /\ DOMAIN chain = 1 .. Len(chain)
        /\ Len(chain) \in Nat \ {0}
        /\ \A i \in DOMAIN chain' : chain'[i] = chain[i + 1] /\ chain[i + 1] \in Request
    BY <1>2, QueueTail
  <2>3. chain[1] = r /\ \A i \in DOMAIN chain \ {1} : chain[i] # r
    BY <1>1, <2>2 DEF QueueInv
  <2>4. active' \in {active, r} /\ (active' = r <=> p = "running")
    BY <1>1, <2>1 DEF ActiveAfter
  <2>5. active' = r => active = None
    BY <2>1, <2>4 DEF QueueInv
  <2>6. \A i, j \in DOMAIN chain' : chain'[i] = chain'[j] => i = j
    <3> SUFFICES ASSUME NEW i \in DOMAIN chain', NEW j \in DOMAIN chain', chain'[i] = chain'[j]
                 PROVE  i = j
      OBVIOUS
    <3>1. i + 1 \in DOMAIN chain /\ j + 1 \in DOMAIN chain /\ chain[i + 1] = chain[j + 1]
      BY <2>2
    <3>2. i + 1 = j + 1
      BY <3>1 DEF QueueInv
    <3> QED BY <3>2, <2>2
  <2>7. ASSUME NEW i \in DOMAIN chain'
        PROVE  /\ chain'[i] # active'
               /\ pc'[chain'[i]] \in IF i = 1 THEN AtHead \cup {"queued", "repair"} ELSE {"queued"}
    <3>1. i + 1 \in DOMAIN chain /\ i + 1 # 1 /\ chain'[i] = chain[i + 1] /\ chain'[i] \in Request
      BY <2>2
    <3>2. chain[i + 1] # r /\ chain[i + 1] # active /\ pc[chain[i + 1]] = "queued"
      BY <2>3, <3>1 DEF QueueInv
    <3> QED BY <1>1, <2>4, <3>1, <3>2
  <2>8. active' # None => pc'[active'] \in Started \cup {"repair"}
    BY <1>1, <2>1, <2>4 DEF QueueInv
  <2>9. ASSUME NEW x \in Request \ {r} PROVE InQueue(x) => InQueue(x)'
    <3> SUFFICES ASSUME NEW i \in DOMAIN chain, chain[i] = x PROVE InQueue(x)'
      BY DEF InQueue
    <3>1. i # 1 /\ i - 1 \in DOMAIN chain' /\ chain'[i - 1] = x
      BY <2>2, <2>3
    <3> QED BY <3>1 DEF InQueue
  <2>10. ASSUME NEW x \in Request
         PROVE  /\ pc'[x] \in Started => active' = x
                /\ pc'[x] \in AtHead \cup {"queued"} => InQueue(x)'
                /\ pc'[x] = "repair" => active' = x \/ InQueue(x)'
                /\ pc'[x] \in {"reading", "preparing", "starting", "repair"} => active' \in {None, x}
    <3>1. CASE x = r
      BY <1>1, <2>4, <3>1
    <3>2. CASE x # r
      <4>1. pc'[x] = pc[x] /\ (InQueue(x) => InQueue(x)')
        BY <1>1, <2>9, <3>2
      <4>2. InQueue(x) => pc[x] = "queued"
        BY <2>3, <3>2 DEF QueueInv, InQueue
      <4>3. pc[x] \in Started => active' = x
        BY <1>1, <2>4, <2>5, <3>2 DEF QueueInv
      <4>4. pc[x] = "repair" => active' = x
        BY <1>1, <2>4, <2>5, <3>2, <4>2 DEF QueueInv
      <4>5. pc[x] \notin {"reading", "preparing", "starting"}
        BY <4>2 DEF QueueInv
      <4> QED BY <4>1, <4>2, <4>3, <4>4, <4>5 DEF QueueInv
    <3> QED BY <3>1, <3>2
  <2> QED BY <2>6, <2>7, <2>8, <2>10 DEF QueueInv
<1>3. CASE ~InQueue(r)
  <2>1. active = r /\ pc[r] \in Started \cup {"repair"}
    <3>1. AtWork(r, "queued") => InQueue(r)
      BY <1>1 DEF InQueue
    <3> QED BY <1>3, <3>1 DEF QueueInv
  <2>2. p = "done" /\ active' = None
    BY <2>1 DEF ActiveAfter
  <2>3. chain' = chain
    BY <1>1, <1>3 DEF Leave, InQueue
  <2>4. ASSUME NEW i \in DOMAIN chain
        PROVE  /\ chain[i] # None /\ chain[i] # r
               /\ pc'[chain[i]] = pc[chain[i]]
    BY <1>1, <1>3 DEF InQueue
  <2>5. ASSUME NEW x \in Request
        PROVE  /\ pc'[x] \notin Started
               /\ pc'[x] \in AtHead \cup {"queued", "repair"} => InQueue(x)
    BY <1>1, <2>1, <2>2 DEF QueueInv
  <2>6. \A i \in DOMAIN chain :
          pc[chain[i]] \in IF i = 1 THEN AtHead \cup {"queued", "repair"} ELSE {"queued"}
    BY DEF QueueInv
  <2>7. \A i, j \in DOMAIN chain : chain[i] = chain[j] => i = j
    BY DEF QueueInv
  <2>8. \A x \in Request : InQueue(x)' <=> InQueue(x)
    BY <2>3 DEF InQueue
  <2> QED BY <2>2, <2>3, <2>4, <2>5, <2>6, <2>7, <2>8 DEF QueueInv
<1> QED BY <1>2, <1>3

(* Arrivals: only submissions and deletions are queued.                    *)
LEMMA ArrivalQueue ==
  ASSUME TypeInv, QueueInv, NEW r \in Request, Arrival(r)
  PROVE  QueueInv'
<1> USE DEF Started, Outside, ModePlaces
<1>1. CASE Enqueue(r)
  <2>1. pc[r] = "unsent"
    BY <1>1 DEF Enqueue, Arrive
  <2> QED BY <1>1, <2>1, QueueGrows DEF Enqueue
<1>2. CASE ~Enqueue(r)
  <2>1. UNCHANGED coordVars
    BY <1>2 DEF Arrival, Cancel, Answer, AskMode
  <2>2. \A x \in Request : Moves(x)
    BY <1>2, ArrivalArrives DEF Moves
  <2> QED BY <2>1, <2>2, QueueMoves
<1> QED BY <1>1, <1>2

(* A step that moves one request, and not the queue.                       *)
LEMMA OneMoves ==
  ASSUME TypeInv, QueueInv, UNCHANGED coordVars, NEW r \in Request, NEW p,
         pc' = [pc EXCEPT ![r] = p], Moves(r)
  PROVE  QueueInv'
<1>1. \A x \in Request : Moves(x)
  BY DEF Moves, TypeInv, TypeOK
<1> QED BY <1>1, QueueMoves

(* A request at work before turn.started is the first of the queue.        *)
LEMMA HeadWorks ==
  ASSUME TypeInv, QueueInv, NEW r \in Request, pc[r] \in AtHead
  PROVE  chain # <<>> /\ Head(chain) = r
<1>1. PICK i \in DOMAIN chain : chain[i] = r
  BY DEF QueueInv, InQueue
<1>2. i = 1
  BY <1>1 DEF QueueInv, AtHead, DeletePlaces
<1>3. chain \in Seq(Request)
  BY DEF TypeInv, TypeOK
<1> QED BY <1>1, <1>2, <1>3

(* Turns: the head starts, the active turn ends.                           *)
LEMMA TurnQueue ==
  ASSUME TypeInv, QueueInv, NEW r \in Request, TurnStep(r)
  PROVE  QueueInv'
<1> USE DEF AtHead, Started
<1>1. CASE Submit(r)
  <2>1. CASE Leave(r) /\ pc' = [pc EXCEPT ![r] = "done"]
    <3>1. AtWork(r, "queued") /\ active' = active /\ active # r
      BY <1>1 DEF Submit, QueueInv, TypeInv, TypeOK
    <3>2. active' = ActiveAfter(r)
      BY <3>1 DEF ActiveAfter
    <3> QED BY <2>1, <3>1, <3>2, QueueLeft
  <2>2. CASE ~Busy /\ pc' = [pc EXCEPT ![r] = "reading"] /\ UNCHANGED chain
    <3>1. AtWork(r, "queued") /\ UNCHANGED coordVars /\ active = None
      BY <1>1, <2>2 DEF Submit, Busy
    <3>2. pc'[r] = "reading"
      BY <2>2 DEF TypeInv, TypeOK
    <3> QED BY <2>2, <3>1, <3>2, OneMoves DEF Moves
  <2> QED BY <1>1, <2>1, <2>2 DEF Submit
<1>2. CASE Register(r)
  <2>1. pc[r] = "reading" /\ active' = active /\ active = None
    BY <1>2 DEF Register, QueueInv
  <2>2. CASE Leave(r) /\ pc' = [pc EXCEPT ![r] = "done"]
    <3>1. active' = ActiveAfter(r)
      BY <2>1 DEF ActiveAfter
    <3> QED BY <2>1, <2>2, <3>1, QueueLeft
  <2>3. CASE pc' = [pc EXCEPT ![r] = "preparing"] /\ UNCHANGED chain
    <3>1. pc'[r] = "preparing" /\ chain # <<>> /\ Head(chain) = r
      BY <2>1, <2>3, HeadWorks DEF TypeInv, TypeOK
    <3> QED BY <2>1, <2>3, <3>1, OneMoves DEF Moves
  <2> QED BY <1>2, <2>2, <2>3 DEF Register
<1>3. CASE PrepareFails(r)
  BY <1>3, QueueLeft DEF PrepareFails, Returns
<1>4. CASE Prepared(r)
  <2>1. /\ pc[r] = "preparing" /\ active = None /\ UNCHANGED coordVars
        /\ pc' = [pc EXCEPT ![r] = "starting"]
    BY <1>4 DEF Prepared, QueueInv
  <2>2. pc'[r] = "starting" /\ chain # <<>> /\ Head(chain) = r
    BY <2>1, HeadWorks DEF TypeInv, TypeOK
  <2> QED BY <2>1, <2>2, OneMoves DEF Moves
<1>5. CASE Start(r)
  BY <1>5, QueueLeft DEF Start
<1>6. CASE LoopAppendFails(r)
  <2>1. /\ pc[r] \in {"starting", "asking", "recording", "ending"} /\ UNCHANGED coordVars
        /\ pc' = [pc EXCEPT ![r] = "repair"]
    BY <1>6 DEF LoopAppendFails
  <2>2. pc'[r] = "repair"
    BY <2>1 DEF TypeInv, TypeOK
  <2>3. pc[r] = "starting" => active = None /\ chain # <<>> /\ Head(chain) = r
    BY HeadWorks DEF QueueInv
  <2> QED BY <2>1, <2>2, <2>3, OneMoves DEF Moves
<1>7. CASE Work(r)
  <2>1. PICK place \in {"asking", "ending"} : pc' = [pc EXCEPT ![r] = place]
    BY <1>7 DEF Work
  <2>2. pc[r] = "running" /\ UNCHANGED coordVars /\ pc'[r] = place
    BY <1>7, <2>1 DEF Work, TypeInv, TypeOK
  <2> QED BY <2>1, <2>2, OneMoves DEF Moves
<1>8. CASE Ask(r)
  <2>1. PICK place \in {"ending", "waiting"} : pc' = [pc EXCEPT ![r] = place]
    BY <1>8 DEF Ask
  <2>2. pc[r] = "asking" /\ UNCHANGED coordVars /\ pc'[r] = place
    BY <1>8, <2>1 DEF Ask, TypeInv, TypeOK
  <2> QED BY <2>1, <2>2, OneMoves DEF Moves
<1>9. CASE Record(r)
  <2>1. /\ pc[r] = "recording" /\ UNCHANGED coordVars
        /\ pc' = [pc EXCEPT ![r] = "running"]
    BY <1>9 DEF Record
  <2>2. pc'[r] = "running"
    BY <2>1 DEF TypeInv, TypeOK
  <2> QED BY <2>1, <2>2, OneMoves DEF Moves
<1>10. CASE End(r)
  BY <1>10, QueueLeft DEF End, Returns
<1>11. CASE Repair(r)
  BY <1>11, QueueLeft DEF Repair, Returns
<1> QED BY <1>1, <1>2, <1>3, <1>4, <1>5, <1>6, <1>7, <1>8, <1>9, <1>10, <1>11
        DEF TurnStep

(* Deletions stay the head until they end.                                 *)
LEMMA DeleteQueue ==
  ASSUME TypeInv, QueueInv, NEW r \in Request, DeleteStep(r)
  PROVE  QueueInv'
<1> USE DEF AtHead, DeletePlaces
<1>1. CASE Delete(r)
  <2>1. AtWork(r, "queued") /\ UNCHANGED coordVars
    BY <1>1 DEF Delete
  <2>2. \A x \in Request : \/ x # r /\ pc'[x] = pc[x]
                           \/ x # r /\ pc'[x] = "ending" /\ pc[x] = "waiting"
                           \/ x = r /\ pc'[x] \in {"stopping", "deleting"}
    BY <1>1 DEF Delete, Unwinding, WaitingOf, TypeInv, TypeOK
  <2>3. \A x \in Request : Moves(x)
    BY <2>1, <2>2 DEF Moves, Started
  <2> QED BY <2>1, <2>3, QueueMoves
<1>2. CASE TurnStopped(r)
  <2>1. /\ pc[r] = "stopping" /\ UNCHANGED coordVars
        /\ pc' = [pc EXCEPT ![r] = "deleting"]
    BY <1>2 DEF TurnStopped
  <2>2. pc'[r] = "deleting" /\ chain # <<>> /\ Head(chain) = r
    BY <2>1, HeadWorks DEF TypeInv, TypeOK
  <2> QED BY <2>1, <2>2, OneMoves DEF Moves
<1>3. ASSUME pc[r] \in DeletePlaces, UNCHANGED active, Leave(r), pc' = [pc EXCEPT ![r] = "done"]
      PROVE  QueueInv'
  <2>1. active # r
    BY <1>3 DEF QueueInv, InQueue
  <2> QED BY <1>3, <2>1, QueueLeft DEF ActiveAfter
<1>4. CASE MarkDeleting(r)
  <2>1. CASE UNCHANGED chain /\ pc' = [pc EXCEPT ![r] = "unlinking"]
    <3>1. pc[r] = "deleting" /\ UNCHANGED coordVars
      BY <1>4, <2>1 DEF MarkDeleting
    <3>2. pc'[r] = "unlinking" /\ chain # <<>> /\ Head(chain) = r
      BY <2>1, <3>1, HeadWorks DEF TypeInv, TypeOK
    <3> QED BY <2>1, <3>1, <3>2, OneMoves DEF Moves
  <2> QED BY <1>3, <1>4, <2>1 DEF MarkDeleting
<1>5. CASE Unlink(r) \/ UnlinkFails(r)
  BY <1>3, <1>5 DEF Unlink, UnlinkFails
<1> QED BY <1>1, <1>2, <1>4, <1>5 DEF DeleteStep

(* Settings requests are outside the queue.                                *)
LEMMA ModeQueue ==
  ASSUME TypeInv, QueueInv, NEW r \in Request, ModeStep(r)
  PROVE  QueueInv'
<1>1. pc[r] \in ModePlaces /\ UNCHANGED coordVars
  BY DEF ModeStep, Switch, Number, AppendMode, ModePlaces
<1>2. PICK place \in {"done", "numbering", "switched"} : pc' = [pc EXCEPT ![r] = place]
  BY DEF ModeStep, Switch, Number, AppendMode
<1>3. pc'[r] = place
  BY <1>1, <1>2 DEF TypeInv, TypeOK
<1> QED BY <1>1, <1>2, <1>3, OneMoves DEF Moves, Outside, ModePlaces

(* The queue is empty at first.                                            *)
LEMMA InitQueue == Init => QueueInv
BY DEF Init, QueueInv, Started, AtHead, DeletePlaces

(* Every step keeps the queue's invariant.                                 *)
LEMMA NextQueue == TypeInv /\ QueueInv /\ [Next]_vars => QueueInv'
<1> SUFFICES ASSUME TypeInv, QueueInv, [Next]_vars PROVE QueueInv'
  OBVIOUS
<1>1. ASSUME NEW r \in Request,
             Arrival(r) \/ TurnStep(r) \/ DeleteStep(r) \/ ModeStep(r)
      PROVE  QueueInv'
  BY <1>1, ArrivalQueue, TurnQueue, DeleteQueue, ModeQueue
<1>2. CASE Shutdown \/ Close
  <2>1. PICK T \in SUBSET Request :
          pc' = Unwinding(T) /\ UNCHANGED coordVars
    BY <1>2, StopAborts
  <2>2. \A x \in Request : Moves(x)
    BY <2>1 DEF Moves, Unwinding, WaitingOf, Started
  <2> QED BY <2>1, <2>2, QueueMoves
<1>3. CASE UNCHANGED vars
  BY <1>3 DEF vars, QueueInv, InQueue
<1> QED BY <1>1, <1>2, <1>3 DEF Next, Done

-----------------------------------------------------------------------------
(* Every step leaves deleted files deleted.                                *)

(* A step that deletes nothing: it writes only to files that are there and *)
(* not being deleted.                                                      *)
LEMMA DeleteKept ==
  ASSUME TypeInv, DeleteInv, deleting' = deleting,
         \A s \in Session : log'[s] = log[s] \/ (s \notin deleting /\ log'[s] # <<>>),
         \A x \in Request : pc'[x] = "unlinking" => pc[x] = "unlinking",
         \A x \in Request : req[x].kind # "none" => req'[x].session = req[x].session,
         \A x \in Request : req'[x].kind = "delete" /\ answer'[x] = "ok"
                              => req[x].kind = "delete" /\ answer[x] = "ok"
  PROVE  DeleteInv'
<1>1. ASSUME NEW x \in Request, pc'[x] = "unlinking"
      PROVE  S(x)' \in deleting' /\ log'[S(x)'] # <<>>
  BY <1>1, PlaceTypes DEF DeleteInv
<1>2. ASSUME NEW x \in Request, req'[x].kind = "delete", answer'[x] = "ok"
      PROVE  log'[S(x)'] = <<>>
  <2>1. req[x].kind = "delete" /\ answer[x] = "ok"
    BY <1>2
  <2>2. S(x)' = S(x) /\ S(x) \in Session /\ log[S(x)] = <<>>
    BY <2>1 DEF DeleteInv, DeletedStaysDeleted, TypeInv, WellPlaced
  <2>3. S(x) \in deleting
    BY <2>2 DEF TypeInv
  <2> QED BY <2>2, <2>3
<1> QED BY <1>1, <1>2 DEF DeleteInv, DeletedStaysDeleted

(* Such a step of one request that is no deletion, or of one that it does  *)
(* not answer with success.                                                *)
LEMMA OneDeletesNothing ==
  ASSUME TypeInv, DeleteInv, NEW r \in Request,
         deleting' = deleting, req' = req,
         \A s \in Session : log'[s] = log[s] \/ (s \notin deleting /\ log'[s] # <<>>),
         NEW p, p # "unlinking", pc' = [pc EXCEPT ![r] = p],
         NEW a, answer' = [answer EXCEPT ![r] = a] \/ answer' = answer,
         req[r].kind = "delete" => a # "ok"
  PROVE  DeleteInv'
<1>1. \A x \in Request : pc'[x] = "unlinking" => pc[x] = "unlinking"
  BY DEF TypeInv, TypeOK
<1>2. \A x \in Request : req'[x].kind = "delete" /\ answer'[x] = "ok"
                           => req[x].kind = "delete" /\ answer[x] = "ok"
  BY DEF TypeInv, TypeOK
<1> QED BY <1>1, <1>2, DeleteKept

(* An append is such a step.                                               *)
LEMMA AppendDeletesNothing ==
  ASSUME TypeInv, NEW s \in Session, NEW n, NEW e, AppendOk(s, n, e)
  PROVE  /\ deleting' = deleting
         /\ \A x \in Session : log'[x] = log[x] \/ (x \notin deleting /\ log'[x] # <<>>)
<1>1. log[s] \in Seq(Event) /\ s \notin deleting /\ log' = [log EXCEPT ![s] = Append(log[s], e)]
  BY DEF AppendOk, Accepts, TypeInv, TypeOK
<1>2. Append(log[s], e) # <<>>
  <2>1. log[s] \in Seq(Event \cup {e}) /\ e \in Event \cup {e}
    BY <1>1
  <2> QED BY <2>1
<1> QED BY <1>1, <1>2 DEF AppendOk, TypeInv, TypeOK

(* Arrivals delete nothing.                                                *)
LEMMA ArrivalDelete ==
  ASSUME TypeInv, DeleteInv, NEW r \in Request, Arrival(r)
  PROVE  DeleteInv'
<1>1. PICK k \in {"submit", "delete", "cancel", "answer", "mode"} :
        /\ \E s, t, c : Arrive(r, k, s, t, c)
        /\ k = "delete" => UNCHANGED answer
  BY ArrivalArrives
<1>2. UNCHANGED <<log, deleting>>
  BY DEF Arrival, Enqueue, Cancel, Answer, AskMode
<1>3. /\ \A x \in Request : pc'[x] = "unlinking" => pc[x] = "unlinking"
      /\ \A x \in Request \ {r} : answer'[x] = answer[x]
  BY ArrivalArrives
<1>4. /\ req'[r].kind = k /\ req[r].kind = "none" /\ answer[r] = "none"
      /\ \A x \in Request \ {r} : req'[x] = req[x]
  BY <1>1, ArriveAnew
<1>5. \A x \in Request : req[x].kind # "none" => req'[x].session = req[x].session
  BY <1>4
<1>6. \A x \in Request : req'[x].kind = "delete" /\ answer'[x] = "ok"
                           => req[x].kind = "delete" /\ answer[x] = "ok"
  BY <1>1, <1>3, <1>4
<1> QED BY <1>2, <1>3, <1>5, <1>6, DeleteKept

(* Turns neither delete a file nor bring one back.                         *)
LEMMA TurnDelete ==
  ASSUME TypeInv, DeleteInv, NEW r \in Request, TurnStep(r)
  PROVE  DeleteInv'
<1>1. PICK p \in Place \ {"unlinking"} : pc' = [pc EXCEPT ![r] = p]
  BY DEF TurnStep, Submit, Register, PrepareFails, Prepared, Start, LoopAppendFails,
         Work, Ask, Record, End, Repair, Returns, Place, Registered
<1>2. PICK a \in Response : answer' = [answer EXCEPT ![r] = a] \/ answer' = answer
  BY DEF TurnStep, Submit, Register, PrepareFails, Prepared, Start, LoopAppendFails,
         Work, Ask, Record, End, Repair, Response
<1>3. req' = req
  BY DEF TurnStep, Submit, Register, PrepareFails, Prepared, Start, LoopAppendFails,
         Work, Ask, Record, End, Repair
<1>4. req[r].kind = "submit" /\ S(r) \in Session
  <2>1. pc[r] \in Registered \cup {"reading"} \/ (pc[r] = "queued" /\ req[r].kind = "submit")
    BY DEF TurnStep, Submit, Register, PrepareFails, Prepared, Start, LoopAppendFails,
           Work, Ask, Record, End, Repair, Registered
  <2>2. req[r].kind = "submit"
    BY <2>1, PlaceTypes
  <2> QED BY <2>2 DEF TypeInv, WellPlaced
<1>5. UNCHANGED <<log, deleting>> \/ \E n, e : AppendOk(S(r), n, e)
  BY DEF TurnStep, Submit, Register, PrepareFails, Prepared, Start, LoopAppendFails,
         Work, Ask, Record, End, Repair, Emits, AppendFails
<1>6. /\ deleting' = deleting
      /\ \A s \in Session : log'[s] = log[s] \/ (s \notin deleting /\ log'[s] # <<>>)
  BY <1>4, <1>5, AppendDeletesNothing
<1> QED BY <1>1, <1>2, <1>3, <1>4, <1>6, OneDeletesNothing

(* Nor do settings requests.                                               *)
LEMMA ModeDelete ==
  ASSUME TypeInv, DeleteInv, NEW r \in Request, ModeStep(r)
  PROVE  DeleteInv'
<1>1. PICK p \in Place \ {"unlinking"} : pc' = [pc EXCEPT ![r] = p]
  BY DEF ModeStep, Switch, Number, AppendMode, Place
<1>2. PICK a \in Response : answer' = [answer EXCEPT ![r] = a] \/ answer' = answer
  BY DEF ModeStep, Switch, Number, AppendMode, Response
<1>3. req' = req
  BY DEF ModeStep, Switch, Number, AppendMode
<1>4. req[r].kind = "mode" /\ S(r) \in Session
  BY PlaceTypes DEF ModeStep, Switch, Number, AppendMode, ModePlaces
<1>5. UNCHANGED <<log, deleting>> \/ \E n, e : AppendOk(S(r), n, e)
  BY DEF ModeStep, Switch, Number, AppendMode, AppendFails
<1>6. /\ deleting' = deleting
      /\ \A s \in Session : log'[s] = log[s] \/ (s \notin deleting /\ log'[s] # <<>>)
  BY <1>4, <1>5, AppendDeletesNothing
<1> QED BY <1>1, <1>2, <1>3, <1>4, <1>6, OneDeletesNothing

(* A deletion marks the session, and only one unlinks at a time.           *)
LEMMA DeleteDelete ==
  ASSUME TypeInv, QueueInv, DeleteInv, NEW r \in Request, DeleteStep(r)
  PROVE  DeleteInv'
<1>1. CASE Delete(r)
  <2>1. pc[r] = "queued" /\ UNCHANGED <<log, deleting, answer>>
    BY <1>1 DEF Delete
  <2>2. \A x \in Request : pc'[x] = "unlinking" => pc[x] = "unlinking"
    BY <1>1 DEF Delete, Unwinding, WaitingOf, TypeInv, TypeOK
  <2>3. \A x \in Request : req'[x].session = req[x].session /\ req'[x].kind = req[x].kind
    <3>1. req' = req \/ req' = [req EXCEPT ![r].turn = active]
      BY <1>1 DEF Delete
    <3> QED BY <3>1 DEF TypeInv, RequestRecord
  <2> QED BY <2>1, <2>2, <2>3, DeleteKept
<1>2. CASE TurnStopped(r)
  <2>1. /\ UNCHANGED <<log, deleting, answer, req>>
        /\ pc' = [pc EXCEPT ![r] = "deleting"]
    BY <1>2 DEF TurnStopped
  <2>2. answer' = answer \/ answer' = [answer EXCEPT ![r] = "none"]
    BY <2>1
  <2> QED BY <2>1, <2>2, OneDeletesNothing
<1>3. CASE MarkDeleting(r)
  <2>1. pc[r] = "deleting" /\ S(r) \in Session /\ UNCHANGED <<log, req>>
    BY <1>3, PlaceTypes DEF MarkDeleting
  <2>2. CASE activeTurns[S(r)] # None \/ log[S(r)] = <<>>
    BY <1>3, <2>1, <2>2, OneDeletesNothing DEF MarkDeleting
  <2>3. CASE ~(activeTurns[S(r)] # None \/ log[S(r)] = <<>>)
    <3>1. /\ deleting' = deleting \cup {S(r)} /\ log[S(r)] # <<>>
          /\ pc' = [pc EXCEPT ![r] = "unlinking"] /\ UNCHANGED answer
      BY <1>3, <2>3 DEF MarkDeleting
    <3>2. \A x \in Request : pc'[x] = "unlinking" => x = r \/ pc[x] = "unlinking"
      BY <3>1 DEF TypeInv, TypeOK
    <3> QED BY <2>1, <3>1, <3>2 DEF DeleteInv, DeletedStaysDeleted
  <2> QED BY <2>2, <2>3
(* No other request is unlinking.                                          *)
<1>4. ASSUME pc[r] = "unlinking", NEW x \in Request \ {r} PROVE pc[x] # "unlinking"
  <2>1. pc[x] = "unlinking" => Head(chain) = x /\ Head(chain) = r
    BY <1>4, HeadWorks DEF AtHead, DeletePlaces
  <2> QED BY <2>1
<1>5. CASE Unlink(r)
  <2>1. /\ pc[r] = "unlinking" /\ S(r) \in Session
        /\ log' = [log EXCEPT ![S(r)] = <<>>]
        /\ answer' = [answer EXCEPT ![r] = "ok"] /\ pc' = [pc EXCEPT ![r] = "done"]
        /\ UNCHANGED req
    BY <1>5, PlaceTypes DEF Unlink
  <2>2. \A x \in Request : pc'[x] # "unlinking"
    BY <1>4, <2>1 DEF TypeInv, TypeOK
  <2>3. ASSUME NEW x \in Request, req[x].kind = "delete", answer'[x] = "ok"
        PROVE  log'[S(x)] = <<>>
    <3>1. x = r \/ answer[x] = "ok"
      BY <2>1, <2>3 DEF TypeInv, TypeOK
    <3>2. S(x) \in Session
      BY <2>3 DEF TypeInv, WellPlaced
    <3>3. x # r => log[S(x)] = <<>>
      BY <2>3, <3>1 DEF DeleteInv, DeletedStaysDeleted
    <3> QED BY <2>1, <3>2, <3>3 DEF TypeInv, TypeOK
  <2> QED BY <2>1, <2>2, <2>3 DEF DeleteInv, DeletedStaysDeleted
<1>6. CASE UnlinkFails(r)
  <2>1. /\ pc[r] = "unlinking" /\ UNCHANGED <<log, req>>
        /\ answer' = [answer EXCEPT ![r] = "error"] /\ pc' = [pc EXCEPT ![r] = "done"]
    BY <1>6 DEF UnlinkFails
  <2>2. \A x \in Request : pc'[x] # "unlinking"
    BY <1>4, <2>1 DEF TypeInv, TypeOK
  <2>3. \A x \in Request : answer'[x] = "ok" => answer[x] = "ok"
    BY <2>1 DEF TypeInv, TypeOK
  <2> QED BY <2>1, <2>2, <2>3 DEF DeleteInv, DeletedStaysDeleted
<1> QED BY <1>1, <1>2, <1>3, <1>5, <1>6 DEF DeleteStep

(* Every step leaves deleted files deleted.                                *)
LEMMA NextDelete == ServiceInv /\ [Next]_vars => DeleteInv'
<1> SUFFICES ASSUME TypeInv, QueueInv, DeleteInv, [Next]_vars PROVE DeleteInv'
  BY DEF ServiceInv
<1>1. ASSUME NEW r \in Request,
             Arrival(r) \/ TurnStep(r) \/ DeleteStep(r) \/ ModeStep(r)
      PROVE  DeleteInv'
  BY <1>1, ArrivalDelete, TurnDelete, DeleteDelete, ModeDelete
<1>2. CASE Shutdown \/ Close
  <2>1. PICK T \in SUBSET Request :
          pc' = Unwinding(T) /\ UNCHANGED <<log, deleting, req, answer>>
    BY <1>2, StopAborts
  <2>2. \A x \in Request : pc'[x] = "unlinking" => pc[x] = "unlinking"
    BY <2>1 DEF Unwinding
  <2> QED BY <2>1, <2>2, DeleteKept
<1>3. CASE UNCHANGED vars
  BY <1>3 DEF vars, DeleteInv, DeletedStaysDeleted
<1> QED BY <1>1, <1>2, <1>3 DEF Next, Done

-----------------------------------------------------------------------------
(* Every step keeps the service's active turns.                            *)

(* A step that registers no turn and unregisters none.                     *)
LEMMA RegisteredKept ==
  ASSUME TypeInv, RegisteredInv, activeTurns' = activeTurns,
         \A x \in Request :
           /\ pc'[x] \in Registered <=> pc[x] \in Registered
           /\ pc'[x] = "unlinking" => pc[x] = "unlinking"
           /\ req[x].kind # "none" => req'[x].session = req[x].session
  PROVE  RegisteredInv'
<1>1. \A x \in Request :
        pc[x] \in Registered \cup {"unlinking"} => req'[x].session = req[x].session
  BY PlaceTypes DEF Registered
<1> QED BY <1>1 DEF RegisteredInv, Registered

(* Such a step of one request.                                             *)
LEMMA OneRegisteredKept ==
  ASSUME TypeInv, RegisteredInv, activeTurns' = activeTurns, req' = req,
         NEW r \in Request, NEW p, pc' = [pc EXCEPT ![r] = p],
         p \in Registered <=> pc[r] \in Registered, p # "unlinking"
  PROVE  RegisteredInv'
<1>1. pc'[r] = p /\ \A x \in Request \ {r} : pc'[x] = pc[x]
  BY DEF TypeInv, TypeOK
<1> QED BY <1>1, RegisteredKept

(* A turn that returns gives up the session it holds, and no other.        *)
LEMMA ReturnRegistered ==
  ASSUME TypeInv, RegisteredInv, NEW r \in Request, pc[r] \in Registered,
         req' = req, Returns(r)
  PROVE  RegisteredInv'
<1>1. /\ pc'[r] = "done" /\ \A x \in Request \ {r} : pc'[x] = pc[x]
      /\ S(r) \in Session /\ activeTurns[S(r)] = r
      /\ activeTurns' = [activeTurns EXCEPT ![S(r)] = None]
      /\ DOMAIN activeTurns = Session /\ None \notin Request
  BY PlaceTypes, ServiceAssumption DEF Returns, RegisteredInv, TypeInv, TypeOK, Registered
<1>2. ASSUME NEW x \in Request, pc'[x] \in Registered PROVE activeTurns'[S(x)] = x
  BY <1>1, <1>2 DEF RegisteredInv, Registered
<1>3. ASSUME NEW x \in Request, pc'[x] = "unlinking" PROVE activeTurns'[S(x)] = None
  BY <1>1, <1>3 DEF RegisteredInv
<1>4. ASSUME NEW s \in Session, activeTurns'[s] # None
      PROVE  /\ activeTurns'[s] \in Request /\ pc'[activeTurns'[s]] \in Registered
             /\ S(activeTurns'[s]) = s
  <2>1. s # S(r) /\ activeTurns'[s] = activeTurns[s]
    BY <1>1, <1>4
  <2>2. activeTurns[s] # r
    BY <1>1, <1>4, <2>1 DEF RegisteredInv
  <2> QED BY <1>1, <1>4, <2>1, <2>2 DEF RegisteredInv
<1> QED BY <1>2, <1>3, <1>4 DEF RegisteredInv

(* While a submission reads the file, no turn is registered and no file is *)
(* being unlinked.                                                         *)
LEMMA ReadingAlone ==
  ASSUME TypeInv, QueueInv, NEW r \in Request, pc[r] = "reading", NEW x \in Request
  PROVE  pc[x] \notin Registered \cup {"unlinking"}
<1>1. Head(chain) = r /\ active = None /\ chain # <<>> /\ chain \in Seq(Request)
      /\ None \notin Request
  BY HeadWorks, ServiceAssumption DEF QueueInv, AtHead, TypeInv, TypeOK
<1>2. pc[x] \in Registered \cup {"unlinking"} => InQueue(x)
  BY <1>1 DEF QueueInv, AtHead, DeletePlaces, Started, Registered
<1>3. InQueue(x) => x = r \/ pc[x] = "queued"
  BY <1>1 DEF QueueInv, InQueue
<1> QED BY <1>2, <1>3 DEF Registered

(* Turns are registered and returned.                                      *)
LEMMA TurnRegistered ==
  ASSUME TypeInv, QueueInv, RegisteredInv, NEW r \in Request, TurnStep(r)
  PROVE  RegisteredInv'
<1>1. CASE Submit(r)
  <2>1. PICK p \in {"done", "reading"} : pc' = [pc EXCEPT ![r] = p]
    BY <1>1 DEF Submit
  <2> QED BY <1>1, <2>1, OneRegisteredKept DEF Submit, Registered
<1>2. CASE Register(r)
  <2>1. pc[r] = "reading" /\ S(r) \in Session /\ req' = req
    BY <1>2, PlaceTypes DEF Register
  <2>2. CASE activeTurns' = activeTurns /\ pc' = [pc EXCEPT ![r] = "done"]
    BY <2>1, <2>2, OneRegisteredKept DEF Registered
  <2>3. CASE /\ activeTurns' = [activeTurns EXCEPT ![S(r)] = r]
             /\ pc' = [pc EXCEPT ![r] = "preparing"]
    <3>1. /\ pc'[r] = "preparing" /\ \A x \in Request \ {r} : pc'[x] = pc[x]
          /\ DOMAIN activeTurns = Session
      BY <2>3 DEF TypeInv, TypeOK
    <3>2. \A x \in Request \ {r} : pc'[x] \notin Registered \cup {"unlinking"}
      BY <2>1, <3>1, ReadingAlone
    <3>3. \A s \in Session : activeTurns[s] = None
      BY <2>1, ReadingAlone DEF RegisteredInv
    <3> QED BY <2>1, <2>3, <3>1, <3>2, <3>3 DEF RegisteredInv, Registered
  <2> QED BY <1>2, <2>2, <2>3 DEF Register
<1>3. CASE PrepareFails(r) \/ End(r) \/ Repair(r)
  BY <1>3, ReturnRegistered DEF PrepareFails, End, Repair, Registered
<1>4. CASE Prepared(r) \/ Start(r) \/ LoopAppendFails(r) \/ Work(r) \/ Ask(r) \/ Record(r)
  <2>1. PICK p \in Registered : pc' = [pc EXCEPT ![r] = p]
    BY <1>4 DEF Prepared, Start, LoopAppendFails, Work, Ask, Record, Registered
  <2>2. pc[r] \in Registered /\ activeTurns' = activeTurns /\ req' = req
    BY <1>4 DEF Prepared, Start, LoopAppendFails, Work, Ask, Record, Registered
  <2> QED BY <2>1, <2>2, OneRegisteredKept DEF Registered
<1> QED BY <1>1, <1>2, <1>3, <1>4 DEF TurnStep

(* Arrivals register nothing.                                              *)
LEMMA ArrivalRegistered ==
  ASSUME TypeInv, RegisteredInv, NEW r \in Request, Arrival(r)
  PROVE  RegisteredInv'
<1>1. activeTurns' = activeTurns
  BY DEF Arrival, Enqueue, Cancel, Answer, AskMode
<1>2. PICK k, s, t, c : Arrive(r, k, s, t, c)
  BY ArrivalArrives
<1>3. req[r].kind = "none" /\ \A x \in Request \ {r} : req'[x] = req[x]
  BY <1>2, ArriveAnew
<1>4. \A x \in Request : /\ pc'[x] \in Registered <=> pc[x] \in Registered
                         /\ pc'[x] = "unlinking" => pc[x] = "unlinking"
  BY ArrivalArrives DEF Registered
<1> QED BY <1>1, <1>3, <1>4, RegisteredKept

(* A file is marked only when no turn of its session is registered.        *)
LEMMA DeleteRegistered ==
  ASSUME TypeInv, QueueInv, RegisteredInv, NEW r \in Request, DeleteStep(r)
  PROVE  RegisteredInv'
<1>1. activeTurns' = activeTurns
  BY DEF DeleteStep, Delete, TurnStopped, MarkDeleting, Unlink, UnlinkFails
<1>2. CASE Delete(r)
  <2>1. pc[r] = "queued"
    BY <1>2 DEF Delete
  <2>2. \A x \in Request : req'[x].session = req[x].session
    <3>1. req' = req \/ req' = [req EXCEPT ![r].turn = active]
      BY <1>2 DEF Delete
    <3> QED BY <3>1 DEF TypeInv, RequestRecord
  <2>3. \A x \in Request : \/ pc'[x] = pc[x]
                           \/ x = r /\ pc'[x] \in {"stopping", "deleting"}
                           \/ pc[x] = "waiting" /\ pc'[x] = "ending"
    BY <1>2 DEF Delete, Unwinding, WaitingOf, TypeInv, TypeOK
  <2>4. \A x \in Request : /\ pc'[x] \in Registered <=> pc[x] \in Registered
                           /\ pc'[x] = "unlinking" => pc[x] = "unlinking"
    BY <2>1, <2>3 DEF Registered
  <2> QED BY <1>1, <2>2, <2>4, RegisteredKept
<1>3. CASE TurnStopped(r) \/ Unlink(r) \/ UnlinkFails(r)
  <2>1. PICK p \in {"deleting", "done"} : pc' = [pc EXCEPT ![r] = p]
    BY <1>3 DEF TurnStopped, Unlink, UnlinkFails
  <2>2. pc[r] \in {"stopping", "unlinking"} /\ req' = req
    BY <1>3 DEF TurnStopped, Unlink, UnlinkFails
  <2> QED BY <1>1, <2>1, <2>2, OneRegisteredKept DEF Registered
<1>4. CASE MarkDeleting(r)
  <2>1. pc[r] = "deleting" /\ req' = req
    BY <1>4 DEF MarkDeleting
  <2>2. CASE pc' = [pc EXCEPT ![r] = "done"]
    BY <1>1, <2>1, <2>2, OneRegisteredKept DEF Registered
  <2>3. CASE activeTurns[S(r)] = None /\ pc' = [pc EXCEPT ![r] = "unlinking"]
    <3>1. pc'[r] = "unlinking" /\ \A x \in Request \ {r} : pc'[x] = pc[x]
      BY <2>3 DEF TypeInv, TypeOK
    <3> QED BY <1>1, <2>1, <2>3, <3>1 DEF RegisteredInv, Registered
  <2> QED BY <1>4, <2>2, <2>3 DEF MarkDeleting
<1> QED BY <1>2, <1>3, <1>4 DEF DeleteStep

(* Settings requests register nothing.                                     *)
LEMMA ModeRegistered ==
  ASSUME TypeInv, RegisteredInv, NEW r \in Request, ModeStep(r)
  PROVE  RegisteredInv'
<1>1. activeTurns' = activeTurns /\ req' = req /\ pc[r] \in ModePlaces
  BY DEF ModeStep, Switch, Number, AppendMode, ModePlaces
<1>2. PICK p \in {"done", "numbering", "switched"} : pc' = [pc EXCEPT ![r] = p]
  BY DEF ModeStep, Switch, Number, AppendMode
<1> QED BY <1>1, <1>2, OneRegisteredKept DEF Registered, ModePlaces

(* Every step keeps the service's active turns.                            *)
LEMMA NextRegistered ==
  TypeInv /\ QueueInv /\ RegisteredInv /\ [Next]_vars => RegisteredInv'
<1> SUFFICES ASSUME TypeInv, QueueInv, RegisteredInv, [Next]_vars PROVE RegisteredInv'
  OBVIOUS
<1>1. ASSUME NEW r \in Request,
             Arrival(r) \/ TurnStep(r) \/ DeleteStep(r) \/ ModeStep(r)
      PROVE  RegisteredInv'
  BY <1>1, ArrivalRegistered, TurnRegistered, DeleteRegistered, ModeRegistered
<1>2. CASE Shutdown \/ Close
  <2>1. PICK T \in SUBSET Request :
          pc' = Unwinding(T) /\ UNCHANGED <<activeTurns, req>>
    BY <1>2, StopAborts
  <2>2. \A x \in Request : /\ pc'[x] \in Registered <=> pc[x] \in Registered
                           /\ pc'[x] = "unlinking" => pc[x] = "unlinking"
    BY <2>1 DEF Unwinding, WaitingOf, Registered
  <2> QED BY <2>1, <2>2, RegisteredKept
<1>3. CASE UNCHANGED vars
  BY <1>3 DEF vars, RegisteredInv
<1> QED BY <1>1, <1>2, <1>3 DEF Next, Done

-----------------------------------------------------------------------------
(* Every step keeps the active turn on file.                               *)

(* Which events of a turn are on file after an append.                     *)
LEMMA HasAfterAppend ==
  ASSUME TypeInv, NEW s \in Session, NEW n, NEW e \in Event, AppendOk(s, n, e), NEW type
  PROVE  \A x \in Session, t \in Request :
           Has(x, type, t)' <=>
             \/ Has(x, type, t)
             \/ x = s /\ e.type = type /\ e.turn = t
<1> TAKE x \in Session, t \in Request
<1>1. log[s] \in Seq(Event) /\ log' = [log EXCEPT ![s] = Append(log[s], e)]
  BY DEF AppendOk, TypeInv, TypeOK
<1>2. CASE x # s
  <2>1. log'[x] = log[x]
    BY <1>1, <1>2
  <2> QED BY <1>2, <2>1 DEF Has
<1>3. CASE x = s
  <2> DEFINE l == log[s]
             m == Append(l, e)
  <2>1. log'[x] = m
    BY <1>1, <1>3 DEF TypeInv, TypeOK
  <2>2. /\ Len(l) \in Nat /\ DOMAIN l = 1 .. Len(l) /\ DOMAIN m = 1 .. Len(l) + 1
        /\ m[Len(l) + 1] = e /\ \A i \in 1 .. Len(l) : m[i] = l[i]
    BY <1>1
  <2> HIDE DEF m, l
  <2>3. (\E i \in DOMAIN m : m[i].type = type /\ m[i].turn = t) <=>
          \/ \E i \in DOMAIN l : l[i].type = type /\ l[i].turn = t
          \/ e.type = type /\ e.turn = t
    BY <2>2
  <2> QED BY <1>3, <2>1, <2>3 DEF Has, l
<1> QED BY <1>2, <1>3

(* Which turns have started after an append.                               *)
LEMMA StartedAfterAppend ==
  ASSUME TypeInv, NEW s \in Session, NEW n, NEW e \in Event, AppendOk(s, n, e)
  PROVE  \A x \in Session, t \in Request :
           Has(x, "turn.started", t)' <=>
             \/ Has(x, "turn.started", t)
             \/ x = s /\ e.type = "turn.started" /\ e.turn = t
BY HasAfterAppend

(* The active turn's session is one.                                       *)
LEMMA ActiveSession ==
  ASSUME TypeInv, QueueInv
  PROVE  \A x \in Request : active = x => S(x) \in Session /\ pc[x] \in Registered
<1>1. \A x \in Request : active = x => pc[x] \in Registered
  BY ServiceAssumption DEF QueueInv, Started, Registered
<1> QED BY <1>1, PlaceTypes DEF Registered

(* A step that starts no turn, and drops no active turn's file.            *)
LEMMA OnFileKept ==
  ASSUME TypeInv, QueueInv, OnFileInv,
         \A x \in Request, s \in Session :
           /\ Has(s, "turn.started", x)' => Has(s, "turn.started", x)
           /\ active' = x /\ s = S(x) /\ Has(s, "turn.started", x)
                => Has(s, "turn.started", x)',
         \A x \in Request :
           IF active' = x THEN active = x /\ req'[x].session = req[x].session
           ELSE pc'[x] # "done" => active # x /\ pc[x] # "done"
  PROVE  OnFileInv'
<1>1. ASSUME NEW x \in Request, active' = x PROVE Has(S(x), "turn.started", x)'
  <2>1. active = x /\ S(x) \in Session /\ S(x)' = S(x)
    BY <1>1, ActiveSession
  <2>2. Has(S(x), "turn.started", x)
    BY <2>1 DEF OnFileInv
  <2>3. PICK s \in Session : s = S(x)
    BY <2>1
  <2>4. Has(s, "turn.started", x)'
    BY <1>1, <2>2, <2>3
  <2> QED BY <2>1, <2>3, <2>4 DEF Has
<1>2. ASSUME NEW x \in Request, active' # x, pc'[x] # "done", NEW s \in Session
      PROVE  ~Has(s, "turn.started", x)'
  BY <1>2 DEF OnFileInv
<1> QED BY <1>1, <1>2 DEF OnFileInv

(* A step that leaves the files alone.                                     *)
LEMMA OnFileSame ==
  ASSUME TypeInv, QueueInv, OnFileInv, log' = log, active' = active,
         \A x \in Request : req[x].kind # "none" => req'[x].session = req[x].session,
         \A x \in Request : pc'[x] # "done" => pc[x] # "done"
  PROVE  OnFileInv'
<1>1. \A x \in Request : active = x => req'[x].session = req[x].session
  BY ActiveSession, PlaceTypes DEF Registered
<1>2. \A x \in Request, s \in Session :
        Has(s, "turn.started", x)' <=> Has(s, "turn.started", x)
  BY DEF Has
<1> QED BY <1>1, <1>2, OnFileKept

(* A step of one request that may append an event other than turn.started, *)
(* and after which, if it is done, it is not the active turn.              *)
LEMMA OnFileStep ==
  ASSUME TypeInv, QueueInv, OnFileInv, NEW r \in Request, S(r) \in Session,
         req' = req, pc[r] # "done", NEW p, pc' = [pc EXCEPT ![r] = p],
         active' = active \/ (p = "done" /\ active' = ActiveAfter(r)),
         \/ log' = log
         \/ \E n : \E e \in Event : AppendOk(S(r), n, e) /\ e.type # "turn.started"
  PROVE  OnFileInv'
<1>1. \A x \in Request, s \in Session :
        Has(s, "turn.started", x)' <=> Has(s, "turn.started", x)
  <2>1. CASE log' = log
    BY <2>1 DEF Has
  <2>2. CASE \E n : \E e \in Event : AppendOk(S(r), n, e) /\ e.type # "turn.started"
    BY <2>2, StartedAfterAppend
  <2> QED BY <2>1, <2>2
<1>2. \A x \in Request :
        IF active' = x THEN active = x
        ELSE pc'[x] # "done" => active # x /\ pc[x] # "done"
  BY ServiceAssumption DEF ActiveAfter, TypeInv, TypeOK
<1> QED BY <1>1, <1>2, OnFileKept

(* A turn becomes the active one with its turn.started.                    *)
LEMMA TurnOnFile ==
  ASSUME TypeInv, QueueInv, OnFileInv, NEW r \in Request, TurnStep(r)
  PROVE  OnFileInv'
<1>1. CASE Start(r)
  <2>1. /\ pc[r] = "starting" /\ active = None /\ active' = r /\ req' = req
        /\ S(r) \in Session /\ mode[r] \in Mode
        /\ AppendOk(S(r), seqn[r] + 1, Ev("turn.started", r, mode[r]))
        /\ pc' = [pc EXCEPT ![r] = "running"]
    BY <1>1, PlaceTypes DEF Start, QueueInv, Registered, Started
  <2>2. PICK s \in Session, e \in Event :
          /\ s = S(r) /\ e = Ev("turn.started", r, mode[r])
    BY <2>1, EventTypes
  <2>3. \A x \in Session, t \in Request :
          Has(x, "turn.started", t)' <=> (Has(x, "turn.started", t) \/ (x = s /\ t = r))
    <3>1. AppendOk(s, seqn[r] + 1, e) /\ e.type = "turn.started" /\ e.turn = r
      BY <2>1, <2>2 DEF Ev
    <3> QED BY <3>1, StartedAfterAppend
  <2>4. Has(S(r), "turn.started", r)'
    <3>1. Has(s, "turn.started", r)'
      BY <2>3
    <3> QED BY <2>1, <2>2, <3>1 DEF Has
  <2>5. ASSUME NEW x \in Request \ {r}, pc'[x] # "done", NEW y \in Session
        PROVE  ~Has(y, "turn.started", x)'
    <3>1. pc[x] # "done" /\ active # x
      BY <2>1, <2>5, ServiceAssumption DEF TypeInv, TypeOK
    <3> QED BY <2>3, <2>5, <3>1 DEF OnFileInv
  <2> QED BY <2>1, <2>4, <2>5 DEF OnFileInv
<1>2. ASSUME TurnStep(r), ~Start(r) PROVE OnFileInv'
  <2>1. /\ S(r) \in Session /\ pc[r] # "done" /\ req' = req
    <3>1. pc[r] \notin {"done", "unsent"} /\ req' = req
      BY <1>2 DEF TurnStep, Submit, Register, PrepareFails, Prepared, LoopAppendFails,
              Work, Ask, Record, End, Repair
    <3> QED BY <3>1, PlaceTypes
  <2>2. PICK p : /\ pc' = [pc EXCEPT ![r] = p]
                 /\ active' = active \/ (p = "done" /\ active' = ActiveAfter(r))
    <3>1. CASE PrepareFails(r) \/ End(r) \/ Repair(r)
      BY <3>1 DEF PrepareFails, End, Repair, Returns
    <3>2. CASE Submit(r) \/ Register(r)
      BY <3>2 DEF Submit, Register
    <3>3. CASE Prepared(r) \/ LoopAppendFails(r) \/ Work(r) \/ Ask(r) \/ Record(r)
      BY <3>3 DEF Prepared, LoopAppendFails, Work, Ask, Record
    <3> QED BY <1>2, <3>1, <3>2, <3>3 DEF TurnStep
  <2>3. \/ log' = log
        \/ \E n : \E e \in Event : AppendOk(S(r), n, e) /\ e.type # "turn.started"
    <3>1. CASE Ask(r) \/ Record(r) \/ End(r)
      <4>1. PICK type \in {"approval.requested", "approval.granted", "approval.denied",
                           "turn.end"} : AppendOk(S(r), seqn[r] + 1, Ev(type, r, None))
        BY <3>1 DEF Ask, Record, End, Emits, ApprovalEvent
      <4>2. Ev(type, r, None) \in Event /\ Ev(type, r, None).type # "turn.started"
        BY <4>1 DEF Ev, Event
      <4> QED BY <4>1, <4>2
    <3>2. CASE Repair(r)
      <4>1. \/ log' = log
            \/ AppendOk(S(r), Len(log[S(r)]) + 1, Ev("turn.end", r, None))
        BY <3>2 DEF Repair, AppendFails
      <4>2. Ev("turn.end", r, None) \in Event /\ Ev("turn.end", r, None).type # "turn.started"
        BY DEF Ev, Event
      <4> QED BY <4>1, <4>2
    <3>3. CASE \/ Submit(r) \/ Register(r) \/ PrepareFails(r) \/ Prepared(r)
               \/ LoopAppendFails(r) \/ Work(r)
      BY <3>3 DEF Submit, Register, PrepareFails, Prepared, LoopAppendFails, Work,
                  AppendFails
    <3> QED BY <1>2, <3>1, <3>2, <3>3 DEF TurnStep
  <2> QED BY <2>1, <2>2, <2>3, OnFileStep
<1> QED BY <1>1, <1>2

(* A deletion removes the events of no active turn.                        *)
LEMMA DeleteOnFile ==
  ASSUME ServiceInv, NEW r \in Request, DeleteStep(r)
  PROVE  OnFileInv'
<1> USE DEF ServiceInv
<1>1. active' = active /\ \A x \in Request : req'[x].session = req[x].session
  <2>1. active' = active /\ (req' = req \/ req' = [req EXCEPT ![r].turn = active])
    BY DEF DeleteStep, Delete, TurnStopped, MarkDeleting, Unlink, UnlinkFails
  <2> QED BY <2>1 DEF TypeInv, RequestRecord
<1>2. \A x \in Request : pc'[x] # "done" => pc[x] # "done"
  <2>1. CASE Delete(r)
    BY <2>1 DEF Delete, Unwinding, WaitingOf, TypeInv, TypeOK
  <2>2. CASE ~Delete(r)
    <3>1. pc[r] # "done" /\ \E p : pc' = [pc EXCEPT ![r] = p]
      BY <2>2 DEF DeleteStep, TurnStopped, MarkDeleting, Unlink, UnlinkFails
    <3> QED BY <3>1 DEF TypeInv, TypeOK
  <2> QED BY <2>1, <2>2
<1>3. CASE ~Unlink(r)
  <2>1. log' = log
    BY <1>3 DEF DeleteStep, Delete, TurnStopped, MarkDeleting, UnlinkFails
  <2> QED BY <1>1, <1>2, <2>1, OnFileSame
<1>4. CASE Unlink(r)
  <2>1. /\ pc[r] = "unlinking" /\ S(r) \in Session /\ activeTurns[S(r)] = None
        /\ log' = [log EXCEPT ![S(r)] = <<>>] /\ DOMAIN log = Session
    BY <1>4, PlaceTypes DEF Unlink, RegisteredInv, TypeInv, TypeOK
  <2>2. \A x \in Request : active = x => S(x) # S(r)
    BY <2>1, ActiveSession, ServiceAssumption DEF RegisteredInv
  <2>3. \A x \in Request, s \in Session :
          IF s = S(r) THEN ~Has(s, "turn.started", x)'
          ELSE Has(s, "turn.started", x)' <=> Has(s, "turn.started", x)
    BY <2>1 DEF Has
  <2> QED BY <1>1, <1>2, <2>2, <2>3, OnFileKept
<1> QED BY <1>3, <1>4

(* Every step keeps the active turn on file.                               *)
LEMMA NextOnFile == ServiceInv /\ [Next]_vars => OnFileInv'
<1> SUFFICES ASSUME ServiceInv, TypeInv, QueueInv, OnFileInv, [Next]_vars PROVE OnFileInv'
  BY DEF ServiceInv
<1>1. ASSUME NEW r \in Request, Arrival(r) PROVE OnFileInv'
  <2>1. UNCHANGED <<log, active>>
    BY <1>1 DEF Arrival, Enqueue, Cancel, Answer, AskMode
  <2>2. \A x \in Request : req[x].kind # "none" => req'[x].session = req[x].session
    <3>1. \E k, s, t, c : Arrive(r, k, s, t, c)
      BY <1>1, ArrivalArrives
    <3> QED BY <3>1, ArriveAnew
  <2>3. \A x \in Request : pc'[x] # "done" => pc[x] # "done"
    <3>1. pc[r] # "done" /\ \A x \in Request \ {r} : pc'[x] = pc[x] \/ pc[x] = "waiting"
      BY <1>1, ArrivalArrives
    <3> QED BY <3>1
  <2> QED BY <2>1, <2>2, <2>3, OnFileSame
<1>2. ASSUME NEW r \in Request, ModeStep(r) PROVE OnFileInv'
  <2>1. S(r) \in Session /\ pc[r] \in ModePlaces /\ req' = req /\ mode[r] \in Mode
    BY <1>2, PlaceTypes DEF ModeStep, Switch, Number, AppendMode, ModePlaces
  <2>2. active' = active /\ \E p : pc' = [pc EXCEPT ![r] = p]
    BY <1>2 DEF ModeStep, Switch, Number, AppendMode
  <2>3. /\ Ev("safety.changed", None, mode[r]) \in Event
        /\ Ev("safety.changed", None, mode[r]).type # "turn.started"
    BY <2>1 DEF Ev, Event
  <2>4. \/ log' = log
        \/ AppendOk(S(r), seqn[r] + 1, Ev("safety.changed", None, mode[r]))
    BY <1>2 DEF ModeStep, Switch, Number, AppendMode, AppendFails
  <2> QED BY <2>1, <2>2, <2>3, <2>4, OnFileStep DEF ModePlaces
<1>3. CASE Shutdown \/ Close
  <2>1. PICK T \in SUBSET Request :
          pc' = Unwinding(T) /\ UNCHANGED <<log, active, req>>
    BY <1>3, StopAborts
  <2>2. \A x \in Request : pc'[x] # "done" => pc[x] # "done"
    BY <2>1 DEF Unwinding, WaitingOf
  <2> QED BY <2>1, <2>2, OnFileSame
<1>4. CASE UNCHANGED vars
  BY <1>4, OnFileSame DEF vars
<1> QED BY <1>1, <1>2, <1>3, <1>4, TurnOnFile, DeleteOnFile DEF Next, Done

-----------------------------------------------------------------------------
(* The theorems.                                                           *)

(* A request whose turn or settings step is next names a session.          *)
LEMMA StepSession ==
  ASSUME TypeInv, NEW r \in Request, TurnStep(r) \/ ModeStep(r)
  PROVE  S(r) \in Session
<1>1. pc[r] # "unsent"
  BY DEF TurnStep, Submit, Register, PrepareFails, Prepared, Start, LoopAppendFails,
         Work, Ask, Record, End, Repair, ModeStep, Switch, Number, AppendMode
<1> QED BY <1>1, PlaceTypes

(* The invariant the theorems rest on.                                     *)
LEMMA ServiceInvariant == Spec => []ServiceInv
<1>1. Init => ServiceInv
  <2>1. Init => DeleteInv
    BY DEF Init, NoRequest, DeleteInv, DeletedStaysDeleted
  <2>2. Init => RegisteredInv
    BY DEF Init, RegisteredInv, Registered
  <2>3. Init => OnFileInv
    BY ServiceAssumption DEF Init, OnFileInv, Has, Ev
  <2> QED BY <2>1, <2>2, <2>3, InitTypes, InitQueue DEF ServiceInv
<1>2. ServiceInv /\ [Next]_vars => ServiceInv'
  BY NextTypes, NextQueue, NextDelete, NextRegistered, NextOnFile DEF ServiceInv
<1> QED BY <1>1, <1>2, PTL DEF Spec

(* Every variable has its type.                                            *)
THEOREM ServiceTypes == Spec => []TypeOK
<1>1. ServiceInv => TypeOK
  BY DEF ServiceInv, TypeInv
<1> QED BY <1>1, ServiceInvariant, PTL

(* One turn runs at a time: a turn before its turn.started is the first of *)
(* the queue and no turn is active, a later one is the active turn.        *)
THEOREM OneTurn == Spec => []OneTurnAtATime
<1>1. ASSUME ServiceInv PROVE OneTurnAtATime
  <2>1. ASSUME NEW r \in Live, NEW t \in Live PROVE r = t
    <3>1. /\ r \in Request /\ t \in Request /\ None \notin Request
          /\ TypeInv /\ QueueInv
          /\ active \in Request \cup {None}
          /\ pc[r] \in Registered /\ pc[t] \in Registered
      BY <1>1, ServiceAssumption DEF Live, ServiceInv, TypeInv, TypeOK
    <3>2. CASE active # None
      BY <3>1, <3>2 DEF QueueInv, Registered, Started
    <3>3. CASE active = None
      <4>1. ASSUME NEW x \in Request, pc[x] \in Registered PROVE x = chain[1]
        <5>1. PICK i \in DOMAIN chain : chain[i] = x
          BY <3>1, <3>3, <4>1 DEF QueueInv, InQueue, Registered, Started, AtHead
        <5> QED BY <3>1, <4>1, <5>1 DEF QueueInv, Registered
      <4> QED BY <3>1, <4>1
    <3> QED BY <3>2, <3>3
  <2>2. CASE Live = {}
    <3>1. Cardinality(Live) = 0
      BY <2>2, FS_EmptySet
    <3> QED BY <3>1 DEF OneTurnAtATime
  <2>3. CASE Live # {}
    <3>1. PICK r : Live = {r}
      BY <2>1, <2>3
    <3>2. Cardinality(Live) = 1
      BY <3>1, FS_Singleton
    <3> QED BY <3>2 DEF OneTurnAtATime
  <2> QED BY <2>2, <2>3
<1> QED BY <1>1, ServiceInvariant, PTL

(* A deleted session stays deleted: no append, of a turn or of a settings  *)
(* request that read the file before, brings it back.                      *)
THEOREM DeletionLasts == Spec => []DeletedStaysDeleted
<1>1. ServiceInv => DeletedStaysDeleted
  BY DEF ServiceInv, DeleteInv
<1> QED BY <1>1, ServiceInvariant, PTL

(* The coordinator's snapshot names a turn exactly from its turn.started   *)
(* to its end.                                                             *)
THEOREM SnapshotHolds == Spec => []SnapshotIsTrue
<1>1. ASSUME ServiceInv PROVE SnapshotIsTrue
  <2> SUFFICES ASSUME NEW r \in Request
               PROVE  active = r <=> r \in Live /\ Has(S(r), "turn.started", r)
    BY DEF SnapshotIsTrue
  <2> USE <1>1 DEF ServiceInv
  <2>1. ASSUME active = r PROVE r \in Live /\ Has(S(r), "turn.started", r)
    BY <2>1, ActiveSession DEF OnFileInv, Live
  <2>2. ASSUME active # r, r \in Live PROVE ~Has(S(r), "turn.started", r)
    BY <2>2, PlaceTypes DEF OnFileInv, Live, Registered
  <2> QED BY <2>1, <2>2
<1> QED BY <1>1, ServiceInvariant, PTL

(* A session's file is removed only when no turn of it is registered, in   *)
(* the service or in the coordinator: the turn that ran has ended.         *)
THEOREM DeletionWaits == Spec => DeleteWaitsForTurn
<1>1. ASSUME ServiceInv, [Next]_vars, NEW s \in Session, log[s] # <<>>, log'[s] = <<>>
      PROVE  /\ activeTurns[s] = None /\ \A r \in Live : S(r) # s
             /\ active = None \/ S(active) # s
  <2> USE <1>1 DEF ServiceInv
  <2>1. PICK r \in Request : Unlink(r)
    <3>1. ASSUME NEW r \in Request, DeleteStep(r), ~Unlink(r) PROVE log' = log
      BY <3>1 DEF DeleteStep, Delete, TurnStopped, MarkDeleting, UnlinkFails
    <3>2. ASSUME NEW r \in Request, TurnStep(r) \/ ModeStep(r)
          PROVE  log' = log \/ \E x \in Session : \E n, e : AppendOk(x, n, e)
      <4>1. S(r) \in Session
        BY <3>2, StepSession
      <4>2. log' = log \/ \E n, e : AppendOk(S(r), n, e)
        BY <3>2 DEF TurnStep, Submit, Register, PrepareFails, Prepared, Start,
                LoopAppendFails, Work, Ask, Record, End, Repair, Emits, AppendFails,
                ModeStep, Switch, Number, AppendMode
      <4> QED BY <4>1, <4>2
    <3>3. (\E x \in Session : \E n, e : AppendOk(x, n, e)) => log'[s] # <<>>
      BY AppendDeletesNothing
    <3>4. ASSUME NEW r \in Request, Arrival(r) PROVE log' = log
      BY <3>4 DEF Arrival, Enqueue, Cancel, Answer, AskMode
    <3>5. Shutdown \/ Close \/ UNCHANGED vars => log' = log
      BY DEF Shutdown, Close, vars
    <3> QED BY <3>1, <3>2, <3>3, <3>4, <3>5 DEF Next, Done, DeleteStep
  <2>2. pc[r] = "unlinking" /\ s = S(r)
    <3>1. pc[r] = "unlinking" /\ log' = [log EXCEPT ![S(r)] = <<>>]
      BY <2>1 DEF Unlink
    <3> QED BY <3>1 DEF TypeInv, TypeOK
  <2>3. activeTurns[s] = None
    BY <2>2 DEF RegisteredInv
  <2>4. \A x \in Request : pc[x] \in Registered => S(x) # s
    BY <2>3, ServiceAssumption DEF RegisteredInv
  <2>5. active = None \/ (active \in Request /\ pc[active] \in Registered)
    BY ActiveSession DEF TypeInv, TypeOK
  <2> QED BY <2>3, <2>4, <2>5 DEF Live
<1>2. ServiceInv /\ [Next]_vars =>
        [\A s \in Session :
           log[s] # <<>> /\ log'[s] = <<>> =>
             /\ activeTurns[s] = None /\ \A r \in Live : S(r) # s
             /\ active = None \/ S(active) # s]_vars
  BY <1>1
<1> QED BY <1>2, ServiceInvariant, PTL DEF Spec, DeleteWaitsForTurn

-----------------------------------------------------------------------------
(* Answers to approvals, and the turns a close leaves behind.              *)

(* The approval of a turn is engaged from its entry on.  Only a submission *)
(* that has asked has one, it asks once, and the accepted answer is the    *)
(* one request that gave it; nothing else is ever put on file.             *)
Asked(t) == Has(S(t), "approval.requested", t)

Engaged(t) == t \in pending \/ choice[t] # "none" \/ Given(t) # {}

AnswerInv ==
  \A t \in Request :
    /\ Engaged(t) => /\ req[t].kind = "submit"
                     /\ pc[t] = "done" \/ (pc[t] \in Registered /\ Asked(t))
    /\ pc[t] = "asking" => ~Asked(t)
    /\ t \in pending => choice[t] = "none" /\ Given(t) = {}
    /\ \A r \in Given(t) : req[r].choice = choice[t] /\ Given(t) = {r}
    /\ choice[t] # "none" => Given(t) # {}
    /\ pc[t] = "recording" => choice[t] # "none"
    /\ \A s \in Session, c \in {"granted", "denied"} :
         Has(s, ApprovalEvent(c), t) => choice[t] = c

(* After the close, a turn that is past its preparation is aborted.        *)
CloseInv ==
  server = "closed" =>
    \A r \in Request : pc[r] \in Registered \ {"preparing"} => r \in aborted

(* A step of a request that is no accepted answer, before or after, leaves *)
(* the accepted answers as they are.                                       *)
LEMMA GivenKept ==
  ASSUME NEW r \in Request,
         \A x \in Request \ {r} : req'[x] = req[x] /\ answer'[x] = answer[x],
         ~(req[r].kind = "answer" /\ answer[r] = "ok"),
         ~(req'[r].kind = "answer" /\ answer'[r] = "ok")
  PROVE  \A t \in Request : /\ Given(t)' = Given(t)
                            /\ \A q \in Given(t) : req'[q] = req[q]
BY DEF Given

(* A step that enters no approval and accepts no answer: the turns it      *)
(* moves to a question have not asked, and an answer it puts on file is    *)
(* the accepted one.                                                       *)
LEMMA AnswerKept ==
  ASSUME AnswerInv, pending' \subseteq pending, choice' = choice,
         \A t \in Request : /\ Given(t)' = Given(t)
                            /\ \A q \in Given(t) : req'[q] = req[q],
         \A t \in Request :
           /\ req[t].kind = "submit" =>
                req'[t].kind = "submit" /\ req'[t].session = req[t].session
           /\ pc[t] = "done" => pc'[t] = "done"
           /\ pc[t] \in Registered => pc'[t] \in Registered \cup {"done"}
           /\ pc'[t] = "asking" => pc[t] \in Registered /\ ~Asked(t)
           /\ pc'[t] = "recording" => pc[t] = "recording"
           /\ pc[t] \in Registered => (Asked(t)' <=> Asked(t))
           /\ \A s \in Session, c \in {"granted", "denied"} :
                Has(s, ApprovalEvent(c), t)' => Has(s, ApprovalEvent(c), t) \/ choice[t] = c
  PROVE  AnswerInv'
<1> SUFFICES ASSUME NEW t \in Request
             PROVE  /\ Engaged(t)' => /\ req'[t].kind = "submit"
                                      /\ pc'[t] = "done" \/ (pc'[t] \in Registered /\ Asked(t)')
                    /\ pc'[t] = "asking" => ~Asked(t)'
                    /\ t \in pending' => choice'[t] = "none" /\ Given(t)' = {}
                    /\ \A r \in Given(t)' : req'[r].choice = choice'[t] /\ Given(t)' = {r}
                    /\ choice'[t] # "none" => Given(t)' # {}
                    /\ pc'[t] = "recording" => choice'[t] # "none"
                    /\ \A s \in Session, c \in {"granted", "denied"} :
                         Has(s, ApprovalEvent(c), t)' => choice'[t] = c
  BY DEF AnswerInv
<1>1. Engaged(t)' => Engaged(t)
  BY DEF Engaged
<1>2. /\ Engaged(t) => /\ req[t].kind = "submit"
                       /\ pc[t] = "done" \/ (pc[t] \in Registered /\ Asked(t))
      /\ t \in pending => choice[t] = "none" /\ Given(t) = {}
      /\ \A r \in Given(t) : req[r].choice = choice[t] /\ Given(t) = {r}
      /\ choice[t] # "none" => Given(t) # {}
      /\ pc[t] = "recording" => choice[t] # "none"
      /\ \A s \in Session, c \in {"granted", "denied"} :
           Has(s, ApprovalEvent(c), t) => choice[t] = c
  BY DEF AnswerInv
<1>3. Engaged(t)' => /\ req'[t].kind = "submit"
                     /\ pc'[t] = "done" \/ (pc'[t] \in Registered /\ Asked(t)')
  BY <1>1, <1>2
<1>4. pc'[t] = "asking" => ~Asked(t)'
  OBVIOUS
<1>5. \A r \in Given(t)' : req'[r].choice = choice'[t] /\ Given(t)' = {r}
  BY <1>2
<1> QED BY <1>2, <1>3, <1>4, <1>5

(* The files after a step of a request that leaves them alone or appends   *)
(* an event that asks for no approval and answers none but as accepted.    *)
LEMMA FilesKept ==
  ASSUME TypeInv, NEW r \in Request, S(r) \in Session,
         \A x \in Request : pc[x] \in Registered => req'[x].session = req[x].session,
         \/ log' = log
         \/ \E n : \E e \in Event :
              /\ AppendOk(S(r), n, e) /\ e.type # "approval.requested"
              /\ \A t \in Request, c \in {"granted", "denied"} :
                   e.type = ApprovalEvent(c) /\ e.turn = t => choice[t] = c
  PROVE  \A t \in Request :
           /\ pc[t] \in Registered => (Asked(t)' <=> Asked(t))
           /\ \A s \in Session, c \in {"granted", "denied"} :
                Has(s, ApprovalEvent(c), t)' => Has(s, ApprovalEvent(c), t) \/ choice[t] = c
<1> SUFFICES ASSUME NEW t \in Request
             PROVE  /\ pc[t] \in Registered => (Asked(t)' <=> Asked(t))
                    /\ \A s \in Session, c \in {"granted", "denied"} :
                         Has(s, ApprovalEvent(c), t)' =>
                           Has(s, ApprovalEvent(c), t) \/ choice[t] = c
  OBVIOUS
<1>1. CASE log' = log
  BY <1>1 DEF Asked, Has, ApprovalEvent
<1>2. CASE log' # log
  <2>1. PICK n : \E e \in Event :
          /\ AppendOk(S(r), n, e) /\ e.type # "approval.requested"
          /\ \A x \in Request, c \in {"granted", "denied"} :
               e.type = ApprovalEvent(c) /\ e.turn = x => choice[x] = c
    BY <1>2
  <2>2. PICK e \in Event :
          /\ AppendOk(S(r), n, e) /\ e.type # "approval.requested"
          /\ \A x \in Request, c \in {"granted", "denied"} :
               e.type = ApprovalEvent(c) /\ e.turn = x => choice[x] = c
    BY <2>1
  <2>3. ASSUME pc[t] \in Registered PROVE Asked(t)' <=> Asked(t)
    <3>1. S(t) \in Session /\ S(t)' = S(t)
      BY <2>3, PlaceTypes DEF Registered
    <3>2. PICK s \in Session : s = S(t)
      BY <3>1
    <3>3. Has(s, "approval.requested", t)' <=> Has(s, "approval.requested", t)
      BY <2>2, HasAfterAppend
    <3> QED BY <3>1, <3>2, <3>3 DEF Asked, Has
  <2>4. ASSUME NEW s \in Session, NEW c \in {"granted", "denied"},
               Has(s, ApprovalEvent(c), t)'
        PROVE  Has(s, ApprovalEvent(c), t) \/ choice[t] = c
    <3>1. PICK type : type = ApprovalEvent(c)
      OBVIOUS
    <3>2. Has(s, type, t)' => Has(s, type, t) \/ (e.type = type /\ e.turn = t)
      BY <2>2, HasAfterAppend
    <3>3. Has(s, ApprovalEvent(c), t)' => Has(s, type, t)'
      BY <3>1 DEF Has, ApprovalEvent
    <3> QED BY <2>2, <2>4, <3>1, <3>2, <3>3
  <2> QED BY <2>3, <2>4
<1> QED BY <1>1, <1>2

(* Arrivals: an answer is accepted for a pending approval only, which has  *)
(* none yet.                                                               *)
LEMMA ArrivalAnswers ==
  ASSUME TypeInv, AnswerInv, NEW r \in Request, Arrival(r)
  PROVE  AnswerInv'
<1>1. /\ pc[r] = "unsent" /\ answer[r] = "none" /\ req[r].kind = "none"
      /\ \A x \in Request \ {r} : req'[x] = req[x]
  <2>1. PICK k, s, t, c : Arrive(r, k, s, t, c)
    BY ArrivalArrives
  <2>2. pc[r] = "unsent"
    BY <2>1 DEF Arrive
  <2> QED BY <2>1, <2>2, ArriveAnew DEF TypeInv, WellPlaced
<1>2. /\ \A x \in Request \ {r} : \/ pc'[x] = pc[x]
                                  \/ pc[x] = "waiting" /\ pc'[x] \in {"ending", "recording"}
      /\ log' = log
  BY ArrivalArrives DEF Arrival, Enqueue, Cancel, Answer, AskMode
<1>3. ~Engaged(r)
  BY <1>1 DEF AnswerInv, Registered
<1>4. ASSUME NEW t \in Request
      PROVE  /\ pc[t] \in Registered => (Asked(t)' <=> Asked(t))
             /\ \A s \in Session, c \in {"granted", "denied"} :
                  Has(s, ApprovalEvent(c), t)' <=> Has(s, ApprovalEvent(c), t)
  BY <1>1, <1>2 DEF Asked, Has, ApprovalEvent, Registered
<1>5. CASE Enqueue(r) \/ Cancel(r) \/ AskMode(r)
  <2>1. /\ req'[r].kind # "answer" /\ choice' = choice /\ pending' \subseteq pending
        /\ \A x \in Request \ {r} : answer'[x] = answer[x]
    <3>1. PICK k \in {"submit", "delete", "cancel", "mode"} :
            \E s, t, c : Arrive(r, k, s, t, c)
      BY <1>5 DEF Enqueue, Cancel, AskMode
    <3>2. req'[r].kind = k
      BY <3>1 DEF Arrive, TypeInv
    <3>3. choice' = choice /\ pending' \subseteq pending
      BY <1>5 DEF Enqueue, Cancel, AskMode, Aborts
    <3>4. \A x \in Request \ {r} : answer'[x] = answer[x]
      BY <1>5 DEF Enqueue, Cancel, AskMode, TypeInv, TypeOK
    <3> QED BY <3>2, <3>3, <3>4
  <2>2. \A x \in Request : /\ pc'[x] = "recording" => pc[x] = "recording"
                           /\ pc'[x] = "asking" => pc[x] = "asking"
    <3>1. CASE Enqueue(r) \/ AskMode(r)
      BY <3>1 DEF Enqueue, AskMode, TypeInv, TypeOK
    <3>2. CASE Cancel(r)
      BY <3>2 DEF Cancel, Unwinding, WaitingOf, TypeInv, TypeOK
    <3> QED BY <1>5, <3>1, <3>2
  <2>3. \A t \in Request : /\ Given(t)' = Given(t)
                           /\ \A q \in Given(t) : req'[q] = req[q]
    BY <1>1, <2>1, GivenKept
  <2> QED BY <1>1, <1>2, <1>4, <2>1, <2>2, <2>3, AnswerKept DEF AnswerInv, Registered
<1>6. CASE Answer(r)
  <2>1. PICK t \in Request, c \in {"granted", "denied"} :
          /\ req[t].kind = "submit"
          /\ Arrive(r, "answer", S(t), t, c)
          /\ IF t \in pending
             THEN /\ pending' = StillPending(t) /\ settled' = settled \cup {t}
                  /\ choice' = [choice EXCEPT ![t] = c]
                  /\ Respond(r, "ok")
                  /\ pc' = [pc EXCEPT ![r] = "done",
                              ![t] = IF pc[t] = "waiting" THEN "recording" ELSE pc[t]]
             ELSE /\ Respond(r, IF t \in settled THEN "duplicate"
                                ELSE IF t \in expired THEN "expired" ELSE "not_pending")
                  /\ Goto(r, "done")
                  /\ UNCHANGED <<pending, settled, choice>>
    BY <1>6 DEF Answer
  <2>2. req'[r].kind = "answer" /\ req'[r].turn = t /\ req'[r].choice = c
    BY <2>1 DEF Arrive, TypeInv
  <2>3. CASE t \notin pending
    <3>1. answer'[r] # "ok" /\ \A x \in Request \ {r} : answer'[x] = answer[x]
      BY <2>1, <2>3 DEF TypeInv, TypeOK
    <3>2. pc' = [pc EXCEPT ![r] = "done"] /\ UNCHANGED <<pending, choice>>
      BY <2>1, <2>3
    <3>3. \A x \in Request : /\ Given(x)' = Given(x)
                             /\ \A q \in Given(x) : req'[q] = req[q]
      BY <1>1, <3>1, GivenKept
    <3>4. \A x \in Request : pc'[x] = IF x = r THEN "done" ELSE pc[x]
      BY <3>2 DEF TypeInv, TypeOK
    <3> QED BY <1>1, <1>4, <3>2, <3>3, <3>4, AnswerKept DEF AnswerInv, Registered
  <2>4. CASE t \in pending
    <3>1. /\ choice[t] = "none" /\ Given(t) = {} /\ t # r
          /\ pc[t] = "done" \/ (pc[t] \in Registered /\ Asked(t))
      BY <1>3, <2>4 DEF AnswerInv, Engaged
    <3>2. /\ pending' = pending \ {t} /\ answer' = [answer EXCEPT ![r] = "ok"]
          /\ choice' = [choice EXCEPT ![t] = c]
          /\ pc' = [pc EXCEPT ![r] = "done",
                      ![t] = IF pc[t] = "waiting" THEN "recording" ELSE pc[t]]
      BY <2>1, <2>4 DEF StillPending
    <3>3. /\ \A x \in Request : choice'[x] = IF x = t THEN c ELSE choice[x]
          /\ \A x \in Request : answer'[x] = IF x = r THEN "ok" ELSE answer[x]
      BY <3>2 DEF TypeInv, TypeOK
    <3>4. \A x \in Request : pc'[x] = IF x = r THEN "done"
                                       ELSE IF x = t /\ pc[x] = "waiting" THEN "recording"
                                       ELSE pc[x]
      BY <3>1, <3>2 DEF TypeInv, TypeOK
    <3>5. /\ \A x \in Request \ {t} : Given(x)' = Given(x)
          /\ Given(t)' = {r}
      BY <1>1, <2>2, <3>1, <3>3 DEF Given
    <3>6. ASSUME NEW x \in Request, x # t
          PROVE  /\ Engaged(x)' => Engaged(x)
                 /\ \A q \in Given(x) : q \in Request \ {r}
      BY <1>1, <3>2, <3>3, <3>5, <3>6 DEF Engaged, Given
    <3>7. ASSUME NEW x \in Request
          PROVE  Engaged(x)' => /\ req'[x].kind = "submit"
                                /\ pc'[x] = "done" \/ (pc'[x] \in Registered /\ Asked(x)')
      <4>1. CASE x = t
        BY <1>1, <1>4, <2>1, <3>1, <3>4, <4>1 DEF Registered
      <4>2. CASE x # t /\ x # r
        BY <1>1, <1>4, <3>4, <3>6, <4>2 DEF AnswerInv
      <4>3. CASE x = r
        BY <1>3, <3>1, <3>6, <4>3
      <4> QED BY <4>1, <4>2, <4>3
    <3>8. ASSUME NEW x \in Request
          PROVE  pc'[x] = "asking" => ~Asked(x)'
      <4>1. pc'[x] = "asking" => pc[x] = "asking" /\ ~Asked(x)
        BY <3>4 DEF AnswerInv
      <4> QED BY <1>4, <4>1 DEF Registered
    <3>9. ASSUME NEW x \in Request
          PROVE  /\ x \in pending' => choice'[x] = "none" /\ Given(x)' = {}
                 /\ \A q \in Given(x)' : req'[q].choice = choice'[x] /\ Given(x)' = {q}
                 /\ choice'[x] # "none" => Given(x)' # {}
                 /\ pc'[x] = "recording" => choice'[x] # "none"
      <4>1. CASE x = t
        BY <2>2, <3>2, <3>3, <3>5, <4>1
      <4>2. CASE x # t
        <5>1. /\ Given(x)' = Given(x) /\ choice'[x] = choice[x]
              /\ x \in pending' => x \in pending
              /\ pc'[x] = "recording" => pc[x] = "recording"
          <6>1. Given(x)' = Given(x) /\ choice'[x] = choice[x]
            BY <3>3, <3>5, <4>2
          <6>2. x \in pending' => x \in pending
            BY <3>2
          <6>3. pc'[x] = "recording" => pc[x] = "recording"
            BY <3>4, <4>2
          <6> QED BY <6>1, <6>2, <6>3
        <5>2. \A q \in Given(x) : req'[q] = req[q]
          BY <1>1, <3>6, <4>2
        <5>3. /\ x \in pending => choice[x] = "none" /\ Given(x) = {}
              /\ \A q \in Given(x) : req[q].choice = choice[x] /\ Given(x) = {q}
              /\ choice[x] # "none" => Given(x) # {}
              /\ pc[x] = "recording" => choice[x] # "none"
          BY DEF AnswerInv
        <5> QED BY <5>1, <5>2, <5>3
      <4> QED BY <4>1, <4>2
    <3>10. ASSUME NEW x \in Request, NEW s \in Session, NEW d \in {"granted", "denied"},
                  Has(s, ApprovalEvent(d), x)'
           PROVE  choice'[x] = d
      <4>1. choice[x] = d
        BY <1>4, <3>10 DEF AnswerInv
      <4> QED BY <3>1, <3>3, <4>1
    <3> QED BY <3>7, <3>8, <3>9, <3>10 DEF AnswerInv
  <2> QED BY <2>3, <2>4
<1> QED BY <1>5, <1>6 DEF Arrival

(* Turns: a question is asked once, and only an accepted answer is put on  *)
(* file.                                                                   *)
LEMMA TurnAnswers ==
  ASSUME TypeInv, AnswerInv, NEW r \in Request, TurnStep(r)
  PROVE  AnswerInv'
<1>1. /\ S(r) \in Session /\ req[r].kind = "submit" /\ req' = req /\ pc[r] # "done"
      /\ \A x \in Request \ {r} : answer'[x] = answer[x]
  <2>1. /\ pc[r] \in Registered \cup {"reading"} \/ (pc[r] = "queued" /\ req[r].kind = "submit")
        /\ req' = req
    BY DEF TurnStep, Submit, Register, PrepareFails, Prepared, Start, LoopAppendFails,
           Work, Ask, Record, End, Repair, Registered
  <2>2. \A x \in Request \ {r} : answer'[x] = answer[x]
    BY DEF TurnStep, Submit, Register, PrepareFails, Prepared, Start, LoopAppendFails,
           Work, Ask, Record, End, Repair, TypeInv, TypeOK
  <2> QED BY <2>1, <2>2, PlaceTypes DEF Registered
<1>2. \A t \in Request : /\ Given(t)' = Given(t)
                         /\ \A q \in Given(t) : req'[q] = req[q]
  BY <1>1, GivenKept
<1>3. CASE Ask(r)
  <2>1. /\ pc[r] = "asking" /\ pending' = pending \cup {r} /\ choice' = choice
        /\ AppendOk(S(r), seqn[r] + 1, Ev("approval.requested", r, None))
    BY <1>3 DEF Ask, Emits
  <2>2. \E p \in {"ending", "waiting"} : \A x \in Request : pc'[x] = IF x = r THEN p ELSE pc[x]
    BY <1>3 DEF Ask, TypeInv, TypeOK
  <2>3. PICK e \in Event : e = Ev("approval.requested", r, None)
    BY DEF Ev, Event
  <2>4. e.type = "approval.requested" /\ e.turn = r
    BY <2>3 DEF Ev
  <2>5. PICK s \in Session : s = S(r)
    BY <1>1
  <2>6. \A type : \A x \in Session, t \in Request :
          Has(x, type, t)' <=>
            \/ Has(x, type, t)
            \/ x = s /\ e.type = type /\ e.turn = t
    BY <2>1, <2>3, <2>5, HasAfterAppend
  <2>7. /\ choice[r] = "none" /\ Given(r) = {}
    BY <2>1 DEF AnswerInv, Engaged
  <2>8. \A t \in Request : pc[t] \in Registered \cup {"done"} => S(t) \in Session \/ pc[t] = "done"
    BY PlaceTypes DEF Registered
  <2>9. ASSUME NEW t \in Request, Engaged(t)'
        PROVE  /\ req[t].kind = "submit"
               /\ pc'[t] = "done" \/ (pc'[t] \in Registered /\ Asked(t)')
    <3>1. CASE t = r
      <4>1. Has(s, "approval.requested", r)'
        BY <2>4, <2>6
      <4> QED BY <1>1, <2>2, <2>5, <3>1, <4>1 DEF Asked, Has, Registered
    <3>2. CASE t # r
      <4>1. Engaged(t)
        BY <1>2, <2>1, <2>9, <3>2 DEF Engaged
      <4>2. CASE pc[t] = "done"
        BY <2>2, <3>2, <4>1, <4>2 DEF AnswerInv
      <4>3. CASE pc[t] # "done"
        <5>1. pc[t] \in Registered /\ Asked(t) /\ req[t].kind = "submit"
          BY <4>1, <4>3 DEF AnswerInv
        <5>2. PICK y \in Session : y = S(t)
          BY <5>1, PlaceTypes DEF Registered
        <5>3. Has(y, "approval.requested", t)'
          BY <2>6, <5>1, <5>2 DEF Asked
        <5> QED BY <1>1, <2>2, <3>2, <5>1, <5>2, <5>3 DEF Asked, Has
      <4> QED BY <4>2, <4>3
    <3> QED BY <3>1, <3>2
  <2>10. ASSUME NEW t \in Request, pc'[t] = "asking"
         PROVE  ~Asked(t)'
    <3>1. t # r /\ pc[t] = "asking" /\ ~Asked(t)
      BY <2>2, <2>10 DEF AnswerInv
    <3>2. PICK y \in Session : y = S(t)
      BY <3>1, PlaceTypes DEF Registered
    <3>3. ~Has(y, "approval.requested", t)'
      BY <2>4, <2>6, <3>1, <3>2 DEF Asked
    <3> QED BY <1>1, <3>2, <3>3 DEF Asked, Has
  <2>11. ASSUME NEW t \in Request
         PROVE  /\ t \in pending' => choice'[t] = "none" /\ Given(t)' = {}
                /\ \A q \in Given(t)' : req'[q].choice = choice'[t] /\ Given(t)' = {q}
                /\ choice'[t] # "none" => Given(t)' # {}
                /\ pc'[t] = "recording" => choice'[t] # "none"
    <3>1. /\ t \in pending => choice[t] = "none" /\ Given(t) = {}
          /\ \A q \in Given(t) : req[q].choice = choice[t] /\ Given(t) = {q}
          /\ choice[t] # "none" => Given(t) # {}
          /\ pc[t] = "recording" => choice[t] # "none"
      BY DEF AnswerInv
    <3>2. Given(t)' = Given(t) /\ choice'[t] = choice[t] /\ req' = req
      BY <1>1, <1>2, <2>1
    <3>3. t \in pending' => t = r \/ t \in pending
      BY <2>1
    <3>4. pc'[t] = "recording" => pc[t] = "recording"
      BY <2>2
    <3> QED BY <2>7, <3>1, <3>2, <3>3, <3>4
  <2>12. ASSUME NEW t \in Request, NEW y \in Session, NEW c \in {"granted", "denied"},
                Has(y, ApprovalEvent(c), t)'
         PROVE  choice'[t] = c
    <3>1. PICK type \in {"approval.granted", "approval.denied"} : type = ApprovalEvent(c)
      BY DEF ApprovalEvent
    <3>2. Has(y, type, t)'
      BY <2>12, <3>1 DEF Has, ApprovalEvent
    <3>3. Has(y, ApprovalEvent(c), t)
      BY <2>4, <2>6, <3>1, <3>2
    <3> QED BY <2>1, <3>3 DEF AnswerInv
  <2> QED BY <1>1, <2>9, <2>10, <2>11, <2>12 DEF AnswerInv
<1>4. ASSUME ~Ask(r)
      PROVE  AnswerInv'
  <2>1. pending' \subseteq pending /\ choice' = choice
    BY <1>4 DEF TurnStep, Submit, Register, PrepareFails, Prepared, Start, LoopAppendFails,
           Work, Record, End, Repair, Returns
  <2>2. /\ \A x \in Request \ {r} : pc'[x] = pc[x]
        /\ pc[r] \in Registered => pc'[r] \in Registered \cup {"done"}
        /\ pc'[r] # "recording"
        /\ pc'[r] = "asking" => pc[r] = "running" /\ ~Asked(r)
    <3>1. CASE Submit(r) \/ Register(r)
      BY <3>1 DEF Submit, Register, TypeInv, TypeOK, Registered
    <3>2. CASE PrepareFails(r) \/ End(r) \/ Repair(r)
      BY <3>2 DEF PrepareFails, End, Repair, Returns, TypeInv, TypeOK
    <3>3. CASE Prepared(r) \/ Start(r) \/ LoopAppendFails(r) \/ Record(r)
      BY <3>3 DEF Prepared, Start, LoopAppendFails, Record, TypeInv, TypeOK, Registered
    <3>4. CASE Work(r)
      BY <3>4 DEF Work, TypeInv, TypeOK, Registered, Asked
    <3> QED BY <1>4, <3>1, <3>2, <3>3, <3>4 DEF TurnStep
  <2> DEFINE Appends ==
        \E n : \E e \in Event :
          /\ AppendOk(S(r), n, e) /\ e.type # "approval.requested"
          /\ \A t \in Request, c \in {"granted", "denied"} :
               e.type = ApprovalEvent(c) /\ e.turn = t => choice[t] = c
  <2>3. log' = log \/ Appends
    <3>1. ASSUME NEW n, NEW type \in {"turn.started", "turn.end"}, NEW m,
                 AppendOk(S(r), n, Ev(type, r, m)), Ev(type, r, m) \in Event
          PROVE  Appends
      <4>1. Ev(type, r, m).type = type
        BY DEF Ev
      <4>2. \A c \in {"granted", "denied"} : type # ApprovalEvent(c)
        BY DEF ApprovalEvent
      <4> QED BY <3>1, <4>1, <4>2
    <3>2. CASE Start(r)
      <4>1. mode[r] \in Mode /\ AppendOk(S(r), seqn[r] + 1, Ev("turn.started", r, mode[r]))
        BY <3>2, PlaceTypes DEF Start, Registered
      <4> QED BY <3>1, <4>1, EventTypes
    <3>3. CASE End(r) \/ Repair(r)
      <4>1. log' = log \/ \E n : AppendOk(S(r), n, Ev("turn.end", r, None))
        BY <3>3 DEF End, Emits, Repair, AppendFails
      <4>2. Ev("turn.end", r, None) \in Event
        BY DEF Ev, Event
      <4> QED BY <3>1, <4>1, <4>2
    <3>4. CASE Record(r)
      <4>1. AppendOk(S(r), seqn[r] + 1, Ev(ApprovalEvent(choice[r]), r, None))
        BY <3>4 DEF Record, Emits
      <4>2. choice[r] \in {"granted", "denied"}
        BY <3>4 DEF Record, AnswerInv, TypeInv, TypeOK
      <4>3. PICK e \in Event : e = Ev(ApprovalEvent(choice[r]), r, None)
        <5>1. mode[r] \in Mode
          BY <3>4, PlaceTypes DEF Record, Registered
        <5>2. /\ Ev("approval.granted", r, None) \in Event
              /\ Ev("approval.denied", r, None) \in Event
          BY <5>1, EventTypes
        <5> QED BY <5>2 DEF ApprovalEvent
      <4>4. e.type = ApprovalEvent(choice[r]) /\ e.turn = r
        BY <4>3 DEF Ev
      <4>5. e.type # "approval.requested"
        BY <4>4 DEF ApprovalEvent
      <4>6. \A t \in Request, c \in {"granted", "denied"} :
              e.type = ApprovalEvent(c) /\ e.turn = t => choice[t] = c
        BY <4>2, <4>4 DEF ApprovalEvent
      <4> QED BY <4>1, <4>3, <4>5, <4>6
    <3>5. CASE \/ Submit(r) \/ Register(r) \/ PrepareFails(r) \/ Prepared(r)
               \/ LoopAppendFails(r) \/ Work(r)
      BY <3>5 DEF Submit, Register, PrepareFails, Prepared, LoopAppendFails, Work,
                  AppendFails
    <3> QED BY <1>4, <3>2, <3>3, <3>4, <3>5 DEF TurnStep
  <2>4. \A t \in Request :
           /\ pc[t] \in Registered => (Asked(t)' <=> Asked(t))
           /\ \A s \in Session, c \in {"granted", "denied"} :
                Has(s, ApprovalEvent(c), t)' => Has(s, ApprovalEvent(c), t) \/ choice[t] = c
    BY <1>1, <2>3, FilesKept
  <2>5. \A t \in Request :
           /\ req[t].kind = "submit" =>
                req'[t].kind = "submit" /\ req'[t].session = req[t].session
           /\ pc[t] = "done" => pc'[t] = "done"
           /\ pc[t] \in Registered => pc'[t] \in Registered \cup {"done"}
           /\ pc'[t] = "asking" => pc[t] \in Registered /\ ~Asked(t)
           /\ pc'[t] = "recording" => pc[t] = "recording"
    BY <1>1, <2>2 DEF AnswerInv, Registered
  <2> QED BY <1>2, <2>1, <2>4, <2>5, AnswerKept
<1> QED BY <1>3, <1>4

(* Deletions: the file goes when no turn of its session is registered.     *)
LEMMA DeleteAnswers ==
  ASSUME TypeInv, RegisteredInv, AnswerInv, NEW r \in Request, DeleteStep(r)
  PROVE  AnswerInv'
<1>1. /\ req[r].kind = "delete" /\ pending' \subseteq pending /\ choice' = choice
      /\ S(r) \in Session /\ pc[r] # "done"
      /\ \A x \in Request \ {r} : req'[x] = req[x] /\ answer'[x] = answer[x]
      /\ req'[r].kind = "delete" /\ req'[r].session = req[r].session
  <2>1. /\ (pc[r] = "queued" /\ req[r].kind = "delete") \/ pc[r] \in DeletePlaces
        /\ pending' \subseteq pending /\ choice' = choice
    BY DEF DeleteStep, Delete, TurnStopped, MarkDeleting, Unlink, UnlinkFails, Aborts,
           DeletePlaces
  <2>2. req[r].kind = "delete" /\ S(r) \in Session /\ pc[r] # "done"
    BY <2>1, PlaceTypes DEF DeletePlaces
  <2>3. req' = req \/ req' = [req EXCEPT ![r].turn = active]
    BY DEF DeleteStep, Delete, TurnStopped, MarkDeleting, Unlink, UnlinkFails
  <2>4. \A x \in Request \ {r} : answer'[x] = answer[x]
    BY DEF DeleteStep, Delete, TurnStopped, MarkDeleting, Unlink, UnlinkFails, TypeInv, TypeOK
  <2>5. /\ \A x \in Request \ {r} : req'[x] = req[x]
        /\ req'[r].kind = req[r].kind /\ req'[r].session = req[r].session
    BY <2>3 DEF TypeInv, RequestRecord
  <2> QED BY <2>1, <2>2, <2>4, <2>5
<1>2. \A t \in Request : /\ Given(t)' = Given(t)
                         /\ \A q \in Given(t) : req'[q] = req[q]
  BY <1>1, GivenKept
<1>3. \A x \in Request : \/ pc'[x] = pc[x]
                         \/ x = r /\ pc'[x] \in {"stopping", "deleting", "unlinking", "done"}
                         \/ pc[x] = "waiting" /\ pc'[x] = "ending"
  <2>1. CASE Delete(r)
    BY <2>1 DEF Delete, Unwinding, WaitingOf, TypeInv, TypeOK
  <2>2. CASE ~Delete(r)
    BY <2>2 DEF DeleteStep, TurnStopped, MarkDeleting, Unlink, UnlinkFails, TypeInv, TypeOK
  <2> QED BY <2>1, <2>2
<1>4. pc[r] \notin Registered
  BY <1>1, PlaceTypes
<1>5. \A t \in Request :
        /\ pc[t] \in Registered => (Asked(t)' <=> Asked(t))
        /\ \A s \in Session, c \in {"granted", "denied"} :
             Has(s, ApprovalEvent(c), t)' => Has(s, ApprovalEvent(c), t) \/ choice[t] = c
  <2>1. CASE ~Unlink(r)
    <3>1. log' = log
      BY <2>1 DEF DeleteStep, Delete, TurnStopped, MarkDeleting, UnlinkFails
    <3>2. \A x \in Request : req'[x].session = req[x].session
      BY <1>1
    <3> QED BY <3>1, <3>2 DEF Asked, Has, ApprovalEvent
  <2>2. CASE Unlink(r)
    <3>1. /\ pc[r] = "unlinking" /\ activeTurns[S(r)] = None
          /\ log' = [log EXCEPT ![S(r)] = <<>>] /\ DOMAIN log = Session /\ req' = req
      BY <2>2 DEF Unlink, RegisteredInv, TypeInv, TypeOK
    <3>2. \A t \in Request : pc[t] \in Registered => S(t) # S(r) /\ S(t) \in Session
      BY <3>1, PlaceTypes, ServiceAssumption DEF RegisteredInv, Registered
    <3>3. \A s \in Session : s # S(r) => log'[s] = log[s]
      BY <3>1
    <3>4. log'[S(r)] = <<>>
      BY <1>1, <3>1
    <3>5. \A t \in Request : pc[t] \in Registered => (Asked(t)' <=> Asked(t))
      BY <3>1, <3>2, <3>3 DEF Asked, Has
    <3>6. \A t \in Request, s \in Session, c \in {"granted", "denied"} :
            Has(s, ApprovalEvent(c), t)' => Has(s, ApprovalEvent(c), t)
      BY <3>3, <3>4 DEF Has, ApprovalEvent
    <3> QED BY <3>5, <3>6
  <2> QED BY <2>1, <2>2
<1>6. \A t \in Request :
        /\ req[t].kind = "submit" =>
             req'[t].kind = "submit" /\ req'[t].session = req[t].session
        /\ pc[t] = "done" => pc'[t] = "done"
        /\ pc[t] \in Registered => pc'[t] \in Registered \cup {"done"}
        /\ pc'[t] = "asking" => pc[t] \in Registered /\ ~Asked(t)
        /\ pc'[t] = "recording" => pc[t] = "recording"
  BY <1>1, <1>3, <1>4 DEF AnswerInv, Registered
<1> QED BY <1>1, <1>2, <1>5, <1>6, AnswerKept

(* Settings requests.                                                      *)
LEMMA ModeAnswers ==
  ASSUME TypeInv, AnswerInv, NEW r \in Request, ModeStep(r)
  PROVE  AnswerInv'
<1>1. /\ pc[r] \in ModePlaces /\ req' = req /\ pending' = pending /\ choice' = choice
      /\ \A x \in Request \ {r} : answer'[x] = answer[x]
  BY DEF ModeStep, Switch, Number, AppendMode, ModePlaces, TypeInv, TypeOK
<1>2. S(r) \in Session /\ req[r].kind = "mode" /\ mode[r] \in Mode
  BY <1>1, PlaceTypes DEF ModePlaces
<1>3. \A t \in Request : /\ Given(t)' = Given(t)
                         /\ \A q \in Given(t) : req'[q] = req[q]
  BY <1>1, <1>2, GivenKept
<1>4. \E p \in {"done", "numbering", "switched"} :
        \A x \in Request : pc'[x] = IF x = r THEN p ELSE pc[x]
  BY DEF ModeStep, Switch, Number, AppendMode, TypeInv, TypeOK
<1>5. \/ log' = log
      \/ \E n : \E e \in Event :
           /\ AppendOk(S(r), n, e) /\ e.type # "approval.requested"
           /\ \A t \in Request, c \in {"granted", "denied"} :
                e.type = ApprovalEvent(c) /\ e.turn = t => choice[t] = c
  <2>1. log' = log \/ \E n : AppendOk(S(r), n, Ev("safety.changed", None, mode[r]))
    BY DEF ModeStep, Switch, Number, AppendMode, AppendFails
  <2>2. PICK e \in Event : e = Ev("safety.changed", None, mode[r])
    BY <1>2 DEF Ev, Event
  <2>3. e.type = "safety.changed"
    BY <2>2 DEF Ev
  <2>4. \A c \in {"granted", "denied"} : e.type # ApprovalEvent(c)
    BY <2>3 DEF ApprovalEvent
  <2> QED BY <2>1, <2>2, <2>3, <2>4
<1>6. \A t \in Request :
        /\ pc[t] \in Registered => (Asked(t)' <=> Asked(t))
        /\ \A s \in Session, c \in {"granted", "denied"} :
             Has(s, ApprovalEvent(c), t)' => Has(s, ApprovalEvent(c), t) \/ choice[t] = c
  BY <1>1, <1>2, <1>5, FilesKept
<1>7. \A t \in Request :
        /\ pc[t] = "done" => pc'[t] = "done"
        /\ pc[t] \in Registered => pc'[t] \in Registered \cup {"done"}
        /\ pc'[t] = "asking" => pc[t] \in Registered /\ ~Asked(t)
        /\ pc'[t] = "recording" => pc[t] = "recording"
  BY <1>1, <1>4 DEF AnswerInv, Registered, ModePlaces
<1> QED BY <1>1, <1>3, <1>6, <1>7, AnswerKept

(* Every step keeps the answers.                                           *)
LEMMA NextAnswers == ServiceInv /\ AnswerInv /\ [Next]_vars => AnswerInv'
<1> SUFFICES ASSUME TypeInv, RegisteredInv, AnswerInv, [Next]_vars PROVE AnswerInv'
  BY DEF ServiceInv
<1>1. CASE Shutdown \/ Close
  <2>1. PICK T \in SUBSET Request :
          /\ pc' = Unwinding(T) /\ pending' \subseteq pending
          /\ UNCHANGED <<log, req, answer, choice>>
    BY <1>1, StopAborts DEF Aborts
  <2>2. \A t \in Request : /\ Given(t)' = Given(t)
                           /\ \A q \in Given(t) : req'[q] = req[q]
    BY <2>1 DEF Given
  <2>3. \A x \in Request : pc'[x] = pc[x] \/ (pc[x] = "waiting" /\ pc'[x] = "ending")
    BY <2>1 DEF Unwinding, WaitingOf
  <2>4. \A t \in Request :
          /\ pc[t] = "done" => pc'[t] = "done"
          /\ pc[t] \in Registered => pc'[t] \in Registered \cup {"done"}
          /\ pc'[t] = "asking" => pc[t] \in Registered /\ ~Asked(t)
          /\ pc'[t] = "recording" => pc[t] = "recording"
    BY <2>3 DEF AnswerInv, Registered
  <2>5. \A t \in Request :
          /\ Asked(t)' <=> Asked(t)
          /\ \A s \in Session, c \in {"granted", "denied"} :
               Has(s, ApprovalEvent(c), t)' <=> Has(s, ApprovalEvent(c), t)
    BY <2>1 DEF Asked, Has, ApprovalEvent
  <2> QED BY <2>1, <2>2, <2>4, <2>5, AnswerKept
<1>2. CASE UNCHANGED vars
  <2>1. UNCHANGED <<log, pending, req, pc, answer, choice>>
    BY <1>2 DEF vars
  <2>2. \A t \in Request : Given(t)' = Given(t) /\ (Asked(t)' <=> Asked(t)) /\ (Engaged(t)' <=> Engaged(t))
    BY <2>1 DEF Given, Asked, Has, Engaged
  <2> QED BY <2>1, <2>2 DEF AnswerInv, Has, ApprovalEvent
<1> QED BY <1>1, <1>2, ArrivalAnswers, TurnAnswers, DeleteAnswers, ModeAnswers DEF Next, Done

(* Every step keeps the turns a close has aborted.                         *)
LEMMA NextClose == ServiceInv /\ CloseInv /\ [Next]_vars => CloseInv'
<1> SUFFICES ASSUME ServiceInv, CloseInv, [Next]_vars, server' = "closed",
                    NEW t \in Request, pc'[t] \in Registered \ {"preparing"}
             PROVE  t \in aborted'
  BY DEF CloseInv
<1> USE DEF ServiceInv
<1>1. ASSUME server = "closed", aborted \subseteq aborted',
             pc[t] \in Registered \ {"preparing"}
      PROVE  t \in aborted'
  BY <1>1 DEF CloseInv
<1>2. CASE Close
  <2> DEFINE T == {activeTurns[s] : s \in Session} \ {None}
  <2>1. aborted' = aborted \cup T /\ pc' = Unwinding(T)
    BY <1>2 DEF Close, Aborts
  <2>2. pc[t] \in Registered
    BY <2>1 DEF Unwinding, WaitingOf, Registered
  <2>3. activeTurns[S(t)] = t /\ S(t) \in Session /\ t # None
    BY <2>2, PlaceTypes, ServiceAssumption DEF RegisteredInv, Registered
  <2> QED BY <2>1, <2>3
<1>3. ASSUME NEW r \in Request, Arrival(r) PROVE FALSE
  <2>1. server = "up" /\ server' = server
    <3>1. \E k, s, x, c : Arrive(r, k, s, x, c)
      BY <1>3, ArrivalArrives
    <3>2. server' = server
      BY <1>3 DEF Arrival, Enqueue, Cancel, Answer, AskMode
    <3> QED BY <3>1, <3>2 DEF Arrive
  <2> QED BY <2>1
<1>4. ASSUME NEW r \in Request, TurnStep(r) PROVE t \in aborted'
  <2>1. server = "closed" /\ aborted' = aborted
    BY <1>4 DEF TurnStep, Submit, Register, PrepareFails, Prepared, Start, LoopAppendFails,
           Work, Ask, Record, End, Repair
  <2>2. ~Prepared(r)
    BY <2>1 DEF Prepared, ExtensionsOpen
  <2>3. \A x \in Request : pc'[x] \in Registered \ {"preparing"} => pc[x] \in Registered \ {"preparing"}
    <3>1. CASE Submit(r) \/ Register(r) \/ PrepareFails(r) \/ End(r) \/ Repair(r)
      BY <3>1 DEF Submit, Register, PrepareFails, End, Repair, Returns, TypeInv, TypeOK, Registered
    <3>2. CASE Start(r) \/ LoopAppendFails(r) \/ Work(r) \/ Ask(r) \/ Record(r)
      BY <3>2 DEF Start, LoopAppendFails, Work, Ask, Record, TypeInv, TypeOK, Registered
    <3> QED BY <1>4, <2>2, <3>1, <3>2 DEF TurnStep
  <2> QED BY <1>1, <2>1, <2>3
<1>5. ASSUME NEW r \in Request, DeleteStep(r) PROVE t \in aborted'
  <2>1. server = "closed" /\ aborted \subseteq aborted'
    BY <1>5 DEF DeleteStep, Delete, TurnStopped, MarkDeleting, Unlink, UnlinkFails, Aborts
  <2>2. pc'[t] = pc[t] \/ pc[t] = "waiting" \/ pc'[t] \in {"stopping", "deleting", "unlinking", "done"}
    <3>1. CASE Delete(r)
      BY <3>1 DEF Delete, Unwinding, WaitingOf, TypeInv, TypeOK
    <3>2. CASE ~Delete(r)
      BY <1>5, <3>2 DEF DeleteStep, TurnStopped, MarkDeleting, Unlink, UnlinkFails, TypeInv, TypeOK
    <3> QED BY <3>1, <3>2
  <2> QED BY <1>1, <2>1, <2>2 DEF Registered
<1>6. ASSUME NEW r \in Request, ModeStep(r) PROVE t \in aborted'
  <2>1. /\ server = "closed" /\ aborted' = aborted
        /\ pc'[t] = pc[t] \/ pc'[t] \in {"done", "numbering", "switched"}
    BY <1>6 DEF ModeStep, Switch, Number, AppendMode, TypeInv, TypeOK
  <2> QED BY <1>1, <2>1 DEF Registered
<1>7. CASE Shutdown
  BY <1>7 DEF Shutdown
<1>8. CASE UNCHANGED vars
  BY <1>1, <1>8 DEF vars
<1> QED BY <1>2, <1>3, <1>4, <1>5, <1>6, <1>7, <1>8 DEF Next, Done

(* An answered approval is on file as answered: at most one answer to it   *)
(* is accepted, and what the file says of it is that answer.               *)
THEOREM AnswersOnFile == Spec => []AnswerOnFileWasGiven
<1>1. Init => AnswerInv
  <2> SUFFICES ASSUME Init PROVE AnswerInv
    OBVIOUS
  <2>1. \A t \in Request : Given(t) = {} /\ ~Engaged(t) /\ pc[t] = "unsent"
    BY DEF Init, Given, Engaged
  <2>2. \A t \in Request, s \in Session, c \in {"granted", "denied"} :
          ~Has(s, ApprovalEvent(c), t)
    BY ServiceAssumption DEF Init, Has, Ev
  <2> QED BY <2>1, <2>2 DEF AnswerInv, Init
<1>2. TypeInv /\ AnswerInv => AnswerOnFileWasGiven
  <2> SUFFICES ASSUME TypeInv, AnswerInv, NEW t \in Request
               PROVE  /\ Cardinality(Given(t)) =< 1
                      /\ req[t].kind = "submit" =>
                           \A c \in {"granted", "denied"} :
                             Has(S(t), ApprovalEvent(c), t) =>
                               \E r \in Given(t) : req[r].choice = c
    BY DEF AnswerOnFileWasGiven
  <2>1. Cardinality(Given(t)) =< 1
    <3>1. CASE Given(t) = {}
      BY <3>1, FS_EmptySet
    <3>2. CASE Given(t) # {}
      <4>1. PICK r : Given(t) = {r}
        BY <3>2 DEF AnswerInv
      <4> QED BY <4>1, FS_Singleton
    <3> QED BY <3>1, <3>2
  <2>2. ASSUME req[t].kind = "submit", NEW c \in {"granted", "denied"},
               Has(S(t), ApprovalEvent(c), t)
        PROVE  \E r \in Given(t) : req[r].choice = c
    <3>1. PICK s \in Session : s = S(t)
      BY <2>2 DEF TypeInv, WellPlaced
    <3>2. choice[t] = c
      BY <2>2, <3>1 DEF AnswerInv
    <3> QED BY <3>2 DEF AnswerInv
  <2> QED BY <2>1, <2>2
<1>3. ServiceInv => TypeInv
  BY DEF ServiceInv
<1> QED BY <1>1, <1>2, <1>3, NextAnswers, ServiceInvariant, PTL DEF Spec

(* Once the service has closed no turn starts, and the turns that still    *)
(* run are aborted: a turn before its turn.started is not the active one.  *)
THEOREM CloseStops == Spec => []CloseStopsTurns
<1>1. Init => CloseInv
  BY DEF Init, CloseInv
<1>2. ServiceInv /\ CloseInv => CloseStopsTurns
  <2> SUFFICES ASSUME ServiceInv, CloseInv, server = "closed", NEW r \in Live,
                      Has(S(r), "turn.started", r)
               PROVE  r \in aborted
    BY DEF CloseStopsTurns
  <2>1. r \in Request /\ pc[r] \in Registered
    BY DEF Live
  <2>2. active = r
    BY <2>1, PlaceTypes DEF ServiceInv, OnFileInv, Registered
  <2>3. pc[r] # "preparing"
    BY <2>1, <2>2, ServiceAssumption DEF ServiceInv, QueueInv, Started
  <2> QED BY <2>1, <2>3 DEF CloseInv
<1> QED BY <1>1, <1>2, NextClose, ServiceInvariant, PTL DEF Spec
=============================================================================
