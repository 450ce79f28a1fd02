---------------------------- MODULE SessionStream ----------------------------
(***************************************************************************)
(* The live view of a session in the browser: the one stream of the        *)
(* process (sse-hub), the events route that hands a connection over from   *)
(* the history on file to the events published meanwhile and later, and    *)
(* the client that loads a snapshot in three requests and follows it with  *)
(* an EventSource.                                                         *)
(*                                                                         *)
(* An event is its sequence number.  A view (of the session and its chat,  *)
(* which events replace whole) or a page of trace records is the sequence  *)
(* number up to which the log was read for it.                             *)
(***************************************************************************)
EXTENDS Naturals, FiniteSets, Sequences, FiniteSetsExt

CONSTANTS
  Session, None,
  Conn,         (* identities of connections, reused once both ends are gone *)
  Load,         (* snapshots that may be loading at a time                   *)
  MaxSeq,       (* bound: events of all sessions                             *)
  Page,         (* trace records in a snapshot                               *)
  MaxSelects,   (* bound: sessions selected, resyncs included                *)
  MaxFaults     (* bound: lost connections and failed reads                  *)

ASSUME StreamAssumption ==
  /\ None \notin Session \cup Conn
  /\ MaxSeq \in Nat /\ Page \in Nat \ {0} /\ MaxSelects \in Nat /\ MaxFaults \in Nat

VARIABLES
  onFile,       (* events appended to the session's file                     *)
  published,    (* events given to the hub                                   *)
  active,       (* the session whose turn runs                               *)
  lease,        (* the connection that holds the stream                      *)
  conn,         (* the server's end of each connection                       *)
  wire,         (* what is under way to the client                           *)
  source,       (* the client's EventSource                                  *)
  lastSeq,      (* lastSeqBySession                                          *)
  screen,       (* what the client shows                                     *)
  load,         (* snapshots loading                                         *)
  selects, faults

log    == <<onFile, published, active>>
server == <<lease, conn>>
client == <<source, lastSeq, screen, load>>
vars == <<onFile, published, active, lease, conn, wire, source, lastSeq, screen, load,
          selects, faults>>

Seqs == 0..MaxSeq
NoConn == [pc |-> "free", session |-> None, after |-> 0, view |-> 0, buffer |-> {},
           lastSent |-> 0, gone |-> FALSE]
NoSource == [conn |-> None, session |-> None, after |-> 0, state |-> "none"]
NoLoad == [session |-> None, view |-> None, trace |-> None, active |-> None]
Message == [kind: {"event", "resync", "refused", "end"}, seq: Seqs]
Msg(kind, seq) == [kind |-> kind, seq |-> seq]

Init ==
  /\ onFile = [s \in Session |-> 1] /\ published = onFile
  /\ active = None
  /\ lease = None
  /\ conn = [c \in Conn |-> NoConn]
  /\ wire = [c \in Conn |-> <<>>]
  /\ source = NoSource
  /\ lastSeq = [s \in Session |-> 0]
  /\ screen = [session |-> None, view |-> 0, trace |-> {}, resync |-> FALSE]
  /\ load = [l \in Load |-> NoLoad]
  /\ selects = 0 /\ faults = 0

-----------------------------------------------------------------------------
(* The server's end of a connection *)

\* release(): the lease is given back and the reply ends.  A connection whose
\* client is gone as well is forgotten.
Over(c) == IF conn[c].gone THEN NoConn ELSE [NoConn EXCEPT !.pc = "over"]
LeaseWithout(c) == IF lease = c THEN None ELSE lease

\* emitEcho() and sendBusiness(): what was sent is skipped; a number that is
\* missing ends the stream with a request to load again.
Emit(st, seq) ==
  IF st.over \/ seq <= st.lastSent THEN st
  ELSE IF st.lastSent > 0 /\ seq # st.lastSent + 1
  THEN [st EXCEPT !.over = TRUE, !.out = Append(@, Msg("resync", seq))]
  ELSE [st EXCEPT !.lastSent = seq, !.out = Append(@, Msg("event", seq))]

\* emitEcho() for each of these numbers in order, from the client's last on: what
\* is new is sent up to the first number that is missing, which ends the stream.
Continues(after, numbers) ==
  LET new   == {n \in numbers : n > after}
      first == IF after = 0 /\ new # {} THEN Min(new) ELSE after + 1
      run   == {n \in new : first..n \subseteq new}
      sent  == [i \in 1..Cardinality(run) |-> Msg("event", first + i - 1)]
  IN [lastSent |-> first + Cardinality(run) - 1, over |-> run # new,
      out |-> IF run = new THEN sent ELSE Append(sent, Msg("resync", Min(new \ run)))]

\* Mutant: what was published during the read is not in the hand-over.
HandOverHistoryOnly(r) == Continues(r.after, (r.after + 1)..r.view)

\* The history after the client's number, then handover(): the buffer in order.
HandOver(r) == Continues(r.after, (r.after + 1)..r.view \cup r.buffer)

\* The record of a connection after it emitted, and what the client will see.
Sends(c, r, st, closing) ==
  /\ conn' = [conn EXCEPT ![c] = IF st.over \/ closing THEN Over(c)
                                 ELSE [r EXCEPT !.pc = "live", !.lastSent = st.lastSent,
                                                !.buffer = {}, !.view = 0, !.after = 0]]
  /\ wire' = IF r.gone THEN wire
             ELSE [wire EXCEPT ![c] = @ \o st.out
                                        \o (IF st.over \/ closing THEN <<Msg("end", 0)>> ELSE <<>>)]
  /\ lease' = IF st.over \/ closing THEN LeaseWithout(c) ELSE lease

Refuse(c) ==
  /\ conn' = [conn EXCEPT ![c] = Over(c)]
  /\ wire' = IF conn[c].gone THEN wire ELSE [wire EXCEPT ![c] = <<Msg("refused", 0)>>]

\* The route up to the lease: one stream at a time, bound to the running turn.
Claim(c) ==
  /\ conn[c].pc = "asked"
  /\ IF lease # None \/ (active # None /\ active # conn[c].session)
     THEN Refuse(c) /\ UNCHANGED lease
     ELSE /\ conn' = [conn EXCEPT ![c].pc = "claimed"]
          /\ lease' = c
          /\ UNCHANGED wire
  /\ UNCHANGED <<log, client, selects, faults>>

\* loadView(): the file as it is now.
ReadHistory(c) ==
  /\ conn[c].pc = "claimed"
  /\ conn' = [conn EXCEPT ![c].pc = "read", ![c].view = onFile[conn[c].session]]
  /\ UNCHANGED <<log, lease, wire, client, selects, faults>>

\* Mutant: a failed read keeps the lease.
ReadFailsHeld(c) ==
  /\ conn[c].pc = "claimed"
  /\ faults < MaxFaults /\ faults' = faults + 1
  /\ Refuse(c)
  /\ UNCHANGED <<log, lease, client, selects>>

ReadFails(c) ==
  /\ conn[c].pc = "claimed"
  /\ faults < MaxFaults /\ faults' = faults + 1
  /\ Refuse(c)
  /\ lease' = LeaseWithout(c)
  /\ UNCHANGED <<log, client, selects>>

\* After contextFor(): history and buffer are sent in one turn of the event loop.
GoLive(c) ==
  /\ conn[c].pc = "read"
  /\ Sends(c, conn[c], HandOver(conn[c]), conn[c].gone)
  /\ UNCHANGED <<log, client, selects, faults>>

\* The socket's close reaches the server: during the set-up or while it streams.
Notice(c) ==
  /\ conn[c].gone /\ conn[c].pc \in {"asked", "claimed", "read", "live"}
  /\ conn' = [conn EXCEPT ![c] = Over(c)]
  /\ lease' = LeaseWithout(c)
  /\ UNCHANGED <<log, wire, client, selects, faults>>

-----------------------------------------------------------------------------
(* The session's log and the hub *)

Events == {e \in Session \X Seqs : e[2] \in 1..onFile[e[1]]}

StartTurn(s) ==
  /\ active = None /\ Cardinality(Events) < MaxSeq
  /\ active' = s
  /\ UNCHANGED <<onFile, published, server, wire, client, selects, faults>>

AppendEvent ==
  /\ active # None /\ published[active] = onFile[active] /\ Cardinality(Events) < MaxSeq
  /\ onFile' = [onFile EXCEPT ![active] = @ + 1]
  /\ UNCHANGED <<published, active, server, wire, client, selects, faults>>

\* publish(): into the buffer of a connection that is being set up, or out.
\* A write to a client that is gone ends the stream.
Publish ==
  /\ active # None /\ published[active] < onFile[active]
  /\ LET seq == published[active] + 1 IN
     /\ published' = [published EXCEPT ![active] = seq]
     /\ IF lease = None \/ conn[lease].session # active
        THEN UNCHANGED <<server, wire>>
        ELSE IF conn[lease].pc \in {"claimed", "read"}
        THEN /\ conn' = [conn EXCEPT ![lease].buffer = @ \cup {seq}]
             /\ UNCHANGED <<lease, wire>>
        ELSE Sends(lease, conn[lease],
                   Emit([lastSent |-> conn[lease].lastSent, over |-> FALSE, out |-> <<>>], seq),
                   FALSE)
  /\ UNCHANGED <<onFile, active, client, selects, faults>>

EndTurn ==
  /\ active # None /\ published[active] = onFile[active]
  /\ active' = None
  /\ UNCHANGED <<onFile, published, server, wire, client, selects, faults>>

-----------------------------------------------------------------------------
(* The client: snapshots *)

\* loadSelected(), by a choice of the user or to synchronise again.
Select(l, s) ==
  /\ load[l] = NoLoad /\ selects < MaxSelects
  /\ selects' = selects + 1
  /\ load' = [load EXCEPT ![l].session = s]
  /\ UNCHANGED <<log, server, wire, source, lastSeq, screen, faults>>

\* Its three requests are answered in any order.
Read(l, part, value) ==
  /\ load[l].session # None /\ load[l][part] = None
  /\ load' = [load EXCEPT ![l][part] = value, ![l].active = IF part = "view" THEN active ELSE @]
  /\ UNCHANGED <<log, server, wire, source, lastSeq, screen, selects, faults>>

ReadSnapshot(l) ==
  /\ load[l].session # None
  /\ LET n == onFile[load[l].session] IN
       \/ Read(l, "view", n)
       \/ Read(l, "trace", IF n < Page THEN n ELSE Page)

LoadFails(l) ==
  /\ load[l].session # None /\ faults < MaxFaults
  /\ faults' = faults + 1
  /\ load' = [load EXCEPT ![l] = NoLoad]
  /\ UNCHANGED <<log, server, wire, source, lastSeq, screen, selects>>

\* The client closes its end of c, which the server learns later.
Left(c) == IF conn[c].pc \in {"free", "over"} THEN NoConn ELSE [conn[c] EXCEPT !.gone = TRUE]

\* new EventSource(...), after the old one is closed.
Connect(s, after, ends) ==
  \E c \in Conn :
    /\ conn[c].pc = "free"
    /\ source' = [conn |-> c, session |-> s, after |-> after, state |-> "on"]
    /\ conn' = [d \in Conn |->
                  IF d = c THEN [NoConn EXCEPT !.pc = "asked", !.session = s, !.after = after]
                  ELSE IF d = ends THEN Left(d) ELSE conn[d]]
    /\ wire' = [d \in Conn |-> IF d \in {c, ends} THEN <<>> ELSE wire[d]]

\* Mutant: the stream is asked for what the view already shows.
ApplyFromView(l) ==
  /\ None \notin {load[l].session, load[l].view, load[l].trace}
  /\ LET s == load[l].session
         seen == [lastSeq EXCEPT ![s] = load[l].view]
         bound == IF load[l].active = None THEN s ELSE load[l].active
     IN /\ lastSeq' = seen
        /\ screen' = [session |-> s, view |-> load[l].view, trace |-> 1..load[l].trace,
                      resync |-> FALSE]
        /\ Connect(bound, seen[bound], source.conn)
  /\ load' = [load EXCEPT ![l] = NoLoad]
  /\ UNCHANGED <<log, lease, selects, faults>>

\* All three are there: they are shown, and the stream of the running turn's
\* session, or of this one, takes over from the last trace record.
Apply(l) ==
  /\ None \notin {load[l].session, load[l].view, load[l].trace}
  /\ LET s == load[l].session
         seen == [lastSeq EXCEPT ![s] = load[l].trace]
         bound == IF load[l].active = None THEN s ELSE load[l].active
     IN /\ lastSeq' = seen
        /\ screen' = [session |-> s, view |-> load[l].view, trace |-> 1..load[l].trace,
                      resync |-> FALSE]
        /\ Connect(bound, seen[bound], source.conn)
  /\ load' = [load EXCEPT ![l] = NoLoad]
  /\ UNCHANGED <<log, lease, selects, faults>>

-----------------------------------------------------------------------------
(* The client: the stream *)

Larger(m, n) == IF m < n THEN n ELSE m

\* applyStream(): an event carries the view, the chat turn and the records of
\* its own number; they replace what is shown.
ShowEvent(seq) ==
  /\ lastSeq' = [lastSeq EXCEPT ![source.session] = Larger(@, seq)]
  /\ screen' = IF screen.session # source.session THEN screen
               ELSE [screen EXCEPT !.view = seq, !.trace = @ \cup {seq}]
  /\ wire' = [wire EXCEPT ![source.conn] = Tail(@)]
  /\ UNCHANGED <<source, conn>>

\* ... resync.required closes the source; a refusal does so for good; the end
\* of the reply makes the browser connect again.
Closed(state) ==
  /\ source' = IF state = "lost" THEN [source EXCEPT !.conn = None, !.state = state]
               ELSE [NoSource EXCEPT !.state = state]
  /\ conn' = [conn EXCEPT ![source.conn] = Left(source.conn)]
  /\ wire' = [wire EXCEPT ![source.conn] = <<>>]
  /\ UNCHANGED lastSeq

Receive ==
  /\ source.conn # None /\ wire[source.conn] # <<>>
  /\ LET m == Head(wire[source.conn]) IN
       \/ m.kind = "event"   /\ ShowEvent(m.seq)
       \/ m.kind = "resync"  /\ Closed("closed") /\ screen' = [screen EXCEPT !.resync = TRUE]
       \/ m.kind = "refused" /\ Closed("dead") /\ UNCHANGED screen
       \/ m.kind = "end"     /\ Closed("lost") /\ UNCHANGED screen
  /\ UNCHANGED <<log, lease, load, selects, faults>>

Drop ==
  /\ source.conn # None /\ faults < MaxFaults
  /\ faults' = faults + 1
  /\ Closed("lost")
  /\ UNCHANGED <<log, lease, screen, load, selects>>

\* The browser asks for the same URL: the number of the first connect, since
\* parseAfter() prefers it to the Last-Event-ID the browser sends along.
Reconnect ==
  /\ source.state = "lost"
  /\ Connect(source.session, source.after, None)
  /\ UNCHANGED <<log, lease, lastSeq, screen, load, selects, faults>>

ServerStep == \E c \in Conn : Claim(c) \/ ReadHistory(c) \/ GoLive(c) \/ Notice(c)
ClientStep == Receive \/ Reconnect \/ \E l \in Load : ReadSnapshot(l) \/ Apply(l)

Next ==
  \/ ServerStep \/ ClientStep \/ AppendEvent \/ Publish \/ EndTurn \/ Drop
  \/ \E c \in Conn : ReadFails(c)
  \/ \E s \in Session : StartTurn(s) \/ \E l \in Load : Select(l, s)
  \/ \E l \in Load : LoadFails(l)

Spec == Init /\ [][Next]_vars

-----------------------------------------------------------------------------
(* Properties *)

TypeOK ==
  /\ onFile \in [Session -> Seqs] /\ published \in [Session -> Seqs]
  /\ active \in Session \cup {None} /\ lease \in Conn \cup {None}
  /\ conn \in [Conn -> [pc: {"free", "asked", "claimed", "read", "live", "over"},
                        session: Session \cup {None}, after: Seqs, view: Seqs,
                        buffer: SUBSET Seqs, lastSent: Seqs, gone: BOOLEAN]]
  /\ \A c \in Conn : conn[c].session = None <=> conn[c].pc \in {"free", "over"}
  /\ \A c \in Conn : \A i \in DOMAIN wire[c] : wire[c][i] \in Message
  /\ source \in [conn: Conn \cup {None}, session: Session \cup {None}, after: Seqs,
                 state: {"none", "on", "lost", "closed", "dead"}]
  /\ lastSeq \in [Session -> Seqs] /\ \A s \in Session : lastSeq[s] <= onFile[s]
  /\ screen \in [session: Session \cup {None}, view: Seqs, trace: SUBSET Seqs,
                 resync: BOOLEAN]

\* The client never shows a trace with a hole in it, however the snapshot, the
\* hand-over, reconnections and overlapping loads interleave with the turn.
NoHole == screen.trace = 1..Cardinality(screen.trace)

\* The one stream of the process belongs to a connection that is at work, and
\* a connection that is at work holds it: no path out of the set-up keeps it.
LeaseIsServed ==
  \A c \in Conn : lease = c <=> conn[c].pc \in {"claimed", "read", "live"}

\* When nothing is under way any more, a client that is connected shows every
\* record on file; and the view and chat of the last event, if any event came
\* after its snapshot.
AtRest ==
  /\ \A c \in Conn : conn[c].pc \in {"free", "over", "live"} /\ ~conn[c].gone
  /\ published = onFile
  /\ source.state = "on" /\ wire[source.conn] = <<>>
  /\ screen.session = source.session /\ ~screen.resync
CaughtUpAtRest ==
  AtRest =>
    /\ screen.trace = 1..onFile[screen.session]
    /\ lastSeq[screen.session] > source.after => screen.view = onFile[screen.session]

=============================================================================
