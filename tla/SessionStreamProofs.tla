------------------------ MODULE SessionStreamProofs ------------------------
(***************************************************************************)
(* For any sessions, any connections, any loads and any number of faults:  *)
(* the one stream of the process is never lost (whoever holds the lease is *)
(* at work, and whoever is at work holds it); what the client shows has no *)
(* hole; and a client that is connected, with nothing under way, shows all *)
(* that is on file.                                                        *)
(***************************************************************************)
EXTENDS SessionStream, FiniteSetTheorems, SequenceTheorems, WellFoundedInduction, Integers, TLAPS

Places == {"free", "asked", "claimed", "read", "live", "over"}
Holding == {"claimed", "read", "live"}

(* The lease with as much of the shape of connections as it needs.         *)
LeaseInv ==
  /\ conn = [c \in Conn |-> conn[c]]
  /\ \A c \in Conn : "pc" \in DOMAIN conn[c] /\ conn[c].pc \in Places
  /\ lease \in Conn \cup {None}
  /\ LeaseIsServed

(* What a step may do to the connections.  Places: nothing (Kept), one     *)
(* leaves (Leaves), or one moves on with or without the lease.             *)
Kept == \A d \in Conn : conn'[d].pc = conn[d].pc \/ {conn'[d].pc, conn[d].pc} \cap Holding = {}

Shaped ==
  /\ conn' = [d \in Conn |-> conn'[d]]
  /\ \A d \in Conn : "pc" \in DOMAIN conn'[d] /\ conn'[d].pc \in Places

LEMMA OverIsFree ==
  ASSUME NEW c
  PROVE  "pc" \in DOMAIN Over(c) /\ Over(c).pc \in {"free", "over"}
BY DEF Over, NoConn

LEMMA KeptKeeps ==
  ASSUME LeaseInv, Shaped, Kept, lease' = lease
  PROVE  LeaseInv'
BY DEF LeaseInv, Shaped, Kept, LeaseIsServed, Holding, Places

(* Ending a connection gives its lease back.                               *)
LEMMA EndKeeps ==
  ASSUME LeaseInv, NEW c \in Conn,
         conn' = [conn EXCEPT ![c] = Over(c)], lease' = LeaseWithout(c)
  PROVE  LeaseInv'
<1>1. /\ conn'[c] = Over(c) /\ conn' = [d \in Conn |-> conn'[d]]
      /\ \A d \in Conn \ {c} : conn'[d] = conn[d]
  BY DEF LeaseInv
<1>2. Shaped
  BY <1>1, OverIsFree DEF LeaseInv, Shaped, Places
<1>3. lease' \in Conn \cup {None} /\ lease' # c
  BY StreamAssumption DEF LeaseInv, LeaseWithout
<1>4. ASSUME NEW d \in Conn
      PROVE  lease' = d <=> conn'[d].pc \in Holding
  <2>1. CASE d = c
    BY <1>1, <1>3, <2>1, OverIsFree DEF Holding
  <2>2. CASE d # c
    BY <1>1, <2>2, StreamAssumption DEF LeaseInv, LeaseIsServed, LeaseWithout, Holding
  <2> QED BY <2>1, <2>2
<1> QED BY <1>2, <1>3, <1>4 DEF Shaped, LeaseInv, LeaseIsServed, Holding

LEMMA SendsKeeps ==
  ASSUME LeaseInv, NEW st, NEW closing, NEW r,
         NEW c \in Conn, conn[c].pc \in Holding, r = conn[c],
         Sends(c, r, st, closing)
  PROVE  LeaseInv'
<1>1. CASE st.over \/ closing
  <2>1. conn' = [conn EXCEPT ![c] = Over(c)] /\ lease' = LeaseWithout(c)
    BY <1>1 DEF Sends
  <2> QED BY <2>1, EndKeeps
<1>2. CASE ~(st.over \/ closing)
  <2> DEFINE live == [r EXCEPT !.pc = "live", !.lastSent = st.lastSent,
                               !.buffer = {}, !.view = 0, !.after = 0]
  <2>1. conn' = [conn EXCEPT ![c] = live] /\ lease' = lease
    BY <1>2 DEF Sends
  <2>2. "pc" \in DOMAIN live /\ live.pc = "live"
    BY DEF LeaseInv
  <2> HIDE DEF live
  <2>3. /\ conn'[c] = live /\ conn' = [d \in Conn |-> conn'[d]]
        /\ \A d \in Conn \ {c} : conn'[d] = conn[d]
    BY <2>1 DEF LeaseInv
  <2> QED BY <2>1, <2>2, <2>3 DEF LeaseInv, LeaseIsServed, Holding, Places
<1> QED BY <1>1, <1>2

LEMMA LeftKeeps ==
  ASSUME NEW d \in Conn, "pc" \in DOMAIN conn[d], conn[d].pc \in Places
  PROVE  /\ "pc" \in DOMAIN Left(d) /\ Left(d).pc \in Places
         /\ Left(d).pc = conn[d].pc \/ {Left(d).pc, conn[d].pc} \cap Holding = {}
<1>1. CASE conn[d].pc \in {"free", "over"}
  BY <1>1 DEF Left, NoConn, Places, Holding
<1>2. CASE conn[d].pc \notin {"free", "over"}
  BY <1>2 DEF Left
<1> QED BY <1>1, <1>2

LEMMA ConnectKeeps ==
  ASSUME LeaseInv, NEW s, NEW after, NEW ends, Connect(s, after, ends), lease' = lease
  PROVE  LeaseInv'
<1>1. PICK c \in Conn :
        /\ conn[c].pc = "free"
        /\ conn' = [d \in Conn |->
                      IF d = c THEN [NoConn EXCEPT !.pc = "asked", !.session = s, !.after = after]
                      ELSE IF d = ends THEN Left(d) ELSE conn[d]]
  BY DEF Connect
<1> DEFINE asked == [NoConn EXCEPT !.pc = "asked", !.session = s, !.after = after]
<1>2. "pc" \in DOMAIN asked /\ asked.pc = "asked"
  BY DEF NoConn
<1> HIDE DEF asked
<1>3. conn' = [d \in Conn |-> conn'[d]]
  BY <1>1
<1>4. ASSUME NEW d \in Conn
      PROVE  /\ "pc" \in DOMAIN conn'[d] /\ conn'[d].pc \in Places
             /\ conn'[d].pc = conn[d].pc \/ {conn'[d].pc, conn[d].pc} \cap Holding = {}
  <2>1. CASE d = c
    BY <1>1, <1>2, <2>1 DEF Places, Holding, asked
  <2>2. CASE d # c /\ d = ends
    <3>1. conn'[d] = Left(d)
      BY <1>1, <2>2
    <3> QED BY <3>1, LeftKeeps DEF LeaseInv
  <2>3. CASE d # c /\ d # ends
    <3>1. conn'[d] = conn[d]
      BY <1>1, <2>3
    <3> QED BY <3>1 DEF LeaseInv
  <2> QED BY <2>1, <2>2, <2>3
<1>5. Shaped /\ Kept
  BY <1>3, <1>4 DEF Shaped, Kept
<1> QED BY <1>5, KeptKeeps

LEMMA ClosedKeeps ==
  ASSUME LeaseInv, NEW state, source.conn \in Conn, Closed(state), lease' = lease
  PROVE  LeaseInv'
<1>1. conn' = [conn EXCEPT ![source.conn] = Left(source.conn)]
  BY DEF Closed
<1>2. /\ conn' = [d \in Conn |-> conn'[d]]
      /\ conn'[source.conn] = Left(source.conn)
      /\ \A d \in Conn \ {source.conn} : conn'[d] = conn[d]
  BY <1>1 DEF LeaseInv
<1>3. Shaped /\ Kept
  BY <1>2, LeftKeeps DEF LeaseInv, Shaped, Kept
<1> QED BY <1>3, KeptKeeps

-----------------------------------------------------------------------------
(* The source is the client's: a connection or none.                       *)
SourceInv == "conn" \in DOMAIN source /\ source.conn \in Conn \cup {None}
StreamInv == LeaseInv /\ SourceInv

LEMMA ConnectSource ==
  ASSUME NEW s, NEW after, NEW ends, Connect(s, after, ends)
  PROVE  SourceInv'
BY DEF Connect, SourceInv

LEMMA ClosedSource ==
  ASSUME SourceInv, NEW state, Closed(state)
  PROVE  SourceInv'
<1>1. CASE state = "lost"
  <2>1. source' = [source EXCEPT !.conn = None, !.state = state]
    BY <1>1 DEF Closed
  <2> QED BY <2>1 DEF SourceInv
<1>2. CASE state # "lost"
  BY <1>2 DEF Closed, NoSource, SourceInv
<1> QED BY <1>1, <1>2

LEMMA ServerKeeps ==
  ASSUME LeaseInv, NEW c \in Conn,
         Claim(c) \/ ReadHistory(c) \/ ReadFails(c) \/ GoLive(c) \/ Notice(c)
  PROVE  LeaseInv'
<1>0. conn[c] = conn[c] /\ "pc" \in DOMAIN conn[c]
  BY DEF LeaseInv
<1>1. CASE Claim(c) /\ Refuse(c) /\ UNCHANGED lease
  <2>1. conn' = [conn EXCEPT ![c] = Over(c)] /\ lease' = lease /\ conn[c].pc = "asked"
    BY <1>1 DEF Claim, Refuse
  <2>2. lease # c
    BY <2>1 DEF LeaseInv, LeaseIsServed
  <2> QED BY <2>1, <2>2, EndKeeps DEF LeaseWithout
<1>2. CASE Claim(c) /\ ~(Refuse(c) /\ UNCHANGED lease)
  <2>1. conn' = [conn EXCEPT ![c].pc = "claimed"] /\ lease = None /\ lease' = c
    BY <1>2 DEF Claim
  <2>2. /\ conn' = [d \in Conn |-> conn'[d]] /\ conn'[c] = [conn[c] EXCEPT !.pc = "claimed"]
        /\ \A d \in Conn \ {c} : conn'[d] = conn[d]
    BY <2>1 DEF LeaseInv
  <2>3. "pc" \in DOMAIN conn'[c] /\ conn'[c].pc = "claimed"
    BY <1>0, <2>2
  <2> QED BY <2>1, <2>2, <2>3, StreamAssumption DEF LeaseInv, LeaseIsServed, Places
<1>3. CASE ReadHistory(c)
  <2> DEFINE read == [conn[c] EXCEPT !.pc = "read", !.view = onFile[conn[c].session]]
  <2>1. conn' = [conn EXCEPT ![c] = read] /\ lease' = lease /\ conn[c].pc = "claimed"
    BY <1>0, <1>3 DEF ReadHistory, LeaseInv
  <2>2. "pc" \in DOMAIN read /\ read.pc = "read"
    BY <1>0
  <2> HIDE DEF read
  <2>3. /\ conn' = [d \in Conn |-> conn'[d]] /\ conn'[c] = read
        /\ \A d \in Conn \ {c} : conn'[d] = conn[d]
    BY <2>1 DEF LeaseInv
  <2> QED BY <2>1, <2>2, <2>3 DEF LeaseInv, LeaseIsServed, Places
<1>4. CASE ReadFails(c)
  BY <1>4, EndKeeps DEF ReadFails, Refuse
<1>5. CASE GoLive(c)
  BY <1>5, SendsKeeps DEF GoLive, Holding
<1>6. CASE Notice(c)
  BY <1>6, EndKeeps DEF Notice
<1> QED BY <1>1, <1>2, <1>3, <1>4, <1>5, <1>6

LEMMA PublishKeeps ==
  ASSUME LeaseInv, Publish
  PROVE  LeaseInv'
<1> DEFINE seq == published[active] + 1
           st  == Emit([lastSent |-> conn[lease].lastSent, over |-> FALSE, out |-> <<>>], seq)
<1>1. CASE lease = None \/ conn[lease].session # active
  BY <1>1 DEF Publish, server, LeaseInv, LeaseIsServed
<1>2. CASE ~(lease = None \/ conn[lease].session # active) /\ conn[lease].pc \in {"claimed", "read"}
  <2>1. /\ lease \in Conn /\ lease' = lease
        /\ conn' = [conn EXCEPT ![lease].buffer = @ \cup {seq}]
    BY <1>2 DEF Publish, LeaseInv
  <2>2. /\ conn' = [d \in Conn |-> conn'[d]]
        /\ conn'[lease] = [conn[lease] EXCEPT !.buffer = @ \cup {seq}]
        /\ \A d \in Conn \ {lease} : conn'[d] = conn[d]
    BY <2>1 DEF LeaseInv
  <2>3. "pc" \in DOMAIN conn'[lease] /\ conn'[lease].pc = conn[lease].pc
    BY <2>1, <2>2 DEF LeaseInv
  <2> QED BY <2>1, <2>2, <2>3, KeptKeeps DEF Shaped, Kept, LeaseInv
<1>3. CASE ~(lease = None \/ conn[lease].session # active) /\ conn[lease].pc \notin {"claimed", "read"}
  <2>1. lease \in Conn /\ Sends(lease, conn[lease], st, FALSE)
    BY <1>3 DEF Publish, LeaseInv
  <2>2. conn[lease].pc \in Holding
    BY <2>1 DEF LeaseInv, LeaseIsServed, Holding
  <2> HIDE DEF st
  <2> QED BY <2>1, <2>2, SendsKeeps
<1> QED BY <1>1, <1>2, <1>3

LEMMA LeaseInvQuiet ==
  ASSUME LeaseInv, UNCHANGED <<lease, conn>>
  PROVE  LeaseInv'
BY DEF LeaseInv, LeaseIsServed

LEMMA ReceiveKeeps ==
  ASSUME StreamInv, Receive
  PROVE  StreamInv'
<1>0. source.conn \in Conn /\ lease' = lease
  BY DEF Receive, StreamInv, SourceInv
<1>1. \/ UNCHANGED <<conn, source>>
      \/ \E state : Closed(state)
  BY DEF Receive, ShowEvent
<1>2. CASE UNCHANGED <<conn, source>>
  BY <1>0, <1>2, LeaseInvQuiet DEF StreamInv, SourceInv
<1>3. ASSUME NEW state, Closed(state)
      PROVE  StreamInv'
  BY <1>0, <1>3, ClosedKeeps, ClosedSource DEF StreamInv
<1> QED BY <1>1, <1>2, <1>3

LEMMA StreamInvStep ==
  ASSUME StreamInv, [Next]_vars
  PROVE  StreamInv'
<1>1. CASE UNCHANGED vars
  BY <1>1, LeaseInvQuiet DEF vars, StreamInv, SourceInv
<1>2. ASSUME NEW c \in Conn,
             Claim(c) \/ ReadHistory(c) \/ ReadFails(c) \/ GoLive(c) \/ Notice(c)
      PROVE  StreamInv'
  <2>1. source' = source
    BY <1>2 DEF Claim, ReadHistory, ReadFails, GoLive, Notice, client
  <2> QED BY <1>2, <2>1, ServerKeeps DEF StreamInv, SourceInv
<1>3. CASE Publish
  <2>1. source' = source
    BY <1>3 DEF Publish, client
  <2> QED BY <1>3, <2>1, PublishKeeps DEF StreamInv, SourceInv
<1>4. CASE AppendEvent \/ EndTurn \/ \E s \in Session : StartTurn(s)
  <2>1. UNCHANGED <<lease, conn, source>>
    BY <1>4 DEF AppendEvent, EndTurn, StartTurn, server, client
  <2> QED BY <2>1, LeaseInvQuiet DEF StreamInv, SourceInv
<1>5. CASE Receive
  BY <1>5, ReceiveKeeps
<1>6. CASE Drop
  <2>1. source.conn \in Conn /\ lease' = lease /\ Closed("lost")
    BY <1>6 DEF Drop, StreamInv, SourceInv
  <2> QED BY <2>1, ClosedKeeps, ClosedSource DEF StreamInv
<1>7. CASE Reconnect
  <2>1. lease' = lease /\ Connect(source.session, source.after, None)
    BY <1>7 DEF Reconnect
  <2> QED BY <2>1, ConnectKeeps, ConnectSource DEF StreamInv
<1>8. ASSUME NEW l \in Load, Apply(l)
      PROVE  StreamInv'
  <2>1. lease' = lease /\ \E s, after : Connect(s, after, source.conn)
    BY <1>8 DEF Apply
  <2> QED BY <2>1, ConnectKeeps, ConnectSource DEF StreamInv
<1>9. ASSUME NEW l \in Load, ReadSnapshot(l) \/ LoadFails(l) \/ \E s \in Session : Select(l, s)
      PROVE  StreamInv'
  <2>1. UNCHANGED <<lease, conn, source>>
    BY <1>9 DEF ReadSnapshot, Read, LoadFails, Select, server
  <2> QED BY <2>1, LeaseInvQuiet DEF StreamInv, SourceInv
<1> QED
  BY <1>1, <1>2, <1>3, <1>4, <1>5, <1>6, <1>7, <1>8, <1>9
  DEF Next, ServerStep, ClientStep

LEMMA StreamInvInit == Init => StreamInv
<1> SUFFICES ASSUME Init PROVE StreamInv
  OBVIOUS
<1>1. conn = [c \in Conn |-> NoConn] /\ lease = None /\ source = NoSource
  BY DEF Init
<1>2. "pc" \in DOMAIN NoConn /\ NoConn.pc = "free" 
      /\ "conn" \in DOMAIN NoSource /\ NoSource.conn = None
  BY DEF NoConn, NoSource
<1> QED BY <1>1, <1>2, StreamAssumption DEF StreamInv, SourceInv, LeaseInv, LeaseIsServed, Places

(* No path through the set-up of a stream, its end or the loss of its      *)
(* client keeps the lease, for any number of connections and faults.       *)
THEOREM LeaseServed == Spec => []LeaseIsServed
<1>1. StreamInv => LeaseIsServed
  BY DEF StreamInv, LeaseInv
<1>2. StreamInv /\ [Next]_vars => StreamInv'
  BY StreamInvStep
<1> QED BY StreamInvInit, <1>1, <1>2, PTL DEF Spec

-----------------------------------------------------------------------------
(* What a connection sends when it goes live                               *)

LEMMA LeastOf ==
  ASSUME NEW S \in SUBSET Nat, S # {}
  PROVE  Min(S) \in S /\ \A n \in S : Min(S) <= n
<1>1. \E m \in S : \A n \in S : m <= n
  <2> DEFINE R == OpToRel(<, Nat)
  <2>1. IsWellFoundedOn(R, Nat)
    BY NatLessThanWellFounded
  <2>2. \A x, y \in Nat : x < y => <<x, y>> \in R
    BY DEF OpToRel
  <2> HIDE DEF R
  <2>3. PICK m \in S : \A n \in S : <<n, m>> \notin R
    BY <2>1, WFMin
  <2>4. ASSUME NEW n \in S
        PROVE  m <= n
    <3>1. m \in Nat /\ n \in Nat
      OBVIOUS
    <3>2. ~(n < m)
      BY <2>2, <2>3, <3>1
    <3> QED BY <3>1, <3>2
  <2> QED BY <2>4
<1> QED BY <1>1, Zenon DEF Min

(* The events after one number up to another.                              *)
EventsAfter(after, top) == [i \in 1..(top - after) |-> Msg("event", after + i)]

(* The numbers that are new after one are those up to another.             *)
Gapless(after, N, top) == \A n \in Nat : n > after => (n \in N <=> n <= top)

(* Numbers without a gap are all sent, and nothing else is.                *)
LEMMA ContinuesOn ==
  ASSUME NEW after \in Nat, NEW top \in Nat, after <= top,
         NEW N \in SUBSET Nat, Gapless(after, N, top)
  PROVE  /\ Continues(after, N).lastSent = top /\ Continues(after, N).over = FALSE
         /\ Continues(after, N).out = EventsAfter(after, top)
<1> DEFINE new   == {n \in N : n > after}
           first == IF after = 0 /\ new # {} THEN Min(new) ELSE after + 1
           run   == {n \in new : first..n \subseteq new}
           sent  == [i \in 1..Cardinality(run) |-> Msg("event", first + i - 1)]
<1>1. new = (after + 1)..top
  <2>1. ASSUME NEW n \in (after + 1)..top
        PROVE  n \in N /\ n > after
    <3>1. n \in Nat /\ n > after /\ n <= top
      OBVIOUS
    <3> QED BY <3>1 DEF Gapless
  <2>2. ASSUME NEW n \in N, n > after
        PROVE  n \in (after + 1)..top
    <3>1. n \in Nat
      OBVIOUS
    <3> QED BY <2>2, <3>1 DEF Gapless
  <2> QED BY <2>1, <2>2
<1>2. first = after + 1
  <2>1. CASE after = 0 /\ new # {}
    <3>1. 1 \in new /\ new \in SUBSET Nat
      BY <1>1, <2>1
    <3> HIDE DEF new
    <3>2. Min(new) \in new /\ Min(new) <= 1
      BY <3>1, LeastOf
    <3>3. Min(new) = 1
      BY <1>1, <2>1, <3>2
    <3> QED BY <2>1, <3>3
  <2>2. CASE ~(after = 0 /\ new # {})
    BY <2>2
  <2> QED BY <2>1, <2>2
<1> HIDE DEF first
<1>3. run = new
  BY <1>1, <1>2
<1>4. Cardinality(run) = top - after
  <2>1. Cardinality((after + 1)..top) = IF after + 1 > top THEN 0 ELSE top - (after + 1) + 1
    BY FS_Interval
  <2>2. Cardinality(run) = Cardinality((after + 1)..top)
    BY <1>1, <1>3
  <2> HIDE DEF run, new
  <2> QED BY <2>1, <2>2
<1> DEFINE last == first + Cardinality(run) - 1
           over == run # new
           out  == IF run = new THEN sent ELSE Append(sent, Msg("resync", Min(new \ run)))
<1>5. Continues(after, N) = [lastSent |-> last, over |-> over, out |-> out]
  BY DEF Continues, first
<1>6. last = top /\ over = FALSE /\ out = sent
  BY <1>2, <1>3, <1>4
<1>7. sent = EventsAfter(after, top)
  BY <1>2, <1>4 DEF EventsAfter
<1> HIDE DEF last, over, out, sent
<1> QED BY <1>5, <1>6, <1>7

-----------------------------------------------------------------------------
(* The inductive invariant                                                 *)

Connection ==
  [pc: Places, session: Session \cup {None}, after: Nat, view: Nat, buffer: SUBSET Nat,
   lastSent: Nat, gone: BOOLEAN]
Sent == [kind: {"event", "resync", "refused", "end"}, seq: Nat]
Snapshot ==
  [session: Session \cup {None}, view: Nat \cup {None}, trace: Nat \cup {None},
   active: Session \cup {None}]
Source ==
  [conn: Conn \cup {None}, session: Session \cup {None}, after: Nat,
   state: {"none", "on", "lost", "closed", "dead"}]
Screen ==
  [session: Session \cup {None}, view: Nat, trace: SUBSET Nat, resync: BOOLEAN]

(* Everything has its type; the numbers have no bound.                     *)
LogTypes == onFile \in [Session -> Nat] /\ published \in [Session -> Nat]
            /\ active \in Session \cup {None}
ConnTypes == conn \in [Conn -> Connection] /\ wire \in [Conn -> Seq(Sent)]
ClientTypes == source \in Source /\ lastSeq \in [Session -> Nat] /\ screen \in Screen
               /\ load \in [Load -> Snapshot]
TypeInv == LogTypes /\ ConnTypes /\ ClientTypes

(* Every file has an event, and what the hub was given is on file.         *)
LogInv == \A s \in Session : 1 <= published[s] /\ published[s] <= onFile[s]

(* What the server's end of a connection has: while it is set up, all that *)
(* was published since the history was read; later, all that was published. *)
Served(r, pub, file) ==
  /\ r.pc \in {"free", "over"} => r.session = None /\ ~r.gone
  /\ r.pc \notin {"free", "over"} => r.session \in Session
  /\ r.pc \in {"asked", "claimed", "read"} => r.after <= file[r.session]
  /\ r.pc \in {"asked", "claimed", "read"} => \A n \in r.buffer : 1 <= n /\ n <= pub[r.session]
  /\ r.pc = "read" =>
       /\ 1 <= r.view /\ r.after <= r.view /\ r.view <= file[r.session]
       /\ \A n \in Nat : r.view < n /\ n <= pub[r.session] => n \in r.buffer
  /\ r.pc = "live" =>
       1 <= r.lastSent /\ pub[r.session] <= r.lastSent /\ r.lastSent <= file[r.session]

ServedInv == \A c \in Conn : Served(conn[c], published, onFile)

(* The events under way join what the client has seen without a gap.       *)
Joins(w, seen, top) ==
  \A i \in 1..Len(w) : w[i].kind = "event" =>
    /\ 1 <= w[i].seq /\ w[i].seq <= top
    /\ \/ w[i].seq <= seen + 1
       \/ i > 1 /\ w[i - 1].kind = "event" /\ w[i].seq = w[i - 1].seq + 1

(* The connection the client listens to: once all that was sent has been   *)
(* received, the client has seen it and shows the view of the last.        *)
Received(last, src, seen, scr) ==
  /\ last <= seen
  /\ (last > src.after /\ scr.session = src.session) => scr.view = last

Follows(r, w, src, seen, file, scr) ==
  /\ src.state = "on" /\ src.session \in Session
  /\ r.pc # "free" /\ ~r.gone
  /\ r.pc # "over" => r.session = src.session
  /\ r.pc \in {"asked", "claimed", "read"} => w = <<>> /\ r.after = src.after
  /\ r.pc = "live" /\ w = <<>> => Received(r.lastSent, src, seen[src.session], scr)
  /\ r.pc = "live" /\ w # <<>> => w[Len(w)] = Msg("event", r.lastSent)
  /\ r.pc = "over" => w # <<>> /\ w[Len(w)].kind \in {"refused", "end"}
  /\ Joins(w, seen[src.session], file[src.session])

FollowInv ==
  /\ source.conn # None =>
       Follows(conn[source.conn], wire[source.conn], source, lastSeq, onFile, screen)
  /\ source.state = "on" => source.conn # None
  /\ source.state = "lost" => source.session \in Session
  /\ source.session # None => source.after <= lastSeq[source.session]

(* What is shown is what was seen, and is on file.                         *)
SeenOnFile == \A s \in Session : lastSeq[s] <= onFile[s]
LoadOnFile ==
  \A l \in Load : load[l].session # None /\ load[l].trace # None =>
    load[l].trace <= onFile[load[l].session]
ScreenInv ==
  screen.trace = IF screen.session = None THEN {} ELSE 1..lastSeq[screen.session]

ViewInv ==
  TypeInv /\ LogInv /\ ServedInv /\ FollowInv /\ SeenOnFile /\ LoadOnFile /\ ScreenInv

-----------------------------------------------------------------------------
(* What the parts of the invariant come to                                 *)

LEMMA NewRecords ==
  /\ NoConn \in Connection /\ [NoConn EXCEPT !.pc = "over"] \in Connection
  /\ NoConn.pc = "free" /\ NoConn.session = None /\ NoConn.gone = FALSE
  /\ [NoConn EXCEPT !.pc = "over"].pc = "over" /\ [NoConn EXCEPT !.pc = "over"].session = None
  /\ [NoConn EXCEPT !.pc = "over"].gone = FALSE
BY DEF NoConn, Connection, Places

LEMMA OverServed ==
  ASSUME NEW c \in Conn, NEW pub, NEW file
  PROVE  /\ Over(c) \in Connection /\ Served(Over(c), pub, file)
         /\ Over(c).pc \in {"free", "over"} /\ Over(c).gone = FALSE
         /\ (~conn[c].gone => Over(c).pc = "over")
<1>1. Over(c) = NoConn \/ Over(c) = [NoConn EXCEPT !.pc = "over"]
  BY DEF Over
<1>2. ~conn[c].gone => Over(c) = [NoConn EXCEPT !.pc = "over"]
  BY Zenon DEF Over
<1> QED BY <1>1, <1>2, NewRecords DEF Served

LEMMA LeftServed ==
  ASSUME NEW c \in Conn, conn[c] \in Connection, NEW pub, NEW file, Served(conn[c], pub, file)
  PROVE  Left(c) \in Connection /\ Served(Left(c), pub, file)
<1>1. CASE conn[c].pc \in {"free", "over"}
  BY <1>1, NewRecords DEF Left, Served
<1>2. CASE conn[c].pc \notin {"free", "over"}
  <2> DEFINE r == [conn[c] EXCEPT !.gone = TRUE]
  <2>1. Left(c) = r
    BY <1>2 DEF Left
  <2>2. /\ r \in Connection /\ r.pc = conn[c].pc /\ r.session = conn[c].session
        /\ r.after = conn[c].after /\ r.view = conn[c].view /\ r.buffer = conn[c].buffer
        /\ r.lastSent = conn[c].lastSent
    BY DEF Connection
  <2> HIDE DEF r
  <2> QED BY <1>2, <2>1, <2>2 DEF Served
<1> QED BY <1>1, <1>2

(* Files and what is published only grow.                                  *)
LEMMA ServedGrows ==
  ASSUME NEW r \in Connection, NEW pub \in [Session -> Nat], NEW file \in [Session -> Nat],
         NEW more \in [Session -> Nat], \A s \in Session : file[s] <= more[s],
         Served(r, pub, file)
  PROVE  Served(r, pub, more)
BY DEF Served, Connection

LEMMA JoinsGrows ==
  ASSUME NEW w \in Seq(Sent), NEW seen \in Nat, NEW top \in Nat, NEW more \in Nat,
         top <= more, Joins(w, seen, top)
  PROVE  Joins(w, seen, more)
<1>1. ASSUME NEW i \in 1..Len(w)
      PROVE  w[i].seq \in Nat
  <2>1. w[i] \in Sent
    OBVIOUS
  <2> QED BY <2>1 DEF Sent
<1>2. \A i \in 1..Len(w) : w[i].seq <= top => w[i].seq <= more
  BY <1>1
<1> QED BY <1>2 DEF Joins

LEMMA FollowsGrows ==
  ASSUME NEW r \in Connection, NEW w \in Seq(Sent), NEW src, NEW scr,
         NEW seen \in [Session -> Nat], NEW file \in [Session -> Nat],
         NEW more \in [Session -> Nat], \A s \in Session : file[s] <= more[s],
         Follows(r, w, src, seen, file, scr)
  PROVE  Follows(r, w, src, seen, more, scr)
<1>1. Joins(w, seen[src.session], more[src.session])
  <2>1. src.session \in Session /\ Joins(w, seen[src.session], file[src.session])
    BY DEF Follows
  <2> QED BY <2>1, JoinsGrows
<1> QED BY <1>1 DEF Follows

(* A step of the server's that touches one connection at most.             *)
LEMMA OneServed ==
  ASSUME ViewInv, NEW c \in Conn, NEW r \in Connection, NEW w \in Seq(Sent),
         UNCHANGED <<onFile, active, client>>,
         published' \in [Session -> Nat], LogInv',
         conn' = [conn EXCEPT ![c] = r], wire' = [wire EXCEPT ![c] = w],
         Served(r, published', onFile),
         \A d \in Conn \ {c} : Served(conn[d], published', onFile),
         source.conn = c => Follows(r, w, source, lastSeq, onFile, screen)
  PROVE  ViewInv'
<1>1. UNCHANGED <<source, lastSeq, screen, load, onFile, active>>
  BY DEF client
<1>2. conn \in [Conn -> Connection] /\ wire \in [Conn -> Seq(Sent)]
  BY DEF ViewInv, TypeInv, ConnTypes
<1>3. conn' \in [Conn -> Connection] /\ wire' \in [Conn -> Seq(Sent)]
  BY <1>2
<1>4. /\ conn'[c] = r /\ wire'[c] = w
      /\ \A d \in Conn \ {c} : conn'[d] = conn[d] /\ wire'[d] = wire[d]
  BY <1>2
<1>5. TypeInv'
  BY <1>1, <1>3 DEF ViewInv, TypeInv, LogTypes, ConnTypes, ClientTypes
<1>6. ServedInv'
  <2> SUFFICES ASSUME NEW d \in Conn
               PROVE  Served(conn'[d], published', onFile')
    BY DEF ServedInv
  <2>1. CASE d = c
    BY <1>1, <1>4, <2>1
  <2>2. CASE d # c
    BY <1>1, <1>4, <2>2
  <2> QED BY <2>1, <2>2
<1>7. FollowInv'
  <2>1. source.conn # None =>
          Follows(conn'[source.conn], wire'[source.conn], source, lastSeq, onFile, screen)
    <3>1. CASE source.conn = c
      BY <1>4, <3>1
    <3>2. CASE source.conn \in Conn \ {c}
      BY <1>4, <3>2 DEF ViewInv, FollowInv
    <3>3. source.conn \in Conn \cup {None}
      BY DEF ViewInv, TypeInv, ClientTypes, Source
    <3> QED BY <3>1, <3>2, <3>3
  <2> QED BY <1>1, <2>1 DEF ViewInv, FollowInv
<1>8. SeenOnFile' /\ LoadOnFile' /\ ScreenInv'
  BY <1>1 DEF ViewInv, SeenOnFile, LoadOnFile, ScreenInv
<1> QED BY <1>5, <1>6, <1>7, <1>8 DEF ViewInv

(* A step of the log's that touches no connection.                         *)
LEMMA LogMoves ==
  ASSUME ViewInv, UNCHANGED <<client, conn, wire>>, LogTypes', LogInv',
         \A s \in Session : onFile[s] <= onFile'[s],
         \A d \in Conn : Served(conn[d], published', onFile)
  PROVE  ViewInv'
<1>1. UNCHANGED <<source, lastSeq, screen, load>>
  BY DEF client
<1>2. /\ conn \in [Conn -> Connection] /\ wire \in [Conn -> Seq(Sent)]
      /\ onFile \in [Session -> Nat] /\ onFile' \in [Session -> Nat]
      /\ published' \in [Session -> Nat] /\ lastSeq \in [Session -> Nat]
  BY DEF ViewInv, TypeInv, ConnTypes, LogTypes, ClientTypes
<1>3. TypeInv'
  BY <1>1 DEF ViewInv, TypeInv, ConnTypes, ClientTypes
<1>4. ServedInv'
  BY <1>2, ServedGrows DEF ServedInv
<1>5. FollowInv'
  <2>1. source.conn # None =>
          Follows(conn[source.conn], wire[source.conn], source, lastSeq, onFile', screen)
    <3> SUFFICES ASSUME source.conn # None
                 PROVE  Follows(conn[source.conn], wire[source.conn], source, lastSeq, onFile', screen)
      OBVIOUS
    <3>1. source.conn \in Conn
      BY DEF ViewInv, TypeInv, ClientTypes, Source
    <3>2. Follows(conn[source.conn], wire[source.conn], source, lastSeq, onFile, screen)
      BY DEF ViewInv, FollowInv
    <3> QED BY <1>2, <3>1, <3>2, FollowsGrows
  <2> QED BY <1>1, <2>1 DEF ViewInv, FollowInv
<1>6. SeenOnFile'
  BY <1>1, <1>2 DEF ViewInv, SeenOnFile
<1>7. LoadOnFile'
  <2> SUFFICES ASSUME NEW l \in Load, load[l].session # None, load[l].trace # None
               PROVE  load[l].trace <= onFile'[load[l].session]
    BY <1>1 DEF LoadOnFile
  <2>1. load[l] \in Snapshot /\ load[l].trace <= onFile[load[l].session]
    BY DEF ViewInv, TypeInv, ClientTypes, LoadOnFile
  <2>2. load[l].session \in Session /\ load[l].trace \in Nat
    BY <2>1 DEF Snapshot
  <2> QED BY <1>2, <2>1, <2>2
<1>8. ScreenInv'
  BY <1>1 DEF ViewInv, ScreenInv
<1> QED BY <1>3, <1>4, <1>5, <1>6, <1>7, <1>8 DEF ViewInv

LEMMA WireKept ==
  ASSUME ViewInv, NEW c \in Conn, wire' = wire
  PROVE  wire' = [wire EXCEPT ![c] = wire[c]] /\ wire[c] \in Seq(Sent)
BY DEF ViewInv, TypeInv, ConnTypes

LEMMA LogKept ==
  ASSUME ViewInv, UNCHANGED log
  PROVE  /\ UNCHANGED <<onFile, published, active>>
         /\ published' \in [Session -> Nat] /\ LogInv'
         /\ \A d \in Conn : Served(conn[d], published', onFile)
<1>1. UNCHANGED <<onFile, published, active>>
  BY DEF log
<1>2. published' \in [Session -> Nat]
  BY <1>1 DEF ViewInv, TypeInv, LogTypes
<1>3. LogInv'
  BY <1>1 DEF ViewInv, LogInv
<1>4. \A d \in Conn : Served(conn[d], published', onFile)
  BY <1>1 DEF ViewInv, ServedInv
<1> QED BY <1>1, <1>2, <1>3, <1>4

LEMMA RefuseView ==
  ASSUME ViewInv, NEW c \in Conn, Refuse(c), UNCHANGED <<log, client>>
  PROVE  ViewInv'
<1>1. /\ UNCHANGED <<onFile, published, active>>
      /\ published' \in [Session -> Nat] /\ LogInv'
      /\ \A d \in Conn : Served(conn[d], published', onFile)
  BY LogKept
<1>2. conn' = [conn EXCEPT ![c] = Over(c)]
  BY DEF Refuse
<1>3. /\ Over(c) \in Connection /\ Served(Over(c), published', onFile)
      /\ (~conn[c].gone => Over(c).pc = "over" /\ Over(c).gone = FALSE)
  BY OverServed
<1>4. CASE conn[c].gone
  <2>1. wire' = [wire EXCEPT ![c] = wire[c]] /\ wire[c] \in Seq(Sent)
    BY <1>4, WireKept DEF Refuse
  <2>2. source.conn # c
    <3>1. c # None
      BY StreamAssumption
    <3> QED BY <1>4, <3>1 DEF ViewInv, FollowInv, Follows
  <2> QED BY <1>1, <1>2, <1>3, <2>1, <2>2, OneServed
<1>5. CASE ~conn[c].gone
  <2> DEFINE w == <<Msg("refused", 0)>>
  <2>1. wire' = [wire EXCEPT ![c] = w]
    BY <1>5 DEF Refuse
  <2>2. w \in Seq(Sent) /\ w # <<>> /\ Len(w) = 1 /\ w[1].kind = "refused"
    BY DEF Msg, Sent
  <2> HIDE DEF w
  <2>3. ASSUME source.conn = c
        PROVE  Follows(Over(c), w, source, lastSeq, onFile, screen)
    <3>1. c # None
      BY StreamAssumption
    <3>2. Follows(conn[c], wire[c], source, lastSeq, onFile, screen)
      BY <2>3, <3>1 DEF ViewInv, FollowInv
    <3>3. Joins(w, lastSeq[source.session], onFile[source.session])
      BY <2>2 DEF Joins
    <3> QED BY <1>3, <1>5, <2>2, <3>2, <3>3 DEF Follows
  <2> QED BY <1>1, <1>2, <1>3, <2>1, <2>2, <2>3, OneServed
<1> QED BY <1>4, <1>5

(* A connection that moves on without the client seeing anything of it.    *)
LEMMA MovesOn ==
  ASSUME ViewInv, NEW c \in Conn, NEW r \in Connection, UNCHANGED <<log, client, wire>>,
         conn' = [conn EXCEPT ![c] = r], Served(r, published, onFile),
         conn[c].pc \in {"asked", "claimed"}, r.pc \in {"claimed", "read"},
         r.session = conn[c].session, r.after = conn[c].after, r.gone = conn[c].gone
  PROVE  ViewInv'
<1>1. /\ UNCHANGED <<onFile, published, active>>
      /\ published' \in [Session -> Nat] /\ LogInv'
      /\ \A d \in Conn : Served(conn[d], published', onFile)
  BY LogKept
<1>2. wire' = [wire EXCEPT ![c] = wire[c]] /\ wire[c] \in Seq(Sent)
  BY WireKept
<1>3. ASSUME source.conn = c
      PROVE  Follows(r, wire[c], source, lastSeq, onFile, screen)
  <2>1. c # None
    BY StreamAssumption
  <2>2. Follows(conn[c], wire[c], source, lastSeq, onFile, screen)
    BY <1>3, <2>1 DEF ViewInv, FollowInv
  <2> QED BY <2>2 DEF Follows
<1> QED BY <1>1, <1>2, <1>3, OneServed

LEMMA ClaimView ==
  ASSUME ViewInv, NEW c \in Conn, Claim(c)
  PROVE  ViewInv'
<1>1. CASE Refuse(c)
  BY <1>1, RefuseView DEF Claim
<1>2. CASE ~Refuse(c)
  <2> DEFINE r == [conn[c] EXCEPT !.pc = "claimed"]
  <2>1. conn[c] \in Connection /\ Served(conn[c], published, onFile)
    BY DEF ViewInv, TypeInv, ConnTypes, ServedInv
  <2>2. /\ r \in Connection /\ r.pc = "claimed" /\ r.session = conn[c].session
        /\ r.after = conn[c].after /\ r.buffer = conn[c].buffer /\ r.gone = conn[c].gone
    BY <2>1 DEF Connection, Places
  <2>3. conn' = [conn EXCEPT ![c] = r] /\ UNCHANGED <<log, client, wire>> /\ conn[c].pc = "asked"
    BY <1>2 DEF Claim
  <2> HIDE DEF r
  <2>4. Served(r, published, onFile)
    BY <2>1, <2>2, <2>3 DEF Served
  <2> QED BY <2>2, <2>3, <2>4, MovesOn
<1> QED BY <1>1, <1>2

LEMMA ReadHistoryView ==
  ASSUME ViewInv, NEW c \in Conn, ReadHistory(c)
  PROVE  ViewInv'
<1> DEFINE n == onFile[conn[c].session]
           r == [conn[c] EXCEPT !.pc = "read", !.view = n]
<1>1. conn[c] \in Connection /\ Served(conn[c], published, onFile) /\ conn[c].pc = "claimed"
  BY DEF ReadHistory, ViewInv, TypeInv, ConnTypes, ServedInv
<1>2. conn[c].session \in Session
  BY <1>1 DEF Served
<1>3. n \in Nat /\ published[conn[c].session] \in Nat
      /\ 1 <= published[conn[c].session] /\ published[conn[c].session] <= n
  BY <1>2 DEF ViewInv, TypeInv, LogTypes, LogInv
<1>4. conn' = [conn EXCEPT ![c] = r]
  BY DEF ReadHistory, ViewInv, TypeInv, ConnTypes
<1>5. UNCHANGED <<log, client, wire>>
  BY DEF ReadHistory
<1> HIDE DEF n
<1>6. /\ r \in Connection /\ r.pc = "read" /\ r.session = conn[c].session /\ r.view = n
      /\ r.after = conn[c].after /\ r.buffer = conn[c].buffer /\ r.gone = conn[c].gone
  BY <1>1, <1>3 DEF Connection, Places
<1> HIDE DEF r
<1>7. Served(r, published, onFile)
  BY <1>1, <1>2, <1>3, <1>6 DEF Served, Connection, n
<1> QED BY <1>1, <1>4, <1>5, <1>6, <1>7, MovesOn

LEMMA ReadFailsView ==
  ASSUME ViewInv, NEW c \in Conn, ReadFails(c)
  PROVE  ViewInv'
BY RefuseView DEF ReadFails

(* A connection ends whose client has left.                                *)
LEMMA GoneLeaves ==
  ASSUME ViewInv, NEW c \in Conn, conn[c].gone, UNCHANGED <<log, client, wire>>,
         conn' = [conn EXCEPT ![c] = Over(c)]
  PROVE  ViewInv'
<1>1. /\ UNCHANGED <<onFile, published, active>>
      /\ published' \in [Session -> Nat] /\ LogInv'
      /\ \A d \in Conn : Served(conn[d], published', onFile)
  BY LogKept
<1>2. Over(c) \in Connection /\ Served(Over(c), published', onFile)
  BY OverServed
<1>3. wire' = [wire EXCEPT ![c] = wire[c]] /\ wire[c] \in Seq(Sent)
  BY WireKept
<1>4. source.conn # c
  <2>1. c # None
    BY StreamAssumption
  <2> QED BY <2>1 DEF ViewInv, FollowInv, Follows
<1> QED BY <1>1, <1>2, <1>3, <1>4, OneServed

LEMMA NoticeView ==
  ASSUME ViewInv, NEW c \in Conn, Notice(c)
  PROVE  ViewInv'
BY GoneLeaves DEF Notice

-----------------------------------------------------------------------------
(* Going live and publishing                                               *)

(* A connection that sends goes live, whoever still listens to it.         *)
LEMMA SendsLive ==
  ASSUME ViewInv, NEW c \in Conn, NEW st, Sends(c, conn[c], st, FALSE),
         st.over = FALSE, st.lastSent \in Nat, st.out \in Seq(Sent),
         UNCHANGED <<onFile, active, client>>, published' \in [Session -> Nat], LogInv',
         \A d \in Conn \ {c} : Served(conn[d], published', onFile),
         conn[c].session \in Session, 1 <= st.lastSent,
         published'[conn[c].session] <= st.lastSent, st.lastSent <= onFile[conn[c].session],
         source.conn = c =>
           /\ conn[c].pc \notin {"free", "over"}
           /\ wire[c] \o st.out = <<>> =>
                Received(st.lastSent, source, lastSeq[source.session], screen)
           /\ wire[c] \o st.out # <<>> =>
                (wire[c] \o st.out)[Len(wire[c] \o st.out)] = Msg("event", st.lastSent)
           /\ Joins(wire[c] \o st.out, lastSeq[source.session], onFile[source.session])
  PROVE  ViewInv'
<1> DEFINE r == [conn[c] EXCEPT !.pc = "live", !.lastSent = st.lastSent,
                                !.buffer = {}, !.view = 0, !.after = 0]
           w == wire[c] \o st.out
<1>1. conn[c] \in Connection /\ wire[c] \in Seq(Sent)
  BY DEF ViewInv, TypeInv, ConnTypes
<1>2. /\ conn' = [conn EXCEPT ![c] = r]
      /\ wire' = IF conn[c].gone THEN wire ELSE [wire EXCEPT ![c] = wire[c] \o st.out \o <<>>]
  BY DEF Sends
<1>3. w \in Seq(Sent) /\ w \o <<>> = w
  BY <1>1
<1>4. /\ r \in Connection /\ r.pc = "live" /\ r.session = conn[c].session
      /\ r.lastSent = st.lastSent /\ r.gone = conn[c].gone
  BY <1>1 DEF Connection, Places
<1> HIDE DEF r, w
<1>5. Served(r, published', onFile)
  BY <1>4, StreamAssumption DEF Served
<1>6. CASE conn[c].gone
  <2>1. wire' = [wire EXCEPT ![c] = wire[c]]
    BY <1>2, <1>6, WireKept
  <2>2. source.conn # c
    <3>1. c # None
      BY StreamAssumption
    <3> QED BY <1>6, <3>1 DEF ViewInv, FollowInv, Follows
  <2> QED BY <1>1, <1>2, <1>4, <1>5, <2>1, <2>2, OneServed
<1>7. CASE ~conn[c].gone
  <2>1. wire' = [wire EXCEPT ![c] = w]
    BY <1>2, <1>3, <1>7 DEF w
  <2>2. ASSUME source.conn = c
        PROVE  Follows(r, w, source, lastSeq, onFile, screen)
    <3>1. c # None
      BY StreamAssumption
    <3>2. Follows(conn[c], wire[c], source, lastSeq, onFile, screen)
      BY <2>2, <3>1 DEF ViewInv, FollowInv
    <3> QED BY <1>4, <1>7, <2>2, <3>2 DEF Follows, w
  <2> QED BY <1>2, <1>3, <1>4, <1>5, <2>1, <2>2, OneServed
<1> QED BY <1>6, <1>7

LEMMA RunJoins ==
  ASSUME NEW after \in Nat, NEW top \in Nat, after <= top, NEW seen \in Nat, after <= seen,
         NEW file \in Nat, top <= file, NEW w,
         w = EventsAfter(after, top)
  PROVE  /\ w \in Seq(Sent) /\ <<>> \o w = w
         /\ w = <<>> => top = after
         /\ w # <<>> => w[Len(w)] = Msg("event", top)
         /\ Joins(w, seen, file)
<1>1. top - after \in Nat
  OBVIOUS
<1>2. \A i \in 1..(top - after) : w[i] = Msg("event", after + i) /\ w[i] \in Sent
  BY DEF Msg, Sent, EventsAfter
<1>3. w \in Seq(Sent) /\ Len(w) = top - after
  BY <1>1, <1>2 DEF EventsAfter
<1>4. w = <<>> => top = after
  BY <1>1, <1>3
<1>5. w # <<>> => w[Len(w)] = Msg("event", top)
  <2> SUFFICES ASSUME w # <<>> PROVE w[Len(w)] = Msg("event", top)
    OBVIOUS
  <2>1. top - after \in 1..(top - after)
    BY <1>1, <1>3
  <2>2. after + (top - after) = top
    OBVIOUS
  <2> QED BY <1>2, <1>3, <2>1, <2>2
<1>6. Joins(w, seen, file)
  <2> SUFFICES ASSUME NEW i \in 1..Len(w)
               PROVE  /\ 1 <= w[i].seq /\ w[i].seq <= file
                      /\ \/ w[i].seq <= seen + 1
                         \/ i > 1 /\ w[i - 1].kind = "event" /\ w[i].seq = w[i - 1].seq + 1
    BY DEF Joins
  <2>1. w[i].seq = after + i
    BY <1>2, <1>3 DEF Msg, EventsAfter
  <2>2. i > 1 => w[i - 1].kind = "event" /\ w[i - 1].seq = after + (i - 1)
    BY <1>2, <1>3 DEF Msg, EventsAfter
  <2> QED BY <1>3, <2>1, <2>2
<1> QED BY <1>3, <1>4, <1>5, <1>6

LEMMA HandOverRun ==
  ASSUME NEW r \in Connection, NEW pub \in [Session -> Nat], NEW file \in [Session -> Nat],
         \A s \in Session : 1 <= pub[s] /\ pub[s] <= file[s],
         Served(r, pub, file), r.pc = "read"
  PROVE  \E top \in Nat :
           /\ r.after <= top /\ 1 <= top /\ pub[r.session] <= top /\ top <= file[r.session]
           /\ HandOver(r).lastSent = top /\ HandOver(r).over = FALSE
           /\ HandOver(r).out = EventsAfter(r.after, top)
<1> DEFINE s == r.session
           top == IF r.view < pub[s] THEN pub[s] ELSE r.view
           N == (r.after + 1)..r.view \cup r.buffer
<1>1. /\ s \in Session /\ 1 <= r.view /\ r.after <= r.view /\ r.view <= file[s]
      /\ \A n \in r.buffer : 1 <= n /\ n <= pub[s]
      /\ \A n \in Nat : r.view < n /\ n <= pub[s] => n \in r.buffer
  BY DEF Served
<1>2. r.after \in Nat /\ r.view \in Nat /\ r.buffer \in SUBSET Nat /\ pub[s] \in Nat /\ file[s] \in Nat
  BY <1>1 DEF Connection
<1>3. top \in Nat /\ r.after <= top /\ 1 <= top /\ pub[s] <= top /\ top <= file[s]
  BY <1>1, <1>2
<1>4. N \in SUBSET Nat
  BY <1>2
<1>5. Gapless(r.after, N, top)
  BY <1>1, <1>2 DEF Gapless
<1>6. HandOver(r) = Continues(r.after, N)
  BY DEF HandOver
<1> HIDE DEF N, top
<1>7. /\ HandOver(r).lastSent = top /\ HandOver(r).over = FALSE
      /\ HandOver(r).out = EventsAfter(r.after, top)
  <2> DEFINE a == r.after
  <2>1. a \in Nat /\ top \in Nat /\ a <= top /\ N \in SUBSET Nat /\ Gapless(a, N, top)
    BY <1>2, <1>3, <1>4, <1>5
  <2> HIDE DEF a
  <2>2. /\ Continues(a, N).lastSent = top /\ Continues(a, N).over = FALSE
        /\ Continues(a, N).out = EventsAfter(a, top)
    BY <2>1, ContinuesOn
  <2> QED BY <1>6, <2>2 DEF a
<1> QED BY <1>3, <1>7

LEMMA GoLiveView ==
  ASSUME ViewInv, NEW c \in Conn, GoLive(c)
  PROVE  ViewInv'
<1>1. /\ conn[c].pc = "read" /\ UNCHANGED <<log, client>>
      /\ Sends(c, conn[c], HandOver(conn[c]), conn[c].gone)
  BY DEF GoLive
<1>2. CASE conn[c].gone
  BY <1>1, <1>2, GoneLeaves DEF Sends
<1>3. CASE ~conn[c].gone
  <2> DEFINE s == conn[c].session
             st == HandOver(conn[c])
  <2>1. conn[c] \in Connection /\ wire[c] \in Seq(Sent) /\ Served(conn[c], published, onFile)
    BY DEF ViewInv, TypeInv, ConnTypes, ServedInv
  <2>2. /\ UNCHANGED <<onFile, published, active>>
        /\ published' \in [Session -> Nat] /\ LogInv'
        /\ \A d \in Conn : Served(conn[d], published', onFile)
    BY <1>1, LogKept
  <2>3. /\ published \in [Session -> Nat] /\ onFile \in [Session -> Nat] /\ lastSeq \in [Session -> Nat]
        /\ \A t \in Session : 1 <= published[t] /\ published[t] <= onFile[t]
        /\ \A t \in Session : lastSeq[t] <= onFile[t]
    BY DEF ViewInv, TypeInv, LogTypes, ClientTypes, LogInv, SeenOnFile
  <2>4. PICK top \in Nat :
          /\ conn[c].after <= top /\ 1 <= top /\ published[s] <= top /\ top <= onFile[s]
          /\ st.lastSent = top /\ st.over = FALSE
          /\ st.out = EventsAfter(conn[c].after, top)
    BY <1>1, <2>1, <2>3, HandOverRun
  <2> HIDE DEF st
  <2>5. s \in Session /\ conn[c].after \in Nat
    BY <1>1, <2>1 DEF Served, Connection
  <2>6. onFile[s] \in Nat /\ conn[c].after <= onFile[s]
    BY <2>3, <2>4, <2>5
  <2>7. st.out \in Seq(Sent)
    BY <2>4, <2>5, <2>6, RunJoins
  <2>8. ASSUME source.conn = c
        PROVE  /\ conn[c].pc \notin {"free", "over"}
               /\ wire[c] \o st.out = <<>> =>
                    Received(st.lastSent, source, lastSeq[source.session], screen)
               /\ wire[c] \o st.out # <<>> =>
                    (wire[c] \o st.out)[Len(wire[c] \o st.out)] = Msg("event", st.lastSent)
               /\ Joins(wire[c] \o st.out, lastSeq[source.session], onFile[source.session])
    <3>1. c # None
      BY StreamAssumption
    <3>2. Follows(conn[c], wire[c], source, lastSeq, onFile, screen)
      BY <2>8, <3>1 DEF ViewInv, FollowInv
    <3>3. wire[c] = <<>> /\ source.after = conn[c].after /\ source.session = s
      BY <1>1, <3>2 DEF Follows
    <3>4. source.after <= lastSeq[s] /\ lastSeq[s] \in Nat
      BY <2>3, <2>5, <3>3, StreamAssumption DEF ViewInv, FollowInv
    <3> DEFINE w == st.out
    <3> HIDE DEF w
    <3>5. /\ <<>> \o w = w
          /\ w = <<>> => top = conn[c].after
          /\ w # <<>> => w[Len(w)] = Msg("event", top)
          /\ Joins(w, lastSeq[s], onFile[s])
      <4>1. conn[c].after <= lastSeq[s] /\ lastSeq[s] \in Nat
        BY <3>3, <3>4
      <4>2. w = EventsAfter(conn[c].after, top)
        BY <2>4 DEF w
      <4> DEFINE a == conn[c].after
                 seen == lastSeq[s]
                 file == onFile[s]
      <4>3. /\ a \in Nat /\ top \in Nat /\ a <= top /\ seen \in Nat /\ a <= seen
            /\ file \in Nat /\ top <= file
        BY <2>4, <2>5, <2>6, <4>1
      <4> HIDE DEF a, seen, file
      <4>4. w = EventsAfter(a, top)
        BY <4>2 DEF a
      <4>5. /\ <<>> \o w = w
            /\ w = <<>> => top = a
            /\ w # <<>> => w[Len(w)] = Msg("event", top)
            /\ Joins(w, seen, file)
        BY <4>3, <4>4, RunJoins
      <4> QED BY <4>5 DEF a, seen, file
    <3>6. top = conn[c].after => Received(st.lastSent, source, lastSeq[s], screen)
      BY <2>4, <2>5, <3>3, <3>4 DEF Received
    <3> QED BY <1>1, <2>4, <3>3, <3>5, <3>6 DEF w
  <2>9. Sends(c, conn[c], st, FALSE)
    BY <1>1, <1>3 DEF Sends, st
  <2>10. UNCHANGED client
    BY <1>1
  <2> QED BY <2>2, <2>4, <2>5, <2>7, <2>8, <2>9, <2>10, SendsLive
<1> QED BY <1>2, <1>3

(* All that was sent up to a number is under way or was received.          *)
SentUpTo(n, w, seen) == IF w = <<>> THEN n <= seen ELSE w[Len(w)] = Msg("event", n)

LEMMA NextJoins ==
  ASSUME NEW w \in Seq(Sent), NEW n \in Nat, NEW seen \in Nat, NEW file \in Nat,
         n + 1 <= file, Joins(w, seen, file),
         SentUpTo(n, w, seen), NEW longer, longer = w \o <<Msg("event", n + 1)>>
  PROVE  /\ longer # <<>> /\ longer[Len(longer)] = Msg("event", n + 1)
         /\ Joins(longer, seen, file)
<1> DEFINE m == Msg("event", n + 1)
<1>1. m \in Sent /\ m.kind = "event" /\ m.seq = n + 1
  BY DEF Msg, Sent
<1>2. Msg("event", n).kind = "event" /\ Msg("event", n).seq = n
  BY DEF Msg
<1>3. longer = w \o <<m>>
  OBVIOUS
<1> HIDE DEF m
<1>4. /\ longer \in Seq(Sent) /\ Len(longer) = Len(w) + 1 /\ Len(w) \in Nat
      /\ \A i \in 1..Len(w) : longer[i] = w[i]
      /\ longer[Len(w) + 1] = m
  BY <1>1, <1>3
<1>5. ASSUME NEW i \in 1..Len(longer), longer[i].kind = "event"
      PROVE  /\ 1 <= longer[i].seq /\ longer[i].seq <= file
             /\ \/ longer[i].seq <= seen + 1
                \/ i > 1 /\ longer[i - 1].kind = "event" /\ longer[i].seq = longer[i - 1].seq + 1
  <2>1. CASE i <= Len(w)
    <3>1. i \in 1..Len(w) /\ longer[i] = w[i] /\ (i > 1 => longer[i - 1] = w[i - 1])
      BY <1>4, <2>1
    <3> QED BY <1>5, <3>1 DEF Joins
  <2>2. CASE i = Len(w) + 1
    <3>1. longer[i].seq = n + 1
      BY <1>1, <1>4, <2>2
    <3>2. CASE w = <<>>
      BY <3>1, <3>2 DEF SentUpTo
    <3>3. CASE w # <<>>
      <4>1. Len(w) >= 1 /\ i > 1 /\ i - 1 = Len(w)
        BY <1>4, <2>2, <3>3
      <4>2. longer[i - 1] = Msg("event", n)
        BY <1>4, <3>3, <4>1 DEF SentUpTo
      <4> QED BY <1>2, <3>1, <4>1, <4>2
    <3> QED BY <3>2, <3>3
  <2> QED BY <1>4, <2>1, <2>2
<1>6. Joins(longer, seen, file)
  BY <1>5 DEF Joins
<1>7. longer # <<>> /\ longer[Len(longer)] = m
  BY <1>4
<1> QED BY <1>6, <1>7 DEF m

(* Who neither holds the stream nor follows the session hears of nothing.  *)
LEMMA OthersServed ==
  ASSUME ViewInv, LeaseIsServed, active \in Session, NEW d \in Conn,
         lease # d \/ conn[d].session # active,
         published' = [published EXCEPT ![active] = published[active] + 1]
  PROVE  Served(conn[d], published', onFile)
<1>1. conn[d] \in Connection /\ Served(conn[d], published, onFile)
  BY DEF ViewInv, TypeInv, ConnTypes, ServedInv
<1>2. /\ published \in [Session -> Nat] /\ published' \in [Session -> Nat]
      /\ \A s \in Session : published[s] <= published'[s]
      /\ \A s \in Session \ {active} : published'[s] = published[s]
  BY DEF ViewInv, TypeInv, LogTypes
<1>3. CASE conn[d].session # active
  BY <1>1, <1>2, <1>3 DEF Served, Connection
<1>4. CASE conn[d].session = active
  <2>1. lease # d
    BY <1>4
  <2>2. conn[d].pc \notin {"claimed", "read", "live"}
    BY <2>1 DEF LeaseIsServed
  <2>3. \A n \in conn[d].buffer : n \in Nat
    BY <1>1 DEF Connection
  <2> QED BY <1>1, <1>2, <1>4, <2>2, <2>3 DEF Served
<1> QED BY <1>3, <1>4

LEMMA EmitNext ==
  ASSUME NEW n \in Nat, 1 <= n, NEW seq \in Nat, seq <= n + 1
  PROVE  LET st == Emit([lastSent |-> n, over |-> FALSE, out |-> <<>>], seq) IN
         /\ seq <= n => st = [lastSent |-> n, over |-> FALSE, out |-> <<>>]
         /\ ~(seq <= n) =>
              st = [lastSent |-> n + 1, over |-> FALSE, out |-> <<Msg("event", n + 1)>>]
<1> DEFINE st0 == [lastSent |-> n, over |-> FALSE, out |-> <<>>]
<1>1. st0.lastSent = n /\ st0.out = <<>> /\ st0.over = FALSE
  OBVIOUS
<1>2. CASE seq <= n
  BY <1>1, <1>2 DEF Emit
<1>3. CASE ~(seq <= n)
  <2>1. seq = n + 1
    BY <1>3
  <2>2. Emit(st0, seq) = [st0 EXCEPT !.lastSent = seq, !.out = Append(@, Msg("event", seq))]
    BY <1>1, <2>1 DEF Emit
  <2>3. Append(<<>>, Msg("event", seq)) = <<Msg("event", seq)>>
    OBVIOUS
  <2> QED BY <1>3, <2>1, <2>2, <2>3
<1> QED BY <1>2, <1>3

(* What is published is on file, whoever hears of it.                      *)
LEMMA PublishLog ==
  ASSUME ViewInv, Publish
  PROVE  /\ active \in Session
         /\ published' = [published EXCEPT ![active] = published[active] + 1]
         /\ published[active] \in Nat /\ published'[active] = published[active] + 1
         /\ published' \in [Session -> Nat] /\ LogInv'
         /\ UNCHANGED <<onFile, active, client>>
<1>1. /\ active \in Session /\ published[active] < onFile[active]
      /\ published' = [published EXCEPT ![active] = published[active] + 1]
      /\ UNCHANGED <<onFile, active, client>>
  BY DEF Publish, ViewInv, TypeInv, LogTypes
<1>2. published \in [Session -> Nat] /\ onFile \in [Session -> Nat]
  BY DEF ViewInv, TypeInv, LogTypes
<1>3. /\ published' \in [Session -> Nat] /\ published[active] \in Nat
      /\ published'[active] = published[active] + 1
      /\ \A s \in Session \ {active} : published'[s] = published[s]
  BY <1>1, <1>2
<1>4. LogInv'
  <2> SUFFICES ASSUME NEW s \in Session
               PROVE  1 <= published'[s] /\ published'[s] <= onFile[s]
    BY <1>1 DEF LogInv
  <2>1. 1 <= published[s] /\ published[s] <= onFile[s]
    BY DEF ViewInv, LogInv
  <2> QED BY <1>1, <1>2, <1>3, <2>1
<1> QED BY <1>1, <1>3, <1>4

LEMMA PublishBuffered ==
  ASSUME ViewInv, LeaseIsServed, Publish, NEW c \in Conn, lease = c,
         conn[c].session = active, conn[c].pc \in {"claimed", "read"}
  PROVE  ViewInv'
<1> DEFINE seq == published[active] + 1
           more == conn[c].buffer \cup {seq}
           r == [conn[c] EXCEPT !.buffer = more]
<1>1. /\ active \in Session
      /\ published' = [published EXCEPT ![active] = published[active] + 1]
      /\ published[active] \in Nat /\ published'[active] = published[active] + 1
      /\ published' \in [Session -> Nat] /\ LogInv'
      /\ UNCHANGED <<onFile, active, client>>
  BY PublishLog
<1>2. conn[c] \in Connection /\ Served(conn[c], published, onFile)
  BY DEF ViewInv, TypeInv, ConnTypes, ServedInv
<1>3. conn' = [conn EXCEPT ![c] = r] /\ wire' = wire
  <2>1. c # None
    BY StreamAssumption
  <2>2. conn' = [conn EXCEPT ![lease].buffer = @ \cup {published[active] + 1}] /\ wire' = wire
    BY <2>1 DEF Publish
  <2> QED BY <2>2 DEF ViewInv, TypeInv, ConnTypes
<1>4. wire' = [wire EXCEPT ![c] = wire[c]] /\ wire[c] \in Seq(Sent)
  BY <1>3, WireKept
<1>5. more \in SUBSET Nat /\ \A n \in conn[c].buffer : n \in Nat
  BY <1>1, <1>2 DEF Connection
<1>6. \A n \in more : 1 <= n /\ n <= published'[active]
  BY <1>1, <1>2, <1>5 DEF Served
<1>7. /\ conn[c].pc = "read" => 1 <= conn[c].view /\ conn[c].after <= conn[c].view
                                /\ conn[c].view <= onFile[active]
      /\ conn[c].after <= onFile[active]
      /\ conn[c].view \in Nat
  BY <1>2 DEF Served, Connection
<1>8. conn[c].pc = "read" =>
        \A n \in Nat : conn[c].view < n /\ n <= published'[active] => n \in more
  BY <1>1, <1>2, <1>7 DEF Served
<1> HIDE DEF more
<1>9. /\ r \in Connection /\ r.pc = conn[c].pc /\ r.session = conn[c].session
      /\ r.after = conn[c].after /\ r.view = conn[c].view /\ r.buffer = more
      /\ r.lastSent = conn[c].lastSent /\ r.gone = conn[c].gone
  BY <1>2, <1>5 DEF Connection
<1> HIDE DEF r
<1>10. Served(r, published', onFile)
  BY <1>1, <1>6, <1>7, <1>8, <1>9 DEF Served
<1>11. \A d \in Conn \ {c} : Served(conn[d], published', onFile)
  BY <1>1, OthersServed
<1>12. ASSUME source.conn = c
       PROVE  Follows(r, wire[c], source, lastSeq, onFile, screen)
  <2>1. c # None
    BY StreamAssumption
  <2>2. Follows(conn[c], wire[c], source, lastSeq, onFile, screen)
    BY <1>12, <2>1 DEF ViewInv, FollowInv
  <2> QED BY <1>9, <2>2 DEF Follows
<1> QED BY <1>1, <1>3, <1>4, <1>9, <1>10, <1>11, <1>12, OneServed

LEMMA PublishSent ==
  ASSUME ViewInv, LeaseIsServed, Publish, NEW c \in Conn, lease = c,
         conn[c].session = active, conn[c].pc \notin {"claimed", "read"}
  PROVE  ViewInv'
<1> DEFINE seq == published[active] + 1
           n == conn[c].lastSent
           st == Emit([lastSent |-> n, over |-> FALSE, out |-> <<>>], seq)
<1>1. /\ active \in Session
      /\ published' = [published EXCEPT ![active] = published[active] + 1]
      /\ published[active] \in Nat /\ published'[active] = published[active] + 1
      /\ published' \in [Session -> Nat] /\ LogInv'
      /\ UNCHANGED <<onFile, active, client>>
  BY PublishLog
<1>2. /\ conn[c] \in Connection /\ wire[c] \in Seq(Sent)
      /\ Served(conn[c], published, onFile) /\ conn[c].pc = "live"
  BY DEF ViewInv, TypeInv, ConnTypes, ServedInv, LeaseIsServed
<1>3. /\ n \in Nat /\ 1 <= n /\ published[active] <= n /\ n <= onFile[active]
      /\ onFile[active] \in Nat /\ seq <= onFile[active] /\ seq <= n + 1 /\ seq \in Nat
  <2>1. n \in Nat /\ 1 <= n /\ published[active] <= n /\ n <= onFile[active]
    BY <1>2 DEF Served, Connection
  <2>2. onFile[active] \in Nat /\ published[active] < onFile[active]
    BY <1>1 DEF Publish, ViewInv, TypeInv, LogTypes
  <2> QED BY <1>1, <2>1, <2>2
<1>4. Sends(c, conn[c], st, FALSE)
  <2>1. c # None
    BY StreamAssumption
  <2> QED BY <1>2, <2>1 DEF Publish
<1>5. \A d \in Conn \ {c} : Served(conn[d], published', onFile)
  BY <1>1, OthersServed
<1>6. ASSUME source.conn = c
      PROVE  /\ Follows(conn[c], wire[c], source, lastSeq, onFile, screen)
             /\ source.session = active /\ lastSeq[active] \in Nat
  <2>1. c # None
    BY StreamAssumption
  <2>2. Follows(conn[c], wire[c], source, lastSeq, onFile, screen)
    BY <1>6, <2>1 DEF ViewInv, FollowInv
  <2>3. source.session = active
    BY <1>2, <2>2 DEF Follows
  <2> QED BY <1>1, <2>2, <2>3 DEF ViewInv, TypeInv, ClientTypes
<1> HIDE DEF n, seq
<1>7. CASE seq <= n
  <2>1. st = [lastSent |-> n, over |-> FALSE, out |-> <<>>]
    BY <1>3, <1>7, EmitNext
  <2> HIDE DEF st
  <2>2. st.lastSent = n /\ st.over = FALSE /\ st.out = <<>> /\ st.out \in Seq(Sent)
    BY <2>1
  <2>3. wire[c] \o st.out = wire[c]
    BY <1>2, <2>2
  <2>4. ASSUME source.conn = c
        PROVE  /\ conn[c].pc \notin {"free", "over"}
               /\ wire[c] = <<>> => Received(n, source, lastSeq[source.session], screen)
               /\ wire[c] # <<>> => wire[c][Len(wire[c])] = Msg("event", n)
               /\ Joins(wire[c], lastSeq[source.session], onFile[source.session])
    BY <1>2, <1>6, <2>4 DEF Follows, n
  <2>5. published'[active] <= n
    BY <1>1, <1>7 DEF seq
  <2> QED BY <1>1, <1>3, <1>4, <1>5, <2>2, <2>3, <2>4, <2>5, SendsLive
<1>8. CASE ~(seq <= n)
  <2>1. st = [lastSent |-> n + 1, over |-> FALSE, out |-> <<Msg("event", n + 1)>>]
    BY <1>3, <1>8, EmitNext
  <2> HIDE DEF st
  <2>2. /\ st.lastSent = n + 1 /\ st.over = FALSE /\ st.out = <<Msg("event", n + 1)>>
        /\ seq = n + 1
    BY <1>3, <1>8, <2>1
  <2>3. st.out \in Seq(Sent)
    BY <1>3, <2>2 DEF Msg, Sent
  <2> DEFINE w == wire[c] \o st.out
  <2>4. ASSUME source.conn = c
        PROVE  /\ w # <<>> /\ w[Len(w)] = Msg("event", n + 1)
               /\ Joins(w, lastSeq[source.session], onFile[source.session])
    <3>1. /\ wire[c] = <<>> => n <= lastSeq[active]
          /\ wire[c] # <<>> => wire[c][Len(wire[c])] = Msg("event", n)
          /\ Joins(wire[c], lastSeq[active], onFile[active])
      BY <1>2, <1>6, <2>4 DEF Follows, Received, n
    <3>2. w = wire[c] \o <<Msg("event", n + 1)>> /\ n + 1 <= onFile[active]
      BY <1>3, <2>2
    <3> HIDE DEF w
    <3>3. /\ w # <<>> /\ w[Len(w)] = Msg("event", n + 1)
          /\ Joins(w, lastSeq[active], onFile[active])
      <4> DEFINE seen == lastSeq[active]
                 file == onFile[active]
                 old == wire[c]
      <4>1. old \in Seq(Sent) /\ seen \in Nat /\ file \in Nat
        BY <1>2, <1>3, <1>6, <2>4
      <4> HIDE DEF seen, file, old
      <4>2. /\ SentUpTo(n, old, seen) /\ Joins(old, seen, file)
            /\ n + 1 <= file /\ w = old \o <<Msg("event", n + 1)>>
        BY <3>1, <3>2 DEF seen, file, old, SentUpTo
      <4>3. w # <<>> /\ w[Len(w)] = Msg("event", n + 1) /\ Joins(w, seen, file)
        BY <1>3, <4>1, <4>2, NextJoins
      <4> QED BY <4>3 DEF seen, file
    <3> QED BY <1>6, <2>4, <3>3
  <2>5. /\ published'[active] <= n + 1 /\ n + 1 \in Nat /\ 1 <= n + 1 /\ n + 1 <= onFile[active]
    BY <1>1, <1>3, <2>2 DEF seq
  <2> QED BY <1>1, <1>2, <1>3, <1>4, <1>5, <2>2, <2>3, <2>4, <2>5, SendsLive
<1> QED BY <1>7, <1>8

LEMMA PublishView ==
  ASSUME ViewInv, LeaseIsServed, lease \in Conn \cup {None}, Publish
  PROVE  ViewInv'
<1>1. CASE lease = None \/ conn[lease].session # active
  <2>1. /\ active \in Session
        /\ published' = [published EXCEPT ![active] = published[active] + 1]
        /\ published' \in [Session -> Nat] /\ LogInv'
        /\ UNCHANGED <<onFile, active, client>>
    BY PublishLog
  <2>2. UNCHANGED <<conn, wire>>
    BY <1>1 DEF Publish, server
  <2>3. \A d \in Conn : lease # d \/ conn[d].session # active
    BY <1>1, StreamAssumption
  <2>4. \A d \in Conn : Served(conn[d], published', onFile)
    BY <2>1, <2>3, OthersServed
  <2>5. LogTypes' /\ \A s \in Session : onFile[s] <= onFile'[s]
    BY <2>1 DEF ViewInv, TypeInv, LogTypes
  <2> QED BY <2>1, <2>2, <2>4, <2>5, LogMoves
<1>2. CASE ~(lease = None \/ conn[lease].session # active)
  BY <1>2, PublishBuffered, PublishSent
<1> QED BY <1>1, <1>2

LEMMA LogView ==
  ASSUME ViewInv, AppendEvent \/ EndTurn \/ \E s \in Session : StartTurn(s)
  PROVE  ViewInv'
<1>1. UNCHANGED <<client, conn, wire, published>>
  BY DEF AppendEvent, EndTurn, StartTurn, server
<1>2. /\ onFile \in [Session -> Nat] /\ published \in [Session -> Nat]
      /\ active \in Session \cup {None}
      /\ \A s \in Session : 1 <= published[s] /\ published[s] <= onFile[s]
  BY DEF ViewInv, TypeInv, LogTypes, LogInv
<1>3. /\ onFile' \in [Session -> Nat] /\ active' \in Session \cup {None}
      /\ \A s \in Session : onFile[s] <= onFile'[s]
  <2>1. CASE AppendEvent
    <3>1. active \in Session /\ onFile' = [onFile EXCEPT ![active] = onFile[active] + 1]
      BY <1>2, <2>1 DEF AppendEvent
    <3>2. active' = active
      BY <2>1 DEF AppendEvent
    <3> QED BY <1>2, <3>1, <3>2
  <2>2. CASE EndTurn
    BY <1>2, <2>2 DEF EndTurn
  <2>3. CASE \E s \in Session : StartTurn(s)
    BY <1>2, <2>3 DEF StartTurn
  <2> QED BY <2>1, <2>2, <2>3
<1>4. LogTypes' /\ LogInv'
  BY <1>1, <1>2, <1>3 DEF LogTypes, LogInv
<1>5. \A d \in Conn : Served(conn[d], published', onFile)
  BY <1>1 DEF ViewInv, ServedInv
<1> QED BY <1>1, <1>3, <1>4, <1>5, LogMoves

-----------------------------------------------------------------------------
(* The client's steps                                                      *)

LEMMA LoadView ==
  ASSUME ViewInv, UNCHANGED <<log, conn, wire, source, lastSeq, screen>>,
         NEW l \in Load, NEW r \in Snapshot, load' = [load EXCEPT ![l] = r],
         r.session # None /\ r.trace # None => r.trace <= onFile[r.session]
  PROVE  ViewInv'
<1>1. UNCHANGED <<onFile, published, active>>
  BY DEF log
<1>2. /\ load' \in [Load -> Snapshot] /\ load'[l] = r
      /\ \A k \in Load \ {l} : load'[k] = load[k]
  BY DEF ViewInv, TypeInv, ClientTypes
<1>3. LoadOnFile'
  <2> SUFFICES ASSUME NEW k \in Load, load'[k].session # None, load'[k].trace # None
               PROVE  load'[k].trace <= onFile[load'[k].session]
    BY <1>1 DEF LoadOnFile
  <2>1. CASE k = l
    BY <1>2, <2>1
  <2>2. CASE k # l
    BY <1>2, <2>2 DEF ViewInv, LoadOnFile
  <2> QED BY <2>1, <2>2
<1>4. TypeInv' /\ LogInv' /\ ServedInv' /\ SeenOnFile' /\ ScreenInv'
  BY <1>1, <1>2 DEF ViewInv, TypeInv, LogTypes, ConnTypes, ClientTypes, LogInv, ServedInv,
                    SeenOnFile, ScreenInv
<1>5. FollowInv'
  BY <1>1 DEF ViewInv, FollowInv
<1> QED BY <1>3, <1>4, <1>5 DEF ViewInv

LEMMA SnapshotView ==
  ASSUME ViewInv, NEW l \in Load,
         ReadSnapshot(l) \/ LoadFails(l) \/ \E s \in Session : Select(l, s)
  PROVE  ViewInv'
<1>1. load \in [Load -> Snapshot] /\ load[l] \in Snapshot
      /\ onFile \in [Session -> Nat] /\ active \in Session \cup {None}
  BY DEF ViewInv, TypeInv, ClientTypes, LogTypes
<1>2. ASSUME NEW part \in {"view", "trace"}, NEW n \in Nat, Read(l, part, n),
             part = "trace" => n <= onFile[load[l].session]
      PROVE  ViewInv'
  <2> DEFINE r0 == [load[l] EXCEPT ![part] = n]
             r == [r0 EXCEPT !.active = IF part = "view" THEN active ELSE @]
  <2>1. load' = [load EXCEPT ![l] = r] /\ UNCHANGED <<log, conn, wire, source, lastSeq, screen>>
    BY <1>1, <1>2 DEF Read, server, Snapshot
  <2>2. /\ r \in Snapshot /\ r.session = load[l].session
        /\ r.trace = IF part = "trace" THEN n ELSE load[l].trace
    BY <1>1 DEF Snapshot
  <2> HIDE DEF r
  <2>3. r.session # None /\ r.trace # None => r.trace <= onFile[r.session]
    BY <1>2, <2>2 DEF ViewInv, LoadOnFile
  <2> QED BY <2>1, <2>2, <2>3, LoadView
<1>3. CASE ReadSnapshot(l)
  <2> DEFINE n == onFile[load[l].session]
  <2>1. load[l].session \in Session
    BY <1>1, <1>3 DEF ReadSnapshot, Snapshot
  <2>2. n \in Nat /\ Page \in Nat
    BY <1>1, <2>1, StreamAssumption
  <2>3. Read(l, "view", n) \/ Read(l, "trace", IF n < Page THEN n ELSE Page)
    BY <1>3 DEF ReadSnapshot
  <2>4. (IF n < Page THEN n ELSE Page) \in Nat /\ (IF n < Page THEN n ELSE Page) <= n
    BY <2>2
  <2>5. CASE Read(l, "view", n)
    BY <1>2, <2>2, <2>5
  <2>6. CASE Read(l, "trace", IF n < Page THEN n ELSE Page)
    BY <1>2, <2>4, <2>6
  <2> QED BY <2>3, <2>5, <2>6
<1>4. CASE LoadFails(l)
  <2>1. load' = [load EXCEPT ![l] = NoLoad] /\ UNCHANGED <<log, conn, wire, source, lastSeq, screen>>
    BY <1>4 DEF LoadFails, server
  <2>2. NoLoad \in Snapshot /\ NoLoad.session = None
    BY DEF NoLoad, Snapshot
  <2> QED BY <2>1, <2>2, LoadView
<1>5. ASSUME NEW s \in Session, Select(l, s)
      PROVE  ViewInv'
  <2> DEFINE r == [load[l] EXCEPT !.session = s]
  <2>1. load' = [load EXCEPT ![l] = r] /\ UNCHANGED <<log, conn, wire, source, lastSeq, screen>>
        /\ load[l] = NoLoad
    BY <1>1, <1>5 DEF Select, server
  <2>2. r \in Snapshot /\ r.trace = load[l].trace
    BY <1>1 DEF Snapshot
  <2>3. r.trace = None
    BY <2>1, <2>2 DEF NoLoad
  <2> HIDE DEF r
  <2> QED BY <2>1, <2>2, <2>3, LoadView
<1> QED BY <1>3, <1>4, <1>5

(* A new connection asks for what the client has not seen.                 *)
LEMMA ConnectView ==
  ASSUME ViewInv, NEW s \in Session, NEW after \in Nat, NEW ends, Connect(s, after, ends),
         UNCHANGED log, lastSeq' \in [Session -> Nat], after <= lastSeq'[s],
         screen' \in Screen, load' \in [Load -> Snapshot],
         SeenOnFile', LoadOnFile', ScreenInv'
  PROVE  ViewInv'
<1>1. UNCHANGED <<onFile, published, active>>
  BY DEF log
<1> DEFINE asked == [NoConn EXCEPT !.pc = "asked", !.session = s, !.after = after]
<1>2. PICK c \in Conn :
        /\ conn[c].pc = "free"
        /\ source' = [conn |-> c, session |-> s, after |-> after, state |-> "on"]
        /\ conn' = [d \in Conn |-> IF d = c THEN asked ELSE IF d = ends THEN Left(d) ELSE conn[d]]
        /\ wire' = [d \in Conn |-> IF d \in {c, ends} THEN <<>> ELSE wire[d]]
  BY DEF Connect
<1>3. /\ asked \in Connection /\ asked.pc = "asked" /\ asked.session = s
      /\ asked.after = after /\ asked.buffer = {} /\ asked.gone = FALSE
  BY DEF NoConn, Connection, Places
<1> HIDE DEF asked
<1>4. /\ conn \in [Conn -> Connection] /\ wire \in [Conn -> Seq(Sent)]
      /\ onFile \in [Session -> Nat]
  BY DEF ViewInv, TypeInv, ConnTypes, LogTypes
<1>5. after <= onFile[s]
  <2>1. lastSeq'[s] \in Nat /\ onFile[s] \in Nat /\ lastSeq'[s] <= onFile[s]
    BY <1>1, <1>4 DEF SeenOnFile
  <2> QED BY <2>1
<1>6. ASSUME NEW d \in Conn
      PROVE  /\ conn'[d] \in Connection /\ Served(conn'[d], published, onFile)
             /\ wire'[d] \in Seq(Sent)
  <2>1. conn[d] \in Connection /\ wire[d] \in Seq(Sent) /\ Served(conn[d], published, onFile)
    BY <1>4 DEF ViewInv, ServedInv
  <2>2. wire'[d] \in Seq(Sent)
    BY <1>2, <2>1
  <2>3. CASE d = c
    BY <1>2, <1>3, <1>5, <2>2, <2>3 DEF Served
  <2>4. CASE d # c /\ d = ends
    <3>1. conn'[d] = Left(d)
      BY <1>2, <2>4
    <3> QED BY <2>1, <2>2, <3>1, LeftServed
  <2>5. CASE d # c /\ d # ends
    <3>1. conn'[d] = conn[d]
      BY <1>2, <2>5
    <3> QED BY <2>1, <2>2, <3>1
  <2> QED BY <2>3, <2>4, <2>5
<1>7. conn' \in [Conn -> Connection] /\ wire' \in [Conn -> Seq(Sent)]
  BY <1>2, <1>6
<1>8. /\ source' \in Source /\ source'.conn = c /\ source'.session = s
      /\ source'.after = after /\ source'.state = "on"
  BY <1>2 DEF Source
<1>9. TypeInv'
  BY <1>1, <1>7, <1>8 DEF ViewInv, TypeInv, LogTypes, ConnTypes, ClientTypes
<1>10. ServedInv'
  BY <1>1, <1>6 DEF ServedInv
<1>11. FollowInv'
  <2>1. conn'[c] = asked /\ wire'[c] = <<>>
    BY <1>2
  <2>2. Joins(<<>>, lastSeq'[s], onFile[s])
    BY DEF Joins
  <2>3. Follows(asked, <<>>, source', lastSeq', onFile, screen')
    BY <1>3, <1>8, <2>2 DEF Follows
  <2>4. source'.session = s /\ s # None
    BY <1>8, StreamAssumption
  <2> QED BY <1>1, <1>8, <2>1, <2>3, StreamAssumption DEF FollowInv
<1>12. LogInv'
  BY <1>1 DEF ViewInv, LogInv
<1> QED BY <1>9, <1>10, <1>11, <1>12 DEF ViewInv

(* The client gives its connection up and keeps what it shows.             *)
LEMMA ClosedView ==
  ASSUME ViewInv, NEW state \in {"lost", "closed", "dead"}, source.conn \in Conn,
         Closed(state), UNCHANGED <<log, load>>,
         screen' \in Screen, screen'.trace = screen.trace, screen'.session = screen.session
  PROVE  ViewInv'
<1> DEFINE c == source.conn
<1>1. UNCHANGED <<onFile, published, active, lastSeq, load>>
  BY DEF log, Closed
<1>2. /\ conn \in [Conn -> Connection] /\ wire \in [Conn -> Seq(Sent)] /\ source \in Source
      /\ lastSeq \in [Session -> Nat]
      /\ \A d \in Conn : Served(conn[d], published, onFile)
  BY DEF ViewInv, TypeInv, ConnTypes, ClientTypes, ServedInv
<1>3. conn' = [conn EXCEPT ![c] = Left(c)] /\ wire' = [wire EXCEPT ![c] = <<>>]
  BY DEF Closed
<1>4. Left(c) \in Connection /\ Served(Left(c), published, onFile)
  BY <1>2, LeftServed
<1>5. conn' \in [Conn -> Connection] /\ wire' \in [Conn -> Seq(Sent)]
  BY <1>2, <1>3, <1>4
<1>6. source.session \in Session /\ source.after <= lastSeq[source.session]
  <2>1. source.conn # None
    BY StreamAssumption
  <2>2. source.session \in Session
    BY <2>1 DEF ViewInv, FollowInv, Follows
  <2> QED BY <2>2, StreamAssumption DEF ViewInv, FollowInv
<1>7. /\ source' \in Source /\ source'.conn = None /\ source'.state # "on"
      /\ source'.state = "lost" => source'.session \in Session
      /\ source'.session # None => source'.after <= lastSeq[source'.session]
  <2>1. CASE state = "lost"
    <3>1. source' = [source EXCEPT !.conn = None, !.state = state]
      BY <2>1 DEF Closed
    <3>2. /\ source' \in Source /\ source'.conn = None /\ source'.state = "lost"
          /\ source'.session = source.session /\ source'.after = source.after
      BY <1>2, <2>1, <3>1 DEF Source
    <3> QED BY <1>6, <3>2
  <2>2. CASE state # "lost"
    <3>1. source' = [NoSource EXCEPT !.state = state]
      BY <2>2 DEF Closed
    <3>2. /\ source' \in Source /\ source'.conn = None /\ source'.state = state
          /\ source'.session = None
      BY <3>1 DEF Source, NoSource
    <3> QED BY <2>2, <3>2
  <2> QED BY <2>1, <2>2
<1>8. TypeInv'
  BY <1>1, <1>5, <1>7 DEF ViewInv, TypeInv, LogTypes, ConnTypes, ClientTypes
<1>9. ServedInv'
  <2> SUFFICES ASSUME NEW d \in Conn
               PROVE  Served(conn'[d], published, onFile)
    BY <1>1 DEF ServedInv
  <2>1. CASE d = c
    BY <1>2, <1>3, <1>4, <2>1
  <2>2. CASE d # c
    BY <1>2, <1>3, <2>2
  <2> QED BY <2>1, <2>2
<1>10. FollowInv'
  BY <1>1, <1>7 DEF FollowInv
<1>11. LogInv' /\ SeenOnFile' /\ LoadOnFile' /\ ScreenInv'
  BY <1>1 DEF ViewInv, LogInv, SeenOnFile, LoadOnFile, ScreenInv
<1> QED BY <1>8, <1>9, <1>10, <1>11 DEF ViewInv

LEMMA TailOf ==
  ASSUME NEW w \in Seq(Sent), w # <<>>
  PROVE  /\ Len(w) \in Nat /\ 1 <= Len(w) /\ Head(w) = w[1] /\ w[1] \in Sent
         /\ Tail(w) \in Seq(Sent) /\ Len(Tail(w)) = Len(w) - 1
         /\ \A i \in 1..(Len(w) - 1) : Tail(w)[i] = w[i + 1]
         /\ Tail(w) = <<>> => Len(w) = 1
         /\ Tail(w) # <<>> => Len(w) > 1 /\ Tail(w)[Len(Tail(w))] = w[Len(w)]
<1>1. /\ Len(w) \in Nat /\ 1 <= Len(w) /\ Head(w) = w[1] /\ w[1] \in Sent
      /\ Tail(w) \in Seq(Sent) /\ Len(Tail(w)) = Len(w) - 1
      /\ \A i \in 1..(Len(w) - 1) : Tail(w)[i] = w[i + 1]
  OBVIOUS
<1>2. Tail(w) = <<>> <=> Len(Tail(w)) = 0
  <2> DEFINE u == Tail(w)
  <2>1. u \in Seq(Sent)
    BY <1>1
  <2> HIDE DEF u
  <2>2. u = <<>> <=> Len(u) = 0
    BY <2>1
  <2> QED BY <2>2 DEF u
<1>3. Len(w) > 1 => Tail(w)[Len(w) - 1] = w[Len(w)]
  BY <1>1
<1> QED BY <1>1, <1>2, <1>3

LEMMA TailJoins ==
  ASSUME NEW w \in Seq(Sent), w # <<>>, w[1].kind = "event",
         NEW seen \in Nat, NEW new \in Nat, NEW top \in Nat,
         Joins(w, seen, top), seen <= new, w[1].seq <= new
  PROVE  Joins(Tail(w), new, top)
<1> DEFINE u == Tail(w)
<1>1. /\ Len(w) \in Nat /\ 1 <= Len(w) /\ Len(u) = Len(w) - 1
      /\ \A i \in 1..(Len(w) - 1) : u[i] = w[i + 1]
  BY TailOf
<1>2. \A i \in 1..Len(w) : w[i] \in Sent
  OBVIOUS
<1> HIDE DEF u
<1> SUFFICES ASSUME NEW i \in 1..Len(u), u[i].kind = "event"
             PROVE  /\ 1 <= u[i].seq /\ u[i].seq <= top
                    /\ \/ u[i].seq <= new + 1
                       \/ i > 1 /\ u[i - 1].kind = "event" /\ u[i].seq = u[i - 1].seq + 1
  BY DEF Joins, u
<1> DEFINE j == i + 1
<1>3. j \in 1..Len(w) /\ j > 1 /\ u[i] = w[j] /\ j - 1 = i
  BY <1>1
<1>4. w[j].seq \in Nat /\ w[1].seq \in Nat /\ w[j].kind = "event"
  BY <1>1, <1>2, <1>3 DEF Sent
<1>5. /\ 1 <= w[j].seq /\ w[j].seq <= top
      /\ \/ w[j].seq <= seen + 1
         \/ w[j - 1].kind = "event" /\ w[j].seq = w[j - 1].seq + 1
  BY <1>3, <1>4 DEF Joins
<1>6. CASE w[j].seq <= seen + 1
  BY <1>3, <1>4, <1>5, <1>6
<1>7. CASE i = 1 /\ w[j].seq = w[j - 1].seq + 1
  BY <1>3, <1>4, <1>5, <1>7
<1>8. CASE i > 1 /\ w[j - 1].kind = "event" /\ w[j].seq = w[j - 1].seq + 1
  <2>1. i - 1 \in 1..(Len(w) - 1) /\ (i - 1) + 1 = j - 1
    BY <1>1, <1>3, <1>8
  <2>2. u[i - 1] = w[j - 1]
    BY <1>1, <2>1
  <2> QED BY <1>3, <1>5, <1>8, <2>2
<1> QED BY <1>5, <1>6, <1>7, <1>8

(* An event is shown: it is the next one or one that was seen.             *)
LEMMA ShowView ==
  ASSUME ViewInv, source.conn \in Conn, wire[source.conn] # <<>>,
         Head(wire[source.conn]).kind = "event", ShowEvent(Head(wire[source.conn]).seq),
         UNCHANGED <<log, load>>
  PROVE  ViewInv'
<1> DEFINE c == source.conn
           w == wire[c]
           t == source.session
           seq == w[1].seq
           seen == lastSeq[t]
           new == Larger(seen, seq)
<1>1. /\ UNCHANGED <<onFile, published, active, load, source, conn>>
      /\ wire' = [wire EXCEPT ![c] = Tail(w)]
  BY DEF log, ShowEvent
<1>2. /\ conn \in [Conn -> Connection] /\ wire \in [Conn -> Seq(Sent)] /\ source \in Source
      /\ lastSeq \in [Session -> Nat] /\ onFile \in [Session -> Nat] /\ screen \in Screen
  BY DEF ViewInv, TypeInv, LogTypes, ConnTypes, ClientTypes
<1>3. w \in Seq(Sent) /\ w # <<>> /\ Head(w) = w[1] /\ w[1] \in Sent /\ 1 <= Len(w) /\ Len(w) \in Nat
  BY <1>2, TailOf
<1>4. w[1].kind = "event" /\ seq \in Nat
  BY <1>3 DEF Sent
<1>5. Follows(conn[c], w, source, lastSeq, onFile, screen)
  <2>1. c # None
    BY StreamAssumption
  <2> QED BY <2>1 DEF ViewInv, FollowInv
<1>6. t \in Session /\ seen \in Nat /\ onFile[t] \in Nat /\ seen <= onFile[t]
  BY <1>2, <1>5 DEF Follows, ViewInv, SeenOnFile
<1>7. Joins(w, seen, onFile[t])
  BY <1>5 DEF Follows
<1>8. 1 <= seq /\ seq <= onFile[t] /\ seq <= seen + 1
  <2>1. 1 \in 1..Len(w) /\ ~(1 > 1)
    BY <1>3
  <2> HIDE DEF w, t
  <2> QED BY <1>4, <1>7, <2>1 DEF Joins
<1>9. /\ new \in Nat /\ seen <= new /\ seq <= new /\ new <= onFile[t]
      /\ \A n \in Nat : n <= new <=> n <= seen \/ n = seq
  BY <1>4, <1>6, <1>8 DEF Larger
<1>10. lastSeq' = [lastSeq EXCEPT ![t] = new]
  BY <1>3 DEF ShowEvent
<1> HIDE DEF new
<1>11. /\ lastSeq' \in [Session -> Nat] /\ lastSeq'[t] = new
       /\ \A s \in Session \ {t} : lastSeq'[s] = lastSeq[s]
  BY <1>2, <1>6, <1>9, <1>10
<1>12. /\ screen' \in Screen /\ screen'.session = screen.session
       /\ screen.session = t => screen'.view = seq /\ screen'.trace = screen.trace \cup {seq}
       /\ screen.session # t => screen' = screen
  <2>1. screen' = IF screen.session # t THEN screen
                  ELSE [screen EXCEPT !.view = seq, !.trace = screen.trace \cup {seq}]
    BY <1>3 DEF ShowEvent
  <2> HIDE DEF seq
  <2>2. CASE screen.session # t
    BY <1>2, <2>1, <2>2
  <2>3. CASE screen.session = t
    BY <1>2, <1>4, <2>1, <2>3 DEF Screen
  <2> QED BY <2>2, <2>3
<1>13. ScreenInv'
  <2>1. screen.trace = IF screen.session = None THEN {} ELSE 1..lastSeq[screen.session]
    BY DEF ViewInv, ScreenInv
  <2>2. CASE screen.session = t
    <3>1. t # None
      BY <1>6, StreamAssumption
    <3>2. screen'.trace = (1..seen) \cup {seq}
      BY <1>12, <2>1, <2>2, <3>1
    <3>3. (1..seen) \cup {seq} = 1..new
      <4> HIDE DEF seq, seen
      <4>1. ASSUME NEW n \in (1..seen) \cup {seq}
            PROVE  n \in 1..new
        BY <1>4, <1>6, <1>8, <1>9
      <4>2. ASSUME NEW n \in 1..new
            PROVE  n \in (1..seen) \cup {seq}
        <5>1. n \in Nat /\ 1 <= n /\ n <= new
          BY <1>9
        <5>2. n <= seen \/ n = seq
          BY <1>9, <5>1
        <5> QED BY <1>6, <5>1, <5>2
      <4> QED BY <4>1, <4>2
    <3> QED BY <1>11, <1>12, <2>2, <3>1, <3>2, <3>3 DEF ScreenInv
  <2>3. CASE screen.session # t
    <3>1. screen.session \in Session \cup {None}
      BY <1>2 DEF Screen
    <3> QED BY <1>11, <1>12, <2>1, <2>3, <3>1 DEF ScreenInv
  <2> QED BY <2>2, <2>3
<1>14. SeenOnFile'
  BY <1>1, <1>9, <1>11 DEF ViewInv, SeenOnFile
<1>15. Tail(w) \in Seq(Sent)
  BY <1>3, TailOf
<1>16. wire' \in [Conn -> Seq(Sent)] /\ wire'[c] = Tail(w)
  BY <1>1, <1>2, <1>15
<1>17. Joins(Tail(w), new, onFile[t])
  <2> HIDE DEF w, t
  <2> QED BY <1>3, <1>4, <1>6, <1>7, <1>9, TailJoins
<1>18. Follows(conn[c], Tail(w), source, lastSeq', onFile, screen')
  <2> DEFINE r == conn[c]
  <2>1. r.pc \notin {"free", "asked", "claimed", "read"} /\ ~r.gone
    BY <1>3, <1>5 DEF Follows
  <2>2. /\ Tail(w) = <<>> => w[Len(w)] = w[1]
        /\ Tail(w) # <<>> => Tail(w)[Len(Tail(w))] = w[Len(w)]
    BY <1>3, TailOf
  <2>3. r.pc = "live" => w[Len(w)] = Msg("event", r.lastSent)
    BY <1>3, <1>5 DEF Follows
  <2>4. r.pc = "over" => w[Len(w)].kind \in {"refused", "end"}
    BY <1>5 DEF Follows
  <2>5. r.pc = "live" /\ Tail(w) = <<>> => r.lastSent = seq
    BY <2>2, <2>3 DEF Msg
  <2>6. r.pc = "live" /\ Tail(w) = <<>> => Received(r.lastSent, source, new, screen')
    BY <1>9, <1>12, <2>5 DEF Received
  <2>7. r.pc = "over" => Tail(w) # <<>>
    BY <1>4, <2>2, <2>4
  <2> HIDE DEF w
  <2> QED
    BY <1>5, <1>11, <1>17, <2>1, <2>2, <2>3, <2>4, <2>6, <2>7 DEF Follows
<1>19. TypeInv' /\ LogInv' /\ ServedInv' /\ LoadOnFile'
  BY <1>1, <1>2, <1>11, <1>12, <1>16
  DEF ViewInv, TypeInv, LogTypes, ConnTypes, ClientTypes, LogInv, ServedInv, LoadOnFile
<1>20. FollowInv'
  <2>1. source.session # None => source.after <= lastSeq'[source.session]
    <3>1. source.after <= lastSeq[t]
      BY <1>6, StreamAssumption DEF ViewInv, FollowInv
    <3>2. source.after \in Nat
      BY <1>2 DEF Source
    <3> QED BY <1>6, <1>9, <1>11, <3>1, <3>2
  <2> QED BY <1>1, <1>16, <1>18, <2>1 DEF ViewInv, FollowInv
<1> QED BY <1>13, <1>14, <1>19, <1>20 DEF ViewInv

LEMMA ScreenKept ==
  ASSUME ViewInv, screen' = screen \/ screen' = [screen EXCEPT !.resync = TRUE]
  PROVE  screen' \in Screen /\ screen'.trace = screen.trace /\ screen'.session = screen.session
<1>1. screen \in Screen
  BY DEF ViewInv, TypeInv, ClientTypes
<1>2. CASE screen' = screen
  BY <1>1, <1>2
<1>3. CASE screen' = [screen EXCEPT !.resync = TRUE]
  BY <1>1, <1>3 DEF Screen
<1> QED BY <1>2, <1>3

LEMMA ReceiveView ==
  ASSUME ViewInv, Receive
  PROVE  ViewInv'
<1>1. source.conn \in Conn
  BY DEF Receive, ViewInv, TypeInv, ClientTypes, Source
<1>2. wire[source.conn] # <<>> /\ UNCHANGED <<log, load>>
  BY DEF Receive
<1> DEFINE m == Head(wire[source.conn])
<1>3. CASE m.kind = "event" /\ ShowEvent(m.seq)
  BY <1>1, <1>2, <1>3, ShowView
<1>4. ASSUME NEW state \in {"lost", "closed", "dead"}, Closed(state),
             screen' = screen \/ screen' = [screen EXCEPT !.resync = TRUE]
      PROVE  ViewInv'
  BY <1>1, <1>2, <1>4, ScreenKept, ClosedView
<1>5. \/ m.kind = "event" /\ ShowEvent(m.seq)
      \/ Closed("closed") /\ screen' = [screen EXCEPT !.resync = TRUE]
      \/ Closed("dead") /\ screen' = screen
      \/ Closed("lost") /\ screen' = screen
  BY DEF Receive
<1> QED BY <1>3, <1>4, <1>5

LEMMA DropView ==
  ASSUME ViewInv, Drop
  PROVE  ViewInv'
<1>1. source.conn \in Conn
  BY DEF Drop, ViewInv, TypeInv, ClientTypes, Source
<1>2. Closed("lost") /\ UNCHANGED <<log, load>> /\ screen' = screen
  BY DEF Drop
<1> QED BY <1>1, <1>2, ScreenKept, ClosedView

LEMMA ReconnectView ==
  ASSUME ViewInv, Reconnect
  PROVE  ViewInv'
<1>1. /\ Connect(source.session, source.after, None)
      /\ UNCHANGED <<log, lastSeq, screen, load>>
      /\ source.session \in Session
  BY DEF Reconnect, ViewInv, FollowInv
<1>2. /\ source.after \in Nat /\ source.after <= lastSeq[source.session]
  BY <1>1, StreamAssumption DEF ViewInv, TypeInv, ClientTypes, Source, FollowInv
<1>3. /\ lastSeq' \in [Session -> Nat] /\ screen' \in Screen /\ load' \in [Load -> Snapshot]
  BY <1>1 DEF ViewInv, TypeInv, ClientTypes
<1>4. SeenOnFile' /\ LoadOnFile' /\ ScreenInv'
  BY <1>1 DEF log, ViewInv, SeenOnFile, LoadOnFile, ScreenInv
<1>5. source.after <= lastSeq'[source.session]
  BY <1>1, <1>2
<1> QED BY <1>1, <1>2, <1>3, <1>4, <1>5, ConnectView

LEMMA ApplyView ==
  ASSUME ViewInv, NEW l \in Load, Apply(l)
  PROVE  ViewInv'
<1> DEFINE s == load[l].session
           n == load[l].trace
           v == load[l].view
           bound == IF load[l].active = None THEN s ELSE load[l].active
           seen == [lastSeq EXCEPT ![s] = n]
<1>1. /\ s # None /\ v # None /\ n # None
      /\ lastSeq' = seen
      /\ screen' = [session |-> s, view |-> v, trace |-> 1..n, resync |-> FALSE]
      /\ Connect(bound, seen[bound], source.conn)
      /\ load' = [load EXCEPT ![l] = NoLoad]
      /\ UNCHANGED log
  BY DEF Apply
<1>2. /\ load \in [Load -> Snapshot] /\ load[l] \in Snapshot
      /\ lastSeq \in [Session -> Nat] /\ onFile \in [Session -> Nat] /\ onFile' = onFile
  BY <1>1 DEF ViewInv, TypeInv, ClientTypes, LogTypes, log
<1>3. s \in Session /\ n \in Nat /\ v \in Nat /\ bound \in Session
  BY <1>1, <1>2 DEF Snapshot
<1>4. n <= onFile[s]
  BY <1>1 DEF ViewInv, LoadOnFile
<1> HIDE DEF s, n, v, bound
<1>5. /\ lastSeq' \in [Session -> Nat] /\ lastSeq'[s] = n
      /\ \A t \in Session \ {s} : lastSeq'[t] = lastSeq[t]
  BY <1>1, <1>2, <1>3
<1>6. SeenOnFile'
  BY <1>2, <1>4, <1>5 DEF ViewInv, SeenOnFile
<1>7. /\ screen' \in Screen /\ screen'.session = s /\ screen'.trace = 1..n
  <2>1. 1..n \in SUBSET Nat
    BY <1>3
  <2> QED BY <1>1, <1>3, <2>1 DEF Screen
<1>8. ScreenInv'
  BY <1>1, <1>5, <1>7 DEF ScreenInv
<1>9. NoLoad \in Snapshot /\ NoLoad.session = None
  BY DEF NoLoad, Snapshot
<1>10. /\ load' \in [Load -> Snapshot] /\ load'[l] = NoLoad
       /\ \A k \in Load \ {l} : load'[k] = load[k]
  BY <1>1, <1>2, <1>9
<1>11. LoadOnFile'
  <2> SUFFICES ASSUME NEW k \in Load, load'[k].session # None, load'[k].trace # None
               PROVE  load'[k].trace <= onFile'[load'[k].session]
    BY DEF LoadOnFile
  <2>1. k # l
    BY <1>9, <1>10
  <2> QED BY <1>2, <1>10, <2>1 DEF ViewInv, LoadOnFile
<1>12. Connect(bound, lastSeq'[bound], source.conn) /\ lastSeq'[bound] \in Nat
  BY <1>1, <1>3, <1>5
<1>13. lastSeq'[bound] <= lastSeq'[bound]
  BY <1>12
<1> QED BY <1>1, <1>3, <1>5, <1>6, <1>7, <1>8, <1>10, <1>11, <1>12, <1>13, ConnectView

-----------------------------------------------------------------------------
(* The theorems                                                            *)

LEMMA ViewStep ==
  ASSUME StreamInv, ViewInv, [Next]_vars
  PROVE  ViewInv'
<1>1. CASE UNCHANGED vars
  BY <1>1 DEF vars, ViewInv, TypeInv, LogTypes, ConnTypes, ClientTypes, LogInv, ServedInv,
              FollowInv, SeenOnFile, LoadOnFile, ScreenInv
<1>2. CASE ServerStep
  BY <1>2, ClaimView, ReadHistoryView, GoLiveView, NoticeView DEF ServerStep
<1>3. CASE ClientStep
  BY <1>3, ReceiveView, ReconnectView, SnapshotView, ApplyView DEF ClientStep
<1>4. CASE AppendEvent \/ EndTurn \/ \E s \in Session : StartTurn(s)
  BY <1>4, LogView
<1>5. CASE Publish
  BY <1>5, PublishView DEF StreamInv, LeaseInv
<1>6. CASE Drop
  BY <1>6, DropView
<1>7. CASE \E c \in Conn : ReadFails(c)
  BY <1>7, ReadFailsView
<1>8. ASSUME NEW l \in Load, LoadFails(l) \/ \E s \in Session : Select(l, s)
      PROVE  ViewInv'
  BY <1>8, SnapshotView
<1> QED BY <1>1, <1>2, <1>3, <1>4, <1>5, <1>6, <1>7, <1>8 DEF Next

LEMMA ViewInit == Init => ViewInv
<1> SUFFICES ASSUME Init PROVE ViewInv
  OBVIOUS
<1>1. /\ onFile = [s \in Session |-> 1] /\ published = onFile /\ active = None
      /\ conn = [c \in Conn |-> NoConn] /\ wire = [c \in Conn |-> <<>>]
      /\ source = NoSource /\ lastSeq = [s \in Session |-> 0]
      /\ screen = [session |-> None, view |-> 0, trace |-> {}, resync |-> FALSE]
      /\ load = [l \in Load |-> NoLoad]
  BY DEF Init
<1>2. LogTypes /\ LogInv
  BY <1>1 DEF LogTypes, LogInv
<1>3. ConnTypes
  <2>1. <<>> \in Seq(Sent)
    OBVIOUS
  <2> QED BY <1>1, <2>1, NewRecords DEF ConnTypes
<1>4. NoSource \in Source /\ NoSource.conn = None /\ NoSource.state = "none"
      /\ NoSource.session = None
  BY DEF NoSource, Source
<1>5. NoLoad \in Snapshot /\ NoLoad.session = None
  BY DEF NoLoad, Snapshot
<1>6. screen \in Screen /\ screen.session = None /\ screen.trace = {}
  BY <1>1 DEF Screen
<1>7. ClientTypes
  BY <1>1, <1>4, <1>5, <1>6 DEF ClientTypes
<1>8. ServedInv
  BY <1>1, NewRecords DEF ServedInv, Served
<1>9. FollowInv
  BY <1>1, <1>4 DEF FollowInv
<1>10. SeenOnFile /\ LoadOnFile /\ ScreenInv
  BY <1>1, <1>5, <1>6 DEF SeenOnFile, LoadOnFile, ScreenInv
<1> QED BY <1>2, <1>3, <1>7, <1>8, <1>9, <1>10 DEF ViewInv, TypeInv

LEMMA ViewAlways == Spec => [](StreamInv /\ ViewInv)
<1>1. StreamInv /\ ViewInv /\ [Next]_vars => StreamInv' /\ ViewInv'
  BY StreamInvStep, ViewStep
<1> QED BY StreamInvInit, ViewInit, <1>1, PTL DEF Spec

(* The trace on the screen has no hole: for any sessions, connections and  *)
(* loads, what the snapshot and the stream bring joins without a gap.      *)
THEOREM TraceHasNoHole == Spec => []NoHole
<1>1. ViewInv => NoHole
  <2> SUFFICES ASSUME ViewInv PROVE NoHole
    OBVIOUS
  <2>1. screen \in Screen /\ lastSeq \in [Session -> Nat] /\ ScreenInv
    BY DEF ViewInv, TypeInv, ClientTypes
  <2>2. \E n \in Nat : screen.trace = 1..n
    <3>1. CASE screen.session = None
      <4>1. screen.trace = 1..0
        BY <2>1, <3>1 DEF ScreenInv
      <4> QED BY <4>1
    <3>2. CASE screen.session # None
      BY <2>1, <3>2 DEF Screen, ScreenInv
    <3> QED BY <3>1, <3>2
  <2>3. PICK n \in Nat : screen.trace = 1..n
    BY <2>2
  <2>4. Cardinality(1..n) = n
    <3>1. Cardinality(1..n) = IF 1 > n THEN 0 ELSE n - 1 + 1
      BY FS_Interval
    <3> QED BY <3>1
  <2> QED BY <2>3, <2>4 DEF NoHole
<1> QED BY ViewAlways, <1>1, PTL

(* A connected client to which nothing is under way any more shows every   *)
(* record on file, and the view of the last event that came after its      *)
(* snapshot: for any sessions, connections and loads.                      *)
THEOREM RestIsCaughtUp == Spec => []CaughtUpAtRest
<1>1. ViewInv => CaughtUpAtRest
  <2> SUFFICES ASSUME ViewInv, AtRest
               PROVE  /\ screen.trace = 1..onFile[screen.session]
                      /\ lastSeq[screen.session] > source.after =>
                           screen.view = onFile[screen.session]
    BY DEF CaughtUpAtRest
  <2> DEFINE c == source.conn
             s == source.session
             r == conn[c]
  <2>1. /\ published = onFile /\ source.state = "on" /\ wire[c] = <<>>
        /\ screen.session = s
        /\ \A d \in Conn : conn[d].pc \in {"free", "over", "live"}
    BY DEF AtRest
  <2>2. c \in Conn /\ Follows(r, wire[c], source, lastSeq, onFile, screen)
    BY <2>1 DEF ViewInv, TypeInv, ClientTypes, Source, FollowInv
  <2>3. /\ r.pc = "live" /\ r.session = s /\ s \in Session
        /\ Received(r.lastSent, source, lastSeq[s], screen)
    BY <2>1, <2>2 DEF Follows
  <2>4. /\ published[s] <= r.lastSent /\ r.lastSent <= onFile[s] /\ lastSeq[s] <= onFile[s]
        /\ r.lastSent \in Nat /\ lastSeq[s] \in Nat /\ onFile[s] \in Nat /\ source.after \in Nat
    BY <2>2, <2>3 DEF ViewInv, ServedInv, Served, SeenOnFile, TypeInv, ConnTypes, LogTypes,
                      ClientTypes, Connection, Source
  <2>5. lastSeq[s] = onFile[s] /\ r.lastSent = onFile[s]
    BY <2>1, <2>3, <2>4 DEF Received
  <2>6. s # None /\ ScreenInv
    BY <2>3, StreamAssumption DEF ViewInv
  <2>7. screen.trace = 1..onFile[s]
    BY <2>1, <2>5, <2>6 DEF ScreenInv
  <2>8. lastSeq[s] > source.after => screen.view = onFile[s]
    BY <2>1, <2>3, <2>4, <2>5 DEF Received
  <2> QED BY <2>1, <2>7, <2>8
<1> QED BY ViewAlways, <1>1, PTL

-----------------------------------------------------------------------------
(* Types.  Every number anywhere is that of an event on file, of which     *)
(* there are MaxSeq at most in all sessions together.                      *)

Within(r)   == {r.after, r.view, r.lastSent} \cup r.buffer \subseteq Seqs
Numbered(w) == \A i \in DOMAIN w : w[i].seq \in Seqs

BoundInv ==
  /\ onFile \in [Session -> Seqs]
  /\ \A c \in Conn : Within(conn[c]) /\ Numbered(wire[c])
  /\ source.after \in Seqs /\ screen.view \in Seqs
  /\ \A l \in Load : load[l].view \in Seqs \cup {None}

LEMMA SeqsAre ==
  /\ Seqs \in SUBSET Nat /\ 0 \in Seqs
  /\ \A n \in Seqs : \A m \in Nat : m <= n => m \in Seqs
BY StreamAssumption DEF Seqs

LEMMA OverWithin ==
  ASSUME NEW c \in Conn, conn[c] \in Connection
  PROVE  Within(NoConn) /\ Within(Over(c)) /\ (Within(conn[c]) => Within(Left(c)))
<1>1. Within(NoConn)
  BY SeqsAre DEF NoConn, Within
<1>2. Within([NoConn EXCEPT !.pc = "over"])
  BY SeqsAre DEF NoConn, Within
<1>3. Within(Over(c))
  BY <1>1, <1>2 DEF Over
<1>4. Within(conn[c]) => Within([conn[c] EXCEPT !.gone = TRUE])
  BY DEF Connection, Within
<1>5. Left(c) = NoConn \/ Left(c) = [conn[c] EXCEPT !.gone = TRUE]
  BY DEF Left
<1> QED BY <1>1, <1>3, <1>4, <1>5

(* What is on file for a session is less than the bound while there is     *)
(* room for another event.                                                 *)
LEMMA RoomOnFile ==
  ASSUME IsFiniteSet(Session), onFile \in [Session -> Seqs], NEW s \in Session,
         Cardinality(Events) < MaxSeq
  PROVE  onFile[s] + 1 \in Seqs
<1> DEFINE n == onFile[s]
           mine == {s} \X (1..n)
<1>1. n \in Nat /\ n \in Seqs /\ MaxSeq \in Nat /\ Seqs = 0..MaxSeq
  BY SeqsAre, StreamAssumption DEF Seqs
<1>2. IsFiniteSet(Events)
  <2>1. IsFiniteSet(0..MaxSeq)
    BY <1>1, FS_Interval
  <2>2. IsFiniteSet(Session \X Seqs)
    BY <1>1, <2>1, FS_Product
  <2>3. Events \in SUBSET (Session \X Seqs)
    BY DEF Events
  <2> QED BY <2>2, <2>3, FS_Subset
<1>3. mine \in SUBSET Events
  <2>1. 1..n \subseteq Seqs
    BY <1>1
  <2> QED BY <2>1 DEF Events
<1>4. Cardinality(mine) = n
  <2> DEFINE one == {s}
             numbers == 1..n
  <2>1. IsFiniteSet(one) /\ Cardinality(one) = 1
    BY FS_Singleton
  <2>2. IsFiniteSet(numbers) /\ Cardinality(numbers) = n
    <3> HIDE DEF n
    <3>1. n \in Nat
      BY <1>1
    <3>2. /\ IsFiniteSet(1..n)
          /\ Cardinality(1..n) = IF 1 > n THEN 0 ELSE n - 1 + 1
      BY <3>1, FS_Interval
    <3> QED BY <3>1, <3>2
  <2> HIDE DEF one, numbers
  <2>3. Cardinality(one \X numbers) = 1 * n
    BY <2>1, <2>2, FS_Product
  <2>4. 1 * n = n
    BY <1>1
  <2> QED BY <2>3, <2>4 DEF one, numbers
<1>5. n <= Cardinality(Events) /\ Cardinality(Events) \in Nat
  <2>1. Cardinality(mine) <= Cardinality(Events)
    BY <1>2, <1>3, FS_Subset
  <2>2. Cardinality(Events) \in Nat
    BY <1>2, FS_CardinalityType
  <2> QED BY <1>4, <2>1, <2>2
<1> HIDE DEF n
<1>6. n + 1 \in Seqs
  BY <1>1, <1>5
<1> QED BY <1>6 DEF n

LEMMA JoinedNumbered ==
  ASSUME NEW u \in Seq(Sent), NEW w \in Seq(Sent), Numbered(u), Numbered(w)
  PROVE  Numbered(u \o w \o <<>>)
<1>1. u \o w \o <<>> = u \o w
  OBVIOUS
<1>2. DOMAIN u = 1..Len(u) /\ DOMAIN w = 1..Len(w) /\ DOMAIN (u \o w) = 1..(Len(u) + Len(w))
      /\ Len(u) \in Nat /\ Len(w) \in Nat
  OBVIOUS
<1>3. ASSUME NEW i \in 1..(Len(u) + Len(w))
      PROVE  (u \o w)[i].seq \in Seqs
  <2>1. CASE i <= Len(u)
    <3>1. i \in 1..Len(u) /\ (u \o w)[i] = u[i]
      BY <1>2, <2>1
    <3> QED BY <1>2, <3>1 DEF Numbered
  <2>2. CASE ~(i <= Len(u))
    <3>1. i - Len(u) \in 1..Len(w) /\ (u \o w)[i] = w[i - Len(u)]
      BY <1>2, <2>2
    <3> QED BY <1>2, <3>1 DEF Numbered
  <2> QED BY <2>1, <2>2
<1> QED BY <1>1, <1>2, <1>3 DEF Numbered

(* A step of the server's that touches one connection at most.             *)
LEMMA OneBound ==
  ASSUME ViewInv, BoundInv, NEW c \in Conn, NEW r, NEW w, UNCHANGED <<onFile, client>>,
         conn' = [conn EXCEPT ![c] = r], wire' = [wire EXCEPT ![c] = w],
         Within(r), Numbered(w)
  PROVE  BoundInv'
<1>1. UNCHANGED <<source, screen, load>>
  BY DEF client
<1>2. \A d \in Conn : Within(conn'[d]) /\ Numbered(wire'[d])
  BY DEF BoundInv, ViewInv, TypeInv, ConnTypes
<1> QED BY <1>1, <1>2 DEF BoundInv, Within, Numbered

(* A connection that leaves, or sends no more than its history and what    *)
(* was published since, which is on file.                                  *)
LEMMA RefuseBound ==
  ASSUME ViewInv, BoundInv, NEW c \in Conn, Refuse(c), UNCHANGED <<log, client>>
  PROVE  BoundInv'
<1>1. conn' = [conn EXCEPT ![c] = Over(c)] /\ onFile' = onFile
  BY DEF Refuse, log
<1>2. Numbered(<<Msg("refused", 0)>>)
  BY SeqsAre DEF Numbered, Msg
<1>3. Numbered(wire[c]) /\ wire = [wire EXCEPT ![c] = wire[c]]
  BY DEF BoundInv, ViewInv, TypeInv, ConnTypes
<1>4. \E w : wire' = [wire EXCEPT ![c] = w] /\ Numbered(w)
  BY <1>2, <1>3 DEF Refuse
<1> QED BY <1>1, <1>4, OverWithin, OneBound DEF ViewInv, TypeInv, ConnTypes

LEMMA ServerBound ==
  ASSUME ViewInv, BoundInv, NEW c \in Conn,
         Claim(c) \/ ReadHistory(c) \/ ReadFails(c) \/ GoLive(c) \/ Notice(c)
  PROVE  BoundInv'
<1>1. /\ conn[c] \in Connection /\ wire[c] \in Seq(Sent) /\ Served(conn[c], published, onFile)
      /\ Within(conn[c]) /\ Numbered(wire[c]) /\ wire = [wire EXCEPT ![c] = wire[c]]
      /\ onFile \in [Session -> Seqs] /\ onFile \in [Session -> Nat]
  BY DEF ViewInv, TypeInv, ConnTypes, LogTypes, ServedInv, BoundInv
<1>2. UNCHANGED <<onFile, client>>
  BY DEF Claim, ReadHistory, ReadFails, GoLive, Notice, log
<1>3. CASE Refuse(c)
  <2>1. UNCHANGED log
    BY DEF Claim, ReadHistory, ReadFails, GoLive, Notice
  <2> QED BY <1>2, <1>3, <2>1, RefuseBound
<1>4. CASE Claim(c) /\ ~Refuse(c)
  <2> DEFINE r == [conn[c] EXCEPT !.pc = "claimed"]
  <2>1. conn' = [conn EXCEPT ![c] = r] /\ wire' = wire
    BY <1>4 DEF Claim
  <2>2. Within(r)
    BY <1>1 DEF Connection, Within
  <2> QED BY <1>1, <1>2, <2>1, <2>2, OneBound
<1>5. CASE ReadHistory(c)
  <2> DEFINE n == onFile[conn[c].session]
             r == [conn[c] EXCEPT !.pc = "read", !.view = n]
  <2>1. conn' = [conn EXCEPT ![c] = r] /\ wire' = wire /\ conn[c].pc = "claimed"
    BY <1>5 DEF ReadHistory, ViewInv, TypeInv, ConnTypes
  <2>2. conn[c].session \in Session
    BY <1>1, <2>1 DEF Served
  <2>3. n \in Seqs
    BY <1>1, <2>2
  <2> HIDE DEF n
  <2>4. Within(r)
    BY <1>1, <2>3 DEF Connection, Within
  <2> QED BY <1>1, <1>2, <2>1, <2>4, OneBound
<1>6. CASE Notice(c) \/ (GoLive(c) /\ conn[c].gone)
  <2>1. conn' = [conn EXCEPT ![c] = Over(c)] /\ wire' = wire
    BY <1>6 DEF Notice, GoLive, Sends
  <2> QED BY <1>1, <1>2, <2>1, OverWithin, OneBound DEF ViewInv, TypeInv, ConnTypes
<1>7. CASE GoLive(c) /\ ~conn[c].gone
  <2> DEFINE s == conn[c].session
             a == conn[c].after
             st == HandOver(conn[c])
  <2>1. conn[c].pc = "read" /\ Sends(c, conn[c], st, FALSE)
    BY <1>7 DEF GoLive, Sends
  <2>2. /\ published \in [Session -> Nat] /\ onFile \in [Session -> Nat]
        /\ \A t \in Session : 1 <= published[t] /\ published[t] <= onFile[t]
        /\ conn[c] \in Connection /\ Served(conn[c], published, onFile) /\ conn[c].pc = "read"
    BY <1>1, <2>1 DEF ViewInv, TypeInv, LogTypes, LogInv
  <2>3. PICK top \in Nat :
          /\ conn[c].after <= top /\ 1 <= top /\ published[s] <= top /\ top <= onFile[s]
          /\ st.lastSent = top /\ st.over = FALSE
          /\ st.out = EventsAfter(conn[c].after, top)
    BY <2>2, HandOverRun
  <2>4. s \in Session /\ a \in Nat /\ onFile[s] \in Seqs
    BY <1>1, <2>1 DEF Served, Connection
  <2>5. top \in Seqs
    BY <2>3, <2>4, SeqsAre
  <2>6. a <= top /\ st.out = EventsAfter(a, top)
    BY <2>3
  <2> HIDE DEF s, st, a
  <2>7. Numbered(st.out) /\ DOMAIN st.out = 1..(top - a) /\ st.out \in Seq(Sent)
    <3>1. \A i \in 1..(top - a) : a + i \in Nat /\ a + i <= top
      BY <2>4, <2>6
    <3>2. \A i \in 1..(top - a) : st.out[i] = Msg("event", a + i)
      BY <2>6 DEF EventsAfter
    <3>3. DOMAIN st.out = 1..(top - a)
      BY <2>6 DEF EventsAfter
    <3>4. ASSUME NEW i \in 1..(top - a)
          PROVE  st.out[i].seq \in Seqs
      <4>1. a + i \in Seqs
        BY <2>5, <3>1, SeqsAre
      <4>2. \A n : Msg("event", n).seq = n
        BY DEF Msg
      <4> QED BY <3>2, <4>1, <4>2
    <3>5. st.out \in Seq(Sent)
      <4>1. \A i \in 1..(top - a) : st.out[i] \in Sent
        <5>1. \A n \in Nat : Msg("event", n) \in Sent
          BY DEF Msg, Sent
        <5> QED BY <3>1, <3>2, <5>1
      <4>2. top - a \in Nat
        BY <2>4, <2>6
      <4> QED BY <2>6, <4>1, <4>2 DEF EventsAfter
    <3> QED BY <3>3, <3>4, <3>5 DEF Numbered
  <2> DEFINE r == [conn[c] EXCEPT !.pc = "live", !.lastSent = st.lastSent,
                                  !.buffer = {}, !.view = 0, !.after = 0]
             w == wire[c] \o st.out \o <<>>
  <2>8. conn' = [conn EXCEPT ![c] = r] /\ wire' = [wire EXCEPT ![c] = w]
    BY <1>7, <2>1, <2>3 DEF Sends
  <2>9. Within(r)
    BY <1>1, <2>3, <2>5, SeqsAre DEF Connection, Within
  <2>10. Numbered(w)
    <3> DEFINE old == wire[c]
               out == st.out
    <3>1. old \in Seq(Sent) /\ out \in Seq(Sent) /\ Numbered(old) /\ Numbered(out)
      BY <1>1, <2>7
    <3> HIDE DEF old, out
    <3>2. Numbered(old \o out \o <<>>)
      BY <3>1, JoinedNumbered
    <3> QED BY <3>2 DEF old, out
  <2> HIDE DEF r, w
  <2> QED BY <1>2, <2>8, <2>9, <2>10, OneBound
<1> QED BY <1>3, <1>4, <1>5, <1>6, <1>7 DEF Claim, ReadFails

(* What is published is on file, and so is what is sent of it.             *)
LEMMA PublishBound ==
  ASSUME StreamInv, ViewInv, BoundInv, Publish
  PROVE  BoundInv'
<1> DEFINE seq == published[active] + 1
<1>1. /\ active \in Session /\ published[active] \in Nat /\ UNCHANGED <<onFile, client>>
  BY PublishLog
<1>2. seq \in Nat /\ seq \in Seqs
  <2>1. published[active] < onFile[active] /\ onFile[active] \in Seqs
    BY <1>1 DEF Publish, BoundInv
  <2>2. onFile[active] \in Nat /\ seq \in Nat /\ seq <= onFile[active]
    <3>1. onFile[active] \in Nat
      BY <2>1, SeqsAre
    <3>2. \A i, j \in Nat : i < j => i + 1 \in Nat /\ i + 1 <= j
      OBVIOUS
    <3> QED BY <1>1, <2>1, <3>1, <3>2
  <2> QED BY <2>1, <2>2, SeqsAre
<1>3. CASE lease = None \/ conn[lease].session # active
  <2>1. UNCHANGED <<conn, wire>>
    BY <1>3 DEF Publish, server
  <2> QED BY <1>1, <2>1 DEF BoundInv, client
<1>4. CASE ~(lease = None \/ conn[lease].session # active)
  <2> DEFINE c == lease
  <2>1. /\ c \in Conn /\ conn[c] \in Connection /\ wire[c] \in Seq(Sent)
        /\ Served(conn[c], published, onFile) /\ conn[c].pc \in {"claimed", "read", "live"}
        /\ Within(conn[c]) /\ Numbered(wire[c]) /\ wire = [wire EXCEPT ![c] = wire[c]]
        /\ conn = [conn EXCEPT ![c] = conn[c]]
    <3>1. c \in Conn /\ conn[c].pc \in {"claimed", "read", "live"}
      BY <1>4 DEF StreamInv, LeaseInv, LeaseIsServed
    <3> QED BY <3>1 DEF ViewInv, TypeInv, ConnTypes, ServedInv, BoundInv
  <2>2. CASE conn[c].pc \in {"claimed", "read"}
    <3> DEFINE more == conn[c].buffer \cup {seq}
               r == [conn[c] EXCEPT !.buffer = more]
    <3>1. conn' = [conn EXCEPT ![lease].buffer = @ \cup {published[active] + 1}] /\ wire' = wire
      BY <1>4, <2>2 DEF Publish
    <3>2. conn' = [conn EXCEPT ![c] = r]
      BY <2>1, <3>1 DEF ViewInv, TypeInv, ConnTypes
    <3>3. more \subseteq Seqs
      BY <1>2, <2>1 DEF Within
    <3> HIDE DEF more
    <3>4. Within(r)
      BY <2>1, <3>3 DEF Connection, Within
    <3> QED BY <1>1, <2>1, <3>1, <3>2, <3>4, OneBound
  <2>3. CASE conn[c].pc \notin {"claimed", "read"}
    <3> DEFINE n == conn[c].lastSent
               st == Emit([lastSent |-> n, over |-> FALSE, out |-> <<>>], seq)
    <3>1. Sends(c, conn[c], st, FALSE)
      BY <1>4, <2>3 DEF Publish
    <3>2. /\ n \in Nat /\ 1 <= n /\ seq <= n + 1 /\ n \in Seqs
      <4>1. n \in Nat /\ 1 <= n /\ published[active] <= n
        BY <1>4, <2>1, <2>3 DEF Served, Connection
      <4>2. n \in Seqs
        BY <2>1 DEF Within
      <4> QED BY <1>1, <4>1, <4>2
    <3> HIDE DEF n, seq
    <3>3. \/ seq <= n /\ st = [lastSent |-> n, over |-> FALSE, out |-> <<>>]
          \/ seq = n + 1 /\ st = [lastSent |-> seq, over |-> FALSE, out |-> <<Msg("event", seq)>>]
      <4>1. CASE seq <= n
        BY <1>2, <3>2, <4>1, EmitNext
      <4>2. CASE ~(seq <= n)
        <5>1. seq = n + 1
          BY <1>2, <3>2, <4>2
        <5> QED BY <1>2, <3>2, <4>2, <5>1, EmitNext
      <4> QED BY <4>1, <4>2
    <3> HIDE DEF st
    <3>4. st.over = FALSE /\ st.lastSent \in Seqs /\ st.out \in Seq(Sent) /\ Numbered(st.out)
      <4>1. <<>> \in Seq(Sent) /\ Numbered(<<>>)
        BY DEF Numbered
      <4>2. <<Msg("event", seq)>> \in Seq(Sent) /\ Numbered(<<Msg("event", seq)>>)
        BY <1>2 DEF Msg, Sent, Numbered
      <4>3. CASE st = [lastSent |-> n, over |-> FALSE, out |-> <<>>]
        BY <3>2, <4>1, <4>3
      <4>4. CASE st = [lastSent |-> seq, over |-> FALSE, out |-> <<Msg("event", seq)>>]
        BY <1>2, <4>2, <4>4
      <4> QED BY <3>3, <4>3, <4>4
    <3> DEFINE r == [conn[c] EXCEPT !.pc = "live", !.lastSent = st.lastSent,
                                    !.buffer = {}, !.view = 0, !.after = 0]
               w == wire[c] \o st.out \o <<>>
    <3>5. conn' = [conn EXCEPT ![c] = r]
          /\ (wire' = [wire EXCEPT ![c] = w] \/ wire' = [wire EXCEPT ![c] = wire[c]])
      BY <2>1, <3>1, <3>4 DEF Sends
    <3>6. Within(r)
      BY <2>1, <3>4, SeqsAre DEF Connection, Within
    <3>7. Numbered(w)
      BY <2>1, <3>4, JoinedNumbered
    <3> HIDE DEF r, w
    <3> QED BY <1>1, <2>1, <3>5, <3>6, <3>7, OneBound
  <2> QED BY <2>2, <2>3
<1> QED BY <1>3, <1>4

LEMMA LogBound ==
  ASSUME IsFiniteSet(Session), ViewInv, BoundInv,
         AppendEvent \/ EndTurn \/ \E s \in Session : StartTurn(s)
  PROVE  BoundInv'
<1>1. UNCHANGED <<conn, wire, source, screen, load>>
  BY DEF AppendEvent, EndTurn, StartTurn, server, client
<1>2. onFile' \in [Session -> Seqs]
  <2>1. CASE AppendEvent
    <3>1. /\ active \in Session /\ onFile' = [onFile EXCEPT ![active] = onFile[active] + 1]
          /\ Cardinality(Events) < MaxSeq
      BY <2>1 DEF AppendEvent, ViewInv, TypeInv, LogTypes
    <3>2. onFile[active] + 1 \in Seqs
      BY <3>1, RoomOnFile DEF BoundInv
    <3> QED BY <3>1, <3>2 DEF BoundInv
  <2>2. CASE ~AppendEvent
    BY <2>2 DEF EndTurn, StartTurn, BoundInv
  <2> QED BY <2>1, <2>2
<1> QED BY <1>1, <1>2 DEF BoundInv

\* One part of a snapshot is read, and the other is left as it is.
LEMMA ReadLoad ==
  ASSUME ViewInv, NEW l \in Load, NEW part \in {"view", "trace"}, NEW n \in Nat, Read(l, part, n)
  PROVE  \E r : load' = [load EXCEPT ![l] = r] /\ r.view = IF part = "view" THEN n ELSE load[l].view
<1>1. load \in [Load -> Snapshot] /\ load[l] \in Snapshot
      /\ onFile \in [Session -> Nat] /\ active \in Session \cup {None}
  BY DEF ViewInv, TypeInv, ClientTypes, LogTypes
<1> DEFINE r0 == [load[l] EXCEPT ![part] = n]
           x == IF part = "view" THEN active ELSE load[l].active
           r == [r0 EXCEPT !.active = x]
<1>2. load' = [[load EXCEPT ![l] = r0] EXCEPT ![l] = [[load EXCEPT ![l] = r0][l] EXCEPT !.active = x]]
  BY DEF Read
<1>3. /\ r0 \in Snapshot /\ x \in Session \cup {None}
      /\ r0.view = IF part = "view" THEN n ELSE load[l].view
  BY <1>1 DEF Snapshot
<1> HIDE DEF r0, x
<1>4. load' = [load EXCEPT ![l] = r]
  BY <1>1, <1>2
<1>5. r.view = r0.view
  BY <1>3 DEF Snapshot
<1> HIDE DEF r
<1> QED BY <1>3, <1>4, <1>5

(* What a snapshot reads is what is on file then.                          *)
LEMMA LoadBound ==
  ASSUME ViewInv, BoundInv, NEW l \in Load,
         ReadSnapshot(l) \/ LoadFails(l) \/ \E s \in Session : Select(l, s)
  PROVE  BoundInv'
<1>1. UNCHANGED <<onFile, conn, wire, source, screen>>
  BY DEF ReadSnapshot, Read, LoadFails, Select, log, server
<1>2. load \in [Load -> Snapshot] /\ load[l] \in Snapshot /\ load[l].view \in Seqs \cup {None}
  BY DEF ViewInv, TypeInv, ClientTypes, BoundInv
<1>3. \E r : load' = [load EXCEPT ![l] = r] /\ r.view \in Seqs \cup {None}
  <2>1. CASE ReadSnapshot(l)
    <3> DEFINE n == onFile[load[l].session]
    <3>1. load[l].session \in Session
      BY <1>2, <2>1 DEF ReadSnapshot, Snapshot
    <3>2. n \in Seqs
      BY <3>1 DEF BoundInv
    <3>3. /\ Read(l, "view", n) \/ Read(l, "trace", IF n < Page THEN n ELSE Page)
          /\ n \in Nat /\ (IF n < Page THEN n ELSE Page) \in Nat
      BY <2>1, <3>2, SeqsAre, StreamAssumption DEF ReadSnapshot
    <3> HIDE DEF n
    <3>4. CASE Read(l, "view", n)
      <4>1. PICK r : load' = [load EXCEPT ![l] = r] /\ r.view = n
        BY <3>3, <3>4, ReadLoad
      <4> QED BY <3>2, <4>1
    <3>5. CASE Read(l, "trace", IF n < Page THEN n ELSE Page)
      <4>1. PICK r : load' = [load EXCEPT ![l] = r] /\ r.view = load[l].view
        BY <3>3, <3>5, ReadLoad
      <4> QED BY <1>2, <4>1
    <3> QED BY <3>3, <3>4, <3>5
  <2>2. CASE LoadFails(l)
    <3>1. load' = [load EXCEPT ![l] = NoLoad] /\ NoLoad.view = None
      BY <2>2 DEF LoadFails, NoLoad
    <3> QED BY <3>1
  <2>3. CASE \E s \in Session : Select(l, s)
    <3>1. PICK s \in Session : load' = [load EXCEPT ![l].session = s]
      BY <2>3 DEF Select
    <3> DEFINE r == [load[l] EXCEPT !.session = s]
    <3>2. load' = [load EXCEPT ![l] = r] /\ r.view = load[l].view
      BY <1>2, <3>1 DEF Snapshot
    <3> HIDE DEF r
    <3> QED BY <1>2, <3>2
  <2> QED BY <2>1, <2>2, <2>3
<1>4. \A k \in Load : load'[k].view \in Seqs \cup {None}
  BY <1>2, <1>3 DEF BoundInv
<1> QED BY <1>1, <1>4 DEF BoundInv

LEMMA ConnectBound ==
  ASSUME ViewInv, BoundInv, NEW s, NEW after \in Seqs, NEW ends, Connect(s, after, ends),
         onFile' = onFile, screen'.view \in Seqs,
         \A l \in Load : load'[l].view \in Seqs \cup {None}
  PROVE  BoundInv'
<1> DEFINE asked == [NoConn EXCEPT !.pc = "asked", !.session = s, !.after = after]
<1>1. PICK c \in Conn :
        /\ source' = [conn |-> c, session |-> s, after |-> after, state |-> "on"]
        /\ conn' = [d \in Conn |-> IF d = c THEN asked ELSE IF d = ends THEN Left(d) ELSE conn[d]]
        /\ wire' = [d \in Conn |-> IF d \in {c, ends} THEN <<>> ELSE wire[d]]
  BY DEF Connect
<1>2. Within(asked)
  BY SeqsAre DEF NoConn, Within
<1> HIDE DEF asked
<1>3. source'.after \in Seqs
  BY <1>1
<1>4. ASSUME NEW d \in Conn
      PROVE  Within(conn'[d]) /\ Numbered(wire'[d])
  <2>1. Within(conn[d]) /\ Within(Left(d)) /\ Numbered(wire[d])
    BY OverWithin DEF BoundInv, ViewInv, TypeInv, ConnTypes
  <2>2. Numbered(<<>>)
    BY DEF Numbered
  <2>3. conn'[d] \in {asked, Left(d), conn[d]} /\ wire'[d] \in {<<>>, wire[d]}
    BY <1>1
  <2> QED BY <1>2, <2>1, <2>2, <2>3
<1> QED BY <1>3, <1>4 DEF BoundInv, Within, Numbered

LEMMA ClosedBound ==
  ASSUME ViewInv, BoundInv, source.conn \in Conn, NEW state, Closed(state),
         onFile' = onFile, load' = load, screen'.view = screen.view
  PROVE  BoundInv'
<1> DEFINE c == source.conn
<1>1. conn' = [conn EXCEPT ![c] = Left(c)] /\ wire' = [wire EXCEPT ![c] = <<>>]
  BY DEF Closed
<1>2. source'.after \in Seqs
  <2>1. source \in Source
    BY DEF ViewInv, TypeInv, ClientTypes
  <2>2. \/ source' = [source EXCEPT !.conn = None, !.state = state]
        \/ source' = [NoSource EXCEPT !.state = state]
    BY DEF Closed
  <2>3. CASE source' = [source EXCEPT !.conn = None, !.state = state]
    BY <2>1, <2>3 DEF Source, BoundInv
  <2>4. CASE source' = [NoSource EXCEPT !.state = state]
    BY <2>4, SeqsAre DEF NoSource
  <2> QED BY <2>2, <2>3, <2>4
<1>3. ASSUME NEW d \in Conn
      PROVE  Within(conn'[d]) /\ Numbered(wire'[d])
  <2>1. Within(conn[d]) /\ Within(Left(d)) /\ Numbered(wire[d])
    BY OverWithin DEF BoundInv, ViewInv, TypeInv, ConnTypes
  <2>2. Numbered(<<>>)
    BY DEF Numbered
  <2>3. conn'[d] \in {Left(d), conn[d]} /\ wire'[d] \in {<<>>, wire[d]}
    BY <1>1 DEF ViewInv, TypeInv, ConnTypes
  <2> QED BY <2>1, <2>2, <2>3
<1> QED BY <1>2, <1>3 DEF BoundInv, Within, Numbered

(* A client shows and asks for what it read or was sent.                   *)
LEMMA ClientBound ==
  ASSUME ViewInv, BoundInv, Receive \/ Drop \/ Reconnect \/ \E l \in Load : Apply(l)
  PROVE  BoundInv'
<1>1. onFile' = onFile /\ screen \in Screen /\ source.conn \in Conn \cup {None}
  BY DEF Receive, Drop, Reconnect, Apply, log, ViewInv, TypeInv, ClientTypes, Source
<1>2. CASE Receive
  <2> DEFINE c == source.conn
             m == Head(wire[c])
  <2>1. c \in Conn /\ wire[c] # <<>> /\ load' = load
    BY <1>1, <1>2 DEF Receive
  <2>2. wire[c] \in Seq(Sent) /\ Numbered(wire[c])
    BY <2>1 DEF ViewInv, TypeInv, ConnTypes, BoundInv
  <2>3. m = wire[c][1] /\ m.seq \in Seqs /\ Numbered(Tail(wire[c]))
    <3> DEFINE w == wire[c]
    <3>1. w \in Seq(Sent) /\ w # <<>> /\ Numbered(w)
      BY <2>1, <2>2
    <3> HIDE DEF w
    <3>2. /\ Len(w) \in Nat /\ 1 <= Len(w) /\ Head(w) = w[1] /\ Len(Tail(w)) = Len(w) - 1
          /\ Tail(w) \in Seq(Sent)
          /\ \A i \in 1..(Len(w) - 1) : Tail(w)[i] = w[i + 1]
      BY <3>1, TailOf
    <3>3. DOMAIN w = 1..Len(w) /\ DOMAIN Tail(w) = 1..(Len(w) - 1)
      BY <3>1, <3>2
    <3>4. w[1].seq \in Seqs
      BY <3>1, <3>2, <3>3 DEF Numbered
    <3>5. ASSUME NEW i \in 1..(Len(w) - 1)
          PROVE  Tail(w)[i].seq \in Seqs
      <4>1. i + 1 \in 1..Len(w)
        BY <3>2
      <4> QED BY <3>1, <3>2, <3>3, <4>1 DEF Numbered
    <3>6. Head(w) = w[1] /\ w[1].seq \in Seqs /\ Numbered(Tail(w))
      BY <3>2, <3>3, <3>4, <3>5 DEF Numbered
    <3> QED BY <3>6 DEF w
  <2>4. \/ ShowEvent(m.seq)
        \/ \E state : Closed(state) /\ (screen' = screen \/ screen' = [screen EXCEPT !.resync = TRUE])
    BY <1>2 DEF Receive
  <2>5. CASE ShowEvent(m.seq)
    <3> HIDE DEF m
    <3>1. /\ UNCHANGED <<source, conn>> /\ wire' = [wire EXCEPT ![c] = Tail(wire[c])]
          /\ screen' = IF screen.session # source.session THEN screen
                       ELSE [screen EXCEPT !.view = m.seq, !.trace = @ \cup {m.seq}]
      BY <2>5 DEF ShowEvent
    <3>2. screen'.view \in Seqs
      <4>1. CASE screen' = screen
        BY <4>1 DEF BoundInv
      <4>2. CASE screen' = [screen EXCEPT !.view = m.seq, !.trace = @ \cup {m.seq}]
        BY <1>1, <2>3, <4>2 DEF Screen
      <4> QED BY <3>1, <4>1, <4>2
    <3>3. ASSUME NEW d \in Conn
          PROVE  Numbered(wire'[d])
      <4>1. wire'[d] \in {wire[d], Tail(wire[c])} /\ (wire'[d] = Tail(wire[c]) \/ wire'[d] = wire[d])
        BY <3>1 DEF ViewInv, TypeInv, ConnTypes
      <4> QED BY <2>3, <4>1 DEF BoundInv
    <3> QED BY <1>1, <2>1, <3>1, <3>2, <3>3 DEF BoundInv, Within, Numbered
  <2>6. ASSUME NEW state, Closed(state),
               screen' = screen \/ screen' = [screen EXCEPT !.resync = TRUE]
        PROVE  BoundInv'
    <3>1. screen'.view = screen.view
      BY <1>1, <2>6 DEF Screen
    <3> QED BY <1>1, <2>1, <2>6, <3>1, ClosedBound
  <2> QED BY <2>4, <2>5, <2>6
<1>3. CASE Drop
  BY <1>1, <1>3, ClosedBound DEF Drop
<1>4. CASE Reconnect
  BY <1>1, <1>4, ConnectBound DEF Reconnect, BoundInv
<1>5. ASSUME NEW l \in Load, Apply(l)
      PROVE  BoundInv'
  <2> DEFINE s == load[l].session
             v == load[l].view
             bound == IF load[l].active = None THEN s ELSE load[l].active
             seen == [lastSeq EXCEPT ![s] = load[l].trace]
  <2>1. /\ s # None /\ v # None /\ lastSeq' = seen
        /\ screen' = [session |-> s, view |-> v, trace |-> 1..load[l].trace, resync |-> FALSE]
        /\ Connect(bound, seen[bound], source.conn)
        /\ load' = [load EXCEPT ![l] = NoLoad]
    BY <1>5 DEF Apply
  <2>2. load \in [Load -> Snapshot] /\ load[l] \in Snapshot /\ v \in Seqs
    BY <2>1 DEF ViewInv, TypeInv, ClientTypes, BoundInv
  <2>3. bound \in Session
    BY <2>1, <2>2 DEF Snapshot
  <2>4. lastSeq'[bound] \in Seqs
    <3>1. ViewInv'
      BY <1>5, ApplyView
    <3>2. lastSeq'[bound] \in Nat /\ lastSeq'[bound] <= onFile[bound] /\ onFile[bound] \in Seqs
      BY <1>1, <2>3, <3>1 DEF ViewInv, TypeInv, ClientTypes, SeenOnFile, BoundInv
    <3> QED BY <3>2, SeqsAre
  <2> HIDE DEF bound, seen, v, s
  <2>5. screen'.view \in Seqs
    BY <2>1, <2>2
  <2>6. \A k \in Load : load'[k].view \in Seqs \cup {None}
    <3>1. NoLoad.view = None
      BY DEF NoLoad
    <3>2. \A k \in Load : load'[k] = NoLoad \/ load'[k] = load[k]
      BY <2>1, <2>2
    <3> QED BY <3>1, <3>2 DEF BoundInv
  <2>7. Connect(bound, lastSeq'[bound], source.conn)
    BY <2>1
  <2> QED BY <1>1, <2>4, <2>5, <2>6, <2>7, ConnectBound
<1> QED BY <1>2, <1>3, <1>4, <1>5

(* The variables keep their types, with their bounds: what a connection    *)
(* has, sends or asks for, what a snapshot reads and what is shown are     *)
(* numbers of events on file, and who has no session is free or over.      *)
THEOREM StreamTypes ==
  ASSUME IsFiniteSet(Session), MaxSeq # 0
  PROVE  Spec => []TypeOK
<1>1. Init => BoundInv
  <2> SUFFICES ASSUME Init PROVE BoundInv
    OBVIOUS
  <2>1. 1 \in Seqs /\ 0 \in Seqs
    BY StreamAssumption DEF Seqs
  <2>2. /\ onFile = [s \in Session |-> 1]
        /\ conn = [c \in Conn |-> NoConn] /\ wire = [c \in Conn |-> <<>>]
        /\ source.after = 0 /\ screen.view = 0 /\ load = [l \in Load |-> NoLoad]
    BY DEF Init, NoSource
  <2>3. Within(NoConn) /\ Numbered(<<>>) /\ NoLoad.view = None
    BY <2>1 DEF NoConn, Within, Numbered, NoLoad
  <2> QED BY <2>1, <2>2, <2>3 DEF BoundInv
<1>2. StreamInv /\ ViewInv /\ BoundInv /\ [Next]_vars => BoundInv'
  <2> SUFFICES ASSUME StreamInv, ViewInv, BoundInv, [Next]_vars
               PROVE  BoundInv'
    OBVIOUS
  <2>1. CASE UNCHANGED vars
    BY <2>1 DEF vars, BoundInv, Within, Numbered
  <2>2. CASE ServerStep \/ \E c \in Conn : ReadFails(c)
    BY <2>2, ServerBound DEF ServerStep
  <2>3. CASE ClientStep \/ Drop
    BY <2>3, ClientBound, LoadBound DEF ClientStep
  <2>4. CASE AppendEvent \/ EndTurn \/ \E s \in Session : StartTurn(s)
    BY <2>4, LogBound
  <2>5. CASE Publish
    BY <2>5, PublishBound
  <2>6. ASSUME NEW l \in Load, LoadFails(l) \/ \E s \in Session : Select(l, s)
        PROVE  BoundInv'
    BY <2>6, LoadBound
  <2> QED BY <2>1, <2>2, <2>3, <2>4, <2>5, <2>6 DEF Next
<1>3. StreamInv /\ ViewInv /\ BoundInv => TypeOK
  <2> SUFFICES ASSUME StreamInv, ViewInv, BoundInv PROVE TypeOK
    OBVIOUS
  <2>1. /\ onFile \in [Session -> Seqs] /\ published \in [Session -> Seqs]
        /\ lastSeq \in [Session -> Seqs] /\ \A s \in Session : lastSeq[s] <= onFile[s]
    <3>1. /\ onFile \in [Session -> Seqs] /\ published \in [Session -> Nat]
          /\ lastSeq \in [Session -> Nat]
          /\ \A s \in Session : published[s] <= onFile[s] /\ lastSeq[s] <= onFile[s]
      BY DEF ViewInv, TypeInv, LogTypes, ClientTypes, LogInv, SeenOnFile, BoundInv
    <3>2. \A s \in Session : published[s] \in Seqs /\ lastSeq[s] \in Seqs
      BY <3>1, SeqsAre
    <3> QED BY <3>1, <3>2
  <2>2. active \in Session \cup {None} /\ lease \in Conn \cup {None}
    BY DEF StreamInv, LeaseInv, ViewInv, TypeInv, LogTypes
  <2>3. conn \in [Conn -> [pc: Places, session: Session \cup {None}, after: Seqs, view: Seqs,
                           buffer: SUBSET Seqs, lastSent: Seqs, gone: BOOLEAN]]
    <3>1. ASSUME NEW c \in Conn
          PROVE  conn[c] \in [pc: Places, session: Session \cup {None}, after: Seqs, view: Seqs,
                              buffer: SUBSET Seqs, lastSent: Seqs, gone: BOOLEAN]
      BY DEF ViewInv, TypeInv, ConnTypes, Connection, BoundInv, Within
    <3> QED BY <3>1 DEF ViewInv, TypeInv, ConnTypes
  <2>4. \A c \in Conn : conn[c].session = None <=> conn[c].pc \in {"free", "over"}
    BY StreamAssumption DEF ViewInv, ServedInv, Served
  <2>5. ASSUME NEW c \in Conn, NEW i \in DOMAIN wire[c]
        PROVE  wire[c][i] \in Message
    <3>1. wire[c] \in Seq(Sent) /\ wire[c][i].seq \in Seqs
      BY DEF ViewInv, TypeInv, ConnTypes, BoundInv, Numbered
    <3>2. wire[c][i] \in Sent
      BY <3>1
    <3> QED BY <3>1, <3>2 DEF Sent, Message
  <2>6. source \in [conn: Conn \cup {None}, session: Session \cup {None}, after: Seqs,
                    state: {"none", "on", "lost", "closed", "dead"}]
    BY DEF ViewInv, TypeInv, ClientTypes, Source, BoundInv
  <2>7. screen \in [session: Session \cup {None}, view: Seqs, trace: SUBSET Seqs,
                    resync: BOOLEAN]
    <3>1. screen \in Screen /\ screen.view \in Seqs /\ screen.session \in Session \cup {None}
      BY DEF ViewInv, TypeInv, ClientTypes, Screen, BoundInv
    <3>2. screen.trace \subseteq Seqs
      <4>1. CASE screen.session = None
        BY <4>1 DEF ViewInv, ScreenInv
      <4>2. CASE screen.session # None
        <5> DEFINE n == lastSeq[screen.session]
        <5>1. screen.trace = 1..n /\ n \in Seqs
          BY <2>1, <3>1, <4>2 DEF ViewInv, ScreenInv
        <5>2. ASSUME NEW k \in 1..n
              PROVE  k \in Seqs
          <6> HIDE DEF n
          <6>1. n \in Nat
            BY <5>1, SeqsAre
          <6>2. k \in Nat /\ k <= n
            BY <6>1
          <6> QED BY <5>1, <6>2, SeqsAre
        <5> QED BY <5>1, <5>2
      <4> QED BY <4>1, <4>2
    <3> QED BY <3>1, <3>2 DEF Screen
  <2> QED BY <2>1, <2>2, <2>3, <2>4, <2>5, <2>6, <2>7 DEF TypeOK, Places
<1> QED BY ViewAlways, <1>1, <1>2, <1>3, PTL DEF Spec
=============================================================================
