------------------------- MODULE ProviderCallProofs -------------------------
(***************************************************************************)
(* For every answer a model can give: one answer is heard, its calls are   *)
(* handed on whole, and its reasoning is kept.                             *)
(***************************************************************************)
EXTENDS ProviderCall, FiniteSetTheorems, SequenceTheorems, Integers, TLAPS

-----------------------------------------------------------------------------
(* Numbers in order                                                        *)

LEMMA PrefixGrows ==
  ASSUME NEW S, NEW s \in Seq(S), NEW n \in Nat, n < Len(s)
  PROVE  SubSeq(s, 1, n + 1) = Append(SubSeq(s, 1, n), s[n + 1])
OBVIOUS

LEMMA AppendFacts ==
  ASSUME NEW S, NEW s \in Seq(S), NEW e \in S
  PROVE  /\ Append(s, e) \in Seq(S) /\ Len(s) \in Nat
         /\ DOMAIN s = 1 .. Len(s) /\ DOMAIN Append(s, e) = 1 .. Len(s) + 1
         /\ Append(s, e)[Len(s) + 1] = e
         /\ \A j \in DOMAIN s : Append(s, e)[j] = s[j]
OBVIOUS

LEMMA RanksGrow ==
  ASSUME NEW n \in Nat, NEW P \in SUBSET (1 .. n)
  PROVE  /\ Cardinality(P) \in Nat
         /\ Cardinality(P \cup {n + 1}) = Cardinality(P) + 1
         /\ \A k \in 1 .. Cardinality(P) : Ranked(P \cup {n + 1}, k) = Ranked(P, k)
         /\ Ranked(P \cup {n + 1}, Cardinality(P) + 1) = {n + 1}
<1> DEFINE Q == P \cup {n + 1}
           Below(S, j) == {m \in S : m <= j}
<1>1. IsFiniteSet(P) /\ Cardinality(P) \in Nat
  <2>1. IsFiniteSet(1 .. n)
    BY FS_Interval
  <2>2. IsFiniteSet(P)
    BY <2>1, FS_Subset
  <2> QED BY <2>2, FS_CardinalityType
<1>2. n + 1 \notin P
  OBVIOUS
<1>3. Cardinality(Q) = Cardinality(P) + 1
  BY <1>1, <1>2, FS_AddElement
<1>4. \A j \in P : Below(Q, j) = Below(P, j)
  OBVIOUS
<1>5. Below(Q, n + 1) = Q
  <2>1. \A m \in Q : m <= n + 1
    OBVIOUS
  <2> QED BY <2>1
<1>6. \A j \in P : Cardinality(Below(P, j)) \in Nat /\ Cardinality(Below(P, j)) <= Cardinality(P)
  <2> TAKE j \in P
  <2>1. Below(P, j) \in SUBSET P
    OBVIOUS
  <2> QED BY <1>1, <2>1, FS_Subset, FS_CardinalityType
<1>7. ASSUME NEW k \in 1 .. Cardinality(P)
      PROVE  Ranked(Q, k) = Ranked(P, k)
  <2>1. Cardinality(Below(Q, n + 1)) # k
    <3>1. Cardinality(Below(Q, n + 1)) = Cardinality(P) + 1
      BY <1>3, <1>5
    <3> QED BY <1>1, <3>1
  <2>2. \A j \in Q : Cardinality(Below(Q, j)) = k <=> j \in P /\ Cardinality(Below(P, j)) = k
    BY <1>4, <2>1
  <2> QED BY <2>2 DEF Ranked
<1>8. Ranked(Q, Cardinality(P) + 1) = {n + 1}
  <2>1. \A j \in Q : Cardinality(Below(Q, j)) = Cardinality(P) + 1 <=> j = n + 1
    BY <1>1, <1>3, <1>4, <1>5, <1>6
  <2> QED BY <2>1 DEF Ranked
<1> QED BY <1>1, <1>3, <1>7, <1>8

(* The places of P, as a sequence.                                         *)
LEMMA OrderIsSeq ==
  ASSUME NEW P, Cardinality(P) \in Nat
  PROVE  /\ DOMAIN InOrder(P) = 1 .. Cardinality(P)
         /\ Len(InOrder(P)) = Cardinality(P)
         /\ \E S : InOrder(P) \in Seq(S)
<1> DEFINE o == InOrder(P)
           S == {o[k] : k \in 1 .. Cardinality(P)}
<1>1. DOMAIN o = 1 .. Cardinality(P)
  BY DEF InOrder
<1>2. o = [k \in 1 .. Cardinality(P) |-> o[k]]
  BY DEF InOrder
<1> HIDE DEF o
<1>3. o \in [1 .. Cardinality(P) -> S]
  BY <1>1, <1>2
<1> HIDE DEF S
<1>4. o \in Seq(S)
  BY <1>3
<1> QED BY <1>1, <1>4 DEF o

LEMMA OrderGrows ==
  ASSUME NEW n \in Nat, NEW P \in SUBSET (1 .. n)
  PROVE  /\ DOMAIN InOrder(P \cup {n + 1}) = 1 .. Cardinality(P) + 1
         /\ \A k \in 1 .. Cardinality(P) : InOrder(P \cup {n + 1})[k] = InOrder(P)[k]
         /\ InOrder(P \cup {n + 1})[Cardinality(P) + 1] = n + 1
<1> DEFINE Q == P \cup {n + 1}
           c == Cardinality(P)
<1>1. /\ c \in Nat /\ Cardinality(Q) = c + 1
      /\ \A k \in 1 .. c : Ranked(Q, k) = Ranked(P, k)
      /\ Ranked(Q, c + 1) = {n + 1}
  BY RanksGrow
<1> HIDE DEF Q
<1>2. DOMAIN InOrder(Q) = 1 .. c + 1
  BY <1>1 DEF InOrder
<1>3. ASSUME NEW k \in 1 .. c
      PROVE  InOrder(Q)[k] = InOrder(P)[k]
  <2>1. InOrder(Q)[k] = CHOOSE j \in Ranked(Q, k) : TRUE
    BY <1>1 DEF InOrder
  <2>2. InOrder(P)[k] = CHOOSE j \in Ranked(P, k) : TRUE
    BY <1>1 DEF InOrder
  <2>3. Ranked(Q, k) = Ranked(P, k)
    BY <1>1
  <2> QED BY <2>1, <2>2, <2>3
<1>4. InOrder(Q)[c + 1] = n + 1
  <2>1. InOrder(Q)[c + 1] = CHOOSE j \in Ranked(Q, c + 1) : TRUE
    BY <1>1 DEF InOrder
  <2>2. InOrder(Q)[c + 1] = CHOOSE j \in {n + 1} : TRUE
    BY <1>1, <2>1
  <2> QED BY <2>2
<1> QED BY <1>2, <1>3, <1>4 DEF Q

LEMMA IntervalInOrder ==
  ASSUME NEW n \in Nat
  PROVE  InOrder(1 .. n) = [k \in 1 .. n |-> k]
<1>1. Cardinality(1 .. n) = n
  BY FS_Interval
<1>2. ASSUME NEW k \in 1 .. n
      PROVE  Ranked(1 .. n, k) = {k}
  <2>1. \A j \in 1 .. n : {m \in 1 .. n : m <= j} = 1 .. j
    OBVIOUS
  <2>2. \A j \in 1 .. n : Cardinality(1 .. j) = j
    BY FS_Interval
  <2>3. \A j \in 1 .. n : Cardinality({m \in 1 .. n : m <= j}) = j
    BY <2>1, <2>2
  <2> QED BY <2>3 DEF Ranked
<1>3. \A k \in 1 .. n : (CHOOSE j \in Ranked(1 .. n, k) : TRUE) = k
  BY <1>2
<1> QED BY <1>1, <1>3 DEF InOrder

-----------------------------------------------------------------------------
(* The arguments that the fragments of a call carry                        *)

Braces == {"{", "}"}

LEMMA BracesAreText ==
  /\ None \in Seq(Braces) /\ Len(None) = 0
  /\ Whole \in Seq(Braces) /\ Len(Whole) = 2
<1>1. None \in Seq(Braces) /\ Whole \in Seq(Braces)
  BY DEF None, Whole, Braces
<1>2. Len(None) = 0
  BY DEF None
<1>3. Len(Whole) = 2
  BY DEF Whole
<1> QED BY <1>1, <1>2, <1>3

Pieces == {None} \cup {<<t>> : t \in Braces}

Fragment ==
  [index : Nat, id : Text \cup {<<"call", i>> : i \in Nat}, args : Pieces]

PiecesOf(fs, i) == {j \in DOMAIN fs : fs[j].index = i /\ fs[j].args # None}

ArgsIn(fs, i) == [k \in DOMAIN InOrder(PiecesOf(fs, i)) |-> fs[InOrder(PiecesOf(fs, i))[k]].args[1]]

(* Each place in the order is the place of a piece.                        *)
Listed(fs, i) ==
  \A k \in DOMAIN InOrder(PiecesOf(fs, i)) : InOrder(PiecesOf(fs, i))[k] \in PiecesOf(fs, i)

LEMMA ArgsAreTheirs == \A i : ArgsOf(i) = ArgsIn(fragments, i)
<1> TAKE i
<1>1. {j \in FragmentsOf(i) : fragments[j].args # None} = PiecesOf(fragments, i)
  BY DEF FragmentsOf, PiecesOf
<1> QED BY <1>1 DEF ArgsOf, ArgsIn

LEMMA ArgsAreSeq ==
  ASSUME NEW fs \in Seq(Fragment), NEW i
  PROVE  /\ DOMAIN ArgsIn(fs, i) = 1 .. Cardinality(PiecesOf(fs, i))
         /\ Cardinality(PiecesOf(fs, i)) \in Nat
         /\ Len(ArgsIn(fs, i)) = Cardinality(PiecesOf(fs, i))
         /\ \E S : ArgsIn(fs, i) \in Seq(S)
<1> DEFINE P == PiecesOf(fs, i)
           a == ArgsIn(fs, i)
           S == {a[k] : k \in DOMAIN a}
<1>1. Cardinality(P) \in Nat
  <2>1. P \in SUBSET (1 .. Len(fs)) /\ IsFiniteSet(1 .. Len(fs))
    BY FS_Interval DEF PiecesOf
  <2>2. IsFiniteSet(P)
    BY <2>1, FS_Subset
  <2> QED BY <2>2, FS_CardinalityType
<1>2. DOMAIN a = 1 .. Cardinality(P)
  BY <1>1, OrderIsSeq DEF ArgsIn
<1>3. a = [k \in DOMAIN a |-> a[k]]
  BY DEF ArgsIn
<1> HIDE DEF a
<1>4. a \in [1 .. Cardinality(P) -> S]
  BY <1>2, <1>3
<1> HIDE DEF S, P
<1>5. a \in Seq(S)
  BY <1>1, <1>4
<1> QED BY <1>1, <1>2, <1>5 DEF a, P

(* A piece that comes for a call is the last of its arguments.             *)
LEMMA PieceIsLast ==
  ASSUME NEW fs \in Seq(Fragment), NEW f \in Fragment, f.args # None, Listed(fs, f.index)
  PROVE  /\ ArgsIn(Append(fs, f), f.index) = Append(ArgsIn(fs, f.index), f.args[1])
         /\ Listed(Append(fs, f), f.index)
<1> DEFINE i  == f.index
           n  == Len(fs)
           gs == Append(fs, f)
           P  == PiecesOf(fs, i)
           Q  == PiecesOf(gs, i)
           c  == Cardinality(P)
<1>0. n \in Nat /\ DOMAIN fs = 1 .. n /\ P \in SUBSET (1 .. n)
  BY DEF PiecesOf
<1>1. DOMAIN gs = 1 .. n + 1 /\ gs[n + 1] = f /\ \A j \in 1 .. n : gs[j] = fs[j]
  OBVIOUS
<1>2. Q = P \cup {n + 1}
  BY <1>0, <1>1 DEF PiecesOf
<1>3. c \in Nat /\ DOMAIN InOrder(P) = 1 .. c
  BY ArgsAreSeq, OrderIsSeq
<1>4. /\ DOMAIN InOrder(Q) = 1 .. c + 1
      /\ \A k \in 1 .. c : InOrder(Q)[k] = InOrder(P)[k]
      /\ InOrder(Q)[c + 1] = n + 1
  <2> HIDE DEF P, Q, n
  <2> QED BY <1>0, <1>2, OrderGrows
<1>5. \A k \in 1 .. c : InOrder(P)[k] \in P
  BY <1>3 DEF Listed
<1>6. Listed(gs, i)
  <2>1. \A k \in 1 .. c + 1 : k \in 1 .. c \/ k = c + 1
    BY <1>3
  <2>2. \A k \in 1 .. c + 1 : InOrder(Q)[k] \in Q
    BY <1>2, <1>4, <1>5, <2>1
  <2> QED BY <1>4, <2>2 DEF Listed
<1>7. ArgsIn(gs, i) = Append(ArgsIn(fs, i), f.args[1])
  <2> DEFINE old == ArgsIn(fs, i)
             new == ArgsIn(gs, i)
             piece == f.args[1]
  <2>1. DOMAIN new = 1 .. c + 1 /\ new = [k \in 1 .. c + 1 |-> new[k]]
    BY <1>4 DEF ArgsIn
  <2>2. Len(old) = c /\ \E S : old \in Seq(S)
    BY ArgsAreSeq
  <2>3. \A k \in 1 .. c : new[k] = old[k]
    <3> TAKE k \in 1 .. c
    <3>0. k \in 1 .. c + 1
      BY <1>3
    <3>1. new[k] = gs[InOrder(Q)[k]].args[1]
      BY <1>4, <3>0 DEF ArgsIn
    <3>2. old[k] = fs[InOrder(P)[k]].args[1]
      BY <1>3 DEF ArgsIn
    <3>3. InOrder(Q)[k] = InOrder(P)[k] /\ InOrder(P)[k] \in 1 .. n
      BY <1>0, <1>4, <1>5
    <3> QED BY <1>1, <3>1, <3>2, <3>3
  <2>4. new[c + 1] = piece
    <3>1. c + 1 \in 1 .. c + 1
      BY <1>3
    <3>2. new[c + 1] = gs[InOrder(Q)[c + 1]].args[1]
      BY <1>4, <3>1 DEF ArgsIn
    <3> QED BY <1>1, <1>4, <3>2
  <2> HIDE DEF new, old, piece, c
  <2>5. Append(old, piece) = [k \in 1 .. c + 1 |-> IF k <= c THEN old[k] ELSE piece]
    <3>1. PICK S : old \in Seq(S)
      BY <2>2
    <3>2. old \in Seq(S \cup {piece}) /\ piece \in S \cup {piece}
      BY <3>1
    <3>3. Append(old, piece) \in Seq(S \cup {piece}) /\ Len(Append(old, piece)) = c + 1
      BY <2>2, <3>2
    <3>4. \A k \in 1 .. c + 1 : Append(old, piece)[k] = IF k <= c THEN old[k] ELSE piece
      BY <1>3, <2>2, <3>2
    <3> DEFINE r == Append(old, piece)
    <3> HIDE DEF r
    <3>5. r \in [1 .. c + 1 -> S \cup {piece}]
      <4> DEFINE T == S \cup {piece}
      <4>1. r \in Seq(T) /\ Len(r) = c + 1
        BY <3>3 DEF r
      <4> HIDE DEF T
      <4>2. r \in [1 .. Len(r) -> T]
        BY <4>1, LenProperties
      <4> QED BY <4>1, <4>2 DEF T
    <3>6. r = [k \in 1 .. c + 1 |-> r[k]]
      BY <3>5
    <3>7. \A k \in 1 .. c + 1 : r[k] = IF k <= c THEN old[k] ELSE piece
      BY <3>4 DEF r
    <3>8. r = [k \in 1 .. c + 1 |-> IF k <= c THEN old[k] ELSE piece]
      BY <3>6, <3>7
    <3> QED BY <3>8 DEF r
  <2>6. \A k \in 1 .. c + 1 : new[k] = IF k <= c THEN old[k] ELSE piece
    BY <1>3, <2>3, <2>4
  <2>7. new = Append(old, piece)
    BY <2>1, <2>5, <2>6
  <2> QED BY <2>7 DEF new, old, piece
<1> QED BY <1>6, <1>7

(* Other calls are not touched, nor is a call that is only named.          *)
LEMMA OthersStay ==
  ASSUME NEW fs \in Seq(Fragment), NEW f \in Fragment, NEW i,
         f.index # i \/ f.args = None, Listed(fs, i)
  PROVE  ArgsIn(Append(fs, f), i) = ArgsIn(fs, i) /\ Listed(Append(fs, f), i)
<1> DEFINE n  == Len(fs)
           gs == Append(fs, f)
           P  == PiecesOf(fs, i)
<1>1. /\ n \in Nat /\ DOMAIN fs = 1 .. n
      /\ DOMAIN gs = 1 .. n + 1 /\ gs[n + 1] = f /\ \A j \in 1 .. n : gs[j] = fs[j]
  OBVIOUS
<1>2. PiecesOf(gs, i) = P
  BY <1>1 DEF PiecesOf
<1>3. Listed(gs, i)
  BY <1>2 DEF Listed
<1>4. \A k \in DOMAIN InOrder(P) : gs[InOrder(P)[k]] = fs[InOrder(P)[k]]
  BY <1>1 DEF Listed, PiecesOf
<1>5. ArgsIn(gs, i) = ArgsIn(fs, i)
  BY <1>2, <1>4 DEF ArgsIn
<1> QED BY <1>3, <1>5

(* A call nothing was said about has no arguments yet.                     *)
LEMMA NothingSaid ==
  ASSUME NEW fs \in Seq(Fragment), NEW i, \A j \in DOMAIN fs : fs[j].index # i
  PROVE  ArgsIn(fs, i) = <<>> /\ Listed(fs, i)
<1>1. PiecesOf(fs, i) = {}
  BY DEF PiecesOf
<1>2. Cardinality({}) = 0
  BY FS_EmptySet
<1>3. DOMAIN InOrder({}) = {}
  BY <1>2 DEF InOrder
<1>4. Listed(fs, i)
  BY <1>1, <1>3 DEF Listed
<1>5. ArgsIn(fs, i) = <<>>
  BY <1>1, <1>3 DEF ArgsIn
<1> QED BY <1>4, <1>5

-----------------------------------------------------------------------------
(* What was sent and what arrived                                          *)

Delta == [reasoning : Text, content : Text, details : Seq([plain : BOOLEAN, text : Text])]

SentOK ==
  /\ sent \in [text : Nat, reasoning : Nat, calls : Seq(Nat), done : BOOLEAN]
  /\ sent.text <= Len(answer.text) /\ sent.reasoning <= Len(answer.reasoning)
  /\ Len(sent.calls) <= Len(answer.calls)
  /\ \A i \in 1 .. Len(sent.calls) : sent.calls[i] <= Len(answer.calls[i].args)
  /\ sent.done => AllSent

(* A fragment bears the identifier of its call, if the call has one.       *)
NamedRight(f) == answer.calls[f.index].id # None => f.id = answer.calls[f.index].id

HasLast(fs, i) ==
  \E j \in DOMAIN fs : fs[j].index = i /\ \A m \in DOMAIN fs : fs[m].index = i => m <= j

Gathered(fs, i, n) == ArgsIn(fs, i) = SubSeq(answer.calls[i].args, 1, n) /\ Listed(fs, i)

(* The calls that were started are the first ones of the answer, and of    *)
(* each the pieces so far are there, in order.                             *)
FragmentsOK ==
  /\ fragments \in Seq(Fragment)
  /\ Indices = 1 .. Len(sent.calls)
  /\ \A j \in DOMAIN fragments : NamedRight(fragments[j])
  /\ \A i \in 1 .. Len(sent.calls) : HasLast(fragments, i) /\ Gathered(fragments, i, sent.calls[i])

HeardOK ==
  /\ text = SubSeq(answer.text, 1, sent.text)
  /\ reasoning \in Seq(Delta) /\ Len(reasoning) = sent.reasoning

(* Nothing was heard before the stream, and an attempt follows another one *)
(* only on an error that may pass.                                         *)
AttemptOK ==
  /\ at \in {"connecting", "waiting"} =>
       sent = Nothing /\ text = <<>> /\ reasoning = <<>> /\ fragments = <<>>
  /\ failures \in Seq(ConnectErrors \cup {"abort"})
  /\ at \in {"connecting", "streaming"} => Len(failures) + 1 = attempt
  /\ at = "waiting" => attempt < MaxAttempts /\ Len(failures) = attempt
  /\ Len(failures) <= attempt
  /\ \A i \in DOMAIN failures : i < attempt \/ at = "waiting" => failures[i] \notin {"401", "400", "abort"}

StreamInv == TypeOK /\ SentOK /\ FragmentsOK /\ HeardOK /\ AttemptOK

LEMMA AnswerIsSaid ==
  ASSUME answer \in Answer
  PROVE  /\ answer.text \in Seq(STRING) /\ answer.reasoning \in Seq(Delta)
         /\ answer.calls \in Seq([id : Text, args : {None, Whole}])
         /\ answer.finish \in Finish
BY ProviderAssumption DEF Said, Text, Delta

LEMMA CallIsSaid ==
  ASSUME answer \in Answer, NEW i \in DOMAIN answer.calls
  PROVE  /\ i \in 1 .. Len(answer.calls) /\ Len(answer.calls) \in Nat
         /\ answer.calls[i].id \in Text /\ answer.calls[i].args \in {None, Whole}
         /\ answer.calls[i].args \in Seq(Braces)
<1>1. answer.calls \in Seq([id : Text, args : {None, Whole}])
  BY AnswerIsSaid
<1>2. i \in 1 .. Len(answer.calls) /\ Len(answer.calls) \in Nat
  BY <1>1
<1>3. answer.calls[i] \in [id : Text, args : {None, Whole}]
  BY <1>1, <1>2, ElementOfSeq
<1>4. None \in Seq(Braces) /\ Whole \in Seq(Braces)
  BY BracesAreText
<1> QED BY <1>2, <1>3, <1>4

(* How a piece is kept: at the end, under the name its call has.           *)
KeptAs(i, id, args, g) ==
  /\ Kept(Piece(i, id, args)) = Append(fragments, g)
  /\ g.index = i /\ g.args = args
  /\ i \in Indices => \E j \in DOMAIN fragments : fragments[j].index = i /\ g.id = fragments[j].id
  /\ i \notin Indices => g.id = IF id # None THEN id ELSE <<"call", i>>

LEMMA KeptLast ==
  ASSUME fragments \in Seq(Fragment), NEW i \in Nat, NEW id \in Text,
         NEW args \in Pieces
  PROVE  \E g \in Fragment : KeptAs(i, id, args, g)
<1> DEFINE before == {j \in DOMAIN fragments : fragments[j].index = i}
           f == Piece(i, id, args)
           name == IF before # {} THEN fragments[CHOOSE j \in before : TRUE].id
                   ELSE IF id # None THEN id ELSE <<"call", i>>
           g == [index |-> i, id |-> name, args |-> args]
<1>1. f.index = i /\ f.id = id /\ f.args = args /\ [f EXCEPT !.id = name] = g
  BY DEF Piece
<1>2. Kept(f) = Append(fragments, g)
  BY <1>1 DEF Kept
<1>3. i \in Indices <=> before # {}
  BY DEF Indices
<1>4. \A j \in DOMAIN fragments : fragments[j] \in Fragment
  OBVIOUS
<1>5. CASE before # {}
  <2>1. (CHOOSE j \in before : TRUE) \in before
    BY <1>5
  <2>2. PICK j \in before : name = fragments[j].id
    BY <1>5, <2>1
  <2>3. name \in Text \cup {<<"call", k>> : k \in Nat}
    BY <1>4, <2>2 DEF Fragment
  <2>4. g \in Fragment
    BY <2>3 DEF Fragment
  <2> QED BY <1>2, <1>3, <1>5, <2>2, <2>4 DEF KeptAs
<1>6. CASE before = {}
  <2>1. name = IF id # None THEN id ELSE <<"call", i>>
    BY <1>6
  <2>2. g \in Fragment
    BY <2>1 DEF Fragment
  <2> QED BY <1>2, <1>3, <1>6, <2>1, <2>2 DEF KeptAs
<1> QED BY <1>5, <1>6

-----------------------------------------------------------------------------
(* What a piece adds                                                       *)

IndicesIn(fs) == {fs[j].index : j \in DOMAIN fs}

(* What one fragment more, g, makes of the fragments.                      *)
Added(fs, g, gs) ==
  /\ gs \in Seq(Fragment)
  /\ IndicesIn(gs) = IndicesIn(fs) \cup {g.index}
  /\ \A j \in DOMAIN gs : gs[j] = g \/ \E m \in DOMAIN fs : gs[j] = fs[m]
  /\ \A k : HasLast(fs, k) /\ k # g.index => HasLast(gs, k)
  /\ HasLast(gs, g.index)

LEMMA FragmentAdded ==
  ASSUME NEW fs \in Seq(Fragment), NEW g \in Fragment
  PROVE  Added(fs, g, Append(fs, g))
<1> DEFINE n  == Len(fs)
           gs == Append(fs, g)
<1>1. /\ gs \in Seq(Fragment) /\ n \in Nat
      /\ DOMAIN fs = 1 .. n /\ DOMAIN gs = 1 .. n + 1
      /\ gs[n + 1] = g /\ \A j \in 1 .. n : gs[j] = fs[j]
  BY AppendFacts
<1> HIDE DEF gs, n
<1>2. \A j \in 1 .. n + 1 : j \in 1 .. n \/ j = n + 1
  BY <1>1
<1>3. IndicesIn(gs) = IndicesIn(fs) \cup {g.index}
  BY <1>1, <1>2 DEF IndicesIn
<1>4. \A j \in DOMAIN gs : gs[j] = g \/ \E m \in DOMAIN fs : gs[j] = fs[m]
  BY <1>1, <1>2
<1>5. ASSUME NEW k, HasLast(fs, k), k # g.index
      PROVE  HasLast(gs, k)
  BY <1>1, <1>2, <1>5 DEF HasLast
<1>6. HasLast(gs, g.index)
  BY <1>1 DEF HasLast
<1> QED BY <1>1, <1>3, <1>4, <1>5, <1>6 DEF gs, Added

(* A call is named: its place follows the last one's.                      *)
LEMMA CallNamed ==
  ASSUME StreamInv, NEW i \in DOMAIN answer.calls, i = Len(sent.calls) + 1,
         sent' = [sent EXCEPT !.calls = Append(@, 0)],
         fragments' = Kept(Piece(i, answer.calls[i].id, None)), answer' = answer
  PROVE  SentOK' /\ FragmentsOK'
<1> DEFINE n  == Len(sent.calls)
           id == answer.calls[i].id
<1>0. /\ answer.calls[i].id \in Text /\ answer.calls[i].args \in Seq(Braces)
      /\ i \in 1 .. Len(answer.calls) /\ Len(answer.calls) \in Nat
  BY CallIsSaid DEF StreamInv, TypeOK
<1>1. /\ sent \in [text : Nat, reasoning : Nat, calls : Seq(Nat), done : BOOLEAN]
      /\ fragments \in Seq(Fragment) /\ Indices = 1 .. n /\ n \in Nat
  BY DEF StreamInv, SentOK, FragmentsOK
<1>2. i \notin Indices /\ i \in Nat
  BY <1>1
<1>3. PICK g \in Fragment : fragments' = Append(fragments, g) /\ g.index = i /\ g.args = None
                            /\ g.id = IF id # None THEN id ELSE <<"call", i>>
  <2>1. None \in Pieces
    BY DEF Pieces
  <2> HIDE DEF id
  <2>2. \E g \in Fragment : KeptAs(i, id, None, g)
    <3>1. id \in Text
      BY <1>0 DEF id
    <3> QED BY <1>1, <1>2, <2>1, <3>1, KeptLast
  <2>3. fragments' = Kept(Piece(i, id, None))
    BY DEF id
  <2> QED BY <1>2, <2>2, <2>3 DEF KeptAs
<1>4. /\ sent'.text = sent.text /\ sent'.reasoning = sent.reasoning /\ sent'.done = sent.done
      /\ sent'.calls = Append(sent.calls, 0)
      /\ sent' \in [text : Nat, reasoning : Nat, calls : Seq(Nat), done : BOOLEAN]
  <2>1. sent.calls \in Seq(Nat) /\ Append(sent.calls, 0) \in Seq(Nat)
    BY <1>1
  <2> QED BY <1>1, <2>1
<1>5. Len(sent'.calls) = n + 1 /\ sent'.calls[n + 1] = 0 /\ \A k \in 1 .. n : sent'.calls[k] = sent.calls[k]
  BY <1>1, <1>4
<1>6. ~sent.done
  <2>1. sent.done => Len(sent.calls) = Len(answer.calls)
    BY DEF StreamInv, SentOK, AllSent
  <2> QED BY <1>0, <1>1, <2>1
<1>7. SentOK'
  <2>1. \A k \in 1 .. n : sent.calls[k] <= Len(answer.calls[k].args)
    BY DEF StreamInv, SentOK
  <2>2. 0 <= Len(answer.calls[i].args)
    BY <1>0
  <2>3. \A k \in 1 .. n + 1 : k \in 1 .. n \/ k = i
    BY <1>1
  <2>4. \A k \in 1 .. n + 1 : sent'.calls[k] <= Len(answer.calls[k].args)
    BY <1>1, <1>5, <2>1, <2>2, <2>3
  <2>5. n + 1 <= Len(answer.calls)
    BY <1>0
  <2>6. sent.text <= Len(answer.text) /\ sent.reasoning <= Len(answer.reasoning)
    BY DEF StreamInv, SentOK
  <2> QED BY <1>4, <1>5, <1>6, <2>4, <2>5, <2>6 DEF SentOK
<1>8. /\ fragments' \in Seq(Fragment)
      /\ IndicesIn(fragments') = IndicesIn(fragments) \cup {i}
      /\ \A j \in DOMAIN fragments' :
           fragments'[j] = g \/ \E q \in DOMAIN fragments : fragments'[j] = fragments[q]
      /\ \A k : HasLast(fragments, k) /\ k # i => HasLast(fragments', k)
      /\ HasLast(fragments', i)
  <2>1. Added(fragments, g, fragments')
    BY <1>1, <1>3, FragmentAdded
  <2> QED BY <1>3, <2>1 DEF Added
<1>9. Indices' = 1 .. n + 1
  <2>1. Indices' = Indices \cup {i}
    BY <1>8 DEF Indices, IndicesIn
  <2> QED BY <1>1, <2>1
<1>10. \A j \in DOMAIN fragments' : (NamedRight(fragments[j]))'
  <2>1. \A j \in DOMAIN fragments : NamedRight(fragments[j])
    BY DEF StreamInv, FragmentsOK
  <2>3. answer.calls[g.index].id # None => g.id = answer.calls[g.index].id
    BY <1>3
  <2> QED BY <1>8, <2>1, <2>3 DEF NamedRight
<1>11. \A j \in DOMAIN fragments : fragments[j].index # i
  BY <1>2 DEF Indices
<1>12. ASSUME NEW k \in 1 .. n
       PROVE  HasLast(fragments', k) /\ (Gathered(fragments, k, sent.calls[k]))'
  <2>1. HasLast(fragments, k) /\ Gathered(fragments, k, sent.calls[k])
    BY DEF StreamInv, FragmentsOK
  <2>2. k # i
    BY <1>1
  <2>3. HasLast(fragments', k)
    BY <1>8, <2>1, <2>2
  <2>4. ArgsIn(fragments', k) = ArgsIn(fragments, k) /\ Listed(fragments', k)
    BY <1>1, <1>3, <2>1, <2>2, OthersStay DEF Gathered
  <2> QED BY <1>5, <2>1, <2>3, <2>4 DEF Gathered
<1>13. HasLast(fragments', i) /\ (Gathered(fragments, i, sent.calls[i]))'
  <2>1. HasLast(fragments', i)
    BY <1>8
  <2>2. ArgsIn(fragments, i) = <<>> /\ Listed(fragments, i)
    BY <1>1, <1>11, NothingSaid
  <2>3. ArgsIn(fragments', i) = <<>> /\ Listed(fragments', i)
    BY <1>1, <1>3, <2>2, OthersStay
  <2>4. SubSeq(answer.calls[i].args, 1, 0) = <<>>
    BY SubSeqEmpty
  <2> QED BY <1>5, <2>1, <2>3, <2>4 DEF Gathered
<1>14. \A k \in 1 .. n + 1 : HasLast(fragments', k) /\ (Gathered(fragments, k, sent.calls[k]))'
  <2>1. \A k \in 1 .. n + 1 : k \in 1 .. n \/ k = i
    BY <1>1
  <2> QED BY <1>12, <1>13, <2>1
<1>15. FragmentsOK'
  BY <1>5, <1>8, <1>9, <1>10, <1>14 DEF FragmentsOK
<1> QED BY <1>7, <1>15

(* A piece of the arguments of a call comes after those it has.            *)
LEMMA ArgumentsCome ==
  ASSUME StreamInv, NEW i \in DOMAIN answer.calls, Started(i),
         sent.calls[i] < Len(answer.calls[i].args),
         sent' = [sent EXCEPT !.calls[i] = @ + 1],
         NEW id \in {None, answer.calls[i].id},
         fragments' = Kept(Piece(i, id, <<answer.calls[i].args[sent.calls[i] + 1]>>)), answer' = answer
  PROVE  SentOK' /\ FragmentsOK'
<1> DEFINE n == Len(sent.calls)
           m == sent.calls[i]
           args == answer.calls[i].args
<1>0. /\ answer.calls[i].id \in Text /\ args \in Seq(Braces) /\ None \in Text
      /\ i \in 1 .. Len(answer.calls) /\ Len(answer.calls) \in Nat
  BY CallIsSaid DEF StreamInv, TypeOK, None, Text
<1>1. /\ sent \in [text : Nat, reasoning : Nat, calls : Seq(Nat), done : BOOLEAN]
      /\ fragments \in Seq(Fragment) /\ Indices = 1 .. n /\ n \in Nat
  BY DEF StreamInv, SentOK, FragmentsOK
<1>2. i \in 1 .. n /\ i \in Indices /\ i \in Nat /\ m \in Nat
  BY <1>1 DEF Started
<1>2a. m + 1 \in 1 .. Len(args) /\ args[m + 1] \in Braces
  BY <1>0, <1>2
<1>3. PICK g \in Fragment :
        /\ fragments' = Append(fragments, g) /\ g.index = i /\ g.args = <<args[m + 1]>>
        /\ \E j \in DOMAIN fragments : fragments[j].index = i /\ g.id = fragments[j].id
  <2>1. <<args[m + 1]>> \in Pieces
    BY <1>2a DEF Pieces
  <2>2. id \in Text
    BY <1>0
  <2> DEFINE piece == <<args[m + 1]>>
  <2>3. fragments' = Kept(Piece(i, id, piece))
    OBVIOUS
  <2> HIDE DEF piece
  <2>4. \E g \in Fragment : KeptAs(i, id, piece, g)
    <3>1. piece \in Pieces
      BY <2>1 DEF piece
    <3> QED BY <1>1, <1>2, <2>2, <3>1, KeptLast
  <2>5. \E g \in Fragment :
          /\ fragments' = Append(fragments, g) /\ g.index = i /\ g.args = piece
          /\ \E j \in DOMAIN fragments : fragments[j].index = i /\ g.id = fragments[j].id
    BY <1>2, <2>3, <2>4 DEF KeptAs
  <2> QED BY <2>5 DEF piece
<1>4. /\ sent'.text = sent.text /\ sent'.reasoning = sent.reasoning /\ sent'.done = sent.done
      /\ sent'.calls = [sent.calls EXCEPT ![i] = m + 1]
  BY <1>1
<1>5. sent'.calls \in Seq(Nat) /\ Len(sent'.calls) = n
      /\ sent'.calls[i] = m + 1 /\ \A k \in 1 .. n : k # i => sent'.calls[k] = sent.calls[k]
  BY <1>1, <1>2, <1>4
<1>5a. sent' \in [text : Nat, reasoning : Nat, calls : Seq(Nat), done : BOOLEAN]
  BY <1>1, <1>4, <1>5
<1>6. ~sent.done
  <2>1. sent.done => m = Len(args)
    BY DEF StreamInv, SentOK, AllSent
  <2> QED BY <1>0, <1>2, <2>1
<1>7. SentOK'
  <2>1. \A k \in 1 .. n : sent.calls[k] <= Len(answer.calls[k].args)
    BY DEF StreamInv, SentOK
  <2>2. \A k \in 1 .. n : sent'.calls[k] <= Len(answer.calls[k].args)
    BY <1>2a, <1>5, <2>1
  <2>3. /\ sent.text <= Len(answer.text) /\ sent.reasoning <= Len(answer.reasoning)
        /\ Len(sent.calls) <= Len(answer.calls)
    BY DEF StreamInv, SentOK
  <2> QED BY <1>4, <1>5, <1>5a, <1>6, <2>2, <2>3 DEF SentOK
<1>8. /\ fragments' \in Seq(Fragment)
      /\ IndicesIn(fragments') = IndicesIn(fragments) \cup {i}
      /\ \A j \in DOMAIN fragments' :
           fragments'[j] = g \/ \E q \in DOMAIN fragments : fragments'[j] = fragments[q]
      /\ \A k : HasLast(fragments, k) /\ k # i => HasLast(fragments', k)
      /\ HasLast(fragments', i)
  <2>1. Added(fragments, g, fragments')
    BY <1>1, <1>3, FragmentAdded
  <2> QED BY <1>3, <2>1 DEF Added
<1>9. Indices' = 1 .. n
  <2>1. Indices' = Indices \cup {i}
    BY <1>8 DEF Indices, IndicesIn
  <2> QED BY <1>1, <1>2, <2>1
<1>10. \A j \in DOMAIN fragments' : (NamedRight(fragments[j]))'
  <2>1. \A j \in DOMAIN fragments : NamedRight(fragments[j])
    BY DEF StreamInv, FragmentsOK
  <2>3. NamedRight(g)
    BY <1>3, <2>1 DEF NamedRight
  <2> QED BY <1>8, <2>1, <2>3 DEF NamedRight
<1>11. ASSUME NEW k \in 1 .. n, k # i
       PROVE  HasLast(fragments', k) /\ (Gathered(fragments, k, sent.calls[k]))'
  <2>1. HasLast(fragments, k) /\ Gathered(fragments, k, sent.calls[k])
    BY DEF StreamInv, FragmentsOK
  <2>3. HasLast(fragments', k)
    BY <1>8, <1>11, <2>1
  <2>4. ArgsIn(fragments', k) = ArgsIn(fragments, k) /\ Listed(fragments', k)
    BY <1>1, <1>3, <1>11, <2>1, OthersStay DEF Gathered
  <2> QED BY <1>5, <1>11, <2>1, <2>3, <2>4 DEF Gathered
<1>12. HasLast(fragments', i) /\ (Gathered(fragments, i, sent.calls[i]))'
  <2>1. HasLast(fragments', i)
    BY <1>8
  <2>2. Gathered(fragments, i, m)
    BY <1>2 DEF StreamInv, FragmentsOK
  <2>3. g.args # None /\ g.args[1] = args[m + 1]
    BY <1>3 DEF None
  <2>4. /\ ArgsIn(fragments', i) = Append(ArgsIn(fragments, i), args[m + 1])
        /\ Listed(fragments', i)
    BY <1>1, <1>3, <2>2, <2>3, PieceIsLast DEF Gathered
  <2>5. SubSeq(args, 1, m + 1) = Append(SubSeq(args, 1, m), args[m + 1])
    BY <1>0, <1>2, PrefixGrows
  <2> QED BY <1>5, <2>1, <2>2, <2>4, <2>5 DEF Gathered
<1>13. FragmentsOK'
  BY <1>5, <1>8, <1>9, <1>10, <1>11, <1>12 DEF FragmentsOK
<1> QED BY <1>7, <1>13

LEMMA ArrivesStep ==
  ASSUME StreamInv, Arrives
  PROVE  SentOK' /\ FragmentsOK' /\ HeardOK' /\ finish' \in Finish \cup {"unknown"}
<1>0. /\ sent \in [text : Nat, reasoning : Nat, calls : Seq(Nat), done : BOOLEAN]
      /\ answer' = answer /\ answer \in Answer
      /\ answer.text \in Seq(STRING) /\ answer.reasoning \in Seq(Delta) /\ answer.finish \in Finish
      /\ finish \in Finish \cup {"unknown"}
  BY AnswerIsSaid DEF StreamInv, TypeOK, SentOK, Arrives
<1>1. CASE TextArrives
  <2>1. /\ sent'.text = sent.text + 1 /\ sent'.reasoning = sent.reasoning
        /\ sent'.calls = sent.calls /\ sent'.done = sent.done
        /\ sent' \in [text : Nat, reasoning : Nat, calls : Seq(Nat), done : BOOLEAN]
    <3>1. sent' = [sent EXCEPT !.text = sent.text + 1]
      BY <1>1 DEF TextArrives
    <3>2. sent.text + 1 \in Nat
      BY <1>0
    <3>3. sent' \in [text : Nat, reasoning : Nat, calls : Seq(Nat), done : BOOLEAN]
      BY <1>0, <3>1, <3>2
    <3> QED BY <1>0, <3>1, <3>3
  <2>2. sent.text < Len(answer.text) /\ ~sent.done
    BY <1>1, <1>0 DEF TextArrives, StreamInv, SentOK, AllSent
  <2>3. SentOK'
    BY <1>0, <2>1, <2>2 DEF StreamInv, SentOK
  <2>4. FragmentsOK'
    <3>1. fragments' = fragments /\ Indices' = Indices
      BY <1>1 DEF TextArrives, Indices
    <3> QED BY <1>0, <2>1, <3>1 DEF StreamInv, FragmentsOK, NamedRight, Gathered
  <2>5. text' = SubSeq(answer.text, 1, sent.text + 1)
    <3>1. text' = Append(text, answer.text[sent.text + 1]) /\ text = SubSeq(answer.text, 1, sent.text)
      BY <1>1 DEF TextArrives, StreamInv, HeardOK
    <3> QED BY <1>0, <2>2, <3>1, PrefixGrows
  <2>6. HeardOK'
    BY <1>0, <1>1, <2>1, <2>5 DEF TextArrives, StreamInv, HeardOK
  <2> QED BY <1>0, <1>1, <2>3, <2>4, <2>6 DEF TextArrives
<1>2. CASE ReasoningArrives
  <2>1. /\ sent'.reasoning = sent.reasoning + 1 /\ sent'.text = sent.text
        /\ sent'.calls = sent.calls /\ sent'.done = sent.done
        /\ sent' \in [text : Nat, reasoning : Nat, calls : Seq(Nat), done : BOOLEAN]
    <3>1. sent' = [sent EXCEPT !.reasoning = sent.reasoning + 1]
      BY <1>2 DEF ReasoningArrives
    <3>2. sent.reasoning + 1 \in Nat
      BY <1>0
    <3>3. sent' \in [text : Nat, reasoning : Nat, calls : Seq(Nat), done : BOOLEAN]
      BY <1>0, <3>1, <3>2
    <3> QED BY <1>0, <3>1, <3>3
  <2>2. sent.reasoning < Len(answer.reasoning) /\ ~sent.done
    BY <1>2, <1>0 DEF ReasoningArrives, StreamInv, SentOK, AllSent
  <2>3. SentOK'
    BY <1>0, <2>1, <2>2 DEF StreamInv, SentOK
  <2>4. FragmentsOK'
    <3>1. fragments' = fragments /\ Indices' = Indices
      BY <1>2 DEF ReasoningArrives, Indices
    <3> QED BY <1>0, <2>1, <3>1 DEF StreamInv, FragmentsOK, NamedRight, Gathered
  <2>5. reasoning' \in Seq(Delta) /\ Len(reasoning') = sent.reasoning + 1
    <3> DEFINE d == answer.reasoning[sent.reasoning + 1]
    <3>1. reasoning' = Append(reasoning, d) /\ reasoning \in Seq(Delta) /\ Len(reasoning) = sent.reasoning
      BY <1>2 DEF ReasoningArrives, StreamInv, HeardOK
    <3>2. sent.reasoning + 1 \in 1 .. Len(answer.reasoning)
      BY <1>0, <2>2
    <3>3. d \in Delta
      BY <1>0, <3>2, ElementOfSeq
    <3> HIDE DEF d
    <3> QED BY <3>1, <3>3
  <2>6. HeardOK'
    BY <1>0, <1>2, <2>1, <2>5 DEF ReasoningArrives, StreamInv, HeardOK
  <2> QED BY <1>0, <1>2, <2>3, <2>4, <2>6 DEF ReasoningArrives
<1>3. CASE CallArrives
  <2>1. PICK i \in DOMAIN answer.calls :
          \/ /\ i = Len(sent.calls) + 1
             /\ sent' = [sent EXCEPT !.calls = Append(@, 0)]
             /\ fragments' = Kept(Piece(i, answer.calls[i].id, None))
          \/ /\ Started(i) /\ sent.calls[i] < Len(answer.calls[i].args)
             /\ sent' = [sent EXCEPT !.calls[i] = @ + 1]
             /\ \E id \in {None, answer.calls[i].id} :
                  fragments' = Kept(Piece(i, id, <<answer.calls[i].args[sent.calls[i] + 1]>>))
    BY <1>3 DEF CallArrives
  <2>2. SentOK' /\ FragmentsOK'
    BY <1>0, <2>1, CallNamed, ArgumentsCome
  <2>3. sent'.text = sent.text /\ sent'.reasoning = sent.reasoning
    BY <1>0, <2>1
  <2>4. HeardOK'
    BY <1>0, <1>3, <2>3 DEF CallArrives, StreamInv, HeardOK
  <2> QED BY <1>0, <1>3, <2>2, <2>4 DEF CallArrives
<1>4. CASE FinishArrives
  <2>1. /\ sent'.reasoning = sent.reasoning /\ sent'.text = sent.text /\ sent'.calls = sent.calls
        /\ sent' \in [text : Nat, reasoning : Nat, calls : Seq(Nat), done : BOOLEAN]
    BY <1>0, <1>4 DEF FinishArrives
  <2>2. AllSent'
    BY <1>0, <1>4, <2>1 DEF FinishArrives, AllSent
  <2>3. SentOK'
    BY <1>0, <2>1, <2>2 DEF StreamInv, SentOK
  <2>4. FragmentsOK'
    <3>1. fragments' = fragments /\ Indices' = Indices
      BY <1>4 DEF FinishArrives, Indices
    <3> QED BY <1>0, <2>1, <3>1 DEF StreamInv, FragmentsOK, NamedRight, Gathered
  <2>5. HeardOK'
    BY <1>0, <1>4, <2>1 DEF FinishArrives, StreamInv, HeardOK
  <2> QED BY <1>0, <1>4, <2>3, <2>4, <2>5 DEF FinishArrives
<1> QED BY <1>1, <1>2, <1>3, <1>4 DEF Arrives

(* No step but a piece's changes what was sent or what arrived.            *)
LEMMA NothingElseHeard ==
  ASSUME StreamInv, UNCHANGED <<answer, sent, arrived>>
  PROVE  SentOK' /\ FragmentsOK' /\ HeardOK' /\ finish' \in Finish \cup {"unknown"}
<1>1. /\ answer' = answer /\ sent' = sent /\ text' = text
      /\ reasoning' = reasoning /\ fragments' = fragments /\ finish' = finish
  BY DEF arrived
<1>2. SentOK'
  BY <1>1 DEF StreamInv, SentOK, AllSent
<1>3. Indices' = Indices
  BY <1>1 DEF Indices
<1>4. FragmentsOK'
  BY <1>1, <1>3 DEF StreamInv, FragmentsOK, NamedRight, Gathered
<1>5. HeardOK'
  BY <1>1 DEF StreamInv, HeardOK
<1> QED BY <1>1, <1>2, <1>4, <1>5 DEF StreamInv, TypeOK

LEMMA StreamInvInit == Init => StreamInv
<1> SUFFICES ASSUME Init PROVE StreamInv
  OBVIOUS
<1>1. /\ answer \in Answer /\ sent = Nothing /\ text = <<>> /\ reasoning = <<>> /\ fragments = <<>>
      /\ at = "connecting" /\ attempt = 1 /\ failures = <<>>
  BY DEF Init
<1>2. TypeOK
  <2>1. result.status = "none" /\ aborted = FALSE /\ cut = FALSE /\ finish = "unknown"
    BY DEF Init, NoResult
  <2>2. attempt \in 1 .. MaxAttempts
    BY <1>1 DEF MaxAttempts
  <2> QED BY <1>1, <2>1, <2>2 DEF TypeOK
<1>3. answer.text \in Seq(STRING) /\ answer.reasoning \in Seq(Delta) /\ Len(answer.calls) \in Nat
  BY <1>1, AnswerIsSaid
<1>4. SentOK
  BY <1>1, <1>3 DEF SentOK, Nothing
<1>5. FragmentsOK
  <2>1. Indices = {} /\ sent.calls = <<>>
    BY <1>1 DEF Indices, Nothing
  <2> QED BY <1>1, <2>1 DEF FragmentsOK
<1>6. HeardOK
  <2>1. SubSeq(answer.text, 1, 0) = <<>>
    BY SubSeqEmpty
  <2> QED BY <1>1, <2>1 DEF HeardOK, Nothing
<1>7. AttemptOK
  BY <1>1 DEF AttemptOK
<1> QED BY <1>2, <1>4, <1>5, <1>6, <1>7 DEF StreamInv

LEMMA FailedTypes ==
  ASSUME NEW e, Failed(e)
  PROVE  /\ at' = "over" /\ result'.status \in {"failed", "cancelled"} /\ result'.calls = <<>>
BY DEF Failed, NoResult

LEMMA AttemptStep ==
  ASSUME StreamInv, [Next]_vars
  PROVE  AttemptOK' /\ attempt' \in 1 .. MaxAttempts
<1>0. /\ AttemptOK /\ attempt \in 1 .. MaxAttempts /\ MaxAttempts = 2
      /\ failures \in Seq(ConnectErrors \cup {"abort"}) /\ Len(failures) \in Nat
      /\ DOMAIN failures = 1 .. Len(failures)
      /\ at \in {"connecting", "waiting", "streaming", "over"}
  BY DEF StreamInv, AttemptOK, TypeOK, MaxAttempts
<1>1. CASE Connected
  BY <1>0, <1>1 DEF Connected, AttemptOK, arrived
<1>2. CASE ConnectFails
  <2>1. PICK e \in IF aborted THEN {"abort"} ELSE ConnectErrors :
          /\ failures' = Append(failures, e)
          /\ \/ Retries(e) /\ at' = "waiting"
             \/ at' = "over"
    BY <1>2 DEF ConnectFails, Failed
  <2>2. /\ at = "connecting" /\ Len(failures) + 1 = attempt
        /\ attempt' = attempt /\ sent' = sent
        /\ text' = text /\ reasoning' = reasoning /\ fragments' = fragments
        /\ sent = Nothing /\ text = <<>> /\ reasoning = <<>> /\ fragments = <<>>
    BY <1>2 DEF ConnectFails, StreamInv, AttemptOK, arrived
  <2>3. e \in ConnectErrors \cup {"abort"}
    OBVIOUS
  <2>4. /\ failures' \in Seq(ConnectErrors \cup {"abort"}) /\ Len(failures') = Len(failures) + 1
        /\ \A i \in DOMAIN failures : failures'[i] = failures[i]
        /\ failures'[Len(failures) + 1] = e /\ DOMAIN failures' = 1 .. Len(failures) + 1
    <3> DEFINE E == ConnectErrors \cup {"abort"}
    <3> HIDE DEF E
    <3>1. failures \in Seq(E) /\ e \in E
      BY <1>0, <2>3 DEF E
    <3>2. failures' \in Seq(E)
      BY <2>1, <3>1
    <3> QED BY <2>1, <3>1, <3>2, AppendFacts DEF E
  <2>5. Retries(e) => e \notin {"401", "400", "abort"} /\ attempt < MaxAttempts
    BY DEF Retries, Category, Transient
  <2>6. \A i \in DOMAIN failures' : i \in DOMAIN failures \/ i = Len(failures) + 1
    BY <1>0, <2>4
  <2>7. Len(failures) + 1 <= attempt
    BY <1>0, <2>2
  <2>8. \A i \in DOMAIN failures : i < attempt /\ failures[i] \notin {"401", "400", "abort"}
    BY <1>0, <2>2 DEF AttemptOK
  <2>9. at' = "waiting" => Retries(e) /\ Len(failures') = attempt
    <3>1. at' = "waiting" => Retries(e)
      BY <2>1
    <3> QED BY <1>0, <2>2, <2>4, <2>7, <3>1
  <2> QED BY <1>0, <2>1, <2>2, <2>4, <2>5, <2>6, <2>7, <2>8, <2>9 DEF AttemptOK
<1>3. CASE NextAttempt
  BY <1>0, <1>3 DEF NextAttempt, Failed, AttemptOK, arrived
<1>4. CASE Arrives
  <2>1. at = "streaming" /\ at' = at /\ attempt' = attempt /\ failures' = failures
    BY <1>4 DEF Arrives
  <2> QED BY <1>0, <2>1 DEF AttemptOK
<1>5. CASE SeesAbort \/ Breaks \/ Ends
  <2>1. at = "streaming" /\ at' = "over" /\ attempt' = attempt /\ failures' = failures
    BY <1>5 DEF SeesAbort, Breaks, Ends, Failed, Completed
  <2> QED BY <1>0, <2>1 DEF AttemptOK
<1>6. CASE Abort \/ UNCHANGED vars
  <2>1. /\ at' = at /\ attempt' = attempt /\ failures' = failures /\ sent' = sent
        /\ text' = text /\ reasoning' = reasoning /\ fragments' = fragments
    BY <1>6 DEF Abort, vars, arrived
  <2> QED BY <1>0, <2>1 DEF AttemptOK
<1> QED BY <1>1, <1>2, <1>3, <1>4, <1>5, <1>6 DEF Next

LEMMA StreamInvStep ==
  ASSUME StreamInv, [Next]_vars
  PROVE  StreamInv'
<1>0. AttemptOK' /\ attempt' \in 1 .. MaxAttempts
  BY AttemptStep
<1>1. SentOK' /\ FragmentsOK' /\ HeardOK' /\ finish' \in Finish \cup {"unknown"}
  <2>1. CASE Arrives
    BY <2>1, ArrivesStep
  <2>2. CASE Connected
    <3>1. sent = Nothing
      BY <2>2 DEF Connected, StreamInv, AttemptOK
    <3> QED BY <2>2, <3>1, NothingElseHeard DEF Connected
  <2>3. CASE ConnectFails \/ NextAttempt \/ SeesAbort \/ Breaks \/ Ends \/ Abort \/ UNCHANGED vars
    <3>1. UNCHANGED <<answer, sent, arrived>>
      BY <2>3 DEF ConnectFails, NextAttempt, SeesAbort, Breaks, Ends, Abort, vars
    <3> QED BY <3>1, NothingElseHeard
  <2> QED BY <2>1, <2>2, <2>3 DEF Next
<1>2. /\ at' \in {"connecting", "waiting", "streaming", "over"} /\ answer' \in Answer
      /\ aborted' \in BOOLEAN /\ cut' \in BOOLEAN
      /\ result'.status \in {"none", "answered", "calls", "limited", "failed", "cancelled"}
  <2>0. /\ at \in {"connecting", "waiting", "streaming", "over"} /\ answer \in Answer
        /\ aborted \in BOOLEAN /\ cut \in BOOLEAN /\ sent.done \in BOOLEAN
        /\ result.status \in {"none", "answered", "calls", "limited", "failed", "cancelled"}
    BY DEF StreamInv, TypeOK, SentOK
  <2>1. CASE Connected \/ Arrives \/ UNCHANGED vars \/ Abort
    BY <2>0, <2>1 DEF Connected, Arrives, Abort, vars
  <2>2. CASE ConnectFails
    <3>1. PICK e : (at' = "waiting" /\ result' = result) \/ Failed(Category(e))
      BY <2>2 DEF ConnectFails
    <3> QED BY <2>0, <2>2, <3>1, FailedTypes DEF ConnectFails
  <2>3. CASE NextAttempt
    <3>1. (at' = "connecting" /\ result' = result) \/ Failed("cancelled")
      BY <2>3 DEF NextAttempt
    <3> QED BY <2>0, <2>3, <3>1, FailedTypes DEF NextAttempt
  <2>4. CASE SeesAbort \/ Breaks
    <3>1. Failed("cancelled") \/ Failed("provider_network")
      BY <2>4 DEF SeesAbort, Breaks
    <3> QED BY <2>0, <2>4, <3>1, FailedTypes DEF SeesAbort, Breaks
  <2>5. CASE Ends
    <3>1. Failed("provider_protocol") \/ Completed
      BY <2>5 DEF Ends
    <3>2. Completed => at' = "over" /\ result'.status \in {"failed", "limited", "calls", "answered"}
      BY DEF Completed
    <3>3. answer' = answer /\ aborted' = aborted /\ cut' \in BOOLEAN
      BY <2>0, <2>5 DEF Ends
    <3> QED BY <2>0, <3>1, <3>2, <3>3, FailedTypes
  <2> QED BY <2>1, <2>2, <2>3, <2>4, <2>5 DEF Next
<1> QED BY <1>0, <1>1, <1>2 DEF StreamInv, TypeOK

(* A request is in one of its places with an attempt of those it has, and  *)
(* its result, its finish and what it hears are of their kinds: a retry    *)
(* never goes beyond the last attempt.                                     *)
THEOREM ProviderTypes == Spec => []TypeOK
<1>1. StreamInv => TypeOK
  BY DEF StreamInv
<1>2. StreamInv /\ [Next]_vars => StreamInv'
  BY StreamInvStep
<1> QED BY StreamInvInit, <1>1, <1>2, PTL DEF Spec

(* One answer is heard, from its beginning and once, and no third attempt  *)
(* is made: withRetries() stands before the stream, never around it.       *)
THEOREM OneAnswer == Spec => []OneAnswerIsHeard
<1>1. StreamInv => OneAnswerIsHeard
  <2> SUFFICES ASSUME StreamInv PROVE OneAnswerIsHeard
    OBVIOUS
  <2>1. /\ answer.text \in Seq(STRING) /\ sent.text \in Nat /\ sent.text <= Len(answer.text)
        /\ text = SubSeq(answer.text, 1, sent.text)
    BY AnswerIsSaid DEF StreamInv, TypeOK, SentOK, HeardOK
  <2>2. Len(text) = sent.text
    BY <2>1
  <2>3. attempt \in 1 .. 2 /\ (at = "waiting" => attempt < 2)
    BY DEF StreamInv, TypeOK, AttemptOK, MaxAttempts
  <2>4. attempt + (IF at = "waiting" THEN 1 ELSE 0) <= 2
    BY <2>3
  <2> QED BY <2>1, <2>2, <2>4 DEF StreamInv, HeardOK, AttemptOK, OneAnswerIsHeard
<1>2. StreamInv /\ [Next]_vars => StreamInv'
  BY StreamInvStep
<1> QED BY StreamInvInit, <1>1, <1>2, PTL DEF Spec

-----------------------------------------------------------------------------
(* What the loop is given                                                  *)

CallGathered(call, i) ==
  /\ call.args = SubSeq(answer.calls[i].args, 1, sent.calls[i])
  /\ answer.calls[i].id # None => call.id = answer.calls[i].id

LEMMA CallsAreGathered ==
  ASSUME StreamInv
  PROVE  /\ Len(sent.calls) \in Nat /\ DOMAIN Calls = 1 .. Len(sent.calls)
         /\ Len(Calls) = Len(sent.calls)
         /\ \A i \in 1 .. Len(sent.calls) : CallGathered(Calls[i], i)
<1> DEFINE n == Len(sent.calls)
<1>1. n \in Nat /\ Indices = 1 .. n
  BY DEF StreamInv, SentOK, FragmentsOK
<1>2. InOrder(Indices) = [k \in 1 .. n |-> k]
  BY <1>1, IntervalInOrder
<1>3. Calls = [j \in 1 .. n |-> [id |-> IdOf(j), args |-> ArgsOf(j)]]
  <2>1. DOMAIN InOrder(Indices) = 1 .. n /\ \A k \in 1 .. n : InOrder(Indices)[k] = k
    BY <1>2
  <2> QED BY <2>1 DEF Calls
<1>4. ASSUME NEW i \in 1 .. n
      PROVE  CallGathered(Calls[i], i)
  <2>1. Calls[i].id = IdOf(i) /\ Calls[i].args = ArgsOf(i)
    BY <1>3
  <2>2. HasLast(fragments, i) /\ Gathered(fragments, i, sent.calls[i])
    BY DEF StreamInv, FragmentsOK
  <2>3. ArgsOf(i) = SubSeq(answer.calls[i].args, 1, sent.calls[i])
    BY <2>2, ArgsAreTheirs DEF Gathered
  <2>4. PICK j \in FragmentsOf(i) : IdOf(i) = fragments[j].id
    <3>1. \E j \in FragmentsOf(i) : \A m \in FragmentsOf(i) : m <= j
      BY <2>2 DEF HasLast, FragmentsOf
    <3>2. (CHOOSE j \in FragmentsOf(i) : \A m \in FragmentsOf(i) : m <= j) \in FragmentsOf(i)
      BY <3>1
    <3> QED BY <3>2 DEF IdOf
  <2>5. answer.calls[i].id # None => IdOf(i) = answer.calls[i].id
    <3>1. j \in DOMAIN fragments /\ fragments[j].index = i
      BY <2>4 DEF FragmentsOf
    <3>2. NamedRight(fragments[j])
      BY <3>1 DEF StreamInv, FragmentsOK
    <3> QED BY <2>4, <3>1, <3>2 DEF NamedRight
  <2> QED BY <2>1, <2>3, <2>5 DEF CallGathered
<1>5. Len(Calls) = n /\ DOMAIN Calls = 1 .. n
  <2> DEFINE S == {Calls[j] : j \in 1 .. n}
             c == Calls
  <2>1. c = [j \in 1 .. n |-> c[j]] /\ DOMAIN c = 1 .. n
    BY <1>3
  <2> HIDE DEF c
  <2>2. c \in [1 .. n -> {c[j] : j \in 1 .. n}]
    BY <2>1
  <2> QED BY <1>1, <2>1, <2>2 DEF c
<1> QED BY <1>1, <1>4, <1>5

(* A prefix of an argument text that can be read is all of it or nothing.  *)
LEMMA PrefixReads ==
  ASSUME NEW args \in {None, Whole}, NEW m \in 0 .. Len(args), Parses(SubSeq(args, 1, m))
  PROVE  \/ SubSeq(args, 1, m) = args
         \/ m # Len(args) /\ SubSeq(args, 1, m) = <<>>
<1>1. args \in Seq(Braces) /\ Len(None) = 0 /\ Len(Whole) = 2
  BY BracesAreText
<1>2. CASE m = Len(args)
  BY <1>1, <1>2, SubSeqFull
<1>3. CASE m # Len(args)
  <2>0. m \in Nat /\ m < Len(args)
    BY <1>1, <1>3
  <2>1. args = Whole /\ m \in {0, 1}
    <3>1. args # None
      BY <1>1, <2>0
    <3>2. args = Whole
      BY <3>1
    <3>3. m < 2
      BY <1>1, <2>0, <3>2
    <3> QED BY <2>0, <3>2, <3>3
  <2>2. Len(SubSeq(args, 1, m)) = m
    BY <1>1, <2>1
  <2>3. SubSeq(args, 1, m) # Whole
    BY <1>1, <2>1, <2>2
  <2> QED BY <1>3, <2>3 DEF Parses
<1> QED BY <1>2, <1>3

LEMMA CallsHandedOn ==
  ASSUME StreamInv, CallsRead
  PROVE  /\ Len(Calls) <= Len(answer.calls)
         /\ \A i \in DOMAIN Calls :
              /\ answer.calls[i].id # None => Calls[i].id = answer.calls[i].id
              /\ Calls[i].args = answer.calls[i].args \/ (~sent.done /\ Calls[i].args = <<>>)
         /\ sent.done => Len(Calls) = Len(answer.calls)
<1> DEFINE n == Len(sent.calls)
<1>1. /\ n \in Nat /\ DOMAIN Calls = 1 .. n /\ Len(Calls) = n
      /\ \A i \in 1 .. n : CallGathered(Calls[i], i)
  BY CallsAreGathered
<1>2. /\ n <= Len(answer.calls) /\ sent.calls \in Seq(Nat)
      /\ \A i \in 1 .. n : sent.calls[i] <= Len(answer.calls[i].args)
      /\ sent.done => AllSent
  BY DEF StreamInv, SentOK
<1>3. /\ answer.calls \in Seq([id : Text, args : {None, Whole}]) /\ Len(answer.calls) \in Nat
      /\ DOMAIN answer.calls = 1 .. Len(answer.calls)
  BY AnswerIsSaid DEF StreamInv, TypeOK
<1>4. ASSUME NEW i \in 1 .. n
      PROVE  Calls[i].args = answer.calls[i].args \/ (~sent.done /\ Calls[i].args = <<>>)
  <2> DEFINE args == answer.calls[i].args
             m    == sent.calls[i]
  <2>1. i \in DOMAIN answer.calls
    BY <1>1, <1>2, <1>3
  <2>2. args \in {None, Whole} /\ args \in Seq(Braces)
    BY <2>1, CallIsSaid DEF StreamInv, TypeOK
  <2>3. m \in Nat /\ m <= Len(args)
    BY <1>1, <1>2
  <2>4. Calls[i].args = SubSeq(args, 1, m) /\ Parses(Calls[i].args)
    BY <1>1 DEF CallGathered, CallsRead
  <2>5. sent.done => m = Len(args)
    BY <1>2, <2>1 DEF AllSent
  <2> HIDE DEF args, m
  <2>6. m \in 0 .. Len(args)
    BY <2>2, <2>3
  <2>7. Calls[i].args = args \/ (m # Len(args) /\ Calls[i].args = <<>>)
    BY <2>2, <2>4, <2>6, PrefixReads
  <2>8. Calls[i].args = args \/ (~sent.done /\ Calls[i].args = <<>>)
    BY <2>5, <2>7
  <2> QED BY <2>8 DEF args
<1>5. sent.done => n = Len(answer.calls)
  BY <1>2 DEF AllSent
<1> QED BY <1>1, <1>2, <1>4, <1>5 DEF CallGathered

(* No more is left out of the reasoning than is said by what is kept.      *)
LEMMA AggregatedKeeps ==
  /\ Joined(reasoning, "content") = Aggregated.content
  /\ Joined(reasoning, "reasoning") \in {<<>>, Aggregated.reasoning}
  /\ \/ Aggregated.details = Joined(reasoning, "details")
     \/ /\ Plain(Joined(reasoning, "details"))
        /\ PlainText(Joined(reasoning, "details")) \in {Aggregated.reasoning, Aggregated.content}
<1> DEFINE details == Joined(reasoning, "details")
           said == PlainText(details)
           strings == {Joined(reasoning, "reasoning"), Joined(reasoning, "content")}
           redundant == details # <<>> /\ Plain(details) /\ said # <<>>
<1>1. /\ Aggregated.content = Joined(reasoning, "content")
      /\ Aggregated.reasoning = IF redundant /\ strings = {<<>>} THEN said ELSE Joined(reasoning, "reasoning")
      /\ Aggregated.details = IF redundant /\ (strings = {<<>>} \/ said \in strings) THEN <<>> ELSE details
  BY DEF Aggregated
<1>2. CASE redundant /\ strings = {<<>>}
  BY <1>1, <1>2
<1>3. CASE ~(redundant /\ strings = {<<>>})
  BY <1>1, <1>3
<1> QED BY <1>2, <1>3

(* What ends a request without completing it hands on no calls.            *)
LEMMA WholeStep ==
  ASSUME StreamInv, AnswerIsWhole, [Next]_vars
  PROVE  AnswerIsWhole'
<1>1. CASE Ends /\ CallsRead /\ Completed
  <2>1. /\ at' = "over" /\ answer' = answer /\ reasoning' = reasoning /\ cut' = ~sent.done
        /\ result'.reasoning = <<Aggregated>>
        /\ result'.calls = IF finish \in {"content_filter", "length"} THEN <<>> ELSE Calls
    BY <1>1 DEF Ends, Completed, arrived
  <2>2. CallsAreWhole'
    <3>1. CASE result'.calls = <<>>
      BY <3>1 DEF CallsAreWhole
    <3>2. CASE result'.calls = Calls
      <4>1. /\ Len(Calls) <= Len(answer.calls)
            /\ \A i \in DOMAIN Calls :
                 /\ answer.calls[i].id # None => Calls[i].id = answer.calls[i].id
                 /\ Calls[i].args = answer.calls[i].args \/ (~sent.done /\ Calls[i].args = <<>>)
            /\ sent.done => Len(Calls) = Len(answer.calls)
        BY <1>1, CallsHandedOn
      <4> QED BY <2>1, <3>2, <4>1 DEF CallsAreWhole
    <3> QED BY <2>1, <3>1, <3>2
  <2>3. ReasoningIsKept'
    <3>1. result'.reasoning[1] = Aggregated
      BY <2>1
    <3> QED BY <2>1, <3>1, AggregatedKeeps DEF ReasoningIsKept
  <2> QED BY <2>2, <2>3 DEF AnswerIsWhole
<1>2. ASSUME NEW e, Failed(e)
      PROVE  AnswerIsWhole'
  BY <1>2, FailedTypes DEF AnswerIsWhole, CallsAreWhole, ReasoningIsKept
<1>3. CASE at' # "over"
  BY <1>3 DEF AnswerIsWhole, CallsAreWhole, ReasoningIsKept
<1>4. CASE UNCHANGED vars
  BY <1>4 DEF AnswerIsWhole, CallsAreWhole, ReasoningIsKept, vars, arrived
<1>5. CASE Connected \/ Arrives \/ Abort
  BY <1>3, <1>5 DEF Connected, Arrives, Abort
<1>6. CASE ConnectFails \/ NextAttempt \/ SeesAbort \/ Breaks \/ Ends
  <2>1. \/ at' # "over" \/ \E e : Failed(e)
        \/ Ends /\ CallsRead /\ Completed
    BY <1>6 DEF ConnectFails, NextAttempt, SeesAbort, Breaks, Ends
  <2> QED BY <1>1, <1>2, <1>3, <2>1
<1> QED BY <1>4, <1>5, <1>6 DEF Next

(* The calls the loop is given are those the model made, each with its own *)
(* arguments however the fragments were mixed, and the reasoning is kept:  *)
(* a stream that was cut hands on a call with all of its arguments or with *)
(* none.                                                                   *)
THEOREM WholeAnswer == Spec => []AnswerIsWhole
<1>1. Init => AnswerIsWhole
  BY DEF Init, AnswerIsWhole, CallsAreWhole, ReasoningIsKept
<1>2. StreamInv /\ [Next]_vars => StreamInv'
  BY StreamInvStep
<1>3. StreamInv /\ AnswerIsWhole /\ [Next]_vars => AnswerIsWhole'
  BY WholeStep
<1> QED BY StreamInvInit, <1>1, <1>2, <1>3, PTL DEF Spec
=============================================================================
