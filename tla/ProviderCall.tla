----------------------------- MODULE ProviderCall -----------------------------
(***************************************************************************)
(* One request to the model: the provider's attempts and their retries,    *)
(* the stream it takes apart and puts together again, and what the agent   *)
(* loop is left with (src/provider, and callModel in src/agent).           *)
(*                                                                         *)
(* The answer is what the model wants to say: a text, its reasoning and    *)
(* tool calls with arguments.  It comes in pieces, those of several calls  *)
(* in any order among each other, until it is all there, the connection    *)
(* breaks, or the stream just ends.  The HTTP client is external.          *)
(***************************************************************************)
EXTENDS Naturals, Sequences, FiniteSets

LOCAL INSTANCE SequencesExt

CONSTANT Answer   (* the answers considered *)

(* The text of an argument object, piece by piece, and what is not there.  *)
Whole == <<"{", "}">>
None  == <<>>

Finish == {"stop", "length", "tool_calls", "content_filter"}

(* What a model can say: the deltas of its reasoning carry texts of either *)
(* name and details, and the arguments of a call are an object, or left out.*)
Text == Seq(STRING)

Said ==
  [text      : Text,
   reasoning : Seq([reasoning : Text, content : Text,
                    details : Seq([plain : BOOLEAN, text : Text])]),
   calls     : Seq([id : Text, args : {None, Whole}]),
   finish    : Finish]

ASSUME ProviderAssumption == Answer \subseteq Said

VARIABLES
  at,        (* where the request stands                                  *)
  attempt,   (* the number of the attempt                                 *)
  answer,    (* what the model answers                                    *)
  sent,      (* how much of it has been sent                              *)
  text, reasoning, fragments, finish,   (* what arrived                   *)
  aborted,
  result,    (* what the loop has in the end                              *)
  failures,  (* history: how attempts failed                              *)
  cut        (* history: the stream ended before the answer did           *)

arrived == <<text, reasoning, fragments, finish>>
vars    == <<at, attempt, answer, sent, arrived, aborted, result, failures, cut>>

Nothing == [text |-> 0, reasoning |-> 0, calls |-> <<>>, done |-> FALSE]

NoResult == [status |-> "none", error |-> "none", text |-> <<>>, reasoning |-> <<>>, calls |-> <<>>]

Init ==
  /\ at = "connecting" /\ attempt = 1
  /\ answer \in Answer /\ sent = Nothing
  /\ text = <<>> /\ reasoning = <<>> /\ fragments = <<>> /\ finish = "unknown"
  /\ aborted = FALSE /\ result = NoResult /\ failures = <<>> /\ cut = FALSE

-----------------------------------------------------------------------------
(* Errors and retries                                                      *)

(* toEchoError(): what the server or the client's errors are taken for.    *)
Category(e) ==
  CASE e = "401" -> "provider_auth"
    [] e = "429" -> "provider_rate_limit"
    [] e = "400" -> "provider_protocol"
    [] e = "abort" -> "cancelled"
    [] OTHER -> "provider_network"

(* "500" stands for a refused connection and a time limit too.             *)
ConnectErrors == {"401", "429", "400", "408", "500"}

Transient == {"provider_rate_limit", "provider_network"}

MaxAttempts == 2

(* shouldRetry() *)
Retries(e) == Category(e) \in Transient /\ attempt < MaxAttempts

(* What is left when the request fails: the text so far, as partial, and   *)
(* the reasoning so far.                                                   *)
Failed(e) ==
  /\ at' = "over"
  /\ result' = [NoResult EXCEPT !.status = IF e = "cancelled" \/ aborted THEN "cancelled" ELSE "failed",
                                !.error = e, !.text = text, !.reasoning = reasoning]

Connected ==
  /\ at = "connecting" /\ ~aborted /\ at' = "streaming" /\ sent' = Nothing
  /\ UNCHANGED <<attempt, answer, arrived, aborted, result, failures, cut>>

(* withRetries(): the wait before another attempt hears no signal.         *)
ConnectFails ==
  /\ at = "connecting"
  /\ \E e \in IF aborted THEN {"abort"} ELSE ConnectErrors :
       /\ failures' = Append(failures, e)
       /\ IF Retries(e) THEN at' = "waiting" /\ UNCHANGED result ELSE Failed(Category(e))
  /\ UNCHANGED <<attempt, answer, sent, arrived, aborted, cut>>

NextAttempt ==
  /\ at = "waiting"
  /\ IF aborted THEN Failed("cancelled") /\ UNCHANGED attempt
     ELSE at' = "connecting" /\ attempt' = attempt + 1 /\ UNCHANGED result
  /\ UNCHANGED <<answer, sent, arrived, aborted, failures, cut>>

-----------------------------------------------------------------------------
(* The stream                                                              *)

(* The next piece: a token of the text, a delta of the reasoning, a        *)
(* fragment of one call.  The first fragment of a call announces it, and   *)
(* a server that sends identifiers sends them there, or in every fragment. *)
Started(i) == i \in DOMAIN sent.calls

Piece(i, id, args) == [index |-> i, id |-> id, args |-> args]

(* The fragment is kept under the identifier its call first had.           *)
Kept(f) ==
  LET before == {i \in DOMAIN fragments : fragments[i].index = f.index}
      id == IF before # {} THEN fragments[CHOOSE i \in before : TRUE].id
            ELSE IF f.id # None THEN f.id ELSE <<"call", f.index>>
  IN  Append(fragments, [f EXCEPT !.id = id])

TextArrives ==
  /\ sent.text < Len(answer.text)
  /\ sent' = [sent EXCEPT !.text = @ + 1]
  /\ text' = Append(text, answer.text[sent.text + 1])
  /\ UNCHANGED <<reasoning, fragments, finish>>

ReasoningArrives ==
  /\ sent.reasoning < Len(answer.reasoning)
  /\ sent' = [sent EXCEPT !.reasoning = @ + 1]
  /\ reasoning' = Append(reasoning, answer.reasoning[sent.reasoning + 1])
  /\ UNCHANGED <<text, fragments, finish>>

CallArrives ==
  /\ \E i \in DOMAIN answer.calls :
       LET call == answer.calls[i] IN
       \/ /\ i = Len(sent.calls) + 1
          /\ sent' = [sent EXCEPT !.calls = Append(@, 0)]
          /\ fragments' = Kept(Piece(i, call.id, None))
       \/ /\ Started(i) /\ sent.calls[i] < Len(call.args)
          /\ sent' = [sent EXCEPT !.calls[i] = @ + 1]
          /\ \E id \in {None, call.id} :
               fragments' = Kept(Piece(i, id, <<call.args[sent.calls[i] + 1]>>))
  /\ UNCHANGED <<text, reasoning, finish>>

AllSent ==
  /\ sent.text = Len(answer.text) /\ sent.reasoning = Len(answer.reasoning)
  /\ Len(sent.calls) = Len(answer.calls)
  /\ \A i \in DOMAIN answer.calls : sent.calls[i] = Len(answer.calls[i].args)

(* mapFinishReason() *)
FinishArrives ==
  /\ AllSent /\ ~sent.done
  /\ sent' = [sent EXCEPT !.done = TRUE] /\ finish' = answer.finish
  /\ UNCHANGED <<text, reasoning, fragments>>

Arrives ==
  /\ at = "streaming" /\ ~aborted
  /\ TextArrives \/ ReasoningArrives \/ CallArrives \/ FinishArrives
  /\ UNCHANGED <<at, attempt, answer, aborted, result, failures, cut>>

(* Mutant: the client was not given the signal.                            *)
Deaf == FALSE /\ UNCHANGED vars

(* A piece that comes after the signal, or the client's own error.         *)
SeesAbort ==
  /\ at = "streaming" /\ aborted /\ Failed("cancelled")
  /\ UNCHANGED <<attempt, answer, sent, arrived, aborted, failures, cut>>

(* Mutant: a stream that breaks is asked for again.                        *)
BreaksAndRetries ==
  /\ at = "streaming" /\ ~sent.done /\ ~aborted
  /\ IF attempt < MaxAttempts THEN at' = "waiting" /\ UNCHANGED result
     ELSE Failed("provider_network")
  /\ failures' = Append(failures, "500")
  /\ UNCHANGED <<attempt, answer, sent, arrived, aborted, cut>>

(* The connection breaks: what was heard cannot be taken back, so nobody   *)
(* asks again.                                                             *)
Breaks ==
  /\ at = "streaming" /\ ~sent.done /\ ~aborted
  /\ Failed("provider_network")
  /\ UNCHANGED <<attempt, answer, sent, arrived, aborted, failures, cut>>

-----------------------------------------------------------------------------
(* The end of the stream                                                   *)

(* A set of numbers, the smallest first: each at the place of its rank.    *)
Ranked(P, k) == {j \in P : Cardinality({m \in P : m <= j}) = k}

InOrder(P) == [k \in 1 .. Cardinality(P) |-> CHOOSE j \in Ranked(P, k) : TRUE]

(* collectStreamedToolCalls(): by index, the arguments in order, with the  *)
(* identifier that came last.                                              *)
Indices == {fragments[j].index : j \in DOMAIN fragments}

FragmentsOf(i) == {j \in DOMAIN fragments : fragments[j].index = i}

ArgsOf(i) ==
  LET order == InOrder({j \in FragmentsOf(i) : fragments[j].args # None})
  IN  [k \in DOMAIN order |-> fragments[order[k]].args[1]]

IdOf(i) ==
  LET last == CHOOSE j \in FragmentsOf(i) : \A m \in FragmentsOf(i) : m <= j
  IN  fragments[last].id

Calls ==
  LET order == InOrder(Indices)
  IN  [j \in DOMAIN order |-> [id |-> IdOf(order[j]), args |-> ArgsOf(order[j])]]

(* parseToolCallArguments() *)
Parses(args) == args \in {<<>>, Whole}

(* Mutant: a call whose text cannot be read does not fail the others.      *)
SomeReadable == \E i \in DOMAIN Calls : Parses(Calls[i].args)

CallsRead == \A i \in DOMAIN Calls : Parses(Calls[i].args)

(* validateToolCallIds() *)
IdsDiffer == \A i, j \in DOMAIN Calls : i # j => Calls[i].id # Calls[j].id

(* aggregateReasoning(): the strings joined; the details left out when     *)
(* they are plain text that says the same.                                 *)
Joined(deltas, key) == FoldLeft(LAMBDA acc, d : acc \o d[key], <<>>, deltas)

Plain(details) == \A i \in DOMAIN details : details[i].plain

PlainText(details) == FoldLeft(LAMBDA acc, d : acc \o d.text, <<>>, details)

(* Mutant: plain details are left out whatever they say.                   *)
AggregatedLoosely ==
  LET details == Joined(reasoning, "details") IN
  [reasoning |-> Joined(reasoning, "reasoning"), content |-> Joined(reasoning, "content"),
   details |-> IF Plain(details) THEN <<>> ELSE details]

Aggregated ==
  LET details == Joined(reasoning, "details")
      said == PlainText(details)
      strings == {Joined(reasoning, "reasoning"), Joined(reasoning, "content")}
      redundant == details # <<>> /\ Plain(details) /\ said # <<>>
  IN  [reasoning |-> IF redundant /\ strings = {<<>>} THEN said ELSE Joined(reasoning, "reasoning"),
       content |-> Joined(reasoning, "content"),
       details |-> IF redundant /\ (strings = {<<>>} \/ said \in strings) THEN <<>> ELSE details]

(* AgentTurn tells apart how a turn goes on from here.                     *)
Completed ==
  /\ at' = "over"
  /\ result' = [status |-> CASE finish = "content_filter" -> "failed"
                              [] finish = "length" -> "limited"
                              [] OTHER -> IF Calls # <<>> THEN "calls" ELSE "answered",
                error |-> "none", text |-> text, reasoning |-> <<Aggregated>>,
                calls |-> IF finish \in {"content_filter", "length"} THEN <<>> ELSE Calls]

(* The stream ends: as the model meant it to, or because the server closed *)
(* it, or the client stopped reading on the signal; nobody can tell. A     *)
(* call that cannot be read, or whose identifier is taken, fails the step, *)
(* with all of its calls.                                                  *)
Ends ==
  /\ at = "streaming"
  /\ cut' = ~sent.done
  /\ IF CallsRead /\ IdsDiffer THEN Completed ELSE Failed("provider_protocol")
  /\ UNCHANGED <<attempt, answer, sent, arrived, aborted, failures>>

Abort ==
  /\ at # "over" /\ ~aborted /\ aborted' = TRUE
  /\ UNCHANGED <<at, attempt, answer, sent, arrived, result, failures, cut>>

-----------------------------------------------------------------------------
Next ==
  \/ Connected \/ ConnectFails \/ NextAttempt
  \/ Arrives \/ SeesAbort \/ Breaks \/ Ends
  \/ Abort

(* The client answers a signal it was given and the wait between attempts  *)
(* is over some time; no server has to say anything.                       *)
Spec ==
  /\ Init /\ [][Next]_vars
  /\ WF_vars(NextAttempt) /\ WF_vars(ConnectFails /\ aborted) /\ WF_vars(SeesAbort)

-----------------------------------------------------------------------------
(* Properties                                                              *)

TypeOK ==
  /\ at \in {"connecting", "waiting", "streaming", "over"} /\ attempt \in 1 .. MaxAttempts
  /\ answer \in Answer /\ aborted \in BOOLEAN /\ cut \in BOOLEAN
  /\ finish \in Finish \cup {"unknown"}
  /\ result.status \in {"none", "answered", "calls", "limited", "failed", "cancelled"}

(* However often the provider asks, what it hands on is one answer from    *)
(* its beginning, once: the text and the reasoning of the loop are what    *)
(* the last attempt sent so far; a second attempt follows only an error    *)
(* that may pass, and there is no third.                                   *)
OneAnswerIsHeard ==
  /\ text = SubSeq(answer.text, 1, Len(text)) /\ Len(text) <= Len(answer.text)
  /\ at = "streaming" => Len(text) = sent.text /\ Len(reasoning) = sent.reasoning
  /\ attempt + (IF at = "waiting" THEN 1 ELSE 0) <= 2
  /\ \A i \in DOMAIN failures : i < attempt => failures[i] \notin {"401", "400", "abort"}

(* The tool calls the loop may run are the ones the model made, each with  *)
(* its own arguments, however their fragments were mixed; a call of a      *)
(* stream that was cut short is run with all of its arguments or with none *)
(* of them, never with a part.                                             *)
CallsAreWhole ==
  (at = "over" /\ result.calls # <<>>) =>
    /\ Len(result.calls) <= Len(answer.calls)
    /\ \A i \in DOMAIN result.calls :
         /\ answer.calls[i].id # None => result.calls[i].id = answer.calls[i].id
         /\ \/ result.calls[i].args = answer.calls[i].args
            \/ cut /\ result.calls[i].args = <<>>
    /\ ~cut => Len(result.calls) = Len(answer.calls)

(* Reasoning is only left out when it is said elsewhere: each detail is    *)
(* kept, or all of them are plain and a string that is kept says the same. *)
ReasoningIsKept ==
  (at = "over" /\ result.status \in {"answered", "calls", "limited"}) =>
    LET kept == result.reasoning[1] IN
    /\ Joined(reasoning, "content") = kept.content
    /\ Joined(reasoning, "reasoning") \in {<<>>, kept.reasoning}
    /\ \/ kept.details = Joined(reasoning, "details")
       \/ /\ Plain(Joined(reasoning, "details"))
          /\ PlainText(Joined(reasoning, "details")) \in {kept.reasoning, kept.content}

(* What the agent loop is given is what the provider said, calls and       *)
(* reasoning alike.                                                        *)
AnswerIsWhole == CallsAreWhole /\ ReasoningIsKept

(* A request that is cancelled ends, whatever the server does: also while  *)
(* it connects, while it waits for another attempt, and on a stream that   *)
(* says nothing any more.                                                  *)
CancelEndsRequest == aborted ~> at = "over"
=============================================================================
