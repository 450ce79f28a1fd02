--------------------------- MODULE WorkerContract ---------------------------
(***************************************************************************)
(* What the extension runtime relies on when it talks to a worker: a call  *)
(* is answered once, the host closes once, closing leaves nobody waiting,  *)
(* and only a host that closes by a fault tells anyone.                    *)
(***************************************************************************)
CONSTANTS Call, Outcome, Unanswered   (* Unanswered is not an outcome *)

VARIABLES
  open,      (* the host accepts calls                                      *)
  owed,      (* calls somebody waits for                                    *)
  held,      (* calls the worker may still be busy with                     *)
  answered,  (* the answer to each call                                     *)
  told       (* a fault was reported                                        *)

contractVars == <<open, owed, held, answered, told>>

Init ==
  /\ open = TRUE
  /\ owed = {} /\ held = {}
  /\ answered = [c \in Call |-> Unanswered]
  /\ told = FALSE

Fresh(c) == c \notin held /\ answered[c] = Unanswered

Ask(c) ==
  /\ open /\ Fresh(c)
  /\ owed' = owed \cup {c} /\ held' = held \cup {c}
  /\ UNCHANGED <<open, answered, told>>

Refuse(c) ==
  /\ Fresh(c)
  /\ \E o \in Outcome : answered' = [answered EXCEPT ![c] = o]
  /\ UNCHANGED <<open, owed, held, told>>

\* The caller is answered; the worker may or may not be done with the call.
Answer(c) ==
  /\ c \in owed
  /\ owed' = owed \ {c}
  /\ held' \in {held, held \ {c}}
  /\ \E o \in Outcome : answered' = [answered EXCEPT ![c] = o]
  /\ UNCHANGED <<open, told>>

Release(c) ==
  /\ c \in held \ owed
  /\ held' = held \ {c}
  /\ UNCHANGED <<open, owed, answered, told>>

\* A fault: everybody who waits is answered in the same step.
Fail ==
  /\ open
  /\ open' = FALSE /\ told' = TRUE
  /\ owed' = {} /\ held' = {}
  /\ \E o \in Outcome :
       answered' = [c \in Call |-> IF c \in owed THEN o ELSE answered[c]]

\* A shutdown: only while no call is held.
Stop ==
  /\ open /\ held = {}
  /\ open' = FALSE
  /\ UNCHANGED <<owed, held, answered, told>>

Next ==
  \/ Fail \/ Stop
  \/ \E c \in Call : Ask(c) \/ Refuse(c) \/ Answer(c) \/ Release(c)

Spec == Init /\ [][Next]_contractVars
=============================================================================
