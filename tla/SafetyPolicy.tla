----------------------------- MODULE SafetyPolicy -----------------------------
(***************************************************************************)
(* The central safety policy: what becomes of a tool call before anything  *)
(* runs (src/security/central-safety-policy.ts).  A call is the tool, what *)
(* its declared paths are, and for a command the traits the policy's       *)
(* patterns find in its text; a command may have any of them together.     *)
(***************************************************************************)
EXTENDS FiniteSets

Modes == {"safe", "balanced", "auto", "full-access"}

ReadTools  == {"list_files", "read_file", "search_text"}
WriteTools == {"apply_patch", "write_file"}
CommandTool == "run_command"

(* Where a declared path points, as its text says: "git" is below .git,    *)
(* "absolute" names a place inside in full, "outside" is a device, a       *)
(* network share or a path that leaves the root.                           *)
PathKinds == {"none", "inside", "absolute", "git", "outside"}

(* Dynamic paths and paths outside the root; writes below .git; keys and   *)
(* environment dumps; elevation; encoded execution and broad deletion.     *)
HardTraits == {"boundary", "git internal", "credential", "privilege", "destructive"}

AskTraits == {"dependency", "git mutation", "network", "delete", "script", "compound"}

SafeTraits == {"validation", "read", "local write"}

(* "missing": the call has no command text at all.                         *)
Traits == HardTraits \cup AskTraits \cup SafeTraits \cup {"missing"}

(* Mutant: a command that starts like a harmless one is taken for one.     *)
ClassifiedByItsStart(traits) ==
  IF traits \cap (HardTraits \cup {"missing"}) # {} THEN "refused"
  ELSE IF "validation" \in traits THEN "validation"
  ELSE IF "read" \in traits THEN "read"
  ELSE IF "local write" \in traits THEN "local write"
  ELSE "ask"

(* classifyCommand(): what must be refused first, then what must be asked, *)
(* only then what is known to be harmless; the rest is asked.              *)
Classify(traits) ==
  IF traits \cap (HardTraits \cup {"missing"}) # {} THEN "refused"
  ELSE IF traits \cap AskTraits # {} THEN "ask"
  ELSE IF "validation" \in traits THEN "validation"
  ELSE IF "read" \in traits THEN "read"
  ELSE IF "local write" \in traits THEN "local write"
  ELSE "ask"

(* declaredPathViolation() *)
PathViolated(tool, kind) ==
  kind = "outside" \/ (kind = "git" /\ tool \in WriteTools)

(* askOrApproved(): approvals are for an operation of the session, and not *)
(* for a mode.                                                             *)
AskOrApproved(approved) == IF approved THEN "allow" ELSE "ask"

(* modeDecision() *)
ModeDecision(mode, class, approved) ==
  CASE class = "read" -> "allow"
    [] class = "validation" /\ mode # "safe" -> "allow"
    [] class = "local write" /\ mode = "auto" -> "allow"
    [] OTHER -> AskOrApproved(approved)

(* evaluate(): confirmed Full Access allows whatever is registered; tools  *)
(* the policy does not know are refused in the other modes.                *)
Evaluate(mode, call, approved) ==
  IF mode = "full-access" THEN "allow"
  ELSE IF PathViolated(call.tool, call.kind) THEN "deny"
  ELSE IF call.tool \in ReadTools THEN "allow"
  ELSE IF call.tool \in WriteTools
       THEN IF mode = "safe" THEN AskOrApproved(approved) ELSE "allow"
  ELSE IF call.tool # CommandTool \/ Classify(call.traits) = "refused" THEN "deny"
  ELSE ModeDecision(mode, Classify(call.traits), approved)

=============================================================================
