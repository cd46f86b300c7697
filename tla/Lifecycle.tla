------------------------------ MODULE Lifecycle ------------------------------
(***************************************************************************)
(* The lifecycle of an intent package (lifecycle.py): the states, the      *)
(* legal edges between them, and the sets of states the other components   *)
(* decide by.  Pure data, no state of its own.                             *)
(***************************************************************************)

STATES == {"draft", "needs_clarification", "ready_for_review", "approved",
           "executable", "in_execution", "verification", "completed",
           "follow_up_due", "blocked", "rejected", "closed", "cancelled",
           "failed", "superseded"}

LEGAL_TRANSITIONS ==
  [s \in STATES |->
     CASE s = "draft" -> {"needs_clarification", "ready_for_review", "cancelled"}
       [] s = "needs_clarification" -> {"draft", "ready_for_review", "cancelled"}
       [] s = "ready_for_review" ->
            {"approved", "rejected", "needs_clarification", "cancelled"}
       [] s = "approved" -> {"executable", "superseded", "cancelled"}
       [] s = "executable" -> {"in_execution", "blocked", "superseded", "cancelled"}
       [] s = "in_execution" ->
            {"verification", "blocked", "failed", "superseded", "cancelled"}
       [] s = "verification" ->
            {"completed", "in_execution", "failed", "blocked", "superseded"}
       [] s = "completed" -> {"follow_up_due", "closed"}
       [] s = "follow_up_due" -> {"closed"}
       [] s = "blocked" -> {"executable", "in_execution", "cancelled"}
       [] s = "rejected" -> {"draft"}
       [] OTHER -> {}]

IsLegalTransition(src, dst) == dst \in LEGAL_TRANSITIONS[src]

\* The states in which the live intent must still have the recorded hash.
DRIFT_LOCKED == {"ready_for_review", "approved", "executable", "in_execution",
                 "verification", "completed", "follow_up_due", "blocked",
                 "rejected"}

\* The states `revise` accepts; after execution began only `supersede` does.
REVISE_LEGAL_FROM == {"draft", "needs_clarification", "ready_for_review",
                      "rejected", "approved"}

\* The states in which a package must already declare its reach (validate.py).
PRE_APPROVAL_STATES == {"draft", "needs_clarification", "ready_for_review"}

=============================================================================
