---------------------------- MODULE ApprovalGate ----------------------------
(***************************************************************************)
(* What approval promises the orchestrator, without files or processes:    *)
(* hashes are approved one at a time and for good, only such as may be     *)
(* approved, and the gate opens for approved hashes only.                  *)
(***************************************************************************)
CONSTANT Approvable  \* the hashes of the intents somebody may approve

VARIABLES audited,    \* the hashes the log holds an approval of
          open        \* the hashes the gate is letting through now

Init == audited = {} /\ open = {}

\* An approval is logged.
Approve ==
  /\ \E h \in Approvable : audited' = audited \cup {h}
  /\ UNCHANGED open

\* The gate opens for one more approved hash, or closes behind callers.
Admit ==
  /\ open' \in SUBSET audited
  /\ UNCHANGED audited

Next == Approve \/ Admit

Spec == Init /\ [][Next]_<<audited, open>>

=============================================================================
