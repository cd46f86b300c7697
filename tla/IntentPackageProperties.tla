----------------------- MODULE IntentPackageProperties -----------------------
(***************************************************************************)
(* What holds of one intent package (module IntentPackage), and what the   *)
(* repository's documents say of it that does not.                         *)
(*                                                                         *)
(* A property that begins "One operator at a time" holds when commands do  *)
(* not overlap each other or an author's save, and operators do not pass   *)
(* `approved` or `superseded` to `transition`: the code enforces neither.  *)
(* The others hold for any interleaving, crash, edit and command line.     *)
(***************************************************************************)
EXTENDS IntentPackage

\* Every variable holds a value of its kind: in particular no command computes
\* a revision beyond the bound, writes a lineage it never read, or leaves its
\* own place.
TypeOK ==
  /\ pkg \in Package /\ lin \in Lineage
  /\ chain \in Seq(Approval) /\ Len(chain) <= MaxEvents
  /\ replacement \in BOOLEAN /\ forged \subseteq Approval
  /\ crashes \in 0..MaxCrashes
  /\ pc \in [Procs -> Places]
  /\ cmd \in [Procs -> Commands \cup {BlankCommand}]
  /\ view \in [Procs -> Package]
  /\ copy \in [Procs -> Lineage]

InLog(a) == \E i \in 1..Len(chain) : chain[i] = a

\* "An unaudited approval can never exist" (do_approve): whatever commands run
\* together, crash or time out, a ledger entry that nobody wrote by hand names
\* the hash and the approver of an event in the tamper-evident log.
NoUnauditedApproval == \A a \in lin.approvals \ forged : InLog(a)

\* The event records an intent without open questions, approved by a human or
\* by the very policy string granted to an intent the policy does not object to.
IsProperEvent(e) ==
  /\ e.hash.content \notin OpenQuestioned
  /\ IsAuthorized(e.approver, e.hash.content)

\* verify-approval fails closed: when it answers yes with the chain consulted,
\* the very intent it read was approved, by an approver who might, and the log
\* says so - however the ledger was edited and whatever ran meanwhile.
GateSound ==
  \A p \in Procs :
    (pc[p] = "verified" /\ cmd[p].arg = "chain") =>
      \E i \in 1..Len(chain) :
        chain[i].hash = package_hash(view[p]) /\ IsProperEvent(chain[i])

PostApproval == {"approved", "executable", "in_execution", "verification",
                 "completed", "follow_up_due", "blocked", "failed", "closed",
                 "superseded"}

\* A package does not get past review on stale reads alone: in a state that
\* lies behind approval, some approval of it was logged (or written by hand).
NeverPastReviewUnapproved ==
  lin.state \in PostApproval => chain # <<>> \/ forged # {}

\* One operator at a time: behind approval, the ledger approves the hash of the
\* current revision itself, whatever crash interrupted a command on the way.
PostApprovalLedgered ==
  lin.state \in PostApproval => HasMatchingApproval(lin, current_revision_hash(lin))

\* One operator at a time: no command leaves a ledger that disagrees with the
\* recorded hashes, which check L would refuse for ever after.
LedgerConsistent == ApprovalsRecorded(lin)

\* What was approved had passed validation and declared its reach, unless package.yaml
\* was saved after approve validated it and before it loaded the file again.
ApprovedWasValid ==
  \A i \in 1..Len(chain) : chain[i].hash.content \in WellFormed \ Reachless

\* One operator at a time: work advances only on the intent that was approved;
\* an intent edited after approval blocks every later step until revised.
AdvanceOnlyApprovedIntent ==
  [][(lin'.state # lin.state
        /\ lin'.state \in {"executable", "in_execution", "verification", "completed"})
       => HasMatchingApproval(lin', package_hash(pkg))]_vars

\* One operator at a time: the state of record moves along the lifecycle's
\* edges only, or back to draft by revise, though each command decides on a
\* lineage it read before writing it.
MovesAlongEdges ==
  [][lin'.state # lin.state =>
       \/ IsLegalTransition(lin.state, lin'.state)
       \/ lin'.state = "draft" /\ lin.state \in REVISE_LEGAL_FROM]_vars

\* One operator at a time: a package whose intent requires a follow-up is never
\* closed from completed, not even by editing the requirement away first.
FollowUpHonoured ==
  [][(lin.state = "completed" /\ lin'.state = "closed") =>
       current_revision_hash(lin).content \notin FollowUpRequired]_vars

\* One operator at a time: an approved revision is immutable; its entry stays in
\* the ledger and its recorded hash is never replaced.
ApprovedImmutable ==
  [][\A a \in lin.approvals :
       a \in lin'.approvals /\ lin'.revs[a.hash.revision] = lin.revs[a.hash.revision]]_vars

\* One operator at a time: only a crash leaves the status line of package.yaml
\* behind the state of record.
StatusMirrored == (Quiet /\ crashes = 0) => StatusMirrors(pkg, lin)

\* One operator at a time: once a crash has left the two files in disagreement, no
\* transition and no approval moves the package on from a state that package.yaml does
\* not show; only revise, which records the hash of a further revision, and supersede
\* take it out of there: they validate nothing.
TornStaysPut ==
  [][(lin'.state # lin.state /\ ~StatusMirrors(pkg, lin)) =>
       \/ lin'.state = "draft" /\ lin'.revs # lin.revs
       \/ lin'.state = "superseded"]_vars

-----------------------------------------------------------------------------
(* Statements of the documents that the code does not keep. *)

\* do_revise: "Revising from `approved` leaves the old approval in
\* lineage["approvals"] [...] it is never deleted."
ApprovalNeverDeleted ==
  [][(lin.state = "approved" /\ lin'.state = "draft")
       => lin.approvals \subseteq lin'.approvals]_vars

\* do_approve, step 6: a call "retried after a crash between lineage.write and
\* set_status_in_file" completes the missing write.  Here: it is not refused.
RetryCompletes ==
  [][\A p \in Procs :
       ( /\ pc[p] = "validating" /\ cmd[p].op = "approve"
         /\ MayConsiderApproval(view[p], lin, cmd[p].arg)
         /\ HasMatchingApproval(lin, package_hash(view[p]))
         /\ lin.state = "approved" /\ view[p].status # "approved"
         /\ crashes' = crashes ) => pc'[p] # "idle"]_vars

-----------------------------------------------------------------------------
(* The approval gate that the package implements (module ApprovalGate). *)

AuditedHashes == {chain[i].hash : i \in 1..Len(chain)}

OpenHashes ==
  {package_hash(view[p]) :
     p \in {q \in Procs : pc[q] = "verified" /\ cmd[q].arg = "chain"}}

Gate == INSTANCE ApprovalGate WITH
          Approvable <- {h \in Hashes : h.content \notin OpenQuestioned
                           /\ \E a \in Approvers : IsAuthorized(a, h.content)},
          audited <- AuditedHashes, open <- OpenHashes

\* Commands in any interleaving, crashes, edits and forged ledgers implement the
\* gate: approvals are logged one by one and only logged hashes are let through.
ImplementsGate == Gate!Spec

=============================================================================
