---------------------------- MODULE IntentPackage ----------------------------
(***************************************************************************)
(* One intent package and the commands that work on it.                    *)
(*                                                                         *)
(* The package is a directory of two hand-readable files, package.yaml     *)
(* (the intent, a revision number and a mirror of the status) and          *)
(* lineage.yaml (the state of record, the hash of every recorded revision  *)
(* and the ledger of approvals).  Approvals are also events of an external *)
(* tamper-evident log.  Nothing locks the directory: every command is a    *)
(* separate process that reads and writes the two files one at a time, may *)
(* be killed between any two of its accesses, and may run beside another   *)
(* command and beside an author's editor.  Each access is one action here. *)
(*                                                                         *)
(* Not represented: the events other than package.approved (their emit is  *)
(* best-effort, its outcome changes no later step and nothing reads them), *)
(* timestamps, actors, and the list of past transitions, which only        *)
(* validation reads and every writer extends with a legal edge.  The       *)
(* hash is the pair it is computed from: the intent and the revision, not  *)
(* the status (canonical.py).                                              *)
(***************************************************************************)
EXTENDS Naturals, Sequences, FiniteSets, Lifecycle

CONSTANTS
  Procs,            \* the command processes that may run at the same time
  Contents,         \* the intents an author may write into package.yaml
  WellFormed,       \* those that pass every check of package.yaml alone
  Reachless,        \* those that declare no `reach`
  OpenQuestioned,   \* those with a non-empty scope.open_questions
  FollowUpRequired, \* those with follow_up.required
  PolicyShapes,     \* those the approval policy has no objection to
  Humans,           \* approvers the registry knows as human operators
  PolicyApprovers,  \* the approver strings of the form policy:<profile>@v<n>
  GrantedApprover,  \* the one such string the policy grants to PolicyShapes
  Agents,           \* approvers that are neither
  TransitionTargets,\* the states operators pass to `transition --to`
  ForgedApprovers,  \* the approvers a hand-edited ledger may name ({}: none)
  EditsDuringOps,   \* whether an author may save while a command runs
  MaxRevision,      \* bound on revisions
  MaxEvents,        \* bound on package.approved events
  MaxCrashes,       \* bound on killed commands
  NoSnapshot        \* no hash recorded for a revision

Approvers == Humans \cup PolicyApprovers \cup Agents

ASSUME ContentsAssumption ==
  /\ WellFormed \subseteq Contents /\ WellFormed \ (Reachless \cup OpenQuestioned) # {}
  /\ \A S \in {Reachless, OpenQuestioned, FollowUpRequired, PolicyShapes} :
       S \subseteq Contents
ASSUME ApproversAssumption ==
  /\ GrantedApprover \in PolicyApprovers
  /\ ForgedApprovers \subseteq Approvers
  /\ Agents \cap (Humans \cup PolicyApprovers) = {}
  /\ Humans \cap PolicyApprovers = {}
ASSUME TargetsAssumption == TransitionTargets \subseteq STATES
ASSUME BoundsAssumption ==
  /\ EditsDuringOps \in BOOLEAN
  /\ MaxRevision \in Nat \ {0} /\ MaxEvents \in Nat /\ MaxCrashes \in Nat

Revisions == 1..MaxRevision
Hashes == [content : Contents, revision : Revisions]
ASSUME NoSnapshotAssumption == NoSnapshot \notin Hashes

Package == [content : Contents, revision : Revisions, status : STATES]
Approval == [hash : Hashes, approver : Approvers]
Lineage == [state : STATES,
            revs : [Revisions -> Hashes \cup {NoSnapshot}],
            approvals : SUBSET Approval]

\* A command line: the operation and the argument that matters to it.
Commands == [op : {"transition"}, arg : TransitionTargets]
              \cup [op : {"approve"}, arg : Approvers]
              \cup [op : {"revise", "supersede"}, arg : {"none"}]
              \cup [op : {"verify"}, arg : {"chain", "ledger_only"}]

Places == {"idle", "validating", "loading", "deciding", "emitting", "writing",
           "replaying", "mirroring", "revise_loading", "revise_bumping",
           "revise_rehashing", "supersede_loading", "checking_ledger",
           "checking_chain", "verified"}

VARIABLES
  pkg,          \* package.yaml
  lin,          \* lineage.yaml
  chain,        \* the package.approved events of the factory-events log
  replacement,  \* the package named by `supersede --by` exists and points back
  forged,       \* the approvals ever written into lineage.yaml by hand
  crashes,      \* commands killed so far
  pc,           \* where each process is
  cmd,          \* the command line each process runs
  view,         \* the package.yaml each process last read
  copy          \* the lineage.yaml each process read and is about to write

files == <<pkg, lin>>
outside == <<chain, replacement, forged>>
local == <<cmd, view, copy>>
vars == <<pkg, lin, chain, replacement, forged, crashes, pc, cmd, view, copy>>

-----------------------------------------------------------------------------
(* What the commands compute from the files. *)

package_hash(p) == [content |-> p.content, revision |-> p.revision]

snapshot_revision(l, r, h) == [l EXCEPT !.revs[r] = h]

\* The hash of the highest recorded revision (lineage.current_revision_hash).
current_revision_hash(l) ==
  LET recorded == {r \in Revisions : l.revs[r] # NoSnapshot}
      top == CHOOSE r \in recorded : \A s \in recorded : s <= r
  IN  l.revs[top]

\* operations._is_recognised_approver: a human, or anything spelled as a policy.
IsRecognised(a) == a \in Humans \cup PolicyApprovers

HasMatchingApproval(l, h) ==
  \E a \in l.approvals : a.hash = h /\ IsRecognised(a.approver)

\* operations._authorize_approver: the human arm first, else exactly the string
\* the policy grants, and the policy must have no objection to the intent.
IsAuthorized(a, content) ==
  \/ a \in Humans
  \/ a = GrantedApprover /\ content \in PolicyShapes

\* Check S: the status is a mirror of the state of record.
StatusMirrors(p, l) == p.status = l.state

\* Variant of NoDrift: drift is looked at until execution begins, not after.
NoDriftBeforeExecution(p, l) ==
  p.status \in DRIFT_LOCKED \cap REVISE_LEGAL_FROM =>
    package_hash(p) = current_revision_hash(l)

\* Check H: under review and after, the intent still has the recorded hash.
NoDrift(p, l) ==
  p.status \in DRIFT_LOCKED => package_hash(p) = current_revision_hash(l)

\* Check L, the part a writer can break: every approval is of a recorded hash.
ApprovalsRecorded(l) == \A a \in l.approvals : l.revs[a.hash.revision] = a.hash

\* Variants of IsValid: without check H, without the check of `reach`, and without check S.
IsValidWithoutDrift(p, l) ==
  /\ p.content \in WellFormed
  /\ p.status \in PRE_APPROVAL_STATES => p.content \notin Reachless
  /\ StatusMirrors(p, l) /\ ApprovalsRecorded(l)

IsValidWithoutReach(p, l) ==
  /\ p.content \in WellFormed
  /\ StatusMirrors(p, l) /\ NoDrift(p, l) /\ ApprovalsRecorded(l)

IsValidWithoutMirror(p, l) ==
  /\ p.content \in WellFormed
  /\ p.status \in PRE_APPROVAL_STATES => p.content \notin Reachless
  /\ NoDrift(p, l) /\ ApprovalsRecorded(l)

\* validate_package returns no error for this package.yaml and lineage.yaml.
IsValid(p, l) ==
  /\ p.content \in WellFormed
  /\ p.status \in PRE_APPROVAL_STATES => p.content \notin Reachless
  /\ StatusMirrors(p, l) /\ NoDrift(p, l) /\ ApprovalsRecorded(l)

-----------------------------------------------------------------------------
BlankPackage == [content |-> CHOOSE c \in WellFormed : TRUE,
                 revision |-> 1, status |-> "draft"]
BlankLineage == [state |-> "draft", approvals |-> {},
                 revs |-> [r \in Revisions |-> NoSnapshot]]
BlankCommand == [op |-> "none", arg |-> "none"]

\* A package as `create` leaves it: a valid draft whose revision 1 is recorded.
Init ==
  /\ \E c \in WellFormed \ Reachless :
       /\ pkg = [content |-> c, revision |-> 1, status |-> "draft"]
       /\ lin = snapshot_revision(BlankLineage, 1, package_hash(pkg))
  /\ chain = <<>> /\ replacement = FALSE /\ forged = {} /\ crashes = 0
  /\ pc = [p \in Procs |-> "idle"]
  /\ cmd = [p \in Procs |-> BlankCommand]
  /\ view = [p \in Procs |-> BlankPackage]
  /\ copy = [p \in Procs |-> BlankLineage]

Goto(p, place) == pc' = [pc EXCEPT ![p] = place]

\* What a process will not read again is reset, so that it tells no states apart.
ForgetView(p) == view' = [view EXCEPT ![p] = BlankPackage]
ForgetCommand(p) == cmd' = [cmd EXCEPT ![p] = BlankCommand]

\* The command has decided: it goes on to write `l` as the new lineage.yaml.
Commit(p, l) ==
  /\ copy' = [copy EXCEPT ![p] = l]
  /\ Goto(p, "writing") /\ ForgetView(p) /\ ForgetCommand(p)

\* Only the status line is left to write: of the copy, the state is still used.
Mirror(p, state) ==
  /\ copy' = [copy EXCEPT ![p] = [BlankLineage EXCEPT !.state = state]]
  /\ Goto(p, "mirroring") /\ ForgetView(p) /\ ForgetCommand(p)

\* The process exits, with success or with a refusal: its memory is gone.
Exit(p) ==
  /\ Goto(p, "idle") /\ ForgetView(p) /\ ForgetCommand(p)
  /\ copy' = [copy EXCEPT ![p] = BlankLineage]

-----------------------------------------------------------------------------
(* transition and approve begin by validating the package. *)

\* validate_package loads package.yaml.
BeginValidated(p) ==
  \E c \in Commands :
    /\ pc[p] = "idle" /\ c.op \in {"transition", "approve"}
    /\ Goto(p, "validating")
    /\ cmd' = [cmd EXCEPT ![p] = c]
    /\ view' = [view EXCEPT ![p] = pkg]
    /\ UNCHANGED <<files, outside, crashes, copy>>

\* ... reads lineage.yaml, and any error refuses the command.
Validate(p) ==
  /\ pc[p] = "validating"
  /\ \/ /\ IsValid(view[p], lin)
        /\ Goto(p, "loading") /\ ForgetView(p) /\ UNCHANGED <<cmd, copy>>
     \/ ~IsValid(view[p], lin) /\ Exit(p)
  /\ UNCHANGED <<files, outside, crashes>>

\* The command then loads package.yaml a second time, for itself.
Load(p) ==
  /\ pc[p] = "loading"
  /\ view' = [view EXCEPT ![p] = pkg]
  /\ Goto(p, "deciding")
  /\ UNCHANGED <<files, outside, crashes, cmd, copy>>

-----------------------------------------------------------------------------
(* transition --to <state> *)

\* Variants of MayTransition: each of its two refusals left out.
MayTransitionAnywhere(v, l, to) ==
  ~(l.state = "completed" /\ to = "closed" /\ v.content \in FollowUpRequired)

MayTransitionWithoutFollowUp(v, l, to) == IsLegalTransition(l.state, to)

MayTransition(v, l, to) ==
  /\ IsLegalTransition(l.state, to)
  /\ ~(l.state = "completed" /\ to = "closed" /\ v.content \in FollowUpRequired)

\* A package put up for review records the hash of what was put up.
Transitioned(v, l, to) ==
  [(IF to = "ready_for_review"
      THEN snapshot_revision(l, v.revision, package_hash(v)) ELSE l)
     EXCEPT !.state = to]

DecideTransition(p) ==
  /\ pc[p] = "deciding" /\ cmd[p].op = "transition"
  /\ LET to == cmd[p].arg IN
       \/ /\ MayTransition(view[p], lin, to)
          /\ Commit(p, Transitioned(view[p], lin, to))
       \/ ~MayTransition(view[p], lin, to) /\ Exit(p)
  /\ UNCHANGED <<files, outside, crashes>>

-----------------------------------------------------------------------------
(* approve *)

\* Variant of MayConsiderApproval: open questions only warned about.
MayConsiderQuestioned(v, l, approver) ==
  /\ l.state \in {"ready_for_review", "approved"}
  /\ IsAuthorized(approver, v.content)

\* The refusals common to a first approval and to a repeated one.
MayConsiderApproval(v, l, approver) ==
  /\ l.state \in {"ready_for_review", "approved"}
  /\ v.content \notin OpenQuestioned
  /\ IsAuthorized(approver, v.content)

\* lineage.yaml is read once; the emit and the write work from that copy.
DecideApproval(p) ==
  /\ pc[p] = "deciding" /\ cmd[p].op = "approve"
  /\ LET may == MayConsiderApproval(view[p], lin, cmd[p].arg)
         repeated == HasMatchingApproval(lin, package_hash(view[p]))
     IN
       \/ /\ may /\ ~repeated /\ lin.state = "ready_for_review"
          /\ copy' = [copy EXCEPT ![p] = lin]
          /\ Goto(p, "emitting")
          /\ UNCHANGED <<cmd, view>>
       \/ /\ may /\ repeated /\ lin.state # "approved"
          /\ copy' = [copy EXCEPT ![p] = [lin EXCEPT !.state = "approved"]]
          /\ Goto(p, "replaying")
          /\ UNCHANGED <<cmd, view>>
       \/ /\ may /\ repeated /\ lin.state = "approved"
          /\ view[p].status # "approved"
          /\ Mirror(p, "approved")
       \/ /\ may /\ repeated /\ lin.state = "approved"
          /\ view[p].status = "approved"
          /\ Exit(p)
       \/ (~may \/ (~repeated /\ lin.state # "ready_for_review")) /\ Exit(p)
  /\ UNCHANGED <<files, outside, crashes>>

AppendEvent(h, approver) ==
  /\ Len(chain) < MaxEvents
  /\ chain' = Append(chain, [hash |-> h, approver |-> approver])

\* Variant of EmitApproval: the ledger keeps the latest approval only.
EmitApprovalReplacing(p) ==
  LET entry == [hash |-> package_hash(view[p]), approver |-> cmd[p].arg] IN
  /\ pc[p] = "emitting"
  /\ AppendEvent(entry.hash, entry.approver)
  /\ Commit(p, [copy[p] EXCEPT !.approvals = {entry}, !.state = "approved"])
  /\ UNCHANGED <<files, replacement, forged, crashes>>

\* The emit is fatal: only after it succeeds does the ledger gain an entry.
EmitApproval(p) ==
  LET entry == [hash |-> package_hash(view[p]), approver |-> cmd[p].arg] IN
  /\ pc[p] = "emitting"
  /\ AppendEvent(entry.hash, entry.approver)
  /\ Commit(p, [copy[p] EXCEPT !.approvals = @ \cup {entry}, !.state = "approved"])
  /\ UNCHANGED <<files, replacement, forged, crashes>>

\* Variant of EmitFails: the emit is best-effort, as in the other commands.
EmitFailsSilently(p) ==
  LET entry == [hash |-> package_hash(view[p]), approver |-> cmd[p].arg] IN
  /\ pc[p] = "emitting"
  /\ Commit(p, [copy[p] EXCEPT !.approvals = @ \cup {entry}, !.state = "approved"])
  /\ UNCHANGED <<files, outside, crashes>>

\* A raised EmitError writes nothing, but the error may be a timeout of an
\* emit the log has already recorded.
EmitFails(p) ==
  /\ pc[p] = "emitting"
  /\ \/ UNCHANGED chain
     \/ AppendEvent(package_hash(view[p]), cmd[p].arg)
  /\ Exit(p)
  /\ UNCHANGED <<files, replacement, forged, crashes>>

-----------------------------------------------------------------------------
(* The two writes every successful command ends with. *)

\* Variant of WriteLineage: the mirror in package.yaml is forgotten.
WriteLineageOnly(p) ==
  /\ pc[p] \in {"writing", "replaying"}
  /\ lin' = copy[p]
  /\ Exit(p)
  /\ UNCHANGED <<pkg, outside, crashes>>

\* The whole of lineage.yaml is overwritten with the process's copy.  A
\* repeated approval skips the second write if it saw the status already there.
WriteLineage(p) ==
  /\ pc[p] \in {"writing", "replaying"}
  /\ lin' = copy[p]
  /\ IF pc[p] = "replaying" /\ view[p].status = "approved"
       THEN Exit(p)
       ELSE Mirror(p, copy[p].state)
  /\ UNCHANGED <<pkg, outside, crashes>>

\* One line of package.yaml is replaced; the rest is as it is on disk now.
SetStatus(p) ==
  /\ pc[p] = "mirroring"
  /\ pkg' = [pkg EXCEPT !.status = copy[p].state]
  /\ Exit(p)
  /\ UNCHANGED <<lin, outside, crashes>>

-----------------------------------------------------------------------------
(* revise: no validation, since drift is what it resolves. *)

BeginRevise(p) ==
  /\ pc[p] = "idle" /\ lin.state \in REVISE_LEGAL_FROM
  /\ cmd' = [cmd EXCEPT ![p] = [op |-> "revise", arg |-> "none"]]
  /\ copy' = [copy EXCEPT ![p] = lin]
  /\ Goto(p, "revise_loading")
  /\ UNCHANGED <<files, outside, crashes, view>>

\* Bounded: a package at MaxRevision is not revised again.
ReviseLoad(p) ==
  /\ pc[p] = "revise_loading"
  /\ \/ /\ pkg.revision < MaxRevision
        /\ view' = [view EXCEPT ![p] = pkg]
        /\ Goto(p, "revise_bumping")
        /\ UNCHANGED <<cmd, copy>>
     \/ pkg.revision = MaxRevision /\ Exit(p)
  /\ UNCHANGED <<files, outside, crashes>>

\* Variants of NewRevision: one too far, and the same revision again.
NewRevisionSkipping(p) == view[p].revision + 2
SameRevision(p) == view[p].revision

NewRevision(p) == view[p].revision + 1

ReviseBump(p) ==
  /\ pc[p] = "revise_bumping"
  /\ pkg' = [pkg EXCEPT !.revision = NewRevision(p)]
  /\ Goto(p, "revise_rehashing")
  /\ UNCHANGED <<lin, outside, crashes, local>>

\* package.yaml is read back and its hash recorded under the new revision.
ReviseRehash(p) ==
  /\ pc[p] = "revise_rehashing"
  /\ Commit(p, [snapshot_revision(copy[p], NewRevision(p), package_hash(pkg))
                  EXCEPT !.state = "draft"])
  /\ UNCHANGED <<files, outside, crashes>>

-----------------------------------------------------------------------------
(* supersede --by <package>: no validation either. *)

BeginSupersede(p) ==
  /\ pc[p] = "idle" /\ IsLegalTransition(lin.state, "superseded")
  /\ cmd' = [cmd EXCEPT ![p] = [op |-> "supersede", arg |-> "none"]]
  /\ copy' = [copy EXCEPT ![p] = lin]
  /\ Goto(p, "supersede_loading")
  /\ UNCHANGED <<files, outside, crashes, view>>

SupersedeLoad(p) ==
  /\ pc[p] = "supersede_loading"
  /\ \/ /\ replacement
        /\ Commit(p, [copy[p] EXCEPT !.state = "superseded"])
     \/ ~replacement /\ Exit(p)
  /\ UNCHANGED <<files, outside, crashes>>

-----------------------------------------------------------------------------
(* verify-approval, the gate the orchestrator's client opens work by. *)

BeginVerify(p) ==
  \E c \in Commands :
    /\ pc[p] = "idle" /\ c.op = "verify"
    /\ cmd' = [cmd EXCEPT ![p] = c]
    /\ view' = [view EXCEPT ![p] = pkg]
    /\ Goto(p, "checking_ledger")
    /\ UNCHANGED <<files, outside, crashes, copy>>

\* Variant of CheckLedger: the ledger alone always suffices.
LedgerSuffices(p) ==
  /\ pc[p] = "checking_ledger"
  /\ \/ HasMatchingApproval(lin, package_hash(view[p])) /\ Goto(p, "verified") /\ UNCHANGED local
     \/ ~HasMatchingApproval(lin, package_hash(view[p])) /\ Exit(p)
  /\ UNCHANGED <<files, outside, crashes>>

CheckLedger(p) ==
  LET approved == HasMatchingApproval(lin, package_hash(view[p])) IN
  /\ pc[p] = "checking_ledger"
  /\ \/ approved /\ cmd[p].arg = "chain" /\ Goto(p, "checking_chain") /\ UNCHANGED local
     \/ approved /\ cmd[p].arg = "ledger_only" /\ Goto(p, "verified") /\ UNCHANGED local
     \/ ~approved /\ Exit(p)
  /\ UNCHANGED <<files, outside, crashes>>

\* The hash is the subject of some package.approved event.
IsAudited(h) == \E i \in 1..Len(chain) : chain[i].hash = h

\* Variant of CheckChain: a log that cannot be consulted is no objection.
CheckChainFailOpen(p) ==
  /\ pc[p] = "checking_chain"
  /\ Goto(p, "verified") /\ UNCHANGED local
  /\ UNCHANGED <<files, outside, crashes>>

\* Fail closed: a log that cannot be consulted is a refusal.
CheckChain(p) ==
  /\ pc[p] = "checking_chain"
  /\ \/ IsAudited(package_hash(view[p])) /\ Goto(p, "verified") /\ UNCHANGED local
     \/ Exit(p)
  /\ UNCHANGED <<files, outside, crashes>>

ReturnVerified(p) ==
  /\ pc[p] = "verified"
  /\ Exit(p)
  /\ UNCHANGED <<files, outside, crashes>>

-----------------------------------------------------------------------------
(* The surroundings. *)

\* A command is killed, or loses its machine, between two file accesses.
Crash(p) ==
  /\ pc[p] # "idle" /\ crashes < MaxCrashes
  /\ crashes' = crashes + 1
  /\ Exit(p)
  /\ UNCHANGED <<files, outside>>

Quiet == \A p \in Procs : pc[p] = "idle"

\* An author saves another intent into package.yaml.
AuthorEdit ==
  /\ EditsDuringOps \/ Quiet
  /\ \E c \in Contents \ {pkg.content} : pkg' = [pkg EXCEPT !.content = c]
  /\ UNCHANGED <<lin, outside, crashes, pc, local>>

\* Someone writes an approval of the live intent into lineage.yaml by hand.
ForgeApproval ==
  /\ \E a \in ForgedApprovers :
       LET entry == [hash |-> package_hash(pkg), approver |-> a] IN
         /\ lin' = [lin EXCEPT !.approvals = @ \cup {entry}]
         /\ forged' = forged \cup {entry}
  /\ UNCHANGED <<pkg, chain, replacement, crashes, pc, local>>

\* The replacement package is authored, with its `supersedes` pointing back.
AuthorReplacement ==
  /\ ~replacement /\ replacement' = TRUE
  /\ UNCHANGED <<files, chain, forged, crashes, pc, local>>

Command(p) ==
  \/ BeginValidated(p) \/ Validate(p) \/ Load(p)
  \/ DecideTransition(p)
  \/ DecideApproval(p) \/ EmitApproval(p) \/ EmitFails(p)
  \/ WriteLineage(p) \/ SetStatus(p)
  \/ BeginRevise(p) \/ ReviseLoad(p) \/ ReviseBump(p) \/ ReviseRehash(p)
  \/ BeginSupersede(p) \/ SupersedeLoad(p)
  \/ BeginVerify(p) \/ CheckLedger(p) \/ CheckChain(p) \/ ReturnVerified(p)
  \/ Crash(p)

Next ==
  \/ \E p \in Procs : Command(p)
  \/ AuthorEdit \/ ForgeApproval \/ AuthorReplacement

Spec == Init /\ [][Next]_vars

=============================================================================
