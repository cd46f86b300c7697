------------------------- MODULE IntentPackageProofs -------------------------
(***************************************************************************)
(* Proofs about IntentPackage, for every value of its constants: any       *)
(* number of processes, intents, approvers and crashes, any command line,  *)
(* edits at any time and any hand-written ledger entries.                  *)
(***************************************************************************)
EXTENDS IntentPackageProperties, TLAPS

USE DEF files, outside, local

-----------------------------------------------------------------------------
(* Types. *)

\* What the processes remember is typed.
LocalOK ==
  /\ pc \in [Procs -> Places]
  /\ cmd \in [Procs -> Commands \cup {BlankCommand}]
  /\ view \in [Procs -> Package]
  /\ copy \in [Procs -> Lineage]

\* What they share is typed.
SharedOK ==
  /\ pkg \in Package /\ lin \in Lineage
  /\ chain \in Seq(Approval) /\ Len(chain) <= MaxEvents
  /\ replacement \in BOOLEAN /\ forged \subseteq Approval
  /\ crashes \in 0..MaxCrashes

\* TypeOK is not inductive by itself: between reading the file and writing the
\* next revision, revise relies on the bound it checked when it read, and a
\* process about to emit runs an approve.
RunningOK ==
  \A p \in Procs :
    /\ pc[p] \in {"revise_bumping", "revise_rehashing"} => view[p].revision < MaxRevision
    /\ pc[p] = "emitting" => cmd[p].op = "approve"

TypeInv == TypeOK /\ RunningOK

\* The reset values are typed, since some intent is well-formed.
LEMMA BlankTypes ==
  BlankPackage \in Package /\ BlankLineage \in Lineage
<1>1. BlankPackage \in Package
  BY ContentsAssumption, BoundsAssumption DEF BlankPackage, Package, Revisions, STATES
<1>2. BlankLineage \in Lineage
  BY DEF BlankLineage, Lineage, Approval, STATES
<1> QED BY <1>1, <1>2

\* The hash of a typed package is typed.
LEMMA HashType ==
  ASSUME NEW p \in Package
  PROVE  package_hash(p) \in Hashes
BY DEF package_hash, Package, Hashes

\* A lineage with a recorded hash replaced is a lineage.
LEMMA SnapshotType ==
  ASSUME NEW l \in Lineage, NEW r \in Revisions, NEW h \in Hashes
  PROVE  snapshot_revision(l, r, h) \in Lineage
BY DEF snapshot_revision, Lineage

\* A lineage in another state is a lineage.
LEMMA StateType ==
  ASSUME NEW l \in Lineage, NEW s \in STATES
  PROVE  [l EXCEPT !.state = s] \in Lineage
BY DEF Lineage

\* A lineage with one more approval, in another state, is a lineage.
LEMMA ApprovalType ==
  ASSUME NEW l \in Lineage, NEW s \in STATES, NEW a \in Approval
  PROVE  [l EXCEPT !.approvals = @ \cup {a}, !.state = s] \in Lineage
BY DEF Lineage

\* The arguments of the commands are typed.
LEMMA CommandTypes ==
  ASSUME NEW c \in Commands \cup {BlankCommand}
  PROVE  /\ c.op = "transition" => c.arg \in TransitionTargets
         /\ c.op = "approve" => c.arg \in Approvers
BY DEF Commands, BlankCommand

\* A process that exits leaves the types of the processes as they should be.
LEMMA ExitTypes ==
  ASSUME TypeInv, NEW p \in Procs, Exit(p)
  PROVE  LocalOK' /\ RunningOK'
BY BlankTypes DEF TypeInv, TypeOK, RunningOK, LocalOK, Exit, Goto, ForgetView,
                  ForgetCommand, Places

\* ... and so does one that has decided to write a typed lineage.
LEMMA CommitTypes ==
  ASSUME TypeInv, NEW p \in Procs, NEW l \in Lineage, Commit(p, l)
  PROVE  LocalOK' /\ RunningOK'
BY BlankTypes DEF TypeInv, TypeOK, RunningOK, LocalOK, Commit, Goto, ForgetView,
                  ForgetCommand, Places

\* ... and one that has only the status left to write.
LEMMA MirrorTypes ==
  ASSUME TypeInv, NEW p \in Procs, NEW s \in STATES, Mirror(p, s)
  PROVE  LocalOK' /\ RunningOK'
<1>1. [BlankLineage EXCEPT !.state = s] \in Lineage
  BY BlankTypes, StateType
<1> QED
  BY <1>1, BlankTypes DEF TypeInv, TypeOK, RunningOK, LocalOK, Mirror, Goto,
                          ForgetView, ForgetCommand, Places

\* ... and one that moves on with its memory as it was, to a place that needs
\* nothing of it.
LEMMA GotoTypes ==
  ASSUME TypeInv, NEW p \in Procs,
         NEW place \in Places \ {"revise_bumping", "revise_rehashing", "emitting"},
         Goto(p, place), UNCHANGED <<cmd, view, copy>>
  PROVE  LocalOK' /\ RunningOK'
BY DEF TypeInv, TypeOK, RunningOK, LocalOK, Goto, Places

\* ... and one that reads a typed package, lineage or command line.
LEMMA ReadTypes ==
  ASSUME TypeInv, NEW p \in Procs, NEW c \in Commands \cup {BlankCommand},
         NEW v \in Package, NEW l \in Lineage,
         NEW place \in Places \ {"revise_bumping", "revise_rehashing", "emitting"},
         Goto(p, place), cmd' = [cmd EXCEPT ![p] = c],
         view' = [view EXCEPT ![p] = v], copy' = [copy EXCEPT ![p] = l]
  PROVE  LocalOK' /\ RunningOK'
BY DEF TypeInv, TypeOK, RunningOK, LocalOK, Goto, Places

\* A typed shared state and typed processes make the invariant.
LEMMA TypeParts ==
  ASSUME SharedOK', LocalOK', RunningOK'
  PROVE  TypeInv'
BY DEF TypeInv, TypeOK, SharedOK, LocalOK

\* One event more within the bound.
LEMMA AppendTypes ==
  ASSUME TypeInv, NEW p \in Procs, pc[p] = "emitting",
         AppendEvent(package_hash(view[p]), cmd[p].arg)
  PROVE  /\ [hash |-> package_hash(view[p]), approver |-> cmd[p].arg] \in Approval
         /\ chain' \in Seq(Approval) /\ Len(chain') <= MaxEvents
<1> DEFINE e == [hash |-> package_hash(view[p]), approver |-> cmd[p].arg]
<1>1. e \in Approval
  <2>1. cmd[p].arg \in Approvers
    BY CommandTypes DEF TypeInv, TypeOK, RunningOK
  <2> QED BY <2>1, HashType DEF TypeInv, TypeOK, Approval
<1>2. chain \in Seq(Approval) /\ Len(chain) < MaxEvents /\ chain' = Append(chain, e)
  BY DEF TypeInv, TypeOK, AppendEvent
<1> HIDE DEF e
<1>3. Len(chain') = Len(chain) + 1 /\ chain' \in Seq(Approval)
  BY <1>1, <1>2
<1> QED BY <1>1, <1>2, <1>3, BoundsAssumption DEF e

\* The types hold at first.
LEMMA InitTypes == Init => TypeInv
<1> SUFFICES ASSUME Init PROVE TypeInv
  OBVIOUS
<1>1. PICK c \in WellFormed \ Reachless :
        /\ pkg = [content |-> c, revision |-> 1, status |-> "draft"]
        /\ lin = snapshot_revision(BlankLineage, 1, package_hash(pkg))
  BY DEF Init
<1>2. 1 \in Revisions /\ c \in Contents /\ "draft" \in STATES
  BY BoundsAssumption, ContentsAssumption DEF Revisions, STATES
<1>3. pkg \in Package
  BY <1>1, <1>2 DEF Package
<1>4. lin \in Lineage
  BY <1>1, <1>2, <1>3, HashType, SnapshotType, BlankTypes
<1>5. chain \in Seq(Approval) /\ Len(chain) <= MaxEvents
  BY BoundsAssumption DEF Init
<1>6. crashes \in 0..MaxCrashes /\ replacement \in BOOLEAN /\ forged \subseteq Approval
  <2>1. crashes \in 0..MaxCrashes
    BY BoundsAssumption DEF Init
  <2>2. replacement \in BOOLEAN
    BY DEF Init
  <2>3. forged \subseteq Approval
    BY DEF Init
  <2> QED BY <2>1, <2>2, <2>3
<1>7. LocalOK
  BY BlankTypes DEF Init, LocalOK, Places
<1>8. RunningOK
  BY DEF Init, RunningOK
<1> QED BY <1>3, <1>4, <1>5, <1>6, <1>7, <1>8 DEF TypeInv, TypeOK, LocalOK

\* Every step keeps the types: one step per action.
LEMMA NextTypes == TypeInv /\ [Next]_vars => TypeInv'
<1> SUFFICES ASSUME TypeInv, [Next]_vars PROVE TypeInv'
  OBVIOUS
<1> USE DEF TypeInv
<1>shared. SharedOK
  BY DEF TypeOK, SharedOK
<1>local. LocalOK
  BY DEF TypeOK, LocalOK
<1>0. CASE UNCHANGED vars
  BY <1>0 DEF vars, TypeOK, RunningOK
<1>1. ASSUME NEW p \in Procs, Command(p) PROVE TypeInv'
  <2>p. /\ view[p] \in Package /\ copy[p] \in Lineage
        /\ cmd[p] \in Commands \cup {BlankCommand}
    BY DEF TypeOK
  <2>0. SUFFICES SharedOK' /\ LocalOK' /\ RunningOK'
    BY TypeParts
  <2>1. CASE BeginValidated(p)
    <3>1. PICK c \in Commands : /\ Goto(p, "validating")
                                /\ cmd' = [cmd EXCEPT ![p] = c]
                                /\ view' = [view EXCEPT ![p] = pkg]
                                /\ UNCHANGED <<files, outside, crashes, copy>>
      BY <2>1 DEF BeginValidated
    <3>2. SharedOK'
      BY <1>shared, <3>1 DEF SharedOK
    <3>3. LocalOK' /\ RunningOK'
      <4>1. copy' = [copy EXCEPT ![p] = copy[p]]
        BY <3>1, <1>local DEF LocalOK
      <4> QED BY <3>1, <4>1, <1>shared, <2>p, ReadTypes DEF SharedOK, Places
    <3> QED BY <3>2, <3>3
  <2>2. CASE Validate(p)
    <3>1. SharedOK'
      BY <1>shared, <2>2 DEF SharedOK, Validate
    <3>2. CASE Exit(p)
      BY <3>1, <3>2, ExitTypes
    <3>3. CASE Goto(p, "loading") /\ ForgetView(p) /\ UNCHANGED <<cmd, copy>>
      <4>1. copy' = [copy EXCEPT ![p] = copy[p]] /\ cmd' = [cmd EXCEPT ![p] = cmd[p]]
        BY <3>3, <1>local DEF LocalOK
      <4>2. LocalOK' /\ RunningOK'
        BY <3>3, <4>1, <2>p, BlankTypes, ReadTypes DEF ForgetView, Places
      <4> QED BY <3>1, <4>2
    <3> QED BY <2>2, <3>2, <3>3 DEF Validate
  <2>3. CASE Load(p)
    <3>1. SharedOK'
      BY <1>shared, <2>3 DEF SharedOK, Load
    <3>2. copy' = [copy EXCEPT ![p] = copy[p]] /\ cmd' = [cmd EXCEPT ![p] = cmd[p]]
      BY <2>3, <1>local DEF LocalOK, Load
    <3>3. LocalOK' /\ RunningOK'
      BY <2>3, <3>2, <2>p, <1>shared, ReadTypes DEF Load, SharedOK, Places
    <3> QED BY <3>1, <3>3
  <2>4. CASE DecideTransition(p)
    <3>1. SharedOK'
      BY <1>shared, <2>4 DEF SharedOK, DecideTransition
    <3>2. CASE Exit(p)
      BY <3>1, <3>2, ExitTypes
    <3>3. CASE Commit(p, Transitioned(view[p], lin, cmd[p].arg))
      <4>1. cmd[p].arg \in STATES
        BY <2>4, <2>p, CommandTypes, TargetsAssumption DEF DecideTransition
      <4>2. view[p].revision \in Revisions
        BY <2>p DEF Package
      <4>3. Transitioned(view[p], lin, cmd[p].arg) \in Lineage
        BY <4>1, <4>2, <2>p, <1>shared, HashType, SnapshotType, StateType
        DEF Transitioned, SharedOK
      <4> QED BY <3>1, <3>3, <4>3, CommitTypes
    <3> QED BY <2>4, <3>2, <3>3 DEF DecideTransition
  <2>5. CASE DecideApproval(p)
    <3>1. SharedOK'
      BY <1>shared, <2>5 DEF SharedOK, DecideApproval
    <3>2. CASE Exit(p)
      BY <3>1, <3>2, ExitTypes
    <3>3. CASE Mirror(p, "approved")
      BY <3>1, <3>3, MirrorTypes DEF STATES
    <3>4. CASE /\ copy' = [copy EXCEPT ![p] = lin] /\ Goto(p, "emitting")
               /\ UNCHANGED <<cmd, view>>
      <4>1. LocalOK'
        BY <3>4, <1>local, <1>shared DEF LocalOK, SharedOK, Goto, Places
      <4>2. RunningOK'
        BY <2>5, <3>4, <1>local DEF DecideApproval, RunningOK, LocalOK, Goto
      <4> QED BY <3>1, <4>1, <4>2
    <3>5. CASE /\ copy' = [copy EXCEPT ![p] = [lin EXCEPT !.state = "approved"]]
               /\ Goto(p, "replaying") /\ UNCHANGED <<cmd, view>>
      <4>1. [lin EXCEPT !.state = "approved"] \in Lineage
        BY <1>shared, StateType DEF SharedOK, STATES
      <4>2. view' = [view EXCEPT ![p] = view[p]] /\ cmd' = [cmd EXCEPT ![p] = cmd[p]]
        BY <3>5, <1>local DEF LocalOK
      <4>3. LocalOK' /\ RunningOK'
        BY <3>5, <4>1, <4>2, <2>p, ReadTypes DEF Places
      <4> QED BY <3>1, <4>3
    <3> QED BY <2>5, <3>2, <3>3, <3>4, <3>5 DEF DecideApproval
  <2>6. CASE EmitApproval(p)
    <3> DEFINE entry == [hash |-> package_hash(view[p]), approver |-> cmd[p].arg]
    <3>1. entry \in Approval /\ chain' \in Seq(Approval) /\ Len(chain') <= MaxEvents
      BY <2>6, AppendTypes DEF EmitApproval
    <3>2. SharedOK'
      BY <1>shared, <2>6, <3>1 DEF SharedOK, EmitApproval
    <3>3. Commit(p, [copy[p] EXCEPT !.approvals = @ \cup {entry}, !.state = "approved"])
      BY <2>6 DEF EmitApproval
    <3>4. [copy[p] EXCEPT !.approvals = @ \cup {entry}, !.state = "approved"] \in Lineage
      BY <3>1, <2>p, ApprovalType DEF STATES
    <3> HIDE DEF entry
    <3> QED BY <3>2, <3>3, <3>4, CommitTypes
  <2>7. CASE EmitFails(p)
    <3>1. chain' \in Seq(Approval) /\ Len(chain') <= MaxEvents
      BY <2>7, <1>shared, AppendTypes DEF EmitFails, SharedOK
    <3>2. SharedOK'
      BY <1>shared, <2>7, <3>1 DEF SharedOK, EmitFails
    <3> QED BY <2>7, <3>2, ExitTypes DEF EmitFails
  <2>8. CASE WriteLineage(p)
    <3>1. SharedOK'
      BY <1>shared, <2>8, <2>p DEF SharedOK, WriteLineage
    <3>2. copy[p].state \in STATES
      BY <2>p DEF Lineage
    <3> QED BY <2>8, <3>1, <3>2, ExitTypes, MirrorTypes DEF WriteLineage
  <2>9. CASE SetStatus(p)
    <3>1. pkg' \in Package
      BY <2>9, <2>p, <1>shared DEF SetStatus, SharedOK, Package, Lineage
    <3>2. SharedOK'
      BY <1>shared, <2>9, <3>1 DEF SharedOK, SetStatus
    <3> QED BY <2>9, <3>2, ExitTypes DEF SetStatus
  <2>10. CASE BeginRevise(p)
    <3>1. SharedOK'
      BY <1>shared, <2>10 DEF SharedOK, BeginRevise
    <3>2. view' = [view EXCEPT ![p] = view[p]]
      BY <2>10, <1>local DEF LocalOK, BeginRevise
    <3>3. [op |-> "revise", arg |-> "none"] \in Commands \cup {BlankCommand}
      BY DEF Commands
    <3>4. LocalOK' /\ RunningOK'
      BY <2>10, <3>2, <3>3, <2>p, <1>shared, ReadTypes DEF BeginRevise, SharedOK, Places
    <3> QED BY <3>1, <3>4
  <2>11. CASE ReviseLoad(p)
    <3>1. SharedOK'
      BY <1>shared, <2>11 DEF SharedOK, ReviseLoad
    <3>2. CASE Exit(p)
      BY <3>1, <3>2, ExitTypes
    <3>3. CASE /\ pkg.revision < MaxRevision /\ view' = [view EXCEPT ![p] = pkg]
               /\ Goto(p, "revise_bumping") /\ UNCHANGED <<cmd, copy>>
      <4>1. LocalOK'
        BY <3>3, <1>local, <1>shared DEF LocalOK, SharedOK, Goto, Places
      <4>2. RunningOK'
        BY <3>3, <1>local DEF RunningOK, LocalOK, Goto
      <4> QED BY <3>1, <4>1, <4>2
    <3> QED BY <2>11, <3>2, <3>3 DEF ReviseLoad
  <2>12. CASE ReviseBump(p)
    <3>1. NewRevision(p) \in Revisions
      BY <2>12, <2>p, BoundsAssumption
      DEF ReviseBump, RunningOK, NewRevision, Package, Revisions
    <3>2. pkg' \in Package
      BY <2>12, <3>1, <1>shared DEF ReviseBump, SharedOK, Package
    <3>3. SharedOK'
      BY <1>shared, <2>12, <3>2 DEF SharedOK, ReviseBump
    <3>4. LocalOK'
      BY <2>12, <1>local DEF LocalOK, ReviseBump, Goto, Places
    <3>5. RunningOK'
      BY <2>12, <1>local DEF RunningOK, LocalOK, ReviseBump, Goto
    <3> QED BY <3>3, <3>4, <3>5
  <2>13. CASE ReviseRehash(p)
    <3>1. SharedOK'
      BY <1>shared, <2>13 DEF SharedOK, ReviseRehash
    <3>2. NewRevision(p) \in Revisions
      BY <2>13, <2>p, BoundsAssumption
      DEF ReviseRehash, RunningOK, NewRevision, Package, Revisions
    <3> DEFINE l == snapshot_revision(copy[p], NewRevision(p), package_hash(pkg))
    <3>3. l \in Lineage
      BY <3>2, <2>p, <1>shared, HashType, SnapshotType DEF SharedOK
    <3>4. Commit(p, [l EXCEPT !.state = "draft"])
      BY <2>13 DEF ReviseRehash
    <3> HIDE DEF l
    <3>5. [l EXCEPT !.state = "draft"] \in Lineage
      BY <3>3, StateType DEF STATES
    <3> QED BY <3>1, <3>4, <3>5, CommitTypes
  <2>14. CASE BeginSupersede(p)
    <3>1. SharedOK'
      BY <1>shared, <2>14 DEF SharedOK, BeginSupersede
    <3>2. view' = [view EXCEPT ![p] = view[p]]
      BY <2>14, <1>local DEF LocalOK, BeginSupersede
    <3>3. [op |-> "supersede", arg |-> "none"] \in Commands \cup {BlankCommand}
      BY DEF Commands
    <3>4. LocalOK' /\ RunningOK'
      BY <2>14, <3>2, <3>3, <2>p, <1>shared, ReadTypes DEF BeginSupersede, SharedOK, Places
    <3> QED BY <3>1, <3>4
  <2>15. CASE SupersedeLoad(p)
    <3>1. SharedOK'
      BY <1>shared, <2>15 DEF SharedOK, SupersedeLoad
    <3>2. [copy[p] EXCEPT !.state = "superseded"] \in Lineage
      BY <2>p, StateType DEF STATES
    <3> QED BY <2>15, <3>1, <3>2, ExitTypes, CommitTypes DEF SupersedeLoad
  <2>16. CASE BeginVerify(p)
    <3>1. PICK c \in Commands : /\ Goto(p, "checking_ledger")
                                /\ cmd' = [cmd EXCEPT ![p] = c]
                                /\ view' = [view EXCEPT ![p] = pkg]
                                /\ UNCHANGED <<files, outside, crashes, copy>>
      BY <2>16 DEF BeginVerify
    <3>2. SharedOK'
      BY <1>shared, <3>1 DEF SharedOK
    <3>3. copy' = [copy EXCEPT ![p] = copy[p]]
      BY <3>1, <1>local DEF LocalOK
    <3>4. LocalOK' /\ RunningOK'
      BY <3>1, <3>3, <1>shared, <2>p, ReadTypes DEF SharedOK, Places
    <3> QED BY <3>2, <3>4
  <2>17. CASE CheckLedger(p)
    <3>1. SharedOK'
      BY <1>shared, <2>17 DEF SharedOK, CheckLedger
    <3> QED BY <2>17, <3>1, ExitTypes, GotoTypes DEF CheckLedger, Places
  <2>18. CASE CheckChain(p)
    <3>1. SharedOK'
      BY <1>shared, <2>18 DEF SharedOK, CheckChain
    <3> QED BY <2>18, <3>1, ExitTypes, GotoTypes DEF CheckChain, Places
  <2>19. CASE ReturnVerified(p)
    <3>1. SharedOK'
      BY <1>shared, <2>19 DEF SharedOK, ReturnVerified
    <3> QED BY <2>19, <3>1, ExitTypes DEF ReturnVerified
  <2>20. CASE Crash(p)
    <3>1. SharedOK'
      BY <1>shared, <2>20, BoundsAssumption DEF SharedOK, Crash
    <3> QED BY <2>20, <3>1, ExitTypes DEF Crash
  <2> QED
    BY <1>1, <2>1, <2>2, <2>3, <2>4, <2>5, <2>6, <2>7, <2>8, <2>9, <2>10, <2>11,
       <2>12, <2>13, <2>14, <2>15, <2>16, <2>17, <2>18, <2>19, <2>20 DEF Command
<1>2. CASE AuthorEdit
  <2>1. pkg' \in Package
    BY <1>2, <1>shared DEF AuthorEdit, SharedOK, Package
  <2> QED BY <1>2, <2>1, <1>shared DEF AuthorEdit, SharedOK, TypeOK, RunningOK
<1>3. CASE ForgeApproval
  <2>1. PICK a \in ForgedApprovers :
          LET entry == [hash |-> package_hash(pkg), approver |-> a] IN
            /\ lin' = [lin EXCEPT !.approvals = @ \cup {entry}]
            /\ forged' = forged \cup {entry}
    BY <1>3 DEF ForgeApproval
  <2> DEFINE entry == [hash |-> package_hash(pkg), approver |-> a]
  <2>2. entry \in Approval
    BY <1>shared, HashType, ApproversAssumption DEF SharedOK, Approval
  <2> HIDE DEF entry
  <2>3. lin' = [lin EXCEPT !.approvals = @ \cup {entry}] /\ forged' = forged \cup {entry}
    BY <2>1 DEF entry
  <2>4. lin' \in Lineage /\ forged' \subseteq Approval
    BY <2>2, <2>3, <1>shared DEF SharedOK, Lineage
  <2> QED BY <1>3, <2>4 DEF ForgeApproval, TypeOK, RunningOK
<1>4. CASE AuthorReplacement
  BY <1>4 DEF AuthorReplacement, TypeOK, RunningOK
<1> QED BY <1>0, <1>1, <1>2, <1>3, <1>4 DEF Next

\* No command computes, remembers or writes anything but packages, lineages and
\* approvals, in any interleaving and after any crash.
THEOREM TypeCorrect == Spec => []TypeOK
<1>1. TypeInv => TypeOK
  BY DEF TypeInv
<1> QED BY <1>1, InitTypes, NextTypes, PTL DEF Spec

=============================================================================
