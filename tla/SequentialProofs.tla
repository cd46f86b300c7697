--------------------------- MODULE SequentialProofs ---------------------------
(***************************************************************************)
(* What one operator at a time can rely on, proved for every value of the  *)
(* constants of IntentPackage that gives him the package for himself.      *)
(***************************************************************************)
EXTENDS ApprovalProofs

USE DEF files, outside, local

\* Commands do not overlap each other or an author's save, nobody writes the ledger by
\* hand, and approve and supersede are not gone around.  Crashes are not excluded.
OneAtATime ==
  /\ \A p, q \in Procs : p = q
  /\ ~EditsDuringOps /\ ForgedApprovers = {}
  /\ TransitionTargets \cap {"approved", "superseded"} = {}

-----------------------------------------------------------------------------
(* The invariant. *)

\* The states before a decision on the intent, to which an approved one only comes back
\* under a new revision.
Undecided == {"draft", "needs_clarification", "ready_for_review", "rejected"}

\* The states that work advances through.
Advanced == {"executable", "in_execution", "verification", "completed"}

IsRecorded(l, r) == r \in Revisions /\ l.revs[r] # NoSnapshot

IsTop(l, r) == IsRecorded(l, r) /\ \A s \in Revisions : IsRecorded(l, s) => s <= r

\* A lineage that agrees with itself and is no newer than package.yaml at revision
\* `now`.  That no approved revision is still up for review is what keeps a review
\* from replacing an approved hash.
Agrees(l, now) ==
  /\ \E top \in Revisions : IsTop(l, top)
  /\ \A r \in Revisions : IsRecorded(l, r) => l.revs[r].revision = r /\ r <= now
  /\ ApprovalsRecorded(l)
  /\ l.state \in Undecided => \A a \in l.approvals : a.hash.revision < now
  /\ l.state \in PostApproval => HasMatchingApproval(l, current_revision_hash(l))

\* Lineage `m` may replace `l` beside package `v`: what the action properties ask of
\* the write, known when the command decides.
MayReplace(l, m, v) ==
  /\ l.state # m.state =>
       IsLegalTransition(l.state, m.state) \/ (m.state = "draft" /\ l.state \in REVISE_LEGAL_FROM)
  /\ l.state # m.state =>
       \/ v.status = l.state
       \/ m.state = "draft" /\ m.revs # l.revs
       \/ m.state = "superseded"
  /\ m.state \in Advanced => HasMatchingApproval(m, package_hash(v))
  /\ l.state = "completed" /\ m.state = "closed" =>
       current_revision_hash(l).content \notin FollowUpRequired
  /\ \A a \in l.approvals :
       a \in m.approvals /\ m.revs[a.hash.revision] = l.revs[a.hash.revision]

\* What a process remembers is what is in the files.
InStep(p) ==
  /\ pc[p] \in {"validating", "deciding", "emitting", "revise_bumping"} => view[p] = pkg
  /\ pc[p] \in {"loading", "deciding", "emitting"} => IsValid(pkg, lin)
  /\ pc[p] \in {"emitting", "revise_loading", "revise_bumping", "revise_rehashing",
                "supersede_loading"} => copy[p] = lin
  /\ pc[p] = "emitting" => lin.state = "ready_for_review" /\ IsRecognised(cmd[p].arg)
  /\ pc[p] # "replaying"
  /\ pc[p] \in {"revise_loading", "revise_bumping", "revise_rehashing"} =>
       lin.state \in REVISE_LEGAL_FROM
  /\ pc[p] = "revise_rehashing" =>
       /\ pkg.revision = NewRevision(p)
       /\ \A r \in Revisions : IsRecorded(lin, r) => r < pkg.revision
  /\ pc[p] = "supersede_loading" => IsLegalTransition(lin.state, "superseded")
  /\ pc[p] = "writing" =>
       Agrees(copy[p], pkg.revision) /\ MayReplace(lin, copy[p], pkg)
  /\ pc[p] = "mirroring" => copy[p].state = lin.state

\* Only between its two writes, or after a crash there, does a command leave the
\* status line behind.
Mirrored == crashes = 0 /\ (\A p \in Procs : pc[p] # "mirroring") => StatusMirrors(pkg, lin)

SequentialInv ==
  /\ Agrees(lin, pkg.revision)
  /\ \A p \in Procs : InStep(p)
  /\ Mirrored

-----------------------------------------------------------------------------
(* Lineages. *)

\* The hash of the current revision is the one recorded under the highest revision.
LEMMA TopHash ==
  ASSUME NEW l, NEW top \in Revisions, IsTop(l, top)
  PROVE  current_revision_hash(l) = l.revs[top]
<1> DEFINE recorded == {r \in Revisions : l.revs[r] # NoSnapshot}
           t == CHOOSE r \in recorded : \A s \in recorded : s <= r
<1>1. top \in recorded /\ \A s \in recorded : s <= top
  BY DEF IsTop, IsRecorded
<1>2. t \in recorded /\ \A s \in recorded : s <= t
  BY <1>1
<1>3. t = top
  <2>1. t \in Nat /\ top \in Nat
    BY <1>2 DEF Revisions
  <2>2. t <= top /\ top <= t
    BY <1>1, <1>2
  <2> HIDE DEF t
  <2> QED BY <2>1, <2>2
<1> QED BY <1>3 DEF current_revision_hash

\* It depends on the recorded hashes only.
LEMMA SameHash ==
  ASSUME NEW l, NEW m, l.revs = m.revs
  PROVE  current_revision_hash(l) = current_revision_hash(m)
BY DEF current_revision_hash

\* A lineage in another state has the same hashes and approvals.
LEMMA StateOnly ==
  ASSUME NEW l \in Lineage, NEW s, NEW m, m = [l EXCEPT !.state = s]
  PROVE  /\ m.state = s /\ m.revs = l.revs /\ m.approvals = l.approvals
         /\ current_revision_hash(m) = current_revision_hash(l)
<1>1. m.state = s /\ m.revs = l.revs /\ m.approvals = l.approvals
  BY DEF Lineage
<1> QED BY <1>1, SameHash

\* What agrees with a package agrees with a later revision of it.
LEMMA AgreesLater ==
  ASSUME NEW l \in Lineage, NEW now \in Nat, NEW later \in Nat,
         now <= later, Agrees(l, now)
  PROVE  Agrees(l, later)
<1>1. \A r \in Revisions : r <= now => r <= later
  BY DEF Revisions
<1>2. \A a \in l.approvals : a.hash.revision \in Nat
  BY DEF Lineage, Approval, Hashes, Revisions
<1>3. \A a \in l.approvals : a.hash.revision < now => a.hash.revision < later
  BY <1>2
<1> QED BY <1>1, <1>3 DEF Agrees

\* The lineage with the hash of package `v` recorded, in an undecided state.
Rerecorded(l, v, s) ==
  [snapshot_revision(l, v.revision, package_hash(v)) EXCEPT !.state = s]

\* Recording the hash of the package's revision, the highest so far, keeps every
\* approved hash where it is, since none is of that revision.
LEMMA RecordAgrees ==
  ASSUME NEW l \in Lineage, NEW v \in Package, NEW s \in Undecided,
         Agrees(l, v.revision),
         \A a \in l.approvals : a.hash.revision < v.revision
  PROVE  /\ Rerecorded(l, v, s) \in Lineage /\ Rerecorded(l, v, s).state = s
         /\ Agrees(Rerecorded(l, v, s), v.revision)
         /\ IsRecorded(Rerecorded(l, v, s), v.revision)
         /\ \A a \in l.approvals :
              /\ a \in Rerecorded(l, v, s).approvals
              /\ Rerecorded(l, v, s).revs[a.hash.revision] = l.revs[a.hash.revision]
<1> DEFINE now == v.revision
           h == package_hash(v)
           m == Rerecorded(l, v, s)
<1>1. /\ now \in Revisions /\ h \in Hashes /\ h.revision = now /\ h # NoSnapshot
      /\ s \in STATES
  BY HashType, NoSnapshotAssumption DEF Package, package_hash, Undecided, STATES
<1>2. /\ m \in Lineage /\ m.state = s /\ m.approvals = l.approvals
      /\ m.revs = [l.revs EXCEPT ![now] = h]
  BY <1>1 DEF Rerecorded, snapshot_revision, Lineage
<1>3. \A r \in Revisions : m.revs[r] = IF r = now THEN h ELSE l.revs[r]
  BY <1>1, <1>2 DEF Lineage
<1>4. \A a \in l.approvals : a.hash.revision \in Revisions /\ a.hash.revision < now
  BY DEF Lineage, Approval, Hashes
<1>5. \A a \in l.approvals : m.revs[a.hash.revision] = l.revs[a.hash.revision]
  BY <1>1, <1>3, <1>4 DEF Revisions
<1> HIDE DEF m, h
<1>6. IsTop(m, now)
  BY <1>1, <1>3 DEF Agrees, IsTop, IsRecorded, Revisions
<1>7. \A r \in Revisions : IsRecorded(m, r) => m.revs[r].revision = r /\ r <= now
  BY <1>1, <1>3 DEF Agrees, IsRecorded, Revisions
<1>8. ApprovalsRecorded(m)
  BY <1>2, <1>5 DEF Agrees, ApprovalsRecorded
<1>9. s \notin PostApproval
  BY DEF Undecided, PostApproval
<1>10. Agrees(m, now)
  BY <1>1, <1>2, <1>4, <1>6, <1>7, <1>8, <1>9 DEF Agrees
<1>11. IsRecorded(m, now)
  BY <1>6 DEF IsTop
<1> QED BY <1>2, <1>5, <1>10, <1>11 DEF m

\* A lineage in another state still agrees, if what the state asks for holds of the old one.
LEMMA MoveAgrees ==
  ASSUME NEW l \in Lineage, NEW now, NEW s, NEW m,
         m = [l EXCEPT !.state = s],
         Agrees(l, now),
         s \in Undecided => l.state \in Undecided,
         s \in PostApproval => l.state \in PostApproval
  PROVE  Agrees(m, now)
<1>1. /\ m.state = s /\ m.revs = l.revs /\ m.approvals = l.approvals
      /\ current_revision_hash(m) = current_revision_hash(l)
  BY StateOnly
<1> QED
  BY <1>1 DEF Agrees, IsTop, IsRecorded, ApprovalsRecorded, HasMatchingApproval

\* Under review and after, a valid package has the hash of the current revision, under
\* its own revision.
LEMMA ValidHash ==
  ASSUME NEW l \in Lineage, NEW v \in Package,
         Agrees(l, v.revision), IsValid(v, l), l.state \in DRIFT_LOCKED
  PROVE  /\ package_hash(v) = current_revision_hash(l)
         /\ l.revs[v.revision] = package_hash(v)
<1>1. package_hash(v) = current_revision_hash(l)
  BY DEF IsValid, StatusMirrors, NoDrift
<1>2. PICK top \in Revisions : IsTop(l, top)
  BY DEF Agrees
<1>3. current_revision_hash(l) = l.revs[top]
  BY <1>2, TopHash
<1>4. l.revs[top].revision = top
  BY <1>2 DEF Agrees, IsTop
<1>5. package_hash(v).revision = v.revision
  BY DEF package_hash
<1> QED BY <1>1, <1>3, <1>4, <1>5

-----------------------------------------------------------------------------
(* The lifecycle. *)

\* What lies before a legal step of `transition`.
LEMMA Edges ==
  ASSUME NEW src \in STATES, NEW dst, IsLegalTransition(src, dst),
         dst \notin {"approved", "superseded"}
  PROVE  /\ dst = "ready_for_review" => src \in Undecided
         /\ dst \in Undecided => src \in Undecided
         /\ dst \in PostApproval => src \in PostApproval
         /\ dst \in Advanced => src \in PostApproval \cap DRIFT_LOCKED
BY DEF STATES, Undecided, PostApproval, Advanced, DRIFT_LOCKED, IsLegalTransition,
       LEGAL_TRANSITIONS

\* Only what was approved can be superseded.
LEMMA SupersedeEdges ==
  ASSUME NEW src \in STATES, IsLegalTransition(src, "superseded")
  PROVE  src \in PostApproval
BY DEF STATES, PostApproval, IsLegalTransition, LEGAL_TRANSITIONS

\* What `transition` decides to write.
LEMMA TransitionReplaces ==
  ASSUME NEW l \in Lineage, NEW v \in Package,
         Agrees(l, v.revision), IsValid(v, l),
         NEW to \in STATES \ {"approved", "superseded"}, MayTransition(v, l, to)
  PROVE  /\ Agrees(Transitioned(v, l, to), v.revision)
         /\ MayReplace(l, Transitioned(v, l, to), v)
<1>1. l.state \in STATES /\ IsLegalTransition(l.state, to)
  BY DEF Lineage, MayTransition
<1>m. v.status = l.state
  BY DEF IsValid, StatusMirrors
<1>2. CASE to = "ready_for_review"
  <2>1. Transitioned(v, l, to) = Rerecorded(l, v, to)
    BY <1>2 DEF Transitioned, Rerecorded
  <2>2. to \in Undecided /\ l.state \in Undecided
    BY <1>1, <1>2, Edges DEF Undecided
  <2>3. \A a \in l.approvals : a.hash.revision < v.revision
    BY <2>2 DEF Agrees
  <2> QED BY <1>1, <1>2, <1>m, <2>1, <2>2, <2>3, RecordAgrees DEF MayReplace, Advanced
<1>3. CASE to # "ready_for_review"
  <2> DEFINE m == Transitioned(v, l, to)
  <2>1. m = [l EXCEPT !.state = to]
    BY <1>3 DEF Transitioned
  <2> HIDE DEF m
  <2>2. /\ m.state = to /\ m.revs = l.revs /\ m.approvals = l.approvals
        /\ current_revision_hash(m) = current_revision_hash(l)
    BY <2>1, StateOnly
  <2>3. Agrees(m, v.revision)
    BY <1>1, <2>1, MoveAgrees, Edges
  <2>4. ASSUME to \in Advanced PROVE HasMatchingApproval(m, package_hash(v))
    <3>1. l.state \in PostApproval /\ l.state \in DRIFT_LOCKED
      BY <1>1, <2>4, Edges
    <3>2. HasMatchingApproval(l, package_hash(v))
      BY <3>1, ValidHash DEF Agrees
    <3> QED BY <2>2, <3>2 DEF HasMatchingApproval
  <2>5. ASSUME l.state = "completed", to = "closed"
        PROVE  current_revision_hash(l).content \notin FollowUpRequired
    <3>1. package_hash(v) = current_revision_hash(l)
      BY <2>5, ValidHash DEF DRIFT_LOCKED
    <3>2. package_hash(v).content = v.content
      BY DEF package_hash
    <3> QED BY <2>5, <3>1, <3>2 DEF MayTransition
  <2>6. MayReplace(l, m, v)
    BY <1>1, <1>m, <2>2, <2>4, <2>5 DEF MayReplace
  <2> QED BY <2>3, <2>6 DEF m
<1> QED BY <1>2, <1>3

\* What `approve` decides to write.
LEMMA ApprovalReplaces ==
  ASSUME NEW l \in Lineage, NEW v \in Package,
         Agrees(l, v.revision), IsValid(v, l),
         l.state = "ready_for_review", NEW approver \in Approvers, IsRecognised(approver),
         NEW m, m = [l EXCEPT !.approvals = @ \cup {[hash |-> package_hash(v), approver |-> approver]},
                              !.state = "approved"]
  PROVE  Agrees(m, v.revision) /\ MayReplace(l, m, v)
<1> DEFINE entry == [hash |-> package_hash(v), approver |-> approver]
<1>1. entry.hash = package_hash(v) /\ entry.approver = approver
  OBVIOUS
<1>2. m.state = "approved" /\ m.revs = l.revs /\ m.approvals = l.approvals \cup {entry}
  BY DEF Lineage
<1> HIDE DEF entry
<1>3. current_revision_hash(m) = package_hash(v) /\ l.revs[v.revision] = package_hash(v)
  BY <1>2, SameHash, ValidHash DEF DRIFT_LOCKED
<1>4. ApprovalsRecorded(m)
  <2>1. package_hash(v).revision = v.revision
    BY DEF package_hash
  <2> QED BY <1>1, <1>2, <1>3, <2>1 DEF Agrees, ApprovalsRecorded
<1>5. HasMatchingApproval(m, package_hash(v))
  BY <1>1, <1>2 DEF HasMatchingApproval
<1>6. Agrees(m, v.revision)
  BY <1>2, <1>3, <1>4, <1>5 DEF Agrees, IsTop, IsRecorded, Undecided
<1>7. IsLegalTransition(l.state, m.state)
  BY <1>2 DEF IsLegalTransition, LEGAL_TRANSITIONS, STATES
<1>8. v.status = l.state
  BY DEF IsValid, StatusMirrors
<1>9. MayReplace(l, m, v)
  BY <1>2, <1>7, <1>8 DEF MayReplace, Advanced
<1> QED BY <1>6, <1>9

\* What `revise` decides to write: the package is at a revision not yet recorded.
LEMMA ReviseReplaces ==
  ASSUME NEW l \in Lineage, NEW v \in Package,
         Agrees(l, v.revision), l.state \in REVISE_LEGAL_FROM,
         \A r \in Revisions : IsRecorded(l, r) => r < v.revision
  PROVE  /\ Agrees(Rerecorded(l, v, "draft"), v.revision)
         /\ MayReplace(l, Rerecorded(l, v, "draft"), v)
<1>1. "draft" \in Undecided
  BY DEF Undecided
<1>2. \A a \in l.approvals : a.hash.revision < v.revision
  <2> TAKE a \in l.approvals
  <2>1. a.hash \in Hashes /\ a.hash.revision \in Revisions
    BY DEF Lineage, Approval, Hashes
  <2>2. l.revs[a.hash.revision] = a.hash
    BY DEF Agrees, ApprovalsRecorded
  <2> QED BY <2>1, <2>2, NoSnapshotAssumption DEF IsRecorded
<1>3. Rerecorded(l, v, "draft").revs # l.revs
  <2>1. IsRecorded(Rerecorded(l, v, "draft"), v.revision)
    BY <1>1, <1>2, RecordAgrees
  <2>2. ~IsRecorded(l, v.revision)
    BY DEF Revisions, IsRecorded
  <2> QED BY <2>1, <2>2 DEF IsRecorded
<1> QED BY <1>1, <1>2, <1>3, RecordAgrees DEF MayReplace, Advanced

\* What `supersede` decides to write.
LEMMA SupersedeReplaces ==
  ASSUME NEW l \in Lineage, NEW v \in Package,
         Agrees(l, v.revision), IsLegalTransition(l.state, "superseded"),
         NEW m, m = [l EXCEPT !.state = "superseded"]
  PROVE  Agrees(m, v.revision) /\ MayReplace(l, m, v)
<1>1. l.state \in PostApproval
  BY SupersedeEdges DEF Lineage
<1>2. m.state = "superseded" /\ m.revs = l.revs /\ m.approvals = l.approvals
  BY StateOnly
<1>3. Agrees(m, v.revision)
  <2>1. "superseded" \notin Undecided
    BY DEF Undecided
  <2> QED BY <1>1, <2>1, MoveAgrees, Zenon
<1> QED BY <1>2, <1>3 DEF MayReplace, Advanced

-----------------------------------------------------------------------------
(* The invariant is one. *)

\* A package as `create` leaves it agrees with its lineage.
LEMMA InitSequential == Init => SequentialInv
<1> SUFFICES ASSUME Init PROVE SequentialInv
  OBVIOUS
<1>1. PICK c \in WellFormed \ Reachless :
        /\ pkg = [content |-> c, revision |-> 1, status |-> "draft"]
        /\ lin = snapshot_revision(BlankLineage, 1, package_hash(pkg))
  BY DEF Init
<1>2. /\ 1 \in Revisions /\ pkg.revision = 1 /\ pkg.status = "draft"
      /\ package_hash(pkg) \in Hashes /\ package_hash(pkg).revision = 1
  BY <1>1, BoundsAssumption, ContentsAssumption DEF Revisions, package_hash, Hashes
<1>3. /\ lin.state = "draft" /\ lin.approvals = {}
      /\ \A r \in Revisions : lin.revs[r] = IF r = 1 THEN package_hash(pkg) ELSE NoSnapshot
  BY <1>1 DEF snapshot_revision, BlankLineage
<1>4. IsTop(lin, 1)
  BY <1>2, <1>3, NoSnapshotAssumption DEF IsTop, IsRecorded, Revisions
<1>5. Agrees(lin, pkg.revision)
  BY <1>2, <1>3, <1>4
  DEF Agrees, IsRecorded, ApprovalsRecorded, Undecided, PostApproval, Revisions
<1>6. \A p \in Procs : InStep(p)
  BY DEF Init, InStep
<1>7. Mirrored
  BY <1>2, <1>3 DEF Init, Mirrored, StatusMirrors
<1> QED BY <1>5, <1>6, <1>7 DEF SequentialInv

\* Every step keeps the invariant, of the only process and of the author.
LEMMA NextSequential ==
  ASSUME OneAtATime
  PROVE  TypeInv /\ SequentialInv /\ [Next]_vars => SequentialInv'
<1> SUFFICES ASSUME TypeInv, SequentialInv, [Next]_vars PROVE SequentialInv'
  OBVIOUS
<1>t. /\ pkg \in Package /\ lin \in Lineage /\ pkg.revision \in Nat
      /\ lin.state \in STATES
  BY DEF TypeInv, TypeOK, Package, Lineage, Revisions
<1>0. CASE UNCHANGED vars
  BY <1>0 DEF vars, SequentialInv, InStep, NewRevision, Mirrored
<1>1. ASSUME NEW p \in Procs, Command(p) PROVE SequentialInv'
  <2>t. /\ copy[p] \in Lineage /\ view[p] \in Package /\ pc \in [Procs -> Places]
        /\ cmd[p] \in Commands \cup {BlankCommand}
        /\ copy \in [Procs -> Lineage] /\ view \in [Procs -> Package]
        /\ cmd \in [Procs -> Commands \cup {BlankCommand}]
    BY DEF TypeInv, TypeOK
  <2>in. InStep(p) /\ Agrees(lin, pkg.revision)
    BY DEF SequentialInv
  <2>parts. SUFFICES Agrees(lin, pkg.revision)' /\ InStep(p)' /\ Mirrored'
    BY DEF SequentialInv, OneAtATime
  <2>files. ASSUME UNCHANGED files PROVE Agrees(lin, pkg.revision)'
    BY <2>files, <2>in
  <2>mirrored. ASSUME UNCHANGED <<files, crashes>>, pc[p] # "mirroring" PROVE Mirrored'
    BY <2>mirrored DEF SequentialInv, Mirrored, OneAtATime
  <2>at. ASSUME NEW place, Goto(p, place) PROVE pc'[p] = place
    BY <2>at, <2>t DEF Goto
  <2>idle. ASSUME Exit(p) PROVE InStep(p)'
    BY <2>idle, <2>at DEF Exit, InStep
  <2>commit. ASSUME NEW l, Commit(p, l), UNCHANGED files,
                    Agrees(l, pkg.revision), MayReplace(lin, l, pkg)
             PROVE  InStep(p)'
    <3>1. pc'[p] = "writing" /\ copy'[p] = l
      BY <2>commit, <2>at, <2>t DEF Commit
    <3> QED BY <2>commit, <3>1 DEF InStep
  <2>1. CASE BeginValidated(p)
    <3>1. pc'[p] = "validating" /\ view'[p] = pkg /\ pc[p] = "idle"
          /\ UNCHANGED <<files, outside, crashes>>
      BY <2>1, <2>at, <2>t DEF BeginValidated
    <3>2. InStep(p)'
      BY <3>1 DEF InStep
    <3> QED BY <3>1, <3>2, <2>files, <2>mirrored
  <2>2. CASE Validate(p)
    <3>1. pc[p] = "validating" /\ UNCHANGED <<files, outside, crashes>>
      BY <2>2 DEF Validate
    <3>2. CASE IsValid(view[p], lin) /\ Goto(p, "loading")
      <4>1. IsValid(pkg, lin) /\ pc'[p] = "loading"
        BY <3>1, <3>2, <2>in, <2>at DEF InStep
      <4> QED BY <3>1, <4>1, <2>files, <2>mirrored DEF InStep
    <3> QED BY <2>2, <3>1, <3>2, <2>idle, <2>files, <2>mirrored DEF Validate
  <2>3. CASE Load(p)
    <3>1. /\ pc[p] = "loading" /\ UNCHANGED <<files, outside, crashes>>
          /\ pc'[p] = "deciding" /\ view'[p] = pkg
      BY <2>3, <2>t, <2>at DEF Load
    <3>2. InStep(p)'
      BY <3>1, <2>in DEF InStep
    <3> QED BY <3>1, <3>2, <2>files, <2>mirrored
  <2>4. CASE DecideTransition(p)
    <3>1. pc[p] = "deciding" /\ UNCHANGED <<files, outside, crashes>>
      BY <2>4 DEF DecideTransition
    <3>2. view[p] = pkg /\ IsValid(pkg, lin)
      BY <3>1, <2>in DEF InStep
    <3>3. CASE /\ MayTransition(pkg, lin, cmd[p].arg)
               /\ Commit(p, Transitioned(pkg, lin, cmd[p].arg))
      <4>1. cmd[p].arg \in STATES \ {"approved", "superseded"}
        BY <2>4, <2>t, CommandTypes, TargetsAssumption DEF DecideTransition, OneAtATime
      <4> DEFINE l == Transitioned(pkg, lin, cmd[p].arg)
      <4>2. Agrees(l, pkg.revision) /\ MayReplace(lin, l, pkg)
        BY <1>t, <2>in, <3>2, <3>3, <4>1, TransitionReplaces
      <4>3. Commit(p, l)
        BY <3>3
      <4> HIDE DEF l
      <4>4. InStep(p)'
        BY <3>1, <4>2, <4>3, <2>commit
      <4> QED BY <3>1, <4>4, <2>files, <2>mirrored
    <3>4. CASE Exit(p)
      BY <3>1, <3>4, <2>idle, <2>files, <2>mirrored
    <3> QED BY <2>4, <3>2, <3>3, <3>4 DEF DecideTransition
  <2>5. CASE DecideApproval(p)
    <3>1. pc[p] = "deciding" /\ UNCHANGED <<files, outside, crashes>>
      BY <2>5 DEF DecideApproval
    <3>2. view[p] = pkg /\ IsValid(pkg, lin)
      BY <3>1, <2>in DEF InStep
    <3>3. CASE /\ MayConsiderApproval(pkg, lin, cmd[p].arg) /\ lin.state = "ready_for_review"
               /\ copy' = [copy EXCEPT ![p] = lin]
               /\ Goto(p, "emitting") /\ UNCHANGED <<cmd, view>>
      <4>1. IsRecognised(cmd[p].arg)
        BY <3>3, ApproversAssumption DEF MayConsiderApproval, IsAuthorized, IsRecognised
      <4>2. pc'[p] = "emitting" /\ copy'[p] = lin
        BY <3>3, <2>at, <2>t
      <4>3. InStep(p)'
        BY <3>1, <3>2, <3>3, <4>1, <4>2 DEF InStep
      <4> QED BY <3>1, <4>3, <2>files, <2>mirrored
    <3>4. ~(HasMatchingApproval(lin, package_hash(pkg)) /\ lin.state = "ready_for_review")
      <4> SUFFICES ASSUME HasMatchingApproval(lin, package_hash(pkg)),
                          lin.state = "ready_for_review"
                   PROVE  FALSE
        OBVIOUS
      <4>1. PICK a \in lin.approvals : a.hash = package_hash(pkg)
        BY DEF HasMatchingApproval
      <4>2. a.hash.revision = pkg.revision
        BY <4>1 DEF package_hash
      <4>3. a.hash.revision < pkg.revision
        BY <2>in DEF Agrees, Undecided
      <4> QED BY <4>2, <4>3, <1>t
    <3>5. lin.state = "approved" => pkg.status = "approved"
      BY <3>2 DEF IsValid, StatusMirrors
    <3>6. CASE Exit(p)
      BY <3>1, <3>6, <2>idle, <2>files, <2>mirrored
    <3>7. MayConsiderApproval(pkg, lin, cmd[p].arg) => lin.state \in {"ready_for_review", "approved"}
      BY DEF MayConsiderApproval
    <3> QED BY <2>5, <3>2, <3>3, <3>4, <3>5, <3>6, <3>7 DEF DecideApproval
  <2>6. CASE EmitApproval(p)
    <3>1. /\ pc[p] = "emitting" /\ UNCHANGED <<files, crashes>>
          /\ AppendEvent(package_hash(view[p]), cmd[p].arg)
      BY <2>6 DEF EmitApproval
    <3>2. /\ view[p] = pkg /\ copy[p] = lin /\ IsValid(pkg, lin)
          /\ lin.state = "ready_for_review" /\ IsRecognised(cmd[p].arg)
      BY <3>1, <2>in DEF InStep
    <3>3. cmd[p].arg \in Approvers
      BY <3>1, <2>t, CommandTypes DEF TypeInv, RunningOK
    <3> DEFINE l == [lin EXCEPT !.approvals =
                       @ \cup {[hash |-> package_hash(pkg), approver |-> cmd[p].arg]},
                                !.state = "approved"]
    <3>4. Agrees(l, pkg.revision) /\ MayReplace(lin, l, pkg)
      BY <1>t, <2>in, <3>2, <3>3, ApprovalReplaces
    <3>5. Commit(p, l)
      BY <2>6, <3>2 DEF EmitApproval
    <3> HIDE DEF l
    <3>6. InStep(p)'
      BY <3>1, <3>4, <3>5, <2>commit
    <3> QED BY <3>1, <3>6, <2>files, <2>mirrored
  <2>7. CASE EmitFails(p)
    <3>1. pc[p] = "emitting" /\ UNCHANGED <<files, crashes>> /\ Exit(p)
      BY <2>7 DEF EmitFails
    <3> QED BY <3>1, <2>idle, <2>files, <2>mirrored
  <2>8. CASE WriteLineage(p)
    <3>1. pc[p] = "writing"
      BY <2>8, <2>in DEF WriteLineage, InStep
    <3>2. /\ lin' = copy[p] /\ UNCHANGED <<pkg, outside, crashes>>
          /\ Mirror(p, copy[p].state)
      BY <2>8, <3>1 DEF WriteLineage
    <3>3. Agrees(lin, pkg.revision)'
      BY <3>1, <3>2, <2>in DEF InStep
    <3>4. pc'[p] = "mirroring" /\ copy'[p].state = copy[p].state
      <4>1. copy'[p] = [BlankLineage EXCEPT !.state = copy[p].state]
        BY <3>2, <2>t DEF Mirror
      <4> QED BY <3>2, <4>1, <2>at DEF Mirror, BlankLineage
    <3>5. InStep(p)'
      BY <3>2, <3>4 DEF InStep
    <3>6. Mirrored'
      BY <3>4 DEF Mirrored
    <3> QED BY <3>2, <3>3, <3>5, <3>6
  <2>9. CASE SetStatus(p)
    <3>1. /\ pc[p] = "mirroring" /\ UNCHANGED <<lin, outside, crashes>> /\ Exit(p)
          /\ pkg' = [pkg EXCEPT !.status = copy[p].state] /\ copy[p].state = lin.state
      BY <2>9, <2>in DEF SetStatus, InStep
    <3>2. pkg'.status = lin'.state /\ pkg'.revision = pkg.revision
      BY <3>1, <1>t DEF Package
    <3>3. Agrees(lin, pkg.revision)'
      BY <3>1, <3>2, <2>in
    <3>4. Mirrored'
      BY <3>2 DEF Mirrored, StatusMirrors
    <3> QED BY <3>1, <3>3, <3>4, <2>idle
  <2>10. CASE BeginRevise(p)
    <3>1. /\ pc[p] = "idle" /\ lin.state \in REVISE_LEGAL_FROM
          /\ UNCHANGED <<files, outside, crashes>>
          /\ pc'[p] = "revise_loading" /\ copy'[p] = lin
      BY <2>10, <2>at, <2>t DEF BeginRevise
    <3>2. InStep(p)'
      BY <3>1 DEF InStep
    <3> QED BY <3>1, <3>2, <2>files, <2>mirrored
  <2>11. CASE ReviseLoad(p)
    <3>1. pc[p] = "revise_loading" /\ UNCHANGED <<files, outside, crashes>>
      BY <2>11 DEF ReviseLoad
    <3>2. CASE view' = [view EXCEPT ![p] = pkg] /\ Goto(p, "revise_bumping") /\ UNCHANGED copy
      <4>1. view'[p] = pkg /\ pc'[p] = "revise_bumping" /\ copy'[p] = copy[p]
        BY <3>2, <2>at, <2>t
      <4>2. InStep(p)'
        BY <3>1, <4>1, <2>in DEF InStep
      <4> QED BY <3>1, <4>2, <2>files, <2>mirrored
    <3> QED BY <2>11, <3>1, <3>2, <2>idle, <2>files, <2>mirrored DEF ReviseLoad
  <2>12. CASE ReviseBump(p)
    <3>1. /\ pc[p] = "revise_bumping" /\ UNCHANGED <<lin, outside, crashes, local>>
          /\ pkg' = [pkg EXCEPT !.revision = NewRevision(p)] /\ pc'[p] = "revise_rehashing"
      BY <2>12, <2>at DEF ReviseBump
    <3>2. /\ view[p] = pkg /\ copy[p] = lin /\ lin.state \in REVISE_LEGAL_FROM
      BY <3>1, <2>in DEF InStep
    <3>3. /\ pkg'.revision = pkg.revision + 1 /\ pkg'.status = pkg.status
          /\ NewRevision(p)' = pkg'.revision
      BY <3>1, <3>2, <1>t DEF Package, NewRevision
    <3>4. Agrees(lin, pkg.revision)'
      <4>1. Agrees(lin, pkg'.revision)
        BY <1>t, <2>in, <3>3, AgreesLater
      <4> QED BY <3>1, <4>1
    <3>5. \A r \in Revisions : IsRecorded(lin, r) => r < pkg'.revision
      BY <1>t, <2>in, <3>3 DEF Agrees, Revisions
    <3>6. InStep(p)'
      BY <3>1, <3>2, <3>3, <3>5 DEF InStep
    <3>7. Mirrored'
      BY <3>1, <3>3 DEF SequentialInv, Mirrored, StatusMirrors, OneAtATime
    <3> QED BY <3>1, <3>4, <3>6, <3>7
  <2>13. CASE ReviseRehash(p)
    <3>1. pc[p] = "revise_rehashing" /\ UNCHANGED <<files, outside, crashes>>
      BY <2>13 DEF ReviseRehash
    <3>2. /\ copy[p] = lin /\ lin.state \in REVISE_LEGAL_FROM /\ pkg.revision = NewRevision(p)
          /\ \A r \in Revisions : IsRecorded(lin, r) => r < pkg.revision
      BY <3>1, <2>in DEF InStep
    <3> DEFINE l == Rerecorded(lin, pkg, "draft")
    <3>3. Agrees(l, pkg.revision) /\ MayReplace(lin, l, pkg)
      BY <1>t, <2>in, <3>2, ReviseReplaces
    <3>4. Commit(p, l)
      BY <2>13, <3>2 DEF ReviseRehash, Rerecorded
    <3> HIDE DEF l
    <3>5. InStep(p)'
      BY <3>1, <3>3, <3>4, <2>commit
    <3> QED BY <3>1, <3>5, <2>files, <2>mirrored
  <2>14. CASE BeginSupersede(p)
    <3>1. /\ pc[p] = "idle" /\ IsLegalTransition(lin.state, "superseded")
          /\ UNCHANGED <<files, outside, crashes>>
          /\ pc'[p] = "supersede_loading" /\ copy'[p] = lin
      BY <2>14, <2>at, <2>t DEF BeginSupersede
    <3>2. InStep(p)'
      BY <3>1 DEF InStep
    <3> QED BY <3>1, <3>2, <2>files, <2>mirrored
  <2>15. CASE SupersedeLoad(p)
    <3>1. pc[p] = "supersede_loading" /\ UNCHANGED <<files, outside, crashes>>
      BY <2>15 DEF SupersedeLoad
    <3>2. copy[p] = lin /\ IsLegalTransition(lin.state, "superseded")
      BY <3>1, <2>in DEF InStep
    <3>3. CASE replacement /\ Commit(p, [lin EXCEPT !.state = "superseded"])
      <4> DEFINE l == [lin EXCEPT !.state = "superseded"]
      <4>1. Agrees(l, pkg.revision) /\ MayReplace(lin, l, pkg)
        BY <1>t, <2>in, <3>2, <3>3, SupersedeReplaces
      <4>2. Commit(p, l)
        BY <3>3
      <4> HIDE DEF l
      <4>3. InStep(p)'
        BY <3>1, <4>1, <4>2, <2>commit
      <4> QED BY <3>1, <4>3, <2>files, <2>mirrored
    <3> QED BY <2>15, <3>1, <3>2, <3>3, <2>idle, <2>files, <2>mirrored
            DEF SupersedeLoad
  <2>16. CASE BeginVerify(p) \/ CheckLedger(p) \/ CheckChain(p) \/ ReturnVerified(p)
    <3>1. /\ UNCHANGED <<files, outside, crashes>> /\ pc[p] # "mirroring"
          /\ pc'[p] \in {"checking_ledger", "checking_chain", "verified", "idle"}
      BY <2>16, <2>at
      DEF BeginVerify, CheckLedger, CheckChain, ReturnVerified, Exit
    <3>2. InStep(p)'
      BY <3>1 DEF InStep
    <3> QED BY <3>1, <3>2, <2>files, <2>mirrored
  <2>17. CASE Crash(p)
    <3>1. UNCHANGED <<files, outside>> /\ crashes' = crashes + 1 /\ Exit(p)
      BY <2>17 DEF Crash
    <3>2. crashes' # 0
      BY <3>1 DEF TypeInv, TypeOK
    <3>3. Mirrored'
      BY <3>2 DEF Mirrored
    <3> QED BY <3>1, <3>3, <2>idle, <2>files
  <2> QED
    BY <1>1, <2>1, <2>2, <2>3, <2>4, <2>5, <2>6, <2>7, <2>8, <2>9, <2>10, <2>11,
       <2>12, <2>13, <2>14, <2>15, <2>16, <2>17 DEF Command
<1>2. CASE AuthorEdit
  <2>1. /\ \A p \in Procs : pc'[p] = "idle"
        /\ UNCHANGED <<lin, outside, crashes, pc>>
    BY <1>2 DEF AuthorEdit, OneAtATime, Quiet
  <2>2. pkg'.revision = pkg.revision /\ pkg'.status = pkg.status
    BY <1>2, <1>t DEF AuthorEdit, Package
  <2>3. \A p \in Procs : InStep(p)'
    BY <2>1 DEF InStep
  <2>4. Agrees(lin, pkg.revision)' /\ Mirrored'
    BY <2>1, <2>2 DEF SequentialInv, Mirrored, StatusMirrors
  <2> QED BY <2>3, <2>4 DEF SequentialInv
<1>3. CASE ForgeApproval
  BY <1>3 DEF ForgeApproval, OneAtATime
<1>4. CASE AuthorReplacement
  BY <1>4 DEF AuthorReplacement, SequentialInv, InStep, NewRevision, Mirrored
<1> QED BY <1>0, <1>1, <1>2, <1>3, <1>4 DEF Next

LEMMA SequentialAlways ==
  ASSUME OneAtATime
  PROVE  Spec => [](TypeInv /\ SequentialInv)
<1>1. Init => TypeInv /\ SequentialInv
  BY InitTypes, InitSequential
<1>2. TypeInv /\ SequentialInv /\ [Next]_vars => (TypeInv /\ SequentialInv)'
  BY NextTypes, NextSequential
<1> QED BY <1>1, <1>2, PTL DEF Spec

-----------------------------------------------------------------------------
(* What one operator at a time can rely on. *)

\* Behind approval the ledger approves the hash of the current revision itself,
\* whatever crash interrupted a command on the way.
THEOREM ApprovalIsLedgered ==
  ASSUME OneAtATime
  PROVE  Spec => []PostApprovalLedgered
<1>1. SequentialInv => PostApprovalLedgered
  BY DEF SequentialInv, Agrees, PostApprovalLedgered
<1> QED BY <1>1, SequentialAlways, PTL

\* No command leaves a ledger that disagrees with the recorded hashes.
THEOREM LedgerAgrees ==
  ASSUME OneAtATime
  PROVE  Spec => []LedgerConsistent
<1>1. SequentialInv => LedgerConsistent
  BY DEF SequentialInv, Agrees, LedgerConsistent
<1> QED BY <1>1, SequentialAlways, PTL

\* Only a crash leaves the status line of package.yaml behind the state of record.
THEOREM StatusFollows ==
  ASSUME OneAtATime
  PROVE  Spec => []StatusMirrored
<1>1. SequentialInv => StatusMirrored
  BY DEF SequentialInv, Mirrored, StatusMirrored, Quiet
<1> QED BY <1>1, SequentialAlways, PTL

\* The state of record is replaced by a lineage that may replace it, or not at all.
LEMMA Replaces ==
  ASSUME OneAtATime, SequentialInv, [Next]_vars
  PROVE  lin' = lin \/ MayReplace(lin, lin', pkg)
<1>1. ASSUME NEW p \in Procs, WriteLineage(p) PROVE MayReplace(lin, lin', pkg)
  <2>1. InStep(p)
    BY DEF SequentialInv
  <2> QED BY <1>1, <2>1 DEF WriteLineage, InStep
<1>2. ASSUME NEW p \in Procs, Command(p), ~WriteLineage(p) PROVE lin' = lin
  BY <1>2
  DEF Command, BeginValidated, Validate, Load, DecideTransition, DecideApproval,
      EmitApproval, EmitFails, SetStatus, BeginRevise, ReviseLoad, ReviseBump,
      ReviseRehash, BeginSupersede, SupersedeLoad, BeginVerify, CheckLedger, CheckChain,
      ReturnVerified, Crash
<1>3. CASE AuthorEdit \/ ForgeApproval \/ AuthorReplacement \/ UNCHANGED vars
  BY <1>3 DEF AuthorEdit, ForgeApproval, AuthorReplacement, OneAtATime, vars
<1> QED BY <1>1, <1>2, <1>3 DEF Next

\* Work advances only on the intent that was approved: one edited after approval
\* blocks every later step until it is revised.
THEOREM AdvancesWhatWasApproved ==
  ASSUME OneAtATime
  PROVE  Spec => AdvanceOnlyApprovedIntent
<1>1. SequentialInv /\ [Next]_vars =>
        [(lin'.state # lin.state
           /\ lin'.state \in {"executable", "in_execution", "verification", "completed"})
          => HasMatchingApproval(lin', package_hash(pkg))]_vars
  BY Replaces DEF MayReplace, Advanced
<1> QED BY <1>1, SequentialAlways, PTL DEF Spec, AdvanceOnlyApprovedIntent

\* The state of record moves along the lifecycle's edges only, or back to draft by
\* revise, though each command decides on a lineage it read before writing it.
THEOREM MovesLegally ==
  ASSUME OneAtATime
  PROVE  Spec => MovesAlongEdges
<1>1. SequentialInv /\ [Next]_vars =>
        [lin'.state # lin.state =>
           \/ IsLegalTransition(lin.state, lin'.state)
           \/ lin'.state = "draft" /\ lin.state \in REVISE_LEGAL_FROM]_vars
  BY Replaces DEF MayReplace
<1> QED BY <1>1, SequentialAlways, PTL DEF Spec, MovesAlongEdges

\* Once a crash has left the two files in disagreement, only revise and supersede take
\* the package out of the state that package.yaml does not show.
THEOREM TornPackageStaysPut ==
  ASSUME OneAtATime
  PROVE  Spec => TornStaysPut
<1>1. SequentialInv /\ [Next]_vars =>
        [(lin'.state # lin.state /\ ~StatusMirrors(pkg, lin)) =>
           \/ lin'.state = "draft" /\ lin'.revs # lin.revs
           \/ lin'.state = "superseded"]_vars
  BY Replaces DEF MayReplace, StatusMirrors
<1> QED BY <1>1, SequentialAlways, PTL DEF Spec, TornStaysPut

\* A package whose intent requires a follow-up is never closed from completed, not
\* even by editing the requirement away first.
THEOREM FollowUpIsHonoured ==
  ASSUME OneAtATime
  PROVE  Spec => FollowUpHonoured
<1>1. SequentialInv /\ [Next]_vars =>
        [(lin.state = "completed" /\ lin'.state = "closed") =>
           current_revision_hash(lin).content \notin FollowUpRequired]_vars
  <2>1. lin' = lin /\ lin.state = "completed" => lin'.state # "closed"
    OBVIOUS
  <2> QED BY <2>1, Replaces DEF MayReplace
<1> QED BY <1>1, SequentialAlways, PTL DEF Spec, FollowUpHonoured

\* An approved revision is immutable: its entry stays in the ledger and its recorded
\* hash is never replaced.
THEOREM ApprovedIsImmutable ==
  ASSUME OneAtATime
  PROVE  Spec => ApprovedImmutable
<1>1. SequentialInv /\ [Next]_vars =>
        [\A a \in lin.approvals :
           a \in lin'.approvals /\ lin'.revs[a.hash.revision] = lin.revs[a.hash.revision]]_vars
  BY Replaces DEF MayReplace
<1> QED BY <1>1, SequentialAlways, PTL DEF Spec, ApprovedImmutable

=============================================================================
