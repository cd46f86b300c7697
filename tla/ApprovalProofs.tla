---------------------------- MODULE ApprovalProofs ----------------------------
(***************************************************************************)
(* The approval properties of IntentPackage, proved for every value of its *)
(* constants: the ledger is audited, the gate is sound, the package        *)
(* implements ApprovalGate, and no package gets past review unapproved     *)
(* while nobody passes `approved` to `transition --to`, which the code     *)
(* does not enforce, and what is approved was valid unless a file changed  *)
(* under the approve, which the code does not exclude.                     *)
(***************************************************************************)
EXTENDS IntentPackageProofs

USE DEF files, outside, local

-----------------------------------------------------------------------------
(* The log only grows. *)

\* The entry a process at the emit is about to have approved.
EntryOf(p) == [hash |-> package_hash(view[p]), approver |-> cmd[p].arg]

\* The log gains at most the entry of a process at the emit, and hand-written
\* approvals are not forgotten.
LEMMA LogGrows ==
  ASSUME TypeInv, [Next]_vars
  PROVE  /\ forged \subseteq forged'
         /\ \/ chain' = chain
            \/ \E p \in Procs : pc[p] = "emitting" /\ chain' = Append(chain, EntryOf(p))
<1>0. CASE UNCHANGED vars
  BY <1>0 DEF vars
<1>1. ASSUME NEW p \in Procs, Command(p), ~EmitApproval(p), ~EmitFails(p)
      PROVE  chain' = chain /\ forged' = forged
  BY <1>1
  DEF Command, BeginValidated, Validate, Load, DecideTransition, DecideApproval,
      WriteLineage, SetStatus, BeginRevise, ReviseLoad, ReviseBump, ReviseRehash,
      BeginSupersede, SupersedeLoad, BeginVerify, CheckLedger, CheckChain,
      ReturnVerified, Crash
<1>2. ASSUME NEW p \in Procs, EmitApproval(p) \/ EmitFails(p)
      PROVE  /\ pc[p] = "emitting" /\ forged' = forged
             /\ chain' = chain \/ chain' = Append(chain, EntryOf(p))
  BY <1>2 DEF EmitApproval, EmitFails, AppendEvent, EntryOf
<1>3. CASE AuthorEdit \/ ForgeApproval \/ AuthorReplacement
  BY <1>3 DEF AuthorEdit, ForgeApproval, AuthorReplacement
<1> QED BY <1>0, <1>1, <1>2, <1>3 DEF Next

\* An entry of the log stays in it, and the entry just appended is in it.
LEMMA AppendKeeps ==
  ASSUME NEW c \in Seq(Approval), NEW e \in Approval
  PROVE  /\ Len(Append(c, e)) = Len(c) + 1
         /\ \A i \in 1..Len(c) : Append(c, e)[i] = c[i]
         /\ Append(c, e)[Len(c) + 1] = e
OBVIOUS

\* The entry of a process at the emit is an approval.
LEMMA EntryType ==
  ASSUME TypeInv, NEW p \in Procs, pc[p] = "emitting"
  PROVE  EntryOf(p) \in Approval
<1>1. cmd[p].arg \in Approvers
  BY CommandTypes DEF TypeInv, TypeOK, RunningOK
<1> QED BY <1>1, HashType DEF TypeInv, TypeOK, Approval, EntryOf

-----------------------------------------------------------------------------
(* The ledger is audited. *)

\* The approvals of lineage `l`, those written by hand aside, are in log `c`.
Grounded(l, f, c) == \A a \in l.approvals \ f : \E i \in 1..Len(c) : c[i] = a

\* NoUnauditedApproval is not inductive by itself: a process will overwrite the
\* file with the copy it holds, so the copies must be audited too.
AuditInv ==
  /\ Grounded(lin, forged, chain)
  /\ \A p \in Procs : Grounded(copy[p], forged, chain)

\* What is audited remains so.
LEMMA GroundedGrows ==
  ASSUME TypeInv, [Next]_vars, NEW l, Grounded(l, forged, chain)
  PROVE  Grounded(l, forged', chain')
<1>1. CASE chain' = chain
  BY <1>1, LogGrows DEF Grounded
<1>2. ASSUME NEW p \in Procs, pc[p] = "emitting", chain' = Append(chain, EntryOf(p))
      PROVE  Grounded(l, forged', chain')
  <2>1. /\ Len(chain') = Len(chain) + 1
        /\ \A i \in 1..Len(chain) : chain'[i] = chain[i]
    BY <1>2, EntryType, AppendKeeps DEF TypeInv, TypeOK
  <2>2. Len(chain) \in Nat
    BY DEF TypeInv, TypeOK
  <2>3. \A i \in 1..Len(chain) : i \in 1..Len(chain')
    BY <2>1, <2>2
  <2> QED BY <2>1, <2>3, LogGrows DEF Grounded
<1> QED BY <1>1, <1>2, LogGrows

\* A lineage without approvals needs no audit.
LEMMA BlankGrounded ==
  ASSUME NEW f, NEW c, NEW s
  PROVE  /\ Grounded(BlankLineage, f, c)
         /\ Grounded([BlankLineage EXCEPT !.state = s], f, c)
BY DEF Grounded, BlankLineage

\* Audit looks at the approvals only.
LEMMA GroundedApprovals ==
  ASSUME NEW l, NEW m, NEW f, NEW c, l.approvals = m.approvals, Grounded(m, f, c)
  PROVE  Grounded(l, f, c)
BY DEF Grounded

\* A process that replaces its copy by an audited lineage keeps the copies
\* audited.
LEMMA CopiesGrounded ==
  ASSUME TypeInv, AuditInv, [Next]_vars, NEW p \in Procs, NEW l,
         Grounded(l, forged', chain'), copy' = [copy EXCEPT ![p] = l]
  PROVE  \A q \in Procs : Grounded(copy'[q], forged', chain')
<1> TAKE q \in Procs
<1>1. CASE q = p
  BY <1>1 DEF TypeInv, TypeOK
<1>2. CASE q # p
  BY <1>2, GroundedGrows DEF AuditInv, TypeInv, TypeOK
<1> QED BY <1>1, <1>2

\* The initial ledger is empty.
LEMMA InitAudit == Init => AuditInv
<1> SUFFICES ASSUME Init PROVE AuditInv
  OBVIOUS
<1>1. lin.approvals = {}
  BY DEF Init, snapshot_revision, BlankLineage
<1>2. \A p \in Procs : copy[p] = BlankLineage
  BY DEF Init
<1> QED BY <1>1, <1>2, BlankGrounded DEF AuditInv, Grounded

\* Every step keeps the files and the copies audited.
LEMMA NextAudit == TypeInv /\ AuditInv /\ [Next]_vars => AuditInv'
<1> SUFFICES ASSUME TypeInv, AuditInv, [Next]_vars PROVE AuditInv'
  OBVIOUS
<1>lin. Grounded(lin, forged', chain')
  BY GroundedGrows DEF AuditInv
<1>copy. \A q \in Procs : Grounded(copy[q], forged', chain')
  BY GroundedGrows DEF AuditInv
<1>exit. ASSUME NEW p \in Procs, Exit(p)
         PROVE  \A q \in Procs : Grounded(copy'[q], forged', chain')
  BY <1>exit, BlankGrounded, CopiesGrounded DEF Exit
<1>mirror. ASSUME NEW p \in Procs, NEW s, Mirror(p, s)
           PROVE  \A q \in Procs : Grounded(copy'[q], forged', chain')
  BY <1>mirror, BlankGrounded, CopiesGrounded DEF Mirror
<1>commit. ASSUME NEW p \in Procs, NEW l, Commit(p, l), Grounded(l, forged', chain')
           PROVE  \A q \in Procs : Grounded(copy'[q], forged', chain')
  BY <1>commit, CopiesGrounded DEF Commit
<1>same. ASSUME lin' = lin, copy' = copy PROVE AuditInv'
  BY <1>same, <1>lin, <1>copy DEF AuditInv
<1>0. CASE UNCHANGED vars
  BY <1>0, <1>same DEF vars
<1>1. ASSUME NEW p \in Procs, Command(p) PROVE AuditInv'
  <2>c. copy[p] \in Lineage /\ lin \in Lineage
    BY DEF TypeInv, TypeOK
  <2>1. CASE BeginValidated(p) \/ Load(p) \/ ReviseBump(p) \/ BeginVerify(p)
    BY <2>1, <1>same DEF BeginValidated, Load, ReviseBump, BeginVerify
  <2>2. CASE Validate(p) \/ CheckLedger(p) \/ CheckChain(p) \/ ReviseLoad(p)
    BY <2>2, <1>same, <1>exit, <1>lin
    DEF Validate, CheckLedger, CheckChain, ReviseLoad, AuditInv
  <2>3. CASE EmitFails(p) \/ SetStatus(p) \/ ReturnVerified(p) \/ Crash(p)
    BY <2>3, <1>exit, <1>lin DEF EmitFails, SetStatus, ReturnVerified, Crash, AuditInv
  <2>4. CASE BeginRevise(p) \/ BeginSupersede(p)
    BY <2>4, <1>lin, CopiesGrounded DEF BeginRevise, BeginSupersede, AuditInv
  <2>5. CASE DecideTransition(p)
    <3> DEFINE l == Transitioned(view[p], lin, cmd[p].arg)
    <3>1. l.approvals = lin.approvals
      BY <2>c DEF Transitioned, snapshot_revision, Lineage
    <3>2. Grounded(l, forged', chain')
      BY <3>1, <1>lin, GroundedApprovals
    <3>3. lin' = lin /\ (Commit(p, l) \/ Exit(p))
      BY <2>5 DEF DecideTransition
    <3> HIDE DEF l
    <3> QED BY <3>2, <3>3, <1>exit, <1>commit, <1>lin DEF AuditInv
  <2>6. CASE DecideApproval(p)
    <3> DEFINE l == [lin EXCEPT !.state = "approved"]
    <3>1. Grounded(l, forged', chain')
      <4>1. l.approvals = lin.approvals
        BY <2>c DEF Lineage
      <4> QED BY <4>1, <1>lin, GroundedApprovals
    <3>2. /\ lin' = lin
          /\ \/ copy' = [copy EXCEPT ![p] = lin] \/ copy' = [copy EXCEPT ![p] = l]
             \/ Mirror(p, "approved") \/ Exit(p)
      BY <2>6 DEF DecideApproval
    <3> HIDE DEF l
    <3> QED BY <3>1, <3>2, <1>exit, <1>mirror, <1>lin, CopiesGrounded DEF AuditInv
  <2>7. CASE EmitApproval(p)
    <3> DEFINE l == [copy[p] EXCEPT !.approvals = @ \cup {EntryOf(p)},
                                    !.state = "approved"]
    <3>1. lin' = lin /\ Commit(p, l) /\ chain' = Append(chain, EntryOf(p))
             /\ pc[p] = "emitting"
      BY <2>7 DEF EmitApproval, AppendEvent, EntryOf
    <3>2. l.approvals = copy[p].approvals \cup {EntryOf(p)}
      BY <2>c DEF Lineage
    <3>3. \E i \in 1..Len(chain') : chain'[i] = EntryOf(p)
      <4>1. Len(chain) \in Nat /\ chain \in Seq(Approval)
        BY DEF TypeInv, TypeOK
      <4>2. Len(chain') = Len(chain) + 1 /\ chain'[Len(chain) + 1] = EntryOf(p)
        BY <3>1, <4>1, EntryType, AppendKeeps
      <4>3. Len(chain) + 1 \in 1..Len(chain')
        BY <4>1, <4>2
      <4> QED BY <4>2, <4>3
    <3>4. Grounded(l, forged', chain')
      BY <3>2, <3>3, <1>copy DEF Grounded
    <3> HIDE DEF l
    <3> QED BY <3>1, <3>4, <1>commit, <1>lin DEF AuditInv
  <2>8. CASE WriteLineage(p)
    <3>1. lin' = copy[p] /\ (Exit(p) \/ Mirror(p, copy[p].state))
      BY <2>8 DEF WriteLineage
    <3> QED BY <3>1, <1>exit, <1>mirror, <1>copy DEF AuditInv
  <2>9. CASE ReviseRehash(p)
    <3> DEFINE l == [snapshot_revision(copy[p], NewRevision(p), package_hash(pkg))
                       EXCEPT !.state = "draft"]
    <3>1. l.approvals = copy[p].approvals
      BY <2>c DEF snapshot_revision, Lineage
    <3>2. Grounded(l, forged', chain')
      BY <3>1, <1>copy, GroundedApprovals
    <3>3. lin' = lin /\ Commit(p, l)
      BY <2>9 DEF ReviseRehash
    <3> HIDE DEF l
    <3> QED BY <3>2, <3>3, <1>commit, <1>lin DEF AuditInv
  <2>10. CASE SupersedeLoad(p)
    <3> DEFINE l == [copy[p] EXCEPT !.state = "superseded"]
    <3>1. l.approvals = copy[p].approvals
      BY <2>c DEF Lineage
    <3>2. Grounded(l, forged', chain')
      BY <3>1, <1>copy, GroundedApprovals
    <3>3. lin' = lin /\ (Commit(p, l) \/ Exit(p))
      BY <2>10 DEF SupersedeLoad
    <3> HIDE DEF l
    <3> QED BY <3>2, <3>3, <1>commit, <1>exit, <1>lin DEF AuditInv
  <2> QED BY <1>1, <2>1, <2>2, <2>3, <2>4, <2>5, <2>6, <2>7, <2>8, <2>9, <2>10 DEF Command
<1>2. CASE AuthorEdit \/ AuthorReplacement
  BY <1>2, <1>same DEF AuthorEdit, AuthorReplacement
<1>3. CASE ForgeApproval
  <2>1. PICK e : lin' = [lin EXCEPT !.approvals = @ \cup {e}] /\ forged' = forged \cup {e}
    BY <1>3 DEF ForgeApproval
  <2>2. lin'.approvals = lin.approvals \cup {e}
    BY <2>1 DEF TypeInv, TypeOK, Lineage
  <2>3. Grounded(lin', forged', chain')
    BY <2>1, <2>2, <1>lin DEF Grounded
  <2>4. copy' = copy
    BY <1>3 DEF ForgeApproval
  <2> QED BY <2>3, <2>4, <1>copy DEF AuditInv
<1> QED BY <1>0, <1>1, <1>2, <1>3 DEF Next

\* do_approve's promise: an unaudited approval can never exist.  Whatever
\* commands run together and wherever they crash, a ledger entry that nobody
\* wrote by hand is an event of the log.
THEOREM ApprovalsAudited == Spec => []NoUnauditedApproval
<1>1. AuditInv => NoUnauditedApproval
  BY DEF AuditInv, Grounded, NoUnauditedApproval, InLog
<1> QED BY <1>1, InitTypes, NextTypes, InitAudit, NextAudit, PTL DEF Spec

-----------------------------------------------------------------------------
(* The inductive invariant of the gate. *)

\* GateSound speaks of a process that answers yes.  For it the log must hold
\* proper events only, hence a process at the emit must hold a proper entry.
GateInv ==
  /\ \A i \in 1..Len(chain) : IsProperEvent(chain[i])
  /\ \A p \in Procs : pc[p] = "emitting" => IsProperEvent(EntryOf(p))
  /\ \A p \in Procs : (pc[p] = "verified" /\ cmd[p].arg = "chain")
                        => IsAudited(package_hash(view[p]))

\* A command changes the memory of its own process only.
LEMMA OthersStill ==
  ASSUME TypeInv, NEW p \in Procs, Command(p), NEW q \in Procs, q # p
  PROVE  pc'[q] = pc[q] /\ cmd'[q] = cmd[q] /\ view'[q] = view[q]
<1> USE DEF TypeInv, TypeOK, Goto, ForgetView, ForgetCommand, Commit, Mirror, Exit
<1>1. CASE BeginValidated(p) \/ Validate(p) \/ Load(p)
  BY <1>1 DEF BeginValidated, Validate, Load
<1>2. CASE DecideTransition(p)
  BY <1>2 DEF DecideTransition
<1>3. CASE DecideApproval(p)
  BY <1>3 DEF DecideApproval
<1>4. CASE EmitApproval(p) \/ EmitFails(p)
  BY <1>4 DEF EmitApproval, EmitFails
<1>5. CASE WriteLineage(p) \/ SetStatus(p)
  BY <1>5 DEF WriteLineage, SetStatus
<1>6. CASE BeginRevise(p) \/ ReviseLoad(p) \/ ReviseBump(p) \/ ReviseRehash(p)
  BY <1>6 DEF BeginRevise, ReviseLoad, ReviseBump, ReviseRehash
<1>7. CASE BeginSupersede(p) \/ SupersedeLoad(p)
  BY <1>7 DEF BeginSupersede, SupersedeLoad
<1>8. CASE BeginVerify(p) \/ CheckLedger(p) \/ CheckChain(p) \/ ReturnVerified(p)
  BY <1>8 DEF BeginVerify, CheckLedger, CheckChain, ReturnVerified
<1>9. CASE Crash(p)
  BY <1>9 DEF Crash
<1> QED
  BY <1>1, <1>2, <1>3, <1>4, <1>5, <1>6, <1>7, <1>8, <1>9 DEF Command

\* A process comes to the emit by deciding that it may approve what it read, and
\* comes to a yes with the chain consulted by finding the hash in the log.
LEMMA Arrivals ==
  ASSUME TypeInv, NEW p \in Procs, Command(p)
  PROVE  /\ pc'[p] = "emitting" =>
              /\ MayConsiderApproval(view[p], lin, cmd[p].arg)
              /\ view'[p] = view[p] /\ cmd'[p] = cmd[p]
         /\ (pc'[p] = "verified" /\ cmd'[p].arg = "chain") =>
              /\ IsAudited(package_hash(view[p]))
              /\ view'[p] = view[p] /\ chain' = chain
<1> USE DEF TypeInv, TypeOK, Goto, Commit, Mirror, Exit
<1>1. CASE BeginValidated(p) \/ Validate(p) \/ Load(p)
  BY <1>1 DEF BeginValidated, Validate, Load
<1>2. CASE DecideTransition(p)
  BY <1>2 DEF DecideTransition
<1>3. CASE DecideApproval(p)
  BY <1>3 DEF DecideApproval
<1>4. CASE EmitApproval(p) \/ EmitFails(p)
  BY <1>4 DEF EmitApproval, EmitFails
<1>5. CASE WriteLineage(p) \/ SetStatus(p)
  BY <1>5 DEF WriteLineage, SetStatus
<1>6. CASE BeginRevise(p) \/ ReviseLoad(p) \/ ReviseBump(p) \/ ReviseRehash(p)
  BY <1>6 DEF BeginRevise, ReviseLoad, ReviseBump, ReviseRehash
<1>7. CASE BeginSupersede(p) \/ SupersedeLoad(p)
  BY <1>7 DEF BeginSupersede, SupersedeLoad
<1>8. CASE BeginVerify(p) \/ ReturnVerified(p)
  BY <1>8 DEF BeginVerify, ReturnVerified
<1>9. CASE CheckLedger(p)
  BY <1>9 DEF CheckLedger
<1>10. CASE CheckChain(p)
  BY <1>10 DEF CheckChain
<1>11. CASE Crash(p)
  BY <1>11 DEF Crash
<1> QED
  BY <1>1, <1>2, <1>3, <1>4, <1>5, <1>6, <1>7, <1>8, <1>9, <1>10, <1>11 DEF Command

\* What the log says of a hash it says for good.
LEMMA AuditedGrows ==
  ASSUME TypeInv, [Next]_vars, NEW h, IsAudited(h)
  PROVE  \E i \in 1..Len(chain') : chain'[i].hash = h
<1>1. CASE chain' = chain
  BY <1>1 DEF IsAudited
<1>2. ASSUME NEW p \in Procs, pc[p] = "emitting", chain' = Append(chain, EntryOf(p))
      PROVE  \E i \in 1..Len(chain') : chain'[i].hash = h
  <2>1. /\ Len(chain') = Len(chain) + 1
        /\ \A i \in 1..Len(chain) : chain'[i] = chain[i]
    BY <1>2, EntryType, AppendKeeps DEF TypeInv, TypeOK
  <2>2. \A i \in 1..Len(chain) : i \in 1..Len(chain')
    BY <2>1 DEF TypeInv, TypeOK
  <2> QED BY <2>1, <2>2 DEF IsAudited
<1> QED BY <1>1, <1>2, LogGrows

\* The log gains proper events only.
LEMMA LogProper ==
  ASSUME TypeInv, GateInv, [Next]_vars
  PROVE  \A i \in 1..Len(chain') : IsProperEvent(chain'[i])
<1>1. CASE chain' = chain
  BY <1>1 DEF GateInv
<1>2. ASSUME NEW p \in Procs, pc[p] = "emitting", chain' = Append(chain, EntryOf(p))
      PROVE  \A i \in 1..Len(chain') : IsProperEvent(chain'[i])
  <2>1. /\ Len(chain') = Len(chain) + 1
        /\ \A i \in 1..Len(chain) : chain'[i] = chain[i]
        /\ chain'[Len(chain) + 1] = EntryOf(p)
    BY <1>2, EntryType, AppendKeeps DEF TypeInv, TypeOK
  <2>2. \A i \in 1..Len(chain') : i \in 1..Len(chain) \/ i = Len(chain) + 1
    BY <2>1 DEF TypeInv, TypeOK
  <2> QED BY <1>2, <2>1, <2>2 DEF GateInv
<1> QED BY <1>1, <1>2, LogGrows

\* Nobody has approved or verified anything at first.
LEMMA InitGate == Init => GateInv
BY DEF Init, GateInv

\* Every step keeps the gate's invariant.
LEMMA NextGate == TypeInv /\ GateInv /\ [Next]_vars => GateInv'
<1> SUFFICES ASSUME TypeInv, GateInv, [Next]_vars PROVE GateInv'
  OBVIOUS
<1> DEFINE AtEmit(q) == pc'[q] = "emitting" => IsProperEvent(EntryOf(q)')
           AtYes(q) == (pc'[q] = "verified" /\ cmd'[q].arg = "chain") =>
                          \E i \in 1..Len(chain') : chain'[i].hash = package_hash(view'[q])
<1>still. ASSUME NEW q \in Procs, pc'[q] = pc[q], cmd'[q] = cmd[q], view'[q] = view[q]
          PROVE  AtEmit(q) /\ AtYes(q)
  <2>1. EntryOf(q)' = EntryOf(q)
    BY <1>still DEF EntryOf
  <2> QED BY <2>1, <1>still, AuditedGrows DEF GateInv
<1>0. CASE UNCHANGED <<pc, cmd, view>>
  BY <1>0, <1>still, LogProper DEF GateInv, IsAudited, EntryOf
<1>1. ASSUME NEW p \in Procs, Command(p) PROVE GateInv'
  <2>1. ASSUME NEW q \in Procs PROVE AtEmit(q) /\ AtYes(q)
    <3>1. CASE q # p
      BY <3>1, <1>1, <1>still, OthersStill
    <3>2. CASE q = p
      <4>1. AtEmit(p)
        <5> SUFFICES ASSUME pc'[p] = "emitting" PROVE IsProperEvent(EntryOf(p)')
          OBVIOUS
        <5>1. /\ MayConsiderApproval(view[p], lin, cmd[p].arg)
              /\ view'[p] = view[p] /\ cmd'[p] = cmd[p]
          BY <1>1, Arrivals
        <5>2. EntryOf(p)' = EntryOf(p)
          BY <5>1 DEF EntryOf
        <5>3. /\ EntryOf(p).hash.content = view[p].content
              /\ EntryOf(p).approver = cmd[p].arg
          BY DEF EntryOf, package_hash
        <5> QED BY <5>1, <5>2, <5>3 DEF IsProperEvent, MayConsiderApproval
      <4>2. AtYes(p)
        BY <1>1, Arrivals DEF IsAudited
      <4> QED BY <3>2, <4>1, <4>2
    <3> QED BY <3>1, <3>2
  <2> QED BY <2>1, LogProper DEF GateInv, IsAudited, EntryOf
<1>2. CASE AuthorEdit \/ ForgeApproval \/ AuthorReplacement
  BY <1>2, <1>0 DEF AuthorEdit, ForgeApproval, AuthorReplacement
<1>3. CASE UNCHANGED vars
  BY <1>3, <1>0 DEF vars
<1> QED BY <1>1, <1>2, <1>3 DEF Next

\* verify-approval fails closed: whatever was edited, forged, interleaved or
\* killed, a yes with the chain consulted is about an intent without open
\* questions that somebody entitled to has approved, and the log says so.
THEOREM GateIsSound == Spec => []GateSound
<1>1. GateInv => GateSound
  BY DEF GateInv, GateSound, IsAudited
<1> QED BY <1>1, InitTypes, NextTypes, InitGate, NextGate, PTL DEF Spec

-----------------------------------------------------------------------------
(* Refinement. *)

\* The package begins with no approval and a closed gate.
LEMMA GateInit == Init => Gate!Init
BY DEF Init, Gate!Init, AuditedHashes, OpenHashes

\* The hash a process at the emit has approved is one somebody may approve, and
\* its emit lets nothing through the gate.
LEMMA EmitApproves ==
  ASSUME TypeInv, GateInv, NEW p \in Procs, EmitApproval(p) \/ EmitFails(p),
         chain' = Append(chain, EntryOf(p))
  PROVE  Gate!Approve
<1>p. pc[p] = "emitting" /\ EntryOf(p) \in Approval /\ IsProperEvent(EntryOf(p))
  BY EntryType DEF EmitApproval, EmitFails, GateInv
<1>1. AuditedHashes' = AuditedHashes \cup {EntryOf(p).hash}
  <2>1. /\ Len(chain') = Len(chain) + 1 /\ Len(chain) \in Nat
        /\ \A i \in 1..Len(chain) : chain'[i] = chain[i]
        /\ chain'[Len(chain) + 1] = EntryOf(p)
    BY <1>p, AppendKeeps DEF TypeInv, TypeOK
  <2>2. 1..Len(chain') = 1..Len(chain) \cup {Len(chain) + 1}
    BY <2>1
  <2> QED BY <2>1, <2>2 DEF AuditedHashes
<1>2. OpenHashes' = OpenHashes
  <2>1. Command(p)
    BY DEF Command
  <2>2. pc'[p] # "verified"
    BY DEF EmitApproval, EmitFails, Commit, Exit, Goto, TypeInv, TypeOK
  <2>3. \A q \in Procs : /\ (pc'[q] = "verified") <=> (pc[q] = "verified")
                         /\ pc[q] = "verified" => cmd'[q] = cmd[q] /\ view'[q] = view[q]
    BY <1>p, <2>1, <2>2, OthersStill
  <2> QED BY <2>3 DEF OpenHashes
<1>3. /\ EntryOf(p).hash \in Hashes
      /\ EntryOf(p).hash.content \notin OpenQuestioned
      /\ EntryOf(p).approver \in Approvers
      /\ IsAuthorized(EntryOf(p).approver, EntryOf(p).hash.content)
  BY <1>p DEF Approval, IsProperEvent
<1> QED BY <1>1, <1>2, <1>3 DEF Gate!Approve

\* Every step is a step of the gate.
LEMMA GateStep ==
  TypeInv /\ GateInv /\ GateInv' /\ [Next]_vars
    => [Gate!Next]_<<AuditedHashes, OpenHashes>>
<1> SUFFICES ASSUME TypeInv, GateInv, GateInv', [Next]_vars
             PROVE  [Gate!Next]_<<AuditedHashes, OpenHashes>>
  OBVIOUS
<1>1. CASE chain' = chain
  <2>1. AuditedHashes' = AuditedHashes
    BY <1>1 DEF AuditedHashes
  <2>2. OpenHashes' \subseteq AuditedHashes'
    BY DEF GateInv, OpenHashes, AuditedHashes, IsAudited
  <2> QED BY <2>1, <2>2 DEF Gate!Next, Gate!Admit
<1>2. CASE chain' # chain
  <2>1. PICK p \in Procs : EmitApproval(p) \/ EmitFails(p)
    <3>1. ~UNCHANGED vars /\ ~AuthorEdit /\ ~ForgeApproval /\ ~AuthorReplacement
      BY <1>2 DEF vars, AuthorEdit, ForgeApproval, AuthorReplacement
    <3>2. PICK p \in Procs : Command(p)
      BY <3>1 DEF Next
    <3> QED
      BY <1>2, <3>2
      DEF Command, BeginValidated, Validate, Load, DecideTransition, DecideApproval,
          WriteLineage, SetStatus, BeginRevise, ReviseLoad, ReviseBump, ReviseRehash,
          BeginSupersede, SupersedeLoad, BeginVerify, CheckLedger, CheckChain,
          ReturnVerified, Crash
  <2>2. chain' = Append(chain, EntryOf(p))
    BY <1>2, <2>1 DEF EmitApproval, EmitFails, AppendEvent, EntryOf
  <2> QED BY <2>1, <2>2, EmitApproves DEF Gate!Next
<1> QED BY <1>1, <1>2

\* The package implements the approval gate: any interleaving of its commands,
\* with crashes, edits and forged ledgers, approves hashes one by one and for
\* good, and lets through only what it approved.
THEOREM PackageImplementsGate == Spec => ImplementsGate
<1> QED BY InitTypes, NextTypes, InitGate, NextGate, GateInit, GateStep, PTL
        DEF Spec, ImplementsGate, Gate!Spec

-----------------------------------------------------------------------------
(* No package gets past review unapproved. *)

\* Some approval was logged, or written into the ledger by hand.
SomeApproval == chain # <<>> \/ forged # {}

\* Beside the file itself, the copies that processes will overwrite it with
\* count, and so does a supersede that has already checked the state.
ReviewInv ==
  /\ lin.state \in PostApproval => SomeApproval
  /\ \A p \in Procs : copy[p].state \in PostApproval => SomeApproval
  /\ \A p \in Procs : pc[p] = "supersede_loading" => SomeApproval

-----------------------------------------------------------------------------
\* The lifecycle has one way past review: the edge to approved.
LEMMA OnlyWayIsApproval ==
  ASSUME NEW src \in STATES, NEW dst \in PostApproval, dst # "approved",
         IsLegalTransition(src, dst)
  PROVE  src \in PostApproval
BY DEF STATES, PostApproval, IsLegalTransition, LEGAL_TRANSITIONS

\* Approvals are not lost.
LEMMA SomeApprovalStays ==
  ASSUME TypeInv, [Next]_vars, SomeApproval
  PROVE  SomeApproval'
<1>1. CASE chain' = chain
  BY <1>1, LogGrows DEF SomeApproval
<1>2. ASSUME NEW p \in Procs, pc[p] = "emitting", chain' = Append(chain, EntryOf(p))
      PROVE  SomeApproval'
  <2>1. Len(chain') = Len(chain) + 1 /\ Len(chain) \in Nat
    BY <1>2, EntryType, AppendKeeps DEF TypeInv, TypeOK
  <2>2. chain' # <<>>
    BY <2>1
  <2> QED BY <2>2 DEF SomeApproval
<1> QED BY <1>1, <1>2, LogGrows

\* A process that exits, or replaces its copy by a lineage that is not past
\* review without an approval, keeps the invariant.
LEMMA CopyReviewed ==
  ASSUME TypeInv, ReviewInv, [Next]_vars, NEW p \in Procs, NEW l, NEW place,
         lin' = lin \/ lin' = copy[p],
         l.state \in PostApproval => SomeApproval',
         copy' = [copy EXCEPT ![p] = l], pc' = [pc EXCEPT ![p] = place],
         place = "supersede_loading" => SomeApproval'
  PROVE  ReviewInv'
<1>1. lin'.state \in PostApproval => SomeApproval'
  BY SomeApprovalStays DEF ReviewInv
<1>2. ASSUME NEW q \in Procs
      PROVE  /\ copy'[q].state \in PostApproval => SomeApproval'
             /\ pc'[q] = "supersede_loading" => SomeApproval'
  <2>1. CASE q = p
    BY <2>1 DEF TypeInv, TypeOK
  <2>2. CASE q # p
    BY <2>2, SomeApprovalStays DEF ReviewInv, TypeInv, TypeOK
  <2> QED BY <2>1, <2>2
<1> QED BY <1>1, <1>2 DEF ReviewInv

\* A package begins as a draft.
LEMMA InitReview == Init => ReviewInv
<1> SUFFICES ASSUME Init PROVE ReviewInv
  OBVIOUS
<1>1. lin.state = "draft" /\ \A p \in Procs : copy[p].state = "draft"
  BY DEF Init, snapshot_revision, BlankLineage
<1> QED BY <1>1 DEF ReviewInv, PostApproval, Init

\* Every step keeps the invariant.
LEMMA NextReview ==
  ASSUME "approved" \notin TransitionTargets
  PROVE  TypeInv /\ AuditInv /\ ReviewInv /\ [Next]_vars => ReviewInv'
<1> SUFFICES ASSUME TypeInv, AuditInv, ReviewInv, [Next]_vars PROVE ReviewInv'
  OBVIOUS
<1>same. ASSUME lin' = lin \/ lin'.state = lin.state, copy' = copy,
                \A p \in Procs : pc'[p] = "supersede_loading" => pc[p] = "supersede_loading"
         PROVE  ReviewInv'
  BY <1>same, SomeApprovalStays DEF ReviewInv
<1>exit. ASSUME NEW p \in Procs, Exit(p), lin' = lin \/ lin' = copy[p] PROVE ReviewInv'
  <2>1. BlankLineage.state \notin PostApproval
    BY DEF BlankLineage, PostApproval
  <2>2. copy' = [copy EXCEPT ![p] = BlankLineage] /\ pc' = [pc EXCEPT ![p] = "idle"]
    BY <1>exit DEF Exit, Goto
  <2>3. "idle" # "supersede_loading"
    OBVIOUS
  <2> QED BY <1>exit, <2>1, <2>2, <2>3, CopyReviewed
<1>mirror. ASSUME NEW p \in Procs, NEW s, Mirror(p, s), lin' = lin \/ lin' = copy[p],
                  s \in PostApproval => SomeApproval'
           PROVE  ReviewInv'
  <2>1. [BlankLineage EXCEPT !.state = s].state = s
    BY DEF BlankLineage
  <2> QED BY <1>mirror, <2>1, CopyReviewed DEF Mirror, Goto
<1>commit. ASSUME NEW p \in Procs, NEW l, Commit(p, l), lin' = lin,
                  l.state \in PostApproval => SomeApproval'
           PROVE  ReviewInv'
  BY <1>commit, CopyReviewed DEF Commit, Goto
<1>0. CASE UNCHANGED vars
  BY <1>0, <1>same DEF vars
<1>1. ASSUME NEW p \in Procs, Command(p) PROVE ReviewInv'
  <2>t. /\ copy[p] \in Lineage /\ lin \in Lineage /\ pc \in [Procs -> Places]
        /\ cmd[p] \in Commands \cup {BlankCommand}
    BY DEF TypeInv, TypeOK
  <2>lin. lin.state \in PostApproval => SomeApproval'
    BY SomeApprovalStays DEF ReviewInv
  <2>copy. copy[p].state \in PostApproval => SomeApproval'
    BY SomeApprovalStays DEF ReviewInv
  <2>1. CASE BeginValidated(p) \/ Load(p) \/ ReviseBump(p) \/ BeginVerify(p)
    BY <2>1, <2>t, <1>same DEF BeginValidated, Load, ReviseBump, BeginVerify, Goto
  <2>2. CASE Validate(p) \/ CheckLedger(p) \/ CheckChain(p) \/ ReviseLoad(p)
    BY <2>2, <2>t, <1>same, <1>exit
    DEF Validate, CheckLedger, CheckChain, ReviseLoad, Goto
  <2>3. CASE EmitFails(p) \/ SetStatus(p) \/ ReturnVerified(p) \/ Crash(p)
    BY <2>3, <1>exit DEF EmitFails, SetStatus, ReturnVerified, Crash
  <2>4. CASE BeginRevise(p)
    BY <2>4, <2>lin, CopyReviewed DEF BeginRevise, Goto
  <2>5. CASE BeginSupersede(p)
    <3>1. lin.state \in PostApproval
      BY <2>5, <2>t, OnlyWayIsApproval DEF BeginSupersede, Lineage, PostApproval
    <3> QED BY <2>5, <2>lin, <3>1, CopyReviewed DEF BeginSupersede, Goto
  <2>6. CASE DecideTransition(p)
    <3> DEFINE to == cmd[p].arg
               l == Transitioned(view[p], lin, to)
    <3>1. l.state = to
      BY <2>t DEF Transitioned, snapshot_revision, Lineage
    <3>2. CASE Exit(p)
      BY <2>6, <3>2, <1>exit DEF DecideTransition
    <3>3. CASE MayTransition(view[p], lin, to) /\ Commit(p, l)
      <4>1. to # "approved" /\ IsLegalTransition(lin.state, to) /\ lin.state \in STATES
        BY <2>6, <2>t, <3>3, CommandTypes DEF DecideTransition, MayTransition, Lineage
      <4>2. l.state \in PostApproval => SomeApproval'
        BY <3>1, <4>1, <2>lin, OnlyWayIsApproval
      <4>3. lin' = lin
        BY <2>6 DEF DecideTransition
      <4> HIDE DEF l
      <4> QED BY <3>3, <4>2, <4>3, <1>commit
    <3> QED BY <2>6, <3>2, <3>3 DEF DecideTransition
  <2>7. CASE DecideApproval(p)
    <3>0. lin' = lin
      BY <2>7 DEF DecideApproval
    <3>1. CASE Exit(p)
      BY <3>0, <3>1, <1>exit
    <3>2. CASE lin.state = "approved" /\ Mirror(p, "approved")
      BY <3>0, <3>2, <2>lin, <1>mirror DEF PostApproval
    <3>3. CASE copy' = [copy EXCEPT ![p] = lin] /\ Goto(p, "emitting")
      BY <3>0, <3>3, <2>lin, CopyReviewed DEF Goto
    <3>4. CASE /\ HasMatchingApproval(lin, package_hash(view[p]))
               /\ copy' = [copy EXCEPT ![p] = [lin EXCEPT !.state = "approved"]]
               /\ Goto(p, "replaying")
      <4>1. SomeApproval
        BY <3>4 DEF HasMatchingApproval, AuditInv, Grounded, SomeApproval
      <4> QED BY <3>0, <3>4, <4>1, SomeApprovalStays, CopyReviewed DEF Goto
    <3> QED BY <2>7, <3>1, <3>2, <3>3, <3>4 DEF DecideApproval
  <2>8. CASE EmitApproval(p)
    <3>1. /\ pc[p] = "emitting" /\ chain' = Append(chain, EntryOf(p)) /\ lin' = lin
          /\ Commit(p, [copy[p] EXCEPT !.approvals = @ \cup {EntryOf(p)},
                                       !.state = "approved"])
      BY <2>8 DEF EmitApproval, AppendEvent, EntryOf
    <3>2. Len(chain') = Len(chain) + 1 /\ Len(chain) \in Nat
      BY <3>1, EntryType, AppendKeeps DEF TypeInv, TypeOK
    <3>3. SomeApproval'
      <4>1. chain' # <<>>
        BY <3>2
      <4> QED BY <4>1 DEF SomeApproval
    <3> QED BY <3>1, <3>3, <1>commit
  <2>9. CASE WriteLineage(p)
    <3>1. lin' = copy[p] /\ (Exit(p) \/ Mirror(p, copy[p].state))
      BY <2>9 DEF WriteLineage
    <3> QED BY <3>1, <2>copy, <1>exit, <1>mirror
  <2>10. CASE ReviseRehash(p)
    <3> DEFINE l == [snapshot_revision(copy[p], NewRevision(p), package_hash(pkg))
                       EXCEPT !.state = "draft"]
    <3>1. l.state \notin PostApproval
      BY <2>t DEF snapshot_revision, Lineage, PostApproval
    <3>2. lin' = lin /\ Commit(p, l)
      BY <2>10 DEF ReviseRehash
    <3> HIDE DEF l
    <3> QED BY <3>1, <3>2, <1>commit
  <2>11. CASE SupersedeLoad(p)
    <3>1. SomeApproval'
      BY <2>11, SomeApprovalStays DEF SupersedeLoad, ReviewInv
    <3>2. lin' = lin /\ (Exit(p) \/ Commit(p, [copy[p] EXCEPT !.state = "superseded"]))
      BY <2>11 DEF SupersedeLoad
    <3> QED BY <3>1, <3>2, <1>exit, <1>commit
  <2> QED
    BY <1>1, <2>1, <2>2, <2>3, <2>4, <2>5, <2>6, <2>7, <2>8, <2>9, <2>10, <2>11
    DEF Command
<1>2. CASE AuthorEdit \/ AuthorReplacement
  BY <1>2, <1>same DEF AuthorEdit, AuthorReplacement
<1>3. CASE ForgeApproval
  <2>1. lin'.state = lin.state /\ copy' = copy /\ pc' = pc
    BY <1>3 DEF ForgeApproval, TypeInv, TypeOK, Lineage
  <2> QED BY <2>1, <1>same
<1> QED BY <1>0, <1>1, <1>2, <1>3 DEF Next

\* Commands may overlap, crash and read stale files: as long as nobody takes the
\* unguarded way in (`transition --to approved`), a package is past review only
\* if some approval of it was logged, or written by hand.
THEOREM PastReviewIsApproved ==
  ASSUME "approved" \notin TransitionTargets
  PROVE  Spec => []NeverPastReviewUnapproved
<1>1. ReviewInv => NeverPastReviewUnapproved
  BY DEF ReviewInv, SomeApproval, NeverPastReviewUnapproved
<1>2. TypeInv /\ AuditInv /\ ReviewInv /\ [Next]_vars => ReviewInv'
  BY NextReview
<1> QED BY <1>1, <1>2, InitTypes, NextTypes, InitAudit, NextAudit, InitReview, PTL DEF Spec

-----------------------------------------------------------------------------
(* What approve validates. *)

\* approve reads package.yaml to validate it and again to approve it, and lineage.yaml
\* to validate it and again to decide.  Between the two reads of either file nobody
\* saves another intent, nor moves the package to another state: the code takes no lock
\* that would see to it.
UndisturbedReads ==
  /\ pkg'.content # pkg.content =>
       \A p \in Procs : cmd[p].op = "approve" => pc[p] \notin {"validating", "loading"}
  /\ lin'.state # lin.state =>
       \A p \in Procs : cmd[p].op = "approve" => pc[p] \notin {"loading", "deciding"}

Declared == WellFormed \ Reachless

\* What approve has in hand has passed validation, from the place where it has.  A
\* package that is not under review need not declare its reach, and is not approved.
HoldsValid(p) ==
  /\ pc[p] = "validating" /\ cmd[p].op = "approve" => view[p].content = pkg.content
  /\ pc[p] = "loading" /\ cmd[p].op = "approve" /\ lin.state = "ready_for_review" =>
       pkg.content \in Declared
  /\ pc[p] = "deciding" /\ cmd[p].op = "approve" /\ lin.state = "ready_for_review" =>
       view[p].content \in Declared
  /\ pc[p] = "emitting" => view[p].content \in Declared

ValidInv == ApprovedWasValid /\ \A p \in Procs : HoldsValid(p)

\* Nothing is approved at first and nobody has read anything.
LEMMA InitValid == Init => ValidInv
BY DEF Init, ValidInv, HoldsValid, ApprovedWasValid

\* The log gains what a process at the emit holds.
LEMMA LogValid ==
  ASSUME TypeInv, ValidInv, [Next]_vars
  PROVE  ApprovedWasValid'
<1>1. CASE chain' = chain
  BY <1>1 DEF ValidInv, ApprovedWasValid
<1>2. ASSUME NEW p \in Procs, pc[p] = "emitting", chain' = Append(chain, EntryOf(p))
      PROVE  ApprovedWasValid'
  <2>1. EntryOf(p).hash.content \in WellFormed \ Reachless
    BY <1>2 DEF ValidInv, HoldsValid, Declared, EntryOf, package_hash
  <2>2. /\ Len(chain') = Len(chain) + 1
        /\ \A i \in 1..Len(chain) : chain'[i] = chain[i]
        /\ chain'[Len(chain) + 1] = EntryOf(p)
    BY <1>2, EntryType, AppendKeeps DEF TypeInv, TypeOK
  <2>3. \A i \in 1..Len(chain') : i \in 1..Len(chain) \/ i = Len(chain) + 1
    BY <2>2 DEF TypeInv, TypeOK
  <2> QED BY <2>1, <2>2, <2>3 DEF ValidInv, ApprovedWasValid
<1> QED BY <1>1, <1>2, LogGrows

\* No command changes the intent in package.yaml.
LEMMA CommandsKeepIntent ==
  ASSUME TypeInv, NEW p \in Procs, Command(p)
  PROVE  pkg'.content = pkg.content
<1>1. pkg \in Package
  BY DEF TypeInv, TypeOK
<1>2. CASE SetStatus(p) \/ ReviseBump(p)
  BY <1>1, <1>2 DEF SetStatus, ReviseBump, Package
<1>3. CASE ~SetStatus(p) /\ ~ReviseBump(p)
  BY <1>3
  DEF Command, BeginValidated, Validate, Load, DecideTransition, DecideApproval,
      EmitApproval, EmitFails, WriteLineage, BeginRevise, ReviseLoad, ReviseRehash,
      BeginSupersede, SupersedeLoad, BeginVerify, CheckLedger, CheckChain,
      ReturnVerified, Crash
<1> QED BY <1>2, <1>3

\* The places approve passes on the way to the emit, and what it reads at each.
LEMMA ReadsOnTheWay ==
  ASSUME TypeInv, NEW p \in Procs, Command(p)
  PROVE  /\ pc'[p] = "validating" => view'[p] = pkg
         /\ pc'[p] = "loading" =>
              /\ pc[p] = "validating" /\ cmd'[p] = cmd[p] /\ lin' = lin
              /\ IsValid(view[p], lin)
         /\ pc'[p] = "deciding" =>
              /\ pc[p] = "loading" /\ cmd'[p] = cmd[p] /\ lin' = lin
              /\ view'[p] = pkg
         /\ pc'[p] = "emitting" =>
              /\ pc[p] = "deciding" /\ cmd[p].op = "approve" /\ view'[p] = view[p]
              /\ lin.state = "ready_for_review"
<1> USE DEF TypeInv, TypeOK, Goto, Commit, Mirror, Exit
<1>1. CASE BeginValidated(p)
  BY <1>1 DEF BeginValidated
<1>2. CASE Validate(p)
  BY <1>2 DEF Validate
<1>3. CASE Load(p)
  BY <1>3 DEF Load
<1>4. CASE DecideTransition(p)
  BY <1>4 DEF DecideTransition
<1>5. CASE DecideApproval(p)
  BY <1>5 DEF DecideApproval
<1>6. CASE EmitApproval(p) \/ EmitFails(p)
  BY <1>6 DEF EmitApproval, EmitFails
<1>7. CASE WriteLineage(p) \/ SetStatus(p)
  BY <1>7 DEF WriteLineage, SetStatus
<1>8. CASE BeginRevise(p) \/ ReviseLoad(p) \/ ReviseBump(p) \/ ReviseRehash(p)
  BY <1>8 DEF BeginRevise, ReviseLoad, ReviseBump, ReviseRehash
<1>9. CASE BeginSupersede(p) \/ SupersedeLoad(p)
  BY <1>9 DEF BeginSupersede, SupersedeLoad
<1>10. CASE BeginVerify(p) \/ CheckLedger(p) \/ CheckChain(p) \/ ReturnVerified(p)
  BY <1>10 DEF BeginVerify, CheckLedger, CheckChain, ReturnVerified
<1>11. CASE Crash(p)
  BY <1>11 DEF Crash
<1> QED
  BY <1>1, <1>2, <1>3, <1>4, <1>5, <1>6, <1>7, <1>8, <1>9, <1>10, <1>11 DEF Command

\* Every step that disturbs no approve keeps what each has in hand valid.
LEMMA NextValid == TypeInv /\ ValidInv /\ [Next]_vars /\ [UndisturbedReads]_vars => ValidInv'
<1> SUFFICES ASSUME TypeInv, ValidInv, [Next]_vars, UndisturbedReads \/ UNCHANGED vars
             PROVE  ValidInv'
  OBVIOUS
<1>log. ApprovedWasValid'
  BY LogValid
\* A process that does not move keeps it: the files it will read again are undisturbed.
<1>still. ASSUME NEW q \in Procs, pc'[q] = pc[q], cmd'[q] = cmd[q], view'[q] = view[q],
                 UndisturbedReads
          PROVE  HoldsValid(q)'
  <2>1. /\ pc[q] \in {"validating", "loading"} /\ cmd[q].op = "approve" =>
             pkg'.content = pkg.content
        /\ pc[q] \in {"loading", "deciding"} /\ cmd[q].op = "approve" =>
             lin'.state = lin.state
    BY <1>still DEF UndisturbedReads
  <2> QED BY <1>still, <2>1 DEF ValidInv, HoldsValid
<1>0. CASE UNCHANGED vars
  BY <1>0, <1>log DEF vars, ValidInv, HoldsValid
<1>1. ASSUME NEW p \in Procs, Command(p), UndisturbedReads PROVE ValidInv'
  <2>1. ASSUME NEW q \in Procs, q # p PROVE HoldsValid(q)'
    BY <1>1, <2>1, <1>still, OthersStill
  <2>2. pkg'.content = pkg.content
    BY <1>1, CommandsKeepIntent
  <2>3. pc'[p] = "validating" => view'[p].content = pkg'.content
    BY <1>1, <2>2, ReadsOnTheWay
  <2>4. ASSUME pc'[p] = "loading", cmd'[p].op = "approve", lin'.state = "ready_for_review"
        PROVE  pkg'.content \in Declared
    <3>1. /\ pc[p] = "validating" /\ cmd[p].op = "approve" /\ IsValid(view[p], lin)
          /\ lin.state = "ready_for_review"
      BY <1>1, <2>4, ReadsOnTheWay
    <3>2. view[p].content \in Declared
      BY <3>1 DEF IsValid, StatusMirrors, PRE_APPROVAL_STATES, Declared
    <3> QED BY <2>2, <3>1, <3>2 DEF ValidInv, HoldsValid
  <2>5. ASSUME pc'[p] = "deciding", cmd'[p].op = "approve", lin'.state = "ready_for_review"
        PROVE  view'[p].content \in Declared
    BY <1>1, <2>5, ReadsOnTheWay DEF ValidInv, HoldsValid
  <2>6. pc'[p] = "emitting" => view'[p].content \in Declared
    BY <1>1, ReadsOnTheWay DEF ValidInv, HoldsValid
  <2>7. HoldsValid(p)'
    BY <2>3, <2>4, <2>5, <2>6 DEF HoldsValid
  <2> QED BY <2>1, <2>7, <1>log DEF ValidInv
<1>2. CASE (AuthorEdit \/ ForgeApproval \/ AuthorReplacement) /\ UndisturbedReads
  BY <1>2, <1>still, <1>log DEF AuthorEdit, ForgeApproval, AuthorReplacement, ValidInv
<1> QED BY <1>0, <1>1, <1>2 DEF Next

\* What was approved had passed validation and declared its reach, unless package.yaml
\* was saved, or the package moved, between approve's two reads of the file: other
\* commands, an author's saves before and after, crashes, ledgers written by hand and
\* an unvalidated intent that a racing transition put under review do not matter.
THEOREM ApprovesTheValid ==
  Spec /\ [][UndisturbedReads]_vars => []ApprovedWasValid
<1>1. ValidInv => ApprovedWasValid
  BY DEF ValidInv
<1> QED BY <1>1, InitTypes, NextTypes, InitValid, NextValid, PTL DEF Spec

=============================================================================
