# Formal model of intent-packages

`intent_packages` keeps *intent packages*: directories with a hand-authored `package.yaml` (what is
wanted) and a `lineage.yaml` (the state of record, the recorded hash of every revision, the ledger of
approvals). A command line validates them and moves them through a lifecycle; the approval of a
revision is also an event of an external tamper-evident log. A second command line, `factory`, scaffolds
packages, stages approved ones at an orchestrator, and readies, dispatches and verifies the work units the
orchestrator makes of them. Source paths below are relative to `src/src/intent_packages/`.

This directory holds TLA+ modules of that program, TLC configurations that check them on small
instances, and TLAPS proofs of the properties that matter most. `PROJECT.json` lists which lines each
definition translates, which run checks what, the code changes each property is known to catch, the
hazards and the theorems.

## Inventory

| Component | State | Operations | What is hard | What makes it correct |
|---|---|---|---|---|
| lifecycle (`lifecycle.py`) | none | the legal edges | — | the other components move along the edges only |
| operations (`operations.py`) | reads and writes the two files; reads the log | transition, approve, revise, supersede, verify-approval | no lock: every command is a process that reads and writes files one at a time, may die between any two accesses, may run beside another command and beside an editor; validation reads package.yaml once and the operation reads it again | an approval is audited before it is recorded, an approved revision is immutable, work advances only on the approved intent, the gate fails closed |
| package store (`loader.py`, `lineage.py`, `canonical.py`) | the two files | load, write, hash | whole-file writes from a copy read earlier | the hash covers the intent and the revision, not the status |
| validation (`validate.py`, `checks_semantic.py`, `schema.py`, `profiles/`) | none | the checks of one package | cross-file checks of files read at different moments | refuses drift, a torn status, an approval of an unrecorded hash, a pre-approval package without `reach` |
| audit log client (`emitter.py`, `registry.py`) | the external log | emit an event, recognise an approver | a subprocess that may time out after the event is in the log | only approve's emit is fatal |
| approval policy (`approval_policy.py`, `members.py`) | none (two TOML files) | which approver string a profile is granted, what the policy objects to | fail-closed in every odd shape of input | a policy approves only the exact shape it describes |
| scaffolds (`factory/scaffolds.py`, `layout.py`) | a new package directory | create, create-standing, create-rotation, create from readiness | look and move are two steps on a directory others write to; across file systems the move is a copy that a kill leaves half done | nothing invalid is written, nothing is overwritten, who reports success has written |
| dispatch (`factory/execution.py`, `factory/reads.py`, `factory/api.py`) | the orchestrator's unit, its dispatch history, workflow runs | ready, dispatch | several requests over data that moves in between; timeouts of requests that were acted on; irreversible effect | a unit is dispatched once per readiness, reported outcomes are true |
| verification (`factory/verify.py`) | the unit's evidence and state | verify | two writes after several reads, one version for both | evidence binds to the dispatch and the head it is about |
| front door (`factory/journey.py`, `links.py`, `orchestrator_cli.py`) | the staged-intake rows | submit, status (with `--wait`), evidence | replays of an idempotency key; a subprocess that reads the files again; polling | nothing is registered without a person; an approved revision is staged once |
| decomposition (`factory/decompose.py`, `validations.py`, `brains.py`) | none beyond one call | propose a dependency update for a revision | the checkout is read half a dozen times while its owner works in it; a proposal that is lost or late | what is proposed was executed in a clone before, and is proposed once |
| credentials (`factory/credentials.py`) | none | a token per role | — | a role never falls back to another role's token |
| routing policy (`routing.py`, `destination_format.py`) | none | load `routing-policy.toml` | — | a malformed document is an error, not an empty policy |

Interactions: the operations call the store, the validation, the policy and the log; `submit` reads what
the operations wrote and hands it to the orchestrator's own client, which calls `verify-approval`;
dispatch, verification, status and decomposition talk to the orchestrator over HTTP and share nothing between
runs but what the orchestrator answers. A scaffold makes the package the policy is asked about; the revision
that submit has registered is what decomposition proposes units for.

## Plan

In this order; each module carries its type invariant, the properties of its hazards, and a run.

1. **IntentPackage** over **Lifecycle**, implementing **ApprovalGate**: written, checked, proved.
2. **Dispatch**: `ready` and `dispatch` as request/answer steps against the orchestrator's unit, with lost,
   failed and late requests: written, checked, proved.
3. **Verify**: the reads and the two writes of `verify` beside the worker: written, checked, proved.
4. **FrontDoor**: `submit`, staging rows, confirmation by a person, `status --wait`, `evidence`: written, checked,
   proved.
5. **Scaffold** over **PackageDocument**: creators of one package directory: written, checked, proved.
6. **ApprovalPolicy**: `load_policy`, the member record and every objection, over values of any kind: written,
   checked against a reference definition inside `approve`, which reads them while they change; the objections
   are proved to be that definition, the loader is only checked.
7. **Decompose** over **Envelope**: the reads of the checkout, the proof and the proposal: written, checked,
   proved. 5, 6 and 7 are composed in **Lane**.

Left: that the loaders take sound documents only, for every document (hypotheses of two theorems, checked on the
instance of `lane`); the abstract specifications of Dispatch and FrontDoor as refinements; the text checks of
the profiles other than dependency-update.

## Modules

* `Lifecycle` - states and edges, verbatim.
* `IntentPackage` - the two files (`pkg`, `lin`), the log (`chain`: its `package.approved` events), and for each
  process its place (`pc`), command line (`cmd`), the package.yaml it read (`view`) and the lineage.yaml it is
  about to write (`copy`). One action per file or log access:
  `BeginValidated`/`Validate` are `validate_package`'s two reads; `Load` the second read of package.yaml;
  `DecideTransition` and `DecideApproval` the read of lineage.yaml with every refusal after it;
  `EmitApproval`/`EmitFails` the fatal emit (which may time out after the log has the event);
  `WriteLineage` and `SetStatus` the two writes every command ends with; `BeginRevise`, `ReviseLoad`,
  `ReviseBump`, `ReviseRehash` and `BeginSupersede`, `SupersedeLoad` the two operations that do not validate;
  `BeginVerify`, `CheckLedger`, `CheckChain`, `ReturnVerified` the gate. `Crash` kills a command anywhere;
  `AuthorEdit`, `ForgeApproval` and `AuthorReplacement` are people with an editor.
  The operators whose comment begins "Variant of" are the plausible bugs the properties are tested against.
* `ApprovalGate` - what approval promises, without files or processes: hashes are approved one at a time, for
  good, only such as somebody may approve; the gate lets through approved hashes only.
* `IntentPackageProperties` - the properties and the refinement mapping (`audited` is the set of hashes in the
  log, `open` the hashes of the processes about to answer yes with the chain consulted).
* `MCIntentPackage` - constants for TLC.
* `IntentPackageProofs` (types), `ApprovalProofs` (what holds for any interleaving), `SequentialProofs` (what one
  operator at a time can rely on) - the proofs.

* `Dispatch` - one work unit of the orchestrator (`state`, `version`, its dispatch `records`, the runs `fired`
  since it last became ready) and one operator's calls, one action per request or answer. `Begin`, `Resolve`
  (the key to the unit) and `ReadFails` are common to both verbs. dispatch: `LookForDispatch` reads the version,
  `Scan` the history, `ActOnDispatch` or `Replay` is the orchestrator's handling of the POST, `Report` the four
  ways `_report_dispatch_outcome` reads its answer, `TimeOut` and `Reconcile` the inconclusive answer and the
  second read of the history. ready: `LookForReady` ends the call for a unit that is ready already; `ActOnProbe`
  and `ProbeAnswered` are the write at version 0 that finds the version out of its conflict (api.py:247-263),
  `ActOnCommand` and `CommandAnswered` the write proper, with the same key; a timeout of either, or an answer
  that is not the orchestrator's, is only reported (`ReadyTimesOut`). `BecomeReady`, `Claim`, `Requeue` and
  `Finish` are the orchestrator's and its workers' own steps.
* `DispatchProperties` - what the verdicts say against what was done; `MCDispatch` - constants for TLC;
  `DispatchProofs` - the proofs.

* `Verify` - one work unit from dispatch to evaluation (`head` and `armed` head of its pull request, the dispatches
  `fired`, the accepted `evidence`) and the calls of `verify`, one action per request or answer: `CheckCriterion`
  (the `--ac` pre-check), `Resolve`, `ReadHistory` (the last dispatch that started a run), `Look` (the in-flight row
  with its refusals, and `Derive`, the body), `ActOnAttest`/`AttestAnswered` the first write, `ActOnEvaluate`/`Report`
  the second and the exit code, `TimeOut` a missing answer to either, after which the write may still be acted on
  (`ActLate`). `Push`, `Submit`, `Proceed` and `RecordDispatch` are the worker, the orchestrator and people.
  `Objections` and `Evaluate` are what the docstrings of verify.py say the orchestrator demands of evidence, and which
  results an evaluation has; whether a check succeeded is left open, so every evaluation may also fail.
* `VerifyProperties`, `MCVerify`, `VerifyProofs` - the properties, the constants for TLC, the proofs.

The dispatch id is read from the history and the head from the row, in this order, in two requests. A dispatch
between the two yields evidence for the new head that names the old dispatch; nothing the docstrings say of the
orchestrator's checks refuses it. `lapsed` notes that a dispatch came there, and `EvidenceNamesItsDispatch` states
what holds with and without it. The other order would be safe: the version of an older row is out of date.

The orchestrator is no part of this repository. It is modelled from what the code relies on: a version that every
change bumps and every write names, a history that holds one record for each dispatch it acted on, with one of
four outcomes of which one starts a run, and a key it applies once. `acted` is what it did for the call in
progress: no step of the client reads it. Two things go on behind the client's back, and `strays` counts
them: a dispatch that is acted on after its caller has given up (`ActLate`), and an error put in the place of an
answer by something in between (`GatewayAnswers`). The properties that do not survive a stray say so. The operator
is part of the system, since the program keeps no memory between calls: `mayDispatch` is false after a verdict
whose text tells him not to repeat (success, landed, unknown), until the unit is up for dispatch again or he has
looked and found no run of this readiness (`LookAgain`).

* `FrontDoor` - the package as submit sees it (`content` with its number, `approved` for both status fields,
  `approvals` for what the lineage names, the `commit`), the orchestrator's staged intakes (`rows`, by key), the
  revision's `units`, and one operator's calls. submit: `ReadPackage` (both statuses, the key), `Emit` (the
  subprocess that reads the files *again*), `HandOff` for `--print`,
  `ActOnStage`/`StageAnswered`/`StageTimesOut` for the post, which `ActLate` may still act on. status:
  `LookAtUnits`, `Show`, `Poll` until something differs or the deadline. evidence: `ResolveUnit`, `Fetch`.
  `Edit`, `Approve`, `MoveOn`, `CommitFiles` are authors and the other command line; `Decide` and `Paste` the
  person at the form; `Propose`, `Authorize`, `Progress` what moves units. `raced` marks a payload whose package
  changed between submit's two reads; `moved` and `movedAfter` are the units that changed since the first and
  the last read of a status. What status prints for a unit is an `Advice`: the step, and the flags of the
  command where there is one; `Required` and `Optional` are the flags of the parsers of `factory`.
* `FrontDoorProperties`, `MCFrontDoor`, `FrontDoorProofs` - the properties, the constants for TLC, the proofs.

* `PackageDocument` - values as TOML and YAML hand them over, tagged with their kind, so that a check can meet a
  boolean where it wants a number; the fields of a package a policy looks at, and `ValidPackage`, what validation asks
  of these. `ApprovalPolicy` - `Loads`, `LoadPolicy`, `GrantedTargets` and `Refuses`, for all three versions of the
  policy document. `Envelope` - pin sites, the commands of each tooling, what waits for the coding phase, and the
  routing document. All three are pure.
* `Scaffold` - what the four creating verbs render (`Commands`: the command lines, each with the package it
  makes), what is in each package directory (`places`: whose files, whether all of them, who moved a directory inside)
  and each creator's call: `Begin` looks and stages, `LookAtTarget` is the look of `shutil.move`, `MoveStaged` the
  rename or the first file of a copy, `FinishCopy` the rest of it, `Die` a kill.
* `Decompose` - origin (`main`, the tree of each commit), the checkout (`tracking`, `head`, `work`), each run's
  place and findings, and the orchestrator's proposals. One action per access of the checkout: `FetchOrigin`,
  `Compare`, `Discover`, `Build`, `Defer`, `DryRun`; `Push`, `Pull` and `EditCheckout` come in between;
  `ActOnProposal`, `PostTimesOut`, `ActLate` are the post. A key is a revision and the text of a bump
  (`BumpText`: package and target version, the same text where only `/` and `-` differ); a key that is taken
  answers with a conflict, or, to the same operation, as it did the first time. `basis` and `moved` are history:
  origin's main at the fetch, and whether the checkout changed since it was compared.
* `Lane` - the composition: creating, approving by policy and proposing. approve's accesses up to its decision
  (`BeginApprove`, `Validate`, `Load`, `Consult`; the rest of it is in `IntentPackage`) run beside
  `EditPackage`, `ReplacePolicy` and `ChangeRecord`. The parts share a package in place and a registered
  revision only, so a behaviour shows one of them (`part`); an approval starts from any package a creator may
  leave.
* `LaneProperties` - the properties; `Conforms` says what a policy grants without going through the loader or
  through `Refuses`. `MCLane` - an instance: some seventy policy documents, each sound or wrong in one place, about
  fifty one-field edits of a package, seven member records, eight routing documents, trees of each tooling.
  `LaneProofs` - the proofs about creators and runs; `PolicyProofs` - those about the policy.

Abstractions of the core. A hash is the pair it is computed from, so distinct intents have distinct hashes
(SHA-256 is taken to be injective). The contents of package.yaml are model values, sorted by what the code asks
about them: well-formed on their own, without `reach`, with open questions, with a required follow-up, inside
the approval policy. One file access is one step; the line edits of `set_status_in_file` and
`set_revision_in_file` read and write in one step. Events other than `package.approved` are left out: their
emit is best-effort and nothing reads them. So are timestamps, actors and the list of past transitions, which
only check L reads and to which each command appends the edge it took.

## Runs

| Run | Instance | Shows |
|---|---|---|
| `sequential` | 1 process, 5 intents (one of each kind), a human, a policy and an agent, all states but `approved` and `superseded` as transition targets, 2 revisions, 2 approval events, 1 crash | with commands one at a time, every crash point and every order of commands keeps the ledger in step with the recorded hashes, approved revisions immutable, work on the approved intent, the lifecycle's edges, the follow-up rule, the status mirror, and a package with torn files where it is |
| `concurrent` | 2 symmetric processes, 2 intents, edits at any moment, 2 revisions, 1 event | what survives any interleaving: no unaudited approval, never past review without an approval; and that the package implements `ApprovalGate`, its sound gate included |
| `forged` | 1 process, ledger entries written by hand for a policy and for an agent, edits during commands, 1 crash | the chain check keeps the gate sound against the ledger, and the package still implements `ApprovalGate` |
| `approved_by_transition` | transition to any state | divergence 1 below |
| `retry_after_crash` | 1 crash | divergence 2 |
| `lost_approval` | 2 processes | divergence 3 |
| `dispatch` | versions to 5, 3 dispatch records, 1 stray | any sequence of ready and dispatch calls beside the orchestrator: one run per readiness, true verdicts, a `ready` that is not refused for its own probe, every call ends |
| `late_dispatch` | the same | divergence 4 |
| `verify` | versions to 7, 2 dispatches, 2 heads, criteria mapped to the unit, to another, and for a person | any sequence of verify calls beside the worker: evidence belongs to the submission that is evaluated, writes are refused only for what changed after the reads, the exit code is that of the evaluation, every call ends |
| `front_door` | 1 edit or commit, 1 override key, 2 units under one key, 4 unit states, 2 polls | any sequence of submit, status and evidence calls beside authors, people and the orchestrator: one row per revision, only what was approved is staged, what is said of rows and units is true, every call ends |
| `stale_command` | 1 unit, 1 poll | divergence 5 |
| `lane` | 2 creators of one directory; 1 change by people during an approval, about 70 policy documents; 2 decompositions of 2 revisions, of two packages whose names differ in `/` and `-` and of one package to two versions, 2 pushes or changes of the checkout | what is in place is whole, a policy approves exactly what it grants, what is proposed was proven, one proposal per revision and bump, conflicts over bumps of the own revision only |

Bounds. Two revisions are the fewest with a superseded approval beside a current one; two events let one
approval be logged twice, or two revisions be approved; one crash reaches every torn pair of files, and the
commands that run after it see it; two processes are the fewest that overwrite each other, and each race below
needs no third. `sequential` excludes the two transition targets that have commands of their own because the
code lets `transition` go around those commands (divergence 1). Properties that begin "One operator at a time"
are checked there only: without a lock they do not hold for overlapping commands, and nothing in the code claims
otherwise. Version 5 is enough for a unit to become ready, be claimed, be requeued and be claimed once more from
either starting version; three records let a second readiness meet the records of the first with one more
outcome in between, and one stray is the fewest that breaks what it can break. `Dispatch` assumes weak fairness
of the steps of a call in progress: every request carries a timeout (`TIMEOUT_SECONDS`, api.py), so it is
answered or fails, and the code waits for nothing else. Nothing is assumed of the operator, who need not call,
or of the orchestrator, which need not act. Seven changes of state submit and evaluate a unit twice; two
dispatches and two heads tell the cycles apart. `Verify` assumes the same fairness as `Dispatch` for the same
reason. No fairness is assumed in the core: its properties are safety properties, since every command is free to
die and nothing in the program restarts it. In `front_door` one edit tells the emitted content or commit from
the one submit read, and a second unit under the same key tells ids from keys; two polls are a wait that sees
nothing and then either something or its deadline. Its fairness is that of `Dispatch`; a wait sleeps for a fixed
time and looks at a deadline set once (journey.py:450), which `MaxPolls` stands for, and the person at the form,
the authors and the orchestrator need not act. In `lane` every race needs two creators or two runs; one change
by people reaches each window between two reads of an approval, and one wrong place in a document shows which
check refuses it; two pushes or changes are the fewest for a checkout that is current, falls behind and is
pulled. No fairness is assumed there. Deadlock is checked in every run but `lane`, where each creator and each
run has one call and the rest may stop.

## Divergences between documents and code

1. `transition --to approved` is an ordinary edge (operations.py:145): a package gets approved, and executable,
   without an approver, an event or a ledger entry; the schema document says an unapproved revision "must be
   re-approved to advance".
2. `approve` cannot be retried after a crash between its two writes: it validates first (operations.py:251) and
   check S refuses the torn status its docstring says the retry completes.
3. `revise` deletes a concurrent approval (operations.py:329 and 358), which its docstring says never happens.
4. A timed-out dispatch that is still on its way may be acted on after the one re-read of the history, by which
   time execution.py:255 has said that "nothing was dispatched and re-running this command is safe".
5. For a `submitted` unit, status prints a verify command with `--conclusion`, `--run-id`, `--run-url` and
   `--assert` (journey.py:293) that the parser (factory_cli.py:134-179) does not take, and without
   `--expected-conclusion`, which it requires; journey.py:345 says "a real command where one exists".

Met while modelling and not given a run of their own: `transition --to superseded` skips the check that the
replacement exists and points back; a retried approve after a crash logs the event a second time, where the
schema document promises no double emit; `verify-approval` refuses an approval that is logged but not in the
ledger (operations.py:575), on which the schema document is of two minds: its section 8 says this torn state
verifies, its section 4.4 asks for both; transition emits before it writes lineage.yaml, where that document
says lineage first; check L calls revisions monotonic and checks only that they are distinct; a stale revise may
write a lower revision's state over a later one; after a timeout any new record counts as a dispatch that
landed, also one whose outcome is skipped, blocked or failed; the comment at execution.py:65-67 says every error
code but the inconclusive one carries the server's verdict, which an error of a gateway does not.

submit: where the package is revised and approved again between submit's read and the emission, the row under
one revision's key holds the next revision, so the replay promised at journey.py:85-87 becomes a conflict for
one and a second row for the other; `OneRowPerRevision` excludes such payloads (`raced`).

create: the second of two creators moves its staged directory into the first one's and reports success, and
across file systems the move is not the single step scaffolds.py:12-18 describes; `InPlaceIsWhole` says what is
left.

Four races the code leaves open are in the model, and no property says they cannot happen: transition puts under
review an intent that was saved after it validated another, approve hashes an intent saved after it validated
another, two transitions that overlap make the state jump along an edge that is none, and what a revise leaves
between the two reads of submit is staged. The properties that come near them name the exception
(`UndisturbedReads`, "one operator at a time", `revised` and `raced`), and so does `moved` in
`SubmittedWasProven`.

approve by policy validates one read of a package and consults on a second: a version that an author blanks in
between draws no objection, since `_bump_refusal` (approval_policy.py:393-395) asks for two distinct strings, so
that is what `Conforms` says. create-standing raises on a reach of the wrong kind outside its own error
handling; the docstring of `_bump_refusal` says an unfilled shell has one placeholder for both versions, but
they differ, and only `standing: false` refuses it. A package may declare a lower budget than its grant, but the
envelope is stamped with the profile's.

decompose: the key of a proposal leaves out the criterion, the unit key and the target repository, and "/" and
"-" meet in it, so a run may be told of a conflict over its own revision's bump of another package, or to
another version, that is written the same (`ConflictIsOwn` says that it is never over another revision's); a
repeated run carries a new time stamp in its payload, and whether the orchestrator takes it for a repetition or
for a conflict is not in this repository, so the model allows both; the package and versions on the command line
are compared with nothing in the revision; the proof compares files, so a site that moves beside another in the
same file is not seen; a dependency named like a denied verifier can never be proposed.

## Proved

With TLAPS, for every value of the constants that satisfies the assumptions in `IntentPackage` (any number
of processes, intents, approvers, revisions, events and crashes):

* `TypeCorrect`: `Spec => []TypeOK`. The invariant `TypeInv` adds to `TypeOK` that a process in the middle of a
  command holds a command of the right kind (`RunningOK`): without it the event an emit logs, and the revision a
  revise computes, would have no type.
* `ApprovalsAudited`: `Spec => []NoUnauditedApproval`. The ledger is written from copies, so the invariant
  `AuditInv` says of every process's copy what the property says of the file: each entry is logged or forged.
  The log and the set of forged entries only grow, which carries the copies across the steps of the others.
* `GateIsSound` and `PackageImplementsGate`: `GateInv` adds that every event in the log is proper, that a
  process about to emit passed approve's refusals for the intent in its memory, and that a process that passed
  the chain check read an intent the log names. The refinement maps an emit to `Approve`, the arrival at and
  the departure from `verified` to `Admit`, and every other step to a stutter.
* `ApprovesTheValid`: what approve logs is valid and declares its reach, for any interleaving in which nobody saves
  another intent, or moves the package, between approve's two reads of the same file (`UndisturbedReads`). Saves at
  any other moment, forged ledgers, overlapping commands and any `--to` are allowed. `ValidInv` follows the intent
  from place to place (`HoldsValid`). It is conditional on the state under review, because approve in another state
  validates packages that need not declare a reach and then refuses them. The hypothesis is needed: a save
  between the two reads of package.yaml is approved unvalidated.
* `PastReviewIsApproved`: as long as `approved` is not passed to `transition`, no interleaving of stale reads,
  crashes and edits takes a package past review without a logged or forged approval (`ReviewInv`: a copy with a
  state behind approval implies a logged or forged approval).

In `SequentialProofs`, under `OneAtATime` (commands overlap neither each other nor an author's save, nobody
writes the ledger by hand, `approved` and `superseded` are not passed to `transition`; crashes anywhere, and any
edits between commands, are allowed): `ApprovalIsLedgered`, `LedgerAgrees`, `StatusFollows`, and as action
properties `AdvancesWhatWasApproved`, `MovesLegally`, `TornPackageStaysPut`, `FollowUpIsHonoured` and
`ApprovedIsImmutable`. None of them holds without the hypothesis: the code has no lock (divergence 3), and the
two targets go around approve and supersede (divergence 1). All rest on `SequentialInv`:

* `Agrees` - a lineage that agrees with itself and with the revision of package.yaml: each recorded hash is that of
  its revision, none is newer than package.yaml, approvals name recorded hashes, and before the decision no approved
  revision is still the one under review. The last part is what keeps a second review from replacing an approved
  hash, and what makes the ledger consistent after a crash between revise's two writes.
* `InStep` - what a process remembers is what is in the files, since nobody else writes them meanwhile; this is what
  makes a decision on a read of lineage.yaml still right when it is written, and what check S found of the two status
  fields still so.
* `MayReplace` - a lineage about to be written may replace the one that is there: what the five action properties
  ask of the write, known already when the command decides, and carried through the emit to the write.
* `Mirrored` - without a crash, the two status fields agree except between the two writes of a command.

* In `DispatchProofs`, for every bound on versions, records and strays: `TypeCorrect`, from `TypeInv`, which
  adds where a verb may be and which answers its last write can have (`CallOK`). `OneRun`, `SuccessIsTrue`,
  `VerdictsAreTrue` and `LandedIsTrue` rest on `TruthInv`: while nothing strayed, a call past its scan either
  was not acted on, and the history is what it read, or was, and the history is what it read and its own record
  (`CallTruth`); and a run of the present readiness is known to the operator or to the call that is about to
  tell him (`RunKnown`). No one of these properties is inductive alone: what makes a re-read of the history
  conclusive is that the first read was of the whole of it. `ReadyIsTrue` and `ReadyLeavesNoDraft` need no such
  condition: `ReadyInv` says that once the key is applied every later write of the same call is answered with
  success.
* In `VerifyProofs`, for all criteria, mappings and bounds: `TypeCorrect`, `ExitIsTrue`, `EvidenceBinds`,
  `NoWriteIsWasted` and `EvaluatedWithEvidence` (an action property), all from one invariant `Inv`. Its core is
  `Fits`: a body, in the call or adrift, names a fired dispatch and a version not ahead of the unit's, and as
  long as the versions agree the unit is submitted, armed at the body's head, on the body's dispatch. Every
  change of state bumps the version, so a step either keeps that or makes the body too old to be acted on; this
  is why one version serves both writes.
* In `FrontDoorProofs`, for any numbers of edits, commits, keys, units and polls: `TypeCorrect`, from `TypeInv`,
  which adds to the types what a call at each place holds (`Running`: who posts has a key and an emitted
  payload, who waits has polls left). `OneRowEach`, `StagesTheApproved` and `TellsTheTruth` (the last two action
  properties) come from `IntakeInv`: every payload under a derived key, in a row, in a late request or in the
  call, is of the content the key is derived from unless it was raced (`RowsFit`, `AdriftFits`, `PostFits`,
  `KeyIsNamed`), the payload is what the call read unless the package changed between (`ReadAsIs`), and an
  answer that has not been read yet is so of the row (`AnswersHold`). A row under a derived key says nothing of
  the next row by itself: late requests are why the invariant has to speak of payloads that are in no row yet.
  `StatusTellsTheTruth` comes from `UnitsInv`: what was seen of a unit is so of every unit that did not move
  since that read, with two facts about the operators - a wait tells two reads apart exactly when a unit's state
  differs (`StatesCompared`), and the step named for a row is the one its state is up for, with a command that
  the parsers take wherever one is printed, but for verify's (`OfferServes`; divergence 5).
* In `LaneProofs`, for any number of creators, runs, package names, requests and histories: `CreatedIsWhole`, from
  `CreatorInv`, which adds what a creator is about to do: one that is not at its move has nothing in place, one that
  copies has its files in the one directory it names, at the top or inside according to what it saw, and the
  directory it moves into stays there. `InPlaceIsWhole` is not inductive without that, as a second creator's
  files would have no owner. `ProposedOnce`, from `ProposalInv`: every row, and every proposal still
  adrift, is its run's and under the key of its revision and bump, a key is taken once, and a run that is told it is
  submitted has a row of its bump (`IsOwn`). `BumpText` may be any function, so that nothing rests on different bumps
  being written differently. `PostedIsProven`, from
  `RunInv`: what a run has gathered at each stage belongs together (`Gathered`: flags, sites, envelope, proof), and
  as long as the checkout has not moved it is all of the commit the run compared (`Current`). It assumes of the
  constants that the routing files route to sound models (`RoutesAreSound`), which TLC evaluates on the eight files of
  its instance when it checks the property. `LaneTyped` adds what an approval and a creator hold at each stage.
* In `PolicyProofs`, for any documents, packages and member records: `ApprovesWhatIsGranted`, the action property
  `PolicyDecides`. `ObjectsToTheRest` is its core, one lemma for each bound: the code's objections, read off the
  loaded policy, are absent exactly where the package is within the words of the grant. The longest of them is
  that two lists with equal counts of each term are permutations of each other, in both directions
  (`PermutationCounts`, `CountsPermute`). It assumes that the loader takes exactly the sound documents
  (`LoadsTheSound`), which the run checks on its seventy, and of the constants that values are tagged by their kind.

The other assumptions are `ASSUME`s of the modules, which TLC evaluates in the runs: constants have their types,
a value for "nothing" is none of the others, and only dependency updates are granted, as in the shipped
approval-policy.toml.

Model-checked only: `Terminates` of `dispatch`, `verify` and `front_door`, and what the violation runs refute. Out of
this prover's reach, and so left to TLC where they occur: liveness under fairness, `ENABLED`, induction over data (so
also what the loaders make of nested documents), and `RECURSIVE` operators (none is used in the modules with proofs).

## Not modelled

YAML strictness and JSON canonicalization; the fields of a package no policy looks at, their formats and the
text checks of the other profiles (inside the set `WellFormed` of the core); software-delivery's map of
superseded tags; the safety of a package name inside a shell command; argument parsing and printing, `factory
onboard` and `factory route`, which hand on or print; `credentials.py`, one look-up of an environment variable
for each role, whose failure is a failing request here; `destination_format.py`, one pattern; the standards
`brains.py` attaches to a proposal, whose failure is `StepFails`; the program `factory_events` and the agent
registry (external); the orchestrator's side beyond what the client relies on; the packages and scripts kept in
the repository. `PROJECT.json` lists the components with what is left out of each.
