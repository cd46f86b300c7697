------------------------------ MODULE Decompose ------------------------------
(***************************************************************************)
(* `factory decompose` for a dependency update: a registered revision and  *)
(* a checkout in, one proposal out.                                        *)
(*                                                                         *)
(* A run compares the checkout with origin, looks for the pin sites, reads *)
(* the intake, builds the envelope, decides what waits for the coding      *)
(* phase, and executes the rest twice in a clone before it posts.  Each of *)
(* these reads the checkout again, while its owner edits or pulls it and   *)
(* origin moves on.                                                        *)
(***************************************************************************)
EXTENDS Envelope

CONSTANTS
  Runs,          \* processes, with one call each
  Requests,      \* command lines: [revision, package, to, tooling, known, file, submit,
                 \* noExecute, assume]
  Histories,     \* the trees of origin's commits
  Edits,         \* trees of a checkout with changes nobody committed
  RoutingFiles,  \* what routing-policy.toml may hold
  Denied,        \* packages whose name a denied verifier pattern matches
  MaxMoves,      \* bound on pushes to origin and changes of the checkout
  BumpText,      \* for <<package, target version>>, the text that names both in a key
  NoRequest

ASSUME DecomposeAssumption ==
  /\ MaxMoves \in Nat /\ NoRequest \notin Requests
  /\ \A r \in Requests :
       r.file \in {"none", "own", "other"} /\ <<r.package, r.to>> \in DOMAIN BumpText
  /\ Histories \subseteq [1..MaxMoves + 1 -> Trees_] /\ Edits \subseteq Trees_

VARIABLES
  treeOf,    \* the tree of each commit
  main,      \* origin's main
  tracking,  \* the checkout's origin/main
  head,      \* its HEAD
  work,      \* its working tree
  moves,     \* pushes to origin and changes of the checkout so far
  at,        \* where each run is
  request,   \* its command line
  sites, envelope, models,  \* what it found, allows and names
  ran,       \* the commands it executes before it posts
  cloned,    \* the commit it executes them on
  rows,      \* proposals the orchestrator holds
  adrift,    \* proposals whose sender has given up on an answer
  basis,     \* origin's main when the run fetched
  moved      \* the checkout changed since the run compared it

checkout == <<treeOf, main, tracking, head, work, moves>>
findings == <<sites, envelope, models, ran, cloned>>
decompose == <<checkout, at, request, findings, rows, adrift, basis, moved>>

Commits == 1..MaxMoves + 1
Stages == {"idle", "fetching", "comparing", "discovering", "reading", "building",
           "deferring", "proving", "posting", "refused", "written", "submitted",
           "conflict", "unanswered"}
Proposals == [by : Runs, revision : {r.revision : r \in Requests},
              package : {r.package : r \in Requests}, to : {r.to : r \in Requests},
              key : {<<r.revision, BumpText[<<r.package, r.to>>]>> : r \in Requests}]

DecomposeInit ==
  /\ treeOf \in Histories /\ main = 1 /\ tracking = 1 /\ head = 1 /\ work = treeOf[1]
  /\ moves = 0
  /\ at = [p \in Runs |-> "idle"] /\ request = [p \in Runs |-> NoRequest]
  /\ sites = [p \in Runs |-> {}] /\ envelope = sites /\ ran = sites
  /\ models = [p \in Runs |-> NoModels] /\ cloned = [p \in Runs |-> 0]
  /\ rows = {} /\ adrift = {} /\ basis = cloned /\ moved = [p \in Runs |-> FALSE]

-----------------------------------------------------------------------------
(* Origin, and the owner of the checkout. *)

Push ==
  /\ moves < MaxMoves /\ moves' = moves + 1 /\ main' = main + 1
  /\ UNCHANGED <<treeOf, tracking, head, work, at, request, findings, rows, adrift, basis, moved>>

Compared == {"discovering", "reading", "building", "deferring", "proving"}

Changes ==
  /\ moves < MaxMoves /\ moves' = moves + 1
  /\ moved' = [p \in Runs |-> moved[p] \/ at[p] \in Compared]
  /\ UNCHANGED <<treeOf, main, at, request, findings, rows, adrift, basis>>

Pull == Changes /\ head' = main /\ tracking' = main /\ work' = treeOf[main]

EditCheckout == Changes /\ work' \in Edits /\ UNCHANGED <<tracking, head>>

-----------------------------------------------------------------------------
(* A run, up to the proposal. *)

Step(p, from, to) == at[p] = from /\ at' = [at EXCEPT ![p] = to]

\* Any refusal ends the run with nothing posted.
Refuse(p) ==
  /\ at' = [at EXCEPT ![p] = "refused"] /\ request' = [request EXCEPT ![p] = NoRequest]
  /\ sites' = [sites EXCEPT ![p] = {}] /\ envelope' = [envelope EXCEPT ![p] = {}]
  /\ models' = [models EXCEPT ![p] = NoModels]
  /\ ran' = [ran EXCEPT ![p] = {}] /\ cloned' = [cloned EXCEPT ![p] = 0]
  /\ basis' = [basis EXCEPT ![p] = 0] /\ moved' = [moved EXCEPT ![p] = FALSE]

\* A run that executes nothing does not submit, and only such a run may trust its
\* caller about the checkout.
FlagRefusal(r) == (r.noExecute /\ r.submit) \/ (r.assume /\ ~r.noExecute)

BeginDecompose(p) ==
  /\ at[p] = "idle"
  /\ \E r \in Requests :
       \/ /\ ~FlagRefusal(r) /\ request' = [request EXCEPT ![p] = r]
          /\ Step(p, "idle", IF r.assume THEN "discovering" ELSE "fetching")
          /\ UNCHANGED <<findings, basis, moved>>
       \/ FlagRefusal(r) /\ Refuse(p)
  /\ UNCHANGED <<checkout, rows, adrift>>

FetchOrigin(p) ==
  /\ Step(p, "fetching", "comparing")
  /\ tracking' = main /\ basis' = [basis EXCEPT ![p] = main]
  /\ UNCHANGED <<treeOf, main, head, work, moves, request, findings, rows, adrift, moved>>

\* Variant of Compare: changes nobody committed are overlooked.
CompareCommits(p) ==
  /\ at[p] = "comparing"
  /\ \/ head = tracking /\ Step(p, "comparing", "discovering")
        /\ UNCHANGED <<request, findings, basis, moved>>
     \/ head # tracking /\ Refuse(p)
  /\ UNCHANGED <<checkout, rows, adrift>>

\* The checkout is at origin/main, with nothing uncommitted.
Compare(p) ==
  /\ at[p] = "comparing"
  /\ LET current == head = tracking /\ work = treeOf[head] IN
       \/ current /\ Step(p, "comparing", "discovering")
          /\ UNCHANGED <<request, findings, basis, moved>>
       \/ ~current /\ Refuse(p)
  /\ UNCHANGED <<checkout, rows, adrift>>

Discover(p) ==
  /\ at[p] = "discovering"
  /\ LET r == request[p]
         found == IF r.tooling \in ToolingProfiles THEN DiscoverPinSites(work, r.tooling) ELSE {}
     IN \/ /\ found # {} /\ Step(p, "discovering", "reading")
           /\ sites' = [sites EXCEPT ![p] = found]
           /\ UNCHANGED <<request, envelope, models, ran, cloned, basis, moved>>
        \/ found = {} /\ Refuse(p)
  /\ UNCHANGED <<checkout, rows, adrift>>

\* The intake has to be the revision's and to know the criterion.
ReadIntake(p) ==
  /\ Step(p, "reading", "building") /\ request[p].file # "other" /\ request[p].known
  /\ UNCHANGED <<checkout, request, findings, rows, adrift, basis, moved>>

\* The class has to be routed, and no command may be one a bare runner cannot run: each
\* that moves a pin names the package.
Build(p) ==
  LET r == request[p] IN
  /\ at[p] = "building"
  /\ \E raw \in RoutingFiles :
       LET allowed == AllowedCommands(work, r.tooling, sites[p])
           routed == ResolveChangeClass(raw, "dependency-update")
           good == routed # NoModels /\ r.package \notin Denied
       IN \/ /\ good
             /\ Step(p, "building", IF r.noExecute THEN "written" ELSE "deferring")
             /\ envelope' = [envelope EXCEPT ![p] = allowed]
             /\ models' = [models EXCEPT ![p] = routed]
             /\ UNCHANGED <<request, sites, ran, cloned, basis, moved>>
          \/ ~good /\ Refuse(p)
  /\ UNCHANGED <<checkout, rows, adrift>>

\* Variant of Defer: the proposal is posted as it is, without being executed.
DeferUnproven(p) ==
  LET deferred == DeferredToCoding(work, request[p].tooling)
      good == deferred \subseteq envelope[p] /\ envelope[p] # deferred
  IN /\ at[p] = "deferring"
     /\ \/ /\ good /\ Step(p, "deferring", IF request[p].submit THEN "posting" ELSE "written")
           /\ ran' = [ran EXCEPT ![p] = envelope[p] \ deferred]
           /\ UNCHANGED <<request, sites, envelope, models, cloned, basis, moved>>
        \/ ~good /\ Refuse(p)
     /\ UNCHANGED <<checkout, rows, adrift>>

\* What waits for the coding phase has to be in the envelope, and not all of it.
Defer(p) ==
  LET deferred == DeferredToCoding(work, request[p].tooling)
      good == deferred \subseteq envelope[p] /\ envelope[p] # deferred
  IN /\ at[p] = "deferring"
     /\ \/ /\ good /\ Step(p, "deferring", "proving")
           /\ ran' = [ran EXCEPT ![p] = envelope[p] \ deferred]
           /\ UNCHANGED <<request, sites, envelope, models, cloned, basis, moved>>
        \/ ~good /\ Refuse(p)
     /\ UNCHANGED <<checkout, rows, adrift>>

\* Twice in a clone of what is committed: nothing fails, something changes, nothing
\* changes further, and each pin site's file is among what changed.
Proves(tree, commands, tooling, found) ==
  /\ commands \cap tree.fails = {} /\ tree.touches # {} /\ tree.stable
  /\ \A s \in found : Manifest(tooling, s) \in tree.touches

DryRun(p) ==
  LET good == Proves(treeOf[head], ran[p], request[p].tooling, sites[p]) IN
  /\ at[p] = "proving"
  /\ \/ /\ good
        /\ Step(p, "proving", IF request[p].submit THEN "posting" ELSE "written")
        /\ cloned' = [cloned EXCEPT ![p] = head]
        /\ UNCHANGED <<request, sites, envelope, models, ran, basis, moved>>
     \/ ~good /\ Refuse(p)
  /\ UNCHANGED <<checkout, rows, adrift>>

\* The fetch, the intake, the conformance scan, the brains or the clone fail.
StepFails(p) ==
  /\ at[p] \in {"fetching", "reading", "proving"} /\ Refuse(p)
  /\ UNCHANGED <<checkout, rows, adrift>>

-----------------------------------------------------------------------------
(* The proposal at the orchestrator. *)

\* Variant of IdempotencyKey: it names the bump and not the revision that proposes it.
KeyOfBump(r) == <<"any revision", BumpText[<<r.package, r.to>>]>>

\* Package and target version are joined to one text and `/` in it is replaced by `-`:
\* two bumps of one revision may have the same text, and then the same key.
IdempotencyKey(r) == <<r.revision, BumpText[<<r.package, r.to>>]>>

Proposal(p) ==
  [by |-> p, key |-> IdempotencyKey(request[p]), revision |-> request[p].revision,
   package |-> request[p].package, to |-> request[p].to]

Taken_(proposal) == \E row \in rows : row.key = proposal.key

SameOperation(proposal, row) ==
  /\ proposal.key = row.key /\ proposal.revision = row.revision
  /\ proposal.package = row.package /\ proposal.to = row.to

\* A key that is taken is refused, or, where the same operation has taken it, answered
\* with what it made.  Which of the two a retry meets is the orchestrator's affair: every
\* run stamps its payload with the time it resolved it, so that none equals another.
ActOnProposal(p) ==
  /\ at[p] = "posting"
  /\ \/ /\ ~Taken_(Proposal(p)) /\ Step(p, "posting", "submitted")
        /\ rows' = rows \cup {Proposal(p)} /\ UNCHANGED <<request, findings, basis, moved>>
     \/ /\ \E row \in rows : SameOperation(Proposal(p), row)
        /\ Step(p, "posting", "submitted")
        /\ UNCHANGED <<request, findings, rows, basis, moved>>
     \/ /\ Taken_(Proposal(p)) /\ Step(p, "posting", "conflict")
        /\ UNCHANGED <<request, findings, rows, basis, moved>>
     \/ Refuse(p) /\ UNCHANGED rows
  /\ UNCHANGED <<checkout, adrift>>

\* No answer: the request is lost, or acted on whenever the orchestrator gets to it.
PostTimesOut(p) ==
  /\ Step(p, "posting", "unanswered")
  /\ \/ adrift' = adrift \cup {Proposal(p)}
     \/ UNCHANGED adrift
  /\ UNCHANGED <<checkout, request, findings, rows, basis, moved>>

ActLate ==
  /\ \E proposal \in adrift :
       /\ adrift' = adrift \ {proposal}
       /\ \/ ~Taken_(proposal) /\ rows' = rows \cup {proposal}
          \/ Taken_(proposal) /\ UNCHANGED rows
  /\ UNCHANGED <<checkout, at, request, findings, basis, moved>>

DecomposeNext ==
  \/ Push \/ Pull \/ EditCheckout \/ ActLate
  \/ \E p \in Runs :
       \/ BeginDecompose(p) \/ FetchOrigin(p) \/ Compare(p) \/ Discover(p) \/ ReadIntake(p)
       \/ Build(p) \/ Defer(p) \/ DryRun(p) \/ StepFails(p)
       \/ ActOnProposal(p) \/ PostTimesOut(p)

=============================================================================
