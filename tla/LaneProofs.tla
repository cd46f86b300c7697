------------------------------ MODULE LaneProofs ------------------------------
(***************************************************************************)
(* Whose files are in a package directory, and which proposals an          *)
(* orchestrator holds, proved for every value of the constants of Lane.    *)
(***************************************************************************)
EXTENDS LaneProperties, TLAPS

-----------------------------------------------------------------------------
(* Proposals. *)

\* A row is under the key of its revision and bump, its run has posted it and still has
\* its request; a proposal adrift is its run's, whose answer nobody waits for.
Sent(proposal) ==
  /\ proposal.key = <<proposal.revision, BumpText[<<proposal.package, proposal.to>>]>>
  /\ proposal.by \in Runs

\* The row is of what a run with command line `r` proposes.
IsOwn(row, r) == row.revision = r.revision /\ row.package = r.package /\ row.to = r.to

\* ConflictIsOwn says which rows there are; that they stay so needs what is adrift and
\* that a key is taken once.
ProposalInv ==
  /\ at \in [Runs -> Stages] /\ DOMAIN request = Runs
  /\ \A row \in rows : Sent(row) /\ at[row.by] \in {"submitted", "unanswered"}
  /\ \A proposal \in adrift : Sent(proposal) /\ at[proposal.by] = "unanswered"
  /\ \A row, other \in rows : row.key = other.key => row = other
  /\ \A p \in Runs : at[p] = "conflict" => \E row \in rows : row.key = IdempotencyKey(request[p])
  /\ \A p \in Runs : at[p] = "submitted" => \E row \in rows : IsOwn(row, request[p])

LEMMA InitProposals == Init => ProposalInv
BY DEF Init, DecomposeInit, ProposalInv, Stages

\* A run that has not posted yet moves on without anything being sent.
LEMMA StepBeforePost ==
  ASSUME ProposalInv, NEW p \in Runs,
         at[p] \notin {"submitted", "unanswered", "conflict"},
         NEW s \in Stages \ {"conflict", "submitted"},
         at' = [at EXCEPT ![p] = s],
         request' = request \/ \E r : request' = [request EXCEPT ![p] = r],
         UNCHANGED <<rows, adrift>>
  PROVE  ProposalInv'
<1>1. \A q \in Runs : q # p => at'[q] = at[q] /\ request'[q] = request[q]
  BY DEF ProposalInv
<1>2. at' \in [Runs -> Stages] /\ DOMAIN request' = Runs
      /\ at'[p] \notin {"conflict", "submitted"}
  BY DEF ProposalInv
<1>3. \A row \in rows : row.by # p /\ row.by \in Runs
  BY DEF ProposalInv, Sent
<1>4. \A proposal \in adrift : proposal.by # p /\ proposal.by \in Runs
  BY DEF ProposalInv, Sent
<1>5. \A q \in Runs : at'[q] = "conflict" =>
        \E row \in rows' : row.key = IdempotencyKey(request'[q])
  <2> TAKE q \in Runs
  <2> HAVE at'[q] = "conflict"
  <2>1. q # p
    BY <1>2
  <2>2. PICK row \in rows : row.key = IdempotencyKey(request[q])
    BY <1>1, <2>1 DEF ProposalInv
  <2> QED BY <1>1, <2>1, <2>2
<1>6. \A q \in Runs : at'[q] = "submitted" => \E row \in rows' : IsOwn(row, request'[q])
  <2> TAKE q \in Runs
  <2> HAVE at'[q] = "submitted"
  <2>1. q # p
    BY <1>2
  <2>2. PICK row \in rows : IsOwn(row, request[q])
    BY <1>1, <2>1 DEF ProposalInv
  <2> QED BY <1>1, <2>1, <2>2
<1> QED BY <1>1, <1>2, <1>3, <1>4, <1>5, <1>6 DEF ProposalInv, Sent

LEMMA NextProposals == ProposalInv /\ [Next]_vars => ProposalInv'
<1> SUFFICES ASSUME ProposalInv, [Next]_vars PROVE ProposalInv'
  OBVIOUS
<1>0. CASE UNCHANGED <<at, request, rows, adrift>>
  BY <1>0 DEF ProposalInv, Sent, IdempotencyKey, IsOwn
<1>1. CASE UNCHANGED vars
  BY <1>0, <1>1 DEF vars, decompose
<1>2. CASE Creating \/ Approving
  BY <1>0, <1>2 DEF Creating, Approving, decompose
<1>3. CASE Push \/ Pull \/ EditCheckout
  BY <1>0, <1>3 DEF Push, Pull, EditCheckout, Changes
<1>4. ASSUME NEW p \in Runs,
             \/ BeginDecompose(p) \/ FetchOrigin(p) \/ Compare(p) \/ Discover(p)
             \/ ReadIntake(p) \/ Build(p) \/ Defer(p) \/ DryRun(p) \/ StepFails(p)
      PROVE  ProposalInv'
  <2>1. /\ at[p] \notin {"submitted", "unanswered", "conflict"}
        /\ \E s \in Stages \ {"conflict", "submitted"} : at' = [at EXCEPT ![p] = s]
        /\ request' = request \/ \E r : request' = [request EXCEPT ![p] = r]
        /\ UNCHANGED <<rows, adrift>>
    BY <1>4
    DEF BeginDecompose, FetchOrigin, Compare, Discover, ReadIntake, Build, Defer, DryRun,
        StepFails, Step, Refuse, Stages
  <2> QED BY <2>1, StepBeforePost
<1>5. ASSUME NEW p \in Runs, ActOnProposal(p)
      PROVE  ProposalInv'
  <2> DEFINE new == Proposal(p)
  <2>0. at[p] = "posting" /\ adrift' = adrift
    BY <1>5 DEF ActOnProposal
  <2>1. /\ new.key = IdempotencyKey(request[p]) /\ new.by = p
        /\ new.key = <<new.revision, BumpText[<<new.package, new.to>>]>>
        /\ IsOwn(new, request[p])
    BY DEF Proposal, IdempotencyKey, IsOwn
  <2> HIDE DEF new
  <2>2. CASE Refuse(p) /\ UNCHANGED rows
    BY <2>0, <2>2, StepBeforePost DEF Refuse, Stages
  <2>3. CASE /\ ~Taken_(new) /\ Step(p, "posting", "submitted")
             /\ rows' = rows \cup {new} /\ request' = request
    <3>1. /\ at' \in [Runs -> Stages] /\ at'[p] = "submitted"
          /\ \A q \in Runs \ {p} : at'[q] = at[q]
      BY <2>3 DEF Step, ProposalInv, Stages
    <3>2. \A row \in rows : row.key # new.key
      BY <2>3 DEF Taken_
    <3>3. \A row \in rows' : Sent(row) /\ at'[row.by] \in {"submitted", "unanswered"}
      BY <2>1, <2>3, <3>1 DEF ProposalInv, Sent
    <3>4. \A proposal \in adrift' : Sent(proposal) /\ at'[proposal.by] = "unanswered"
      BY <2>0, <3>1 DEF ProposalInv, Sent
    <3>5. \A row, other \in rows' : row.key = other.key => row = other
      BY <2>3, <3>2 DEF ProposalInv
    <3>6. \A q \in Runs : at'[q] = "conflict" =>
            \E row \in rows' : row.key = IdempotencyKey(request'[q])
      BY <2>3, <3>1 DEF ProposalInv
    <3>7. \A q \in Runs : at'[q] = "submitted" => \E row \in rows' : IsOwn(row, request'[q])
      BY <2>1, <2>3, <3>1 DEF ProposalInv
    <3> QED BY <2>3, <3>1, <3>3, <3>4, <3>5, <3>6, <3>7 DEF ProposalInv
  <2>4. CASE Taken_(new) /\ Step(p, "posting", "conflict") /\ UNCHANGED <<request, rows>>
    <3>1. /\ at' \in [Runs -> Stages] /\ at'[p] = "conflict"
          /\ \A q \in Runs \ {p} : at'[q] = at[q]
      BY <2>4 DEF Step, ProposalInv, Stages
    <3>2. \E row \in rows' : row.key = IdempotencyKey(request'[p])
      BY <2>1, <2>4 DEF Taken_
    <3>3. \A q \in Runs : at'[q] = "conflict" =>
            \E row \in rows' : row.key = IdempotencyKey(request'[q])
      BY <2>4, <3>1, <3>2 DEF ProposalInv
    <3>4. /\ \A row \in rows' : Sent(row) /\ at'[row.by] \in {"submitted", "unanswered"}
          /\ \A proposal \in adrift' : Sent(proposal) /\ at'[proposal.by] = "unanswered"
      BY <2>0, <2>4, <3>1 DEF ProposalInv, Sent
    <3>5. \A q \in Runs : at'[q] = "submitted" => \E row \in rows' : IsOwn(row, request'[q])
      BY <2>4, <3>1 DEF ProposalInv
    <3> QED BY <2>4, <3>1, <3>3, <3>4, <3>5 DEF ProposalInv
  <2>5. CASE /\ \E row \in rows : SameOperation(new, row)
             /\ Step(p, "posting", "submitted") /\ UNCHANGED <<request, rows>>
    <3>1. /\ at' \in [Runs -> Stages] /\ at'[p] = "submitted"
          /\ \A q \in Runs \ {p} : at'[q] = at[q]
      BY <2>5 DEF Step, ProposalInv, Stages
    <3>2. \E row \in rows' : IsOwn(row, request'[p])
      BY <2>1, <2>5 DEF SameOperation, IsOwn
    <3>3. \A q \in Runs : at'[q] = "submitted" => \E row \in rows' : IsOwn(row, request'[q])
      BY <2>5, <3>1, <3>2 DEF ProposalInv
    <3>4. \A q \in Runs : at'[q] = "conflict" =>
            \E row \in rows' : row.key = IdempotencyKey(request'[q])
      BY <2>5, <3>1 DEF ProposalInv
    <3>5. /\ \A row \in rows' : Sent(row) /\ at'[row.by] \in {"submitted", "unanswered"}
          /\ \A proposal \in adrift' : Sent(proposal) /\ at'[proposal.by] = "unanswered"
      BY <2>0, <2>5, <3>1 DEF ProposalInv, Sent
    <3> QED BY <2>5, <3>1, <3>3, <3>4, <3>5 DEF ProposalInv
  <2> QED BY <1>5, <2>2, <2>3, <2>4, <2>5 DEF ActOnProposal, new
<1>6. ASSUME NEW p \in Runs, PostTimesOut(p)
      PROVE  ProposalInv'
  <2> DEFINE new == Proposal(p)
  <2>1. new.by = p /\ new.key = <<new.revision, BumpText[<<new.package, new.to>>]>>
    BY DEF Proposal, IdempotencyKey
  <2>2. adrift' \subseteq adrift \cup {new}
    BY <1>6 DEF PostTimesOut
  <2> HIDE DEF new
  <2>3. /\ at' \in [Runs -> Stages] /\ at'[p] = "unanswered" /\ at[p] = "posting"
        /\ \A q \in Runs \ {p} : at'[q] = at[q]
        /\ UNCHANGED <<request, rows>>
    BY <1>6 DEF PostTimesOut, Step, ProposalInv, Stages
  <2>4. /\ \A row \in rows' : Sent(row) /\ at'[row.by] \in {"submitted", "unanswered"}
        /\ \A proposal \in adrift' : Sent(proposal) /\ at'[proposal.by] = "unanswered"
    BY <2>1, <2>2, <2>3 DEF ProposalInv, Sent
  <2>5. \A q \in Runs : at'[q] = "conflict" =>
          \E row \in rows' : row.key = IdempotencyKey(request'[q])
    BY <2>3 DEF ProposalInv
  <2>6. \A q \in Runs : at'[q] = "submitted" => \E row \in rows' : IsOwn(row, request'[q])
    BY <2>3 DEF ProposalInv
  <2> QED BY <2>3, <2>4, <2>5, <2>6 DEF ProposalInv
<1>7. CASE ActLate
  <2>1. PICK proposal \in adrift :
          /\ adrift' = adrift \ {proposal}
          /\ \/ ~Taken_(proposal) /\ rows' = rows \cup {proposal}
             \/ Taken_(proposal) /\ UNCHANGED rows
    BY <1>7 DEF ActLate
  <2>2. UNCHANGED <<at, request>>
    BY <1>7 DEF ActLate
  <2>3. \A row \in rows' : Sent(row) /\ at'[row.by] \in {"submitted", "unanswered"}
    BY <2>1, <2>2 DEF ProposalInv
  <2>4. \A row, other \in rows' : row.key = other.key => row = other
    BY <2>1 DEF ProposalInv, Taken_
  <2>5. \A q \in Runs : at'[q] = "conflict" =>
          \E row \in rows' : row.key = IdempotencyKey(request'[q])
    BY <2>1, <2>2 DEF ProposalInv
  <2>6. \A q \in Runs : at'[q] = "submitted" => \E row \in rows' : IsOwn(row, request'[q])
    BY <2>1, <2>2 DEF ProposalInv
  <2> QED BY <2>1, <2>2, <2>3, <2>4, <2>5, <2>6 DEF ProposalInv
<1> QED
  BY <1>1, <1>2, <1>3, <1>4, <1>5, <1>6, <1>7 DEF Next, Proposing, DecomposeNext

\* A second revision of a bump can propose it, no revision proposes one twice, and a run
\* told it is submitted has it proposed, however answers are lost, requests delayed and
\* bumps of the same text confused (decompose.py, _idempotency_key).
THEOREM ProposedOnce == Spec => []ConflictIsOwn
<1>1. ASSUME ProposalInv PROVE ConflictIsOwn
  <2>1. \A p \in Runs : at[p] = "submitted" =>
          \E row \in rows :
            /\ row.revision = request[p].revision
            /\ row.package = request[p].package /\ row.to = request[p].to
    BY <1>1 DEF ProposalInv, IsOwn
  <2>2. \A p \in Runs : at[p] = "conflict" =>
          \E row \in rows :
            /\ row.revision = request[p].revision
            /\ BumpText[<<row.package, row.to>>] =
                 BumpText[<<request[p].package, request[p].to>>]
    BY <1>1 DEF ProposalInv, Sent, IdempotencyKey
  <2>3. \A row \in rows :
          /\ at[row.by] \in {"submitted", "unanswered"}
          /\ \A other \in rows :
               /\ row.revision = other.revision
               /\ row.package = other.package /\ row.to = other.to
               => row = other
    <3>1. ASSUME NEW row \in rows, NEW other \in rows, row.revision = other.revision,
                 row.package = other.package, row.to = other.to
          PROVE  row = other
      <4>1. row.key = other.key
        BY <1>1, <3>1 DEF ProposalInv, Sent
      <4> QED BY <1>1, <4>1 DEF ProposalInv
    <3> QED BY <1>1, <3>1 DEF ProposalInv
  <2> QED BY <2>1, <2>2, <2>3 DEF ConflictIsOwn
<1> QED BY <1>1, InitProposals, NextProposals, PTL DEF Spec

-----------------------------------------------------------------------------
(* Runs of decompose. *)

\* The stages from which on a run has found its pin sites, named its envelope, chosen
\* what it executes, and executed it.
Posted == {"posting", "submitted", "conflict", "unanswered"}
Proving == Posted \cup {"proving"}
Deferring == Proving \cup {"deferring"}
Reading == Deferring \cup {"reading", "building"}

\* What the routing files route the work to is what files without a mistake route it to.
RoutesAreSound ==
  \A raw \in RoutingFiles :
    ResolveChangeClass(raw, "dependency-update") # NoModels =>
      ResolveChangeClass(raw, "dependency-update") \in SoundRoutes

CheckoutTyped ==
  /\ treeOf \in [Commits -> Trees_] /\ work \in Trees_
  /\ main \in Commits /\ tracking \in Commits /\ head \in Commits
  /\ moves \in 0..MaxMoves /\ main <= moves + 1 /\ tracking <= main

RunsTyped ==
  /\ at \in [Runs -> Stages] /\ request \in [Runs -> Requests \cup {NoRequest}]
  /\ DOMAIN sites = Runs /\ DOMAIN models = Runs /\ DOMAIN moved = Runs
  /\ envelope \in [Runs -> SUBSET AllCommands] /\ ran \in [Runs -> SUBSET AllCommands]
  /\ cloned \in [Runs -> {0} \cup Commits] /\ basis \in [Runs -> {0} \cup Commits]

\* The commit whose tree a run's findings are of: the checkout's until it is cloned.
Commit(p) == IF at[p] \in Posted THEN cloned[p] ELSE head
Tree(p) == treeOf[Commit(p)]

\* What a run has gathered at each stage, whatever happens to the checkout.
Gathered(p) ==
  /\ at[p] \notin {"idle", "refused"} => request[p] \in Requests /\ ~FlagRefusal(request[p])
  /\ at[p] \in Reading =>
       request[p].tooling \in ToolingProfiles /\ sites[p] \subseteq Sections[request[p].tooling]
  /\ at[p] \in Deferring => ~request[p].noExecute
  /\ ran[p] \subseteq envelope[p]
  /\ at[p] \in Proving => ran[p] # {}
  /\ at[p] \notin Proving \cup {"written"} => ran[p] = {}
  /\ at[p] \in Posted =>
       /\ cloned[p] \in Commits
       /\ Proves(treeOf[cloned[p]], ran[p], request[p].tooling, sites[p])

\* What it gathered is of one tree, as long as nobody changed the checkout under it.
Current(p) ==
  at[p] \notin {"idle", "refused"} /\ ~moved[p] /\ ~request[p].assume =>
    /\ at[p] = "comparing" => tracking >= basis[p]
    /\ at[p] \in Compared => work = treeOf[head]
    /\ at[p] \in Compared \cup Posted => Commit(p) >= basis[p]
    /\ at[p] \in Reading => sites[p] = DiscoverPinSites(Tree(p), request[p].tooling)
    /\ at[p] \in Deferring =>
         envelope[p] = AllowedCommands(Tree(p), request[p].tooling, sites[p])
    /\ at[p] \in Proving =>
         envelope[p] \ ran[p] = DeferredToCoding(Tree(p), request[p].tooling)

RunInv == CheckoutTyped /\ RunsTyped /\ \A p \in Runs : Gathered(p) /\ Current(p)

LEMMA PinTypes ==
  ASSUME NEW tree \in Trees_, NEW tooling \in ToolingProfiles
  PROVE  DiscoverPinSites(tree, tooling) \subseteq Sections[tooling]
<1>1. /\ tree.pins.npm \subseteq NpmSections /\ tree.pins.pip \subseteq PipFiles
      /\ tree.pins.uv \subseteq UvSections
  BY DEF Trees_
<1>2. CASE tooling = "npm"
  BY <1>1, <1>2 DEF DiscoverPinSites, Sections
<1>3. CASE tooling = "pip"
  BY <1>1, <1>3 DEF DiscoverPinSites, Sections
<1>4. CASE tooling = "uv"
  BY <1>1, <1>4 DEF DiscoverPinSites, Sections
<1> QED BY <1>2, <1>3, <1>4 DEF ToolingProfiles

LEMMA Pairs ==
  ASSUME NEW W, NEW S, NEW w \in W, NEW s \in S
  PROVE  <<w, s>> \in {<<x, y>> : x \in W, y \in S}
BY Z3

\* Nothing is allowed that is not a command of the tooling.
LEMMA CommandTypes ==
  ASSUME NEW tree \in Trees_, NEW tooling \in ToolingProfiles,
         NEW found \in SUBSET Sections[tooling]
  PROVE  AllowedCommands(tree, tooling, found) \subseteq AllCommands
<1> SUFFICES AllowedCommands(tree, tooling, found) \subseteq Commands_(tooling)
  BY DEF AllCommands
<1>1. CASE tooling = "npm"
  <2>0. Commands_("npm") =
          {<<"npm install", "dev">>, <<"npm install", "prod">>, <<"npm run build">>, <<"npm ci">>,
           <<"npm test">>, <<"npx", "eslint">>, <<"npx", "prettier">>, <<"grep", "package.json">>}
    BY DEF Commands_
  <2>1. ASSUME NEW c \in NpmMutations(tree, found) PROVE c \in Commands_("npm")
    <3>1. c \in {<<"npm install", "dev">>, <<"npm install", "prod">>, <<"npm run build">>}
      BY <2>1 DEF NpmMutations
    <3> QED BY <2>0, <3>1
  <2>2. ASSUME NEW c \in NpmGateComponents(tree) PROVE c \in Commands_("npm")
    <3>1. tree.linters \subseteq {"eslint", "prettier"}
      BY DEF Trees_
    <3>2. c \in {<<"npx", "eslint">>, <<"npx", "prettier">>, <<"npm test">>}
      BY <2>2, <3>1 DEF NpmGateComponents
    <3> QED BY <2>0, <3>2
  <2>3. ASSUME NEW c \in VerifierCommands(tree, "npm", found) PROVE c \in Commands_("npm")
    <3>1. \/ c \in {<<"npm ci">>, <<"grep", "package.json">>}
          \/ c \in NpmGateComponents(tree)
      BY <2>3 DEF VerifierCommands
    <3> QED BY <2>0, <2>2, <3>1
  <2>4. MutationCommands(tree, "npm", found) = NpmMutations(tree, found)
    BY DEF MutationCommands
  <2> QED BY <1>1, <2>1, <2>3, <2>4 DEF AllowedCommands
<1>2. CASE tooling = "pip"
  <2>1. found \subseteq PipFiles
    BY <1>2 DEF Sections
  <2> QED BY <1>2, <2>1 DEF AllowedCommands, MutationCommands, VerifierCommands, Commands_, PipFiles
<1>3. CASE tooling = "uv"
  <2> DEFINE words == {"uv add", "uv add --frozen"}
             adds == {<<w, s>> : w \in words, s \in UvSections}
  <2>a. Commands_("uv") = adds \cup {<<"uv lock">>, <<"uv lock --check">>}
    BY DEF Commands_
  <2>b. ASSUME NEW w \in words, NEW s \in UvSections PROVE <<w, s>> \in adds
    <3> HIDE DEF words
    <3>1. \A x \in words, y \in UvSections : <<x, y>> \in {<<v, t>> : v \in words, t \in UvSections}
      BY Pairs
    <3> QED BY <3>1
  <2>c. "uv add" \in words /\ "uv add --frozen" \in words
    OBVIOUS
  <2> HIDE DEF words, adds
  <2>0. /\ \A s \in UvSections : <<"uv add", s>> \in Commands_("uv")
        /\ \A s \in UvSections : <<"uv add --frozen", s>> \in Commands_("uv")
        /\ <<"uv lock">> \in Commands_("uv") /\ <<"uv lock --check">> \in Commands_("uv")
    BY <2>a, <2>b, <2>c
  <2>1. found \subseteq UvSections
    BY <1>3 DEF Sections
  <2>2. ASSUME NEW c \in UvMutations(found) PROVE c \in Commands_("uv")
    <3>1. \/ \E s \in found : c = <<"uv add", s>> \/ c = <<"uv add --frozen", s>>
          \/ c = <<"uv lock">>
      BY <2>2 DEF UvMutations
    <3> QED BY <2>0, <2>1, <3>1
  <2>3. MutationCommands(tree, "uv", found) = UvMutations(found)
    BY DEF MutationCommands
  <2>4. VerifierCommands(tree, "uv", found) = {<<"uv lock --check">>}
    BY DEF VerifierCommands
  <2> QED BY <1>3, <2>0, <2>2, <2>3, <2>4 DEF AllowedCommands
<1> QED BY <1>1, <1>2, <1>3 DEF ToolingProfiles

LEMMA InitRuns == Init => RunInv
<1> SUFFICES ASSUME Init PROVE RunInv
  OBVIOUS
<1> USE DEF Init, DecomposeInit
<1>1. CheckoutTyped
  <2>1. treeOf \in [Commits -> Trees_] /\ MaxMoves \in Nat
    BY DecomposeAssumption DEF Commits
  <2>2. 1 \in Commits
    BY <2>1 DEF Commits
  <2> QED BY <2>1, <2>2 DEF CheckoutTyped
<1>2. RunsTyped
  BY DEF RunsTyped, Stages
<1>3. ASSUME NEW p \in Runs PROVE Gathered(p) /\ Current(p)
  BY DEF Gathered, Current, Reading, Deferring, Proving, Posted
<1> QED BY <1>1, <1>2, <1>3 DEF RunInv

\* The steps of a run, and what they leave to the others.
RunStep(p) ==
  \/ BeginDecompose(p) \/ FetchOrigin(p) \/ Compare(p) \/ Discover(p) \/ ReadIntake(p)
  \/ Build(p) \/ Defer(p) \/ DryRun(p) \/ StepFails(p)
  \/ ActOnProposal(p) \/ PostTimesOut(p)

LEMMA LaneSteps ==
  ASSUME [Next]_vars
  PROVE  \/ UNCHANGED decompose
         \/ Push \/ Pull \/ EditCheckout \/ ActLate
         \/ \E p \in Runs : RunStep(p)
BY DEF Next, vars, Creating, Approving, Proposing, DecomposeNext, RunStep

Mine(p, q) ==
  /\ at'[q] = at[q] /\ request'[q] = request[q] /\ sites'[q] = sites[q]
  /\ envelope'[q] = envelope[q] /\ models'[q] = models[q] /\ ran'[q] = ran[q]
  /\ cloned'[q] = cloned[q] /\ basis'[q] = basis[q] /\ moved'[q] = moved[q]

LEMMA OthersKeep ==
  ASSUME RunsTyped, NEW p \in Runs, RunStep(p), NEW q \in Runs \ {p}
  PROVE  Mine(p, q)
<1> USE DEF RunsTyped, Mine
<1>1. CASE Refuse(p)
  BY <1>1 DEF Refuse
<1>2. CASE BeginDecompose(p)
  BY <1>1, <1>2 DEF BeginDecompose, Step, findings
<1>3. CASE FetchOrigin(p) \/ ReadIntake(p) \/ PostTimesOut(p)
  BY <1>3 DEF FetchOrigin, ReadIntake, PostTimesOut, Step, findings
<1>4. CASE Compare(p)
  BY <1>1, <1>4 DEF Compare, Step, findings
<1>5. CASE Discover(p)
  BY <1>1, <1>5 DEF Discover, Step, findings
<1>6. CASE Build(p)
  BY <1>1, <1>6 DEF Build, Step, findings
<1>7. CASE Defer(p)
  BY <1>1, <1>7 DEF Defer, Step, findings
<1>8. CASE DryRun(p)
  BY <1>1, <1>8 DEF DryRun, Step, findings
<1>9. CASE StepFails(p)
  BY <1>1, <1>9 DEF StepFails
<1>10. CASE ActOnProposal(p)
  BY <1>1, <1>10 DEF ActOnProposal, Step, findings
<1> QED BY <1>2, <1>3, <1>4, <1>5, <1>6, <1>7, <1>8, <1>9, <1>10 DEF RunStep

\* A run looks at the checkout and leaves it as it is, origin/main apart.
LEMMA RunLeavesCheckout ==
  ASSUME CheckoutTyped, NEW p \in Runs, RunStep(p)
  PROVE  /\ UNCHANGED <<treeOf, main, head, work, moves>>
         /\ tracking' \in Commits /\ tracking' <= main /\ tracking' >= tracking
<1>1. UNCHANGED <<treeOf, main, head, work, moves>> /\ (tracking' = tracking \/ tracking' = main)
  BY DEF RunStep, BeginDecompose, FetchOrigin, Compare, Discover, ReadIntake, Build, Defer, DryRun,
         StepFails, ActOnProposal, PostTimesOut, checkout
<1> QED BY <1>1, DecomposeAssumption DEF CheckoutTyped, Commits

\* A refused run keeps nothing it could be wrong about.
LEMMA RefusedRun ==
  ASSUME RunInv, NEW p \in Runs, Refuse(p)
  PROVE  RunsTyped' /\ Gathered(p)' /\ Current(p)'
<1>1. RunsTyped'
  BY DEF Refuse, RunInv, RunsTyped, Stages
<1>2. at'[p] = "refused" /\ envelope'[p] = {} /\ ran'[p] = {}
  BY DEF Refuse, RunInv, RunsTyped
<1>3. Gathered(p)'
  BY <1>2 DEF Gathered, Reading, Deferring, Proving, Posted
<1>4. Current(p)'
  BY <1>2 DEF Current
<1> QED BY <1>1, <1>3, <1>4

\* What a run knew stays true while another takes a step.
LEMMA OthersStay ==
  ASSUME RunInv, NEW p \in Runs, RunStep(p), NEW q \in Runs \ {p}
  PROVE  Gathered(q)' /\ Current(q)'
<1>1. Mine(p, q) /\ UNCHANGED <<treeOf, head, work>> /\ tracking' >= tracking
  BY OthersKeep, RunLeavesCheckout DEF RunInv
<1>2. Gathered(q)'
  BY <1>1 DEF RunInv, Gathered, Mine
<1>3. Commit(q)' = Commit(q) /\ Tree(q)' = Tree(q)
  BY <1>1 DEF Commit, Tree, Mine
<1>4. at'[q] = "comparing" /\ ~moved'[q] /\ ~request'[q].assume => tracking' >= basis'[q]
  <2>1. tracking \in Nat /\ tracking' \in Nat /\ basis[q] \in Nat
    BY RunLeavesCheckout, DecomposeAssumption DEF RunInv, CheckoutTyped, RunsTyped, Commits
  <2>2. at[q] = "comparing" /\ ~moved[q] /\ ~request[q].assume => tracking >= basis[q]
    BY DEF RunInv, Current
  <2>3. tracking >= basis[q] => tracking' >= basis[q]
    BY <1>1, <2>1
  <2> QED BY <1>1, <2>2, <2>3 DEF Mine
<1>5. Current(q)'
  <2> HIDE DEF Commit, Tree
  <2>1. Current(q)
    BY DEF RunInv
  <2> QED BY <1>1, <1>3, <1>4, <2>1 DEF Current, Mine
<1> QED BY <1>2, <1>5

\* Up to the comparison.
LEMMA BeginsRun ==
  ASSUME RunInv, NEW p \in Runs, BeginDecompose(p) \/ FetchOrigin(p) \/ Compare(p)
  PROVE  RunsTyped' /\ Gathered(p)' /\ Current(p)'
<1> USE DEF RunInv
<1>1. CASE BeginDecompose(p) /\ ~Refuse(p)
  <2>1. PICK r \in Requests :
          /\ ~FlagRefusal(r) /\ request' = [request EXCEPT ![p] = r]
          /\ at[p] = "idle"
          /\ at' = [at EXCEPT ![p] = IF r.assume THEN "discovering" ELSE "fetching"]
          /\ UNCHANGED <<findings, basis, moved>>
    BY <1>1 DEF BeginDecompose, Step
  <2>2. /\ at'[p] = (IF r.assume THEN "discovering" ELSE "fetching") /\ request'[p] = r
        /\ RunsTyped'
    BY <2>1 DEF RunsTyped, Stages, findings
  <2>3. ran'[p] = {}
    BY <2>1 DEF Gathered, Proving, Posted, findings
  <2>4. Gathered(p)'
    BY <2>1, <2>2, <2>3 DEF Gathered, Reading, Deferring, Proving, Posted
  <2>5. Current(p)'
    BY <2>2 DEF Current, Compared, Reading, Deferring, Proving, Posted
  <2> QED BY <2>2, <2>4, <2>5
<1>2. CASE FetchOrigin(p)
  <2>1. /\ at[p] = "fetching" /\ at' = [at EXCEPT ![p] = "comparing"]
        /\ tracking' = main /\ basis' = [basis EXCEPT ![p] = main]
        /\ UNCHANGED <<request, findings, moved>>
    BY <1>2 DEF FetchOrigin, Step
  <2>2. at'[p] = "comparing" /\ basis'[p] = tracking' /\ RunsTyped'
    BY <2>1 DEF RunsTyped, CheckoutTyped, Stages, findings
  <2>3. Gathered(p)'
    BY <2>1, <2>2 DEF Gathered, Reading, Deferring, Proving, Posted, findings
  <2>4. tracking' \in Nat
    BY <2>1, DecomposeAssumption DEF CheckoutTyped, Commits
  <2>5. Current(p)'
    BY <2>2, <2>4 DEF Current, Compared, Reading, Deferring, Proving, Posted
  <2> QED BY <2>2, <2>3, <2>5
<1>3. CASE Compare(p) /\ ~Refuse(p)
  <2>1. /\ at[p] = "comparing" /\ at' = [at EXCEPT ![p] = "discovering"]
        /\ head = tracking /\ work = treeOf[head]
        /\ UNCHANGED <<request, findings, basis, moved, checkout>>
    BY <1>3 DEF Compare, Step
  <2>2. at'[p] = "discovering" /\ RunsTyped'
    BY <2>1 DEF RunsTyped, Stages, findings
  <2>3. Gathered(p)'
    BY <2>1, <2>2 DEF Gathered, Reading, Deferring, Proving, Posted, findings
  <2>4. ~moved[p] /\ ~request[p].assume => tracking >= basis[p]
    BY <2>1 DEF Current
  <2>5. Current(p)'
    BY <2>1, <2>2, <2>4
    DEF Current, Commit, Compared, Reading, Deferring, Proving, Posted, checkout
  <2> QED BY <2>2, <2>3, <2>5
<1> QED BY <1>1, <1>2, <1>3, RefusedRun

\* From the pin sites to the envelope.
LEMMA BuildsEnvelope ==
  ASSUME RunInv, NEW p \in Runs, Discover(p) \/ ReadIntake(p) \/ Build(p)
  PROVE  RunsTyped' /\ Gathered(p)' /\ Current(p)'
<1> USE DEF RunInv
<1>1. CASE Discover(p) /\ ~Refuse(p)
  <2> DEFINE tooling == request[p].tooling
  <2>1. /\ at[p] = "discovering" /\ at' = [at EXCEPT ![p] = "reading"]
        /\ tooling \in ToolingProfiles
        /\ sites' = [sites EXCEPT ![p] = DiscoverPinSites(work, tooling)]
        /\ UNCHANGED <<request, envelope, models, ran, cloned, basis, moved, checkout>>
    BY <1>1 DEF Discover, Step
  <2>2. /\ at'[p] = "reading" /\ sites'[p] = DiscoverPinSites(work, tooling) /\ RunsTyped'
    BY <2>1 DEF RunsTyped, Stages
  <2>3. sites'[p] \subseteq Sections[tooling]
    BY <2>1, <2>2, PinTypes DEF CheckoutTyped
  <2>4. Gathered(p)'
    BY <2>1, <2>2, <2>3 DEF Gathered, Reading, Deferring, Proving, Posted
  <2>5. Commit(p)' = head /\ Tree(p)' = treeOf[head] /\ Commit(p) = head
    BY <2>1, <2>2 DEF Commit, Tree, Posted, checkout
  <2>6. ~moved[p] /\ ~request[p].assume => head >= basis[p] /\ work = treeOf[head]
    BY <2>1, <2>5 DEF Current, Compared
  <2> HIDE DEF Commit, Tree
  <2>7. Current(p)'
    BY <2>1, <2>2, <2>5, <2>6 DEF Current, Compared, Reading, Deferring, Proving, Posted, checkout
  <2> QED BY <2>2, <2>4, <2>7
<1>2. CASE ReadIntake(p)
  <2>1. /\ at[p] = "reading" /\ at' = [at EXCEPT ![p] = "building"]
        /\ UNCHANGED <<request, findings, basis, moved, checkout>>
    BY <1>2 DEF ReadIntake, Step
  <2>2. at'[p] = "building" /\ RunsTyped'
    BY <2>1 DEF RunsTyped, Stages, findings
  <2>3. Gathered(p)'
    BY <2>1, <2>2 DEF Gathered, Reading, Deferring, Proving, Posted, findings
  <2>4. Commit(p)' = Commit(p) /\ Tree(p)' = Tree(p)
    BY <2>1, <2>2 DEF Commit, Tree, Posted, checkout
  <2> HIDE DEF Commit, Tree
  <2>5. Current(p)'
    BY <2>1, <2>2, <2>4
    DEF Current, Compared, Reading, Deferring, Proving, Posted, findings, checkout
  <2> QED BY <2>2, <2>3, <2>5
<1>3. CASE Build(p) /\ ~Refuse(p)
  <2> DEFINE tooling == request[p].tooling
             allowed == AllowedCommands(work, tooling, sites[p])
  <2>1. PICK routed :
          /\ at[p] = "building"
          /\ at' = [at EXCEPT ![p] = IF request[p].noExecute THEN "written" ELSE "deferring"]
          /\ envelope' = [envelope EXCEPT ![p] = allowed]
          /\ models' = [models EXCEPT ![p] = routed]
          /\ UNCHANGED <<request, sites, ran, cloned, basis, moved, checkout>>
    BY <1>3 DEF Build, Step
  <2>2. tooling \in ToolingProfiles /\ sites[p] \subseteq Sections[tooling]
    BY <2>1 DEF Gathered, Reading
  <2>3. allowed \subseteq AllCommands
    BY <2>2, CommandTypes DEF CheckoutTyped
  <2> HIDE DEF allowed
  <2>4. /\ at'[p] \in {"written", "deferring"}
        /\ at'[p] = "deferring" => ~request[p].noExecute
        /\ envelope'[p] = allowed /\ RunsTyped'
    BY <2>1, <2>3 DEF RunsTyped, Stages
  <2>5. ran'[p] = {}
    BY <2>1 DEF Gathered, Proving, Posted
  <2>6. Gathered(p)'
    BY <2>1, <2>2, <2>4, <2>5 DEF Gathered, Reading, Deferring, Proving, Posted
  <2>7. Commit(p)' = head /\ Tree(p)' = treeOf[head] /\ Commit(p) = head /\ Tree(p) = treeOf[head]
    BY <2>1, <2>4 DEF Commit, Tree, Posted, checkout
  <2>8. ~moved[p] /\ ~request[p].assume =>
          /\ head >= basis[p] /\ work = treeOf[head]
          /\ sites[p] = DiscoverPinSites(treeOf[head], tooling)
    BY <2>1, <2>7 DEF Current, Compared, Reading
  <2>9. ~moved[p] /\ ~request[p].assume =>
          envelope'[p] = AllowedCommands(treeOf[head], tooling, sites[p])
    BY <2>4, <2>8 DEF allowed
  <2> HIDE DEF Commit, Tree
  <2>10. Current(p)'
    BY <2>1, <2>4, <2>7, <2>8, <2>9
    DEF Current, Compared, Reading, Deferring, Proving, Posted, checkout
  <2> QED BY <2>4, <2>6, <2>10
<1> QED BY <1>1, <1>2, <1>3, RefusedRun

\* From the envelope to the clone it is executed in.
LEMMA ProvesEnvelope ==
  ASSUME RunInv, NEW p \in Runs, Defer(p) \/ DryRun(p)
  PROVE  RunsTyped' /\ Gathered(p)' /\ Current(p)'
<1> USE DEF RunInv
<1>1. CASE Defer(p) /\ ~Refuse(p)
  <2> DEFINE tooling == request[p].tooling
             deferred == DeferredToCoding(work, tooling)
  <2>1. /\ at[p] = "deferring" /\ at' = [at EXCEPT ![p] = "proving"]
        /\ deferred \subseteq envelope[p] /\ envelope[p] # deferred
        /\ ran' = [ran EXCEPT ![p] = envelope[p] \ deferred]
        /\ UNCHANGED <<request, sites, envelope, models, cloned, basis, moved, checkout>>
    BY <1>1 DEF Defer, Step
  <2> HIDE DEF deferred
  <2>2. at'[p] = "proving" /\ ran'[p] = envelope[p] \ deferred /\ RunsTyped'
    BY <2>1 DEF RunsTyped, Stages
  <2>3. ran'[p] \subseteq envelope[p] /\ ran'[p] # {} /\ envelope[p] \ ran'[p] = deferred
    BY <2>1, <2>2
  <2>4. Gathered(p)'
    BY <2>1, <2>2, <2>3 DEF Gathered, Reading, Deferring, Proving, Posted
  <2>5. Commit(p)' = head /\ Tree(p)' = treeOf[head] /\ Commit(p) = head /\ Tree(p) = treeOf[head]
    BY <2>1, <2>2 DEF Commit, Tree, Posted, checkout
  <2>6. ~moved[p] /\ ~request[p].assume =>
          /\ head >= basis[p] /\ work = treeOf[head]
          /\ sites[p] = DiscoverPinSites(treeOf[head], tooling)
          /\ envelope[p] = AllowedCommands(treeOf[head], tooling, sites[p])
    BY <2>1, <2>5 DEF Current, Compared, Reading, Deferring
  <2>7. ~moved[p] /\ ~request[p].assume =>
          envelope[p] \ ran'[p] = DeferredToCoding(treeOf[head], tooling)
    BY <2>3, <2>6 DEF deferred
  <2> HIDE DEF Commit, Tree
  <2>8. Current(p)'
    BY <2>1, <2>2, <2>5, <2>6, <2>7
    DEF Current, Compared, Reading, Deferring, Proving, Posted, checkout
  <2> QED BY <2>2, <2>4, <2>8
<1>2. CASE DryRun(p) /\ ~Refuse(p)
  <2>1. /\ at[p] = "proving" /\ Proves(treeOf[head], ran[p], request[p].tooling, sites[p])
        /\ at' = [at EXCEPT ![p] = IF request[p].submit THEN "posting" ELSE "written"]
        /\ cloned' = [cloned EXCEPT ![p] = head]
        /\ UNCHANGED <<request, sites, envelope, models, ran, basis, moved, checkout>>
    BY <1>2 DEF DryRun, Step
  <2>2. at'[p] \in {"posting", "written"} /\ cloned'[p] = head /\ RunsTyped'
    BY <2>1 DEF RunsTyped, CheckoutTyped, Stages
  <2>3. Gathered(p)'
    BY <2>1, <2>2 DEF CheckoutTyped, Gathered, Reading, Deferring, Proving, Posted, checkout
  <2>4. Commit(p) = head /\ Tree(p) = treeOf[head]
    BY <2>1 DEF Commit, Tree, Posted
  <2>5. at'[p] = "posting" => Commit(p)' = head /\ Tree(p)' = treeOf[head]
    BY <2>1, <2>2 DEF Commit, Tree, Posted, checkout
  <2> HIDE DEF Commit, Tree
  <2>6. Current(p)'
    BY <2>1, <2>2, <2>4, <2>5
    DEF Current, Compared, Reading, Deferring, Proving, Posted, checkout
  <2> QED BY <2>2, <2>3, <2>6
<1> QED BY <1>1, <1>2, RefusedRun

\* What is posted is what was proven, however the post ends.
LEMMA PostsRun ==
  ASSUME RunInv, NEW p \in Runs, ActOnProposal(p) \/ PostTimesOut(p)
  PROVE  RunsTyped' /\ Gathered(p)' /\ Current(p)'
<1> USE DEF RunInv
<1>1. CASE ~Refuse(p)
  <2>1. PICK s \in {"submitted", "conflict", "unanswered"} :
          /\ at[p] = "posting" /\ at' = [at EXCEPT ![p] = s]
          /\ UNCHANGED <<request, findings, basis, moved, checkout>>
    BY <1>1 DEF ActOnProposal, PostTimesOut, Step
  <2>2. at'[p] = s /\ RunsTyped'
    BY <2>1 DEF RunsTyped, Stages, findings
  <2>3. Gathered(p)'
    BY <2>1, <2>2 DEF Gathered, Reading, Deferring, Proving, Posted, findings, checkout
  <2>4. Commit(p)' = Commit(p) /\ Tree(p)' = Tree(p)
    BY <2>1, <2>2 DEF Commit, Tree, Posted, findings, checkout
  <2> HIDE DEF Commit, Tree
  <2>5. Current(p)'
    BY <2>1, <2>2, <2>4
    DEF Current, Compared, Reading, Deferring, Proving, Posted, findings, checkout
  <2> QED BY <2>2, <2>3, <2>5
<1> QED BY <1>1, RefusedRun

\* The owner of the checkout makes no run wrong that is past it, and marks the others.
LEMMA OwnerMoves ==
  ASSUME RunInv, Push \/ Pull \/ EditCheckout \/ ActLate
  PROVE  RunInv'
<1> USE DEF RunInv
<1>n. MaxMoves \in Nat
  BY DecomposeAssumption
<1>1. UNCHANGED <<treeOf, at, request, findings, basis>>
  BY DEF Push, Pull, EditCheckout, Changes, ActLate, checkout
<1>2. CheckoutTyped'
  <2>1. CASE Push
    BY <1>n, <2>1 DEF Push, CheckoutTyped, Commits
  <2>2. CASE Pull
    BY <1>n, <2>2 DEF Pull, Changes, CheckoutTyped, Commits
  <2>3. CASE EditCheckout
    BY <1>n, <2>3, DecomposeAssumption DEF EditCheckout, Changes, CheckoutTyped, Commits
  <2>4. CASE ActLate
    BY <2>4 DEF ActLate, checkout, CheckoutTyped
  <2> QED BY <2>1, <2>2, <2>3, <2>4
<1>3. RunsTyped'
  BY <1>1 DEF RunsTyped, findings, Push, Pull, EditCheckout, Changes, ActLate
<1>4. ASSUME NEW p \in Runs PROVE Gathered(p)' /\ Current(p)'
  <2>1. Gathered(p)'
    BY <1>1, <1>4 DEF Gathered, findings
  <2>2. CASE Push \/ ActLate
    <3>1. UNCHANGED <<tracking, head, work, moved>>
      BY <2>2 DEF Push, ActLate, checkout
    <3>2. Commit(p)' = Commit(p) /\ Tree(p)' = Tree(p)
      BY <1>1, <3>1 DEF Commit, Tree, findings
    <3> HIDE DEF Commit, Tree
    <3> QED BY <1>1, <1>4, <2>1, <3>1, <3>2 DEF Current, findings
  <2>3. CASE Pull \/ EditCheckout
    <3>1. ~moved'[p] => ~moved[p] /\ at[p] \notin Compared
      BY <2>3 DEF Pull, EditCheckout, Changes
    <3>2. tracking' >= tracking /\ tracking \in Nat /\ tracking' \in Nat /\ basis[p] \in Nat
      BY <1>n, <2>3 DEF Pull, EditCheckout, CheckoutTyped, RunsTyped, Commits
    <3>3. tracking >= basis[p] => tracking' >= basis[p]
      BY <3>2
    <3>4. at[p] \in Posted => Commit(p)' = Commit(p) /\ Tree(p)' = Tree(p)
      BY <1>1 DEF Commit, Tree, findings
    <3> HIDE DEF Commit, Tree
    <3> SUFFICES ASSUME at[p] \notin {"idle", "refused"}, ~moved'[p], ~request[p].assume
                 PROVE  Current(p)'
      BY <1>1, <2>1 DEF Current
    <3>5. at[p] \in Reading => at[p] \in Posted
      BY <3>1 DEF Reading, Deferring, Proving, Compared
    <3>6. at[p] = "comparing" => tracking' >= basis[p]
      BY <3>1, <3>3 DEF Current
    <3>7. at[p] \in Posted =>
            /\ Commit(p) >= basis[p]
            /\ sites[p] = DiscoverPinSites(Tree(p), request[p].tooling)
            /\ envelope[p] = AllowedCommands(Tree(p), request[p].tooling, sites[p])
            /\ envelope[p] \ ran[p] = DeferredToCoding(Tree(p), request[p].tooling)
      BY <3>1 DEF Current, Reading, Deferring, Proving
    <3>8. at[p] \in Deferring \cup Proving => at[p] \in Posted
      BY <3>5 DEF Reading, Deferring
    <3> QED BY <1>1, <3>1, <3>4, <3>5, <3>6, <3>7, <3>8 DEF Current, findings
  <2> QED BY <2>1, <2>2, <2>3
<1> QED BY <1>2, <1>3, <1>4

LEMMA NextRuns == RunInv /\ [Next]_vars => RunInv'
<1> SUFFICES ASSUME RunInv, [Next]_vars PROVE RunInv'
  OBVIOUS
<1>1. CASE UNCHANGED decompose
  BY <1>1 DEF decompose, checkout, findings, RunInv, CheckoutTyped, RunsTyped, Gathered, Current,
              Commit, Tree
<1>2. ASSUME NEW p \in Runs, RunStep(p) PROVE RunInv'
  <2>1. CheckoutTyped'
    BY <1>2, RunLeavesCheckout DEF RunInv, CheckoutTyped
  <2>2. RunsTyped' /\ Gathered(p)' /\ Current(p)'
    BY <1>2, BeginsRun, BuildsEnvelope, ProvesEnvelope, PostsRun, RefusedRun DEF RunStep, StepFails
  <2>3. \A q \in Runs \ {p} : Gathered(q)' /\ Current(q)'
    BY <1>2, OthersStay
  <2> QED BY <2>1, <2>2, <2>3 DEF RunInv
<1> QED BY <1>1, <1>2, LaneSteps, OwnerMoves

\* A run names only models that sound files route to, and nobody else's.
LEMMA InitModels == Init => \A p \in Runs : at[p] \notin Deferring
BY DEF Init, DecomposeInit, Deferring, Proving, Posted

LEMMA NextModels ==
  ASSUME RoutesAreSound, RunInv, [Next]_vars,
         \A p \in Runs : at[p] \in Deferring => models[p] \in SoundRoutes
  PROVE  \A p \in Runs : at'[p] \in Deferring => models'[p] \in SoundRoutes
<1>1. CASE UNCHANGED <<at, models>>
  BY <1>1
<1>2. ASSUME NEW p \in Runs, RunStep(p), NEW q \in Runs, at'[q] \in Deferring
      PROVE  models'[q] \in SoundRoutes
  <2>1. CASE q # p
    <3>1. Mine(p, q)
      BY <1>2, <2>1, OthersKeep DEF RunInv
    <3> QED BY <1>2, <3>1 DEF Mine
  <2>2. CASE q = p /\ Build(p)
    <3>1. ~Refuse(p)
      BY <1>2, <2>2 DEF Refuse, RunInv, RunsTyped, Deferring, Proving, Posted
    <3>2. PICK raw \in RoutingFiles :
            /\ ResolveChangeClass(raw, "dependency-update") # NoModels
            /\ models' = [models EXCEPT ![p] = ResolveChangeClass(raw, "dependency-update")]
      BY <2>2, <3>1 DEF Build
    <3>3. models'[p] = ResolveChangeClass(raw, "dependency-update")
      BY <3>2 DEF RunInv, RunsTyped
    <3> QED BY <2>2, <3>2, <3>3 DEF RoutesAreSound
  <2>3. CASE q = p /\ ~Build(p)
    <3>1. at[p] \in Deferring /\ models'[p] = models[p]
      BY <1>2, <2>3
      DEF RunInv, RunsTyped, RunStep, BeginDecompose, FetchOrigin, Compare, Discover, ReadIntake,
          Defer, DryRun, StepFails, ActOnProposal, PostTimesOut, Step, Refuse, Deferring, Proving,
          Posted, findings
    <3> QED BY <2>3, <3>1
  <2> QED BY <2>1, <2>2, <2>3
<1> QED
  BY <1>1, <1>2, LaneSteps
  DEF decompose, findings, Push, Pull, EditCheckout, Changes, ActLate, checkout

LEMMA RunsAlways == Spec => []RunInv
<1> QED BY InitRuns, NextRuns, PTL DEF Spec

\* A proposal that is posted is of an envelope that was executed in a clone, of the commit
\* the run compared itself with unless the checkout changed under it: whatever is pushed,
\* pulled, edited or routed meanwhile (decompose.py, run; validations.py).
THEOREM PostedIsProven ==
  ASSUME RoutesAreSound
  PROVE  Spec => []SubmittedWasProven
<1> DEFINE ModelsInv == \A p \in Runs : at[p] \in Deferring => models[p] \in SoundRoutes
<1>1. Init => ModelsInv
  BY InitModels
<1>2. RunInv /\ ModelsInv /\ [Next]_vars => ModelsInv'
  BY NextModels
<1>3. RunInv /\ ModelsInv => SubmittedWasProven
  <2> SUFFICES ASSUME RunInv, ModelsInv, NEW p \in Runs, at[p] \in Posted
               PROVE  /\ ~request[p].noExecute /\ ~request[p].assume
                      /\ models[p] \in SoundRoutes
                      /\ ran[p] # {} /\ ran[p] \cap treeOf[cloned[p]].fails = {}
                      /\ treeOf[cloned[p]].stable
                      /\ \A s \in sites[p] :
                           Manifest(request[p].tooling, s) \in treeOf[cloned[p]].touches
                      /\ ~moved[p] =>
                           /\ cloned[p] >= basis[p]
                           /\ sites[p] = DiscoverPinSites(treeOf[cloned[p]], request[p].tooling)
                           /\ envelope[p] =
                                AllowedCommands(treeOf[cloned[p]], request[p].tooling, sites[p])
                           /\ envelope[p] \ ran[p] =
                                DeferredToCoding(treeOf[cloned[p]], request[p].tooling)
    BY DEF SubmittedWasProven, Posted
  <2>1. Gathered(p) /\ Current(p) /\ Commit(p) = cloned[p] /\ Tree(p) = treeOf[cloned[p]]
    BY DEF RunInv, Commit, Tree
  <2>2. ~request[p].noExecute /\ ~request[p].assume
    BY <2>1 DEF Gathered, FlagRefusal, Deferring, Proving, Posted
  <2>3. models[p] \in SoundRoutes
    BY DEF Deferring, Proving
  <2>4. ran[p] # {} /\ Proves(treeOf[cloned[p]], ran[p], request[p].tooling, sites[p])
    BY <2>1 DEF Gathered, Proving
  <2>5. ~moved[p] =>
          /\ cloned[p] >= basis[p]
          /\ sites[p] = DiscoverPinSites(treeOf[cloned[p]], request[p].tooling)
          /\ envelope[p] = AllowedCommands(treeOf[cloned[p]], request[p].tooling, sites[p])
          /\ envelope[p] \ ran[p] = DeferredToCoding(treeOf[cloned[p]], request[p].tooling)
    BY <2>1, <2>2 DEF Current, Reading, Deferring, Proving, Posted
  <2> QED BY <2>2, <2>3, <2>4, <2>5 DEF Proves
<1> HIDE DEF ModelsInv
<1> QED BY <1>1, <1>2, <1>3, RunsAlways, PTL DEF Spec

-----------------------------------------------------------------------------
(* Package directories. *)

\* What a function on the fields of a package renders to.
IsRendered(doc) == doc = [f \in Fields |-> doc[f]]

\* Every rendered package has the fields of a package and no others.
LEMMA Rendered ==
  ASSUME NEW profile, NEW reach
  PROVE  IsRendered(RenderPackage(profile, reach))
BY DEF RenderPackage, Fields, IsRendered

\* The package of every command is one an author could have written field by field.
LEMMA CommandFacts ==
  ASSUME NEW cmd \in Commands
  PROVE  cmd.id \in Ids /\ cmd.doc \in Documents
<1>0. ASSUME NEW op, NEW ids, NEW docs, cmd \in Calls(op, ids, docs)
      PROVE  cmd.id \in ids /\ cmd.doc \in docs
  BY <1>0 DEF Calls
<1>1. cmd.doc \in Packages
  BY DEF Packages
<1>2. \A profile, reach : IsRendered(RenderPackage(profile, reach))
  BY Rendered
<1>3. cmd.id \in Ids /\ IsRendered(cmd.doc)
  <2> DEFINE created == {RenderPackage(profile, List(<<reach>>)) :
                           profile \in PROFILES, reach \in Reaches}
             readied == {RenderFromReadiness(2, owner) : owner \in {"devon", "external:auditor"}}
             standing(s) == {RenderStandingPackage(s.repository, Str("1.0"), to, reach) :
                               to \in {Str("1.0"), Str("2.0")}, reach \in Reaches}
             rotation == RenderRotation(Str("external_system"), "devon")
  <2>0. \/ cmd \in Calls("create", Ids, created)
        \/ cmd \in Calls("create_rotation", Ids, {rotation})
        \/ cmd \in Calls("create_from_readiness", Ids, readied)
        \/ \E s \in Standing : cmd \in Calls("create_standing", {s.id}, standing(s))
    BY DEF Commands
  <2> HIDE DEF created, readied, standing, rotation
  <2>1. CASE cmd \in Calls("create", Ids, created)
    <3>1. cmd.id \in Ids /\ cmd.doc \in created
      BY <1>0, <2>1
    <3>2. PICK profile \in PROFILES, reach \in Reaches :
            cmd.doc = RenderPackage(profile, List(<<reach>>))
      BY <3>1 DEF created
    <3>3. IsRendered(RenderPackage(profile, List(<<reach>>)))
      BY <1>2
    <3> QED BY <3>1, <3>2, <3>3
  <2>2. CASE cmd \in Calls("create_rotation", Ids, {rotation})
    <3>1. IsRendered(rotation)
      BY <1>2 DEF RenderRotation, IsRendered, rotation
    <3> QED BY <1>0, <2>2, <3>1
  <2>3. CASE cmd \in Calls("create_from_readiness", Ids, readied)
    <3>1. \A owner : IsRendered(RenderFromReadiness(2, owner))
      BY <1>2 DEF RenderFromReadiness, IsRendered
    <3>2. cmd.id \in Ids /\ cmd.doc \in readied
      BY <1>0, <2>3
    <3> QED BY <3>1, <3>2 DEF readied
  <2>4. ASSUME NEW s \in Standing, cmd \in Calls("create_standing", {s.id}, standing(s))
        PROVE  cmd.id \in Ids /\ IsRendered(cmd.doc)
    <3>1. \A r, from, to, reach : IsRendered(RenderStandingPackage(r, from, to, reach))
      BY <1>2 DEF RenderStandingPackage, IsRendered
    <3>2. cmd.id \in {s.id} /\ cmd.doc \in standing(s)
      BY <1>0, <2>4
    <3> QED BY <3>1, <3>2, ScaffoldAssumption DEF standing
  <2> QED BY <2>0, <2>1, <2>2, <2>3, <2>4
<1> QED BY <1>1, <1>3 DEF IsRendered, Documents, Written

\* A creator's files are in a place: at its top, or inside another's directory.
In(c, id) == places[id] # NoPackage /\ c \in {places[id].by, places[id].inner}

\* InPlaceIsWhole forgets what a creator is about to do: it has looked in vain, has
\* nothing in place until it moves, and has its files in one place only.
CreatorInv ==
  /\ places \in [Ids -> Places(Documents) \cup {NoPackage}] /\ step \in [Creators -> Steps]
  /\ DOMAIN command = Creators /\ DOMAIN target = Creators /\ DOMAIN late = Creators
  /\ \A c \in Creators :
       /\ step[c] \in {"staged", "moving", "copying"} => command[c] \in Commands /\ ~late[c]
       /\ step[c] = "moving" /\ target[c] # "top" => Place(c) # NoPackage
       /\ step[c] = "copying" =>
            /\ In(c, command[c].id)
            /\ target[c] = "top" <=> Place(c).by = c
       /\ step[c] = "created" => \E id \in Ids : In(c, id)
  /\ \A id \in Ids, c \in Creators : In(c, id) =>
       /\ step[c] \in {"copying", "created", "killed"}
       /\ step[c] = "copying" => id = command[c].id
       /\ c = places[id].inner => c # places[id].by /\ ~late[c]
       /\ c = places[id].by => IF places[id].whole THEN step[c] = "created"
                                                   ELSE step[c] \in {"copying", "killed"}

\* A place with somebody's files in it is not empty.
LEMMA PlaceIsFilled ==
  ASSUME NEW place \in Places(Documents)
  PROVE  place # NoPackage
BY LaneAssumption

LEMMA InitCreators == Init => CreatorInv
<1> SUFFICES ASSUME Init PROVE CreatorInv
  OBVIOUS
<1>0. /\ DOMAIN command = Creators /\ DOMAIN target = Creators /\ DOMAIN late = Creators
      /\ subject \in Ids
  BY DEF Init, IdleCreators
<1>1. CASE part = "approving"
  <2> DEFINE first == CHOOSE c \in Creators : TRUE
  <2>0. first \in Creators
    BY ScaffoldAssumption
  <2>1. PICK doc \in Packages : Created(subject, first, doc)
    BY <1>1 DEF Init
  <2> HIDE DEF first
  <2>2. doc \in Documents
    BY <2>1, CommandFacts DEF Packages
  <2> DEFINE place == [doc |-> doc, by |-> first, whole |-> TRUE, inner |-> NoCreator]
  <2>3. place \in Places(Documents)
    BY <2>0, <2>2 DEF Places
  <2>4. /\ places = [id \in Ids |-> IF id # subject THEN NoPackage ELSE place]
        /\ step = [d \in Creators |-> IF d = first THEN "created" ELSE "unused"]
    BY <2>1 DEF Created
  <2>5. \A c \in Creators, id \in Ids : In(c, id) <=> c = first /\ id = subject
    BY <2>3, <2>4, PlaceIsFilled, ScaffoldAssumption DEF In
  <2>6. place.by = first /\ place.whole = TRUE /\ first # place.inner
    BY <2>0, ScaffoldAssumption
  <2> HIDE DEF place
  <2>7. places \in [Ids -> Places(Documents) \cup {NoPackage}] /\ step \in [Creators -> Steps]
    BY <2>3, <2>4 DEF Steps
  <2>8. \A c \in Creators : step[c] = IF c = first THEN "created" ELSE "unused"
    BY <2>4
  <2> QED BY <1>0, <2>0, <2>4, <2>5, <2>6, <2>7, <2>8 DEF CreatorInv
<1>2. CASE part # "approving"
  <2>1. places = [id \in Ids |-> NoPackage] /\ step = [c \in Creators |-> "unused"]
    BY <1>2 DEF Init
  <2> QED BY <1>0, <2>1 DEF CreatorInv, Steps, In
<1> QED BY <1>1, <1>2

\* A step of one creator leaves the command, the target and the look of the others alone.
OnlyMoves(c) ==
  \A d \in Creators \ {c} :
    step'[d] = step[d] /\ command'[d] = command[d] /\ target'[d] = target[d] /\ late'[d] = late[d]

\* A creator that puts nothing in place and has nothing there.
LEMMA WithoutPut ==
  ASSUME CreatorInv, NEW c \in Creators, OnlyMoves(c), places' = places,
         \A id \in Ids : ~In(c, id),
         step' \in [Creators -> Steps],
         DOMAIN command' = Creators, DOMAIN target' = Creators, DOMAIN late' = Creators,
         step'[c] \in {"staged", "moving"} => command'[c] \in Commands /\ ~late'[c],
         step'[c] = "moving" /\ target'[c] # "top" => places[command'[c].id] # NoPackage,
         step'[c] \notin {"copying", "created"}
  PROVE  CreatorInv'
<1>1. \A d \in Creators, id \in Ids : In(d, id)' <=> In(d, id)
  BY DEF In
<1>2. \A d \in Creators \ {c} :
        /\ step'[d] \in {"staged", "moving", "copying"} => command'[d] \in Commands /\ ~late'[d]
        /\ step'[d] = "moving" /\ target'[d] # "top" => Place(d)' # NoPackage
        /\ step'[d] = "copying" =>
             /\ In(d, command[d].id)'
             /\ target'[d] = "top" <=> Place(d)'.by = d
        /\ step'[d] = "created" => \E id \in Ids : In(d, id)'
  <2> TAKE d \in Creators \ {c}
  <2>1. Place(d)' = Place(d) /\ command'[d] = command[d]
    BY DEF Place, OnlyMoves
  <2>2. In(d, command[d].id)' <=> In(d, command[d].id)
    BY <2>1 DEF In
  <2> QED BY <1>1, <2>1, <2>2 DEF CreatorInv, OnlyMoves
<1>3. \A id \in Ids, d \in Creators : In(d, id)' =>
        /\ step'[d] \in {"copying", "created", "killed"}
        /\ step'[d] = "copying" => id = command'[d].id
        /\ d = places'[id].inner => d # places'[id].by /\ ~late'[d]
        /\ d = places'[id].by => IF places'[id].whole THEN step'[d] = "created"
                                                      ELSE step'[d] \in {"copying", "killed"}
  BY <1>1 DEF CreatorInv, OnlyMoves
<1>4. step'[c] = "moving" /\ target'[c] # "top" => Place(c)' # NoPackage
  BY DEF Place
<1>5. places' \in [Ids -> Places(Documents) \cup {NoPackage}]
  BY DEF CreatorInv
<1> HIDE DEF OnlyMoves
<1> QED BY <1>2, <1>3, <1>4, <1>5 DEF CreatorInv

\* A creator's files stay where they were, and as whole as they were.
Stays(d, id) ==
  /\ In(d, id)' <=> In(d, id)
  /\ In(d, id) => /\ places'[id].by = places[id].by
                  /\ d = places[id].by => places'[id].whole = places[id].whole
                  /\ d = places'[id].inner <=> d = places[id].inner

\* A move onto nothing makes a place; one into a directory that has none inside it leaves
\* the directory as it was but for that.
LEMMA PutFacts ==
  ASSUME CreatorInv, NEW c \in Creators, NEW whole \in BOOLEAN,
         step[c] = "moving", ~Taken(c), Put(c, whole)
  PROVE  /\ places' \in [Ids -> Places(Documents) \cup {NoPackage}]
         /\ \A id \in Ids : In(c, id)' <=> id = command[c].id
         /\ IF target[c] = "top"
            THEN /\ places'[command[c].id].by = c /\ places'[command[c].id].inner # c
                 /\ places'[command[c].id].whole = whole
            ELSE /\ places'[command[c].id].by # c /\ places'[command[c].id].inner = c
         /\ \A d \in Creators \ {c}, id \in Ids : Stays(d, id)
<1> DEFINE there == command[c].id
           made == [doc |-> command[c].doc, by |-> c, whole |-> whole, inner |-> NoCreator]
<1>1. there \in Ids /\ command[c].doc \in Documents
  BY CommandFacts DEF CreatorInv
<1>2. \A id \in Ids : ~In(c, id)
  BY DEF CreatorInv
<1>3. CASE target[c] = "top"
  <2>1. places[there] = NoPackage /\ places' = [places EXCEPT ![there] = made]
    BY <1>3 DEF Taken, Put, Place
  <2>2. /\ made \in Places(Documents) /\ made.by = c /\ made.inner = NoCreator
        /\ made.whole = whole /\ c # NoCreator
    BY <1>1, ScaffoldAssumption DEF Places
  <2> HIDE DEF made, there
  <2>3. /\ places' \in [Ids -> Places(Documents) \cup {NoPackage}] /\ places'[there] = made
        /\ \A id \in Ids \ {there} : places'[id] = places[id]
    BY <1>1, <2>1, <2>2 DEF CreatorInv
  <2>4. \A d \in Creators, id \in Ids : In(d, id)' <=> (d = c /\ id = there) \/ In(d, id)
    BY <2>1, <2>2, <2>3, PlaceIsFilled, ScaffoldAssumption DEF In
  <2>5. ~\E d : In(d, there)
    BY <2>1 DEF In
  <2>6. \A d \in Creators \ {c}, id \in Ids : Stays(d, id)
    BY <2>3, <2>4, <2>5 DEF Stays
  <2> QED BY <1>2, <1>3, <2>2, <2>3, <2>4, <2>6 DEF there
<1>4. CASE target[c] # "top"
  <2> DEFINE joined == [places[there] EXCEPT !.inner = c]
  <2>1. /\ places[there] # NoPackage /\ places[there].inner = NoCreator
        /\ places' = [places EXCEPT ![there] = joined]
    BY <1>4 DEF Taken, Put, Place, CreatorInv
  <2>2. places[there] \in Places(Documents)
    BY <1>1, <2>1 DEF CreatorInv
  <2>3. /\ joined \in Places(Documents) /\ joined.inner = c /\ c # NoCreator
        /\ joined.by = places[there].by /\ joined.whole = places[there].whole
    BY <2>2, ScaffoldAssumption DEF Places
  <2> HIDE DEF joined, there
  <2>4. /\ places' \in [Ids -> Places(Documents) \cup {NoPackage}] /\ places'[there] = joined
        /\ \A id \in Ids \ {there} : places'[id] = places[id]
    BY <1>1, <2>1, <2>3 DEF CreatorInv
  <2>5. places[there].by # c
    BY <1>1, <1>2, <2>1 DEF In
  <2>6. \A d \in Creators, id \in Ids : In(d, id)' <=> (d = c /\ id = there) \/ In(d, id)
    BY <1>1, <2>1, <2>3, <2>4, PlaceIsFilled, ScaffoldAssumption DEF In
  <2>7. \A d \in Creators \ {c}, id \in Ids : Stays(d, id)
    BY <1>1, <2>1, <2>3, <2>4, <2>6, ScaffoldAssumption DEF Stays
  <2> QED BY <1>2, <1>4, <2>3, <2>4, <2>5, <2>6, <2>7 DEF there
<1> QED BY <1>3, <1>4

\* A creator whose files are in one place, and whom its step leaves in a stage that fits.
LEMMA WithPut ==
  ASSUME CreatorInv, NEW c \in Creators, OnlyMoves(c), NEW there \in Ids,
         places' \in [Ids -> Places(Documents) \cup {NoPackage}],
         \A id \in Ids : In(c, id)' <=> id = there,
         \A id \in Ids : In(c, id) => id = there,
         \A d \in Creators \ {c}, id \in Ids : Stays(d, id),
         step' \in [Creators -> Steps],
         DOMAIN command' = Creators, DOMAIN target' = Creators, DOMAIN late' = Creators,
         ~late'[c],
         step'[c] \in {"copying", "created", "killed"},
         step'[c] = "copying" =>
           /\ command'[c] \in Commands /\ command'[c].id = there
           /\ target'[c] = "top" <=> places'[there].by = c,
         c = places'[there].inner => c # places'[there].by,
         c = places'[there].by => IF places'[there].whole THEN step'[c] = "created"
                                  ELSE step'[c] \in {"copying", "killed"}
  PROVE  CreatorInv'
<1>1. \A d \in Creators \ {c} :
        /\ step'[d] \in {"staged", "moving", "copying"} => command'[d] \in Commands /\ ~late'[d]
        /\ step'[d] = "moving" /\ target'[d] # "top" => Place(d)' # NoPackage
        /\ step'[d] = "copying" =>
             /\ In(d, command[d].id)' /\ command'[d] = command[d]
             /\ target'[d] = "top" <=> Place(d)'.by = d
        /\ step'[d] = "created" => \E id \in Ids : In(d, id)'
  <2> TAKE d \in Creators \ {c}
  <2>0. UNCHANGED <<step[d], command[d], target[d], late[d]>>
    BY DEF OnlyMoves
  <2>1. step[d] \in {"staged", "moving", "copying"} =>
          command[d] \in Commands /\ ~late[d] /\ command[d].id \in Ids
    BY CommandFacts DEF CreatorInv
  <2>2. step[d] = "moving" /\ target[d] # "top" => Place(d)' # NoPackage
    <3> SUFFICES ASSUME step[d] = "moving", target[d] # "top" PROVE Place(d)' # NoPackage
      OBVIOUS
    <3>1. PICK own \in Ids : own = command[d].id
      BY <2>1
    <3>2. places[own] # NoPackage /\ places[own] \in Places(Documents)
      BY <3>1 DEF CreatorInv, Place
    <3>3. places[own].by \in Creators /\ In(places[own].by, own)
      BY <3>2 DEF Places, In
    <3>4. PICK by \in Creators : In(by, own) /\ by = places[own].by
      BY <3>3
    <3>5. In(by, own)' \/ In(c, own)'
      BY <3>4 DEF Stays
    <3> QED BY <2>0, <3>1, <3>5 DEF In, Place
  <2>3. ASSUME step[d] = "copying"
        PROVE  /\ In(d, command[d].id)' /\ command'[d] = command[d]
               /\ target'[d] = "top" <=> Place(d)'.by = d
    <3>0. PICK own \in Ids : own = command[d].id
      BY <2>1, <2>3
    <3>1. In(d, own) /\ (target[d] = "top" <=> places[own].by = d)
      BY <2>3, <3>0 DEF CreatorInv, Place
    <3>2. Stays(d, own)
      BY <3>1
    <3>3. command'[d].id = own
      BY <2>0, <3>0
    <3>4. /\ places'[own] # NoPackage /\ d \in {places'[own].by, places'[own].inner}
          /\ target[d] = "top" <=> places'[own].by = d
      BY <3>1, <3>2 DEF Stays, In
    <3>5. Place(d)' = places'[own]
      BY <3>3 DEF Place
    <3> QED BY <2>0, <3>0, <3>3, <3>4, <3>5 DEF In
  <2>4. ASSUME step[d] = "created" PROVE \E id \in Ids : In(d, id)'
    <3>1. PICK id \in Ids : In(d, id)
      BY <2>4 DEF CreatorInv
    <3> QED BY <3>1 DEF Stays
  <2> QED BY <2>0, <2>1, <2>2, <2>3, <2>4
<1>2. \A id \in Ids, d \in Creators \ {c} : In(d, id)' =>
        /\ step'[d] \in {"copying", "created", "killed"}
        /\ step'[d] = "copying" => id = command'[d].id
        /\ d = places'[id].inner => d # places'[id].by /\ ~late'[d]
        /\ d = places'[id].by => IF places'[id].whole THEN step'[d] = "created"
                                                      ELSE step'[d] \in {"copying", "killed"}
  BY DEF CreatorInv, OnlyMoves, Stays
<1>3. In(c, there)'
  OBVIOUS
<1>4. /\ step'[c] # "staged" /\ step'[c] # "moving"
      /\ step'[c] = "copying" =>
           In(c, command[c].id)' /\ (target'[c] = "top" <=> Place(c)'.by = c)
  BY DEF In, Place
<1>5. \A id \in Ids : In(c, id)' =>
        /\ step'[c] \in {"copying", "created", "killed"}
        /\ step'[c] = "copying" => id = command'[c].id
        /\ c = places'[id].inner => c # places'[id].by /\ ~late'[c]
        /\ c = places'[id].by => IF places'[id].whole THEN step'[c] = "created"
                                                      ELSE step'[c] \in {"copying", "killed"}
  OBVIOUS
<1> HIDE DEF OnlyMoves
<1> QED BY <1>1, <1>2, <1>3, <1>4, <1>5 DEF CreatorInv

\* Whoever is not the creator of a step keeps its command, and the domains stay.
LEMMA Keeps ==
  ASSUME CreatorInv, NEW c \in Creators,
         Begin(c) \/ LookAtTarget(c) \/ MoveStaged(c) \/ FinishCopy(c) \/ Die(c)
  PROVE  /\ OnlyMoves(c) /\ step' \in [Creators -> Steps]
         /\ DOMAIN command' = Creators /\ DOMAIN target' = Creators /\ DOMAIN late' = Creators
<1> USE DEF CreatorInv, OnlyMoves, End, Goto_, Steps
<1>1. CASE Begin(c)
  BY <1>1 DEF Begin
<1>2. CASE LookAtTarget(c)
  BY <1>2 DEF LookAtTarget
<1>3. CASE MoveStaged(c)
  <2>1. late' = late
    BY <1>3 DEF MoveStaged
  <2>2. \/ End(c, "created") \/ End(c, "failed")
        \/ Goto_(c, "copying") /\ UNCHANGED <<command, target>>
    BY <1>3 DEF MoveStaged
  <2> QED BY <2>1, <2>2
<1>4. CASE FinishCopy(c)
  BY <1>4 DEF FinishCopy
<1>5. CASE Die(c)
  BY <1>5 DEF Die
<1> QED BY <1>1, <1>2, <1>3, <1>4, <1>5

\* A creator that is not at its copy yet has nothing in place.
LEMMA NothingYet ==
  ASSUME CreatorInv, NEW c \in Creators, step[c] \in {"unused", "staged", "moving"}
  PROVE  \A id \in Ids : ~In(c, id)
BY DEF CreatorInv

\* A copy that ends: it is whole now, or its creator was killed and it stays as it is.
LEMMA EndsCopy ==
  ASSUME CreatorInv, NEW c \in Creators, step[c] = "copying",
         FinishCopy(c) \/ Die(c)
  PROVE  CreatorInv'
<1>0. /\ OnlyMoves(c) /\ step' \in [Creators -> Steps]
      /\ DOMAIN command' = Creators /\ DOMAIN target' = Creators /\ DOMAIN late' = Creators
  BY Keeps
<1>1. PICK there \in Ids : there = command[c].id
  BY CommandFacts DEF CreatorInv
<1>2. \A id \in Ids : In(c, id) <=> id = there
  BY <1>1 DEF CreatorInv
<1>3. /\ target[c] = "top" <=> places[there].by = c
      /\ c = places[there].inner => c # places[there].by
      /\ ~late[c] /\ places[there] # NoPackage
  BY <1>1, <1>2 DEF CreatorInv, Place, In
<1>4. places[there] \in Places(Documents)
  BY <1>3 DEF CreatorInv
<1>5. CASE FinishCopy(c) /\ target[c] = "top"
  <2> DEFINE done == [places[there] EXCEPT !.whole = TRUE]
  <2>1. places' = [places EXCEPT ![there] = done]
    BY <1>1, <1>5 DEF FinishCopy
  <2>2. /\ done \in Places(Documents) /\ done.whole = TRUE
        /\ done.by = places[there].by /\ done.inner = places[there].inner
    BY <1>4 DEF Places
  <2> HIDE DEF done
  <2>3. /\ places' \in [Ids -> Places(Documents) \cup {NoPackage}] /\ places'[there] = done
        /\ \A id \in Ids \ {there} : places'[id] = places[id]
    BY <2>1, <2>2 DEF CreatorInv
  <2>4. \A d \in Creators, id \in Ids : In(d, id)' <=> In(d, id)
    BY <1>3, <2>2, <2>3, PlaceIsFilled DEF In
  <2>5. \A d \in Creators \ {c}, id \in Ids : Stays(d, id)
    BY <1>3, <1>5, <2>2, <2>3, <2>4 DEF Stays
  <2>6. step'[c] = "created" /\ ~late'[c]
    BY <1>3, <1>5 DEF FinishCopy, End, CreatorInv
  <2> QED BY <1>0, <1>2, <1>3, <2>2, <2>3, <2>4, <2>5, <2>6, WithPut
<1>6. CASE (FinishCopy(c) /\ target[c] # "top") \/ Die(c)
  <2>1. places' = places /\ late' = late
    BY <1>6 DEF FinishCopy, Die
  <2>2. step'[c] = IF Die(c) THEN "killed" ELSE "created"
    BY <1>6 DEF FinishCopy, Die, End, CreatorInv
  <2>3. \A d \in Creators, id \in Ids : (In(d, id)' <=> In(d, id)) /\ Stays(d, id)
    BY <2>1 DEF In, Stays
  <2>4. c = places[there].by => ~places[there].whole /\ Die(c)
    BY <1>1, <1>2, <1>3, <1>6 DEF CreatorInv
  <2>5. places' \in [Ids -> Places(Documents) \cup {NoPackage}]
    BY <2>1 DEF CreatorInv
  <2>6. /\ ~late'[c] /\ step'[c] \in {"copying", "created", "killed"} /\ step'[c] # "copying"
        /\ c = places'[there].inner => c # places'[there].by
        /\ c = places'[there].by => IF places'[there].whole THEN step'[c] = "created"
                                    ELSE step'[c] \in {"copying", "killed"}
    BY <1>3, <2>1, <2>2, <2>4
  <2> QED BY <1>0, <1>2, <2>3, <2>5, <2>6, WithPut
<1> QED BY <1>5, <1>6

LEMMA NextCreators == CreatorInv /\ [Next]_vars => CreatorInv'
<1> SUFFICES ASSUME CreatorInv, [Next]_vars PROVE CreatorInv'
  OBVIOUS
<1>1. CASE UNCHANGED <<places, creating>>
  BY <1>1 DEF CreatorInv, In, Place, creating
<1>2. CASE EditPackage
  <2>0. PICK id \in Ids, e \in FieldValues :
          /\ places[id] # NoPackage
          /\ places' = [places EXCEPT ![id].doc[e[1]] = e[2]]
    BY <1>2 DEF EditPackage
  <2>1. UNCHANGED creating
    BY <1>2 DEF EditPackage
  <2> DEFINE edited == [places[id] EXCEPT !.doc[e[1]] = e[2]]
  <2>2. places' = [places EXCEPT ![id] = edited]
    BY <2>0
  <2>3. places[id] \in Places(Documents)
    BY <2>0 DEF CreatorInv
  <2>4. [places[id].doc EXCEPT ![e[1]] = e[2]] \in Documents
    <3>1. places[id].doc \in [Fields -> Written]
      BY <2>3 DEF Places, Documents
    <3>2. e[2] \in Written
      BY DEF Written
    <3>3. [places[id].doc EXCEPT ![e[1]] = e[2]] \in [Fields -> Written]
      BY <3>1, <3>2
    <3> QED BY <3>3 DEF Documents
  <2>5. /\ edited \in Places(Documents) /\ edited.by = places[id].by
        /\ edited.whole = places[id].whole /\ edited.inner = places[id].inner
    BY <2>3, <2>4 DEF Places
  <2> HIDE DEF edited
  <2>6. /\ places' \in [Ids -> Places(Documents) \cup {NoPackage}] /\ places'[id] = edited
        /\ \A i \in Ids \ {id} : places'[i] = places[i]
    BY <2>2, <2>5 DEF CreatorInv
  <2>7. \A i \in Ids :
          /\ places'[i] = NoPackage <=> places[i] = NoPackage
          /\ places[i] # NoPackage => /\ places'[i].by = places[i].by
                                      /\ places'[i].whole = places[i].whole
                                      /\ places'[i].inner = places[i].inner
    BY <2>0, <2>5, <2>6, PlaceIsFilled
  <2>8. \A c \in Creators, i \in Ids : In(c, i)' <=> In(c, i)
    BY <2>7 DEF In
  <2>9. \A c \in Creators : step'[c] = step[c] /\ command'[c] = command[c]
                             /\ target'[c] = target[c] /\ late'[c] = late[c]
    BY <2>1 DEF creating
  <2>10. \A c \in Creators : step[c] \in {"moving", "copying"} =>
           /\ Place(c) # NoPackage => Place(c)' # NoPackage /\ Place(c)'.by = Place(c).by
           /\ step[c] = "copying" => (In(c, command[c].id)' <=> In(c, command[c].id))
    <3> TAKE c \in Creators
    <3> SUFFICES ASSUME step[c] \in {"moving", "copying"} PROVE
           /\ Place(c) # NoPackage => Place(c)' # NoPackage /\ Place(c)'.by = Place(c).by
           /\ step[c] = "copying" => (In(c, command[c].id)' <=> In(c, command[c].id))
      OBVIOUS
    <3>1. PICK i \in Ids : i = command[c].id
      BY CommandFacts DEF CreatorInv
    <3> QED BY <2>7, <2>9, <3>1 DEF In, Place
  <2>11. \A c \in Creators :
           /\ step'[c] \in {"staged", "moving", "copying"} => command'[c] \in Commands /\ ~late'[c]
           /\ step'[c] = "moving" /\ target'[c] # "top" => Place(c)' # NoPackage
           /\ step'[c] = "copying" =>
                /\ In(c, command[c].id)'
                /\ target'[c] = "top" <=> Place(c)'.by = c
           /\ step'[c] = "created" => \E i \in Ids : In(c, i)'
    BY <2>8, <2>9, <2>10 DEF CreatorInv, In, Place
  <2>12. \A i \in Ids, c \in Creators : In(c, i)' =>
           /\ step'[c] \in {"copying", "created", "killed"}
           /\ step'[c] = "copying" => i = command'[c].id
           /\ c = places'[i].inner => c # places'[i].by /\ ~late'[c]
           /\ c = places'[i].by => IF places'[i].whole THEN step'[c] = "created"
                                   ELSE step'[c] \in {"copying", "killed"}
    BY <2>7, <2>8, <2>9 DEF CreatorInv, In
  <2> QED BY <2>1, <2>6, <2>11, <2>12 DEF CreatorInv, creating
<1>3. ASSUME NEW c \in Creators, Begin(c) PROVE CreatorInv'
  <2>1. \A id \in Ids : ~In(c, id)
    BY <1>3, NothingYet DEF Begin
  <2>2. /\ places' = places /\ step'[c] \in {"staged", "refused"}
        /\ step'[c] = "staged" => command'[c] \in Commands /\ ~late'[c]
    <3>1. PICK cmd \in Commands :
            /\ late' = [late EXCEPT ![c] = places[cmd.id] # NoPackage]
            /\ \/ /\ places[cmd.id] = NoPackage /\ Goto_(c, "staged")
                  /\ command' = [command EXCEPT ![c] = cmd]
               \/ End(c, "refused")
      BY <1>3 DEF Begin
    <3>2. places' = places
      BY <1>3 DEF Begin
    <3>3. late'[c] = (places[cmd.id] # NoPackage)
      BY <3>1 DEF CreatorInv
    <3>4. CASE End(c, "refused")
      BY <3>2, <3>4 DEF End, CreatorInv
    <3>5. CASE /\ places[cmd.id] = NoPackage /\ Goto_(c, "staged")
               /\ command' = [command EXCEPT ![c] = cmd]
      <4>1. step'[c] = "staged" /\ command'[c] = cmd
        BY <3>5 DEF Goto_, CreatorInv
      <4>2. ~late'[c]
        BY <3>3, <3>5
      <4> QED BY <3>2, <4>1, <4>2
    <3> QED BY <3>1, <3>4, <3>5
  <2> QED BY <1>3, <2>1, <2>2, Keeps, WithoutPut
<1>4. ASSUME NEW c \in Creators, LookAtTarget(c) PROVE CreatorInv'
  <2>1. \A id \in Ids : ~In(c, id)
    BY <1>4, NothingYet DEF LookAtTarget
  <2>2. /\ places' = places /\ step'[c] \in {"moving", "failed"}
        /\ step'[c] = "moving" =>
             /\ command'[c] \in Commands /\ ~late'[c]
             /\ target'[c] # "top" => places[command'[c].id] # NoPackage
    BY <1>4 DEF LookAtTarget, End, Goto_, CreatorInv, Place
  <2> QED BY <1>4, <2>1, <2>2, Keeps, WithoutPut
<1>5. ASSUME NEW c \in Creators, MoveStaged(c) PROVE CreatorInv'
  <2>0. step[c] = "moving" /\ late' = late
    BY <1>5 DEF MoveStaged
  <2>1. \A id \in Ids : ~In(c, id)
    BY <2>0, NothingYet
  <2>2. PICK there \in Ids : there = command[c].id /\ command[c] \in Commands /\ ~late[c]
    BY <2>0, CommandFacts DEF CreatorInv
  <2>3. CASE Taken(c)
    <3>1. places' = places /\ step'[c] = "failed"
      BY <1>5, <2>3 DEF MoveStaged, End, CreatorInv
    <3> QED BY <1>5, <2>1, <3>1, Keeps, WithoutPut
  <2>4. ASSUME NEW whole \in BOOLEAN, ~Taken(c), Put(c, whole),
               step'[c] = IF whole THEN "created" ELSE "copying",
               ~whole => UNCHANGED <<command, target>>
        PROVE  CreatorInv'
    <3>1. /\ places' \in [Ids -> Places(Documents) \cup {NoPackage}]
          /\ \A id \in Ids : In(c, id)' <=> id = there
          /\ IF target[c] = "top"
             THEN /\ places'[there].by = c /\ places'[there].inner # c
                  /\ places'[there].whole = whole
             ELSE /\ places'[there].by # c /\ places'[there].inner = c
          /\ \A d \in Creators \ {c}, id \in Ids : Stays(d, id)
      BY <2>0, <2>2, <2>4, PutFacts
    <3>2. /\ ~late'[c] /\ step'[c] \in {"copying", "created", "killed"}
          /\ step'[c] = "copying" =>
               /\ command'[c] \in Commands /\ command'[c].id = there
               /\ target'[c] = "top" <=> places'[there].by = c
          /\ c = places'[there].inner => c # places'[there].by
          /\ c = places'[there].by => IF places'[there].whole THEN step'[c] = "created"
                                      ELSE step'[c] \in {"copying", "killed"}
      BY <2>0, <2>2, <2>4, <3>1
    <3> QED BY <1>5, <2>1, <3>1, <3>2, Keeps, WithPut
  <2>5. CASE ~Taken(c)
    <3>1. \E whole \in BOOLEAN :
            /\ Put(c, whole) /\ step'[c] = (IF whole THEN "created" ELSE "copying")
            /\ ~whole => UNCHANGED <<command, target>>
      <4>1. CASE oneDevice
        <5>1. Put(c, TRUE) /\ step'[c] = "created"
          <6>1. Put(c, TRUE) /\ End(c, "created")
            BY <1>5, <2>5, <4>1 DEF MoveStaged
          <6> QED BY <6>1 DEF End, CreatorInv
        <5> QED BY <5>1
      <4>2. CASE ~oneDevice
        <5>1. Put(c, FALSE) /\ step'[c] = "copying" /\ UNCHANGED <<command, target>>
          <6>1. Put(c, FALSE) /\ Goto_(c, "copying") /\ UNCHANGED <<command, target>>
            BY <1>5, <2>5, <4>2 DEF MoveStaged
          <6> QED BY <6>1 DEF Goto_, CreatorInv
        <5> QED BY <5>1
      <4> QED BY <4>1, <4>2
    <3> QED BY <2>4, <2>5, <3>1
  <2> QED BY <2>3, <2>5
<1>6. ASSUME NEW c \in Creators, Die(c), step[c] # "copying" PROVE CreatorInv'
  <2>1. \A id \in Ids : ~In(c, id)
    BY <1>6, NothingYet DEF Die
  <2>2. places' = places /\ step'[c] = "killed"
    BY <1>6 DEF Die, End, CreatorInv
  <2> QED BY <1>6, <2>1, <2>2, Keeps, WithoutPut
<1>7. CASE ScaffoldNext
  <2>1. PICK c \in Creators :
          Begin(c) \/ LookAtTarget(c) \/ MoveStaged(c) \/ FinishCopy(c) \/ Die(c)
    BY <1>7 DEF ScaffoldNext
  <2>2. CASE FinishCopy(c)
    BY <1>7, <2>2, EndsCopy DEF FinishCopy
  <2>3. CASE Begin(c)
    BY <1>3, <1>7, <2>3
  <2>4. CASE LookAtTarget(c)
    BY <1>4, <1>7, <2>4
  <2>5. CASE MoveStaged(c)
    BY <1>5, <1>7, <2>5
  <2>6. CASE Die(c)
    <3>1. CASE step[c] = "copying"
      BY <1>7, <2>6, <3>1, EndsCopy
    <3> QED BY <1>6, <1>7, <2>6, <3>1
  <2> QED BY <2>1, <2>2, <2>3, <2>4, <2>5, <2>6
<1> QED BY <1>1, <1>2, <1>7 DEF Next, vars, Creating, Approving, Proposing, ReplacePolicy,
                             ChangeRecord, BeginApprove, Validate, Load, Consult, scaffold

\* A package directory holds the whole of one creator's package, unless that creator is at
\* its copy or was killed at it, and a creator that reports success has its files there or
\* inside another's (scaffolds.py, _materialize): what holds when two creators meet.
THEOREM CreatedIsWhole == Spec => []InPlaceIsWhole
<1>1. CreatorInv => InPlaceIsWhole
  <2> SUFFICES ASSUME CreatorInv PROVE InPlaceIsWhole
    OBVIOUS
  <2>1. ASSUME NEW id \in Ids, places[id] # NoPackage
        PROVE  /\ places[id].by \in Creators /\ In(places[id].by, id)
               /\ places[id].inner \in Creators \cup {NoCreator}
               /\ places[id].inner # NoCreator => In(places[id].inner, id)
    BY <2>1 DEF CreatorInv, Places, In
  <2>2. ASSUME NEW c \in Creators, step[c] = "created"
        PROVE  \E id \in Ids : places[id] # NoPackage /\ c \in {places[id].by, places[id].inner}
    BY <2>2 DEF CreatorInv, In
  <2> QED BY <2>1, <2>2 DEF InPlaceIsWhole, CreatorInv
<1> QED BY <1>1, InitCreators, NextCreators, PTL DEF Spec

-----------------------------------------------------------------------------
(* Types. *)

\* An approval has an approver from its begin to its end, and a package once it has
\* loaded one; that there is one to load needs that it validated.
ApprovalTyped ==
  /\ part \in {"creating", "approving", "proposing"}
  /\ policy \in PolicyDocuments /\ members \in MemberRecords /\ edits \in 0..MaxEdits
  /\ stage \in ApprovalStages /\ subject \in Ids
  /\ stage # "idle" => part = "approving"
  /\ stage \in {"validating", "loading", "consulting"} => approver # NoApprover
  /\ stage \notin {"validating", "loading", "consulting"} => approver = NoApprover
  /\ stage = "loading" => places[subject] # NoPackage
  /\ stage = "consulting" => opened \in Documents
  /\ stage # "consulting" => opened = NoPackage

Active == {"staged", "moving", "copying"}

CallsTyped ==
  /\ oneDevice \in BOOLEAN /\ late \in [Creators -> BOOLEAN]
  /\ \A c \in Creators :
       /\ step[c] \notin Active => command[c] = NoCommand
       /\ step[c] \in {"moving", "copying"} => target[c] # "none"
       /\ step[c] \notin {"moving", "copying"} => target[c] = "none"

ProposalsTyped == rows \subseteq Proposals /\ adrift \subseteq Proposals

LEMMA InitTypes == Init => ApprovalTyped /\ CallsTyped /\ ProposalsTyped
<1> SUFFICES ASSUME Init PROVE ApprovalTyped /\ CallsTyped /\ ProposalsTyped
  OBVIOUS
<1>1. ApprovalTyped
  BY LaneAssumption DEF Init, ApprovalTyped, ApprovalStages
<1>2. CallsTyped
  <2>1. \A c \in Creators : step[c] \in {"created", "unused"}
    BY DEF Init, Created
  <2>2. late \in [Creators -> BOOLEAN] /\ oneDevice \in BOOLEAN
    BY DEF Init, IdleCreators
  <2> QED BY <2>1, <2>2 DEF Init, IdleCreators, CallsTyped, Active
<1>3. ProposalsTyped
  BY DEF Init, DecomposeInit, ProposalsTyped
<1> QED BY <1>1, <1>2, <1>3

LEMMA NextProposalsTyped == RunInv /\ ProposalsTyped /\ [Next]_vars => ProposalsTyped'
<1> SUFFICES ASSUME RunInv, ProposalsTyped, [Next]_vars PROVE ProposalsTyped'
  OBVIOUS
<1>1. CASE UNCHANGED <<rows, adrift>>
  BY <1>1 DEF ProposalsTyped
<1>2. ASSUME NEW p \in Runs, at[p] = "posting" PROVE Proposal(p) \in Proposals
  <2>1. request[p] \in Requests
    BY <1>2 DEF RunInv, Gathered
  <2> QED BY <2>1 DEF Proposal, Proposals, IdempotencyKey
<1>3. ASSUME NEW p \in Runs, RunStep(p) PROVE ProposalsTyped'
  <2>1. CASE ActOnProposal(p) \/ PostTimesOut(p)
    <3>1. at[p] = "posting" /\ rows' \subseteq rows \cup {Proposal(p)}
          /\ adrift' \subseteq adrift \cup {Proposal(p)}
      BY <2>1 DEF ActOnProposal, PostTimesOut, Step
    <3> QED BY <1>2, <3>1 DEF ProposalsTyped
  <2>2. CASE ~(ActOnProposal(p) \/ PostTimesOut(p))
    BY <1>1, <1>3, <2>2
    DEF RunStep, BeginDecompose, FetchOrigin, Compare, Discover, ReadIntake, Build, Defer, DryRun,
        StepFails
  <2> QED BY <2>1, <2>2
<1>4. CASE ActLate
  <2>1. rows' \subseteq rows \cup adrift /\ adrift' \subseteq adrift
    BY <1>4 DEF ActLate
  <2> QED BY <2>1 DEF ProposalsTyped
<1> QED
  BY <1>1, <1>3, <1>4, LaneSteps DEF decompose, Push, Pull, EditCheckout, Changes

LEMMA NextApproval == CreatorInv /\ ApprovalTyped /\ [Next]_vars => ApprovalTyped'
<1> SUFFICES ASSUME CreatorInv, ApprovalTyped, [Next]_vars PROVE ApprovalTyped'
  OBVIOUS
<1> USE DEF ApprovalTyped
<1>1. CASE UNCHANGED vars
  BY <1>1 DEF vars, approval, documents, scaffold
<1>2. CASE Creating \/ Proposing
  <2>1. stage = "idle" /\ UNCHANGED <<part, documents, approval>>
    BY <1>2 DEF Creating, Proposing
  <2> QED BY <2>1 DEF documents, approval
<1>3. CASE Approving /\ (EditPackage \/ ReplacePolicy \/ ChangeRecord)
  <2>1. /\ UNCHANGED <<part, approval>> /\ edits' = edits + 1 /\ edits < MaxEdits
        /\ policy' \in PolicyDocuments /\ members' \in MemberRecords
    BY <1>3 DEF Approving, EditPackage, ReplacePolicy, ChangeRecord
  <2>2. edits' \in 0..MaxEdits
    BY <2>1, LaneAssumption
  <2>3. stage = "loading" => places'[subject] # NoPackage
    <3>1. CASE UNCHANGED places
      BY <3>1
    <3>2. CASE EditPackage
      <4>1. CreatorInv'
        BY NextCreators
      <4>2. PICK id \in Ids, e \in FieldValues :
              places[id] # NoPackage /\ places' = [places EXCEPT ![id].doc[e[1]] = e[2]]
        BY <3>2 DEF EditPackage
      <4>3. \A i \in Ids \ {id} : places'[i] = places[i]
        BY <4>2 DEF CreatorInv
      <4>4. places'[id] # NoPackage
        <5> DEFINE edited == [places[id] EXCEPT !.doc[e[1]] = e[2]]
        <5>1. places' = [places EXCEPT ![id] = edited]
          BY <4>2
        <5>2. places[id] \in Places(Documents)
          BY <4>2 DEF CreatorInv
        <5>3. [places[id].doc EXCEPT ![e[1]] = e[2]] \in Documents
          <6>1. places[id].doc \in [Fields -> Written]
            BY <5>2 DEF Places, Documents
          <6>2. e[2] \in Written
            BY DEF Written
          <6>3. [places[id].doc EXCEPT ![e[1]] = e[2]] \in [Fields -> Written]
            BY <6>1, <6>2
          <6> QED BY <6>3 DEF Documents
        <5>4. edited \in Places(Documents)
          BY <5>2, <5>3 DEF Places
        <5>5. places'[id] = edited
          <6> HIDE DEF edited
          <6> QED BY <5>1 DEF CreatorInv
        <5> QED BY <5>4, <5>5, PlaceIsFilled
      <4> QED BY <4>3, <4>4
    <3> QED BY <1>3, <3>1, <3>2 DEF ReplacePolicy, ChangeRecord, scaffold
  <2> QED BY <2>1, <2>2, <2>3 DEF approval
<1>4. CASE Approving /\ BeginApprove
  <2> DEFINE loaded == LoadPolicy(policy)
             profile == places[subject].doc.profile
  <2>1. part = "approving" /\ stage = "idle" /\ opened = NoPackage
        /\ UNCHANGED <<part, documents, subject>>
    BY <1>4 DEF Approving, BeginApprove
  <2>2. CASE EndApproval("refused")
    BY <2>1, <2>2 DEF EndApproval, ApprovalStages, documents
  <2>3. CASE /\ stage' = "validating" /\ approver' \in GivenApprovers /\ UNCHANGED opened
    BY <2>1, <2>3, LaneAssumption DEF ApprovalStages, documents
  <2>4. CASE /\ Present(subject) /\ IsText(profile) /\ stage' = "validating"
             /\ approver' = ApproverFor(loaded, Content(profile)) /\ UNCHANGED opened
    <3>1. places[subject] \in Places(Documents)
      BY <2>4 DEF Present, CreatorInv
    <3>2. places[subject].doc \in Documents
      BY <3>1 DEF Places
    <3>3. profile \in Written
      BY <3>2 DEF Documents, Fields
    <3>4. approver' # NoApprover
      BY <2>4, <3>3, LaneAssumption
    <3> QED BY <2>1, <2>4, <3>4 DEF ApprovalStages, documents
  <2> QED BY <1>4, <2>2, <2>3, <2>4 DEF Approving, BeginApprove
<1>5. CASE Approving /\ (Validate \/ Load \/ Consult)
  <2>1. part = "approving" /\ UNCHANGED <<part, documents, subject, places>>
    BY <1>5 DEF Approving, Validate, Load, Consult, scaffold
  <2>2. CASE Validate
    BY <2>1, <2>2 DEF Validate, EndApproval, Present, ApprovalStages, documents
  <2>3. CASE Load
    <3>1. places[subject] \in Places(Documents) /\ opened' = places[subject].doc
      BY <2>3 DEF Load, CreatorInv
    <3>2. opened' \in Documents
      BY <3>1 DEF Places
    <3> QED BY <2>1, <2>3, <3>2 DEF Load, ApprovalStages, documents
  <2>4. CASE Consult
    BY <2>1, <2>4 DEF Consult, EndApproval, ApprovalStages, documents
  <2> QED BY <1>5, <2>2, <2>3, <2>4
<1> QED BY <1>1, <1>2, <1>3, <1>4, <1>5 DEF Next, Approving

LEMMA NextCalls == CreatorInv /\ CallsTyped /\ [Next]_vars => CallsTyped'
<1> SUFFICES ASSUME CreatorInv, CallsTyped, [Next]_vars PROVE CallsTyped'
  OBVIOUS
<1>1. CASE UNCHANGED <<oneDevice, creating>>
  BY <1>1 DEF CallsTyped, creating
<1>2. CASE Creating
  <2>1. PICK c \in Creators :
          Begin(c) \/ LookAtTarget(c) \/ MoveStaged(c) \/ FinishCopy(c) \/ Die(c)
    BY <1>2 DEF Creating, ScaffoldNext
  <2>2. CreatorInv'
    BY NextCreators
  <2>3. oneDevice' \in BOOLEAN
    BY <2>1 DEF Begin, LookAtTarget, MoveStaged, FinishCopy, Die, CallsTyped
  <2>4. late' \in [Creators -> BOOLEAN]
    <3>1. CASE late' = late
      BY <3>1 DEF CallsTyped
    <3>2. CASE Begin(c)
      <4>1. PICK cmd \in Commands : late' = [late EXCEPT ![c] = places[cmd.id] # NoPackage]
        BY <3>2 DEF Begin
      <4>2. (places[cmd.id] # NoPackage) \in BOOLEAN
        OBVIOUS
      <4> QED BY <4>1, <4>2, Zenon DEF CallsTyped
    <3> QED BY <2>1, <3>1, <3>2 DEF LookAtTarget, MoveStaged, FinishCopy, Die
  <2>5. OnlyMoves(c)
    BY <2>1, Keeps
  <2>6. \A d \in Creators \ {c} :
          /\ step'[d] \notin Active => command'[d] = NoCommand
          /\ step'[d] \in {"moving", "copying"} => target'[d] # "none"
          /\ step'[d] \notin {"moving", "copying"} => target'[d] = "none"
    BY <2>5 DEF OnlyMoves, CallsTyped
  <2>7. /\ step'[c] \notin Active => command'[c] = NoCommand
        /\ step'[c] \in {"moving", "copying"} => target'[c] # "none"
        /\ step'[c] \notin {"moving", "copying"} => target'[c] = "none"
    <3>1. ASSUME NEW how \in Steps \ Active, End(c, how)
          PROVE  step'[c] \notin Active /\ command'[c] = NoCommand /\ target'[c] = "none"
      BY <3>1 DEF End, CreatorInv
    <3>2. CASE \E how \in Steps \ Active : End(c, how)
      BY <3>1, <3>2 DEF Active
    <3>3. CASE Begin(c) /\ Goto_(c, "staged")
      <4>1. step'[c] = "staged" /\ step[c] = "unused" /\ target' = target
        BY <3>3 DEF Begin, Goto_, CreatorInv
      <4> QED BY <4>1 DEF CallsTyped, Active
    <3>4. CASE LookAtTarget(c) /\ Goto_(c, "moving")
      <4>1. step'[c] = "moving" /\ target'[c] \in {"top", "inside"}
        BY <3>4 DEF LookAtTarget, Goto_, End, CreatorInv
      <4> QED BY <4>1 DEF Active
    <3>5. CASE MoveStaged(c) /\ Goto_(c, "copying") /\ UNCHANGED <<command, target>>
      <4>1. step'[c] = "copying" /\ target'[c] = target[c] /\ step[c] = "moving"
        BY <3>5 DEF MoveStaged, Goto_, CreatorInv
      <4> QED BY <4>1 DEF CallsTyped, Active
    <3> QED
      BY <2>1, <3>2, <3>3, <3>4, <3>5
      DEF Begin, LookAtTarget, MoveStaged, FinishCopy, Die, Steps, Active
  <2> QED BY <2>3, <2>4, <2>6, <2>7 DEF CallsTyped
<1> QED
  BY <1>1, <1>2
  DEF Next, vars, scaffold, Approving, Proposing, EditPackage, ReplacePolicy, ChangeRecord,
      BeginApprove, Validate, Load, Consult

\* A run that posts has its request, its findings and its proof together, an approval that
\* is consulted on has a package, and a creator's command lasts as long as its call.
THEOREM LaneTyped == Spec => []TypeOK
<1> DEFINE Inv == /\ CreatorInv /\ RunInv
                  /\ ApprovalTyped /\ CallsTyped /\ ProposalsTyped
<1>1. Init => Inv
  BY InitCreators, InitRuns, InitTypes
<1>2. Inv /\ [Next]_vars => Inv'
  BY NextCreators, NextRuns, NextApproval, NextCalls, NextProposalsTyped
<1>3. Inv => TypeOK
  <2> SUFFICES ASSUME Inv PROVE TypeOK
    OBVIOUS
  <2>1. (approver # NoApprover) = (stage \in {"validating", "loading", "consulting"})
    BY DEF ApprovalTyped
  <2>2. (opened # NoPackage) = (stage = "consulting")
    BY LaneAssumption DEF ApprovalTyped
  <2>3. ASSUME NEW id \in Ids, places[id] # NoPackage
        PROVE  /\ places[id].by \in Creators /\ places[id].inner \in Creators \cup {NoCreator}
               /\ DOMAIN places[id].doc = Fields
    <3>1. places[id] \in Places(Documents)
      BY <2>3 DEF CreatorInv
    <3> QED BY <3>1 DEF Places, Documents
  <2>4. ASSUME NEW c \in Creators
        PROVE  /\ (command[c] # NoCommand) = (step[c] \in {"staged", "moving", "copying"})
               /\ (target[c] # "none") = (step[c] \in {"moving", "copying"})
    <3>1. step[c] \in Active => command[c] # NoCommand
      BY NoCommandAssumption DEF CreatorInv, Active
    <3>2. step[c] \notin Active => command[c] = NoCommand
      BY DEF CallsTyped
    <3> QED BY <3>1, <3>2 DEF CallsTyped, Active
  <2>5. ASSUME NEW p \in Runs
        PROVE  /\ request[p] # NoRequest => request[p] \in Requests
               /\ envelope[p] \subseteq AllCommands /\ ran[p] \subseteq envelope[p]
               /\ cloned[p] \in {0} \cup Commits /\ basis[p] \in {0} \cup Commits
               /\ at[p] = "posting" => request[p] # NoRequest /\ cloned[p] # 0
    <3>1. at[p] = "posting" => request[p] \in Requests /\ cloned[p] \in Commits
      BY DEF RunInv, Gathered, Posted
    <3>2. NoRequest \notin Requests /\ 0 \notin Commits
      BY DecomposeAssumption DEF Commits
    <3> QED BY <3>1, <3>2 DEF RunInv, RunsTyped, Gathered
  <2>6. /\ part \in {"creating", "approving", "proposing"}
        /\ policy \in PolicyDocuments /\ members \in MemberRecords /\ edits \in 0..MaxEdits
        /\ stage \in ApprovalStages /\ subject \in Ids
    BY DEF ApprovalTyped
  <2>7. /\ {main, tracking, head} \subseteq Commits /\ moves \in 0..MaxMoves
        /\ at \in [Runs -> Stages] /\ rows \subseteq Proposals /\ adrift \subseteq Proposals
    BY DEF RunInv, CheckoutTyped, RunsTyped, ProposalsTyped
  <2>8. oneDevice \in BOOLEAN /\ step \in [Creators -> Steps] /\ late \in [Creators -> BOOLEAN]
    BY DEF CallsTyped, CreatorInv
  <2> HIDE DEF Inv
  <2> QED BY <2>1, <2>2, <2>3, <2>4, <2>5, <2>6, <2>7, <2>8 DEF TypeOK
<1> QED BY <1>1, <1>2, <1>3, PTL DEF Spec

=============================================================================
