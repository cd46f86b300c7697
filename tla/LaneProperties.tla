---------------------------- MODULE LaneProperties ----------------------------
(***************************************************************************)
(* What creators leave on disk, what the policy approves, and what a       *)
(* decomposition that is posted rests on (module Lane).                    *)
(***************************************************************************)
EXTENDS Lane

CONSTANTS
  SoundDocuments,  \* the policy documents somebody may mean
  SoundRoutes      \* what routing files without a mistake route the work to

\* Nobody means to grant more than dependency updates.
ASSUME SoundAssumption ==
  \A raw \in SoundDocuments, name \in PROFILES :
    LET row == Content(Content(Content(raw)["profile"])[name]) IN
      "grant" \in DOMAIN row =>
        /\ name = "dependency-update"
        /\ \A f \in DOMAIN Content(row["grant"]) : IsValue(Content(row["grant"])[f])

\* Every variable holds a value of its kind, and an approval that is consulted on has a
\* package; a run that posts has its request, findings and proof together.
TypeOK ==
  /\ part \in {"creating", "approving", "proposing"}
  /\ policy \in PolicyDocuments /\ members \in MemberRecords /\ edits \in 0..MaxEdits
  /\ stage \in ApprovalStages /\ subject \in Ids
  /\ (approver # NoApprover) = (stage \in {"validating", "loading", "consulting"})
  /\ (opened # NoPackage) = (stage = "consulting")
  /\ oneDevice \in BOOLEAN
  /\ \A id \in Ids : places[id] # NoPackage =>
       /\ places[id].by \in Creators /\ places[id].inner \in Creators \cup {NoCreator}
       /\ DOMAIN places[id].doc = Fields
  /\ step \in [Creators -> Steps]
  /\ \A c \in Creators : (command[c] # NoCommand) = (step[c] \in {"staged", "moving", "copying"})
  /\ \A c \in Creators : (target[c] # "none") = (step[c] \in {"moving", "copying"})
  /\ late \in [Creators -> BOOLEAN]
  /\ {main, tracking, head} \subseteq Commits /\ moves \in 0..MaxMoves
  /\ at \in [Runs -> Stages] /\ rows \subseteq Proposals /\ adrift \subseteq Proposals
  /\ \A p \in Runs :
       /\ request[p] # NoRequest => request[p] \in Requests
       /\ envelope[p] \subseteq AllCommands /\ ran[p] \subseteq envelope[p]
       /\ cloned[p] \in {0} \cup Commits /\ basis[p] \in {0} \cup Commits
       /\ at[p] = "posting" => request[p] # NoRequest /\ cloned[p] # 0

\* A package directory holds everything of one creator's package, unless that creator is
\* still copying across file systems or was killed at it; a creator that reports success
\* has its files there, or, where another came between its look and its move, inside the
\* other's directory; one that refuses or fails leaves nothing (scaffolds.py, _materialize).
InPlaceIsWhole ==
  /\ \A id \in Ids : places[id] # NoPackage =>
       LET place == places[id] IN
         /\ ~place.whole => step[place.by] \in {"copying", "killed"}
         /\ place.whole => step[place.by] = "created"
         /\ step[place.by] \notin {"refused", "failed"}
         /\ place.inner # NoCreator =>
              /\ place.inner # place.by /\ ~late[place.inner]
              /\ step[place.inner] \in {"copying", "created", "killed"}
  /\ \A c \in Creators : step[c] = "created" =>
       \E id \in Ids : places[id] # NoPackage /\ c \in {places[id].by, places[id].inner}

-----------------------------------------------------------------------------
(* What a policy document grants, said without reading it through the loader. *)

IsPermutation(v, w) ==
  /\ IsList(v) /\ Len(Content(v)) = Len(Content(w))
  /\ \E f \in [DOMAIN Content(v) -> DOMAIN Content(w)] :
       /\ \A i, j \in DOMAIN f : f[i] = f[j] => i = j
       /\ \A i \in DOMAIN f : Content(v)[i] = Content(w)[f[i]]

InList(v, list) == \E i \in DOMAIN Content(list) : Content(list)[i] = v

Targeted(p, grant, version, record) ==
  IF version = 1 THEN InList(p.target_repo, grant["target_repositories"])
  ELSE LET service == ServiceOf[Content(grant["targets_from"])] IN
         /\ record # Unreadable
         /\ \A m \in record : /\ IsStr(m.repository) /\ IsStr(m.state)
                             /\ service \in DOMAIN m.grants /\ IsStr(m.grants[service])
         /\ IsStr(p.target_repo)
         /\ \E m \in record :
              /\ Fold[Content(m.repository)] = Fold[Content(p.target_repo)]
              /\ m.state # Str("retired") /\ m.grants[service] = Str("granted")

Conforms(p, raw, record) ==
  LET version == Number(Content(raw)["version"])
      row == Content(Content(Content(raw)["profile"])["dependency-update"])
      grant == Content(row["grant"])
  IN /\ p.profile = Str("dependency-update") /\ "grant" \in DOMAIN row
     /\ Targeted(p, grant, version, record)
     /\ p.standing = Bool(TRUE)
     /\ IsStr(p.from_version) /\ IsStr(p.to_version) /\ p.from_version # p.to_version
     /\ IF version < 3 THEN p.reach = grant["reach"] ELSE InList(p.reach, grant["reach_options"])
     /\ IsPermutation(p.allowed, grant["authority_allowed"])
     /\ IsPermutation(p.requires_approval, grant["authority_requires_approval"])
     /\ IsPermutation(p.prohibited, grant["authority_prohibited"])
     /\ p.max_attempts \in {Int_(n) : n \in 1..Content(grant["max_attempts"])}
     /\ p.max_llm_calls \in {Int_(n) : n \in 1..Content(grant["max_llm_calls"])}
     /\ IsList(p.acceptance) /\ p.acceptance # List(<<>>)
     /\ \A i \in DOMAIN Content(p.acceptance) :
          LET criterion == Content(p.acceptance)[i] IN
            /\ IsMap(criterion)
            /\ InList(Content(criterion).evidence_type, grant["acceptance_evidence_types"])
            /\ InList(Content(criterion).approver, grant["acceptance_approvers"])
     /\ InList(p.max_impact, grant["max_impact"])

\* Approved without an operator's name exactly where the document of the moment is one
\* somebody may mean, the approver names its version, and the package is within each
\* bound of its grant, to a repository the record of the moment grants; whatever was
\* replaced since the approver was computed or the package was validated
\* (approval_policy.py, load_policy and refusals_for; operations.py, _authorize_approver).
PolicyDecides ==
  [][stage = "consulting" /\ stage' # stage /\ approver \notin Operators =>
       (stage' = "approved") =
         /\ policy \in SoundDocuments
         /\ approver = <<"policy", "dependency-update", Number(Content(policy)["version"])>>
         /\ Conforms(opened, policy, members)]_vars

\* A proposal that is posted was proven: a part of its envelope that is not empty ran
\* twice in a clone without failing and touched every pin site's file, and the rest is
\* what waits for the coding phase.  Unless the checkout changed under the run, the clone
\* is of a commit no older than origin's main when the run fetched, and sites and envelope
\* are that commit's (decompose.py, run; validations.py).
SubmittedWasProven ==
  \A p \in Runs : at[p] \in {"posting", "submitted", "conflict", "unanswered"} =>
    LET r == request[p]
        tree == treeOf[cloned[p]]
    IN /\ ~r.noExecute /\ ~r.assume
       /\ models[p] \in SoundRoutes
       /\ ran[p] # {} /\ ran[p] \cap tree.fails = {} /\ tree.stable
       /\ \A s \in sites[p] : Manifest(r.tooling, s) \in tree.touches
       /\ ~moved[p] =>
            /\ cloned[p] >= basis[p]
            /\ sites[p] = DiscoverPinSites(tree, r.tooling)
            /\ envelope[p] = AllowedCommands(tree, r.tooling, sites[p])
            /\ envelope[p] \ ran[p] = DeferredToCoding(tree, r.tooling)

\* A revision's bump of a package to a version is proposed at most once, and a run that is
\* told it is submitted has it proposed, by itself or by an earlier run.  A run is told of
\* a conflict only where its own revision has proposed a bump of the same text: never
\* because another revision made the same bump (decompose.py, _idempotency_key).  Who is
\* told of a conflict or a refusal has proposed nothing.
ConflictIsOwn ==
  /\ \A p \in Runs : at[p] = "submitted" =>
       \E row \in rows :
         /\ row.revision = request[p].revision
         /\ row.package = request[p].package /\ row.to = request[p].to
  /\ \A p \in Runs : at[p] = "conflict" =>
       \E row \in rows :
         /\ row.revision = request[p].revision
         /\ BumpText[<<row.package, row.to>>] =
              BumpText[<<request[p].package, request[p].to>>]
  /\ \A row \in rows :
       /\ at[row.by] \in {"submitted", "unanswered"}
       /\ \A other \in rows :
            /\ row.revision = other.revision
            /\ row.package = other.package /\ row.to = other.to
            => row = other

=============================================================================
