------------------------------- MODULE Envelope -------------------------------
(***************************************************************************)
(* What a dependency update may run in a repository: where the dependency  *)
(* is pinned, which commands move and verify the pin with each tooling,    *)
(* which of them wait for the coding phase; and which models the routing   *)
(* policy sends such work to.  Pure.                                       *)
(*                                                                         *)
(* A tree stands for a checkout's files: the sections of its manifests     *)
(* that pin the dependency, its npm scripts, lockfile and linters, and     *)
(* what running commands in it does: the ones that fail, the files that    *)
(* change, whether a second run changes nothing more.  A command is a      *)
(* tuple of its words; a list of them is their set, run movers first.      *)
(***************************************************************************)
EXTENDS PackageDocument

ToolingProfiles == {"npm", "pip", "uv"}

PipFiles == {"requirements.txt", "requirements-dev.txt"}
UvSections == {"project", "group"}
NpmSections == {"dependencies", "devDependencies"}
Sections == [npm |-> NpmSections, pip |-> PipFiles, uv |-> UvSections]

-----------------------------------------------------------------------------
(* The three toolings. *)

Manifest(tooling, section) ==
  CASE tooling = "pip" -> section
    [] tooling = "uv" -> "pyproject.toml"
    [] tooling = "npm" -> "package.json"

DiscoverPinSites(tree, tooling) == tree.pins[tooling]

\* Several sites of uv are edited without resolving, and then resolved at once.
UvMutations(sites) ==
  IF \E s \in sites : sites = {s} THEN {<<"uv add", s>> : s \in sites}
  ELSE {<<"uv add --frozen", s>> : s \in sites} \cup {<<"uv lock">>}

\* The build belongs to what the agent may run.
NpmMutations(tree, sites) ==
  {<<"npm install", IF sites = {"devDependencies"} THEN "dev" ELSE "prod">>}
    \cup IF "build" \in tree.scripts THEN {<<"npm run build">>} ELSE {}

MutationCommands(tree, tooling, sites) ==
  CASE tooling = "pip" -> {<<"sed", s>> : s \in sites}
    [] tooling = "uv" -> UvMutations(sites)
    [] tooling = "npm" -> NpmMutations(tree, sites)

\* The parts of the repository's own gate that a bare runner can run.
NpmGateComponents(tree) ==
  {<<"npx", linter>> : linter \in tree.linters}
    \cup IF "test" \in tree.scripts THEN {<<"npm test">>} ELSE {}

VerifierCommands(tree, tooling, sites) ==
  CASE tooling = "pip" ->
         {<<"grep", IF "requirements.txt" \in sites THEN "requirements.txt"
                    ELSE "requirements-dev.txt">>}
    [] tooling = "uv" -> {<<"uv lock --check">>}
    [] tooling = "npm" ->
         (IF tree.lock THEN {<<"npm ci">>} ELSE {})
           \cup NpmGateComponents(tree) \cup {<<"grep", "package.json">>}

AllowedCommands(tree, tooling, sites) ==
  MutationCommands(tree, tooling, sites) \cup VerifierCommands(tree, tooling, sites)

\* What may fail until the agent has worked, so that its failure proves nothing.
DeferredToCoding(tree, tooling) ==
  IF tooling # "npm" THEN {}
  ELSE (IF "build" \in tree.scripts THEN {<<"npm run build">>} ELSE {})
         \cup NpmGateComponents(tree)

Commands_(tooling) ==
  CASE tooling = "pip" -> {<<"sed", f>> : f \in PipFiles} \cup {<<"grep", f>> : f \in PipFiles}
    [] tooling = "uv" -> {<<w, s>> : w \in {"uv add", "uv add --frozen"}, s \in UvSections}
                           \cup {<<"uv lock">>, <<"uv lock --check">>}
    [] tooling = "npm" -> {<<"npm install", "dev">>, <<"npm install", "prod">>,
                           <<"npm run build">>, <<"npm ci">>, <<"npm test">>,
                           <<"npx", "eslint">>, <<"npx", "prettier">>,
                           <<"grep", "package.json">>}

AllCommands == UNION {Commands_(tooling) : tooling \in ToolingProfiles}
ManifestFiles == {Manifest(t, s) : t \in {"npm"}, s \in NpmSections}
                   \cup {Manifest(t, s) : t \in {"uv"}, s \in UvSections} \cup PipFiles

Trees_ == [ pins    : [npm : SUBSET NpmSections, pip : SUBSET PipFiles, uv : SUBSET UvSections],
            scripts : SUBSET {"build", "test"},
            linters : SUBSET {"eslint", "prettier"},
            lock    : BOOLEAN,
            fails   : SUBSET AllCommands,
            touches : SUBSET ManifestFiles,
            stable  : BOOLEAN ]

-----------------------------------------------------------------------------
(* routing-policy.toml.  An unknown class is an error: there is no default. *)

NoModels == <<>>

\* A row names known models, and says why and since when.
RoutesRow(row, models) ==
  /\ IsList(row.models) /\ Content(row.models) # <<>>
  /\ \A i \in DOMAIN Content(row.models) : Content(row.models)[i] \in models
  /\ IsText(row.rationale) /\ IsText(row.decided)

\* It loads as a whole: every row of every table, and classes only of known surfaces.
LoadsRouting(raw) ==
  /\ IsNumber(raw.version) /\ Number(raw.version) >= 1
  /\ raw.models # {} /\ \A id \in raw.models : IsText(id)
  /\ raw.surfaces # <<>>
  /\ \A i \in DOMAIN raw.surfaces :
       /\ IsText(raw.surfaces[i].id) /\ IsText(raw.surfaces[i].where)
       /\ RoutesRow(raw.surfaces[i], raw.models)
  /\ \A i, j \in DOMAIN raw.surfaces : raw.surfaces[i].id = raw.surfaces[j].id => i = j
  /\ \A class \in DOMAIN raw.classes :
       /\ \E i \in DOMAIN raw.surfaces : raw.surfaces[i].id = raw.classes[class].surface
       /\ RoutesRow(raw.classes[class], raw.models)
  /\ IsList(raw.no_llm) /\ Every(raw.no_llm, IsStr)

\* The models a change class is routed to, or none.
ResolveChangeClass(raw, class) ==
  IF LoadsRouting(raw) /\ class \in DOMAIN raw.classes
  THEN Content(raw.classes[class].models) ELSE NoModels

=============================================================================
