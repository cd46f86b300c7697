-------------------------------- MODULE MCLane --------------------------------
(***************************************************************************)
(* An instance of Lane for TLC: the shipped policy and each document that  *)
(* differs from a sound one in one place; a package field by field; and    *)
(* checkouts of each tooling.                                              *)
(***************************************************************************)
EXTENDS LaneProperties

CONSTANTS
  r1, r2,           \* registered revisions
  scoped, dashed,   \* @acme/zod and @acme-zod: one text once `/` is replaced
  pytest,           \* a package with a verifier's name
  v1, v2            \* target versions

Texts_(names) == List([i \in DOMAIN names |-> Str(names[i])])
Drop(f, field) == [x \in DOMAIN f \ {field} |-> f[x]]
Put_(f, field, value) == [x \in DOMAIN f \cup {field} |-> IF x = field THEN value ELSE f[x]]

-----------------------------------------------------------------------------
(* Policy documents. *)

MCServiceOf == [t \in {"sds-member-record:dependency_updates"} |-> "dependency_updates"]

Spoken == [rationale |-> Str("why"), decided |-> Str("when")]

GrantTable(version) ==
  LET shared == [ rationale |-> Str("why"), decided |-> Str("when"),
                  authority_allowed |-> Texts_(<<"repository_read", "repository_write",
                                                 "test_execution", "merge_to_main">>),
                  authority_requires_approval |-> List(<<>>),
                  authority_prohibited |-> Texts_(<<"secret_write">>),
                  max_attempts |-> Int_(3), max_llm_calls |-> Int_(360),
                  acceptance_evidence_types |-> Texts_(<<"automated_check">>),
                  acceptance_approvers |-> Texts_(<<"policy">>),
                  max_impact |-> Texts_(<<"low">>) ]
      targeted == Put_(shared, TargetField(version),
                       IF version = 1 THEN Texts_(<<"acme/web">>)
                       ELSE Str("sds-member-record:dependency_updates"))
  IN Put_(targeted, ReachField(version),
          IF version = 3 THEN List(<<Texts_(<<"source_repository">>), Texts_(<<"live_estate">>)>>)
          ELSE Texts_(<<"source_repository">>))

Row(version) == Put_(Spoken, "grant", Map(GrantTable(version)))
Rows_(version) ==
  [name \in PROFILES |-> Map(IF name = "dependency-update" THEN Row(version) ELSE Spoken)]
Document(version, table) ==
  Map([f \in {"version", "profile"} |-> IF f = "version" THEN version ELSE Map(table)])
WithRow(version, row) ==
  Document(Int_(version), Put_(Rows_(version), "dependency-update", row))
WithGrant(version, table) == WithRow(version, Map(Put_(Spoken, "grant", Map(table))))

\* The shipped document, its predecessors, and edits of it somebody may mean.
MCSoundDocuments ==
  {WithGrant(v, GrantTable(v)) : v \in {1, 2, 3}}
    \cup {WithRow(3, Map(Spoken)),
          WithGrant(3, Put_(GrantTable(3), "max_attempts", Int_(2))),
          WithGrant(3, Put_(GrantTable(3), "authority_requires_approval",
                            Texts_(<<"merge_to_main">>)))}

Misfits(field) ==
  CASE field \in NumberFields -> {Int_(0), Bool(TRUE), Str("3")}
    [] field \in {"rationale", "decided"} -> {Str(""), Null}
    [] field = "authority_requires_approval" -> {Null, Texts_(<<"">>)}
    [] field = "targets_from" -> {Str("sds-member-record:"), Texts_(<<"acme/web">>)}
    [] field = "reach_options" -> {List(<<>>), List(<<Texts_(<<>>)>>),
                                   Texts_(<<"source_repository">>),
                                   List(<<Texts_(<<"live_estate", "live_estate">>)>>)}
    [] OTHER -> {List(<<>>), Str("secret_write"), List(<<Int_(1)>>)}

BrokenDocuments ==
  {Document(version, Rows_(3)) : version \in {Int_(0), Int_(4), Bool(TRUE), Str("3"), Null}}
    \cup {Document(Int_(3), Drop(Rows_(3), "software-delivery")),
          Document(Int_(3), Put_(Rows_(3), "unregistered", Map(Spoken))),
          Document(Int_(3), Rows_(1)), Document(Int_(1), Rows_(3)), Document(Int_(2), Rows_(3)),
          Map([f \in {"version"} |-> Int_(3)]), Null,
          WithRow(3, Null), WithRow(3, Map(Drop(Row(3), "decided"))),
          WithRow(3, Map(Put_(Row(3), "granted", Bool(TRUE)))),
          WithRow(3, Map(Put_(Spoken, "grant", Null))),
          WithGrant(3, Put_(GrantTable(3), "reach", Texts_(<<"live_estate">>))),
          WithGrant(2, Put_(GrantTable(2), "target_repositories", Texts_(<<"acme/web">>)))}
    \cup {WithGrant(3, Drop(GrantTable(3), f)) : f \in GrantFields(3)}
    \cup UNION {{WithGrant(3, Put_(GrantTable(3), f, v)) : v \in Misfits(f)} : f \in GrantFields(3)}

MCPolicyDocuments == MCSoundDocuments \cup BrokenDocuments
MCFirstPolicies == {WithGrant(v, GrantTable(v)) : v \in {1, 2, 3}}

-----------------------------------------------------------------------------
(* Member records. *)

MCFold == [n \in {"acme/web", "Acme/Web", "acme/old", "acme/tool", "<edit: describe this field>"}
             |-> IF n = "Acme/Web" THEN "acme/web" ELSE n]

Member(repository, state, grant) ==
  [repository |-> repository, state |-> state, grants |-> [dependency_updates |-> grant]]
Ungranted == [repository |-> Str("acme/tool"), state |-> Str("active"),
              grants |-> [other |-> Str("granted")]]

Web(state, grant) == Member(Str("Acme/Web"), Str(state), Str(grant))
MCFirstRecord ==
  {Web("active", "granted"), Member(Str("acme/old"), Str("retired"), Str("granted")),
   Member(Str("acme/tool"), Str("active"), Str("withheld"))}
MCMemberRecords ==
  {MCFirstRecord, {}, Unreadable, {Web("retired", "granted")}, {Web("active", "withheld")},
   {Web("active", "granted"), Ungranted},
   {Web("active", "granted"), Member(Null, Str("active"), Str("granted"))}}

-----------------------------------------------------------------------------
(* Packages. *)

MCStanding == {[repository |-> Str("acme/web"), dependency |-> "zod", id |-> "web-npm-zod"]}

Allowed_ == <<"repository_read", "repository_write", "test_execution", "merge_to_main">>

MCFieldValues ==
  ({"profile"} \X {Absent, Null, Str("maintenance-remediation"), Str("unregistered")})
    \cup ({"target_repo"} \X {Absent, Null, Str("Acme/Web"), Str("acme/old"), Str("acme/tool")})
    \cup ({"standing"} \X {Absent, Bool(TRUE), Str("true"), Int_(1)})
    \cup ({"from_version"} \X {Absent, Int_(1), Str(""), Str("2.0")})
    \cup ({"reach"} \X {List(<<>>), Null, Str("source_repository"),
                        Texts_(<<"source_repository", "live_estate">>),
                        Texts_(<<"external_system">>)})
    \cup ({"allowed"} \X {List(<<>>), Texts_(SubSeq(Allowed_, 1, 3)),
                          Texts_(<<"merge_to_main">> \o SubSeq(Allowed_, 1, 3)),
                          Texts_(Append(Allowed_, "secret_write")),
                          Texts_(Append(Allowed_, "merge_to_main")), Str("merge_to_main")})
    \cup ({"requires_approval"} \X {Texts_(<<"merge_to_main">>), List(<<>>)})
    \cup ({"prohibited"} \X {List(<<>>), List(<<Int_(1)>>)})
    \cup ({"max_attempts"} \X {Int_(0), Int_(2), Int_(4), Bool(TRUE), Null, Str("3")})
    \cup ({"max_llm_calls"} \X {Int_(361), Int_(-1), Null})
    \cup ({"acceptance"} \X {List(<<>>), Null, List(<<Str("done")>>),
                             List(<<Criterion("automated_check", "policy"),
                                    Criterion("human_review", "devon")>>),
                             List(<<Criterion("automated_check", "devon")>>)})
    \cup ({"max_impact"} \X {Str("high"), Null})

MCGivenApprovers == {<<"person", "devon">>, <<"person", "stranger">>,
                     <<"policy", "dependency-update", 2>>, <<"policy", "dependency-update", 3>>}
MCOperators == {<<"person", "devon">>}

-----------------------------------------------------------------------------
(* Checkouts and decompositions. *)

Npm(sections, scripts, linters, lock, fails) ==
  [pins |-> [npm |-> sections, pip |-> {}, uv |-> {}], scripts |-> scripts, linters |-> linters,
   lock |-> lock, fails |-> fails, touches |-> {"package.json"}, stable |-> TRUE]
Python(pip, uv, touches, stable) ==
  [pins |-> [npm |-> {}, pip |-> pip, uv |-> uv], scripts |-> {}, linters |-> {},
   lock |-> FALSE, fails |-> {}, touches |-> touches, stable |-> stable]

Full == Npm({"dependencies"}, {"build", "test"}, {"eslint"}, TRUE, {<<"npm run build">>})
Plain == Npm({"devDependencies"}, {"test"}, {}, FALSE, {})
Unresolvable == Npm({"dependencies"}, {"build"}, {}, TRUE, {<<"npm ci">>})
PipTwo == Python(PipFiles, {}, PipFiles, TRUE)
PipHalf == Python(PipFiles, {}, {"requirements.txt"}, TRUE)
UvTwo == Python({}, UvSections, {"pyproject.toml"}, TRUE)
UvDrifts == Python({}, {"project"}, {"pyproject.toml"}, FALSE)
Bare == Python({}, {}, {}, TRUE)

MCHistories == {<<Full, Plain, Full>>, <<Plain, Unresolvable, Full>>, <<PipTwo, PipHalf, PipTwo>>,
                <<UvTwo, UvDrifts, Bare>>}
MCEdits == {Plain, Full}

MCBumpText ==
  [bump \in {scoped, dashed, pytest} \X {v1, v2} |->
     IF bump[1] = scoped THEN <<dashed, bump[2]>> ELSE bump]

Order(revision, package, to, tooling) ==
  [revision |-> revision, package |-> package, to |-> to, tooling |-> tooling, known |-> TRUE,
   file |-> "none", submit |-> TRUE, noExecute |-> FALSE, assume |-> FALSE]
Usual == Order(r1, scoped, v1, "npm")
MCRequests ==
  {Usual, [Usual EXCEPT !.revision = r2], [Usual EXCEPT !.package = dashed], [Usual EXCEPT !.to = v2]}
    \cup {[Usual EXCEPT !.tooling = t] : t \in {"pip", "uv", "cargo"}}
    \cup {[Usual EXCEPT !.package = pytest, !.tooling = "pip"],
          [Usual EXCEPT !.file = "other"], [Usual EXCEPT !.known = FALSE],
          [Usual EXCEPT !.submit = FALSE], [Usual EXCEPT !.noExecute = TRUE],
          [Usual EXCEPT !.submit = FALSE, !.noExecute = TRUE, !.assume = TRUE]}

Class(list) ==
  [surface |-> Str("runner"), models |-> List(list), rationale |-> Str("why"),
   decided |-> Str("when")]
Runner == [id |-> Str("runner"), where |-> Str("ci"), models |-> List(<<Str("m")>>),
           rationale |-> Str("why"), decided |-> Str("when")]
RoutingFile ==
  [version |-> Int_(1), models |-> {Str("m")}, surfaces |-> <<Runner>>,
   classes |-> [c \in {"dependency-update"} |-> Class(<<Str("m")>>)], no_llm |-> List(<<>>)]
MCRoutingFiles ==
  {RoutingFile,
   [RoutingFile EXCEPT !.version = Bool(TRUE)], [RoutingFile EXCEPT !.surfaces = <<Runner, Runner>>],
   [RoutingFile EXCEPT !.classes = [c \in {} |-> Class(<<>>)]],
   [RoutingFile EXCEPT !.classes = [c \in {"dependency-update"} |-> Class(<<>>)]],
   [RoutingFile EXCEPT !.classes = [c \in {"dependency-update"} |-> Class(<<Str("unknown")>>)]],
   [RoutingFile EXCEPT !.classes = [c \in {"dependency-update", "docs"} |->
                                      IF c = "docs" THEN Class(<<Str("unknown")>>)
                                      ELSE Class(<<Str("m")>>)]],
   [RoutingFile EXCEPT !.surfaces = <<[Runner EXCEPT !.id = Str("elsewhere")]>>]}
MCSoundRoutes == {<<Str("m")>>}

=============================================================================
