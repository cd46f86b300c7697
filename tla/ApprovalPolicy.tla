---------------------------- MODULE ApprovalPolicy ----------------------------
(***************************************************************************)
(* Approval by conformance: which documents load as an approval policy,    *)
(* what the member record grants, and why the policy objects to approving  *)
(* a package.  Pure: nothing is cached, every consultation reads both.     *)
(***************************************************************************)
EXTENDS PackageDocument, FiniteSets

CONSTANTS
  ServiceOf,   \* the service a `targets_from` text names, for the texts that name one
  Fold,        \* a repository's name with its case folded
  Unreadable   \* no answer of the member record

ASSUME RecordAssumption ==
  /\ \A text \in DOMAIN ServiceOf : ServiceOf[text] # "none"
  /\ \A targets \in SUBSET {Fold[name] : name \in DOMAIN Fold} : targets # Unreadable

NoPolicy == [version |-> 0]
NoGrant == [service |-> "no grant"]

-----------------------------------------------------------------------------
(* load_policy.  A document loads as a whole or not at all. *)

SupportedVersions == {1, 2, 3}

TargetField(version) == IF version = 1 THEN "target_repositories" ELSE "targets_from"
ReachField(version) == IF version < 3 THEN "reach" ELSE "reach_options"

TermFields == {"authority_allowed", "authority_prohibited", "acceptance_evidence_types",
               "acceptance_approvers", "max_impact"}
NumberFields == {"max_attempts", "max_llm_calls"}
GrantFields(version) ==
  {"rationale", "decided", "authority_requires_approval"} \cup TermFields \cup NumberFields
    \cup {TargetField(version), ReachField(version)}

IsFilledList(v) == IsTextList(v) /\ Content(v) # <<>>
IsPositive(v) == IsNumber(v) /\ Number(v) >= 1

\* Each option a set without repeats; before schema 3 the field is one such set.
IsReach(v, version) ==
  IF version < 3 THEN IsFilledList(v)
  ELSE /\ IsList(v) /\ Content(v) # <<>>
       /\ Every(v, IsFilledList)
       /\ Every(v, LAMBDA option :
                     \A i, j \in DOMAIN Content(option) :
                       Content(option)[i] = Content(option)[j] => i = j)

IsTargets(v, version) ==
  IF version = 1 THEN IsFilledList(v) ELSE IsText(v) /\ Content(v) \in DOMAIN ServiceOf

\* Exactly the fields of its version, none of which is read by another rule.
LoadsGrant(v, version) ==
  LET table == Content(v) IN
    /\ IsMap(v) /\ DOMAIN table = GrantFields(version)
    /\ IsText(table["rationale"]) /\ IsText(table["decided"])
    /\ IsTargets(table[TargetField(version)], version)
    /\ IsReach(table[ReachField(version)], version)
    /\ \A f \in TermFields : IsFilledList(table[f])
    /\ IsTextList(table["authority_requires_approval"])
    /\ \A f \in NumberFields : IsPositive(table[f])

\* A row says why, and holds a grant or none.
LoadsRow(v, version) ==
  LET table == Content(v) IN
    /\ IsMap(v)
    /\ {"rationale", "decided"} \subseteq DOMAIN table
    /\ DOMAIN table \subseteq {"rationale", "decided", "grant"}
    /\ IsText(table["rationale"]) /\ IsText(table["decided"])
    /\ "grant" \in DOMAIN table => LoadsGrant(table["grant"], version)

\* One row for each registered profile, at a version this loader was written for.
Loads(raw) ==
  /\ IsMap(raw)
  /\ LET top == Content(raw) IN
       /\ DOMAIN top = {"version", "profile"}
       /\ IsNumber(top["version"]) /\ Number(top["version"]) \in SupportedVersions
       /\ IsMap(top["profile"]) /\ DOMAIN Content(top["profile"]) = PROFILES
       /\ \A name \in PROFILES :
            LoadsRow(Content(top["profile"])[name], Number(top["version"]))

Texts(v) == {Content(v)[i] : i \in DOMAIN Content(v)}

GrantOf(v, version) ==
  LET table == Content(v) IN
    [ targets     |-> IF version = 1 THEN Texts(table["target_repositories"]) ELSE {},
      service     |-> IF version = 1 THEN "none" ELSE ServiceOf[Content(table["targets_from"])],
      reaches     |-> IF version < 3 THEN {table["reach"]} ELSE Texts(table["reach_options"]),
      allowed     |-> table["authority_allowed"],
      requires    |-> table["authority_requires_approval"],
      prohibited  |-> table["authority_prohibited"],
      attempts    |-> Number(table["max_attempts"]),
      calls       |-> Number(table["max_llm_calls"]),
      types       |-> Texts(table["acceptance_evidence_types"]),
      approvers   |-> Texts(table["acceptance_approvers"]),
      impacts     |-> Texts(table["max_impact"]) ]

\* The policy of a document, or none: never one without objections.
LoadPolicy(raw) ==
  IF ~Loads(raw) THEN NoPolicy
  ELSE LET version == Number(Content(raw)["version"])
           rows == Content(Content(raw)["profile"])
       IN [ version |-> version,
            grants  |-> [name \in PROFILES |->
                           IF "grant" \in DOMAIN Content(rows[name])
                           THEN GrantOf(Content(rows[name])["grant"], version)
                           ELSE NoGrant] ]

\* The approver a package of this profile is approved under.
ApproverFor(policy, profile) == <<"policy", profile, policy.version>>

-----------------------------------------------------------------------------
(* The member record. *)

\* A member without one of the fields, or with one that is no text, spoils the record.
ReadableMember(member, service) ==
  /\ IsStr(member.repository) /\ IsStr(member.state)
  /\ service \in DOMAIN member.grants /\ IsStr(member.grants[service])

\* Repositories of members that are not retired and hold the grant, case folded.
GrantedTargets(members, service) ==
  IF members = Unreadable \/ \E m \in members : ~ReadableMember(m, service) THEN Unreadable
  ELSE {Fold[Content(m.repository)] :
          m \in {n \in members : n.state # Str("retired") /\ n.grants[service] = Str("granted")}}

-----------------------------------------------------------------------------
(* refusals_for: one objection for each bound the package is not within. *)

\* The fixed list is case-sensitive; the record is not, and has to be readable.
TargetRefused(p, grant, members) ==
  \/ ~IsStr(p.target_repo)
  \/ /\ IsStr(p.target_repo)
     /\ IF grant.service = "none" THEN p.target_repo \notin grant.targets
        ELSE LET targets == GrantedTargets(members, grant.service) IN
               targets = Unreadable \/ Fold[Content(p.target_repo)] \notin targets

StandingRefused(p) == p.standing # Bool(TRUE)

BumpRefused(p) ==
  \/ ~IsStr(p.from_version) \/ ~IsStr(p.to_version)
  \/ p.from_version = p.to_version

\* Exactly one of the options, in its order.
ReachRefused(p, grant) == ~IsList(p.reach) \/ p.reach \notin grant.reaches

\* The same terms as often, in any order.
SameTerms(v, w) ==
  /\ IsList(v) /\ Len(Content(v)) = Len(Content(w))
  /\ \A term \in Texts(v) \cup Texts(w) :
       Cardinality({i \in DOMAIN Content(v) : Content(v)[i] = term})
         = Cardinality({i \in DOMAIN Content(w) : Content(w)[i] = term})

AuthorityRefused(p, grant) ==
  \/ ~SameTerms(p.allowed, grant.allowed)
  \/ ~SameTerms(p.requires_approval, grant.requires)
  \/ ~SameTerms(p.prohibited, grant.prohibited)

\* Variant of WithinCeiling: neither the kind nor the lower bound is looked at.
BelowCeiling(v, ceiling) == IsInt(v) /\ Number(v) <= ceiling

WithinCeiling(v, ceiling) == IsNumber(v) /\ Number(v) >= 1 /\ Number(v) <= ceiling

BudgetRefused(p, grant) ==
  \/ ~WithinCeiling(p.max_attempts, grant.attempts)
  \/ ~WithinCeiling(p.max_llm_calls, grant.calls)

AcceptanceRefused(p, grant) ==
  \/ ~IsList(p.acceptance) \/ Content(p.acceptance) = <<>>
  \/ \E i \in DOMAIN Content(p.acceptance) :
       LET criterion == Content(p.acceptance)[i] IN
         \/ ~IsMap(criterion)
         \/ Content(criterion).evidence_type \notin grant.types
         \/ Content(criterion).approver \notin grant.approvers

ImpactRefused(p, grant) == p.max_impact \notin grant.impacts

\* No profile, one nobody registered, one without a grant; else every objection.
Refuses(policy, p, members) ==
  \/ ~IsText(p.profile) \/ Content(p.profile) \notin DOMAIN policy.grants
  \/ LET grant == policy.grants[Content(p.profile)] IN
       \/ grant = NoGrant
       \/ TargetRefused(p, grant, members) \/ StandingRefused(p) \/ BumpRefused(p)
       \/ ReachRefused(p, grant) \/ AuthorityRefused(p, grant) \/ BudgetRefused(p, grant)
       \/ AcceptanceRefused(p, grant) \/ ImpactRefused(p, grant)

=============================================================================
