--------------------------- MODULE PackageDocument ---------------------------
(***************************************************************************)
(* package.yaml and approval-policy.toml as the loaders hand them over:    *)
(* values of any kind, so that a check can meet the wrong one.  Of a       *)
(* package, the fields a policy looks at, the profile registry, and what   *)
(* validation asks of these fields before anything else reads them.        *)
(***************************************************************************)
EXTENDS Integers, Sequences

-----------------------------------------------------------------------------
(* Values, tagged with their kind.  "" stands for every blank string. *)

Absent == <<"absent">>
Null == <<"null">>
Str(s) == <<"str", s>>
Int_(n) == <<"int", n>>
Bool(b) == <<"bool", b>>
List(seq) == <<"list", seq>>
Map(f) == <<"map", f>>

Content(v) == v[2]
IsStr(v) == v[1] = "str"
IsText(v) == IsStr(v) /\ Content(v) # ""
IsBool(v) == v[1] = "bool"
IsList(v) == v[1] = "list"
IsMap(v) == v[1] = "map"

\* A boolean passes for an integer unless it is asked about first.
IsInt(v) == v[1] \in {"int", "bool"}
IsNumber(v) == IsInt(v) /\ ~IsBool(v)
Number(v) == IF IsBool(v) THEN IF Content(v) THEN 1 ELSE 0 ELSE Content(v)

Every(v, Test(_)) == \A i \in DOMAIN Content(v) : Test(Content(v)[i])
IsTextList(v) == IsList(v) /\ Every(v, IsText)

\* What a loader hands over is one of the above.
IsValue(v) ==
  /\ IsStr(v) => v = Str(Content(v))
  /\ IsNumber(v) => v = Int_(Content(v)) /\ Content(v) \in Int
  /\ IsList(v) => /\ v = List(Content(v))
                  /\ Len(Content(v)) \in Nat /\ DOMAIN Content(v) = 1..Len(Content(v))

-----------------------------------------------------------------------------
(* The registered delivery profiles. *)

PROFILES == {"software-delivery", "infrastructure-change", "dependency-update",
             "maintenance-remediation", "non-software-operational"}

\* The ones with a change class: the factory executes and lands their units.
Executable == {"software-delivery", "dependency-update", "maintenance-remediation"}

\* The evidence types a profile's tags map to, without the forbidden ones.
EvidenceTypes(profile) ==
  CASE profile \in {"dependency-update", "maintenance-remediation"} ->
         {"automated_check", "human_review"}
    [] profile = "software-delivery" -> {"automated_check", "automated_test", "human_review"}
    [] profile = "infrastructure-change" -> {"automated_test", "human_review"}
    [] profile = "non-software-operational" ->
         {"human_review", "external_attestation", "observation"}

\* What an envelope is stamped with, and the package of a profile that declares it.
BUDGETS == [max_attempts |-> 3, max_llm_calls |-> 360]

-----------------------------------------------------------------------------
(* Validation of the fields a policy looks at. *)

Fields == {"profile", "target_repo", "standing", "from_version", "to_version", "reach",
           "allowed", "requires_approval", "prohibited", "max_attempts", "max_llm_calls",
           "acceptance", "max_impact"}
ProfileFields == {"target_repo", "standing", "from_version", "to_version"}

\* A dependency update names a repository and two versions, and may call itself standing.
ValidUpdate(p) ==
  /\ \A f \in {"target_repo", "from_version", "to_version"} : IsText(p[f])
  /\ p.standing = Absent \/ IsBool(p.standing)

\* profile_fields: requires a profile, and only the keys of its schema.
ValidProfile(p) ==
  \/ /\ p.profile \in {Absent, Null}
     /\ \A f \in ProfileFields : p[f] = Absent
  \/ p.profile = Str("dependency-update") /\ ValidUpdate(p)
  \/ /\ p.profile \in {Str(name) : name \in PROFILES \ {"dependency-update"}}
     /\ \A f \in ProfileFields \ {"standing"} : p[f] = Absent
     /\ \/ p.standing = Absent
        \/ p.profile = Str("non-software-operational") /\ IsBool(p.standing)

\* Declared before approval: some texts; whether they mean anything is asked at intake.
ValidReach(p) == IsTextList(p.reach) /\ Content(p.reach) # <<>>

ValidBudget(v) == v = Null \/ IsNumber(v)

ValidAuthority(p) ==
  /\ \A f \in {"allowed", "requires_approval", "prohibited"} :
       IsList(p[f]) /\ Every(p[f], IsStr)
  /\ ValidBudget(p.max_attempts) /\ ValidBudget(p.max_llm_calls)

\* A criterion's evidence is tagged by what produces it, and the tag fixes the type.
\* A registered agent, the policy or an outsider decides it.
ValidCriterion(p, criterion) ==
  /\ IsMap(criterion)
  /\ IsStr(p.profile) =>
       Content(criterion).evidence_type \in
         {Str(type) : type \in EvidenceTypes(Content(p.profile))}
  /\ IsText(Content(criterion).approver)
  /\ Content(criterion).approver = Str("external:auditor") =>
       Content(criterion).evidence_type \in {Str("external_attestation"), Str("human_review")}

ValidPackage(p) ==
  /\ ValidProfile(p) /\ ValidReach(p) /\ ValidAuthority(p) /\ IsStr(p.max_impact)
  /\ IsList(p.acceptance)
  /\ \A i \in DOMAIN Content(p.acceptance) : ValidCriterion(p, Content(p.acceptance)[i])

=============================================================================
