----------------------------- MODULE PolicyProofs -----------------------------
(***************************************************************************)
(* What a policy approves is what it grants, proved for every value of the *)
(* constants of Lane whose documents load exactly when they are sound: the *)
(* objections of the code against the words of the grant.                  *)
(***************************************************************************)
EXTENDS LaneProofs, FiniteSetTheorems

\* The loader takes the documents somebody may mean, and no other.
LoadsTheSound == \A raw \in PolicyDocuments : Loads(raw) = (raw \in SoundDocuments)

-----------------------------------------------------------------------------
(* The same terms as often are the same terms in another order. *)

Occurrences(v, term) == {i \in DOMAIN Content(v) : Content(v)[i] = term}

LEMMA OccurrencesFinite ==
  ASSUME NEW v, IsValue(v), IsList(v), NEW term
  PROVE  /\ IsFiniteSet(DOMAIN Content(v)) /\ IsFiniteSet(Occurrences(v, term))
         /\ Cardinality(DOMAIN Content(v)) = Len(Content(v))
<1>1. Len(Content(v)) \in Nat /\ DOMAIN Content(v) = 1..Len(Content(v))
  BY DEF IsValue
<1>2. IsFiniteSet(1..Len(Content(v))) /\ Cardinality(1..Len(Content(v))) = Len(Content(v))
  <2> DEFINE n == Len(Content(v))
  <2> HIDE DEF n
  <2>1. n \in Nat
    BY <1>1 DEF n
  <2>2. IsFiniteSet(1..n) /\ Cardinality(1..n) = n
    BY <2>1, FS_Interval
  <2> QED BY <2>2 DEF n
<1>3. Occurrences(v, term) \in SUBSET (1..Len(Content(v)))
  BY <1>1 DEF Occurrences
<1>4. IsFiniteSet(Occurrences(v, term))
  BY <1>2, <1>3, FS_Subset
<1>5. IsFiniteSet(DOMAIN Content(v)) /\ Cardinality(DOMAIN Content(v)) = Len(Content(v))
  <2> DEFINE D == DOMAIN Content(v)
             I == 1..Len(Content(v))
  <2>1. D = I /\ IsFiniteSet(I) /\ Cardinality(I) = Len(Content(v))
    BY <1>1, <1>2
  <2> HIDE DEF D, I
  <2>2. IsFiniteSet(D) /\ Cardinality(D) = Len(Content(v))
    BY <2>1
  <2> QED BY <2>2 DEF D
<1> QED BY <1>4, <1>5

\* An order of the one list in the other maps the places of a term to its places there.
LEMMA PermutationCounts ==
  ASSUME NEW v, NEW w, IsValue(v), IsValue(w), IsList(w), IsPermutation(v, w)
  PROVE  SameTerms(v, w)
<1> DEFINE S == DOMAIN Content(v)
           T == DOMAIN Content(w)
<1>1. IsList(v) /\ Len(Content(v)) = Len(Content(w))
  BY DEF IsPermutation
<1>2. PICK f \in [S -> T] :
        /\ \A i, j \in DOMAIN f : f[i] = f[j] => i = j
        /\ \A i \in DOMAIN f : Content(v)[i] = Content(w)[f[i]]
  BY DEF IsPermutation
<1>3. f \in Injection(S, T)
  BY <1>2 DEF Injection, IsInjective
<1>4. f \in Surjection(S, T)
  <2>1. IsFiniteSet(T) /\ Cardinality(S) = Cardinality(T)
    BY <1>1, OccurrencesFinite
  <2> QED BY <1>3, <2>1, FS_Injection
<1>5. ASSUME NEW term
      PROVE  Cardinality(Occurrences(v, term)) = Cardinality(Occurrences(w, term))
  <2> DEFINE A == Occurrences(v, term)
             B == Occurrences(w, term)
             g == [i \in A |-> f[i]]
  <2>1. A \subseteq S /\ B \subseteq T
    BY DEF Occurrences
  <2>2. g \in [A -> B]
    BY <1>2, <2>1 DEF Occurrences
  <2>3. g \in Injection(A, B)
    BY <1>2, <2>1, <2>2 DEF Injection, IsInjective
  <2>4. ASSUME NEW j \in B PROVE \E i \in A : g[i] = j
    <3>1. PICK i \in S : f[i] = j
      BY <1>4, <2>1 DEF Surjection
    <3>2. i \in A
      BY <1>2, <3>1 DEF Occurrences
    <3> QED BY <3>1, <3>2
  <2>5. g \in Bijection(A, B)
    BY <2>2, <2>3, <2>4 DEF Bijection, Surjection
  <2>6. IsFiniteSet(A)
    BY <1>1, OccurrencesFinite
  <2> QED BY <2>5, <2>6, FS_Bijection DEF ExistsBijection
<1> QED BY <1>1, <1>5 DEF SameTerms, Occurrences

\* Terms as often in both lists are put in order term by term.
LEMMA CountsPermute ==
  ASSUME NEW v, NEW w, IsValue(v), IsValue(w), IsList(w), SameTerms(v, w)
  PROVE  IsPermutation(v, w)
<1> DEFINE S == DOMAIN Content(v)
           T == DOMAIN Content(w)
           Order(term) == CHOOSE g : g \in Bijection(Occurrences(v, term), Occurrences(w, term))
           f == [i \in S |-> Order(Content(v)[i])[i]]
<1>1. IsList(v) /\ Len(Content(v)) = Len(Content(w))
  BY DEF SameTerms
<1>2. ASSUME NEW i \in S
      PROVE  Order(Content(v)[i]) \in
               Bijection(Occurrences(v, Content(v)[i]), Occurrences(w, Content(v)[i]))
  <2>1. Content(v)[i] \in Texts(v)
    BY DEF Texts
  <2>2. Cardinality(Occurrences(v, Content(v)[i])) = Cardinality(Occurrences(w, Content(v)[i]))
    BY <2>1 DEF SameTerms, Occurrences
  <2>3. IsFiniteSet(Occurrences(v, Content(v)[i])) /\ IsFiniteSet(Occurrences(w, Content(v)[i]))
    BY <1>1, OccurrencesFinite
  <2>4. ExistsBijection(Occurrences(v, Content(v)[i]), Occurrences(w, Content(v)[i]))
    BY <2>2, <2>3, FS_SameCardinalityBij
  <2> QED BY <2>4 DEF ExistsBijection
<1>3. ASSUME NEW i \in S PROVE f[i] \in T /\ Content(v)[i] = Content(w)[f[i]]
  <2>1. i \in Occurrences(v, Content(v)[i]) /\ f[i] = Order(Content(v)[i])[i]
    BY DEF Occurrences
  <2> HIDE DEF Order, f
  <2>2. f[i] \in Occurrences(w, Content(v)[i])
    BY <1>2, <2>1 DEF Bijection, Injection
  <2> QED BY <2>2 DEF Occurrences
<1>4. ASSUME NEW i \in S, NEW j \in S, f[i] = f[j] PROVE i = j
  <2>1. Content(v)[i] = Content(v)[j]
    BY <1>3, <1>4
  <2>2. f[i] = Order(Content(v)[i])[i] /\ f[j] = Order(Content(v)[i])[j]
    BY <2>1
  <2>3. i \in Occurrences(v, Content(v)[i]) /\ j \in Occurrences(v, Content(v)[i])
    BY <2>1 DEF Occurrences
  <2> HIDE DEF Order, f
  <2> QED BY <1>2, <1>4, <2>2, <2>3 DEF Bijection, Injection, IsInjective
<1>5. f \in [S -> T]
  BY <1>3
<1> HIDE DEF f
<1> QED BY <1>1, <1>3, <1>4, <1>5 DEF IsPermutation

LEMMA SameTermsPermute ==
  ASSUME NEW v, NEW w, IsValue(v), IsValue(w), IsList(w)
  PROVE  SameTerms(v, w) = IsPermutation(v, w)
<1>1. SameTerms(v, w) \in BOOLEAN /\ IsPermutation(v, w) \in BOOLEAN
  BY DEF SameTerms, IsPermutation
<1> QED BY <1>1, PermutationCounts, CountsPermute

-----------------------------------------------------------------------------
(* Bound by bound: no objection where the package is within the grant. *)

Version(raw) == Number(Content(raw)["version"])
RowOf(raw) == Content(Content(Content(raw)["profile"])["dependency-update"])
TableOf(raw) == Content(RowOf(raw)["grant"])

\* A document that grants, the table it grants by and what the loader makes of it.
Grants(raw, table, grant) ==
  /\ Loads(raw) /\ "grant" \in DOMAIN RowOf(raw)
  /\ table = TableOf(raw) /\ grant = GrantOf(RowOf(raw)["grant"], Version(raw))

LEMMA InListTexts ==
  ASSUME NEW v, NEW list
  PROVE  InList(v, list) <=> v \in Texts(list)
BY DEF InList, Texts

\* What loading tells of the fields that are read.
LEMMA LoadedTable ==
  ASSUME NEW raw, NEW table, NEW grant, Grants(raw, table, grant)
  PROVE  /\ Version(raw) \in SupportedVersions
         /\ DOMAIN table = GrantFields(Version(raw))
         /\ IsTargets(table[TargetField(Version(raw))], Version(raw))
         /\ IsReach(table[ReachField(Version(raw))], Version(raw))
         /\ \A f \in TermFields : IsFilledList(table[f])
         /\ IsTextList(table["authority_requires_approval"])
         /\ \A f \in NumberFields : IsPositive(table[f])
<1>1. /\ Version(raw) \in SupportedVersions
      /\ LoadsRow(Content(Content(raw)["profile"])["dependency-update"], Version(raw))
  BY DEF Grants, Loads, Version, PROFILES
<1>2. LoadsGrant(RowOf(raw)["grant"], Version(raw))
  BY <1>1 DEF Grants, LoadsRow, RowOf
<1> QED BY <1>1, <1>2 DEF Grants, LoadsGrant, TableOf

LEMMA TargetsAgree ==
  ASSUME NEW raw, NEW table, NEW grant, Grants(raw, table, grant), NEW p \in Documents,
         NEW record \in MemberRecords
  PROVE  ~TargetRefused(p, grant, record) <=> Targeted(p, table, Version(raw), record)
<1>1. CASE Version(raw) = 1
  <2>1. grant.service = "none" /\ grant.targets = Texts(table["target_repositories"])
    BY <1>1 DEF Grants, GrantOf, TableOf
  <2>2. IsTextList(table["target_repositories"])
    BY <1>1, LoadedTable DEF IsTargets, IsFilledList, TargetField
  <2>3. \A text \in Texts(table["target_repositories"]) : IsStr(text)
    BY <2>2 DEF IsTextList, Every, Texts, IsText
  <2> QED BY <1>1, <2>1, <2>3, InListTexts DEF TargetRefused, Targeted
<1>2. CASE Version(raw) # 1
  <2> DEFINE service == ServiceOf[Content(table["targets_from"])]
             targets == GrantedTargets(record, service)
  <2>1. grant.service = service
    BY <1>2 DEF Grants, GrantOf, TableOf
  <2>2. service # "none"
    <3>1. Content(table["targets_from"]) \in DOMAIN ServiceOf
      BY <1>2, LoadedTable DEF IsTargets, TargetField
    <3> QED BY <3>1, RecordAssumption
  <2>3. CASE record = Unreadable \/ \E m \in record : ~ReadableMember(m, service)
    <3>1. targets = Unreadable
      BY <2>3 DEF GrantedTargets
    <3>2. TargetRefused(p, grant, record)
      BY <2>1, <2>2, <3>1 DEF TargetRefused
    <3>3. ~Targeted(p, table, Version(raw), record)
      BY <1>2, <2>3 DEF Targeted, ReadableMember
    <3> QED BY <3>2, <3>3
  <2>4. CASE record # Unreadable /\ \A m \in record : ReadableMember(m, service)
    <3> DEFINE granting ==
                 {m \in record : m.state # Str("retired") /\ m.grants[service] = Str("granted")}
    <3>1. targets = {Fold[Content(m.repository)] : m \in granting}
      BY <2>4 DEF GrantedTargets
    <3>2. \A m \in granting : Content(m.repository) \in DOMAIN Fold
      BY <2>4, LaneAssumption DEF ReadableMember
    <3>3. targets \in SUBSET {Fold[name] : name \in DOMAIN Fold}
      BY <3>1, <3>2
    <3>4. targets # Unreadable
      BY <3>3, RecordAssumption
    <3>5. ~TargetRefused(p, grant, record) <=>
            IsStr(p.target_repo) /\ Fold[Content(p.target_repo)] \in targets
      BY <2>1, <2>2, <3>4 DEF TargetRefused
    <3>6. Targeted(p, table, Version(raw), record) <=>
            /\ IsStr(p.target_repo)
            /\ \E m \in granting : Fold[Content(m.repository)] = Fold[Content(p.target_repo)]
      BY <1>2, <2>4 DEF Targeted, ReadableMember
    <3> HIDE DEF targets, granting
    <3> QED BY <3>1, <3>5, <3>6
  <2> QED BY <2>3, <2>4
<1> QED BY <1>1, <1>2

LEMMA ReachesAgree ==
  ASSUME NEW raw, NEW table, NEW grant, Grants(raw, table, grant), NEW p
  PROVE  ~ReachRefused(p, grant) <=>
           IF Version(raw) < 3 THEN p.reach = table["reach"]
           ELSE InList(p.reach, table["reach_options"])
<1>1. CASE Version(raw) < 3
  <2>1. grant.reaches = {table["reach"]}
    BY <1>1 DEF Grants, GrantOf, TableOf
  <2>2. IsList(table["reach"])
    BY <1>1, LoadedTable DEF IsReach, IsFilledList, IsTextList, ReachField
  <2> QED BY <1>1, <2>1, <2>2 DEF ReachRefused
<1>2. CASE ~(Version(raw) < 3)
  <2>1. grant.reaches = Texts(table["reach_options"])
    BY <1>2 DEF Grants, GrantOf, TableOf
  <2>2. \A option \in Texts(table["reach_options"]) : IsList(option)
    BY <1>2, LoadedTable DEF IsReach, IsFilledList, IsTextList, ReachField, Every, Texts
  <2> QED BY <1>2, <2>1, <2>2, InListTexts DEF ReachRefused
<1> QED BY <1>1, <1>2

\* A list of the grant is a value, and so is the package's.
LEMMA AuthorityAgrees ==
  ASSUME NEW raw \in SoundDocuments, NEW table, NEW grant, Grants(raw, table, grant),
         NEW p \in Documents
  PROVE  ~AuthorityRefused(p, grant) <=>
           /\ IsPermutation(p.allowed, table["authority_allowed"])
           /\ IsPermutation(p.requires_approval, table["authority_requires_approval"])
           /\ IsPermutation(p.prohibited, table["authority_prohibited"])
<1>1. /\ grant.allowed = table["authority_allowed"]
      /\ grant.requires = table["authority_requires_approval"]
      /\ grant.prohibited = table["authority_prohibited"]
  BY DEF Grants, GrantOf, TableOf
<1>2. \A f \in {"authority_allowed", "authority_requires_approval", "authority_prohibited"} :
        IsList(table[f]) /\ f \in DOMAIN table
  BY LoadedTable DEF IsFilledList, IsTextList, TermFields, GrantFields
<1>3. \A f \in DOMAIN table : IsValue(table[f])
  BY SoundAssumption DEF Grants, TableOf, RowOf, PROFILES
<1>4. IsValue(p.allowed) /\ IsValue(p.requires_approval) /\ IsValue(p.prohibited)
  BY LaneAssumption DEF Documents, Fields
<1> QED BY <1>1, <1>2, <1>3, <1>4, SameTermsPermute DEF AuthorityRefused

LEMMA CeilingsAgree ==
  ASSUME NEW v, IsValue(v), NEW ceiling, IsValue(ceiling), IsPositive(ceiling)
  PROVE  WithinCeiling(v, Number(ceiling)) <=> v \in {Int_(n) : n \in 1..Content(ceiling)}
<1>1. Number(ceiling) = Content(ceiling) /\ Content(ceiling) \in Int
  BY DEF IsValue, IsPositive, IsNumber, Number
<1>2. ASSUME WithinCeiling(v, Number(ceiling)) PROVE v \in {Int_(n) : n \in 1..Content(ceiling)}
  <2>1. Number(v) = Content(v) /\ v = Int_(Content(v)) /\ Content(v) \in Int
    BY <1>2 DEF WithinCeiling, IsNumber, Number, IsValue
  <2>2. Content(v) \in 1..Content(ceiling)
    BY <1>1, <1>2, <2>1 DEF WithinCeiling
  <2> QED BY <2>1, <2>2
<1>3. ASSUME NEW n \in 1..Content(ceiling), v = Int_(n) PROVE WithinCeiling(v, Number(ceiling))
  <2>1. v[1] = "int" /\ Content(v) = n
    BY <1>3 DEF Int_, Content
  <2>2. IsNumber(v) /\ Number(v) = n
    BY <2>1 DEF IsNumber, IsInt, IsBool, Number
  <2> QED BY <1>1, <2>2 DEF WithinCeiling
<1> QED BY <1>2, <1>3

LEMMA BudgetsAgree ==
  ASSUME NEW raw \in SoundDocuments, NEW table, NEW grant, Grants(raw, table, grant),
         NEW p \in Documents
  PROVE  ~BudgetRefused(p, grant) <=>
           /\ p.max_attempts \in {Int_(n) : n \in 1..Content(table["max_attempts"])}
           /\ p.max_llm_calls \in {Int_(n) : n \in 1..Content(table["max_llm_calls"])}
<1>1. /\ grant.attempts = Number(table["max_attempts"])
      /\ grant.calls = Number(table["max_llm_calls"])
  BY DEF Grants, GrantOf, TableOf
<1>2. \A f \in {"max_attempts", "max_llm_calls"} : IsPositive(table[f]) /\ f \in DOMAIN table
  BY LoadedTable DEF NumberFields, GrantFields
<1>3. \A f \in DOMAIN table : IsValue(table[f])
  BY SoundAssumption DEF Grants, TableOf, RowOf, PROFILES
<1>4. IsValue(p.max_attempts) /\ IsValue(p.max_llm_calls)
  BY LaneAssumption DEF Documents, Fields
<1> QED BY <1>1, <1>2, <1>3, <1>4, CeilingsAgree DEF BudgetRefused

LEMMA AcceptanceAgrees ==
  ASSUME NEW raw, NEW table, NEW grant, Grants(raw, table, grant), NEW p \in Documents
  PROVE  ~AcceptanceRefused(p, grant) <=>
           /\ IsList(p.acceptance) /\ p.acceptance # List(<<>>)
           /\ \A i \in DOMAIN Content(p.acceptance) :
                LET criterion == Content(p.acceptance)[i] IN
                  /\ IsMap(criterion)
                  /\ InList(Content(criterion).evidence_type, table["acceptance_evidence_types"])
                  /\ InList(Content(criterion).approver, table["acceptance_approvers"])
<1>1. /\ grant.types = Texts(table["acceptance_evidence_types"])
      /\ grant.approvers = Texts(table["acceptance_approvers"])
  BY DEF Grants, GrantOf, TableOf
<1>2. IsValue(p.acceptance)
  BY LaneAssumption DEF Documents, Fields
<1>3. IsList(p.acceptance) => (Content(p.acceptance) = <<>> <=> p.acceptance = List(<<>>))
  BY <1>2 DEF IsValue, List, Content
<1> QED BY <1>1, <1>3, InListTexts DEF AcceptanceRefused

-----------------------------------------------------------------------------
(* The decision. *)

LEMMA Loaded ==
  ASSUME NEW raw, Loads(raw)
  PROVE  /\ LoadPolicy(raw).version = Version(raw) /\ LoadPolicy(raw) # NoPolicy
         /\ DOMAIN LoadPolicy(raw).grants = PROFILES
         /\ \A name \in PROFILES :
              LET row == Content(Content(Content(raw)["profile"])[name]) IN
                LoadPolicy(raw).grants[name] =
                  IF "grant" \in DOMAIN row THEN GrantOf(row["grant"], Version(raw)) ELSE NoGrant
<1>1. /\ LoadPolicy(raw).version = Version(raw)
      /\ DOMAIN LoadPolicy(raw).grants = PROFILES
      /\ \A name \in PROFILES :
           LET row == Content(Content(Content(raw)["profile"])[name]) IN
             LoadPolicy(raw).grants[name] =
               IF "grant" \in DOMAIN row THEN GrantOf(row["grant"], Version(raw)) ELSE NoGrant
  BY DEF LoadPolicy, Version
<1>2. Version(raw) # 0
  BY DEF Loads, Version, SupportedVersions
<1>3. LoadPolicy(raw) # NoPolicy
  BY <1>1, <1>2 DEF NoPolicy
<1> QED BY <1>1, <1>3

\* A sound document has an objection exactly where the package is not within its grant.
LEMMA ObjectsToTheRest ==
  ASSUME NEW raw \in SoundDocuments, Loads(raw), NEW record \in MemberRecords,
         NEW p \in Documents
  PROVE  IsStr(p.profile) /\ ~Refuses(LoadPolicy(raw), p, record) <=> Conforms(p, raw, record)
<1> DEFINE loaded == LoadPolicy(raw)
           covered == p.profile = Str("dependency-update") /\ "grant" \in DOMAIN RowOf(raw)
<1>1. CASE covered
  <2> DEFINE table == TableOf(raw)
             grant == GrantOf(RowOf(raw)["grant"], Version(raw))
  <2>1. Grants(raw, table, grant)
    BY <1>1 DEF Grants
  <2>2. IsText(p.profile) /\ Content(p.profile) = "dependency-update"
    BY <1>1 DEF Str, IsText, IsStr, Content
  <2>3. "dependency-update" \in DOMAIN loaded.grants /\ loaded.grants["dependency-update"] = grant
    BY <1>1, Loaded DEF PROFILES, RowOf
  <2>4. grant # NoGrant
    <3>1. "targets" \in DOMAIN grant /\ "targets" \notin DOMAIN NoGrant
      BY DEF GrantOf, NoGrant
    <3> QED BY <3>1
  <2>5. ~Refuses(loaded, p, record) <=>
          /\ ~TargetRefused(p, grant, record) /\ ~StandingRefused(p) /\ ~BumpRefused(p)
          /\ ~ReachRefused(p, grant) /\ ~AuthorityRefused(p, grant) /\ ~BudgetRefused(p, grant)
          /\ ~AcceptanceRefused(p, grant) /\ ~ImpactRefused(p, grant)
    <3> HIDE DEF grant, loaded
    <3> QED BY <2>2, <2>3, <2>4 DEF Refuses
  <2>6. ~StandingRefused(p) <=> p.standing = Bool(TRUE)
    BY DEF StandingRefused
  <2>7. ~BumpRefused(p) <=>
          IsStr(p.from_version) /\ IsStr(p.to_version) /\ p.from_version # p.to_version
    BY DEF BumpRefused
  <2>8. ~ImpactRefused(p, grant) <=> InList(p.max_impact, table["max_impact"])
    <3>1. grant.impacts = Texts(table["max_impact"])
      BY DEF GrantOf, TableOf
    <3> QED BY <3>1, InListTexts DEF ImpactRefused
  <2>9. Conforms(p, raw, record) <=>
          /\ Targeted(p, table, Version(raw), record)
          /\ p.standing = Bool(TRUE)
          /\ IsStr(p.from_version) /\ IsStr(p.to_version) /\ p.from_version # p.to_version
          /\ IF Version(raw) < 3 THEN p.reach = table["reach"]
             ELSE InList(p.reach, table["reach_options"])
          /\ IsPermutation(p.allowed, table["authority_allowed"])
          /\ IsPermutation(p.requires_approval, table["authority_requires_approval"])
          /\ IsPermutation(p.prohibited, table["authority_prohibited"])
          /\ p.max_attempts \in {Int_(n) : n \in 1..Content(table["max_attempts"])}
          /\ p.max_llm_calls \in {Int_(n) : n \in 1..Content(table["max_llm_calls"])}
          /\ IsList(p.acceptance) /\ p.acceptance # List(<<>>)
          /\ \A i \in DOMAIN Content(p.acceptance) :
               LET criterion == Content(p.acceptance)[i] IN
                 /\ IsMap(criterion)
                 /\ InList(Content(criterion).evidence_type, table["acceptance_evidence_types"])
                 /\ InList(Content(criterion).approver, table["acceptance_approvers"])
          /\ InList(p.max_impact, table["max_impact"])
    BY <1>1 DEF Conforms, Version, RowOf, TableOf
  <2> HIDE DEF table, grant, loaded
  <2>targets. ~TargetRefused(p, grant, record) <=> Targeted(p, table, Version(raw), record)
    BY <2>1, TargetsAgree
  <2>reaches. ~ReachRefused(p, grant) <=>
                IF Version(raw) < 3 THEN p.reach = table["reach"]
                ELSE InList(p.reach, table["reach_options"])
    BY <2>1, ReachesAgree
  <2>authority. ~AuthorityRefused(p, grant) <=>
                  /\ IsPermutation(p.allowed, table["authority_allowed"])
                  /\ IsPermutation(p.requires_approval, table["authority_requires_approval"])
                  /\ IsPermutation(p.prohibited, table["authority_prohibited"])
    BY <2>1, AuthorityAgrees
  <2>budgets. ~BudgetRefused(p, grant) <=>
                /\ p.max_attempts \in {Int_(n) : n \in 1..Content(table["max_attempts"])}
                /\ p.max_llm_calls \in {Int_(n) : n \in 1..Content(table["max_llm_calls"])}
    BY <2>1, BudgetsAgree
  <2>acceptance. ~AcceptanceRefused(p, grant) <=>
                   /\ IsList(p.acceptance) /\ p.acceptance # List(<<>>)
                   /\ \A i \in DOMAIN Content(p.acceptance) :
                        LET criterion == Content(p.acceptance)[i] IN
                          /\ IsMap(criterion)
                          /\ InList(Content(criterion).evidence_type,
                                    table["acceptance_evidence_types"])
                          /\ InList(Content(criterion).approver, table["acceptance_approvers"])
    BY <2>1, AcceptanceAgrees
  <2>within. ~Refuses(loaded, p, record) <=> Conforms(p, raw, record)
    BY <2>5, <2>6, <2>7, <2>8, <2>9, <2>targets, <2>reaches, <2>authority, <2>budgets,
       <2>acceptance
  <2> QED BY <2>2, <2>within DEF loaded, IsText
<1>2. CASE ~covered
  <2>1. ~Conforms(p, raw, record)
    BY <1>2 DEF Conforms, RowOf
  <2>2. ASSUME IsStr(p.profile), ~Refuses(loaded, p, record) PROVE FALSE
    <3> DEFINE name == Content(p.profile)
               row == Content(Content(Content(raw)["profile"])[name])
    <3>1. name \in PROFILES /\ loaded.grants[name] # NoGrant
      BY <2>2, Loaded DEF Refuses
    <3>2. "grant" \in DOMAIN row
      BY <3>1, Loaded
    <3>3. name = "dependency-update"
      BY <3>1, <3>2, SoundAssumption
    <3>4. p.profile = Str(name)
      BY <2>2, LaneAssumption DEF Documents, Fields, IsValue
    <3> QED BY <1>2, <3>2, <3>3, <3>4 DEF RowOf
  <2> QED BY <2>1, <2>2
<1> QED BY <1>1, <1>2

\* A policy approves what the document of the moment grants, and nothing else, whatever is
\* edited or replaced between the accesses of approve (approval_policy.py, refusals_for;
\* operations.py, _authorize_approver).
THEOREM ApprovesWhatIsGranted ==
  ASSUME LoadsTheSound
  PROVE  Spec => PolicyDecides
<1> DEFINE Decided ==
      stage = "consulting" /\ stage' # stage /\ approver \notin Operators =>
        (stage' = "approved") =
          /\ policy \in SoundDocuments
          /\ approver = <<"policy", "dependency-update", Number(Content(policy)["version"])>>
          /\ Conforms(opened, policy, members)
<1>1. ASSUME ApprovalTyped, [Next]_vars, stage = "consulting", stage' # stage PROVE Consult
  <2>1. part = "approving"
    BY <1>1 DEF ApprovalTyped
  <2>2. Next
    BY <1>1 DEF vars, approval
  <2> QED
    BY <1>1, <2>1, <2>2
    DEF Next, Creating, Approving, Proposing, EditPackage, ReplacePolicy, ChangeRecord,
        BeginApprove, Validate, Load, approval
<1>2. ASSUME ApprovalTyped, Consult, approver \notin Operators PROVE Decided
  <2>1. /\ stage = "consulting" /\ opened \in Documents /\ policy \in PolicyDocuments
        /\ members \in MemberRecords
    BY <1>2 DEF Consult, ApprovalTyped
  <2>2. stage' = "approved" <=> Authorizes(policy, members, approver, opened)
    BY <1>2 DEF Consult, EndApproval
  <2>3. CASE ~Loads(policy)
    <3>1. LoadPolicy(policy) = NoPolicy
      BY <2>3 DEF LoadPolicy
    <3>2. ~Authorizes(policy, members, approver, opened)
      BY <1>2, <3>1 DEF Authorizes
    <3> QED BY <2>1, <2>2, <2>3, <3>2 DEF LoadsTheSound
  <2>4. CASE Loads(policy)
    <3>1. policy \in SoundDocuments
      BY <2>1, <2>4 DEF LoadsTheSound
    <3>2. Authorizes(policy, members, approver, opened) <=>
            /\ approver = <<"policy", Content(opened.profile), Version(policy)>>
            /\ IsStr(opened.profile) /\ ~Refuses(LoadPolicy(policy), opened, members)
      BY <1>2, <2>4, Loaded DEF Authorizes, ApproverFor
    <3>3. Authorizes(policy, members, approver, opened) <=>
            /\ approver = <<"policy", Content(opened.profile), Version(policy)>>
            /\ Conforms(opened, policy, members)
      <4>1. IsStr(opened.profile) /\ ~Refuses(LoadPolicy(policy), opened, members)
              <=> Conforms(opened, policy, members)
        BY <2>1, <2>4, <3>1, ObjectsToTheRest
      <4> QED BY <3>2, <4>1
    <3>4. Conforms(opened, policy, members) => Content(opened.profile) = "dependency-update"
      <4>1. Conforms(opened, policy, members) => opened.profile = Str("dependency-update")
        BY Zenon DEF Conforms
      <4> QED BY <4>1 DEF Str, Content
    <3>5. stage' = "approved" <=>
            /\ approver = <<"policy", "dependency-update", Version(policy)>>
            /\ Conforms(opened, policy, members)
      BY <2>2, <3>3, <3>4
    <3> QED BY <3>1, <3>5 DEF Version
  <2> QED BY <2>3, <2>4
<1>3. ApprovalTyped /\ [Next]_vars => [Decided]_vars
  BY <1>1, <1>2
<1>4. Spec => []ApprovalTyped
  BY InitCreators, NextCreators, InitTypes, NextApproval, PTL DEF Spec
<1> QED BY <1>3, <1>4, PTL DEF Spec, PolicyDecides

=============================================================================
