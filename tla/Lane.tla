--------------------------------- MODULE Lane ---------------------------------
(***************************************************************************)
(* The standing lane: a package is created, approved by conformance to the *)
(* approval policy, and, once the orchestrator has registered it, proposed *)
(* as a unit of work.                                                      *)
(*                                                                         *)
(* The parts meet in a package that is in place and in a revision that is  *)
(* registered (its submission is module FrontDoor): a behaviour shows one  *)
(* of them, and approving starts from a package as a creator leaves it.    *)
(* While the approval is under way people edit the package, replace the    *)
(* policy and change the member record between any two of its reads.       *)
(***************************************************************************)
EXTENDS ApprovalPolicy, Scaffold, Decompose

CONSTANTS
  FirstPolicies,    \* what approval-policy.toml holds to begin with
  PolicyDocuments,  \* what it may hold
  FirstRecord,      \* the member record, to begin with
  MemberRecords,    \* what it may answer
  FieldValues,      \* <<field, value>>: what an author may write into a package
  GivenApprovers,   \* what may be passed as --approver
  Operators,        \* the ones of them that are people who operate the factory
  MaxEdits,         \* bound on what people change
  NoApprover

\* What package.yaml may hold: a rendered package, edited field by field.
Written == {e[2] : e \in FieldValues} \cup {doc[f] : doc \in Packages, f \in Fields}
Documents == [Fields -> Written]

ASSUME LaneAssumption ==
  /\ MaxEdits \in Nat /\ Operators \subseteq GivenApprovers
  /\ NoApprover \notin GivenApprovers
  /\ FirstPolicies \subseteq PolicyDocuments /\ FirstRecord \in MemberRecords
  /\ \A e \in FieldValues : e[1] \in Fields
  /\ NoPackage \notin Places(Documents) \cup Documents
  /\ \A raw \in PolicyDocuments, v \in Written :
       IsText(v) => NoApprover # ApproverFor(LoadPolicy(raw), Content(v))
  /\ \A v \in Written : IsValue(v)
  /\ \A record \in MemberRecords \ {Unreadable} : \A m \in record :
       IsStr(m.repository) => Content(m.repository) \in DOMAIN Fold

VARIABLES
  part,      \* "creating", "approving" or "proposing"
  policy,    \* approval-policy.toml
  members,   \* the member record
  edits,     \* how much people have changed
  stage,     \* where the approval is
  subject,   \* the package it is about
  approver,  \* who approves
  opened     \* the package it has loaded

approval == <<stage, subject, approver, opened>>
documents == <<policy, members, edits>>
vars == <<part, documents, approval, scaffold, decompose>>

ApprovalStages == {"idle", "validating", "loading", "consulting", "approved", "refused"}

\* One creator has been there, the others have yet to call.
Created(id, c, doc) ==
  /\ places = [i \in Ids |-> IF i # id THEN NoPackage ELSE
                             [doc |-> doc, by |-> c, whole |-> TRUE, inner |-> NoCreator]]
  /\ step = [d \in Creators |-> IF d = c THEN "created" ELSE "unused"]

Init ==
  /\ part \in {"creating", "approving", "proposing"}
  /\ policy \in FirstPolicies /\ members = FirstRecord /\ edits = 0
  /\ stage = "idle" /\ subject \in Ids /\ approver = NoApprover /\ opened = NoPackage
  /\ IdleCreators /\ DecomposeInit
  /\ IF part = "approving" THEN \E doc \in Packages :
                                  /\ ValidPackage(doc)
                                  /\ Created(subject, CHOOSE c \in Creators : TRUE, doc)
     ELSE /\ places = [id \in Ids |-> NoPackage] /\ step = [c \in Creators |-> "unused"]
          /\ policy = CHOOSE d \in FirstPolicies : TRUE
          /\ subject = CHOOSE id \in Ids : TRUE
  /\ part # "creating" => oneDevice
  /\ part # "proposing" => treeOf = CHOOSE h \in Histories : TRUE

-----------------------------------------------------------------------------
(* People. *)

EditPackage ==
  /\ edits < MaxEdits /\ edits' = edits + 1
  /\ \E id \in Ids, e \in FieldValues :
       /\ places[id] # NoPackage /\ places[id].whole
       /\ places' = [places EXCEPT ![id].doc[e[1]] = e[2]]
  /\ UNCHANGED <<policy, members, approval, oneDevice, creating>>

ReplacePolicy ==
  /\ edits < MaxEdits /\ edits' = edits + 1
  /\ policy' \in PolicyDocuments
  /\ UNCHANGED <<members, approval, scaffold>>

ChangeRecord ==
  /\ edits < MaxEdits /\ edits' = edits + 1
  /\ members' \in MemberRecords
  /\ UNCHANGED <<policy, approval, scaffold>>

-----------------------------------------------------------------------------
(* approve, up to its decision; what follows is module IntentPackage. *)

EndApproval(how) ==
  stage' = how /\ approver' = NoApprover /\ opened' = NoPackage

Present(id) == places[id] # NoPackage /\ places[id].whole

\* With --by-policy the approver is the one the policy of the moment grants for the
\* package's profile, which may be any text.
BeginApprove ==
  LET loaded == LoadPolicy(policy)
      profile == places[subject].doc.profile
      computed == loaded # NoPolicy /\ Present(subject) /\ IsText(profile)
  IN /\ stage = "idle"
     /\ \/ /\ computed
           /\ stage' = "validating" /\ approver' = ApproverFor(loaded, Content(profile))
           /\ UNCHANGED opened
        \/ ~computed /\ EndApproval("refused")
        \/ /\ stage' = "validating" /\ approver' \in GivenApprovers
           /\ UNCHANGED opened
     /\ UNCHANGED <<documents, subject, scaffold>>

Validate ==
  /\ stage = "validating"
  /\ LET valid == Present(subject) /\ ValidPackage(places[subject].doc) IN
       \/ valid /\ stage' = "loading" /\ UNCHANGED <<approver, opened>>
       \/ ~valid /\ EndApproval("refused")
  /\ UNCHANGED <<documents, subject, scaffold>>

Load ==
  /\ stage = "loading" /\ stage' = "consulting" /\ opened' = places[subject].doc
  /\ UNCHANGED <<documents, subject, approver, scaffold>>

\* A person who operates the factory, or exactly the approver the policy grants for this
\* profile, where the policy has no objection.
Authorizes(raw, record, who, p) ==
  \/ who \in Operators
  \/ LET loaded == LoadPolicy(raw) IN
       /\ loaded # NoPolicy /\ IsStr(p.profile)
       /\ who = ApproverFor(loaded, Content(p.profile))
       /\ ~Refuses(loaded, p, record)

Consult ==
  /\ stage = "consulting"
  /\ EndApproval(IF Authorizes(policy, members, approver, opened) THEN "approved" ELSE "refused")
  /\ UNCHANGED <<documents, subject, scaffold>>

-----------------------------------------------------------------------------

Creating ==
  /\ part = "creating" /\ ScaffoldNext
  /\ UNCHANGED <<part, documents, approval, decompose>>

Approving ==
  /\ part = "approving"
  /\ \/ EditPackage \/ ReplacePolicy \/ ChangeRecord
     \/ BeginApprove \/ Validate \/ Load \/ Consult
  /\ UNCHANGED <<part, decompose>>

Proposing ==
  /\ part = "proposing" /\ DecomposeNext
  /\ UNCHANGED <<part, documents, approval, scaffold>>

Next == Creating \/ Approving \/ Proposing

Spec == Init /\ [][Next]_vars

=============================================================================
