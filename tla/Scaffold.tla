------------------------------- MODULE Scaffold -------------------------------
(***************************************************************************)
(* `factory create` and its kin: create, create-standing, create-rotation  *)
(* and create from a readiness result.                                     *)
(*                                                                         *)
(* Each renders a package, looks whether its directory is there, stages    *)
(* and validates the files in a directory of its own and moves them into   *)
(* place.  Nothing is locked: two creators may find the directory absent.  *)
(* The move looks again, but for another reason: onto a directory it moves *)
(* into it.  Within a file system it is one rename; across two it copies,  *)
(* and may be killed half way.                                             *)
(***************************************************************************)
EXTENDS PackageDocument

CONSTANTS
  Creators,    \* processes, with one call each
  Ids,         \* names of package directories
  Standing,    \* [repository, dependency, id]: what a standing package may be for
  NoPackage,   \* an empty place
  NoCreator, NoCommand

ASSUME ScaffoldAssumption ==
  /\ Creators # {} /\ NoCreator \notin Creators
  /\ \A s \in Standing : s.id \in Ids

-----------------------------------------------------------------------------
(* What is rendered. *)

\* The first by name that the verifier can decide.
EvidenceTypeOf(profile) ==
  IF "automated_check" \in EvidenceTypes(profile) THEN "automated_check"
  ELSE IF "external_attestation" \in EvidenceTypes(profile) THEN "external_attestation"
  ELSE "human_review"

Criterion(type, approver) ==
  Map([evidence_type |-> Str(type), approver |-> Str(approver)])

\* A person's criterion too, unless the factory lands the units of the profile.
AcceptanceItems(profile) ==
  List(<<Criterion(EvidenceTypeOf(profile), "policy")>>
       \o IF profile \in Executable THEN <<>> ELSE <<Criterion("human_review", "devon")>>)

WorkTerms == <<Str("repository_read"), Str("repository_write"), Str("test_execution")>>

DefaultBudget(profile, limit) ==
  IF profile \in {"dependency-update", "maintenance-remediation"} THEN Int_(limit) ELSE Null

\* The universal skeleton, with typed stubs for the fields of the profile.
RenderPackage(profile, reach) ==
  LET Stub(v) == IF profile = "dependency-update" THEN v ELSE Absent IN
    [ profile           |-> Str(profile),
      target_repo       |-> Stub(Str("<edit: describe this field>")),
      standing          |-> IF profile = "non-software-operational" THEN Bool(FALSE)
                            ELSE Stub(Bool(FALSE)),
      from_version      |-> Stub(Str("0.0.0")),
      to_version        |-> Stub(Str("0.0.1")),
      reach             |-> reach,
      allowed           |-> List(WorkTerms),
      requires_approval |-> List(<<Str("merge_to_main")>>),
      prohibited        |-> List(<<Str("secret_write")>>),
      max_attempts      |-> DefaultBudget(profile, BUDGETS.max_attempts),
      max_llm_calls     |-> DefaultBudget(profile, BUDGETS.max_llm_calls),
      acceptance        |-> AcceptanceItems(profile),
      max_impact        |-> Str("low") ]

\* The shape the shipped policy grants.
RenderStandingPackage(repository, from, to, reach) ==
  [RenderPackage("dependency-update", List(<<reach>>)) EXCEPT
     !.target_repo = repository, !.standing = Bool(TRUE),
     !.from_version = from, !.to_version = to,
     !.allowed = List(Append(WorkTerms, Str("merge_to_main"))),
     !.requires_approval = List(<<>>)]

\* One criterion for each item of the queue, each decided by the owner.
RenderFromReadiness(queue, owner) ==
  [RenderPackage("maintenance-remediation", List(<<Str("source_repository")>>)) EXCEPT
     !.acceptance = List([i \in 1..queue |-> Criterion("human_review", owner)])]

\* The orchestrator rendered it; it may declare more than the skeleton does.
RenderRotation(reach, owner) ==
  [RenderPackage("non-software-operational", List(<<reach>>)) EXCEPT
     !.standing = Bool(TRUE),
     !.acceptance = List(<<Criterion("human_review", owner)>>)]

-----------------------------------------------------------------------------
(* The command lines. *)

Reaches == {Str("source_repository"), Str("live_estate")}

\* `fit`: the profile or ecosystem is known, the document can be read and is of its kind,
\* the queue holds something.  `sound`: what was passed in validates where it is put.
Calls(op, ids, docs) == [op : {op}, id : ids, fit : BOOLEAN, sound : BOOLEAN, doc : docs]

Commands ==
  Calls("create", Ids,
        {RenderPackage(profile, List(<<reach>>)) : profile \in PROFILES, reach \in Reaches})
  \cup Calls("create_rotation", Ids, {RenderRotation(Str("external_system"), "devon")})
  \cup Calls("create_from_readiness", Ids,
             {RenderFromReadiness(2, owner) : owner \in {"devon", "external:auditor"}})
  \cup UNION {Calls("create_standing", {s.id},
                    {RenderStandingPackage(s.repository, Str("1.0"), to, reach) :
                       to \in {Str("1.0"), Str("2.0")}, reach \in Reaches}) : s \in Standing}

Packages == {c.doc : c \in Commands}

ASSUME NoCommandAssumption == NoCommand \notin Commands

VARIABLES
  oneDevice,  \* the staging directory and the packages are on one file system
  places,     \* what is in each package directory, and what was moved into that
  step,       \* where each creator's call is
  command,    \* its command
  target,     \* where its move is about to go
  late        \* the directory was there when it looked

creating == <<step, command, target, late>>
scaffold == <<oneDevice, places, creating>>

\* `by`: whose files they are; `whole`: all of them; `inner`: the creator that moved its
\* directory inside.
Places(docs) == [doc : docs, by : Creators, whole : BOOLEAN, inner : Creators \cup {NoCreator}]

Steps == {"unused", "staged", "moving", "copying", "created", "refused", "failed", "killed"}

IdleCreators ==
  /\ oneDevice \in BOOLEAN /\ command = [c \in Creators |-> NoCommand]
  /\ target = [c \in Creators |-> "none"] /\ late = [c \in Creators |-> FALSE]

\* The call is over and nothing of it is left but what it put in place.
End(c, how) ==
  /\ step' = [step EXCEPT ![c] = how]
  /\ command' = [command EXCEPT ![c] = NoCommand] /\ target' = [target EXCEPT ![c] = "none"]

Goto_(c, where) == step' = [step EXCEPT ![c] = where]

\* Variant of Begin: whether the directory is there is left to the move.
BeginUnlooked(c) ==
  /\ step[c] = "unused"
  /\ \E cmd \in Commands :
       /\ late' = [late EXCEPT ![c] = places[cmd.id] # NoPackage]
       /\ \/ cmd.fit /\ cmd.sound /\ ValidPackage(cmd.doc)
             /\ Goto_(c, "staged") /\ command' = [command EXCEPT ![c] = cmd]
          \/ ~(cmd.fit /\ cmd.sound) /\ End(c, "refused")
  /\ UNCHANGED <<oneDevice, places, target>>

\* Refused where the request makes no package or the directory is there; rendered and
\* staged; refused where the staged files do not validate, with nothing written.
Begin(c) ==
  /\ step[c] = "unused"
  /\ \E cmd \in Commands :
       LET present == places[cmd.id] # NoPackage
           good == cmd.fit /\ ~present /\ cmd.sound /\ ValidPackage(cmd.doc)
       IN /\ late' = [late EXCEPT ![c] = present]
          /\ \/ good /\ Goto_(c, "staged") /\ command' = [command EXCEPT ![c] = cmd]
             \/ ~good /\ End(c, "refused")
  /\ UNCHANGED <<oneDevice, places, target>>

Place(c) == places[command[c].id]

\* The move looks where to: onto nothing, or into a directory; where its name is taken
\* there too, it fails.
LookAtTarget(c) ==
  LET full == Place(c) # NoPackage /\ Place(c).inner # NoCreator IN
  /\ step[c] = "staged"
  /\ \/ /\ ~full /\ Goto_(c, "moving")
        /\ target' = [target EXCEPT ![c] = IF Place(c) = NoPackage THEN "top" ELSE "inside"]
        /\ UNCHANGED command
     \/ full /\ End(c, "failed")
  /\ UNCHANGED <<oneDevice, places, late>>

\* Someone came first: neither the rename nor the copy takes a directory that is there.
Taken(c) ==
  IF target[c] = "top" THEN Place(c) # NoPackage ELSE Place(c).inner # NoCreator

Put(c, whole) ==
  places' = [places EXCEPT ![command[c].id] =
               IF target[c] = "top"
               THEN [doc |-> command[c].doc, by |-> c, whole |-> whole, inner |-> NoCreator]
               ELSE [@ EXCEPT !.inner = c]]

\* One rename, or the first file of a copy.
MoveStaged(c) ==
  /\ step[c] = "moving"
  /\ \/ ~Taken(c) /\ oneDevice /\ Put(c, TRUE) /\ End(c, "created")
     \/ /\ ~Taken(c) /\ ~oneDevice /\ Put(c, FALSE) /\ Goto_(c, "copying")
        /\ UNCHANGED <<command, target>>
     \/ Taken(c) /\ End(c, "failed") /\ UNCHANGED places
  /\ UNCHANGED <<oneDevice, late>>

FinishCopy(c) ==
  /\ step[c] = "copying"
  /\ places' = IF target[c] = "top" THEN [places EXCEPT ![command[c].id].whole = TRUE] ELSE places
  /\ End(c, "created")
  /\ UNCHANGED <<oneDevice, late>>

\* Killed at any point: what is in place stays.
Die(c) ==
  /\ step[c] \in {"staged", "moving", "copying"} /\ End(c, "killed")
  /\ UNCHANGED <<oneDevice, places, late>>

ScaffoldNext ==
  \E c \in Creators :
    Begin(c) \/ LookAtTarget(c) \/ MoveStaged(c) \/ FinishCopy(c) \/ Die(c)

=============================================================================
