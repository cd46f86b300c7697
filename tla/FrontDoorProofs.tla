---------------------------- MODULE FrontDoorProofs ----------------------------
(***************************************************************************)
(* What submit, status and evidence leave behind and say, proved for every *)
(* value of the constants of FrontDoor: any number of edits, keys, units   *)
(* and polls.                                                              *)
(***************************************************************************)
EXTENDS FrontDoorProperties, TLAPS

USE DEF package, intakes, submission, view

-----------------------------------------------------------------------------
(* Types. *)

PackageTyped ==
  /\ inHand \in BOOLEAN /\ content \in Contents /\ commit \in Commits
  /\ approved \in BOOLEAN /\ approvals \subseteq Contents

IntakesTyped ==
  /\ rows \in [Keys -> Rows \cup {NoRow}] /\ pasted \subseteq Keys
  /\ adrift # NoRequest => adrift \in [key : Keys, payload : Payloads]

UnitsTyped ==
  /\ units \in [Units -> UnitRows] /\ seen \in [Units -> UnitRows]
  /\ moved \subseteq Units /\ movedAfter \subseteq Units

CallTyped ==
  /\ pc \in Places /\ key \in Keys \cup UnitKeys \cup {NoKey} /\ named \in {0} \cup Contents
  /\ print \in BOOLEAN /\ payload \in Payloads \cup {NoPayload} /\ answer \in Answers
  /\ wait \in BOOLEAN /\ polls \in 0..MaxPolls /\ announced \in BOOLEAN
  /\ pack \in Units \cup {NoUnit} /\ verdict \in Verdicts
  /\ revised \in BOOLEAN /\ settled \in BOOLEAN

\* TypeOK is not inductive by itself: a post is typed because the call got its key when
\* it read the package, and a wait keeps within its polls because it left in time.
Running ==
  /\ pc = "reading" => key \in OverrideKeys \cup {NoKey}
  /\ pc \in {"emitting", "handing", "posting"} => key \in Keys
  /\ pc = "posting" => payload \in Payloads
  /\ pc \in {"looking", "showing"} /\ wait => polls < MaxPolls
  /\ pc = "waiting" => polls < MaxPolls
  /\ pc # "idle" => verdict = "none"

TypeInv == PackageTyped /\ IntakesTyped /\ UnitsTyped /\ CallTyped /\ Running

LEMMA TypesFollow == TypeInv => TypeOK
<1> SUFFICES ASSUME TypeInv PROVE TypeOK
  OBVIOUS
<1>1. adrift = NoRequest \/ adrift \in [key : Keys, payload : Payloads]
  BY DEF TypeInv, IntakesTyped
<1> QED
  BY <1>1 DEF TypeInv, TypeOK, PackageTyped, IntakesTyped, UnitsTyped, CallTyped, Running

\* The steps by what they may change: the package is changed by people at the other
\* command line only.
PackageStep == Edit \/ Approve \/ MoveOn \/ CommitFiles
UnitStep == Propose \/ Authorize \/ Progress
IntakeStep == ActOnStage \/ ActLate \/ Decide \/ Paste
CallStep == Client \/ BeginSubmit \/ BeginStatus \/ BeginEvidence

LEMMA Steps ==
  ASSUME [Next]_vars
  PROVE  PackageStep \/ UnitStep \/ IntakeStep \/ CallStep \/ UNCHANGED vars
BY DEF Next, World, PackageStep, UnitStep, IntakeStep, CallStep

LEMMA PackageFrame ==
  ASSUME PackageStep
  PROVE  UNCHANGED <<inHand, intakes, units, pc, key, named, print, payload, answer, settled,
                     view, verdict>>
BY DEF PackageStep, Edit, Approve, MoveOn, CommitFiles

LEMMA UnitFrame ==
  ASSUME UnitStep
  PROVE  UNCHANGED <<inHand, package, intakes, pc, submission, wait, polls, seen, announced,
                     pack, verdict>>
BY DEF UnitStep, Propose, Authorize, Progress

LEMMA IntakeFrame ==
  ASSUME IntakeStep
  PROVE  UNCHANGED <<inHand, package, units, pc, key, named, print, payload, revised, view,
                     verdict>>
BY DEF IntakeStep, ActOnStage, ActLate, Decide, Paste

LEMMA CallFrame ==
  ASSUME CallStep
  PROVE  /\ UNCHANGED <<inHand, package, rows, pasted, units>>
         /\ ~StageTimesOut => UNCHANGED adrift
BY DEF CallStep, Client, ReadPackage, Emit, HandOff, StageAnswered, StageTimesOut, LookAtUnits,
       Show, Poll, Interrupt, ResolveUnit, Fetch, ReadFails, BeginSubmit, BeginStatus,
       BeginEvidence, Exit

\* Constants of their kinds.
LEMMA ConstantTypes ==
  /\ 1 \in Contents /\ 1 \in Commits /\ Contents \subseteq Nat /\ Contents \subseteq Keys
  /\ Absent \in UnitRows /\ OverrideKeys \subseteq Keys
  /\ OverrideKeys \cap Contents = {} /\ NoKey \notin Contents
BY FrontDoorAssumption DEF Contents, Commits, Keys, Absent, UnitRows

LEMMA InitTypes == Init => TypeInv
<1> SUFFICES ASSUME Init PROVE TypeInv
  OBVIOUS
<1> USE ConstantTypes DEF Init
<1>1. PackageTyped
  BY DEF PackageTyped
<1>2. IntakesTyped
  BY DEF IntakesTyped
<1>3. UnitsTyped
  BY DEF UnitsTyped
<1>4. CallTyped
  <2>1. polls \in 0..MaxPolls
    BY FrontDoorAssumption
  <2>2. print \in BOOLEAN /\ wait \in BOOLEAN /\ announced \in BOOLEAN
    OBVIOUS
  <2>3. revised \in BOOLEAN /\ settled \in BOOLEAN
    OBVIOUS
  <2> QED BY <2>1, <2>2, <2>3 DEF CallTyped, Places, Answers, Verdicts
<1>5. Running
  BY DEF Running
<1> QED BY <1>1, <1>2, <1>3, <1>4, <1>5 DEF TypeInv

LEMMA PackageTypes == TypeInv /\ [Next]_vars => PackageTyped'
<1> SUFFICES ASSUME TypeInv, [Next]_vars PROVE PackageTyped'
  OBVIOUS
<1>n. MaxChanges \in Nat /\ content \in 1..MaxChanges + 1 /\ commit \in 1..MaxChanges + 1
  BY FrontDoorAssumption DEF TypeInv, PackageTyped, Contents, Commits
<1>0. CASE UNCHANGED <<inHand, package>>
  BY <1>0 DEF TypeInv, PackageTyped
<1>1. CASE Edit
  <2>1. content' \in Contents /\ UNCHANGED <<inHand, commit, approvals>>
    BY <1>1, <1>n DEF Edit, Contents
  <2>2. approved' \in BOOLEAN
    BY <1>1 DEF Edit, TypeInv, PackageTyped
  <2> QED BY <2>1, <2>2 DEF TypeInv, PackageTyped
<1>2. CASE Approve \/ MoveOn
  BY <1>2 DEF Approve, MoveOn, TypeInv, PackageTyped
<1>3. CASE CommitFiles
  <2>1. commit' \in Commits
    BY <1>3, <1>n DEF CommitFiles, Commits
  <2> QED BY <1>3, <2>1 DEF CommitFiles, TypeInv, PackageTyped
<1> QED
  BY <1>0, <1>1, <1>2, <1>3, Steps, UnitFrame, IntakeFrame, CallFrame DEF PackageStep, vars

\* A row more, or none, when a request is acted on.
LEMMA StageTypes ==
  ASSUME TypeInv, NEW k \in Keys, NEW p \in Payloads, Stage(k, p)
  PROVE  /\ rows' \in [Keys -> Rows \cup {NoRow}]
         /\ ~Held(k) => rows' = [rows EXCEPT ![k] = [payload |-> p, state |-> "staged"]]
         /\ Held(k) => rows' = rows
<1>1. [payload |-> p, state |-> "staged"] \in Rows
  BY DEF Rows
<1> QED BY <1>1 DEF Stage, TypeInv, IntakesTyped

LEMMA IntakeTypes == TypeInv /\ [Next]_vars => IntakesTyped'
<1> SUFFICES ASSUME TypeInv, [Next]_vars PROVE IntakesTyped'
  OBVIOUS
<1>0. CASE UNCHANGED intakes
  BY <1>0 DEF TypeInv, IntakesTyped, NoRequest
<1>1. CASE ActOnStage
  <2>1. key \in Keys /\ payload \in Payloads
    BY <1>1 DEF ActOnStage, TypeInv, Running
  <2>2. rows' \in [Keys -> Rows \cup {NoRow}]
    BY <1>1, <2>1, StageTypes DEF ActOnStage, TypeInv, IntakesTyped
  <2> QED BY <1>1, <2>2 DEF ActOnStage, TypeInv, IntakesTyped, NoRequest
<1>2. CASE ActLate
  <2>1. adrift.key \in Keys /\ adrift.payload \in Payloads
    BY <1>2 DEF ActLate, TypeInv, IntakesTyped
  <2>2. rows' \in [Keys -> Rows \cup {NoRow}]
    BY <1>2, <2>1, StageTypes DEF ActLate, TypeInv, IntakesTyped
  <2> QED BY <1>2, <2>2 DEF ActLate, TypeInv, IntakesTyped, NoRequest
<1>3. CASE Decide
  <2>1. PICK k \in Keys, decision \in {"registered", "withdrawn"} :
          /\ rows[k] # NoRow
          /\ rows' = [rows EXCEPT ![k].state = decision]
    BY <1>3 DEF Decide
  <2>2. rows[k] \in Rows
    BY <2>1 DEF TypeInv, IntakesTyped
  <2>3. [rows[k] EXCEPT !.state = decision] \in Rows
    BY <2>2 DEF Rows
  <2>4. rows' = [rows EXCEPT ![k] = [rows[k] EXCEPT !.state = decision]]
    BY <2>1
  <2>5. rows' \in [Keys -> Rows \cup {NoRow}]
    BY <2>3, <2>4 DEF TypeInv, IntakesTyped
  <2> QED BY <1>3, <2>5 DEF Decide, TypeInv, IntakesTyped, NoRequest
<1>4. CASE Paste
  BY <1>4, ConstantTypes DEF Paste, TypeInv, IntakesTyped, NoRequest
<1>5. CASE StageTimesOut
  <2>1. key \in Keys /\ payload \in Payloads
    BY <1>5 DEF StageTimesOut, TypeInv, Running
  <2>2. UNCHANGED <<rows, pasted>>
    BY <1>5 DEF StageTimesOut, Exit
  <2>3. adrift' = adrift \/ adrift' = [key |-> key, payload |-> payload]
    BY <1>5 DEF StageTimesOut
  <2> QED BY <2>1, <2>2, <2>3 DEF TypeInv, IntakesTyped, NoRequest
<1> QED
  BY <1>0, <1>1, <1>2, <1>3, <1>4, <1>5, Steps, PackageFrame, UnitFrame, CallFrame
  DEF IntakeStep, vars

\* A unit that moves goes from one row of the kind to another.
LEMMA UnitMoves ==
  ASSUME UnitStep, TypeInv
  PROVE  \E u \in Units, row \in UnitRows :
           /\ units' = [units EXCEPT ![u] = row] /\ Moves(u)
           /\ row.state # "absent"
<1> USE DEF TypeInv, UnitsTyped
<1>1. CASE Propose
  <2>1. PICK u \in Units : units' = [units EXCEPT ![u].state = "draft"] /\ Moves(u)
    BY <1>1 DEF Propose
  <2> DEFINE row == [units[u] EXCEPT !.state = "draft"]
  <2>2. row \in UnitRows /\ row.state # "absent"
    BY FrontDoorAssumption DEF UnitRows
  <2>3. units' = [units EXCEPT ![u] = row]
    BY <2>1
  <2> QED BY <2>1, <2>2, <2>3
<1>2. CASE Authorize
  <2>1. PICK u \in Units : /\ units[u].state = "draft"
                           /\ units' = [units EXCEPT ![u].authority = TRUE] /\ Moves(u)
    BY <1>2 DEF Authorize
  <2> DEFINE row == [units[u] EXCEPT !.authority = TRUE]
  <2>2. row \in UnitRows /\ row.state # "absent"
    BY <2>1 DEF UnitRows
  <2>3. units' = [units EXCEPT ![u] = row]
    BY <2>1
  <2> QED BY <2>1, <2>2, <2>3
<1>3. CASE Progress
  <2>1. PICK u \in Units, to \in States \ {"draft"} :
          units' = [units EXCEPT ![u].state = to] /\ Moves(u)
    BY <1>3 DEF Progress
  <2> DEFINE row == [units[u] EXCEPT !.state = to]
  <2>2. row \in UnitRows /\ row.state # "absent"
    BY FrontDoorAssumption DEF UnitRows, WorkUnitStates
  <2>3. units' = [units EXCEPT ![u] = row]
    BY <2>1
  <2> QED BY <2>1, <2>2, <2>3
<1> QED BY <1>1, <1>2, <1>3 DEF UnitStep

\* What the client remembers of the units changes when it looks at them.
LEMMA LookFrame ==
  ASSUME CallStep
  PROVE  /\ ~LookAtUnits => UNCHANGED <<seen, moved>>
         /\ LookAtUnits => seen' = units /\ moved' = {}
         /\ movedAfter' = movedAfter \/ (movedAfter' = {} /\ (LookAtUnits \/ Poll \/ ResolveUnit))
<1>1. CASE BeginSubmit \/ BeginStatus \/ BeginEvidence
  BY <1>1 DEF BeginSubmit, BeginStatus, BeginEvidence, LookAtUnits
<1>2. CASE LookAtUnits
  BY <1>2 DEF LookAtUnits, Look
<1>3. CASE Poll \/ ResolveUnit
  BY <1>3 DEF Poll, ResolveUnit, Look, LookAtUnits, Exit
<1>4. CASE Client /\ ~LookAtUnits /\ ~Poll /\ ~ResolveUnit
  BY <1>4 DEF Client, ReadPackage, Emit, HandOff, StageAnswered, StageTimesOut, Show, Interrupt,
              Fetch, ReadFails, Exit
<1> QED BY <1>1, <1>2, <1>3, <1>4 DEF CallStep

LEMMA UnitTypes == TypeInv /\ [Next]_vars => UnitsTyped'
<1> SUFFICES ASSUME TypeInv, [Next]_vars PROVE UnitsTyped'
  OBVIOUS
<1>0. CASE UNCHANGED <<units, seen, moved, movedAfter>>
  BY <1>0 DEF TypeInv, UnitsTyped
<1>1. CASE UnitStep
  <2>1. PICK u \in Units, row \in UnitRows :
          units' = [units EXCEPT ![u] = row] /\ Moves(u)
    BY <1>1, UnitMoves
  <2>2. seen' = seen
    BY <1>1, UnitFrame
  <2> QED BY <2>1, <2>2 DEF Moves, TypeInv, UnitsTyped
<1>2. CASE CallStep
  BY <1>2, LookFrame, CallFrame DEF TypeInv, UnitsTyped
<1> QED BY <1>0, <1>1, <1>2, Steps, PackageFrame, IntakeFrame DEF vars

\* A call that ends is at rest.
LEMMA ExitTypes ==
  ASSUME TypeInv, NEW v \in Verdicts, Exit(v)
  PROVE  CallTyped' /\ Running'
<1>1. CallTyped'
  BY DEF Exit, TypeInv, CallTyped, Places, Answers
<1>2. Running'
  BY DEF Exit, Running
<1> QED BY <1>1, <1>2

\* A package command changes of a call that it is told the package was revised; what an
\* intake is decided on changes its answer.
LEMMA WorldTypes ==
  ASSUME TypeInv, [Next]_vars, PackageStep \/ IntakeStep \/ UnitStep \/ UNCHANGED vars
  PROVE  CallTyped' /\ Running'
<1>1. UNCHANGED <<pc, key, named, print, payload, wait, polls, announced, pack, verdict>>
  BY PackageFrame, IntakeFrame, UnitFrame DEF vars
<1>2. Running'
  BY <1>1 DEF TypeInv, Running
<1>3. revised' \in BOOLEAN
  <2>1. CASE revised' = revised
    BY <2>1 DEF TypeInv, CallTyped
  <2>2. CASE revised' = (revised \/ pc = "emitting")
    BY <2>2
  <2> QED
    BY <2>1, <2>2, IntakeFrame, UnitFrame
    DEF PackageStep, Edit, Approve, MoveOn, CommitFiles, vars
<1>4. settled' \in BOOLEAN
  <2>1. CASE settled' = settled
    BY <2>1 DEF TypeInv, CallTyped
  <2>2. ASSUME NEW k, settled' = (settled \/ k = key) PROVE settled' \in BOOLEAN
    BY <2>2
  <2>3. CASE settled' = FALSE
    BY <2>3
  <2> QED
    BY <2>1, <2>2, <2>3, PackageFrame, UnitFrame
    DEF IntakeStep, ActOnStage, ActLate, Decide, Paste, vars
<1>5. answer' \in Answers
  <2>1. CASE answer' = answer
    BY <2>1 DEF TypeInv, CallTyped
  <2>2. CASE ActOnStage
    <3>1. key \in Keys
      BY <2>2 DEF ActOnStage, TypeInv, Running
    <3>2. rows[key] # NoRow => rows[key].state \in {"staged", "registered", "withdrawn"}
      BY <3>1 DEF TypeInv, IntakesTyped, Rows
    <3>3. StageAnswer(key, payload) \in Answers
      BY <3>2 DEF StageAnswer, Answers
    <3> QED BY <2>2, <3>3 DEF ActOnStage, Answers
  <2> QED
    BY <2>1, <2>2, PackageFrame, UnitFrame DEF IntakeStep, ActLate, Decide, Paste, vars
<1>6. CallTyped'
  <2>1. UNCHANGED <<pc, key, named, print, payload, wait, polls, announced, pack, verdict>>
    BY <1>1
  <2> QED BY <1>3, <1>4, <1>5, <2>1 DEF TypeInv, CallTyped
<1> QED BY <1>2, <1>6

\* The steps of submit.
LEMMA SubmitTypes ==
  ASSUME TypeInv, BeginSubmit \/ ReadPackage \/ Emit \/ HandOff \/ StageAnswered \/ StageTimesOut
  PROVE  CallTyped' /\ Running'
<1>1. CASE BeginSubmit
  <2>1. /\ key' \in OverrideKeys \cup {NoKey} /\ pc' = "reading" /\ verdict' = "none"
        /\ UNCHANGED <<named, payload, answer, revised, settled, wait, polls, announced, pack>>
    BY <1>1 DEF BeginSubmit, Goto
  <2>2. print' \in BOOLEAN
    BY <1>1 DEF BeginSubmit
  <2>3. key' \in Keys \cup UnitKeys \cup {NoKey}
    BY <2>1, ConstantTypes
  <2> QED BY <2>1, <2>2, <2>3 DEF TypeInv, CallTyped, Running, Places, Verdicts
<1>2. CASE ReadPackage
  <2>1. CASE Exit("failed")
    BY <2>1, ExitTypes DEF Verdicts
  <2>2. CASE /\ named' = content /\ key' = IF key # NoKey THEN key ELSE StagingKey(content)
             /\ revised' = FALSE /\ Goto("emitting")
             /\ UNCHANGED <<print, payload, answer, settled, view, verdict>>
    <3>1. key' \in Keys /\ named' \in Contents
      BY <1>2, <2>2, ConstantTypes DEF ReadPackage, StagingKey, TypeInv, Running, PackageTyped
    <3>2. pc' = "emitting" /\ verdict = "none"
      BY <1>2, <2>2 DEF ReadPackage, Goto, TypeInv, Running
    <3>3. revised' \in BOOLEAN
      BY <2>2
    <3> QED BY <2>2, <3>1, <3>2, <3>3 DEF TypeInv, CallTyped, Running, Places
  <2> QED BY <1>2, <2>1, <2>2 DEF ReadPackage
<1>3. CASE Emit
  <2>1. CASE Exit("failed")
    BY <2>1, ExitTypes DEF Verdicts
  <2>2. CASE /\ payload' = [content |-> content, commit |-> commit, raced |-> revised]
             /\ Goto(IF print THEN "handing" ELSE "posting") /\ revised' = FALSE
             /\ UNCHANGED <<key, named, print, answer, settled, view, verdict>>
    <3>1. payload' \in Payloads
      BY <2>2 DEF TypeInv, PackageTyped, CallTyped, Payloads
    <3>2. pc' \in {"handing", "posting"} /\ key \in Keys /\ verdict = "none"
      BY <1>3, <2>2 DEF Emit, Goto, TypeInv, Running
    <3>3. revised' \in BOOLEAN
      BY <2>2
    <3> QED BY <2>2, <3>1, <3>2, <3>3 DEF TypeInv, CallTyped, Running, Places
  <2> QED BY <1>3, <2>1, <2>2 DEF Emit
<1>4. CASE HandOff \/ StageAnswered \/ StageTimesOut
  <2>1. \E v \in Verdicts : Exit(v)
    BY <1>4 DEF HandOff, StageAnswered, StageTimesOut, Verdicts, Telling
  <2> QED BY <2>1, ExitTypes
<1> QED BY <1>1, <1>2, <1>3, <1>4

\* The steps of status.
LEMMA StatusTypes ==
  ASSUME TypeInv, BeginStatus \/ LookAtUnits \/ Show \/ Poll \/ Interrupt
  PROVE  CallTyped' /\ Running'
<1>n. MaxPolls \in Nat \ {0} /\ polls \in 0..MaxPolls
  BY FrontDoorAssumption DEF TypeInv, CallTyped
<1>1. CASE BeginStatus
  <2>1. /\ pc' \in {"idle", "looking"} /\ polls' = 0 /\ pack' = NoUnit
        /\ verdict' \in Verdicts /\ (pc' # "idle" => verdict' = "none")
        /\ UNCHANGED <<key, named, payload, answer>>
    BY <1>1 DEF BeginStatus, Goto, Verdicts
  <2>2. wait' \in BOOLEAN /\ announced' \in BOOLEAN
    BY <1>1 DEF BeginStatus
  <2>3. print' \in BOOLEAN /\ revised' \in BOOLEAN /\ settled' \in BOOLEAN
    BY <1>1 DEF BeginStatus, TypeInv, CallTyped
  <2>4. polls' \in 0..MaxPolls /\ polls' < MaxPolls
    BY <1>n, <2>1
  <2> QED BY <2>1, <2>2, <2>3, <2>4 DEF TypeInv, CallTyped, Running, Places
<1>2. CASE LookAtUnits
  <2>1. /\ pc = "looking" /\ pc' = "showing"
        /\ UNCHANGED <<submission, wait, polls, announced, pack, verdict>>
    BY <1>2 DEF LookAtUnits, Goto
  <2> QED BY <2>1 DEF TypeInv, CallTyped, Running, Places
<1>3. CASE Show
  <2>1. CASE Exit("shown")
    BY <2>1, ExitTypes DEF Verdicts
  <2>2. CASE wait /\ Goto("waiting") /\ UNCHANGED <<submission, view, verdict>>
    BY <1>3, <2>2 DEF Show, Goto, TypeInv, CallTyped, Running, Places
  <2> QED BY <1>3, <2>1, <2>2 DEF Show
<1>4. CASE Poll
  <2>1. /\ pc = "waiting" /\ polls' = polls + 1 /\ polls < MaxPolls
        /\ UNCHANGED <<submission, pack>>
    BY <1>4 DEF Poll, TypeInv, Running
  <2>2. polls' \in 0..MaxPolls
    BY <1>n, <2>1
  <2>3. CASE announced' = TRUE /\ wait' = FALSE /\ Goto("looking") /\ UNCHANGED verdict
    <3>1. announced' \in BOOLEAN /\ wait' \in BOOLEAN
      BY <2>3
    <3> QED BY <2>1, <2>2, <2>3, <3>1 DEF Goto, TypeInv, CallTyped, Running, Places
  <2>4. CASE polls' < MaxPolls /\ UNCHANGED <<pc, verdict, announced, wait>>
    BY <2>1, <2>2, <2>4 DEF TypeInv, CallTyped, Running
  <2>5. CASE pc' = "idle" /\ verdict' = "unchanged" /\ UNCHANGED <<announced, wait>>
    BY <2>1, <2>2, <2>5 DEF TypeInv, CallTyped, Running, Places, Verdicts
  <2> QED BY <1>4, <2>3, <2>4, <2>5 DEF Poll
<1>5. CASE Interrupt
  BY <1>5, ExitTypes DEF Interrupt, Verdicts
<1> QED BY <1>1, <1>2, <1>3, <1>4, <1>5

\* The steps of evidence, and a read that fails.
LEMMA EvidenceTypes ==
  ASSUME TypeInv, BeginEvidence \/ ResolveUnit \/ Fetch \/ ReadFails
  PROVE  CallTyped' /\ Running'
<1>1. CASE BeginEvidence
  <2>1. /\ pc' \in {"idle", "resolving", "fetching"} /\ polls' = 0 /\ pack' = NoUnit
        /\ verdict' \in Verdicts /\ (pc' # "idle" => verdict' = "none")
        /\ key' \in UnitKeys \cup {NoKey}
        /\ UNCHANGED <<named, payload, answer>>
    BY <1>1 DEF BeginEvidence, Goto, Verdicts
  <2>2. wait' \in BOOLEAN /\ announced' \in BOOLEAN
    BY <1>1 DEF BeginEvidence
  <2>3. print' \in BOOLEAN /\ revised' \in BOOLEAN /\ settled' \in BOOLEAN
    BY <1>1 DEF BeginEvidence, TypeInv, CallTyped
  <2>4. polls' \in 0..MaxPolls
    BY <2>1, FrontDoorAssumption
  <2> QED BY <2>1, <2>2, <2>3, <2>4 DEF TypeInv, CallTyped, Running, Places
<1>2. CASE ResolveUnit
  <2>1. CASE Exit("failed")
    BY <2>1, ExitTypes DEF Verdicts
  <2>2. CASE /\ \E u \in Holders(key) : pack' = u
             /\ Goto("fetching")
             /\ UNCHANGED <<submission, wait, polls, announced, verdict>>
    <3>1. pack' \in Units
      BY <2>2 DEF Holders
    <3> QED BY <1>2, <2>2, <3>1 DEF ResolveUnit, Goto, TypeInv, CallTyped, Running, Places
  <2> QED BY <1>2, <2>1, <2>2 DEF ResolveUnit
<1>3. CASE Fetch \/ ReadFails
  BY <1>3, ExitTypes DEF Fetch, ReadFails, Verdicts
<1> QED BY <1>1, <1>2, <1>3

LEMMA NextTypes == TypeInv /\ [Next]_vars => TypeInv'
<1> SUFFICES ASSUME TypeInv, [Next]_vars PROVE TypeInv'
  OBVIOUS
<1>1. CallTyped' /\ Running'
  BY Steps, WorldTypes, SubmitTypes, StatusTypes, EvidenceTypes DEF CallStep, Client
<1> QED BY <1>1, PackageTypes, IntakeTypes, UnitTypes DEF TypeInv

\* No request is posted without a key and a payload that was emitted, and no wait goes
\* on beyond its polls, whatever is edited, answered or lost.
THEOREM TypeCorrect == Spec => []TypeOK
<1> QED BY InitTypes, NextTypes, TypesFollow, PTL DEF Spec

-----------------------------------------------------------------------------
(* The intakes. *)

\* What is staged under a derived key is the content of that key, unless the package
\* changed between submit's reading and the emission.
Fits(k, p) == k \in Contents /\ ~p.raced => p.content = k

\* An answer still holds of the row when it is told, a decision in between apart.
AnswerHolds ==
  /\ Held(key)
  /\ answer # "conflict" =>
       /\ rows[key] # NoRow /\ SameIntake(rows[key].payload, payload)
       /\ rows[key].state = answer \/ (answer = "staged" /\ settled)
  /\ answer = "conflict" /\ rows[key] # NoRow => ~SameIntake(rows[key].payload, payload)

\* One conjunct per place where a payload may be, from the row back to the files.
RowsFit == \A k \in Keys : rows[k] # NoRow => Fits(k, rows[k].payload)
AdriftFits == adrift # NoRequest => Fits(adrift.key, adrift.payload)
PostFits == pc = "posting" => Fits(key, payload)
KeyIsNamed == pc \in {"emitting", "posting"} /\ key \in Contents => named = key
ReadAsIs == pc = "emitting" /\ ~revised => content = named /\ approved
AnswersHold ==
  /\ pc # "posting" => answer = "none"
  /\ pc = "posting" /\ answer \in Telling => AnswerHolds

IntakeInv == RowsFit /\ AdriftFits /\ PostFits /\ KeyIsNamed /\ ReadAsIs /\ AnswersHold

LEMMA InitIntake == Init => IntakeInv
<1> SUFFICES ASSUME Init PROVE IntakeInv
  OBVIOUS
<1> USE DEF Init
<1>1. RowsFit /\ AdriftFits
  BY DEF RowsFit, AdriftFits
<1>2. PostFits /\ KeyIsNamed /\ ReadAsIs /\ AnswersHold
  BY DEF PostFits, KeyIsNamed, ReadAsIs, AnswersHold
<1> QED BY <1>1, <1>2 DEF IntakeInv

\* A key that is held keeps its row when a request is acted on.
LEMMA StageKeeps ==
  ASSUME TypeInv, NEW k \in Keys, NEW p \in Payloads, Stage(k, p)
  PROVE  /\ \A j \in Keys : j # k \/ Held(k) => rows'[j] = rows[j]
         /\ ~Held(k) => rows'[k] = [payload |-> p, state |-> "staged"]
BY StageTypes DEF TypeInv, IntakesTyped

LEMMA StageFits ==
  ASSUME TypeInv, RowsFit, NEW k \in Keys, NEW p \in Payloads, Fits(k, p), Stage(k, p)
  PROVE  RowsFit'
<1> SUFFICES ASSUME NEW j \in Keys, rows'[j] # NoRow PROVE Fits(j, rows'[j].payload)
  BY DEF RowsFit
<1>1. CASE j # k \/ Held(k)
  BY <1>1, StageKeeps DEF RowsFit
<1>2. CASE j = k /\ ~Held(k)
  <2>1. rows'[k] = [payload |-> p, state |-> "staged"]
    BY <1>2, StageKeeps
  <2>2. rows'[k].payload = p
    BY <2>1
  <2> QED BY <1>2, <2>2
<1> QED BY <1>1, <1>2

\* The people who decide, and what they leave of a row.
LEMMA DecideKeeps ==
  ASSUME TypeInv, Decide
  PROVE  \E k \in Keys : /\ rows[k] # NoRow /\ rows[k].state = "staged"
                         /\ rows'[k].payload = rows[k].payload
                         /\ \A j \in Keys \ {k} : rows'[j] = rows[j]
                         /\ rows'[k] # NoRow
                         /\ settled' = (settled \/ k = key)
<1>1. PICK k \in Keys, decision \in {"registered", "withdrawn"} :
        /\ rows[k] # NoRow /\ rows[k].state = "staged"
        /\ rows' = [rows EXCEPT ![k].state = decision]
        /\ settled' = (settled \/ k = key)
  BY DEF Decide
<1>2. rows[k] \in Rows
  BY <1>1 DEF TypeInv, IntakesTyped
<1>3. rows' = [rows EXCEPT ![k] = [rows[k] EXCEPT !.state = decision]]
  BY <1>1
<1>4. rows'[k] = [rows[k] EXCEPT !.state = decision] /\ \A j \in Keys \ {k} : rows'[j] = rows[j]
  BY <1>3 DEF TypeInv, IntakesTyped
<1>5. rows'[k] \in Rows /\ rows'[k].payload = rows[k].payload
  BY <1>2, <1>4 DEF Rows
<1> QED BY <1>1, <1>4, <1>5, NoRowAssumption

LEMMA NextRowsFit == TypeInv /\ IntakeInv /\ [Next]_vars => RowsFit'
<1> SUFFICES ASSUME TypeInv, IntakeInv, [Next]_vars PROVE RowsFit'
  OBVIOUS
<1>0. CASE rows' = rows
  BY <1>0 DEF IntakeInv, RowsFit
<1>1. CASE ActOnStage
  <2>1. key \in Keys /\ payload \in Payloads /\ Fits(key, payload)
    BY <1>1 DEF ActOnStage, TypeInv, Running, IntakeInv, PostFits
  <2>2. Stage(key, payload) \/ rows' = rows
    BY <1>1 DEF ActOnStage
  <2> QED BY <1>0, <2>1, <2>2, StageFits DEF IntakeInv
<1>2. CASE ActLate
  <2>1. adrift.key \in Keys /\ adrift.payload \in Payloads /\ Fits(adrift.key, adrift.payload)
    BY <1>2 DEF ActLate, TypeInv, IntakesTyped, IntakeInv, AdriftFits
  <2>2. Stage(adrift.key, adrift.payload) \/ rows' = rows
    BY <1>2 DEF ActLate
  <2> QED BY <1>0, <2>1, <2>2, StageFits DEF IntakeInv
<1>3. CASE Decide
  <2>1. PICK k \in Keys : /\ rows[k] # NoRow /\ rows'[k].payload = rows[k].payload
                          /\ \A j \in Keys \ {k} : rows'[j] = rows[j]
    BY <1>3, DecideKeeps
  <2> SUFFICES ASSUME NEW j \in Keys, rows'[j] # NoRow PROVE Fits(j, rows'[j].payload)
    BY DEF RowsFit
  <2>2. rows[j] # NoRow /\ rows'[j].payload = rows[j].payload
    BY <2>1
  <2>3. Fits(j, rows[j].payload)
    BY <2>2 DEF IntakeInv, RowsFit
  <2> QED BY <2>2, <2>3
<1> QED
  BY <1>0, <1>1, <1>2, <1>3, Steps, PackageFrame, UnitFrame, CallFrame
  DEF IntakeStep, Paste, vars

LEMMA NextAdriftFits == TypeInv /\ IntakeInv /\ [Next]_vars => AdriftFits'
<1> SUFFICES ASSUME TypeInv, IntakeInv, [Next]_vars PROVE AdriftFits'
  OBVIOUS
<1>1. CASE adrift' = adrift
  BY <1>1 DEF IntakeInv, AdriftFits, NoRequest
<1>2. CASE adrift' = NoRequest
  BY <1>2 DEF AdriftFits, NoRequest
<1>3. CASE StageTimesOut /\ adrift' = [key |-> key, payload |-> payload]
  <2>1. Fits(key, payload) /\ adrift'.key = key /\ adrift'.payload = payload
    BY <1>3 DEF StageTimesOut, IntakeInv, PostFits
  <2> QED BY <2>1 DEF AdriftFits
<1>4. StageTimesOut => adrift' = adrift \/ adrift' = [key |-> key, payload |-> payload]
  BY DEF StageTimesOut
<1> QED
  BY <1>1, <1>2, <1>3, <1>4, Steps, PackageFrame, UnitFrame, CallFrame
  DEF IntakeStep, ActOnStage, ActLate, Decide, Paste, vars

\* Submit reads the files, and what is emitted is what it read unless they changed.
LEMMA ReadingFits ==
  ASSUME TypeInv, IntakeInv, CallStep
  PROVE  PostFits' /\ KeyIsNamed' /\ ReadAsIs'
<1>1. CASE pc' \notin {"emitting", "posting"}
  BY <1>1 DEF PostFits, KeyIsNamed, ReadAsIs
<1>2. CASE ReadPackage /\ pc' = "emitting"
  <2>1. /\ pc = "reading" /\ approved /\ named' = content /\ UNCHANGED <<content, approved>>
        /\ key' = IF key # NoKey THEN key ELSE content
    BY <1>2 DEF ReadPackage, Exit, StagingKey
  <2>2. key \in OverrideKeys \cup {NoKey}
    BY <2>1 DEF TypeInv, Running
  <2>3. key' \in Contents => named' = key'
    BY <2>1, <2>2, ConstantTypes
  <2> QED BY <1>2, <2>1, <2>3 DEF PostFits, KeyIsNamed, ReadAsIs
<1>3. CASE Emit /\ pc' = "posting"
  <2>1. /\ pc = "emitting" /\ UNCHANGED <<key, named>>
        /\ payload' = [content |-> content, commit |-> commit, raced |-> revised]
    BY <1>3 DEF Emit, Exit
  <2>2. payload'.raced = revised /\ payload'.content = content
    BY <2>1
  <2>3. key \in Contents /\ ~revised => content = key
    BY <2>1 DEF IntakeInv, KeyIsNamed, ReadAsIs
  <2>4. Fits(key', payload')
    BY <2>1, <2>2, <2>3 DEF Fits
  <2>5. key' \in Contents => named' = key'
    BY <2>1 DEF IntakeInv, KeyIsNamed
  <2> QED BY <1>3, <2>4, <2>5 DEF PostFits, KeyIsNamed, ReadAsIs
<1>4. ReadPackage \/ Emit \/ pc' \notin {"emitting", "posting"}
  BY DEF CallStep, Client, HandOff, StageAnswered, StageTimesOut, LookAtUnits, Show, Poll,
         Interrupt, ResolveUnit, Fetch, ReadFails, BeginSubmit, BeginStatus, BeginEvidence,
         Exit, Goto
<1>5. ReadPackage => pc' \in {"emitting", "idle"}
  BY DEF ReadPackage, Exit, Goto
<1>6. Emit => pc' \in {"handing", "posting", "idle"}
  BY DEF Emit, Exit, Goto
<1> QED BY <1>1, <1>2, <1>3, <1>4, <1>5, <1>6

LEMMA NextFits == TypeInv /\ IntakeInv /\ [Next]_vars => PostFits' /\ KeyIsNamed' /\ ReadAsIs'
<1> SUFFICES ASSUME TypeInv, IntakeInv, [Next]_vars PROVE PostFits' /\ KeyIsNamed' /\ ReadAsIs'
  OBVIOUS
<1>1. CASE PackageStep \/ UnitStep \/ IntakeStep \/ UNCHANGED vars
  <2>1. UNCHANGED <<pc, key, named, payload>>
    BY <1>1, PackageFrame, UnitFrame, IntakeFrame DEF vars
  <2>2. PostFits'
    BY <2>1 DEF IntakeInv, PostFits
  <2>3. KeyIsNamed'
    BY <2>1 DEF IntakeInv, KeyIsNamed
  <2>4. ReadAsIs'
    <3> SUFFICES ASSUME pc = "emitting", ~revised' PROVE (content = named /\ approved)'
      BY <2>1 DEF ReadAsIs
    <3>1. CASE UNCHANGED <<content, approved, revised>>
      BY <2>1, <3>1 DEF IntakeInv, ReadAsIs
    <3>2. CASE CommitFiles
      BY <3>1, <3>2 DEF CommitFiles
    <3>3. ~(Edit \/ Approve \/ MoveOn)
      BY DEF Edit, Approve, MoveOn
    <3> QED
      BY <1>1, <3>1, <3>2, <3>3, UnitFrame, IntakeFrame DEF PackageStep, vars
  <2> QED BY <2>2, <2>3, <2>4
<1>2. CASE CallStep
  BY <1>2, ReadingFits
<1> QED BY <1>1, <1>2, Steps

\* Whatever else happens to the intakes, an answer stays true of the row it is about.
LEMMA AnswerKept ==
  ASSUME TypeInv, IntakeInv, ActLate \/ Decide \/ Paste, AnswerHolds, pc = "posting"
  PROVE  AnswerHolds'
<1>1. key \in Keys /\ UNCHANGED <<key, payload, answer>>
  BY DEF TypeInv, Running, ActLate, Decide, Paste
<1>2. CASE UNCHANGED <<rows, settled>> /\ pasted \subseteq pasted'
  <2>1. Held(key)'
    BY <1>1, <1>2 DEF AnswerHolds, Held
  <2> QED BY <1>1, <1>2, <2>1 DEF AnswerHolds
<1>3. CASE ActLate
  <2>1. adrift.key \in Keys /\ adrift.payload \in Payloads
    BY <1>3 DEF ActLate, TypeInv, IntakesTyped
  <2>2. Held(key) /\ UNCHANGED <<pasted, settled>>
    BY <1>3 DEF ActLate, AnswerHolds
  <2>3. rows'[key] = rows[key]
    <3>1. CASE Stage(adrift.key, adrift.payload)
      BY <1>1, <2>1, <2>2, <3>1, StageKeeps
    <3> QED BY <1>3, <3>1 DEF ActLate
  <2>4. Held(key)'
    BY <1>1, <2>2, <2>3 DEF Held
  <2> QED BY <1>1, <2>2, <2>3, <2>4 DEF AnswerHolds
<1>4. CASE Decide
  <2>1. PICK k \in Keys : /\ rows[k] # NoRow /\ rows[k].state = "staged"
                          /\ rows'[k].payload = rows[k].payload
                          /\ \A j \in Keys \ {k} : rows'[j] = rows[j]
                          /\ rows'[k] # NoRow
                          /\ settled' = (settled \/ k = key)
    BY <1>4, DecideKeeps
  <2>2. UNCHANGED pasted
    BY <1>4 DEF Decide
  <2>3. (rows[key] # NoRow <=> rows'[key] # NoRow) /\ rows'[key].payload = rows[key].payload
    BY <1>1, <2>1
  <2>4. Held(key)'
    BY <1>1, <2>2, <2>3 DEF AnswerHolds, Held
  <2>5. ASSUME answer # "conflict"
        PROVE  rows'[key].state = answer \/ (answer = "staged" /\ settled')
    <3>1. CASE k = key
      BY <2>1, <2>5, <3>1 DEF AnswerHolds
    <3>2. CASE k # key
      BY <1>1, <2>1, <2>5, <3>2 DEF AnswerHolds
    <3> QED BY <3>1, <3>2
  <2> QED BY <1>1, <2>3, <2>4, <2>5 DEF AnswerHolds, SameIntake
<1> QED BY <1>2, <1>3, <1>4 DEF Paste

\* The orchestrator answers for the row it has or makes.
LEMMA AnswerGiven ==
  ASSUME TypeInv, IntakeInv, ActOnStage, answer' \in Telling
  PROVE  AnswerHolds'
<1>1. /\ key \in Keys /\ payload \in Payloads /\ UNCHANGED <<key, payload, pasted>>
      /\ Stage(key, payload) /\ answer' = StageAnswer(key, payload)
  BY DEF ActOnStage, TypeInv, Running, Telling
<1>2. CASE ~Held(key)
  <2>1. rows'[key] = [payload |-> payload, state |-> "staged"] /\ answer' = "staged"
    BY <1>1, <1>2, StageKeeps DEF StageAnswer
  <2>2. rows'[key] \in Rows
    BY <1>1, <2>1 DEF Rows
  <2> QED BY <1>1, <2>1, <2>2, NoRowAssumption DEF AnswerHolds, Held, SameIntake
<1>3. CASE Held(key)
  <2>1. rows' = rows /\ Held(key)'
    BY <1>1, <1>3, StageTypes DEF Held
  <2>2. CASE rows[key] # NoRow /\ SameIntake(rows[key].payload, payload)
    <3>1. rows[key].state \in {"staged", "registered", "withdrawn"}
      BY <1>1, <2>2 DEF TypeInv, IntakesTyped, Rows
    <3>2. answer' = rows[key].state
      BY <1>1, <1>3, <2>2 DEF StageAnswer
    <3> QED BY <1>1, <2>1, <2>2, <3>1, <3>2 DEF AnswerHolds
  <2>3. CASE ~(rows[key] # NoRow /\ SameIntake(rows[key].payload, payload))
    <3>1. answer' = "conflict"
      BY <1>1, <1>3, <2>3 DEF StageAnswer
    <3> QED BY <1>1, <2>1, <2>3, <3>1 DEF AnswerHolds
  <2> QED BY <2>2, <2>3
<1> QED BY <1>2, <1>3

LEMMA NextAnswersHold == TypeInv /\ IntakeInv /\ [Next]_vars => AnswersHold'
<1> SUFFICES ASSUME TypeInv, IntakeInv, [Next]_vars PROVE AnswersHold'
  OBVIOUS
<1>1. CASE PackageStep \/ UnitStep \/ UNCHANGED vars
  <2>1. UNCHANGED <<pc, key, payload, answer, settled, rows, pasted>>
    BY <1>1, PackageFrame, UnitFrame DEF vars
  <2>2. AnswerHolds => AnswerHolds'
    BY <2>1 DEF AnswerHolds, Held
  <2> QED BY <2>1, <2>2 DEF IntakeInv, AnswersHold
<1>2. CASE ActLate \/ Decide \/ Paste
  <2>1. UNCHANGED <<pc, answer>>
    BY <1>2 DEF ActLate, Decide, Paste
  <2> QED BY <1>2, <2>1, AnswerKept DEF IntakeInv, AnswersHold
<1>3. CASE ActOnStage
  <2>1. pc' = "posting"
    BY <1>3 DEF ActOnStage
  <2> QED BY <1>3, <2>1, AnswerGiven DEF AnswersHold
<1>4. CASE CallStep
  <2>1. answer' = "none" \/ (answer' = answer /\ pc # "posting")
    BY <1>4
    DEF CallStep, Client, ReadPackage, Emit, HandOff, StageAnswered, StageTimesOut, LookAtUnits,
        Show, Poll, Interrupt, ResolveUnit, Fetch, ReadFails, BeginSubmit, BeginStatus,
        BeginEvidence, Exit
  <2>2. answer' = "none"
    BY <2>1 DEF IntakeInv, AnswersHold
  <2> QED BY <2>2 DEF AnswersHold, Telling
<1> QED BY <1>1, <1>2, <1>3, <1>4, Steps DEF IntakeStep

LEMMA NextIntake == TypeInv /\ IntakeInv /\ [Next]_vars => IntakeInv'
BY NextRowsFit, NextAdriftFits, NextFits, NextAnswersHold DEF IntakeInv

LEMMA IntakeAlways == Spec => [](TypeInv /\ IntakeInv)
<1> QED BY InitTypes, InitIntake, NextTypes, NextIntake, PTL DEF Spec

\* Two rows of derived keys hold two contents, unless the package changed under a submit.
LEMMA RowsApart == TypeInv /\ IntakeInv => OneRowPerRevision
<1> SUFFICES ASSUME TypeInv, IntakeInv,
                    NEW j \in Contents, NEW k \in Contents,
                    rows[j] # NoRow, rows[k] # NoRow,
                    ~rows[j].payload.raced, ~rows[k].payload.raced,
                    rows[j].payload.content = rows[k].payload.content
             PROVE  j = k
  BY DEF OneRowPerRevision
<1>1. j \in Keys /\ k \in Keys
  BY ConstantTypes
<1> QED BY <1>1 DEF IntakeInv, RowsFit, Fits

\* However often submit is repeated, times out or is raced by late requests, an approved
\* content has one row of its derived key.
THEOREM OneRowEach == Spec => []OneRowPerRevision
<1> QED BY IntakeAlways, RowsApart, PTL

\* What is emitted was approved when submit read it, and is in the lineage.
THEOREM StagesTheApproved == Spec => StagedWasApproved
<1>1. TypeInv /\ IntakeInv /\ [Next]_vars =>
        [payload' # payload /\ payload' # NoPayload =>
           payload'.content \in approvals /\ (approved \/ revised)]_vars
  <2> SUFFICES ASSUME IntakeInv, [Next]_vars, payload' # payload, payload' # NoPayload
               PROVE  payload'.content \in approvals /\ (approved \/ revised)
    OBVIOUS
  <2>1. Emit
    BY Steps, PackageFrame, UnitFrame, IntakeFrame
    DEF CallStep, Client, ReadPackage, HandOff, StageAnswered, StageTimesOut, LookAtUnits, Show,
        Poll, Interrupt, ResolveUnit, Fetch, ReadFails, BeginSubmit, BeginStatus, BeginEvidence,
        Exit, vars
  <2>2. /\ pc = "emitting" /\ content \in approvals
        /\ payload' = [content |-> content, commit |-> commit, raced |-> revised]
    BY <2>1 DEF Emit, Exit
  <2>3. payload'.content = content
    BY <2>2
  <2> QED BY <2>2, <2>3 DEF IntakeInv, ReadAsIs
<1> QED BY <1>1, IntakeAlways, PTL DEF Spec, StagedWasApproved

\* What submit tells of a row is so of the row as it then stands.
THEOREM TellsTheTruth == Spec => VerdictIsTrue
<1>1. TypeInv /\ IntakeInv /\ [Next]_vars =>
        [pc = "posting" /\ verdict' \in Telling =>
           /\ Held(key)
           /\ verdict' # "conflict" =>
                /\ rows[key] # NoRow /\ SameIntake(rows[key].payload, payload)
                /\ rows[key].state = verdict' \/ (verdict' = "staged" /\ settled)
           /\ (verdict' = "conflict" /\ rows[key] # NoRow) =>
                ~SameIntake(rows[key].payload, payload)
           /\ (key \in Contents /\ rows[key] # NoRow /\ ~rows[key].payload.raced) =>
                rows[key].payload.content = named]_vars
  <2> SUFFICES ASSUME TypeInv, IntakeInv, [Next]_vars, pc = "posting", verdict' \in Telling
               PROVE  /\ Held(key)
                      /\ verdict' # "conflict" =>
                           /\ rows[key] # NoRow /\ SameIntake(rows[key].payload, payload)
                           /\ rows[key].state = verdict' \/ (verdict' = "staged" /\ settled)
                      /\ (verdict' = "conflict" /\ rows[key] # NoRow) =>
                           ~SameIntake(rows[key].payload, payload)
                      /\ (key \in Contents /\ rows[key] # NoRow /\ ~rows[key].payload.raced) =>
                           rows[key].payload.content = named
    OBVIOUS
  <2>1. verdict' # verdict
    BY DEF TypeInv, Running, Telling
  <2>2. StageAnswered \/ StageTimesOut
    BY <2>1, Steps, PackageFrame, UnitFrame, IntakeFrame
    DEF CallStep, Client, ReadPackage, Emit, HandOff, LookAtUnits, Show, Poll, Interrupt,
        ResolveUnit, Fetch, ReadFails, BeginSubmit, BeginStatus, BeginEvidence, vars
  <2>3. answer \in Telling /\ verdict' = answer
    BY <2>2 DEF StageAnswered, StageTimesOut, Exit, Telling
  <2>4. AnswerHolds
    BY <2>3 DEF IntakeInv, AnswersHold
  <2>5. (key \in Contents /\ rows[key] # NoRow /\ ~rows[key].payload.raced) =>
           rows[key].payload.content = named
    BY DEF TypeInv, Running, IntakeInv, RowsFit, KeyIsNamed, Fits
  <2> QED BY <2>3, <2>4, <2>5 DEF AnswerHolds
<1> QED BY <1>1, IntakeAlways, PTL DEF Spec, VerdictIsTrue

-----------------------------------------------------------------------------
(* The units. *)

\* A unit that nobody proposed has no authority either.
AbsentIsAbsent(read) == \A u \in Units : read[u].state = "absent" => read[u] = Absent

\* What was read first and what is there differ in the units that moved, what was read
\* last in those that moved since; before a pack is fetched there is none.
UnitsInv ==
  /\ AbsentIsAbsent(units) /\ AbsentIsAbsent(seen)
  /\ \A u \in Units \ moved : seen[u] = units[u]
  /\ pc = "looking" /\ announced => moved # {}
  /\ verdict = "unchanged" => \A u \in Units \ movedAfter : units[u].state = seen[u].state
  /\ pc \in {"looking", "showing", "waiting", "resolving"} => pack = NoUnit
  /\ pack # NoUnit /\ pack \notin movedAfter => units[pack].state \notin {"absent", "cancelled"}

LEMMA InitUnits == Init => UnitsInv
BY DEF Init, UnitsInv, AbsentIsAbsent, Absent

\* A wait tells two reads apart exactly when some unit's state differs.
LEMMA StatesCompared ==
  ASSUME TypeInv, AbsentIsAbsent(units), AbsentIsAbsent(seen)
  PROVE  UnitStates(units) = UnitStates(seen) <=>
           \A u \in Units : units[u].state = seen[u].state
<1>a. Absent.state = "absent"
  BY DEF Absent
<1>b. \A u \in Units : units[u] # Absent <=> units[u].state # "absent"
  BY <1>a DEF AbsentIsAbsent
<1>c. \A u \in Units : seen[u] # Absent <=> seen[u].state # "absent"
  BY <1>a DEF AbsentIsAbsent
<1>1. ASSUME UnitStates(units) = UnitStates(seen), NEW u \in Units
      PROVE  units[u].state = seen[u].state
  <2>1. DOMAIN UnitStates(units) = UnitsFor(units) /\ DOMAIN UnitStates(seen) = UnitsFor(seen)
    BY DEF UnitStates
  <2>2. UnitsFor(units) = UnitsFor(seen)
    BY <1>1, <2>1
  <2>3. CASE u \in UnitsFor(units)
    <3>1. UnitStates(units)[u] = units[u].state /\ UnitStates(seen)[u] = seen[u].state
      BY <2>2, <2>3 DEF UnitStates
    <3> QED BY <1>1, <3>1
  <2>4. CASE u \notin UnitsFor(units)
    <3>1. units[u] = Absent /\ seen[u] = Absent
      BY <2>2, <2>4 DEF UnitsFor
    <3> QED BY <3>1
  <2> QED BY <2>3, <2>4
<1>2. ASSUME \A u \in Units : units[u].state = seen[u].state
      PROVE  UnitStates(units) = UnitStates(seen)
  <2>1. UnitsFor(units) = UnitsFor(seen)
    BY <1>2, <1>b, <1>c DEF UnitsFor
  <2>2. \A u \in UnitsFor(seen) : units[u].state = seen[u].state
    BY <1>2 DEF UnitsFor
  <2> QED BY <2>1, <2>2 DEF UnitStates
<1> QED BY <1>1, <1>2

LEMMA NextUnits == TypeInv /\ UnitsInv /\ [Next]_vars => UnitsInv'
<1> SUFFICES ASSUME TypeInv, UnitsInv, [Next]_vars PROVE UnitsInv'
  OBVIOUS
<1>0. CASE PackageStep \/ IntakeStep \/ UNCHANGED vars
  <2>1. UNCHANGED <<units, pc, announced, seen, moved, movedAfter, pack, verdict>>
    BY <1>0, PackageFrame, IntakeFrame DEF vars
  <2> QED BY <2>1 DEF UnitsInv, AbsentIsAbsent
<1>1. CASE UnitStep
  <2>1. PICK u \in Units, row \in UnitRows :
          units' = [units EXCEPT ![u] = row] /\ Moves(u) /\ row.state # "absent"
    BY <1>1, UnitMoves
  <2>2. UNCHANGED <<pc, announced, seen, pack, verdict>>
    BY <1>1, UnitFrame
  <2>3. units'[u] = row /\ \A v \in Units \ {u} : units'[v] = units[v]
    BY <2>1 DEF TypeInv, UnitsTyped
  <2>4. u \in moved' /\ u \in movedAfter' /\ moved \subseteq moved' /\ movedAfter \subseteq movedAfter'
    BY <2>1 DEF Moves
  <2>5. AbsentIsAbsent(units)' /\ AbsentIsAbsent(seen)'
    BY <2>1, <2>2, <2>3 DEF UnitsInv, AbsentIsAbsent
  <2>6. \A v \in Units \ moved' : seen'[v] = units'[v]
    BY <2>2, <2>3, <2>4 DEF UnitsInv
  <2>7. verdict' = "unchanged" =>
          \A v \in Units \ movedAfter' : units'[v].state = seen'[v].state
    BY <2>2, <2>3, <2>4 DEF UnitsInv
  <2>8. pack' # NoUnit /\ pack' \notin movedAfter' =>
          units'[pack'].state \notin {"absent", "cancelled"}
    BY <2>2, <2>3, <2>4 DEF UnitsInv, TypeInv, CallTyped
  <2> QED BY <2>2, <2>4, <2>5, <2>6, <2>7, <2>8 DEF UnitsInv
<1>2. CASE CallStep
  <2>u. units' = units
    BY <1>2, CallFrame
  <2>1. AbsentIsAbsent(units)' /\ AbsentIsAbsent(seen)'
    BY <1>2, <2>u, LookFrame DEF UnitsInv, AbsentIsAbsent
  <2>2. \A v \in Units \ moved' : seen'[v] = units'[v]
    BY <1>2, <2>u, LookFrame DEF UnitsInv
  <2>3. pc' = "looking" /\ announced' => moved' # {}
    <3>1. CASE Poll /\ UnitStates(units) # UnitStates(seen)
      <4>1. PICK u \in Units : units[u].state # seen[u].state
        BY <3>1, StatesCompared DEF UnitsInv
      <4>2. u \in moved
        BY <4>1 DEF UnitsInv
      <4> QED BY <3>1, <4>2 DEF Poll
    <3>2. CASE pc' # "looking" \/ announced' = FALSE
      BY <3>2
    <3>3. pc' = "looking" => BeginStatus \/ (Poll /\ UnitStates(units) # UnitStates(seen))
      BY <1>2
      DEF CallStep, Client, ReadPackage, Emit, HandOff, StageAnswered, StageTimesOut, LookAtUnits,
          Show, Poll, Interrupt, ResolveUnit, Fetch, ReadFails, BeginSubmit, BeginStatus,
          BeginEvidence, Exit, Goto
    <3>4. BeginStatus => announced' = FALSE
      BY DEF BeginStatus
    <3> QED BY <3>1, <3>2, <3>3, <3>4
  <2>4. verdict' = "unchanged" => \A v \in Units \ movedAfter' : units'[v].state = seen'[v].state
    <3> SUFFICES ASSUME verdict' = "unchanged"
                 PROVE  \A v \in Units \ movedAfter' : units'[v].state = seen'[v].state
      OBVIOUS
    <3>1. CASE Poll
      <4>1. UnitStates(units) = UnitStates(seen) /\ seen' = seen
        BY <3>1 DEF Poll, TypeInv, Running
      <4> QED BY <2>u, <4>1, StatesCompared DEF UnitsInv
    <3>2. CASE ~Poll
      <4>1. FALSE
        BY <1>2, <3>2
        DEF CallStep, Client, ReadPackage, Emit, HandOff, StageAnswered, StageTimesOut,
            LookAtUnits, Show, Interrupt, ResolveUnit, Fetch, ReadFails, BeginSubmit,
            BeginStatus, BeginEvidence, Exit, Telling, TypeInv, Running
      <4> QED BY <4>1
    <3> QED BY <3>1, <3>2
  <2>5. pc' \in {"looking", "showing", "waiting", "resolving"} => pack' = NoUnit
    BY <1>2
    DEF UnitsInv, CallStep, Client, ReadPackage, Emit, HandOff, StageAnswered, StageTimesOut,
        LookAtUnits, Show, Poll, Interrupt, ResolveUnit, Fetch, ReadFails, BeginSubmit,
        BeginStatus, BeginEvidence, Exit, Goto
  <2>6. pack' # NoUnit /\ pack' \notin movedAfter' =>
          units'[pack'].state \notin {"absent", "cancelled"}
    <3>1. CASE pack' \in Holders(key)
      BY <2>u, <3>1 DEF Holders
    <3>2. CASE pack' = NoUnit
      BY <3>2
    <3>3. CASE pack' = pack /\ movedAfter' = movedAfter
      BY <2>u, <3>3 DEF UnitsInv
    <3>4. CASE pack' = pack /\ (LookAtUnits \/ Poll \/ ResolveUnit)
      BY <3>4 DEF UnitsInv, LookAtUnits, Poll, ResolveUnit
    <3>5. pack' \in Holders(key) \/ pack' = NoUnit \/ pack' = pack
      BY <1>2
      DEF CallStep, Client, ReadPackage, Emit, HandOff, StageAnswered, StageTimesOut,
          LookAtUnits, Show, Poll, Interrupt, ResolveUnit, Fetch, ReadFails, BeginSubmit,
          BeginStatus, BeginEvidence, Exit
    <3> QED BY <1>2, <3>1, <3>2, <3>3, <3>4, <3>5, LookFrame
  <2> QED BY <2>1, <2>2, <2>3, <2>4, <2>5, <2>6 DEF UnitsInv
<1> QED BY <1>0, <1>1, <1>2, Steps

\* The step named for a unit is the one the unit, as it was read, is at.
LEMMA OfferServes ==
  ASSUME NEW row \in UnitRows, row.state # "absent"
  PROVE  Serves(NextAction(row), row)
<1>1. row.state \in WorkUnitStates
  BY FrontDoorAssumption DEF UnitRows
<1>2. CASE row.state = "draft"
  <2>1. NextAction(row) = IF row.authority THEN Advice("ready", OfUnit) ELSE Advice("authorize", {})
    BY <1>2 DEF NextAction, DraftNextAction
  <2>2. CASE row.authority
    BY <1>2, <2>1, <2>2 DEF Advice, Serves, Parses, Required, Optional, OfUnit
  <2>3. CASE ~row.authority
    BY <1>2, <2>1, <2>3 DEF Advice, Serves, Parses, Required, Optional
  <2> QED BY <2>2, <2>3
<1>3. CASE row.state # "draft"
  <2>1. NextAction(row) = StateNextActions[row.state] /\ row.state \in WorkUnitStates \ {"draft"}
    BY <1>1, <1>3 DEF NextAction
  <2>2. CASE row.state = "ready"
    BY <2>1, <2>2 DEF StateNextActions, Advice, Serves, Parses, Required, Optional, OfUnit
  <2>3. CASE row.state = "submitted"
    BY <2>1, <2>3 DEF StateNextActions, Advice, Serves
  <2>4. CASE row.state \in {"failed", "cancelled"}
    BY <2>1, <2>4 DEF StateNextActions, Advice, Serves, Parses, Required, Optional
  <2>5. CASE row.state \in {"claimed", "executing", "verifying"}
    BY <2>1, <2>5 DEF StateNextActions, Advice, Serves, Parses, Required, Optional
  <2>6. CASE row.state \in {"blocked", "awaiting_approval", "awaiting_review"}
    BY <2>1, <2>6 DEF StateNextActions, Advice, Serves, Parses, Required, Optional
  <2>7. CASE row.state = "revision_required"
    BY <2>1, <2>7 DEF StateNextActions, Advice, Serves, Parses, Required, Optional
  <2>8. CASE row.state = "completed"
    BY <2>1, <2>8 DEF StateNextActions, Advice, Serves, Parses, Required, Optional, OfUnit
  <2> QED
    BY <1>1, <1>3, <2>2, <2>3, <2>4, <2>5, <2>6, <2>7, <2>8 DEF WorkUnitStates
<1> QED BY <1>2, <1>3

LEMMA StatusFollows == TypeInv /\ UnitsInv => StatusIsTrue
<1> SUFFICES ASSUME TypeInv, UnitsInv PROVE StatusIsTrue
  OBVIOUS
<1>1. ASSUME NEW u \in Units \ moved, seen[u] # Absent
      PROVE  Serves(NextAction(seen[u]), units[u])
  <2>1. seen[u] = units[u] /\ seen[u] \in UnitRows /\ seen[u].state # "absent"
    BY <1>1 DEF UnitsInv, AbsentIsAbsent, TypeInv, UnitsTyped
  <2> QED BY <2>1, OfferServes
<1> QED BY <1>1 DEF StatusIsTrue, UnitsInv

\* What status and evidence say is so as long as no unit has moved since they looked.
THEOREM StatusTellsTheTruth == Spec => []StatusIsTrue
<1> QED BY InitTypes, InitUnits, NextTypes, NextUnits, StatusFollows, PTL DEF Spec

=============================================================================
