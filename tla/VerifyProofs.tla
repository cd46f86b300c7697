----------------------------- MODULE VerifyProofs -----------------------------
(***************************************************************************)
(* Proofs about Verify, for every set of criteria and every bound.         *)
(***************************************************************************)
EXTENDS VerifyProperties, TLAPS

USE DEF unit, call, Goto

-----------------------------------------------------------------------------
(* The inductive invariant. *)

\* Dispatches are numbered in order, and nothing is dispatched after a submission
\* without a change of state.
DispatchOK ==
  /\ fired \subseteq 1..attempts
  /\ fired # {} => \E m \in fired : \A x \in fired : x <= m
  /\ state = "submitted" => armedBy = LatestDispatch

\* A body was true of the unit when it was derived, and is as long as it names the
\* unit's version.
Fits(b) ==
  /\ b.ac \in Automated /\ b.dispatch \in fired /\ b.version <= version
  /\ b.version = version =>
       /\ state = "submitted" /\ b.head = armed
       /\ b.dispatch <= armedBy /\ (lapsed \/ b.dispatch = armedBy)

Attested(b) == \E e \in evidence : e.body = b

CallOK ==
  /\ pc # "idle" => ac \in Criteria /\ verdict = "none"
  /\ pc \in {"resolving", "reading", "looking"} => ac \in Automated
  /\ pc = "looking" => found \in fired /\ (lapsed \/ found = LatestDispatch)
  /\ pc \in {"attesting", "evaluating"} =>
       body \in Bodies /\ Fits(body) /\ current = body.head /\ current <= head
  /\ pc \notin {"attesting", "evaluating"} => answer = "none"
  /\ pc = "attesting" => answer \in {"none", "accepted", "refused"}
  /\ pc = "attesting" /\ answer = "accepted" => Attested(body)
  /\ pc = "evaluating" => Attested(body) /\ (answer \in Results => outcome = answer)

AdriftOK ==
  adrift # NoRequest =>
    /\ adrift \in Requests /\ Fits(adrift.body)
    /\ adrift.write = "evaluate" => Attested(adrift.body)

\* A unit completed for the call at hand stays so, with evidence for it all.
OutcomeOK == outcome = "completed" => state = "completed" /\ \A a \in mapped : Shown(a)

Inv ==
  /\ TypeOK /\ DispatchOK /\ CallOK /\ AdriftOK /\ OutcomeOK
  /\ ExitReflectsResult /\ EvidenceNamesItsDispatch /\ NoWastedWrite

-----------------------------------------------------------------------------
(* Facts about dispatches, bodies and evidence. *)

LEMMA LatestFacts ==
  ASSUME DispatchOK, TypeOK
  PROVE  /\ fired = {} => LatestDispatch = 0
         /\ fired # {} => LatestDispatch \in fired
         /\ \A x \in fired : x <= LatestDispatch
         /\ LatestDispatch \in 0..MaxDispatches
         /\ LatestDispatch = IF fired = {} THEN 0 ELSE Max(fired)
<1>1. CASE fired = {}
  BY <1>1, VerifyAssumption DEF LatestDispatch
<1>2. CASE fired # {}
  <2>1. PICK m \in fired : \A x \in fired : x <= m
    BY <1>2 DEF DispatchOK
  <2>2. /\ fired \subseteq Nat /\ \A x \in fired : m >= x
    BY <2>1 DEF TypeOK, Dispatches
  <2>3. Max(fired) \in fired /\ \A x \in fired : Max(fired) >= x
    BY <2>1, <2>2 DEF Max
  <2>4. LatestDispatch = Max(fired)
    BY <1>2 DEF LatestDispatch
  <2>5. Max(fired) \in 0..MaxDispatches
    <3>1. fired \subseteq 1..MaxDispatches
      BY DEF TypeOK, Dispatches
    <3>2. Max(fired) \in 1..MaxDispatches /\ MaxDispatches \in Nat
      BY <2>3, <3>1, VerifyAssumption
    <3> QED BY <3>2
  <2>6. \A x \in fired : x <= Max(fired)
    BY <2>2, <2>3
  <2> QED BY <1>2, <2>3, <2>4, <2>5, <2>6
<1> QED BY <1>1, <1>2

\* A step that changes the version leaves nothing to claim for an older body.
LEMMA FitsAfterMove ==
  ASSUME TypeOK, NEW b, b \in Bodies, Fits(b), version' = version + 1, UNCHANGED fired
  PROVE  Fits(b)'
<1>1. b.version \in Nat /\ version \in Nat
  BY VerifyAssumption DEF TypeOK, Bodies, Versions
<1> QED BY <1>1 DEF Fits

\* A step that leaves the submission alone leaves the body true.
LEMMA FitsStill ==
  ASSUME NEW b, Fits(b), UNCHANGED <<version, state, armed, armedBy>>,
         fired \subseteq fired', lapsed => lapsed'
  PROVE  Fits(b)'
BY DEF Fits

\* Evidence stays, and stays what it was.
LEMMA AttestedStill ==
  ASSUME NEW b, Attested(b), evidence \subseteq evidence'
  PROVE  Attested(b)'
BY DEF Attested

LEMMA ShownStill ==
  ASSUME NEW a, Shown(a), evidence \subseteq evidence', UNCHANGED armed
  PROVE  Shown(a)'
BY DEF Shown

LEMMA InitInv == Init => Inv
<1> SUFFICES ASSUME Init PROVE Inv
  OBVIOUS
<1>1. /\ 0 \in Versions /\ 0 \in Heads /\ 0 \in 0..MaxDispatches
  BY VerifyAssumption DEF Versions, Heads
<1>2. TypeOK
  BY <1>1 DEF Init, TypeOK, UnitStates, Places, Answers, Verdicts
<1> QED BY <1>2 DEF Init, Inv, DispatchOK, CallOK, AdriftOK, OutcomeOK, ExitReflectsResult,
                    EvidenceNamesItsDispatch, NoWastedWrite

-----------------------------------------------------------------------------
(* The end of a call. *)

\* A verdict about a result is the outcome of this call's evaluation.
True(v) ==
  /\ v = "pass" => outcome = "completed"
  /\ v = "review" => outcome = "awaiting_review"
  /\ v = "not_a_pass" => outcome \in {"revision_required", "failed"}

LEMMA ExitInv ==
  ASSUME Inv, NEW v \in Verdicts, Exit(v), True(v),
         adrift' \in Requests \cup {NoRequest}, AdriftOK'
  PROVE  Inv'
<1>1. 0 \in Versions /\ 0 \in Heads /\ 0 \in 0..MaxDispatches /\ "idle" \in Places
      /\ "none" \in Answers
  BY VerifyAssumption DEF Versions, Heads, Places, Answers
<1>2. TypeOK'
  BY <1>1 DEF Inv, TypeOK, Exit
<1>3. DispatchOK' /\ EvidenceNamesItsDispatch'
  BY DEF Inv, DispatchOK, EvidenceNamesItsDispatch, LatestDispatch, Exit
<1>4. CallOK' /\ NoWastedWrite'
  BY DEF CallOK, NoWastedWrite, Exit
<1>5. (\A a \in mapped : Shown(a)) => (\A a \in mapped : Shown(a))'
  BY DEF Shown, Exit
<1>6. OutcomeOK' /\ ExitReflectsResult'
  BY <1>5 DEF Inv, OutcomeOK, ExitReflectsResult, Exit, True
<1> QED BY <1>2, <1>3, <1>4, <1>6 DEF Inv

\* Nothing is adrift that was not before.
LEMMA ExitQuietly ==
  ASSUME Inv, NEW v \in Verdicts, Exit(v), True(v), UNCHANGED adrift
  PROVE  Inv'
<1>1. AdriftOK'
  BY DEF Inv, AdriftOK, Exit, Fits, Attested
<1>2. adrift' \in Requests \cup {NoRequest}
  BY DEF Inv, TypeOK
<1> QED BY <1>1, <1>2, ExitInv

-----------------------------------------------------------------------------
(* The unit's own steps. *)

LEMMA RecordDispatchInv == Inv /\ RecordDispatch => Inv'
<1> SUFFICES ASSUME Inv, RecordDispatch PROVE Inv'
  OBVIOUS
<1>0. /\ attempts \in Nat /\ attempts + 1 \in Dispatches /\ attempts' \in 0..MaxDispatches
      /\ fired \subseteq 1..attempts
  BY VerifyAssumption DEF Inv, TypeOK, DispatchOK, RecordDispatch, Dispatches
<1>1. fired \subseteq fired' /\ (lapsed => lapsed') /\ lapsed' \in BOOLEAN
  <2>1. lapsed \in BOOLEAN
    BY DEF Inv, TypeOK
  <2>2. CASE fired' = fired \cup {attempts + 1} /\ lapsed' = (lapsed \/ pc = "looking")
    <3>1. fired \subseteq fired'
      BY <2>2
    <3>2. (lapsed => lapsed') /\ lapsed' \in BOOLEAN
      BY <2>1, <2>2
    <3> QED BY <3>1, <3>2
  <2>3. CASE UNCHANGED <<fired, lapsed>>
    BY <2>1, <2>3
  <2> QED BY <2>2, <2>3 DEF RecordDispatch
<1>2. TypeOK'
  BY <1>0, <1>1 DEF Inv, TypeOK, RecordDispatch
<1>3. DispatchOK'
  <2>1. CASE UNCHANGED fired
    BY <1>0, <2>1 DEF Inv, DispatchOK, RecordDispatch
  <2>2. CASE fired' = fired \cup {attempts + 1}
    BY <1>0, <2>2 DEF RecordDispatch, DispatchOK
  <2> QED BY <2>1, <2>2 DEF RecordDispatch
<1>4. \A b \in Bodies : Fits(b) => Fits(b)'
  BY <1>1, FitsStill DEF RecordDispatch
<1>5. CallOK' /\ AdriftOK'
  BY <1>1, <1>4 DEF Inv, CallOK, AdriftOK, Attested, RecordDispatch, LatestDispatch, Requests
<1>6. OutcomeOK' /\ ExitReflectsResult' /\ EvidenceNamesItsDispatch' /\ NoWastedWrite'
  BY <1>1 DEF Inv, OutcomeOK, ExitReflectsResult, EvidenceNamesItsDispatch, NoWastedWrite, Shown,
              RecordDispatch
<1> QED BY <1>2, <1>3, <1>5, <1>6 DEF Inv

LEMMA PushInv == Inv /\ Push => Inv'
<1> SUFFICES ASSUME Inv, Push PROVE Inv'
  OBVIOUS
<1>0. head \in Nat /\ current \in Nat /\ head' = head + 1 /\ head' \in Heads
  BY VerifyAssumption DEF Inv, TypeOK, Push, Heads
<1>1. TypeOK'
  BY <1>0 DEF Inv, TypeOK, Push
<1>2. DispatchOK'
  BY DEF Inv, DispatchOK, LatestDispatch, Push
<1>3. CallOK' /\ AdriftOK'
  BY <1>0 DEF Inv, CallOK, AdriftOK, Attested, Fits, LatestDispatch, Push
<1>4. NoWastedWrite'
  BY <1>0 DEF Inv, NoWastedWrite, CallOK, Push
<1>5. OutcomeOK' /\ ExitReflectsResult' /\ EvidenceNamesItsDispatch'
  BY DEF Inv, OutcomeOK, ExitReflectsResult, EvidenceNamesItsDispatch, Shown, Push
<1> QED BY <1>1, <1>2, <1>3, <1>4, <1>5 DEF Inv

\* Every change of the unit's state outdates the bodies derived before.
LEMMA MoveInv ==
  ASSUME Inv, NEW to \in UnitStates, Move(to), UNCHANGED <<mapped, fired, lapsed, evidence>>
  PROVE  /\ state' \in UnitStates /\ version' \in Versions
         /\ \A b \in Bodies : Fits(b) => Fits(b)'
         /\ UNCHANGED LatestDispatch
         /\ EvidenceNamesItsDispatch'
         /\ \A b : Attested(b) => Attested(b)'
<1>1. version \in Nat /\ version' = version + 1 /\ version' \in Versions
  BY VerifyAssumption DEF Inv, TypeOK, Move, Versions
<1>2. \A b \in Bodies : Fits(b) => Fits(b)'
  BY <1>1, FitsAfterMove DEF Inv
<1>3. EvidenceNamesItsDispatch'
  BY DEF Inv, EvidenceNamesItsDispatch
<1>4. \A b : Attested(b) => Attested(b)'
  BY DEF Attested
<1> QED BY <1>1, <1>2, <1>3, <1>4 DEF Move, LatestDispatch

LEMMA SubmitInv == Inv /\ Submit => Inv'
<1> SUFFICES ASSUME Inv, Submit PROVE Inv'
  OBVIOUS
<1>0. "submitted" \in UnitStates
  BY DEF UnitStates
<1>1. /\ state' \in UnitStates /\ version' \in Versions
      /\ \A b \in Bodies : Fits(b) => Fits(b)'
      /\ UNCHANGED LatestDispatch /\ EvidenceNamesItsDispatch'
      /\ \A b : Attested(b) => Attested(b)'
  BY <1>0, MoveInv DEF Submit
<1>2. armedBy' = LatestDispatch /\ armedBy' \in 0..MaxDispatches
  BY LatestFacts DEF Inv, Submit
<1>3. TypeOK'
  BY <1>1, <1>2 DEF Inv, TypeOK, Submit
<1>4. DispatchOK'
  BY <1>1, <1>2 DEF Inv, DispatchOK, Submit
<1>5. CallOK' /\ AdriftOK'
  BY <1>1 DEF Inv, CallOK, AdriftOK, Submit, Requests
<1>6. OutcomeOK' /\ ExitReflectsResult' /\ NoWastedWrite'
  BY DEF Inv, OutcomeOK, ExitReflectsResult, NoWastedWrite, Submit
<1> QED BY <1>1, <1>3, <1>4, <1>5, <1>6 DEF Inv

LEMMA ProceedInv == Inv /\ Proceed => Inv'
<1> SUFFICES ASSUME Inv, Proceed PROVE Inv'
  OBVIOUS
<1>0. PICK to \in UnitStates : Move(to) /\ to # "submitted" /\ state # "completed"
  BY DEF Proceed, UnitStates
<1>1. /\ state' \in UnitStates /\ version' \in Versions
      /\ \A b \in Bodies : Fits(b) => Fits(b)'
      /\ UNCHANGED LatestDispatch /\ EvidenceNamesItsDispatch'
      /\ \A b : Attested(b) => Attested(b)'
  BY <1>0, MoveInv DEF Proceed
<1>3. TypeOK'
  BY <1>1 DEF Inv, TypeOK, Proceed
<1>4. DispatchOK'
  BY <1>0 DEF Inv, DispatchOK, Proceed, Move
<1>5. CallOK' /\ AdriftOK'
  BY <1>1 DEF Inv, CallOK, AdriftOK, Proceed, Requests
<1>6. OutcomeOK' /\ ExitReflectsResult' /\ NoWastedWrite'
  BY <1>0 DEF Inv, OutcomeOK, ExitReflectsResult, NoWastedWrite, Proceed
<1> QED BY <1>1, <1>3, <1>4, <1>5, <1>6 DEF Inv

-----------------------------------------------------------------------------
(* What the orchestrator does with the writes. *)

\* Evidence that it accepts was derived from this submission.
LEMMA AcceptInv ==
  ASSUME Inv, NEW b \in Bodies, Fits(b), Accept(b), UNCHANGED lapsed
  PROVE  /\ evidence \subseteq evidence' /\ evidence' \subseteq Evidence
         /\ Attested(b)'
         /\ EvidenceNamesItsDispatch'
<1>1. b.version = version
  BY DEF Accept, Objections, Reasons
<1>2. b.dispatch <= armedBy /\ (lapsed \/ b.dispatch = armedBy)
  BY <1>1 DEF Fits
<1>3. [body |-> b, by |-> armedBy] \in Evidence
  BY DEF Inv, TypeOK, Evidence
<1>4. evidence' = evidence \cup {[body |-> b, by |-> armedBy]}
  BY DEF Accept
<1>5. evidence' \subseteq Evidence /\ Attested(b)'
  BY <1>3, <1>4 DEF Inv, TypeOK, Attested
<1>6. EvidenceNamesItsDispatch'
  BY <1>2, <1>4 DEF Inv, EvidenceNamesItsDispatch
<1> QED BY <1>4, <1>5, <1>6

\* An evaluation that completes the unit has evidence for all its criteria.
LEMMA EvaluateInv ==
  ASSUME Inv, NEW b \in Bodies, NEW result \in Results, Evaluate(b, result), UNCHANGED lapsed
  PROVE  /\ state' = result /\ version' \in Versions
         /\ \A c \in Bodies : Fits(c) => Fits(c)'
         /\ \A c : Attested(c) => Attested(c)'
         /\ UNCHANGED <<LatestDispatch, evidence>> /\ EvidenceNamesItsDispatch'
         /\ result = "completed" => (\A a \in mapped : Shown(a))'
         /\ state = "submitted"
<1>1. result \in UnitStates
  BY DEF Results, UnitStates
<1>2. result = "completed" => (\A a \in mapped : Shown(a))'
  BY DEF Evaluate, Shown
<1> QED BY <1>1, <1>2, MoveInv DEF Evaluate, Move

LEMMA ActOnAttestInv == Inv /\ ActOnAttest => Inv'
<1> SUFFICES ASSUME Inv, ActOnAttest PROVE Inv'
  OBVIOUS
<1>0. body \in Bodies /\ Fits(body) /\ {"accepted", "refused"} \subseteq Answers
  BY DEF Inv, CallOK, ActOnAttest, Answers
<1>1. CASE Accept(body) /\ answer' = "accepted" /\ UNCHANGED refusal
  <2>1. /\ evidence \subseteq evidence' /\ evidence' \subseteq Evidence /\ Attested(body)'
        /\ EvidenceNamesItsDispatch'
    BY <1>0, <1>1, AcceptInv DEF ActOnAttest
  <2>2. UNCHANGED unit
    BY <1>1 DEF Accept
  <2>3. TypeOK'
    BY <1>0, <1>1, <2>1, <2>2 DEF Inv, TypeOK, ActOnAttest
  <2>4. DispatchOK'
    BY <2>2 DEF Inv, DispatchOK, LatestDispatch
  <2>5. CallOK'
    BY <1>1, <2>1, <2>2 DEF Inv, CallOK, Fits, LatestDispatch, ActOnAttest
  <2>6. AdriftOK'
    BY <2>1, <2>2, AttestedStill DEF Inv, AdriftOK, Fits, ActOnAttest
  <2>7. (\A a \in mapped : Shown(a)) => (\A a \in mapped : Shown(a))'
    BY <2>1, <2>2, ShownStill
  <2>8. OutcomeOK' /\ ExitReflectsResult' /\ NoWastedWrite'
    BY <1>1, <2>2, <2>7 DEF Inv, OutcomeOK, ExitReflectsResult, NoWastedWrite, ActOnAttest
  <2> QED BY <2>1, <2>3, <2>4, <2>5, <2>6, <2>8 DEF Inv
<1>2. CASE answer' = "refused" /\ refusal' = Objections(body) /\ UNCHANGED <<unit, evidence>>
  <2>1. Objections(body) \subseteq Reasons
    BY DEF Objections
  <2>2. "version" \notin Objections(body) =>
          /\ Objections(body) \subseteq {"head", "subject"}
          /\ "head" \in Objections(body) => head # current
    <3>1. body.version # version => "version" \in Objections(body)
      BY DEF Objections, Reasons
    <3>2. body.version = version =>
            state = "submitted" /\ body.head = armed /\ body.dispatch \in fired
      BY <1>0 DEF Fits
    <3>3. current = body.head
      BY DEF Inv, CallOK, ActOnAttest
    <3> QED BY <3>1, <3>2, <3>3 DEF Objections, Reasons
  <2>3. TypeOK'
    BY <1>0, <1>2, <2>1 DEF Inv, TypeOK, ActOnAttest
  <2>4. NoWastedWrite'
    BY <1>0, <1>2, <2>2 DEF NoWastedWrite, ActOnAttest, Fits
  <2>5. DispatchOK' /\ CallOK' /\ AdriftOK'
    BY <1>2 DEF Inv, DispatchOK, CallOK, AdriftOK, Fits, Attested, LatestDispatch, ActOnAttest
  <2>6. OutcomeOK' /\ ExitReflectsResult' /\ EvidenceNamesItsDispatch'
    BY <1>2 DEF Inv, OutcomeOK, ExitReflectsResult, EvidenceNamesItsDispatch, Shown, ActOnAttest
  <2> QED BY <2>3, <2>4, <2>5, <2>6 DEF Inv
<1> QED BY <1>1, <1>2 DEF ActOnAttest

LEMMA ActOnEvaluateInv == Inv /\ ActOnEvaluate => Inv'
<1> SUFFICES ASSUME Inv, ActOnEvaluate PROVE Inv'
  OBVIOUS
<1>0. body \in Bodies /\ verdict = "none" /\ pc = "evaluating"
  BY DEF Inv, CallOK, ActOnEvaluate
<1>1. CASE \E result \in Results : Evaluate(body, result) /\ answer' = result /\ outcome' = result
  <2>0. PICK result \in Results :
          Evaluate(body, result) /\ answer' = result /\ outcome' = result
    BY <1>1
  <2>1. /\ state' = result /\ version' \in Versions
        /\ \A c \in Bodies : Fits(c) => Fits(c)'
        /\ \A c : Attested(c) => Attested(c)'
        /\ UNCHANGED <<LatestDispatch, evidence>> /\ EvidenceNamesItsDispatch'
        /\ result = "completed" => (\A a \in mapped : Shown(a))'
    BY <1>0, <2>0, EvaluateInv DEF ActOnEvaluate
  <2>2. result \in UnitStates /\ result \in Answers /\ result # "submitted"
    BY DEF Results, UnitStates, Answers
  <2>3. TypeOK'
    BY <2>0, <2>1, <2>2 DEF Inv, TypeOK, ActOnEvaluate, Evaluate
  <2>4. DispatchOK'
    BY <2>0, <2>1, <2>2 DEF Inv, DispatchOK, Evaluate
  <2>5. CallOK' /\ AdriftOK'
    BY <1>0, <2>0, <2>1 DEF Inv, CallOK, AdriftOK, ActOnEvaluate, Evaluate, Requests
  <2>6. OutcomeOK' /\ ExitReflectsResult' /\ NoWastedWrite'
    BY <1>0, <2>0, <2>1 DEF OutcomeOK, ExitReflectsResult, NoWastedWrite, ActOnEvaluate
  <2> QED BY <2>1, <2>3, <2>4, <2>5, <2>6 DEF Inv
<1>2. CASE answer' = "refused" /\ UNCHANGED <<unit, evidence, outcome>>
  <2>1. "refused" \in Answers /\ "refused" \notin Results
    BY DEF Answers, Results
  <2>2. TypeOK'
    BY <1>2, <2>1 DEF Inv, TypeOK, ActOnEvaluate
  <2>3. DispatchOK' /\ CallOK' /\ AdriftOK' /\ NoWastedWrite'
    BY <1>0, <1>2, <2>1
    DEF Inv, DispatchOK, CallOK, AdriftOK, NoWastedWrite, Fits, Attested, LatestDispatch, ActOnEvaluate
  <2>4. OutcomeOK' /\ ExitReflectsResult' /\ EvidenceNamesItsDispatch'
    BY <1>2 DEF Inv, OutcomeOK, ExitReflectsResult, EvidenceNamesItsDispatch, Shown, ActOnEvaluate
  <2> QED BY <2>2, <2>3, <2>4 DEF Inv
<1> QED BY <1>1, <1>2 DEF ActOnEvaluate

LEMMA ActLateInv == Inv /\ ActLate => Inv'
<1> SUFFICES ASSUME Inv, ActLate PROVE Inv'
  OBVIOUS
<1>0. /\ adrift \in Requests /\ adrift.body \in Bodies /\ Fits(adrift.body)
      /\ adrift' = NoRequest /\ AdriftOK'
  BY DEF Inv, AdriftOK, ActLate, Requests
<1>1. CASE Accept(adrift.body)
  <2>1. /\ evidence \subseteq evidence' /\ evidence' \subseteq Evidence
        /\ EvidenceNamesItsDispatch'
    BY <1>0, <1>1, AcceptInv DEF ActLate
  <2>2. UNCHANGED unit
    BY <1>1 DEF Accept
  <2>3. TypeOK' /\ DispatchOK' /\ NoWastedWrite'
    BY <1>0, <2>1, <2>2
    DEF Inv, TypeOK, DispatchOK, NoWastedWrite, LatestDispatch, ActLate
  <2>4. CallOK'
    BY <2>1, <2>2, AttestedStill DEF Inv, CallOK, Fits, LatestDispatch, ActLate
  <2>5. (\A a \in mapped : Shown(a)) => (\A a \in mapped : Shown(a))'
    BY <2>1, <2>2, ShownStill
  <2>6. OutcomeOK' /\ ExitReflectsResult'
    BY <2>2, <2>5 DEF Inv, OutcomeOK, ExitReflectsResult, ActLate
  <2> QED BY <1>0, <2>1, <2>3, <2>4, <2>6 DEF Inv
<1>2. CASE \E result \in Results : Evaluate(adrift.body, result)
  <2>0. PICK result \in Results : Evaluate(adrift.body, result)
    BY <1>2
  <2>1. /\ state' = result /\ version' \in Versions /\ state = "submitted"
        /\ \A c \in Bodies : Fits(c) => Fits(c)'
        /\ \A c : Attested(c) => Attested(c)'
        /\ UNCHANGED <<LatestDispatch, evidence>> /\ EvidenceNamesItsDispatch'
    BY <1>0, <2>0, EvaluateInv DEF ActLate
  <2>2. result \in UnitStates /\ result # "submitted"
    BY DEF Results, UnitStates
  <2>3. TypeOK' /\ DispatchOK' /\ NoWastedWrite'
    BY <1>0, <2>0, <2>1, <2>2
    DEF Inv, TypeOK, DispatchOK, NoWastedWrite, ActLate, Evaluate
  <2>4. CallOK'
    BY <2>0, <2>1 DEF Inv, CallOK, ActLate, Evaluate
  <2>5. OutcomeOK' /\ ExitReflectsResult'
    BY <2>1 DEF Inv, OutcomeOK, ExitReflectsResult, ActLate
  <2> QED BY <1>0, <2>1, <2>3, <2>4, <2>5 DEF Inv
<1>3. CASE UNCHANGED <<unit, evidence>>
  <2>1. TypeOK' /\ DispatchOK' /\ NoWastedWrite'
    BY <1>0, <1>3 DEF Inv, TypeOK, DispatchOK, NoWastedWrite, LatestDispatch, ActLate
  <2>2. CallOK'
    BY <1>3 DEF Inv, CallOK, Fits, Attested, LatestDispatch, ActLate
  <2>3. OutcomeOK' /\ ExitReflectsResult' /\ EvidenceNamesItsDispatch'
    BY <1>3 DEF Inv, OutcomeOK, ExitReflectsResult, EvidenceNamesItsDispatch, Shown, ActLate
  <2> QED BY <1>0, <2>1, <2>2, <2>3 DEF Inv
<1> QED BY <1>1, <1>2, <1>3 DEF ActLate

-----------------------------------------------------------------------------
(* The call's own steps. *)

LEMMA VerdictsExist ==
  {"refused", "unreadable", "server_refused", "lost", "pass", "review", "not_a_pass"}
    \subseteq Verdicts
BY DEF Verdicts

\* A step that only goes on, from a place without a write to another.
LEMMA GoOnInv ==
  ASSUME Inv, UNCHANGED <<unit, evidence, adrift, current, body, answer, refusal,
                          outcome, verdict, lapsed>>,
         pc \notin {"attesting", "evaluating"},
         pc' \in {"checking", "resolving", "reading", "looking"}, verdict = "none",
         ac' \in Criteria, pc' # "checking" => ac' \in Automated,
         found' \in 0..MaxDispatches,
         pc' = "looking" => found' \in fired /\ found' = LatestDispatch
  PROVE  Inv'
<1>1. TypeOK'
  BY DEF Inv, TypeOK, Places
<1>2. DispatchOK' /\ CallOK' /\ AdriftOK'
  BY DEF Inv, DispatchOK, CallOK, AdriftOK, Fits, Attested, LatestDispatch
<1>3. OutcomeOK' /\ ExitReflectsResult' /\ EvidenceNamesItsDispatch' /\ NoWastedWrite'
  BY DEF Inv, OutcomeOK, ExitReflectsResult, EvidenceNamesItsDispatch, NoWastedWrite, Shown
<1> QED BY <1>1, <1>2, <1>3 DEF Inv

\* The body that is derived fits the unit it was read of.
LEMMA DeriveInv ==
  ASSUME Inv, pc = "looking", state = "submitted", head = armed, Derive
  PROVE  Inv'
<1>1. /\ ac \in Automated /\ found \in fired /\ (lapsed \/ found = LatestDispatch)
      /\ ac \in Criteria /\ head \in Nat
  BY VerifyAssumption DEF Inv, CallOK, TypeOK, Heads
<1>2. /\ found <= armedBy /\ (lapsed \/ found = armedBy)
      /\ version <= version
  BY <1>1, LatestFacts, VerifyAssumption DEF Inv, DispatchOK, TypeOK, Versions
<1>3. body' \in Bodies
  BY <1>1 DEF Inv, TypeOK, Derive, Bodies
<1>4. Fits(body)'
  BY <1>1, <1>2 DEF Fits, Derive
<1>5. TypeOK'
  BY <1>3 DEF Inv, TypeOK, Derive, Places
<1>6. current' = head /\ current' = body'.head /\ current' <= head' /\ answer' = "none"
  BY <1>1 DEF Derive, Inv, CallOK
<1>7. CallOK'
  BY <1>1, <1>3, <1>4, <1>6 DEF Inv, CallOK, Derive
<1>8. DispatchOK' /\ AdriftOK' /\ NoWastedWrite'
  BY <1>6 DEF Inv, DispatchOK, AdriftOK, NoWastedWrite, Fits, Attested, LatestDispatch, Derive
<1>9. OutcomeOK' /\ ExitReflectsResult' /\ EvidenceNamesItsDispatch'
  BY DEF Inv, OutcomeOK, ExitReflectsResult, EvidenceNamesItsDispatch, Shown, Derive
<1> QED BY <1>5, <1>7, <1>8, <1>9 DEF Inv

LEMMA ClientInv == Inv /\ Client => Inv'
<1> SUFFICES ASSUME Inv, Client PROVE Inv'
  OBVIOUS
<1>e. \A v \in {"refused", "unreadable", "server_refused", "lost"} :
         Exit(v) /\ UNCHANGED adrift => Inv'
  BY VerdictsExist, ExitQuietly DEF True
<1>1. CASE ReadFails
  BY <1>e, <1>1 DEF ReadFails
<1>2. CASE CheckCriterion
  <2>1. CASE ac \in Automated /\ Goto("resolving")
             /\ UNCHANGED <<unit, evidence, adrift, ac, found, current, body, answer, refusal,
                            outcome, verdict, lapsed>>
    BY <1>2, <2>1, GoOnInv DEF CheckCriterion, Inv, CallOK, TypeOK
  <2> QED BY <1>e, <1>2, <2>1 DEF CheckCriterion
<1>3. CASE Resolve
  <2>1. CASE Goto("reading")
             /\ UNCHANGED <<unit, evidence, adrift, ac, found, current, body, answer, refusal,
                            outcome, verdict, lapsed>>
    BY <1>3, <2>1, GoOnInv DEF Resolve, Inv, CallOK, TypeOK
  <2> QED BY <1>e, <1>3, <2>1 DEF Resolve
<1>4. CASE ReadHistory
  <2>1. CASE LatestDispatch # 0 /\ found' = LatestDispatch /\ Goto("looking")
             /\ UNCHANGED <<unit, evidence, adrift, ac, current, body, answer, refusal,
                            outcome, verdict, lapsed>>
    <3>1. LatestDispatch \in fired /\ LatestDispatch \in 0..MaxDispatches
      BY <2>1, LatestFacts DEF Inv
    <3>2. ac \in Criteria /\ ac \in Automated /\ verdict = "none"
      BY <1>4 DEF ReadHistory, Inv, CallOK
    <3> QED BY <1>4, <2>1, <3>1, <3>2, GoOnInv DEF ReadHistory
  <2> QED BY <1>e, <1>4, <2>1 DEF ReadHistory
<1>5. CASE Look
  <2>1. CASE state = "submitted" /\ armed # 0 /\ head = armed /\ Derive
    BY <1>5, <2>1, DeriveInv DEF Look
  <2> QED BY <1>e, <1>5, <2>1 DEF Look
<1>6. CASE AttestAnswered
  <2>1. CASE /\ answer = "accepted" /\ Goto("evaluating") /\ answer' = "none"
             /\ UNCHANGED <<unit, evidence, adrift, ac, found, current, body, refusal,
                            outcome, verdict, lapsed>>
    <3>1. "none" \notin Results /\ "evaluating" \in Places /\ "none" \in Answers
      BY DEF Results, Places, Answers
    <3>2. TypeOK'
      BY <2>1, <3>1 DEF Inv, TypeOK
    <3>3. CallOK'
      BY <1>6, <2>1, <3>1 DEF AttestAnswered, Inv, CallOK, Fits, Attested
    <3>4. DispatchOK' /\ AdriftOK' /\ NoWastedWrite'
      BY <2>1 DEF Inv, DispatchOK, AdriftOK, NoWastedWrite, Fits, Attested, LatestDispatch
    <3>5. OutcomeOK' /\ ExitReflectsResult' /\ EvidenceNamesItsDispatch'
      BY <2>1 DEF Inv, OutcomeOK, ExitReflectsResult, EvidenceNamesItsDispatch, Shown
    <3> QED BY <3>2, <3>3, <3>4, <3>5 DEF Inv
  <2> QED BY <1>e, <1>6, <2>1 DEF AttestAnswered
<1>7. CASE Report
  <2>1. answer \in Results => outcome = answer
    BY <1>7 DEF Report, Inv, CallOK
  <2>2. CASE answer = "completed" /\ Exit("pass")
    BY <1>7, <2>1, <2>2, VerdictsExist, ExitQuietly DEF Report, True, Results
  <2>3. CASE answer = "awaiting_review" /\ Exit("review")
    BY <1>7, <2>1, <2>3, VerdictsExist, ExitQuietly DEF Report, True, Results
  <2>4. CASE answer \in {"revision_required", "failed"} /\ Exit("not_a_pass")
    BY <1>7, <2>1, <2>4, VerdictsExist, ExitQuietly DEF Report, True, Results
  <2> QED BY <1>e, <1>7, <2>2, <2>3, <2>4 DEF Report
<1>8. CASE TimeOut
  <2>1. CASE UNCHANGED adrift
    BY <1>e, <1>8, <2>1 DEF TimeOut
  <2>2. CASE adrift' = [write |-> IF pc = "attesting" THEN "attest" ELSE "evaluate", body |-> body]
    <3>1. body \in Bodies /\ Fits(body) /\ (pc = "evaluating" => Attested(body))
      BY <1>8 DEF TimeOut, Inv, CallOK
    <3>2. adrift' \in Requests /\ adrift'.body = body
          /\ adrift'.write = (IF pc = "attesting" THEN "attest" ELSE "evaluate")
      BY <2>2, <3>1 DEF Requests
    <3>3. Fits(adrift.body)' /\ (adrift'.write = "evaluate" => Attested(adrift.body)')
      BY <1>8, <3>1, <3>2 DEF TimeOut, Exit, Fits, Attested
    <3>4. AdriftOK'
      BY <3>2, <3>3 DEF AdriftOK
    <3> QED BY <1>8, <3>2, <3>4, VerdictsExist, ExitInv DEF TimeOut, True
  <2> QED BY <1>8, <2>1, <2>2 DEF TimeOut
<1> QED BY <1>1, <1>2, <1>3, <1>4, <1>5, <1>6, <1>7, <1>8 DEF Client

LEMMA BeginInv == Inv /\ Begin => Inv'
<1> SUFFICES ASSUME Inv, Begin PROVE Inv'
  OBVIOUS
<1>1. TypeOK'
  BY DEF Inv, TypeOK, Begin, Places, Verdicts
<1>2. DispatchOK' /\ CallOK' /\ AdriftOK' /\ NoWastedWrite'
  BY DEF Inv, DispatchOK, CallOK, AdriftOK, NoWastedWrite, Fits, Attested, LatestDispatch, Begin
<1>3. OutcomeOK' /\ ExitReflectsResult' /\ EvidenceNamesItsDispatch'
  BY DEF Inv, OutcomeOK, ExitReflectsResult, EvidenceNamesItsDispatch, Begin
<1> QED BY <1>1, <1>2, <1>3 DEF Inv

LEMMA NextInv == Inv /\ [Next]_vars => Inv'
<1>1. Inv /\ UNCHANGED vars => Inv'
  BY DEF Inv, vars, TypeOK, DispatchOK, CallOK, AdriftOK, OutcomeOK, ExitReflectsResult,
         EvidenceNamesItsDispatch, NoWastedWrite, Fits, Attested, Shown, LatestDispatch
<1> QED BY <1>1, RecordDispatchInv, PushInv, SubmitInv, ProceedInv, ActOnAttestInv,
           ActOnEvaluateInv, ActLateInv, ClientInv, BeginInv DEF Next, Orchestrator

LEMMA InvAlways == Spec => []Inv
BY InitInv, NextInv, PTL DEF Spec

-----------------------------------------------------------------------------
(* Theorems. *)

\* Every variable keeps its type: no body is posted that lacks a dispatch, a head or
\* a version.
THEOREM TypeCorrect == Spec => []TypeOK
<1>1. Inv => TypeOK
  BY DEF Inv
<1> QED BY <1>1, InvAlways, PTL

\* The exit code of verify and its line are those of the evaluation it asked for.
THEOREM ExitIsTrue == Spec => []ExitReflectsResult
<1>1. Inv => ExitReflectsResult
  BY DEF Inv
<1> QED BY <1>1, InvAlways, PTL

\* Evidence names the dispatch that its head is owed to, unless a dispatch came
\* between the two reads.
THEOREM EvidenceBinds == Spec => []EvidenceNamesItsDispatch
<1>1. Inv => EvidenceNamesItsDispatch
  BY DEF Inv
<1> QED BY <1>1, InvAlways, PTL

\* Evidence is refused only for what the reads before it could not show.
THEOREM NoWriteIsWasted == Spec => []NoWastedWrite
<1>1. Inv => NoWastedWrite
  BY DEF Inv
<1> QED BY <1>1, InvAlways, PTL

\* No unit is evaluated without evidence for the submission it is in, although the
\* second write names a version that was read before the first, and either may be
\* acted on after its caller has given up.
THEOREM EvaluatedWithEvidence == Spec => EvaluatedOnEvidence
<1> DEFINE Decided == state = "submitted" /\ state' \in Results
           Backed == \E e \in evidence : e.body.version = version /\ e.body.head = armed
<1>1. ASSUME Inv, [Next]_vars, Decided PROVE Backed
  <2>1. ASSUME NEW b, NEW result, Evaluate(b, result), Fits(b), Attested(b) PROVE Backed
    BY <2>1 DEF Evaluate, Fits, Attested
  <2>2. CASE ActOnEvaluate
    <3>1. Fits(body) /\ Attested(body)
      BY <1>1, <2>2 DEF ActOnEvaluate, Inv, CallOK
    <3>2. \E result \in Results : Evaluate(body, result)
      BY <1>1, <2>2 DEF ActOnEvaluate, Results
    <3> QED BY <2>1, <3>1, <3>2
  <2>3. CASE ActLate
    <3>1. adrift.write = "evaluate" /\ \E result \in Results : Evaluate(adrift.body, result)
      BY <1>1, <2>3 DEF ActLate, Accept, Results
    <3>2. Fits(adrift.body) /\ Attested(adrift.body)
      BY <1>1, <2>3, <3>1 DEF ActLate, Inv, AdriftOK
    <3> QED BY <2>1, <3>1, <3>2
  <2>4. state' = state \/ state' \notin Results \/ state # "submitted" \/ ActOnEvaluate \/ ActLate
    <3>1. CASE Client
      BY <3>1 DEF Client, ReadFails, CheckCriterion, Resolve, ReadHistory, Look, Derive,
                  AttestAnswered, Report, TimeOut, Exit
    <3>2. CASE Orchestrator
      BY <3>2 DEF Orchestrator, RecordDispatch, Push, Submit, Proceed, Move, Results,
                  ActOnAttest, Accept
    <3>3. CASE Begin \/ UNCHANGED vars
      BY <3>3 DEF Begin, vars
    <3> QED BY <1>1, <3>1, <3>2, <3>3 DEF Next
  <2> QED BY <1>1, <2>2, <2>3, <2>4 DEF Results
<1>2. Inv /\ [Next]_vars => [Decided => Backed]_vars
  BY <1>1
<1> QED BY <1>2, InvAlways, PTL DEF Spec, EvaluatedOnEvidence

=============================================================================
