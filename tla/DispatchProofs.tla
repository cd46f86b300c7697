---------------------------- MODULE DispatchProofs ----------------------------
(***************************************************************************)
(* Proofs about Dispatch, for every bound on versions, records and strays. *)
(***************************************************************************)
EXTENDS DispatchProperties, TLAPS

USE DEF unit, call, world, Goto

-----------------------------------------------------------------------------
(* Types. *)

\* The call is somewhere its verb leads to, has read what it needs there, and
\* its answer is one that its last write can have.
CallOK ==
  /\ pc \in {"scanning", "dispatching", "reconciling"} => verb = "dispatch"
  /\ pc \in {"probing", "commanding"} => verb = "ready"
  /\ pc # "idle" => verb # "none"
  /\ pc = "dispatching" => answer.kind \in {"none", "record", "error"}
  /\ pc \in {"probing", "commanding"} => answer.kind \in {"none", "done", "conflict", "error"}
  /\ pc \notin {"dispatching", "probing", "commanding"} => answer = NoAnswer
  /\ answer.kind = "record" => answer.value \in 1..Len(records)

\* TypeOK bounds the runs by the bound on records: each run has a record.
TypeInv == TypeOK /\ CallOK /\ fired <= Len(records)

LEMMA AnswerTypes ==
  /\ NoAnswer \in Answers /\ Done \in Answers /\ Refusal \in Answers
  /\ NoAnswer.kind = "none" /\ Done.kind = "done" /\ Refusal.kind = "error"
  /\ \A v \in Versions : [kind |-> "conflict", value |-> v] \in Answers
  /\ \A i \in RecordIds : [kind |-> "record", value |-> i] \in Answers
  /\ \A a \in Answers : a.kind = "conflict" => a.value \in Versions
  /\ \A a \in Answers : a.kind \in {"none", "done", "error"} => a.value = 0
BY DEF NoAnswer, Done, Refusal, Answers

LEMMA InitTypes == Init => TypeInv
<1> SUFFICES ASSUME Init PROVE TypeInv
  OBVIOUS
<1>1. records \in Seq(Outcomes) /\ Len(records) = 0
  BY DEF Init
<1>2. /\ state \in UnitStates /\ version \in Versions
      /\ pc \in Places /\ verdict \in Verdicts /\ seen \in Versions /\ prior \subseteq RecordIds
  BY DispatchAssumption DEF Init, UnitStates, Places, Verdicts, Versions
<1>3. /\ 0 \in 0..MaxRecords /\ 0 <= MaxRecords /\ 0 \in 0..MaxStrays
  BY DispatchAssumption
<1>4. TypeOK
  BY AnswerTypes, <1>1, <1>2, <1>3 DEF Init, TypeOK
<1>5. CallOK
  BY AnswerTypes DEF Init, CallOK
<1> QED BY <1>1, <1>4, <1>5 DEF Init, TypeInv

\* Recording an outcome appends it.
LEMMA RecordTypes ==
  ASSUME TypeInv, NEW outcome \in Outcomes, Record(outcome)
  PROVE  /\ records' \in Seq(Outcomes) /\ Len(records') = Len(records) + 1
         /\ Len(records') <= MaxRecords
         /\ fired' \in 0..MaxRecords /\ fired' <= Len(records')
         /\ Len(records) + 1 \in RecordIds
         /\ \A i \in 1..Len(records) : records'[i] = records[i]
         /\ records'[Len(records) + 1] = outcome
BY DispatchAssumption DEF TypeInv, TypeOK, Record, RecordIds

\* A move of the unit leaves it typed.
LEMMA MoveTypes ==
  ASSUME TypeInv, NEW to \in UnitStates, Move(to)
  PROVE  state' \in UnitStates /\ version' \in Versions
BY DispatchAssumption DEF TypeInv, TypeOK, Move, Versions

\* The end of a call leaves everything typed.
LEMMA ExitTypes ==
  ASSUME TypeInv, NEW v \in Verdicts, Exit(v), UNCHANGED adrift,
         strays' \in 0..MaxStrays
  PROVE  TypeInv'
<1>1. "idle" \in Places /\ 0 \in Versions
  BY DispatchAssumption DEF Places, Versions
<1>2. TypeOK'
  BY AnswerTypes, <1>1 DEF TypeInv, TypeOK, Exit
<1>3. CallOK'
  BY AnswerTypes DEF CallOK, Exit
<1> QED BY <1>2, <1>3 DEF TypeInv, Exit

LEMMA OrchestratorTypes ==
  ASSUME TypeInv, Orchestrator
  PROVE  TypeInv'
<1> USE DispatchAssumption
<1> UnitStates = {"draft", "ready", "claimed", "over", "cancelled"}
  BY DEF UnitStates
<1>1. CASE BecomeReady
  BY <1>1, MoveTypes DEF BecomeReady, TypeInv, TypeOK, CallOK
<1>2. CASE Claim
  BY <1>2, MoveTypes DEF Claim, TypeInv, TypeOK, CallOK
<1>3. CASE Requeue
  BY <1>3, MoveTypes DEF Requeue, TypeInv, TypeOK, CallOK
<1>4. CASE Finish
  BY <1>4, MoveTypes DEF Finish, TypeInv, TypeOK, CallOK
<1>5. CASE ActLate
  <2>1. CASE UNCHANGED <<unit, strays>>
    BY <1>5, <2>1 DEF ActLate, TypeInv, TypeOK, CallOK
  <2>2. CASE (\E outcome \in Outcomes : Record(outcome)) /\ strays' = strays + 1
    <3>1. PICK outcome \in Outcomes : Record(outcome)
      BY <2>2
    <3> QED BY <1>5, <2>2, <3>1, RecordTypes DEF ActLate, TypeInv, TypeOK, CallOK, Record
  <2> QED BY <1>5, <2>1, <2>2 DEF ActLate
<1>6. CASE ActOnDispatch
  <2>1. CASE answer' = Refusal /\ UNCHANGED <<unit, acted>>
    BY <1>6, <2>1, AnswerTypes DEF ActOnDispatch, TypeInv, TypeOK, CallOK
  <2>2. CASE /\ \E outcome \in Outcomes : Record(outcome) /\ acted' = outcome
             /\ answer' = [kind |-> "record", value |-> Len(records) + 1]
    <3>1. PICK outcome \in Outcomes : Record(outcome) /\ acted' = outcome
      BY <2>2
    <3> QED BY <1>6, <2>2, <3>1, RecordTypes, AnswerTypes
            DEF ActOnDispatch, TypeInv, TypeOK, CallOK, Record
  <2> QED BY <1>6, <2>1, <2>2 DEF ActOnDispatch
<1>7. CASE Replay
  <2>1. PICK i \in 1..Len(records) : answer' = [kind |-> "record", value |-> i]
    BY <1>7 DEF Replay
  <2>2. i \in RecordIds
    BY <2>1 DEF TypeInv, TypeOK, RecordIds
  <2> QED BY <1>7, <2>1, <2>2, AnswerTypes DEF Replay, TypeInv, TypeOK, CallOK
<1>8. ASSUME NEW v \in Versions, ActOnReady(v), pc \in {"probing", "commanding"},
             UNCHANGED <<adrift, strays, mayDispatch, pc, verb, seen, prior, verdict>>
      PROVE  TypeInv'
  <2>1. CASE answer' = Done /\ UNCHANGED <<unit, keyed, acted>>
    BY <1>8, <2>1, AnswerTypes DEF TypeInv, TypeOK, CallOK
  <2>2. CASE /\ Move("ready") /\ fired' = 0 /\ UNCHANGED records
             /\ keyed' = TRUE /\ acted' = "readied" /\ answer' = Done
    BY <1>8, <2>2, MoveTypes, AnswerTypes DEF TypeInv, TypeOK, CallOK
  <2>3. CASE answer' = [kind |-> "conflict", value |-> version] /\ UNCHANGED <<unit, keyed, acted>>
    BY <1>8, <2>3, AnswerTypes DEF TypeInv, TypeOK, CallOK
  <2>4. CASE answer' = Refusal /\ UNCHANGED <<unit, keyed, acted>>
    BY <1>8, <2>4, AnswerTypes DEF TypeInv, TypeOK, CallOK
  <2> QED BY <1>8, <2>1, <2>2, <2>3, <2>4 DEF ActOnReady
<1>9. CASE ActOnProbe
  BY <1>8, <1>9 DEF ActOnProbe, Versions
<1>10. CASE ActOnCommand
  BY <1>8, <1>10 DEF ActOnCommand, TypeInv, TypeOK
<1> QED BY <1>1, <1>2, <1>3, <1>4, <1>5, <1>6, <1>7, <1>9, <1>10 DEF Orchestrator

LEMMA ClientTypes ==
  ASSUME TypeInv, Client
  PROVE  TypeInv'
<1> USE DispatchAssumption
<1> DEFINE V(v) == v \in Verdicts
<1>0. /\ V("refused") /\ V("unreadable") /\ V("inconclusive") /\ V("no_op") /\ V("success")
      /\ V("not_dispatched") /\ V("landed") /\ V("not_landed") /\ V("unknown")
  BY DEF Verdicts
<1>s. strays \in 0..MaxStrays
  BY DEF TypeInv, TypeOK
<1>1. CASE ReadFails
  BY <1>0, <1>s, <1>1, ExitTypes DEF ReadFails
<1>2. CASE Resolve
  <2>1. CASE Goto("looking") /\ UNCHANGED <<world, verb, seen, prior, answer, keyed, acted, verdict>>
    BY <1>2, <2>1 DEF Resolve, TypeInv, TypeOK, CallOK, Places
  <2> QED BY <1>0, <1>s, <1>2, <2>1, ExitTypes DEF Resolve
<1>3. CASE LookForDispatch
  <2>1. CASE seen' = version /\ Goto("scanning")
             /\ UNCHANGED <<world, verb, prior, answer, keyed, acted, verdict>>
    BY <1>3, <2>1 DEF LookForDispatch, TypeInv, TypeOK, CallOK, Places
  <2> QED BY <1>0, <1>s, <1>3, <2>1, ExitTypes DEF LookForDispatch
<1>4. CASE LookForReady
  <2>1. CASE Goto("probing") /\ UNCHANGED <<world, verb, seen, prior, answer, keyed, acted, verdict>>
    BY <1>4, <2>1, AnswerTypes DEF LookForReady, TypeInv, TypeOK, CallOK, Places
  <2> QED BY <1>0, <1>s, <1>4, <2>1, ExitTypes DEF LookForReady
<1>5. CASE Scan
  BY <1>5, AnswerTypes DEF Scan, TypeInv, TypeOK, CallOK, Places, RecordIds
<1>6. CASE Report
  BY <1>0, <1>s, <1>6, ExitTypes DEF Report
<1>7. CASE GatewayAnswers
  <2>1. strays' \in 0..MaxStrays
    BY <1>s, <1>7 DEF GatewayAnswers
  <2> QED BY <1>0, <1>7, <2>1, ExitTypes DEF GatewayAnswers
<1>8. CASE TimeOut
  BY <1>8, AnswerTypes DEF TimeOut, TypeInv, TypeOK, CallOK, Places
<1>9. CASE Reconcile
  BY <1>0, <1>s, <1>9, ExitTypes DEF Reconcile
<1>10. CASE ProbeAnswered
  <2>1. CASE /\ answer.kind \in {"done", "conflict"}
             /\ seen' = answer.value
             /\ Goto("commanding") /\ answer' = NoAnswer
             /\ UNCHANGED <<world, verb, prior, keyed, acted, verdict>>
    <3>1. answer.value \in Versions
      BY <2>1, AnswerTypes DEF TypeInv, TypeOK, Versions
    <3> QED BY <1>10, <2>1, <3>1, AnswerTypes DEF ProbeAnswered, TypeInv, TypeOK, CallOK, Places
  <2> QED BY <1>0, <1>s, <1>10, <2>1, ExitTypes DEF ProbeAnswered
<1>11. CASE CommandAnswered
  BY <1>0, <1>s, <1>11, ExitTypes DEF CommandAnswered
<1>12. CASE ReadyTimesOut
  BY <1>0, <1>s, <1>12, ExitTypes DEF ReadyTimesOut
<1> QED BY <1>1, <1>2, <1>3, <1>4, <1>5, <1>6, <1>7, <1>8, <1>9, <1>10, <1>11, <1>12 DEF Client

LEMMA NextTypes ==
  ASSUME TypeInv, [Next]_vars
  PROVE  TypeInv'
<1>1. CASE Begin
  BY <1>1 DEF Begin, TypeInv, TypeOK, CallOK, Places, Verdicts
<1>2. CASE LookAgain
  BY <1>2 DEF LookAgain, TypeInv, TypeOK, CallOK
<1>3. CASE UNCHANGED vars
  BY <1>3 DEF vars, TypeInv, TypeOK, CallOK
<1> QED BY <1>1, <1>2, <1>3, OrchestratorTypes, ClientTypes DEF Next

\* In every reachable state every variable has its type: no call names a version
\* that it did not read, and no record is spoken of that is not in the history.
THEOREM TypeCorrect == Spec => []TypeOK
<1>1. Spec => []TypeInv
  BY InitTypes, NextTypes, PTL DEF Spec
<1>2. TypeInv => TypeOK
  BY DEF TypeInv
<1> QED BY <1>1, <1>2, PTL

-----------------------------------------------------------------------------
(* Verdicts, as long as no write strays. *)

\* What a dispatch under way knows: before the write nothing was done; after it
\* the history grew by the record of its own write, if by any.
CallTruth ==
  /\ pc # "idle" => verdict = "none"
  /\ pc # "idle" /\ verb = "dispatch" => mayDispatch
  /\ pc \in {"resolving", "looking", "scanning"} => acted = "nothing"
  /\ pc \in {"dispatching", "reconciling"} =>
       \/ acted = "nothing" /\ prior = 1..Len(records)
       \/ /\ acted \in Outcomes /\ Len(records) > 0
          /\ prior = 1..(Len(records) - 1) /\ records[Len(records)] = acted
          /\ pc = "dispatching" => answer = [kind |-> "record", value |-> Len(records)]

\* A run that was started since the unit became ready is known to its operator,
\* or to the call that is about to tell him.
RunKnown ==
  fired = 0 \/ /\ fired = 1
               /\ \/ ~mayDispatch
                  \/ pc \in {"dispatching", "reconciling"} /\ acted = "dispatched"

VerdictTruth == SuccessIsReal /\ SafeToRepeat /\ LandedMeansActedOn

TruthInv == strays = 0 => CallTruth /\ RunKnown /\ VerdictTruth

LEMMA InitTruth == Init => TruthInv
BY DEF Init, TruthInv, CallTruth, RunKnown, VerdictTruth, SuccessIsReal, SafeToRepeat,
       LandedMeansActedOn

\* A write that strayed stays counted.
LEMMA StraysStay ==
  ASSUME TypeInv, [Next]_vars, strays' = 0
  PROVE  strays = 0
<1>1. strays \in Nat
  BY DispatchAssumption DEF TypeInv, TypeOK
<1>2. UNCHANGED strays \/ strays' = strays + 1
  <2>1. CASE Orchestrator
    BY <2>1 DEF Orchestrator, BecomeReady, Claim, Requeue, Finish, ActLate, ActOnDispatch,
                Replay, ActOnProbe, ActOnCommand
  <2>2. CASE Client
    BY <2>2 DEF Client, ReadFails, Resolve, LookForDispatch, LookForReady, Scan, Report,
                GatewayAnswers, TimeOut, Reconcile, ProbeAnswered, CommandAnswered, ReadyTimesOut
  <2>3. CASE Begin \/ LookAgain \/ UNCHANGED vars
    BY <2>3 DEF Begin, LookAgain, vars
  <2> QED BY <2>1, <2>2, <2>3 DEF Next
<1> QED BY <1>1, <1>2

\* What a verdict must not claim: that something was done that was not, that
\* nothing was done when a run was started.
Honest(v) ==
  /\ v = "landed" => acted \in Outcomes
  /\ verb = "dispatch" =>
       /\ v = "success" => acted = "dispatched"
       /\ v = "not_landed" => acted = "nothing"
       /\ v \notin DoNotRetry => acted # "dispatched"

\* An honest verdict leaves every verdict true and every run known.
LEMMA ExitTruth ==
  ASSUME TypeInv, CallTruth, RunKnown, NEW v \in Verdicts, Exit(v), Honest(v)
  PROVE  CallTruth' /\ RunKnown' /\ VerdictTruth'
<1>1. CallTruth'
  BY DEF CallTruth, Exit
<1>2. RunKnown'
  BY DEF TypeInv, CallOK, RunKnown, Exit, Honest
<1>3. VerdictTruth'
  BY DEF VerdictTruth, SuccessIsReal, SafeToRepeat, LandedMeansActedOn, Exit, Honest, DoNotRetry
<1> QED BY <1>1, <1>2, <1>3

\* The orchestrator's steps: each readiness starts the count of runs again, and
\* a dispatch is acted on only for a call that knows of no run.
LEMMA OrchestratorTruth ==
  ASSUME TypeInv, CallTruth, RunKnown, VerdictTruth, Orchestrator, strays = 0, strays' = 0
  PROVE  CallTruth' /\ RunKnown' /\ VerdictTruth'
<1> USE DEF VerdictTruth, SuccessIsReal, SafeToRepeat, LandedMeansActedOn
<1>1. CASE BecomeReady
  BY <1>1 DEF BecomeReady, Move, CallTruth, RunKnown
<1>2. CASE Claim
  BY <1>2 DEF Claim, Move, CallTruth, RunKnown
<1>3. CASE Requeue
  BY <1>3 DEF Requeue, Move, CallTruth, RunKnown
<1>4. CASE Finish
  BY <1>4 DEF Finish, Move, CallTruth, RunKnown
<1>5. CASE ActLate
  BY <1>5 DEF ActLate, CallTruth, RunKnown
<1>6. CASE ActOnDispatch
  <2>0. verdict = "none" /\ mayDispatch
    BY <1>6 DEF ActOnDispatch, CallTruth, TypeInv, CallOK
  <2>1. acted = "nothing" /\ prior = 1..Len(records) /\ fired = 0
    BY <1>6, <2>0, AnswerTypes DEF ActOnDispatch, CallTruth, RunKnown
  <2>2. CASE answer' = Refusal /\ UNCHANGED <<unit, acted>>
    BY <1>6, <2>0, <2>1, <2>2 DEF ActOnDispatch, CallTruth, RunKnown
  <2>3. CASE /\ \E outcome \in Outcomes : Record(outcome) /\ acted' = outcome
             /\ answer' = [kind |-> "record", value |-> Len(records) + 1]
    <3>1. PICK outcome \in Outcomes : Record(outcome) /\ acted' = outcome
      BY <2>3
    <3>2. /\ Len(records') = Len(records) + 1 /\ Len(records) \in Nat
          /\ records'[Len(records) + 1] = outcome
      BY <3>1, RecordTypes DEF TypeInv, TypeOK
    <3>3. CallTruth'
      BY <1>6, <2>0, <2>1, <2>3, <3>1, <3>2 DEF ActOnDispatch, CallTruth
    <3>4. RunKnown'
      BY <1>6, <2>1, <3>1 DEF ActOnDispatch, RunKnown, Record
    <3> QED BY <1>6, <2>0, <3>3, <3>4 DEF ActOnDispatch
  <2> QED BY <1>6, <2>2, <2>3 DEF ActOnDispatch
<1>7. CASE Replay
  BY <1>7, AnswerTypes DEF Replay, CallTruth, RunKnown
<1>8. ASSUME NEW v, ActOnReady(v), pc \in {"probing", "commanding"},
             UNCHANGED <<adrift, strays, mayDispatch, pc, verb, seen, prior, verdict>>
      PROVE  CallTruth' /\ RunKnown' /\ VerdictTruth'
  BY <1>8 DEF ActOnReady, Move, CallTruth, RunKnown, TypeInv, CallOK
<1>9. CASE ActOnProbe
  BY <1>8, <1>9 DEF ActOnProbe
<1>10. CASE ActOnCommand
  BY <1>8, <1>10 DEF ActOnCommand
<1> QED BY <1>1, <1>2, <1>3, <1>4, <1>5, <1>6, <1>7, <1>9, <1>10 DEF Orchestrator

\* The call's steps: each goes on with what the call knows, or ends with an
\* honest verdict.
LEMMA ClientTruth ==
  ASSUME TypeInv, CallTruth, RunKnown, VerdictTruth, Client, strays = 0, strays' = 0
  PROVE  CallTruth' /\ RunKnown' /\ VerdictTruth'
<1> DEFINE Ended == \E v \in Verdicts : Exit(v) /\ Honest(v)
<1>e. Ended => CallTruth' /\ RunKnown' /\ VerdictTruth'
  BY ExitTruth
<1> HIDE DEF Ended
<1>v. {"refused", "unreadable", "inconclusive", "no_op", "success", "not_dispatched",
       "landed", "not_landed", "unknown"} \subseteq Verdicts
  BY DEF Verdicts
<1>r. \A v \in Verdicts : verb = "ready" /\ v # "landed" /\ Exit(v) => Ended
  BY DEF Ended, Honest
<1>n. \A v \in {"refused", "unreadable"} : acted = "nothing" /\ Exit(v) => Ended
  BY <1>v DEF Ended, Honest
<1>1. CASE ReadFails
  BY <1>1, <1>n, <1>e DEF ReadFails, CallTruth
<1>2. CASE Resolve
  <2>1. CASE Goto("looking") /\ UNCHANGED <<world, verb, seen, prior, answer, keyed, acted, verdict>>
    BY <1>2, <2>1 DEF Resolve, CallTruth, RunKnown, VerdictTruth, SuccessIsReal, SafeToRepeat,
                      LandedMeansActedOn
  <2> QED BY <1>2, <2>1, <1>n, <1>e DEF Resolve, CallTruth
<1>3. CASE LookForDispatch
  <2>1. CASE seen' = version /\ Goto("scanning")
             /\ UNCHANGED <<world, verb, prior, answer, keyed, acted, verdict>>
    BY <1>3, <2>1 DEF LookForDispatch, CallTruth, RunKnown, VerdictTruth, SuccessIsReal,
                      SafeToRepeat, LandedMeansActedOn
  <2> QED BY <1>3, <2>1, <1>n, <1>e DEF LookForDispatch, CallTruth
<1>4. CASE LookForReady
  <2>1. CASE Goto("probing") /\ UNCHANGED <<world, verb, seen, prior, answer, keyed, acted, verdict>>
    BY <1>4, <2>1 DEF LookForReady, CallTruth, RunKnown, VerdictTruth, SuccessIsReal,
                      SafeToRepeat, LandedMeansActedOn
  <2> QED BY <1>4, <2>1, <1>v, <1>r, <1>e DEF LookForReady
<1>5. CASE Scan
  BY <1>5 DEF Scan, CallTruth, RunKnown, VerdictTruth, SuccessIsReal, SafeToRepeat,
              LandedMeansActedOn
<1>6. CASE Report
  <2>1. verb = "dispatch"
    BY <1>6 DEF Report, TypeInv, CallOK
  <2>2. CASE answer.kind = "error" /\ Exit("refused")
    BY <1>6, <2>2, <1>n, <1>e DEF Report, CallTruth
  <2>3. CASE answer.kind = "record" /\ answer.value \in prior /\ Exit("no_op")
    <3>1. acted # "dispatched"
      BY <1>6, <2>3 DEF Report, CallTruth, TypeInv, TypeOK
    <3> QED BY <2>3, <3>1, <1>v, <1>e DEF Ended, Honest
  <2>4. CASE answer.kind = "record" /\ answer.value \notin prior
    <3>1. answer.value \in 1..Len(records)
      BY <2>4 DEF TypeInv, CallOK
    <3>2. records[answer.value] = acted /\ acted \in Outcomes
      BY <1>6, <2>4, <3>1 DEF Report, CallTruth
    <3>3. CASE records[answer.value] # "dispatched" /\ Exit("not_dispatched")
      BY <3>2, <3>3, <1>v, <1>e DEF Ended, Honest
    <3>4. CASE records[answer.value] = "dispatched" /\ Exit("success")
      BY <3>2, <3>4, <1>v, <1>e DEF Ended, Honest, DoNotRetry
    <3> QED BY <1>6, <2>4, <3>3, <3>4 DEF Report
  <2> QED BY <1>6, <2>2, <2>3, <2>4 DEF Report
<1>7. CASE GatewayAnswers
  BY <1>7 DEF GatewayAnswers
<1>8. CASE TimeOut
  BY <1>8 DEF TimeOut, CallTruth, RunKnown, VerdictTruth, SuccessIsReal, SafeToRepeat,
              LandedMeansActedOn
<1>9. CASE Reconcile
  <2>1. \/ acted = "nothing" /\ prior = 1..Len(records)
        \/ acted \in Outcomes /\ ~(1..Len(records) \subseteq prior)
    BY <1>9 DEF Reconcile, CallTruth, TypeInv, TypeOK
  <2>2. CASE 1..Len(records) \ prior # {} /\ Exit("landed")
    BY <2>1, <2>2, <1>v, <1>e DEF Ended, Honest, DoNotRetry
  <2>3. CASE 1..Len(records) \subseteq prior /\ Exit("not_landed")
    BY <2>1, <2>3, <1>v, <1>e DEF Ended, Honest
  <2>4. CASE Exit("unknown")
    BY <2>4, <1>v, <1>e DEF Ended, Honest, DoNotRetry
  <2> QED BY <1>9, <2>2, <2>3, <2>4 DEF Reconcile
<1>10. CASE ProbeAnswered
  <2>1. CASE Goto("commanding") /\ UNCHANGED <<world, verb, prior, keyed, acted, verdict>>
    BY <1>10, <2>1 DEF ProbeAnswered, CallTruth, RunKnown, VerdictTruth, SuccessIsReal,
                       SafeToRepeat, LandedMeansActedOn
  <2>2. CASE Exit("refused")
    BY <1>10, <2>2, <1>v, <1>r, <1>e DEF ProbeAnswered, TypeInv, CallOK
  <2> QED BY <1>10, <2>1, <2>2 DEF ProbeAnswered
<1>11. CASE CommandAnswered
  BY <1>11, <1>v, <1>r, <1>e DEF CommandAnswered, TypeInv, CallOK
<1>12. CASE ReadyTimesOut
  BY <1>12, <1>v, <1>r, <1>e DEF ReadyTimesOut, TypeInv, CallOK
<1> QED BY <1>1, <1>2, <1>3, <1>4, <1>5, <1>6, <1>7, <1>8, <1>9, <1>10, <1>11, <1>12 DEF Client

LEMMA NextTruth ==
  ASSUME TypeInv, TruthInv, [Next]_vars
  PROVE  TruthInv'
<1> SUFFICES ASSUME strays' = 0
             PROVE  CallTruth' /\ RunKnown' /\ VerdictTruth'
  BY DEF TruthInv
<1>0. strays = 0 /\ CallTruth /\ RunKnown /\ VerdictTruth
  BY StraysStay DEF TruthInv
<1> USE DEF VerdictTruth, SuccessIsReal, SafeToRepeat, LandedMeansActedOn
<1>1. CASE Begin
  BY <1>0, <1>1 DEF Begin, CallTruth, RunKnown
<1>2. CASE LookAgain
  BY <1>0, <1>2 DEF LookAgain, CallTruth, RunKnown
<1>3. CASE UNCHANGED vars
  BY <1>0, <1>3 DEF vars, CallTruth, RunKnown
<1>4. CASE Orchestrator
  BY <1>0, <1>4, OrchestratorTruth
<1>5. CASE Client
  BY <1>0, <1>5, ClientTruth
<1> QED BY <1>1, <1>2, <1>3, <1>4, <1>5 DEF Next

LEMMA TruthAlways == Spec => []TruthInv
<1>1. Init => TypeInv /\ TruthInv
  BY InitTypes, InitTruth
<1>2. TypeInv /\ TruthInv /\ [Next]_vars => (TypeInv /\ TruthInv)'
  BY NextTypes, NextTruth
<1>3. TypeInv /\ TruthInv => TruthInv
  OBVIOUS
<1> QED BY <1>1, <1>2, <1>3, PTL DEF Spec

\* A unit is dispatched at most once each time it becomes ready, whatever is
\* lost or times out, as long as nothing is done behind the caller's back.
THEOREM OneRun == Spec => []OneRunPerReadiness
<1>1. TruthInv => OneRunPerReadiness
  BY DEF TruthInv, RunKnown, OneRunPerReadiness
<1> QED BY <1>1, TruthAlways, PTL

\* A dispatch that exits 0 started a run itself, as long as nothing strays.
THEOREM SuccessIsTrue == Spec => []SuccessIsReal
<1>1. TruthInv => SuccessIsReal
  BY DEF TruthInv, VerdictTruth, SuccessIsReal
<1> QED BY <1>1, TruthAlways, PTL

\* A dispatch that reports that it started nothing, or did not land, is safe to
\* repeat, as long as nothing strays.
THEOREM VerdictsAreTrue == Spec => []SafeToRepeat
<1>1. TruthInv => SafeToRepeat
  BY DEF TruthInv, VerdictTruth, SafeToRepeat
<1> QED BY <1>1, TruthAlways, PTL

\* A dispatch that reports that it landed was acted on, and no record of an
\* earlier call is taken for its own, as long as nothing strays.
THEOREM LandedIsTrue == Spec => []LandedMeansActedOn
<1>1. TruthInv => LandedMeansActedOn
  BY DEF TruthInv, VerdictTruth, LandedMeansActedOn
<1> QED BY <1>1, TruthAlways, PTL

-----------------------------------------------------------------------------
(* ready, whatever strays. *)

\* Once the orchestrator has applied the key the unit is a draft no more, and
\* whatever the same call writes with that key is answered with success.
ReadyInv ==
  /\ pc # "idle" => verdict = "none"
  /\ keyed => pc \in {"probing", "commanding"} /\ acted = "readied"
  /\ acted = "readied" => state # "draft"
  /\ pc \in {"resolving", "looking"} => acted = "nothing"
  /\ pc \in {"probing", "commanding"} /\ acted = "readied" =>
       keyed /\ answer.kind \in {"none", "done"}
  /\ answer.kind = "done" => keyed
  /\ ReadyIsEffective /\ OwnWorkNotRefused

LEMMA ReadyOrchestrator ==
  ASSUME TypeInv, ReadyInv, Orchestrator
  PROVE  ReadyInv'
<1> USE AnswerTypes DEF ReadyInv, ReadyIsEffective, OwnWorkNotRefused
<1>1. CASE BecomeReady \/ Claim \/ Requeue \/ Finish
  BY <1>1 DEF BecomeReady, Claim, Requeue, Finish, Move
<1>2. CASE ActLate
  BY <1>2 DEF ActLate, Record
<1>3. CASE ActOnDispatch
  BY <1>3 DEF ActOnDispatch, Record, TypeInv, CallOK, Outcomes
<1>4. CASE Replay
  BY <1>4 DEF Replay
<1>5. ASSUME NEW v, ActOnReady(v), pc \in {"probing", "commanding"}, answer = NoAnswer,
             UNCHANGED <<adrift, strays, mayDispatch, pc, verb, seen, prior, verdict>>
      PROVE  ReadyInv'
  BY <1>5 DEF ActOnReady, Move
<1>6. CASE ActOnProbe
  BY <1>5, <1>6 DEF ActOnProbe
<1>7. CASE ActOnCommand
  BY <1>5, <1>7 DEF ActOnCommand
<1> QED BY <1>1, <1>2, <1>3, <1>4, <1>6, <1>7 DEF Orchestrator

LEMMA ReadyClient ==
  ASSUME TypeInv, ReadyInv, Client
  PROVE  ReadyInv'
<1> USE AnswerTypes DEF ReadyInv, ReadyIsEffective, OwnWorkNotRefused
<1>e. ASSUME NEW v, Exit(v),
             verb = "ready" /\ v = "success" => state # "draft",
             verb = "ready" /\ v = "refused" => acted # "readied"
      PROVE  ReadyInv'
  BY <1>e DEF Exit
<1>1. CASE ReadFails
  BY <1>e, <1>1 DEF ReadFails
<1>2. CASE Resolve
  BY <1>e, <1>2 DEF Resolve
<1>3. CASE LookForDispatch
  BY <1>e, <1>3 DEF LookForDispatch
<1>4. CASE LookForReady
  BY <1>e, <1>4 DEF LookForReady
<1>5. CASE Scan \/ TimeOut
  BY <1>5 DEF Scan, TimeOut
<1>6. CASE Report \/ GatewayAnswers \/ Reconcile
  BY <1>e, <1>6 DEF Report, GatewayAnswers, Reconcile, TypeInv, CallOK
<1>7. CASE ProbeAnswered
  BY <1>e, <1>7 DEF ProbeAnswered
<1>8. CASE CommandAnswered
  BY <1>e, <1>8 DEF CommandAnswered
<1>9. CASE ReadyTimesOut
  BY <1>e, <1>9 DEF ReadyTimesOut
<1> QED BY <1>1, <1>2, <1>3, <1>4, <1>5, <1>6, <1>7, <1>8, <1>9 DEF Client

LEMMA ReadyAlways == Spec => []ReadyInv
<1>1. Init => TypeInv /\ ReadyInv
  BY InitTypes, AnswerTypes DEF Init, ReadyInv, ReadyIsEffective, OwnWorkNotRefused
<1>2. TypeInv /\ ReadyInv /\ [Next]_vars => (TypeInv /\ ReadyInv)'
  <2> SUFFICES ASSUME TypeInv, ReadyInv, [Next]_vars PROVE ReadyInv'
    BY NextTypes
  <2>1. CASE Begin \/ LookAgain \/ UNCHANGED vars
    BY <2>1, AnswerTypes
       DEF Begin, LookAgain, vars, ReadyInv, ReadyIsEffective, OwnWorkNotRefused, TypeInv, CallOK
  <2> QED BY <2>1, ReadyOrchestrator, ReadyClient DEF Next
<1>3. TypeInv /\ ReadyInv => ReadyInv
  OBVIOUS
<1> QED BY <1>1, <1>2, <1>3, PTL DEF Spec

\* After a `ready` that exits 0 the unit is a draft no more, strays or none.
THEOREM ReadyLeavesNoDraft == Spec => []ReadyIsEffective
<1>1. ReadyInv => ReadyIsEffective
  BY DEF ReadyInv
<1> QED BY <1>1, ReadyAlways, PTL

\* A `ready` is not refused for what its own probe did, strays or none.
THEOREM ReadyIsTrue == Spec => []OwnWorkNotRefused
<1>1. ReadyInv => OwnWorkNotRefused
  BY DEF ReadyInv
<1> QED BY <1>1, ReadyAlways, PTL

=============================================================================
