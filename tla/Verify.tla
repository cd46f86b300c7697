------------------------------- MODULE Verify -------------------------------
(***************************************************************************)
(* `factory verify`: evidence for one criterion of a work unit, and then   *)
(* the evaluation of the unit.                                             *)
(*                                                                         *)
(* Four reads (the criteria, the unit's id, its history, its row among the *)
(* units in flight) yield the body of the first write, which attests that  *)
(* a named check passed on the unit's pull request.  The second write asks *)
(* for the evaluation; it names the version of the fourth read too, since  *)
(* evidence leaves the version alone.  Meanwhile the worker pushes,        *)
(* submits and starts over, and people decide.                             *)
(*                                                                         *)
(* The orchestrator is another program, modelled from what this one says   *)
(* of it: what it accepts as evidence, and which results it has.           *)
(***************************************************************************)
EXTENDS Naturals, FiniteSetsExt

CONSTANTS
  Criteria,       \* what the operator may pass as --ac
  Automated,      \* the criteria of the revision that take an automated check
  Mappings,       \* the sets of criteria that may be mapped to the unit
  MaxVersion,     \* bound on versions
  MaxDispatches,  \* bound on recorded dispatches
  MaxHead,        \* bound on commits of the pull request
  NoBody,         \* no body derived yet
  NoRequest       \* no request on its way

ASSUME VerifyAssumption ==
  /\ Automated \subseteq Criteria /\ Mappings \subseteq SUBSET Criteria
  /\ MaxVersion \in Nat /\ MaxDispatches \in Nat /\ MaxHead \in Nat

\* `submitted` stands for submitted and verifying, `ready` for draft and ready.
UnitStates == {"ready", "executing", "submitted", "completed", "awaiting_review",
               "revision_required", "failed", "cancelled"}
Results == {"completed", "awaiting_review", "revision_required", "failed"}

Versions == 0..MaxVersion
Dispatches == 1..MaxDispatches
Heads == 0..MaxHead

\* The body of the first write.  The second names its version.
Bodies == [ac : Criteria, dispatch : Dispatches, head : Heads, version : Versions]

\* Evidence as the orchestrator holds it, with the dispatch that the submission it
\* came for is owed to.
Evidence == [body : Bodies, by : 0..MaxDispatches]

Requests == [write : {"attest", "evaluate"}, body : Bodies]

Answers == {"none", "accepted", "refused"} \cup Results

\* The orchestrator's reasons to refuse evidence.
Reasons == {"version", "state", "dispatch", "head", "subject"}

Verdicts == {"none", "refused", "unreadable", "server_refused", "lost",
             "pass", "review", "not_a_pass"}
Places == {"idle", "checking", "resolving", "reading", "looking", "attesting", "evaluating"}

VARIABLES
  state, version,    \* the unit
  mapped,            \* its criteria
  head, armed,       \* the head of its pull request; that at the last submission; 0: none
  armedBy,           \* the last dispatch before that submission; 0: none
  attempts, fired,   \* the recorded dispatches, and those that started a run
  evidence,          \* the evidence accepted
  adrift,            \* a write its caller has given up on
  pc, ac,            \* the call in progress and its --ac
  found, current,    \* the dispatch and the head it read
  body,              \* the body it derived
  answer,            \* the orchestrator's answer to its last write
  refusal,           \* and why, if it refused evidence
  outcome,           \* the result of the evaluation done for it
  verdict,           \* how the last call ended
  lapsed             \* a dispatch came between a read of the history and of the row

unit == <<state, version, mapped, head, armed, armedBy, attempts, fired>>
call == <<pc, ac, found, current, body, answer, refusal, outcome, verdict>>
vars == <<state, version, mapped, head, armed, armedBy, attempts, fired, evidence, adrift,
          pc, ac, found, current, body, answer, refusal, outcome, verdict, lapsed>>

Init ==
  /\ state = "ready" /\ version = 0 /\ mapped \in Mappings
  /\ head = 0 /\ armed = 0 /\ armedBy = 0 /\ attempts = 0 /\ fired = {}
  /\ evidence = {} /\ adrift = NoRequest
  /\ pc = "idle" /\ ac = "none" /\ found = 0 /\ current = 0 /\ body = NoBody
  /\ answer = "none" /\ refusal = {} /\ outcome = "none" /\ verdict = "none"
  /\ lapsed = FALSE

-----------------------------------------------------------------------------
(* Which dispatch a named check attests to. *)

\* Variant: the first dispatch that started a run.
FirstDispatch == IF fired = {} THEN 0 ELSE Min(fired)

\* The last one that started a run; 0: there was none.
LatestDispatch == IF fired = {} THEN 0 ELSE Max(fired)

-----------------------------------------------------------------------------
(* The unit's own life. *)

\* Every change of state bumps the version.
Move(to) ==
  /\ version < MaxVersion
  /\ state' = to /\ version' = version + 1

\* A dispatch is recorded; it starts a run or not.
RecordDispatch ==
  /\ state = "ready" /\ attempts < MaxDispatches
  /\ attempts' = attempts + 1
  /\ \/ fired' = fired \cup {attempts + 1} /\ lapsed' = (lapsed \/ pc = "looking")
     \/ UNCHANGED <<fired, lapsed>>
  /\ UNCHANGED <<state, version, mapped, head, armed, armedBy, evidence, adrift, call>>

\* The head of the pull request moves while the unit is worked on, and after.
Push ==
  /\ state \in {"executing", "submitted"} /\ head < MaxHead
  /\ head' = head + 1
  /\ UNCHANGED <<state, version, mapped, armed, armedBy, attempts, fired, evidence, adrift,
                 call, lapsed>>

\* The submission fixes the head that verification is about.
Submit ==
  /\ state = "executing" /\ head > 0 /\ Move("submitted")
  /\ armed' = head /\ armedBy' = IF fired = {} THEN 0 ELSE Max(fired)
  /\ UNCHANGED <<mapped, head, attempts, fired, evidence, adrift, call, lapsed>>

\* A worker claims the unit, its claim ends, a revision is tried, people decide.
Proceed ==
  /\ \/ state = "ready" /\ Move("executing")
     \/ state \in {"executing", "revision_required"} /\ Move("ready")
     \/ state = "awaiting_review"
          /\ \E to \in {"completed", "revision_required", "failed"} : Move(to)
     \/ state \notin {"completed", "failed", "cancelled"} /\ Move("cancelled")
  /\ UNCHANGED <<mapped, head, armed, armedBy, attempts, fired, evidence, adrift, call, lapsed>>

-----------------------------------------------------------------------------
(* What the orchestrator does with the two writes. *)

\* Why it refuses evidence.
Objections(b) ==
  {reason \in Reasons :
     \/ reason = "version" /\ b.version # version
     \/ reason = "state" /\ state # "submitted"
     \/ reason = "dispatch" /\ b.dispatch \notin fired
     \/ reason = "head" /\ ~(b.head = head /\ b.head = armed)
     \/ reason = "subject" /\ b.ac \notin mapped}

\* Evidence is kept; it changes neither state nor version.
Accept(b) ==
  /\ Objections(b) = {}
  /\ evidence' = evidence \cup {[body |-> b, by |-> armedBy]}
  /\ UNCHANGED unit

Shown(a) == \E e \in evidence : e.body.ac = a /\ e.body.head = armed

\* The unit is evaluated: no criterion passes without evidence of the armed head, and
\* one that is not automated needs a person.
Evaluate(b, result) ==
  /\ b.version = version /\ state = "submitted"
  /\ result = "completed" => mapped \subseteq Automated /\ \A a \in mapped : Shown(a)
  /\ result = "awaiting_review" =>
       ~(mapped \subseteq Automated) /\ \A a \in mapped \cap Automated : Shown(a)
  /\ Move(result)
  /\ UNCHANGED <<mapped, head, armed, armedBy, attempts, fired, evidence>>

ActOnAttest ==
  /\ pc = "attesting" /\ answer = "none"
  /\ \/ Accept(body) /\ answer' = "accepted" /\ UNCHANGED refusal
     \/ /\ Objections(body) # {}
        /\ answer' = "refused" /\ refusal' = Objections(body) /\ UNCHANGED <<unit, evidence>>
  /\ UNCHANGED <<adrift, pc, ac, found, current, body, outcome, verdict, lapsed>>

ActOnEvaluate ==
  /\ pc = "evaluating" /\ answer = "none"
  /\ \/ \E result \in Results :
          Evaluate(body, result) /\ answer' = result /\ outcome' = result
     \/ /\ ~(body.version = version /\ state = "submitted")
        /\ answer' = "refused" /\ UNCHANGED <<unit, evidence, outcome>>
  /\ UNCHANGED <<adrift, pc, ac, found, current, body, refusal, verdict, lapsed>>

\* It gets to a write whose caller has given up, or never does.
ActLate ==
  /\ adrift # NoRequest /\ adrift' = NoRequest
  /\ \/ adrift.write = "attest" /\ Accept(adrift.body)
     \/ adrift.write = "evaluate" /\ \E result \in Results : Evaluate(adrift.body, result)
     \/ UNCHANGED <<unit, evidence>>
  /\ UNCHANGED <<call, lapsed>>

-----------------------------------------------------------------------------
(* The call: its reads. *)

Goto(place) == pc' = place

\* The call ends; nothing is kept.
Exit(v) ==
  /\ pc' = "idle" /\ verdict' = v
  /\ ac' = "none" /\ found' = 0 /\ current' = 0 /\ body' = NoBody
  /\ answer' = "none" /\ refusal' = {}
  /\ UNCHANGED <<outcome, unit, evidence, lapsed>>

Begin ==
  /\ pc = "idle"
  /\ ac' \in Criteria
  /\ Goto("checking") /\ outcome' = "none" /\ verdict' = "none"
  /\ UNCHANGED <<unit, evidence, adrift, found, current, body, answer, refusal, lapsed>>

ReadFails ==
  /\ pc \in {"checking", "resolving", "reading", "looking"}
  /\ Exit("unreadable") /\ UNCHANGED adrift

\* Only an automated check can be settled by a named check.
CheckCriterion ==
  /\ pc = "checking"
  /\ \/ /\ ac \in Automated /\ Goto("resolving")
        /\ UNCHANGED <<unit, evidence, adrift, ac, found, current, body, answer, refusal,
                       outcome, verdict, lapsed>>
     \/ ac \notin Automated /\ Exit("refused") /\ UNCHANGED adrift

Resolve ==
  /\ pc = "resolving"
  /\ \/ /\ state # "cancelled" /\ Goto("reading")
        /\ UNCHANGED <<unit, evidence, adrift, ac, found, current, body, answer, refusal,
                       outcome, verdict, lapsed>>
     \/ state = "cancelled" /\ Exit("refused") /\ UNCHANGED adrift

\* Variant of ReadHistory: a missing dispatch is not refused.
ReadHistoryUnchecked ==
  /\ pc = "reading"
  /\ found' = LatestDispatch /\ Goto("looking")
  /\ UNCHANGED <<unit, evidence, adrift, ac, current, body, answer, refusal,
                 outcome, verdict, lapsed>>

ReadHistory ==
  /\ pc = "reading"
  /\ \/ /\ LatestDispatch # 0
        /\ found' = LatestDispatch /\ Goto("looking")
        /\ UNCHANGED <<unit, evidence, adrift, ac, current, body, answer, refusal,
                       outcome, verdict, lapsed>>
     \/ LatestDispatch = 0 /\ Exit("refused") /\ UNCHANGED adrift

\* The body is derived from the row: the armed head, and the version of both writes.
Derive ==
  /\ current' = head
  /\ body' = [ac |-> ac, dispatch |-> found, head |-> armed, version |-> version]
  /\ Goto("attesting")
  /\ UNCHANGED <<unit, evidence, adrift, ac, found, answer, refusal, outcome, verdict, lapsed>>

\* Variant of Look: in flight and armed is enough.
LookInFlight ==
  /\ pc = "looking"
  /\ \/ state \notin {"completed", "failed", "cancelled"} /\ armed # 0 /\ head = armed /\ Derive
     \/ Exit("refused") /\ UNCHANGED adrift

\* A unit in flight, armed, submitted, at the head it was armed at; or a refusal.
Look ==
  /\ pc = "looking"
  /\ \/ state = "submitted" /\ armed # 0 /\ head = armed /\ Derive
     \/ ~(state = "submitted" /\ armed # 0 /\ head = armed) /\ Exit("refused") /\ UNCHANGED adrift

-----------------------------------------------------------------------------
(* The call: its writes. *)

\* Variants of AttestAnswered: a refusal does not keep the call from asking for the
\* evaluation, or it is posted again.
AttestUnread ==
  /\ pc = "attesting" /\ answer \in {"accepted", "refused"}
  /\ Goto("evaluating") /\ answer' = "none" /\ refusal' = {}
  /\ UNCHANGED <<unit, evidence, adrift, ac, found, current, body, outcome, verdict, lapsed>>

AttestAgain ==
  /\ pc = "attesting" /\ answer \in {"accepted", "refused"}
  /\ \/ answer = "accepted" /\ Goto("evaluating")
     \/ answer = "refused" /\ UNCHANGED pc
  /\ answer' = "none" /\ refusal' = {}
  /\ UNCHANGED <<unit, evidence, adrift, ac, found, current, body, outcome, verdict, lapsed>>

AttestAnswered ==
  /\ pc = "attesting" /\ answer \in {"accepted", "refused"}
  /\ \/ /\ answer = "accepted" /\ Goto("evaluating") /\ answer' = "none"
        /\ UNCHANGED <<unit, evidence, adrift, ac, found, current, body, refusal,
                       outcome, verdict, lapsed>>
     \/ answer = "refused" /\ Exit("server_refused") /\ UNCHANGED adrift

\* Variant of Report: only a failure is not a pass.
ReportLeniently ==
  /\ pc = "evaluating" /\ answer \in Results \cup {"refused"}
  /\ \/ answer = "failed" /\ Exit("not_a_pass")
     \/ answer \in Results \ {"failed"} /\ Exit("pass")
     \/ answer = "refused" /\ Exit("server_refused")
  /\ UNCHANGED adrift

\* The result decides the exit code; a review exits 0 and says that it is no pass.
Report ==
  /\ pc = "evaluating" /\ answer \in Results \cup {"refused"}
  /\ \/ answer = "completed" /\ Exit("pass")
     \/ answer = "awaiting_review" /\ Exit("review")
     \/ answer \in {"revision_required", "failed"} /\ Exit("not_a_pass")
     \/ answer = "refused" /\ Exit("server_refused")
  /\ UNCHANGED adrift

\* No answer in time: an error like any other.  The write may be done, or yet be done.
TimeOut ==
  /\ pc \in {"attesting", "evaluating"}
  /\ Exit("lost")
  /\ \/ UNCHANGED adrift
     \/ /\ answer = "none" /\ adrift = NoRequest
        /\ adrift' = [write |-> IF pc = "attesting" THEN "attest" ELSE "evaluate", body |-> body]

-----------------------------------------------------------------------------
Orchestrator ==
  \/ RecordDispatch \/ Push \/ Submit \/ Proceed
  \/ ActOnAttest \/ ActOnEvaluate \/ ActLate

\* The steps of a call that has begun.
Client ==
  \/ ReadFails \/ CheckCriterion \/ Resolve \/ ReadHistory \/ Look
  \/ AttestAnswered \/ Report \/ TimeOut

Next == Orchestrator \/ Client \/ Begin

\* Every request ends within the client's timeout, so a call keeps moving.
Spec == Init /\ [][Next]_vars /\ WF_vars(Client)

=============================================================================
