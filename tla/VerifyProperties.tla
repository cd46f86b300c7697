--------------------------- MODULE VerifyProperties ---------------------------
(***************************************************************************)
(* What `factory verify` (module Verify) posts and reports.                *)
(***************************************************************************)
EXTENDS Verify

\* Every variable holds a value of its kind: above all a body that is posted names
\* a criterion, a dispatch and a version.
TypeOK ==
  /\ state \in UnitStates /\ version \in Versions /\ mapped \in Mappings
  /\ head \in Heads /\ armed \in Heads /\ armedBy \in 0..MaxDispatches
  /\ attempts \in 0..MaxDispatches /\ fired \subseteq Dispatches
  /\ evidence \subseteq Evidence /\ adrift \in Requests \cup {NoRequest}
  /\ pc \in Places /\ ac \in Criteria \cup {"none"}
  /\ found \in 0..MaxDispatches /\ current \in Heads
  /\ body \in Bodies \cup {NoBody}
  /\ answer \in Answers /\ refusal \subseteq Reasons
  /\ outcome \in Results \cup {"none"} /\ verdict \in Verdicts
  /\ lapsed \in BOOLEAN

\* What the exit code and its line say is the result of an evaluation done for this
\* very call: a pass left the unit completed, by evidence for every criterion.
ExitReflectsResult ==
  /\ verdict = "pass" =>
       /\ outcome = "completed" /\ state = "completed"
       /\ \A a \in mapped : Shown(a)
  /\ verdict = "review" => outcome = "awaiting_review"
  /\ verdict = "not_a_pass" => outcome \in {"revision_required", "failed"}

\* Evidence names the dispatch whose run submitted the head that it is about; and
\* never a later one, even if a dispatch came between the two reads it is made of.
EvidenceNamesItsDispatch ==
  \A e \in evidence :
    /\ e.body.dispatch <= e.by
    /\ lapsed \/ e.body.dispatch = e.by

\* Evidence is refused only for what the reads could not show: a unit or a head that
\* moved after they were made, or a criterion of another unit.
NoWastedWrite ==
  (pc = "attesting" /\ answer = "refused") =>
    /\ body.ac \in Automated
    /\ \/ "version" \in refusal
       \/ refusal \subseteq {"head", "subject"} /\ ("head" \in refusal => head # current)

\* A unit is evaluated only with evidence that was accepted for this submission of
\* it, also when a write is acted on after its caller has given up.
EvaluatedOnEvidence ==
  [][(state = "submitted" /\ state' \in Results) =>
       \E e \in evidence : e.body.version = version /\ e.body.head = armed]_vars

\* Every call ends.
Terminates == pc # "idle" ~> pc = "idle"

=============================================================================
