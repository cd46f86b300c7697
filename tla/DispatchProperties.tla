-------------------------- MODULE DispatchProperties --------------------------
(***************************************************************************)
(* What `factory ready` and `factory dispatch` (module Dispatch) tell the  *)
(* operator, against what the orchestrator did.                            *)
(*                                                                         *)
(* Most hold as long as no write strays: as long as no dispatch is acted   *)
(* on after its caller gave up, and nobody between program and             *)
(* orchestrator answers in its stead after it acted.  The program cannot   *)
(* tell when that happens (NothingLandsLater).                             *)
(***************************************************************************)
EXTENDS Dispatch

\* Every variable holds a value of its kind: above all the version a call names
\* is one that it read, never the absence of one.
TypeOK ==
  /\ state \in UnitStates /\ version \in Versions
  /\ records \in Seq(Outcomes) /\ Len(records) <= MaxRecords
  /\ fired \in 0..MaxRecords
  /\ adrift \in Versions \cup {NoRequest} /\ strays \in 0..MaxStrays
  /\ mayDispatch \in BOOLEAN
  /\ pc \in Places /\ verb \in {"none", "ready", "dispatch"}
  /\ seen \in Versions /\ prior \subseteq RecordIds
  /\ answer \in Answers /\ keyed \in BOOLEAN
  /\ acted \in Outcomes \cup {"nothing", "readied"}
  /\ verdict \in Verdicts

\* A dispatch that exits 0 started a workflow run itself: neither an older
\* record nor a decision to skip passes for one.
SuccessIsReal ==
  (strays = 0 /\ verb = "dispatch" /\ verdict = "success") => acted = "dispatched"

\* A unit is dispatched once each time it becomes ready, whatever is lost and
\* however often the operator repeats a call that did not tell him to stop.
OneRunPerReadiness == strays = 0 => fired <= 1

\* A dispatch that reports that nothing was started started nothing; one that
\* reports that it did not land was not acted on at all.
SafeToRepeat ==
  (strays = 0 /\ verb = "dispatch") =>
    /\ verdict \in {"refused", "unreadable", "no_op", "not_dispatched"} => acted # "dispatched"
    /\ verdict = "not_landed" => acted = "nothing"

\* A dispatch that reports that it landed was acted on: a record of an earlier
\* call is not taken for its own.
LandedMeansActedOn ==
  (strays = 0 /\ verdict = "landed") => acted \in Outcomes

\* A `ready` that exits 0 leaves no draft behind, though it may have answered
\* from a read and the version it named came out of a failed write.
ReadyIsEffective == (verb = "ready" /\ verdict = "success") => state # "draft"

\* A `ready` whose probe did the work by itself, at version 0, is not refused
\* for it.
OwnWorkNotRefused == (verb = "ready" /\ verdict = "refused") => acted # "readied"

\* Every call ends, whatever fails or times out, also while it finds out what
\* became of a write.
Terminates == pc # "idle" ~> pc = "idle"

-----------------------------------------------------------------------------
(* A statement of the program that it cannot keep. *)

\* "it did not land -- no new dispatch record appeared on re-read, so nothing was
\* dispatched and re-running this command is safe": while that verdict stands,
\* no record appears.
NothingLandsLater == [][verdict = "not_landed" => records' = records]_vars

=============================================================================
