------------------------------- MODULE Dispatch -------------------------------
(***************************************************************************)
(* `factory ready` and `factory dispatch`: one operator moves one work     *)
(* unit of the orchestrator, by requests over HTTP.                        *)
(*                                                                         *)
(* The program keeps nothing between two calls: every call reads the       *)
(* unit's state, version and history again, one request after another,     *)
(* and then writes.  Meanwhile the orchestrator and its workers move the   *)
(* unit.  A request may fail, or time out before or after the orchestrator *)
(* acted on it.  A dispatch starts a workflow run, which cannot be undone. *)
(*                                                                         *)
(* The orchestrator is another program, modelled from what this one relies *)
(* on: a version that every change of state bumps and every write must     *)
(* name; a history in which a dispatch is recorded with one of four        *)
(* outcomes; idempotency keys on commands.  The operator repeats a call    *)
(* unless its last verdict told him not to.                                *)
(***************************************************************************)
EXTENDS Naturals, Sequences

CONSTANTS
  InitialVersions,  \* the versions at which a unit may be created
  MaxVersion,       \* bound on versions
  MaxRecords,       \* bound on dispatch records
  MaxStrays,        \* bound on writes the program took for not done
  NoRequest         \* no request on its way

ASSUME DispatchAssumption ==
  /\ MaxVersion \in Nat /\ MaxRecords \in Nat /\ MaxStrays \in Nat
  /\ InitialVersions \subseteq 0..MaxVersion
  /\ NoRequest \notin Nat

UnitStates == {"draft", "ready", "claimed", "over", "cancelled"}

\* The states that appear in GET /in-flight-units, with a version.
InFlight == {"ready", "claimed"}

Outcomes == {"dispatched", "skipped", "blocked", "failed"}
Versions == 0..MaxVersion
RecordIds == 1..MaxRecords

Answers == [kind : {"none", "done", "error"}, value : {0}]
             \cup [kind : {"conflict"}, value : Versions]
             \cup [kind : {"record"}, value : RecordIds]
NoAnswer == [kind |-> "none", value |-> 0]
Done == [kind |-> "done", value |-> 0]
Refusal == [kind |-> "error", value |-> 0]

\* What a call that ended told the operator.
Verdicts == {"none", "success", "refused", "unreadable", "inconclusive", "no_op",
             "not_dispatched", "landed", "not_landed", "unknown"}

\* The verdicts of dispatch after which he does not dispatch again.
DoNotRetry == {"success", "landed", "unknown"}

Places == {"idle", "resolving", "looking", "scanning", "dispatching",
           "reconciling", "probing", "commanding"}

VARIABLES
  state, version,  \* the unit
  records,         \* the outcomes of its dispatches, in order; a place is an id
  fired,           \* workflow runs started since it last became ready
  adrift,          \* the version named by a dispatch its caller gave up on
  strays,          \* writes done although their caller was told otherwise
  mayDispatch,     \* the operator has no advice against dispatching
  pc, verb,        \* the call in progress
  seen,            \* the version it read
  prior,           \* the record ids it found in the history
  answer,          \* the orchestrator's answer to its last write
  keyed,           \* the orchestrator has applied its idempotency key
  acted,           \* what the orchestrator did for this call
  verdict          \* how the last call ended

unit == <<state, version, records, fired>>
call == <<pc, verb, seen, prior, answer, keyed, acted, verdict>>
world == <<unit, adrift, strays, mayDispatch>>
vars == <<state, version, records, fired, adrift, strays, mayDispatch,
          pc, verb, seen, prior, answer, keyed, acted, verdict>>

Init ==
  /\ state = "draft" /\ version \in InitialVersions /\ records = <<>> /\ fired = 0
  /\ adrift = NoRequest /\ strays = 0 /\ mayDispatch = TRUE
  /\ pc = "idle" /\ verb = "none" /\ seen = 0 /\ prior = {} /\ answer = NoAnswer
  /\ keyed = FALSE /\ acted = "nothing" /\ verdict = "none"

-----------------------------------------------------------------------------
(* The orchestrator's own steps and its workers'. *)

\* Every change of state bumps the version; becoming ready starts a new count.
Move(to) ==
  /\ version < MaxVersion
  /\ state' = to /\ version' = version + 1

BecomeReady ==
  /\ state = "draft" /\ Move("ready") /\ fired' = 0
  /\ UNCHANGED <<records, adrift, strays, mayDispatch, call>>

Claim ==
  /\ state = "ready" /\ Move("claimed")
  /\ UNCHANGED <<records, fired, adrift, strays, mayDispatch, call>>

\* The lease expires or a revision is required: the unit is up for dispatch again.
Requeue ==
  /\ state = "claimed" /\ Move("ready") /\ fired' = 0
  /\ mayDispatch' = TRUE
  /\ UNCHANGED <<records, adrift, strays, call>>

Finish ==
  /\ state \in {"claimed", "draft", "ready"}
  /\ \E to \in {"over", "cancelled"} : Move(to)
  /\ UNCHANGED <<records, fired, adrift, strays, mayDispatch, call>>

\* A dispatch is recorded; only the outcome `dispatched` starts a run.
Record(outcome) ==
  /\ Len(records) < MaxRecords
  /\ records' = Append(records, outcome)
  /\ fired' = IF outcome = "dispatched" THEN fired + 1 ELSE fired
  /\ UNCHANGED <<state, version>>

\* The orchestrator gets to a dispatch whose caller has given up.
ActLate ==
  /\ adrift # NoRequest /\ strays < MaxStrays
  /\ adrift' = NoRequest
  /\ \/ /\ state = "ready" /\ version = adrift
        /\ \E outcome \in Outcomes : Record(outcome)
        /\ strays' = strays + 1
     \/ ~(state = "ready" /\ version = adrift) /\ UNCHANGED <<unit, strays>>
  /\ UNCHANGED <<mayDispatch, call>>

-----------------------------------------------------------------------------
(* The calls. *)

Goto(place) == pc' = place

\* The call ends.  The operator heeds what dispatch tells him.
Exit(v) ==
  /\ pc' = "idle" /\ verdict' = v
  /\ mayDispatch' = IF verb = "dispatch" /\ v \in DoNotRetry THEN FALSE ELSE mayDispatch
  /\ answer' = NoAnswer /\ seen' = 0 /\ prior' = {} /\ keyed' = FALSE
  /\ UNCHANGED <<unit, verb, acted>>

Begin ==
  /\ pc = "idle"
  /\ \E v \in {"ready", "dispatch"} :
       (v = "dispatch" => mayDispatch) /\ verb' = v
  /\ Goto("resolving")
  /\ acted' = "nothing" /\ verdict' = "none"
  /\ UNCHANGED <<world, seen, prior, answer, keyed>>

\* Told to look before he repeats a dispatch, he finds no run of this readiness.
LookAgain ==
  /\ pc = "idle" /\ ~mayDispatch
  /\ state = "ready" /\ fired = 0
  /\ mayDispatch' = TRUE
  /\ UNCHANGED <<unit, adrift, strays, call>>

\* A read before the first write fails: nothing was done.
ReadFails ==
  /\ pc \in {"resolving", "looking", "scanning"}
  /\ Exit("unreadable") /\ UNCHANGED <<adrift, strays>>

\* The key names a unit that is not cancelled, or the call refuses.
Resolve ==
  /\ pc = "resolving"
  /\ \/ state # "cancelled" /\ Goto("looking")
        /\ UNCHANGED <<world, verb, seen, prior, answer, keyed, acted, verdict>>
     \/ state = "cancelled" /\ Exit("refused") /\ UNCHANGED <<adrift, strays>>

LookForDispatch ==
  /\ pc = "looking" /\ verb = "dispatch"
  /\ \/ /\ state \in InFlight
        /\ seen' = version /\ Goto("scanning")
        /\ UNCHANGED <<world, verb, prior, answer, keyed, acted, verdict>>
     \/ state \notin InFlight /\ Exit("refused") /\ UNCHANGED <<adrift, strays>>

\* The history is read once, before the dispatch is posted.
Scan ==
  /\ pc = "scanning"
  /\ prior' = 1..Len(records)
  /\ Goto("dispatching")
  /\ UNCHANGED <<world, verb, seen, answer, keyed, acted, verdict>>

-----------------------------------------------------------------------------
(* dispatch: the write, its answer, and what is made of a missing answer. *)

\* The orchestrator gets to the request while its caller waits.
ActOnDispatch ==
  /\ pc = "dispatching" /\ answer = NoAnswer
  /\ \/ /\ state = "ready" /\ version = seen
        /\ \E outcome \in Outcomes : Record(outcome) /\ acted' = outcome
        /\ answer' = [kind |-> "record", value |-> Len(records) + 1]
     \/ /\ ~(state = "ready" /\ version = seen)
        /\ answer' = Refusal
        /\ UNCHANGED <<unit, acted>>
  /\ UNCHANGED <<adrift, strays, mayDispatch, pc, verb, seen, prior, keyed, verdict>>

\* It may answer with a record it already had and do nothing, as it did for a
\* reused ordinal.
Replay ==
  /\ pc = "dispatching" /\ answer = NoAnswer
  /\ \E i \in 1..Len(records) : answer' = [kind |-> "record", value |-> i]
  /\ UNCHANGED <<world, pc, verb, seen, prior, keyed, acted, verdict>>

\* Variant of Report: the status of the returned record is taken as proof.
ReportByStatus ==
  /\ pc = "dispatching" /\ answer.kind \in {"record", "error"}
  /\ \/ answer.kind = "error" /\ Exit("refused")
     \/ answer.kind = "record" /\ records[answer.value] # "dispatched" /\ Exit("not_dispatched")
     \/ answer.kind = "record" /\ records[answer.value] = "dispatched" /\ Exit("success")
  /\ UNCHANGED <<adrift, strays>>

\* An answer counts as a dispatch when its record is new and its status says so.
Report ==
  /\ pc = "dispatching" /\ answer.kind \in {"record", "error"}
  /\ \/ answer.kind = "error" /\ Exit("refused")
     \/ answer.kind = "record" /\ answer.value \in prior /\ Exit("no_op")
     \/ /\ answer.kind = "record" /\ answer.value \notin prior
        /\ records[answer.value] # "dispatched"
        /\ Exit("not_dispatched")
     \/ /\ answer.kind = "record" /\ answer.value \notin prior
        /\ records[answer.value] = "dispatched"
        /\ Exit("success")
  /\ UNCHANGED <<adrift, strays>>

\* Somebody between the two answers in the orchestrator's stead, with an error
\* that is taken for its verdict, after it acted.
GatewayAnswers ==
  /\ pc = "dispatching" /\ acted # "nothing"
  /\ strays < MaxStrays /\ strays' = strays + 1
  /\ Exit("refused") /\ UNCHANGED adrift

\* Variant of TimeOut: a timeout is reported like any other error.
TimeOutReported ==
  /\ pc = "dispatching"
  /\ Exit("refused") /\ UNCHANGED <<adrift, strays>>

\* No answer in time.  The request is lost, or on its way still, or the answer is.
TimeOut ==
  /\ pc = "dispatching"
  /\ Goto("reconciling")
  /\ answer' = NoAnswer
  /\ \/ UNCHANGED adrift
     \/ answer = NoAnswer /\ adrift = NoRequest /\ adrift' = seen
  /\ UNCHANGED <<unit, strays, mayDispatch, verb, seen, prior, keyed, acted, verdict>>

\* Variants of Reconcile: no news is good news, or everything is news, or the
\* history is read until it can be.
ReconcileOptimistic ==
  /\ pc = "reconciling"
  /\ \/ 1..Len(records) \ prior # {} /\ Exit("landed")
     \/ Exit("not_landed")
  /\ UNCHANGED <<adrift, strays>>

ReconcileWithoutPrior ==
  /\ pc = "reconciling"
  /\ \/ records # <<>> /\ Exit("landed")
     \/ records = <<>> /\ Exit("not_landed")
     \/ Exit("unknown")
  /\ UNCHANGED <<adrift, strays>>

ReconcileForever ==
  /\ pc = "reconciling"
  /\ \/ 1..Len(records) \ prior # {} /\ Exit("landed") /\ UNCHANGED <<adrift, strays>>
     \/ 1..Len(records) \subseteq prior /\ UNCHANGED vars

\* The history is read again and compared with the read before the write.
Reconcile ==
  /\ pc = "reconciling"
  /\ \/ 1..Len(records) \ prior # {} /\ Exit("landed")
     \/ 1..Len(records) \subseteq prior /\ Exit("not_landed")
     \/ Exit("unknown")
  /\ UNCHANGED <<adrift, strays>>

-----------------------------------------------------------------------------
(* ready: the version is found out by a write that names version 0. *)

\* A unit up for dispatch is ready already.  Any other is probed.
LookForReady ==
  /\ pc = "looking" /\ verb = "ready"
  /\ \/ state = "ready" /\ Exit("success") /\ UNCHANGED <<adrift, strays>>
     \/ /\ state # "ready" /\ Goto("probing")
        /\ UNCHANGED <<world, verb, seen, prior, answer, keyed, acted, verdict>>

\* The orchestrator gets to the command `ready` that names version v.
ActOnReady(v) ==
  \/ keyed /\ answer' = Done /\ UNCHANGED <<unit, keyed, acted>>
  \/ /\ ~keyed /\ version = v /\ state = "draft"
     /\ Move("ready") /\ fired' = 0 /\ UNCHANGED records
     /\ keyed' = TRUE /\ acted' = "readied" /\ answer' = Done
  \/ /\ ~keyed /\ version # v
     /\ answer' = [kind |-> "conflict", value |-> version]
     /\ UNCHANGED <<unit, keyed, acted>>
  \/ /\ ~keyed /\ version = v
     /\ answer' = Refusal  \* not ready to be ready, or beyond it
     /\ UNCHANGED <<unit, keyed, acted>>

ActOnProbe ==
  /\ pc = "probing" /\ answer = NoAnswer
  /\ ActOnReady(0)
  /\ UNCHANGED <<adrift, strays, mayDispatch, pc, verb, seen, prior, verdict>>

\* Variant of ProbeAnswered: any error is read as if it named a version.
ProbeMisread ==
  /\ pc = "probing" /\ answer.kind \in {"done", "conflict", "error"}
  /\ seen' = IF answer.kind = "error" THEN NoRequest ELSE answer.value
  /\ Goto("commanding") /\ answer' = NoAnswer
  /\ UNCHANGED <<world, verb, prior, keyed, acted, verdict>>

\* Variant of ProbeAnswered: the command that follows has a key of its own.
ProbeAnsweredFreshKey ==
  /\ pc = "probing" /\ answer.kind \in {"done", "conflict", "error"}
  /\ \/ /\ answer.kind \in {"done", "conflict"}
        /\ seen' = answer.value /\ keyed' = FALSE
        /\ Goto("commanding") /\ answer' = NoAnswer
        /\ UNCHANGED <<world, verb, prior, acted, verdict>>
     \/ answer.kind = "error" /\ Exit("refused") /\ UNCHANGED <<adrift, strays>>

\* A conflict names the version; success means that it was 0 indeed.
ProbeAnswered ==
  /\ pc = "probing" /\ answer.kind \in {"done", "conflict", "error"}
  /\ \/ /\ answer.kind \in {"done", "conflict"}
        /\ seen' = answer.value
        /\ Goto("commanding") /\ answer' = NoAnswer
        /\ UNCHANGED <<world, verb, prior, keyed, acted, verdict>>
     \/ answer.kind = "error" /\ Exit("refused") /\ UNCHANGED <<adrift, strays>>

ActOnCommand ==
  /\ pc = "commanding" /\ answer = NoAnswer
  /\ ActOnReady(seen)
  /\ UNCHANGED <<adrift, strays, mayDispatch, pc, verb, seen, prior, verdict>>

\* Variant of CommandAnswered: the answer is not looked at.
CommandUnread ==
  /\ pc = "commanding" /\ answer.kind \in {"done", "conflict", "error"}
  /\ Exit("success")
  /\ UNCHANGED <<adrift, strays>>

CommandAnswered ==
  /\ pc = "commanding" /\ answer.kind \in {"done", "conflict", "error"}
  /\ \/ answer.kind = "done" /\ Exit("success")
     \/ answer.kind # "done" /\ Exit("refused")
  /\ UNCHANGED <<adrift, strays>>

\* Not reconciled: what was asked for may be done, and may be asked for again.
ReadyTimesOut ==
  /\ pc \in {"probing", "commanding"}
  /\ Exit("inconclusive") /\ UNCHANGED <<adrift, strays>>

-----------------------------------------------------------------------------
Orchestrator ==
  \/ BecomeReady \/ Claim \/ Requeue \/ Finish
  \/ ActLate \/ ActOnDispatch \/ Replay \/ ActOnProbe \/ ActOnCommand

\* The steps of a call that has begun.
Client ==
  \/ ReadFails \/ Resolve \/ LookForDispatch \/ LookForReady \/ Scan
  \/ Report \/ GatewayAnswers \/ TimeOut \/ Reconcile
  \/ ProbeAnswered \/ CommandAnswered \/ ReadyTimesOut

Next == Orchestrator \/ Client \/ Begin \/ LookAgain

\* Every request ends within the client's timeout, so a call keeps moving.
Spec == Init /\ [][Next]_vars /\ WF_vars(Client)

=============================================================================
