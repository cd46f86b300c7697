------------------------- MODULE FrontDoorProperties -------------------------
(***************************************************************************)
(* What submit, status and evidence (module FrontDoor) leave with the      *)
(* orchestrator and say on the screen.                                     *)
(***************************************************************************)
EXTENDS FrontDoor

\* Every variable holds a value of its kind: above all a request that is posted has a
\* key, and a payload the orchestrator's own command emitted.
TypeOK ==
  /\ inHand \in BOOLEAN
  /\ content \in Contents /\ approved \in BOOLEAN /\ approvals \subseteq Contents
  /\ commit \in Commits
  /\ rows \in [Keys -> Rows \cup {NoRow}] /\ pasted \subseteq Keys
  /\ \/ adrift = NoRequest
     \/ adrift \in [key : Keys, payload : Payloads]
  /\ units \in [Units -> UnitRows]
  /\ pc \in Places /\ key \in Keys \cup UnitKeys \cup {NoKey} /\ named \in {0} \cup Contents
  /\ print \in BOOLEAN /\ payload \in Payloads \cup {NoPayload} /\ answer \in Answers
  /\ pc = "posting" => key \in Keys /\ payload \in Payloads
  /\ wait \in BOOLEAN /\ polls \in 0..MaxPolls
  /\ seen \in [Units -> UnitRows]
  /\ announced \in BOOLEAN /\ pack \in Units \cup {NoUnit} /\ verdict \in Verdicts
  /\ revised \in BOOLEAN /\ settled \in BOOLEAN
  /\ moved \subseteq Units /\ movedAfter \subseteq Units

\* Submitting an approved revision again replays the row it has: no two rows of derived
\* keys hold one content, except where the package changed between submit's own reading
\* and the emission, which reads it again (journey.py, staging_key and _emit_payload).
OneRowPerRevision ==
  \A j, k \in Contents :
    (/\ rows[j] # NoRow /\ rows[k] # NoRow
     /\ ~rows[j].payload.raced /\ ~rows[k].payload.raced
     /\ rows[j].payload.content = rows[k].payload.content) => j = k

\* Only what was approved when submit read it is staged or handed off, unless the
\* package changed under it; the lineage has approved the content in any case.
StagedWasApproved ==
  [][payload' # payload /\ payload' # NoPayload =>
       payload'.content \in approvals /\ (approved \/ revised)]_vars

\* What submit says of a row is true when it says so: staged, and waiting unless it was
\* decided on since; registered; withdrawn for good; or held by another intake.  Under
\* a derived key it is said of the content submit read.
VerdictIsTrue ==
  [][pc = "posting" /\ verdict' \in Telling =>
       /\ Held(key)
       /\ verdict' # "conflict" =>
            /\ rows[key] # NoRow /\ SameIntake(rows[key].payload, payload)
            /\ rows[key].state = verdict' \/ (verdict' = "staged" /\ settled)
       /\ (verdict' = "conflict" /\ rows[key] # NoRow) => ~SameIntake(rows[key].payload, payload)
       /\ (key \in Contents /\ rows[key] # NoRow /\ ~rows[key].payload.raced) =>
            rows[key].payload.content = named]_vars

\* The step is the one the unit is at, and the command printed for it one that the command
\* line takes, except verify's (OffersRealCommands).
Serves(advice, row) ==
  /\ advice.does = "ready" => row.state = "draft" /\ row.authority
  /\ advice.does = "authorize" => row.state = "draft" /\ ~row.authority
  /\ advice.does = "dispatch" => row.state = "ready"
  /\ advice.does = "verify" => row.state = "submitted"
  /\ advice.does = "evidence" => row.state = "completed"
  /\ advice.does = "nothing" => row.state \in {"failed", "cancelled"}
  /\ advice.does # "verify" => Parses(advice)

\* What the reading verbs say is so as long as the unit has not moved since the last
\* read: the step status names for a unit is the one it is at, and the command it prints
\* is one the command line takes, verify's excepted; a change it announces did happen; a
\* wait that ends with no change has none to report, however the units moved between its
\* reads; and the pack is that of a live unit of the key.
StatusIsTrue ==
  /\ (pc \in {"showing", "waiting"} \/ verdict = "shown") =>
       \A u \in Units \ moved : seen[u] # Absent => Serves(NextAction(seen[u]), units[u])
  /\ pc = "looking" /\ announced => moved # {}
  /\ verdict = "unchanged" => \A u \in Units \ movedAfter : units[u].state = seen[u].state
  /\ pack # NoUnit /\ pack \notin movedAfter => units[pack].state \notin {"absent", "cancelled"}

\* Every call ends, a wait by its deadline.
Terminates == pc # "idle" ~> pc = "idle"

-----------------------------------------------------------------------------
(* A statement of the documents that the code does not keep. *)

\* _next_action: "One actionable line per unit state -- a real command where one exists".
\* Here: the command line takes every command that status prints for a unit.
OffersRealCommands ==
  pc = "showing" => \A u \in UnitsFor(seen) : Parses(NextAction(seen[u]))

=============================================================================
