------------------------------ MODULE FrontDoor ------------------------------
(***************************************************************************)
(* `factory submit`, `status` and `evidence`: the operator's way to a      *)
(* person's decision and the view of what became of it.                    *)
(*                                                                         *)
(* submit reads the package, derives the key it is staged under, lets      *)
(* another program read the files again and emit the payload, and posts    *)
(* it.  The orchestrator holds the row until a person confirms or          *)
(* withdraws it.  status reads the units of a revision, says what each     *)
(* needs next and may wait for a change by comparing what it reads with    *)
(* what it read first.  evidence fetches a pack, of the revision or of the *)
(* unit that holds a key.                                                  *)
(*                                                                         *)
(* The two halves meet in a person, who carries the revision's id from the *)
(* confirmed page to the command line: an operator starts with a package   *)
(* or with an id in hand.  Contents of a package stand for their canonical *)
(* hash, which covers the revision number.                                 *)
(***************************************************************************)
EXTENDS Naturals

CONSTANTS
  MaxChanges,    \* bound on edits of the package and commits of its repository
  OverrideKeys,  \* what may be passed as --idempotency-key
  Units,         \* ids of the revision's units
  UnitKeys,      \* their keys
  KeyOf,         \* the key of each unit
  States,        \* the states units may be in
  MaxPolls,      \* how often a wait reads before its deadline
  NoKey, NoRow, NoPayload, NoUnit

\* orchestrator/kernel/states.py, as the table of next actions quotes it.
WorkUnitStates ==
  {"draft", "ready", "claimed", "executing", "blocked", "awaiting_approval", "submitted",
   "verifying", "awaiting_review", "revision_required", "completed", "failed", "cancelled"}

ASSUME FrontDoorAssumption ==
  /\ MaxChanges \in Nat /\ MaxPolls \in Nat \ {0}
  /\ KeyOf \in [Units -> UnitKeys]
  /\ {"draft", "ready", "cancelled"} \subseteq States /\ States \subseteq WorkUnitStates
  /\ OverrideKeys \cap Nat = {}
  /\ NoKey \notin OverrideKeys \cup UnitKeys \cup Nat /\ NoUnit \notin Units

Contents == 1..MaxChanges + 1
Commits == 1..MaxChanges + 1
Keys == Contents \cup OverrideKeys

\* `raced`: the package changed between submit's reading and the emission.
Payloads == [content : Contents, commit : Commits, raced : BOOLEAN]
Rows == [payload : Payloads, state : {"staged", "registered", "withdrawn"}]
ASSUME NoRowAssumption == NoRow \notin Rows

UnitRows == [state : States \cup {"absent"}, authority : BOOLEAN]
Absent == [state |-> "absent", authority |-> FALSE]

Places == {"idle", "reading", "emitting", "handing", "posting", "looking", "showing", "waiting",
           "resolving", "fetching"}
Answers == {"none", "staged", "registered", "withdrawn", "conflict", "refused", "incomplete"}
Verdicts == {"none", "failed", "handed_off", "staged", "registered", "withdrawn", "conflict",
             "usage", "shown", "unchanged", "interrupted", "printed"}

VARIABLES
  inHand,                        \* the operator starts with a revision's id
  content, approved, approvals,  \* the package: content, both status fields, approved contents
  commit,                        \* the HEAD of its repository
  rows, pasted,                  \* staged intakes by key; keys of intakes pasted into the form
  adrift,                        \* a request its caller has given up on
  units,                         \* the revision's units
  pc, key, named,                \* the call; its key, and the content it read
  print, payload, answer,        \* --print; what was emitted; the answer to its post
  wait, polls,                   \* --wait, and how often it has read
  seen,                          \* the units as first read
  announced,                     \* "a unit's state changed" has been said
  pack,                          \* the unit whose evidence is fetched
  verdict,                       \* how the last call ended
  revised,                       \* the package changed since submit read it
  settled,                       \* its row was decided on since it was answered for
  moved, movedAfter              \* units that changed since the first and the last read

package == <<content, approved, approvals, commit>>
intakes == <<rows, pasted, adrift>>
submission == <<key, named, print, payload, answer, revised, settled>>
view == <<wait, polls, seen, announced, pack, moved, movedAfter>>
vars == <<inHand, content, approved, approvals, commit, rows, pasted, adrift, units,
          pc, key, named, print, payload, answer, wait, polls, seen, announced, pack,
          verdict, revised, settled, moved, movedAfter>>

NoRequest == [key |-> NoKey, payload |-> NoPayload]

Init ==
  /\ inHand \in BOOLEAN
  /\ content = 1 /\ approved = FALSE /\ approvals = {} /\ commit = 1
  /\ rows = [k \in Keys |-> NoRow] /\ pasted = {} /\ adrift = NoRequest
  /\ units = [u \in Units |-> Absent]
  /\ pc = "idle" /\ key = NoKey /\ named = 0 /\ print = FALSE /\ payload = NoPayload
  /\ answer = "none" /\ wait = FALSE /\ polls = 0
  /\ seen = units /\ announced = FALSE /\ pack = NoUnit
  /\ verdict = "none" /\ revised = FALSE /\ settled = FALSE /\ moved = {} /\ movedAfter = {}

-----------------------------------------------------------------------------
(* The package, by the other command line. *)

\* It is revised, or edited where it is; approved again only by an approval.
Edit ==
  /\ ~inHand /\ content + commit < MaxChanges + 2
  /\ content' = content + 1 /\ approved' \in {FALSE, approved} /\ revised' = (revised \/ pc = "emitting")
  /\ UNCHANGED <<inHand, approvals, commit, intakes, units, pc, key, named, print, payload,
                 answer, settled, view, verdict>>

Approve ==
  /\ ~inHand /\ ~approved
  /\ approved' = TRUE /\ approvals' = approvals \cup {content} /\ revised' = (revised \/ pc = "emitting")
  /\ UNCHANGED <<inHand, content, commit, intakes, units, pc, key, named, print, payload,
                 answer, settled, view, verdict>>

\* It moves on, to executable or rejected: its approval stays in the lineage.
MoveOn ==
  /\ ~inHand /\ approved
  /\ approved' = FALSE /\ revised' = (revised \/ pc = "emitting")
  /\ UNCHANGED <<inHand, content, approvals, commit, intakes, units, pc, key, named, print,
                 payload, answer, settled, view, verdict>>

CommitFiles ==
  /\ ~inHand /\ content + commit < MaxChanges + 2
  /\ commit' = commit + 1
  /\ UNCHANGED <<inHand, content, approved, approvals, intakes, units, pc, submission, view,
                 verdict>>

-----------------------------------------------------------------------------
(* The orchestrator and the people in front of it. *)

SameIntake(p, q) == p.content = q.content /\ p.commit = q.commit

Held(k) == rows[k] # NoRow \/ k \in pasted

\* What it makes of a staging request: a new row, the row it has, or a conflict.
StageAnswer(k, p) ==
  IF ~Held(k) THEN "staged"
  ELSE IF rows[k] # NoRow /\ SameIntake(rows[k].payload, p) THEN rows[k].state
  ELSE "conflict"

Stage(k, p) ==
  rows' = IF Held(k) THEN rows
          ELSE [rows EXCEPT ![k] = [payload |-> p, state |-> "staged"]]

\* It may refuse for reasons of its own, and its answer may lack a field.
ActOnStage ==
  /\ pc = "posting" /\ answer = "none"
  /\ \/ Stage(key, payload) /\ answer' = StageAnswer(key, payload)
     \/ /\ StageAnswer(key, payload) # "conflict"
        /\ Stage(key, payload) /\ answer' = "incomplete"
     \/ answer' = "refused" /\ UNCHANGED rows
  /\ settled' = FALSE
  /\ UNCHANGED <<inHand, package, pasted, adrift, units, pc, key, named, print,
                 payload, revised, view, verdict>>

\* It gets to a request whose caller has given up, or never does.
ActLate ==
  /\ adrift # NoRequest /\ adrift' = NoRequest
  /\ Stage(adrift.key, adrift.payload) \/ UNCHANGED rows
  /\ UNCHANGED <<inHand, package, pasted, units, pc, submission, view, verdict>>

\* A person confirms or withdraws a staged row.
Decide ==
  /\ \E k \in Keys, decision \in {"registered", "withdrawn"} :
       /\ rows[k] # NoRow /\ rows[k].state = "staged"
       /\ rows' = [rows EXCEPT ![k].state = decision]
       /\ settled' = (settled \/ k = key)
  /\ UNCHANGED <<inHand, package, pasted, adrift, units, pc, key, named, print,
                 payload, answer, revised, view, verdict>>

\* A person pastes what --print copied, under a key typed into the form.
Paste ==
  /\ approvals # {}
  /\ \E k \in OverrideKeys : ~Held(k) /\ pasted' = pasted \cup {k}
  /\ UNCHANGED <<inHand, package, rows, adrift, units, pc, submission, view, verdict>>

Moves(u) == moved' = moved \cup {u} /\ movedAfter' = movedAfter \cup {u}

\* An approved decomposition brings a unit; the key of a cancelled one is free again.
Propose ==
  /\ inHand
  /\ \E u \in Units :
       /\ units[u] = Absent
       /\ \A other \in Units : KeyOf[other] = KeyOf[u] => units[other].state \in {"absent", "cancelled"}
       /\ units' = [units EXCEPT ![u].state = "draft"] /\ Moves(u)
  /\ UNCHANGED <<inHand, package, intakes, pc, submission, wait, polls, seen, announced,
                 pack, verdict>>

\* A person approves a unit's authority envelope.
Authorize ==
  /\ \E u \in Units :
       /\ units[u].state = "draft" /\ ~units[u].authority
       /\ units' = [units EXCEPT ![u].authority = TRUE] /\ Moves(u)
  /\ UNCHANGED <<inHand, package, intakes, pc, submission, wait, polls, seen, announced,
                 pack, verdict>>

\* While nobody looks a unit gets anywhere, except back into draft, and out of draft
\* only with its authority approved or by being cancelled.
Progress ==
  /\ \E u \in Units, to \in States \ {"draft"} :
       /\ units[u].state \notin {"absent", "completed", "failed", "cancelled", to}
       /\ units[u].state = "draft" => units[u].authority \/ to = "cancelled"
       /\ units' = [units EXCEPT ![u].state = to] /\ Moves(u)
  /\ UNCHANGED <<inHand, package, intakes, pc, submission, wait, polls, seen, announced,
                 pack, verdict>>

-----------------------------------------------------------------------------
(* Every call. *)

Goto(place) == pc' = place

\* What is said of a row; anything else that goes wrong is a plain failure.
Telling == {"staged", "registered", "withdrawn", "conflict"}

\* The call ends; nothing is kept but what it said.
Exit(v) ==
  /\ pc' = "idle" /\ verdict' = v
  /\ print' = FALSE /\ answer' = "none" /\ revised' = FALSE
  /\ key' = NoKey /\ named' = 0 /\ payload' = NoPayload /\ settled' = FALSE
  /\ UNCHANGED <<inHand, package, rows, pasted, units, view>>

-----------------------------------------------------------------------------
(* submit. *)

\* The key is overridden to stage again what was withdrawn or is held by another payload.
BeginSubmit ==
  /\ pc = "idle" /\ ~inHand
  /\ \/ key' = NoKey
     \/ verdict \in {"withdrawn", "conflict"} /\ key' \in OverrideKeys
  /\ print' \in BOOLEAN
  /\ Goto("reading") /\ verdict' = "none"
  /\ UNCHANGED <<inHand, package, intakes, units, named, payload, answer, revised, settled, view>>

\* Variant of StagingKey: of the commit that is staged.
StagingKeyOfCommit(c) == commit

\* The key of a content: package id, revision and sixteen digits of the hash.
StagingKey(c) == c

\* Variant of ReadPackage: whatever its status.
ReadAnyPackage ==
  /\ pc = "reading"
  /\ named' = content /\ key' = IF key # NoKey THEN key ELSE StagingKey(content)
  /\ revised' = FALSE /\ Goto("emitting")
  /\ UNCHANGED <<inHand, package, intakes, units, print, payload, answer, settled, view, verdict>>

\* Both status fields must read approved.  Files that do not parse end the call.
ReadPackage ==
  /\ pc = "reading"
  /\ \/ /\ approved
        /\ named' = content /\ key' = IF key # NoKey THEN key ELSE StagingKey(content)
        /\ revised' = FALSE /\ Goto("emitting")
        /\ UNCHANGED <<inHand, package, intakes, units, print, payload, answer, settled, view,
                       verdict>>
     \/ ~approved /\ Exit("failed") /\ UNCHANGED adrift
     \/ Exit("failed") /\ UNCHANGED adrift

\* Variant of Emit: what comes back is posted, whatever it is.
EmitUnread ==
  /\ pc = "emitting" /\ revised' = FALSE /\ Goto(IF print THEN "handing" ELSE "posting")
  /\ \/ content \in approvals /\ payload' = [content |-> content, commit |-> commit, raced |-> revised]
     \/ payload' = NoPayload
  /\ UNCHANGED <<inHand, package, intakes, units, key, named, print, answer, settled, view,
                 verdict>>

\* `orchestrator emit-intake-payload` reads the files again.  It refuses a content that
\* no approval in the lineage names, and may fail or take too long.
Emit ==
  /\ pc = "emitting"
  /\ \/ /\ content \in approvals
        /\ payload' = [content |-> content, commit |-> commit, raced |-> revised]
        /\ Goto(IF print THEN "handing" ELSE "posting") /\ revised' = FALSE
        /\ UNCHANGED <<inHand, package, intakes, units, key, named, print, answer, settled, view,
                       verdict>>
     \/ Exit("failed") /\ UNCHANGED adrift

\* --print: the payload is copied, or printed where copying fails; nothing is posted.
HandOff ==
  /\ pc = "handing"
  /\ Exit("handed_off") /\ UNCHANGED adrift

\* Variant of StageAnswered: a withdrawn row counts as staged.
StageAnsweredOpen ==
  /\ pc = "posting" /\ answer # "none"
  /\ Exit(IF answer = "withdrawn" THEN "staged" ELSE IF answer \in Telling THEN answer ELSE "failed")
  /\ UNCHANGED adrift

\* The row's state decides: staged and registered exit 0, a withdrawn row, a conflict,
\* any other refusal and an incomplete answer do not.
StageAnswered ==
  /\ pc = "posting" /\ answer # "none"
  /\ Exit(IF answer \in Telling THEN answer ELSE "failed") /\ UNCHANGED adrift

\* No answer in time: an error like any other.  The row may be there, or yet come.
StageTimesOut ==
  /\ pc = "posting"
  /\ Exit("failed")
  /\ \/ UNCHANGED adrift
     \/ /\ answer = "none" /\ adrift = NoRequest
        /\ adrift' = [key |-> key, payload |-> payload]

-----------------------------------------------------------------------------
(* What the reading verbs make of the units. *)

\* The units a read of traceability shows.
UnitsFor(read) == {u \in Units : read[u] # Absent}

\* What the answer of a verb is about is what it read last.
Look == movedAfter' = {}

\* What is said of a unit: what to do next and, where that is a verb of the command line,
\* the flags of the command printed for it.
Advice(does, flags) == [does |-> does, flags |-> flags]
OfUnit == {"--revision", "--unit-key"}

\* What to do next about a unit in draft; an approval recorded on something else than
\* the authority envelope does not count.
DraftNextAction(row) ==
  IF row.authority THEN Advice("ready", OfUnit) ELSE Advice("authorize", {})

StateNextActions ==
  [s \in WorkUnitStates \ {"draft"} |->
     CASE s = "ready" -> Advice("dispatch", OfUnit)
       [] s = "submitted" ->
            Advice("verify", OfUnit \cup {"--ac", "--check-name", "--conclusion", "--run-id",
                                          "--run-url", "--assert"})
       [] s \in {"claimed", "executing", "verifying"} -> Advice("wait", {})
       [] s \in {"blocked", "awaiting_approval", "awaiting_review"} -> Advice("person", {})
       [] s = "revision_required" -> Advice("requeue", {})
       [] s = "completed" -> Advice("evidence", OfUnit)
       [] s \in {"failed", "cancelled"} -> Advice("nothing", {})]

NextAction(row) ==
  IF row.state = "draft" THEN DraftNextAction(row) ELSE StateNextActions[row.state]

\* The flags each verb cannot do without, and the others it takes.
Required ==
  [ready |-> {"--unit-key"}, dispatch |-> {"--unit-key"}, evidence |-> {},
   verify |-> {"--unit-key", "--ac", "--check-name", "--expected-conclusion"}]
Optional ==
  [ready |-> {"--revision"}, dispatch |-> {"--revision"},
   evidence |-> OfUnit \cup {"--markdown"}, verify |-> {"--revision"}]

\* The command line does not refuse the command that is printed, where one is.
Parses(advice) ==
  advice.does \in DOMAIN Required =>
    /\ Required[advice.does] \subseteq advice.flags
    /\ advice.flags \subseteq Required[advice.does] \cup Optional[advice.does]

\* Variant of UnitStates: by key, where one unit hides another.
UnitStatesByKey(read) ==
  [k \in {KeyOf[u] : u \in UnitsFor(read)} |->
     read[CHOOSE u \in UnitsFor(read) : KeyOf[u] = k].state]

\* Unit id to state: what a wait compares.
UnitStates(read) == [u \in UnitsFor(read) |-> read[u].state]

-----------------------------------------------------------------------------
(* status. *)

\* Without an id, here or in the environment, the call ends at once.
BeginStatus ==
  /\ pc = "idle" /\ inHand
  /\ wait' \in BOOLEAN /\ polls' = 0 /\ announced' = FALSE /\ pack' = NoUnit
  /\ \/ Goto("looking") /\ verdict' = "none"
     \/ pc' = "idle" /\ verdict' = "usage"
  /\ UNCHANGED <<inHand, package, intakes, units, submission, seen, moved, movedAfter>>

\* The intake, the proposals and the units, in this order.
LookAtUnits ==
  /\ pc = "looking"
  /\ Look /\ seen' = units /\ moved' = {} /\ Goto("showing")
  /\ UNCHANGED <<inHand, package, intakes, units, submission, wait, polls, announced, pack,
                 verdict>>

\* Each unit with its next action and, read one by one, its dispatches.
Show ==
  /\ pc = "showing"
  /\ \/ /\ wait /\ Goto("waiting")
        /\ UNCHANGED <<inHand, package, intakes, units, submission, view, verdict>>
     \/ ~wait /\ Exit("shown") /\ UNCHANGED adrift

\* Variant of Poll: the deadline is set anew before each sleep.
PollForever ==
  /\ pc = "waiting" /\ Look
  /\ \/ /\ UnitStates(units) # UnitStates(seen)
        /\ announced' = TRUE /\ wait' = FALSE /\ Goto("looking")
     \/ UnitStates(units) = UnitStates(seen) /\ UNCHANGED <<pc, announced, wait>>
  /\ UNCHANGED <<inHand, package, intakes, units, submission, polls, seen, pack, moved, verdict>>

\* A sleep, then a read.  A difference is announced and the revision shown once more,
\* without another wait; the deadline is looked at between reads.
Poll ==
  /\ pc = "waiting" /\ Look /\ polls' = polls + 1
  /\ \/ /\ UnitStates(units) # UnitStates(seen)
        /\ announced' = TRUE /\ wait' = FALSE /\ Goto("looking") /\ UNCHANGED verdict
     \/ /\ UnitStates(units) = UnitStates(seen) /\ polls' < MaxPolls
        /\ UNCHANGED <<pc, verdict, announced, wait>>
     \/ /\ UnitStates(units) = UnitStates(seen)
        /\ pc' = "idle" /\ verdict' = "unchanged" /\ UNCHANGED <<announced, wait>>
  /\ UNCHANGED <<inHand, package, intakes, units, submission, seen, pack, moved>>

Interrupt ==
  /\ pc = "waiting" /\ Exit("interrupted") /\ UNCHANGED adrift

-----------------------------------------------------------------------------
(* evidence. *)

\* The redacted form needs a unit's key; without a key the pack is the revision's.
BeginEvidence ==
  /\ pc = "idle" /\ inHand
  /\ wait' = FALSE /\ polls' = 0 /\ announced' = FALSE /\ pack' = NoUnit
  /\ \/ \E k \in UnitKeys : key' = k /\ Goto("resolving") /\ verdict' = "none"
     \/ key' = NoKey /\ Goto("fetching") /\ verdict' = "none"
     \/ key' = NoKey /\ pc' = "idle" /\ verdict' = "usage"
  /\ UNCHANGED <<inHand, package, intakes, units, named, print, payload, answer, revised,
                 settled, seen, moved, movedAfter>>

\* The units that hold a key: the ones not cancelled.
Holders(k) == {u \in Units : KeyOf[u] = k /\ units[u].state \notin {"absent", "cancelled"}}

ResolveUnit ==
  /\ pc = "resolving"
  /\ \/ /\ \E u \in Holders(key) : pack' = u
        /\ Look /\ Goto("fetching")
        /\ UNCHANGED <<inHand, package, intakes, units, submission, wait, polls, seen,
                       announced, moved, verdict>>
     \/ Holders(key) = {} /\ Exit("failed") /\ UNCHANGED adrift

Fetch ==
  /\ pc = "fetching" /\ Exit("printed") /\ UNCHANGED adrift

\* Any read may fail, the ones for a unit's dispatches too.
ReadFails ==
  /\ pc \in {"looking", "showing", "waiting", "resolving", "fetching"}
  /\ Exit("failed") /\ UNCHANGED adrift

-----------------------------------------------------------------------------
World ==
  \/ Edit \/ Approve \/ MoveOn \/ CommitFiles
  \/ ActOnStage \/ ActLate \/ Decide \/ Paste \/ Propose \/ Authorize \/ Progress

\* The steps of a call that has begun.
Client ==
  \/ ReadPackage \/ Emit \/ HandOff \/ StageAnswered \/ StageTimesOut
  \/ LookAtUnits \/ Show \/ Poll \/ Interrupt \/ ResolveUnit \/ Fetch \/ ReadFails

Next == World \/ Client \/ BeginSubmit \/ BeginStatus \/ BeginEvidence

\* Every request and every sleep ends, so a call keeps moving.
Spec == Init /\ [][Next]_vars /\ WF_vars(Client)

=============================================================================
