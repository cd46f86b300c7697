\* One command at a time, an author who also writes approvals into the ledger
\* and saves while commands run, and crashes.
SPECIFICATION Spec
CONSTANTS
  Procs = {p1}
  Contents = {lane, asking}
  WellFormed = {lane, asking}
  Reachless = {}
  OpenQuestioned = {asking}
  FollowUpRequired = {}
  PolicyShapes = {lane}
  Humans = {}
  PolicyApprovers = {policy1, policy2}
  GrantedApprover = policy1
  Agents = {agent}
  TransitionTargets <- ShortTargets
  ForgedApprovers = {policy2, agent}
  EditsDuringOps = TRUE
  MaxRevision = 1
  MaxEvents = 1
  MaxCrashes = 1
  NoSnapshot = NoSnapshot
INVARIANT GateSound
PROPERTY
  ImplementsGate
