\* Operators may pass any state to `transition --to`.
SPECIFICATION Spec
CONSTANTS
  Procs = {p1}
  Contents = {lane}
  WellFormed = {lane}
  Reachless = {}
  OpenQuestioned = {}
  FollowUpRequired = {}
  PolicyShapes = {lane}
  Humans = {devon}
  PolicyApprovers = {policy1}
  GrantedApprover = policy1
  Agents = {}
  TransitionTargets <- AnyTargets
  ForgedApprovers = {}
  EditsDuringOps = FALSE
  MaxRevision = 1
  MaxEvents = 1
  MaxCrashes = 0
  NoSnapshot = NoSnapshot
INVARIANT PostApprovalLedgered
