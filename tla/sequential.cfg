\* One command at a time, crashes between any two file accesses, every state.
SPECIFICATION Spec
CONSTANTS
  Procs = {p1}
  Contents = {plain, lane, asking, reachless, malformed}
  WellFormed = {plain, lane, asking, reachless}
  Reachless = {reachless}
  OpenQuestioned = {asking}
  FollowUpRequired = {plain}
  PolicyShapes = {lane}
  Humans = {devon}
  PolicyApprovers = {policy1}
  GrantedApprover = policy1
  Agents = {agent}
  TransitionTargets <- OperatorTargets
  ForgedApprovers = {}
  EditsDuringOps = FALSE
  MaxRevision = 2
  MaxEvents = 2
  MaxCrashes = 1
  NoSnapshot = NoSnapshot
INVARIANTS
  TypeOK
  PostApprovalLedgered
  LedgerConsistent
  ApprovedWasValid
  StatusMirrored
PROPERTIES
  AdvanceOnlyApprovedIntent
  MovesAlongEdges
  FollowUpHonoured
  ApprovedImmutable
  TornStaysPut

