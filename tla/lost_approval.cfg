\* An approve beside another command.
SPECIFICATION Spec
CONSTANTS
  Procs = {p1, p2}
  Contents = {lane}
  WellFormed = {lane}
  Reachless = {}
  OpenQuestioned = {}
  FollowUpRequired = {}
  PolicyShapes = {lane}
  Humans = {devon}
  PolicyApprovers = {policy1}
  GrantedApprover = policy1
  Agents = {}
  TransitionTargets <- ShortTargets
  ForgedApprovers = {}
  EditsDuringOps = FALSE
  MaxRevision = 2
  MaxEvents = 1
  MaxCrashes = 0
  NoSnapshot = NoSnapshot
PROPERTY ApprovalNeverDeleted
