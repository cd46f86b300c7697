\* One crash, then the same approve again.
SPECIFICATION Spec
CONSTANTS
  Procs = {p1}
  Contents = {lane}
  WellFormed = {lane}
  Reachless = {}
  OpenQuestioned = {}
  FollowUpRequired = {}
  PolicyShapes = {lane}
  Humans = {devon}
  PolicyApprovers = {policy1}
  GrantedApprover = policy1
  Agents = {}
  TransitionTargets <- ShortTargets
  ForgedApprovers = {}
  EditsDuringOps = FALSE
  MaxRevision = 1
  MaxEvents = 1
  MaxCrashes = 1
  NoSnapshot = NoSnapshot
PROPERTY RetryCompletes
