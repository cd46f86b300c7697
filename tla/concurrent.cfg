\* Two commands at a time beside an author who saves at any moment.
SPECIFICATION Spec
CONSTANTS
  Procs = {p1, p2}
  Contents = {lane, asking}
  WellFormed = {lane, asking}
  Reachless = {}
  OpenQuestioned = {asking}
  FollowUpRequired = {}
  PolicyShapes = {lane, asking}
  Humans = {}
  PolicyApprovers = {policy1}
  GrantedApprover = policy1
  Agents = {}
  TransitionTargets <- ShortTargets
  ForgedApprovers = {}
  EditsDuringOps = TRUE
  MaxRevision = 2
  MaxEvents = 1
  MaxCrashes = 0
  NoSnapshot = NoSnapshot
SYMMETRY Symmetric
INVARIANTS
  NoUnauditedApproval
  NeverPastReviewUnapproved
PROPERTY ImplementsGate
