\* Two creators of one package directory; one edit of people during an approval; two
\* decompositions, two pushes or changes of the checkout.
SPECIFICATION Spec
CONSTANTS
  ServiceOf <- MCServiceOf
  Fold <- MCFold
  Unreadable = Unreadable
  Creators = {c1, c2}
  Ids = {"web-npm-zod"}
  Standing <- MCStanding
  NoPackage = NoPackage
  NoCreator = NoCreator
  NoCommand = NoCommand
  Runs = {p1, p2}
  Requests <- MCRequests
  Histories <- MCHistories
  Edits <- MCEdits
  RoutingFiles <- MCRoutingFiles
  Denied = {pytest}
  MaxMoves = 2
  BumpText <- MCBumpText
  NoRequest = NoRequest
  FirstPolicies <- MCFirstPolicies
  PolicyDocuments <- MCPolicyDocuments
  FirstRecord <- MCFirstRecord
  MemberRecords <- MCMemberRecords
  FieldValues <- MCFieldValues
  GivenApprovers <- MCGivenApprovers
  Operators <- MCOperators
  MaxEdits = 1
  NoApprover = NoApprover
  SoundDocuments <- MCSoundDocuments
  SoundRoutes <- MCSoundRoutes
  r1 = r1
  r2 = r2
  scoped = scoped
  dashed = dashed
  pytest = pytest
  v1 = v1
  v2 = v2
INVARIANTS
  TypeOK
  InPlaceIsWhole
  SubmittedWasProven
  ConflictIsOwn
PROPERTY PolicyDecides
CHECK_DEADLOCK FALSE
