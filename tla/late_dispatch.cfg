\* A dispatch that is acted on after its caller gave up.
SPECIFICATION Spec
CONSTANTS
  InitialVersions <- FromOne
  MaxVersion = 3
  MaxRecords = 1
  MaxStrays = 1
  NoRequest = NoRequest
PROPERTY NothingLandsLater
