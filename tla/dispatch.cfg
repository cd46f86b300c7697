\* A unit through two readinesses, three dispatch records, one stray write.
SPECIFICATION Spec
CONSTANTS
  InitialVersions <- FromZeroOrOne
  MaxVersion = 5
  MaxRecords = 3
  MaxStrays = 1
  NoRequest = NoRequest
INVARIANTS
  TypeOK
  SuccessIsReal
  OneRunPerReadiness
  SafeToRepeat
  LandedMeansActedOn
  ReadyIsEffective
  OwnWorkNotRefused
PROPERTY Terminates
