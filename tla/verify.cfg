\* A unit that is submitted twice, two dispatches, two heads.
SPECIFICATION Spec
CONSTANTS
  Criteria <- AllCriteria
  Automated <- AutomatedCriteria
  Mappings <- UnitCriteria
  MaxVersion = 7
  MaxDispatches = 2
  MaxHead = 2
  NoBody = NoBody
  NoRequest = NoRequest
INVARIANTS
  TypeOK
  ExitReflectsResult
  EvidenceNamesItsDispatch
  NoWastedWrite
PROPERTIES
  EvaluatedOnEvidence
  Terminates
