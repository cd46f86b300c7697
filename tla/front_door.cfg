\* One edit or commit, one override key; two units that share a key, two polls.
SPECIFICATION Spec
CONSTANTS
  MaxChanges = 1
  OverrideKeys = {k}
  Units <- TwoUnits
  impl = impl
  UnitKeys = {impl}
  KeyOf <- SharedKey
  States <- FewStates
  MaxPolls = 2
  NoKey = NoKey
  NoRow = NoRow
  NoPayload = NoPayload
  NoUnit = NoUnit
INVARIANTS
  TypeOK
  OneRowPerRevision
  StatusIsTrue
PROPERTIES
  StagedWasApproved
  VerdictIsTrue
  Terminates
