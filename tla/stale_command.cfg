\* One unit that gets as far as it may, and one status.
SPECIFICATION Spec
CONSTANTS
  MaxChanges = 1
  OverrideKeys = {k}
  Units <- OneUnit
  impl = impl
  UnitKeys = {impl}
  KeyOf <- OneKey
  States <- FewStates
  MaxPolls = 1
  NoKey = NoKey
  NoRow = NoRow
  NoPayload = NoPayload
  NoUnit = NoUnit
INVARIANT OffersRealCommands
