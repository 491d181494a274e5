SPECIFICATION Spec
CONSTANTS
  AddrBits = 4
  W = 4
  SUBTABLE_BASE = 7
  Installs <- ByteHandlers
  BankRange <- Bank
  Unmapped <- Nothing
  Inputs <- FewInputs
  AllInputs <- EveryInput
  MaxChanges = 3
  MaxAccesses = 1
INVARIANTS UnitsAreWhereInstalled AccessesSplitExactly FinishesOnItsHandler WatchpointsAsAsked
CHECK_DEADLOCK FALSE
