SPECIFICATION Spec
CONSTANTS
  AddrBits = 4
  W = 4
  SUBTABLE_BASE = 11
  Installs <- MixedHandlers
  BankRange <- Bank
  Unmapped <- Nothing
  Inputs <- FewInputs
  AllInputs <- EveryInput
  MaxChanges = 2
  MaxAccesses = 0
INVARIANT InvsubmaskIsInverted
CHECK_DEADLOCK FALSE
