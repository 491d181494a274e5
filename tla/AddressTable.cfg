SPECIFICATION Spec
CONSTANTS
  AddrBits = 4
  LEVEL2_BITS = 2
  STATIC_BANK1 = 1
  STATIC_UNMAP = 2
  STATIC_COUNT = 3
  SUBTABLE_BASE = 5
  SUBTABLE_COUNT = 2
  CallRequests <- BlockRequests
  MaxCalls = 4
INVARIANTS CountsExact ExhaustionGenuine
PROPERTY ImplementsMap
CHECK_DEADLOCK FALSE
