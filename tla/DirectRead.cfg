SPECIFICATION ReadSpec
CONSTANTS
  AddrBits = 2
  LEVEL2_BITS = 1
  Spaces = {s1, s2}
  NarrowSpaces = {s2}
  Banks = {b1}
  Other = Other
  Pointers = {p, q}
  NULL = NULL
  Slots = {0}
  Unspecified = Unspecified
  CallRequests <- RequestsBySpace
  PointerSpaces = {s2}
INVARIANTS NoStaleBase CachedRangesTruthful
PROPERTY WindowGoesWrongOnlyByMapping
SYMMETRY Interchangeable
CHECK_DEADLOCK FALSE
