SPECIFICATION Spec
CONSTANTS
  AddrBits = 3
  Spaces <- TwoSpaces
  First = {1}
  Regions <- OneRegion
  OwnRegion <- RomOfOne
  Maps <- SmallMaps
  Installs <- SomeRanges
  MEMORY_BLOCK_CHUNK = 2
  STATIC_BANKMAX = 3
  None = None
  Given = Given
  MaxInstalls = 2
  rom = rom
  s = s
  b = b
INVARIANTS AccessesStayInside RamIsBacked SharesAgree WritesAreRead
PROPERTY InstallsStayInside
CHECK_DEADLOCK FALSE
