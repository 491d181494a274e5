SPECIFICATION Spec
CONSTANTS
  AddrBits = 4
  W = 4
  Device = cpu
  Owner <- Owners
  Find <- Lookups
  Configs <- SomeConfigs
  LateMaps <- Late
  MaxLate = 1
  None = None
  board = board
  cpu = cpu
  chip = chip
  subchip = subchip
INVARIANTS RatioReachesMirrors
CHECK_DEADLOCK FALSE
