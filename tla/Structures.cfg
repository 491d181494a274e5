SPECIFICATION Spec
CONSTANTS
  Null = Null
  Pool = Pool
  o1 = o1
  o2 = o2
  o3 = o3
  o4 = o4
  l1 = l1
  l2 = l2
  v1 = v1
  v2 = v2
  Objects <- FourObjects
  Lists <- ThreeLists
  Keys <- FourKeys
  m_max_size = 2
  Size = 3
  Values <- TwoValues
  Names <- TwoNames
  RootName = "root"
  WithInterface <- OneNamed
  Tags <- SomeTags
  Depths <- SomeDepths
  MaxDevices = 5
  MaxLookups = 1
  Bits = 4
  PopulationBits = 8
  Root = 6
  MaxSeconds = 8
  Span = 64
  Factors <- AllFactors
  Operands <- ShortTimes
  Depth = 3
  None = None
  N = 3
  Owner <- Chain
  Clocks <- SomeClocks
  Scales <- OneAndHalfMore
  Modulus = 8
  Second = 30
  MaxTime = 3
  Ticks <- SomeTicks
INVARIANTS ListsKeepOrder CacheCoherent FifoIsQueue LookupsAgree VisitsDepthFirst BuildsAgree ResultsAreExact StartedDevicesKnow TicksAreKept
PROPERTY DerivedClocksFollow
CHECK_DEADLOCK FALSE
