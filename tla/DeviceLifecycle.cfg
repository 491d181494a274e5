SPECIFICATION LifeSpec
CONSTANTS
  N = 3
  EarlySets <- AllOrNone
INVARIANTS StartsWhatCanBe CallsFindTheMachine HooksInOrder
PROPERTIES KeepsPromise ExitReachesAll StartupEnds
CHECK_DEADLOCK FALSE
