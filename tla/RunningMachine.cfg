SPECIFICATION FairSpec
CONSTANTS
  AutoFile = auto
  Files = {auto, slot}
  NoFile = NoFile
  Autosave = TRUE
  StateOption = slot
  Second = 1
  MaxAnon = 1
  MaxCalls = 3
INVARIANTS WaitsOnlyWhileRunning LeavesNothingPending
PROPERTIES RequestsServed StopsWhenAsked SoftResetHappens
CHECK_DEADLOCK FALSE
