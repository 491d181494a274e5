SPECIFICATION FairSpec
CONSTANTS
  AutoFile = auto
  Files = {auto, slot}
  NoFile = NoFile
  Autosave = FALSE
  StateOption = NoFile
  Second = 1
  MaxAnon = 1
  MaxCalls = 3
PROPERTIES ImmediateIsDone
CHECK_DEADLOCK FALSE
