SPECIFICATION FairSpec
CONSTANTS
  Sessions = 2
  Slots = 2
  Workspace <- Spaces2
  None = None
  MaxEvents = 3
INVARIANTS ShownIsSelected
PROPERTIES NoOlderAnswer ComesUpToDate
CHECK_DEADLOCK FALSE
