SPECIFICATION FairSpec
CONSTANTS
  Calls = {c1}
  SubIds = {1}
  Buffer = 1
  NetCap = 1
  MaxNotes = 1
  MaxPings = 1
  ReuseIds = FALSE
  MayClose = TRUE
  MayVanish = TRUE
  None = None
CHECK_DEADLOCK FALSE
PROPERTIES WaitersReturnAfterFailure CloseEndsRecv
