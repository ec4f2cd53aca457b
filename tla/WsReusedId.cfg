SPECIFICATION FairSpec
CONSTANTS
  Calls = {c1, c2}
  SubIds = {1}
  Buffer = 1
  NetCap = 1
  MaxNotes = 1
  MaxPings = 0
  ReuseIds = TRUE
  MayClose = FALSE
  MayVanish = TRUE
  None = None
CHECK_DEADLOCK FALSE
PROPERTIES RecvReturnsAfterFailure
