SPECIFICATION SafetySpec
CONSTANTS
  Calls = {c1, c2}
  SubIds = {s1, s2}
  Buffer = 2
  NetCap = 1
  MaxNotes = 3
  MaxPings = 0
  ReuseIds = TRUE
  MayClose = TRUE
  MayVanish = FALSE
  None = None
CHECK_DEADLOCK FALSE
SYMMETRY Symmetry
INVARIANTS NotificationsDelivered NoChannelPanic NothingRegisteredAfterFailure EntryClosedOnlyByOwner
PROPERTY ImplementsContract
