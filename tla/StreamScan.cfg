SPECIFICATION Spec
CONSTANTS
  Docs <- AllDocs
  InitialCap = 6
  BatchElems = 2
  BatchBytes = 9
  SplitsKeys = FALSE
  MayCut = TRUE
  MayFail = TRUE
CHECK_DEADLOCK FALSE
INVARIANTS CompleteOrError BufferBounded
PROPERTIES Terminates
