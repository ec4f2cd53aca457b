SPECIFICATION Spec
CONSTANTS
  Docs <- ThreeAccounts
  InitialCap = 16
  BatchElems = 2
  BatchBytes = 99
  SplitsKeys = TRUE
  MayCut = FALSE
  MayFail = FALSE
CHECK_DEADLOCK FALSE
INVARIANTS CompleteOrError
