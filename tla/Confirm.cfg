SPECIFICATION ScenarioSpec
CONSTANTS
  Asked <- Commitments
  Plain = Plain
  Item = Item
  Stream = Stream
  Calls <- ThreeCalls
  Nullable <- JustItem
  Streams <- JustStream
  Buffers = {b1, b2}
  HeaderKeys = {k1, k2}
  Parts = 2
  MaxSets = 2
  Nothing = Nothing
CHECK_DEADLOCK FALSE
INVARIANTS OutcomeIsTrue NothingLeftBehind SendIsNotMissed OwnAnswer HeadersOfOneMoment
PROPERTIES WaitEnds CallReturns
