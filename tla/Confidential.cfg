SPECIFICATION Spec
CONSTANTS
  Order = 46337
  LowBits = 2
  HighBits = 4
  AmountBits = 8
  FeeDenominator = 3
  Owners = {"alice", "bob"}
  Secret <- MCSecret
  NewSupplySecret = 7777
  WithdrawSecret = 313
  Auditor = 0
  BasisPoints = 1
  MaximumFee = 2
  Amounts = {2, 7}
  MaxSteps = 4
  MaxSources = 2
  Staged = 7
  ChunkSizes = {0, 3, 8}
  DataOffset = 2
  Entries = 7
  Cores = 3
CHECK_DEADLOCK FALSE
INVARIANTS PlansWork BalanceKnown SupplyKnown ProofsExact RecordHoldsProof TableExact
