SPECIFICATION ScenarioSpec
CONSTANTS
  Instructions <- All
  Payers = {1, 4}
  AddressTables <- Tables
  Hashes = {0, 1}
  MaxInstructions = 2
  Vaults <- Keyrings
  KeyLength = 2
  HashLength = 2
  SignatureLength = 2
  SlotLength = 1
  V1MaxSize = 40
  HeapUnit = 4
  HeapMin = 8
  HeapMax = 16
  Messages <- MCMessages
  Transactions <- MCTransactions
  TransactionsV1 <- MCTransactionsV1
  AlteredTo = {0, 1, 2, 128, 129, 255}
  MaxSent = 2
CHECK_DEADLOCK FALSE
INVARIANT SignVerifiesV1
