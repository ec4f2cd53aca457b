CONSTANTS
  Bytes32 = 2
  Bytes64 = 3
  KeyLength = 2
  MaxSeedLength = 2
  MaxLockoutHistory = 2
  LookupTableMaxAddresses = 2
  MaxSigners = 2
  Arguments <- MCArguments
  ExtensionLists <- MCExtensionLists
  ListLengths <- MCListLengths
  Altered = {0, 1, 255}
SPECIFICATION Spec
INVARIANTS RoundTrip CutRefused Canonical SourcesCounted
