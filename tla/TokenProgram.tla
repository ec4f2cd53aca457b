--------------------------- MODULE TokenProgram ---------------------------
(***************************************************************************)
(* Package programs/token: the Token Program's instructions and accounts.  *)
(***************************************************************************)
EXTENDS Instruction

CONSTANT MaxSigners

Amount        == <<f("Amount", U64)>>
CheckedAmount == <<f("Amount", U64), f("Decimals", U8)>>
MintFields    == <<f("Decimals", U8), f("MintAuthority", Key), f("FreezeAuthority", Given(Key))>>

InitializeMint == Ix("InitializeMint", 0, MintFields, <<W, R>>)
InitializeAccount == Ix("InitializeAccount", 1, <<>>, <<W, R, R, R>>)
InitializeMultisig == Ix("InitializeMultisig", 2, <<f("M", U8)>>, <<W, R, Each(R)>>)
Transfer == Ix("Transfer", 3, Amount, <<W, W, Auth>>)
Approve == Ix("Approve", 4, Amount, <<W, R, Auth>>)
Revoke == Ix("Revoke", 5, <<>>, <<W, Auth>>)
SetAuthority == Ix("SetAuthority", 6,
  <<f("AuthorityType", U8), f("NewAuthority", Given(Key))>>, <<W, Auth>>)
MintTo == Ix("MintTo", 7, Amount, <<W, W, Auth>>)
Burn == Ix("Burn", 8, Amount, <<W, W, Auth>>)
CloseAccount == Ix("CloseAccount", 9, <<>>, <<W, W, Auth>>)
FreezeAccount == Ix("FreezeAccount", 10, <<>>, <<W, R, Auth>>)
ThawAccount == Ix("ThawAccount", 11, <<>>, <<W, R, Auth>>)
TransferChecked == Ix("TransferChecked", 12, CheckedAmount, <<W, R, W, Auth>>)
ApproveChecked == Ix("ApproveChecked", 13, CheckedAmount, <<W, R, R, Auth>>)
MintToChecked == Ix("MintToChecked", 14, CheckedAmount, <<W, W, Auth>>)
BurnChecked == Ix("BurnChecked", 15, CheckedAmount, <<W, W, Auth>>)
InitializeAccount2 == Ix("InitializeAccount2", 16, <<f("Owner", Key)>>, <<W, R, R>>)
SyncNative == Ix("SyncNative", 17, <<>>, <<W>>)
InitializeAccount3 == Ix("InitializeAccount3", 18, <<f("Owner", Key)>>, <<W, R>>)
InitializeMultisig2 == Ix("InitializeMultisig2", 19, <<f("M", U8)>>, <<W, Each(R)>>)
InitializeMint2 == Ix("InitializeMint2", 20, MintFields, <<W>>)

TokenInstructions ==
  {InitializeMint, InitializeAccount, InitializeMultisig, Transfer, Approve, Revoke,
   SetAuthority, MintTo, Burn, CloseAccount, FreezeAccount, ThawAccount, TransferChecked,
   ApproveChecked, MintToChecked, BurnChecked, InitializeAccount2, SyncNative,
   InitializeAccount3, InitializeMultisig2, InitializeMint2}

LastTokenTag == 20

TokenCases ==
  {<<t[1], t[2], <<f("Decimals", U8), f("MintAuthority", Key), f("FreezeAuthority", Opt(Key))>>>> :
     t \in {<<0, "InitializeMint">>, <<20, "InitializeMint2">>}}
  \union {<<t[1], t[2], <<>>>> :
     t \in {<<1, "InitializeAccount">>, <<5, "Revoke">>, <<9, "CloseAccount">>,
            <<10, "FreezeAccount">>, <<11, "ThawAccount">>, <<17, "SyncNative">>}}
  \union {<<t[1], t[2], <<f("M", U8)>>>> :
     t \in {<<2, "InitializeMultisig">>, <<19, "InitializeMultisig2">>}}
  \union {<<t[1], t[2], <<f("Amount", U64)>>>> :
     t \in {<<3, "Transfer">>, <<4, "Approve">>, <<7, "MintTo">>, <<8, "Burn">>}}
  \union {<<6, "SetAuthority", <<f("AuthorityType", U8), f("NewAuthority", Opt(Key))>>>>}
  \union {<<t[1], t[2], <<f("Amount", U64), f("Decimals", U8)>>>> :
     t \in {<<12, "TransferChecked">>, <<13, "ApproveChecked">>, <<14, "MintToChecked">>,
            <<15, "BurnChecked">>}}
  \union {<<t[1], t[2], <<f("Owner", Key)>>>> :
     t \in {<<16, "InitializeAccount2">>, <<18, "InitializeAccount3">>}}

DecodeInstructionWithProgramID(data) == DecodeWith(U8, TokenCases, data)

-----------------------------------------------------------------------------
(* The accounts.  Their size is fixed: an absent value takes its place.    *)

COption(k) == Fixed(Bytes32, k)

Mint == <<f("MintAuthority", COption(Key)), f("Supply", U64), f("Decimals", U8),
          f("IsInitialized", Bool), f("FreezeAuthority", COption(Key))>>
Account == <<f("Mint", Key), f("Owner", Key), f("Amount", U64), f("Delegate", COption(Key)),
             f("State", U8), f("IsNative", COption(U64)), f("DelegatedAmount", U64),
             f("CloseAuthority", COption(Key))>>
Multisig == <<f("M", U8), f("N", U8), f("IsInitialized", Bool),
              f("Signers", Tuple([i \in 1..MaxSigners |-> Key]))>>

\* 82, 165 and 355 bytes.
MintSize     == 2 * Bytes32 + 2 * KeyLength + Bytes64 + 2
AccountSize  == 3 * Bytes32 + 4 * KeyLength + 3 * Bytes64 + 1
MultisigSize == 3 + MaxSigners * KeyLength

\* An account of exactly size bytes.
DecodeExact(typ, layout, size, data) ==
  IF Len(data) # size THEN Failed("ErrInvalidAccountSize")
  ELSE Decoded(typ, ReadFields(NewDecoder(data), layout))

DecodeMint(data)     == DecodeExact("Mint", Mint, MintSize, data)
DecodeAccount(data)  == DecodeExact("Account", Account, AccountSize, data)
DecodeMultisig(data) == DecodeExact("Multisig", Multisig, MultisigSize, data)
=============================================================================
