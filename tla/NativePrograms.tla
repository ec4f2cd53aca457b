-------------------------- MODULE NativePrograms --------------------------
(***************************************************************************)
(* The instructions of packages programs/system, stake, compute-budget,    *)
(* address-lookup-table, loader-v2, loader-v3 and loader-v4.               *)
(***************************************************************************)
EXTENDS Instruction

CONSTANTS MaxSeedLength, LookupTableMaxAddresses

-----------------------------------------------------------------------------
(* The System Program.                                                     *)

Seed == AtMost(MaxSeedLength, Bincode)

CreateAccount == Ix("CreateAccount", 0,
  <<f("Lamports", U64), f("Space", U64), f("Owner", Key)>>, <<WS, WS>>)
Assign == Ix("Assign", 1, <<f("Owner", Key)>>, <<WS>>)
Transfer == Ix("Transfer", 2, <<f("Lamports", U64)>>, <<WS, W>>)
CreateAccountWithSeed == Checked(Ix("CreateAccountWithSeed", 3,
  <<f("Base", Key), f("Seed", Seed), f("Lamports", U64), f("Space", U64), f("Owner", Key)>>,
  <<WS, W, S>>))
AdvanceNonceAccount == Ix("AdvanceNonceAccount", 4, <<>>, <<W, R, S>>)
WithdrawNonceAccount == Ix("WithdrawNonceAccount", 5, <<f("Lamports", U64)>>, <<W, W, R, R, S>>)
InitializeNonceAccount == Ix("InitializeNonceAccount", 6, <<f("Authorized", Key)>>, <<W, R, R>>)
AuthorizeNonceAccount == Ix("AuthorizeNonceAccount", 7, <<f("Authorized", Key)>>, <<W, S>>)
Allocate == Ix("Allocate", 8, <<f("Space", U64)>>, <<WS>>)
AllocateWithSeed == Checked(Ix("AllocateWithSeed", 9,
  <<f("Base", Key), f("Seed", Seed), f("Space", U64), f("Owner", Key)>>, <<W, S>>))
AssignWithSeed == Checked(Ix("AssignWithSeed", 10,
  <<f("Base", Key), f("Seed", Seed), f("Owner", Key)>>, <<W, S>>))
TransferWithSeed == Checked(Ix("TransferWithSeed", 11,
  <<f("Lamports", U64), f("FromSeed", Seed), f("FromOwner", Key)>>, <<W, S, W>>))
UpgradeNonceAccount == Ix("UpgradeNonceAccount", 12, <<>>, <<W>>)
\* Without a funding account the new account gets no lamports.
CreateAccountAllowPrefund == Ix("CreateAccountAllowPrefund", 13,
  <<f("Lamports", U64), f("Space", U64), f("Owner", Key)>>, <<WS, Maybe(WS)>>)

SystemInstructions ==
  {CreateAccount, Assign, Transfer, CreateAccountWithSeed, AdvanceNonceAccount,
   WithdrawNonceAccount, InitializeNonceAccount, AuthorizeNonceAccount, Allocate,
   AllocateWithSeed, AssignWithSeed, TransferWithSeed, UpgradeNonceAccount,
   CreateAccountAllowPrefund}

\* The decoder does not bound the seeds that Data bounds.
SystemCases ==
  {<<0, "CreateAccount", <<f("Lamports", U64), f("Space", U64), f("Owner", Key)>>>>,
   <<1, "Assign", <<f("Owner", Key)>>>>,
   <<2, "Transfer", <<f("Lamports", U64)>>>>,
   <<3, "CreateAccountWithSeed",
     <<f("Base", Key), f("Seed", Bincode), f("Lamports", U64), f("Space", U64), f("Owner", Key)>>>>,
   <<4, "AdvanceNonceAccount", <<>>>>,
   <<5, "WithdrawNonceAccount", <<f("Lamports", U64)>>>>,
   <<6, "InitializeNonceAccount", <<f("Authorized", Key)>>>>,
   <<7, "AuthorizeNonceAccount", <<f("Authorized", Key)>>>>,
   <<8, "Allocate", <<f("Space", U64)>>>>,
   <<9, "AllocateWithSeed",
     <<f("Base", Key), f("Seed", Bincode), f("Space", U64), f("Owner", Key)>>>>,
   <<10, "AssignWithSeed", <<f("Base", Key), f("Seed", Bincode), f("Owner", Key)>>>>,
   <<11, "TransferWithSeed",
     <<f("Lamports", U64), f("FromSeed", Bincode), f("FromOwner", Key)>>>>,
   <<12, "UpgradeNonceAccount", <<>>>>,
   <<13, "CreateAccountAllowPrefund",
     <<f("Lamports", U64), f("Space", U64), f("Owner", Key)>>>>}

-----------------------------------------------------------------------------
(* The Stake Program.                                                      *)

StakeAuthorize == Below(2, U32)

Authorized  == <<f("Staker", Key), f("Withdrawer", Key)>>
Lockup      == <<f("UnixTimestamp", I64), f("Epoch", U64), f("Custodian", Key)>>
LockupCheckedArgs == <<f("UnixTimestamp", Opt(I64)), f("Epoch", Opt(U64))>>
LockupArgs  == Append(LockupCheckedArgs, f("Custodian", Opt(Key)))
AuthorizeCheckedWithSeedArgs ==
  <<f("StakeAuthorize", StakeAuthorize), f("AuthoritySeed", Seed), f("AuthorityOwner", Key)>>
AuthorizeWithSeedArgs == <<f("NewAuthorized", Key)>> \o AuthorizeCheckedWithSeedArgs

Initialize == Ix("Initialize", 0, Authorized \o Lockup, <<W, R>>)
Authorize == Ix("Authorize", 1,
  <<f("NewAuthorized", Key), f("StakeAuthorize", StakeAuthorize)>>, <<W, R, S, Maybe(S)>>)
DelegateStake == Ix("DelegateStake", 2, <<>>, <<W, R, R, R, R, S>>)
Split == Ix("Split", 3, <<f("Lamports", U64)>>, <<W, W, S>>)
Withdraw == Ix("Withdraw", 4, <<f("Lamports", U64)>>, <<W, W, R, R, S, Maybe(S)>>)
Deactivate == Ix("Deactivate", 5, <<>>, <<W, R, S>>)
SetLockup == Ix("SetLockup", 6, LockupArgs, <<W, S>>)
Merge == Ix("Merge", 7, <<>>, <<W, W, R, R, S>>)
AuthorizeWithSeed == Checked(Ix("AuthorizeWithSeed", 8, AuthorizeWithSeedArgs,
  <<W, S, R, Maybe(S)>>))
InitializeChecked == Ix("InitializeChecked", 9, <<>>, <<W, R, R, S>>)
AuthorizeChecked == Ix("AuthorizeChecked", 10,
  <<f("StakeAuthorize", StakeAuthorize)>>, <<W, R, S, S, Maybe(S)>>)
AuthorizeCheckedWithSeed == Checked(Ix("AuthorizeCheckedWithSeed", 11,
  AuthorizeCheckedWithSeedArgs, <<W, S, R, S, Maybe(S)>>))
SetLockupChecked == Ix("SetLockupChecked", 12, LockupCheckedArgs, <<W, S, Maybe(S)>>)
GetMinimumDelegation == Ix("GetMinimumDelegation", 13, <<>>, <<>>)
DeactivateDelinquent == Ix("DeactivateDelinquent", 14, <<>>, <<W, R, R>>)
Redelegate == Ix("Redelegate", 15, <<>>, <<W, W, R, R, S>>)
MoveStake == Ix("MoveStake", 16, <<f("Lamports", U64)>>, <<W, W, S>>)
MoveLamports == Ix("MoveLamports", 17, <<f("Lamports", U64)>>, <<W, W, S>>)

StakeInstructions ==
  {Initialize, Authorize, DelegateStake, Split, Withdraw, Deactivate, SetLockup, Merge,
   AuthorizeWithSeed, InitializeChecked, AuthorizeChecked, AuthorizeCheckedWithSeed,
   SetLockupChecked, GetMinimumDelegation, DeactivateDelinquent, Redelegate, MoveStake,
   MoveLamports}

\* The decoder's switch; validate runs after it and bounds authorities and seeds.
StakeCases ==
  {<<0, "Initialize",
     <<f("Staker", Key), f("Withdrawer", Key), f("UnixTimestamp", I64), f("Epoch", U64),
       f("Custodian", Key)>>>>,
   <<1, "Authorize", <<f("NewAuthorized", Key), f("StakeAuthorize", StakeAuthorize)>>>>,
   <<2, "DelegateStake", <<>>>>,
   <<3, "Split", <<f("Lamports", U64)>>>>,
   <<4, "Withdraw", <<f("Lamports", U64)>>>>,
   <<5, "Deactivate", <<>>>>,
   <<6, "SetLockup",
     <<f("UnixTimestamp", Opt(I64)), f("Epoch", Opt(U64)), f("Custodian", Opt(Key))>>>>,
   <<7, "Merge", <<>>>>,
   <<8, "AuthorizeWithSeed",
     <<f("NewAuthorized", Key), f("StakeAuthorize", StakeAuthorize), f("AuthoritySeed", Seed),
       f("AuthorityOwner", Key)>>>>,
   <<9, "InitializeChecked", <<>>>>,
   <<10, "AuthorizeChecked", <<f("StakeAuthorize", StakeAuthorize)>>>>,
   <<11, "AuthorizeCheckedWithSeed",
     <<f("StakeAuthorize", StakeAuthorize), f("AuthoritySeed", Seed), f("AuthorityOwner", Key)>>>>,
   <<12, "SetLockupChecked", <<f("UnixTimestamp", Opt(I64)), f("Epoch", Opt(U64))>>>>,
   <<13, "GetMinimumDelegation", <<>>>>,
   <<14, "DeactivateDelinquent", <<>>>>,
   <<15, "Redelegate", <<>>>>,
   <<16, "MoveStake", <<f("Lamports", U64)>>>>,
   <<17, "MoveLamports", <<f("Lamports", U64)>>>>}

-----------------------------------------------------------------------------
(* Lookup tables.                                                          *)

Addresses == Bounded(U64, Key, KeyLength, 0, LookupTableMaxAddresses)

CreateLookupTable == Ix("CreateLookupTable", 0,
  <<f("RecentSlot", U64), f("BumpSeed", U8)>>, <<W, S, WS, R>>)
FreezeLookupTable == Ix("FreezeLookupTable", 1, <<>>, <<W, S>>)
ExtendLookupTable == Ix("ExtendLookupTable", 2,
  <<f("Addresses", Addresses)>>, <<W, S, Maybe(WS), Maybe(R)>>)
DeactivateLookupTable == Ix("DeactivateLookupTable", 3, <<>>, <<W, S>>)
CloseLookupTable == Ix("CloseLookupTable", 4, <<>>, <<W, S, W>>)

LookupInstructions == {CreateLookupTable, FreezeLookupTable, ExtendLookupTable,
                       DeactivateLookupTable, CloseLookupTable}

LookupCases ==
  {<<0, "CreateLookupTable", <<f("RecentSlot", U64), f("BumpSeed", U8)>>>>,
   <<1, "FreezeLookupTable", <<>>>>,
   <<2, "ExtendLookupTable", <<f("Addresses", Addresses)>>>>,
   <<3, "DeactivateLookupTable", <<>>>>,
   <<4, "CloseLookupTable", <<>>>>}

-----------------------------------------------------------------------------
(* Compute budget.  Tag 0 is Unused, or the deprecated RequestUnits when   *)
(* enough bytes follow it.                                                 *)
Unused == Ix("Unused", 0, <<>>, <<>>)
RequestUnitsDeprecated == Ix("RequestUnitsDeprecated", 0,
  <<f("Units", U32), f("AdditionalFee", U32)>>, <<>>)
RequestHeapFrame == Ix("RequestHeapFrame", 1, <<f("HeapSize", U32)>>, <<>>)
SetComputeUnitLimit == Ix("SetComputeUnitLimit", 2, <<f("Units", U32)>>, <<>>)
SetComputeUnitPrice == Ix("SetComputeUnitPrice", 3, <<f("MicroLamports", U64)>>, <<>>)
SetLoadedAccountsDataSizeLimit == Ix("SetLoadedAccountsDataSizeLimit", 4,
  <<f("Bytes", U32)>>, <<>>)

BudgetInstructions == {Unused, RequestUnitsDeprecated, RequestHeapFrame, SetComputeUnitLimit,
                       SetComputeUnitPrice, SetLoadedAccountsDataSizeLimit}

BudgetCases(data) ==
  {IF Len(data) > 2 * Bytes32
   THEN <<0, "RequestUnitsDeprecated", <<f("Units", U32), f("AdditionalFee", U32)>>>>
   ELSE <<0, "Unused", <<>>>>,
   <<1, "RequestHeapFrame", <<f("HeapSize", U32)>>>>,
   <<2, "SetComputeUnitLimit", <<f("Units", U32)>>>>,
   <<3, "SetComputeUnitPrice", <<f("MicroLamports", U64)>>>>,
   <<4, "SetLoadedAccountsDataSizeLimit", <<f("Bytes", U32)>>>>}

-----------------------------------------------------------------------------
(* The loaders.  The decoder of loader-v3 also takes the forms of older    *)
(* clients, without the last boolean.                                      *)

V2Write    == Ix("Write", 0, <<f("Offset", U32), f("Bytes", Blob)>>, <<WS>>)
V2Finalize == Ix("Finalize", 1, <<>>, <<WS, R>>)
V2Instructions == {V2Write, V2Finalize}
V2Cases == {<<0, "Write", <<f("Offset", U32), f("Bytes", Blob)>>>>, <<1, "Finalize", <<>>>>}

\* Each constructor of a type that has several.
InitializeBuffer == Ix("InitializeBuffer", 0, <<>>, <<W, Maybe(R)>>)
V3Write == Ix("Write", 1, <<f("Offset", U32), f("Bytes", Blob)>>, <<W, S>>)
DeployWithMaxDataLen == Ix("DeployWithMaxDataLen", 2,
  <<f("MaxDataLen", U64), f("CloseBuffer", Bool)>>, <<WS, W, W, W, R, R, R, S>>)
Upgrade == Ix("Upgrade", 3, <<f("CloseBuffer", Bool)>>, <<W, W, W, W, R, R, S>>)
SetAuthority == Ix("SetAuthority", 4, <<>>, <<W, S, Maybe(R)>>)
Close == Ix("Close", 5, <<f("Tombstone", Bool)>>, <<W, W, S, Maybe(W)>>)
CloseUninitialized == Ix("Close", 5, <<f("Tombstone", Bool)>>, <<W, W>>)
ExtendProgram == Ix("ExtendProgram", 6, <<f("AdditionalBytes", U32)>>,
  <<W, W, Maybe(R), Maybe(WS)>>)
SetAuthorityChecked == Ix("SetAuthorityChecked", 7, <<>>, <<W, S, S>>)

V3Instructions ==
  {InitializeBuffer, V3Write, DeployWithMaxDataLen, Upgrade, SetAuthority, Close,
   CloseUninitialized, ExtendProgram, SetAuthorityChecked}

V3Cases ==
  {<<0, "InitializeBuffer", <<>>>>,
   <<1, "Write", <<f("Offset", U32), f("Bytes", Blob)>>>>,
   <<2, "DeployWithMaxDataLen",
     <<f("MaxDataLen", U64), f("CloseBuffer", Default(Bool, TRUE))>>>>,
   <<3, "Upgrade", <<f("CloseBuffer", Default(Bool, TRUE))>>>>,
   <<4, "SetAuthority", <<>>>>,
   <<5, "Close", <<f("Tombstone", Default(Bool, FALSE))>>>>,
   <<6, "ExtendProgram", <<f("AdditionalBytes", U32)>>>>,
   <<7, "SetAuthorityChecked", <<>>>>}

V4Write == Ix("Write", 0, <<f("Offset", U32), f("Bytes", Blob)>>, <<W, S>>)
Copy == Ix("Copy", 1,
  <<f("DestinationOffset", U32), f("SourceOffset", U32), f("Length", U32)>>, <<W, S, R>>)
SetProgramLength == Ix("SetProgramLength", 2, <<f("NewSize", U32)>>, <<W, S, Maybe(W)>>)
Deploy == Ix("Deploy", 3, <<>>, <<W, S, Maybe(W)>>)
Retract == Ix("Retract", 4, <<>>, <<W, S>>)
TransferAuthority == Ix("TransferAuthority", 5, <<>>, <<W, S, S>>)
Finalize == Ix("Finalize", 6, <<>>, <<W, S, R>>)

V4Instructions ==
  {V4Write, Copy, SetProgramLength, Deploy, Retract, TransferAuthority, Finalize}

V4Cases ==
  {<<0, "Write", <<f("Offset", U32), f("Bytes", Blob)>>>>,
   <<1, "Copy",
     <<f("DestinationOffset", U32), f("SourceOffset", U32), f("Length", U32)>>>>,
   <<2, "SetProgramLength", <<f("NewSize", U32)>>>>,
   <<3, "Deploy", <<>>>>,
   <<4, "Retract", <<>>>>,
   <<5, "TransferAuthority", <<>>>>,
   <<6, "Finalize", <<>>>>}
===========================================================================
