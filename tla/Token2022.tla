----------------------------- MODULE Token2022 -----------------------------
(***************************************************************************)
(* Package programs/token-2022: the instructions of its extensions (the    *)
(* rest are the Token Program's under another program ID), the extensions  *)
(* behind its accounts, and the instructions of the confidential           *)
(* extensions.  A tag is one byte, or two for an extension.                *)
(***************************************************************************)
EXTENDS TokenProgram

ElGamalPubkey     == Key
ElGamalCiphertext == Bytes(2 * KeyLength)
AeLength          == KeyLength + 1
AeCiphertext      == Bytes(AeLength)

\* Where a proof is: at an offset from this instruction, or (0) in the
\* account of a context that is already verified.
Offset(name) == f(name, I8)

-----------------------------------------------------------------------------
(* The proof accounts an instruction lists: the instructions sysvar if one *)
(* proof is inline, then the context account of each that is not.          *)

proofAccounts(offsets) ==
  (IF \E i \in 1..Len(offsets) : offsets[i] # 0 THEN <<Meta(FALSE, FALSE)>> ELSE <<>>)
  \o [i \in 1..Len(SelectSeq(offsets, LAMBDA o : o = 0)) |-> Meta(FALSE, FALSE)]

\* Its place in the roles.
Proofs(names) == <<"proofs", names>>

\* The accounts: Metas, with the proof accounts where Proofs stands.
MetasWithProofs(roles, n, values) ==
  FlattenSeq([i \in 1..Len(roles) |->
    IF roles[i][1] = "proofs"
    THEN proofAccounts([j \in 1..Len(roles[i][2]) |-> values[roles[i][2][j]]])
    ELSE Metas(<<roles[i]>>, n)])

-----------------------------------------------------------------------------
(* The extensions that are not confidential.                               *)

MetadataPrefix == <<210, 225, 30, 162, 88, 184, 77, 141>>

TransferFeeConfig ==
  <<f("TransferFeeConfigAuthority", Fixed(1, Key)), f("WithdrawWithheldAuthority", Fixed(1, Key)),
    f("TransferFeeBasisPoints", U16), f("MaximumFee", U64)>>

GetAccountDataSize == Ix("GetAccountDataSize", <<21>>,
  <<f("ExtensionTypes", While(U16, 2))>>, <<R>>)
InitializeImmutableOwner == Ix("InitializeImmutableOwner", <<22>>, <<>>, <<W>>)
AmountToUIAmount == Ix("AmountToUIAmount", <<23>>, <<f("Amount", U64)>>, <<R>>)
UIAmountToAmount == Ix("UIAmountToAmount", <<24>>, <<f("UIAmount", Rest)>>, <<R>>)
InitializeMintCloseAuthority == Ix("InitializeMintCloseAuthority", <<25>>,
  <<f("CloseAuthority", Given(Key))>>, <<W>>)
InitializeTransferFeeConfig ==
  Ix("InitializeTransferFeeConfig", <<26, 0>>, TransferFeeConfig, <<W>>)
TransferCheckedWithFee == Ix("TransferCheckedWithFee", <<26, 1>>,
  <<f("Amount", U64), f("Decimals", U8), f("Fee", U64)>>, <<W, R, W, Auth>>)
WithdrawWithheldTokensFromMint ==
  Ix("WithdrawWithheldTokensFromMint", <<26, 2>>, <<>>, <<W, W, Auth>>)
WithdrawWithheldTokensFromAccounts == Ix("WithdrawWithheldTokensFromAccounts", <<26, 3>>,
  <<f("NumTokenAccounts", Count)>>, <<R, W, Auth, Each(W)>>)
HarvestWithheldTokensToMint ==
  Ix("HarvestWithheldTokensToMint", <<26, 4>>, <<>>, <<W, Each(W)>>)
SetTransferFee == Ix("SetTransferFee", <<26, 5>>,
  <<f("TransferFeeBasisPoints", U16), f("MaximumFee", U64)>>, <<W, Auth>>)
InitializeMetadataPointer == Ix("InitializeMetadataPointer", <<39, 0>>,
  <<f("Authority", NonZeroKey(KeyLength)), f("MetadataAddress", Key)>>, <<W>>)
UpdateMetadataPointer == Ix("UpdateMetadataPointer", <<39, 1>>,
  <<f("MetadataAddress", Key)>>, <<W, Auth>>)
InitializeMetadata == Ix("InitializeMetadata", MetadataPrefix,
  <<f("Name", Borsh), f("Symbol", Borsh), f("URI", Borsh)>>, <<W, R, R, S>>)

ExtensionInstructions ==
  {GetAccountDataSize, InitializeImmutableOwner, AmountToUIAmount, UIAmountToAmount,
   InitializeMintCloseAuthority, InitializeTransferFeeConfig, TransferCheckedWithFee,
   WithdrawWithheldTokensFromMint, WithdrawWithheldTokensFromAccounts,
   HarvestWithheldTokensToMint, SetTransferFee, InitializeMetadataPointer,
   UpdateMetadataPointer, InitializeMetadata}

PlainCases ==
  {<<21, "GetAccountDataSize", <<f("ExtensionTypes", While(U16, 2))>>>>,
   <<22, "InitializeImmutableOwner", <<>>>>,
   <<23, "AmountToUIAmount", <<f("Amount", U64)>>>>,
   <<24, "UIAmountToAmount", <<f("UIAmount", Rest)>>>>,
   <<25, "InitializeMintCloseAuthority", <<f("CloseAuthority", Opt(Key))>>>>}

TransferFeeCases ==
  {<<0, "InitializeTransferFeeConfig", TransferFeeConfig>>,
   <<1, "TransferCheckedWithFee", <<f("Amount", U64), f("Decimals", U8), f("Fee", U64)>>>>,
   <<2, "WithdrawWithheldTokensFromMint", <<>>>>,
   <<3, "WithdrawWithheldTokensFromAccounts", <<f("NumTokenAccounts", U8)>>>>,
   <<4, "HarvestWithheldTokensToMint", <<>>>>,
   <<5, "SetTransferFee", <<f("TransferFeeBasisPoints", U16), f("MaximumFee", U64)>>>>}

MetadataPointerCases ==
  {<<0, "InitializeMetadataPointer",
     <<f("Authority", NonZeroKey(KeyLength)), f("MetadataAddress", Key)>>>>,
   <<1, "UpdateMetadataPointer", <<f("MetadataAddress", Key)>>>>}

-----------------------------------------------------------------------------
(* The confidential extensions.                                            *)

Confidential(sub, typ, writes, roles) == Ix(typ, <<27, sub>>, writes, roles)
ConfidentialFee(sub, typ, writes, roles) == Ix(typ, <<37, sub>>, writes, roles)
MintBurn(sub, typ, writes, roles) == Ix(typ, <<42, sub>>, writes, roles)

transferAmountData ==
  <<f("NewSourceDecryptableAvailableBalance", AeCiphertext),
    f("TransferAmountAuditorCiphertextLo", ElGamalCiphertext),
    f("TransferAmountAuditorCiphertextHi", ElGamalCiphertext),
    Offset("EqualityProof"), Offset("CiphertextValidityProof"), Offset("RangeProof")>>
mintBurnAmountData(balance) ==
  <<f(balance, AeCiphertext), f("AmountAuditorCiphertextLo", ElGamalCiphertext),
    f("AmountAuditorCiphertextHi", ElGamalCiphertext),
    Offset("EqualityProof"), Offset("CiphertextValidityProof"), Offset("RangeProof")>>
ThreeProofs == Proofs(<<"EqualityProof", "CiphertextValidityProof", "RangeProof">>)

InitializeConfidentialTransferMint == Confidential(0, "InitializeMint",
  <<f("Authority", NonZeroKey(KeyLength)), f("AutoApproveNewAccounts", Bool),
    f("AuditorElGamalPubkey", NonZeroKey(KeyLength))>>, <<W>>)
UpdateConfidentialTransferMint == Confidential(1, "UpdateMint",
  <<f("AutoApproveNewAccounts", Bool), f("AuditorElGamalPubkey", NonZeroKey(KeyLength))>>,
  <<W, Auth>>)
ConfigureConfidentialTransferAccount == Confidential(2, "ConfigureAccount",
  <<f("DecryptableZeroBalance", AeCiphertext), f("MaximumPendingBalanceCreditCounter", U64),
    Offset("Proof")>>, <<W, R, Proofs(<<"Proof">>), Auth>>)
ApproveConfidentialTransferAccount == Confidential(3, "ApproveAccount", <<>>, <<W, R, Auth>>)
EmptyConfidentialTransferAccount == Confidential(4, "EmptyAccount",
  <<Offset("Proof")>>, <<W, Proofs(<<"Proof">>), Auth>>)
ConfidentialDeposit == Confidential(5, "Deposit",
  <<f("Amount", U64), f("Decimals", U8)>>, <<W, R, Auth>>)
ConfidentialWithdraw == Confidential(6, "Withdraw",
  <<f("Amount", U64), f("Decimals", U8), f("NewDecryptableAvailableBalance", AeCiphertext),
    Offset("EqualityProof"), Offset("RangeProof")>>,
  <<W, R, Proofs(<<"EqualityProof", "RangeProof">>), Auth>>)
ConfidentialTransfer == Confidential(7, "Transfer", transferAmountData,
  <<W, R, W, ThreeProofs, Auth>>)
ApplyConfidentialPendingBalance == Confidential(8, "ApplyPendingBalance",
  <<f("ExpectedPendingBalanceCreditCounter", U64),
    f("NewDecryptableAvailableBalance", AeCiphertext)>>, <<W, Auth>>)
balanceCreditsInstruction(sub, typ) == Confidential(sub, typ, <<>>, <<W, Auth>>)
EnableConfidentialCredits     == balanceCreditsInstruction(9, "EnableConfidentialCredits")
DisableConfidentialCredits    == balanceCreditsInstruction(10, "DisableConfidentialCredits")
EnableNonConfidentialCredits  == balanceCreditsInstruction(11, "EnableNonConfidentialCredits")
DisableNonConfidentialCredits == balanceCreditsInstruction(12, "DisableNonConfidentialCredits")
ConfidentialTransferWithFee == Confidential(13, "TransferWithFee",
  <<f("NewSourceDecryptableAvailableBalance", AeCiphertext),
    f("TransferAmountAuditorCiphertextLo", ElGamalCiphertext),
    f("TransferAmountAuditorCiphertextHi", ElGamalCiphertext),
    Offset("EqualityProof"), Offset("TransferValidityProof"), Offset("FeeSigmaProof"),
    Offset("FeeValidityProof"), Offset("RangeProof")>>,
  <<W, R, W, Proofs(<<"EqualityProof", "TransferValidityProof", "FeeSigmaProof",
                     "FeeValidityProof", "RangeProof">>), Auth>>)
ConfigureConfidentialTransferAccountWithRegistry ==
  Confidential(14, "ConfigureAccountWithRegistry", <<>>, <<W, R, R, Maybe(WS), Maybe(R)>>)

InitializeConfidentialTransferFee == ConfidentialFee(0, "InitializeConfig",
  <<f("Authority", NonZeroKey(KeyLength)), f("WithdrawWithheldAuthority", ElGamalPubkey)>>, <<W>>)
WithdrawConfidentialWithheldTokensFromMint == ConfidentialFee(1, "WithdrawFromMint",
  <<Offset("Proof"), f("NewDecryptableAvailableBalance", AeCiphertext)>>,
  <<W, W, Proofs(<<"Proof">>), Auth>>)
WithdrawConfidentialWithheldTokensFromAccounts == ConfidentialFee(2, "WithdrawFromAccounts",
  <<f("NumTokenAccounts", Count), Offset("Proof"),
    f("NewDecryptableAvailableBalance", AeCiphertext)>>,
  <<W, W, Proofs(<<"Proof">>), Auth, Each(W)>>)
HarvestConfidentialWithheldTokensToMint ==
  ConfidentialFee(3, "HarvestToMint", <<>>, <<W, Each(W)>>)
confidentialHarvestInstruction(sub, typ) == ConfidentialFee(sub, typ, <<>>, <<W, Auth>>)
EnableConfidentialHarvestToMint  == confidentialHarvestInstruction(4, "EnableHarvestToMint")
DisableConfidentialHarvestToMint == confidentialHarvestInstruction(5, "DisableHarvestToMint")

InitializeConfidentialMintBurn == MintBurn(0, "InitializeMintBurn",
  <<f("SupplyElGamalPubkey", ElGamalPubkey), f("DecryptableSupply", AeCiphertext)>>, <<W>>)
RotateConfidentialSupplyKey == MintBurn(1, "RotateSupplyKey",
  <<f("NewSupplyElGamalPubkey", ElGamalPubkey), Offset("Proof")>>,
  <<W, Proofs(<<"Proof">>), Auth>>)
UpdateConfidentialSupply == MintBurn(2, "UpdateDecryptableSupply",
  <<f("NewDecryptableSupply", AeCiphertext)>>, <<W, Auth>>)
ConfidentialMint == MintBurn(3, "ConfidentialMint", mintBurnAmountData("NewDecryptableSupply"),
  <<W, W, ThreeProofs, Auth>>)
ConfidentialBurn == MintBurn(4, "ConfidentialBurn",
  mintBurnAmountData("NewDecryptableAvailableBalance"), <<W, W, ThreeProofs, Auth>>)
ApplyPendingConfidentialBurn == MintBurn(5, "ApplyPendingBurn", <<>>, <<W, Auth>>)

ConfidentialInstructionTypes ==
  {InitializeConfidentialTransferMint, UpdateConfidentialTransferMint,
   ConfigureConfidentialTransferAccount, ApproveConfidentialTransferAccount,
   EmptyConfidentialTransferAccount, ConfidentialDeposit, ConfidentialWithdraw,
   ConfidentialTransfer, ApplyConfidentialPendingBalance, EnableConfidentialCredits,
   DisableConfidentialCredits, EnableNonConfidentialCredits, DisableNonConfidentialCredits,
   ConfidentialTransferWithFee, ConfigureConfidentialTransferAccountWithRegistry,
   InitializeConfidentialTransferFee, WithdrawConfidentialWithheldTokensFromMint,
   WithdrawConfidentialWithheldTokensFromAccounts, HarvestConfidentialWithheldTokensToMint,
   EnableConfidentialHarvestToMint, DisableConfidentialHarvestToMint,
   InitializeConfidentialMintBurn, RotateConfidentialSupplyKey, UpdateConfidentialSupply,
   ConfidentialMint, ConfidentialBurn, ApplyPendingConfidentialBurn}

\* Sub-instruction, type, layout and the size the data must have.
ConfidentialTransferCases ==
  {<<0, "InitializeMint",
     <<f("Authority", NonZeroKey(KeyLength)), f("AutoApproveNewAccounts", Bool),
       f("AuditorElGamalPubkey", NonZeroKey(KeyLength))>>, 2 * KeyLength + 1>>,
   <<1, "UpdateMint",
     <<f("AutoApproveNewAccounts", Bool), f("AuditorElGamalPubkey", NonZeroKey(KeyLength))>>,
     KeyLength + 1>>,
   <<2, "ConfigureAccount",
     <<f("DecryptableZeroBalance", AeCiphertext),
       f("MaximumPendingBalanceCreditCounter", U64), f("Proof", I8)>>,
     AeLength + Bytes64 + 1>>,
   <<3, "ApproveAccount", <<>>, 0>>,
   <<4, "EmptyAccount", <<f("Proof", I8)>>, 1>>,
   <<5, "Deposit", <<f("Amount", U64), f("Decimals", U8)>>, Bytes64 + 1>>,
   <<6, "Withdraw",
     <<f("Amount", U64), f("Decimals", U8), f("NewDecryptableAvailableBalance", AeCiphertext),
       f("EqualityProof", I8), f("RangeProof", I8)>>, Bytes64 + AeLength + 3>>,
   <<7, "Transfer",
     <<f("NewSourceDecryptableAvailableBalance", AeCiphertext),
       f("TransferAmountAuditorCiphertextLo", ElGamalCiphertext),
       f("TransferAmountAuditorCiphertextHi", ElGamalCiphertext),
       f("EqualityProof", I8), f("CiphertextValidityProof", I8), f("RangeProof", I8)>>,
     AeLength + 4 * KeyLength + 3>>,
   <<8, "ApplyPendingBalance",
     <<f("ExpectedPendingBalanceCreditCounter", U64),
       f("NewDecryptableAvailableBalance", AeCiphertext)>>, Bytes64 + AeLength>>,
   <<9, "EnableConfidentialCredits", <<>>, 0>>,
   <<10, "DisableConfidentialCredits", <<>>, 0>>,
   <<11, "EnableNonConfidentialCredits", <<>>, 0>>,
   <<12, "DisableNonConfidentialCredits", <<>>, 0>>,
   <<13, "TransferWithFee",
     <<f("NewSourceDecryptableAvailableBalance", AeCiphertext),
       f("TransferAmountAuditorCiphertextLo", ElGamalCiphertext),
       f("TransferAmountAuditorCiphertextHi", ElGamalCiphertext),
       f("EqualityProof", I8), f("TransferValidityProof", I8), f("FeeSigmaProof", I8),
       f("FeeValidityProof", I8), f("RangeProof", I8)>>, AeLength + 4 * KeyLength + 5>>,
   <<14, "ConfigureAccountWithRegistry", <<>>, 0>>}

ConfidentialTransferFeeCases ==
  {<<0, "InitializeConfig",
     <<f("Authority", NonZeroKey(KeyLength)), f("WithdrawWithheldAuthority", ElGamalPubkey)>>,
     2 * KeyLength>>,
   <<1, "WithdrawFromMint",
     <<f("Proof", I8), f("NewDecryptableAvailableBalance", AeCiphertext)>>, AeLength + 1>>,
   <<2, "WithdrawFromAccounts",
     <<f("NumTokenAccounts", U8), f("Proof", I8),
       f("NewDecryptableAvailableBalance", AeCiphertext)>>, AeLength + 2>>,
   <<3, "HarvestToMint", <<>>, 0>>,
   <<4, "EnableHarvestToMint", <<>>, 0>>,
   <<5, "DisableHarvestToMint", <<>>, 0>>}

ConfidentialMintBurnCases ==
  {<<0, "InitializeMintBurn",
     <<f("SupplyElGamalPubkey", ElGamalPubkey), f("DecryptableSupply", AeCiphertext)>>,
     KeyLength + AeLength>>,
   <<1, "RotateSupplyKey",
     <<f("NewSupplyElGamalPubkey", ElGamalPubkey), f("Proof", I8)>>, KeyLength + 1>>,
   <<2, "UpdateDecryptableSupply", <<f("NewDecryptableSupply", AeCiphertext)>>, AeLength>>}
  \union {<<t[1], t[2],
     <<f(t[3], AeCiphertext), f("AmountAuditorCiphertextLo", ElGamalCiphertext),
       f("AmountAuditorCiphertextHi", ElGamalCiphertext), f("EqualityProof", I8),
       f("CiphertextValidityProof", I8), f("RangeProof", I8)>>, AeLength + 4 * KeyLength + 3>> :
     t \in {<<3, "ConfidentialMint", "NewDecryptableSupply">>,
            <<4, "ConfidentialBurn", "NewDecryptableAvailableBalance">>}}
  \union {<<5, "ApplyPendingBurn", <<>>, 0>>}

\* The decoder of a confidential extension: the size first.
DecodeConfidential(cases, sub, raw) ==
  LET exact(c) == DecodeExact(c[2], c[3], c[4], raw)
  IN  IF \A c \in cases : c[1] # sub THEN Failed("unknown instruction")
      ELSE exact(CHOOSE c \in cases : c[1] = sub)

\* The decoders of the confidential extensions, by their tag.
ConfidentialCases(tag) ==
  CASE tag = 27 -> ConfidentialTransferCases
    [] tag = 37 -> ConfidentialTransferFeeCases
    [] tag = 42 -> ConfidentialMintBurnCases

-----------------------------------------------------------------------------
Data(ix, values) == DataWith(Bytes(Len(ix.tag)), ix, values)

\* An extension's second byte; when it is missing the decoder goes on with 0
\* and its sticky error refuses the rest.
Sub(data) == IF Len(data) > 1 THEN data[2] ELSE 0
From(data, n) == SubSeq(data, n, Len(data))

DecodeSub(cases, data) ==
  IF Len(data) = 1 THEN Failed("ErrUnexpectedEOF")
  ELSE DecodeWith(U8, cases, From(data, 2))

DecodeInstruction(data) ==
  CASE data = <<>> -> Failed("ErrUnexpectedEOF")
    [] data # <<>> /\ data[1] <= LastTokenTag -> DecodeInstructionWithProgramID(data)
    [] IsPrefix(MetadataPrefix, data) ->
         Decoded("InitializeMetadata",
                 ReadFields(NewDecoder(From(data, Len(MetadataPrefix) + 1)),
                            <<f("Name", Borsh), f("Symbol", Borsh), f("URI", Borsh)>>))
    [] data # <<>> /\ data[1] = 26 -> DecodeSub(TransferFeeCases, data)
    [] data # <<>> /\ data[1] \in {27, 37, 42} ->
         DecodeConfidential(ConfidentialCases(data[1]), Sub(data), From(data, 3))
    [] data # <<>> /\ data[1] = 39 -> DecodeSub(MetadataPointerCases, data)
    [] OTHER -> DecodeWith(U8, PlainCases, data)

-----------------------------------------------------------------------------
(* The extensions behind a mint or an account: type, length, payload.      *)

ExtensionUninitialized == 0

RECURSIVE decodeExtensions(_)
decodeExtensions(d) ==
  LET whole(typ, payload) ==
        IF payload.d.err # "nil" THEN Got(payload.d, <<>>)
        ELSE Behind(Got(payload.d, <<typ.v, payload.v>>), decodeExtensions(payload.d))
      sized(typ, size) == whole(typ, ReadBytes(size.d, size.v))
      typed(typ) == IF Remaining(d) < 2 \/ typ.v = ExtensionUninitialized THEN Got(d, <<>>)
                    ELSE sized(typ, ReadUint(typ.d, 2))
  IN  typed(ReadUint(d, 2))

\* The base, then the extensions from the same place in both.
WithExtensions(base, size, data) ==
  LET with(x) == IF x.d.err # "nil" THEN Failed(x.d.err) ELSE [base EXCEPT !.values = <<@, x.v>>]
  IN  IF base.err # "nil" \/ Len(data) = size THEN [base EXCEPT !.values = <<@, <<>>>>]
      ELSE with(decodeExtensions(NewDecoder(From(data, AccountSize + 2))))

DecodeMint2022(data) ==
  IF Len(data) # MintSize /\ Len(data) < AccountSize + 1 THEN Failed("ErrInvalidAccountSize")
  ELSE WithExtensions(DecodeMint(SubSeq(data, 1, MintSize)), MintSize, data)

DecodeAccount2022(data) ==
  IF Len(data) < AccountSize THEN Failed("ErrInvalidAccountSize")
  ELSE WithExtensions(DecodeAccount(SubSeq(data, 1, AccountSize)), AccountSize, data)

-----------------------------------------------------------------------------
(* The state of the confidential extensions, by its size.                  *)

ConfidentialTransferMint ==
  <<f("Authority", Key), f("AutoApproveNewAccounts", Bool),
    f("AuditorElGamalPubkey", ElGamalPubkey)>>
ConfidentialTransferAccount ==
  <<f("Approved", Bool), f("ElGamalPubkey", ElGamalPubkey),
    f("PendingBalanceLo", ElGamalCiphertext), f("PendingBalanceHi", ElGamalCiphertext),
    f("AvailableBalance", ElGamalCiphertext), f("DecryptableAvailableBalance", AeCiphertext),
    f("AllowConfidentialCredits", Bool), f("AllowNonConfidentialCredits", Bool),
    f("PendingBalanceCreditCounter", U64), f("MaximumPendingBalanceCreditCounter", U64),
    f("ExpectedPendingBalanceCreditCounter", U64),
    f("ActualPendingBalanceCreditCounter", U64)>>
ConfidentialTransferFeeConfig ==
  <<f("Authority", Key), f("WithdrawWithheldAuthorityElGamalPubkey", ElGamalPubkey),
    f("HarvestToMintEnabled", Bool), f("WithheldAmount", ElGamalCiphertext)>>
ConfidentialTransferFeeAmount == <<f("WithheldAmount", ElGamalCiphertext)>>
ConfidentialMintBurn ==
  <<f("ConfidentialSupply", ElGamalCiphertext), f("DecryptableSupply", AeCiphertext),
    f("SupplyElGamalPubkey", ElGamalPubkey), f("PendingBurn", ElGamalCiphertext)>>
ElGamalRegistry == <<f("Owner", Key), f("ElGamalPubkey", ElGamalPubkey)>>

DecodeConfidentialTransferMint(data) ==
  DecodeExact("ConfidentialTransferMint", ConfidentialTransferMint, 2 * KeyLength + 1, data)
DecodeConfidentialTransferAccount(data) ==
  DecodeExact("ConfidentialTransferAccount", ConfidentialTransferAccount,
              7 * KeyLength + AeLength + 4 * Bytes64 + 3, data)
DecodeConfidentialTransferFeeConfig(data) ==
  DecodeExact("ConfidentialTransferFeeConfig", ConfidentialTransferFeeConfig,
              4 * KeyLength + 1, data)
DecodeConfidentialTransferFeeAmount(data) ==
  DecodeExact("ConfidentialTransferFeeAmount", ConfidentialTransferFeeAmount,
              2 * KeyLength, data)
DecodeConfidentialMintBurn(data) ==
  DecodeExact("ConfidentialMintBurn", ConfidentialMintBurn, 5 * KeyLength + AeLength, data)
DecodeElGamalRegistry(data) ==
  DecodeExact("ElGamalRegistry", ElGamalRegistry, 2 * KeyLength, data)
=============================================================================
