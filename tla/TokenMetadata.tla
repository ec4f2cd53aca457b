--------------------------- MODULE TokenMetadata ---------------------------
(***************************************************************************)
(* Package programs/token-metadata.  An instruction that the package knows *)
(* by name only is decoded to its raw data.                                *)
(***************************************************************************)
EXTENDS Instruction

Creators == Opt(Vec(U32, Tuple(<<Key, Bool, U8>>)))
Data     == Tuple(<<Borsh, Borsh, Borsh, U16, Creators>>)
Collection == Opt(Tuple(<<Bool, Key>>))
Uses       == Opt(Tuple(<<U8, U64, U64>>))
DataV2     == Tuple(<<Data, Collection, Uses>>)

UpdateArgs   == <<f("Data", Opt(Data)), f("UpdateAuthority", Opt(Key)),
                  f("PrimarySaleHappened", Opt(Bool))>>
UpdateArgsV2 == <<f("Data", Opt(DataV2)), f("UpdateAuthority", Opt(Key)),
                  f("PrimarySaleHappened", Opt(Bool)), f("IsMutable", Opt(Bool))>>
MaxSupply    == <<f("MaxSupply", Opt(U64))>>

metadataAccounts      == <<W, R, S, WS, R, R, R>>
updateAccounts        == <<W, S>>
masterEditionAccounts == <<W, W, S, S, WS, R, R, R, R>>
collectionAccounts    == <<W, S, WS, R, R, R>>

CreateMetadataAccount == Ix("CreateMetadataAccount", 0,
  <<f("Data", Data), f("IsMutable", Bool)>>, metadataAccounts)
UpdateMetadataAccount == Ix("UpdateMetadataAccount", 1, UpdateArgs, updateAccounts)
UpdatePrimarySaleHappenedViaToken ==
  Ix("UpdatePrimarySaleHappenedViaToken", 4, <<>>, <<W, S, R>>)
SignMetadata == Ix("SignMetadata", 7, <<>>, <<W, S>>)
CreateMasterEdition == Ix("CreateMasterEdition", 10, MaxSupply, masterEditionAccounts)
PuffMetadata == Ix("PuffMetadata", 14, <<>>, <<W>>)
UpdateMetadataAccountV2 == Ix("UpdateMetadataAccountV2", 15, UpdateArgsV2, updateAccounts)
CreateMetadataAccountV2 == Ix("CreateMetadataAccountV2", 16,
  <<f("Data", DataV2), f("IsMutable", Bool)>>, metadataAccounts)
CreateMasterEditionV3 == Ix("CreateMasterEditionV3", 17, MaxSupply, masterEditionAccounts)
VerifyCollection == Ix("VerifyCollection", 18, <<>>, collectionAccounts)
UnverifyCollection == Ix("UnverifyCollection", 22, <<>>, collectionAccounts)

Instructions ==
  {CreateMetadataAccount, UpdateMetadataAccount, UpdatePrimarySaleHappenedViaToken,
   SignMetadata, CreateMasterEdition, PuffMetadata, UpdateMetadataAccountV2,
   CreateMetadataAccountV2, CreateMasterEditionV3, VerifyCollection, UnverifyCollection}

Cases ==
  {<<0, "CreateMetadataAccount", <<f("Data", Data), f("IsMutable", Bool)>>>>,
   <<1, "UpdateMetadataAccount",
     <<f("Data", Opt(Data)), f("UpdateAuthority", Opt(Key)),
       f("PrimarySaleHappened", Opt(Bool))>>>>,
   <<4, "UpdatePrimarySaleHappenedViaToken", <<>>>>,
   <<7, "SignMetadata", <<>>>>,
   <<10, "CreateMasterEdition", <<f("MaxSupply", Opt(U64))>>>>,
   <<14, "PuffMetadata", <<>>>>,
   <<15, "UpdateMetadataAccountV2",
     <<f("Data", Opt(DataV2)), f("UpdateAuthority", Opt(Key)),
       f("PrimarySaleHappened", Opt(Bool)), f("IsMutable", Opt(Bool))>>>>,
   <<16, "CreateMetadataAccountV2", <<f("Data", DataV2), f("IsMutable", Bool)>>>>,
   <<17, "CreateMasterEditionV3", <<f("MaxSupply", Opt(U64))>>>>,
   <<18, "VerifyCollection", <<>>>>,
   <<22, "UnverifyCollection", <<>>>>}

RevokeCollectionAuthority == 24
RawTags == (0..RevokeCollectionAuthority) \ {c[1] : c \in Cases}

DecodeInstruction(data) ==
  IF data # <<>> /\ data[1] \in RawTags
  THEN [err |-> "nil", typ |-> "Raw", values |-> [DataBytes |-> data]]
  ELSE DecodeWith(U8, Cases, data)

-----------------------------------------------------------------------------
(* The accounts, written by the on-chain program.  Metadata of an older    *)
(* version ends before one of its last four options.                       *)

Late(k) == Default(k, <<>>)

Metadata ==
  <<f("Key", U8), f("UpdateAuthority", Key), f("Mint", Key), f("Data", Data),
    f("PrimarySaleHappened", Bool), f("IsMutable", Bool), f("EditionNonce", Late(Opt(U8))),
    f("TokenStandard", Late(Opt(U8))), f("Collection", Late(Collection)),
    f("Uses", Late(Uses))>>
MasterEditionV2 == <<f("Key", U8), f("Supply", U64), f("MaxSupply", Opt(U64))>>
Edition         == <<f("Key", U8), f("Parent", Key), f("Edition", U64)>>
EditionMarker   == <<f("Key", U8), f("Ledger", Bytes(KeyLength - 1))>>

DecodeMetadata(data) == Decoded("Metadata", ReadFields(NewDecoder(data), Metadata))
DecodeMasterEditionV2(data) ==
  Decoded("MasterEditionV2", ReadFields(NewDecoder(data), MasterEditionV2))
DecodeEdition(data) == Decoded("Edition", ReadFields(NewDecoder(data), Edition))
DecodeEditionMarker(data) ==
  Decoded("EditionMarker", ReadFields(NewDecoder(data), EditionMarker))
=============================================================================
