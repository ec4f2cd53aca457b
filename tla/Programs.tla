----------------------------- MODULE Programs -----------------------------
(***************************************************************************)
(* An instruction on its way: a client builds it and encodes it, its bytes *)
(* travel, and a reader decodes them with the decoder of the program they  *)
(* are addressed to.  The bytes arrive whole, cut short, with one byte     *)
(* changed, or followed by others.  An account travels the same way, from  *)
(* the on-chain program that wrote it.                                     *)
(***************************************************************************)
EXTENDS Instruction

CONSTANTS MaxSeedLength, MaxLockoutHistory, LookupTableMaxAddresses, MaxSigners,
          Arguments(_),   \* the values enumerated for a layout, each a function of its names
          ExtensionLists, \* the extensions enumerated for a mint and an account
          ListLengths(_), \* how many accounts are given for each list of an instruction
          Altered         \* the values a changed byte takes

Vote     == INSTANCE VoteProgram
Native   == INSTANCE NativePrograms
Token    == INSTANCE TokenProgram
Metadata == INSTANCE TokenMetadata
Zk       == INSTANCE ZkElGamal

\* The base instructions of Token-2022 are those of Token, for its decoder.
ProgramNames ==
  {"System", "Stake", "Vote", "LoaderV2", "LoaderV3", "LoaderV4", "Budget", "Lookup", "Token",
   "TokenBy2022", "Token2022", "Confidential", "Metadata", "ZkProof", "Record", "Registry"}

InstructionsOf(p) ==
  CASE p = "System"      -> Native!SystemInstructions
    [] p = "Stake"       -> Native!StakeInstructions
    [] p = "Vote"        -> Vote!Instructions
    [] p = "LoaderV2"    -> Native!V2Instructions
    [] p = "LoaderV3"    -> Native!V3Instructions
    [] p = "LoaderV4"    -> Native!V4Instructions
    [] p = "Budget"      -> Native!BudgetInstructions
    [] p = "Lookup"      -> Native!LookupInstructions
    [] p \in {"Token", "TokenBy2022"} -> Token!TokenInstructions
    [] p = "Token2022"    -> Zk!ExtensionInstructions
    [] p = "Confidential" -> Zk!ConfidentialInstructionTypes
    [] p = "Metadata"     -> Metadata!Instructions
    [] p = "ZkProof"      -> Zk!ZKProofInstructions
    [] p = "Record"       -> Zk!RecordInstructions
    [] p = "Registry"     -> Zk!RegistryInstructions

DataOf(p, ix, v) ==
  CASE p = "Vote" -> Vote!Data(ix, v)
    [] p \in {"System", "Stake", "LoaderV2", "LoaderV3", "LoaderV4", "Lookup"}
         -> DataWith(U32, ix, v)
    [] p \in {"Token2022", "Confidential"} -> Zk!Data(ix, v)
    [] OTHER -> DataWith(U8, ix, v)

DecodeOf(p, data) ==
  CASE p = "Vote"     -> Vote!DecodeInstruction(data)
    [] p \in {"System", "Stake", "LoaderV2", "LoaderV3", "LoaderV4", "Lookup"} ->
         DecodeWith(U32, CASE p = "System"   -> Native!SystemCases
                           [] p = "Stake"    -> Native!StakeCases
                           [] p = "LoaderV2" -> Native!V2Cases
                           [] p = "LoaderV3" -> Native!V3Cases
                           [] p = "LoaderV4" -> Native!V4Cases
                           [] p = "Lookup"   -> Native!LookupCases, data)
    [] p = "Budget"   -> DecodeWith(U8, Native!BudgetCases(data), data)
    [] p = "Token"    -> Token!DecodeInstructionWithProgramID(data)
    [] p \in {"TokenBy2022", "Token2022", "Confidential"} -> Zk!DecodeInstruction(data)
    [] p = "Metadata" -> Metadata!DecodeInstruction(data)
    [] p = "ZkProof"  -> Zk!DecodeZKProofInstruction(data)
    [] p = "Record"   -> Zk!DecodeConfidentialRecordInstruction(data)
    [] p = "Registry" -> Zk!DecodeElGamalRegistryInstruction(data)

\* The fields a caller gives for an instruction.
FieldsOf(p, i) == IF p = "Vote" THEN Vote!FieldsOf(i) ELSE i.writes

\* The accounts a program writes, and their decoders.
AccountNames ==
  {"Mint", "Account", "Multisig", "MetadataAccount", "MasterEditionV2", "Edition",
   "EditionMarker", "ConfidentialTransferMint", "ConfidentialTransferAccount",
   "ConfidentialTransferFeeConfig", "ConfidentialTransferFeeAmount", "ConfidentialMintBurn",
   "ElGamalRegistry", "Record"}

\* The account a verified proof's context is left in, by discriminator.
ContextNames ==
  <<"ZeroCiphertextContext", "CiphertextCiphertextEqualityContext",
    "CiphertextCommitmentEqualityContext", "PubkeyValidityContext",
    "PercentageWithCapContext", "BatchedRangeU64Context", "BatchedRangeU128Context",
    "BatchedRangeU256Context", "GroupedCiphertext2HandlesContext",
    "BatchedGroupedCiphertext2HandlesContext", "GroupedCiphertext3HandlesContext",
    "BatchedGroupedCiphertext3HandlesContext">>

AccountLayout(a) ==
  CASE a = "Mint"                          -> Token!Mint
    [] a = "Account"                       -> Token!Account
    [] a = "Multisig"                      -> Token!Multisig
    [] a = "MetadataAccount"               -> Metadata!Metadata
    [] a = "MasterEditionV2"               -> Metadata!MasterEditionV2
    [] a = "Edition"                       -> Metadata!Edition
    [] a = "EditionMarker"                 -> Metadata!EditionMarker
    [] a = "ConfidentialTransferMint"      -> Zk!ConfidentialTransferMint
    [] a = "ConfidentialTransferAccount"   -> Zk!ConfidentialTransferAccount
    [] a = "ConfidentialTransferFeeConfig" -> Zk!ConfidentialTransferFeeConfig
    [] a = "ConfidentialTransferFeeAmount" -> Zk!ConfidentialTransferFeeAmount
    [] a = "ConfidentialMintBurn"          -> Zk!ConfidentialMintBurn
    [] a = "ElGamalRegistry"               -> Zk!ElGamalRegistry
    [] a = "Record"                        -> Zk!Record

DecodeAccountOf(a, data) ==
  CASE a = "Mint"                          -> Token!DecodeMint(data)
    [] a = "Account"                       -> Token!DecodeAccount(data)
    [] a = "Multisig"                      -> Token!DecodeMultisig(data)
    [] a = "MetadataAccount"               -> Metadata!DecodeMetadata(data)
    [] a = "MasterEditionV2"               -> Metadata!DecodeMasterEditionV2(data)
    [] a = "Edition"                       -> Metadata!DecodeEdition(data)
    [] a = "EditionMarker"                 -> Metadata!DecodeEditionMarker(data)
    [] a = "ConfidentialTransferMint"      -> Zk!DecodeConfidentialTransferMint(data)
    [] a = "ConfidentialTransferAccount"   -> Zk!DecodeConfidentialTransferAccount(data)
    [] a = "ConfidentialTransferFeeConfig" -> Zk!DecodeConfidentialTransferFeeConfig(data)
    [] a = "ConfidentialTransferFeeAmount" -> Zk!DecodeConfidentialTransferFeeAmount(data)
    [] a = "ConfidentialMintBurn"          -> Zk!DecodeConfidentialMintBurn(data)
    [] a = "ElGamalRegistry"               -> Zk!DecodeElGamalRegistry(data)
    [] a = "Record"                        -> Zk!DecodeConfidentialRecord(data)
    [] a \in ToSet(ContextNames)           -> Zk!DecodeProofContextState(data)

-----------------------------------------------------------------------------
VARIABLES
  phase,    \* "idle", "built", "encoded", "refused" or "received"
  kind,     \* "instruction", "account" or "extended"
  program,  \* the program, or the account
  ix,       \* the instruction type
  values,   \* what was built, or what the account holds
  metas,    \* the accounts the instruction lists
  sent,     \* its bytes
  how,      \* how they arrived
  wire,     \* what arrived
  result    \* what the decoder made of it
vars == <<phase, kind, program, ix, values, metas, sent, how, wire, result>>

NoIx == Ix("none", 0, <<>>, <<>>)
Idle ==
  [phase |-> "idle", kind |-> "instruction", program |-> "System", ix |-> NoIx,
   values |-> <<>>, metas |-> <<>>, sent |-> <<>>, how |-> "whole", wire |-> <<>>,
   result |-> Failed("none")]

Init ==
  /\ phase = Idle.phase /\ kind = Idle.kind /\ program = Idle.program /\ ix = Idle.ix
  /\ values = Idle.values /\ metas = Idle.metas /\ sent = Idle.sent /\ how = Idle.how
  /\ wire = Idle.wire /\ result = Idle.result

\* The constructor.
Build(p, i, args, n) ==
  /\ kind' = "instruction" /\ program' = p /\ ix' = i
  /\ values' = New(i, args, n)
  /\ metas' = Zk!MetasWithProofs(i.roles, n, args)
  /\ phase' = IF Constructs(i, args) THEN "built" ELSE "refused"
  /\ UNCHANGED <<sent, how, wire, result>>

\* The Data method.
Encode ==
  /\ phase = "built"
  /\ LET e == DataOf(program, ix, values)
     IN  /\ sent' = e.data
         /\ phase' = IF e.err = "nil" THEN "encoded" ELSE "refused"
  /\ UNCHANGED <<kind, program, ix, values, metas, how, wire, result>>

\* An on-chain program writes an account of a fixed layout.
WriteAccount(a, v) ==
  /\ phase' = "encoded"
  /\ kind' = "account" /\ program' = a /\ values' = v
  /\ sent' = WriteFields(NewEncoder, AccountLayout(a), v).data
  /\ UNCHANGED <<ix, metas, how, wire, result>>

\* The proof program leaves a context: its authority, its type, its fields.
WriteContext(d, v) ==
  /\ phase' = "encoded"
  /\ kind' = "account" /\ program' = ContextNames[d] /\ values' = v
  /\ sent' = Append(ZeroKey, d) \o WriteFields(NewEncoder, Zk!ContextLayout(d), v).data
  /\ UNCHANGED <<ix, metas, how, wire, result>>

\* Token-2022 writes a mint or an account with extensions: the base, zeros
\* up to the size of an account, a byte for the account's type, the list.
WriteExtended(a, v, list) ==
  LET base == WriteFields(NewEncoder, AccountLayout(a), v).data
      pad  == [i \in 1..(Token!AccountSize - Len(base)) |-> 0]
      tlv(x) == Digits(x[1], 2) \o Digits(Len(x[2]), 2) \o x[2]
  IN  /\ phase' = "encoded"
      /\ kind' = "extended" /\ program' = a /\ values' = <<v, list>>
      /\ sent' = base \o pad \o <<IF a = "Mint" THEN 1 ELSE 2>>
                 \o FlattenSeq([i \in 1..Len(list) |-> tlv(list[i])])
      /\ UNCHANGED <<ix, metas, how, wire, result>>

\* The bytes arrive, and are decoded.
Receive(way, bytes) ==
  /\ phase' = "received"
  /\ how' = way /\ wire' = bytes
  /\ result' = CASE kind = "instruction" -> DecodeOf(program, bytes)
                 [] kind = "account"     -> DecodeAccountOf(program, bytes)
                 [] kind = "extended" /\ program = "Mint" -> Zk!DecodeMint2022(bytes)
                 [] OTHER                -> Zk!DecodeAccount2022(bytes)
  /\ UNCHANGED <<kind, program, ix, values, metas, sent>>

\* The ways they arrive.
Arrivals ==
  {<<"whole", sent>>}
  \union {<<"cut", SubSeq(sent, 1, n)>> : n \in 0..(Len(sent) - 1)}
  \union {<<"changed", [sent EXCEPT ![i] = b]>> : i \in 1..Len(sent), b \in Altered}
  \union {<<"followed", Append(sent, b)>> : b \in Altered}

Again ==
  /\ phase \in {"received", "refused"}
  /\ phase' = Idle.phase /\ kind' = Idle.kind /\ program' = Idle.program /\ ix' = Idle.ix
  /\ values' = Idle.values /\ metas' = Idle.metas /\ sent' = Idle.sent /\ how' = Idle.how
  /\ wire' = Idle.wire /\ result' = Idle.result

Next ==
  \/ /\ phase = "idle"
     /\ \/ \E p \in ProgramNames : \E i \in InstructionsOf(p) : \E n \in ListLengths(i) :
             \E args \in Arguments(FieldsOf(p, i)) : Build(p, i, args, n)
        \/ \E a \in AccountNames : \E v \in Arguments(AccountLayout(a)) : WriteAccount(a, v)
        \/ \E d \in Zk!Discriminators :
             \E v \in Arguments(Zk!ContextLayout(d)) : WriteContext(d, v)
        \/ \E a \in {"Mint", "Account"}, list \in ExtensionLists :
             \E v \in Arguments(AccountLayout(a)) : WriteExtended(a, v, list)
  \/ Encode
  \/ phase = "encoded" /\ \E a \in Arrivals : Receive(a[1], a[2])
  \/ Again

Spec == Init /\ [][Next]_vars
=============================================================================
