----------------------------- MODULE ZkElGamal -----------------------------
(***************************************************************************)
(* Package programs/token-2022: the instructions of the ZK ElGamal proof   *)
(* program, of the record program that stages a proof too large for one    *)
(* transaction, and of the ElGamal registry.                               *)
(***************************************************************************)
EXTENDS Token2022

PedersenCommitment == Key
Grouped(handles)   == Bytes((1 + handles) * KeyLength)

ZeroCiphertext == <<f("Pubkey", ElGamalPubkey), f("Ciphertext", ElGamalCiphertext)>>
CiphertextCiphertextEquality ==
  <<f("FirstPubkey", ElGamalPubkey), f("SecondPubkey", ElGamalPubkey),
    f("FirstCiphertext", ElGamalCiphertext), f("SecondCiphertext", ElGamalCiphertext)>>
CiphertextCommitmentEquality ==
  <<f("Pubkey", ElGamalPubkey), f("Ciphertext", ElGamalCiphertext),
    f("Commitment", PedersenCommitment)>>
PubkeyValidity == <<f("Pubkey", ElGamalPubkey)>>
PercentageWithCap ==
  <<f("PercentageCommitment", PedersenCommitment), f("DeltaCommitment", PedersenCommitment),
    f("ClaimedCommitment", PedersenCommitment), f("MaxValue", U64)>>
BatchedRange ==
  <<f("Commitments", Tuple([i \in 1..8 |-> PedersenCommitment])),
    f("BitLengths", Tuple([i \in 1..8 |-> U8]))>>
\* One grouped ciphertext, or the low and the high part of an amount.
GroupedValidity(handles, parts) ==
  [i \in 1..handles |-> f(<<"First", "Second", "Third">>[i], ElGamalPubkey)]
  \o [i \in 1..parts |-> f(<<"Lo", "Hi">>[i], Grouped(handles))]

Discriminators == 1..12

ContextLayout(disc) ==
  <<ZeroCiphertext, CiphertextCiphertextEquality, CiphertextCommitmentEquality, PubkeyValidity,
    PercentageWithCap, BatchedRange, BatchedRange, BatchedRange, GroupedValidity(2, 1),
    GroupedValidity(2, 2), GroupedValidity(3, 1), GroupedValidity(3, 2)>>[disc]

\* The sizes of the context and of the proof, by discriminator.
zkProofSizes(disc) ==
  LET K == KeyLength
  IN  << <<3 * K, 3 * K>>, <<6 * K, 7 * K>>, <<4 * K, 6 * K>>, <<K, 2 * K>>,
         <<3 * K + Bytes64, 8 * K>>, <<8 * K + 8, 21 * K>>, <<8 * K + 8, 23 * K>>,
         <<8 * K + 8, 25 * K>>, <<5 * K, 5 * K>>, <<8 * K, 5 * K>>, <<7 * K, 6 * K>>,
         <<11 * K, 6 * K>> >>[disc]

VerifyProof(disc) == Ix(<<"VerifyProof", disc>>, disc,
  Append(ContextLayout(disc), f("Proof", Bytes(zkProofSizes(disc)[2]))), <<Maybe(W), Maybe(R)>>)
VerifyProofFromAccount(disc) == Ix(<<"VerifyProofFromAccount", disc>>, disc,
  <<f("Offset", U32)>>, <<R, Maybe(W), Maybe(R)>>)
CloseProofContext == Ix(<<"CloseProofContext", 0>>, 0, <<>>, <<W, W, S>>)

ZKProofInstructions ==
  {CloseProofContext} \union {VerifyProof(d) : d \in Discriminators}
  \union {VerifyProofFromAccount(d) : d \in Discriminators}

\* Told apart by the length: none, an offset, or the context and the proof.
DecodeZKProofInstruction(data) ==
  CASE data = <<>> -> Failed("expected discriminator")
    [] data # <<>> /\ data[1] = 0 ->
         DecodeExact(<<"CloseProofContext", 0>>, <<>>, 0, Tail(data))
    [] data # <<>> /\ data[1] \notin Discriminators \union {0} -> Failed("unknown discriminator")
    [] data # <<>> /\ data[1] \in Discriminators /\ Len(data) = 1 + Bytes32 ->
         Decoded(<<"VerifyProofFromAccount", data[1]>>,
                 ReadFields(NewDecoder(Tail(data)), <<f("Offset", U32)>>))
    [] OTHER ->
         LET size == zkProofSizes(data[1])
         IN  DecodeExact(<<"VerifyProof", data[1]>>,
                         Append(ContextLayout(data[1]), f("Proof", Bytes(size[2]))),
                         size[1] + size[2], Tail(data))

\* The account a verified context is left in: authority, type, context.
\* Before it is initialized its type is 0 and it has no context.
DecodeProofContextState(data) ==
  LET of(typ) ==
        IF typ = 0 THEN [err |-> "nil", typ |-> <<"ContextState", 0>>, values |-> <<>>]
        ELSE IF typ \notin Discriminators THEN Failed("unknown proof type")
        ELSE DecodeExact(<<"ContextState", typ>>, ContextLayout(typ), zkProofSizes(typ)[1],
                         From(data, KeyLength + 2))
  IN  IF Len(data) < KeyLength + 1 THEN Failed("expected at least 33 bytes")
      ELSE of(data[KeyLength + 1])

-----------------------------------------------------------------------------
(* The record program and the registry.                                    *)

InitializeConfidentialRecord == Ix("InitializeRecord", 0, <<>>, <<W, R>>)
WriteConfidentialRecord == Ix("WriteRecord", 1,
  <<f("Offset", U64), f("Data", Vec(U32, U8))>>, <<W, S>>)
SetConfidentialRecordAuthority == Ix("SetRecordAuthority", 2, <<>>, <<W, S, R>>)
CloseConfidentialRecord == Ix("CloseRecord", 3, <<>>, <<W, S, W>>)
ReallocateConfidentialRecord == Ix("ReallocateRecord", 4, <<f("DataLength", U64)>>, <<W, S>>)

RecordInstructions ==
  {InitializeConfidentialRecord, WriteConfidentialRecord, SetConfidentialRecordAuthority,
   CloseConfidentialRecord, ReallocateConfidentialRecord}

\* A write's length must be that of the rest.
DecodeConfidentialRecordInstruction(data) ==
  LET rest   == Tail(data)
      length == Number(SubSeq(rest, Bytes64 + 1, Bytes64 + Bytes32))
  IN  CASE data = <<>> -> Failed("invalid data")
        [] data # <<>> /\ data[1] > 4 -> Failed("invalid data")
        [] data # <<>> /\ data[1] \in {0, 2, 3} ->
             DecodeExact(CASE data[1] = 0 -> "InitializeRecord"
                           [] data[1] = 2 -> "SetRecordAuthority"
                           [] data[1] = 3 -> "CloseRecord", <<>>, 0, rest)
        [] data # <<>> /\ data[1] = 1 ->
             IF \/ Len(rest) < Bytes64 + Bytes32
                \/ length # Len(rest) - Bytes64 - Bytes32
             THEN Failed("invalid data length")
             ELSE Decoded("WriteRecord", ReadFields(NewDecoder(rest),
                            <<f("Offset", U64), f("Data", Vec(U32, U8))>>))
        [] OTHER -> DecodeExact("ReallocateRecord", <<f("DataLength", U64)>>, Bytes64, rest)

\* Version and authority, then the data.
Record == <<f("Version", U8), f("Authority", Key), f("Data", Rest)>>
DecodeConfidentialRecord(data) == Decoded("Record", ReadFields(NewDecoder(data), Record))

CreateElGamalRegistry == Ix(<<"Registry", 0>>, 0, <<Offset("Proof")>>,
  <<W, S, R, Proofs(<<"Proof">>)>>)
UpdateElGamalRegistry == Ix(<<"Registry", 1>>, 1, <<Offset("Proof")>>,
  <<W, Proofs(<<"Proof">>), S>>)
RegistryInstructions == {CreateElGamalRegistry, UpdateElGamalRegistry}

DecodeElGamalRegistryInstruction(data) ==
  IF Len(data) # 2 \/ data[1] > 1 THEN Failed("invalid data")
  ELSE Decoded(<<"Registry", data[1]>>, ReadFields(NewDecoder(Tail(data)), <<f("Proof", I8)>>))
=============================================================================
