----------------------------- MODULE ZkProofs ------------------------------
(* The sigma proofs of Token-2022 confidential transfers, from             *)
(* src/programs/token-2022: for each kind the generator and the verifier.  *)
(* Proof data are the proof's discriminator, the words of its context and  *)
(* the words of the proof; a verifier that returns no error is TRUE.       *)
EXTENDS ElGamal

ProofData(discriminator, context, proof) ==
  [err |-> "nil", disc |-> discriminator, context |-> context, proof |-> proof]
NoProof(err) == [err |-> err, disc |-> 0, context |-> <<>>, proof |-> <<>>]

AllCanonical(words) == \A i \in DOMAIN words : Canonical(words[i])

newZKElGamalTranscript(label) == <<<<"dom-sep", <<LabelNumber(label)>>>>>>
Separator(label) == <<"dom-sep", <<LabelNumber(label)>>>>
Labelled(labels, words) == [i \in DOMAIN words |-> <<labels[i], <<words[i]>>>>]

Response(challenge, secret, nonce) == Plus(Times(challenge, secret), nonce)

(* 4: the public key has a secret key *)
pubkeyValidityTranscript(publicKey, commitment) ==
  newZKElGamalTranscript("pubkey-validity-instruction") \o
    <<<<"pubkey", <<publicKey>>>>, Separator("pubkey-proof"), <<"Y", <<commitment>>>>>>

GeneratePubkeyValidityProof(keypair, random) ==
  LET nonce == Random(random, 1)
      commitment == Times(OpeningBasepoint, nonce)
      challenge == ExtractScalar(pubkeyValidityTranscript(keypair.public, commitment), "c")
  IN IF ~KeypairMatches(keypair) THEN NoProof("plain")
     ELSE ProofData(4, <<keypair.public>>,
            <<commitment, Response(challenge, Invert(keypair.secret), nonce)>>)

VerifyPubkeyValidityProof(data) ==
  /\ data.disc = 4 /\ Len(data.context) = 1 /\ Len(data.proof) = 2
  /\ AllCanonical(data.context \o data.proof)
  /\ data.context[1] # 0 /\ data.proof[1] # 0
  /\ LET challenge == ExtractScalar(
                        pubkeyValidityTranscript(data.context[1], data.proof[1]), "c")
     IN MultiscalarMul(<<data.proof[2], Neg(challenge), Neg(1)>>,
                       <<OpeningBasepoint, data.context[1], data.proof[1]>>) = 0

(* 1: a ciphertext of zero *)
zeroCiphertextTranscript(context, commitments) ==
  newZKElGamalTranscript("zero-ciphertext-instruction") \o
    <<<<"pubkey", <<context[1]>>>>, <<"ciphertext", <<context[2], context[3]>>>>,
      Separator("zero-ciphertext-proof")>> \o Labelled(<<"Y_P", "Y_D">>, commitments)

GenerateZeroCiphertextProof(keypair, ciphertext, random) ==
  LET nonce == Random(random, 1)
      commitments == <<Times(keypair.public, nonce), Times(ciphertext[2], nonce)>>
      context == <<keypair.public>> \o ciphertext
      challenge == ExtractScalar(zeroCiphertextTranscript(context, commitments), "c")
  IN IF ~KeypairMatches(keypair) \/ ~AllCanonical(ciphertext) THEN NoProof("plain")
     ELSE IF DecryptElGamalTarget(keypair.secret, ciphertext) # 0 THEN NoProof("plain")
     ELSE ProofData(1, context,
            commitments \o <<Response(challenge, keypair.secret, nonce)>>)

VerifyZeroCiphertextProof(data) ==
  /\ data.disc = 1 /\ Len(data.context) = 3 /\ Len(data.proof) = 3
  /\ AllCanonical(data.context \o data.proof)
  /\ 0 \notin {data.context[1], data.context[2], data.context[3], data.proof[1]}
  /\ LET transcript == zeroCiphertextTranscript(data.context, SubSeq(data.proof, 1, 2))
         z == data.proof[3]
         relation(c, w) == MultiscalarMul(
          <<z, Neg(c), Neg(1), Times(w, z), Neg(Times(w, c)), Neg(w)>>,
          <<data.context[1], OpeningBasepoint, data.proof[1],
            data.context[3], data.context[2], data.proof[2]>>) = 0
     IN relation(ExtractScalar(transcript, "c"),
                 ExtractScalar(AppendMessage(Extracted(transcript, "c"), "z", <<z>>), "w"))

(* Equality of amounts *)
commitmentLabels == <<"Y_0", "Y_1", "Y_2", "Y_3">>

elGamalDecryptionMatchesAmount(secret, ciphertext, amount) ==
  DecryptElGamalTarget(secret, ciphertext) = Times(Basepoint, amount)

appendEqualityResponses(transcript, responses) ==
  ExtractScalar(Extracted(transcript, "c") \o Labelled(<<"z_s", "z_x", "z_r">>, responses), "w")

\* 2: two ciphertexts, of the prover's key and of another
ciphertextCiphertextEqualityTranscript(context, commitments) ==
  newZKElGamalTranscript("ciphertext-ciphertext-equality-instruction") \o
    <<<<"first-pubkey", <<context[1]>>>>, <<"second-pubkey", <<context[2]>>>>,
      <<"first-ciphertext", SubSeq(context, 3, 4)>>,
      <<"second-ciphertext", SubSeq(context, 5, 6)>>,
      Separator("ciphertext-ciphertext-equality-proof")>>
    \o Labelled(commitmentLabels, commitments)

GenerateCiphertextCiphertextEqualityProof(first, secondPubkey, firstCiphertext, secondCiphertext, secondOpening, amount, random) ==
  LET secretNonce == Random(random, 1)
      amountNonce == Random(random, 2)
      openingNonce == Random(random, 3)
      commitments ==
        <<Times(first.public, secretNonce),
          MultiscalarMul(<<amountNonce, secretNonce>>, <<Basepoint, firstCiphertext[2]>>),
          MultiscalarMul(<<amountNonce, openingNonce>>, <<Basepoint, OpeningBasepoint>>),
          Times(secondPubkey, openingNonce)>>
      context == <<first.public, secondPubkey>> \o firstCiphertext \o secondCiphertext
      responses(c) == <<Response(c, first.secret, secretNonce), Response(c, amount, amountNonce),
                        Response(c, secondOpening, openingNonce)>>
  IN IF \/ ~KeypairMatches(first) \/ ~AllCanonical(<<secondPubkey>> \o firstCiphertext)
        \/ ~elGamalDecryptionMatchesAmount(first.secret, firstCiphertext, amount)
        \/ EncryptElGamal(secondPubkey, amount, secondOpening) # secondCiphertext
     THEN NoProof("plain")
     ELSE ProofData(2, context, commitments \o responses(
            ExtractScalar(ciphertextCiphertextEqualityTranscript(context, commitments), "c")))

VerifyCiphertextCiphertextEqualityProof(data) ==
  /\ data.disc = 2 /\ Len(data.context) = 6 /\ Len(data.proof) = 7
  /\ AllCanonical(data.context \o data.proof)
  /\ \A i \in 1 .. 4 : data.context[i] # 0 /\ data.proof[i] # 0
  /\ LET Y == SubSeq(data.proof, 1, 4)
         z == SubSeq(data.proof, 5, 7)
         transcript == ciphertextCiphertextEqualityTranscript(data.context, Y)
         relation(c, w, ww, www) == MultiscalarMul(
          <<z[1], Neg(c), Neg(1),
            Times(w, z[2]), Times(w, z[1]), Times(Neg(w), c), Neg(w),
            Times(ww, z[2]), Times(ww, z[3]), Times(Neg(ww), c), Neg(ww),
            Times(www, z[3]), Times(Neg(www), c), Neg(www)>>,
          <<data.context[1], OpeningBasepoint, Y[1],
            Basepoint, data.context[4], data.context[3], Y[2],
            Basepoint, OpeningBasepoint, data.context[5], Y[3],
            data.context[2], data.context[6], Y[4]>>) = 0
         powers(c, w) == relation(c, w, Power(w, 2), Power(w, 3))
     IN powers(ExtractScalar(transcript, "c"), appendEqualityResponses(transcript, z))

\* 3: a ciphertext and a commitment
ciphertextCommitmentEqualityTranscript(context, commitments) ==
  newZKElGamalTranscript("ciphertext-commitment-equality-instruction") \o
    <<<<"pubkey", <<context[1]>>>>, <<"ciphertext", SubSeq(context, 2, 3)>>,
      <<"commitment", <<context[4]>>>>, Separator("ciphertext-commitment-equality-proof")>>
    \o Labelled(commitmentLabels, commitments)

GenerateCiphertextCommitmentEqualityProof(keypair, ciphertext, commitment, opening, amount, random) ==
  LET secretNonce == Random(random, 1)
      amountNonce == Random(random, 2)
      openingNonce == Random(random, 3)
      commitments ==
        <<Times(keypair.public, secretNonce),
          MultiscalarMul(<<amountNonce, secretNonce>>, <<Basepoint, ciphertext[2]>>),
          MultiscalarMul(<<amountNonce, openingNonce>>, <<Basepoint, OpeningBasepoint>>)>>
      context == <<keypair.public>> \o ciphertext \o <<commitment>>
      responses(c) == <<Response(c, keypair.secret, secretNonce), Response(c, amount, amountNonce),
                        Response(c, opening, openingNonce)>>
  IN IF \/ ~KeypairMatches(keypair) \/ ~AllCanonical(ciphertext)
        \/ ~elGamalDecryptionMatchesAmount(keypair.secret, ciphertext, amount)
        \/ CommitPedersen(amount, opening) # commitment
     THEN NoProof("plain")
     ELSE ProofData(3, context, commitments \o responses(
            ExtractScalar(ciphertextCommitmentEqualityTranscript(context, commitments), "c")))

VerifyCiphertextCommitmentEqualityProof(data) ==
  /\ data.disc = 3 /\ Len(data.context) = 4 /\ Len(data.proof) = 6
  /\ AllCanonical(data.context \o data.proof)
  /\ \A i \in 1 .. 4 : data.context[i] # 0
  /\ \A i \in 1 .. 3 : data.proof[i] # 0
  /\ LET Y == SubSeq(data.proof, 1, 3)
         z == SubSeq(data.proof, 4, 6)
         transcript == ciphertextCommitmentEqualityTranscript(data.context, Y)
         relation(c, w, ww) == MultiscalarMul(
          <<z[1], Neg(c), Neg(1),
            Times(w, z[2]), Times(w, z[1]), Times(Neg(w), c), Neg(w),
            Times(ww, z[2]), Times(ww, z[3]), Times(Neg(ww), c), Neg(ww)>>,
          <<data.context[1], OpeningBasepoint, Y[1],
            Basepoint, data.context[3], data.context[2], Y[2],
            Basepoint, OpeningBasepoint, data.context[4], Y[3]>>) = 0
         powers(c, w) == relation(c, w, Power(w, 2))
     IN powers(ExtractScalar(transcript, "c"), appendEqualityResponses(transcript, z))

(* 9 to 12: one or two grouped ciphertexts, of 2 or 3 public keys, are     *)
(* well formed                                                             *)
validityLabels(handles, count) ==
  CASE handles = 2 /\ count = 1 -> "grouped-ciphertext-validity-2-handles-instruction"
    [] handles = 2 /\ count = 2 -> "batched-grouped-ciphertext-validity-2-handles-instruction"
    [] handles = 3 /\ count = 1 -> "grouped-ciphertext-validity-3-handles-instruction"
    [] handles = 3 /\ count = 2 -> "batched-grouped-ciphertext-validity-3-handles-instruction"

validityDiscriminator(handles, count) == 9 + 2 * (handles - 2) + (count - 1)

groupedCiphertextValidityTranscript(context, handles, count) ==
  LET size == handles + 1
      ciphertext(k) == SubSeq(context, handles + (k - 1) * size + 1, handles + k * size)
  IN newZKElGamalTranscript(validityLabels(handles, count))
       \o Labelled(<<"first-pubkey", "second-pubkey", "third-pubkey">>,
                   SubSeq(context, 1, handles))
       \o (IF count = 1 THEN <<<<"grouped-ciphertext", ciphertext(1)>>>>
           ELSE <<<<"grouped-ciphertext-lo", ciphertext(1)>>,
                  <<"grouped-ciphertext-hi", ciphertext(2)>>>>)

appendBatchedValidityDomainSeparator(transcript, handles) ==
  transcript \o <<Separator("batched-validity-proof"), <<"handles", <<handles>>>>>>
appendValidityDomainSeparator(transcript, handles) ==
  transcript \o <<Separator("validity-proof"), <<"handles", <<handles>>>>>>

\* What the proof itself is about: the batch, folded by the challenge t.
validityBatch(transcript, handles, count) ==
  LET batched == appendBatchedValidityDomainSeparator(transcript, handles)
  IN IF count = 1 THEN [t |-> 0, transcript |-> transcript]
     ELSE [t |-> ExtractScalar(batched, "t"), transcript |-> Extracted(batched, "t")]

generateGroupedCiphertextValidityProofDirect(publicKeys, amount, opening, transcript, random) ==
  LET openingNonce == Random(random, 1)
      amountNonce == Random(random, 2)
      commitments ==
        <<MultiscalarMul(<<openingNonce, amountNonce>>, <<OpeningBasepoint, Basepoint>>)>> \o
          [i \in DOMAIN publicKeys |-> Times(publicKeys[i], openingNonce)]
      c == ExtractScalar(appendValidityDomainSeparator(transcript, Len(publicKeys))
                           \o Labelled(commitmentLabels, commitments), "c")
  IN commitments \o <<Response(c, opening, openingNonce), Response(c, amount, amountNonce)>>

generateGroupedCiphertextValidityProof(publicKeys, ciphertexts, amounts, openings, random) ==
  LET handles == Len(publicKeys)
      count == Len(ciphertexts)
      context == publicKeys \o ciphertexts[1] \o (IF count = 2 THEN ciphertexts[2] ELSE <<>>)
      folded(values, t) == IF count = 1 THEN values[1] ELSE Plus(values[1], Times(values[2], t))
      proof(batch) == generateGroupedCiphertextValidityProofDirect(
                        publicKeys, folded(amounts, batch.t), folded(openings, batch.t),
                        batch.transcript, random)
  IN IF \/ ~AllCanonical(publicKeys)
        \/ \E i \in 1 .. count :
             encryptGroupedElGamal(publicKeys, amounts[i], openings[i]) # ciphertexts[i]
     THEN NoProof("plain")
     ELSE ProofData(validityDiscriminator(handles, count), context,
            proof(validityBatch(groupedCiphertextValidityTranscript(context, handles, count),
                                handles, count)))

\* A key that may be left out (the auditor's) is the identity, and so are
\* then its handle and the last commitment.
verifyGroupedCiphertextValidityProofDirect(publicKeys, ciphertext, proof, transcript) ==
  LET handles == Len(publicKeys)
      Y == SubSeq(proof, 1, handles + 1)
      z == SubSeq(proof, handles + 2, handles + 3)
      committed == appendValidityDomainSeparator(transcript, handles)
                     \o Labelled(commitmentLabels, Y)
      first(c) == MultiscalarMul(<<z[1], z[2], Neg(c), Neg(1)>>,
                                 <<OpeningBasepoint, Basepoint, ciphertext[1], Y[1]>>)
      handle(i, c, power) == MultiscalarMul(
        <<Times(power, z[1]), Times(Neg(power), c), Neg(power)>>,
        <<publicKeys[i], ciphertext[i + 1], Y[i + 1]>>)
      relation(c, w) ==
        MultiscalarMul([i \in 1 .. handles + 1 |-> 1],
          <<first(c)>> \o [i \in 1 .. handles |-> handle(i, c, Power(w, i))]) = 0
  IN /\ \A i \in 1 .. handles : Y[i] # 0
     /\ relation(ExtractScalar(committed, "c"),
          ExtractScalar(Extracted(committed, "c") \o Labelled(<<"z_r", "z_x">>, z), "w"))

verifyGroupedCiphertextValidityProof(data, handles, count) ==
  LET size == handles + 1
      ciphertext(k) == SubSeq(data.context, handles + (k - 1) * size + 1, handles + k * size)
      publicKeys == SubSeq(data.context, 1, handles)
      folded(t) == IF count = 1 THEN ciphertext(1)
                   ELSE [i \in 1 .. size |-> Plus(ciphertext(1)[i], Times(ciphertext(2)[i], t))]
      direct(batch) == verifyGroupedCiphertextValidityProofDirect(
                         publicKeys, folded(batch.t), data.proof, batch.transcript)
  IN /\ data.disc = validityDiscriminator(handles, count)
     /\ Len(data.context) = handles + count * size /\ Len(data.proof) = handles + 3
     /\ AllCanonical(data.context \o data.proof)
     /\ publicKeys[1] # 0 /\ (handles = 3 => publicKeys[2] # 0)
     /\ \A k \in 1 .. count : ciphertext(k)[1] # 0
     /\ direct(validityBatch(groupedCiphertextValidityTranscript(data.context, handles, count),
                             handles, count))

(* 5: an amount is the maximum, or the delta of a percentage is the one    *)
(* claimed; the branch that does not hold is simulated                     *)
percentageWithCapTranscript(context, Y) ==
  newZKElGamalTranscript("percentage-with-cap-instruction") \o
    Labelled(<<"percentage-commitment", "delta-commitment", "claimed-commitment", "max-value">>,
             context) \o <<Separator("percentage-with-cap-proof")>> \o
    Labelled(<<"Y_max_proof", "Y_delta", "Y_claimed">>, Y)

percentageWithCapAboveProof(percentageOpening, context, random) ==
  LET zX == Random(random, 1)
      zDelta == Random(random, 2)
      zClaimed == Random(random, 3)
      equalityChallenge == Random(random, 4)
      yMaxScalar == Random(random, 5)
      simulated(z, point) == MultiscalarMul(<<zX, z, Neg(equalityChallenge)>>,
                                            <<Basepoint, OpeningBasepoint, point>>)
      Y == <<Times(OpeningBasepoint, yMaxScalar),
             simulated(zDelta, context[2]), simulated(zClaimed, context[3])>>
      proof(y, cMax) == <<y[1], Response(cMax, percentageOpening, yMaxScalar), cMax, y[2], y[3],
                          zX, zDelta, zClaimed>>
      challenged(y) == proof(y, Minus(ExtractScalar(percentageWithCapTranscript(context, y), "c"),
                                      equalityChallenge))
  IN challenged(Y)

percentageWithCapBelowProof(deltaOpening, deltaAmount, claimedOpening, context, random) ==
  LET zMax == Random(random, 6)
      cMax == Random(random, 7)
      yX == Random(random, 8)
      yDelta == Random(random, 9)
      yClaimed == Random(random, 10)
      Y == <<MultiscalarMul(<<zMax, Neg(cMax), Times(cMax, context[4])>>,
                            <<OpeningBasepoint, context[1], Basepoint>>),
             CommitPedersen(yX, yDelta), CommitPedersen(yX, yClaimed)>>
      proof(y, equalityChallenge) ==
        <<y[1], zMax, cMax, y[2], y[3], Response(equalityChallenge, deltaAmount, yX),
          Response(equalityChallenge, deltaOpening, yDelta),
          Response(equalityChallenge, claimedOpening, yClaimed)>>
      challenged(y) ==
        proof(y, Minus(ExtractScalar(percentageWithCapTranscript(context, y), "c"), cMax))
  IN challenged(Y)

GeneratePercentageWithCapProof(percentage, delta, claimed, maxValue, random) ==
  LET context == <<percentage.commitment, delta.commitment, claimed.commitment, maxValue>>
  IN IF \/ CommitPedersen(percentage.amount, percentage.opening) # percentage.commitment
        \/ CommitPedersen(delta.amount, claimed.opening) # claimed.commitment
        \/ percentage.amount > maxValue
        \/ /\ percentage.amount < maxValue
           /\ CommitPedersen(delta.amount, delta.opening) # delta.commitment
     THEN NoProof("plain")
     ELSE ProofData(5, context,
            IF percentage.amount < maxValue
            THEN percentageWithCapBelowProof(delta.opening, delta.amount, claimed.opening, context, random)
            ELSE percentageWithCapAboveProof(percentage.opening, context, random))

VerifyPercentageWithCapProof(data) ==
  /\ data.disc = 5 /\ Len(data.context) = 4 /\ Len(data.proof) = 8
  /\ AllCanonical(SubSeq(data.context, 1, 3) \o data.proof)
  /\ 0 \notin {data.context[1], data.context[2], data.context[3],
               data.proof[1], data.proof[4], data.proof[5]}
  /\ LET Y == <<data.proof[1], data.proof[4], data.proof[5]>>
         zMax == data.proof[2]
         cMax == data.proof[3]
         zX == data.proof[6]
         zDelta == data.proof[7]
         zClaimed == data.proof[8]
         transcript == percentageWithCapTranscript(data.context, Y)
         relation(equalityChallenge, w, ww) == MultiscalarMul(
          <<cMax, Neg(Times(cMax, data.context[4] % Order)), Neg(zMax), 1,
            Times(w, zX), Times(w, zDelta), Neg(Times(w, equalityChallenge)), Neg(w),
            Times(ww, zX), Times(ww, zClaimed), Neg(Times(ww, equalityChallenge)), Neg(ww)>>,
          <<data.context[1], Basepoint, OpeningBasepoint, Y[1],
            Basepoint, OpeningBasepoint, data.context[2], Y[2],
            Basepoint, OpeningBasepoint, data.context[3], Y[3]>>) = 0
         powers(c, w) == relation(Minus(c, cMax), w, Power(w, 2))
     IN powers(ExtractScalar(transcript, "c"),
               ExtractScalar(Extracted(transcript, "c") \o
                 Labelled(<<"z_max", "c_max_proof", "z_x", "z_delta_real", "z_claimed">>,
                          <<zMax, cMax, zX, zDelta, zClaimed>>), "w"))
=============================================================================
