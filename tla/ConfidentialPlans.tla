------------------------- MODULE ConfidentialPlans -------------------------
(* The plans of Token-2022 confidential transfers                          *)
(* (src/programs/token-2022/confidential_composed.go, fee_composed,        *)
(* mint_burn_composed and workflows): from a snapshot of the account and   *)
(* the owner's keys, the proofs of an operation, the balance the owner     *)
(* will read afterwards and the instructions that carry them.              *)
EXTENDS RangeProof

CONSTANT MaxSources   \* the most accounts withheld fees are withdrawn from, 255

ZeroCiphertext == <<0, 0>>

\* A plan: the instruction's own data, then the proofs at their offsets.
Plan(kind, amount, decryptable, proofs) ==
  [err |-> "nil", kind |-> kind, amount |-> amount, fee |-> 0, decryptable |-> decryptable,
   auditor |-> <<>>, instructions |-> proofs]
NoPlan(err) ==
  [err |-> err, kind |-> "none", amount |-> 0, fee |-> 0, decryptable |-> EncryptAEAmount("none", 0),
   auditor |-> <<>>, instructions |-> <<>>]

FirstError(results) ==
  LET failed == {i \in DOMAIN results : results[i].err # "nil"}
  IN IF failed = {} THEN "nil"
     ELSE results[CHOOSE i \in failed : \A j \in failed : i <= j].err

\* A proof with an offset follows the instruction, which is at 0, at exactly
\* that offset; without one it is in a context account already.
ConfidentialInstructions(plan, locations) ==
  LET inline == SelectSeq(locations, LAMBDA location : location.offset # 0)
  IN IF \E i \in DOMAIN inline : inline[i].offset # i THEN NoPlan("plain")
     ELSE [plan EXCEPT !.instructions = [i \in DOMAIN inline |-> inline[i].proof]]

\* The proofs of an operation, each in an instruction after it.
WithProofs(plan, proofs) ==
  With(proofs, LAMBDA made :
    IF FirstError(made) # "nil" THEN NoPlan(FirstError(made))
    ELSE ConfidentialInstructions(plan, [i \in DOMAIN made |-> [offset |-> i, proof |-> made[i]]]))

(* The halves of the amount, encrypted for three keys, and the balance     *)
(* after the operation, with the proofs that tie them together             *)
confidentialAmountAfterOperation(currentAmount, amount, currentCiphertext, amountCiphertext, add) ==
  IF add
  THEN IF currentAmount + amount >= U64Limit
       THEN [err |-> "plain", amount |-> 0, ciphertext |-> ZeroCiphertext]
       ELSE [err |-> "nil", amount |-> currentAmount + amount,
             ciphertext |-> AddElGamalCiphertexts(currentCiphertext, amountCiphertext)]
  ELSE IF currentAmount < amount
       THEN [err |-> "insufficientFunds", amount |-> 0, ciphertext |-> ZeroCiphertext]
       ELSE [err |-> "nil", amount |-> currentAmount - amount,
             ciphertext |-> SubtractElGamalCiphertexts(currentCiphertext, amountCiphertext)]

generateConfidentialAmountProofValues(currentCiphertext, currentAmount, amount, keypair, publicKeys, equalityHandle, add, random) ==
  With(<<Random(random, 203), Random(random, 201), Random(random, 202)>>, LAMBDA openings :
  With(SplitAmount(amount), LAMBDA split :
  IF split.err # "nil" THEN [err |-> split.err] ELSE
  With(<<encryptGroupedElGamal(publicKeys, split.low, openings[2]),
         encryptGroupedElGamal(publicKeys, split.high, openings[3])>>, LAMBDA grouped :
  With(confidentialAmountAfterOperation(currentAmount, amount, currentCiphertext,
         CombineElGamalAmountCiphertexts(groupedElGamalHandle(grouped[1], equalityHandle),
                                         groupedElGamalHandle(grouped[2], equalityHandle)), add),
       LAMBDA after :
  IF after.err # "nil" THEN [err |-> after.err] ELSE
  With(CommitPedersen(after.amount, openings[1]), LAMBDA commitment :
  With(<<GenerateCiphertextCommitmentEqualityProof(
           keypair, after.ciphertext, commitment, openings[1], after.amount, random),
         generateGroupedCiphertextValidityProof(
           publicKeys, grouped, <<split.low, split.high>>, SubSeq(openings, 2, 3), random + 1)>>,
       LAMBDA proofs :
  IF FirstError(proofs) # "nil" THEN [err |-> FirstError(proofs)] ELSE
    [err |-> "nil", equality |-> proofs[1], validity |-> proofs[2],
     auditor |-> groupedElGamalHandle(grouped[1], 2) \o groupedElGamalHandle(grouped[2], 2),
     newAmount |-> after.amount, amounts |-> <<after.amount, split.low, split.high>>,
     commitments |-> <<commitment, grouped[1][1], grouped[2][1]>>, openings |-> openings]))))))

generateConfidentialAmountRangeProof(values, random) ==
  LET padding == Random(random, 204)
  IN GenerateBatchedRangeProof(
       values.commitments \o <<CommitPedersen(0, padding)>>, values.amounts \o <<0>>,
       <<AmountBits, LowBits, HighBits, LowBits>>, values.openings \o <<padding>>, random + 2)

\* What a transfer, a mint and a burn have in common.
amountPlan(kind, amount, key, proofValues, random) ==
  With(proofValues, LAMBDA values :
    IF values.err # "nil" THEN NoPlan(values.err)
    ELSE [WithProofs(Plan(kind, amount, EncryptAEAmount(key, values.newAmount), <<>>),
            <<values.equality, values.validity,
              generateConfidentialAmountRangeProof(values, random)>>)
            EXCEPT !.auditor = values.auditor])

ConfidentialWithdrawWithProofs(account, amount, keypair, key, random) ==
  With(DecryptConfidentialAvailableBalance(key, account), LAMBDA current :
  IF current.err # "nil" THEN NoPlan(current.err)
  ELSE IF current.amount < amount THEN NoPlan("insufficientFunds") ELSE
  With(current.amount - amount, LAMBDA remaining :
  With(Random(random, 201), LAMBDA opening :
  With(CommitPedersen(remaining, opening), LAMBDA commitment :
    WithProofs(Plan("withdraw", amount, EncryptAEAmount(key, remaining), <<>>),
      <<GenerateCiphertextCommitmentEqualityProof(
          keypair, SubtractElGamalAmount(account.available, amount),
          commitment, opening, remaining, random),
        GenerateBatchedRangeProof(
          <<commitment>>, <<remaining>>, <<AmountBits>>, <<opening>>, random + 1)>>)))))

ConfidentialTransferWithProofs(account, amount, keypair, key, destination, auditor, random) ==
  With(DecryptConfidentialAvailableBalance(key, account), LAMBDA current :
    IF current.err # "nil" THEN NoPlan(current.err)
    ELSE amountPlan("transfer", amount, key,
           generateConfidentialAmountProofValues(account.available, current.amount, amount, keypair,
             <<keypair.public, destination, auditor>>, 0, FALSE, random), random))

ConfidentialBurnWithProofs(account, amount, keypair, key, supply, auditor, random) ==
  With(DecryptConfidentialAvailableBalance(key, account), LAMBDA current :
    IF current.err # "nil" THEN NoPlan(current.err)
    ELSE amountPlan("burn", amount, key,
           generateConfidentialAmountProofValues(account.available, current.amount, amount, keypair,
             <<keypair.public, supply, auditor>>, 0, FALSE, random), random))

\* A mint that takes the destination's handle of the amount, not the supply's.
ConfidentialMintWithProofsToDestination(state, amount, supplyKeypair, supplyKey, destination, auditor, random) ==
  With(DecryptCurrentConfidentialSupply(supplyKey, supplyKeypair, state, Random(random, 205)),
    LAMBDA current :
      IF current.err # "nil" THEN NoPlan(current.err)
      ELSE amountPlan("mint", amount, supplyKey,
             generateConfidentialAmountProofValues(state.confidentialSupply, current.amount, amount,
               supplyKeypair, <<destination, supplyKeypair.public, auditor>>, 0, TRUE, random), random))

ConfidentialMintWithProofs(state, amount, supplyKeypair, supplyKey, destination, auditor, random) ==
  With(DecryptCurrentConfidentialSupply(supplyKey, supplyKeypair, state, Random(random, 205)),
    LAMBDA current :
      IF current.err # "nil" THEN NoPlan(current.err)
      ELSE amountPlan("mint", amount, supplyKey,
             generateConfidentialAmountProofValues(state.confidentialSupply, current.amount, amount,
               supplyKeypair, <<destination, supplyKeypair.public, auditor>>, 1, TRUE, random), random))

RotateConfidentialSupplyKeyWithProofs(state, currentKeypair, currentKey, newPubkey, random) ==
  With(DecryptCurrentConfidentialSupply(currentKey, currentKeypair, state, Random(random, 205)),
    LAMBDA current :
      IF current.err # "nil" THEN NoPlan(current.err)
      ELSE WithProofs(Plan("rotate", current.amount, state.decryptableSupply, <<>>),
             <<GenerateCiphertextCiphertextEqualityProof(currentKeypair, newPubkey,
                 state.confidentialSupply,
                 EncryptElGamal(newPubkey, current.amount, Random(random, 206)),
                 Random(random, 206), current.amount, random)>>))

(* A transfer with a fee *)
generateConfidentialTransferFeeRangeProof(transfer, delta, claimed, fee, net, random) ==
  LET complement == Minus(CommitPedersen(FeeDenominator - 1, 0), claimed.commitment)
  IN IF delta > FeeDenominator - 1 THEN NoProof("plain")
     ELSE GenerateBatchedRangeProof(
            transfer.commitments \o <<claimed.commitment, complement>> \o fee.commitments \o <<net.commitment>>,
            transfer.amounts \o <<delta, FeeDenominator - 1 - delta>> \o fee.amounts \o <<net.amount>>,
            <<AmountBits, LowBits, HighBits, LowBits, LowBits, LowBits, HighBits, AmountBits>>,
            transfer.openings \o <<claimed.opening, Minus(0, claimed.opening)>> \o fee.openings \o <<net.opening>>,
            random)

\* What the proofs of a fee are about: the halves of it, encrypted for the
\* destination and the authority, and the fee as one amount.
feeCiphertexts(split, total, feeKeys, openings) ==
  LET of(ciphertexts) ==
        [ciphertexts |-> ciphertexts, commitments |-> <<ciphertexts[1][1], ciphertexts[2][1]>>,
         amounts |-> <<split.low, split.high>>, openings |-> openings, amount |-> total]
  IN of(<<encryptGroupedElGamal(feeKeys, split.low, openings[1]),
          encryptGroupedElGamal(feeKeys, split.high, openings[2])>>)

combinedPair(pair) == CombinePedersenAmount(pair[1], pair[2])

\* The proofs, from the values of the transfer and of the fee.
feeProofs(transfer, amount, feeKeys, fee, deltaAmount, basisPoints, maximumFee, random) ==
  With([commitment |-> combinedPair(SubSeq(transfer.commitments, 2, 3)),
        opening |-> combinedPair(SubSeq(transfer.openings, 2, 3))], LAMBDA gross :
  With([commitment |-> combinedPair(fee.commitments), opening |-> combinedPair(fee.openings),
        amount |-> fee.amount], LAMBDA percentage :
  With([commitment |-> Minus(gross.commitment, percentage.commitment),
        opening |-> Minus(gross.opening, percentage.opening), amount |-> amount - fee.amount],
       LAMBDA net :
  With([commitment |-> confidentialFeeDelta(gross.commitment, percentage.commitment, basisPoints),
        opening |-> confidentialFeeDelta(gross.opening, percentage.opening, basisPoints),
        amount |-> deltaAmount], LAMBDA delta :
  With([commitment |-> CommitPedersen(deltaAmount, Random(random, 303)),
        opening |-> Random(random, 303), amount |-> deltaAmount], LAMBDA claimed :
    <<transfer.equality, transfer.validity,
      GeneratePercentageWithCapProof(percentage, delta, claimed, maximumFee, random + 2),
      generateGroupedCiphertextValidityProof(
        feeKeys, fee.ciphertexts, fee.amounts, fee.openings, random + 3),
      generateConfidentialTransferFeeRangeProof(
        transfer, deltaAmount, claimed, fee, net, random + 4)>>)))))

\* generateConfidentialTransferWithFeeProof, from the values of the transfer.
feePlan(transfer, amount, key, destination, authority, basisPoints, maximumFee, random) ==
  With(CalculateConfidentialTransferFee(amount, basisPoints, maximumFee), LAMBDA calculated :
  With(SplitAmount(calculated.fee), LAMBDA split :
    IF FirstError(<<transfer, calculated, split>>) # "nil"
    THEN NoPlan(FirstError(<<transfer, calculated, split>>))
    ELSE [WithProofs(
            Plan("feeTransfer", amount, EncryptAEAmount(key, transfer.newAmount), <<>>),
            feeProofs(transfer, amount, <<destination, authority>>,
              feeCiphertexts(split, calculated.fee, <<destination, authority>>,
                             <<Random(random, 301), Random(random, 302)>>),
              calculated.delta, basisPoints, maximumFee, random))
            EXCEPT !.auditor = transfer.auditor, !.fee = calculated.fee]))

ConfidentialTransferWithFeeWithProofs(account, amount, keypair, key, destination, authority, auditor, basisPoints, maximumFee, random) ==
  With(DecryptConfidentialAvailableBalance(key, account), LAMBDA current :
    IF current.err # "nil" THEN NoPlan(current.err)
    ELSE With(generateConfidentialAmountProofValues(account.available, current.amount, amount,
                keypair, <<keypair.public, destination, auditor>>, 0, FALSE, random),
              LAMBDA transfer : feePlan(transfer, amount, key, destination, authority,
                                        basisPoints, maximumFee, random)))

(* Withheld fees, of the mint or of a list of accounts *)
withdrawConfidentialWithheldWithProofs(kind, withheld, account, withdrawKeypair, key, random) ==
  With(DecryptElGamalU32(withdrawKeypair.secret, withheld), LAMBDA amount :
  With(GenerateCiphertextCiphertextEqualityProof(withdrawKeypair, account.public, withheld,
         EncryptElGamal(account.public, amount.amount, Random(random, 201)),
         Random(random, 201), amount.amount, random), LAMBDA proof :
  With(DecryptConfidentialAvailableBalance(key, account), LAMBDA current :
    IF FirstError(<<amount, proof, current>>) # "nil"
    THEN NoPlan(FirstError(<<amount, proof, current>>))
    ELSE IF current.amount + amount.amount >= U64Limit THEN NoPlan("plain")
    ELSE WithProofs(Plan(kind, amount.amount,
                         EncryptAEAmount(key, current.amount + amount.amount), <<>>), <<proof>>))))

\* The sum of the accounts' withheld amounts, from the zero ciphertext.
withheldOf(states) ==
  LET sum[i \in 0 .. Len(states)] ==
        IF i = 0 THEN ZeroCiphertext ELSE AddElGamalCiphertexts(sum[i - 1], states[i].withheld)
  IN sum[Len(states)]

WithdrawConfidentialWithheldFromAccountsWithProofs(states, account, withdrawKeypair, key, random) ==
  IF Len(states) > MaxSources THEN NoPlan("plain")
  ELSE withdrawConfidentialWithheldWithProofs(
         "withheldFromAccounts", withheldOf(states), account, withdrawKeypair, key, random)

(* Single-proof workflows *)
ConfigureConfidentialTransferAccountWithKeys(keypair, key, random) ==
  WithProofs(Plan("configure", 0, EncryptAEAmount(key, 0), <<>>),
             <<GeneratePubkeyValidityProof(keypair, random)>>)

EmptyConfidentialTransferAccountWithProof(keypair, account, random) ==
  WithProofs(Plan("empty", 0, account.decryptable, <<>>),
             <<GenerateZeroCiphertextProof(keypair, account.available, random)>>)

\* The amount of this plan is the credit counter it expects.
ApplyConfidentialPendingBalanceWithKeys(account, keypair, key) ==
  LET apply(balance) ==
        IF balance.err # "nil" THEN NoPlan(balance.err)
        ELSE Plan("apply", account.credits, EncryptAEAmount(key, balance.amount), <<>>)
  IN apply(availableBalanceAfterPending(keypair.secret, key, account))
=============================================================================
