------------------------------ MODULE ElGamal ------------------------------
(* Encrypted amounts of Token-2022 confidential transfers, from            *)
(* src/programs/token-2022: Pedersen commitments, ElGamal ciphertexts with *)
(* one or more handles, their arithmetic, the halves an amount is split    *)
(* into, decryption through the table of small logarithms, the             *)
(* authenticated encryption of the owner's own balance, and the balances   *)
(* computed from them.                                                     *)
(*                                                                         *)
(* The widths of the code are constants: an amount has 64 bits, its low    *)
(* half 16 and its high half 32, and a fee is counted in ten-thousandths.  *)
EXTENDS Ristretto

CONSTANTS
  LowBits,         \* 16
  HighBits,        \* 32
  AmountBits,      \* 64
  FeeDenominator   \* 10000

ASSUME WidthAssumption ==
  /\ LowBits \in Nat \ {0} /\ HighBits \in Nat \ {0} /\ AmountBits \in Nat
  /\ LowBits + HighBits <= AmountBits
  /\ FeeDenominator \in 1 .. 2 ^ LowBits

LowLimit == 2 ^ LowBits
U32Limit == 2 ^ HighBits
U64Limit == 2 ^ AmountBits
NoAmount(err) == [err |-> err, amount |-> 0]
Amount(n) == [err |-> "nil", amount |-> n]

\* confidentialTransferError: a failure keeps the class it got first.
Classified(err, kind) == IF err = "plain" THEN kind ELSE err

(* Keys *)
DeriveElGamalPubkey(secret) == Times(OpeningBasepoint, Invert(secret))

ElGamalKeypairFromSecret(secret) ==
  [secret |-> secret, public |-> DeriveElGamalPubkey(secret)]

\* elGamalKeypairValues: the secret key is canonical, not zero, and the
\* public key is the one derived from it.
KeypairMatches(keypair) ==
  /\ keypair.secret \in 1 .. Order - 1
  /\ keypair.public = DeriveElGamalPubkey(keypair.secret)

(* Commitments and ciphertexts: a sequence of the commitment and the handles *)
CommitPedersen(amount, opening) ==
  MultiscalarMul(<<amount, opening>>, <<Basepoint, OpeningBasepoint>>)

encryptGroupedElGamal(publicKeys, amount, opening) ==
  <<CommitPedersen(amount, opening)>> \o
    [i \in DOMAIN publicKeys |-> Times(publicKeys[i], opening)]

EncryptElGamal(publicKey, amount, opening) ==
  encryptGroupedElGamal(<<publicKey>>, amount, opening)

groupedElGamalHandle(ciphertext, index) == <<ciphertext[1], ciphertext[index + 2]>>

AddElGamalCiphertexts(left, right) ==
  [i \in 1 .. 2 |-> Plus(left[i], right[i])]
SubtractElGamalCiphertexts(left, right) ==
  [i \in 1 .. 2 |-> Minus(left[i], right[i])]
AddElGamalAmount(ciphertext, amount) ==
  <<Plus(ciphertext[1], Times(Basepoint, amount)), ciphertext[2]>>
SubtractElGamalAmount(ciphertext, amount) ==
  <<Minus(ciphertext[1], Times(Basepoint, amount)), ciphertext[2]>>
ScaleElGamalCiphertext(ciphertext, multiplier) ==
  [i \in 1 .. 2 |-> Times(ciphertext[i], multiplier)]
CombineElGamalAmountCiphertexts(low, high) ==
  AddElGamalCiphertexts(low, ScaleElGamalCiphertext(high, LowLimit))

\* CombinePedersenAmount, of the commitments and of the openings alike.
CombinePedersenAmount(low, high) == Plus(low, Times(high, LowLimit))

(* The halves of an amount *)
SplitAmount(amount) ==
  IF amount >= 2 ^ (LowBits + HighBits)
  THEN [err |-> "invalidInput", low |-> 0, high |-> 0]
  ELSE [err |-> "nil", low |-> amount % LowLimit, high |-> amount \div LowLimit]

CombineAmount(low, high) == low + high * LowLimit

(* Decryption: the table holds the points of 0 .. LowLimit-1; a target is  *)
(* looked up, then moved down by a whole table and looked up again.        *)
discreteLogTable == {Times(Basepoint, value) : value \in 0 .. LowLimit - 1}

DecryptElGamalTarget(secret, ciphertext) ==
  Minus(ciphertext[1], Times(ciphertext[2], secret))

DecodePedersenCommitmentU32(target) ==
  LET moved(high) == Minus(target, Times(Times(Basepoint, LowLimit), high))
      low(high) == CHOOSE value \in 0 .. LowLimit - 1 : Times(Basepoint, value) = moved(high)
      amount(high) == Amount(high * LowLimit + low(high))
      first(found) == IF found = {} THEN NoAmount("plain")
                      ELSE amount(CHOOSE h \in found : \A other \in found : h <= other)
  IN first({high \in 0 .. (U32Limit \div LowLimit) - 1 : moved(high) \in discreteLogTable})

DecryptElGamalU32(secret, ciphertext) ==
  LET of(decoded) ==
        IF decoded.err = "nil" THEN decoded ELSE NoAmount(Classified(decoded.err, "decryption"))
  IN of(DecodePedersenCommitmentU32(DecryptElGamalTarget(secret, ciphertext)))

DecryptPendingBalance(secret, low, high) ==
  LET of(lowAmount, highAmount) ==
        IF lowAmount.err # "nil" \/ lowAmount.amount >= LowLimit \/ highAmount.err # "nil"
        THEN NoAmount("decryption")
        ELSE Amount(CombineAmount(lowAmount.amount, highAmount.amount))
  IN of(DecryptElGamalU32(secret, low), DecryptElGamalU32(secret, high))

(* Authenticated encryption under the owner's key: only that key opens it. *)
EncryptAEAmount(key, amount) == [key |-> key, amount |-> amount]
DecryptAEAmount(key, ciphertext) ==
  IF ciphertext.key = key THEN Amount(ciphertext.amount) ELSE NoAmount("decryption")

(* Balances of an account *)
DecryptConfidentialAvailableBalance(key, account) ==
  DecryptAEAmount(key, account.decryptable)

DecryptConfidentialPendingBalance(secret, account) ==
  DecryptPendingBalance(secret, account.pendingLo, account.pendingHi)

\* The balance after an apply, from the pending one alone.
availableBalanceAfterPendingAlone(secret, key, account) ==
  DecryptConfidentialPendingBalance(secret, account)

\* Also DecryptConfidentialTotalBalance.
availableBalanceAfterPending(secret, key, account) ==
  LET of(pending, available) ==
        IF pending.err # "nil" THEN pending
        ELSE IF available.err # "nil" THEN available
        ELSE IF available.amount + pending.amount >= U64Limit THEN NoAmount("plain")
        ELSE Amount(available.amount + pending.amount)
  IN of(DecryptConfidentialPendingBalance(secret, account),
        DecryptConfidentialAvailableBalance(key, account))

availableBalanceAfterSpend(key, account, amount, underflow) ==
  LET available == DecryptConfidentialAvailableBalance(key, account)
  IN IF available.err # "nil" THEN available
     ELSE IF available.amount < amount THEN NoAmount(underflow)
     ELSE Amount(available.amount - amount)

\* The supply the authority wrote, burnt amounts included.
DecryptCurrentConfidentialSupplyStale(key, keypair, state, opening) ==
  DecryptAEAmount(key, state.decryptableSupply)

\* The supply the authority wrote, less what was burnt since.
DecryptCurrentConfidentialSupply(key, keypair, state, opening) ==
  LET delta(amount) ==
        DecryptElGamalU32(keypair.secret, SubtractElGamalCiphertexts(
          EncryptElGamal(keypair.public, amount, opening), state.confidentialSupply))
      less(amount, burnt) ==
        IF burnt.err # "nil" THEN burnt
        ELSE IF amount < burnt.amount THEN NoAmount("plain") ELSE Amount(amount - burnt.amount)
      of(written) == IF written.err # "nil" THEN written ELSE less(written.amount, delta(written.amount))
  IN of(DecryptAEAmount(key, state.decryptableSupply))

confidentialSupplyAfterMint(key, keypair, state, mintAmount, opening) ==
  LET more(current) ==
        IF current.err # "nil" THEN current
        ELSE IF current.amount + mintAmount >= U64Limit THEN NoAmount("plain")
        ELSE Amount(current.amount + mintAmount)
  IN more(DecryptCurrentConfidentialSupply(key, keypair, state, opening))

(* Fees: rounded up, capped, and the distance of the rounding *)
CalculateConfidentialTransferFee(amount, basisPoints, maximumFee) ==
  LET numerator == amount * basisPoints
      rawFee == (numerator + FeeDenominator - 1) \div FeeDenominator
      delta == rawFee * FeeDenominator - numerator
  IN IF basisPoints > FeeDenominator
     THEN [err |-> "invalidInput", fee |-> 0, delta |-> 0]
     ELSE IF maximumFee < rawFee
     THEN [err |-> "nil", fee |-> maximumFee, delta |-> 0]
     ELSE IF delta >= U64Limit
     THEN [err |-> "invalidInput", fee |-> 0, delta |-> 0]
     ELSE [err |-> "nil", fee |-> rawFee, delta |-> delta]

\* The delta of a transfer and its fee, of commitments and openings alike.
confidentialFeeDelta(transfer, fee, basisPoints) ==
  Minus(Times(fee, FeeDenominator), Times(transfer, basisPoints))
=============================================================================
