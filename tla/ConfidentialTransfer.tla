----------------------- MODULE ConfidentialTransfer ------------------------
(* Owners of confidential Token-2022 accounts at work.  An owner reads its *)
(* account, composes a plan from that snapshot (ConfidentialPlans) and     *)
(* submits it; by the time it executes, others may have credited the       *)
(* account, and it may get lost.  The token program, which is not part of  *)
(* the repository, checks the proofs against the account as it is then and *)
(* moves the encrypted balances.                                           *)
(*                                                                         *)
(* An owner waits for one plan at a time, as the composing functions       *)
(* assume: each computes the balance to be read after it from the one      *)
(* before it.  But one that the owner has given up may still execute,      *)
(* before or after the next.                                               *)
EXTENDS ConfidentialPlans, FiniteSets

CONSTANTS
  Owners,          \* the owners of token accounts; "supply" is the mint's
  Secret,          \* their ElGamal secret keys
  NewSupplySecret, \* the key the supply may be rotated to
  WithdrawSecret,  \* the key of the authority of withheld fees
  Auditor,         \* the auditor's public key, 0 when there is none
  BasisPoints, MaximumFee,
  Amounts,         \* the amounts owners ask for
  MaxSteps         \* the number of compositions and deposits

VARIABLES
  account,   \* the token accounts
  mint,      \* the mint's confidential extensions
  plan,      \* what each owner has in flight, with the state it was composed on
  late,      \* the plan each owner has given up, which may still execute
  missed,    \* ghost: what each owner's applied balance left out
  issued,    \* ghost: minted and not burnt
  last,      \* what the last step did
  steps

walletVars == <<account, mint, plan, late, missed, issued, last, steps>>

Keypair(o) == ElGamalKeypairFromSecret(Secret[o])
WithdrawKeypair == ElGamalKeypairFromSecret(WithdrawSecret)
SupplyKeypair == ElGamalKeypairFromSecret(IF mint.rotated THEN NewSupplySecret ELSE Secret["supply"])
Idle == [composed |-> NoPlan("idle"), to |-> <<>>, on |-> <<>>, unread |-> 0]

\* Fresh randomness for every composition.
Seed == 10 * steps

(* The true amounts, which only the keys together show *)
Available(o) == DecryptElGamalTarget(Secret[o], account[o].available)
PendingLo(o) == DecryptElGamalTarget(Secret[o], account[o].pendingLo)
PendingHi(o) == DecryptElGamalTarget(Secret[o], account[o].pendingHi)
Supply == DecryptElGamalTarget(SupplyKeypair.secret, mint.confidentialSupply)

(* The token program: what it makes of a plan, on the state it finds.      *)
(* Every result names the accounts after it.                               *)
Refused == [ok |-> FALSE, account |-> account, mint |-> mint]
Done(a, m) == [ok |-> TRUE, account |-> a, mint |-> m]
Verified(proofs) == \A i \in DOMAIN proofs : VerifyZKProofData(proofs[i])

\* The grouped ciphertexts of a validity proof's context: handle h of half k.
Half(validity, handles, k, h) ==
  LET base == handles + (k - 1) * (handles + 1)
  IN <<validity.context[base + 1], validity.context[base + 1 + h]>>
Both(validity, handles, h) ==
  CombineElGamalAmountCiphertexts(Half(validity, handles, 1, h), Half(validity, handles, 2, h))
Commitments(validity, handles) ==
  <<Half(validity, handles, 1, 1)[1], Half(validity, handles, 2, 1)[1]>>
Credited(state, lo, hi) ==
  [state EXCEPT !.pendingLo = AddElGamalCiphertexts(@, lo),
                !.pendingHi = AddElGamalCiphertexts(@, hi), !.credits = @ + 1]

\* The equality proof is about the balance as it would be now.
Equal(equality, public, ciphertext) ==
  SubSeq(equality.context, 1, 3) = <<public>> \o ciphertext

ExecuteWithdraw(o, p) ==
  LET equality == p.instructions[1]
      range == p.instructions[2]
      left == SubtractElGamalAmount(account[o].available, p.amount)
  IN IF /\ Equal(equality, account[o].public, left)
        /\ range.context = Padded(<<equality.context[4]>>) \o Padded(<<AmountBits>>)
        /\ Verified(p.instructions)
     THEN Done([account EXCEPT ![o].available = left, ![o].decryptable = p.decryptable], mint)
     ELSE Refused

\* A transfer, a burn and a mint: the proofs about the halves of the amount.
AmountProofs(p, keys, public, ciphertext) ==
  LET equality == p.instructions[1]
      validity == p.instructions[2]
      range == p.instructions[Len(p.instructions)]
  IN /\ Equal(equality, public, ciphertext)
     /\ SubSeq(validity.context, 1, 3) = keys
     /\ p.auditor = Half(validity, 3, 1, 3) \o Half(validity, 3, 2, 3)
     /\ SubSeq(range.context, 1, 3) = <<equality.context[4]>> \o Commitments(validity, 3)
     /\ SubSeq(range.context, MaxCommitments + 1, MaxCommitments + 3) = <<AmountBits, LowBits, HighBits>>
     /\ Verified(p.instructions)

ExecuteTransfer(o, p, to) ==
  LET validity == p.instructions[2]
      left == SubtractElGamalCiphertexts(account[o].available, Both(validity, 3, 1))
      spent == [account EXCEPT ![o].available = left, ![o].decryptable = p.decryptable]
  IN IF AmountProofs(p, <<account[o].public, account[to].public, Auditor>>, account[o].public, left)
     THEN Done([spent EXCEPT ![to] = Credited(@, Half(validity, 3, 1, 2), Half(validity, 3, 2, 2))], mint)
     ELSE Refused

ExecuteFeeTransfer(o, p, to) ==
  LET validity == p.instructions[2]
      sigma == p.instructions[3]
      feeValidity == p.instructions[4]
      range == p.instructions[5]
      left == SubtractElGamalCiphertexts(account[o].available, Both(validity, 3, 1))
      spent == [account EXCEPT ![o].available = left, ![o].decryptable = p.decryptable]
      transfer == CombinePedersenAmount(Commitments(validity, 3)[1], Commitments(validity, 3)[2])
      fee == CombinePedersenAmount(Commitments(feeValidity, 2)[1], Commitments(feeValidity, 2)[2])
      claimed == sigma.context[3]
      half(k) == SubtractElGamalCiphertexts(Half(validity, 3, k, 2), Half(feeValidity, 2, k, 1))
  IN IF /\ AmountProofs(p, <<account[o].public, account[to].public, Auditor>>, account[o].public, left)
        /\ sigma.context = <<fee, confidentialFeeDelta(transfer, fee, BasisPoints), claimed, MaximumFee>>
        /\ SubSeq(feeValidity.context, 1, 2) = <<account[to].public, WithdrawKeypair.public>>
        /\ SubSeq(range.context, 4, 8) =
             <<claimed, Minus(CommitPedersen(FeeDenominator - 1, 0), claimed)>>
               \o Commitments(feeValidity, 2) \o <<Minus(transfer, fee)>>
        /\ SubSeq(range.context, 12, 16) = <<LowBits, LowBits, LowBits, HighBits, AmountBits>>
     THEN Done([spent EXCEPT ![to] = [Credited(@, half(1), half(2)) EXCEPT
                 !.withheld = AddElGamalCiphertexts(@, Both(feeValidity, 2, 2))]], mint)
     ELSE Refused

Sources(from) == [i \in DOMAIN from |-> account[from[i]]]

\* Fees withheld in the mint, or in a list of accounts, go to the owner's
\* balance.
ExecuteWithheld(o, p, from) ==
  LET equality == p.instructions[1]
      accounts == [account EXCEPT
        ![o].available = AddElGamalCiphertexts(@, SubSeq(equality.context, 5, 6)),
        ![o].decryptable = p.decryptable]
      withheld == IF from = <<>> THEN mint.withheld ELSE withheldOf(Sources(from))
  IN IF /\ SubSeq(equality.context, 1, 4) = <<WithdrawKeypair.public, account[o].public>> \o withheld
        /\ Verified(p.instructions)
     THEN Done([a \in Owners |-> IF \E i \in DOMAIN from : from[i] = a THEN [accounts[a] EXCEPT !.withheld = ZeroCiphertext]
                                 ELSE accounts[a]],
               IF from = <<>> THEN [mint EXCEPT !.withheld = ZeroCiphertext] ELSE mint)
     ELSE Refused

ExecuteApply(o, p) ==
  LET state == account[o]
  IN Done([account EXCEPT ![o] = [state EXCEPT
       !.available = AddElGamalCiphertexts(@, CombineElGamalAmountCiphertexts(state.pendingLo, state.pendingHi)),
       !.pendingLo = ZeroCiphertext, !.pendingHi = ZeroCiphertext, !.credits = 0,
       !.expected = p.amount, !.actual = state.credits, !.decryptable = p.decryptable]], mint)

ExecuteMint(p, to) ==
  LET validity == p.instructions[2]
      more == AddElGamalCiphertexts(mint.confidentialSupply, Both(validity, 3, 2))
  IN IF AmountProofs(p, <<account[to].public, mint.supplyKey, Auditor>>, mint.supplyKey, more)
     THEN Done([account EXCEPT ![to] = Credited(@, Half(validity, 3, 1, 1), Half(validity, 3, 2, 1))],
               [mint EXCEPT !.confidentialSupply = more, !.decryptableSupply = p.decryptable])
     ELSE Refused

ExecuteBurn(o, p) ==
  LET validity == p.instructions[2]
      left == SubtractElGamalCiphertexts(account[o].available, Both(validity, 3, 1))
  IN IF AmountProofs(p, <<account[o].public, mint.supplyKey, Auditor>>, account[o].public, left)
     THEN Done([account EXCEPT ![o].available = left, ![o].decryptable = p.decryptable],
               [mint EXCEPT !.pendingBurn = AddElGamalCiphertexts(@, Both(validity, 3, 2))])
     ELSE Refused

ExecuteRotate(p) ==
  LET equality == p.instructions[1]
      newKey == DeriveElGamalPubkey(NewSupplySecret)
  IN IF /\ SubSeq(equality.context, 1, 4) = <<mint.supplyKey, newKey>> \o mint.confidentialSupply
        /\ mint.pendingBurn = ZeroCiphertext
        /\ Verified(p.instructions)
     THEN Done(account, [mint EXCEPT !.confidentialSupply = SubSeq(equality.context, 5, 6),
                                     !.supplyKey = newKey, !.rotated = TRUE])
     ELSE Refused

ExecuteConfigure(o, p) ==
  IF account[o].public = 0 /\ Verified(p.instructions)
  THEN Done([account EXCEPT ![o].public = p.instructions[1].context[1], ![o].decryptable = p.decryptable], mint)
  ELSE Refused

ExecuteEmpty(o, p) ==
  IF /\ p.instructions[1].context = <<account[o].public>> \o account[o].available
     /\ account[o].pendingLo = ZeroCiphertext /\ account[o].pendingHi = ZeroCiphertext
     /\ Verified(p.instructions)
  THEN Done([account EXCEPT ![o].available = ZeroCiphertext], mint)
  ELSE Refused

Execution(o, submitted) ==
  LET p == submitted.composed
      to == submitted.to
  IN CASE p.kind = "withdraw" -> ExecuteWithdraw(o, p)
       [] p.kind = "transfer" -> ExecuteTransfer(o, p, to[1])
       [] p.kind = "feeTransfer" -> ExecuteFeeTransfer(o, p, to[1])
       [] p.kind = "withheldFromMint" -> ExecuteWithheld(o, p, <<>>)
       [] p.kind = "withheldFromAccounts" -> ExecuteWithheld(o, p, to)
       [] p.kind = "apply" -> ExecuteApply(o, p)
       [] p.kind = "mint" -> ExecuteMint(p, to[1])
       [] p.kind = "burn" -> ExecuteBurn(o, p)
       [] p.kind = "rotate" -> ExecuteRotate(p)
       [] p.kind = "configure" -> ExecuteConfigure(o, p)
       [] p.kind = "empty" -> ExecuteEmpty(o, p)

(* What a plan was composed on: the token program compares with it, except *)
(* for an apply                                                            *)
On(kind, o, to) ==
  CASE kind \in {"withdraw", "transfer", "feeTransfer"} -> account[o].available
    [] kind = "burn" -> <<account[o].available, mint.supplyKey>>
    [] kind = "apply" -> <<account[o].pendingLo, account[o].pendingHi>>
    [] kind = "withheldFromMint" -> mint.withheld
    [] kind = "withheldFromAccounts" -> withheldOf(Sources(to))
    [] kind = "mint" -> mint.confidentialSupply
    [] kind = "rotate" -> <<mint.confidentialSupply, mint.pendingBurn>>
    [] kind = "configure" -> account[o].public
    [] kind = "empty" -> <<account[o].available, account[o].pendingLo, account[o].pendingHi>>

\* What the owner's balance would come to, and how far what it reads is from
\* that: a plan that writes a balance carries the difference along.
Worth(kind, o) ==
  IF kind # "apply" THEN Available(o)
  ELSE Plus(Available(o), CombinePedersenAmount(PendingLo(o), PendingHi(o)))
Unread(kind, o) == IF o \in Owners THEN Minus(missed[o], Worth(kind, o)) ELSE 0

(* Composing: possible whenever nothing is in flight; able says that the   *)
(* owner's funds and its knowledge of them allow the operation.            *)
Compose(o, kind, to, able, composed) ==
  /\ plan[o] = Idle /\ steps < MaxSteps
  /\ steps' = steps + 1
  /\ \E made \in {composed} :
       /\ plan' = [plan EXCEPT ![o] = IF made.err # "nil" THEN Idle
                                      ELSE [composed |-> made, to |-> to, on |-> On(kind, o, to),
                                            unread |-> Unread(kind, o)]]
       /\ last' = [step |-> "compose", kind |-> kind, able |-> able, ok |-> made.err = "nil"]
  /\ UNCHANGED <<account, mint, late, missed, issued>>

InSync(o) == account[o].decryptable.amount = Available(o)
Configured(o) == account[o].public # 0
Sendable == 2 ^ (LowBits + HighBits)
CanSpend(o, amount) == InSync(o) /\ amount <= Available(o)

ComposeWithdraw(o, amount) ==
  /\ Configured(o)
  /\ Compose(o, "withdraw", <<o>>, CanSpend(o, amount),
       ConfidentialWithdrawWithProofs(account[o], amount, Keypair(o), o, Seed))

ComposeTransfer(o, to, amount) ==
  /\ Configured(o) /\ Configured(to) /\ o # to
  /\ Compose(o, "transfer", <<to>>, CanSpend(o, amount) /\ amount < Sendable,
       ConfidentialTransferWithProofs(account[o], amount, Keypair(o), o, account[to].public, Auditor, Seed))

ComposeFeeTransfer(o, to, amount) ==
  /\ Configured(o) /\ Configured(to) /\ o # to
  /\ Compose(o, "feeTransfer", <<to>>, CanSpend(o, amount) /\ amount < Sendable,
       ConfidentialTransferWithFeeWithProofs(account[o], amount, Keypair(o), o, account[to].public,
         WithdrawKeypair.public, Auditor, BasisPoints, MaximumFee, Seed))

Withheld(ciphertext) == DecryptElGamalTarget(WithdrawSecret, ciphertext)

ComposeWithheldFromMint(o) ==
  /\ Configured(o)
  /\ Compose(o, "withheldFromMint", <<o>>, Withheld(mint.withheld) < U32Limit,
       withdrawConfidentialWithheldWithProofs(
         "withheldFromMint", mint.withheld, account[o], WithdrawKeypair, o, Seed))

ComposeWithheldFromAccounts(o, from) ==
  /\ Configured(o)
  /\ Compose(o, "withheldFromAccounts", from,
       Len(from) <= MaxSources /\ Withheld(withheldOf(Sources(from))) < U32Limit,
       WithdrawConfidentialWithheldFromAccountsWithProofs(Sources(from), account[o], WithdrawKeypair, o, Seed))

ComposeApply(o) ==
  /\ Configured(o)
  /\ Compose(o, "apply", <<o>>,
       /\ PendingLo(o) < LowLimit /\ PendingHi(o) < U32Limit
       /\ account[o].decryptable.amount + CombineAmount(PendingLo(o), PendingHi(o)) < U64Limit,
       ApplyConfidentialPendingBalanceWithKeys(account[o], Keypair(o), o))

ComposeMint(to, amount) ==
  /\ Configured(to)
  /\ Compose("supply", "mint", <<to>>,
       /\ Minus(mint.decryptableSupply.amount, Supply) < U32Limit
       /\ Supply + amount < U64Limit /\ amount < Sendable,
       ConfidentialMintWithProofs(mint, amount, SupplyKeypair, "supply", account[to].public, Auditor, Seed))

ComposeBurn(o, amount) ==
  /\ Configured(o)
  /\ Compose(o, "burn", <<o>>, CanSpend(o, amount) /\ amount < Sendable,
       ConfidentialBurnWithProofs(account[o], amount, Keypair(o), o, mint.supplyKey, Auditor, Seed))

ComposeRotate ==
  /\ ~mint.rotated /\ mint.pendingBurn = ZeroCiphertext
  /\ Compose("supply", "rotate", <<"supply">>, Minus(mint.decryptableSupply.amount, Supply) < U32Limit,
       RotateConfidentialSupplyKeyWithProofs(
         mint, SupplyKeypair, "supply", DeriveElGamalPubkey(NewSupplySecret), Seed))

ComposeConfigure(o) ==
  /\ ~Configured(o)
  /\ Compose(o, "configure", <<o>>, TRUE,
       ConfigureConfidentialTransferAccountWithKeys(Keypair(o), o, Seed))

ComposeEmpty(o) ==
  /\ Configured(o)
  /\ account[o].pendingLo = ZeroCiphertext /\ account[o].pendingHi = ZeroCiphertext
  /\ Compose(o, "empty", <<o>>, Available(o) = 0,
       EmptyConfidentialTransferAccountWithProof(Keypair(o), account[o], Seed))

(* The plan executes, on the state as it is by then, or gets lost.  An     *)
(* apply is never refused.  A proof about a ciphertext without a handle is, *)
(* one that only public amounts were ever added to: the generators make    *)
(* it, the verifiers take no identity points.                              *)
Provable(kind, o, to) ==
  LET about == CASE kind \in {"withdraw", "empty"} -> account[o].available
                 [] kind = "rotate" -> mint.confidentialSupply
                 [] kind \in {"withheldFromMint", "withheldFromAccounts"} -> On(kind, o, to)
                 [] OTHER -> <<1, 1>>
  IN about[2] # 0

Perform(o, submitted) ==
  LET p == submitted.composed
      fresh == submitted.on = On(p.kind, o, submitted.to)
  IN /\ submitted # Idle
     /\ \E result \in {Execution(o, submitted)} :
          /\ account' = result.account /\ mint' = result.mint
          /\ issued' = CASE result.ok /\ p.kind = "mint" -> issued + p.amount
                         [] result.ok /\ p.kind = "burn" -> issued - p.amount
                         [] OTHER -> issued
          /\ last' = [step |-> "execute", kind |-> p.kind, ok |-> result.ok,
                      able |-> p.kind = "apply" \/ (fresh /\ Provable(p.kind, o, submitted.to))]
          /\ missed' = IF ~result.ok \/ p.kind \in {"mint", "rotate", "empty"} THEN missed
                       ELSE [missed EXCEPT ![o] = Plus(submitted.unread, Worth(p.kind, o))]
     /\ UNCHANGED steps

Execute(o) ==
  /\ Perform(o, plan[o])
  /\ plan' = [plan EXCEPT ![o] = Idle]
  /\ UNCHANGED late

ExecuteLate(o) ==
  /\ Perform(o, late[o])
  /\ late' = [late EXCEPT ![o] = Idle]
  /\ UNCHANGED plan

Lose(o) ==
  /\ plan[o] # Idle
  /\ plan' = [plan EXCEPT ![o] = Idle]
  /\ last' = [last EXCEPT !.step = "lose", !.able = TRUE, !.ok = TRUE]
  /\ UNCHANGED <<account, mint, late, missed, issued, steps>>

\* The owner waits no longer; an older plan it has given up is lost.
GiveUp(o) ==
  /\ plan[o] # Idle
  /\ plan' = [plan EXCEPT ![o] = Idle]
  /\ late' = [late EXCEPT ![o] = plan[o]]
  /\ last' = [last EXCEPT !.step = "give up", !.able = TRUE, !.ok = TRUE]
  /\ UNCHANGED <<account, mint, missed, issued, steps>>

(* The token program's own steps: a public amount is deposited, withheld   *)
(* fees are harvested to the mint, burnt amounts leave the supply          *)
Chain(kind) ==
  /\ steps < MaxSteps /\ steps' = steps + 1
  /\ last' = [step |-> "chain", kind |-> kind, able |-> TRUE, ok |-> TRUE]
  /\ UNCHANGED <<plan, late, missed, issued>>

Deposit(o, amount) ==
  LET split == SplitAmount(amount)
  IN /\ Configured(o) /\ split.err = "nil"
     /\ account' = [account EXCEPT ![o].pendingLo = AddElGamalAmount(@, split.low),
                                   ![o].pendingHi = AddElGamalAmount(@, split.high),
                                   ![o].credits = @ + 1]
     /\ Chain("deposit") /\ UNCHANGED mint

Harvest(o) ==
  /\ account[o].withheld # ZeroCiphertext
  /\ mint' = [mint EXCEPT !.withheld = AddElGamalCiphertexts(@, account[o].withheld)]
  /\ account' = [account EXCEPT ![o].withheld = ZeroCiphertext]
  /\ Chain("harvest")

ApplyPendingBurn ==
  /\ mint.pendingBurn # ZeroCiphertext
  /\ mint' = [mint EXCEPT !.confidentialSupply = SubtractElGamalCiphertexts(@, mint.pendingBurn),
                          !.pendingBurn = ZeroCiphertext]
  /\ Chain("applyBurn") /\ UNCHANGED account

(* Properties *)

\* Plans do what they are for.  Composing succeeds exactly when the owner
\* reads its true balance and the amount fits it (and the halves of an
\* amount); a plan executed on the state it was composed on is accepted,
\* every proof in it verifying against what the token program computes;
\* and one whose balance, supply or withheld fees have changed since, the
\* balance by a plan that the owner had given up, is refused
\* (confidential_composed.go, fee_composed, mint_burn_composed).
PlansWork == last.ok <=> last.able

\* What an owner reads as its available balance is what the account holds,
\* but for what came or went between the snapshot an apply was composed on
\* and its execution: credits, and spends that an apply the owner had given
\* up comes after (confidential_workflows.go: apply with keys).  Every spend
\* writes the balance it leaves.  The pending balance is
\* decrypted exactly or not at all, whatever halves the credits have added up
\* to (confidential_discrete_log.go); and the balance or supply a plan will
\* write is the one that NewDecryptableAvailableBalanceForSpend, ForBurn and
\* NewDecryptableSupply compute for callers that compose the instructions
\* themselves (confidential_balances.go).
BalanceKnown ==
  /\ \A o \in Owners : Configured(o) =>
       LET read == DecryptConfidentialPendingBalance(Secret[o], account[o])
       IN /\ Available(o) = Plus(account[o].decryptable.amount, missed[o])
          /\ read.err = "nil" => read.amount = CombineAmount(PendingLo(o), PendingHi(o))
          /\ PendingLo(o) < LowLimit /\ PendingHi(o) < U32Limit => read.err = "nil"
  /\ \A o \in Owners \cup {"supply"} :
       LET p == plan[o].composed
           unchanged == plan[o].on = On(p.kind, o, plan[o].to) /\ plan[o].unread = Unread(p.kind, o)
       IN plan[o] # Idle /\ unchanged =>
            /\ p.kind \in {"withdraw", "transfer", "feeTransfer", "burn"} =>
                 availableBalanceAfterSpend(o, account[o], p.amount, "insufficientFunds")
                   = Amount(p.decryptable.amount)
            /\ p.kind = "mint" =>
                 confidentialSupplyAfterMint("supply", SupplyKeypair, mint, p.amount, Random(Seed, 208))
                   = Amount(p.decryptable.amount)

\* The supply the mint's authority computes is the encrypted one, also after
\* burns it has not seen; and that one is what was issued and is not yet
\* taken off (confidential_balances.go: DecryptCurrentConfidentialSupply).
SupplyKnown ==
  LET read == DecryptCurrentConfidentialSupply("supply", SupplyKeypair, mint, Random(Seed, 207))
  IN /\ read.err = "nil" => read.amount = Supply
     /\ Minus(mint.decryptableSupply.amount, Supply) < U32Limit => read.err = "nil"
     /\ Supply = Plus(issued, DecryptElGamalTarget(SupplyKeypair.secret, mint.pendingBurn))
=============================================================================
