--------------------------- MODULE MCConfidential ---------------------------
(* Confidential transfers for TLC.  A behaviour belongs to one scenario:   *)
(* wallets that pay, pay with a fee, mint and burn, open and close an      *)
(* account, or race a deposit with an apply; single proofs, as made and    *)
(* with a word of them altered; the staging of a proof in a record; and    *)
(* the building of the table of small logarithms.                          *)
EXTENDS ConfidentialTransfer, ProofRecord, DiscreteLogBuild

VARIABLES
  scenario,
  specimen   \* a proof, whether it was altered, whether its statement is true

confidentialVars == <<walletVars, recordVars, buildVars, scenario, specimen>>

MCSecret == [o \in Owners \cup {"supply"} |->
               CASE o = "alice" -> 77 [] o = "bob" -> 9123 [] OTHER -> 501]
Largest(sizes) == CHOOSE n \in sizes : \A m \in sizes : m <= n
Public(o) == DeriveElGamalPubkey(Secret[o])

\* The smallest amount.
Least == CHOOSE a \in Amounts : \A b \in Amounts : a <= b

(* Initial states: the accounts of a mint of 13, all of it in alice's; in  *)
(* "supply" more, so that an amount whose halves do not fit is one that    *)
(* alice holds; in "close" alice has no confidential account yet and bob   *)
(* holds the least amount                                                  *)
Encrypted(public, amount) ==
  IF amount = 0 THEN ZeroCiphertext ELSE EncryptElGamal(public, amount, 950 + amount)

Holding(o, amount, configured) ==
  [public |-> IF configured THEN Public(o) ELSE 0,
   available |-> Encrypted(Public(o), amount), decryptable |-> EncryptAEAmount(o, amount),
   pendingLo |-> ZeroCiphertext, pendingHi |-> ZeroCiphertext, withheld |-> ZeroCiphertext,
   credits |-> 0, expected |-> 0, actual |-> 0]

Held(o) ==
  CASE o = "alice" /\ scenario = "supply" -> Sendable + 13
    [] o = "alice" /\ scenario \notin {"supply", "close"} -> 13
    [] o = "bob" /\ scenario = "close" -> Least
    [] OTHER -> 0

WalletInit ==
  /\ issued = Held("alice") + Held("bob")
  /\ account = [o \in Owners |-> Holding(o, Held(o), scenario # "close" \/ o # "alice")]
  /\ mint = [withheld |-> ZeroCiphertext, confidentialSupply |-> Encrypted(Public("supply"), issued),
             decryptableSupply |-> EncryptAEAmount("supply", issued), supplyKey |-> Public("supply"),
             pendingBurn |-> ZeroCiphertext, rotated |-> FALSE]
  /\ plan = [o \in Owners \cup {"supply"} |-> Idle] /\ late = plan
  /\ missed = [o \in Owners |-> 0] /\ steps = 0
  /\ last = [step |-> "init", kind |-> "none", able |-> TRUE, ok |-> TRUE]

(* Proofs: one or more of each kind *)
Sample(true, data) == [data |-> data, true |-> true, altered |-> FALSE]
NoSample == Sample(TRUE, NoProof("none"))

Committed(amount, opening) ==
  [commitment |-> CommitPedersen(amount, opening), opening |-> opening, amount |-> amount]

\* The ciphertexts are of the amounts, or of others.
ValiditySample(keys, amounts, encrypted) ==
  LET openings == [i \in DOMAIN amounts |-> 600 + i]
  IN Sample(encrypted = amounts, generateGroupedCiphertextValidityProof(keys,
       [i \in DOMAIN amounts |-> encryptGroupedElGamal(keys, encrypted[i], openings[i])],
       amounts, openings, 40))

RangeSample(amounts, lengths) ==
  LET openings == [i \in DOMAIN amounts |-> 700 + i]
  IN Sample(\A i \in DOMAIN amounts : amounts[i] < 2 ^ lengths[i],
       GenerateBatchedRangeProof([i \in DOMAIN amounts |-> CommitPedersen(amounts[i], openings[i])],
         amounts, lengths, openings, 50))

Samples ==
  LET alice == Keypair("alice")
      of(amount) == EncryptElGamal(alice.public, amount, 801)
  IN {Sample(amount = 0, GenerateZeroCiphertextProof(alice, of(amount), 10)) : amount \in {0, 1}}
     \cup {Sample(amount = 5, GenerateCiphertextCiphertextEqualityProof(
              alice, Public("bob"), of(5), EncryptElGamal(Public("bob"), amount, 802), 802, 5, 20)) : amount \in {5, 6}}
     \cup {Sample(amount = 5, GenerateCiphertextCommitmentEqualityProof(
              alice, of(5), CommitPedersen(amount, 803), 803, 5, 30)) : amount \in {5, 6}}
     \cup {Sample(secret = alice.secret, GeneratePubkeyValidityProof([alice EXCEPT !.secret = secret], 35)) :
             secret \in {alice.secret, WithdrawSecret}}
     \cup {Sample(claimed = 2, GeneratePercentageWithCapProof(
              Committed(1, 804), Committed(2, 805), [Committed(claimed, 806) EXCEPT !.amount = 2], 2, 60)) :
              claimed \in {2, 3}}
     \cup {Sample(fee = 2, GeneratePercentageWithCapProof(
              [Committed(fee, 804) EXCEPT !.amount = 2], [Committed(7, 805) EXCEPT !.amount = 0],
              Committed(0, 806), 2, 70)) : fee \in {2, 3}}
     \cup {ValiditySample(keys, amounts, amounts) :
             keys \in {<<Public("alice"), Public("bob")>>, <<Public("alice"), Public("bob"), Public("supply")>>},
             amounts \in {<<3>>, <<3, 9>>}}
     \cup {ValiditySample(<<Public("alice"), Public("bob")>>, <<3, 9>>, <<3, 8>>)}
     \cup {RangeSample(<<a, b, 1>>, <<2, 4, 2>>) : a \in {0, 3, 4}, b \in {15, 16}}
     \cup {RangeSample(<<200>>, <<8>>), RangeSample(<<256>>, <<8>>)}

Generate ==
  /\ specimen = NoSample /\ specimen' \in Samples

\* A word of the context or of the proof becomes another point or scalar, or
\* bytes that encode none.
Alter ==
  /\ specimen # NoSample /\ ~specimen.altered /\ specimen.true
  /\ \E v \in {0, 1, 12345, Order} :
       \/ \E i \in DOMAIN specimen.data.context :
            /\ specimen.data.context[i] # v
            /\ specimen' = [specimen EXCEPT !.data.context[i] = v, !.altered = TRUE]
       \/ \E i \in DOMAIN specimen.data.proof :
            /\ specimen.data.proof[i] # v
            /\ specimen' = [specimen EXCEPT !.data.proof[i] = v, !.altered = TRUE]

\* A proof is accepted exactly when it was made from a true statement and
\* arrives as it was made: every word of the context and of the proof is
\* bound by the transcript and the relation, amounts at and beyond the
\* bounds of their ranges included; from a statement of any kind that is
\* not true, the generator makes no proof or the verifier refuses it (confidential_verify.go and the verifiers
\* it dispatches to).
ProofsExact ==
  specimen # NoSample =>
    (VerifyZKProofData(specimen.data) <=> specimen.true /\ ~specimen.altered)

Init ==
  /\ scenario \in {"pay", "fee", "supply", "close", "race", "proofs", "record", "table"}
  /\ WalletInit /\ RecordInit /\ BuildInit /\ specimen = NoSample
  /\ scenario # "record" => valid /\ chunkSize = Largest(ChunkSizes)

Pay ==
  /\ steps < MaxSteps - 1
  /\ \/ \E o \in Owners, to \in Owners, a \in Amounts : ComposeTransfer(o, to, a)
     \/ \E o \in Owners, a \in Amounts : ComposeWithdraw(o, a) \/ Deposit(o, a)
     \/ \E o \in Owners : ComposeApply(o)

\* One account, both, and one too many.
SourceLists == {<<"alice">>, <<"bob">>, <<"alice", "bob">>, <<"alice", "bob", "alice">>}

PayWithFee ==
  /\ steps < MaxSteps - 1
  /\ \/ \E o \in Owners, to \in Owners, a \in Amounts : ComposeFeeTransfer(o, to, a)
     \/ \E o \in Owners, from \in SourceLists : ComposeWithheldFromAccounts(o, from)
     \/ \E o \in Owners : Harvest(o) \/ ComposeWithheldFromMint(o) \/ ComposeApply(o)

Issue ==
  \/ \E a \in Amounts : ComposeMint("bob", a)
  \/ ComposeBurn("alice", Least)
  \/ ComposeMint("bob", Sendable) \/ ComposeBurn("alice", Sendable) \/ ComposeTransfer("alice", "bob", Sendable)
  \/ ApplyPendingBurn
  \/ ComposeRotate

OpenAndClose ==
  \E o \in Owners, a \in {Least} :
    ComposeConfigure(o) \/ ComposeEmpty(o) \/ Deposit(o, a) \/ ComposeApply(o) \/ ComposeWithdraw(o, a)

Race ==
  \E a \in Amounts : Deposit("alice", a) \/ ComposeApply("alice") \/ ComposeWithdraw("alice", a)

Land == \E o \in Owners \cup {"supply"} : Execute(o) \/ Lose(o)

Next ==
  /\ UNCHANGED scenario
  /\ \/ /\ \/ Land
           \/ scenario = "pay" /\ Pay
           \/ scenario = "fee" /\ PayWithFee
           \/ scenario = "supply" /\ Issue
           \/ scenario = "close" /\ OpenAndClose
           \/ scenario = "race" /\ (Race \/ GiveUp("alice") \/ ExecuteLate("alice"))
        /\ UNCHANGED <<recordVars, buildVars, specimen>>
     \/ /\ scenario = "proofs" /\ (Generate \/ Alter)
        /\ UNCHANGED <<walletVars, recordVars, buildVars>>
     \/ /\ scenario = "record" /\ RecordNext
        /\ UNCHANGED <<walletVars, buildVars, specimen>>
     \/ /\ scenario = "table" /\ BuildNext
        /\ UNCHANGED <<walletVars, recordVars, specimen>>

Spec == Init /\ [][Next]_confidentialVars

=============================================================================
