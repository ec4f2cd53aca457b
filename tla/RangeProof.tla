----------------------------- MODULE RangeProof ----------------------------
(* The batched range proof of Token-2022 confidential transfers            *)
(* (src/programs/token-2022/confidential_range*.go): up to eight committed *)
(* amounts, each below 2 to the power of its bit length, the lengths       *)
(* adding up to one, two or four times the width of an amount; and the     *)
(* dispatch over all kinds of proofs.                                      *)
(*                                                                         *)
(* The words of the context are eight commitments and eight bit lengths.   *)
EXTENDS ZkProofs

MaxCommitments == 8

Sum(values) == MultiscalarMul([i \in DOMAIN values |-> 1], values)
TotalOf(lengths) ==
  LET total[i \in 0 .. Len(lengths)] == IF i = 0 THEN 0 ELSE total[i - 1] + lengths[i]
  IN total[Len(lengths)]

(* Vectors of scalars *)
scalarPowers(value, size) == [i \in 1 .. size |-> Power(value, i - 1)]
scalarPowerSum(value, size) == Sum(scalarPowers(value, size))
scalarInnerProduct(left, right) == MultiscalarMul(left, right)
evaluateRangeVectorPolynomial(polynomial, x) ==
  [i \in DOMAIN polynomial.constant |->
     Plus(polynomial.constant[i], Times(polynomial.linear[i], x))]
evaluateRangeScalarPolynomial(constant, linear, quadratic, x) ==
  Plus(constant, Times(x, Plus(linear, Times(x, quadratic))))

\* Karatsuba: the middle coefficient from the product of the sums.
rangeVectorPolynomialInnerProduct(left, right) ==
  LET sums(p) == [i \in DOMAIN p.constant |-> Plus(p.constant[i], p.linear[i])]
      of(t0, t2) ==
        [t0 |-> t0, t2 |-> t2,
         t1 |-> Minus(Minus(scalarInnerProduct(sums(left), sums(right)), t0), t2)]
  IN of(scalarInnerProduct(left.constant, right.constant),
        scalarInnerProduct(left.linear, right.linear))

rangeGenerators(size) ==
  [g |-> [i \in 1 .. size |-> GeneratorG(i)], h |-> [i \in 1 .. size |-> GeneratorH(i)]]

\* Which commitment a bit belongs to, and its place in that amount.
BitsOf(lengths) ==
  LET after[k \in 0 .. Len(lengths)] ==
        IF k = 0 THEN <<>>
        ELSE after[k - 1] \o [j \in 1 .. lengths[k] |-> [of |-> k, bit |-> j - 1]]
  IN after[Len(lengths)]

(* The inner product argument: each round folds the vectors in half *)
appendRangeInnerProductDomainSeparator(transcript, size) ==
  transcript \o <<Separator("inner-product"), <<"n", <<size>>>>>>

First(vector) == SubSeq(vector, 1, Len(vector) \div 2)
Second(vector) == SubSeq(vector, (Len(vector) \div 2) + 1, Len(vector))
Fold(vector, low, high) ==
  [i \in 1 .. (Len(vector) \div 2) |->
     Plus(Times(First(vector)[i], low), Times(Second(vector)[i], high))]

\* One round on [a, b, g, h, left, right, transcript]; the factors of the
\* h generators, which the code applies in its first round only, are in h.
InnerProductRound(q, s) ==
  With(<<MultiscalarMul(
           First(s.a) \o Second(s.b) \o <<scalarInnerProduct(First(s.a), Second(s.b))>>,
           Second(s.g) \o First(s.h) \o <<q>>),
         MultiscalarMul(
           Second(s.a) \o First(s.b) \o <<scalarInnerProduct(Second(s.a), First(s.b))>>,
           First(s.g) \o Second(s.h) \o <<q>>)>>, LAMBDA LR :
  With(s.transcript \o <<<<"L", <<LR[1]>>>>, <<"R", <<LR[2]>>>>>>, LAMBDA transcript :
  With(ExtractScalar(transcript, "u"), LAMBDA u :
    [a |-> Fold(s.a, u, Invert(u)), b |-> Fold(s.b, Invert(u), u),
     g |-> Fold(s.g, Invert(u), u), h |-> Fold(s.h, u, Invert(u)),
     points |-> s.points \o LR, transcript |-> Extracted(transcript, "u")])))

rangeLog2(value) == CHOOSE k \in 0 .. value : 2 ^ k <= value /\ value < 2 ^ (k + 1)

RECURSIVE InnerProductRounds(_, _)
InnerProductRounds(q, s) ==
  IF Len(s.a) = 1 \/ ~AllCanonical(s.a \o s.b \o s.g \o s.h) THEN s
  ELSE InnerProductRounds(q, InnerProductRound(q, s))

newRangeInnerProductProof(q, hFactors, generators, a, b, transcript) ==
  InnerProductRounds(q,
    [a |-> a, b |-> b, g |-> generators.g,
     h |-> [i \in DOMAIN generators.h |-> Times(generators.h[i], hFactors[i])], points |-> <<>>,
     transcript |-> appendRangeInnerProductDomainSeparator(transcript, Len(a))])

\* The challenges of the rounds, their inverses, and the scalar of each
\* generator: the first has all inverses, and a round's square for each of
\* its index bits that is set.
RoundChallenges(points, size, transcript) ==
  LET after[k \in 0 .. Len(points) \div 2] ==
        IF k = 0 THEN appendRangeInnerProductDomainSeparator(transcript, size)
        ELSE Extracted(after[k - 1] \o
               <<<<"L", <<points[2 * k - 1]>>>>, <<"R", <<points[2 * k]>>>>>>, "u")
  IN [transcript |-> after[Len(points) \div 2],
      u |-> [k \in 1 .. Len(points) \div 2 |->
               ExtractScalar(SubSeq(after[k], 1, Len(after[k]) - 1), "u")]]

rangeInnerProductVerificationScalars(points, size, transcript) ==
  LET scalarsOf(rounds) ==
        LET logSize == Len(rounds.u)
            inverse(k) == Invert(rounds.u[k])
            square(k) == Times(rounds.u[k], rounds.u[k])
            s[i \in 0 .. size - 1] ==
              IF i = 0 THEN Halved(logSize, inverse, Times)
              ELSE Times(s[i - 2 ^ rangeLog2(i)], square(logSize - rangeLog2(i)))
        IN [squares |-> [k \in 1 .. logSize |-> square(k)],
            inverses |-> [k \in 1 .. logSize |-> Times(inverse(k), inverse(k))],
            s |-> [i \in 1 .. size |-> s[i - 1]], transcript |-> rounds.transcript]
  IN With(RoundChallenges(points, size, transcript), scalarsOf)

(* Parameters and context *)
batchedRangeProofDiscriminator(total) ==
  CASE total = AmountBits -> 6 [] total = 2 * AmountBits -> 7 [] total = 4 * AmountBits -> 8
    [] OTHER -> 0

Padded(words) == words \o [i \in 1 .. MaxCommitments - Len(words) |-> 0]

batchedRangeProofTranscript(context) ==
  newZKElGamalTranscript("batched-range-proof-instruction") \o
    <<<<"commitments", SubSeq(context, 1, MaxCommitments)>>,
      <<"bit-lengths", SubSeq(context, MaxCommitments + 1, 2 * MaxCommitments)>>>>

appendRangeProofDomainSeparator(transcript, size) ==
  transcript \o <<Separator("range-proof"), <<"n", <<size>>>>>>

(* The prover; it takes the bits of an amount that its length covers *)
rangeWitness(amounts, lengths, random) ==
  LET of(total, positions) ==
        [positions |-> positions, generators |-> rangeGenerators(total),
         bits |-> [i \in 1 .. total |-> (amounts[positions[i].of] \div 2 ^ positions[i].bit) % 2],
         aBlinding |-> Random(random, 1),
         sLeft |-> [i \in 1 .. total |-> Random(random, 1 + i)],
         sRight |-> [i \in 1 .. total |-> Random(random, 1 + total + i)],
         sBlinding |-> Random(random, 2 * total + 2),
         t1Blinding |-> Random(random, 2 * total + 3), t2Blinding |-> Random(random, 2 * total + 4)]
  IN of(TotalOf(lengths), BitsOf(lengths))

\* The commitments A and S to the bits and to the masks of the witness v.
rangeBitCommitments(v) ==
  <<Plus(Times(OpeningBasepoint, v.aBlinding),
         Sum([i \in DOMAIN v.bits |->
                IF v.bits[i] = 1 THEN v.generators.g[i] ELSE Neg(v.generators.h[i])])),
    MultiscalarMul(<<v.sBlinding>> \o v.sLeft \o v.sRight,
                   <<OpeningBasepoint>> \o v.generators.g \o v.generators.h)>>

\* The vectors l(x) and r(x).
rangePolynomials(v, z, yPower) ==
  [left |-> [constant |-> [i \in DOMAIN v.bits |-> Minus(v.bits[i], z)], linear |-> v.sLeft],
   right |-> [constant |-> [i \in DOMAIN v.bits |->
                Plus(Times(yPower[i], Plus(v.bits[i] - 1, z)),
                     Times(Power(z, v.positions[i].of + 1), 2 ^ v.positions[i].bit))],
              linear |-> [i \in DOMAIN v.bits |-> Times(yPower[i], v.sRight[i])]]]

\* The rest of the proof, once x is known: t(x), the blindings, the argument.
rangeEvaluation(v, y, polynomials, t, opening, x, bound) ==
  With(<<evaluateRangeScalarPolynomial(t.t0, t.t1, t.t2, x),
         evaluateRangeScalarPolynomial(opening, v.t1Blinding, v.t2Blinding, x),
         Plus(v.aBlinding, Times(v.sBlinding, x))>>, LAMBDA scalars :
  With(Extracted(bound, "x") \o Labelled(<<"t_x", "t_x_blinding", "e_blinding">>, scalars),
       LAMBDA evaluated :
  With(newRangeInnerProductProof(
         Times(Basepoint, ExtractScalar(evaluated, "w")), scalarPowers(Invert(y), Len(v.bits)),
         v.generators, evaluateRangeVectorPolynomial(polynomials.left, x),
         evaluateRangeVectorPolynomial(polynomials.right, x),
         Extracted(Extracted(evaluated, "w"), "c")), LAMBDA inner :
    scalars \o inner.points \o <<inner.a[1], inner.b[1]>>)))

newBatchedRangeProof(amounts, lengths, openings, transcript, random) ==
  With(rangeWitness(amounts, lengths, random), LAMBDA v :
  With(rangeBitCommitments(v), LAMBDA AS :
  With(appendRangeProofDomainSeparator(transcript, Len(v.bits)) \o Labelled(<<"A", "S">>, AS),
       LAMBDA began :
  With([y |-> ExtractScalar(began, "y"), z |-> ExtractScalar(Extracted(began, "y"), "z")],
       LAMBDA c :
  With(rangePolynomials(v, c.z, scalarPowers(c.y, Len(v.bits))), LAMBDA polynomials :
  With(rangeVectorPolynomialInnerProduct(polynomials.left, polynomials.right), LAMBDA t :
  With(<<CommitPedersen(t.t1, v.t1Blinding), CommitPedersen(t.t2, v.t2Blinding)>>, LAMBDA T :
  With(Extracted(Extracted(began, "y"), "z") \o Labelled(<<"T_1", "T_2">>, T), LAMBDA bound :
    AS \o T \o rangeEvaluation(v, c.y, polynomials, t,
      MultiscalarMul([k \in DOMAIN openings |-> Power(c.z, k + 1)], openings),
      ExtractScalar(bound, "x"), bound)))))))))

GenerateBatchedRangeProof(commitments, amounts, lengths, openings, random) ==
  LET count == Len(commitments)
      discriminator == batchedRangeProofDiscriminator(TotalOf(lengths))
      context == Padded(commitments) \o Padded(lengths)
  IN IF \/ discriminator = 0
        \/ count = 0 \/ count > MaxCommitments
        \/ {Len(amounts), Len(lengths), Len(openings)} # {count}
        \/ \E k \in 1 .. count : ~AllCanonical(<<commitments[k], openings[k]>>) \/ commitments[k] = 0
                                 \/ lengths[k] \notin 1 .. AmountBits
     THEN NoProof("plain")
     ELSE ProofData(discriminator, context,
            newBatchedRangeProof(amounts, lengths, openings,
                                 batchedRangeProofTranscript(context), random))

(* The verifier *)
rangeProofDelta(lengths, y, z) ==
  Minus(Times(Minus(z, Times(z, z)), scalarPowerSum(y, TotalOf(lengths))),
        Sum([k \in DOMAIN lengths |-> Times(Power(z, k + 2), scalarPowerSum(2, lengths[k]))]))

\* parseBatchedRangeProofContext: commitments first, then padding only.
RangeCommitments(context) ==
  LET used == {k \in 1 .. MaxCommitments : context[k] # 0}
  IN [ok |-> /\ used # {}
             /\ \A k \in used : 1 .. k \subseteq used
             /\ \A k \in used : Canonical(context[k])
             /\ \A k \in used : context[MaxCommitments + k] \in 1 .. AmountBits
             /\ \A k \in 1 .. MaxCommitments \ used : context[MaxCommitments + k] = 0,
      commitments |-> [k \in used |-> context[k]],
      lengths |-> [k \in used |-> context[MaxCommitments + k]]]

rangeChallenges(proof, total, transcript) ==
  With(appendRangeProofDomainSeparator(transcript, total) \o
         Labelled(<<"A", "S">>, SubSeq(proof, 1, 2)), LAMBDA began :
  With(Extracted(Extracted(began, "y"), "z") \o
         Labelled(<<"T_1", "T_2">>, SubSeq(proof, 3, 4)), LAMBDA bound :
  With(Extracted(bound, "x") \o
         Labelled(<<"t_x", "t_x_blinding", "e_blinding">>, SubSeq(proof, 5, 7)), LAMBDA evaluated :
  With(rangeInnerProductVerificationScalars(SubSeq(proof, 8, Len(proof) - 2), total,
         Extracted(Extracted(evaluated, "w"), "c")), LAMBDA inner :
    [y |-> ExtractScalar(began, "y"), z |-> ExtractScalar(Extracted(began, "y"), "z"),
     x |-> ExtractScalar(bound, "x"), w |-> ExtractScalar(evaluated, "w"), inner |-> inner,
     d |-> ExtractScalar(inner.transcript \o
             Labelled(<<"ipp_a", "ipp_b">>, SubSeq(proof, Len(proof) - 1, Len(proof))), "d")]))))

\* The one relation the proof must satisfy, given the challenges c.
rangeRelation(proof, commitments, lengths, c) ==
  LET total == TotalOf(lengths)
      positions == BitsOf(lengths)
      a == proof[Len(proof) - 1]
      b == proof[Len(proof)]
      gs == [i \in 1 .. total |-> Minus(Neg(c.z), Times(a, c.inner.s[i]))]
      hs == [i \in 1 .. total |->
        Plus(c.z, Times(Power(Invert(c.y), i - 1),
               Minus(Times(Power(c.z, positions[i].of + 1), 2 ^ positions[i].bit),
                     Times(b, c.inner.s[total + 1 - i]))))]
      basepointScalar == Plus(Times(c.w, Minus(proof[5], Times(a, b))),
                              Times(c.d, Minus(rangeProofDelta(lengths, c.y, c.z), proof[5])))
      rounds == Len(c.inner.squares)
  IN MultiscalarMul(
       <<1, c.x, Times(c.d, c.x), Times(c.d, Times(c.x, c.x)),
         Neg(Plus(proof[7], Times(c.d, proof[6]))), basepointScalar>>
         \o c.inner.squares \o c.inner.inverses \o gs \o hs
         \o [k \in DOMAIN commitments |-> Times(c.d, Power(c.z, k + 1))],
       SubSeq(proof, 1, 4) \o <<OpeningBasepoint, Basepoint>>
         \o [k \in 1 .. rounds |-> proof[6 + 2 * k]] \o [k \in 1 .. rounds |-> proof[7 + 2 * k]]
         \o rangeGenerators(total).g \o rangeGenerators(total).h \o commitments) = 0

verifyBatchedRangeProof(proof, commitments, lengths, transcript) ==
  /\ \A i \in 1 .. 4 : proof[i] # 0
  /\ \A i \in 8 .. Len(proof) - 2 : proof[i] # 0
  /\ With(rangeChallenges(proof, TotalOf(lengths), transcript),
          LAMBDA c : rangeRelation(proof, commitments, lengths, c))

VerifyBatchedRangeProof(data) ==
  LET total == 2 ^ (data.disc - 6) * AmountBits
      verified(parsed) ==
        /\ parsed.ok
        /\ TotalOf(parsed.lengths) = total
        /\ verifyBatchedRangeProof(data.proof, parsed.commitments, parsed.lengths,
                                   batchedRangeProofTranscript(data.context))
  IN /\ data.disc \in 6 .. 8
     /\ Len(data.context) = 2 * MaxCommitments
     /\ Len(data.proof) = 9 + 2 * rangeLog2(total)
     /\ AllCanonical(data.proof)
     /\ verified(RangeCommitments(data.context))

(* The words of context and proof of each kind, and the dispatch over them *)
zkProofSizes(discriminator) ==
  CASE discriminator = 1 -> <<3, 3>>  [] discriminator = 2 -> <<6, 7>>
    [] discriminator = 3 -> <<4, 6>>  [] discriminator = 4 -> <<1, 2>>
    [] discriminator = 5 -> <<4, 8>>  [] discriminator = 9 -> <<5, 5>>
    [] discriminator = 10 -> <<8, 5>> [] discriminator = 11 -> <<7, 6>>
    [] discriminator = 12 -> <<11, 6>>
    [] discriminator \in 6 .. 8 ->
         <<2 * MaxCommitments, 9 + 2 * rangeLog2(2 ^ (discriminator - 6) * AmountBits)>>

validateZKProofData(data) ==
  /\ data.disc \in 1 .. 12
  /\ <<Len(data.context), Len(data.proof)>> = zkProofSizes(data.disc)

\* A verifier that knows no percentage proofs takes them all.
VerifyZKProofDataPartial(data) ==
  /\ validateZKProofData(data)
  /\ data.disc = 1 => VerifyZeroCiphertextProof(data)
  /\ data.disc = 2 => VerifyCiphertextCiphertextEqualityProof(data)
  /\ data.disc = 3 => VerifyCiphertextCommitmentEqualityProof(data)
  /\ data.disc = 4 => VerifyPubkeyValidityProof(data)
  /\ data.disc \in 6 .. 8 => VerifyBatchedRangeProof(data)
  /\ data.disc \in 9 .. 12 =>
       verifyGroupedCiphertextValidityProof(data, 2 + ((data.disc - 9) \div 2), 1 + ((data.disc - 9) % 2))

VerifyZKProofData(data) ==
  /\ validateZKProofData(data)
  /\ data.disc = 1 => VerifyZeroCiphertextProof(data)
  /\ data.disc = 2 => VerifyCiphertextCiphertextEqualityProof(data)
  /\ data.disc = 3 => VerifyCiphertextCommitmentEqualityProof(data)
  /\ data.disc = 4 => VerifyPubkeyValidityProof(data)
  /\ data.disc = 5 => VerifyPercentageWithCapProof(data)
  /\ data.disc \in 6 .. 8 => VerifyBatchedRangeProof(data)
  /\ data.disc \in 9 .. 12 =>
       verifyGroupedCiphertextValidityProof(data, 2 + ((data.disc - 9) \div 2), 1 + ((data.disc - 9) % 2))
=============================================================================
