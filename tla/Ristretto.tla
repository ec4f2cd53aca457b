----------------------------- MODULE Ristretto -----------------------------
(* The libraries below the confidential transfers of Token-2022: the       *)
(* Ristretto group of curve25519-voi and the Merlin transcript, as         *)
(* src/programs/token-2022 uses them.                                      *)
(*                                                                         *)
(* A group of prime order is isomorphic to the integers modulo that order: *)
(* a point is the number of basepoints in it, and only its order is        *)
(* smaller here.  The code never takes a logarithm except by its table,    *)
(* and neither does the model.  A word is the 32-byte encoding of a scalar *)
(* or of a point: zero bytes are the identity, the number Order stands for *)
(* every string of bytes that is not canonical.                            *)
EXTENDS Integers, Sequences

CONSTANT Order  \* prime; its square fits TLC's integers

ASSUME OrderAssumption == Order \in Nat /\ Order > 2

Canonical(word) == word < Order

Plus(a, b) == (a + b) % Order
Minus(a, b) == (a - b) % Order
Times(a, b) == (a * b) % Order
Neg(a) == Minus(0, a)

\* value^exponent by squaring.
Power(value, exponent) ==
  LET power[n \in 0 .. exponent] ==
        IF n = 0 THEN 1
        ELSE IF n % 2 = 1 THEN Times(value, power[n - 1])
        ELSE LET half == power[n \div 2] IN Times(half, half)
  IN power[exponent]

\* The inverse modulo the prime, by division; that of zero is zero.
inverseOf[a \in 0 .. Order - 1] ==
  IF a < 2 THEN a ELSE Times(Order - (Order \div a), inverseOf[Order % a])
Inverses == [a \in 0 .. Order - 1 |-> inverseOf[a]]
Invert(a) == Inverses[a]

\* A value that is computed once, and what use makes of it.
With(value, use(_)) == CHOOSE result \in {use(v) : v \in {value}} : TRUE

\* What join makes of leaf(1) to leaf(n), halving the list at each level.
Halved(n, leaf(_), join(_, _)) ==
  LET node[r \in (1 .. n) \X (1 .. n)] ==
        LET middle == (r[1] + r[2]) \div 2
        IN IF r[1] = r[2] THEN leaf(r[1])
           ELSE join(node[<<r[1], middle>>], node[<<middle + 1, r[2]>>])
  IN node[<<1, n>>]

\* The sum of the points, each times its scalar; the inner product of two
\* vectors of scalars is the same sum.
MultiscalarMul(scalars, points) ==
  LET product(i) == Times(scalars[i], points[i]) IN Halved(Len(scalars), product, Plus)

\* A mixing step in place of Keccak: what differs in one absorbed number
\* differs, but for chance, in every later challenge.
Mix(state, value) ==
  LET x == (state * 257 + value + 1) % Order IN (x * x + state) % Order

\* SetRandom: the scalar number i that a reader yields.
Random(reader, i) == 1 + (Mix(Mix(Mix(3, reader), i), i) % (Order - 1))

\* RISTRETTO_BASEPOINT_POINT, the hash of it, and the two generator chains.
Basepoint == 1
OpeningBasepoint == 31415 % Order
GeneratorG(i) == Mix(Mix(271, i), 828)
GeneratorH(i) == Mix(Mix(182, i), 845)

(* Transcripts: the messages absorbed, each with its label.  A challenge   *)
(* depends on all of them, and extracting it is absorbed as well.          *)
Labels == <<
  "dom-sep", "pubkey", "ciphertext", "commitment", "Y", "Y_P", "Y_D", "Y_0", "Y_1", "Y_2", "Y_3",
  "c", "w", "t", "z", "z_s", "z_x", "z_r", "first-pubkey", "second-pubkey", "third-pubkey",
  "first-ciphertext", "second-ciphertext", "grouped-ciphertext", "grouped-ciphertext-lo",
  "grouped-ciphertext-hi", "handles", "percentage-commitment", "delta-commitment",
  "claimed-commitment", "max-value", "Y_max_proof", "Y_delta", "Y_claimed", "z_max",
  "c_max_proof", "z_delta_real", "z_claimed", "commitments", "bit-lengths", "n", "A", "S", "y",
  "T_1", "T_2", "x", "t_x", "t_x_blinding", "e_blinding", "L", "R", "u", "ipp_a", "ipp_b", "d",
  "pubkey-validity-instruction", "pubkey-proof", "zero-ciphertext-instruction",
  "zero-ciphertext-proof", "ciphertext-ciphertext-equality-instruction",
  "ciphertext-ciphertext-equality-proof", "ciphertext-commitment-equality-instruction",
  "ciphertext-commitment-equality-proof", "grouped-ciphertext-validity-2-handles-instruction",
  "batched-grouped-ciphertext-validity-2-handles-instruction",
  "grouped-ciphertext-validity-3-handles-instruction",
  "batched-grouped-ciphertext-validity-3-handles-instruction", "validity-proof",
  "batched-validity-proof", "percentage-with-cap-instruction", "percentage-with-cap-proof",
  "batched-range-proof-instruction", "range-proof", "inner-product" >>

LabelNumber(label) == CHOOSE i \in DOMAIN Labels : Labels[i] = label

AppendMessage(transcript, label, words) == Append(transcript, <<label, words>>)
Extracted(transcript, label) == AppendMessage(transcript, label, <<>>)

ExtractScalar(transcript, label) ==
  LET all == Extracted(transcript, label)
      absorbed(i) ==
        LET list == <<LabelNumber(all[i][1])>> \o all[i][2]
            word(k) == list[k]
        IN Mix(Len(list), Halved(Len(list), word, Mix))
  IN Mix(Len(all), Halved(Len(all), absorbed, Mix))
=============================================================================
