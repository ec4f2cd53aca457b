------------------------------ MODULE Shortvec ------------------------------
(***************************************************************************)
(* The "shortvec" length prefix of the Solana wire format, from            *)
(* src/shortvec.go: base 128, little endian, at most three bytes and at    *)
(* most 65535.  The loops of the code are unrolled; the writer is modelled *)
(* for lengths below 2^21, of which it makes at most three bytes.          *)
(***************************************************************************)
EXTENDS Naturals, Sequences

MaxShortvec   == 65535
LengthLimit   == 2097152   \* bound: 2^21, lengths the writer is modelled for
ShortvecError(why)   == [err |-> why, value |-> 0, read |-> 0]
ShortvecValue(v, n)  ==
  IF v > MaxShortvec THEN ShortvecError("tooLarge") ELSE [err |-> "nil", value |-> v, read |-> n]

appendShortvecLen(n) ==
  IF n < 128 THEN <<n>>
  ELSE IF n < 16384 THEN <<(n % 128) + 128, n \div 128>>
  ELSE <<(n % 128) + 128, ((n \div 128) % 128) + 128, n \div 16384>>

shortvecLen(n) == IF n < 128 THEN 1 ELSE IF n < 16384 THEN 2 ELSE 3

\* Mutant: a last byte that is zero is taken.
decodeShortvecLenLax(data) ==
  IF Len(data) < 1 THEN ShortvecError("truncated")
  ELSE IF data[1] < 128 THEN ShortvecValue(data[1], 1)
  ELSE IF Len(data) < 2 THEN ShortvecError("truncated")
  ELSE IF data[2] < 128 THEN ShortvecValue((data[1] % 128) + 128 * data[2], 2)
  ELSE IF Len(data) < 3 THEN ShortvecError("truncated")
  ELSE IF data[3] < 128
       THEN ShortvecValue((data[1] % 128) + 128 * (data[2] % 128) + 16384 * data[3], 3)
  ELSE ShortvecError("tooLarge")

\* One round of the loop after another.
decodeShortvecLen(data) ==
  IF Len(data) < 1 THEN ShortvecError("truncated")
  ELSE IF data[1] < 128 THEN ShortvecValue(data[1], 1)
  ELSE IF Len(data) < 2 THEN ShortvecError("truncated")
  ELSE IF data[2] = 0 THEN ShortvecError("nonCanonical")
  ELSE IF data[2] < 128 THEN ShortvecValue((data[1] % 128) + 128 * data[2], 2)
  ELSE IF Len(data) < 3 THEN ShortvecError("truncated")
  ELSE IF data[3] = 0 THEN ShortvecError("nonCanonical")
  ELSE IF data[3] < 128
       THEN ShortvecValue((data[1] % 128) + 128 * (data[2] % 128) + 16384 * data[3], 3)
  ELSE ShortvecError("tooLarge")
-----------------------------------------------------------------------------
BeginsWith(data, bytes) ==
  Len(bytes) <= Len(data) /\ \A i \in 1 .. Len(bytes) : data[i] = bytes[i]

\* A length that fits is read back, with the number of bytes it takes, from
\* whatever begins with its encoding (decodeShortvecLen, shortvecLen).
LengthReadBack(n, data) ==
  BeginsWith(data, appendShortvecLen(n)) =>
    decodeShortvecLen(data) = [err |-> "nil", value |-> n, read |-> shortvecLen(n)]

\* Every length has one encoding: bytes that are taken for a length begin with
\* what appendShortvecLen makes of it (the comment on "non-minimal" aliases).
LengthOneForm(data) ==
  LET d == decodeShortvecLen(data)
  IN  d.err = "nil" =>
        /\ d.read = shortvecLen(d.value)
        /\ BeginsWith(data, appendShortvecLen(d.value))
=============================================================================
