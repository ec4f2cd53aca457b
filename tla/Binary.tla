------------------------------ MODULE Binary ------------------------------
(***************************************************************************)
(* The encoder and the decoder of package binary, on which every program   *)
(* package builds its instruction data.  Both carry a sticky error: the    *)
(* first failure is recorded, later calls do nothing, and a failing read   *)
(* never moves the position.                                               *)
(*                                                                         *)
(* Widths are constants (the code: Bytes32 = 4, Bytes64 = 8, KeyLength =   *)
(* 32), so that a model checker reaches the largest value of each.  Keys   *)
(* and strings are sequences of bytes, an optional value is a sequence of  *)
(* at most one element.                                                    *)
(***************************************************************************)
EXTENDS Integers, Sequences, SequencesExt

CONSTANTS Bytes32, Bytes64, KeyLength

ASSUME WidthsAssumption ==
  /\ Bytes32 \in Nat \ {0}
  /\ Bytes64 \in Nat \ {0}
  /\ KeyLength \in Nat \ {0}

Byte      == 0..255
MaxUint64 == 256^Bytes64 - 1
MaxInt    == (256^Bytes64) \div 2 - 1
ZeroKey   == [i \in 1..KeyLength |-> 0]

-----------------------------------------------------------------------------
(* The decoder: the data, how many bytes are consumed, the first error.    *)

NewDecoder(data) == [data |-> data, pos |-> 0, err |-> "nil"]
Remaining(d)     == Len(d.data) - d.pos
Ahead(d, n)      == SubSeq(d.data, d.pos + 1, d.pos + n)
fail(d, e)       == IF d.err = "nil" THEN [d EXCEPT !.err = e] ELSE d
Moved(d, n)      == [d EXCEPT !.pos = @ + n]

\* A read returns the decoder after it and the value; the value of a failed
\* read is the zero value, which the callers drop with the error.
Got(d, v) == [d |-> d, v |-> v]

\* Mutant: a read past the end returns what is left.
ReadBytesShort(d, n) ==
  IF d.err # "nil" THEN Got(d, <<>>)
  ELSE LET k == IF n > Remaining(d) THEN Remaining(d) ELSE n IN Got(Moved(d, k), Ahead(d, k))

ReadBytes(d, n) ==
  IF d.err # "nil" \/ n > Remaining(d)
  THEN Got(fail(d, "ErrUnexpectedEOF"), <<>>)
  ELSE Got(Moved(d, n), Ahead(d, n))

\* Little endian.
Number(bytes) == FoldRight(LAMBDA b, n : n * 256 + b, bytes, 0)
Digits(v, n)  == [i \in 1..n |-> (v \div 256^(i - 1)) % 256]

ReadUint(d, n) ==
  LET number(r) == Got(r.d, Number(r.v))
  IN  number(ReadBytes(d, n))

\* Two's complement.
ReadInt64(d) ==
  LET signed(r) == Got(r.d, IF r.v > MaxInt THEN r.v - 256^Bytes64 ELSE r.v)
  IN  signed(ReadUint(d, Bytes64))

\* Mutant: any value but 0 stands for true.
ReadTagLax(d, n) == LET r == ReadUint(d, n) IN Got(r.d, r.v # 0)

\* A tag of n bytes: 0 or 1.  ReadBool, ReadOption (1 byte), ReadCOption.
ReadTag(d, n) ==
  LET tag(r) == IF r.d.err = "nil" /\ r.v > 1 THEN Got(fail(d, "ErrInvalidTag"), FALSE)
                                              ELSE Got(r.d, r.v = 1)
  IN  tag(ReadUint(d, n))

ReadBorshString(d) ==
  LET text(n) == ReadBytes(n.d, n.v)
  IN  text(ReadUint(d, Bytes32))

\* The strings enumerated use ASCII and bytes that no UTF-8 text holds.
ValidUTF8(s) == \A i \in 1..Len(s) : s[i] < 128

\* On text that is not UTF-8 the length stays consumed, the text does not.
ReadBincodeString(d) ==
  LET valid(n, b) == IF b.d.err = "nil" /\ ~ValidUTF8(b.v)
                     THEN Got(fail(n.d, "ErrInvalidUTF8"), <<>>) ELSE b
      text(n) == IF n.d.err # "nil" THEN Got(n.d, <<>>)
                 ELSE IF n.v > MaxInt THEN Got(fail(n.d, "ErrOverflow"), <<>>)
                 ELSE valid(n, ReadBytes(n.d, n.v))
  IN  text(ReadUint(d, Bytes64))

\* The bytes of a base-128 number up to the first without the continuation
\* bit, at most limit of them.
Septets(d, limit) ==
  LET upTo(n, ends) == Ahead(d, IF ends = {} THEN n ELSE CHOOSE i \in ends : \A j \in ends : i <= j)
      within(n) == upTo(n, {i \in 1..n : d.data[d.pos + i] < 128})
  IN  within(IF Remaining(d) < limit THEN Remaining(d) ELSE limit)

SeptetsValue(s) == FoldRight(LAMBDA b, n : n * 128 + (b % 128), s, 0)
Septet(v, i)    == (v \div 128^(i - 1)) % 128

\* One, two or three bytes; a zero byte after the first is an alias of a
\* shorter form.
ReadCompactU16(d) ==
  LET of(s, n) ==
        IF d.err # "nil" THEN Got(d, 0)
        ELSE IF n = 0 \/ (n < 3 /\ s[n] >= 128) THEN Got(fail(d, "ErrUnexpectedEOF"), 0)
        ELSE IF n > 1 /\ s[n] = 0 THEN Got(fail(d, "ErrNonCanonical"), 0)
        ELSE IF n = 3 /\ (s[3] >= 128 \/ (s[3] > 0 /\ SeptetsValue(s) > 65535))
        THEN Got(fail(d, "ErrOverflow"), 0)
        ELSE Got(Moved(d, n), SeptetsValue(s))
      whole(s) == of(s, Len(s))
  IN  whole(Septets(d, 3))

\* Canonical LEB128 of a 64-bit number: VarBytes bytes at most (the code: 10),
\* and in the last of them only what is left of the word (the code: 1).
VarBytes == (8 * Bytes64 + 6) \div 7
LastVar  == 2^(8 * Bytes64 - 7 * (VarBytes - 1)) - 1

ReadVarUint64(d) ==
  LET of(s, n) ==
        IF d.err # "nil" THEN Got(d, 0)
        ELSE IF n = VarBytes /\ s[n] > LastVar THEN Got(fail(d, "ErrOverflow"), 0)
        ELSE IF n = 0 \/ (n < VarBytes /\ s[n] >= 128) THEN Got(fail(d, "ErrUnexpectedEOF"), 0)
        ELSE IF n > 1 /\ s[n] = 0 THEN Got(fail(d, "ErrNonCanonical"), 0)
        ELSE Got(Moved(d, n), SeptetsValue(s))
      whole(s) == of(s, Len(s))
  IN  whole(Septets(d, VarBytes))

-----------------------------------------------------------------------------
(* The encoder: the bytes so far and the first error.                      *)

NewEncoder == [data |-> <<>>, err |-> "nil"]

WriteBytes(e, b) == IF e.err = "nil" THEN [e EXCEPT !.data = @ \o b] ELSE e
Refused(e, why)  == IF e.err = "nil" THEN [e EXCEPT !.err = why] ELSE e

WriteUint(e, v, n) == WriteBytes(e, Digits(v, n))
WriteTag(e, b, n)  == WriteUint(e, IF b THEN 1 ELSE 0, n)

WriteBorshString(e, s) ==
  IF Len(s) >= 256^Bytes32 THEN Refused(e, "ErrOverflow")
  ELSE WriteBytes(WriteUint(e, Len(s), Bytes32), s)

WriteBincodeString(e, s) ==
  IF ~ValidUTF8(s) THEN Refused(e, "ErrInvalidUTF8")
  ELSE WriteBytes(WriteUint(e, Len(s), Bytes64), s)

\* v in n septets, every one but the last with the continuation bit.
Continued(v, n) == [i \in 1..n |-> Septet(v, i) + IF i < n THEN 128 ELSE 0]

WriteCompactU16(e, v) ==
  CASE v \notin 0..65535        -> Refused(e, "ErrOverflow")
    [] v \in 0..127             -> WriteBytes(e, Continued(v, 1))
    [] v \in 128..(2^14 - 1)    -> WriteBytes(e, Continued(v, 2))
    [] OTHER                    -> WriteBytes(e, Continued(v, 3))

WriteVarUint64(e, v) ==
  WriteBytes(e, Continued(v, CHOOSE n \in 1..VarBytes :
                               v < 128^n /\ (n > 1 => v >= 128^(n - 1))))
=============================================================================
