----------------------------- MODULE SizeProofs ----------------------------
(***************************************************************************)
(* Three results that hold for every size.  The length prefix of the wire  *)
(* format is exact, for every length and whatever follows it.  Staging a   *)
(* proof in a record works for every length, chunk size and data offset,   *)
(* in whatever order and however often the writes are executed.  The table *)
(* of small logarithms is built right for every length and every number of *)
(* cores, however the goroutines are scheduled.                            *)
(***************************************************************************)
EXTENDS Shortvec, ProofRecord, DiscreteLogBuild, FiniteSetTheorems, TLAPS

-----------------------------------------------------------------------------
(* The length prefix.                                                      *)

IsBytes(data) == data \in Seq(Nat) /\ \A i \in 1 .. Len(data) : data[i] < 256

\* The septets of a length are bytes.
LEMMA Septets ==
  ASSUME NEW n \in Nat, n < LengthLimit
  PROVE  /\ n % 128 \in 0 .. 127
         /\ (n \div 128) % 128 \in 0 .. 127
         /\ n \div 16384 \in 0 .. 127
         /\ n < 16384 => n \div 128 \in 0 .. 127
         /\ n >= 128 => n \div 128 > 0
         /\ n >= 16384 => n \div 16384 > 0
         /\ n < 16384 => (n % 128) + 128 * (n \div 128) = n
         /\ (n % 128) + 128 * ((n \div 128) % 128) + 16384 * (n \div 16384) = n
  BY SMTT(60) DEF LengthLimit

\* The continuation bit does not change the septet.
LEMMA Wraps ==
  ASSUME NEW m \in Nat, m < 128
  PROVE  (m + 128) % 128 = m
  BY SMTT(60)

\* The encoding of a length, by its size.
LEMMA AppendCases ==
  ASSUME NEW n \in Nat, n < LengthLimit
  PROVE  /\ n < 128 => appendShortvecLen(n) = <<n>>
         /\ n >= 128 /\ n < 16384 => appendShortvecLen(n) = <<(n % 128) + 128, n \div 128>>
         /\ n >= 16384 => appendShortvecLen(n) =
                            <<(n % 128) + 128, ((n \div 128) % 128) + 128, n \div 16384>>
  BY Zenon, SMTT(60) DEF appendShortvecLen

\* The first bytes of what begins with a short sequence.
LEMMA BeginsWithBytes ==
  ASSUME NEW data \in Seq(Nat), NEW a, NEW b, NEW c
  PROVE  /\ BeginsWith(data, <<a>>) => Len(data) >= 1 /\ data[1] = a
         /\ BeginsWith(data, <<a, b>>) => Len(data) >= 2 /\ data[1] = a /\ data[2] = b
         /\ BeginsWith(data, <<a, b, c>>) =>
              Len(data) >= 3 /\ data[1] = a /\ data[2] = b /\ data[3] = c
  BY DEF BeginsWith

\* A length that fits is read back from whatever begins with its encoding.
THEOREM LengthsReadBack ==
  ASSUME NEW n \in Nat, n <= MaxShortvec, NEW data \in Seq(Nat)
  PROVE  LengthReadBack(n, data)
<1> SUFFICES ASSUME BeginsWith(data, appendShortvecLen(n))
             PROVE  decodeShortvecLen(data) = [err |-> "nil", value |-> n, read |-> shortvecLen(n)]
  BY DEF LengthReadBack
<1> DEFINE lo  == n % 128
           mid == (n \div 128) % 128
           two == n \div 128
           hi  == n \div 16384
<1>0. n < LengthLimit
  BY SMTT(60) DEF MaxShortvec, LengthLimit
<1>s. /\ lo \in 0 .. 127 /\ mid \in 0 .. 127 /\ hi \in 0 .. 127
      /\ n < 16384 => two \in 0 .. 127 /\ lo + 128 * two = n
      /\ n >= 128 => two > 0
      /\ n >= 16384 => hi > 0
      /\ lo + 128 * mid + 16384 * hi = n
  BY <1>0, Septets
<1>a. /\ n < 128 => appendShortvecLen(n) = <<n>>
      /\ n >= 128 /\ n < 16384 => appendShortvecLen(n) = <<lo + 128, two>>
      /\ n >= 16384 => appendShortvecLen(n) = <<lo + 128, mid + 128, hi>>
  BY <1>0, AppendCases
<1> HIDE DEF lo, mid, two, hi
<1>1. CASE n < 128
  <2>e. appendShortvecLen(n) = <<n>>
    BY <1>a, <1>1, SMTT(60)
  <2>0. BeginsWith(data, <<n>>)
    BY <2>e, ZenonT(60)
  <2>1. Len(data) >= 1 /\ data[1] = n
    BY <2>0, BeginsWithBytes, ZenonT(60)
  <2> QED BY <2>1, <1>1, SMTT(60) DEF decodeShortvecLen, ShortvecValue, MaxShortvec, shortvecLen
<1>2. CASE n >= 128 /\ n < 16384
  <2>e. appendShortvecLen(n) = <<lo + 128, two>>
    BY <1>a, <1>2, SMTT(60)
  <2>0. BeginsWith(data, <<lo + 128, two>>)
    BY <2>e, ZenonT(60)
  <2>1. Len(data) >= 2 /\ data[1] = lo + 128 /\ data[2] = two
    BY <2>0, BeginsWithBytes, ZenonT(60)
  <2>2. decodeShortvecLen(data) = ShortvecValue((data[1] % 128) + 128 * data[2], 2)
    BY <2>1, <1>s, <1>2, SMTT(60) DEF decodeShortvecLen
  <2>3. (lo + 128) % 128 = lo
    BY <1>s, Wraps, SMTT(60)
  <2>4. (data[1] % 128) + 128 * data[2] = n
    BY <2>1, <2>3, <1>s, <1>2, SMTT(60)
  <2> QED BY <2>2, <2>4, <1>2, SMTT(60) DEF ShortvecValue, MaxShortvec, shortvecLen
<1>3. CASE n >= 16384
  <2>e. appendShortvecLen(n) = <<lo + 128, mid + 128, hi>>
    BY <1>a, <1>3, SMTT(60)
  <2>0. BeginsWith(data, <<lo + 128, mid + 128, hi>>)
    BY <2>e, ZenonT(60)
  <2>1. Len(data) >= 3 /\ data[1] = lo + 128 /\ data[2] = mid + 128 /\ data[3] = hi
    BY <2>0, BeginsWithBytes, ZenonT(60)
  <2>2. decodeShortvecLen(data) =
          ShortvecValue((data[1] % 128) + 128 * (data[2] % 128) + 16384 * data[3], 3)
    BY <2>1, <1>s, <1>3, SMTT(60) DEF decodeShortvecLen
  <2>3. (lo + 128) % 128 = lo /\ (mid + 128) % 128 = mid
    BY <1>s, Wraps, SMTT(60)
  <2>4. (data[1] % 128) + 128 * (data[2] % 128) + 16384 * data[3] = n
    BY <2>1, <2>3, <1>s, SMTT(60)
  <2> QED BY <2>2, <2>4, <1>3, SMTT(60) DEF ShortvecValue, MaxShortvec, shortvecLen
<1> QED BY <1>1, <1>2, <1>3, SMTT(60)

\* The septets of a length that was put together from septets.
LEMMA SeptetsOfSum ==
  ASSUME NEW a \in Nat, NEW b \in Nat, NEW c \in Nat, a < 128, b < 128, c < 128
  PROVE  LET n == a + 128 * b + 16384 * c
         IN  n % 128 = a /\ (n \div 128) % 128 = b /\ n \div 16384 = c
  BY SMTT(60)

\* The two-byte case of the same.
LEMMA SeptetsOfPair ==
  ASSUME NEW a \in Nat, NEW b \in Nat, a < 128, b < 128
  PROVE  (a + 128 * b) % 128 = a /\ (a + 128 * b) \div 128 = b
  BY SMTT(60)

\* The septet of a byte with the continuation bit.
LEMMA SeptetOfByte ==
  ASSUME NEW x \in Nat, x >= 128, x < 256
  PROVE  x % 128 \in Nat /\ x % 128 < 128 /\ (x % 128) + 128 = x
  BY SMTT(60)

\* What begins with the bytes it has.
LEMMA BeginsWithOwn ==
  ASSUME NEW data \in Seq(Nat), NEW x, NEW y, NEW z
  PROVE  /\ Len(data) >= 1 /\ data[1] = x => BeginsWith(data, <<x>>)
         /\ Len(data) >= 2 /\ data[1] = x /\ data[2] = y => BeginsWith(data, <<x, y>>)
         /\ Len(data) >= 3 /\ data[1] = x /\ data[2] = y /\ data[3] = z =>
              BeginsWith(data, <<x, y, z>>)
  BY SMTT(60) DEF BeginsWith

\* A length of one byte.
LEMMA DecodeOne ==
  ASSUME NEW data, NEW x \in Nat, Len(data) \in Nat, Len(data) >= 1, x = data[1], x < 128
  PROVE  decodeShortvecLen(data) = ShortvecValue(x, 1)
  BY SMTT(60) DEF decodeShortvecLen

\* A length of two bytes.
LEMMA DecodeTwo ==
  ASSUME NEW data, NEW x \in Nat, NEW y \in Nat, Len(data) \in Nat, Len(data) >= 2,
         x = data[1], y = data[2], x >= 128, y > 0, y < 128
  PROVE  decodeShortvecLen(data) = ShortvecValue((x % 128) + 128 * y, 2)
  BY SMTT(60) DEF decodeShortvecLen

\* Anything else is refused.
LEMMA DecodeNone ==
  ASSUME NEW data, Len(data) \in Nat,
         Len(data) >= 1 => data[1] \in Nat,
         Len(data) >= 2 => data[2] \in Nat,
         Len(data) >= 3 => data[3] \in Nat,
         ~(Len(data) >= 1 /\ data[1] < 128),
         ~(Len(data) >= 2 /\ data[1] >= 128 /\ data[2] > 0 /\ data[2] < 128),
         ~(Len(data) >= 3 /\ data[1] >= 128 /\ data[2] >= 128 /\ data[3] > 0 /\ data[3] < 128)
  PROVE  \E why \in {"truncated", "nonCanonical", "tooLarge"} :
           decodeShortvecLen(data) = ShortvecError(why)
  BY SMTT(60) DEF decodeShortvecLen

\* Bytes that are taken for a length begin with the encoding of that length.
THEOREM LengthsHaveOneForm ==
  ASSUME NEW data, IsBytes(data)
  PROVE  LengthOneForm(data)
<1> DEFINE d == decodeShortvecLen(data)
<1> SUFFICES ASSUME d.err = "nil"
             PROVE  d.read = shortvecLen(d.value) /\ BeginsWith(data, appendShortvecLen(d.value))
  BY DEF LengthOneForm
<1>0. data \in Seq(Nat) /\ Len(data) \in Nat /\ \A i \in 1 .. Len(data) : data[i] < 256
  BY DEF IsBytes
<1>1. /\ Len(data) >= 1 => data[1] \in Nat /\ data[1] < 256
      /\ Len(data) >= 2 => data[2] \in Nat /\ data[2] < 256
      /\ Len(data) >= 3 => data[3] \in Nat /\ data[3] < 256
  BY <1>0, SMTT(60)
<1>2. ASSUME NEW v \in Nat, NEW k \in Nat, d = ShortvecValue(v, k)
      PROVE  d.value = v /\ d.read = k
  BY <1>2, SMTT(60) DEF ShortvecValue, ShortvecError
<1> HIDE DEF d
<1>3. CASE Len(data) >= 1 /\ data[1] < 128
  <2>1. PICK x \in Nat : x = data[1]
    BY <1>1, <1>3
  <2>2. d.value = x /\ d.read = 1
    BY <2>1, <1>0, <1>2, <1>3, DecodeOne, SMTT(60) DEF d
  <2>3. appendShortvecLen(x) = <<x>> /\ shortvecLen(x) = 1
    BY <2>1, <1>3, SMTT(60) DEF appendShortvecLen, shortvecLen
  <2>4. BeginsWith(data, <<x>>)
    BY <2>1, <1>0, <1>3, BeginsWithOwn
  <2> QED BY <2>2, <2>3, <2>4, ZenonT(60)
<1>4. CASE Len(data) >= 2 /\ data[1] >= 128 /\ data[2] > 0 /\ data[2] < 128
  <2>1. PICK x \in Nat, y \in Nat : x = data[1] /\ y = data[2]
    BY <1>1, <1>4, SMTT(60)
  <2> DEFINE a == x % 128
             n == a + 128 * y
  <2>2. x >= 128 /\ x < 256 /\ y > 0 /\ y < 128
    BY <2>1, <1>1, <1>4, SMTT(60)
  <2>3. a \in Nat /\ a < 128 /\ a + 128 = x
    BY <2>2, SeptetOfByte
  <2>4. d = ShortvecValue(n, 2)
    BY <2>1, <2>2, <1>0, <1>4, DecodeTwo, SMTT(60) DEF d
  <2> HIDE DEF a
  <2>5. n \in Nat /\ n >= 128 /\ n < 16384
    BY <2>2, <2>3, SMTT(60)
  <2>6. n % 128 = a /\ n \div 128 = y
    BY <2>2, <2>3, SeptetsOfPair, SMTT(60)
  <2> HIDE DEF n
  <2>7. d.value = n /\ d.read = 2
    BY <2>4, <2>5, <1>2, SMTT(60)
  <2>8. appendShortvecLen(n) = <<x, y>> /\ shortvecLen(n) = 2
    BY <2>3, <2>5, <2>6, SMTT(60) DEF appendShortvecLen, shortvecLen
  <2>9. BeginsWith(data, <<x, y>>)
    BY <2>1, <1>0, <1>4, BeginsWithOwn
  <2> QED BY <2>7, <2>8, <2>9, ZenonT(60)
<1>5. CASE Len(data) >= 3 /\ data[1] >= 128 /\ data[2] >= 128 /\ data[3] > 0 /\ data[3] < 128
  <2>1. PICK x \in Nat, y \in Nat, z \in Nat : x = data[1] /\ y = data[2] /\ z = data[3]
    BY <1>1, <1>5, SMTT(60)
  <2> DEFINE a == x % 128
             b == y % 128
             n == a + 128 * b + 16384 * z
  <2>2. x >= 128 /\ x < 256 /\ y >= 128 /\ y < 256 /\ z > 0 /\ z < 128
    BY <2>1, <1>1, <1>5, SMTT(60)
  <2>3. a \in Nat /\ a < 128 /\ a + 128 = x /\ b \in Nat /\ b < 128 /\ b + 128 = y
    BY <2>2, SeptetOfByte
  <2>4. d = ShortvecValue(n, 3)
    <3>1. PICK len \in Nat : len = Len(data) /\ len >= 3
      BY <1>0, <1>5
    <3> QED BY <3>1, <2>1, <2>2, SMTT(60) DEF d, decodeShortvecLen
  <2> HIDE DEF a, b
  <2>5. n \in Nat /\ n >= 16384
    BY <2>2, <2>3, SMTT(60)
  <2>6. n % 128 = a /\ (n \div 128) % 128 = b /\ n \div 16384 = z
    BY <2>2, <2>3, SeptetsOfSum, SMTT(60)
  <2> HIDE DEF n
  <2>7. d.value = n /\ d.read = 3
    BY <2>4, <2>5, <1>2, SMTT(60)
  <2>8. appendShortvecLen(n) = <<x, y, z>> /\ shortvecLen(n) = 3
    BY <2>3, <2>5, <2>6, SMTT(60) DEF appendShortvecLen, shortvecLen
  <2>9. BeginsWith(data, <<x, y, z>>)
    BY <2>1, <1>0, <1>5, BeginsWithOwn
  <2> QED BY <2>7, <2>8, <2>9, ZenonT(60)
<1>6. CASE ~(Len(data) >= 1 /\ data[1] < 128)
           /\ ~(Len(data) >= 2 /\ data[1] >= 128 /\ data[2] > 0 /\ data[2] < 128)
           /\ ~(Len(data) >= 3 /\ data[1] >= 128 /\ data[2] >= 128 /\ data[3] > 0 /\ data[3] < 128)
  <2>1. PICK why \in {"truncated", "nonCanonical", "tooLarge"} : d = ShortvecError(why)
    BY <1>0, <1>1, <1>6, DecodeNone, SMTT(60) DEF d
  <2> QED BY <2>1, SMTT(60) DEF ShortvecError
<1> QED BY <1>3, <1>4, <1>5, <1>6, ZenonT(60)

-----------------------------------------------------------------------------
(* Proofs in records, and the table.                                       *)

\* Before the first instruction nothing has landed.
LEMMA RecordInitInv == RecordInit => RecordInv
BY RecordAssumption DEF RecordInit, RecordInv, space, Zero

\* A turn of the loop keeps the chunks it has made and covers what it passes.
LEMMA PlanStep ==
  ASSUME RecordInv, WriteConfidentialRecord
  PROVE  RecordInv'
<1> DEFINE end == IF chunkSize < Staged - offset THEN offset + chunkSize ELSE Staged
           w == [offset |-> offset, end |-> end, data |-> [i \in offset .. end - 1 |-> ProofByte(i)]]
<1>1. /\ chunkSize > 0 /\ offset < Staged /\ offset' = offset + chunkSize
      /\ writes' = writes \cup {w} /\ UNCHANGED <<input, record, status, landed>>
  BY DEF WriteConfidentialRecord, Accepted
<1>2. /\ end \in Nat /\ offset <= end /\ end <= Staged
      /\ \A i \in 0 .. Staged - 1 : i < offset + chunkSize /\ i >= offset => i < end
  BY RecordAssumption, <1>1 DEF RecordInv
<1>3. w.offset = offset /\ w.end = end /\ w.data = [i \in w.offset .. w.end - 1 |-> ProofByte(i)]
  OBVIOUS
<1>4. \A v \in writes' :
        /\ v.offset \in Nat /\ v.end \in Nat /\ v.offset <= v.end /\ v.end <= Staged
        /\ v.data = [i \in v.offset .. v.end - 1 |-> ProofByte(i)]
  BY <1>1, <1>2, <1>3 DEF RecordInv
<1>5. \A i \in 0 .. Staged - 1 : i < offset' => \E v \in writes' : v.offset <= i /\ i < v.end
  <2>1. SUFFICES ASSUME NEW i \in 0 .. Staged - 1, i < offset + chunkSize
                 PROVE  \E v \in writes \cup {w} : v.offset <= i /\ i < v.end
    BY <1>1
  <2>2. CASE i < offset
    BY <2>2 DEF RecordInv
  <2>3. CASE i >= offset
    BY <2>1, <2>3, <1>2, <1>3
  <2>4. QED BY <2>2, <2>3 DEF RecordInv
<1>6. offset' \in Nat /\ landed' \subseteq writes'
  BY <1>1, RecordAssumption DEF RecordInv
<1>7. QED BY <1>1, <1>4, <1>5, <1>6 DEF RecordInv, space, input

\* Initialising writes the header and no byte of the proof.
LEMMA InitializeStep ==
  ASSUME RecordInv, InitializeConfidentialRecord
  PROVE  RecordInv'
<1>1. /\ landed = {} /\ status' = "initialised" /\ UNCHANGED <<input, offset, writes, landed>>
      /\ record' = [i \in 0 .. space - 1 |-> IF i < DataOffset THEN Header ELSE record[i]]
  BY DEF InitializeConfidentialRecord, RecordInv
<1>2. record' \in [0 .. space - 1 -> [byte : Int]]
  BY <1>1 DEF RecordInv, Header
<1>3. \A i \in 0 .. DataOffset - 1 : record'[i] = Header
  BY <1>1, RecordAssumption DEF space
<1>4. QED BY <1>1, <1>2, <1>3 DEF RecordInv, space, input

\* A write lands on its own bytes, with the proof's bytes in them, whether
\* or not another write, or the same one, has been there before.
LEMMA WriteStep ==
  ASSUME RecordInv, NEW w \in writes, ExecuteWrite(w)
  PROVE  RecordInv'
<1>1. /\ status = "initialised" /\ landed' = landed \cup {w} /\ UNCHANGED <<input, offset, writes, status>>
      /\ record' = [i \in 0 .. space - 1 |->
           IF w.offset + DataOffset <= i /\ i < w.end + DataOffset
           THEN w.data[i - DataOffset] ELSE record[i]]
  BY DEF ExecuteWrite
<1>2. /\ w.offset \in Nat /\ w.end \in Nat /\ w.offset <= w.end /\ w.end <= Staged
      /\ w.data = [i \in w.offset .. w.end - 1 |-> ProofByte(i)]
  BY DEF RecordInv
<1>3. \A i \in 0 .. space - 1 :
        w.offset + DataOffset <= i /\ i < w.end + DataOffset =>
          w.data[i - DataOffset] = ProofByte(i - DataOffset)
  BY <1>2, RecordAssumption DEF space
<1>4. record' \in [0 .. space - 1 -> [byte : Int]]
  <2>1. ASSUME NEW i \in 0 .. space - 1
        PROVE  record'[i] \in [byte : Int]
    <3>1. CASE w.offset + DataOffset <= i /\ i < w.end + DataOffset
      <4>1. record'[i] = ProofByte(i - DataOffset)
        BY <1>1, <1>3, <3>1
      <4>2. i - DataOffset \in Int
        BY RecordAssumption
      <4>3. QED BY <4>1, <4>2 DEF ProofByte
    <3>2. CASE ~(w.offset + DataOffset <= i /\ i < w.end + DataOffset)
      BY <1>1, <3>2 DEF RecordInv
    <3>3. QED BY <3>1, <3>2
  <2>2. QED BY <2>1, <1>1
<1>5. \A i \in 0 .. DataOffset - 1 : record'[i] = Header
  BY <1>1, <1>2, RecordAssumption DEF RecordInv, space
<1>6. \A v \in landed' : \A i \in v.offset .. v.end - 1 : record'[i + DataOffset] = ProofByte(i)
  <2>1. SUFFICES ASSUME NEW v \in landed \cup {w}, NEW i \in v.offset .. v.end - 1
                 PROVE  record'[i + DataOffset] = ProofByte(i)
    BY <1>1
  <2>2. /\ v \in writes /\ v.offset \in Nat /\ v.end \in Nat /\ v.end <= Staged
    BY DEF RecordInv
  <2>3. /\ i \in Nat /\ i + DataOffset \in 0 .. space - 1 /\ (i + DataOffset) - DataOffset = i
    BY <2>2, RecordAssumption DEF space
  <2>4. CASE w.offset <= i /\ i < w.end
    BY <1>1, <1>2, <1>3, <2>3, <2>4, RecordAssumption
  <2>5. CASE ~(w.offset <= i /\ i < w.end)
    <3>1. v \in landed
      BY <2>5, <1>2, <2>3
    <3>2. record'[i + DataOffset] = record[i + DataOffset]
      BY <1>1, <1>2, <2>3, <2>5, RecordAssumption
    <3>3. QED BY <3>1, <3>2 DEF RecordInv
  <2>6. QED BY <2>4, <2>5
<1>7. QED BY <1>1, <1>4, <1>5, <1>6 DEF RecordInv, space, input

\* Every step of the staging keeps its invariant.
LEMMA RecordStep == RecordInv /\ [RecordNext]_recordVars => RecordInv'
<1> SUFFICES ASSUME RecordInv, [RecordNext]_recordVars PROVE RecordInv'
  OBVIOUS
<1>1. CASE WriteConfidentialRecord
  BY <1>1, PlanStep
<1>2. CASE CreateAccount
  BY <1>2 DEF CreateAccount, RecordInv, space, input
<1>3. CASE InitializeConfidentialRecord
  BY <1>3, InitializeStep
<1>4. ASSUME NEW w \in writes, ExecuteWrite(w) PROVE RecordInv'
  BY <1>4, WriteStep
<1>5. CASE UNCHANGED recordVars
  BY <1>5 DEF recordVars, input, RecordInv, space
<1>6. CASE Refuse
  BY <1>6 DEF Refuse, input, RecordInv, space
<1>7. QED BY <1>1, <1>2, <1>3, <1>4, <1>5, <1>6 DEF RecordNext

\* So the invariant of the staging holds throughout.
LEMMA RecordInvariant == RecordSpec => []RecordInv
BY RecordInitInv, RecordStep, PTL DEF RecordSpec

\* Once all writes have landed, every byte was written by one of them.
LEMMA RecordInvGivesProof == RecordInv => RecordHoldsProof
<1> SUFFICES ASSUME RecordInv, status = "initialised", Planned, landed = writes
             PROVE  /\ StagedProof = [i \in 0 .. Staged - 1 |-> ProofByte(i)]
                    /\ \A i \in 0 .. DataOffset - 1 : record[i] = Header
  BY DEF RecordHoldsProof
<1>1. ASSUME NEW i \in 0 .. Staged - 1 PROVE record[i + DataOffset] = ProofByte(i)
  <2>1. PICK w \in writes : w.offset <= i /\ i < w.end
    BY RecordAssumption DEF RecordInv, Planned
  <2>2. w.offset \in Nat /\ w.end \in Nat
    BY DEF RecordInv
  <2>3. i \in w.offset .. w.end - 1
    BY <2>1, <2>2
  <2>4. QED BY <2>3 DEF RecordInv
<1>2. QED BY <1>1 DEF StagedProof, RecordInv

\* For every proof length, chunk size the code accepts and data offset: once all the writes of
\* the plan have been executed, in any order and any number of times, the
\* record holds the proof, every byte in its place, behind an intact header.
THEOREM ProofIsStaged == RecordSpec => []RecordHoldsProof
BY RecordInvariant, RecordInvGivesProof, PTL

\* No write of the plan reaches beyond the account it was created with.
THEOREM WritesAlwaysFit == RecordSpec => []WritesFit
<1>1. RecordInv => WritesFit
  <2>1. SUFFICES ASSUME RecordInv, NEW w \in writes PROVE w.end + DataOffset <= space
    BY DEF WritesFit
  <2>2. w.end \in Nat /\ w.end <= Staged
    BY <2>1 DEF RecordInv
  <2>3. QED BY <2>2, RecordAssumption DEF space
<1>2. QED BY <1>1, RecordInvariant, PTL

-----------------------------------------------------------------------------
\* The chunk is positive: the loop that starts the goroutines ends.
LEMMA ChunkPositive == workers \in Nat \ {0} /\ chunk \in Nat \ {0}
<1>1. workers \in Nat \ {0} /\ workers <= Entries
  BY BuildAssumption DEF workers, Smaller
<1>2. Entries + workers - 1 >= workers /\ Entries + workers - 1 \in Nat
  BY <1>1, BuildAssumption
<1>3. ASSUME NEW n \in Nat, NEW w \in Nat \ {0}, n >= w PROVE n \div w \in Nat \ {0}
  BY <1>3
<1>4. QED BY <1>1, <1>2, <1>3 DEF chunk

\* Before the first goroutine nothing is filled.
LEMMA BuildInitInv == BuildInit => BuildInv
<1>1. IsFiniteSet({}) /\ Cardinality({}) = 0
  BY FS_EmptySet
<1>2. QED BY <1>1, BuildAssumption DEF BuildInit, BuildInv, BuildType, WritesDisjoint, TableExact, NoEntry

\* A new goroutine begins where all the earlier ranges have ended.
LEMMA SpawnStep ==
  ASSUME BuildInv, Spawn
  PROVE  BuildInv'
<1> DEFINE end == Smaller(started + chunk, Entries)
           new == [start |-> started, value |-> started, end |-> end, point |-> started]
<1>1. /\ started < Entries /\ wait' = wait + 1 /\ builders' = builders \cup {new}
      /\ started' = started + chunk /\ UNCHANGED <<entries, table>>
  BY DEF Spawn
<1>2. /\ started \in Nat /\ end \in Nat /\ started < end /\ end <= Entries /\ end <= started + chunk
      /\ started + chunk \in Nat /\ started <= started + chunk
      /\ \A i \in 0 .. Entries - 1 : started <= i /\ i < started + chunk => i < end
  BY <1>1, BuildAssumption, ChunkPositive DEF BuildInv, BuildType, Smaller
<1>3. new \notin builders
  BY <1>2 DEF BuildInv, BuildType
<1>4. IsFiniteSet(builders') /\ Cardinality(builders') = Cardinality(builders) + 1
  BY <1>1, <1>3, FS_AddElement DEF BuildInv, BuildType
<1>5. BuildType'
  BY <1>1, <1>2, <1>4 DEF BuildInv, BuildType
<1>6. WritesDisjoint'
  <2>1. \A b \in builders : b.end <= new.start
    BY DEF BuildInv
  <2>2. QED BY <1>1, <2>1 DEF BuildInv, WritesDisjoint
<1>7. \A b \in builders' :
        /\ b.start <= b.value /\ b.value <= b.end /\ b.end <= Entries /\ b.start < b.end
        /\ b.end <= started' /\ b.point = b.value
  <2>1. ASSUME NEW b \in builders PROVE b.end <= started + chunk
    BY <1>2 DEF BuildInv, BuildType
  <2>2. QED BY <1>1, <1>2, <2>1 DEF BuildInv
<1>8. \A i \in 0 .. Entries - 1 : i < started' =>
        \/ entries'[i] = [key |-> i, value |-> i]
        \/ \E b \in builders' : b.value <= i /\ i < b.end
  <2>1. SUFFICES ASSUME NEW i \in 0 .. Entries - 1, i < started + chunk
                 PROVE  \/ entries[i] = [key |-> i, value |-> i]
                        \/ \E b \in builders \cup {new} : b.value <= i /\ i < b.end
    BY <1>1
  <2>2. CASE i < started
    BY <2>2 DEF BuildInv
  <2>3. CASE started <= i
    <3>1. new.value <= i /\ i < new.end
      BY <2>1, <2>3, <1>2
    <3>2. QED BY <3>1
  <2>4. QED BY <1>2, <2>2, <2>3
<1>9. QED BY <1>1, <1>4, <1>5, <1>6, <1>7, <1>8 DEF BuildInv, TableExact

\* An element written is in the writer's own range, and leaves it.
LEMMA FillStep ==
  ASSUME BuildInv, NEW b \in builders, build(b)
  PROVE  BuildInv'
<1> DEFINE next == [start |-> b.start, value |-> b.value + 1, end |-> b.end, point |-> b.point + 1]
<1>1. /\ b.value < b.end /\ UNCHANGED <<started, wait, table>>
      /\ entries' = [entries EXCEPT ![b.value] = [key |-> b.point, value |-> b.value]]
      /\ builders' = (builders \ {b}) \cup {next}
  BY DEF build
<1>2. /\ b \in [start : Nat, value : Nat, end : Nat, point : Nat]
      /\ b.start <= b.value /\ b.value <= b.end /\ b.end <= Entries /\ b.start < b.end
      /\ b.end <= started /\ b.point = b.value
  BY DEF BuildInv, BuildType
<1>3. /\ next \in [start : Nat, value : Nat, end : Nat, point : Nat]
      /\ next.start = b.start /\ next.end = b.end
      /\ next.value = b.value + 1 /\ next.point = b.point + 1
  BY <1>2
<1>4. next \notin builders
  <2>1. SUFFICES ASSUME next \in builders PROVE FALSE
    OBVIOUS
  <2>2. next.value # b.value
    BY <1>2, <1>3
  <2>3. next.end <= b.start \/ b.end <= next.start
    BY <2>1, <2>2 DEF BuildInv, WritesDisjoint
  <2>4. QED BY <2>3, <1>2, <1>3
<1>5. IsFiniteSet(builders') /\ Cardinality(builders') = Cardinality(builders)
  <2>1. /\ IsFiniteSet(builders \ {b}) /\ Cardinality(builders \ {b}) = Cardinality(builders) - 1
    BY FS_RemoveElement DEF BuildInv, BuildType
  <2>2. Cardinality(builders) \in Nat
    BY FS_CardinalityType DEF BuildInv, BuildType
  <2>3. next \notin builders \ {b}
    BY <1>4
  <2>4. /\ IsFiniteSet((builders \ {b}) \cup {next})
        /\ Cardinality((builders \ {b}) \cup {next}) = Cardinality(builders \ {b}) + 1
    BY <2>1, <2>3, FS_AddElement
  <2>5. QED BY <1>1, <2>1, <2>2, <2>4
<1>6. b.value \in 0 .. Entries - 1
  BY <1>1, <1>2, BuildAssumption
<1>7. BuildType'
  <2>1. [key |-> b.point, value |-> b.value] \in [key : Int, value : Int]
    BY <1>2
  <2>2. entries' \in [0 .. Entries - 1 -> [key : Int, value : Int]]
    BY <1>1, <2>1 DEF BuildInv, BuildType
  <2>3. QED BY <1>1, <1>3, <1>5, <2>2 DEF BuildInv, BuildType
<1>8. WritesDisjoint'
  BY <1>1, <1>3 DEF BuildInv, WritesDisjoint
<1>9. \A c \in builders' :
        /\ c.start <= c.value /\ c.value <= c.end /\ c.end <= Entries /\ c.start < c.end
        /\ c.end <= started' /\ c.point = c.value
  <2>1. /\ next.start <= next.value /\ next.value <= next.end /\ next.end <= Entries
        /\ next.start < next.end /\ next.end <= started /\ next.point = next.value
    BY <1>1, <1>2, <1>3
  <2>2. QED BY <1>1, <2>1 DEF BuildInv
<1>10. \A i \in 0 .. Entries - 1 : i < started' =>
         \/ entries'[i] = [key |-> i, value |-> i]
         \/ \E c \in builders' : c.value <= i /\ i < c.end
  <2>1. SUFFICES ASSUME NEW i \in 0 .. Entries - 1, i < started
                 PROVE  \/ entries'[i] = [key |-> i, value |-> i]
                        \/ \E c \in builders' : c.value <= i /\ i < c.end
    BY <1>1
  <2>2. CASE i = b.value
    BY <1>1, <1>2, <2>2 DEF BuildInv, BuildType
  <2>3. CASE i # b.value /\ entries[i] = [key |-> i, value |-> i]
    BY <1>1, <2>3 DEF BuildInv, BuildType
  <2>4. CASE i # b.value /\ \E c \in builders : c.value <= i /\ i < c.end
    <3>1. PICK c \in builders : c.value <= i /\ i < c.end
      BY <2>4
    <3>2. CASE c = b
      <4>1. next.value <= i /\ i < next.end
        BY <1>2, <1>3, <2>4, <3>1, <3>2
      <4>2. QED BY <1>1, <4>1
    <3>3. CASE c # b
      BY <1>1, <3>1, <3>3
    <3>4. QED BY <3>2, <3>3
  <2>5. QED BY <2>1, <2>2, <2>3, <2>4 DEF BuildInv
<1>11. QED BY <1>1, <1>5, <1>7, <1>8, <1>9, <1>10 DEF BuildInv, TableExact

\* A goroutine leaves with its range filled.
LEMMA FinishStep ==
  ASSUME BuildInv, NEW b \in builders, Finish(b)
  PROVE  BuildInv'
<1>1. /\ b.value >= b.end /\ builders' = builders \ {b} /\ wait' = wait - 1
      /\ UNCHANGED <<entries, started, table>>
  BY DEF Finish
<1>2. IsFiniteSet(builders') /\ Cardinality(builders') = Cardinality(builders) - 1
  BY <1>1, FS_RemoveElement DEF BuildInv, BuildType
<1>3. BuildType' /\ WritesDisjoint'
  BY <1>1, <1>2 DEF BuildInv, BuildType, WritesDisjoint
<1>4. \A i \in 0 .. Entries - 1 : i < started' =>
        \/ entries'[i] = [key |-> i, value |-> i]
        \/ \E c \in builders' : c.value <= i /\ i < c.end
  <2>1. b.value \in Nat /\ b.end \in Nat
    BY DEF BuildInv, BuildType
  <2>2. QED BY <1>1, <2>1 DEF BuildInv
<1>5. QED BY <1>1, <1>2, <1>3, <1>4 DEF BuildInv, TableExact

\* When the counter is zero nobody is left to fill anything.
LEMMA WaitStep ==
  ASSUME BuildInv, Wait
  PROVE  BuildInv'
<1>1. /\ started >= Entries /\ wait = 0 /\ UNCHANGED <<entries, builders, started, wait>>
      /\ table' = {entries[i] : i \in 0 .. Entries - 1}
  BY DEF Wait
<1>2. builders = {}
  BY <1>1, FS_EmptySet DEF BuildInv, BuildType
<1>3. \A i \in 0 .. Entries - 1 : entries[i] = [key |-> i, value |-> i]
  BY <1>1, <1>2, BuildAssumption DEF BuildInv, BuildType
<1>4. TableExact'
  <2>1. {entries[i] : i \in 0 .. Entries - 1}
          = {[key |-> i, value |-> i] : i \in 0 .. Entries - 1}
    BY <1>3, ZenonT(60)
  <2> QED BY <1>1, <2>1 DEF TableExact
<1>5. QED BY <1>1, <1>4 DEF BuildInv, BuildType, WritesDisjoint

\* Every step of the build keeps its invariant.
LEMMA BuildStep == BuildInv /\ [BuildNext]_buildVars => BuildInv'
<1> SUFFICES ASSUME BuildInv, [BuildNext]_buildVars PROVE BuildInv'
  OBVIOUS
<1>1. CASE Spawn
  BY <1>1, SpawnStep
<1>2. ASSUME NEW b \in builders, build(b) PROVE BuildInv'
  BY <1>2, FillStep
<1>3. ASSUME NEW b \in builders, Finish(b) PROVE BuildInv'
  BY <1>3, FinishStep
<1>4. CASE Wait
  BY <1>4, WaitStep
<1>5. CASE UNCHANGED buildVars
  BY <1>5 DEF buildVars, BuildInv, BuildType, WritesDisjoint, TableExact
<1>6. QED BY <1>1, <1>2, <1>3, <1>4, <1>5 DEF BuildNext

\* So the invariant of the build holds throughout.
LEMMA BuildInvariant == BuildSpec => []BuildInv
BY BuildInitInv, BuildStep, PTL DEF BuildSpec

\* For every length of the table and every number of cores, the table holds
\* every small logarithm under its own key and nothing else.
THEOREM TableAlwaysExact == BuildSpec => []TableExact
<1>1. BuildInv => TableExact
  BY DEF BuildInv
<1>2. QED BY <1>1, BuildInvariant, PTL

\* No two goroutines share an element of the slice.
THEOREM WritesNeverRace == BuildSpec => []WritesDisjoint
<1>1. BuildInv => WritesDisjoint
  BY DEF BuildInv
<1>2. QED BY <1>1, BuildInvariant, PTL
=============================================================================
