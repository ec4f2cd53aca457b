------------------------------ MODULE Layout ------------------------------
(***************************************************************************)
(* Layouts: the calls a Data method makes on the encoder, or a decoder on  *)
(* the data, as a sequence of fields.  A kind is a tuple that starts with  *)
(* its name; Write and Read are what the Go code calls for a kind.         *)
(***************************************************************************)
EXTENDS Binary

U8      == <<"uint", 1>>
U16     == <<"uint", 2>>
U32     == <<"uint", Bytes32>>
U64     == <<"uint", Bytes64>>
I8      == <<"int8">>
I64     == <<"int64">>
Bool    == <<"bool">>
Key     == <<"bytes", KeyLength>>
Bytes(n) == <<"bytes", n>>
Bincode == <<"bincode">>
Borsh   == <<"borsh">>
Compact == <<"compact">>
\* A 64-bit length and the bytes.
Blob    == <<"blob">>
Var     == <<"var">>
\* A presence byte, then the value if there is one.
Opt(k)    == <<"opt", k>>
\* A presence tag of n bytes, then the value whether there is one or not.
Fixed(n, k) == <<"fixed", n, k>>
\* A key whose absence is the zero key.
NonZeroKey(n) == <<"nonzero", n>>
\* An optional key for which the constructor takes the zero key as none.
Given(k) == <<"given", k>>
\* A value that is refused when it is too long, or not below a bound.
AtMost(n, k) == <<"max", n, k>>
Below(n, k) == <<"below", n, k>>
\* A count, then as many values.  Before it allocates, a reader requires
\* count * least + tail bytes, and at most limit values.
Vec(c, k)                       == <<"vec", c, k, 0, 0, 65536>>
Bounded(c, k, least, tail, limit) == <<"vec", c, k, least, tail, limit>>
Tuple(ks) == <<"tuple", ks>>
\* An enumeration with a payload for each variant, and a payload that the
\* caller may have left out of the Go struct although it is needed.
Tagged(c, ks) == <<"tagged", c, ks>>
Needed(n)     == <<"needed", n>>
\* Everything that is left: bytes, or values while one still fits.
Rest      == <<"rest">>
While(k, least) == <<"while", k, least>>
\* A value that old encodings leave out.
Default(k, v) == <<"default", k, v>>

\* A byte the constructor sets to the number of accounts of a list.
Count == <<"count">>

f(name, kind) == [name |-> name, kind |-> kind]

Zero(k) == IF k[1] = "uint" THEN 0 ELSE [i \in 1..k[2] |-> 0]

\* The values of vs, each of its kind.
RECURSIVE Write(_, _, _), WriteAll(_, _, _)
WriteAll(e, ks, vs) ==
  IF ks = <<>> \/ e.err # "nil" THEN e
  ELSE WriteAll(Write(e, Head(ks), Head(vs)), Tail(ks), Tail(vs))

Write(e, k, v) ==
  CASE k[1] = "uint"    -> WriteUint(e, v, k[2])
    [] k[1] = "count"   -> WriteUint(e, v, 1)
    [] k[1] = "int8"    -> WriteUint(e, v % 256, 1)
    [] k[1] = "int64"   -> WriteUint(e, v % 256^Bytes64, Bytes64)
    [] k[1] = "bool"    -> WriteTag(e, v, 1)
    [] k[1] \in {"bytes", "rest"} -> WriteBytes(e, v)
    [] k[1] = "bincode" -> WriteBincodeString(e, v)
    [] k[1] = "borsh"   -> WriteBorshString(e, v)
    [] k[1] = "blob"    -> WriteBytes(WriteUint(e, Len(v), Bytes64), v)
    [] k[1] = "compact" -> WriteCompactU16(e, v)
    [] k[1] = "var"     -> WriteVarUint64(e, v)
    [] k[1] \in {"opt", "given"} -> IF v = <<>> THEN WriteTag(e, FALSE, 1)
                           ELSE Write(WriteTag(e, TRUE, 1), k[2], v[1])
    [] k[1] = "fixed"   -> IF v = <<>> THEN Write(WriteTag(e, FALSE, k[2]), k[3], Zero(k[3]))
                           ELSE Write(WriteTag(e, TRUE, k[2]), k[3], v[1])
    [] k[1] = "nonzero" -> WriteBytes(e, IF v = <<>> THEN [i \in 1..k[2] |-> 0] ELSE v[1])
    [] k[1] = "max"     -> IF Len(v) > k[2] THEN Refused(e, "ErrMaxLength")
                           ELSE Write(e, k[3], v)
    [] k[1] = "below"   -> IF v >= k[2] THEN Refused(e, "ErrInvalidValue")
                           ELSE Write(e, k[3], v)
    [] k[1] = "vec"     -> IF Len(v) > k[6] THEN Refused(e, "ErrMaxLength")
                           ELSE WriteAll(Write(e, k[2], Len(v)),
                                         [i \in 1..Len(v) |-> k[3]], v)
    [] k[1] = "tuple"   -> WriteAll(e, k[2], v)
    [] k[1] = "tagged"  -> IF v[1] >= Len(k[3]) THEN Refused(e, "ErrInvalidValue")
                           ELSE Write(Write(e, k[2], v[1]), k[3][v[1] + 1], v[2])
    [] k[1] = "needed"  -> IF v = <<>> THEN Refused(e, "missing value") ELSE WriteBytes(e, v)
    [] k[1] = "while"   -> WriteAll(e, [i \in 1..Len(v) |-> k[2]], v)
    [] k[1] = "default" -> Write(e, k[2], v)

\* The value that was read first, in front of the others.
Behind(first, others) == Got(others.d, <<first.v>> \o others.v)

\* n values of kind k, and one value of each kind of ks, up to an error.
RECURSIVE Read(_, _), ReadMany(_, _, _), ReadAll(_, _)
ReadMany(d, k, n) ==
  LET on(x) == Behind(x, ReadMany(x.d, k, n - 1))
  IN  IF n = 0 \/ d.err # "nil" THEN Got(d, <<>>) ELSE on(Read(d, k))

ReadAll(d, ks) ==
  LET on(x) == Behind(x, ReadAll(x.d, Tail(ks)))
  IN  IF ks = <<>> \/ d.err # "nil" THEN Got(d, <<>>) ELSE on(Read(d, Head(ks)))

Read(d, k) ==
  CASE k[1] = "uint"    -> ReadUint(d, k[2])
    [] k[1] = "int8"    -> LET signed(r) == Got(r.d, IF r.v > 127 THEN r.v - 256 ELSE r.v)
                           IN  signed(ReadUint(d, 1))
    [] k[1] = "int64"   -> ReadInt64(d)
    [] k[1] = "bool"    -> ReadTag(d, 1)
    [] k[1] \in {"bytes", "needed"} -> ReadBytes(d, k[2])
    [] k[1] = "rest"    -> ReadBytes(d, Remaining(d))
    [] k[1] = "bincode" -> ReadBincodeString(d)
    [] k[1] = "borsh"   -> ReadBorshString(d)
    [] k[1] = "blob"    -> LET whole(n) == ReadBytes(n.d, n.v) IN whole(ReadUint(d, Bytes64))
    [] k[1] = "compact" -> ReadCompactU16(d)
    [] k[1] = "var"     -> ReadVarUint64(d)
    [] k[1] \in {"opt", "given"} ->
         LET some(t) == IF t.v THEN ReadMany(t.d, k[2], 1) ELSE Got(t.d, <<>>)
         IN  some(ReadTag(d, 1))
    [] k[1] = "fixed"   ->
         LET some(t, r) == Got(r.d, IF t.v THEN <<r.v>> ELSE <<>>)
             behind(t)  == some(t, Read(t.d, k[3]))
         IN  behind(ReadTag(d, k[2]))
    [] k[1] = "nonzero" ->
         LET some(r) == Got(r.d, IF \A i \in 1..Len(r.v) : r.v[i] = 0 THEN <<>> ELSE <<r.v>>)
         IN  some(ReadBytes(d, k[2]))
    [] k[1] = "max"     ->
         LET within(r) == IF Len(r.v) > k[2] THEN Got(fail(r.d, "ErrMaxLength"), <<>>) ELSE r
         IN  within(Read(d, k[3]))
    [] k[1] = "below"   ->
         LET within(r) == IF r.v >= k[2] THEN Got(fail(r.d, "ErrInvalidValue"), 0) ELSE r
         IN  within(Read(d, k[3]))
    [] k[1] = "vec"     ->
         LET counted(n) == IF n.d.err # "nil" THEN Got(n.d, <<>>)
                           ELSE IF n.v > k[6] THEN Got(fail(n.d, "ErrMaxLength"), <<>>)
                           ELSE IF Remaining(n.d) < n.v * k[4] + k[5]
                           THEN Got(fail(n.d, "ErrUnexpectedEOF"), <<>>)
                           ELSE ReadMany(n.d, k[3], n.v)
         IN  counted(Read(d, k[2]))
    [] k[1] = "tuple"   -> ReadAll(d, k[2])
    [] k[1] = "tagged"  ->
         LET variant(t, r) == Got(r.d, <<t.v, r.v>>)
             payload(t) == IF t.d.err # "nil" THEN Got(t.d, <<0, <<>>>>)
                           ELSE IF t.v >= Len(k[3])
                           THEN Got(fail(t.d, "ErrInvalidValue"), <<0, <<>>>>)
                           ELSE variant(t, Read(t.d, k[3][t.v + 1]))
         IN  payload(Read(d, k[2]))
    [] k[1] = "while"   -> ReadMany(d, k[2], Remaining(d) \div k[3])
    [] k[1] = "default" -> IF d.err = "nil" /\ Remaining(d) = 0 THEN Got(d, k[3])
                           ELSE Read(d, k[2])

\* A value for each field, by name.
Kinds(layout) == [i \in 1..Len(layout) |-> layout[i].kind]
Names(layout) == [i \in 1..Len(layout) |-> layout[i].name]

WriteFields(e, layout, values) ==
  WriteAll(e, Kinds(layout), [i \in 1..Len(layout) |-> values[layout[i].name]])

ReadFields(d, layout) ==
  LET named(r) == Got(r.d, [n \in IF r.d.err = "nil" THEN ToSet(Names(layout)) ELSE {} |->
                              r.v[CHOOSE i \in 1..Len(layout) : layout[i].name = n]])
  IN  named(ReadAll(d, Kinds(layout)))
=============================================================================
