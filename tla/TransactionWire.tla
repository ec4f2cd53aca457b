-------------------------- MODULE TransactionWire --------------------------
(***************************************************************************)
(* The bytes of messages and transactions: the legacy and v0 formats       *)
(* (src/message.go, src/transaction.go) and the v1 format                  *)
(* (src/transaction_v1.go), written and read.                              *)
(*                                                                         *)
(* Widths and limits of the code are constants.  Keys, hashes and          *)
(* signatures are numbers, written most significant byte first so that     *)
(* their order is the order of the bytes; 0 is the zero value.             *)
(***************************************************************************)
EXTENDS Transaction, Shortvec

CONSTANTS
  KeyLength,        \* 32
  HashLength,       \* 32
  SignatureLength,  \* 64
  SlotLength,       \* 4: one slot of the v1 config values
  V1MaxSize,        \* 4096
  HeapUnit,         \* 1024
  HeapMin,          \* 32 * 1024
  HeapMax           \* 256 * 1024

ASSUME WireAssumption ==
  /\ {KeyLength, HashLength, SignatureLength, SlotLength, HeapUnit} \subseteq Nat \ {0}
  /\ {V1MaxSize, HeapMin, HeapMax} \subseteq Nat

-----------------------------------------------------------------------------
(* Numbers as bytes.                                                       *)

Number(bytes)       == FoldLeft(LAMBDA n, b : n * 256 + b, 0, bytes)
BigEndian(v, n)     == [i \in 1 .. n |-> (v \div 256 ^ (n - i)) % 256]
LittleEndian(v, n)  == Reverse(BigEndian(v, n))
Join(seqs)          == FlattenSeq(seqs)

(* Readers: the value and the rest of the data, or a refusal.              *)
Accepted(v, rest) == [ok |-> TRUE, value |-> v, rest |-> rest]
Refused           == [ok |-> FALSE]

\* use of a value that is computed once.
With(value, use(_)) == CHOOSE result \in {use(v) : v \in {value}} : TRUE
Then(read, use(_, _)) ==
  With(read, LAMBDA r : IF r.ok THEN use(r.value, r.rest) ELSE Refused)

Drop(data, n) == SubSeq(data, n + 1, Len(data))

\* Mutant: missing bytes are taken for zeros.
ReadBytesShort(data, n) ==
  Accepted([i \in 1 .. n |-> IF i <= Len(data) THEN data[i] ELSE 0], Drop(data, n))

\* The length tests in front of every slice of the data.
ReadBytes(data, n) ==
  IF n > Len(data) THEN Refused ELSE Accepted(SubSeq(data, 1, n), Drop(data, n))

ReadNumber(data, n) == Then(ReadBytes(data, n), LAMBDA b, rest : Accepted(Number(b), rest))

\* n values of the same kind.
ReadMany(data, n, Read(_)) ==
  FoldLeft(LAMBDA read, i :
             Then(read, LAMBDA vs, rest :
               Then(Read(rest), LAMBDA v, left : Accepted(Append(vs, v), left))),
           Accepted(<<>>, data), [i \in 1 .. n |-> i])

\* n numbers of the same size, after one test of the length.
ReadNumbers(data, n, size) ==
  Then(ReadBytes(data, n * size), LAMBDA b, rest :
    Accepted([i \in 1 .. n |-> Number(SubSeq(b, (i - 1) * size + 1, i * size))], rest))

\* A length, refused if so many values of the least size are not there.
ReadLength(data, least) ==
  With(decodeShortvecLen(data), LAMBDA d :
    IF d.err # "nil" \/ d.value > (Len(data) - d.read) \div least THEN Refused
    ELSE Accepted(d.value, Drop(data, d.read)))

ReadVector(data, least, Read(_)) ==
  Then(ReadLength(data, least), LAMBDA n, rest : ReadMany(rest, n, Read))

ReadVectorOfNumbers(data, size) ==
  Then(ReadLength(data, size), LAMBDA n, rest : ReadNumbers(rest, n, size))

\* decodeLookupIndexes; the accounts and the data of an instruction alike.
ReadVectorOfBytes(data) ==
  Then(ReadLength(data, 1), LAMBDA n, rest : ReadBytes(rest, n))

AppendVectorOfBytes(bytes) == appendShortvecLen(Len(bytes)) \o bytes

-----------------------------------------------------------------------------
(* Message.                                                                *)

AppendHeader(h) == <<h.required, h.readonlySigned, h.readonlyUnsigned>>
Bytes(indexes)  == [i \in DOMAIN indexes |-> indexes[i] % Byte]

appendBody(m) ==
  AppendHeader(m.header)
    \o appendShortvecLen(Len(m.keys))
    \o Join([i \in DOMAIN m.keys |-> BigEndian(m.keys[i], KeyLength)])
    \o BigEndian(m.hash, HashLength)
    \o appendShortvecLen(Len(m.instructions))
    \o Join([i \in DOMAIN m.instructions |->
               <<m.instructions[i].program % Byte>>
                 \o AppendVectorOfBytes(Bytes(m.instructions[i].accounts))
                 \o AppendVectorOfBytes(m.instructions[i].data)])

AppendLookups(lookups) ==
  appendShortvecLen(Len(lookups))
    \o Join([i \in DOMAIN lookups |->
               BigEndian(lookups[i].table, KeyLength)
                 \o AppendVectorOfBytes(lookups[i].writable)
                 \o AppendVectorOfBytes(lookups[i].readonly)])

VersionPrefix == 128

marshalV0(m) == <<VersionPrefix>> \o appendBody(m) \o AppendLookups(m.lookups)

MarshalMessage(m) == IF m.version = "legacy" THEN appendBody(m) ELSE marshalV0(m)

ReadHeader(data) ==
  Then(ReadBytes(data, 3), LAMBDA b, rest :
    Accepted([required |-> b[1], readonlySigned |-> b[2], readonlyUnsigned |-> b[3]], rest))

ReadInstruction(data) ==
  Then(ReadNumber(data, 1), LAMBDA p, r1 :
    Then(ReadVectorOfBytes(r1), LAMBDA accounts, r2 :
      Then(ReadVectorOfBytes(r2), LAMBDA bytes, r3 :
        Accepted([program |-> p, accounts |-> accounts, data |-> bytes], r3))))

unmarshalBody(data) ==
  Then(ReadHeader(data), LAMBDA h, r1 :
    Then(ReadVectorOfNumbers(r1, KeyLength), LAMBDA keys, r2 :
      Then(ReadNumber(r2, HashLength), LAMBDA blockhash, r3 :
        Then(ReadVector(r3, 1, ReadInstruction), LAMBDA ixs, r4 :
          Accepted([version |-> "legacy", keys |-> keys, header |-> h, hash |-> blockhash,
                    lookups |-> <<>>, instructions |-> ixs], r4)))))

ReadLookup(data) ==
  Then(ReadNumber(data, KeyLength), LAMBDA key, r1 :
    Then(ReadVectorOfBytes(r1), LAMBDA writable, r2 :
      Then(ReadVectorOfBytes(r2), LAMBDA readonly, r3 :
        Accepted([table |-> key, writable |-> writable, readonly |-> readonly], r3))))

unmarshalLookups(data) == ReadVector(data, KeyLength + 2, ReadLookup)

\* Message.unmarshalBinaryConsumed: what is consumed is what is not left.
unmarshalMessage(data) ==
  IF data = <<>> THEN Refused
  ELSE IF data[1] < VersionPrefix THEN unmarshalBody(data)
  ELSE IF data[1] # VersionPrefix THEN Refused
  ELSE Then(unmarshalBody(Tail(data)), LAMBDA m, r1 :
         Then(unmarshalLookups(r1), LAMBDA lookups, r2 :
           Accepted([m EXCEPT !.version = "v0", !.lookups = lookups], r2)))

-----------------------------------------------------------------------------
(* Transaction: signatures in front of the message; here a signature is a  *)
(* number.                                                                 *)

PaddedSignatures(t) ==
  t.sigs \o [i \in 1 .. (IF t.message.header.required > Len(t.sigs)
                         THEN t.message.header.required - Len(t.sigs) ELSE 0) |-> 0]

AppendSignatures(sigs) == Join([i \in DOMAIN sigs |-> BigEndian(sigs[i], SignatureLength)])

MarshalTransaction(t) ==
  appendShortvecLen(Len(PaddedSignatures(t)))
    \o AppendSignatures(PaddedSignatures(t)) \o MarshalMessage(t.message)

unmarshalTransaction(data) ==
  Then(ReadVectorOfNumbers(data, SignatureLength), LAMBDA sigs, r1 :
    Then(unmarshalMessage(r1), LAMBDA m, r2 :
      Accepted([form |-> "legacy", message |-> m, sigs |-> sigs], r2)))

-----------------------------------------------------------------------------
(* TransactionV1.  A config value is a sequence of at most one number.     *)

ConfigFields == <<"fee", "units", "loaded", "heap">>
SlotsOf(f)    == IF f = "fee" THEN 2 ELSE 1

\* The mask bits of a field: the fee has two of them.
BitsOf(f) == CASE f = "fee" -> {0, 1} [] f = "units" -> {2} [] f = "loaded" -> {3} [] f = "heap" -> {4}

mask(config) == UNION {BitsOf(f) : f \in {g \in ToSet(ConfigFields) : config[g] # <<>>}}

MaskBytes(bits) == [i \in 1 .. 4 |-> SumSet({2 ^ (b % 8) : b \in {c \in bits : c \div 8 = i - 1}})]
MaskBits(bytes) == {b \in 0 .. 31 : (bytes[b \div 8 + 1] \div 2 ^ (b % 8)) % 2 = 1}

validate(config) ==
  config.heap # <<>> =>
    /\ config.heap[1] \in HeapMin .. HeapMax
    /\ config.heap[1] % HeapUnit = 0

appendValues(config) ==
  Join([i \in 1 .. 4 |->
          LET f == ConfigFields[i]
          IN  IF config[f] = <<>> THEN <<>> ELSE LittleEndian(config[f][1], SlotLength * SlotsOf(f))])

\* TransactionV1.sanitize, with what Transaction leaves out of it.
sanitizeV1(t) ==
  /\ sanitize(t.message)
  /\ \A i \in DOMAIN t.message.instructions :
       /\ Len(t.message.instructions[i].accounts) <= 255
       /\ Len(t.message.instructions[i].data) <= 65535
  /\ validate(t.config)

PayloadSizes(m) ==
  FoldLeft(LAMBDA n, ix : n + Len(ix.accounts) + Len(ix.data), 0, m.instructions)

signedSize(t) ==
  10 + HashLength + KeyLength * Len(t.message.keys)
    + SlotLength * Cardinality(mask(t.config))
    + 4 * Len(t.message.instructions) + PayloadSizes(t.message)

appendSigned(t) ==
  LET m == t.message
      ixs == m.instructions
  IN  <<129>> \o AppendHeader(m.header)
        \o MaskBytes(mask(t.config))
        \o BigEndian(m.hash, HashLength)
        \o <<Len(ixs) % Byte, Len(m.keys) % Byte>>
        \o Join([i \in DOMAIN m.keys |-> BigEndian(m.keys[i], KeyLength)])
        \o appendValues(t.config)
        \o Join([i \in DOMAIN ixs |->
                   <<ixs[i].program % Byte, Len(ixs[i].accounts) % Byte>>
                     \o LittleEndian(Len(ixs[i].data), 2)])
        \o Join([i \in DOMAIN ixs |-> Bytes(ixs[i].accounts) \o ixs[i].data])

\* TransactionV1.MarshalBinary accepts the transaction.
MarshalsV1(t) ==
  /\ sanitizeV1(t)
  /\ Len(t.sigs) = t.message.header.required
  /\ signedSize(t) + SignatureLength * Len(t.sigs) <= V1MaxSize

MarshalV1(t) == appendSigned(t) \o AppendSignatures(t.sigs)

NoConfig == [f \in ToSet(ConfigFields) |-> <<>>]

\* The config values that the mask announces.
ReadConfig(data, bits) ==
  FoldLeft(LAMBDA read, f :
             Then(read, LAMBDA c, r1 :
               IF ~(BitsOf(f) \subseteq bits) THEN Accepted(c, r1)
               ELSE Then(ReadBytes(r1, SlotLength * SlotsOf(f)), LAMBDA b, r2 :
                      Accepted([c EXCEPT ![f] = <<Number(Reverse(b))>>], r2))),
           Accepted(NoConfig, data), ConfigFields)

KnownBits == 0 .. 4

ReadInstructionHeaders(data, n) ==
  Then(ReadBytes(data, 4 * n), LAMBDA h, rest :
    Accepted([i \in 1 .. n |-> [program  |-> h[4 * i - 3],
                                accounts |-> h[4 * i - 2],
                                data     |-> h[4 * i - 1] + 256 * h[4 * i]]], rest))

\* The payloads of the instructions whose headers are hs.
ReadPayloads(data, hs) ==
  FoldLeft(LAMBDA read, h :
             Then(read, LAMBDA ixs, r1 :
               Then(ReadBytes(r1, h.accounts + h.data), LAMBDA b, r2 :
                 Accepted(Append(ixs, [program  |-> h.program,
                                       accounts |-> SubSeq(b, 1, h.accounts),
                                       data     |-> Drop(b, h.accounts)]), r2))),
           Accepted(<<>>, data), hs)

\* Nothing may follow the signatures.
EndsV1(rest) == rest = <<>>

FeeBitsAgree(bits) == 0 \in bits <=> 1 \in bits

\* TransactionV1.UnmarshalBinary.
unmarshalV1(data) ==
  IF Len(data) > V1MaxSize \/ Len(data) < 10 + HashLength \/ data[1] # 129 THEN Refused
  ELSE LET bits    == MaskBits(SubSeq(data, 5, 8))
           numIxs  == data[9 + HashLength]
           numKeys == data[10 + HashLength]
       IN
  IF ~(bits \subseteq KnownBits) \/ ~FeeBitsAgree(bits) THEN Refused ELSE
  Then(ReadHeader(Tail(data)), LAMBDA h, r0 :
   Then(ReadNumber(Drop(data, 8), HashLength), LAMBDA blockhash, r1 :
    Then(ReadNumbers(Drop(r1, 2), numKeys, KeyLength), LAMBDA keys, r2 :
     Then(ReadConfig(r2, bits), LAMBDA config, r3 :
      Then(ReadInstructionHeaders(r3, numIxs), LAMBDA hs, r4 :
       Then(ReadPayloads(r4, hs), LAMBDA ixs, r5 :
        Then(ReadNumbers(r5, h.required, SignatureLength), LAMBDA sigs, r6 :
          LET t == [form |-> "v1", config |-> config, sigs |-> sigs,
                    message |-> [version |-> "legacy", keys |-> keys, header |-> h,
                                 hash |-> blockhash, lookups |-> <<>>, instructions |-> ixs]]
          IN  IF EndsV1(r6) /\ sanitizeV1(t) THEN Accepted(t, r6) ELSE Refused)))))))

-----------------------------------------------------------------------------
(* Bytes on their way: values of one kind, one behind the other, as a      *)
(* ledger entry holds them; whole, cut short, or with one byte changed;    *)
(* and a reader that walks over them.                                      *)

CONSTANTS
  Messages, Transactions, TransactionsV1,   \* what is sent
  AlteredTo,                                \* what a byte may change to
  MaxSent                                   \* bound: values in one buffer

VARIABLE wire

Idle == [kind |-> "none"]
InitWire == wire = Idle

Values(kind) ==
  CASE kind = "message" -> Messages
    [] kind = "transaction" -> Transactions
    [] kind = "v1" -> {t \in TransactionsV1 : MarshalsV1(t)}

Marshal(kind, v) ==
  CASE kind = "message" -> MarshalMessage(v)
    [] kind = "transaction" -> MarshalTransaction(v)
    [] kind = "v1" -> MarshalV1(v)

Unmarshal(kind, data) ==
  CASE kind = "message" -> unmarshalMessage(data)
    [] kind = "transaction" -> unmarshalTransaction(data)
    [] kind = "v1" -> unmarshalV1(data)

SendFirst(kind, v) ==
  \E bytes \in {Marshal(kind, v)} :
    wire' = [kind |-> kind, sent |-> <<v>>, bytes |-> bytes, how |-> "whole",
             read |-> <<>>, rest |-> bytes, err |-> FALSE]

Untouched == wire # Idle /\ wire.how = "whole" /\ wire.read = <<>> /\ ~wire.err

SendNext(v) ==
  /\ Len(wire.sent) < MaxSent
  /\ \E bytes \in {wire.bytes \o Marshal(wire.kind, v)} :
       wire' = [wire EXCEPT !.sent = Append(@, v), !.bytes = bytes, !.rest = bytes]

\* The last value loses n bytes.
Cut(n) ==
  /\ n \in 1 .. Len(Marshal(wire.kind, Last(wire.sent)))
  /\ \E bytes \in {SubSeq(wire.bytes, 1, Len(wire.bytes) - n)} :
       wire' = [wire EXCEPT !.bytes = bytes, !.rest = bytes, !.how = "cut"]

Alter(i, b) ==
  /\ Len(wire.sent) = 1 /\ wire.bytes[i] # b
  /\ \E bytes \in {[wire.bytes EXCEPT ![i] = b]} :
       wire' = [wire EXCEPT !.bytes = bytes, !.rest = bytes, !.how = "altered"]

\* TransactionFromBytesConsumed on what is left, or the decoder of a message
\* or a v1 transaction.
ReadNext ==
  /\ wire # Idle /\ ~wire.err /\ wire.rest # <<>>
  /\ \E r \in {Unmarshal(wire.kind, wire.rest)} :
       wire' = IF r.ok THEN [wire EXCEPT !.read = Append(@, r.value), !.rest = r.rest]
               ELSE [wire EXCEPT !.err = TRUE]

NextWire ==
  \/ /\ wire = Idle
     /\ \E kind \in {"message", "transaction", "v1"} : \E v \in Values(kind) : SendFirst(kind, v)
  \/ /\ Untouched
     /\ \/ \E v \in Values(wire.kind) : SendNext(v)
        \/ \E n \in 1 .. Len(wire.bytes) : Cut(n)
        \/ \E i \in 1 .. Len(wire.bytes), b \in AlteredTo : Alter(i, b)
  \/ ReadNext

-----------------------------------------------------------------------------
\* What arrives of a value: indexes of one byte, lookups in v0 only, a slot for
\* every required signature.
Arrives(kind, v) ==
  CASE kind = "message" -> Encoded(v)
    [] kind = "transaction" -> [v EXCEPT !.message = Encoded(@), !.sigs = PaddedSignatures(v)]
    [] kind = "v1" -> v

ArrivesAll == [i \in DOMAIN wire.sent |-> Arrives(wire.kind, wire.sent[i])]

\* Walking over a buffer of messages or transactions finds each of them at its
\* place, whatever follows it, and ends where the buffer ends
\* (TransactionFromBytesConsumed: "to walk buffers holding concatenated
\* transactions"); a v1 transaction stands alone.  A value that was cut short
\* is never read, not even as a shorter one, and the whole ones in front of it
\* are (the length tests of the decoders).
WalkExact ==
  /\ (wire # Idle /\ wire.how = "whole") =>
       IF wire.kind = "v1" /\ Len(wire.sent) > 1 THEN wire.read = <<>>
       ELSE /\ ~wire.err
            /\ IsPrefix(wire.read, ArrivesAll)
            /\ wire.rest = <<>> <=> wire.read = ArrivesAll
  /\ (wire # Idle /\ wire.how = "cut") =>
       /\ IsPrefix(wire.read, Front(ArrivesAll))
       /\ wire.err /\ wire.kind # "v1" => wire.read = Front(ArrivesAll)

\* A value has one encoding: whatever the bytes, those that were read are what
\* the value read is written as ("accepting them would let one message have
\* several encodings"), as long as there are signatures for all signers.
OneEncoding ==
  wire # Idle =>
    ((wire.kind = "transaction" =>
        \A i \in DOMAIN wire.read : Len(wire.read[i].sigs) >= wire.read[i].message.header.required) =>
     Join([i \in DOMAIN wire.read |-> Marshal(wire.kind, wire.read[i])]) \o wire.rest = wire.bytes)
=============================================================================
