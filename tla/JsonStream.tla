----------------------------- MODULE JsonStream -----------------------------
(***************************************************************************)
(* StreamProgramAccounts and its jsonScanner (src/rpc/stream.go): the      *)
(* response is decoded while it arrives, in chunks of any size, out of one *)
(* buffer that is compacted, refilled and grown.  The reader is external.  *)
(*                                                                         *)
(* Offsets are those of the code, from 0; buf is a sequence, from 1.  Keys *)
(* and scalars are one character each.                                     *)
(***************************************************************************)
EXTENDS Naturals, Sequences, SequencesExt

CONSTANTS
  Docs,         \* responses: [text, accounts], the accounts as their texts
  InitialCap,   \* 64 << 10
  BatchElems,   \* streamBatchElems
  BatchBytes,   \* streamBatchBytes
  SplitsKeys,   \* may a chunk end between a key and its colon?
  MayCut,       \* may the body end early?
  MayFail       \* may the callback return an error?

ASSUME StreamAssumption ==
  /\ {InitialCap, BatchElems, BatchBytes} \subseteq Nat \ {0}
  /\ {SplitsKeys, MayCut, MayFail} \subseteq BOOLEAN

VARIABLES
  doc,                        \* the response
  input,                      \* what the reader has not delivered yet
  buf, pos, end, mark,        \* jsonScanner
  pc, level, first,           \* the place in StreamProgramAccounts and forEachKey
  key,                        \* the slice of buf scanStringRest returned
  start, depth, inString, escaped,  \* locals of scanStringRest and scanValue
  purpose,                    \* what the scanned value is for
  batch, bytes,               \* elements waiting in streamAccounts, and len(batch)
  delivered                   \* accounts the callback got

bufVars  == <<input, buf, pos, end, mark>>
scanVars == <<start, depth, inString, escaped>>
outVars  == <<batch, bytes, delivered>>
vars == <<doc, bufVars, pc, level, first, key, scanVars, purpose, outVars>>

Peeking == {"open", "key", "quote", "colon", "result", "array", "first", "value", "sep"}
Reading == Peeking \cup {"keystr", "scan"}

\* The scanner needs a byte that is not there: it is about to block in Read.
Dry  == pc \in Reading /\ pos = end
Char == buf[pos + 1]
Slice(from, to) == SubSeq(buf, from + 1, to)
Zeros(n) == [i \in 1..n |-> "0"]

Init ==
  /\ doc \in Docs
  /\ input = doc.text
  /\ buf = Zeros(InitialCap) /\ pos = 0 /\ end = 0 /\ mark = 0
  /\ pc = "open" /\ level = "envelope" /\ first = TRUE
  /\ key = <<0, 0>>
  /\ start = 0 /\ depth = 0 /\ inString = FALSE /\ escaped = FALSE
  /\ purpose = "skip"
  /\ batch = <<>> /\ bytes = 0 /\ delivered = <<>>

-----------------------------------------------------------------------------
(* jsonScanner.fill                                                        *)

\* Mutant: nothing is dropped.
DroppedNone == 0

\* The bytes that compaction drops.
Dropped == mark

\* scanStringRest and scanValue move their start by as much; elsewhere it is
\* not in use.
Shifted(offset) == IF offset >= Dropped THEN offset - Dropped ELSE 0

\* The reader returns n bytes; they go behind the live part of the buffer,
\* which was moved to its front and, if it fills the buffer, to a larger one.
fill(n) ==
  /\ Dry
  /\ LET shift == Dropped
         live  == Slice(shift, end)
         moved == live \o SubSeq(buf, Len(live) + 1, Len(buf))
         grown == IF Len(live) = Len(buf) THEN moved \o Zeros(Len(buf)) ELSE moved
         stop  == Len(live) + n
     IN  /\ n \in 1..Len(input)
         /\ stop <= Len(grown)
         /\ buf' = SubSeq(grown, 1, Len(live)) \o SubSeq(input, 1, n)
                     \o SubSeq(grown, stop + 1, Len(grown))
         /\ pos' = pos - shift
         /\ end' = stop
         /\ start' = Shifted(start)
  /\ mark' = 0
  /\ input' = SubSeq(input, n + 1, Len(input))
  /\ UNCHANGED <<doc, pc, level, first, key, depth, inString, escaped, purpose, outVars>>

\* The text a chunk of n bytes would complete: does it end in a key?
EndsInKey(n) ==
  LET at == Len(doc.text) - Len(input) + n
  IN  at < Len(doc.text) /\ doc.text[at + 1] = ":"

-----------------------------------------------------------------------------
(* Deliveries: flush, and what follows an element or the end of the array. *)

\* flush, then go on at the given place; the callback may refuse one.
Flush(accounts, place) ==
  /\ batch' = <<>> /\ bytes' = 0
  /\ \/ /\ delivered' = delivered \o accounts
        /\ pc' = place
     \/ /\ MayFail
        /\ \E i \in 1..Len(accounts) : delivered' = delivered \o SubSeq(accounts, 1, i)
        /\ pc' = "failed"

\* Mutant: a full batch is not delivered but started anew.
AddElementDrops(raw, at) ==
  LET full == Len(batch) + 1 >= BatchElems
  IN  /\ batch' = IF full THEN <<>> ELSE Append(batch, raw)
      /\ bytes' = 0
      /\ UNCHANGED delivered
      /\ pc' = "sep"

\* streamAccounts after scanValue: flush when the batch is full or the buffer
\* is used up.
AddElement(raw, at) ==
  LET elems == Append(batch, raw)
      size  == bytes + 1 + Len(raw)
  IN  \/ /\ Len(elems) >= BatchElems \/ size >= BatchBytes \/ at >= end
         /\ Flush(elems, "sep")
      \/ /\ ~(Len(elems) >= BatchElems \/ size >= BatchBytes \/ at >= end)
         /\ batch' = elems /\ bytes' = size
         /\ UNCHANGED delivered
         /\ pc' = "sep"

\* scanValue returns buf[start:at]; its caller uses it before the next read.
EndValue(at) ==
  /\ pos' = at /\ mark' = at
  /\ \/ /\ purpose = "error" /\ pc' = "failed" /\ UNCHANGED outVars
     \/ /\ purpose \in {"skip", "context"} /\ pc' = "key" /\ UNCHANGED outVars
     \/ /\ purpose = "account" /\ AddElement(Slice(start, at), at)

-----------------------------------------------------------------------------
(* The scanner, one character at a time.                                   *)

\* Mutant: whitespace is looked at again and again.
SkipStays ==
  /\ pc \in Peeking /\ ~Dry /\ Char = " "
  /\ UNCHANGED vars

\* peekNonSpace.
Skip ==
  /\ pc \in Peeking /\ ~Dry /\ Char = " "
  /\ pos' = pos + 1 /\ mark' = pos + 1
  /\ UNCHANGED <<doc, input, buf, end, pc, level, first, key, scanVars, purpose, outVars>>

\* A character that is not space, in one of the places that look for one.
At(place) == pc = place /\ ~Dry /\ Char # " "

Move(place) == pos' = pos + 1 /\ pc' = place /\ UNCHANGED mark

Open ==
  /\ At("open")
  /\ Char = "{" /\ Move("key")
  /\ UNCHANGED <<doc, input, buf, end, level, first, key, scanVars, purpose, outVars>>

\* scanStringRest starts behind the opening quote and keeps it.
KeyQuote ==
  /\ pos' = pos + 1 /\ mark' = pos /\ start' = pos + 1
  /\ escaped' = FALSE
  /\ pc' = "keystr"
  /\ UNCHANGED <<level, depth, inString>>

\* forEachKey: the end of the object, a comma between keys, or the first key.
NextKey ==
  /\ At("key")
  /\ \/ /\ Char = "}"
        /\ Move(IF level = "envelope" THEN "done" ELSE "key")
        /\ level' = "envelope"
        /\ UNCHANGED scanVars
     \/ /\ Char = "," /\ ~first
        /\ Move("quote")
        /\ UNCHANGED <<level, scanVars>>
     \/ /\ Char = "\"" /\ first
        /\ KeyQuote
  /\ first' = FALSE
  /\ UNCHANGED <<doc, input, buf, end, key, purpose, outVars>>

Quote ==
  /\ At("quote") /\ Char = "\""
  /\ KeyQuote
  /\ UNCHANGED <<doc, input, buf, end, first, key, purpose, outVars>>

\* scanStringRest returns a slice of the buffer.
KeyChar ==
  /\ pc = "keystr" /\ ~Dry
  /\ pos' = pos + 1
  /\ escaped' = (Char = "\\" /\ ~escaped)
  /\ \/ /\ Char = "\"" /\ ~escaped
        /\ key' = <<start, pos>> /\ mark' = pos + 1 /\ pc' = "colon"
     \/ /\ Char # "\"" \/ escaped
        /\ UNCHANGED <<key, mark, pc>>
  /\ UNCHANGED <<doc, input, buf, end, level, first, start, depth, inString, purpose, outVars>>

\* forEachKey: the slice becomes a string only after the colon was read.
Colon ==
  /\ At("colon") /\ Char = ":"
  /\ LET k == Slice(key[1], key[2])
         goto(place, use) == Move(place) /\ purpose' = use
     IN  CASE level = "envelope" /\ k = <<"E">> -> goto("value", "error")
           [] level = "envelope" /\ k = <<"R">> -> goto("result", "skip")
           [] level = "result" /\ k = <<"C">> -> goto("value", "context")
           [] level = "result" /\ k = <<"V">> -> goto("array", "account")
           [] OTHER -> goto("value", "skip")
  /\ UNCHANGED <<doc, input, buf, end, level, first, key, scanVars, outVars>>

\* StreamProgramAccounts: an array, an object with the context, or null.
Result ==
  /\ At("result")
  /\ \/ Char = "[" /\ Move("first") /\ purpose' = "account" /\ UNCHANGED <<level, first>>
     \/ Char = "{" /\ Move("key") /\ level' = "result" /\ first' = TRUE /\ UNCHANGED purpose
     \/ /\ Char \notin {"[", "{"}
        /\ pc' = "value" /\ UNCHANGED <<pos, mark, level, first, purpose>>
  /\ UNCHANGED <<doc, input, buf, end, key, scanVars, outVars>>

Array ==
  /\ At("array") /\ Char = "["
  /\ Move("first")
  /\ UNCHANGED <<doc, input, buf, end, level, first, key, scanVars, purpose, outVars>>

First ==
  /\ At("first")
  /\ \/ Char = "]" /\ Move("key")
     \/ Char # "]" /\ pc' = "value" /\ UNCHANGED <<pos, mark>>
  /\ UNCHANGED <<doc, input, buf, end, level, first, key, scanVars, purpose, outVars>>

\* scanValue, once its first character is there.
Value ==
  /\ At("value")
  /\ mark' = pos /\ start' = pos /\ depth' = 0 /\ inString' = FALSE /\ escaped' = FALSE
  /\ pc' = "scan"
  /\ UNCHANGED <<doc, input, buf, pos, end, level, first, key, purpose, outVars>>

ClosesString == inString /\ Char = "\"" /\ ~escaped

\* scanValue: where the value ends, if the next character ends it.
ValueEnds ==
  \/ ClosesString /\ depth = 0
  \/ ~inString /\ Char \in {"}", "]"} /\ depth <= 1
  \/ ~inString /\ Char = "," /\ depth = 0

\* The terminator of the enclosing container is not part of the value.
EndOffset == IF ~inString /\ depth = 0 THEN pos ELSE pos + 1

ScanEnd ==
  /\ pc = "scan" /\ ~Dry /\ ValueEnds
  /\ EndValue(EndOffset)
  /\ UNCHANGED <<doc, input, buf, end, level, first, key, scanVars, purpose>>

ScanChar ==
  /\ pc = "scan" /\ ~Dry /\ ~ValueEnds
  /\ pos' = pos + 1
  /\ inString' = IF inString THEN ~ClosesString ELSE Char = "\""
  /\ escaped' = (inString /\ ~escaped /\ Char = "\\")
  /\ depth' = CASE inString -> depth
                [] Char \in {"{", "["} -> depth + 1
                [] Char \in {"}", "]"} -> depth - 1
                [] OTHER -> depth
  /\ UNCHANGED <<doc, input, buf, end, mark, pc, level, first, key, start, purpose, outVars>>

\* streamAccounts between two elements.
Sep ==
  /\ At("sep")
  /\ \/ Char = "]" /\ pos' = pos + 1 /\ Flush(batch, "key") /\ UNCHANGED mark
     \/ Char = "," /\ Move("value") /\ UNCHANGED outVars
  /\ UNCHANGED <<doc, input, buf, end, level, first, key, scanVars, purpose>>

\* Any other character is an error, and so is the end of the body, unless it
\* ends a primitive.
Malformed ==
  /\ pc \in {"open", "key", "quote", "colon", "array", "sep"} /\ At(pc)
  /\ \/ pc = "open" /\ Char # "{"
     \/ pc = "key" /\ Char \notin {"}", IF first THEN "\"" ELSE ","}
     \/ pc = "quote" /\ Char # "\""
     \/ pc = "colon" /\ Char # ":"
     \/ pc = "array" /\ Char # "["
     \/ pc = "sep" /\ Char \notin {"]", ","}
  /\ pc' = "failed"
  /\ UNCHANGED <<doc, bufVars, level, first, key, scanVars, purpose, outVars>>

BodyEnds ==
  /\ Dry /\ (MayCut \/ input = <<>>)
  /\ \/ /\ pc = "scan" /\ depth = 0 /\ ~inString /\ pos > start
        /\ EndValue(pos)
     \/ /\ pc # "scan" \/ depth > 0 \/ inString \/ pos = start
        /\ pc' = "failed"
        /\ UNCHANGED <<pos, mark, outVars>>
  /\ input' = <<>>
  /\ UNCHANGED <<doc, buf, end, level, first, key, scanVars, purpose>>

Fill == \E n \in 1..Len(input) : (SplitsKeys \/ ~EndsInKey(n)) /\ fill(n)

Next ==
  \/ Fill \/ Skip \/ Open \/ NextKey \/ Quote \/ KeyChar \/ Colon \/ Result \/ Array
  \/ First \/ Value \/ ScanEnd \/ ScanChar \/ Sep \/ Malformed \/ BodyEnds

Spec == Init /\ [][Next]_vars /\ WF_vars(Next)

-----------------------------------------------------------------------------

\* The callback gets the accounts of the response, whole, in order and once,
\* however the chunks fall; if StreamProgramAccounts returns without an error
\* it has got every one: a body that ends early is an error.
CompleteOrError ==
  /\ IsPrefix(delivered \o batch, doc.accounts)
  /\ pc = "done" => delivered = doc.accounts

\* The buffer is bounded by the largest value of the response, not by the
\* response: it grows only for a value, with its separator, that fills it; and
\* the offsets into it stay in order through every move and growth (fill).
LargestValue == CHOOSE n \in doc.sizes : \A m \in doc.sizes : m <= n
BufferBounded ==
  /\ mark <= pos /\ pos <= end /\ end <= Len(buf)
  /\ pc = "scan" => mark <= start /\ start <= pos
  /\ Len(buf) <= (IF 2 * (LargestValue + 2) > InitialCap THEN 2 * (LargestValue + 2) ELSE InitialCap)

\* The call returns once the body has ended.
Terminates == <>(pc \in {"done", "failed"})
=============================================================================
