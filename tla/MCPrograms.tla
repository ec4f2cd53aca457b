---------------------------- MODULE MCPrograms ----------------------------
(***************************************************************************)
(* Instances of Programs.  The arguments of an instruction are taken from  *)
(* the corners of each kind: nothing, something small and distinct, the    *)
(* largest, and one step past a limit.                                     *)
(***************************************************************************)
EXTENDS Programs, TLC

Largest(n) == 256^n - 1

\* Corner c of kind k for the field at place i.
RECURSIVE Corner(_, _, _)
Corner(k, c, i) ==
  CASE k[1] = "uint"    -> <<0, i + 1, Largest(k[2]), (Largest(k[2]) \div 2) + i>>[c + 1]
    [] k[1] = "count"   -> 0
    [] k[1] = "int8"    -> <<0, i, 127, -128 + i>>[c + 1]
    [] k[1] = "int64"   -> <<0, i, MaxInt, -MaxInt - 1 + i>>[c + 1]
    [] k[1] = "bool"    -> (c + i) % 2 = 1
    [] k[1] \in {"bytes", "needed"} ->
         [j \in 1..k[2] |-> <<0, 10 * i + j, 255, (i + j) % 2>>[c + 1]]
    [] k[1] = "rest"    -> <<<<>>, <<i>>, <<i, 255>>, <<0>>>>[c + 1]
    [] k[1] = "bincode" -> <<<<>>, <<64 + i>>, <<65, 66 + i>>, <<65, 255>>>>[c + 1]
    [] k[1] \in {"borsh", "blob"} ->
         <<<<>>, <<64 + i>>, <<65, 255>>, <<65, 66 + i, 67>>>>[c + 1]
    [] k[1] = "compact" -> <<0, 127 + i, 65535, 128>>[c + 1]
    [] k[1] = "var"     -> <<0, 127 + i, MaxUint64, 128^2>>[c + 1]
    [] k[1] \in {"opt", "given", "fixed"} ->
         IF c = 0 THEN <<>> ELSE <<Corner(IF k[1] = "fixed" THEN k[3] ELSE k[2], c, i)>>
    [] k[1] = "nonzero" -> IF c = 0 THEN <<>> ELSE <<[j \in 1..k[2] |-> c + i + j]>>
    [] k[1] = "max"     -> <<<<>>, [j \in 1..k[2] |-> 64 + i + j],
                             [j \in 1..(k[2] + 1) |-> 64 + j], <<64 + i>>>>[c + 1]
    [] k[1] = "below"   -> <<0, k[2] - 1, k[2], Largest(1)>>[c + 1]
    [] k[1] = "vec"     ->
         [j \in 1..<<0, 1, 2, IF k[6] < 9 THEN k[6] + 1 ELSE 3>>[c + 1] |->
            Corner(k[3], IF c = 1 THEN 2 ELSE 1, i + j)]
    [] k[1] = "tuple"   -> [j \in 1..Len(k[2]) |-> Corner(k[2][j], c, i + j)]
    [] k[1] = "tagged"  -> <<<<0, <<>>>>, <<1, <<>>>>, <<2, Corner(k[3][3], 1, i)>>,
                             <<2, <<>>>>>>[c + 1]
    [] k[1] = "while"   -> [j \in 1..c |-> Corner(k[2], c, i + j)]
    [] k[1] = "default" -> Corner(k[2], c, i)

\* Every field at the same corner, and fields at corners in turn, one or two
\* corners apart.
MCArguments(layout) ==
  LET at(n) == CHOOSE i \in 1..Len(layout) : layout[i].name = n
  IN  {[n \in ToSet(Names(layout)) |->
          Corner(layout[at(n)].kind, (c + t * at(n)) % 4, at(n))] :
         c \in 0..3, t \in 0..2}

\* A list whose length is written in one byte also has lengths on both sides
\* of what the byte holds.
MCListLengths(i) ==
  {0, 1, 2} \union IF \E w \in ToSet(i.writes) : w.kind = Count THEN {255, 256} ELSE {}

MCExtensionLists ==
  {<<>>, <<<<1, <<7>>>>>>, <<<<4, <<>>>>, <<300, <<0, 9>>>>>>, <<<<2, <<5, 0>>>>, <<1, <<1>>>>>>}

-----------------------------------------------------------------------------
received == phase = "received" /\ result.err = "nil"

\* What the writers of the decoded type make of the decoded fields.
Family(p) ==
  IF p \in {"TokenBy2022", "Token2022", "Confidential"}
  THEN {"Token", "Token2022", "Confidential"} ELSE {p}
Reencoded ==
  UNION {{DataOf(q, i, result.values) :
            i \in {j \in InstructionsOf(q) :
                     /\ j.typ = result.typ
                     /\ ToSet(Names(j.writes)) = DOMAIN result.values}} : q \in Family(program)}

\* A compact vote update writes the largest slot for a missing root, so the
\* root MaxUint64 is lost.
RootIsSentinel ==
  program = "Vote" /\ ix.typ \in Vote!CompactTypes /\ values.Root = <<MaxUint64>>

(* An instruction that arrives whole is decoded, by the decoder of the     *)
(* program it is for, to the type and the fields it was built from, and    *)
(* an account to what the program wrote in it, the list of extensions of a *)
(* mint or token account included.  Most writers and readers are separate  *)
(* code (Data methods and DecodeInstruction), so a field written in        *)
(* another order, width or place than it is read shows here; of accounts   *)
(* the code has the reader alone, and the writer is the chain's.           *)
RoundTrip ==
  phase = "received" /\ how = "whole" =>
    CASE kind \in {"account", "extended"} -> result.err = "nil" /\ result.values = values
      [] RootIsSentinel                   -> result.err = "nil" /\ result.values.Root = <<>>
      [] OTHER                            -> /\ result.err = "nil" /\ result.typ = ix.typ
                                             /\ result.values = values

\* The forms that are complete at several lengths.
ManyLengths ==
  \/ program = "LoaderV3" /\ ix.typ \in {"DeployWithMaxDataLen", "Upgrade", "Close"}
  \/ program = "Budget" /\ ix.typ = "RequestUnitsDeprecated"
  \/ program = "Token2022" /\ ix.typ \in {"GetAccountDataSize", "UIAmountToAmount"}
  \/ program = "ZkProof" /\ Len(wire) = 1 + Bytes32
  \/ kind = "account" /\ program \in {"MetadataAccount", "Record"}

(* What is left of an instruction or an account that was cut short is      *)
(* refused, never read as a shorter one, except for the forms of older     *)
(* encoders and the lists without a length that the decoders take by       *)
(* design (the trailing booleans of loader-v3, the extension types of      *)
(* GetAccountDataSize, the options at the end of Metadata, and the length  *)
(* that tells a proof in an account from one in the data).  Of a mint or   *)
(* account with extensions the base is read whole, and the extensions are  *)
(* the first of those that were written.                                   *)
CutRefused ==
  phase = "received" /\ how = "cut" =>
    IF kind = "extended"
    THEN received => /\ result.values[1] = values[1]
                     /\ IsPrefix(result.values[2], values[2])
    ELSE ~ManyLengths => result.err # "nil"

\* Bytes that a reader skips (the key behind an absent authority) or keeps as
\* they are.
Skips ==
  \/ program \in Family("Token2022") /\ result.typ = "InitializeTransferFeeConfig"
  \/ program = "Metadata" /\ result.typ = "Raw"

(* A decoder takes one encoding of each instruction: whatever the bytes    *)
(* that arrived, if they are accepted then encoding the result gives them  *)
(* back, up to trailing bytes (or a last boolean that was left out).  Two  *)
(* tags, two lengths of a varint or a second value of a boolean never mean *)
(* the same instruction.  The seeds and lists that Data refuses are longer *)
(* than any the decoder bounds.                                            *)
Canonical ==
  received /\ kind = "instruction" /\ ~Skips =>
    \E e \in Reencoded :
       \/ e.err # "nil"
       \/ IsPrefix(e.data, wire)
       \/ program = "LoaderV3" /\ how = "cut" /\ IsPrefix(wire, e.data)

\* The accounts an instruction lists behind its authority and cosigners.
Sources == SubSeq(metas, SelectLastInSeq(metas, LAMBDA m : m.signer) + 1, Len(metas))

(* The number of source accounts in the data of a withdrawal of withheld   *)
(* fees is the number of accounts the instruction lists behind its         *)
(* authority and cosigners, up to the 255 that its byte holds: the program *)
(* takes that many from the end of the list and the rest for cosigners.    *)
(* (With 256 the count wraps around to zero: uint8(len(sourceAccounts)).)  *)
SourcesCounted ==
  received /\ how = "whole" /\ kind = "instruction"
  /\ program \in {"Token2022", "Confidential"}
  /\ result.typ \in {"WithdrawWithheldTokensFromAccounts", "WithdrawFromAccounts"} =>
    /\ Len(Sources) <= 255 => result.values.NumTokenAccounts = Len(Sources)
    /\ \A i \in 1..Len(Sources) : Sources[i] = Meta(TRUE, FALSE)
=============================================================================
