-------------------------- MODULE TransactionProofs -------------------------
(***************************************************************************)
(* Signatures over compiled messages, whoever makes them and whatever is   *)
(* done to the transaction in between.                                     *)
(***************************************************************************)
EXTENDS Transaction, TLAPS

Signature == [by : Nat, over : CompiledMessage \cup {<<>>}]

TxType ==
  \/ tx = NoTx /\ cosigned = {}
  \/ /\ tx \in [form : {"legacy", "v1"}, message : CompiledMessage, sigs : Seq(Signature)]
     /\ HeaderOK(tx.message)

\* What cosigners have signed stays signed: their signatures are in their slots
\* and are over the message as it is.
Cosigned ==
  tx # NoTx /\ cosigned # {} =>
    /\ tx.form = "v1" => sanitize(tx.message)
    /\ Len(tx.sigs) = Len(SignerKeys(tx.message))
    /\ \A i \in DOMAIN SignerKeys(tx.message) :
         SignerKeys(tx.message)[i] \in cosigned =>
           Verify(tx.sigs[i], SignerKeys(tx.message)[i], tx.message)

TxInv == TxType /\ Cosigned /\ SignVerifies

\* Writing an instruction a second time changes nothing.
LEMMA InstructionEncodedOnce ==
  ASSUME NEW c \in CompiledInstruction
  PROVE  /\ EncodedInstruction(c) \in CompiledInstruction
         /\ EncodedInstruction(EncodedInstruction(c)) = EncodedInstruction(c)
<1>1. \A n \in Nat : n % Byte \in Nat /\ (n % Byte) % Byte = n % Byte
  BY DEF Byte
<1>2. c.program \in Nat /\ c.accounts \in Seq(Nat)
  BY DEF CompiledInstruction
<1> DEFINE a == [j \in DOMAIN c.accounts |-> c.accounts[j] % Byte]
           b == [j \in DOMAIN a |-> a[j] % Byte]
<1>3. a \in Seq(Nat)
  <2>1. DOMAIN c.accounts = 1 .. Len(c.accounts) /\ Len(c.accounts) \in Nat
        /\ \A j \in DOMAIN c.accounts : c.accounts[j] \in Nat
    BY <1>2
  <2>2. a \in [1 .. Len(c.accounts) -> Nat]
    BY Zenon, <1>1, <2>1
  <2> HIDE DEF a
  <2> QED BY <2>1, <2>2
<1>4. b = a
  <2>1. \A j \in DOMAIN a : a[j] % Byte = a[j]
    BY <1>1, <1>2
  <2> QED BY <2>1
<1> HIDE DEF a
<1>5. EncodedInstruction(c) = [program |-> c.program % Byte, accounts |-> a, data |-> c.data]
  BY DEF EncodedInstruction, a
<1>6. EncodedInstruction(EncodedInstruction(c))
        = [program |-> (c.program % Byte) % Byte, accounts |-> b, data |-> c.data]
  BY SMTT(30), <1>5 DEF EncodedInstruction
<1>7. EncodedInstruction(c) \in CompiledInstruction
  BY <1>1, <1>2, <1>3, <1>5 DEF CompiledInstruction
<1> QED BY SMTT(30), <1>1, <1>2, <1>4, <1>5, <1>6, <1>7

\* Encoding keeps the keys and the header, and encoding again changes nothing:
\* what was signed before a transport is what is verified after it.
LEMMA EncodedOnce ==
  ASSUME NEW m \in CompiledMessage
  PROVE  /\ Encoded(m) \in CompiledMessage
         /\ Encoded(m).keys = m.keys /\ Encoded(m).header = m.header
         /\ Encoded(Encoded(m)) = Encoded(m)
<1> DEFINE e == Encoded(m)
           ixs == [i \in DOMAIN m.instructions |-> EncodedInstruction(m.instructions[i])]
           lks == IF m.version = "v0" THEN m.lookups ELSE <<>>
<1>1. m.instructions \in Seq(CompiledInstruction)
  BY DEF CompiledMessage
<1>2. ixs \in Seq(CompiledInstruction)
  BY <1>1, InstructionEncodedOnce
<1>3. /\ e.version = m.version /\ e.keys = m.keys /\ e.header = m.header /\ e.hash = m.hash
      /\ e.lookups = lks /\ e.instructions = ixs
      /\ e \in CompiledMessage
  <2>1. m = [version |-> m.version, keys |-> m.keys, header |-> m.header, hash |-> m.hash,
             lookups |-> m.lookups, instructions |-> m.instructions]
    BY DEF CompiledMessage
  <2>2. e = [m EXCEPT !.lookups = lks, !.instructions = ixs]
    BY DEF Encoded
  <2> HIDE DEF e, ixs, lks
  <2>3. e = [version |-> m.version, keys |-> m.keys, header |-> m.header, hash |-> m.hash,
             lookups |-> lks, instructions |-> ixs]
    BY Zenon, <2>1, <2>2
  <2>4. lks \in Seq([table : Nat, writable : Seq(Nat), readonly : Seq(Nat)])
    BY DEF CompiledMessage, lks
  <2>5. e \in CompiledMessage
    BY <1>2, <2>3, <2>4 DEF CompiledMessage
  <2> QED BY <2>3, <2>5
<1>4. [i \in DOMAIN ixs |-> EncodedInstruction(ixs[i])] = ixs
  <2>1. \A i \in DOMAIN ixs : EncodedInstruction(ixs[i]) = ixs[i]
    BY <1>1, InstructionEncodedOnce
  <2> QED BY <2>1
<1>5. (IF e.version = "v0" THEN e.lookups ELSE <<>>) = e.lookups
  BY <1>3
<1>6. Encoded(e) = [e EXCEPT !.lookups = e.lookups, !.instructions = e.instructions]
  BY Zenon, <1>3, <1>4, <1>5 DEF Encoded
<1> QED BY Zenon, <1>3, <1>6 DEF CompiledMessage

\* The signers are the first keys of the message, and there is one.
LEMMA SignersOf ==
  ASSUME NEW m \in CompiledMessage, HeaderOK(m)
  PROVE  /\ SignerKeys(m) \in Seq(Nat)
         /\ Len(SignerKeys(m)) = m.header.required
         /\ DOMAIN SignerKeys(m) = 1 .. m.header.required
         /\ 1 \in DOMAIN SignerKeys(m)
<1>1. /\ m.keys \in Seq(Nat) /\ m.header.required \in Nat
      /\ m.header.required \in 1 .. Len(m.keys)
  BY DEF CompiledMessage, HeaderOK
<1>2. SignerKeys(m) = SubSeq(m.keys, 1, m.header.required)
  BY <1>1 DEF SignerKeys
<1>3. \A k \in Seq(Nat) : \A n \in 1 .. Len(k) :
        /\ SubSeq(k, 1, n) \in Seq(Nat) /\ Len(SubSeq(k, 1, n)) = n
        /\ DOMAIN SubSeq(k, 1, n) = 1 .. n /\ 1 \in 1 .. n
  OBVIOUS
<1> QED BY SMTT(30), <1>1, <1>2, <1>3

\* A message with the same keys and header has the same signers.
LEMMA SameSigners ==
  ASSUME NEW m \in CompiledMessage, NEW w \in CompiledMessage, HeaderOK(m),
         w.keys = m.keys, w.header = m.header
  PROVE  HeaderOK(w) /\ SignerKeys(w) = SignerKeys(m)
BY DEF HeaderOK, SignerKeys

\* Signing with the keys of a vault gives each of their slots a signature over
\* the message, and leaves the others.
LEMMA SignedBy ==
  ASSUME TxInv, tx # NoTx, Fits(tx), tx.form = "v1" => sanitize(tx.message),
         NEW vault, SignWith(vault)
  PROVE  /\ TxType' /\ Cosigned'
         /\ tx'.form = tx.form /\ tx'.message = tx.message
         /\ HasAllKeys(tx, vault) /\ tx.form = "legacy" => VerifySignatures(tx)'
<1> DEFINE m == tx.message
           keys == SignerKeys(m)
           sigs == Signed(tx, vault)
<1>1. /\ tx \in [form : {"legacy", "v1"}, message : CompiledMessage, sigs : Seq(Signature)]
      /\ HeaderOK(m)
  BY DEF TxInv, TxType
<1>2. m \in CompiledMessage /\ tx.sigs \in Seq(Signature)
  BY <1>1
<1>3. keys \in Seq(Nat) /\ 1 \in DOMAIN keys /\ DOMAIN keys = 1 .. Len(keys) /\ Len(keys) \in Nat
  <2>1. keys \in Seq(Nat) /\ 1 \in DOMAIN keys
    BY <1>1, <1>2, SignersOf
  <2> HIDE DEF keys
  <2> QED BY <2>1
<1>4. tx' = [form |-> tx.form, message |-> m, sigs |-> sigs]
  BY <1>1 DEF SignWith
<1>5. Encoded(m) \in CompiledMessage
  BY <1>2, EncodedOnce
<1>6. \A i \in DOMAIN keys :
        sigs[i] = IF keys[i] \in vault THEN [by |-> keys[i], over |-> Encoded(m)] ELSE Slots(tx)[i]
  BY DEF Signed
<1>7. DOMAIN sigs = DOMAIN keys
  BY DEF Signed
<1> HIDE DEF sigs
<1>8. \A i \in DOMAIN keys : Slots(tx)[i] \in Signature
  <2>1. CASE tx.sigs = <<>>
    <3>1. Zero \in Signature
      BY DEF Zero, Signature
    <3> QED BY <2>1, <3>1 DEF Slots
  <2>2. CASE tx.sigs # <<>>
    <3>1. Slots(tx) = tx.sigs /\ Len(tx.sigs) = Len(keys)
      BY <2>2 DEF Slots, Fits
    <3> HIDE DEF keys
    <3> QED BY <1>2, <1>3, <3>1
  <2> QED BY <2>1, <2>2
<1>9. \A i \in DOMAIN keys : sigs[i] \in Signature
  <2>1. \A i \in DOMAIN keys : [by |-> keys[i], over |-> Encoded(m)] \in Signature
    <3>1. \A i \in DOMAIN keys : keys[i] \in Nat
      <4> HIDE DEF keys
      <4> QED BY <1>3
    <3> QED BY <1>5, <3>1 DEF Signature
  <2> QED BY Zenon, <1>6, <1>8, <2>1
<1>10. sigs \in Seq(Signature) /\ Len(sigs) = Len(keys)
  <2>1. sigs = [i \in 1 .. Len(keys) |-> sigs[i]]
    BY <1>3, <1>7 DEF sigs, Signed
  <2>2. \A i \in 1 .. Len(keys) : sigs[i] \in Signature
    BY <1>3, <1>9
  <2>3. sigs \in [1 .. Len(keys) -> Signature]
    BY <2>1, <2>2
  <2> HIDE DEF keys
  <2> QED BY <1>3, <2>3
<1>11. tx'.form = tx.form /\ tx'.message = m /\ tx'.sigs = sigs
  BY <1>4
<1>12. TxType'
  <2>1. tx' \in [form : {"legacy", "v1"}, message : CompiledMessage, sigs : Seq(Signature)]
    BY Zenon, <1>1, <1>2, <1>4, <1>10
  <2> QED BY Zenon, <1>1, <1>11, <2>1 DEF TxType, HeaderOK
<1>13. cosigned' = cosigned \cup (vault \cap ToSet(keys))
  BY DEF SignWith
<1>14. ASSUME NEW i \in DOMAIN keys, keys[i] \in cosigned'
       PROVE  Verify(sigs[i], keys[i], m)
  <2>1. CASE keys[i] \in vault
    BY Zenon, <1>6, <2>1 DEF Verify
  <2>2. CASE keys[i] \notin vault
    <3>1. keys[i] \in cosigned
      BY <1>13, <1>14, <2>2
    <3>2. Verify(tx.sigs[i], keys[i], m) /\ Len(tx.sigs) = Len(keys)
      BY <3>1 DEF TxInv, Cosigned
    <3>3. tx.sigs # <<>>
      <4> HIDE DEF keys
      <4> QED BY <1>2, <1>3, <3>2
    <3> QED BY Zenon, <1>6, <2>2, <3>2, <3>3 DEF Slots
  <2> QED BY Zenon, <2>1, <2>2
<1>15. Cosigned'
  BY Zenon, <1>10, <1>11, <1>14 DEF Cosigned
<1>16. ASSUME HasAllKeys(tx, vault), tx.form = "legacy"
       PROVE  VerifySignatures(tx)'
  <2>1. \A i \in DOMAIN keys : Verify(sigs[i], keys[i], m)
    BY <1>6, <1>16 DEF Verify, HasAllKeys
  <2> QED BY Zenon, <1>10, <1>11, <1>16, <2>1 DEF VerifySignatures
<1> QED BY <1>11, <1>12, <1>15, <1>16

\* A transport carries signatures and message over.
LEMMA Transported ==
  ASSUME TxInv, Transport
  PROVE  TxType' /\ Cosigned'
<1>1. /\ tx \in [form : {"legacy", "v1"}, message : CompiledMessage, sigs : Seq(Signature)]
      /\ HeaderOK(tx.message)
  BY DEF TxInv, TxType, Transport
<1>2. tx.message \in CompiledMessage /\ tx.sigs \in Seq(Signature)
  BY <1>1
<1>3. CASE tx' = tx
  <2>1. cosigned' = cosigned
    BY DEF Transport
  <2> QED BY <1>3, <2>1 DEF TxInv, TxType, Cosigned
<1>4. CASE /\ tx.form = "legacy"
            /\ tx' = [tx EXCEPT !.sigs = Padded(tx), !.message = Encoded(tx.message)]
  <2> DEFINE m == tx.message
             e == Encoded(m)
             missing == IF m.header.required > Len(tx.sigs)
                        THEN m.header.required - Len(tx.sigs) ELSE 0
             zeros == [i \in 1 .. missing |-> Zero]
  <2>1. e \in CompiledMessage /\ e.keys = m.keys /\ e.header = m.header /\ Encoded(e) = e
    BY Zenon, <1>2, EncodedOnce
  <2>2. HeaderOK(e) /\ SignerKeys(e) = SignerKeys(m)
    BY Zenon, <1>1, <1>2, <2>1, SameSigners
  <2>3. Len(SignerKeys(m)) = m.header.required /\ m.header.required \in Nat
    BY Zenon, <1>1, <1>2, SignersOf DEF CompiledMessage
  <2>4. missing \in Nat /\ (Len(tx.sigs) = m.header.required => missing = 0)
    <3>1. Len(tx.sigs) \in Nat
      BY <1>2
    <3>2. \A r, l \in Nat : LET d == IF r > l THEN r - l ELSE 0 IN d \in Nat /\ (l = r => d = 0)
      OBVIOUS
    <3> QED BY Zenon, <2>3, <3>1, <3>2
  <2>5. tx' = [form |-> "legacy", message |-> e, sigs |-> tx.sigs \o zeros]
    BY Zenon, <1>1, <1>4 DEF Padded
  <2> HIDE DEF e, missing
  <2>6. zeros \in Seq(Signature) /\ (missing = 0 => zeros = <<>>)
    <3>1. Zero \in Signature
      BY DEF Zero, Signature
    <3>2. zeros \in [1 .. missing -> Signature]
      BY <3>1
    <3>3. missing = 0 => zeros = <<>>
      BY <2>4
    <3> HIDE DEF zeros
    <3> QED BY <2>4, <3>2, <3>3
  <2> HIDE DEF zeros
  <2>7. tx.sigs \o zeros \in Seq(Signature) /\ (zeros = <<>> => tx.sigs \o zeros = tx.sigs)
    BY <1>2, <2>6
  <2>8. tx'.form = "legacy" /\ tx'.message = e /\ tx'.sigs = tx.sigs \o zeros
    BY <2>5
  <2>9. TxType'
    <3>1. tx' \in [form : {"legacy", "v1"}, message : CompiledMessage, sigs : Seq(Signature)]
      BY Zenon, <2>1, <2>5, <2>7
    <3> QED BY Zenon, <2>2, <2>8, <3>1 DEF TxType, HeaderOK
  <2>10. Cosigned'
    <3> SUFFICES ASSUME cosigned # {}
                 PROVE  /\ Len(tx'.sigs) = Len(SignerKeys(e))
                        /\ \A i \in DOMAIN SignerKeys(e) : SignerKeys(e)[i] \in cosigned =>
                             Verify(tx'.sigs[i], SignerKeys(e)[i], e)
      <4>1. cosigned' = cosigned
        BY DEF Transport
      <4> QED BY Zenon, <2>8, <4>1 DEF Cosigned
    <3>1. tx # NoTx
      BY DEF Transport
    <3>2. /\ Len(tx.sigs) = Len(SignerKeys(m))
          /\ \A i \in DOMAIN SignerKeys(m) : SignerKeys(m)[i] \in cosigned =>
               Verify(tx.sigs[i], SignerKeys(m)[i], m)
      BY <3>1 DEF TxInv, Cosigned
    <3>3. tx'.sigs = tx.sigs
      BY Zenon, <2>3, <2>4, <2>6, <2>7, <2>8, <3>2
    <3>4. \A s, k : Verify(s, k, m) => Verify(s, k, e)
      BY <2>1 DEF Verify, e
    <3> QED BY Zenon, <2>2, <3>2, <3>3, <3>4
  <2> QED BY Zenon, <2>9, <2>10
<1> QED BY <1>3, <1>4 DEF Transport

\* An edit of the message leaves no cosigner.
LEMMA Edited ==
  ASSUME TxInv, IndexesResolve,
         \/ ReplaceMessage
         \/ \E h \in Hashes : SetBlockhash(h)
         \/ \E v \in {"legacy", "v0"} : SetVersion(v)
  PROVE  TxType' /\ Cosigned'
<1>1. tx # NoTx /\ cosigned' = {}
  <2>1. NoTx.form # "legacy"
    BY DEF NoTx
  <2> QED BY <2>1 DEF ReplaceMessage, SetBlockhash, SetVersion
<1>2. /\ tx \in [form : {"legacy", "v1"}, message : CompiledMessage, sigs : Seq(Signature)]
      /\ HeaderOK(tx.message)
  BY <1>1 DEF TxInv, TxType
<1>3. \E w \in CompiledMessage :
        HeaderOK(w) /\ tx' = [form |-> tx.form, message |-> w, sigs |-> tx.sigs]
  <2> DEFINE m == tx.message
  <2>m. m \in CompiledMessage /\ m = [version |-> m.version, keys |-> m.keys, header |-> m.header,
            hash |-> m.hash, lookups |-> m.lookups, instructions |-> m.instructions]
    BY <1>2 DEF CompiledMessage
  <2>1. CASE ReplaceMessage
    <3>1. built.message \in CompiledMessage /\ HeaderOK(built.message)
      BY <2>1 DEF ReplaceMessage, IndexesResolve, IsBuilt
    <3> QED BY Zenon, <1>2, <2>1, <3>1 DEF ReplaceMessage
  <2>2. ASSUME NEW h \in Hashes, SetBlockhash(h)
        PROVE  \E w \in CompiledMessage :
                 HeaderOK(w) /\ tx' = [form |-> tx.form, message |-> w, sigs |-> tx.sigs]
    <3> DEFINE w == [m EXCEPT !.hash = h]
    <3>1. tx' = [form |-> tx.form, message |-> w, sigs |-> tx.sigs]
      BY Zenon, <1>2, <2>2 DEF SetBlockhash
    <3>2. w.keys = m.keys /\ w.header = m.header /\ w \in CompiledMessage
      BY Zenon, <2>m DEF CompiledMessage
    <3>3. HeaderOK(w)
      BY SMTT(30), <1>2, <2>m, <3>2, SameSigners
    <3> QED BY Zenon, <3>1, <3>2, <3>3
  <2>3. ASSUME NEW v \in {"legacy", "v0"}, SetVersion(v)
        PROVE  \E w \in CompiledMessage :
                 HeaderOK(w) /\ tx' = [form |-> tx.form, message |-> w, sigs |-> tx.sigs]
    <3> DEFINE w == [m EXCEPT !.version = v]
    <3>1. tx' = [form |-> tx.form, message |-> w, sigs |-> tx.sigs]
      BY <1>2, <2>3 DEF SetVersion
    <3>2. w.keys = m.keys /\ w.header = m.header /\ w \in CompiledMessage
      BY Zenon, <2>m DEF CompiledMessage
    <3>3. HeaderOK(w)
      BY SMTT(30), <1>2, <2>m, <3>2, SameSigners
    <3> QED BY Zenon, <3>1, <3>2, <3>3
  <2> QED BY Zenon, <2>1, <2>2, <2>3
<1>4. TxType'
  <2>1. PICK w \in CompiledMessage :
          HeaderOK(w) /\ tx' = [form |-> tx.form, message |-> w, sigs |-> tx.sigs]
    BY <1>3
  <2>2. tx' \in [form : {"legacy", "v1"}, message : CompiledMessage, sigs : Seq(Signature)]
    BY Zenon, <1>2, <2>1
  <2>3. tx'.message = w
    BY <2>1
  <2> QED BY <2>1, <2>2, <2>3 DEF TxType, HeaderOK
<1> QED BY <1>1, <1>4 DEF Cosigned

\* A transaction is taken from what Build returned.
LEMMA Taken ==
  ASSUME TxInv, IndexesResolve, TakeBuilt \/ NewTransactionV1
  PROVE  TxType' /\ Cosigned'
<1>1. tx = NoTx /\ cosigned' = cosigned
  BY DEF TakeBuilt, NewTransactionV1
<1>2. cosigned = {}
  <2>1. NoTx \notin [form : {"legacy", "v1"}, message : CompiledMessage, sigs : Seq(Signature)]
    BY DEF NoTx
  <2> QED BY Zenon, <1>1, <2>1 DEF TxInv, TxType
<1>3. tx' = tx \/ \E f \in {"legacy", "v1"} :
                    tx' = [form |-> f, message |-> built.message, sigs |-> <<>>]
  BY Zenon DEF TakeBuilt, NewTransactionV1
<1>4. built.message \in CompiledMessage /\ HeaderOK(built.message)
  BY DEF TakeBuilt, NewTransactionV1, IndexesResolve, IsBuilt
<1>5. TxType'
  <2>1. CASE tx' = tx
    BY Zenon, <1>1, <1>2, <2>1 DEF TxType
  <2>2. ASSUME NEW f \in {"legacy", "v1"},
               tx' = [form |-> f, message |-> built.message, sigs |-> <<>>]
        PROVE  TxType'
    <3>1. <<>> \in Seq(Signature)
      OBVIOUS
    <3>2. tx' \in [form : {"legacy", "v1"}, message : CompiledMessage, sigs : Seq(Signature)]
      BY SMTT(30), <1>4, <2>2, <3>1
    <3>3. tx'.message = built.message
      BY <2>2
    <3> QED BY Zenon, <1>4, <3>2, <3>3 DEF TxType, HeaderOK
  <2> QED BY Zenon, <1>3, <2>1, <2>2
<1> QED BY Zenon, <1>1, <1>2, <1>5 DEF Cosigned

\* Every step keeps the invariant, if Build returns messages of the form it
\* promises.
LEMMA TxStep ==
  ASSUME TxInv, IndexesResolve, [NextTx]_<<vars, txVars>>
  PROVE  TxInv'
<1>1. CASE UNCHANGED txVars
  <2>1. tx' = tx /\ last' = last /\ cosigned' = cosigned
    BY <1>1 DEF txVars
  <2> QED BY <2>1 DEF TxInv, TxType, Cosigned, SignVerifies
<1>2. CASE \/ TakeBuilt \/ NewTransactionV1 \/ ReplaceMessage \/ Transport
           \/ \E h \in Hashes : SetBlockhash(h)
           \/ \E v \in {"legacy", "v0"} : SetVersion(v)
  <2>1. TxType' /\ Cosigned'
    BY Zenon, <1>2, Taken, Edited, Transported
  <2>2. \E call \in {"Build", "NewTransactionV1", "edit", "Transport"},
           outcome \in {"ok", "error", "tables"} : last' = <<call, outcome>>
    BY <1>2
       DEF TakeBuilt, NewTransactionV1, ReplaceMessage, Transport, SetBlockhash, SetVersion
  <2>3. last' # <<"Sign", "ok">>
    BY <2>2
  <2> QED BY <2>1, <2>3 DEF TxInv, SignVerifies
<1>3. ASSUME NEW v \in Vaults, PartialSign(v) \/ SignLegacy(v) \/ SignV1(v)
      PROVE  TxInv'
  <2>1. /\ NoTx.form # "legacy" /\ NoTx.form # "v1"
        /\ <<"PartialSign", "ok">> # <<"Sign", "ok">>
        /\ <<"PartialSign", "error">> # <<"Sign", "ok">>
        /\ <<"Sign", "error">> # <<"Sign", "ok">> /\ "v1" # "legacy"
    BY DEF NoTx
  <2>2. tx # NoTx
    BY <1>3, <2>1 DEF PartialSign, SignLegacy, SignV1
  <2>3. CASE UNCHANGED <<tx, cosigned>> /\ last' # <<"Sign", "ok">>
    <3>1. tx' = tx /\ cosigned' = cosigned
      BY <2>3
    <3>2. TxType' /\ Cosigned'
      BY <3>1 DEF TxInv, TxType, Cosigned
    <3> QED BY <2>3, <3>2 DEF TxInv, SignVerifies
  <2>4. CASE /\ Fits(tx) /\ (tx.form = "v1" => sanitize(tx.message)) /\ SignWith(v)
             /\ last' = <<"Sign", "ok">> /\ tx.form = "legacy" => HasAllKeys(tx, v)
    <3>1. /\ TxType' /\ Cosigned' /\ tx'.form = tx.form
          /\ HasAllKeys(tx, v) /\ tx.form = "legacy" => VerifySignatures(tx)'
      BY Zenon, <2>2, <2>4, SignedBy
    <3> QED BY <2>4, <3>1 DEF TxInv, SignVerifies
  <2> QED BY Zenon, <1>3, <2>1, <2>3, <2>4 DEF PartialSign, SignLegacy, SignV1
<1> QED BY Zenon, <1>1, <1>2, <1>3 DEF NextTx, txVars

\* Signing starts with no transaction.
LEMMA TxStart == InitTx => TxInv
<1>1. <<"", "ok">> # <<"Sign", "ok">>
  OBVIOUS
<1> QED BY <1>1 DEF InitTx, TxInv, TxType, Cosigned, SignVerifies

\* The invariant of signing.
LEMMA TxInvariance == SpecTx /\ []IndexesResolve => []TxInv
<1>1. TxInv /\ IndexesResolve /\ [NextTx]_<<vars, txVars>> => TxInv'
  BY TxStep
<1> QED BY <1>1, TxStart, PTL DEF SpecTx

\* Given that Build compiles messages as it promises, a transaction that
\* Transaction.Sign returned without an error verifies, for any keys, vaults,
\* messages and hashes, and whatever edits, partial signatures, failed calls and
\* transports came before.
THEOREM SignedVerifies == SpecTx /\ []IndexesResolve => []SignVerifies
<1>1. TxInv => SignVerifies
  BY Zenon DEF TxInv
<1> QED BY <1>1, TxInvariance, PTL

\* Given the same, a transaction verifies, in either form, once every signer of
\* its message has signed it with Sign or PartialSign, in any order, alone or
\* together, before or after a transport.
THEOREM CosignersAreEnough == SpecTx /\ []IndexesResolve => []CosignersSuffice
<1>1. TxInv => CosignersSuffice
  <2> SUFFICES ASSUME TxInv, tx # NoTx, ToSet(SignerKeys(tx.message)) \subseteq cosigned
               PROVE  VerifySignatures(tx)
    BY DEF CosignersSuffice
  <2> DEFINE keys == SignerKeys(tx.message)
  <2>1. 1 \in DOMAIN keys
    <3>1. tx.message \in CompiledMessage /\ HeaderOK(tx.message)
      BY DEF TxInv, TxType
    <3> QED BY <3>1, SignersOf
  <2>2. \A i \in DOMAIN keys : keys[i] \in ToSet(keys)
    BY DEF ToSet
  <2>3. /\ \A i \in DOMAIN keys : keys[i] \in cosigned
        /\ cosigned # {}
    BY <2>1, <2>2
  <2> QED BY <2>3 DEF TxInv, Cosigned, VerifySignatures
<1> QED BY <1>1, TxInvariance, PTL
=============================================================================
