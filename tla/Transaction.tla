---------------------------- MODULE Transaction ----------------------------
(***************************************************************************)
(* The life of a transaction after it was compiled: signing by several     *)
(* parties, edits of its message, transport, and verification, for the     *)
(* legacy and v0 form (src/transaction.go) and for the v1 form             *)
(* (src/transaction_v1.go).                                                *)
(*                                                                         *)
(* A signature is the key that made it and what was signed.  The size      *)
(* limit of v1 and its config values are left out.                         *)
(***************************************************************************)
EXTENDS TransactionBuilder

CONSTANT Vaults   \* the sets of keys a getter may have

VARIABLES
  tx,       \* the Transaction: its form, message and signatures
  last,     \* the last call that could fail: its name and whether it did
  cosigned  \* the keys that signed the message as it is

txVars == <<tx, last, cosigned>>

NoTx == [form |-> "none"]
Zero == [by |-> 0, over |-> <<>>]

InitTx == Init /\ tx = NoTx /\ last = <<"", "ok">> /\ cosigned = {}

-----------------------------------------------------------------------------
\* Message.Signers.
SignerKeys(m) ==
  SubSeq(m.keys, 1, IF m.header.required > Len(m.keys) THEN Len(m.keys) ELSE m.header.required)

\* Message.appendBody: an index takes one byte.
EncodedInstruction(ix) ==
  [program  |-> ix.program % Byte,
   accounts |-> [j \in DOMAIN ix.accounts |-> ix.accounts[j] % Byte],
   data     |-> ix.data]

\* Message.MarshalBinary, by the fields that survive it: what is signed and
\* sent.  A message that is not v0 has no place for lookups.
Encoded(m) ==
  [m EXCEPT
     !.lookups = IF m.version = "v0" THEN @ ELSE <<>>,
     !.instructions = [i \in DOMAIN @ |-> EncodedInstruction(@[i])]]

Verify(sig, key, m) == sig = [by |-> key, over |-> Encoded(m)]

\* TransactionV1.sanitize; the v1 limits on numbers of things are real.
sanitize(m) ==
  LET h == m.header
      n == Len(m.keys)
  IN  /\ h.required \in 1..12
      /\ h.readonlySigned < h.required
      /\ n <= 64 /\ n >= h.required + h.readonlyUnsigned
      /\ \A i, j \in DOMAIN m.keys : m.keys[i] = m.keys[j] => i = j
      /\ Len(m.instructions) <= 64
      /\ \A i \in DOMAIN m.instructions :
           /\ m.instructions[i].program < n
           /\ \A j \in DOMAIN m.instructions[i].accounts : m.instructions[i].accounts[j] < n

VerifySignatures(t) ==
  LET keys == SignerKeys(t.message)
  IN  /\ t.form = "v1" => sanitize(t.message)
      /\ Len(t.sigs) = Len(keys)
      /\ \A i \in DOMAIN keys : Verify(t.sigs[i], keys[i], t.message)

-----------------------------------------------------------------------------
\* The caller takes what Build returned, as it is.
TakeBuilt ==
  /\ tx = NoTx /\ built.status = "ok"
  /\ tx' = [form |-> "legacy", message |-> built.message, sigs |-> <<>>]
  /\ last' = <<"Build", "ok">>
  /\ UNCHANGED <<vars, cosigned>>

\* NewTransactionV1 refuses tables and compiles the same way.
NewTransactionV1 ==
  /\ tx = NoTx /\ built.status = "ok"
  /\ IF tables = NoTables /\ sanitize(built.message)
     THEN /\ tx' = [form |-> "v1", message |-> built.message, sigs |-> <<>>]
          /\ last' = <<"NewTransactionV1", "ok">>
     ELSE /\ last' = <<"NewTransactionV1", IF tables = NoTables THEN "error" ELSE "tables">>
          /\ UNCHANGED tx
  /\ UNCHANGED <<vars, cosigned>>

\* The signatures PartialSign leaves behind, made with the keys of a vault.
Slots(t) == IF t.sigs = <<>> THEN [i \in DOMAIN SignerKeys(t.message) |-> Zero] ELSE t.sigs

\* Mutant: signatures are put where there is room.
SignedFirstFree(t, vault) ==
  LET keys == SignerKeys(t.message)
  IN  [i \in DOMAIN keys |->
         IF keys[i] \in vault /\ Slots(t)[i] = Zero
         THEN [by |-> keys[i], over |-> Encoded(t.message)] ELSE Slots(t)[i]]

Signed(t, vault) ==
  LET keys == SignerKeys(t.message)
  IN  [i \in DOMAIN keys |->
         IF keys[i] \in vault THEN [by |-> keys[i], over |-> Encoded(t.message)] ELSE Slots(t)[i]]

\* Do the signatures there are fit the signers?
Fits(t) == t.sigs = <<>> \/ Len(t.sigs) = Len(SignerKeys(t.message))

SignWith(vault) ==
  /\ tx' = [tx EXCEPT !.sigs = Signed(tx, vault)]
  /\ cosigned' = cosigned \cup (vault \cap ToSet(SignerKeys(tx.message)))

PartialSign(vault) ==
  /\ tx # NoTx
  /\ \/ /\ Fits(tx) /\ (tx.form = "v1" => sanitize(tx.message))
        /\ SignWith(vault)
        /\ last' = <<"PartialSign", "ok">>
     \/ /\ ~(Fits(tx) /\ (tx.form = "v1" => sanitize(tx.message)))
        /\ last' = <<"PartialSign", "error">>
        /\ UNCHANGED <<tx, cosigned>>
  /\ UNCHANGED vars

\* Mutant: the keys are not looked for before signing.
HasAllKeysAnyway(t, vault) == TRUE

\* Transaction.Sign looks for all the keys before it signs.
HasAllKeys(t, vault) == \A i \in DOMAIN SignerKeys(t.message) : SignerKeys(t.message)[i] \in vault

SignLegacy(vault) ==
  /\ tx.form = "legacy"
  /\ \/ /\ HasAllKeys(tx, vault) /\ Fits(tx)
        /\ SignWith(vault)
        /\ last' = <<"Sign", "ok">>
     \/ /\ ~(HasAllKeys(tx, vault) /\ Fits(tx))
        /\ last' = <<"Sign", "error">>
        /\ UNCHANGED <<tx, cosigned>>
  /\ UNCHANGED vars

\* TransactionV1.Sign signs and then looks for slots that are still zero.
SignV1(vault) ==
  /\ tx.form = "v1"
  /\ \/ /\ Fits(tx) /\ sanitize(tx.message)
        /\ SignWith(vault)
        /\ last' = <<"Sign", IF Contains(tx'.sigs, Zero) THEN "error" ELSE "ok">>
     \/ /\ ~(Fits(tx) /\ sanitize(tx.message))
        /\ last' = <<"Sign", "error">>
        /\ UNCHANGED <<tx, cosigned>>
  /\ UNCHANGED vars

\* The caller puts in another blockhash, or the message of a later Build.
SetBlockhash(h) ==
  /\ tx # NoTx
  /\ tx' = [tx EXCEPT !.message.hash = h]
  /\ last' = <<"edit", "ok">>
  /\ cosigned' = {}
  /\ UNCHANGED vars

ReplaceMessage ==
  /\ tx # NoTx /\ built.status = "ok" /\ built.message # tx.message
  /\ tx.form = "v1" => built.message.version = "legacy"
  /\ tx' = [tx EXCEPT !.message = built.message]
  /\ last' = <<"edit", "ok">>
  /\ cosigned' = {}
  /\ UNCHANGED vars

\* Message.SetVersion.
SetVersion(v) ==
  /\ tx.form = "legacy"
  /\ tx' = [tx EXCEPT !.message.version = v]
  /\ last' = <<"edit", "ok">>
  /\ cosigned' = {}
  /\ UNCHANGED vars

\* Transaction.MarshalBinary fills up missing signatures with zeros.
Padded(t) ==
  t.sigs \o [i \in 1..(IF t.message.header.required > Len(t.sigs)
                       THEN t.message.header.required - Len(t.sigs) ELSE 0) |-> Zero]

\* MarshalBinary on one side, UnmarshalBinary on the other.
Transport ==
  /\ tx # NoTx
  /\ \/ /\ tx.form = "legacy"
        /\ tx' = [tx EXCEPT !.sigs = Padded(tx), !.message = Encoded(tx.message)]
        /\ last' = <<"Transport", "ok">>
     \/ /\ tx.form = "v1"
        /\ last' = <<"Transport", IF sanitize(tx.message) /\ Len(tx.sigs) = tx.message.header.required
                                  THEN "ok" ELSE "error">>
        /\ UNCHANGED tx
  /\ UNCHANGED <<vars, cosigned>>

NextTx ==
  \/ Next /\ UNCHANGED txVars
  \/ TakeBuilt \/ NewTransactionV1 \/ ReplaceMessage \/ Transport
  \/ \E v \in Vaults : PartialSign(v) \/ SignLegacy(v) \/ SignV1(v)
  \/ \E h \in Hashes : SetBlockhash(h)
  \/ \E v \in {"legacy", "v0"} : SetVersion(v)

SpecTx == InitTx /\ [][NextTx]_<<vars, txVars>>

-----------------------------------------------------------------------------

\* A transaction that Sign returned without an error verifies, whatever edits,
\* partial signatures and transports came before (Transaction.Sign).
SignVerifies == (last = <<"Sign", "ok">> /\ tx.form = "legacy") => VerifySignatures(tx)

\* The same of both forms, TransactionV1.Sign included: "Sign signs the
\* transaction with every required signer".
SignVerifiesV1 == last = <<"Sign", "ok">> => VerifySignatures(tx)

\* Cosigners may sign one after the other, in any order, in different places:
\* when the last of them has signed, the transaction verifies (PartialSign).
CosignersSuffice ==
  (tx # NoTx /\ ToSet(SignerKeys(tx.message)) \subseteq cosigned) => VerifySignatures(tx)

=============================================================================
