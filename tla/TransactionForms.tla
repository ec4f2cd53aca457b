-------------------------- MODULE TransactionForms --------------------------
(***************************************************************************)
(* The other forms in which a transaction reaches the SDK: the JSON of the *)
(* RPC API (src/message.go) and the protobuf messages of a geyser stream   *)
(* (src/yellowstone/convert.go), converted with their metadata.            *)
(*                                                                         *)
(* A field that may be missing is a sequence of at most one value.  A key  *)
(* as base58 text is the sequence of the key, and <<>> the empty text;     *)
(* Garbled stands for a text that is no key.                               *)
(***************************************************************************)
EXTENDS TransactionWire

-----------------------------------------------------------------------------
(* JSON: the key addressTableLookups is there for v0 only, and its         *)
(* presence alone tells the version.                                       *)

MarshalJSON(m) ==
  [accountKeys |-> m.keys, header |-> m.header, recentBlockhash |-> m.hash,
   instructions |-> m.instructions,
   addressTableLookups |-> IF m.version = "legacy" THEN <<>> ELSE <<m.lookups>>]

UnmarshalJSON(json) ==
  [version |-> IF json.addressTableLookups = <<>> THEN "legacy" ELSE "v0",
   keys |-> json.accountKeys, header |-> json.header, hash |-> json.recentBlockhash,
   lookups |-> IF json.addressTableLookups = <<>> THEN <<>> ELSE json.addressTableLookups[1],
   instructions |-> json.instructions]

-----------------------------------------------------------------------------
(* Geyser: what the node streams, external.                                *)

KeyBytes(keys) == [i \in DOMAIN keys |-> BigEndian(keys[i], KeyLength)]

GeyserMessage(t) ==
  LET m == Encoded(t.message)
  IN  [header |-> <<m.header>>, keys |-> KeyBytes(m.keys), hash |-> BigEndian(m.hash, HashLength),
       versioned |-> t.form = "v1" \/ m.version = "v0",
       config |-> IF t.form = "v1" THEN <<t.config>> ELSE <<>>,
       lookups |-> [i \in DOMAIN m.lookups |->
                      [m.lookups[i] EXCEPT !.table = BigEndian(@, KeyLength)]],
       instructions |-> m.instructions]

\* The metadata of an executed transaction, by the accounts it loaded and those
\* whose token balances changed.
GeyserMeta(m, tabs, balances) ==
  [err |-> <<>>, inner |-> <<[index |-> 0, instructions |-> Encoded(m).instructions]>>,
   preTokens |-> <<>>, postTokens |-> balances, rewards |-> <<>>,
   loadedWritable |-> KeyBytes(LoadedKeys(m, tabs).writable),
   loadedReadonly |-> KeyBytes(LoadedKeys(m, tabs).readonly)]

GeyserInfo(t, meta) == [message |-> <<GeyserMessage(t)>>, sigs |-> t.sigs, meta |-> <<meta>>]

-----------------------------------------------------------------------------
(* Update.Transaction and Update.TransactionV1.                            *)

\* Also hashFromBytes: missing bytes are zero, further ones are dropped.
pubkeyFromBytes(bytes) ==
  Number([i \in 1 .. KeyLength |-> IF i <= Len(bytes) THEN bytes[i] ELSE 0])
hashFromBytes(bytes) ==
  Number([i \in 1 .. HashLength |-> IF i <= Len(bytes) THEN bytes[i] ELSE 0])
convertPubkeys(in) == [i \in DOMAIN in |-> pubkeyFromBytes(in[i])]

convertInstructions(in) ==
  [i \in DOMAIN in |-> [program |-> in[i].program % 65536, accounts |-> in[i].accounts,
                        data |-> in[i].data]]

convertHeader(in) ==
  IF in = <<>> THEN [required |-> 0, readonlySigned |-> 0, readonlyUnsigned |-> 0]
  ELSE [f \in DOMAIN in[1] |-> in[1][f] % Byte]

convertMessage(msg) ==
  [version |-> IF msg.versioned THEN "v0" ELSE "legacy",
   keys |-> convertPubkeys(msg.keys), header |-> convertHeader(msg.header),
   hash |-> hashFromBytes(msg.hash),
   lookups |-> IF ~msg.versioned THEN <<>>
               ELSE [i \in DOMAIN msg.lookups |->
                       [msg.lookups[i] EXCEPT !.table = pubkeyFromBytes(@)]],
   instructions |-> convertInstructions(msg.instructions)]

Garbled == 9999
IsKey(text) == text # <<Garbled>> /\ text # <<>>

\* convertTokenBalances: the owner and the program may be empty, the mint not.
BalancesConvert(in) ==
  \A i \in DOMAIN in : /\ IsKey(in[i].mint)
                       /\ in[i].owner # <<>> => IsKey(in[i].owner)
                       /\ in[i].program # <<>> => IsKey(in[i].program)
convertTokenBalances(in) == [i \in DOMAIN in |-> [in[i] EXCEPT !.account = @ % 65536]]

\* Mutant: the two lists change places.
convertLoadedSwapped(m) ==
  [writable |-> convertPubkeys(m.loadedReadonly), readonly |-> convertPubkeys(m.loadedWritable)]

convertLoaded(m) ==
  [writable |-> convertPubkeys(m.loadedWritable), readonly |-> convertPubkeys(m.loadedReadonly)]

\* convertMeta: an error with bytes, balances and rewards that all convert.
convertMeta(in) ==
  IF in = <<>> THEN Accepted(<<>>, <<>>)
  ELSE LET m == in[1]
           rewardOK(r) == /\ IsKey(r.key)
                          /\ r.commission # <<>> => r.commission[1] < Byte
                          /\ r.commissionBps # <<>> => r.commissionBps[1] < 65536
       IN  IF ~BalancesConvert(m.preTokens) \/ ~BalancesConvert(m.postTokens)
                \/ \E i \in DOMAIN m.rewards : ~rewardOK(m.rewards[i])
           THEN Refused
           ELSE Accepted(<<[err |-> IF m.err = <<>> \/ m.err[1] = <<>> THEN <<>> ELSE m.err,
                            inner |-> [i \in DOMAIN m.inner |->
                                         [index |-> m.inner[i].index % 65536,
                                          instructions |-> convertInstructions(m.inner[i].instructions)]],
                            preTokens |-> convertTokenBalances(m.preTokens),
                            postTokens |-> convertTokenBalances(m.postTokens),
                            rewards |-> m.rewards,
                            loaded |-> convertLoaded(m)]>>, <<>>)

UpdateIsV0(msg) == msg.config = <<>>

\* The transaction and its metadata.
UpdateTransaction(info) ==
  IF info.message = <<>> \/ ~UpdateIsV0(info.message[1]) THEN Refused
  ELSE Then(convertMeta(info.meta), LAMBDA meta, rest :
         Accepted([tx |-> [form |-> "legacy", message |-> convertMessage(info.message[1]),
                           sigs |-> info.sigs], meta |-> meta], rest))

UpdateTransactionV1(info) ==
  IF info.message = <<>> \/ info.message[1].config = <<>> \/ info.message[1].lookups # <<>>
  THEN Refused
  ELSE Then(convertMeta(info.meta), LAMBDA meta, rest :
         Accepted([tx |-> [form |-> "v1", config |-> info.message[1].config[1], sigs |-> info.sigs,
                           message |-> [convertMessage(info.message[1]) EXCEPT !.version = "legacy"]],
                   meta |-> meta], rest))

-----------------------------------------------------------------------------
\* A message that comes as JSON, or a transaction that comes over geyser, is
\* the one that was sent: it has the same bytes, so the same signatures verify,
\* and no converter takes a transaction of the other kind (MarshalJSON,
\* UnmarshalJSON, Update.Transaction, Update.TransactionV1).
SameBytes ==
  (wire # Idle /\ wire.how = "whole") =>
    \A i \in DOMAIN wire.sent :
      LET v    == wire.sent[i]
          info == [message |-> <<GeyserMessage(v)>>, sigs |-> v.sigs, meta |-> <<>>]
      IN  CASE wire.kind = "message" ->
                 MarshalMessage(UnmarshalJSON(MarshalJSON(v))) = MarshalMessage(v)
            [] wire.kind = "transaction" ->
                 /\ ~UpdateTransactionV1(info).ok
                 /\ With(UpdateTransaction(info), LAMBDA r :
                      r.ok /\ MarshalTransaction(r.value.tx) = MarshalTransaction(v))
            [] wire.kind = "v1" ->
                 /\ ~UpdateTransaction(info).ok
                 /\ With(UpdateTransactionV1(info), LAMBDA r :
                      r.ok /\ MarshalV1(r.value.tx) = MarshalV1(v))

\* With the addresses a streamed transaction loaded, every index in it and in
\* its metadata names the account the runtime meant: the keys of the message,
\* then the loaded writable ones, then the readonly ones.
StreamedResolves ==
  IsBuilt =>
    LET m        == built.message
        keys     == RuntimeKeys(m, tables)
        balances == [i \in DOMAIN keys |->
                       [account |-> i - 1, mint |-> <<keys[i]>>, owner |-> <<>>, program |-> <<>>]]
        t        == [form |-> "legacy", message |-> m, sigs |-> <<>>]
    IN  With(UpdateTransaction(GeyserInfo(t, GeyserMeta(m, tables, balances))), LAMBDA r :
          /\ r.ok
          /\ LET meta == r.value.meta[1]
                 all  == r.value.tx.message.keys \o meta.loaded.writable \o meta.loaded.readonly
                 ixs  == r.value.tx.message.instructions \o meta.inner[1].instructions
             IN  /\ \A b \in ToSet(meta.postTokens) : all[b.account + 1] = b.mint[1]
                 /\ \A j \in DOMAIN ixs :
                      LET asked == instructions[((j - 1) % Len(instructions)) + 1]
                      IN  /\ all[ixs[j].program + 1] = asked.program
                          /\ \A a \in DOMAIN ixs[j].accounts :
                               all[ixs[j].accounts[a] + 1] = asked.accounts[a].key)

\* However a message or transaction travels, as JSON or in a geyser update,
\* the bytes that were signed come back from it, and its indexes still name
\* the accounts they named.
FormsAgree == SameBytes /\ StreamedResolves
=============================================================================
