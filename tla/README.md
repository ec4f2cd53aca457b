# A verification of fluxrpc/solana-go in TLA+

This directory holds TLA+ models of the SDK: the parts in which state, time and
concurrency meet, the formats it writes and reads, and the confidential transfers
of Token-2022. TLC instances check them, and TLAPS proves what matters most for
every value of the constants. `PROJECT.json` is the index: which definition models which
lines (`map`), which run checks what, which mutant of the code each property
catches, the hazards of the code, and where code and documentation disagree.

## The system

| Part | State | Operations | What is hard about it |
|---|---|---|---|
| `ws` client | pending requests, subscriptions, one channel per request and per subscription, the terminal error | subscribe, Recv, Unsubscribe, Release, Close, the read loop | goroutines of the user, the read loop and Close share the tables; channels must be closed once and never sent on afterwards; a node that reuses ids, stops reading or vanishes |
| `rpc` account cache | sharded map of entries, sticky flags, slots, write and read times | GetAccountInfo, GetAccountInfoImmutable, GetMultipleAccounts, CacheStore, CacheClear, tidy, EnableCache, DisableCache | entries are read without the lock; late answers race the realtime feed; the cache is replaced under running calls |
| `rpc` chain-head cache | latest slot, height and blockhash for each commitment | GetSlot, GetBlockHeight, GetLatestBlockhash, IsBlockhashValid | two writers, freshness windows, a feed that dies, commitment levels that must not mix |
| `rpc` transport | a request id, shared headers, a pool of response buffers | every RPC method, SetHeader | concurrent calls recycle one another's buffers while bodies break off |
| `rpc` streaming | scan buffer, offsets, batch | StreamProgramAccounts and the scanner below it | chunks end anywhere while the buffer is compacted and grown under slices of itself |
| `yellowstone` | a gRPC stream | Pipe, PipeAccounts, conversion of updates | feeds both caches, in the order of the stream; transactions come in pieces that must fit together |
| `confirm` | one call, its subscription, its timers | SendAndConfirm, WaitForConfirmation | subscription before send, timeout against late notification, cleanup on every path |
| transactions | message, signatures | compile, encode, decode, sign, verify, in the legacy, v0 and v1 formats | signatures go stale when the message changes; indexes and lengths at their widths |
| `binary`, `programs/*` | none | instruction builders and decoders, account decoders | some two hundred layouts, each written in one place and read in another; cut and altered input |
| confidential transfers | balances under several encryptions, proofs, plans | plans for transfer, withdrawal, mint, burn, apply and others; proofs and their verification; staging of proofs | plans are made from a snapshot that others change; prover and verifier must agree to the last term |
| keys, PDA, mnemonic, base58, RPC result types | none | pure functions | cryptography and text encodings |

The parts meet in five places: `confirm` uses a `ws` subscription and RPC calls;
the RPC methods consult the caches; `yellowstone` writes the caches; transactions
go through `confirm` to the node; program instructions go into transactions.

## Modules

- **WsClient**: `src/ws/client.go`. A call `c` is one `subscribe` with
  the Subscription it returns; it names the `subEntry` and the response channel
  too. The program counters follow `request` (`Register`, `LockWrite`, `Write`,
  `Abandon`, `AwaitReply`, `AwaitFailure`, `AwaitCancel`), the read loop
  (`RouteNote`, `RouteReply`, `DeliverReply`, `ReadPing`, `PongLock`, `Pong`,
  `ReadClose`, `ReadError`, `ReadLoopFail`, `ReadLoopExit`) and `Close`
  (`CloseCall` to `CloseFail`). One action is one critical section of `mu`, or
  one blocking operation. The node is external: it may refuse, notify, end a
  subscription, ping, close, vanish, reuse ids and stop reading.
- **SubscriptionContract**: what a Subscription promises its user: a
  bounded queue, opened once, fed in order or counted as dropped, shut once.
  WsClient gives the refinement mapping (`Contract`, `ImplementsContract`).
- **WsClientProofs**: types, the safety of the channels, requests and their ids, the
  order of notifications. **WsContractProofs**: whose an id is, the delivery of
  notifications, and the refinement of the contract.
- **AccountCache**: the entry cache of `src/rpc/cache.go` with the
  account feed of `src/yellowstone/pipe.go`. Entries are objects in a heap: a
  lookup takes a pointer under the lock (`Get`) and reads the entry later
  (`Miss`, `Touch`, `Serve`), when it may have changed or left the map. What an
  account holds is abstracted to the slot that wrote it.
- **HeadCache**: slot, height and blockhash for each commitment, with the
  four methods that read them and the two-step store of block metadata.
- **Confirm**: one call of `src/confirm/confirm.go`, over the
  subscription or by polling, with context, timeout, ticker, connection and node
  as separate actors.
- **JsonStream**: `src/rpc/stream.go` on the character level, with
  compaction, growth and the slices that alias the buffer.
- **TransactionBuilder**: `src/transaction_builder.go`, with the account roles of
  `src/message.go`. The builder's calls are actions; `NewTransaction` is an operator
  whose parts follow the passes of the function (metas, sort, deduplication, payer,
  static or loaded, header, lookups, indexes). How the runtime numbers and reads the
  accounts of a message is external (`RuntimeKeys`, `RuntimeWritable`).
- **Transaction** extends it with the life of a transaction: signing by several
  parties, edits of the message, transport and verification, in the legacy or v0
  form (`src/transaction.go`) and in the v1 form (`src/transaction_v1.go`).
- **Shortvec**, **TransactionWire**, **TransactionForms**: the compact lengths
  (`src/shortvec.go`), the bytes of messages and transactions of all three formats,
  with writers and readers as operators on byte sequences that follow the code's
  order of tests, and the other forms of a message: JSON, and the geyser updates that
  `src/yellowstone/convert.go` turns into transactions and metadata. The actions of
  TransactionWire put transactions one behind the other, cut and alter the bytes, and
  read on as `TransactionFromBytesConsumed` does. Protobuf is external.
- **RpcClient**: `src/rpc/client.go`. A call goes through `do`: id, headers copied
  under the read lock key by key, request, a buffer from `bodyPool`, the body piece by
  piece, decoding, the deferred put. A buffer's content is the set of the pieces in it
  with the answer each belongs to. The node and the garbage collector, which empties
  the pool, are external.
- **Binary** and **Layout**: `src/binary`, and what instruction data is made of. A
  layout is a sequence of named fields of some kind (unsigned of a width, option,
  vector, string, variable length and so on); `Binary` writes and reads each kind as
  the Encoder and the Decoder do, with the error that sticks and the position.
- **Instruction** and the modules of the programs: **NativePrograms** (system, stake,
  compute budget, lookup tables and the three loaders), **VoteProgram**,
  **TokenProgram**, **TokenMetadata**, **Token2022** and **ZkElGamal** (with its proof,
  record and registry instructions). An instruction has what its constructor and `Data`
  write, the accounts with their roles, and what `DecodeInstruction` reads: most from two
  places of the code. Where the model has one layout for both (vote instructions, the
  transfer-fee configuration, and accounts, which the SDK only reads), a round trip
  shows that the layout can be read back, not that two texts agree. **Programs** builds one, sends its bytes and decodes what arrives:
  the bytes whole, cut, altered or extended (`Arrivals`).
- **Ristretto**, **ElGamal**, **ZkProofs**, **RangeProof**: the arithmetic of
  `src/programs/token-2022/confidential_*.go` over a group of prime order in which a
  point is its discrete logarithm: commitments, ciphertexts, decryption through the
  table, the transcript, and every proof with its generator and verifier, the
  inner-product argument of range proofs included. The curve, the transcript's
  permutation and the authenticated cipher are external: linear maps stay linear, and
  the transcript is a deterministic mixing of what was appended.
- **ConfidentialPlans** and **ConfidentialTransfer**: the composed operations, and
  wallets that compose from a snapshot and execute later, against the token program
  (external), which verifies the proofs and moves the encrypted balances.
- **ProofRecord**: the plan that stages a proof in a record account by chunks.
  **DiscreteLogBuild**: the goroutines that build the table of small logarithms.
- **RpcClientProofs**, **ConfirmProofs**, **AccountCacheProofs**, **HeadCacheProofs**,
  **TransactionProofs**: the proofs about the module each is named after.
  **SizeProofs**: those about Shortvec, ProofRecord and DiscreteLogBuild.
- **MC...**: instances for TLC. Most hold several *scenarios*: a variable chosen at
  the start that restricts the steps to the part of the freedom one question needs
  (delivery and teardown of the WebSocket client; order, pinned accounts, replacement
  and batches of the account cache, and the chain heads; confirmation, shared buffers
  and shared headers; compilation, signing and wire of transactions; payments, fees,
  supply, opening and closing, races, single proofs, staging and table of confidential
  transfers).

The operators that `PROJECT.json` lists as mutants stand above the definition they
vary and are plausible bugs of it. They are no part of a specification; each shows
that a property would notice.

## Runs

| Run | What it shows |
|---|---|
| ws_safety | Two concurrent subscriptions, cancelled, released and unsubscribed at any moment: what a subscriber gets is in the order of the node and, while the node gives each id to one subscription, its own; then what is routed to it is received, buffered or counted as dropped, and every step is one that SubscriptionContract allows. With reused ids and Close racing the read loop: no double close, no send on a closed channel, no blocked read loop, nothing registered after the terminal error. |
| ws_liveness | After a terminal error every Recv and every request returns; Close ends every Recv, if the node keeps reading. |
| cache | A late answer never takes an entry back; a streamed entry is current once the feed is drained, also while the cache is disabled, enabled and replaced; data and slot of an entry belong together; every position of a batch, duplicates included, is answered with a state of its own account. Of the chain heads: no commitment is served a value of a lower one; a dead feed is not served beyond its window; a blockhash, its slot and its last valid height belong to one block; no head goes back. |
| confirm | What is reported is true; no subscription is left behind, except one whose request the caller's context cut short before its answer came; a transaction sent by the call is never missed, because the subscription comes first; the wait ends by its timeout with a silent node, cleanup included. Beside it, concurrent calls of one `rpc.Client`: a response buffer has one user, a call gets the answer to its own request, its headers are those of one moment, and it returns though the node does not answer. |
| stream_scan | Accounts come whole, in order and once, all of them or an error, out of a buffer bounded by the largest value. |
| transaction | Every index of a compiled message leads to the account the instruction named, its header fits its keys, no account is there twice, roles are the ones asked for; Sign and a full set of cosigners leave a transaction that verifies, whatever edits and transports came before. On the wire: the walk over concatenated transactions returns each as it was sent and ends where they end, no cut transaction is read, and whatever bytes are accepted are the ones the encoder writes for the result. The JSON form and the geyser conversion of a message are the same message, and a streamed index names the account it did on chain. |
| programs | Every instruction of every program package, and every account type, comes back from its decoder as it was built; what was cut is refused, except where the decoders take shorter forms by design; each instruction has one encoding; extensions are read in order, the first of them from a cut account; the number of source accounts is the number listed, up to the 255 its byte holds. |
| confidential | A plan composed from a true snapshot executes, unless the state it depends on was changed; also the balance, by a plan that was given up and lands late; the owner reads the balance, but for what came or went between an apply's composition and its execution; the encryptions of a balance agree; pending balances and the supply are read exactly or refused; a proof is accepted exactly when its statement is true and no word of it was changed, with a false statement of every kind; a staged proof is complete whatever the order and repetition of its writes; the table, once built, is exact. |

Four runs end in a violation, on purpose: each states a sentence of a comment or
of the documentation that the code does not keep. `findings` quotes them.

| Run | Disagreement |
|---|---|
| ws_reused_id | A reused id overwrites the older entry, whose Recv then never returns. |
| stream_split_key | A read that ends right behind a key makes the scanner compare overwritten bytes. |
| tx_writable | A readonly signer that another instruction wants writable stays readonly, and its neighbour becomes writable: the deduplication changes the role after the sort. |
| tx_sign_v1 | `TransactionV1.Sign` takes a signature of the message before an edit for a signature of the message as it is. |

Modelling met nine more behaviours that a reader of the documentation may not
expect. No run is spent on them:

- `Close` writes its frame without a deadline before it closes anything
  (`src/ws/client.go:136`); with a node that does not read it does not return.
- `Unsubscribe` sends an id that may meanwhile belong to a newer subscription
  (`src/ws/client.go:385`).
- A `subscribe` whose context ends before the answer returns an error and forgets the
  request; the subscription the node then opens stays open there
  (`src/ws/client.go:316`), and `confirm` has no handle to release it by.
- The number of source accounts is one byte, `uint8(len(sourceAccounts))`
  (`src/programs/token-2022/extensions.go:116`): with 256 accounts it is zero. The
  composed confidential withdrawal refuses more than 255.
- Misses of the account cache are fetched at processed commitment whatever the
  commitment of the feed (`src/rpc/cache.go:305`); an answer from a block that the
  cluster then abandons has the higher slot and outranks the confirmed update
  (`src/rpc/cache.go:426`). The model's ledger abandons no block.
- Header counts are one byte (`src/transaction_builder.go:264`): they wrap around
  with more than 255 signers or readonly accounts, far beyond the packet size.
- `IsBlockhashValid` vouches for the cached hash without a look at the cached height
  (`src/rpc/client_methods.go:560`).
- `Opts.Timeout` starts after the subscription request was answered
  (`src/confirm/confirm.go:131`).
- An account stays in the batch while the scanner blocks in Read, if the chunk ended
  behind the comma after it (`src/rpc/stream.go:160`).

### Bounds

Two calls of the WebSocket client are the fewest that can share an id, and the tables
relate at most two calls at a time; a connection that holds one frame makes writes
block. In ws_safety buffers have two places, so that a queue has an order, and a third
notification is sent only when one is full ("delivery"); "teardown" has one
notification and one id, which both calls may be given. AccountCache has one reader, with the
feed and `CacheStore` as competing writers (a second reader acts on the table only
through `set`, which `CacheStore` takes with the same arguments); `MaxEntries = 2`
lets an entry be removed and come back while a reader holds the old pointer. Two slots
are an old and a new state; three ticks pass both the freshness window and the idle
limit of one tick each. Each of the four scenarios has the keys, time, slots and
generations that its question needs (`Limits`): accounts that never change are mixed
with others in "pinned" only, batches with a key twice in "batch" only, and the cache
is replaced in "replace" only. HeadCache has a workload for each kind of head
(`Users`: slots with and without a feed, heights, blockhashes), as they share no
state. Confirm needs no bound: a transaction has four stages. JsonStream starts with
six characters, so the longest account makes the buffer grow and every document makes
it compact. It excludes chunks that end between a key and its colon (`SplitsKeys`),
the case stream_split_key is about. Two instructions are the fewest that can ask for
different roles of one key; with three keys for accounts, two of them in two tables,
every role meets every other. Tables of 256 and 257 addresses stand on both sides of
the width of an index. Two signers, two blockhashes and two messages are enough for a
signature to go stale in one slot and not in the other; what is signed is built from
one of six short lists of instructions (`Short`), with one or two signers and with or
without a table.

On the wire, keys, hashes and signatures have two bytes instead of 32 and 64, which
changes no test but the size limit of v1, scaled with them (`V1MaxSize`, `HeapUnit`,
`HeapMin`, `HeapMax`). Bytes are altered to the values at which a length changes its
form (0, 1, 2, 128, 129, 255), two transactions follow one another, and one carries
130 bytes of data, so that its length takes two bytes. Of RpcClient, two calls share
two buffers and two pieces make a body ("bodies"); two calls, one of them streaming,
copy two headers that are set twice ("headers"). In Programs the 32 and 64 bytes of
keys and signatures are two and three, limits of lists and seeds are two, and each
field takes the corners of its width: zero, a small value of its own place, the
largest, and one in the middle or past a limit, all fields at the same corner and in
turn; lists of accounts behind a count of one byte are also 255 and 256 long
(`ListLengths`). Confidential transfers use a group of order 46337, the largest prime whose
products fit TLC's integers, halves of 2 and 4 bits, amounts of 8 bits, so that sums
pass the low half with two credits; four compositions and deposits, of which only
three where anyone pays anyone; burns are of the least amount, or of the least that
does not fit the halves, which is refused. Fees are withdrawn from one account, two,
or one more than `MaxSources`, scaled to two. A plan that was given up lands late in
"race" only: alice's withdrawals and applies, with deposits between them. In so small a group an
altered proof would be accepted by chance once in 46337 times, so the words are
altered to four fixed values. Seven bytes are staged in chunks of three, at once (a
chunk of eight) or not at all (zero); a table of seven is built by three goroutines.
The last chunk is shorter in both.

### Fairness

The goroutines of the client are weakly fair; waiting for `writeMu` is strongly
fair, since Go's mutexes hand over to a starving waiter. Nothing is assumed of
contexts, users or the node, except that CloseEndsRecv has a node that reads as its
premise. In Confirm timers fire, and a `select` in
which the done context is ready again and again takes it at some time
(`SF(WaitDone)`, since select chooses at random). In RpcClient the steps of a call
that has begun are weakly fair; the failure of a request the node does not answer is
one of them, as the client that `New` makes has a timeout of 120 s. JsonStream
assumes that the reader returns, data or an error.

Runs without deadlock checking: every one of these programs may rightly stop
(the connection is closed, the call has returned, a bound is reached).

## Proofs

Eight modules hold proofs. Each theorem is about the specification of its component,
for every value of the constants that the named assumptions allow; bounds such as
`MaxNotes` or `MaxTime` are constants too, so a theorem holds for all of them. Each
rests on an inductive invariant with a lemma for each kind of step, but for those about
Shortvec, which has no state.

**WsClient**, under `ConstantsAssumption` and `NoneAssumption`: every set of calls and
of ids, every buffer and connection capacity, either choice of the Boolean constants.
WsClientProofs proves `TypeCorrect`, `ChannelsSafe`
(`NoChannelPanic`), `ReadLoopNeverBlocked` (`ReplyNeverBlocksReadLoop`),
`FailureIsFinal` (`NothingRegisteredAfterFailure`) and `OwnersClose`
(`EntryClosedOnlyByOwner`). None of the last four is inductive alone. The inductive
invariant `IInv` is `TypeOK` together with `Safe`, whose parts say what holds the
channels apart:

- `PendingInv`: a pending request stands under the latest id of its call, which
  is still inside `request`; its response channel is empty and open, and it is not
  the request whose reply the read loop carries;
- `DeliverInv`: the request whose reply the read loop carries has an empty, open
  response channel, and its call is in `request` or has given it up;
- `EntryInv`: an entry in `subs` is open and stands under one id, and its call no
  longer waits in `pending` for the subscribe request that put it there;
- `HandleInv`: a call whose Subscription was returned has a subscription id;
- `EntryClosedOnlyByOwner` and `NothingRegisteredAfterFailure` themselves.

`TypeNext` and `SafeNext` have a step for each action; `SafeFail` and
`SafeRelease` isolate the two operations that close channels.

**Delivery and contract of a subscription**, under the same assumptions.
`Delivered` is `NotificationsDelivered`; `ClientImplementsContract` is
`Spec => ImplementsContract`: every step taken while `IdsUsedOnce` holds is one of the
contract's, or changes nothing it speaks of. `ContractWithoutReuse` is
`Spec => Contract!Spec`, for `ReuseIds = FALSE`. The premise `IdsUsedOnce` says that the node
has given each id to one subscription (`uses`, a history variable of the model). It is
needed: a reused id overwrites the older entry (run ws_reused_id), and what the node then
sends for the older subscription goes to the newer one. The
invariant `DInv` adds to `IInv`:

- `IdInv`: calls have distinct request ids, and an id is in flight at most once, as a
  request or as its reply (this holds with reuse of subscription ids too);
- `OrderInv`: what a Recv returned is older than what is queued, which is older than
  what is in flight, and nothing overflows;
- `Flow`, while ids are used once: an id in flight in an acknowledgement is not yet
  registered, an id that carries notifications for a call is or will be registered for
  that call alone, and a live call is registered before the read loop comes to the first
  of them, because the acknowledgement travels ahead of it;
- `Tally`, likewise: routed notifications are received, queued or counted.

Most steps give no id to anyone; `CalmTables`, `CalmCalls`, `CalmNode` and `CalmWire`
say what they may do, and `FlowKept` carries `Flow` over all of them. The refinement has
one lemma for each way a step appears to the contract: `Stutters`, `Shuts`,
`RouteDelivers`, `RecvTakes`, `ReplyOpens`.

**Confirm**, for any set of commitments and without assumptions: `OutcomeCorrect`
(`OutcomeIsTrue`), `SubscriptionsReleased` (`NothingLeftBehind`) and `SentIsSeen`
(`SendIsNotMissed`). The invariant `Inv` says which subscription a call has at each of
its steps (`Holds`) and when the node may still open one that was abandoned
(`Abandoned`: the exception that `NothingLeftBehind` makes, a call that ended with its
context before the answer and sent nothing), that a transaction the call sends is unknown before (`Known`), that
a terminal notification is true, is the node's last word and stays in the channel until
the call has received it (`Told`), and what was reported and released.

**AccountCache**, under `CacheAssumption`: any keys, readers, batches and windows.
`EntriesNeverRegress` (`EntriesOnlyImprove`), `StreamedEntryIsCurrent`
(`StreamedIsCurrent`) and `BatchesAnswered` (`BatchAnswered`). The invariant: the ledger
keeps what was not written (`Rows`); the feed still holds the last write of every account
it holds any write of (`Backlog`); every entry, in every generation of the cache, is the
state of one account as of its slot and stands in one place (`Table`); a streamed entry
is current or its update is still to come (`Streamed`); and of each call in flight, the
pointer it holds is to an entry of the key it is at (`Pointer`), its answer is of one
slot (`Answered`), and each position is filled with a state of its account, ahead of the
loop, or among the misses (`Found`). `SetKeeps` is about `set`, which all writers share;
it gives the action property at the same time.

**HeadCache**, under `HeadAssumption`: `HeadsNeverRegress` (`HeadNeverRegresses`),
`DeadFeedIsForgotten` (`DeadFeedExpires`) and
`ServedIsReached` (`ServedReachedCommitment`), for any readers, workloads and windows. The
invariant: levels follow one another and slots grow along the chain (`Chain`), what the
feed has to deliver has reached its level (`Pending`), no stamp of a dead feed is later
than its end (`Stamps`), a head is of a block that reached its level (`Heads`), and so is
what a call holds between its steps (`Answers`).

**Transaction**: `SignedVerifies` (`SignVerifies`) and `CosignersAreEnough`
(`CosignersSuffice`), both from `SpecTx /\ []IndexesResolve`. The premise is the
property of compiled messages that the run `transaction` checks; the proof uses of it
that the fields of the message `Build` returns have their types and that the header
fits the keys. It cannot be proved here, since the builder sorts and filters
sequences. The proof shows that encoding a message twice is encoding it once
(`EncodedOnce`), that a signature goes into the slot of its signer and nowhere else
(`SignedBy`), and that a transport keeps both (`Transported`); `Cosigned`, the
inductive part, says that whoever has signed the message as it is has a signature over
it in the slot of each of their keys.

**RpcClient**, under `RpcAssumption`: any number of calls, buffers, headers and pieces
of a body. `BuffersStayExclusive` (`BuffersExclusive`), `EveryCallGetsItsAnswer`
(`OwnAnswer`) and `HeadersAreOfOneMoment` (`HeadersOfOneMoment`). The invariant has
four parts: the types (`RpcTypeOK`); `IdInv`, ids are distinct and an answer has the
id of its request; `BufferInv`, a buffer in use has one user, is not in the pool and
holds exactly the pieces its user has read, so that it decodes to that answer alone
(`DecodesToOwn`); `HeaderInv`, a call that copies headers holds the read lock, hence
what it has copied so far is what the client still has. `BufferFrame`, `IdFrame` and
`HeaderFrame` carry the invariants over the steps that touch none of their state.

**Shortvec** (in SizeProofs, as are the next two), without variables:
`LengthsReadBack`, the decoder returns what `appendShortvecLen` wrote and takes
exactly its bytes, whatever follows, for every length up to 65535;
`LengthsHaveOneForm`, bytes that are accepted are the ones written for the value they
stand for. Both split on the number of bytes; the lemmas give the arithmetic of the
seven-bit groups.

**ProofRecord**, under `RecordAssumption` (any length and data offset, and any chunk size
asked for; those below one, and an invalid proof, are refused):
`ProofIsStaged` (`RecordHoldsProof`) and `WritesAlwaysFit` (`WritesFit`). `RecordInv`
says that the chunks planned so far cover everything before the loop variable, hold
the proof's own bytes at their place and end within it, and that what has landed of
them is in the record.

**DiscreteLogBuild**, under `BuildAssumption` (any table length and number of cores):
`TableAlwaysExact` (`TableExact`) and `WritesNeverRace` (`WritesDisjoint`).
`BuildInv` says that the goroutines have disjoint ranges within what was handed
out, that every element handed out is filled or lies before some goroutine, and
that the wait group counts the goroutines; when it is zero none is left.

Only model-checked:

- liveness (`WaitersReturnAfterFailure`, `CloseEndsRecv`, `WaitEnds`, `CallReturns`,
  `Terminates`): fairness is out of the prover's reach;
- `IndexesResolve` and `RolesAsAsked`: the builder sorts and filters sequences of
  accounts, and what `SetToSortSeq` and `SelectSeq` return for every sequence takes an
  induction over data, which the prover cannot do;
- the byte formats, the other forms of messages and the program layouts (`WalkExact`,
  `OneEncoding`, `FormsAgree`, `RoundTrip`, `Canonical`, `CutRefused`,
  `SourcesCounted`), for the same reason: writers and readers are recursive over their
  data;
- JsonStream (`CompleteOrError`, `BufferBounded`): what a scan must return is defined by
  the texts of the instance, character by character;
- plans, balances and proofs of confidential transfers (`PlansWork`, `BalanceKnown`,
  `SupplyKnown`, `ProofsExact`): the inner-product argument is recursive, and that an
  altered proof is refused is true of this group with high probability, not always.

## Not modelled

- Key derivation: keypairs, mnemonics, program-derived addresses, base58, the ElGamal
  and cipher keys derived from signatures and seeds (`confidential_keys.go`,
  `confidential_kdf.go`). They
  compose hash functions and curve operations of libraries, without state.
- Inside confidential transfers: the authenticated cipher and the curve, which are
  assumed, and the variants of the plans that refer to proofs verified earlier into
  context accounts.
- RPC methods that consult no cache (`src/rpc/client_methods.go`) put their arguments
  into a request and call `call` or `callNullable`, which RpcClient models for all of
  them; options, results, filters and notification types are JSON shapes.
- Subscription methods (`src/ws`) likewise name a method and its parameters and call
  `subscribe`, which WsClient models for every call.
- The yellowstone connection hands over to a gRPC stream. Of its conversions those of
  transactions and their metadata are modelled; accounts, slots, blocks and rewards
  are copied field by field. The protobuf code is generated.
- What the JSON, gRPC, HTTP and WebSocket libraries do.
- Abstracted inside the modelled parts: masking and fragments of WebSocket frames,
  hit and miss counters, the sharding of the account cache (one lock for each key),
  JSON decoding of values, and forks: no block is abandoned, in the caches and in
  Confirm.
