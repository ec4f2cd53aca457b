------------------------------ MODULE HeadCache ------------------------------
(***************************************************************************)
(* The chain-head part of the RPC client's cache (src/rpc/cache.go): the   *)
(* latest slot, block height and blockhash per commitment level, written   *)
(* by the realtime feed (src/yellowstone/pipe.go) and by the calls that    *)
(* missed, and read by GetSlot, GetBlockHeight, GetLatestBlockhash and     *)
(* IsBlockhashValid.  The cluster, the stream and the node are external.   *)
(*                                                                         *)
(* Block n of the chain has height n and a hash named n; its slot may be   *)
(* larger, for slots are skipped.  One cache: AccountCache models its      *)
(* replacement.  Forks of the processed level are not modelled.            *)
(***************************************************************************)
EXTENDS Integers, Sequences

CONSTANTS
  HeadReaders,
  Workloads,     \* who uses the cache and which updates the stream carries
  HeadFreshFor,  \* CacheOptions.HeadFreshFor, in ticks
  MaxAge,        \* maxBlockhashAge, in blocks
  MaxHeadTime,   \* bound: ticks of the clock
  MaxBlocks      \* bound: blocks of the chain

Levels  == 0..2      \* processed, confirmed, finalized
Methods == {"GetSlot", "GetBlockHeight", "GetLatestBlockhash", "IsBlockhashValid"}
Unset   == ""        \* no commitment passed: the node's default

ASSUME HeadAssumption ==
  /\ \A w \in Workloads :
       /\ DOMAIN w = {"called", "asked", "feed", "slots"}
       /\ w.called \subseteq Methods /\ w.slots \subseteq Levels
       /\ w.feed \in Levels \cup {-1}
  /\ {HeadFreshFor, MaxHeadTime, MaxBlocks, MaxAge} \subseteq Nat

VARIABLES
  workload,   \* called: the methods in use; asked: the commitments passed to them;
              \* feed: the stream's commitment as an index, -1 if it carries no block
              \* metadata; slots: the levels whose slot updates pass its filters
  headNow,
  chain,      \* the slots of the blocks
  tip,        \* per level: the last block that reached it
  stream,     \* updates the feed has not delivered yet
  diedAt,     \* when the stream ended, 0 while it lives
  piping,     \* the block whose hash Pipe stores next, 0 if none
  slotHead, heightHead, hashHead,  \* per level: value, stamp and origin
  headPc, method, asked, hash, headAt,  \* per reader: its call and its clock
  result      \* per reader: what the cache or the node gave

clusterVars    == <<chain, tip, stream, diedAt>>
headVars       == <<slotHead, heightHead, hashHead>>
headCallVars   == <<method, asked, hash, headAt>>
headReaderVars == <<headPc, headCallVars, result>>
headCacheVars  == <<workload, headNow, clusterVars, piping, headVars, headReaderVars>>

SlotOf(n)  == IF n = 0 THEN 0 ELSE chain[n]
\* A block's hash as getLatestBlockhash and the block metadata describe it.
HashOf(n)  == [hash |-> n, lastValid |-> n + MaxAge, slot |-> SlotOf(n)]
NoHash     == [hash |-> 0, lastValid |-> 0, slot |-> 0]
HashData   == [hash : Nat, lastValid : Nat, slot : Nat]
\* fed: the value came from the stream.
HeadState(Value) == [value : Value, at : Nat, fed : BOOLEAN]
HeadUpdate == [level : Levels, block : Nat, kind : {"slot", "meta"}]
NoResult   == [cached |-> FALSE, fed |-> FALSE, number |-> 0, hash |-> NoHash]

HeadInit ==
  /\ workload \in Workloads
  /\ headNow = 1 /\ diedAt = 0 /\ piping = 0
  /\ chain = <<>>
  /\ tip = [i \in Levels |-> 0]
  /\ stream = <<>>
  /\ slotHead = [i \in Levels |-> [value |-> 0, at |-> 0, fed |-> FALSE]]
  /\ heightHead = [i \in Levels |-> [value |-> 0, at |-> 0, fed |-> FALSE]]
  /\ hashHead = [i \in Levels |-> [value |-> NoHash, at |-> 0, fed |-> FALSE]]
  /\ headPc = [r \in HeadReaders |-> "idle"]
  /\ method = [r \in HeadReaders |-> "GetSlot"]
  /\ asked = [r \in HeadReaders |-> Unset]
  /\ hash = [r \in HeadReaders |-> 0]
  /\ headAt = [r \in HeadReaders |-> 0]
  /\ result = [r \in HeadReaders |-> NoResult]

-----------------------------------------------------------------------------
(* The stores, each one critical section of headMu.                        *)

\* Mutant: the empty commitment is the lowest level.
cacheIndexEmptyProcessed(c) ==
  CASE c \in {"processed", Unset} -> 0
    [] c = "confirmed" -> 1
    [] c = "finalized" -> 2
    [] OTHER -> -1

cacheIndex(c) ==
  IF c = "processed" THEN 0
  ELSE IF c = "confirmed" THEN 1
  ELSE IF c \in {"finalized", Unset} THEN 2 ELSE -1

\* Mutant: an older value is ignored but still counts as an update.
StampedAlways(old, newer, value, fed) ==
  IF newer THEN [value |-> value, at |-> headNow, fed |-> fed]
  ELSE [old EXCEPT !.at = headNow]

\* Mutant: the last write wins.
StampedLast(old, newer, value, fed) == [value |-> value, at |-> headNow, fed |-> fed]

\* What all three stores do: a value that is not older replaces the head and
\* its stamp, an older one changes nothing.
Stamped(old, newer, value, fed) ==
  IF newer THEN [value |-> value, at |-> headNow, fed |-> fed] ELSE old

storeSlot(i, slot, fed) ==
  /\ slotHead' = [slotHead EXCEPT ![i] = Stamped(@, slot >= @.value, slot, fed)]
  /\ UNCHANGED <<heightHead, hashHead>>

storeBlockHeight(i, height, fed) ==
  /\ heightHead' = [heightHead EXCEPT ![i] = Stamped(@, height >= @.value, height, fed)]
  /\ UNCHANGED <<slotHead, hashHead>>

storeBlockhash(i, h, fed) ==
  /\ hashHead' = [hashHead EXCEPT ![i] = Stamped(@, h.slot >= @.value.slot, h, fed)]
  /\ UNCHANGED <<slotHead, heightHead>>

-----------------------------------------------------------------------------
(* The calls.                                                              *)

\* cache.Load, and the lookup's time.Now.
HeadBegin(r, m, c, h) ==
  /\ headPc[r] = "idle"
  /\ m # "IsBlockhashValid" => h = 0
  /\ method' = [method EXCEPT ![r] = m]
  /\ asked' = [asked EXCEPT ![r] = c]
  /\ hash' = [hash EXCEPT ![r] = h]
  /\ headAt' = [headAt EXCEPT ![r] = headNow]
  /\ headPc' = [headPc EXCEPT ![r] = IF cacheIndex(c) < 0 THEN "fetch" ELSE "lookup"]
  /\ UNCHANGED <<workload, headNow, clusterVars, piping, headVars, result>>

\* Within the window of the caller's clock, as lookupSlot and the others test.
InWindow(head, t) == head.at # 0 /\ head.at >= t - HeadFreshFor

\* The head the call looks at, under the read lock.
Looked(r) ==
  LET i == cacheIndex(asked[r])
  IN  IF method[r] = "GetSlot" THEN slotHead[i]
      ELSE IF method[r] = "GetBlockHeight" THEN heightHead[i]
      ELSE hashHead[i]

Hit(r) ==
  /\ InWindow(Looked(r), headAt[r])
  /\ method[r] = "IsBlockhashValid" => Looked(r).value.hash = hash[r]

Lookup(r) ==
  /\ headPc[r] = "lookup"
  /\ \/ /\ Hit(r)
        /\ LET v == Looked(r).value
               counts == method[r] \in {"GetSlot", "GetBlockHeight"}
           IN  result' = [result EXCEPT ![r] =
                 [cached |-> TRUE, fed |-> Looked(r).fed,
                  number |-> IF counts THEN v ELSE 0,
                  hash   |-> IF counts THEN NoHash ELSE v]]
        /\ headPc' = [headPc EXCEPT ![r] = "return"]
     \/ /\ ~Hit(r)
        /\ headPc' = [headPc EXCEPT ![r] = "fetch"]
        /\ UNCHANGED result
  /\ UNCHANGED <<workload, headNow, clusterVars, piping, headVars, headCallVars>>

\* The node answers as of some block of the level, its last one or an earlier.
HeadAnswers(r) ==
  /\ headPc[r] = "fetch"
  /\ \E n \in 0..tip[IF cacheIndex(asked[r]) < 0 THEN 2 ELSE cacheIndex(asked[r])] :
       result' = [result EXCEPT ![r] =
         [cached |-> FALSE, fed |-> FALSE,
          number |-> IF method[r] = "GetSlot" THEN SlotOf(n)
                     ELSE IF method[r] = "GetBlockHeight" THEN n ELSE 0,
          hash   |-> IF method[r] = "GetLatestBlockhash" THEN HashOf(n) ELSE NoHash]]
  /\ headPc' = [headPc EXCEPT ![r] = IF method[r] = "IsBlockhashValid" THEN "return" ELSE "store"]
  /\ UNCHANGED <<workload, headNow, clusterVars, piping, headVars, headCallVars>>

\* What the node answered is stored, now; an unknown commitment is not.
HeadStore(r) ==
  /\ headPc[r] = "store"
  /\ LET i == cacheIndex(asked[r])
     IN  \/ i < 0 /\ UNCHANGED headVars
         \/ i >= 0 /\ method[r] = "GetSlot" /\ storeSlot(i, result[r].number, FALSE)
         \/ i >= 0 /\ method[r] = "GetBlockHeight" /\ storeBlockHeight(i, result[r].number, FALSE)
         \/ i >= 0 /\ method[r] = "GetLatestBlockhash" /\ storeBlockhash(i, result[r].hash, FALSE)
  /\ headPc' = [headPc EXCEPT ![r] = "return"]
  /\ UNCHANGED <<workload, headNow, clusterVars, piping, headCallVars, result>>

\* The call returns, with the value or the error of the fetch.
HeadReturn(r) ==
  /\ headPc[r] \in {"return", "fetch"}
  /\ headPc' = [headPc EXCEPT ![r] = "idle"]
  /\ method' = [method EXCEPT ![r] = "GetSlot"]
  /\ asked' = [asked EXCEPT ![r] = Unset]
  /\ hash' = [hash EXCEPT ![r] = 0]
  /\ headAt' = [headAt EXCEPT ![r] = 0]
  /\ result' = [result EXCEPT ![r] = NoResult]
  /\ UNCHANGED <<workload, headNow, clusterVars, piping, headVars>>

-----------------------------------------------------------------------------
(* The feed.                                                               *)

\* Pipe, a slot update: slotCommitment is the level its status names.
PipeSlot ==
  /\ piping = 0 /\ stream # <<>> /\ stream[1].kind = "slot"
  /\ storeSlot(stream[1].level, SlotOf(stream[1].block), TRUE)
  /\ stream' = Tail(stream)
  /\ UNCHANGED <<workload, headNow, chain, tip, diedAt, piping, headReaderVars>>

\* Pipe, block metadata: the height first, the blockhash after it, both under
\* the stream's commitment.
PipeHeight ==
  /\ piping = 0 /\ stream # <<>> /\ stream[1].kind = "meta"
  /\ storeBlockHeight(workload.feed, stream[1].block, TRUE)
  /\ piping' = stream[1].block
  /\ stream' = Tail(stream)
  /\ UNCHANGED <<workload, headNow, chain, tip, diedAt, headReaderVars>>

PipeBlockhash ==
  /\ piping # 0
  /\ storeBlockhash(workload.feed, HashOf(piping), TRUE)
  /\ piping' = 0
  /\ UNCHANGED <<workload, headNow, clusterVars, headReaderVars>>

\* The stream ends; Pipe returns once it has handled what it had received.
StreamEnds ==
  /\ diedAt = 0 /\ piping = 0
  /\ diedAt' = headNow
  /\ stream' = <<>>
  /\ UNCHANGED <<workload, headNow, chain, tip, piping, headVars, headReaderVars>>

-----------------------------------------------------------------------------
(* The cluster.                                                            *)

\* The next block reaches level i; the stream reports it.
Reach(i, gap) ==
  /\ IF i = 0 THEN tip[0] < MaxBlocks ELSE tip[i] < tip[i - 1] /\ gap = 1
  /\ chain' = IF i = 0 THEN Append(chain, SlotOf(tip[0]) + gap) ELSE chain
  /\ tip' = [tip EXCEPT ![i] = @ + 1]
  /\ LET update(kind, sent) ==
           IF sent THEN <<[level |-> i, block |-> tip[i] + 1, kind |-> kind]>> ELSE <<>>
     IN  stream' = IF diedAt # 0 THEN stream
                   ELSE stream \o update("slot", i \in workload.slots)
                               \o update("meta", i = workload.feed)
  /\ UNCHANGED <<workload, headNow, diedAt, piping, headVars, headReaderVars>>

HeadTick ==
  /\ headNow < MaxHeadTime
  /\ headNow' = headNow + 1
  /\ UNCHANGED <<workload, clusterVars, piping, headVars, headReaderVars>>

HeadNext ==
  \/ \E r \in HeadReaders :
       \/ \E m \in workload.called, c \in workload.asked, h \in 0..MaxBlocks : HeadBegin(r, m, c, h)
       \/ Lookup(r) \/ HeadAnswers(r) \/ HeadStore(r) \/ HeadReturn(r)
  \/ PipeSlot \/ PipeHeight \/ PipeBlockhash \/ StreamEnds \/ HeadTick
  \/ \E i \in Levels, gap \in 1..2 : Reach(i, gap)

HeadSpec == HeadInit /\ [][HeadNext]_headCacheVars

-----------------------------------------------------------------------------

\* Types, and that no lookup indexes ac.head out of range.
HeadTypeOK ==
  /\ headNow \in Nat /\ diedAt \in Nat /\ piping \in Nat
  /\ chain \in Seq(Nat)
  /\ tip \in [Levels -> 0..Len(chain)]
  /\ stream \in Seq(HeadUpdate)
  /\ slotHead \in [Levels -> HeadState(Nat)]
  /\ heightHead \in [Levels -> HeadState(Nat)]
  /\ hashHead \in [Levels -> HeadState(HashData)]
  /\ headPc \in [HeadReaders -> {"idle", "lookup", "fetch", "store", "return"}]
  /\ method \in [HeadReaders -> Methods]
  /\ asked \in [HeadReaders -> workload.asked \cup {Unset}]
  /\ hash \in [HeadReaders -> Nat]
  /\ headAt \in [HeadReaders -> Nat]
  /\ result \in [HeadReaders -> [cached : BOOLEAN, fed : BOOLEAN, number : Nat, hash : HashData]]
  /\ \A r \in HeadReaders : headPc[r] = "lookup" => cacheIndex(asked[r]) \in Levels

\* A slot, height or blockhash that the cache serves for a commitment has
\* reached that commitment on the cluster, the default one included; a
\* blockhash comes with the last valid height and the slot of its own block,
\* however feed and fetches interleave.
ServedReachedCommitment ==
  /\ HeadTypeOK
  /\ \A r \in HeadReaders : headPc[r] = "return" /\ result[r].cached =>
       LET n == tip[IF asked[r] = Unset THEN 2 ELSE cacheIndex(asked[r])]
           h == result[r].hash
       IN  /\ method[r] = "GetSlot" => result[r].number <= SlotOf(n)
           /\ method[r] = "GetBlockHeight" => result[r].number <= n
           /\ method[r] \in {"GetLatestBlockhash", "IsBlockhashValid"} =>
                h.hash <= n /\ h = HashOf(h.hash)

\* Once the stream has ended, nothing it wrote is served after HeadFreshFor,
\* though late and lagging answers of the node are still stored.
DeadFeedExpires ==
  \A r \in HeadReaders : headPc[r] = "return" /\ result[r].cached /\ result[r].fed /\ diedAt # 0 =>
    headAt[r] <= diedAt + HeadFreshFor

\* No head goes back: its slot, its height, the slot of its blockhash.
HeadsAdvance ==
  \A i \in Levels :
    /\ slotHead'[i].value >= slotHead[i].value
    /\ heightHead'[i].value >= heightHead[i].value
    /\ hashHead'[i].value.slot >= hashHead[i].value.slot

\* In every step, whichever of the feed and the calls stores: an update or an
\* answer that is older than the head changes nothing.
HeadNeverRegresses == [][HeadsAdvance]_headCacheVars
=============================================================================
