-------------------------- MODULE HeadCacheProofs --------------------------
(***************************************************************************)
(* Proofs about HeadCache for any number of readers, workloads, windows    *)
(* and blocks: no head goes back, what is served has reached its           *)
(* commitment, and what a dead stream wrote expires.                       *)
(***************************************************************************)
EXTENDS HeadCache, TLAPS

Places == {"idle", "lookup", "fetch", "store", "return"}
Result == [cached : BOOLEAN, fed : BOOLEAN, number : Nat, hash : HashData]

\* The types, in parts that are about one actor each.
ClusterType ==
  /\ headNow \in Nat /\ diedAt \in Nat /\ piping \in Nat
  /\ chain \in Seq(Nat)
  /\ tip \in [Levels -> Nat]
  /\ stream \in Seq(HeadUpdate)
HeadType ==
  /\ slotHead \in [Levels -> HeadState(Nat)]
  /\ heightHead \in [Levels -> HeadState(Nat)]
  /\ hashHead \in [Levels -> HeadState(HashData)]
CallType ==
  /\ workload \in Workloads
  /\ headPc \in [HeadReaders -> Places]
  /\ method \in [HeadReaders -> Methods]
  /\ asked \in [HeadReaders -> workload.asked \cup {Unset}]
  /\ hash \in [HeadReaders -> Nat]
  /\ headAt \in [HeadReaders -> Nat]
  /\ result \in [HeadReaders -> Result]

\* Every level follows the one below it, and slots only grow along the chain.
Chain ==
  /\ tip[0] = Len(chain) /\ tip[1] <= tip[0] /\ tip[2] <= tip[1]
  /\ \A m, n \in 0 .. Len(chain) : m <= n => SlotOf(m) <= SlotOf(n)

\* What the feed has still to deliver reached its level; a dead one delivers
\* nothing.
Pending ==
  /\ \A k \in DOMAIN stream :
       /\ stream[k].block <= tip[stream[k].level]
       /\ stream[k].kind = "meta" => stream[k].level = workload.feed
  /\ piping # 0 => workload.feed \in Levels /\ piping <= tip[workload.feed]
  /\ diedAt # 0 => stream = <<>> /\ piping = 0

\* No stamp is of the future, and none of a dead feed is later than its end.
Stamps ==
  \A i \in Levels :
    /\ slotHead[i].at <= headNow /\ heightHead[i].at <= headNow /\ hashHead[i].at <= headNow
    /\ diedAt # 0 /\ slotHead[i].fed => slotHead[i].at <= diedAt
    /\ diedAt # 0 /\ heightHead[i].fed => heightHead[i].at <= diedAt
    /\ diedAt # 0 /\ hashHead[i].fed => hashHead[i].at <= diedAt
Clocks == headNow >= 1 /\ diedAt <= headNow /\ \A r \in HeadReaders : headAt[r] <= headNow

IsHash(h, n) == h.hash <= n /\ h = HashOf(h.hash)

\* A head is of a block that reached its level.
Heads ==
  \A i \in Levels :
    /\ slotHead[i].value <= SlotOf(tip[i])
    /\ heightHead[i].value <= tip[i]
    /\ hashHead[i].at # 0 => IsHash(hashHead[i].value, tip[i])

\* So is what a call holds: an answer it will store, or a cached value.
Holding(r, i) ==
  /\ method[r] = "GetSlot" => result[r].number <= SlotOf(tip[i])
  /\ method[r] = "GetBlockHeight" => result[r].number <= tip[i]
  /\ (method[r] = "GetLatestBlockhash" \/ (method[r] = "IsBlockhashValid" /\ result[r].cached)) =>
       IsHash(result[r].hash, tip[i])
Answer(r) ==
  /\ headPc[r] = "lookup" => cacheIndex(asked[r]) \in Levels
  /\ headPc[r] = "store" => ~result[r].cached
  /\ headPc[r] = "store" /\ cacheIndex(asked[r]) \in Levels => Holding(r, cacheIndex(asked[r]))
  /\ headPc[r] = "return" /\ result[r].cached =>
       cacheIndex(asked[r]) \in Levels /\ Holding(r, cacheIndex(asked[r]))
Answers == \A r \in HeadReaders : Answer(r)

\* The inductive invariant.
Types == ClusterType /\ HeadType /\ CallType
Inv == Types /\ Chain /\ Pending /\ Stamps /\ Clocks /\ Heads /\ Answers /\ DeadFeedExpires

-----------------------------------------------------------------------------
\* A commitment is a level, or none.
LEMMA IndexType == ASSUME NEW c PROVE cacheIndex(c) \in Levels \cup {-1}
<1>1. cacheIndex(c) = 0 \/ cacheIndex(c) = 1 \/ cacheIndex(c) = 2 \/ cacheIndex(c) = -1
  BY Zenon DEF cacheIndex
<1> QED BY <1>1 DEF Levels

\* The slot of a block of the chain is a number.
LEMMA SlotType ==
  ASSUME ClusterType, NEW n \in 0 .. Len(chain)
  PROVE  SlotOf(n) \in Nat
  BY DEF ClusterType, SlotOf

\* What a workload is.
LEMMA WorkloadType ==
  ASSUME workload \in Workloads
  PROVE  /\ workload.called \subseteq Methods /\ workload.slots \subseteq Levels
         /\ workload.feed \in Levels \cup {-1}
  BY Zenon, HeadAssumption

\* The invariant holds at the start.
LEMMA InvInit == HeadInit => Inv
<1> SUFFICES ASSUME HeadInit PROVE Inv
  BY Zenon
<1>1. ClusterType
  BY DEF HeadInit, ClusterType
<1>2. HeadType
  BY Zenon DEF HeadInit, HeadType, HeadState, HashData, NoHash
<1>3. CallType
  BY Zenon DEF HeadInit, CallType, Places, Methods, Result, NoResult, HashData, NoHash
<1>4. Chain
  BY DEF HeadInit, Chain, SlotOf, Levels
<1>5. Pending /\ Answers /\ DeadFeedExpires
  BY DEF HeadInit, Pending, Answers, Answer, DeadFeedExpires
<1>6. Stamps /\ Clocks /\ Heads
  BY DEF HeadInit, Stamps, Clocks, Heads, SlotOf
<1> QED BY Zenon, <1>1, <1>2, <1>3, <1>4, <1>5, <1>6 DEF Inv, Types

-----------------------------------------------------------------------------
(* The stores.                                                             *)

\* A stamped head is a head.
LEMMA StampedType ==
  ASSUME NEW S, NEW old \in HeadState(S), NEW value \in S, NEW fed \in BOOLEAN, NEW newer,
         headNow \in Nat
  PROVE  Stamped(old, newer, value, fed) \in HeadState(S)
  BY Zenon DEF Stamped, HeadState

\* What a store leaves alone.
Still == UNCHANGED <<headNow, chain, tip, diedAt>>

\* Storing a slot that the level has reached keeps the heads right, and none
\* goes back.
LEMMA StoreSlot ==
  ASSUME Inv, Still,
         NEW i \in Levels, NEW s \in Nat, NEW fed \in BOOLEAN,
         s <= SlotOf(tip[i]), fed => diedAt = 0, storeSlot(i, s, fed)
  PROVE  HeadType' /\ Stamps' /\ Heads' /\ HeadsAdvance
<1> USE DEF Inv, Types, storeSlot, Still
<1> DEFINE new == Stamped(slotHead[i], s >= slotHead[i].value, s, fed)
<1>1. /\ slotHead \in [Levels -> HeadState(Nat)] /\ headNow \in Nat /\ diedAt \in Nat
      /\ slotHead[i] \in HeadState(Nat)
  BY Zenon DEF HeadType, ClusterType
<1>2. new \in HeadState(Nat)
  BY Zenon, <1>1, StampedType
<1>3. slotHead' = [slotHead EXCEPT ![i] = new]
  BY Zenon
<1>4. HeadType'
  BY Zenon, <1>1, <1>2, <1>3 DEF HeadType
<1>5. /\ new.at <= headNow /\ (diedAt # 0 /\ new.fed => new.at <= diedAt)
      /\ new.value <= SlotOf(tip[i]) /\ new.value >= slotHead[i].value
  BY <1>1 DEF Stamped, HeadState, Stamps, Heads
<1>6. \A j \in Levels : slotHead'[j] = IF j = i THEN new ELSE slotHead[j]
  BY Zenon, <1>1, <1>3
<1> HIDE DEF new
<1>7. Stamps'
  BY <1>5, <1>6 DEF Stamps
<1>8. \A n : SlotOf(n)' = SlotOf(n) /\ HashOf(n)' = HashOf(n)
  BY Zenon DEF SlotOf, HashOf
<1>9. Heads'
  BY Zenon, <1>5, <1>6, <1>8 DEF Heads, IsHash
<1>10. HeadsAdvance
  BY <1>1, <1>5, <1>6 DEF HeadsAdvance, HeadType, HeadState, HashData
<1> QED BY Zenon, <1>4, <1>7, <1>9, <1>10

\* So does storing the height of a block that the level has reached.
LEMMA StoreHeight ==
  ASSUME Inv, Still,
         NEW i \in Levels, NEW n \in Nat, NEW fed \in BOOLEAN,
         n <= tip[i], fed => diedAt = 0, storeBlockHeight(i, n, fed)
  PROVE  HeadType' /\ Stamps' /\ Heads' /\ HeadsAdvance
<1> USE DEF Inv, Types, storeBlockHeight, Still
<1> DEFINE new == Stamped(heightHead[i], n >= heightHead[i].value, n, fed)
<1>1. /\ heightHead \in [Levels -> HeadState(Nat)] /\ headNow \in Nat /\ diedAt \in Nat
      /\ heightHead[i] \in HeadState(Nat)
  BY Zenon DEF HeadType, ClusterType
<1>2. new \in HeadState(Nat)
  BY Zenon, <1>1, StampedType
<1>3. heightHead' = [heightHead EXCEPT ![i] = new]
  BY Zenon
<1>4. HeadType'
  BY Zenon, <1>1, <1>2, <1>3 DEF HeadType
<1>5. /\ new.at <= headNow /\ (diedAt # 0 /\ new.fed => new.at <= diedAt)
      /\ new.value <= tip[i] /\ new.value >= heightHead[i].value
  BY <1>1 DEF Stamped, HeadState, Stamps, Heads
<1>6. \A j \in Levels : heightHead'[j] = IF j = i THEN new ELSE heightHead[j]
  BY Zenon, <1>1, <1>3
<1> HIDE DEF new
<1>7. Stamps'
  BY <1>5, <1>6 DEF Stamps
<1>8. \A m : SlotOf(m)' = SlotOf(m) /\ HashOf(m)' = HashOf(m)
  BY Zenon DEF SlotOf, HashOf
<1>9. Heads'
  BY Zenon, <1>5, <1>6, <1>8 DEF Heads, IsHash
<1>10. HeadsAdvance
  BY <1>1, <1>5, <1>6 DEF HeadsAdvance, HeadType, HeadState, HashData
<1> QED BY Zenon, <1>4, <1>7, <1>9, <1>10

\* And the hash of such a block.
LEMMA StoreHash ==
  ASSUME Inv, Still,
         NEW i \in Levels, NEW h \in HashData, NEW fed \in BOOLEAN,
         IsHash(h, tip[i]), fed => diedAt = 0, storeBlockhash(i, h, fed)
  PROVE  HeadType' /\ Stamps' /\ Heads' /\ HeadsAdvance
<1> USE DEF Inv, Types, storeBlockhash, Still
<1> DEFINE new == Stamped(hashHead[i], h.slot >= hashHead[i].value.slot, h, fed)
<1>1. /\ hashHead \in [Levels -> HeadState(HashData)] /\ headNow \in Nat /\ diedAt \in Nat
      /\ hashHead[i] \in HeadState(HashData)
  BY Zenon DEF HeadType, ClusterType
<1>2. new \in HeadState(HashData)
  BY Zenon, <1>1, StampedType
<1>3. hashHead' = [hashHead EXCEPT ![i] = new]
  BY Zenon
<1>4. HeadType'
  BY Zenon, <1>1, <1>2, <1>3 DEF HeadType
<1>5. /\ new.at <= headNow /\ (diedAt # 0 /\ new.fed => new.at <= diedAt)
      /\ new.at # 0 => IsHash(new.value, tip[i])
      /\ new.value.slot >= hashHead[i].value.slot
  BY <1>1 DEF Stamped, HeadState, HashData, Stamps, Heads
<1>6. \A j \in Levels : hashHead'[j] = IF j = i THEN new ELSE hashHead[j]
  BY Zenon, <1>1, <1>3
<1> HIDE DEF new
<1>7. Stamps'
  BY <1>5, <1>6 DEF Stamps
<1>8. \A n : SlotOf(n)' = SlotOf(n) /\ HashOf(n)' = HashOf(n)
  BY Zenon DEF SlotOf, HashOf
<1>9. Heads'
  BY <1>5, <1>6, <1>8 DEF Heads, IsHash
<1>10. HeadsAdvance
  BY <1>1, <1>5, <1>6 DEF HeadsAdvance, HeadType, HeadState, HashData
<1> QED BY Zenon, <1>4, <1>7, <1>9, <1>10

\* A step that leaves the heads and the cluster alone keeps what is said of them.
LEMMA HeadsKeep ==
  ASSUME Inv, Still, UNCHANGED headVars
  PROVE  HeadType' /\ Stamps' /\ Heads' /\ HeadsAdvance
<1> USE DEF Inv, Types, headVars, Still
<1>1. HeadType' /\ Stamps'
  BY Zenon DEF HeadType, Stamps
<1>2. \A n : SlotOf(n)' = SlotOf(n) /\ HashOf(n)' = HashOf(n)
  BY Zenon DEF SlotOf, HashOf
<1>3. Heads'
  BY Zenon, <1>2 DEF Heads, IsHash
<1>4. HeadsAdvance
  BY DEF HeadsAdvance, HeadType, HeadState, HashData
<1> QED BY Zenon, <1>1, <1>3, <1>4

-----------------------------------------------------------------------------
(* The calls.                                                              *)

\* A call that does not move keeps its answer while the cluster stands still.
LEMMA AnswerKeeps ==
  ASSUME Inv, Still, NEW r \in HeadReaders,
         headPc'[r] = headPc[r], method'[r] = method[r], asked'[r] = asked[r],
         result'[r] = result[r]
  PROVE  Answer(r)'
<1>1. Answer(r)
  BY Zenon DEF Inv, Answers
<1>2. \A n : SlotOf(n)' = SlotOf(n) /\ HashOf(n)' = HashOf(n)
  BY Zenon DEF SlotOf, HashOf, Still
<1> QED BY Zenon, <1>1, <1>2 DEF Answer, Holding, IsHash, Still

\* The cluster and the feed's backlog are as before.
LEMMA ClusterKeeps ==
  ASSUME Inv, UNCHANGED <<workload, headNow, clusterVars, piping>>
  PROVE  ClusterType' /\ Chain' /\ Pending'
<1>1. \A n : SlotOf(n)' = SlotOf(n)
  BY Zenon DEF SlotOf, clusterVars
<1> QED BY Zenon, <1>1 DEF Inv, Types, ClusterType, Chain, Pending, clusterVars

\* Beginning a call keeps the invariant.
LEMMA BeginKeeps ==
  ASSUME Inv, NEW r \in HeadReaders,
         NEW m \in workload.called, NEW c \in workload.asked, NEW h \in 0 .. MaxBlocks,
         HeadBegin(r, m, c, h)
  PROVE  Inv' /\ HeadsAdvance
<1> USE DEF HeadBegin
<1>1. UNCHANGED <<workload, headNow, clusterVars, piping>> /\ UNCHANGED headVars /\ Still
  BY Zenon DEF clusterVars, Still
<1>2. cacheIndex(c) \in Levels \cup {-1} /\ m \in Methods /\ h \in Nat
  BY IndexType, WorkloadType, HeadAssumption DEF Inv, Types, CallType
<1>3. CallType'
  BY Zenon, <1>2 DEF Inv, Types, CallType, ClusterType, Places
<1>4. Clocks'
  BY <1>1 DEF Inv, Types, CallType, ClusterType, Clocks, clusterVars
<1>5. ASSUME NEW q \in HeadReaders PROVE Answer(q)'
  <2>1. CASE q # r
    BY Zenon, <1>1, <2>1, AnswerKeeps DEF Inv, Types, CallType
  <2>2. CASE q = r
    <3>1. /\ headPc'[r] = IF cacheIndex(c) < 0 THEN "fetch" ELSE "lookup"
          /\ asked'[r] = c
      BY Zenon DEF Inv, Types, CallType
    <3> QED BY <1>2, <2>2, <3>1 DEF Answer, Levels
  <2> QED BY Zenon, <2>1, <2>2
<1>6. DeadFeedExpires'
  BY Zenon, <1>1 DEF Inv, Types, CallType, DeadFeedExpires, clusterVars
<1> QED BY Zenon, <1>1, <1>3, <1>4, <1>5, <1>6, HeadsKeep, ClusterKeeps DEF Inv, Types, Answers

\* A hit takes a value that has reached the commitment, and no stale one of a
\* dead feed.
LEMMA LookupKeeps ==
  ASSUME Inv, NEW r \in HeadReaders, Lookup(r)
  PROVE  Inv' /\ HeadsAdvance
<1> DEFINE i == cacheIndex(asked[r])
<1>1. UNCHANGED <<workload, headNow, clusterVars, piping>> /\ UNCHANGED headVars /\ Still
  BY Zenon DEF clusterVars, Still, Lookup
<1>2. UNCHANGED <<method, asked, hash, headAt>> /\ headPc[r] = "lookup"
  BY Zenon DEF Lookup, headCallVars
<1>3. i \in Levels
  BY Zenon, <1>2 DEF Inv, Answers, Answer
<1>4. /\ headPc \in [HeadReaders -> Places] /\ method[r] \in Methods
      /\ result \in [HeadReaders -> Result] /\ headAt[r] \in Nat /\ diedAt \in Nat
      /\ slotHead[i] \in HeadState(Nat) /\ heightHead[i] \in HeadState(Nat)
      /\ hashHead[i] \in HeadState(HashData)
  BY Zenon, <1>3 DEF Inv, Types, CallType, HeadType, ClusterType
<1>5. ASSUME NEW q \in HeadReaders, q # r
      PROVE  headPc'[q] = headPc[q] /\ result'[q] = result[q]
  BY Zenon, <1>4, <1>5 DEF Lookup
<1>6. CASE ~Hit(r)
  <2>1. headPc' = [headPc EXCEPT ![r] = "fetch"] /\ result' = result
    BY Zenon, <1>6 DEF Lookup
  <2>2. CallType'
    BY Zenon, <1>1, <1>2, <2>1 DEF Inv, Types, CallType, Places
  <2>3. Clocks' /\ DeadFeedExpires'
    BY Zenon, <1>1, <1>2, <1>4, <2>1 DEF Inv, Clocks, DeadFeedExpires, clusterVars
  <2>4. ASSUME NEW q \in HeadReaders PROVE Answer(q)'
    <3>1. CASE q # r
      BY Zenon, <1>1, <1>2, <1>5, <3>1, AnswerKeeps
    <3>2. CASE q = r
      BY Zenon, <1>4, <2>1, <3>2 DEF Answer
    <3> QED BY Zenon, <3>1, <3>2
  <2> QED BY Zenon, <1>1, <2>2, <2>3, <2>4, HeadsKeep, ClusterKeeps DEF Inv, Types, Answers
<1>7. CASE Hit(r)
  <2> DEFINE head == Looked(r)
             counts == method[r] \in {"GetSlot", "GetBlockHeight"}
             new == [cached |-> TRUE, fed |-> head.fed,
                     number |-> IF counts THEN head.value ELSE 0,
                     hash   |-> IF counts THEN NoHash ELSE head.value]
  <2>1. headPc' = [headPc EXCEPT ![r] = "return"] /\ result' = [result EXCEPT ![r] = new]
    BY Zenon, <1>7 DEF Lookup
  <2>2. /\ method[r] = "GetSlot" => head = slotHead[i]
        /\ method[r] = "GetBlockHeight" => head = heightHead[i]
        /\ ~counts => head = hashHead[i]
        /\ method[r] = "IsBlockhashValid" => ~counts
        /\ method[r] = "GetLatestBlockhash" => ~counts
    BY Zenon DEF Looked
  <2>3. head = slotHead[i] \/ head = heightHead[i] \/ head = hashHead[i]
    BY Zenon DEF Looked
  <2>4. new \in Result
    BY Zenon, <1>4, <2>2, <2>3 DEF Result, HeadState, HashData, NoHash
  <2>5. CallType'
    BY Zenon, <1>1, <1>2, <2>1, <2>4 DEF Inv, Types, CallType, Places
  <2>6. Clocks'
    BY Zenon, <1>1, <1>2 DEF Inv, Clocks, clusterVars
  <2>7. headPc'[r] = "return" /\ result'[r] = new
    BY Zenon, <1>4, <2>1
  <2>8. head.at # 0 /\ head.at >= headAt[r] - HeadFreshFor
    BY Zenon, <1>7 DEF Hit, InWindow
  <2>9. /\ method[r] = "GetSlot" => new.number <= SlotOf(tip[i])
        /\ method[r] = "GetBlockHeight" => new.number <= tip[i]
        /\ ~counts => IsHash(new.hash, tip[i])
    BY Zenon, <1>3, <2>2, <2>8 DEF Inv, Heads
  <2>10. new.fed = head.fed /\ new.cached
    BY Zenon
  <2> HIDE DEF new, head
  <2>11. Answer(r)'
    <3>1. \A n : SlotOf(n)' = SlotOf(n) /\ HashOf(n)' = HashOf(n)
      BY Zenon, <1>1 DEF SlotOf, HashOf, Still
    <3>2. /\ method[r] = "GetSlot" => new.number <= SlotOf(tip[i])
          /\ method[r] = "GetBlockHeight" => new.number <= tip[i]
          /\ method[r] \in {"GetLatestBlockhash", "IsBlockhashValid"} => IsHash(new.hash, tip[i])
      BY Zenon, <2>2, <2>9
    <3> QED BY Zenon, <1>1, <1>2, <1>3, <2>7, <3>1, <3>2 DEF Answer, Holding, IsHash, Still
  <2>12. ASSUME NEW q \in HeadReaders PROVE Answer(q)'
    BY Zenon, <1>1, <1>2, <1>5, <2>11, AnswerKeeps
  <2>13. HeadFreshFor \in Nat
    BY Zenon, HeadAssumption
  <2>14. diedAt # 0 /\ head.fed => headAt[r] <= diedAt + HeadFreshFor
    BY <1>3, <1>4, <2>3, <2>8, <2>13 DEF Inv, Stamps, HeadState
  <2>15. DeadFeedExpires'
    BY Zenon, <1>1, <1>2, <1>5, <2>7, <2>10, <2>14 DEF Inv, DeadFeedExpires, clusterVars
  <2> QED BY Zenon, <1>1, <2>5, <2>6, <2>12, <2>15, HeadsKeep, ClusterKeeps DEF Inv, Types, Answers
<1> QED BY Zenon, <1>6, <1>7

\* The node answers as of a block that has reached the commitment.
LEMMA NodeAnswersKeeps ==
  ASSUME Inv, NEW r \in HeadReaders, HeadAnswers(r)
  PROVE  Inv' /\ HeadsAdvance
<1> DEFINE i == cacheIndex(asked[r])
           k == IF i < 0 THEN 2 ELSE i
           new(n) == [cached |-> FALSE, fed |-> FALSE,
                      number |-> IF method[r] = "GetSlot" THEN SlotOf(n)
                                 ELSE IF method[r] = "GetBlockHeight" THEN n ELSE 0,
                      hash   |-> IF method[r] = "GetLatestBlockhash" THEN HashOf(n) ELSE NoHash]
<1>1. UNCHANGED <<workload, headNow, clusterVars, piping>> /\ UNCHANGED headVars /\ Still
  BY Zenon DEF clusterVars, Still, HeadAnswers
<1>2. /\ UNCHANGED <<method, asked, hash, headAt>>
      /\ headPc' = [headPc EXCEPT ![r] =
                      IF method[r] = "IsBlockhashValid" THEN "return" ELSE "store"]
  BY Zenon DEF HeadAnswers, headCallVars
<1>3. PICK n \in 0 .. tip[k] : result' = [result EXCEPT ![r] = new(n)]
  BY Zenon DEF HeadAnswers
<1>4. /\ headPc \in [HeadReaders -> Places] /\ method[r] \in Methods
      /\ result \in [HeadReaders -> Result]
      /\ tip \in [Levels -> Nat]
  BY Zenon DEF Inv, Types, CallType, ClusterType
<1>5. k \in Levels /\ (i \in Levels => k = i)
  BY IndexType DEF Levels
<1>6. tip[k] \in 0 .. Len(chain) /\ Len(chain) \in Nat
  BY <1>4, <1>5 DEF Inv, Types, ClusterType, Chain, Levels
<1>7. n \in Nat /\ n <= tip[k] /\ n \in 0 .. Len(chain) /\ SlotOf(n) \in Nat /\ MaxAge \in Nat
  BY <1>6, SlotType, HeadAssumption DEF Inv, Types
<1>8. SlotOf(n) <= SlotOf(tip[k])
  BY Zenon, <1>6, <1>7 DEF Inv, Chain
<1>9. HashOf(n) \in HashData /\ HashOf(n).hash = n /\ NoHash \in HashData
  BY <1>7 DEF HashOf, HashData, NoHash
<1>10. new(n) \in Result
  BY Zenon, <1>7, <1>9 DEF Result
<1>11. /\ method[r] = "GetSlot" => new(n).number <= SlotOf(tip[k])
       /\ method[r] = "GetBlockHeight" => new(n).number <= tip[k]
       /\ method[r] = "GetLatestBlockhash" => IsHash(new(n).hash, tip[k])
       /\ ~new(n).cached
  BY Zenon, <1>7, <1>8, <1>9 DEF IsHash
<1> HIDE DEF new, k
<1>12. CallType'
  BY Zenon, <1>1, <1>2, <1>3, <1>10 DEF Inv, Types, CallType, Places
<1>13. ASSUME NEW q \in HeadReaders, q # r
       PROVE  headPc'[q] = headPc[q] /\ result'[q] = result[q]
  BY Zenon, <1>2, <1>3, <1>4, <1>13
<1>14. /\ result'[r] = new(n)
       /\ headPc'[r] = IF method[r] = "IsBlockhashValid" THEN "return" ELSE "store"
  BY Zenon, <1>2, <1>3, <1>4
<1>15. Answer(r)'
  <2>1. \A b : SlotOf(b)' = SlotOf(b) /\ HashOf(b)' = HashOf(b)
    BY Zenon, <1>1 DEF SlotOf, HashOf, Still
  <2> QED BY <1>1, <1>2, <1>5, <1>11, <1>14, <2>1 DEF Answer, Holding, IsHash, Still
<1>16. ASSUME NEW q \in HeadReaders PROVE Answer(q)'
  BY Zenon, <1>1, <1>2, <1>13, <1>15, AnswerKeeps
<1>17. Clocks' /\ DeadFeedExpires'
  BY <1>1, <1>2, <1>11, <1>13, <1>14 DEF Inv, Clocks, DeadFeedExpires, clusterVars
<1> QED BY Zenon, <1>1, <1>12, <1>16, <1>17, HeadsKeep, ClusterKeeps DEF Inv, Types, Answers

\* Storing the answer keeps the invariant, whatever the heads were meanwhile.
LEMMA StoreKeeps ==
  ASSUME Inv, NEW r \in HeadReaders, HeadStore(r)
  PROVE  Inv' /\ HeadsAdvance
<1> DEFINE i == cacheIndex(asked[r])
<1>1. UNCHANGED <<workload, headNow, clusterVars, piping>> /\ Still
  BY Zenon DEF clusterVars, Still, HeadStore
<1>2. /\ UNCHANGED <<method, asked, hash, headAt, result>> /\ headPc[r] = "store"
      /\ headPc' = [headPc EXCEPT ![r] = "return"]
  BY Zenon DEF HeadStore, headCallVars
<1>3. i >= 0 => i \in Levels
  BY IndexType DEF Levels
<1>4. headPc \in [HeadReaders -> Places] /\ result[r] \in Result
  BY Zenon DEF Inv, Types, CallType
<1>5. i \in Levels => Holding(r, i)
  BY Zenon, <1>2 DEF Inv, Answers, Answer
<1>6. HeadType' /\ Stamps' /\ Heads' /\ HeadsAdvance
  <2>1. CASE i < 0 /\ UNCHANGED headVars
    BY Zenon, <1>1, <2>1, HeadsKeep
  <2>2. CASE i >= 0 /\ method[r] = "GetSlot" /\ storeSlot(i, result[r].number, FALSE)
    BY Zenon, <1>1, <1>3, <1>4, <1>5, <2>2, StoreSlot DEF Holding, Result
  <2>3. CASE i >= 0 /\ method[r] = "GetBlockHeight" /\ storeBlockHeight(i, result[r].number, FALSE)
    BY Zenon, <1>1, <1>3, <1>4, <1>5, <2>3, StoreHeight DEF Holding, Result
  <2>4. CASE i >= 0 /\ method[r] = "GetLatestBlockhash" /\ storeBlockhash(i, result[r].hash, FALSE)
    BY Zenon, <1>1, <1>3, <1>4, <1>5, <2>4, StoreHash DEF Holding, Result
  <2> QED BY Zenon, <2>1, <2>2, <2>3, <2>4 DEF HeadStore
<1>7. CallType'
  BY Zenon, <1>1, <1>2 DEF Inv, Types, CallType, Places
<1>8. ~result[r].cached
  BY Zenon, <1>2 DEF Inv, Answers, Answer
<1>9. ASSUME NEW q \in HeadReaders PROVE Answer(q)'
  <2>1. CASE q # r
    BY Zenon, <1>1, <1>2, <1>4, <2>1, AnswerKeeps
  <2>2. CASE q = r
    BY Zenon, <1>2, <1>4, <1>8, <2>2 DEF Answer
  <2> QED BY Zenon, <2>1, <2>2
<1>10. Clocks' /\ DeadFeedExpires'
  BY Zenon, <1>1, <1>2, <1>4, <1>8 DEF Inv, Clocks, DeadFeedExpires, clusterVars
<1> QED BY Zenon, <1>1, <1>6, <1>7, <1>9, <1>10, ClusterKeeps DEF Inv, Types, Answers

\* Returning forgets the call.
LEMMA ReturnKeeps ==
  ASSUME Inv, NEW r \in HeadReaders, HeadReturn(r)
  PROVE  Inv' /\ HeadsAdvance
<1>1. UNCHANGED <<workload, headNow, clusterVars, piping>> /\ UNCHANGED headVars /\ Still
  BY Zenon DEF clusterVars, Still, HeadReturn
<1>2. CallType'
  BY Zenon DEF HeadReturn, Inv, Types, CallType, Places, Methods, Result, NoResult, HashData, NoHash
<1>3. Clocks' /\ DeadFeedExpires'
  BY <1>1 DEF HeadReturn, Inv, Types, CallType, ClusterType, Clocks, DeadFeedExpires, clusterVars
<1>4. ASSUME NEW q \in HeadReaders PROVE Answer(q)'
  <2>1. CASE q # r
    BY Zenon, <1>1, <2>1, AnswerKeeps DEF HeadReturn, Inv, Types, CallType
  <2>2. CASE q = r
    BY Zenon, <2>2 DEF Answer, HeadReturn, Inv, Types, CallType
  <2> QED BY Zenon, <2>1, <2>2
<1> QED BY Zenon, <1>1, <1>2, <1>3, <1>4, HeadsKeep, ClusterKeeps DEF Inv, Types, Answers

-----------------------------------------------------------------------------
(* The feed and the cluster.                                               *)

\* A step of the feed moves no call.
LEMMA CallsKeep ==
  ASSUME Inv, Still, UNCHANGED workload, UNCHANGED headReaderVars
  PROVE  CallType' /\ Clocks' /\ Answers' /\ DeadFeedExpires'
<1> USE DEF headReaderVars, headCallVars
<1>1. CallType'
  BY Zenon DEF Inv, Types, CallType
<1>2. Clocks' /\ DeadFeedExpires'
  BY Zenon DEF Inv, Clocks, DeadFeedExpires, Still
<1>3. Answers'
  BY Zenon, AnswerKeeps DEF Answers
<1> QED BY Zenon, <1>1, <1>2, <1>3

\* What remains of the backlog after an update is taken from it.
LEMMA Taken ==
  ASSUME Inv, stream # <<>>, stream' = Tail(stream),
         UNCHANGED <<workload, headNow, chain, tip, diedAt>>, piping' \in Nat,
         piping' # 0 => (workload.feed \in Levels /\ piping' <= tip[workload.feed]) /\ diedAt = 0
  PROVE  ClusterType' /\ Chain' /\ Pending'
<1>1. stream \in Seq(HeadUpdate)
  BY Zenon DEF Inv, Types, ClusterType
<1>2. /\ stream' \in Seq(HeadUpdate) /\ Len(stream') = Len(stream) - 1
      /\ \A k \in 1 .. Len(stream') : stream'[k] = stream[k + 1]
  BY <1>1
<1>3. DOMAIN stream = 1 .. Len(stream) /\ DOMAIN stream' = 1 .. Len(stream') /\ Len(stream) \in Nat
  BY <1>1, <1>2
<1>4. \A k \in DOMAIN stream' : k + 1 \in DOMAIN stream /\ stream'[k] = stream[k + 1]
  BY <1>2, <1>3
<1>5. \A n : SlotOf(n)' = SlotOf(n)
  BY Zenon DEF SlotOf
<1>6. ClusterType' /\ Chain'
  BY Zenon, <1>2, <1>5 DEF Inv, Types, ClusterType, Chain
<1>7. diedAt = 0
  BY Zenon DEF Inv, Pending
<1>8. Pending'
  BY Zenon, <1>4, <1>7 DEF Inv, Pending
<1> QED BY Zenon, <1>6, <1>8

\* The first update of a backlog: a block that its level has reached.
LEMMA First ==
  ASSUME Inv, stream # <<>>
  PROVE  /\ stream[1] \in HeadUpdate /\ diedAt = 0
         /\ stream[1].block <= tip[stream[1].level]
         /\ stream[1].kind = "meta" => stream[1].level = workload.feed
<1>1. stream \in Seq(HeadUpdate)
  BY Zenon DEF Inv, Types, ClusterType
<1>2. 1 \in DOMAIN stream
  BY <1>1
<1> QED BY <1>1, <1>2 DEF Inv, Pending

\* Pipe stores what the cluster has reached.
LEMMA PipeKeeps ==
  ASSUME Inv, PipeSlot \/ PipeHeight \/ PipeBlockhash
  PROVE  Inv' /\ HeadsAdvance
<1>1. Still /\ UNCHANGED workload /\ UNCHANGED headReaderVars
  BY Zenon DEF PipeSlot, PipeHeight, PipeBlockhash, Still, clusterVars
<1>2. /\ tip \in [Levels -> Nat] /\ Len(chain) \in Nat
      /\ \A i \in Levels : tip[i] \in 0 .. Len(chain)
  BY DEF Inv, Types, ClusterType, Chain, Levels
<1>3. CASE PipeSlot
  <2> DEFINE i == stream[1].level
             n == stream[1].block
  <2>1. stream # <<>> /\ storeSlot(i, SlotOf(n), TRUE)
    BY Zenon, <1>3 DEF PipeSlot
  <2>2. i \in Levels /\ n \in Nat /\ n <= tip[i] /\ diedAt = 0
    BY Zenon, <2>1, First DEF HeadUpdate
  <2>3. SlotOf(n) \in Nat /\ SlotOf(n) <= SlotOf(tip[i])
    <3>1. n \in 0 .. Len(chain) /\ tip[i] \in 0 .. Len(chain)
      BY <1>2, <2>2
    <3> HIDE DEF n, i
    <3> QED BY Zenon, <2>2, <3>1, SlotType DEF Inv, Types, Chain
  <2>4. HeadType' /\ Stamps' /\ Heads' /\ HeadsAdvance
    BY Zenon, <1>1, <2>1, <2>2, <2>3, StoreSlot
  <2>5. ClusterType' /\ Chain' /\ Pending'
    BY Zenon, <1>1, <1>3, <2>1, Taken DEF PipeSlot, Still
  <2> QED BY Zenon, <1>1, <2>4, <2>5, CallsKeep DEF Inv, Types
<1>4. CASE PipeHeight
  <2> DEFINE i == workload.feed
             n == stream[1].block
  <2>1. /\ stream # <<>> /\ stream[1].kind = "meta" /\ storeBlockHeight(i, n, TRUE)
        /\ piping' = n /\ stream' = Tail(stream)
    BY Zenon, <1>4 DEF PipeHeight
  <2>2. i \in Levels /\ n \in Nat /\ n <= tip[i] /\ diedAt = 0
    BY Zenon, <2>1, First DEF HeadUpdate
  <2>3. HeadType' /\ Stamps' /\ Heads' /\ HeadsAdvance
    BY Zenon, <1>1, <2>1, <2>2, StoreHeight
  <2>4. ClusterType' /\ Chain' /\ Pending'
    BY Zenon, <1>1, <2>1, <2>2, Taken DEF Still
  <2> QED BY Zenon, <1>1, <2>3, <2>4, CallsKeep DEF Inv, Types
<1>5. CASE PipeBlockhash
  <2> DEFINE i == workload.feed
  <2>1. /\ piping # 0 /\ storeBlockhash(i, HashOf(piping), TRUE)
        /\ piping' = 0 /\ UNCHANGED clusterVars
    BY Zenon, <1>5 DEF PipeBlockhash
  <2>2. i \in Levels /\ piping \in Nat /\ piping <= tip[i] /\ diedAt = 0
    BY Zenon, <2>1 DEF Inv, Types, ClusterType, Pending
  <2>3. piping \in 0 .. Len(chain) /\ SlotOf(piping) \in Nat /\ MaxAge \in Nat
    BY <1>2, <2>2, SlotType, HeadAssumption DEF Inv, Types
  <2>4. HashOf(piping) \in HashData /\ IsHash(HashOf(piping), tip[i])
    BY <2>2, <2>3 DEF HashOf, HashData, IsHash
  <2>5. HeadType' /\ Stamps' /\ Heads' /\ HeadsAdvance
    BY Zenon, <1>1, <2>1, <2>2, <2>4, StoreHash
  <2>6. \A m : SlotOf(m)' = SlotOf(m)
    BY Zenon, <1>1 DEF SlotOf, Still
  <2>7. ClusterType' /\ Chain' /\ Pending'
    BY Zenon, <1>1, <2>1, <2>6 DEF Inv, Types, ClusterType, Chain, Pending, Still, clusterVars
  <2> QED BY Zenon, <1>1, <2>5, <2>7, CallsKeep DEF Inv, Types
<1> QED BY Zenon, <1>3, <1>4, <1>5

\* The stream ends with nothing of it left to store.
LEMMA StreamEndsKeeps ==
  ASSUME Inv, StreamEnds
  PROVE  Inv' /\ HeadsAdvance
<1> USE DEF StreamEnds
<1>1. CallType' /\ HeadType' /\ ClusterType'
  BY DEF Inv, Types, CallType, HeadType, ClusterType, headReaderVars, headCallVars, headVars
<1>2. \A n : SlotOf(n)' = SlotOf(n) /\ HashOf(n)' = HashOf(n)
  BY Zenon DEF SlotOf, HashOf
<1>3. Chain' /\ Heads'
  BY Zenon, <1>2 DEF Inv, Chain, Heads, IsHash, headVars
<1>4. Pending'
  BY DEF Inv, Pending
<1>5. headNow \in Nat
  BY Zenon DEF Inv, Types, ClusterType
<1>6. Stamps' /\ Clocks'
  BY <1>5 DEF Inv, Stamps, Clocks, headVars, headReaderVars, headCallVars
<1>7. Answers'
  BY <1>2 DEF Inv, Answers, Answer, Holding, IsHash, headReaderVars, headCallVars
<1>8. DeadFeedExpires'
  <2>1. \A r \in HeadReaders : headAt[r] <= headNow + HeadFreshFor
    BY <1>5, HeadAssumption DEF Inv, Types, CallType, Clocks
  <2> QED BY Zenon, <2>1 DEF DeadFeedExpires, headReaderVars, headCallVars
<1>9. HeadsAdvance
  BY DEF Inv, Types, HeadsAdvance, HeadType, HeadState, HashData, headVars
<1> QED BY Zenon, <1>1, <1>3, <1>4, <1>6, <1>7, <1>8, <1>9 DEF Inv, Types

\* Time passes.
LEMMA TickKeeps ==
  ASSUME Inv, HeadTick
  PROVE  Inv' /\ HeadsAdvance
<1> USE DEF HeadTick
<1>0. headNow \in Nat /\ headNow' = headNow + 1
  BY Zenon DEF Inv, Types, ClusterType
<1>1. CallType' /\ HeadType' /\ ClusterType'
  BY DEF Inv, Types, CallType, HeadType, ClusterType, headReaderVars, headCallVars, headVars,
         clusterVars
<1>2. \A n : SlotOf(n)' = SlotOf(n) /\ HashOf(n)' = HashOf(n)
  BY Zenon DEF SlotOf, HashOf, clusterVars
<1>3. Chain' /\ Heads'
  BY Zenon, <1>2 DEF Inv, Chain, Heads, IsHash, headVars, clusterVars
<1>4. Pending'
  BY Zenon DEF Inv, Pending, clusterVars
<1>5. Stamps'
  BY <1>0 DEF Inv, Types, HeadType, HeadState, Stamps, headVars, clusterVars
<1>6. Clocks'
  BY <1>0 DEF Inv, Types, CallType, ClusterType, Clocks, headReaderVars, headCallVars, clusterVars
<1>7. Answers'
  BY <1>2 DEF Inv, Answers, Answer, Holding, IsHash, headReaderVars, headCallVars, clusterVars
<1>8. DeadFeedExpires'
  BY Zenon DEF Inv, DeadFeedExpires, headReaderVars, headCallVars, clusterVars
<1>9. HeadsAdvance
  BY DEF Inv, Types, HeadsAdvance, HeadType, HeadState, HashData, headVars
<1> QED BY Zenon, <1>1, <1>3, <1>4, <1>5, <1>6, <1>7, <1>8, <1>9 DEF Inv, Types

\* The chain grows: the blocks it had keep their slots.
LEMMA Grown ==
  ASSUME Inv, NEW i \in Levels, NEW gap \in 1 .. 2, Reach(i, gap)
  PROVE  /\ Chain' /\ chain' \in Seq(Nat) /\ tip' \in [Levels -> Nat]
         /\ \A n \in 0 .. Len(chain) : SlotOf(n)' = SlotOf(n) /\ HashOf(n)' = HashOf(n)
         /\ \A j \in Levels : /\ tip[j] \in 0 .. Len(chain) /\ tip[j] <= tip'[j]
                              /\ tip'[j] \in 0 .. Len(chain') /\ SlotOf(tip[j]) <= SlotOf(tip[j])'
<1>1. /\ tip' = [tip EXCEPT ![i] = @ + 1]
      /\ chain' = IF i = 0 THEN Append(chain, SlotOf(tip[0]) + gap) ELSE chain
      /\ i # 0 => tip[i] < tip[i - 1]
  BY Zenon DEF Reach
<1>2. /\ tip \in [Levels -> Nat] /\ chain \in Seq(Nat) /\ Len(chain) \in Nat
      /\ tip[0] = Len(chain) /\ tip[1] <= tip[0] /\ tip[2] <= tip[1]
  BY DEF Inv, Types, ClusterType, Chain
<1>3. SlotOf(Len(chain)) \in Nat
  BY <1>2, SlotType DEF Inv, Types
<1>4. chain' \in Seq(Nat) /\ tip' \in [Levels -> Nat]
  BY <1>1, <1>2, <1>3
<1>5. \A j \in Levels : tip'[j] = IF j = i THEN tip[j] + 1 ELSE tip[j]
  BY Zenon, <1>1, <1>2
<1>6. Len(chain') = IF i = 0 THEN Len(chain) + 1 ELSE Len(chain)
  BY <1>1, <1>2, <1>3
<1>7. \A n \in 0 .. Len(chain) : SlotOf(n)' = SlotOf(n)
  BY <1>1, <1>2, <1>3 DEF SlotOf
<1>8. ASSUME i = 0, NEW n, n = Len(chain) + 1
      PROVE  SlotOf(n)' = SlotOf(Len(chain)) + gap
  <2>1. chain'[n] = SlotOf(Len(chain)) + gap
    BY <1>1, <1>2, <1>3, <1>8
  <2> QED BY <1>2, <1>8, <2>1 DEF SlotOf
<1>9. tip'[0] = Len(chain') /\ tip'[1] <= tip'[0] /\ tip'[2] <= tip'[1]
  BY <1>1, <1>2, <1>5, <1>6 DEF Levels
<1>10. ASSUME NEW m \in 0 .. Len(chain'), NEW n \in 0 .. Len(chain'), m <= n
       PROVE  SlotOf(m)' <= SlotOf(n)'
  <2>1. CASE n <= Len(chain)
    <3>1. m \in 0 .. Len(chain) /\ n \in 0 .. Len(chain)
      BY <1>2, <1>10, <2>1
    <3> QED BY Zenon, <1>7, <1>10, <3>1 DEF Inv, Chain
  <2>2. CASE n > Len(chain)
    <3>1. i = 0 /\ n = Len(chain) + 1
      BY <1>2, <1>6, <2>2
    <3>2. SlotOf(n)' = SlotOf(Len(chain)) + gap
      BY Zenon, <1>8, <3>1
    <3>3. CASE m = n
      BY <1>3, <3>2, <3>3
    <3>4. CASE m # n
      <4>1. m \in 0 .. Len(chain)
        BY <1>2, <1>10, <3>1, <3>4
      <4>2. SlotOf(m) <= SlotOf(Len(chain)) /\ SlotOf(m)' = SlotOf(m) /\ SlotOf(m) \in Nat
        BY <1>2, <1>7, <4>1, SlotType DEF Inv, Types, Chain
      <4> QED BY <1>3, <3>2, <4>2
    <3> QED BY Zenon, <3>3, <3>4
  <2> QED BY <1>2, <1>4, <2>1, <2>2
<1>11. Chain'
  BY Zenon, <1>9, <1>10 DEF Chain
<1>12. \A n \in 0 .. Len(chain) : HashOf(n)' = HashOf(n)
  BY Zenon, <1>7 DEF HashOf
<1>13. ASSUME NEW j \in Levels
       PROVE  /\ tip[j] \in 0 .. Len(chain) /\ tip[j] <= tip'[j] /\ tip'[j] \in 0 .. Len(chain')
              /\ SlotOf(tip[j]) <= SlotOf(tip[j])'
  <2>1. tip[j] \in 0 .. Len(chain) /\ tip[j] <= tip'[j] /\ tip'[j] \in Nat
    <3>1. tip[j] \in Nat /\ tip'[j] \in Nat /\ tip'[j] = IF j = i THEN tip[j] + 1 ELSE tip[j]
      BY Zenon, <1>2, <1>4, <1>5
    <3>2. tip[0] \in Nat /\ tip[1] \in Nat /\ tip[2] \in Nat
      BY <1>2 DEF Levels
    <3>3. tip[0] <= Len(chain) /\ tip[1] <= Len(chain) /\ tip[2] <= Len(chain)
      BY <1>2, <3>2
    <3>4. j = 0 \/ j = 1 \/ j = 2
      BY DEF Levels
    <3>5. tip[j] <= Len(chain)
      BY Zenon, <3>3, <3>4
    <3> QED BY <1>2, <3>1, <3>5
  <2>2. tip'[0] \in Nat /\ tip'[1] \in Nat /\ tip'[2] \in Nat
    BY <1>4 DEF Levels
  <2>3. tip'[j] \in 0 .. Len(chain')
    BY <1>9, <2>1, <2>2 DEF Levels
  <2>4. PICK n \in 0 .. Len(chain) : n = tip[j]
    BY Zenon, <2>1
  <2>5. n \in 0 .. Len(chain') /\ n <= tip'[j]
    BY <2>1, <2>3, <2>4
  <2>6. SlotOf(n)' <= SlotOf(tip[j])'
    BY Zenon, <1>10, <2>3, <2>5
  <2> QED BY Zenon, <1>7, <2>1, <2>3, <2>4, <2>6
<1> QED BY Zenon, <1>4, <1>7, <1>11, <1>12, <1>13

\* Every element of a concatenation is one of its parts'.
LEMMA Concatenated ==
  ASSUME NEW S, NEW s \in Seq(S), NEW t \in Seq(S)
  PROVE  /\ s \o t \in Seq(S)
         /\ \A k \in DOMAIN (s \o t) : \/ \E m \in DOMAIN s : (s \o t)[k] = s[m]
                                     \/ \E m \in DOMAIN t : (s \o t)[k] = t[m]
<1>1. s \o t \in Seq(S) /\ Len(s \o t) = Len(s) + Len(t) /\ Len(s) \in Nat /\ Len(t) \in Nat
  OBVIOUS
<1>2. ASSUME NEW k \in DOMAIN (s \o t)
      PROVE  \/ \E m \in DOMAIN s : (s \o t)[k] = s[m]
             \/ \E m \in DOMAIN t : (s \o t)[k] = t[m]
  <2>1. k \in 1 .. Len(s) + Len(t)
    BY <1>1
  <2>2. CASE k <= Len(s)
    <3>1. k \in DOMAIN s /\ (s \o t)[k] = s[k]
      BY <1>1, <2>1, <2>2
    <3> QED BY Zenon, <3>1
  <2>3. CASE k > Len(s)
    <3>1. k - Len(s) \in DOMAIN t /\ (s \o t)[k] = t[k - Len(s)]
      BY <1>1, <2>1, <2>3
    <3> QED BY Zenon, <3>1
  <2> QED BY <1>1, <2>1, <2>2, <2>3
<1> QED BY Zenon, <1>1, <1>2

\* A block reaches a level; the stream, while it lives, reports it.
LEMMA ReachKeeps ==
  ASSUME Inv, NEW i \in Levels, NEW gap \in 1 .. 2, Reach(i, gap)
  PROVE  Inv' /\ HeadsAdvance
<1> DEFINE told(kind) == [level |-> i, block |-> tip[i] + 1, kind |-> kind]
           update(kind, sent) == IF sent THEN <<told(kind)>> ELSE <<>>
           a == update("slot", i \in workload.slots)
           b == update("meta", i = workload.feed)
<1>1. /\ UNCHANGED <<workload, headNow, diedAt, piping>> /\ UNCHANGED headVars
      /\ UNCHANGED headReaderVars
      /\ tip' = [tip EXCEPT ![i] = @ + 1]
      /\ stream' = IF diedAt # 0 THEN stream ELSE stream \o a \o b
  BY Zenon DEF Reach
<1>2. /\ Chain' /\ chain' \in Seq(Nat) /\ tip' \in [Levels -> Nat]
      /\ \A n \in 0 .. Len(chain) : SlotOf(n)' = SlotOf(n) /\ HashOf(n)' = HashOf(n)
      /\ \A j \in Levels : /\ tip[j] \in 0 .. Len(chain) /\ tip[j] <= tip'[j]
                           /\ tip'[j] \in 0 .. Len(chain') /\ SlotOf(tip[j]) <= SlotOf(tip[j])'
  BY Zenon, Grown
<1>3. /\ tip \in [Levels -> Nat] /\ stream \in Seq(HeadUpdate)
      /\ \A n \in 0 .. Len(chain) : SlotOf(n) \in Nat
  BY Zenon, SlotType DEF Inv, Types, ClusterType
<1>4. tip'[i] = tip[i] + 1 /\ tip[i] \in Nat
  BY Zenon, <1>1, <1>3
<1>5. Pending' /\ stream' \in Seq(HeadUpdate)
  <2> DEFINE Told(u) == /\ u \in HeadUpdate /\ u.block <= tip'[u.level]
                        /\ u.kind = "meta" => u.level = workload.feed
  <2>1. \A k \in DOMAIN stream : Told(stream[k])
    <3>1. ASSUME NEW k \in DOMAIN stream PROVE Told(stream[k])
      <4>1. stream[k] \in HeadUpdate /\ stream[k].level \in Levels /\ stream[k].block \in Nat
        <5>1. stream[k] \in HeadUpdate
          BY <1>3
        <5> QED BY Zenon, <5>1 DEF HeadUpdate
      <4>2. stream[k].block <= tip[stream[k].level]
        BY Zenon DEF Inv, Pending
      <4>3. tip[stream[k].level] <= tip'[stream[k].level]
        BY Zenon, <1>2, <4>1
      <4>4. tip[stream[k].level] \in Nat /\ tip'[stream[k].level] \in Nat
        BY Zenon, <1>2, <1>3, <4>1
      <4>5. stream[k].block <= tip'[stream[k].level]
        BY <4>1, <4>2, <4>3, <4>4
      <4> QED BY Zenon, <4>1, <4>5 DEF Inv, Pending
    <3> QED BY Zenon, <3>1
  <2>2. Told(told("slot")) /\ (i = workload.feed => Told(told("meta")))
    BY <1>4 DEF HeadUpdate
  <2>3. a \in Seq(HeadUpdate) /\ \A k \in DOMAIN a : Told(a[k])
    <3> HIDE DEF told
    <3>1. CASE i \in workload.slots
      <4>1. a = <<told("slot")>> /\ told("slot") \in HeadUpdate
        BY Zenon, <2>2, <3>1
      <4> QED BY <2>2, <4>1
    <3>2. CASE i \notin workload.slots
      <4>1. a = <<>>
        BY Zenon, <3>2
      <4> QED BY <4>1
    <3> QED BY Zenon, <3>1, <3>2
  <2>4. b \in Seq(HeadUpdate) /\ \A k \in DOMAIN b : Told(b[k])
    <3> HIDE DEF told
    <3>1. CASE i = workload.feed
      <4>1. b = <<told("meta")>> /\ told("meta") \in HeadUpdate
        BY Zenon, <2>2, <3>1
      <4> QED BY <2>2, <3>1, <4>1
    <3>2. CASE i # workload.feed
      <4>1. b = <<>>
        BY Zenon, <3>2
      <4> QED BY <4>1
    <3> QED BY Zenon, <3>1, <3>2
  <2> HIDE DEF a, b, Told
  <2>5. stream \o a \in Seq(HeadUpdate) /\ \A k \in DOMAIN (stream \o a) : Told((stream \o a)[k])
    BY <1>3, <2>1, <2>3, Concatenated
  <2>6. /\ stream \o a \o b \in Seq(HeadUpdate)
        /\ \A k \in DOMAIN (stream \o a \o b) : Told((stream \o a \o b)[k])
    BY <2>4, <2>5, Concatenated
  <2>7. stream' \in Seq(HeadUpdate) /\ \A k \in DOMAIN stream' : Told(stream'[k])
    BY Zenon, <1>1, <1>3, <2>1, <2>6
  <2>8. piping # 0 => (workload.feed \in Levels /\ piping <= tip'[workload.feed])
    <3>1. ASSUME piping # 0, workload.feed \in Levels, piping <= tip[workload.feed]
          PROVE  piping <= tip'[workload.feed]
      BY <1>2, <1>3, <3>1 DEF Inv, Types, ClusterType
    <3> QED BY Zenon, <3>1 DEF Inv, Pending
  <2>9. diedAt # 0 => (stream' = <<>> /\ piping = 0)
    BY Zenon, <1>1 DEF Inv, Pending
  <2> QED BY Zenon, <1>1, <2>7, <2>8, <2>9 DEF Pending, Told
<1>6. ClusterType' /\ HeadType' /\ CallType'
  BY <1>1, <1>2, <1>5
     DEF Inv, Types, ClusterType, HeadType, CallType, headVars, headReaderVars, headCallVars
<1>7. ASSUME NEW j \in Levels, NEW h \in HashData, IsHash(h, tip[j])
      PROVE  h.hash <= tip'[j] /\ h = HashOf(h.hash)'
  <2>1. h.hash \in 0 .. Len(chain) /\ h.hash <= tip'[j]
    <3>1. h.hash \in Nat /\ h.hash <= tip[j]
      BY Zenon, <1>7 DEF IsHash, HashData
    <3>2. tip[j] \in 0 .. Len(chain) /\ tip[j] <= tip'[j] /\ tip'[j] \in Nat
      BY Zenon, <1>2
    <3>3. Len(chain) \in Nat
      BY DEF Inv, Types, ClusterType
    <3> QED BY <3>1, <3>2, <3>3
  <2> QED BY Zenon, <1>2, <1>7, <2>1 DEF IsHash
<1>8. ASSUME NEW j \in Levels, NEW s \in Nat
      PROVE  /\ s <= SlotOf(tip[j]) => s <= SlotOf(tip[j])'
             /\ s <= tip[j] => s <= tip'[j]
  <2>1. SlotOf(tip[j]) \in Nat /\ SlotOf(tip[j]) <= SlotOf(tip[j])'
    BY Zenon, <1>2, <1>3
  <2>2. SlotOf(tip[j])' \in Nat
    <3>1. tip'[j] \in 0 .. Len(chain')
      BY Zenon, <1>2
    <3> QED BY <1>2, <3>1 DEF SlotOf
  <2>3. tip[j] \in Nat /\ tip'[j] \in Nat /\ tip[j] <= tip'[j]
    BY Zenon, <1>2, <1>3
  <2> QED BY <2>1, <2>2, <2>3
<1>9. Heads'
  BY <1>1, <1>7, <1>8 DEF Inv, Types, HeadType, HeadState, Heads, IsHash, headVars
<1>10. ASSUME NEW r \in HeadReaders, NEW j \in Levels, Holding(r, j)
       PROVE  Holding(r, j)'
  <2>1. result[r].number \in Nat /\ result[r].hash \in HashData
    BY Zenon DEF Inv, Types, CallType, Result
  <2>2. UNCHANGED <<method, result>>
    BY Zenon, <1>1 DEF headReaderVars, headCallVars
  <2> QED BY <1>7, <1>8, <1>10, <2>1, <2>2 DEF Holding, IsHash
<1>11. Answers'
  <2>1. UNCHANGED <<headPc, asked, result>>
    BY Zenon, <1>1 DEF headReaderVars, headCallVars
  <2> QED BY Zenon, <1>10, <2>1 DEF Inv, Answers, Answer
<1>12. Stamps' /\ Clocks' /\ DeadFeedExpires'
  BY Zenon, <1>1 DEF Inv, Stamps, Clocks, DeadFeedExpires, headVars, headReaderVars, headCallVars
<1>13. HeadsAdvance
  <2> HIDE DEF a, b
  <2>1. UNCHANGED <<slotHead, heightHead, hashHead>> /\ HeadType
    BY Zenon, <1>1 DEF Inv, Types, headVars
  <2> QED BY <2>1 DEF HeadsAdvance, HeadType, HeadState, HashData
<1> QED BY <1>2, <1>5, <1>6, <1>9, <1>11, <1>12, <1>13 DEF Inv, Types

\* A step that changes nothing.
LEMMA StutterKeeps ==
  ASSUME Inv, UNCHANGED headCacheVars
  PROVE  Inv' /\ HeadsAdvance
<1>1. /\ Still /\ UNCHANGED headVars /\ UNCHANGED workload /\ UNCHANGED headReaderVars
      /\ UNCHANGED <<workload, headNow, clusterVars, piping>>
  BY Zenon DEF headCacheVars, Still, clusterVars
<1> QED BY Zenon, <1>1, HeadsKeep, ClusterKeeps, CallsKeep DEF Inv, Types

-----------------------------------------------------------------------------
\* Every step keeps the invariant, and no head goes back in it.
LEMMA InvNext == ASSUME Inv, [HeadNext]_headCacheVars PROVE Inv' /\ HeadsAdvance
<1>1. CASE \E r \in HeadReaders :
             \/ \E m \in workload.called, c \in workload.asked, h \in 0 .. MaxBlocks :
                  HeadBegin(r, m, c, h)
             \/ Lookup(r) \/ HeadAnswers(r) \/ HeadStore(r) \/ HeadReturn(r)
  BY Zenon, <1>1, BeginKeeps, LookupKeeps, NodeAnswersKeeps, StoreKeeps, ReturnKeeps
<1>2. CASE PipeSlot \/ PipeHeight \/ PipeBlockhash
  BY Zenon, <1>2, PipeKeeps
<1>3. CASE StreamEnds
  BY Zenon, <1>3, StreamEndsKeeps
<1>4. CASE HeadTick
  BY Zenon, <1>4, TickKeeps
<1>5. CASE \E i \in Levels, gap \in 1 .. 2 : Reach(i, gap)
  BY Zenon, <1>5, ReachKeeps
<1>6. CASE UNCHANGED headCacheVars
  BY Zenon, <1>6, StutterKeeps
<1> QED BY Zenon, <1>1, <1>2, <1>3, <1>4, <1>5, <1>6 DEF HeadNext

\* The invariant of the chain heads, for any readers, workloads and bounds.
THEOREM Invariance == HeadSpec => []Inv
<1>1. HeadInit => Inv
  BY Zenon, InvInit
<1>2. Inv /\ [HeadNext]_headCacheVars => Inv'
  BY Zenon, InvNext
<1> QED BY <1>1, <1>2, PTL DEF HeadSpec

\* storeSlot, storeBlockHeight and storeBlockhash (src/rpc/cache.go) let no head
\* go back, whichever of the feed and the calls store, and in whatever order.
THEOREM HeadsNeverRegress == HeadSpec => HeadNeverRegresses
<1>1. Inv /\ [HeadNext]_headCacheVars => [HeadsAdvance]_headCacheVars
  BY Zenon, InvNext
<1> QED BY <1>1, Invariance, PTL DEF HeadSpec, HeadNeverRegresses

\* Once the feed is dead nothing it wrote is served beyond HeadFreshFor.
THEOREM DeadFeedIsForgotten == HeadSpec => []DeadFeedExpires
<1>1. Inv => DeadFeedExpires
  BY Zenon DEF Inv
<1> QED BY <1>1, Invariance, PTL

\* The types of the model, its bound on the tips included.
LEMMA TypesHold == ASSUME Inv PROVE HeadTypeOK
<1>1. tip \in [Levels -> 0 .. Len(chain)]
  BY DEF Inv, Types, ClusterType, Chain, Levels
<1>2. \A r \in HeadReaders : headPc[r] = "lookup" => cacheIndex(asked[r]) \in Levels
  BY Zenon DEF Inv, Answers, Answer
<1> QED BY <1>1, <1>2 DEF Inv, Types, ClusterType, HeadType, CallType, HeadTypeOK, Places, Result

\* What the cache serves for a commitment has reached it.
THEOREM ServedIsReached == HeadSpec => []ServedReachedCommitment
<1>1. ASSUME Inv PROVE ServedReachedCommitment
  <2>1. ASSUME NEW r \in HeadReaders, headPc[r] = "return", result[r].cached
        PROVE  LET n == tip[IF asked[r] = Unset THEN 2 ELSE cacheIndex(asked[r])]
                   h == result[r].hash
               IN  /\ method[r] = "GetSlot" => result[r].number <= SlotOf(n)
                   /\ method[r] = "GetBlockHeight" => result[r].number <= n
                   /\ method[r] \in {"GetLatestBlockhash", "IsBlockhashValid"} =>
                        h.hash <= n /\ h = HashOf(h.hash)
    <3>1. Holding(r, cacheIndex(asked[r]))
      BY Zenon, <1>1, <2>1 DEF Inv, Answers, Answer
    <3>2. (IF asked[r] = Unset THEN 2 ELSE cacheIndex(asked[r])) = cacheIndex(asked[r])
      BY Zenon DEF cacheIndex, Unset
    <3> QED BY Zenon, <2>1, <3>1, <3>2 DEF Holding, IsHash
  <2> QED BY <1>1, <2>1, TypesHold DEF ServedReachedCommitment
<1>2. Inv => ServedReachedCommitment
  BY Zenon, <1>1
<1> QED BY <1>2, Invariance, PTL
=============================================================================
