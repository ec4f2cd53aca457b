------------------------- MODULE AccountCacheProofs -------------------------
(***************************************************************************)
(* Proofs about AccountCache for any keys, readers, batches, windows and   *)
(* bounds: entries only improve, a streamed entry is current once the feed *)
(* is drained, and a batch is answered with states of its accounts.        *)
(***************************************************************************)
EXTENDS AccountCache, TLAPS

\* The row of an account in the ledger, read at a slot.
Ver(row, s) == IF s = 0 THEN 0 ELSE row[s]

\* What an account holds was written no later, and nothing wrote it since.
GoodRow(row) ==
  \A s \in 0 .. Len(row) :
    /\ Ver(row, s) \in 0 .. s
    /\ \A t \in 0 .. s :
         /\ Ver(row, t) <= Ver(row, s)
         /\ Ver(row, s) <= t => Ver(row, t) = Ver(row, s)

\* An entry holds the account as of its slot.
EntryOf(e, row) == e.slot \in 0 .. Len(row) /\ e.data = Ver(row, e.slot)

\* The types, in parts that are about one actor each.
LedgerType == now \in Nat /\ ledger \in [Keys -> Seq(Nat)] /\ feed \in Seq(Update)
Rows == \A k \in Keys : GoodRow(ledger[k])

Pending(k) == \E j \in DOMAIN feed : feed[j].key = k /\ feed[j].slot = Current(k)
\* An update still to come is a write of the ledger, and the last one of its
\* account is among those that come with it or after it.
Backlog ==
  \A i \in DOMAIN feed :
    /\ feed[i].slot \in 1 .. Top(feed[i].key)
    /\ Version(feed[i].key, feed[i].slot) = feed[i].slot
    /\ \E j \in DOMAIN feed : /\ j >= i /\ feed[j].key = feed[i].key
                              /\ feed[j].slot = Current(feed[i].key)

CacheType ==
  /\ cache \in 0 .. gens /\ gens \in 0 .. MaxGen
  /\ heap \in Seq(Entry)
  /\ table \in [Gens -> [Keys -> DOMAIN heap \cup {None}]]
\* A table's entry is of its account and of no other place; a cache has none
\* before it is created.
Table ==
  \A g \in Gens, k \in Keys : table[g][k] # None =>
    /\ g <= gens
    /\ EntryOf(heap[table[g][k]], ledger[k])
    /\ \A h \in Gens, l \in Keys : table[h][l] = table[g][k] => h = g /\ l = k
\* A streamed entry of the current cache is current, or the write it lacks is
\* still to come.
Streamed ==
  \A k \in Keys : cache # 0 /\ table[cache][k] # None /\ heap[table[cache][k]].streamed =>
    Current(k) <= heap[table[cache][k]].slot \/ Pending(k)

CallType ==
  /\ pc \in [Readers -> {"idle", "get", "check", "serve", "fetch", "store", "return"}]
  /\ mode \in [Readers -> {"info", "immutable", "multi"}]
  /\ gen \in [Readers -> Nat]
  /\ at \in [Readers -> Nat]
  /\ want \in [Readers -> Seq(Keys)]
  /\ pos \in [Readers -> Nat]
  /\ held \in [Readers -> DOMAIN heap \cup {None}]
  /\ out = [r \in Readers |-> out[r]]
  /\ \A r \in Readers : out[r] \in [DOMAIN want[r] -> Nat \cup {None}]
  /\ misses \in [Readers -> Seq(Keys)]
  /\ answer \in [Readers -> [slot : Nat, data : [Keys -> Nat]]]

Looping(r) == pc[r] \in {"get", "check", "serve"}
Missing(r, k) == \E j \in DOMAIN misses[r] : misses[r][j] = k
\* Where a call is.
Place(r) ==
  /\ gen[r] <= gens
  /\ pc[r] \in {"get", "check", "serve", "fetch", "store"} => gen[r] \in Gens
  /\ Looping(r) => pos[r] \in DOMAIN want[r]
  /\ pc[r] \in {"fetch", "store"} => misses[r] # <<>>
  /\ pc[r] = "return" => misses[r] = <<>>
\* The entry a lookup points to is of the key it is at, and no other's.
Pointer(r) ==
  /\ pc[r] = "serve" => held[r] # None
  /\ held[r] # None =>
       /\ Looping(r)
       /\ EntryOf(heap[held[r]], ledger[want[r][pos[r]]])
       /\ \A g \in Gens, k \in Keys : table[g][k] = held[r] => k = want[r][pos[r]]
\* The node answered as of one slot.
Answered(r) ==
  pc[r] = "store" => \A k \in Keys : /\ answer[r].slot \in 0 .. Top(k)
                                     /\ answer[r].data[k] = Version(k, answer[r].slot)
\* A value found is a state of the account; a position without one is ahead of
\* the loop or among the misses.
Found(r) ==
  \A i \in DOMAIN want[r] :
    /\ out[r][i] # None => \E s \in 0 .. Top(want[r][i]) : out[r][i] = Version(want[r][i], s)
    /\ out[r][i] = None => (Looping(r) /\ i >= pos[r]) \/ Missing(r, want[r][i])

Reading(r) == Place(r) /\ Pointer(r) /\ Answered(r) /\ Found(r)
Readings == \A r \in Readers : Reading(r)
\* The inductive invariant.
Inv == LedgerType /\ Rows /\ Backlog /\ CacheType /\ Table /\ Streamed /\ CallType /\ Readings

-----------------------------------------------------------------------------
(* The ledger.                                                             *)

\* Version and Top, row by row.
LEMMA VersionIsVer ==
  ASSUME NEW k, NEW s
  PROVE  Version(k, s) = Ver(ledger[k], s) /\ Top(k) = Len(ledger[k])
  BY Zenon DEF Version, Ver, Top

\* A value read from a row is a number.
LEMMA VerType ==
  ASSUME NEW row \in Seq(Nat), NEW s \in 0 .. Len(row)
  PROVE  Ver(row, s) \in Nat
  BY DEF Ver

\* Appending to a row changes nothing that was there.
LEMMA VerAppend ==
  ASSUME NEW row \in Seq(Nat), NEW v \in Nat
  PROVE  /\ Append(row, v) \in Seq(Nat) /\ Len(Append(row, v)) = Len(row) + 1
         /\ \A s \in 0 .. Len(row) : Ver(Append(row, v), s) = Ver(row, s)
         /\ Ver(Append(row, v), Len(row) + 1) = v
<1>1. Append(row, v) \in Seq(Nat) /\ Len(Append(row, v)) = Len(row) + 1 /\ Len(row) \in Nat
  OBVIOUS
<1>2. \A s \in 1 .. Len(row) : Append(row, v)[s] = row[s]
  OBVIOUS
<1>3. Append(row, v)[Len(row) + 1] = v
  OBVIOUS
<1> QED BY <1>1, <1>2, <1>3 DEF Ver

\* The next slot writes the account or leaves it.
LEMMA RowGrows ==
  ASSUME NEW row \in Seq(Nat), GoodRow(row),
         NEW v, v = Len(row) + 1 \/ v = Ver(row, Len(row))
  PROVE  v \in Nat /\ GoodRow(Append(row, v))
<1> DEFINE n == Len(row)
           new == Append(row, v)
<1>1. n \in Nat /\ v \in 0 .. n + 1
  BY DEF GoodRow
<1>2. /\ Len(new) = n + 1 /\ Ver(new, n + 1) = v
      /\ \A s \in 0 .. n : Ver(new, s) = Ver(row, s)
  BY <1>1, VerAppend
<1> HIDE DEF new, n
<1>3. ASSUME NEW s \in 0 .. n + 1, NEW t \in 0 .. s
      PROVE  /\ Ver(new, s) \in 0 .. s /\ Ver(new, t) <= Ver(new, s)
             /\ Ver(new, s) <= t => Ver(new, t) = Ver(new, s)
  <2>1. CASE s <= n
    <3>1. s \in 0 .. n /\ t \in 0 .. n
      BY <1>1, <2>1
    <3> QED BY Zenon, <1>2, <3>1 DEF GoodRow, n
  <2>2. CASE s = n + 1 /\ t = n + 1
    BY <1>1, <1>2, <2>2
  <2>3. CASE s = n + 1 /\ t # n + 1
    <3>1. t \in 0 .. n /\ n \in 0 .. n
      BY <1>1, <2>3
    <3>2. /\ Ver(row, n) \in 0 .. n /\ Ver(row, t) <= Ver(row, n) /\ Ver(row, t) \in 0 .. t
          /\ Ver(row, n) <= t => Ver(row, t) = Ver(row, n)
      BY Zenon, <1>1, <3>1 DEF GoodRow, n
    <3>3. Ver(new, t) = Ver(row, t) /\ Ver(new, s) = v
      BY Zenon, <1>2, <2>3, <3>1
    <3>4. v = n + 1 \/ v = Ver(row, n)
      BY Zenon DEF n
    <3> QED BY <1>1, <2>3, <3>1, <3>2, <3>3, <3>4
  <2> QED BY <1>1, <2>1, <2>2, <2>3
<1>4. GoodRow(new)
  BY <1>2, <1>3 DEF GoodRow
<1> QED BY <1>1, <1>4 DEF new

\* An entry stays one of its account, and a state of the account a state.
LEMMA EntryStays ==
  ASSUME NEW row \in Seq(Nat), NEW v \in Nat, NEW e, EntryOf(e, row)
  PROVE  EntryOf(e, Append(row, v))
  BY VerAppend DEF EntryOf

-----------------------------------------------------------------------------
\* No positions, no values.
LEMMA EmptyOut == ASSUME NEW S PROVE <<>> \in [DOMAIN <<>> -> S]
  OBVIOUS

\* The invariant holds at the start.
LEMMA InvInit == Init => Inv
<1> SUFFICES ASSUME Init PROVE Inv
  BY Zenon
<1>1. LedgerType
  BY DEF Init, LedgerType
<1>2. Rows
  <2>1. \A k \in Keys : ledger[k] = <<>>
    BY Zenon DEF Init
  <2>2. GoodRow(<<>>)
    BY DEF GoodRow, Ver
  <2> QED BY Zenon, <2>1, <2>2 DEF Rows
<1>3. Backlog
  BY DEF Init, Backlog
<1>4. CacheType
  BY CacheAssumption DEF Init, CacheType
<1>5. Table /\ Streamed
  BY Zenon DEF Init, Table, Streamed
<1>6. CallType
  <2>1. out = [r \in Readers |-> out[r]] /\ \A r \in Readers : out[r] = <<>> /\ want[r] = <<>>
    BY Zenon DEF Init
  <2>2. \A r \in Readers : out[r] \in [DOMAIN want[r] -> Nat \cup {None}]
    BY Zenon, <2>1, EmptyOut
  <2> QED BY <2>1, <2>2 DEF Init, CallType, NoAnswer
<1>7. Readings
  BY DEF Init, Readings, Reading, Place, Pointer, Answered, Found, Looping
<1> QED BY Zenon, <1>1, <1>2, <1>3, <1>4, <1>5, <1>6, <1>7 DEF Inv

-----------------------------------------------------------------------------
(* accountCache.set.                                                       *)

\* Merging keeps an entry one of its account, and improves it.
LEMMA MergedImproves ==
  ASSUME NEW e \in Entry, NEW row \in Seq(Nat), GoodRow(row), EntryOf(e, row),
         NEW slot \in 0 .. Len(row), NEW streamed \in BOOLEAN, NEW immutable \in BOOLEAN,
         now \in Nat
  PROVE  LET m == Merged(e, Ver(row, slot), slot, streamed, immutable)
         IN  /\ m \in Entry /\ EntryOf(m, row)
             /\ m.slot >= e.slot /\ m.slot >= slot /\ m.data >= e.data
             /\ m.streamed = (e.streamed \/ streamed)
             /\ m.immutable = (e.immutable \/ immutable)
<1> DEFINE m == Merged(e, Ver(row, slot), slot, streamed, immutable)
<1>1. e.slot \in Nat /\ e.data \in Nat /\ slot \in Nat /\ Len(row) \in Nat /\ Ver(row, slot) \in Nat
  BY VerType DEF Entry
<1>2. /\ m.slot = IF slot >= e.slot THEN slot ELSE e.slot
      /\ m.data = IF slot >= e.slot THEN Ver(row, slot) ELSE e.data
      /\ m.streamed = (e.streamed \/ streamed) /\ m.immutable = (e.immutable \/ immutable)
  BY Zenon DEF Merged, Entry
<1>3. m \in Entry
  BY Zenon, <1>1 DEF Merged, Entry
<1>4. slot >= e.slot => Ver(row, slot) >= Ver(row, e.slot)
  BY <1>1 DEF EntryOf, GoodRow
<1> HIDE DEF m
<1>5. EntryOf(m, row) /\ m.slot >= e.slot /\ m.slot >= slot /\ m.data >= e.data
  BY <1>1, <1>2, <1>4 DEF EntryOf
<1> QED BY Zenon, <1>2, <1>3, <1>5 DEF m

\* A pointer to an entry stays one to an entry of the same account.
Kept(e, l) ==
  /\ EntryOf(heap'[e], ledger[l])
  /\ \A h \in Gens, q \in Keys : table'[h][q] = e => q = l

\* What a set leaves: every table sound, no entry worse, and the one it wrote
\* at least as new as what was written.
AfterSet(g, k, slot, streamed) ==
  /\ CacheType' /\ Table' /\ EntriesImprove
  /\ DOMAIN heap \subseteq DOMAIN heap'
  /\ \A e \in DOMAIN heap, l \in Keys :
       /\ EntryOf(heap[e], ledger[l])
       /\ \A h \in Gens, q \in Keys : table[h][q] = e => q = l
       => Kept(e, l)
  /\ \A h \in Gens, l \in Keys : table'[h][l] # None =>
       IF h = g /\ l = k
       THEN /\ heap'[table'[h][l]].slot >= slot
            /\ heap'[table'[h][l]].streamed =>
                 streamed \/ (/\ table[h][l] # None /\ heap[table[h][l]].streamed
                              /\ heap'[table'[h][l]].slot >= heap[table[h][l]].slot)
       ELSE table'[h][l] = table[h][l] /\ heap'[table'[h][l]] = heap[table[h][l]]

\* A set of what the account held at a slot leaves that.
LEMMA SetKeeps ==
  ASSUME Inv, UNCHANGED <<now, ledger, cache, gens>>,
         NEW g \in Gens, NEW k \in Keys, g <= gens, NEW slot \in 0 .. Top(k),
         NEW streamed \in BOOLEAN, NEW immutable \in BOOLEAN,
         set(g, k, Version(k, slot), slot, streamed, immutable)
  PROVE  AfterSet(g, k, slot, streamed)
<1> DEFINE row == ledger[k]
           data == Version(k, slot)
           new == [data |-> data, slot |-> slot, streamed |-> streamed,
                   immutable |-> immutable, cachedAt |-> now, lastRead |-> now]
           old == table[g][k]
<1>1. row \in Seq(Nat) /\ GoodRow(row) /\ now \in Nat
  BY Zenon DEF Inv, LedgerType, Rows
<1>2. slot \in 0 .. Len(row) /\ data = Ver(row, slot) /\ data \in Nat /\ slot \in Nat
  BY <1>1, VersionIsVer, VerType
<1>3. /\ heap \in Seq(Entry) /\ table \in [Gens -> [Keys -> DOMAIN heap \cup {None}]]
      /\ DOMAIN heap = 1 .. Len(heap) /\ Len(heap) \in Nat
  BY DEF Inv, CacheType
<1>4. /\ \A h \in Gens, l \in Keys : table[h][l] \in DOMAIN heap \cup {None}
      /\ None \notin Nat /\ None \notin DOMAIN heap
  BY <1>3, CacheAssumption
<1>5. \A h \in Gens, l \in Keys : table[h][l] # None =>
        /\ table[h][l] \in DOMAIN heap
        /\ h <= gens /\ EntryOf(heap[table[h][l]], ledger[l])
        /\ \A h2 \in Gens, l2 \in Keys : table[h2][l2] = table[h][l] => h2 = h /\ l2 = l
  BY Zenon, <1>4 DEF Inv, Table
<1>6. \A e \in DOMAIN heap : heap[e] \in Entry
  BY <1>3
<1>7. CASE old = None
  <2> DEFINE n == Len(heap) + 1
  <2>1. heap' = Append(heap, new) /\ table' = [table EXCEPT ![g][k] = n]
    BY Zenon, <1>7 DEF set
  <2>2. new \in Entry /\ EntryOf(new, row) /\ new.slot = slot /\ new.streamed = streamed
    BY Zenon, <1>1, <1>2 DEF Entry, EntryOf
  <2> HIDE DEF new
  <2>3. /\ heap' \in Seq(Entry) /\ DOMAIN heap' = 1 .. n /\ heap'[n] = new
        /\ \A e \in DOMAIN heap : e \in DOMAIN heap' /\ heap'[e] = heap[e] /\ e # n
        /\ n \in DOMAIN heap' /\ n # None
    BY <1>3, <1>4, <2>1, <2>2
  <2>4. \A h \in Gens, l \in Keys : table'[h][l] = IF h = g /\ l = k THEN n ELSE table[h][l]
    BY Zenon, <1>3, <2>1
  <2>5. table' \in [Gens -> [Keys -> DOMAIN heap' \cup {None}]]
    BY <1>3, <2>1, <2>3
  <2> HIDE DEF n
  <2>6. CacheType'
    BY Zenon, <2>3, <2>5 DEF Inv, CacheType
  <2>7. Table'
    <3>1. \A h \in Gens, l \in Keys : table'[h][l] # None =>
            h <= gens /\ EntryOf(heap'[table'[h][l]], ledger[l])
      BY <1>5, <2>2, <2>3, <2>4
    <3>2. \A h \in Gens, l \in Keys : table[h][l] # n
      BY Zenon, <1>4, <2>3
    <3>3. \A h \in Gens, l \in Keys : table'[h][l] # None =>
            \A h2 \in Gens, l2 \in Keys : table'[h2][l2] = table'[h][l] => h2 = h /\ l2 = l
      BY <1>5, <2>4, <3>2
    <3> QED BY Zenon, <3>1, <3>3 DEF Table
  <2>8. EntriesImprove
    BY SMTT(30), <1>6, <2>3 DEF EntriesImprove, Entry
  <2>9. ASSUME NEW e \in DOMAIN heap, NEW l \in Keys, EntryOf(heap[e], ledger[l]),
               \A h \in Gens, q \in Keys : table[h][q] = e => q = l
        PROVE  Kept(e, l)
    BY <2>3, <2>4, <2>9 DEF Kept
  <2>10. slot >= slot
    BY <1>2
  <2>11. \A h \in Gens, l \in Keys : table'[h][l] # None =>
              IF h = g /\ l = k
              THEN heap'[table'[h][l]].slot >= slot /\ (heap'[table'[h][l]].streamed => streamed)
              ELSE table'[h][l] = table[h][l] /\ heap'[table'[h][l]] = heap[table[h][l]]
    BY <1>5, <2>2, <2>3, <2>4, <2>10
  <2> QED BY <2>3, <2>6, <2>7, <2>8, <2>9, <2>11 DEF AfterSet
<1>8. CASE old # None
  <2> DEFINE m == Merged(heap[old], data, slot, streamed, immutable)
  <2>1. heap' = [heap EXCEPT ![old] = m] /\ table' = table
    BY Zenon, <1>8 DEF set
  <2>2. old \in DOMAIN heap /\ heap[old] \in Entry /\ EntryOf(heap[old], row)
    BY Zenon, <1>5, <1>6, <1>8
  <2>3. /\ m \in Entry /\ EntryOf(m, row)
        /\ m.slot >= heap[old].slot /\ m.slot >= slot /\ m.data >= heap[old].data
        /\ m.streamed = (heap[old].streamed \/ streamed)
        /\ m.immutable = (heap[old].immutable \/ immutable)
    BY <1>1, <1>2, <2>2, MergedImproves
  <2> HIDE DEF m
  <2>4. /\ heap' \in Seq(Entry) /\ DOMAIN heap' = DOMAIN heap
        /\ \A e \in DOMAIN heap : heap'[e] = IF e = old THEN m ELSE heap[e]
    BY <1>3, <2>1, <2>2, <2>3
  <2> HIDE DEF old
  <2>5. CacheType'
    BY Zenon, <1>3, <2>1, <2>4 DEF Inv, CacheType
  <2>6. \A h \in Gens, l \in Keys : table[h][l] = old => h = g /\ l = k
    BY Zenon, <1>5, <1>8 DEF old
  <2>7. Table'
    BY <1>5, <2>1, <2>3, <2>4, <2>6 DEF Table
  <2>8. EntriesImprove
    <3>1. ASSUME NEW e \in DOMAIN heap
          PROVE  /\ heap'[e].slot >= heap[e].slot /\ heap'[e].data >= heap[e].data
                 /\ heap[e].streamed => heap'[e].streamed
                 /\ heap[e].immutable => heap'[e].immutable
      <4>1. CASE e = old
        BY Zenon, <2>3, <2>4, <4>1
      <4>2. CASE e # old
        <5>1. heap'[e] = heap[e] /\ heap[e] \in Entry
          BY Zenon, <1>6, <2>4, <4>2
        <5>2. heap[e].slot \in Nat /\ heap[e].data \in Nat
          BY Zenon, <5>1 DEF Entry
        <5>3. heap[e].slot >= heap[e].slot /\ heap[e].data >= heap[e].data
          BY SMT, <5>2
        <5> QED BY Zenon, <5>1, <5>3
      <4> QED BY Zenon, <4>1, <4>2
    <3> QED BY Zenon, <3>1 DEF EntriesImprove
  <2>9. ASSUME NEW e \in DOMAIN heap, NEW l \in Keys, EntryOf(heap[e], ledger[l]),
               \A h \in Gens, q \in Keys : table[h][q] = e => q = l
        PROVE  Kept(e, l)
    <3>1. e = old => l = k
      BY Zenon, <2>9 DEF old
    <3> QED BY Zenon, <2>1, <2>3, <2>4, <2>9, <3>1 DEF Kept
  <2>10. ASSUME NEW h \in Gens, NEW l \in Keys, table'[h][l] # None
         PROVE  IF h = g /\ l = k
                THEN /\ heap'[table'[h][l]].slot >= slot
                     /\ heap'[table'[h][l]].streamed =>
                          streamed \/ (/\ table[h][l] # None /\ heap[table[h][l]].streamed
                                       /\ heap'[table'[h][l]].slot >= heap[table[h][l]].slot)
                ELSE table'[h][l] = table[h][l] /\ heap'[table'[h][l]] = heap[table[h][l]]
    <3>1. table'[h][l] = table[h][l] /\ table[h][l] \in DOMAIN heap
      BY Zenon, <1>5, <2>1, <2>10
    <3>2. CASE h = g /\ l = k
      <4>1. table[h][l] = old /\ heap'[old] = m
        BY Zenon, <2>2, <2>4, <3>2 DEF old
      <4> QED BY Zenon, <2>3, <2>10, <3>1, <3>2, <4>1
    <3>3. CASE ~(h = g /\ l = k)
      BY Zenon, <2>4, <2>6, <3>1, <3>3
    <3> QED BY Zenon, <3>2, <3>3
  <2> QED BY Zenon, <2>4, <2>5, <2>7, <2>8, <2>9, <2>10 DEF AfterSet
<1> QED BY Zenon, <1>7, <1>8

-----------------------------------------------------------------------------
(* What a step leaves alone.                                               *)

\* The ledger and its feed.
LEMMA LedgerKeeps ==
  ASSUME Inv, UNCHANGED <<now, ledger, feed>>
  PROVE  LedgerType' /\ Rows' /\ Backlog'
<1>1. LedgerType' /\ Rows'
  BY Zenon DEF Inv, LedgerType, Rows
<1>2. Backlog'
  BY Zenon DEF Inv, Backlog, Version, Current, Top
<1> QED BY Zenon, <1>1, <1>2

\* The cache.
LEMMA CacheKeeps ==
  ASSUME Inv, UNCHANGED <<ledger, feed, cache, gens, table, heap>>
  PROVE  CacheType' /\ Table' /\ Streamed' /\ EntriesImprove
<1>1. CacheType' /\ Table'
  BY DEF Inv, CacheType, Table
<1>2. Streamed'
  BY DEF Inv, Streamed, Pending, Current, Version, Top
<1>3. \A e \in DOMAIN heap : heap[e] \in Entry
  BY DEF Inv, CacheType
<1>4. EntriesImprove
  BY <1>3 DEF EntriesImprove, Entry
<1> QED BY Zenon, <1>1, <1>2, <1>4

\* A call does not move.
Same(r) ==
  /\ pc'[r] = pc[r] /\ gen'[r] = gen[r] /\ want'[r] = want[r] /\ pos'[r] = pos[r]
  /\ held'[r] = held[r] /\ out'[r] = out[r] /\ misses'[r] = misses[r]
  /\ answer'[r] = answer[r]

\* A call that does not move, while the ledger stands still and its pointer
\* stays one to its account.
LEMMA ReadingKeeps ==
  ASSUME Inv, NEW r \in Readers, Same(r), UNCHANGED ledger, gens' \in Nat, gens <= gens',
         held[r] # None => Kept(held[r], want[r][pos[r]])
  PROVE  Reading(r)'
<1>1. Place(r) /\ Pointer(r) /\ Answered(r) /\ Found(r)
  BY Zenon DEF Inv, Readings, Reading
<1>2. Place(r)'
  BY SMTT(30), <1>1 DEF Inv, CacheType, CallType, Place, Looping, Same
<1>3. Pointer(r)'
  BY Zenon, <1>1 DEF Pointer, Looping, Same, Kept
<1>4. Answered(r)'
  BY Zenon, <1>1 DEF Answered, Same, Version, Top
<1>5. Found(r)'
  BY <1>1 DEF Found, Same, Looping, Missing, Version, Top
<1> QED BY Zenon, <1>2, <1>3, <1>4, <1>5 DEF Reading

\* The same, when no entry and no table changes.
LEMMA ReadingStays ==
  ASSUME Inv, NEW r \in Readers, Same(r), UNCHANGED <<ledger, gens, table, heap>>
  PROVE  Reading(r)'
<1>1. gens \in Nat /\ gens <= gens
  BY DEF Inv, CacheType
<1>2. held[r] # None => Kept(held[r], want[r][pos[r]])
  BY Zenon DEF Inv, Readings, Reading, Pointer, Kept
<1> QED BY Zenon, <1>1, <1>2, ReadingKeeps

\* A step of one call that touches nothing but its own variables.
LEMMA OwnStep ==
  ASSUME Inv, NEW r \in Readers, UNCHANGED <<now, feedVars, cacheVars>>,
         CallType', Reading(r)', \A q \in Readers : q # r => Same(q)
  PROVE  Inv' /\ EntriesImprove
<1>1. UNCHANGED <<now, ledger, feed, cache, gens, table, heap>>
  BY Zenon DEF feedVars, cacheVars
<1>2. \A q \in Readers : Reading(q)'
  BY Zenon, <1>1, ReadingStays
<1>3. Readings'
  BY Zenon, <1>2 DEF Readings
<1> QED BY Zenon, <1>1, <1>3, LedgerKeeps, CacheKeeps DEF Inv

-----------------------------------------------------------------------------
(* The calls.                                                              *)

\* The values found have the shape of the keys.
LEMMA OutKeeps ==
  ASSUME CallType, NEW r \in Readers, \A q \in Readers : q # r => Same(q),
         out'[r] \in [DOMAIN want'[r] -> Nat \cup {None}]
  PROVE  \A q \in Readers : out'[q] \in [DOMAIN want'[q] -> Nat \cup {None}]
<1>1. ASSUME NEW q \in Readers, q # r
      PROVE  out'[q] \in [DOMAIN want'[q] -> Nat \cup {None}]
  <2>1. out'[q] = out[q] /\ want'[q] = want[q]
    BY Zenon, <1>1 DEF Same
  <2>2. out[q] \in [DOMAIN want[q] -> Nat \cup {None}]
    BY Zenon DEF CallType
  <2> QED BY Zenon, <2>1, <2>2
<1> QED BY Zenon, <1>1

\* A call has keys, all of them accounts.
LEMMA CallKeys ==
  ASSUME NEW m, NEW keys \in Calls(m)
  PROVE  keys \in Seq(Keys) /\ keys # <<>> /\ 1 \in DOMAIN keys
<1>1. CASE m = "multi"
  <2>1. keys \in Batches
    BY Zenon, <1>1 DEF Calls
  <2> QED BY <2>1, CacheAssumption
<1>2. CASE m # "multi"
  <2>1. PICK k \in Keys : keys = <<k>>
    BY Zenon, <1>2 DEF Calls
  <2> QED BY <2>1
<1> QED BY Zenon, <1>1, <1>2

\* Beginning a call keeps the invariant.
LEMMA BeginKeeps ==
  ASSUME Inv, NEW r \in Readers, NEW m \in {"info", "immutable", "multi"}, Begin(r, m)
  PROVE  Inv' /\ EntriesImprove
<1>1. PICK keys \in Calls(m) : /\ want' = [want EXCEPT ![r] = keys]
                              /\ out' = [out EXCEPT ![r] = [i \in DOMAIN keys |-> None]]
  BY Zenon DEF Begin
<1>2. /\ UNCHANGED <<now, feedVars, cacheVars>> /\ held' = held /\ answer' = answer
      /\ mode' = [mode EXCEPT ![r] = m] /\ gen' = [gen EXCEPT ![r] = cache]
      /\ at' = [at EXCEPT ![r] = now] /\ pos' = [pos EXCEPT ![r] = 1]
      /\ misses' = [misses EXCEPT ![r] = <<>>] /\ pc' = [pc EXCEPT ![r] = "get"]
      /\ cache # 0 /\ pc[r] = "idle"
  BY Zenon DEF Begin
<1>3. keys \in Seq(Keys) /\ 1 \in DOMAIN keys
  BY Zenon, CallKeys
<1>4. CallType
  BY Zenon DEF Inv
<1>5. \A q \in Readers : q # r => Same(q)
  BY Zenon, <1>1, <1>2, <1>4 DEF CallType, Same
<1>6. /\ pc'[r] = "get" /\ gen'[r] = cache /\ want'[r] = keys /\ pos'[r] = 1
      /\ misses'[r] = <<>> /\ out'[r] = [i \in DOMAIN keys |-> None]
  BY Zenon, <1>1, <1>2, <1>4 DEF CallType
<1>7. held[r] = None /\ held'[r] = None
  BY Zenon, <1>2 DEF Inv, Readings, Reading, Pointer, Looping
<1>8. cache \in Gens /\ cache \in Nat /\ cache <= gens /\ now \in Nat
  BY <1>2, CacheAssumption DEF Inv, CacheType, LedgerType, Gens
<1>9. CallType'
  <2>1. /\ pc' \in [Readers -> {"idle", "get", "check", "serve", "fetch", "store", "return"}]
        /\ mode' \in [Readers -> {"info", "immutable", "multi"}]
        /\ gen' \in [Readers -> Nat] /\ at' \in [Readers -> Nat]
        /\ want' \in [Readers -> Seq(Keys)] /\ pos' \in [Readers -> Nat]
        /\ misses' \in [Readers -> Seq(Keys)]
    BY SMTT(30), <1>1, <1>2, <1>3, <1>4, <1>8 DEF CallType
  <2>2. out' = [q \in Readers |-> out'[q]]
    BY Zenon, <1>1, <1>4 DEF CallType
  <2>3. out'[r] \in [DOMAIN want'[r] -> Nat \cup {None}]
    BY Zenon, <1>6
  <2>4. \A q \in Readers : out'[q] \in [DOMAIN want'[q] -> Nat \cup {None}]
    BY Zenon, <1>4, <1>5, <2>3, OutKeeps
  <2> QED BY Zenon, <1>2, <1>4, <2>1, <2>2, <2>4 DEF CallType, cacheVars
<1>10. Reading(r)'
  <2>1. Place(r)'
    BY Zenon, <1>2, <1>3, <1>6, <1>8 DEF Place, Looping, cacheVars
  <2>2. Pointer(r)' /\ Answered(r)'
    BY Zenon, <1>6, <1>7 DEF Pointer, Answered
  <2>3. \A i \in DOMAIN want'[r] : out'[r][i] = None /\ i >= pos'[r]
    BY <1>3, <1>6
  <2>4. Looping(r)'
    BY Zenon, <1>6 DEF Looping
  <2>5. Found(r)'
    BY Zenon, <2>3, <2>4 DEF Found
  <2> QED BY Zenon, <2>1, <2>2, <2>5 DEF Reading
<1> QED BY Zenon, <1>2, <1>5, <1>9, <1>10, OwnStep

\* Taking the pointer.
LEMMA GetKeeps ==
  ASSUME Inv, NEW r \in Readers, Get(r)
  PROVE  Inv' /\ EntriesImprove
<1> DEFINE k == want[r][pos[r]]
           e == table[gen[r]][k]
<1>1. /\ UNCHANGED <<now, feedVars, cacheVars>> /\ UNCHANGED <<mode, gen, at, want>>
      /\ UNCHANGED <<pos, out, misses, answer>>
      /\ held' = [held EXCEPT ![r] = e] /\ pc' = [pc EXCEPT ![r] = "check"] /\ pc[r] = "get"
  BY Zenon DEF Get, callVars
<1>2. CallType /\ Reading(r)
  BY Zenon DEF Inv, Readings
<1>3. pos[r] \in DOMAIN want[r] /\ gen[r] \in Gens
  BY Zenon, <1>1, <1>2 DEF Reading, Place, Looping
<1>4. k \in Keys /\ e \in DOMAIN heap \cup {None}
  BY <1>2, <1>3 DEF CallType, Inv, CacheType
<1>5. pc'[r] = "check" /\ held'[r] = e
  BY Zenon, <1>1, <1>2 DEF CallType
<1>6. CallType'
  BY Zenon, <1>1, <1>2, <1>4 DEF CallType, cacheVars
<1>7. \A q \in Readers : q # r => Same(q)
  BY Zenon, <1>1, <1>2 DEF CallType, Same
<1>8. Place(r)' /\ Answered(r)'
  BY Zenon, <1>1, <1>2, <1>3, <1>5 DEF Reading, Place, Looping, Answered, cacheVars
<1>9. Pointer(r)'
  <2>1. e # None => /\ EntryOf(heap[e], ledger[k])
                    /\ \A h \in Gens, l \in Keys : table[h][l] = e => l = k
    <3>1. Table /\ k \in Keys
      BY Zenon, <1>4 DEF Inv
    <3>2. \A g \in Gens, q \in Keys : table[g][q] # None =>
            /\ EntryOf(heap[table[g][q]], ledger[q])
            /\ \A h \in Gens, l \in Keys : table[h][l] = table[g][q] => l = q
      BY Zenon, <3>1 DEF Table
    <3> QED BY Zenon, <1>3, <3>1, <3>2
  <2>2. UNCHANGED <<ledger, table, heap>>
    BY Zenon, <1>1 DEF cacheVars, feedVars
  <2> QED BY Zenon, <1>1, <1>5, <2>1, <2>2 DEF Pointer, Looping
<1>10. Found(r)'
  <2>1. UNCHANGED <<ledger, want, out, misses, pos>> /\ Looping(r) /\ Looping(r)'
    BY Zenon, <1>1, <1>5 DEF feedVars, Looping
  <2> QED BY <1>2, <2>1 DEF Reading, Found, Missing, Version, Top
<1> QED BY Zenon, <1>1, <1>6, <1>7, <1>8, <1>9, <1>10, OwnStep DEF Reading

\* After a step at its position the loop goes on, or its misses are fetched,
\* or the call returns.
LEMMA NextKeyPlace ==
  ASSUME Inv, NEW r \in Readers, NEW missing \in Seq(Keys), NextKey(r, missing),
         pc[r] \in {"check", "serve"}, misses'[r] = missing,
         UNCHANGED <<gens, want, gen, answer>>
  PROVE  /\ Place(r)' /\ Pointer(r)' /\ Answered(r)'
         /\ pc' \in [Readers -> {"idle", "get", "check", "serve", "fetch", "store", "return"}]
         /\ pos' \in [Readers -> Nat] /\ held' \in [Readers -> DOMAIN heap \cup {None}]
         /\ pos'[r] = pos[r] + 1 /\ pos[r] \in DOMAIN want[r]
         /\ \A i \in DOMAIN want[r] : i > pos[r] => Looping(r)'
         /\ \A q \in Readers : q # r => /\ pc'[q] = pc[q] /\ pos'[q] = pos[q] /\ held'[q] = held[q]
<1> DEFINE next == IF pos[r] < Len(want[r]) THEN "get"
                   ELSE IF missing # <<>> THEN "fetch" ELSE "return"
<1>1. CallType /\ Place(r)
  BY Zenon DEF Inv, Readings, Reading
<1>2. /\ pos' = [pos EXCEPT ![r] = @ + 1] /\ held' = [held EXCEPT ![r] = None]
      /\ pc' = [pc EXCEPT ![r] = next]
  BY Zenon DEF NextKey
<1>3. next = "get" \/ next = "fetch" \/ next = "return"
  BY Zenon
<1>4. /\ pos[r] < Len(want[r]) => next = "get"
      /\ next = "get" => pos[r] < Len(want[r])
      /\ next = "fetch" => missing # <<>>
      /\ next = "return" => missing = <<>>
  BY Zenon
<1> HIDE DEF next
<1>5. pos[r] \in DOMAIN want[r] /\ gen[r] \in Gens /\ gen[r] <= gens
  BY Zenon, <1>1 DEF Place, Looping
<1>6. /\ pos' \in [Readers -> Nat] /\ held' \in [Readers -> DOMAIN heap \cup {None}]
      /\ pos'[r] = pos[r] + 1 /\ held'[r] = None /\ pc'[r] = next
      /\ \A q \in Readers : q # r => /\ pc'[q] = pc[q] /\ pos'[q] = pos[q] /\ held'[q] = held[q]
  BY <1>1, <1>2 DEF CallType
<1>7. pc' \in [Readers -> {"idle", "get", "check", "serve", "fetch", "store", "return"}]
  BY Zenon, <1>1, <1>2, <1>3 DEF CallType
<1>8. want[r] \in Seq(Keys) /\ pos[r] \in Nat /\ Len(want[r]) \in Nat
  BY <1>1 DEF CallType
<1>9. \A i \in DOMAIN want[r] : i > pos[r] => pos[r] < Len(want[r])
  BY <1>8
<1>10. pos[r] < Len(want[r]) => pos[r] + 1 \in DOMAIN want[r]
  BY <1>8
<1>11. Place(r)'
  BY Zenon, <1>3, <1>4, <1>5, <1>6, <1>10 DEF Place, Looping
<1>12. Pointer(r)' /\ Answered(r)'
  BY Zenon, <1>3, <1>6 DEF Pointer, Answered
<1>13. \A i \in DOMAIN want[r] : i > pos[r] => Looping(r)'
  BY Zenon, <1>4, <1>6, <1>9 DEF Looping
<1> QED BY Zenon, <1>5, <1>6, <1>7, <1>11, <1>12, <1>13

\* A miss is remembered.
LEMMA MissKeeps ==
  ASSUME Inv, NEW r \in Readers, Miss(r)
  PROVE  Inv' /\ EntriesImprove
<1> DEFINE k == want[r][pos[r]]
           missing == IF \E i \in DOMAIN misses[r] : misses[r][i] = k THEN misses[r]
                      ELSE Append(misses[r], k)
<1>1. /\ UNCHANGED <<now, feedVars, cacheVars>> /\ UNCHANGED <<mode, gen, at, want, out, answer>>
      /\ misses' = [misses EXCEPT ![r] = missing] /\ NextKey(r, missing) /\ pc[r] = "check"
  BY Zenon DEF Miss, callVars
<1>2. CallType /\ Reading(r)
  BY Zenon DEF Inv, Readings
<1>3. pos[r] \in DOMAIN want[r] /\ pos[r] \in Nat /\ want[r] \in Seq(Keys) /\ k \in Keys
  BY <1>1, <1>2 DEF Reading, Place, Looping, CallType
<1>4. /\ missing \in Seq(Keys) /\ \E j \in DOMAIN missing : missing[j] = k
      /\ \A l : Missing(r, l) => \E j \in DOMAIN missing : missing[j] = l
  <2>1. misses[r] \in Seq(Keys)
    BY Zenon, <1>2 DEF CallType
  <2>2. CASE \E i \in DOMAIN misses[r] : misses[r][i] = k
    <3>1. missing = misses[r]
      BY Zenon, <2>2
    <3> QED BY Zenon, <2>1, <2>2, <3>1 DEF Missing
  <2>3. CASE ~ \E i \in DOMAIN misses[r] : misses[r][i] = k
    <3>1. missing = Append(misses[r], k)
      BY Zenon, <2>3
    <3> HIDE DEF missing, k
    <3>2. /\ missing \in Seq(Keys) /\ Len(misses[r]) + 1 \in DOMAIN missing
          /\ missing[Len(misses[r]) + 1] = k
          /\ \A j \in DOMAIN misses[r] : j \in DOMAIN missing /\ missing[j] = misses[r][j]
      BY <1>3, <2>1, <3>1
    <3> QED BY Zenon, <3>2 DEF Missing
  <2> QED BY Zenon, <2>2, <2>3
<1> HIDE DEF missing
<1>5. misses'[r] = missing /\ misses' \in [Readers -> Seq(Keys)]
  BY Zenon, <1>1, <1>2, <1>4 DEF CallType
<1>6. /\ Place(r)' /\ Pointer(r)' /\ Answered(r)'
      /\ pc' \in [Readers -> {"idle", "get", "check", "serve", "fetch", "store", "return"}]
      /\ pos' \in [Readers -> Nat] /\ held' \in [Readers -> DOMAIN heap \cup {None}]
      /\ pos'[r] = pos[r] + 1
      /\ \A i \in DOMAIN want[r] : i > pos[r] => Looping(r)'
      /\ \A q \in Readers : q # r => /\ pc'[q] = pc[q] /\ pos'[q] = pos[q] /\ held'[q] = held[q]
  <2>1. pc[r] \in {"check", "serve"} /\ UNCHANGED <<gens, want, gen, answer>>
    BY Zenon, <1>1 DEF cacheVars
  <2> QED BY Zenon, <1>1, <1>4, <1>5, <2>1, NextKeyPlace
<1>7. CallType'
  BY Zenon, <1>1, <1>2, <1>5, <1>6 DEF CallType, cacheVars
<1>8. \A q \in Readers : q # r => Same(q)
  BY Zenon, <1>1, <1>2, <1>6 DEF CallType, Same
<1>9. Found(r)'
  <2>1. \A l, s : Version(l, s)' = Version(l, s) /\ Top(l)' = Top(l)
    BY Zenon, <1>1 DEF Version, Top, feedVars
  <2>2. \A l : (\E j \in DOMAIN missing : missing[j] = l) => Missing(r, l)'
    BY Zenon, <1>5 DEF Missing
  <2>3. ASSUME NEW i \in DOMAIN want[r], out[r][i] = None
        PROVE  (Looping(r)' /\ i >= pos'[r]) \/ Missing(r, want[r][i])'
    <3>0. i \in Nat
      BY <1>3
    <3>1. CASE i > pos[r]
      BY <1>3, <1>6, <3>0, <3>1
    <3>2. CASE i = pos[r]
      BY Zenon, <1>1, <1>4, <2>2, <3>2
    <3>3. CASE i < pos[r]
      <4>1. ~(i >= pos[r])
        BY <1>3, <3>0, <3>3
      <4>2. Missing(r, want[r][i])
        BY Zenon, <1>2, <2>3, <4>1 DEF Reading, Found
      <4> QED BY Zenon, <1>1, <1>4, <2>2, <4>2
    <3>4. i > pos[r] \/ i = pos[r] \/ i < pos[r]
      BY <1>3, <3>0
    <3> QED BY Zenon, <3>1, <3>2, <3>3, <3>4
  <2> QED BY Zenon, <1>1, <1>2, <2>1, <2>3 DEF Reading, Found
<1> QED BY Zenon, <1>1, <1>6, <1>7, <1>8, <1>9, OwnStep DEF Reading

\* What an entry of an account holds is a number, and a state of the account.
LEMMA EntryIsState ==
  ASSUME LedgerType, NEW k \in Keys, NEW e, EntryOf(e, ledger[k])
  PROVE  /\ e.data \in Nat /\ e.slot \in 0 .. Top(k) /\ e.data = Version(k, e.slot)
         /\ e.data # None
<1>1. ledger[k] \in Seq(Nat)
  BY Zenon DEF LedgerType
<1> QED BY Zenon, <1>1, VersionIsVer, VerType, CacheAssumption DEF EntryOf

\* A hit is served with a state of the account, whatever happened to the
\* entry since it was taken.
LEMMA ServeKeeps ==
  ASSUME Inv, NEW r \in Readers, Serve(r)
  PROVE  Inv' /\ EntriesImprove
<1> DEFINE k == want[r][pos[r]]
           e == heap[held[r]]
<1>1. /\ UNCHANGED <<now, feedVars, cacheVars>> /\ UNCHANGED <<mode, gen, at, want, misses, answer>>
      /\ out' = [out EXCEPT ![r][pos[r]] = e.data] /\ NextKey(r, misses[r]) /\ pc[r] = "serve"
  BY Zenon DEF Serve, callVars
<1>2. CallType /\ Reading(r) /\ LedgerType
  BY Zenon DEF Inv, Readings
<1>3. pos[r] \in DOMAIN want[r] /\ pos[r] \in Nat /\ want[r] \in Seq(Keys) /\ k \in Keys
  BY <1>1, <1>2 DEF Reading, Place, Looping, CallType
<1>4. EntryOf(e, ledger[k])
  BY Zenon, <1>1, <1>2 DEF Reading, Pointer
<1>5. e.data \in Nat /\ e.slot \in 0 .. Top(k) /\ e.data = Version(k, e.slot) /\ e.data # None
  BY Zenon, <1>2, <1>3, <1>4, EntryIsState
<1> HIDE DEF e
<1>6. out[r] \in [DOMAIN want[r] -> Nat \cup {None}] /\ out = [q \in Readers |-> out[q]]
  BY Zenon, <1>2 DEF CallType
<1>7. /\ out' = [q \in Readers |-> out'[q]]
      /\ out'[r] \in [DOMAIN want[r] -> Nat \cup {None}]
      /\ \A i \in DOMAIN want[r] : out'[r][i] = IF i = pos[r] THEN e.data ELSE out[r][i]
      /\ \A q \in Readers : q # r => out'[q] = out[q]
  BY Zenon, <1>1, <1>3, <1>5, <1>6
<1>8. /\ Place(r)' /\ Pointer(r)' /\ Answered(r)'
      /\ pc' \in [Readers -> {"idle", "get", "check", "serve", "fetch", "store", "return"}]
      /\ pos' \in [Readers -> Nat] /\ held' \in [Readers -> DOMAIN heap \cup {None}]
      /\ pos'[r] = pos[r] + 1
      /\ \A i \in DOMAIN want[r] : i > pos[r] => Looping(r)'
      /\ \A q \in Readers : q # r => /\ pc'[q] = pc[q] /\ pos'[q] = pos[q] /\ held'[q] = held[q]
  <2>1. pc[r] \in {"check", "serve"} /\ UNCHANGED <<gens, want, gen, answer>>
    BY Zenon, <1>1 DEF cacheVars
  <2>2. misses[r] \in Seq(Keys) /\ misses'[r] = misses[r]
    BY Zenon, <1>1, <1>2 DEF CallType
  <2> QED BY Zenon, <1>1, <2>1, <2>2, NextKeyPlace
<1>9. \A q \in Readers : q # r => Same(q)
  BY Zenon, <1>1, <1>7, <1>8 DEF Same
<1>10. CallType'
  <2>1. \A q \in Readers : out'[q] \in [DOMAIN want'[q] -> Nat \cup {None}]
    BY Zenon, <1>1, <1>2, <1>7, <1>9, OutKeeps
  <2> QED BY Zenon, <1>1, <1>2, <1>7, <1>8, <2>1 DEF CallType, cacheVars
<1>11. Found(r)'
  <2>1. \A l, s : Version(l, s)' = Version(l, s) /\ Top(l)' = Top(l)
    BY Zenon, <1>1 DEF Version, Top, feedVars
  <2>2. \A l : Missing(r, l)' = Missing(r, l)
    BY Zenon, <1>1 DEF Missing
  <2>3. ASSUME NEW i \in DOMAIN want[r], out'[r][i] = None
        PROVE  (Looping(r)' /\ i >= pos'[r]) \/ Missing(r, want[r][i])'
    <3>0. i \in Nat /\ i # pos[r] /\ out[r][i] = None
      BY SMTT(30), <1>3, <1>5, <1>7, <2>3
    <3>1. CASE i > pos[r]
      BY <1>3, <1>8, <3>0, <3>1
    <3>2. CASE i < pos[r]
      <4>1. ~(i >= pos[r])
        BY <1>3, <3>0, <3>2
      <4>2. Missing(r, want[r][i])
        BY Zenon, <1>2, <3>0, <4>1 DEF Reading, Found
      <4> QED BY Zenon, <1>1, <2>2, <4>2
    <3> QED BY <1>3, <3>0, <3>1, <3>2
  <2>4. ASSUME NEW i \in DOMAIN want[r], out'[r][i] # None
        PROVE  \E s \in 0 .. Top(want[r][i]) : out'[r][i] = Version(want[r][i], s)
    <3>1. CASE i = pos[r]
      BY Zenon, <1>5, <1>7, <3>1
    <3>2. CASE i # pos[r]
      BY <1>2, <1>7, <2>4, <3>2 DEF Reading, Found
    <3> QED BY Zenon, <3>1, <3>2
  <2> QED BY Zenon, <1>1, <2>1, <2>3, <2>4 DEF Found
<1> QED BY Zenon, <1>1, <1>8, <1>9, <1>10, <1>11, OwnStep DEF Reading

\* Setting the read clock of an entry changes nothing that is said of it.
LEMMA TouchKeeps ==
  ASSUME Inv, NEW r \in Readers, Touch(r)
  PROVE  Inv' /\ EntriesImprove
<1>1. /\ UNCHANGED <<now, ledger, feed, cache, gens, table>>
      /\ UNCHANGED <<mode, gen, at, want, pos, held, out, misses, answer>>
      /\ heap' = [heap EXCEPT ![held[r]].lastRead = at[r]] /\ held[r] # None
      /\ pc' = [pc EXCEPT ![r] = "serve"] /\ pc[r] = "check"
  BY Zenon DEF Touch, callVars, feedVars, Servable
<1>2. CallType /\ Reading(r) /\ heap \in Seq(Entry)
  BY Zenon DEF Inv, Readings, CacheType
<1>3. held[r] \in DOMAIN heap /\ at[r] \in Nat
  BY Zenon, <1>1, <1>2 DEF CallType
<1>4. /\ heap' \in Seq(Entry) /\ DOMAIN heap' = DOMAIN heap
      /\ \A e \in DOMAIN heap :
           /\ heap'[e].slot = heap[e].slot /\ heap'[e].data = heap[e].data
           /\ heap'[e].streamed = heap[e].streamed /\ heap'[e].immutable = heap[e].immutable
  <2> DEFINE x == heap[held[r]]
             m == [x EXCEPT !.lastRead = at[r]]
  <2>1. heap' = [heap EXCEPT ![held[r]] = m] /\ x \in Entry
    BY <1>1, <1>2, <1>3
  <2>2. /\ m \in Entry /\ m.slot = x.slot /\ m.data = x.data
        /\ m.streamed = x.streamed /\ m.immutable = x.immutable
    <3> HIDE DEF x
    <3> QED BY Zenon, <1>3, <2>1 DEF Entry
  <2> HIDE DEF m
  <2>3. /\ heap' \in Seq(Entry) /\ DOMAIN heap' = DOMAIN heap
        /\ \A e \in DOMAIN heap : heap'[e] = IF e = held[r] THEN m ELSE heap[e]
    BY <1>2, <1>3, <2>1, <2>2
  <2> QED BY Zenon, <2>2, <2>3
<1>5. \A e \in DOMAIN heap : \A row : EntryOf(heap'[e], row) <=> EntryOf(heap[e], row)
  BY Zenon, <1>4 DEF EntryOf
<1>6. \A g \in Gens, l \in Keys : table[g][l] # None => table[g][l] \in DOMAIN heap
  BY Zenon DEF Inv, CacheType
<1>7. CacheType' /\ Table'
  <2>1. CacheType'
    BY Zenon, <1>1, <1>4 DEF Inv, CacheType
  <2>2. Table'
    BY <1>1, <1>5, <1>6 DEF Inv, Table
  <2> QED BY Zenon, <2>1, <2>2
<1>8. cache # 0 => cache \in Gens
  BY CacheAssumption DEF Inv, CacheType, Gens
<1>9. Streamed'
  BY <1>1, <1>4, <1>6, <1>8 DEF Inv, Streamed, Pending, Current, Version, Top
<1>10. EntriesImprove
  <2>1. \A e \in DOMAIN heap : heap[e] \in Entry
    BY <1>2
  <2>2. \A e \in DOMAIN heap : heap[e].slot \in Nat /\ heap[e].data \in Nat
    BY Zenon, <2>1 DEF Entry
  <2> QED BY <1>4, <2>2 DEF EntriesImprove
<1>11. CallType'
  BY Zenon, <1>1, <1>2, <1>4 DEF CallType
<1>12. ASSUME NEW q \in Readers, held[q] # None
       PROVE  Kept(held[q], want[q][pos[q]])
  <2>1. held[q] \in DOMAIN heap
    BY Zenon, <1>2, <1>12 DEF CallType
  <2> QED BY <1>1, <1>5, <1>12, <2>1 DEF Inv, Readings, Reading, Pointer, Kept
<1>13. ASSUME NEW q \in Readers, q # r PROVE Reading(q)'
  <2>1. Same(q)
    BY Zenon, <1>1, <1>2, <1>13 DEF CallType, Same
  <2>2. gens' \in Nat /\ gens <= gens'
    BY <1>1 DEF Inv, CacheType
  <2> QED BY Zenon, <1>1, <1>12, <2>1, <2>2, ReadingKeeps
<1>14. Reading(r)'
  <2>1. pc'[r] = "serve"
    BY Zenon, <1>1, <1>2 DEF CallType
  <2>2. Place(r)' /\ Answered(r)'
    BY Zenon, <1>1, <1>2, <2>1 DEF Reading, Place, Looping, Answered
  <2>3. Pointer(r)'
    BY Zenon, <1>1, <1>12, <2>1 DEF Pointer, Looping, Kept
  <2>4. Looping(r) /\ Looping(r)'
    BY Zenon, <1>1, <2>1 DEF Looping
  <2>5. Found(r)'
    BY <1>1, <1>2, <2>4 DEF Reading, Found, Missing, Version, Top
  <2> QED BY Zenon, <2>2, <2>3, <2>5 DEF Reading
<1>15. Readings'
  BY Zenon, <1>13, <1>14 DEF Readings
<1> QED BY Zenon, <1>1, <1>7, <1>9, <1>10, <1>11, <1>15, LedgerKeeps DEF Inv

\* The node's answer is the accounts as of one slot.
LEMMA NodeAnswersKeeps ==
  ASSUME Inv, NEW r \in Readers, NodeAnswers(r)
  PROVE  Inv' /\ EntriesImprove
<1>1. PICK s \in 0 .. MaxSlot :
        /\ \A k \in Keys : s <= Top(k)
        /\ answer' = [answer EXCEPT ![r] = [slot |-> s, data |-> [k \in Keys |-> Version(k, s)]]]
  BY Zenon DEF NodeAnswers
<1>2. /\ UNCHANGED <<now, feedVars, cacheVars>>
      /\ UNCHANGED <<mode, gen, at, want, pos, held, out, misses>>
      /\ pc' = [pc EXCEPT ![r] = "store"] /\ pc[r] = "fetch"
  BY Zenon DEF NodeAnswers, callVars
<1>3. CallType /\ Reading(r) /\ LedgerType
  BY Zenon DEF Inv, Readings
<1>4. s \in Nat /\ \A k \in Keys : s \in 0 .. Top(k) /\ Version(k, s) \in Nat
  <2>1. ASSUME NEW k \in Keys PROVE s \in 0 .. Top(k) /\ Version(k, s) \in Nat
    <3>1. ledger[k] \in Seq(Nat) /\ Top(k) = Len(ledger[k])
      BY Zenon, <1>3, VersionIsVer DEF LedgerType
    <3>2. s \in 0 .. Len(ledger[k])
      BY <1>1, <3>1
    <3> QED BY Zenon, <3>1, <3>2, VersionIsVer, VerType
  <2> QED BY <2>1
<1> DEFINE new == [slot |-> s, data |-> [k \in Keys |-> Version(k, s)]]
<1>5. /\ new \in [slot : Nat, data : [Keys -> Nat]]
      /\ \A k \in Keys : new.slot \in 0 .. Top(k) /\ new.data[k] = Version(k, new.slot)
  BY Zenon, <1>4
<1> HIDE DEF new
<1>6. answer' \in [Readers -> [slot : Nat, data : [Keys -> Nat]]] /\ answer'[r] = new
  BY Zenon, <1>1, <1>3, <1>5 DEF CallType, new
<1>7. pc'[r] = "store" /\ \A q \in Readers : q # r => Same(q)
  BY Zenon, <1>1, <1>2, <1>3 DEF CallType, Same
<1>8. CallType'
  BY Zenon, <1>2, <1>3, <1>6 DEF CallType, cacheVars
<1>9. \A l, v : Version(l, v)' = Version(l, v) /\ Top(l)' = Top(l)
  BY Zenon, <1>2 DEF Version, Top, feedVars
<1>10. Place(r)' /\ Pointer(r)'
  BY Zenon, <1>2, <1>3, <1>7 DEF Reading, Place, Pointer, Looping, cacheVars
<1>11. Answered(r)'
  BY Zenon, <1>5, <1>6, <1>9 DEF Answered
<1>12. Found(r)'
  <2>1. \A l : Missing(r, l)' = Missing(r, l)
    BY Zenon, <1>2 DEF Missing
  <2>2. ~Looping(r)
    BY Zenon, <1>2 DEF Looping
  <2> QED BY Zenon, <1>2, <1>3, <1>9, <2>1, <2>2 DEF Reading, Found
<1> QED BY Zenon, <1>2, <1>7, <1>8, <1>10, <1>11, <1>12, OwnStep DEF Reading

\* Returning forgets the call.
LEMMA ReturnKeeps ==
  ASSUME Inv, NEW r \in Readers, Return(r)
  PROVE  Inv' /\ EntriesImprove
<1>1. CallType /\ Reading(r)
  BY Zenon DEF Inv, Readings
<1>2. /\ UNCHANGED <<now, feedVars, cacheVars>> /\ held' = held
      /\ pc' = [pc EXCEPT ![r] = "idle"] /\ mode' = [mode EXCEPT ![r] = "info"]
      /\ gen' = [gen EXCEPT ![r] = 0] /\ at' = [at EXCEPT ![r] = 0]
      /\ want' = [want EXCEPT ![r] = <<>>] /\ pos' = [pos EXCEPT ![r] = 1]
      /\ out' = [out EXCEPT ![r] = <<>>] /\ misses' = [misses EXCEPT ![r] = <<>>]
      /\ answer' = [answer EXCEPT ![r] = NoAnswer] /\ pc[r] \in {"return", "fetch"}
  BY Zenon DEF Return
<1>3. /\ pc'[r] = "idle" /\ gen'[r] = 0 /\ want'[r] = <<>> /\ out'[r] = <<>>
      /\ \A q \in Readers : q # r => Same(q)
  BY Zenon, <1>1, <1>2 DEF CallType, Same
<1>4. held[r] = None
  BY Zenon, <1>1, <1>2 DEF Reading, Pointer, Looping
<1>5. CallType'
  <2>1. /\ pc' \in [Readers -> {"idle", "get", "check", "serve", "fetch", "store", "return"}]
        /\ mode' \in [Readers -> {"info", "immutable", "multi"}]
        /\ gen' \in [Readers -> Nat] /\ at' \in [Readers -> Nat]
        /\ want' \in [Readers -> Seq(Keys)] /\ pos' \in [Readers -> Nat]
        /\ misses' \in [Readers -> Seq(Keys)]
    BY <1>1, <1>2 DEF CallType
  <2>2. NoAnswer \in [slot : Nat, data : [Keys -> Nat]]
    BY Zenon DEF NoAnswer
  <2>3. answer' \in [Readers -> [slot : Nat, data : [Keys -> Nat]]]
    BY Zenon, <1>1, <1>2, <2>2 DEF CallType
  <2>4. out' = [q \in Readers |-> out'[q]]
    BY Zenon, <1>1, <1>2 DEF CallType
  <2>5. out'[r] \in [DOMAIN want'[r] -> Nat \cup {None}]
    BY Zenon, <1>3, EmptyOut
  <2>6. \A q \in Readers : out'[q] \in [DOMAIN want'[q] -> Nat \cup {None}]
    BY Zenon, <1>1, <1>3, <2>5, OutKeeps
  <2> QED BY Zenon, <1>1, <1>2, <2>1, <2>3, <2>4, <2>6 DEF CallType, cacheVars
<1>6. gens \in Nat
  BY DEF Inv, CacheType
<1>7. Place(r)' /\ Pointer(r)' /\ Answered(r)'
  <2>1. Place(r)'
    BY <1>2, <1>3, <1>6 DEF Place, Looping, cacheVars
  <2>2. held'[r] = None
    BY Zenon, <1>2, <1>4
  <2>3. Pointer(r)' /\ Answered(r)'
    BY Zenon, <1>3, <2>2 DEF Pointer, Answered
  <2> QED BY Zenon, <2>1, <2>3
<1>8. Found(r)'
  <2>1. DOMAIN want'[r] = {}
    BY <1>3
  <2> QED BY Zenon, <2>1 DEF Found
<1> QED BY Zenon, <1>2, <1>3, <1>5, <1>7, <1>8, OwnStep DEF Reading

\* The pointers of the calls survive a set.
LEMMA PointersKept ==
  ASSUME Inv, NEW g, NEW k, NEW slot, NEW streamed, AfterSet(g, k, slot, streamed)
  PROVE  \A q \in Readers : held[q] # None => Kept(held[q], want[q][pos[q]])
<1>1. ASSUME NEW q \in Readers, held[q] # None PROVE Kept(held[q], want[q][pos[q]])
  <2>1. Place(q) /\ Pointer(q) /\ CallType
    BY Zenon DEF Inv, Readings, Reading
  <2>2. Looping(q) /\ held[q] \in DOMAIN heap
    BY Zenon, <1>1, <2>1 DEF Pointer, CallType
  <2>3. want[q][pos[q]] \in Keys
    BY <2>1, <2>2 DEF Place, CallType
  <2> QED BY <1>1, <2>1, <2>2, <2>3 DEF Pointer, AfterSet
<1> QED BY Zenon, <1>1

\* A set that is not the feed's keeps what is said of the cache and of the
\* pointers into it.
LEMMA SetStep ==
  ASSUME Inv, UNCHANGED <<now, ledger, feed, cache, gens>>,
         NEW g \in Gens, NEW k \in Keys, g <= gens, NEW slot \in 0 .. Top(k),
         NEW immutable \in BOOLEAN, set(g, k, Version(k, slot), slot, FALSE, immutable)
  PROVE  /\ CacheType' /\ Table' /\ Streamed' /\ EntriesImprove
         /\ DOMAIN heap \subseteq DOMAIN heap'
         /\ \A q \in Readers : held[q] # None => Kept(held[q], want[q][pos[q]])
<1>1. AfterSet(g, k, slot, FALSE)
  <2>1. FALSE \in BOOLEAN
    BY Zenon
  <2> QED BY Zenon, <2>1, SetKeeps
<1>2. \A q \in Readers : held[q] # None => Kept(held[q], want[q][pos[q]])
  BY Zenon, <1>1, PointersKept
<1>3. Streamed'
  <2>1. ASSUME NEW l \in Keys, cache # 0, table'[cache][l] # None, heap'[table'[cache][l]].streamed
        PROVE  Current(l) <= heap'[table'[cache][l]].slot \/ Pending(l)
    <3>1. cache \in Gens
      BY <2>1, CacheAssumption DEF Inv, CacheType, Gens
    <3>2. /\ table[cache][l] # None /\ heap[table[cache][l]].streamed
          /\ \/ heap'[table'[cache][l]].slot >= heap[table[cache][l]].slot
             \/ heap'[table'[cache][l]].slot = heap[table[cache][l]].slot
      <4>1. CASE cache = g /\ l = k
        <5>1. heap'[table'[cache][l]].streamed =>
                FALSE \/ (/\ table[cache][l] # None /\ heap[table[cache][l]].streamed
                          /\ heap'[table'[cache][l]].slot >= heap[table[cache][l]].slot)
          BY Zenon, <1>1, <2>1, <4>1 DEF AfterSet
        <5> QED BY Zenon, <2>1, <5>1
      <4>2. CASE ~(cache = g /\ l = k)
        <5>1. table'[cache][l] = table[cache][l] /\ heap'[table'[cache][l]] = heap[table[cache][l]]
          BY Zenon, <1>1, <2>1, <3>1, <4>2 DEF AfterSet
        <5> QED BY Zenon, <2>1, <5>1
      <4> QED BY Zenon, <4>1, <4>2
    <3>3. Current(l) <= heap[table[cache][l]].slot \/ Pending(l)
      BY Zenon, <2>1, <3>2 DEF Inv, Streamed
    <3>4. Current(l) \in Nat
      BY SMTT(30), VersionIsVer, VerType DEF Inv, LedgerType, Current
    <3>5. heap[table[cache][l]].slot \in Nat
      BY SMTT(30), <3>1, <3>2 DEF Inv, Table, EntryOf
    <3>6. heap'[table'[cache][l]].slot \in Nat
      <4>1. EntryOf(heap'[table'[cache][l]], ledger'[l])
        BY Zenon, <1>1, <2>1, <3>1 DEF AfterSet, Table
      <4> QED BY <4>1 DEF EntryOf
    <3>7. \A c, x, y \in Nat : c <= x /\ (y >= x \/ y = x) => c <= y
      OBVIOUS
    <3> QED BY Zenon, <3>2, <3>3, <3>4, <3>5, <3>6, <3>7
  <2> QED BY <2>1 DEF Streamed, Pending, Current, Version, Top
<1> QED BY Zenon, <1>1, <1>2, <1>3 DEF AfterSet

\* A fetched value fills its positions and is stored, and the next one is due.
LEMMA StoreKeeps ==
  ASSUME Inv, NEW r \in Readers, Store(r)
  PROVE  Inv' /\ EntriesImprove
<1> DEFINE k == Head(misses[r])
           a == answer[r]
           next == IF Len(misses[r]) > 1 THEN "store" ELSE "return"
<1>1. /\ UNCHANGED <<now, ledger, feed, cache, gens>>
      /\ UNCHANGED <<mode, gen, at, want, pos, held, answer>>
      /\ out' = [out EXCEPT ![r] = Fill(r, k)] /\ misses' = [misses EXCEPT ![r] = Tail(misses[r])]
      /\ pc' = [pc EXCEPT ![r] = next] /\ pc[r] = "store"
  BY Zenon DEF Store, callVars, feedVars
<1>2. \/ a.data[k] = 0 /\ UNCHANGED <<table, heap>>
      \/ set(gen[r], k, a.data[k], a.slot, FALSE, mode[r] = "immutable")
  BY Zenon DEF Store
<1>3. CallType /\ Reading(r) /\ LedgerType
  BY Zenon DEF Inv, Readings
<1>4. /\ misses[r] \in Seq(Keys) /\ misses[r] # <<>> /\ gen[r] \in Gens /\ gen[r] <= gens
      /\ held[r] = None
  BY Zenon, <1>1, <1>3 DEF CallType, Reading, Place, Pointer, Looping
<1>5. /\ k \in Keys /\ Tail(misses[r]) \in Seq(Keys) /\ Len(misses[r]) \in Nat
      /\ Len(misses[r]) > 1 => Tail(misses[r]) # <<>>
      /\ ~(Len(misses[r]) > 1) => Tail(misses[r]) = <<>>
      /\ \A l : l # k /\ Missing(r, l) =>
           \E j \in DOMAIN Tail(misses[r]) : Tail(misses[r])[j] = l
  <2> HIDE DEF next
  <2>1. k \in Keys /\ Tail(misses[r]) \in Seq(Keys) /\ Len(Tail(misses[r])) = Len(misses[r]) - 1
    BY <1>4
  <2>2. ASSUME NEW l, l # k, NEW j \in DOMAIN misses[r], misses[r][j] = l
        PROVE  \E i \in DOMAIN Tail(misses[r]) : Tail(misses[r])[i] = l
    <3>1. j # 1 /\ j \in 1 .. Len(misses[r])
      BY <1>4, <2>2
    <3>2. j - 1 \in DOMAIN Tail(misses[r]) /\ Tail(misses[r])[j - 1] = misses[r][j]
      BY <1>4, <2>1, <3>1
    <3> QED BY Zenon, <2>2, <3>2
  <2>3. /\ Len(misses[r]) > 1 => Tail(misses[r]) # <<>>
        /\ ~(Len(misses[r]) > 1) => Tail(misses[r]) = <<>>
    <3>1. Len(misses[r]) \in Nat
      BY <1>4
    <3>2. Len(misses[r]) >= 1
      BY <1>4, <3>1
    <3> DEFINE rest == Tail(misses[r])
    <3> HIDE DEF rest
    <3>3. rest \in Seq(Keys) /\ Len(rest) = Len(misses[r]) - 1
      BY Zenon, <2>1 DEF rest
    <3>4. Len(rest) = 0 => rest = <<>>
      BY <3>3
    <3>5. rest = <<>> => Len(rest) = 0
      OBVIOUS
    <3>6. (Len(misses[r]) > 1 => rest # <<>>) /\ (~(Len(misses[r]) > 1) => rest = <<>>)
      BY <3>1, <3>2, <3>3, <3>4, <3>5
    <3> QED BY Zenon, <3>6 DEF rest
  <2>4. \A l : l # k /\ Missing(r, l) =>
          \E j \in DOMAIN Tail(misses[r]) : Tail(misses[r])[j] = l
    BY Zenon, <2>2 DEF Missing
  <2>5. Len(misses[r]) \in Nat
    BY <1>4
  <2> HIDE DEF k
  <2> QED BY Zenon, <2>1, <2>3, <2>4, <2>5
<1>6. a.slot \in 0 .. Top(k) /\ a.data[k] = Version(k, a.slot)
  BY Zenon, <1>1, <1>3, <1>5 DEF Reading, Answered
<1>7. a.data[k] \in Nat /\ a.data[k] # None
  <2>1. a.data[k] \in Nat
    BY Zenon, <1>3, <1>5 DEF CallType
  <2> QED BY Zenon, <2>1, CacheAssumption
<1> HIDE DEF k, a
<1>8. /\ CacheType' /\ Table' /\ Streamed' /\ EntriesImprove
      /\ DOMAIN heap \subseteq DOMAIN heap'
      /\ \A q \in Readers : held[q] # None => Kept(held[q], want[q][pos[q]])
  <2>1. CASE UNCHANGED <<table, heap>>
    <3>1. \A q \in Readers : held[q] # None => Kept(held[q], want[q][pos[q]])
      BY <2>1 DEF Inv, Readings, Reading, Pointer, Kept
    <3> QED BY Zenon, <1>1, <2>1, <3>1, CacheKeeps
  <2>2. CASE set(gen[r], k, a.data[k], a.slot, FALSE, mode[r] = "immutable")
    <3>1. (mode[r] = "immutable") \in BOOLEAN
      BY Zenon
    <3> QED BY Zenon, <1>1, <1>4, <1>5, <1>6, <2>2, <3>1, SetStep
  <2> QED BY Zenon, <1>2, <2>1, <2>2
<1>9. /\ pc'[r] = next /\ misses'[r] = Tail(misses[r]) /\ out'[r] = Fill(r, k)
      /\ misses' \in [Readers -> Seq(Keys)] /\ out' = [q \in Readers |-> out'[q]]
      /\ \A q \in Readers : q # r => Same(q)
  BY Zenon, <1>1, <1>3, <1>5 DEF CallType, Same
<1>10. out[r] \in [DOMAIN want[r] -> Nat \cup {None}]
  BY Zenon, <1>3 DEF CallType
<1>11. /\ Fill(r, k) \in [DOMAIN want[r] -> Nat \cup {None}]
       /\ \A i \in DOMAIN want[r] : Fill(r, k)[i] =
            IF want[r][i] = k /\ out[r][i] = None THEN a.data[k] ELSE out[r][i]
  BY Zenon, <1>7, <1>10 DEF Fill, a
<1>12. (next = "store" /\ Len(misses[r]) > 1) \/ (next = "return" /\ ~(Len(misses[r]) > 1))
  BY Zenon
<1> HIDE DEF next
<1>13. CallType'
  <2>1. pc' \in [Readers -> {"idle", "get", "check", "serve", "fetch", "store", "return"}]
    BY Zenon, <1>1, <1>3, <1>12 DEF CallType
  <2>2. held' \in [Readers -> DOMAIN heap' \cup {None}]
    BY Zenon, <1>1, <1>3, <1>8 DEF CallType
  <2>3. out'[r] \in [DOMAIN want'[r] -> Nat \cup {None}]
    BY Zenon, <1>1, <1>9, <1>11
  <2>4. \A q \in Readers : out'[q] \in [DOMAIN want'[q] -> Nat \cup {None}]
    BY Zenon, <1>3, <1>9, <2>3, OutKeeps
  <2> QED BY Zenon, <1>1, <1>3, <1>9, <2>1, <2>2, <2>4 DEF CallType
<1>14. \A l, v : Version(l, v)' = Version(l, v) /\ Top(l)' = Top(l)
  BY Zenon, <1>1 DEF Version, Top
<1>15. Reading(r)'
  <2>1. Place(r)'
    BY Zenon, <1>1, <1>4, <1>5, <1>9, <1>12 DEF Place, Looping
  <2>2. Pointer(r)'
    BY Zenon, <1>1, <1>4, <1>9, <1>12 DEF Pointer
  <2>3. Answered(r)'
    BY Zenon, <1>1, <1>3, <1>14 DEF Reading, Answered
  <2>4. ASSUME NEW i \in DOMAIN want[r], out'[r][i] # None
        PROVE  \E s \in 0 .. Top(want[r][i]) : out'[r][i] = Version(want[r][i], s)
    <3>1. CASE want[r][i] = k /\ out[r][i] = None
      BY Zenon, <1>6, <1>9, <1>11, <3>1
    <3>2. CASE ~(want[r][i] = k /\ out[r][i] = None)
      BY Zenon, <1>3, <1>9, <1>11, <2>4, <3>2 DEF Reading, Found
    <3> QED BY Zenon, <3>1, <3>2
  <2>5. ASSUME NEW i \in DOMAIN want[r], out'[r][i] = None
        PROVE  Missing(r, want[r][i])'
    <3>1. out[r][i] = None /\ want[r][i] # k
      BY Zenon, <1>7, <1>9, <1>11, <2>5
    <3>2. ~Looping(r)
      BY Zenon, <1>1 DEF Looping
    <3>3. Missing(r, want[r][i])
      BY Zenon, <1>3, <3>1, <3>2 DEF Reading, Found
    <3> QED BY Zenon, <1>1, <1>5, <1>9, <3>1, <3>3 DEF Missing
  <2>6. Found(r)'
    BY Zenon, <1>1, <1>14, <2>4, <2>5 DEF Found
  <2> QED BY Zenon, <2>1, <2>2, <2>3, <2>6 DEF Reading
<1>16. gens' \in Nat /\ gens <= gens'
  BY <1>1 DEF Inv, CacheType
<1>17. Readings'
  BY Zenon, <1>1, <1>8, <1>9, <1>15, <1>16, ReadingKeeps DEF Readings
<1> QED BY Zenon, <1>1, <1>8, <1>13, <1>17, LedgerKeeps DEF Inv

-----------------------------------------------------------------------------
(* The user, the janitor and the clock.                                    *)

\* A step that moves no call and keeps the pointers moves no reading.
LEMMA ReadersKeep ==
  ASSUME Inv, UNCHANGED readerVars, UNCHANGED ledger, gens' \in Nat, gens <= gens',
         DOMAIN heap \subseteq DOMAIN heap',
         \A q \in Readers : held[q] # None => Kept(held[q], want[q][pos[q]])
  PROVE  CallType' /\ Readings'
<1> USE DEF readerVars, callVars
<1>1. CallType'
  <2>1. CallType
    BY Zenon DEF Inv
  <2>2. held' \in [Readers -> DOMAIN heap' \cup {None}]
    BY Zenon, <2>1 DEF CallType
  <2> QED BY Zenon, <2>1, <2>2 DEF CallType
<1>2. \A q \in Readers : Same(q)
  BY Zenon DEF Same
<1>3. Readings'
  BY Zenon, <1>2, ReadingKeeps DEF Readings
<1> QED BY Zenon, <1>1, <1>3

\* CacheStore stores a state of the account.
LEMMA CacheStoreKeeps ==
  ASSUME Inv, NEW k \in Keys, NEW s \in 1 .. MaxSlot, NEW immutable \in BOOLEAN,
         CacheStore(k, s, immutable)
  PROVE  Inv' /\ EntriesImprove
<1>1. /\ UNCHANGED <<now, ledger, feed, cache, gens>> /\ UNCHANGED readerVars
      /\ set(cache, k, Version(k, s), s, FALSE, immutable) /\ cache # 0 /\ s \in 1 .. Top(k)
  BY Zenon DEF CacheStore, feedVars
<1>2. cache \in Gens /\ cache <= gens /\ gens \in Nat /\ gens <= gens
  BY <1>1, CacheAssumption DEF Inv, CacheType, Gens
<1>3. s \in 0 .. Top(k)
  BY <1>1
<1>4. /\ CacheType' /\ Table' /\ Streamed' /\ EntriesImprove
      /\ DOMAIN heap \subseteq DOMAIN heap'
      /\ \A q \in Readers : held[q] # None => Kept(held[q], want[q][pos[q]])
  BY Zenon, <1>1, <1>2, <1>3, SetStep
<1>5. CallType' /\ Readings'
  BY Zenon, <1>1, <1>2, <1>4, ReadersKeep
<1> QED BY Zenon, <1>1, <1>4, <1>5, LedgerKeeps DEF Inv

\* Entries leave a table, the current cache's; the calls keep their pointers.
LEMMA RemovalKeeps ==
  ASSUME Inv, UNCHANGED <<now, ledger, feed, cache, gens, heap>>, UNCHANGED readerVars,
         table' \in [Gens -> [Keys -> DOMAIN heap \cup {None}]],
         \A g \in Gens, k \in Keys : table'[g][k] # None => table'[g][k] = table[g][k]
  PROVE  Inv' /\ EntriesImprove
<1>1. CacheType'
  BY Zenon DEF Inv, CacheType
<1>2. Table'
  <2>1. ASSUME NEW g \in Gens, NEW k \in Keys, table'[g][k] # None
        PROVE  /\ g <= gens /\ EntryOf(heap[table'[g][k]], ledger[k])
               /\ \A h \in Gens, l \in Keys : table'[h][l] = table'[g][k] => h = g /\ l = k
    <3>1. table[g][k] # None /\ table'[g][k] = table[g][k]
      BY Zenon, <2>1
    <3>2. \A h \in Gens, l \in Keys : table'[h][l] = table'[g][k] => table[h][l] = table[g][k]
      BY Zenon, <2>1, <3>1
    <3>3. /\ g <= gens /\ EntryOf(heap[table[g][k]], ledger[k])
          /\ \A h \in Gens, l \in Keys : table[h][l] = table[g][k] => h = g /\ l = k
      BY Zenon, <3>1 DEF Inv, Table
    <3> QED BY Zenon, <3>1, <3>2, <3>3
  <2> QED BY Zenon, <2>1 DEF Table
<1>3. Streamed'
  <2>1. cache # 0 => cache \in Gens
    BY CacheAssumption DEF Inv, CacheType, Gens
  <2>2. \A k \in Keys : (Current(k))' = Current(k) /\ Pending(k)' = Pending(k)
    BY Zenon DEF Pending, Current, Version, Top
  <2> QED BY Zenon, <2>1, <2>2 DEF Inv, Streamed
<1>4. EntriesImprove
  <2>1. \A e \in DOMAIN heap : heap[e] \in Entry
    BY DEF Inv, CacheType
  <2> QED BY <2>1 DEF EntriesImprove, Entry
<1>5. ASSUME NEW q \in Readers, held[q] # None PROVE Kept(held[q], want[q][pos[q]])
  <2>1. \A g \in Gens, k \in Keys : table'[g][k] = held[q] => table[g][k] = held[q]
    BY Zenon, <1>5
  <2> QED BY <1>5, <2>1 DEF Inv, Readings, Reading, Pointer, Kept
<1>6. gens' \in Nat /\ gens <= gens'
  BY DEF Inv, CacheType
<1>7. CallType' /\ Readings'
  BY Zenon, <1>5, <1>6, ReadersKeep
<1> QED BY Zenon, <1>1, <1>2, <1>3, <1>4, <1>7, LedgerKeeps DEF Inv

\* CacheClear and tidy remove entries.
LEMMA RemoversKeep ==
  ASSUME Inv, Tidy \/ \E k \in Keys : CacheClear(k)
  PROVE  Inv' /\ EntriesImprove
<1>1. /\ UNCHANGED <<now, ledger, feed, cache, gens, heap>> /\ UNCHANGED readerVars /\ cache # 0
  BY Zenon DEF Tidy, CacheClear, feedVars
<1>2. table \in [Gens -> [Keys -> DOMAIN heap \cup {None}]] /\ cache \in Gens
  BY <1>1, CacheAssumption DEF Inv, CacheType, Gens
<1>3. CASE Tidy
  <2>1. PICK row \in [Keys -> DOMAIN heap \cup {None}] :
          /\ table' = [table EXCEPT ![cache] = row]
          /\ \A k \in Keys : row[k] # None => row[k] = table[cache][k]
    <3> DEFINE idle(e) == e # None /\ heap[e].lastRead < now - TTL
               row == [k \in Keys |-> IF idle(table[cache][k]) THEN None ELSE table[cache][k]]
    <3>1. table' = [table EXCEPT ![cache] = row]
      BY Zenon, <1>3 DEF Tidy
    <3>2. \A k \in Keys : table[cache][k] \in DOMAIN heap \cup {None}
      BY Zenon, <1>2
    <3> HIDE DEF idle
    <3>3. row \in [Keys -> DOMAIN heap \cup {None}]
      BY Zenon, <3>2
    <3>4. \A k \in Keys : row[k] # None => row[k] = table[cache][k]
      BY Zenon
    <3> QED BY Zenon, <3>1, <3>3, <3>4
  <2>2. table' \in [Gens -> [Keys -> DOMAIN heap \cup {None}]]
    BY Zenon, <1>2, <2>1
  <2>3. \A g \in Gens, k \in Keys : table'[g][k] # None => table'[g][k] = table[g][k]
    BY Zenon, <1>2, <2>1
  <2> QED BY Zenon, <1>1, <2>2, <2>3, RemovalKeeps
<1>4. CASE \E k \in Keys : CacheClear(k)
  <2>1. PICK k \in Keys : table' = [table EXCEPT ![cache][k] = None]
    BY Zenon, <1>4 DEF CacheClear
  <2>2. /\ table' \in [Gens -> [Keys -> DOMAIN heap \cup {None}]]
        /\ \A g \in Gens, l \in Keys : table'[g][l] # None => table'[g][l] = table[g][l]
    BY Zenon, <1>2, <2>1
  <2> QED BY Zenon, <1>1, <2>2, RemovalKeeps
<1> QED BY Zenon, <1>3, <1>4

\* Another cache, an empty one, or none.
LEMMA SwitchKeeps ==
  ASSUME Inv, EnableCache \/ DisableCache
  PROVE  Inv' /\ EntriesImprove
<1>1. UNCHANGED <<now, ledger, feed, table, heap>> /\ UNCHANGED readerVars
  BY Zenon DEF EnableCache, DisableCache, feedVars
<1>2. /\ gens \in 0 .. MaxGen /\ cache \in 0 .. gens /\ MaxGen \in Nat
      /\ gens' \in 0 .. MaxGen /\ gens <= gens' /\ cache' \in 0 .. gens'
      /\ cache' = 0 \/ (cache' = gens + 1 /\ cache' \in Gens)
  BY CacheAssumption DEF Inv, CacheType, EnableCache, DisableCache, Gens
<1>3. CacheType'
  BY Zenon, <1>1, <1>2 DEF Inv, CacheType
<1>4. Table'
  <2>1. \A g \in Gens : g <= gens => g <= gens'
    BY <1>2 DEF Gens
  <2> QED BY <1>1, <2>1 DEF Inv, Table
<1>5. Streamed'
  <2>1. ASSUME NEW k \in Keys, cache' # 0 PROVE table'[cache'][k] = None
    <3>1. cache' \in Gens /\ ~(cache' <= gens)
      BY <1>2, <2>1
    <3> QED BY Zenon, <1>1, <3>1 DEF Inv, Table
  <2> QED BY Zenon, <2>1 DEF Streamed
<1>6. EntriesImprove
  <2>1. \A e \in DOMAIN heap : heap[e] \in Entry
    BY DEF Inv, CacheType
  <2> QED BY <1>1, <2>1 DEF EntriesImprove, Entry
<1>7. \A q \in Readers : held[q] # None => Kept(held[q], want[q][pos[q]])
  BY Zenon, <1>1 DEF Inv, Readings, Reading, Pointer, Kept
<1>8. CallType' /\ Readings'
  BY <1>1, <1>2, <1>7, ReadersKeep
<1> QED BY Zenon, <1>1, <1>3, <1>4, <1>5, <1>6, <1>8, LedgerKeeps DEF Inv

\* A step that changes no more than the clock.
LEMMA TickKeeps ==
  ASSUME Inv, UNCHANGED <<feedVars, cacheVars, readerVars>>, now' \in Nat
  PROVE  Inv' /\ EntriesImprove
<1>1. /\ UNCHANGED <<ledger, feed, cache, gens, table, heap>> /\ UNCHANGED readerVars
  BY Zenon DEF feedVars, cacheVars
<1>2. LedgerType' /\ Rows' /\ Backlog'
  <2>1. LedgerType' /\ Rows'
    BY Zenon, <1>1 DEF Inv, LedgerType, Rows
  <2>2. Backlog'
    BY Zenon, <1>1 DEF Inv, Backlog, Version, Current, Top
  <2> QED BY Zenon, <2>1, <2>2
<1>3. \A q \in Readers : held[q] # None => Kept(held[q], want[q][pos[q]])
  BY <1>1 DEF Inv, Readings, Reading, Pointer, Kept
<1>4. gens' \in Nat /\ gens <= gens'
  BY <1>1 DEF Inv, CacheType
<1>5. CallType' /\ Readings'
  BY Zenon, <1>1, <1>3, <1>4, ReadersKeep
<1> QED BY Zenon, <1>1, <1>2, <1>5, CacheKeeps DEF Inv

-----------------------------------------------------------------------------
(* The feed and the ledger.                                                *)

\* What remains of the feed after its first update.
LEMMA FeedTail ==
  ASSUME NEW f \in Seq(Update), f # <<>>
  PROVE  /\ Tail(f) \in Seq(Update) /\ Head(f) \in Update
         /\ 1 \in DOMAIN f /\ Head(f) = f[1]
         /\ \A i \in DOMAIN Tail(f) : i + 1 \in DOMAIN f /\ Tail(f)[i] = f[i + 1]
         /\ \A j \in DOMAIN f : j # 1 => j - 1 \in DOMAIN Tail(f) /\ Tail(f)[j - 1] = f[j]
<1>1. Len(f) \in Nat /\ Len(f) >= 1 /\ DOMAIN f = 1 .. Len(f)
  OBVIOUS
<1>2. /\ Tail(f) \in Seq(Update) /\ Head(f) \in Update /\ Head(f) = f[1]
      /\ Len(Tail(f)) = Len(f) - 1 /\ DOMAIN Tail(f) = 1 .. Len(f) - 1
  BY <1>1
<1>3. \A i \in 1 .. Len(f) - 1 : Tail(f)[i] = f[i + 1]
  BY <1>1
<1> QED BY <1>1, <1>2, <1>3

\* Pipe writes the update into the cache of the moment, or drops it.
LEMMA PipeKeeps ==
  ASSUME Inv, Pipe
  PROVE  Inv' /\ EntriesImprove
<1>0. PICK u \in Update : u = Head(feed)
  BY Zenon, FeedTail DEF Inv, LedgerType, Pipe
<1> DEFINE k == u.key
<1>1. /\ feed # <<>> /\ feed' = Tail(feed)
      /\ UNCHANGED <<now, ledger, cache, gens>> /\ UNCHANGED readerVars
  BY Zenon DEF Pipe
<1>2. \/ cache = 0 /\ UNCHANGED <<table, heap>>
      \/ cache # 0 /\ set(cache, k, u.slot, u.slot, TRUE, FALSE)
  BY Zenon, <1>0 DEF Pipe
<1>3. /\ feed' \in Seq(Update) /\ u \in Update /\ 1 \in DOMAIN feed /\ u = feed[1]
      /\ \A i \in DOMAIN feed' : i + 1 \in DOMAIN feed /\ feed'[i] = feed[i + 1]
      /\ \A j \in DOMAIN feed : j # 1 => j - 1 \in DOMAIN feed' /\ feed'[j - 1] = feed[j]
      /\ DOMAIN feed \subseteq Nat /\ DOMAIN feed' \subseteq Nat
  <2>1. feed \in Seq(Update)
    BY Zenon DEF Inv, LedgerType
  <2>2. Tail(feed) \in Seq(Update)
    BY Zenon, <1>1, <2>1, FeedTail
  <2>3. DOMAIN feed \subseteq Nat /\ DOMAIN feed' \subseteq Nat
    BY <1>1, <2>1, <2>2
  <2> QED BY Zenon, <1>0, <1>1, <2>1, <2>3, FeedTail
<1>4. k \in Keys /\ u.slot \in Nat
  BY Zenon, <1>3 DEF Update
<1>5. /\ u.slot \in 1 .. Top(k) /\ Version(k, u.slot) = u.slot
      /\ \E j \in DOMAIN feed : feed[j].key = k /\ feed[j].slot = Current(k)
  BY Zenon, <1>3 DEF Inv, Backlog
<1>6. \A l, s : Version(l, s)' = Version(l, s) /\ Top(l)' = Top(l) /\ Current(l)' = Current(l)
  BY Zenon, <1>1 DEF Version, Top, Current
<1>7. Backlog'
  <2>1. ASSUME NEW i \in DOMAIN feed'
        PROVE  /\ feed'[i].slot \in 1 .. Top(feed'[i].key)
               /\ Version(feed'[i].key, feed'[i].slot) = feed'[i].slot
               /\ \E j \in DOMAIN feed' : /\ j >= i /\ feed'[j].key = feed'[i].key
                                          /\ feed'[j].slot = Current(feed'[i].key)
    <3>1. i + 1 \in DOMAIN feed /\ feed'[i] = feed[i + 1] /\ i \in Nat
      BY Zenon, <1>3
    <3>2. /\ feed[i + 1].slot \in 1 .. Top(feed[i + 1].key)
          /\ Version(feed[i + 1].key, feed[i + 1].slot) = feed[i + 1].slot
          /\ \E j \in DOMAIN feed : /\ j >= i + 1 /\ feed[j].key = feed[i + 1].key
                                    /\ feed[j].slot = Current(feed[i + 1].key)
      BY Zenon, <3>1 DEF Inv, Backlog
    <3>3. PICK j \in DOMAIN feed : /\ j >= i + 1 /\ feed[j].key = feed[i + 1].key
                                  /\ feed[j].slot = Current(feed[i + 1].key)
      BY Zenon, <3>2
    <3>4. 1 \in DOMAIN feed' /\ i >= 1
      BY <1>1, <1>3 DEF Inv, LedgerType
    <3>5. j # 1 /\ j - 1 >= i
      BY SMTT(30), <1>3, <3>1, <3>3, <3>4
    <3>6. j - 1 \in DOMAIN feed' /\ feed'[j - 1] = feed[j]
      BY Zenon, <1>3, <3>5
    <3> QED BY Zenon, <3>1, <3>2, <3>3, <3>5, <3>6
  <2> QED BY <1>6, <2>1 DEF Backlog
<1>8. \A l \in Keys : l # k /\ Pending(l) => Pending(l)'
  BY <1>3, <1>6 DEF Pending
<1>9. Current(k) = u.slot \/ Pending(k)'
  <2>1. PICK j \in DOMAIN feed : feed[j].key = k /\ feed[j].slot = Current(k)
    BY Zenon, <1>5
  <2>2. CASE j = 1
    BY Zenon, <1>3, <2>1, <2>2
  <2>3. CASE j # 1
    BY SMTT(30), <1>3, <1>6, <2>1, <2>3 DEF Pending
  <2> QED BY Zenon, <2>2, <2>3
<1>10. /\ CacheType' /\ Table' /\ Streamed' /\ EntriesImprove
       /\ DOMAIN heap \subseteq DOMAIN heap'
       /\ \A q \in Readers : held[q] # None => Kept(held[q], want[q][pos[q]])
  <2>1. CASE cache = 0 /\ UNCHANGED <<table, heap>>
    <3>1. \A q \in Readers : held[q] # None => Kept(held[q], want[q][pos[q]])
      <4>1. \A q \in Readers : Pointer(q)
        BY Zenon DEF Inv, Readings, Reading
      <4>2. table' = table /\ heap' = heap
        BY Zenon, <2>1
      <4>3. ASSUME NEW q \in Readers, held[q] # None PROVE Kept(held[q], want[q][pos[q]])
        <5>1. Pointer(q)
          BY Zenon, <4>1
        <5> QED BY Zenon, <4>2, <4>3, <5>1 DEF Pointer, Kept
      <4> QED BY Zenon, <4>3
    <3>2. CacheType' /\ Table' /\ Streamed'
      BY <1>1, <2>1 DEF Inv, CacheType, Table, Streamed
    <3>3. \A e \in DOMAIN heap : heap[e] \in Entry
      BY DEF Inv, CacheType
    <3>4. EntriesImprove
      BY <2>1, <3>3 DEF EntriesImprove, Entry
    <3> QED BY Zenon, <2>1, <3>1, <3>2, <3>4
  <2>2. CASE cache # 0 /\ set(cache, k, u.slot, u.slot, TRUE, FALSE)
    <3>1. cache \in Gens /\ cache <= gens /\ u.slot \in 0 .. Top(k)
      BY <1>5, <2>2, CacheAssumption DEF Inv, CacheType, Gens
    <3>2. AfterSet(cache, k, u.slot, TRUE)
      <4>1. TRUE \in BOOLEAN /\ FALSE \in BOOLEAN
        BY Zenon
      <4>2. set(cache, k, Version(k, u.slot), u.slot, TRUE, FALSE)
        BY Zenon, <1>5, <2>2
      <4> HIDE DEF k
      <4> QED BY Zenon, <1>1, <1>4, <3>1, <4>1, <4>2, SetKeeps
    <3>3. \A q \in Readers : held[q] # None => Kept(held[q], want[q][pos[q]])
      BY Zenon, <3>2, PointersKept
    <3>4. Streamed'
      <4>1. ASSUME NEW l \in Keys, table'[cache][l] # None, heap'[table'[cache][l]].streamed
            PROVE  Current(l) <= heap'[table'[cache][l]].slot \/ Pending(l)'
        <5>1. CASE l = k
          <6>1. heap'[table'[cache][l]].slot >= u.slot
            BY Zenon, <3>1, <3>2, <4>1, <5>1 DEF AfterSet
          <6>2. heap'[table'[cache][l]].slot \in Nat
            <7>1. EntryOf(heap'[table'[cache][l]], ledger'[l])
              BY Zenon, <3>1, <3>2, <4>1 DEF AfterSet, Table
            <7> QED BY <7>1 DEF EntryOf
          <6> QED BY Zenon, <1>4, <1>9, <5>1, <6>1, <6>2
        <5>2. CASE l # k
          <6>1. table'[cache][l] = table[cache][l] /\ heap'[table'[cache][l]] = heap[table[cache][l]]
            BY Zenon, <3>1, <3>2, <4>1, <5>2 DEF AfterSet
          <6> QED BY Zenon, <1>8, <2>2, <4>1, <5>2, <6>1 DEF Inv, Streamed
        <5> QED BY Zenon, <5>1, <5>2
      <4> QED BY Zenon, <1>1, <1>6, <4>1 DEF Streamed
    <3> QED BY Zenon, <3>2, <3>3, <3>4 DEF AfterSet
  <2> QED BY Zenon, <1>2, <2>1, <2>2
<1>11. LedgerType' /\ Rows'
  BY Zenon, <1>1, <1>3 DEF Inv, LedgerType, Rows
<1>12. gens' \in Nat /\ gens <= gens'
  BY <1>1 DEF Inv, CacheType
<1>13. CallType' /\ Readings'
  BY Zenon, <1>1, <1>10, <1>12, ReadersKeep
<1> QED BY Zenon, <1>7, <1>10, <1>11, <1>13 DEF Inv

\* The ledger grows by a slot: what it held stays, and the account's state is
\* the new slot's if that wrote it.
LEMMA LedgerGrows ==
  ASSUME Inv, NEW written \in SUBSET Keys, LedgerAdvances(written)
  PROVE  /\ ledger' \in [Keys -> Seq(Nat)] /\ Rows'
         /\ \A k \in Keys :
              /\ Top(k) \in Nat /\ Top(k)' = Top(k) + 1
              /\ \A s \in 0 .. Top(k) : Version(k, s)' = Version(k, s)
              /\ Current(k)' = IF k \in written THEN Top(k) + 1 ELSE Current(k)
              /\ \A e : EntryOf(e, ledger[k]) => EntryOf(e, ledger'[k])
<1> DEFINE v(k) == IF k \in written THEN Top(k) + 1 ELSE Current(k)
<1>1. ledger' = [k \in Keys |-> Append(ledger[k], v(k))]
  BY Zenon DEF LedgerAdvances
<1>2. ASSUME NEW k \in Keys
      PROVE  /\ ledger'[k] \in Seq(Nat) /\ GoodRow(ledger'[k])
             /\ Top(k) \in Nat /\ Top(k)' = Top(k) + 1
             /\ \A s \in 0 .. Top(k) : Version(k, s)' = Version(k, s)
             /\ Current(k)' = v(k)
             /\ \A e : EntryOf(e, ledger[k]) => EntryOf(e, ledger'[k])
  <2>1. PICK row : row = ledger[k]
    BY Zenon
  <2>2. PICK x : x = v(k)
    BY Zenon
  <2>3. row \in Seq(Nat) /\ GoodRow(row) /\ ledger'[k] = Append(row, x) /\ Len(row) \in Nat
    BY <1>1, <2>1, <2>2 DEF Inv, LedgerType, Rows
  <2>4. x = Len(row) + 1 \/ x = Ver(row, Len(row))
    BY Zenon, <2>1, <2>2 DEF Top, Current, Version, Ver
  <2>5. x \in Nat /\ GoodRow(Append(row, x))
    BY Zenon, <2>3, <2>4, RowGrows
  <2>6. /\ Append(row, x) \in Seq(Nat) /\ Len(Append(row, x)) = Len(row) + 1
        /\ \A s \in 0 .. Len(row) : Ver(Append(row, x), s) = Ver(row, s)
        /\ Ver(Append(row, x), Len(row) + 1) = x
    BY Zenon, <2>3, <2>5, VerAppend
  <2>7. \A e : EntryOf(e, row) => EntryOf(e, Append(row, x))
    BY Zenon, <2>3, <2>5, EntryStays
  <2>8. Top(k) = Len(row) /\ Top(k)' = Len(row) + 1
    BY Zenon, <2>1, <2>3, <2>6 DEF Top
  <2>9. \A s : Version(k, s)' = Ver(Append(row, x), s) /\ Version(k, s) = Ver(row, s)
    BY Zenon, <2>1, <2>3 DEF Version, Ver
  <2>10. Current(k)' = x
    <3>1. Current(k)' = Ver(ledger'[k], Len(ledger'[k]))
      BY Zenon DEF Current, Version, Top, Ver
    <3> QED BY Zenon, <2>3, <2>6, <3>1
  <2> QED BY <2>1, <2>2, <2>3, <2>5, <2>6, <2>7, <2>8, <2>9, <2>10
<1>3. ledger' \in [Keys -> Seq(Nat)]
  <2>1. \A k \in Keys : Append(ledger[k], v(k)) \in Seq(Nat)
    <3>1. \A k \in Keys : ledger'[k] = Append(ledger[k], v(k))
      BY Zenon, <1>1
    <3> HIDE DEF v
    <3> QED BY Zenon, <1>2, <3>1
  <2> HIDE DEF v
  <2> QED BY Zenon, <1>1, <2>1
<1> QED BY Zenon, <1>2, <1>3 DEF Rows

\* Where the parts of a concatenation are.
LEMMA ConcatParts ==
  ASSUME NEW S, NEW s \in Seq(S), NEW t \in Seq(S)
  PROVE  /\ s \o t \in Seq(S) /\ Len(s \o t) = Len(s) + Len(t)
         /\ \A i \in 1 .. Len(s) : (s \o t)[i] = s[i]
         /\ \A i \in 1 .. Len(t) : (s \o t)[Len(s) + i] = t[i]
<1>1. Len(s) \in Nat /\ Len(t) \in Nat
  OBVIOUS
<1>2. ASSUME NEW i \in 1 .. Len(t) PROVE (s \o t)[Len(s) + i] = t[i]
  <2>1. PICK m : m = Len(s) + i
    BY Zenon
  <2>2. m \in 1 .. Len(s) + Len(t) /\ m > Len(s) /\ m - Len(s) = i
    BY <1>1, <2>1
  <2>3. (s \o t)[m] = t[m - Len(s)]
    BY <1>1, <2>2
  <2> QED BY Zenon, <2>1, <2>2, <2>3
<1> QED BY <1>2

\* The slot's updates follow what the feed had; each account written has one.
LEMMA FeedGrows ==
  ASSUME Inv, NEW written \in SUBSET Keys, LedgerAdvances(written)
  PROVE  /\ feed' \in Seq(Update) /\ DOMAIN feed \subseteq DOMAIN feed'
         /\ \A i \in DOMAIN feed : feed'[i] = feed[i]
         /\ \A i \in DOMAIN feed' \ DOMAIN feed :
              feed'[i].key \in written /\ feed'[i].slot = Top(feed'[i].key) + 1
         /\ \A k \in written : \E j \in DOMAIN feed' : /\ feed'[j].key = k
                                                      /\ feed'[j].slot = Top(k) + 1
                                                      /\ \A i \in DOMAIN feed : i <= j
<1>1. PICK order \in [1 .. Cardinality(written) -> written] :
        /\ \A k \in written : \E i \in DOMAIN order : order[i] = k
        /\ feed' = feed \o [i \in DOMAIN order |-> [key |-> order[i], slot |-> Top(order[i]) + 1]]
  BY Zenon DEF LedgerAdvances
<1>2. Cardinality(written) \in Nat
  BY Zenon, CacheAssumption
<1>3. PICK n \in Nat : n = Cardinality(written)
  BY Zenon, <1>2
<1> DEFINE told == [i \in 1 .. n |-> [key |-> order[i], slot |-> Top(order[i]) + 1]]
<1>4. feed' = feed \o told /\ DOMAIN order = 1 .. n /\ feed \in Seq(Update)
  BY Zenon, <1>1, <1>3 DEF Inv, LedgerType
<1>5. \A i \in 1 .. n : order[i] \in written /\ order[i] \in Keys /\ Top(order[i]) + 1 \in Nat
  <2>1. \A i \in 1 .. n : order[i] \in written
    BY Zenon, <1>1, <1>3
  <2>2. \A k \in Keys : Top(k) + 1 \in Nat
    BY LedgerGrows
  <2> QED BY Zenon, <2>1, <2>2
<1>6. \A i \in 1 .. n : /\ told[i] \in Update /\ told[i].key = order[i]
                        /\ told[i].slot = Top(order[i]) + 1
  BY Zenon, <1>5 DEF Update
<1>7. told \in Seq(Update) /\ Len(told) = n
  BY <1>6
<1> HIDE DEF told
<1>8. /\ feed' \in Seq(Update) /\ Len(feed') = Len(feed) + n /\ Len(feed) \in Nat
      /\ DOMAIN feed = 1 .. Len(feed) /\ DOMAIN feed' = 1 .. Len(feed) + n
  <2>1. feed \o told \in Seq(Update) /\ Len(feed \o told) = Len(feed) + Len(told)
    BY Zenon, <1>4, <1>7, ConcatParts
  <2>2. feed' \in Seq(Update) /\ Len(feed') = Len(feed) + n
    BY Zenon, <1>4, <1>7, <2>1
  <2>3. DOMAIN feed = 1 .. Len(feed) /\ DOMAIN feed' = 1 .. Len(feed') /\ Len(feed) \in Nat
    BY <1>4, <2>2
  <2> QED BY Zenon, <2>2, <2>3
<1>9. /\ \A i \in 1 .. Len(feed) : feed'[i] = feed[i]
      /\ \A i \in 1 .. n : feed'[Len(feed) + i] = told[i]
  BY <1>4, <1>7, ConcatParts
<1>10. DOMAIN feed \subseteq DOMAIN feed' /\ \A i \in DOMAIN feed : feed'[i] = feed[i]
  BY <1>8, <1>9
<1>11. ASSUME NEW i \in DOMAIN feed' \ DOMAIN feed
       PROVE  feed'[i].key \in written /\ feed'[i].slot = Top(feed'[i].key) + 1
  <2>1. PICK m \in 1 .. n : i = Len(feed) + m
    <3>1. i - Len(feed) \in 1 .. n /\ i = Len(feed) + (i - Len(feed))
      BY <1>8
    <3> QED BY Zenon, <3>1
  <2>2. feed'[i] = told[m]
    BY Zenon, <1>9, <2>1
  <2> QED BY Zenon, <1>5, <1>6, <2>2
<1>12. ASSUME NEW k \in written
       PROVE  \E j \in DOMAIN feed' : /\ feed'[j].key = k /\ feed'[j].slot = Top(k) + 1
                                      /\ \A i \in DOMAIN feed : i <= j
  <2>1. PICK m \in 1 .. n : order[m] = k
    BY Zenon, <1>1, <1>4
  <2>2. Len(feed) + m \in DOMAIN feed' /\ \A i \in DOMAIN feed : i <= Len(feed) + m
    BY <1>8
  <2>3. feed'[Len(feed) + m] = told[m]
    BY Zenon, <1>9
  <2> QED BY Zenon, <1>6, <2>1, <2>2, <2>3
<1> QED BY Zenon, <1>8, <1>10, <1>11, <1>12

\* A slot of the ledger outdates entries and answers, but only while the feed
\* has still to say so.
LEMMA LedgerAdvancesKeeps ==
  ASSUME Inv, NEW written \in SUBSET Keys, LedgerAdvances(written)
  PROVE  Inv' /\ EntriesImprove
<1>1. UNCHANGED <<now, cache, gens, table, heap>> /\ UNCHANGED readerVars
  BY Zenon DEF LedgerAdvances, cacheVars
<1>2. /\ ledger' \in [Keys -> Seq(Nat)] /\ Rows'
      /\ \A k \in Keys :
           /\ Top(k) \in Nat /\ Top(k)' = Top(k) + 1
           /\ \A s \in 0 .. Top(k) : Version(k, s)' = Version(k, s)
           /\ Current(k)' = IF k \in written THEN Top(k) + 1 ELSE Current(k)
           /\ \A e : EntryOf(e, ledger[k]) => EntryOf(e, ledger'[k])
  BY Zenon, LedgerGrows
<1>3. /\ feed' \in Seq(Update) /\ DOMAIN feed \subseteq DOMAIN feed'
      /\ \A i \in DOMAIN feed : feed'[i] = feed[i]
      /\ \A i \in DOMAIN feed' \ DOMAIN feed :
           feed'[i].key \in written /\ feed'[i].slot = Top(feed'[i].key) + 1
      /\ \A k \in written : \E j \in DOMAIN feed' : /\ feed'[j].key = k
                                                   /\ feed'[j].slot = Top(k) + 1
                                                   /\ \A i \in DOMAIN feed : i <= j
  BY Zenon, FeedGrows
<1>4. LedgerType'
  BY Zenon, <1>1, <1>2, <1>3 DEF Inv, LedgerType
<1>5. \A k \in written : Pending(k)'
  BY <1>2, <1>3 DEF Pending
<1>6. \A k \in Keys \ written : Pending(k) => Pending(k)'
  BY Zenon, <1>2, <1>3 DEF Pending
<1>7. ASSUME NEW k \in written, NEW s, s = Top(k) + 1
      PROVE  Version(k, s)' = s
  <2>1. Current(k)' = s /\ Top(k)' = s
    BY Zenon, <1>2, <1>7
  <2> QED BY Zenon, <2>1 DEF Current, Version
<1>8. Backlog'
  <2>1. ASSUME NEW i \in DOMAIN feed', NEW k \in Keys, NEW s \in Nat,
               k = feed'[i].key, s = feed'[i].slot
        PROVE  /\ s \in 1 .. Top(k)' /\ Version(k, s)' = s
               /\ \E j \in DOMAIN feed' : j >= i /\ feed'[j].key = k /\ feed'[j].slot = Current(k)'
    <3>0. i \in Nat /\ Top(k) \in Nat /\ Top(k)' = Top(k) + 1
      BY <1>2, <1>3
    <3>1. CASE i \in DOMAIN feed
      <4>1. feed[i].key = k /\ feed[i].slot = s
        BY Zenon, <1>3, <2>1, <3>1
      <4>2. /\ s \in 1 .. Top(k) /\ Version(k, s) = s
            /\ \E j \in DOMAIN feed : j >= i /\ feed[j].key = k /\ feed[j].slot = Current(k)
        BY Zenon, <3>1, <4>1 DEF Inv, Backlog
      <4>3. s \in 1 .. Top(k)' /\ s \in 0 .. Top(k)
        BY <3>0, <4>2
      <4>4. Version(k, s)' = s
        BY Zenon, <1>2, <4>2, <4>3
      <4>5. CASE k \in written
        BY <1>2, <1>3, <3>1, <4>3, <4>4, <4>5, <3>0
      <4>6. CASE k \notin written
        BY Zenon, <1>2, <1>3, <4>2, <4>3, <4>4, <4>6
      <4> QED BY Zenon, <4>5, <4>6
    <3>2. CASE i \notin DOMAIN feed
      <4>1. k \in written /\ s = Top(k) + 1
        BY Zenon, <1>3, <2>1, <3>2
      <4>2. Current(k)' = s /\ s \in 1 .. Top(k)' /\ i >= i
        BY <1>2, <3>0, <4>1
      <4> QED BY Zenon, <1>7, <2>1, <4>1, <4>2
    <3> QED BY Zenon, <3>1, <3>2
  <2>2. \A i \in DOMAIN feed' : feed'[i].key \in Keys /\ feed'[i].slot \in Nat
    <3>1. \A i \in DOMAIN feed' : feed'[i] \in Update
      BY <1>3
    <3> QED BY Zenon, <3>1 DEF Update
  <2>3. ASSUME NEW i \in DOMAIN feed'
        PROVE  /\ feed'[i].slot \in 1 .. Top(feed[i].key)'
               /\ Version(feed[i].key, feed[i].slot)' = feed'[i].slot
               /\ \E j \in DOMAIN feed' : /\ j >= i /\ feed'[j].key = feed'[i].key
                                          /\ feed'[j].slot = Current(feed[i].key)'
    <3>1. PICK k \in Keys, s \in Nat : k = feed'[i].key /\ s = feed'[i].slot
      BY Zenon, <2>2
    <3>2. /\ s \in 1 .. Top(k)' /\ Version(k, s)' = s
          /\ \E j \in DOMAIN feed' : j >= i /\ feed'[j].key = k /\ feed'[j].slot = Current(k)'
      BY <2>1, <3>1
    <3> QED BY Zenon, <3>1, <3>2 DEF Top, Version, Current
  <2> QED BY Zenon, <2>3 DEF Backlog
<1>9. \A g \in Gens, k \in Keys : table[g][k] # None => EntryOf(heap[table[g][k]], ledger'[k])
  BY Zenon, <1>2 DEF Inv, Table
<1>10. CacheType' /\ Table'
  <2>1. CacheType'
    BY Zenon, <1>1 DEF Inv, CacheType
  <2>2. Table'
    BY <1>1, <1>9 DEF Inv, Table
  <2> QED BY Zenon, <2>1, <2>2
<1>11. Streamed'
  <2>1. ASSUME NEW k \in Keys, cache # 0, table[cache][k] # None, heap[table[cache][k]].streamed
        PROVE  Current(k)' <= heap[table[cache][k]].slot \/ Pending(k)'
    <3>1. CASE k \in written
      BY Zenon, <1>5, <3>1
    <3>2. CASE k \notin written
      BY Zenon, <1>2, <1>6, <2>1, <3>2 DEF Inv, Streamed
    <3> QED BY Zenon, <3>1, <3>2
  <2> QED BY Zenon, <1>1, <2>1 DEF Streamed
<1>12. EntriesImprove
  <2>1. \A e \in DOMAIN heap : heap[e] \in Entry
    BY DEF Inv, CacheType
  <2> QED BY <1>1, <2>1 DEF EntriesImprove, Entry
<1>13. UNCHANGED <<pc, mode, gen, at, want, pos, held, out, misses, answer>>
  BY Zenon, <1>1 DEF readerVars, callVars
<1>14. CallType'
  BY Zenon, <1>1, <1>13 DEF Inv, CallType
<1>15. ASSUME NEW r \in Readers PROVE Reading(r)'
  <2>1. CallType /\ Place(r) /\ Pointer(r) /\ Answered(r) /\ Found(r)
    BY Zenon DEF Inv, Readings, Reading
  <2>2. Place(r)'
    BY Zenon, <1>1, <1>13, <2>1 DEF Place, Looping
  <2>3. Pointer(r)'
    <3>1. ASSUME held[r] # None PROVE EntryOf(heap[held[r]], ledger'[want[r][pos[r]]])
      <4>1. Looping(r) /\ EntryOf(heap[held[r]], ledger[want[r][pos[r]]])
        BY Zenon, <2>1, <3>1 DEF Pointer
      <4>2. want[r][pos[r]] \in Keys
        BY <2>1, <4>1 DEF Place, CallType
      <4> QED BY Zenon, <1>2, <4>1, <4>2
    <3> QED BY Zenon, <1>1, <1>13, <2>1, <3>1 DEF Pointer, Looping
  <2>4. Answered(r)'
    <3>1. ASSUME NEW k \in Keys, pc[r] = "store", NEW s, s = answer[r].slot
          PROVE  s \in 0 .. Top(k)' /\ answer[r].data[k] = Version(k, s)'
      <4>1. s \in 0 .. Top(k) /\ answer[r].data[k] = Version(k, s)
        BY Zenon, <2>1, <3>1 DEF Answered
      <4>2. s \in 0 .. Top(k)'
        BY <1>2, <4>1
      <4> QED BY Zenon, <1>2, <4>1, <4>2
    <3>2. \A k : Version(k, answer[r].slot)' = Ver(ledger'[k], answer'[r].slot)
      BY Zenon DEF Version, Ver
    <3>3. \A k, s : Version(k, s)' = Ver(ledger'[k], s)
      BY Zenon DEF Version, Ver
    <3> QED BY Zenon, <1>13, <3>1, <3>2, <3>3 DEF Answered
  <2>5. Found(r)'
    <3>1. ASSUME NEW i \in DOMAIN want[r], NEW k \in Keys, k = want[r][i], out[r][i] # None
          PROVE  \E s \in 0 .. Top(k)' : out[r][i] = Version(k, s)'
      <4>1. PICK s \in 0 .. Top(k) : out[r][i] = Version(k, s)
        BY Zenon, <2>1, <3>1 DEF Found
      <4>2. s \in 0 .. Top(k)'
        BY <1>2
      <4> QED BY Zenon, <1>2, <4>1, <4>2
    <3>2. ASSUME NEW i \in DOMAIN want[r], out[r][i] # None
          PROVE  \E s \in 0 .. Top(want[r][i])' : out[r][i] = Version(want[r][i], s)'
      <4>1. PICK k \in Keys : k = want[r][i]
        BY <2>1 DEF CallType
      <4>2. PICK s \in 0 .. Top(k)' : out[r][i] = Version(k, s)'
        BY Zenon, <3>1, <3>2, <4>1
      <4> QED BY Zenon, <1>13, <4>1, <4>2 DEF Top, Version
    <3>3. \A i \in DOMAIN want[r] : out[r][i] = None =>
            (Looping(r)' /\ i >= pos[r]) \/ Missing(r, want[r][i])'
      BY Zenon, <1>13, <2>1 DEF Found, Looping, Missing
    <3> QED BY Zenon, <1>13, <3>2, <3>3 DEF Found
  <2> QED BY Zenon, <2>2, <2>3, <2>4, <2>5 DEF Reading
<1>16. Readings'
  BY Zenon, <1>15 DEF Readings
<1> QED BY Zenon, <1>2, <1>4, <1>8, <1>10, <1>11, <1>12, <1>14, <1>16 DEF Inv

-----------------------------------------------------------------------------
\* Every step keeps the invariant, and no entry gets worse in it.
LEMMA InvNext == ASSUME Inv, [Next]_vars PROVE Inv' /\ EntriesImprove
<1>1. CASE \E r \in Readers : \/ \E m \in {"info", "immutable", "multi"} : Begin(r, m)
                              \/ Get(r) \/ Miss(r) \/ Touch(r) \/ Serve(r) \/ NodeAnswers(r)
                              \/ Return(r) \/ Store(r)
  BY Zenon, <1>1, BeginKeeps, GetKeeps, MissKeeps, TouchKeeps, ServeKeeps, NodeAnswersKeeps,
     ReturnKeeps, StoreKeeps
<1>2. CASE Pipe
  BY Zenon, <1>2, PipeKeeps
<1>3. CASE Tidy \/ \E k \in Keys : CacheClear(k)
  BY Zenon, <1>3, RemoversKeep
<1>4. CASE EnableCache \/ DisableCache
  BY Zenon, <1>4, SwitchKeeps
<1>5. CASE Tick \/ UNCHANGED vars
  <2>1. UNCHANGED <<feedVars, cacheVars, readerVars>> /\ now' \in Nat
    BY <1>5 DEF Tick, vars, Inv, LedgerType
  <2> QED BY Zenon, <2>1, TickKeeps
<1>6. CASE \E k \in Keys, s \in 1 .. MaxSlot, immutable \in BOOLEAN : CacheStore(k, s, immutable)
  BY Zenon, <1>6, CacheStoreKeeps
<1>7. CASE \E written \in SUBSET Keys : LedgerAdvances(written)
  BY Zenon, <1>7, LedgerAdvancesKeeps
<1> QED BY Zenon, <1>1, <1>2, <1>3, <1>4, <1>5, <1>6, <1>7 DEF Next

\* The invariant of the account cache, for any keys, readers, batches and bounds.
THEOREM Invariance == Spec => []Inv
<1>1. Init => Inv
  BY Zenon, InvInit
<1>2. Inv /\ [Next]_vars => Inv'
  BY Zenon, InvNext
<1> QED BY <1>1, <1>2, PTL DEF Spec

\* accountCache.set takes no entry back, whoever writes: the feed, late answers
\* of the node, out-of-band stores; calls in flight over a replaced cache included.
THEOREM EntriesNeverRegress == Spec => EntriesOnlyImprove
<1>1. Inv /\ [Next]_vars => [EntriesImprove]_vars
  BY Zenon, InvNext
<1> QED BY <1>1, Invariance, PTL DEF Spec, EntriesOnlyImprove

\* An entry that never expires because the feed keeps it holds the current
\* state of its account whenever the feed owes it no update.
THEOREM StreamedEntryIsCurrent == Spec => []StreamedIsCurrent
<1>1. ASSUME Inv PROVE StreamedIsCurrent
  <2>1. ASSUME NEW k \in Keys, cache # 0, table[cache][k] # None,
               heap[table[cache][k]].streamed, \A i \in DOMAIN feed : feed[i].key # k
        PROVE  heap[table[cache][k]].data = Current(k)
    <3> DEFINE e == heap[table[cache][k]]
               row == ledger[k]
    <3>1. cache \in Gens
      BY <1>1, <2>1, CacheAssumption DEF Inv, CacheType, Gens
    <3>2. EntryOf(e, row) /\ row \in Seq(Nat) /\ GoodRow(row)
      BY Zenon, <1>1, <2>1, <3>1 DEF Inv, Table, LedgerType, Rows
    <3>3. Current(k) <= e.slot
      BY Zenon, <1>1, <2>1 DEF Inv, Streamed, Pending
    <3>4. Current(k) = Ver(row, Len(row)) /\ Len(row) \in 0 .. Len(row)
      BY <3>2 DEF Current, Version, Top, Ver
    <3> HIDE DEF e, row
    <3>5. Ver(row, e.slot) = Ver(row, Len(row))
      BY <3>2, <3>3, <3>4 DEF EntryOf, GoodRow
    <3>6. e.data = Current(k)
      BY Zenon, <3>2, <3>4, <3>5 DEF EntryOf
    <3> QED BY Zenon, <3>6 DEF e
  <2> QED BY Zenon, <2>1 DEF StreamedIsCurrent
<1>2. Inv => StreamedIsCurrent
  BY Zenon, <1>1
<1> QED BY <1>2, Invariance, PTL

\* GetMultipleAccounts leaves no position unanswered, and answers none with
\* anything but a state of the account asked for there.
THEOREM BatchesAnswered == Spec => []BatchAnswered
<1>1. ASSUME Inv PROVE BatchAnswered
  <2>1. TypeOK
    <3>1. \A r \in Readers : gen[r] \in 0 .. MaxGen
      <4>1. \A r \in Readers : gen[r] <= gens
        BY Zenon, <1>1 DEF Inv, Readings, Reading, Place
      <4>2. gen \in [Readers -> Nat] /\ gens \in 0 .. MaxGen
        BY Zenon, <1>1 DEF Inv, CallType, CacheType
      <4> QED BY <4>1, <4>2, CacheAssumption
    <3>2. gen \in [Readers -> 0 .. MaxGen]
      BY Zenon, <1>1, <3>1 DEF Inv, CallType
    <3>3. cache \in 0 .. MaxGen /\ gens \in 0 .. MaxGen
      BY <1>1, CacheAssumption DEF Inv, CacheType
    <3> QED BY Zenon, <1>1, <3>2, <3>3 DEF Inv, LedgerType, CacheType, CallType, TypeOK
  <2>2. ASSUME NEW r \in Readers, pc[r] = "return", NEW i \in DOMAIN want[r]
        PROVE  \E s \in 0 .. Top(want[r][i]) : out[r][i] = Version(want[r][i], s)
    <3>1. misses[r] = <<>> /\ Found(r)
      BY Zenon, <1>1, <2>2 DEF Inv, Readings, Reading, Place
    <3>2. ~Missing(r, want[r][i]) /\ ~Looping(r)
      <4>1. DOMAIN misses[r] = {}
        BY SMTT(30), <3>1
      <4> QED BY Zenon, <2>2, <4>1 DEF Missing, Looping
    <3> QED BY Zenon, <3>1, <3>2 DEF Found
  <2>3. ASSUME NEW g \in Gens, NEW k \in Keys, table[g][k] # None
        PROVE  heap[table[g][k]].data = Version(k, heap[table[g][k]].slot)
    BY <1>1, <2>3, VersionIsVer DEF Inv, Table, EntryOf
  <2> QED BY Zenon, <2>1, <2>2, <2>3 DEF BatchAnswered
<1>2. Inv => BatchAnswered
  BY Zenon, <1>1
<1> QED BY <1>2, Invariance, PTL
=============================================================================
