---------------------------- MODULE AccountCache ----------------------------
(***************************************************************************)
(* The account cache of the RPC client (src/rpc/cache.go): concurrent      *)
(* GetAccountInfo, GetAccountInfoImmutable and GetMultipleAccounts calls,  *)
(* the realtime feed (src/yellowstone/pipe.go), the janitor, CacheClear    *)
(* and the replacement of the cache.  The ledger and the RPC node, which   *)
(* may lag behind it, are external.                                        *)
(*                                                                         *)
(* What an account holds is abstracted to the slot that last wrote it, 0   *)
(* when it does not exist.  Entries are objects: a lookup takes a pointer  *)
(* under the shard lock and then reads the fields of the entry without it, *)
(* one at a time, also when the entry has left the map in the meantime.    *)
(***************************************************************************)
EXTENDS Naturals, Sequences, FiniteSets

CONSTANTS
  Keys, Readers,
  FreshFor,    \* CacheOptions.FreshFor, in ticks
  TTL,         \* CacheOptions.TTL, in ticks
  Batches,     \* key lists passed to GetMultipleAccounts
  MaxTime,     \* bound: ticks of the clock
  MaxSlot,     \* bound: slots of the ledger
  MaxEntries,  \* bound: no entry is removed once so many were allocated
  MaxGen,      \* bound: caches EnableCache creates
  None

ASSUME CacheAssumption ==
  /\ {FreshFor, TTL} \subseteq Nat \ {0}
  /\ {MaxTime, MaxSlot, MaxEntries, MaxGen} \subseteq Nat
  /\ \A written \in SUBSET Keys : Cardinality(written) \in Nat
  /\ \A b \in Batches : b \in Seq(Keys) /\ b # <<>>
  /\ None \notin Nat

VARIABLES
  now,        \* time.Now()
  ledger,     \* per key, at each slot the slot that last wrote it
  feed,       \* account updates of the stream not yet received by Pipe
  cache,      \* Client.cache: the number of the current cache, 0 if disabled
  gens,       \* how many caches were created
  table,      \* per cache and key: the entry, or None
  heap,       \* the entries
  pc, mode, gen, at, want,  \* per reader: the call it is in, its cache and clock
  pos,        \* per reader: loop index into want
  held,       \* per reader: the pointer its lookup got, or None
  out,        \* per reader: the values found so far
  misses,     \* per reader: fetchKeys
  answer      \* per reader: the node's answer, its slot and the accounts

feedVars   == <<ledger, feed>>
cacheVars  == <<cache, gens, table, heap>>
callVars   == <<mode, gen, at, want>>
readerVars == <<pc, callVars, pos, held, out, misses, answer>>
vars == <<now, feedVars, cacheVars, readerVars>>

Gens   == 1..MaxGen
Entry  == [data : Nat, slot : Nat, streamed : BOOLEAN, immutable : BOOLEAN,
           cachedAt : Nat, lastRead : Nat]
Update == [key : Keys, slot : Nat]
NoAnswer == [slot |-> 0, data |-> [k \in Keys |-> 0]]

\* The account as of a slot; Top is the newest slot.
Top(k)        == Len(ledger[k])
Version(k, s) == IF s = 0 THEN 0 ELSE ledger[k][s]
Current(k)    == Version(k, Top(k))

TypeOK ==
  /\ now \in Nat
  /\ ledger \in [Keys -> Seq(Nat)]
  /\ feed \in Seq(Update)
  /\ cache \in 0..MaxGen /\ gens \in 0..MaxGen
  /\ heap \in Seq(Entry)
  /\ table \in [Gens -> [Keys -> DOMAIN heap \cup {None}]]
  /\ pc \in [Readers -> {"idle", "get", "check", "serve", "fetch", "store", "return"}]
  /\ mode \in [Readers -> {"info", "immutable", "multi"}]
  /\ gen \in [Readers -> 0..MaxGen]
  /\ at \in [Readers -> Nat]
  /\ want \in [Readers -> Seq(Keys)]
  /\ pos \in [Readers -> Nat]
  /\ held \in [Readers -> DOMAIN heap \cup {None}]
  /\ \A r \in Readers : out[r] \in [DOMAIN want[r] -> Nat \cup {None}]
  /\ misses \in [Readers -> Seq(Keys)]
  /\ answer \in [Readers -> [slot : Nat, data : [Keys -> Nat]]]

Init ==
  /\ now = 1
  /\ ledger = [k \in Keys |-> <<>>]
  /\ feed = <<>>
  /\ cache = 0 /\ gens = 0
  /\ table = [g \in Gens |-> [k \in Keys |-> None]]
  /\ heap = <<>>
  /\ pc = [r \in Readers |-> "idle"]
  /\ mode = [r \in Readers |-> "info"]
  /\ gen = [r \in Readers |-> 0]
  /\ at = [r \in Readers |-> 0]
  /\ want = [r \in Readers |-> <<>>]
  /\ pos = [r \in Readers |-> 1]
  /\ held = [r \in Readers |-> None]
  /\ out = [r \in Readers |-> <<>>]
  /\ misses = [r \in Readers |-> <<>>]
  /\ answer = [r \in Readers |-> NoAnswer]

-----------------------------------------------------------------------------
(* accountCache.set, one critical section of the shard.                    *)

\* Mutant: a write of any slot wins.
MergedLastWins(e, data, slot, streamed, immutable) ==
  [e EXCEPT !.streamed = @ \/ streamed, !.immutable = @ \/ immutable,
            !.data = data, !.slot = slot, !.cachedAt = now]

\* An existing entry: sticky flags, slot-ordered data, and a new write time
\* in any case.
Merged(e, data, slot, streamed, immutable) ==
  [e EXCEPT !.streamed = @ \/ streamed, !.immutable = @ \/ immutable,
            !.data = IF slot >= e.slot THEN data ELSE @,
            !.slot = IF slot >= e.slot THEN slot ELSE @,
            !.cachedAt = now]

set(g, k, data, slot, streamed, immutable) ==
  \/ /\ table[g][k] = None
     /\ heap' = Append(heap,
          [data |-> data, slot |-> slot, streamed |-> streamed, immutable |-> immutable,
           cachedAt |-> now, lastRead |-> now])
     /\ table' = [table EXCEPT ![g][k] = Len(heap) + 1]
  \/ /\ table[g][k] # None
     /\ heap' = [heap EXCEPT ![table[g][k]] = Merged(@, data, slot, streamed, immutable)]
     /\ UNCHANGED table

fresh(e, t) == e.streamed \/ e.immutable \/ t < e.cachedAt + FreshFor

-----------------------------------------------------------------------------
(* The read paths.                                                         *)

Calls(m) == IF m = "multi" THEN Batches ELSE {<<k>> : k \in Keys}

\* Client.cache.Load and time.Now; with the cache disabled the call goes to
\* the node and has no effect here.
Begin(r, m) ==
  /\ pc[r] = "idle"
  /\ cache # 0
  /\ \E keys \in Calls(m) :
       /\ want' = [want EXCEPT ![r] = keys]
       /\ out' = [out EXCEPT ![r] = [i \in DOMAIN keys |-> None]]
  /\ mode' = [mode EXCEPT ![r] = m]
  /\ gen' = [gen EXCEPT ![r] = cache]
  /\ at' = [at EXCEPT ![r] = now]
  /\ pos' = [pos EXCEPT ![r] = 1]
  /\ misses' = [misses EXCEPT ![r] = <<>>]
  /\ pc' = [pc EXCEPT ![r] = "get"]
  /\ UNCHANGED <<now, feedVars, cacheVars, held, answer>>

\* accountCache.get, under the read lock.
Get(r) ==
  /\ pc[r] = "get"
  /\ held' = [held EXCEPT ![r] = table[gen[r]][want[r][pos[r]]]]
  /\ pc' = [pc EXCEPT ![r] = "check"]
  /\ UNCHANGED <<now, feedVars, cacheVars, callVars, pos, out, misses, answer>>

\* What the loop over the keys does after its step at pos: the next key, or
\* the fetch of the misses, or the return.
NextKey(r, missing) ==
  /\ pos' = [pos EXCEPT ![r] = @ + 1]
  /\ pc' = [pc EXCEPT ![r] = IF pos[r] < Len(want[r]) THEN "get"
                             ELSE IF missing # <<>> THEN "fetch" ELSE "return"]
  /\ held' = [held EXCEPT ![r] = None]

Servable(r) == held[r] # None /\ fresh(heap[held[r]], at[r])

\* lookupAt: a miss is remembered once per key.
Miss(r) ==
  /\ pc[r] = "check"
  /\ ~Servable(r)
  /\ LET k == want[r][pos[r]]
         missing == IF \E i \in DOMAIN misses[r] : misses[r][i] = k THEN misses[r]
                    ELSE Append(misses[r], k)
     IN  misses' = [misses EXCEPT ![r] = missing] /\ NextKey(r, missing)
  /\ UNCHANGED <<now, feedVars, cacheVars, callVars, out, answer>>

\* lookupAt: the entry is fresh and its read clock is set.
Touch(r) ==
  /\ pc[r] = "check"
  /\ Servable(r)
  /\ heap' = [heap EXCEPT ![held[r]].lastRead = at[r]]
  /\ pc' = [pc EXCEPT ![r] = "serve"]
  /\ UNCHANGED <<now, feedVars, cache, gens, table, callVars, pos, held, out, misses,
                 answer>>

\* lookupAt: e.data is read after all that.
Serve(r) ==
  /\ pc[r] = "serve"
  /\ out' = [out EXCEPT ![r][pos[r]] = heap[held[r]].data]
  /\ NextKey(r, misses[r])
  /\ UNCHANGED <<now, feedVars, cacheVars, callVars, misses, answer>>

\* The node answers the fetch of the misses as of some slot.
NodeAnswers(r) ==
  /\ pc[r] = "fetch"
  /\ \E s \in 0..MaxSlot :
       /\ \A k \in Keys : s <= Top(k)
       /\ answer' = [answer EXCEPT ![r] = [slot |-> s, data |-> [k \in Keys |-> Version(k, s)]]]
  /\ pc' = [pc EXCEPT ![r] = "store"]
  /\ UNCHANGED <<now, feedVars, cacheVars, callVars, pos, held, out, misses>>

\* The call returns, with the values or the error of the fetch, and its local
\* variables are gone.
Return(r) ==
  /\ pc[r] \in {"return", "fetch"}
  /\ pc' = [pc EXCEPT ![r] = "idle"]
  /\ mode' = [mode EXCEPT ![r] = "info"]
  /\ gen' = [gen EXCEPT ![r] = 0]
  /\ at' = [at EXCEPT ![r] = 0]
  /\ want' = [want EXCEPT ![r] = <<>>]
  /\ pos' = [pos EXCEPT ![r] = 1]
  /\ out' = [out EXCEPT ![r] = <<>>]
  /\ misses' = [misses EXCEPT ![r] = <<>>]
  /\ answer' = [answer EXCEPT ![r] = NoAnswer]
  /\ UNCHANGED <<now, feedVars, cacheVars, held>>

\* Mutant: the fetched value lands where the loop stopped.
FillLast(r, k) == [i \in DOMAIN out[r] |->
  IF i = Len(want[r]) THEN answer[r].data[k] ELSE out[r][i]]

\* The positions of a fetched key.
Fill(r, k) == [i \in DOMAIN out[r] |->
  IF want[r][i] = k /\ out[r][i] = None THEN answer[r].data[k] ELSE out[r][i]]

\* The loop over the fetched values, one set after the other.  An account
\* that does not exist is not cached.
Store(r) ==
  /\ pc[r] = "store"
  /\ LET k == Head(misses[r])
         a == answer[r]
     IN  /\ out' = [out EXCEPT ![r] = Fill(r, k)]
         /\ \/ a.data[k] = 0 /\ UNCHANGED <<table, heap>>
            \/ a.data[k] # 0 /\ set(gen[r], k, a.data[k], a.slot, FALSE, mode[r] = "immutable")
  /\ misses' = [misses EXCEPT ![r] = Tail(@)]
  /\ pc' = [pc EXCEPT ![r] = IF Len(misses[r]) > 1 THEN "store" ELSE "return"]
  /\ UNCHANGED <<now, feedVars, cache, gens, callVars, pos, held, answer>>

-----------------------------------------------------------------------------
(* The feed, the janitor and the user.                                     *)

\* Pipe and PipeAccounts: storeAccount into the cache of the moment.
Pipe ==
  /\ feed # <<>>
  /\ feed' = Tail(feed)
  /\ \/ cache = 0 /\ UNCHANGED <<table, heap>>
     \/ cache # 0 /\ set(cache, Head(feed).key, Head(feed).slot, Head(feed).slot, TRUE, FALSE)
  /\ UNCHANGED <<now, ledger, cache, gens, readerVars>>

\* CacheStore and CacheStoreImmutable, with data the caller got out of band.
CacheStore(k, s, immutable) ==
  /\ cache # 0
  /\ s \in 1..Top(k) /\ Version(k, s) # 0
  /\ set(cache, k, Version(k, s), s, FALSE, immutable)
  /\ UNCHANGED <<now, feedVars, cache, gens, readerVars>>

CacheClear(k) ==
  /\ cache # 0
  /\ Len(heap) < MaxEntries
  /\ table[cache][k] # None
  /\ table' = [table EXCEPT ![cache][k] = None]
  /\ UNCHANGED <<now, feedVars, cache, gens, heap, readerVars>>

\* tidy, by the janitor of the current cache or by CacheTidy.
Tidy ==
  /\ cache # 0
  /\ Len(heap) < MaxEntries
  /\ now > TTL
  /\ LET idle(e) == e # None /\ heap[e].lastRead < now - TTL
     IN  table' = [table EXCEPT ![cache] = [k \in Keys |->
                     IF idle(table[cache][k]) THEN None ELSE table[cache][k]]]
  /\ UNCHANGED <<now, feedVars, cache, gens, heap, readerVars>>

\* Mutant: enabling again brings the previous contents back.
EnableCacheKeeps ==
  /\ gens < MaxGen
  /\ gens' = gens + 1
  /\ cache' = 1
  /\ UNCHANGED <<now, feedVars, table, heap, readerVars>>

\* A new, empty cache; the calls in flight keep the one they loaded.
EnableCache ==
  /\ gens < MaxGen
  /\ gens' = gens + 1
  /\ cache' = gens + 1
  /\ UNCHANGED <<now, feedVars, table, heap, readerVars>>

DisableCache ==
  /\ cache # 0
  /\ cache' = 0
  /\ UNCHANGED <<now, feedVars, gens, table, heap, readerVars>>

Tick ==
  /\ now < MaxTime
  /\ now' = now + 1
  /\ UNCHANGED <<feedVars, cacheVars, readerVars>>

\* The cluster produces a slot that writes some of the accounts.
LedgerAdvances(written) ==
  /\ \A k \in Keys : Top(k) < MaxSlot
  /\ ledger' = [k \in Keys |->
       Append(ledger[k], IF k \in written THEN Top(k) + 1 ELSE Current(k))]
  /\ \E order \in [1..Cardinality(written) -> written] :
       /\ \A k \in written : \E i \in DOMAIN order : order[i] = k
       /\ feed' = feed \o [i \in DOMAIN order |->
                             [key |-> order[i], slot |-> Top(order[i]) + 1]]
  /\ UNCHANGED <<now, cacheVars, readerVars>>

Next ==
  \/ \E r \in Readers :
       \/ \E m \in {"info", "immutable", "multi"} : Begin(r, m)
       \/ Get(r) \/ Miss(r) \/ Touch(r) \/ Serve(r) \/ NodeAnswers(r)
       \/ Return(r) \/ Store(r)
  \/ Pipe \/ Tidy \/ EnableCache \/ DisableCache \/ Tick
  \/ \E k \in Keys : CacheClear(k)
  \/ \E k \in Keys, s \in 1..MaxSlot, immutable \in BOOLEAN : CacheStore(k, s, immutable)
  \/ \E written \in SUBSET Keys : LedgerAdvances(written)

Spec == Init /\ [][Next]_vars

-----------------------------------------------------------------------------

\* Once the feed has delivered every update of an account, the entry that is
\* served without expiry because of it holds the account's current state,
\* whatever late answers, other stores, clears and evictions came between.
StreamedIsCurrent ==
  \A k \in Keys :
    /\ cache # 0 /\ table[cache][k] # None /\ heap[table[cache][k]].streamed
    /\ \A i \in DOMAIN feed : feed[i].key # k
    => heap[table[cache][k]].data = Current(k)

\* GetMultipleAccounts answers every position, duplicates included, with a
\* state of the account asked for there, found in the cache or fetched; and
\* an entry never mixes the data of one write with the slot of another (set).
BatchAnswered ==
  /\ TypeOK
  /\ \A r \in Readers : pc[r] = "return" =>
       \A i \in DOMAIN want[r] :
         \E s \in 0..Top(want[r][i]) : out[r][i] = Version(want[r][i], s)
  /\ \A g \in Gens, k \in Keys :
       table[g][k] # None => heap[table[g][k]].data = Version(k, heap[table[g][k]].slot)

\* A write never takes an entry back to an older slot or older data, and never
\* demotes a streamed or immutable one.
EntriesImprove ==
  \A e \in DOMAIN heap :
    /\ heap'[e].slot >= heap[e].slot
    /\ heap'[e].data >= heap[e].data
    /\ heap[e].streamed => heap'[e].streamed
    /\ heap[e].immutable => heap'[e].immutable

\* So it is in every step of any actor (set).
EntriesOnlyImprove == [][EntriesImprove]_vars
=============================================================================
