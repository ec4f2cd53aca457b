------------------------------ MODULE MCCache ------------------------------
(***************************************************************************)
(* One instance of both parts of the RPC client's cache that holds five    *)
(* scenarios, each with bounds for its question.  Of AccountCache:         *)
(*   "order":   one account that changes twice, and time for both the      *)
(*              freshness window and the idle limit to pass;               *)
(*   "pinned":  the same account, also stored as one that never changes,   *)
(*              and time for the freshness window to pass;                 *)
(*   "replace": the cache is created twice, disabled in between;           *)
(*   "batch":   calls for several positions of two accounts.               *)
(* Of HeadCache, whose lookups and stores share no state with those:       *)
(*   "heads":   slots at several commitments, and the block metadata of    *)
(*              one of them.                                               *)
(***************************************************************************)
EXTENDS AccountCache, HeadCache, Functions

CONSTANTS k1, k2

VARIABLE scenario

Batch == {<<k1, k2, k1>>}

\* The heads share no state, so every kind of head has a workload of its own.
Users ==
  {[called |-> {"GetSlot"}, asked |-> {""}, feed |-> -1, slots |-> {0, 2}],
   [called |-> {"GetSlot"}, asked |-> {"processed"}, feed |-> -1, slots |-> {0}],
   [called |-> {"GetSlot"}, asked |-> {"max"}, feed |-> -1, slots |-> {}],
   [called |-> {"GetBlockHeight"}, asked |-> {"confirmed"}, feed |-> 1, slots |-> {}],
   [called |-> {"GetLatestBlockhash", "IsBlockhashValid"}, asked |-> {"confirmed"},
    feed |-> 1, slots |-> {}]}

Limits ==
  CASE scenario = "order"   -> [keys |-> {k1}, modes |-> {"info"},
                                time |-> 3, slots |-> 2, gens |-> 1]
    [] scenario = "pinned"  -> [keys |-> {k1}, modes |-> {"info", "immutable"},
                                time |-> 2, slots |-> 2, gens |-> 1]
    [] scenario = "replace" -> [keys |-> {k1}, modes |-> {"info"},
                                time |-> 1, slots |-> 2, gens |-> 2]
    [] scenario = "batch"   -> [keys |-> Keys, modes |-> {"multi"},
                                time |-> 2, slots |-> 1, gens |-> 1]

Allowed ==
  LET l == Limits
  IN  /\ now' <= l.time
      /\ gens' <= l.gens
      /\ \A k \in Keys : Len(ledger'[k]) <= l.slots
      /\ \A k \in Keys \ l.keys : Range(ledger'[k]) \subseteq {0}
      /\ \A r \in Readers : want'[r] # <<>> =>
           (mode'[r] \in l.modes /\ Range(want'[r]) \subseteq l.keys)
      /\ \A e \in DOMAIN heap' : heap'[e].immutable => "immutable" \in l.modes

CacheInit ==
  /\ Init /\ HeadInit
  /\ scenario \in {"order", "pinned", "replace", "batch", "heads"}
  \* The accounts scenarios need only one workload of the heads.
  /\ scenario # "heads" => workload.asked = {"max"}

AccountStep == scenario # "heads" /\ Next /\ Allowed /\ UNCHANGED headCacheVars
HeadStep    == scenario = "heads" /\ HeadNext /\ UNCHANGED vars

CacheNext == (AccountStep \/ HeadStep) /\ UNCHANGED scenario
CacheSpec == CacheInit /\ [][CacheNext]_<<vars, headCacheVars, scenario>>
=============================================================================
