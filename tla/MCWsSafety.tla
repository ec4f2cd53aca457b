----------------------------- MODULE MCWsSafety -----------------------------
(***************************************************************************)
(* One instance of WsClient that holds two scenarios, each with the part   *)
(* of the node's and the user's freedom its question needs:                *)
(*   "delivery": two ids, each used once, no Close; two notifications,     *)
(*               and a third when a buffer is full;                        *)
(*   "teardown": one id that the node reuses, one notification, Close at   *)
(*               any moment.                                               *)
(***************************************************************************)
EXTENDS WsClient, TLC

VARIABLE scenario

Symmetry == Permutations(Calls) \cup Permutations(SubIds)

\* What the steps of a scenario may do.
Allowed ==
  CASE scenario = "delivery" ->
         /\ closer' = "idle"
         /\ sent' > Buffer => sent' = sent \/ \E c \in Calls : Len(ch[c]) = Buffer
         /\ \A s \in SubIds : serverSubs[s] = None /\ serverSubs'[s] # None => uses[s] = 0
    [] scenario = "teardown" ->
         /\ \A s, t \in SubIds : uses'[s] > 0 /\ uses'[t] > 0 => s = t
         /\ sent' <= 1

SafetyInit == Init /\ scenario \in {"delivery", "teardown"}
SafetyNext == Next /\ Allowed /\ UNCHANGED scenario
SafetySpec == SafetyInit /\ [][SafetyNext]_<<vars, scenario>>
=============================================================================
