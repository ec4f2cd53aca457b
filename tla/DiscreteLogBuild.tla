-------------------------- MODULE DiscreteLogBuild --------------------------
(* buildDiscreteLogTable (src/programs/token-2022/confidential_service.go): *)
(* goroutines fill disjoint chunks of a shared slice, which becomes the     *)
(* table once all have finished.  A point is the number of times the        *)
(* basepoint was added to it, and stands for its compressed key.            *)
EXTENDS Integers, FiniteSets

CONSTANTS
  Entries,   \* the length of the slice, 65536
  Cores      \* GOMAXPROCS

ASSUME BuildAssumption == Entries \in Nat \ {0} /\ Cores \in Nat \ {0}

VARIABLES
  entries,   \* the slice; NoEntry where nothing was written
  builders,  \* the goroutines at work
  started,   \* the loop variable start
  wait,      \* the WaitGroup's counter
  table      \* the entries read after Wait, {} before

buildVars == <<entries, builders, started, wait, table>>

NoEntry == [key |-> -1, value |-> -1]
Smaller(a, b) == IF a < b THEN a ELSE b
workers == Smaller(Cores, Entries)

chunk == (Entries + workers - 1) \div workers

BuildInit ==
  /\ entries = [i \in 0 .. Entries - 1 |-> NoEntry]
  /\ builders = {} /\ started = 0 /\ wait = 0 /\ table = {}

Spawn ==
  /\ started < Entries
  /\ wait' = wait + 1
  /\ builders' = builders \cup
       {[start |-> started, value |-> started, end |-> Smaller(started + chunk, Entries), point |-> started]}
  /\ started' = started + chunk
  /\ UNCHANGED <<entries, table>>

build(b) ==
  /\ b.value < b.end
  /\ entries' = [entries EXCEPT ![b.value] = [key |-> b.point, value |-> b.value]]
  /\ builders' = (builders \ {b}) \cup
       {[start |-> b.start, value |-> b.value + 1, end |-> b.end, point |-> b.point + 1]}
  /\ UNCHANGED <<started, wait, table>>

Finish(b) ==
  /\ b.value >= b.end
  /\ builders' = builders \ {b} /\ wait' = wait - 1
  /\ UNCHANGED <<entries, started, table>>

\* Reading the slice as soon as the goroutines are started.
WaitSkipped ==
  /\ started >= Entries /\ table = {}
  /\ table' = {entries[i] : i \in 0 .. Entries - 1}
  /\ UNCHANGED <<entries, builders, started, wait>>

Wait ==
  /\ started >= Entries /\ wait = 0 /\ table = {}
  /\ table' = {entries[i] : i \in 0 .. Entries - 1}
  /\ UNCHANGED <<entries, builders, started, wait>>

BuildNext ==
  \/ Spawn
  \/ \E b \in builders : build(b)
  \/ \E b \in builders : Finish(b)
  \/ Wait

BuildSpec == BuildInit /\ [][BuildNext]_buildVars

\* The table holds every small logarithm under its own key: no entry is read
\* before it was written, whatever the number of cores and the order the
\* goroutines run in (confidential_service.go, Wait before the map is filled).
TableExact ==
  table # {} => table = {[key |-> i, value |-> i] : i \in 0 .. Entries - 1}

\* No two goroutines ever write the same element of the slice, so that the
\* unsynchronised writes race with nothing.
WritesDisjoint ==
  \A b \in builders, c \in builders : b # c => b.end <= c.start \/ c.end <= b.start

(* The inductive invariant *)
BuildType ==
  /\ entries \in [0 .. Entries - 1 -> [key : Int, value : Int]]
  /\ builders \subseteq [start : Nat, value : Nat, end : Nat, point : Nat]
  /\ IsFiniteSet(builders)
  /\ started \in Nat

BuildInv ==
  /\ BuildType
  /\ wait = Cardinality(builders)
  /\ WritesDisjoint
  /\ \A b \in builders :
       /\ b.start <= b.value /\ b.value <= b.end /\ b.end <= Entries /\ b.start < b.end
       /\ b.end <= started /\ b.point = b.value
  /\ \A i \in 0 .. Entries - 1 : i < started =>
       \/ entries[i] = [key |-> i, value |-> i]
       \/ \E b \in builders : b.value <= i /\ i < b.end
  /\ TableExact
=============================================================================
