--------------------------- MODULE MCTransaction ---------------------------
(***************************************************************************)
(* An instance of the transaction modules with three scenarios: "compile"  *)
(* builds messages from many instructions, "sign" signs, edits and sends a *)
(* few, "wire" writes and reads bytes.                                     *)
(***************************************************************************)
EXTENDS TransactionForms, TLC

VARIABLE scenario

Meta(k, s, w) == [key |-> k, signer |-> s, writable |-> w]
Ix(p, accounts) == [program |-> p, accounts |-> accounts, data |-> <<p>>, encodes |-> TRUE]

\* Each role of each of three keys, alone and in pairs.
Single == {<<Meta(k, s, w)>> : k \in 1..3, s \in BOOLEAN, w \in BOOLEAN}
Pairs  == {<<Meta(1, s, w), Meta(2, t, v)>> : s, w, t, v \in BOOLEAN}
Many   == {Ix(p, a) : p \in {0, 3}, a \in Single \cup Pairs}
            \cup {[program |-> 0, accounts |-> <<>>, data |-> <<>>, encodes |-> FALSE]}

\* One, two and three signers; the last one with an account to load.
OneSigner  == Ix(0, <<Meta(1, TRUE, TRUE)>>)
TwoSigners == Ix(0, <<Meta(1, TRUE, TRUE), Meta(2, TRUE, FALSE)>>)
Loads      == Ix(0, <<Meta(1, TRUE, TRUE), Meta(3, FALSE, TRUE)>>)
Few        == {OneSigner, TwoSigners, Loads}

\* What the builder holds when a transaction is signed; a later one may replace
\* the message of an earlier one.
Short == {<<>>, <<OneSigner>>, <<TwoSigners>>, <<Loads>>, <<OneSigner, TwoSigners>>,
          <<TwoSigners, Loads>>}

All == Many \cup Few

TwoTables == 8 :> <<3, 2>> @@ 9 :> <<2, 1, 0>>
OneTable  == 9 :> <<2, 3>>
\* A table with key 3 at its last place: as long as an index can tell, or longer.
LastOf(n)  == 9 :> [i \in 1..n |-> IF i = n THEN 3 ELSE 100 + i]
LongTables == {LastOf(256), LastOf(257)}

Tables == {TwoTables, OneTable} \cup LongTables

Keyrings == {{1}, {2}, {1, 2}}

-----------------------------------------------------------------------------
(* What goes over the wire.                                                *)

Compiled(p, accounts, data) == [program |-> p, accounts |-> accounts, data |-> data]
Head3(r, s, u) == [required |-> r, readonlySigned |-> s, readonlyUnsigned |-> u]
LongData == [i \in 1..130 |-> i % 3]
Bodies == {<<>>, <<Compiled(2, <<0, 1>>, <<5>>)>>,
           <<Compiled(257, <<258>>, <<>>), Compiled(1, <<>>, <<0, 255>>)>>}
Lookups == {<<>>, <<[table |-> 300, writable |-> <<1>>, readonly |-> <<>>]>>,
            <<[table |-> 9, writable |-> <<>>, readonly |-> <<0, 2>>],
              [table |-> 8, writable |-> <<3>>, readonly |-> <<4>>]>>}
Message(v, h, keys, ixs, lookups) ==
  [version |-> v, keys |-> keys, header |-> h, hash |-> 513, lookups |-> lookups,
   instructions |-> ixs]

MCMessages ==
  {Message(v, Head3(1, 0, 1), <<1, 256, 770>>, ixs, lookups) :
     v \in {"legacy", "v0"}, ixs \in Bodies, lookups \in Lookups}
  \cup {Message(v, Head3(127, 1, 0), <<>>, <<>>, <<>>) : v \in {"legacy", "v0"}}
  \cup {Message("v0", Head3(0, 0, 0), <<1>>, <<Compiled(0, <<>>, LongData)>>, <<>>)}

MCTransactions ==
  {[form |-> "legacy", message |-> Message(v, Head3(r, 1, 0), <<1, 256>>, ixs, lookups),
    sigs |-> sigs] :
     v \in {"legacy", "v0"}, r \in {1, 2}, ixs \in {i \in Bodies : Len(i) < 2},
     lookups \in {l \in Lookups : Len(l) = 1}, sigs \in {<<>>, <<7, 258>>}}

Config(fee, units, loaded, heap) ==
  [fee |-> fee, units |-> units, loaded |-> loaded, heap |-> heap]
MCTransactionsV1 ==
  {[form |-> "v1", config |-> c, sigs |-> <<7>>,
    message |-> Message("legacy", Head3(1, 0, 1), <<1, 256, 770>>, ixs, <<>>)] :
     c \in {Config(<<>>, <<>>, <<>>, <<>>), Config(<<258>>, <<>>, <<4>>, <<>>),
            Config(<<>>, <<3>>, <<>>, <<8>>), Config(<<513>>, <<1>>, <<2>>, <<12>>),
            Config(<<>>, <<>>, <<>>, <<9>>)},
     ixs \in {<<>>, <<Compiled(2, <<0, 1>>, <<5>>)>>,
              <<Compiled(0, <<>>, <<6, 7>>), Compiled(1, <<2>>, <<>>)>>,
              <<Compiled(1, <<2>>, [i \in 1..13 |-> i])>>}}
  \cup {[form |-> "v1", config |-> Config(<<>>, <<>>, <<4>>, <<>>), sigs |-> <<7, 258>>,
         message |-> Message("legacy", Head3(2, 1, 0), <<1, 256, 770>>, <<>>, <<>>)]}

-----------------------------------------------------------------------------
Allowed ==
  \/ scenario = "compile" /\ tx' = NoTx /\ hash' = 0
       /\ (tables' \in LongTables => Len(instructions') <= 1)
  \/ scenario = "sign" /\ instructions' \in Short
       /\ payer' = 0 /\ tables' \in {NoTables, OneTable}

ScenarioInit == InitTx /\ InitWire /\ scenario \in {"compile", "sign", "wire"}
ScenarioNext ==
  /\ UNCHANGED scenario
  /\ \/ scenario # "wire" /\ NextTx /\ Allowed /\ UNCHANGED wire
     \/ scenario = "wire" /\ NextWire /\ UNCHANGED <<vars, txVars>>
ScenarioSpec == ScenarioInit /\ [][ScenarioNext]_<<vars, txVars, wire, scenario>>
=============================================================================
