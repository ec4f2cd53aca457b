----------------------------- MODULE MCConfirm -----------------------------
(* Instances of Confirm and of RpcClient: in the scenario "confirm" one    *)
(* call confirms a transaction, in "bodies" two calls share the response   *)
(* buffers, in "headers" headers are set while two calls, one of them      *)
(* streaming, are made.                                                    *)
EXTENDS Confirm, RpcClient

CONSTANTS Plain, Item, Stream   \* calls

VARIABLE scenario

Commitments == {"processed", "confirmed", "finalized", ""}
ThreeCalls  == {Plain, Item, Stream}
JustItem    == {Item}
JustStream  == {Stream}

allVars == <<vars, rpcVars, scenario>>

ScenarioInit ==
  /\ Init /\ RpcInit
  /\ scenario \in {"confirm", "bodies", "headers"}
  /\ scenario # "confirm" => mode = "wait" /\ ws /\ asked = "" /\ ~sent /\ ~failed /\ ~replays

Allowed ==
  \/ scenario = "bodies" /\ settings' = 0 /\ at'[Stream] = "idle"
  \/ scenario = "headers" /\ at'[Item] = "idle"
       /\ \A c \in Calls : answer'[c] # Nothing => answer'[c].kind = "value"

ScenarioNext ==
  /\ UNCHANGED scenario
  /\ \/ scenario = "confirm" /\ Next /\ UNCHANGED rpcVars
     \/ scenario # "confirm" /\ RpcNext /\ Allowed /\ UNCHANGED vars

Confirming(A) == scenario = "confirm" /\ A /\ UNCHANGED <<rpcVars, scenario>>
Calling(A)    == scenario # "confirm" /\ A /\ Allowed /\ UNCHANGED <<vars, scenario>>

\* ClientFairness of Confirm, and the fair steps of a call in RpcClient.
ScenarioFairness ==
  /\ WF_allVars(Confirming(Begin)) /\ WF_allVars(Confirming(Subscribed))
  /\ WF_allVars(Confirming(SubscribeFails))
  /\ WF_allVars(Confirming(RecvNote)) /\ WF_allVars(Confirming(RecvFails))
  /\ WF_allVars(Confirming(Cleanup)) /\ WF_allVars(Confirming(UnsubscribeReturns))
  /\ WF_allVars(Confirming(PollAborted)) /\ WF_allVars(Confirming(TakeTick))
  /\ SF_allVars(Confirming(WaitDone)) /\ WF_allVars(Confirming(Timeout))
  /\ \A c \in Calls : WF_allVars(Calling(CallStep(c)))

ScenarioSpec == ScenarioInit /\ [][ScenarioNext]_allVars /\ ScenarioFairness
=============================================================================
