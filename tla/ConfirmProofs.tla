--------------------------- MODULE ConfirmProofs ---------------------------
(***************************************************************************)
(* Proofs about Confirm for any set of commitments: what a call reports is *)
(* true, it leaves no subscription behind unless ctx ended before it had   *)
(* one, and a transaction it sent itself cannot be missed.                 *)
(***************************************************************************)
EXTENDS Confirm, TLAPS

\* A terminal notification that was not yet received.
Terminal == \E i \in DOMAIN inbox : ~inbox[i].received

\* Which subscription a call has at each of its steps.
Holds ==
  /\ pc \in {"start", "subscribe", "poll", "tick"} => local = "none"
  /\ pc = "subscribe" => ws /\ signed
  /\ pc \in {"poll", "tick"} => ~ws
  /\ pc = "send" => local = IF ws THEN "open" ELSE "none"
  /\ pc \in {"unsub", "done"} => local # "open"
  /\ pc = "unsub" => local = "released"
  /\ local = "released" => pc \in {"unsub", "done"}
  /\ unsubSent => pc \in {"unsub", "done"}

\* There is an outcome exactly when the call is over.
Decided == result = "none" <=> pc \notin {"cleanup", "unsub", "done"}

\* Where the transaction and the node's subscription are.  The call's own
\* transaction is unknown until it is sent, so also when the node arms.
Known ==
  /\ ~sent => stage = -1
  /\ mode = "send" /\ pc \in {"start", "subscribe", "send"} => ~sent
  /\ mode = "send" /\ ws /\ local = "none" => ~sent
  /\ mode = "send" => armedAt = -1
  /\ server # "none" => ws /\ signed
  /\ local = "open" => server \notin {"none", "refused"}
  /\ server = "canceled" => unsubSent

\* A terminal notification tells the truth and is the node's last word; it is
\* in the channel until the call has received it.
Told ==
  /\ \A i \in DOMAIN inbox : ~inbox[i].received =>
       inbox[i].failed = failed /\ stage >= want(asked) /\ server = "fired"
  /\ server = "fired" /\ pc \in {"start", "subscribe", "send", "wait"} => Terminal

\* What was reported is true; over a subscription, the node has said it.
Reported ==
  result \in {"ok", "execution"} =>
    /\ stage >= want(asked)
    /\ (result = "execution") = failed
    /\ local # "none" => server = "fired"

Released == local = "released" => (server = "fired" \/ unsubSent \/ ~conn)

\* A call that asked for a subscription and returned without one has failed:
\* the node refused it, the connection died, or ctx ended first.
Abandoned ==
  pc = "done" /\ ws /\ signed /\ local = "none" =>
    result = "error" /\ (ctxDone \/ ~conn \/ server = "refused")

\* The inductive invariant.
Inv == TypeOK /\ Holds /\ Decided /\ Known /\ Told /\ Reported /\ Released /\ Abandoned

\* Every commitment is one of three stages.
LEMMA WantType == ASSUME NEW c PROVE want(c) \in 0 .. 2
<1>1. want(c) = 0 \/ want(c) = 1 \/ want(c) = 2
  BY Zenon DEF want
<1> QED BY <1>1

\* The invariant holds when a call begins.
LEMMA InvInit == Init => Inv
<1> SUFFICES ASSUME Init PROVE Inv
  OBVIOUS
<1>1. TypeOK
  <2>1. inbox \in Seq(Note)
    BY DEF Init
  <2>2. sent \in BOOLEAN /\ stage \in -1 .. 2
    BY DEF Init
  <2>3. {ctxDone, timedOut, ticked, unsubSent, conn, replays, sent, failed} \subseteq BOOLEAN
    BY <2>2, Zenon DEF Init
  <2> QED BY <2>1, <2>2, <2>3 DEF Init, TypeOK
<1>2. Holds /\ Decided /\ Known /\ Told /\ Reported /\ Released /\ Abandoned
  BY DEF Init, Holds, Decided, Known, Told, Reported, Released, Abandoned
<1> QED BY <1>1, <1>2 DEF Inv

\* An action that ends the call without a report keeps the invariant, if it has
\* a reason to end before there is a subscription.
LEMMA EndsKeeps ==
  ASSUME Inv, NEW why \in {"timeout", "error"}, Ends(why),
         pc \notin {"cleanup", "unsub", "done"},
         UNCHANGED <<callVars, clockVars, local, unsubSent, conn, armedAt, replays, stage, failed,
                     inbox>>,
         UNCHANGED server \/ (pc = "subscribe" /\ server = "none" /\ server' = "refused"),
         pc = "start" => ~signed,
         pc = "subscribe" => why = "error" /\ (ctxDone \/ ~conn \/ server' = "refused"),
         sent' \in BOOLEAN, sent => sent', pc \notin {"send"} => sent' = sent
  PROVE  Inv'
<1> USE DEF callVars, clockVars, nodeVars
<1>1. TypeOK'
  BY DEF Inv, Ends, TypeOK, Holds
<1>2. Holds' /\ Decided'
  BY DEF Inv, Ends, Holds, Decided, TypeOK
<1>3. Known'
  BY DEF Inv, Ends, Known, TypeOK, Holds
<1>4. Told'
  BY DEF Inv, Ends, Told, Terminal
<1>5. Reported' /\ Released'
  BY DEF Inv, Ends, Reported, Released, Holds
<1>6. Abandoned'
  BY DEF Inv, Ends, Abandoned, Holds, TypeOK
<1> QED BY <1>1, <1>2, <1>3, <1>4, <1>5, <1>6 DEF Inv

\* So does a step of the clocks.
LEMMA ClocksKeep ==
  ASSUME Inv, UNCHANGED <<callVars, clientVars, nodeVars, txVars, inbox>>,
         ctxDone' \in BOOLEAN, timedOut' \in BOOLEAN, ticked' \in BOOLEAN, ctxDone => ctxDone'
  PROVE  Inv'
<1> USE DEF callVars, clientVars, nodeVars, txVars
<1>1. TypeOK'
  BY DEF Inv, TypeOK
<1>2. Holds' /\ Decided' /\ Known' /\ Reported' /\ Released' /\ Abandoned'
  BY DEF Inv, Holds, Decided, Known, Reported, Released, Abandoned
<1>3. Told'
  BY DEF Inv, Told, Terminal
<1> QED BY <1>1, <1>2, <1>3 DEF Inv

\* Every step keeps the invariant.
LEMMA InvNext == Inv /\ [Next]_vars => Inv'
<1> SUFFICES ASSUME Inv, [Next]_vars PROVE Inv'
  OBVIOUS
<1> USE DEF callVars, clockVars, clientVars, nodeVars, txVars
<1>1. CASE Begin
  <2>1. CASE ~signed
    BY <1>1, <2>1, EndsKeeps DEF Begin, Inv, TypeOK
  <2>2. CASE signed
    <3>1. TypeOK'
      BY <1>1, <2>2 DEF Begin, After, Inv, TypeOK, Holds
    <3>2. Holds' /\ Decided' /\ Known' /\ Reported' /\ Released' /\ Abandoned'
      BY <1>1, <2>2 DEF Begin, After, Inv, TypeOK, Holds, Decided, Known, Reported, Released, Abandoned
    <3>3. Told'
      BY <1>1, <2>2 DEF Begin, After, Inv, Told, Terminal
    <3> QED BY <3>1, <3>2, <3>3 DEF Inv
  <2> QED BY <1>1, <2>1, <2>2 DEF Begin
<1>2. CASE Subscribed
  <2>1. TypeOK'
    BY <1>2 DEF Subscribed, After, Inv, TypeOK
  <2>2. Holds' /\ Decided'
    BY <1>2 DEF Subscribed, After, Inv, TypeOK, Holds, Decided, Known
  <2>4. Known' /\ Reported' /\ Released' /\ Abandoned'
    BY <1>2 DEF Subscribed, After, Inv, TypeOK, Holds, Decided, Known, Reported, Released, Abandoned
  <2>3. Told'
    BY <1>2 DEF Subscribed, After, Inv, Told, Terminal
  <2> QED BY <2>1, <2>2, <2>3, <2>4 DEF Inv
<1>3. CASE SubscribeFails \/ SubscribeRefused \/ PollFails
  <2>1. CASE SubscribeFails
    BY <2>1, EndsKeeps DEF SubscribeFails, Inv, TypeOK
  <2>2. CASE SubscribeRefused
    BY <2>2, EndsKeeps DEF SubscribeRefused, Inv, TypeOK
  <2>3. CASE PollFails
    BY <2>3, EndsKeeps DEF PollFails, Inv, TypeOK
  <2> QED BY <1>3, <2>1, <2>2, <2>3
<1>4. CASE SendTransaction
  <2>1. TypeOK'
    BY <1>4 DEF SendTransaction, After, Inv, TypeOK, Holds
  <2>2. Holds' /\ Decided' /\ Known' /\ Reported' /\ Released' /\ Abandoned'
    BY <1>4 DEF SendTransaction, After, Inv, TypeOK, Holds, Decided, Known, Reported, Released, Abandoned
  <2>3. Told'
    BY <1>4 DEF SendTransaction, After, Inv, Told, Terminal
  <2> QED BY <2>1, <2>2, <2>3 DEF Inv
<1>5. CASE SendFails
  <2>0. sent \in BOOLEAN /\ sent' \in {sent, TRUE}
    BY <1>5 DEF SendFails, Inv, TypeOK
  <2>1. sent' \in BOOLEAN /\ (sent => sent')
    BY <2>0, Zenon
  <2> QED BY <1>5, <2>1, EndsKeeps DEF SendFails
<1>6. CASE RecvNote
  <2> DEFINE note == Head(inbox)
  <2>1. inbox \in Seq(Note) /\ note \in Note /\ Tail(inbox) \in Seq(Note)
    BY <1>6 DEF RecvNote, Inv, TypeOK
  <2>2. 1 \in DOMAIN inbox /\ note = inbox[1]
    BY <1>6, <2>1 DEF RecvNote
  <2>3. TypeOK'
    BY <1>6, <2>1 DEF RecvNote, Outcome, Inv, TypeOK, Note
  <2>4. Holds' /\ Decided' /\ Known' /\ Released' /\ Abandoned'
    BY <1>6 DEF RecvNote, Outcome, Inv, TypeOK, Holds, Decided, Known, Released, Abandoned
  <2>5. Reported'
    BY <1>6, <2>1, <2>2 DEF RecvNote, Outcome, Inv, TypeOK, Reported, Told, Note
  <2>6. \A i \in DOMAIN inbox' : i + 1 \in DOMAIN inbox /\ inbox'[i] = inbox[i + 1]
    BY <1>6, <2>1 DEF RecvNote
  <2>7. \A i \in DOMAIN inbox \ {1} : i - 1 \in DOMAIN inbox' /\ inbox'[i - 1] = inbox[i]
    BY <1>6, <2>1 DEF RecvNote
  <2>8. Told'
    <3>1. \A i \in DOMAIN inbox' : ~inbox'[i].received =>
            inbox'[i].failed = failed /\ stage >= want(asked) /\ server = "fired"
      BY <2>6 DEF Inv, Told
    <3>2. ASSUME server = "fired", pc' = "wait" PROVE Terminal'
      <4>1. PICK i \in DOMAIN inbox : ~inbox[i].received
        BY <1>6, <3>2 DEF RecvNote, Inv, Told, Terminal
      <4>2. inbox[1].received
        BY <1>6, <2>2, <3>2 DEF RecvNote, Outcome
      <4>3. i # 1
        BY <4>1, <4>2
      <4> QED BY <2>7, <4>1, <4>3 DEF Terminal
    <3> QED BY <1>6, <3>1, <3>2 DEF RecvNote, Told
  <2> QED BY <2>3, <2>4, <2>5, <2>8 DEF Inv
<1>7. CASE RecvFails
  BY <1>7, EndsKeeps DEF RecvFails, Inv, TypeOK
<1>8. CASE Cleanup
  <2>1. TypeOK'
    BY <1>8 DEF Cleanup, Inv, TypeOK, Decided
  <2>2. Holds' /\ Decided' /\ Known' /\ Reported' /\ Released' /\ Abandoned'
    BY <1>8 DEF Cleanup, NeedsUnsubscribe, Inv, TypeOK, Holds, Decided, Known, Reported, Released, Abandoned
  <2>3. Told'
    BY <1>8 DEF Cleanup, Inv, Told, Terminal
  <2> QED BY <2>1, <2>2, <2>3 DEF Inv
<1>9. CASE UnsubscribeReturns
  <2>1. TypeOK'
    BY <1>9 DEF UnsubscribeReturns, Inv, TypeOK, Decided
  <2>2. Holds' /\ Decided' /\ Known' /\ Reported' /\ Released' /\ Abandoned'
    BY <1>9 DEF UnsubscribeReturns, Inv, TypeOK, Holds, Decided, Known, Reported, Released, Abandoned
  <2>3. Told'
    BY <1>9 DEF UnsubscribeReturns, Inv, Told, Terminal
  <2> QED BY <2>1, <2>2, <2>3 DEF Inv
<1>10. ASSUME pc \in {"poll", "tick"}, pc' \in {"poll", "tick"}, ticked' \in BOOLEAN,
              UNCHANGED <<callVars, ctxDone, timedOut, result, local, unsubSent, nodeVars,
                          txVars, inbox>>
       PROVE  Inv'
  <2>1. TypeOK'
    BY <1>10 DEF Inv, TypeOK
  <2>2. Holds' /\ Decided' /\ Known' /\ Reported' /\ Released' /\ Abandoned'
    BY <1>10 DEF Inv, Holds, Decided, Known, Reported, Released, Abandoned
  <2>3. Told'
    BY <1>10 DEF Inv, Told, Terminal
  <2> QED BY <2>1, <2>2, <2>3 DEF Inv
<1>11. CASE Poll
  <2>1. PICK s \in -1 .. stage, omitted \in BOOLEAN :
          \/ /\ s >= 0 /\ reached(s, omitted)
             /\ Ends(IF failed THEN "execution" ELSE "ok")
          \/ /\ s < 0 \/ ~reached(s, omitted)
             /\ pc' = "tick" /\ UNCHANGED result
    BY <1>11 DEF Poll
  <2>2. CASE pc' = "tick" /\ UNCHANGED result
    BY <1>10, <1>11, <2>2 DEF Poll, Inv, TypeOK
  <2>3. CASE s >= 0 /\ reached(s, omitted) /\ Ends(IF failed THEN "execution" ELSE "ok")
    <3>1. stage >= want(asked)
      BY <2>3, WantType DEF reached, Inv, TypeOK
    <3>2. local = "none" /\ pc' = "done" /\ result' = IF failed THEN "execution" ELSE "ok"
      BY <1>11, <2>3 DEF Poll, Ends, Inv, Holds
    <3>3. TypeOK'
      BY <1>11, <3>2 DEF Poll, Inv, TypeOK
    <3>4. Holds' /\ Decided' /\ Known' /\ Reported' /\ Released' /\ Abandoned'
      BY <1>11, <3>1, <3>2
      DEF Poll, Inv, TypeOK, Holds, Decided, Known, Reported, Released, Abandoned
    <3>5. Told'
      BY <1>11, <3>2 DEF Poll, Inv, Told, Terminal
    <3> QED BY <3>3, <3>4, <3>5 DEF Inv
  <2> QED BY <2>1, <2>2, <2>3
<1>12. CASE PollAborted \/ TakeTick
  BY <1>10, <1>12 DEF PollAborted, TakeTick, Inv, TypeOK
<1>13. CASE WaitDone
  BY <1>13, EndsKeeps DEF WaitDone, Inv, TypeOK
<1>14. CASE Ticker \/ Timeout \/ CtxEnds
  <2>1. UNCHANGED <<callVars, clientVars, nodeVars, txVars, inbox>>
    BY <1>14 DEF Ticker, Timeout, CtxEnds
  <2>2. ctxDone' \in BOOLEAN /\ timedOut' \in BOOLEAN /\ ticked' \in BOOLEAN
    BY <1>14 DEF Ticker, Timeout, CtxEnds, Inv, TypeOK
  <2>3. ctxDone => ctxDone'
    BY <1>14 DEF Ticker, Timeout, CtxEnds
  <2> QED BY <2>1, <2>2, <2>3, ClocksKeep
<1>15. CASE ConnDies
  <2>1. TypeOK'
    BY <1>15, conn' \in BOOLEAN DEF ConnDies, Inv, TypeOK
  <2>2. Holds' /\ Decided' /\ Known' /\ Reported' /\ Released' /\ Abandoned'
    BY <1>15 DEF ConnDies, Inv, Holds, Decided, Known, Reported, Released, Abandoned
  <2>3. Told'
    BY <1>15 DEF ConnDies, Inv, Told, Terminal
  <2> QED BY <2>1, <2>2, <2>3 DEF Inv
<1>16. CASE NodeArms
  <2>1. TypeOK'
    BY <1>16 DEF NodeArms, Inv, TypeOK
  <2>2. Holds' /\ Decided' /\ Reported' /\ Released'
    BY <1>16 DEF NodeArms, Requested, Inv, TypeOK, Holds, Decided, Known, Reported, Released
  <2>3. Known'
    BY <1>16 DEF NodeArms, Requested, Inv, TypeOK, Holds, Known
  <2>4. Told'
    BY <1>16 DEF NodeArms, Inv, Told, Terminal
  <2>5. Abandoned'
    BY <1>16 DEF NodeArms, Inv, Abandoned
  <2> QED BY <2>1, <2>2, <2>3, <2>4, <2>5 DEF Inv
<1>17. ASSUME NEW note \in Note, NodeReports(note) PROVE
         /\ inbox' \in Seq(Note)
         /\ Terminal => Terminal'
         /\ local # "released" /\ ~note.received => Terminal'
         /\ \A i \in DOMAIN inbox' :
              inbox'[i] = note \/ (i \in DOMAIN inbox /\ inbox'[i] = inbox[i])
  <2>1. inbox \in Seq(Note)
    BY DEF Inv, TypeOK
  <2>2. CASE local = "released"
    BY <1>17, <2>1, <2>2 DEF NodeReports, Terminal
  <2>3. CASE local # "released"
    <3>1. inbox' = Append(inbox, note)
      BY <1>17, <2>3 DEF NodeReports
    <3>2. /\ inbox' \in Seq(Note) /\ Len(inbox') = Len(inbox) + 1
          /\ inbox'[Len(inbox) + 1] = note
      BY <2>1, <3>1
    <3>3. \A i \in DOMAIN inbox : i \in DOMAIN inbox' /\ inbox'[i] = inbox[i]
      BY <2>1, <3>1
    <3>4. \A i \in DOMAIN inbox' : inbox'[i] = note \/ (i \in DOMAIN inbox /\ inbox'[i] = inbox[i])
      BY <2>1, <3>1
    <3>5. Len(inbox) + 1 \in DOMAIN inbox'
      BY <2>1, <3>2
    <3> QED BY <3>2, <3>3, <3>4, <3>5 DEF Terminal
  <2> QED BY <2>2, <2>3
<1>18. CASE NodeNotifies
  <2> DEFINE note == [failed |-> failed, received |-> FALSE]
  <2>1. note \in Note /\ NodeReports(note)
    BY <1>18 DEF NodeNotifies, Inv, TypeOK, Note
  <2> HIDE DEF note
  <2>2. TypeOK'
    BY <1>17, <1>18, <2>1 DEF NodeNotifies, Inv, TypeOK
  <2>3. Holds' /\ Decided' /\ Known' /\ Reported' /\ Released' /\ Abandoned'
    BY <1>18 DEF NodeNotifies, Inv, TypeOK, Holds, Decided, Known, Reported, Released, Abandoned
  <2>4. ~note.received /\ note.failed = failed
    BY DEF note
  <2>5. \A i \in DOMAIN inbox' : ~inbox'[i].received =>
          inbox'[i].failed = failed /\ stage >= want(asked)
    BY <1>17, <1>18, <2>1, <2>4 DEF NodeNotifies, Inv, Told
  <2>6. pc \in {"start", "subscribe", "send", "wait"} => Terminal'
    BY <1>17, <2>1, <2>4 DEF Inv, Holds
  <2>7. Told'
    BY <1>18, <2>5, <2>6 DEF NodeNotifies, Told
  <2> QED BY <2>2, <2>3, <2>7 DEF Inv
<1>19. CASE NodeReceived
  <2> DEFINE note == [failed |-> FALSE, received |-> TRUE]
  <2>1. note \in Note /\ NodeReports(note) /\ note.received
    BY <1>19 DEF NodeReceived, Note
  <2> HIDE DEF note
  <2>2. TypeOK'
    BY <1>17, <1>19, <2>1 DEF NodeReceived, Inv, TypeOK
  <2>3. Holds' /\ Decided' /\ Known' /\ Reported' /\ Released' /\ Abandoned'
    BY <1>19 DEF NodeReceived, Inv, TypeOK, Holds, Decided, Known, Reported, Released, Abandoned
  <2>4. Told'
    BY <1>17, <1>19, <2>1 DEF NodeReceived, Inv, Told
  <2> QED BY <2>2, <2>3, <2>4 DEF Inv
<1>20. CASE NodeUnsubscribes
  <2>1. TypeOK'
    BY <1>20 DEF NodeUnsubscribes, Inv, TypeOK
  <2>2. Holds' /\ Decided' /\ Known' /\ Reported' /\ Released' /\ Abandoned'
    BY <1>20 DEF NodeUnsubscribes, Inv, TypeOK, Holds, Decided, Known, Reported, Released, Abandoned
  <2>3. Told'
    BY <1>20 DEF NodeUnsubscribes, Inv, Told, Terminal
  <2> QED BY <2>1, <2>2, <2>3 DEF Inv
<1>21. CASE ClusterAdvances
  <2>0. stage' >= stage /\ stage \in -1 .. 2 /\ want(asked) \in 0 .. 2
    BY <1>21, WantType DEF ClusterAdvances, Inv, TypeOK
  <2>1. TypeOK'
    BY <1>21 DEF ClusterAdvances, Inv, TypeOK
  <2>2. Holds' /\ Decided' /\ Known' /\ Released' /\ Abandoned'
    BY <1>21 DEF ClusterAdvances, Inv, TypeOK, Holds, Decided, Known, Released, Abandoned
  <2>3. Reported'
    BY <1>21, <2>0 DEF ClusterAdvances, Inv, TypeOK, Reported
  <2>4. Told'
    BY <1>21, <2>0 DEF ClusterAdvances, Inv, TypeOK, Told, Terminal
  <2> QED BY <2>1, <2>2, <2>3, <2>4 DEF Inv
<1>22. CASE UNCHANGED vars
  BY <1>22, ClocksKeep DEF vars, Inv, TypeOK
<1> QED
  BY <1>1, <1>2, <1>3, <1>4, <1>5, <1>6, <1>7, <1>8, <1>9, <1>11, <1>12, <1>13, <1>14, <1>15,
     <1>16, <1>18, <1>19, <1>20, <1>21, <1>22
  DEF Next, Client, Environment

\* The invariant holds throughout every call.
THEOREM Invariance == Spec => []Inv
  BY InvInit, InvNext, PTL DEF Spec

\* SendAndConfirm and WaitForConfirmation report success, or an execution
\* error, only of a transaction that reached the commitment asked for and ended
\* that way, whichever commitment that is and however answers, notifications,
\* timeouts and the end of the connection interleave.
THEOREM OutcomeCorrect == Spec => []OutcomeIsTrue
<1>1. Inv => OutcomeIsTrue
  BY DEF Inv, OutcomeIsTrue, Reported, want
<1> QED BY <1>1, Invariance, PTL

\* A call that has returned has released its subscription, and the node's one
\* has fired, was asked to go or went with the connection (cleanupSubscription);
\* one that the node set up, or will set up, for a call that ctx ended before
\* the answer is the only other, and such a call failed and has sent nothing.
THEOREM SubscriptionsReleased == Spec => []NothingLeftBehind
<1>1. Inv => NothingLeftBehind
  BY DEF Inv, NothingLeftBehind, TypeOK, Holds, Known, Released, Abandoned
<1> QED BY <1>1, Invariance, PTL

\* SendAndConfirm subscribes before it sends, so that the notification about
\* the transaction it sent is in the channel or still due for as long as it
\* waits on a live connection.
THEOREM SentIsSeen == Spec => []SendIsNotMissed
<1>1. ASSUME Inv PROVE SendIsNotMissed
  <2>1. want(asked) \in 0 .. 2
    BY WantType
  <2> SUFFICES ASSUME mode = "send", pc = "wait"
               PROVE  Terminal \/ (server = "armed" /\ armedAt < want(asked))
    BY DEF SendIsNotMissed, Terminal
  <2>2. local = "open" /\ ~unsubSent /\ armedAt = -1
    BY <1>1 DEF Inv, TypeOK, Holds, Known
  <2>3. server = "armed" \/ server = "fired"
    BY <1>1, <2>2 DEF Inv, TypeOK, Known
  <2> QED BY <1>1, <2>1, <2>2, <2>3 DEF Inv, Told
<1> QED BY <1>1, Invariance, PTL
=============================================================================
