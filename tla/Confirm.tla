------------------------------- MODULE Confirm -------------------------------
(***************************************************************************)
(* One SendAndConfirmWithOpts or WaitForConfirmation call                  *)
(* (src/confirm/confirm.go), over the WebSocket subscription or by polling *)
(* getSignatureStatuses.  The subscription behaves as the contract that    *)
(* WsClient implements; cluster, node and connection are external.         *)
(*                                                                         *)
(* A transaction's stage is -1 until a block has it, then 0 processed,     *)
(* 1 confirmed, 2 finalized.                                               *)
(***************************************************************************)
EXTENDS Integers, Sequences

CONSTANT Asked  \* Opts.Commitment values

VARIABLES
  mode, signed, ws, asked,    \* the call: method, arguments, WebSocket or not
  pc, result,
  local,                      \* the Subscription: "none", "open" or "released"
  inbox,                      \* its channel
  ctxDone, timedOut, ticked,  \* ctx, the timeout of waitCtx, ticker.C
  unsubSent,                  \* the unsubscribe request was sent
  conn,                       \* the WebSocket connection lives
  server, armedAt,            \* the node's subscription, the stage at its start
  replays,                    \* does the node report what was reached before that?
  sent, stage, failed         \* the transaction: known, stage, failed in execution

callVars   == <<mode, signed, ws, asked>>
clockVars  == <<ctxDone, timedOut, ticked>>
clientVars == <<pc, result, local, unsubSent>>
nodeVars   == <<conn, server, armedAt, replays>>
txVars     == <<sent, stage, failed>>
vars == <<callVars, clockVars, clientVars, nodeVars, txVars, inbox>>

\* Mutant: the empty commitment is processed.
wantLowest(c) == CASE c \in {"processed", ""} -> 0 [] c = "confirmed" -> 1 [] OTHER -> 2

\* The empty commitment is finalized, for both ways to wait.
want(c) == IF c = "processed" THEN 0 ELSE IF c = "confirmed" THEN 1 ELSE 2

Note == [failed : BOOLEAN, received : BOOLEAN]

\* A signature to wait for was sent elsewhere and may be at any stage.
Init ==
  /\ mode \in {"send", "wait"} /\ signed \in BOOLEAN /\ ws \in BOOLEAN /\ asked \in Asked
  /\ mode = "wait" => signed
  /\ pc = "start" /\ result = "none" /\ local = "none" /\ inbox = <<>>
  /\ ctxDone = FALSE /\ timedOut = FALSE /\ ticked = FALSE /\ unsubSent = FALSE
  /\ conn = TRUE /\ server = "none" /\ armedAt = -1 /\ replays \in BOOLEAN
  /\ sent \in BOOLEAN /\ (mode = "send" => ~sent)
  /\ stage \in (IF sent THEN -1..2 ELSE {-1})
  /\ failed \in BOOLEAN

-----------------------------------------------------------------------------
(* Subscribe and send.                                                     *)

\* Mutant: send, then subscribe.
AfterSendFirst(step) ==
  CASE step = "start"     -> IF mode = "send" THEN "send" ELSE IF ws THEN "subscribe" ELSE "poll"
    [] step = "send"      -> IF ws THEN "subscribe" ELSE "poll"
    [] step = "subscribe" -> "wait"

\* The order of the steps of the two methods.
After(step) ==
  IF step = "start"
  THEN IF ws THEN "subscribe" ELSE IF mode = "send" THEN "send" ELSE "poll"
  ELSE IF step = "subscribe"
  THEN IF mode = "send" THEN "send" ELSE "wait"
  ELSE IF ws THEN "wait" ELSE "poll"

Ends(why) ==
  /\ result' = why
  /\ pc' = IF local = "open" THEN "cleanup" ELSE "done"

\* The checks at the head of the methods.
Begin ==
  /\ pc = "start"
  /\ \/ ~signed /\ Ends("error")
     \/ signed /\ pc' = After("start") /\ UNCHANGED result
  /\ UNCHANGED <<callVars, clockVars, local, unsubSent, nodeVars, txVars, inbox>>

\* SignatureSubscribe returns the subscription once the ack is read.
Subscribed ==
  /\ pc = "subscribe" /\ conn /\ server \in {"armed", "fired"}
  /\ local' = "open"
  /\ pc' = After("subscribe")
  /\ UNCHANGED <<callVars, clockVars, result, unsubSent, nodeVars, txVars, inbox>>

\* The connection dies or ctx ends before the ack is taken; the node may have
\* the request all the same, and serve it later.
SubscribeFails ==
  /\ pc = "subscribe" /\ (ctxDone \/ ~conn)
  /\ Ends("error")
  /\ UNCHANGED <<callVars, clockVars, local, unsubSent, nodeVars, txVars, inbox>>

SubscribeRefused ==
  /\ pc = "subscribe" /\ conn /\ server = "none"
  /\ server' = "refused"
  /\ Ends("error")
  /\ UNCHANGED <<callVars, clockVars, local, unsubSent, conn, armedAt, replays, txVars, inbox>>

SendTransaction ==
  /\ pc = "send" /\ ~ctxDone
  /\ sent' = TRUE
  /\ pc' = After("send")
  /\ UNCHANGED <<callVars, clockVars, result, local, unsubSent, nodeVars, stage, failed, inbox>>

\* Refused, or the answer was lost and the cluster has the transaction.
SendFails ==
  /\ pc = "send"
  /\ sent' \in {sent, TRUE}
  /\ Ends("error")
  /\ UNCHANGED <<callVars, clockVars, local, unsubSent, nodeVars, stage, failed, inbox>>

-----------------------------------------------------------------------------
(* waitOnSubscription.                                                     *)

\* "none" keeps waiting.
Outcome(note) ==
  IF note.received THEN "none" ELSE IF note.failed THEN "execution" ELSE "ok"

RecvNote ==
  /\ pc = "wait" /\ inbox # <<>>
  /\ inbox' = Tail(inbox)
  /\ result' = Outcome(Head(inbox))
  /\ pc' = IF result' = "none" THEN "wait" ELSE "cleanup"
  /\ UNCHANGED <<callVars, clockVars, local, unsubSent, nodeVars, txVars>>

\* Recv fails because waitCtx is done, or the connection died and the channel
\* is drained.
RecvFails ==
  /\ pc = "wait"
  /\ timedOut \/ ctxDone \/ (~conn /\ inbox = <<>>)
  /\ Ends(IF timedOut /\ ~ctxDone THEN "timeout" ELSE "error")
  /\ UNCHANGED <<callVars, clockVars, local, unsubSent, nodeVars, txVars, inbox>>

\* Mutant: the subscription is only ever released.
NeedsUnsubscribeNever == FALSE

\* cleanupSubscription: after a terminal notification the node has dropped the
\* subscription itself.
NeedsUnsubscribe == result \notin {"ok", "execution"}

\* Release, and the unsubscribe request if it can still be written.
Cleanup ==
  /\ pc = "cleanup"
  /\ local' = "released"
  /\ unsubSent' = (NeedsUnsubscribe /\ conn)
  /\ pc' = IF unsubSent' THEN "unsub" ELSE "done"
  /\ UNCHANGED <<callVars, clockVars, result, nodeVars, txVars, inbox>>

\* Mutant: only the reply ends the unsubscribe request.
UnsubscribeReplied ==
  /\ pc = "unsub" /\ server # "armed"
  /\ pc' = "done"
  /\ UNCHANGED <<callVars, clockVars, result, local, unsubSent, nodeVars, txVars, inbox>>

\* Its reply, the end of the connection or the two seconds of cleanupCtx.
UnsubscribeReturns ==
  /\ pc = "unsub"
  /\ pc' = "done"
  /\ UNCHANGED <<callVars, clockVars, result, local, unsubSent, nodeVars, txVars, inbox>>

-----------------------------------------------------------------------------
(* waitViaPolling.                                                         *)

\* A status at stage s; some nodes omit confirmationStatus, and then only a
\* rooted transaction, which has no confirmations count, is recognised.
reached(s, omitted) == IF omitted THEN s = 2 ELSE s >= want(asked)

\* getSignatureStatuses answers, as of some earlier stage, or null.
Poll ==
  /\ pc = "poll" /\ ~timedOut /\ ~ctxDone
  /\ \E s \in -1..stage, omitted \in BOOLEAN :
       \/ /\ s >= 0 /\ reached(s, omitted)
          /\ Ends(IF failed THEN "execution" ELSE "ok")
       \/ /\ s < 0 \/ ~reached(s, omitted)
          /\ pc' = "tick" /\ UNCHANGED result
  /\ UNCHANGED <<callVars, clockVars, local, unsubSent, nodeVars, txVars, inbox>>

\* It fails, which ends the wait, unless waitCtx was done: that is left to the
\* select.
PollFails ==
  /\ pc = "poll" /\ ~timedOut /\ ~ctxDone
  /\ Ends("error")
  /\ UNCHANGED <<callVars, clockVars, local, unsubSent, nodeVars, txVars, inbox>>

PollAborted ==
  /\ pc = "poll" /\ (timedOut \/ ctxDone)
  /\ pc' = "tick"
  /\ UNCHANGED <<callVars, clockVars, result, local, unsubSent, nodeVars, txVars, inbox>>

WaitDone ==
  /\ pc = "tick" /\ (timedOut \/ ctxDone)
  /\ Ends(IF ctxDone THEN "error" ELSE "timeout")
  /\ UNCHANGED <<callVars, clockVars, local, unsubSent, nodeVars, txVars, inbox>>

TakeTick ==
  /\ pc = "tick" /\ ticked
  /\ ticked' = FALSE
  /\ pc' = "poll"
  /\ UNCHANGED <<callVars, ctxDone, timedOut, result, local, unsubSent, nodeVars, txVars, inbox>>

-----------------------------------------------------------------------------
(* Clocks, node and cluster.                                               *)

Ticker ==
  /\ pc \in {"poll", "tick"} /\ ~ticked
  /\ ticked' = TRUE
  /\ UNCHANGED <<callVars, ctxDone, timedOut, clientVars, nodeVars, txVars, inbox>>

Timeout ==
  /\ pc \in {"wait", "poll", "tick"} /\ ~timedOut
  /\ timedOut' = TRUE
  /\ UNCHANGED <<callVars, ctxDone, ticked, clientVars, nodeVars, txVars, inbox>>

CtxEnds ==
  /\ pc \notin {"start", "done"} /\ ~ctxDone
  /\ ctxDone' = TRUE
  /\ UNCHANGED <<callVars, timedOut, ticked, clientVars, nodeVars, txVars, inbox>>

ConnDies ==
  /\ ws /\ conn
  /\ conn' = FALSE
  /\ UNCHANGED <<callVars, clockVars, clientVars, server, armedAt, replays, txVars, inbox>>

\* The call waits for the answer to its request, or has given it up.
Requested == pc = "subscribe" \/ (pc = "done" /\ ws /\ signed /\ local = "none")

NodeArms ==
  /\ Requested /\ conn /\ server = "none"
  /\ server' = "armed"
  /\ armedAt' = stage
  /\ UNCHANGED <<callVars, clockVars, clientVars, conn, replays, txVars, inbox>>

NodeReports(note) == inbox' = IF local = "released" THEN inbox ELSE Append(inbox, note)

\* The one terminal notification, after which the node drops the subscription.
NodeNotifies ==
  /\ conn /\ server = "armed" /\ stage >= want(asked)
  /\ replays \/ armedAt < want(asked)
  /\ NodeReports([failed |-> failed, received |-> FALSE])
  /\ server' = "fired"
  /\ UNCHANGED <<callVars, clockVars, clientVars, conn, armedAt, replays, txVars>>

NodeReceived ==
  /\ conn /\ server = "armed" /\ sent /\ stage = -1 /\ inbox = <<>>
  /\ NodeReports([failed |-> FALSE, received |-> TRUE])
  /\ inbox' # inbox
  /\ UNCHANGED <<callVars, clockVars, clientVars, nodeVars, txVars>>

NodeUnsubscribes ==
  /\ conn /\ unsubSent /\ server = "armed"
  /\ server' = "canceled"
  /\ UNCHANGED <<callVars, clockVars, clientVars, conn, armedAt, replays, txVars, inbox>>

ClusterAdvances ==
  /\ sent /\ stage < 2
  /\ stage' = stage + 1
  /\ UNCHANGED <<callVars, clockVars, clientVars, nodeVars, sent, failed, inbox>>

Client ==
  \/ Begin \/ Subscribed \/ SubscribeFails \/ SendTransaction \/ RecvNote \/ RecvFails
  \/ Cleanup \/ UnsubscribeReturns \/ Poll \/ PollAborted \/ TakeTick \/ WaitDone

Environment ==
  \/ SubscribeRefused \/ SendFails \/ PollFails \/ Ticker \/ Timeout \/ CtxEnds \/ ConnDies
  \/ NodeArms \/ NodeNotifies \/ NodeReceived \/ NodeUnsubscribes \/ ClusterAdvances

Next == Client \/ Environment

Spec == Init /\ [][Next]_vars

\* The client's goroutine runs and the timers fire; select chooses at random,
\* so a done context is not passed over for ever.  Nothing of the node.
ClientFairness ==
  /\ WF_vars(Begin) /\ WF_vars(Subscribed) /\ WF_vars(SubscribeFails)
  /\ WF_vars(RecvNote) /\ WF_vars(RecvFails)
  /\ WF_vars(Cleanup) /\ WF_vars(UnsubscribeReturns)
  /\ WF_vars(PollAborted) /\ WF_vars(TakeTick) /\ SF_vars(WaitDone)
  /\ WF_vars(Timeout)

TimedSpec == Spec /\ ClientFairness

-----------------------------------------------------------------------------
\* Types, that Recv and cleanup always have a subscription, and that a call
\* returns with an outcome.
TypeOK ==
  /\ mode \in {"send", "wait"} /\ signed \in BOOLEAN /\ ws \in BOOLEAN /\ asked \in Asked
  /\ pc \in {"start", "subscribe", "send", "wait", "poll", "tick", "cleanup", "unsub", "done"}
  /\ result \in {"none", "ok", "execution", "timeout", "error"}
  /\ local \in {"none", "open", "released"}
  /\ inbox \in Seq(Note)
  /\ {ctxDone, timedOut, ticked, unsubSent, conn, replays, sent, failed} \subseteq BOOLEAN
  /\ server \in {"none", "refused", "armed", "fired", "canceled"}
  /\ armedAt \in -1..2 /\ stage \in -1..2
  /\ pc \in {"wait", "cleanup"} => local = "open"
  /\ pc = "done" => result # "none"

\* Success or an execution error is only reported of a transaction that
\* reached the commitment asked for, and that ended that way; no call returns
\* without an outcome.
OutcomeIsTrue ==
  /\ TypeOK
  /\ result \in {"ok", "execution"} =>
       /\ stage >= (IF asked = "" THEN 2 ELSE want(asked))
       /\ (result = "execution") = failed

\* When a call has returned, the Subscription it had is released, and the
\* node's has fired, was asked to go or went with the connection.  The one
\* exception: ctx ended while the call still waited for the answer to its
\* subscribe request (request of src/ws/client.go gives up), so that nobody
\* knows the id to unsubscribe; then the call fails, and has sent nothing.
NothingLeftBehind ==
  pc = "done" =>
    /\ local # "open"
    /\ \/ server \in {"none", "refused", "fired"} \/ unsubSent \/ ~conn
       \/ /\ local = "none" /\ ctxDone /\ result = "error"
          /\ mode = "send" => ~sent

\* A transaction that was sent by the call cannot be missed: when it has
\* reached the commitment while the call waits on a live connection, the
\* terminal notification is there or still due, though the node may report
\* only what happens after it was asked.
SendIsNotMissed ==
  (mode = "send" /\ pc = "wait" /\ conn /\ stage >= want(asked)) =>
    \/ \E i \in DOMAIN inbox : ~inbox[i].received
    \/ server = "armed" /\ (replays \/ armedAt < want(asked))

\* Once waiting, the call returns, even from a node that never answers.
WaitEnds == (pc \in {"wait", "poll", "tick"}) ~> (pc = "done")
=============================================================================
