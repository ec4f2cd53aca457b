---------------------------- MODULE WsClientProofs --------------------------
(***************************************************************************)
(* Proofs about WsClient, for every set of calls and ids, every buffer and *)
(* connection capacity, and whether or not the node reuses ids.            *)
(***************************************************************************)
EXTENDS WsClient, TLAPS

\* A new client has the types.
LEMMA TypeInit == Init => TypeOK
<1> SUFFICES ASSUME Init
             PROVE  TypeOK
  BY Zenon
<1>1. ClientTypeOK
  BY Zenon DEF Init, ClientTypeOK
<1>2. LoopTypeOK
  BY Zenon DEF Init, LoopTypeOK
<1>3. CallTypeOK
  BY Zenon DEF Init, CallTypeOK
<1>4. EntryTypeOK
  BY DEF Init, EntryTypeOK
<1>5. NodeTypeOK
  BY DEF Init, NodeTypeOK
<1>. QED
  BY Zenon, <1>1, <1>2, <1>3, <1>4, <1>5 DEF TypeOK

\* What the read loop finds at the head of its input, by the frame's type.
LEMMA FrameKinds ==
  ASSUME TypeOK, toClient # <<>>
  PROVE  /\ Head(toClient) \in Frame
         /\ Tail(toClient) \in Seq(Frame)
         /\ Head(toClient).type \in {"ack", "other", "error"} => Head(toClient) \in Reply
         /\ Head(toClient).type = "ack" => Head(toClient).sub \in SubIds
         /\ Head(toClient).type = "note" =>
              /\ Head(toClient) \in Note
              /\ Head(toClient).owner \in Calls
              /\ Head(toClient).sub \in SubIds
<1>1. toClient \in Seq(Frame)
  BY Zenon DEF TypeOK, NodeTypeOK
<1>2. Head(toClient) \in Frame /\ Tail(toClient) \in Seq(Frame)
  BY <1>1
<1>. QED
  BY Zenon, <1>2 DEF Frame, Reply, Note

\* What the node reads is a request of its kind.
LEMMA RequestKinds ==
  ASSUME TypeOK, toServer # <<>>
  PROVE  /\ Tail(toServer) \in Seq(Request)
         /\ Head(toServer).type \in {"sub", "unsub"} =>
              /\ Head(toServer).id \in Nat
              /\ Head(toServer).call \in Calls
              /\ Head(toServer).sub \in SubIds \cup {None}
<1>1. toServer \in Seq(Request)
  BY Zenon DEF TypeOK, NodeTypeOK
<1>2. Head(toServer) \in Request /\ Tail(toServer) \in Seq(Request)
  BY <1>1
<1>. QED
  BY Zenon, <1>2 DEF Request

\* Removing an id from pending keeps its type.
LEMMA TypeWithout ==
  ASSUME TypeOK, NEW k
  PROVE  /\ DOMAIN Without(pending, k) \subseteq 1..reqID
         /\ Without(pending, k) \in [DOMAIN Without(pending, k) -> Calls]
BY Zenon DEF TypeOK, ClientTypeOK, Without

\* fail keeps the types of the tables and channels that it empties and closes.
LEMMA TypeFail ==
  ASSUME TypeOK, NEW e \in {"closed", "connection"}, fail(e)
  PROVE  /\ DOMAIN pending' \subseteq 1..reqID
         /\ pending' \in [DOMAIN pending' -> Calls]
         /\ subs' \in [SubIds -> Calls \cup {None}]
         /\ err' \in {None, "closed", "connection"}
         /\ chClosed' \in [Calls -> BOOLEAN]
         /\ resp' \in [Calls -> Reply \cup {None, Closed}]
<1> USE DEF TypeOK, ClientTypeOK, CallTypeOK, EntryTypeOK
<1>1. CASE err # None
  BY Zenon, <1>1 DEF fail
<1>2. CASE err = None
  <2>1. chClosed' = [c \in Calls |-> IF c \in Registered THEN TRUE ELSE chClosed[c]]
    BY Zenon, <1>2 DEF fail
  <2>2. chClosed' \in [Calls -> BOOLEAN]
    BY Zenon, <2>1
  <2>3. resp' \in [Calls -> Reply \cup {None, Closed}]
    BY <1>2 DEF fail
  <2>4. subs' \in [SubIds -> Calls \cup {None}] /\ err' \in {None, "closed", "connection"}
    BY <1>2 DEF fail
  <2>5. DOMAIN pending' \subseteq 1..reqID /\ pending' \in [DOMAIN pending' -> Calls]
    BY <1>2 DEF fail
  <2>. QED
    BY Zenon, <2>2, <2>3, <2>4, <2>5
<1>. QED
  BY Zenon, <1>1, <1>2

\* A write leaves requests alone in the connection.
LEMMA TypeWrite ==
  ASSUME TypeOK, NEW f \in Request, WriteOK(f) \/ WriteFails
  PROVE  toServer' \in Seq(Request)
<1>1. toServer \in Seq(Request)
  BY Zenon DEF TypeOK, NodeTypeOK
<1>2. CASE toServer' = Append(toServer, f)
  BY <1>1, <1>2
<1>3. CASE toServer' = toServer
  BY Zenon, <1>1, <1>3
<1>. QED
  BY Zenon, <1>2, <1>3 DEF WriteOK, WriteFails

\* What a step leaves alone keeps its type.
LEMMA TypeUnchanged ==
  ASSUME TypeOK
  PROVE  /\ UNCHANGED <<clientVars, writeMu, conn>> => ClientTypeOK'
         /\ UNCHANGED <<loopVars, closer>> => LoopTypeOK'
         /\ UNCHANGED callVars => CallTypeOK'
         /\ UNCHANGED <<entryVars, userVars, routed>> => EntryTypeOK'
         /\ UNCHANGED <<netVars, serverVars>> => NodeTypeOK'
<1> USE DEF TypeOK, clientVars, loopVars, callVars, entryVars, userVars, netVars, serverVars
<1>1. UNCHANGED <<clientVars, writeMu, conn>> => ClientTypeOK'
  BY Zenon DEF ClientTypeOK
<1>2. UNCHANGED <<loopVars, closer>> => LoopTypeOK'
  BY Zenon DEF LoopTypeOK
<1>3. UNCHANGED callVars => CallTypeOK'
  BY Zenon DEF CallTypeOK
<1>4. UNCHANGED <<entryVars, userVars, routed>> => EntryTypeOK'
  BY Zenon DEF EntryTypeOK
<1>5. UNCHANGED <<netVars, serverVars>> => NodeTypeOK'
  BY Zenon DEF NodeTypeOK
<1>. QED
  BY Zenon, <1>1, <1>2, <1>3, <1>4, <1>5

\* Every step keeps the types, action by action.
LEMMA TypeNext == TypeOK /\ [Next]_vars => TypeOK'
<1> SUFFICES ASSUME TypeOK, [Next]_vars
             PROVE  TypeOK'
  BY Zenon
<1> USE DEF TypeOK, clientVars, loopVars, callVars, entryVars, userVars, netVars, serverVars, GoTo
<1>1. ASSUME NEW c \in Calls, Register(c)
      PROVE  TypeOK'
  <2>1. reqID + 1 \in Nat
    BY DEF ClientTypeOK
  <2>2. ClientTypeOK'
    BY <1>1 DEF Register, NextReqID, ClientTypeOK
  <2>3. CallTypeOK'
    BY <1>1, <2>1 DEF Register, NextReqID, CallTypeOK
  <2>. QED
    BY Zenon, <1>1, <2>2, <2>3, TypeUnchanged DEF Register, NextReqID
<1>2. ASSUME NEW c \in Calls, LockWrite(c)
      PROVE  TypeOK'
  <2>1. ClientTypeOK'
    BY Zenon, <1>2 DEF LockWrite, ClientTypeOK
  <2>2. CallTypeOK'
    BY Zenon, <1>2 DEF LockWrite, CallTypeOK
  <2>. QED
    BY Zenon, <1>2, <2>1, <2>2, TypeUnchanged DEF LockWrite
<1>3. ASSUME NEW c \in Calls, Write(c)
      PROVE  TypeOK'
  <2>1. [type |-> kind[c], id |-> callId[c], call |-> c, sub |-> handle[c]] \in Request
    BY Zenon DEF CallTypeOK, Request
  <2>2. toServer' \in Seq(Request)
    BY Zenon, <1>3, <2>1, TypeWrite DEF Write
  <2>3. ClientTypeOK'
    BY Zenon, <1>3 DEF Write, ClientTypeOK
  <2>4. CallTypeOK'
    BY Zenon, <1>3 DEF Write, CallTypeOK
  <2>5. NodeTypeOK'
    BY Zenon, <1>3, <2>2 DEF Write, NodeTypeOK
  <2>. QED
    BY Zenon, <1>3, <2>3, <2>4, <2>5, TypeUnchanged DEF Write
<1>4. ASSUME NEW c \in Calls, Abandon(c)
      PROVE  TypeOK'
  <2>1. ClientTypeOK'
    BY Zenon, <1>4, TypeWithout DEF Abandon, ClientTypeOK
  <2>2. CallTypeOK'
    BY Zenon, <1>4 DEF Abandon, CallTypeOK
  <2>. QED
    BY Zenon, <1>4, <2>1, <2>2, TypeUnchanged DEF Abandon
<1>5. ASSUME NEW c \in Calls, AwaitReply(c)
      PROVE  TypeOK'
  <2>1. resp[c].type = "ack" => resp[c].sub \in SubIds
    BY Zenon, <1>5 DEF AwaitReply, Reply
  <2>2. CallTypeOK'
    BY Zenon, <1>5, <2>1 DEF AwaitReply, CallTypeOK
  <2>. QED
    BY Zenon, <1>5, <2>2, TypeUnchanged DEF AwaitReply
<1>6. ASSUME NEW c \in Calls, AwaitFailure(c) \/ AwaitCancel(c)
      PROVE  TypeOK'
  <2>1. CallTypeOK'
    BY Zenon, <1>6 DEF AwaitFailure, AwaitCancel, CallTypeOK
  <2>. QED
    BY Zenon, <1>6, <2>1, TypeUnchanged DEF AwaitFailure, AwaitCancel
<1>7. ASSUME NEW c \in Calls, Release(c)
      PROVE  TypeOK'
  <2>1. ClientTypeOK'
    BY Zenon, <1>7 DEF Release, ReleaseEntry, ClientTypeOK
  <2>2. CallTypeOK'
    BY Zenon, <1>7 DEF Release, ReleaseEntry, CallTypeOK
  <2>3. EntryTypeOK'
    BY Zenon, <1>7 DEF Release, ReleaseEntry, EntryTypeOK
  <2>. QED
    BY Zenon, <1>7, <2>1, <2>2, <2>3, TypeUnchanged DEF Release, ReleaseEntry
<1>8. ASSUME NEW c \in Calls, Unsubscribe(c)
      PROVE  TypeOK'
  <2>1. ClientTypeOK'
    BY Zenon, <1>8 DEF Unsubscribe, ReleaseEntry, ClientTypeOK
  <2>2. CallTypeOK'
    BY Zenon, <1>8 DEF Unsubscribe, ReleaseEntry, CallTypeOK
  <2>3. EntryTypeOK'
    BY Zenon, <1>8 DEF Unsubscribe, ReleaseEntry, EntryTypeOK
  <2>. QED
    BY Zenon, <1>8, <2>1, <2>2, <2>3, TypeUnchanged DEF Unsubscribe, ReleaseEntry
<1>9. ASSUME NEW c \in Calls, RecvNote(c)
      PROVE  TypeOK'
  <2>1. Head(ch[c]) \in Note /\ Tail(ch[c]) \in Seq(Note)
    BY <1>9 DEF RecvNote, EntryTypeOK
  <2>2. Head(ch[c]).seq \in Nat
    BY Zenon, <2>1 DEF Note
  <2>3. EntryTypeOK'
    BY <1>9, <2>1, <2>2 DEF RecvNote, EntryTypeOK
  <2>. QED
    BY Zenon, <1>9, <2>3, TypeUnchanged DEF RecvNote
<1>10. ASSUME NEW c \in Calls, RecvClosed(c)
      PROVE  TypeOK'
  <2>1. EntryTypeOK'
    BY Zenon, <1>10 DEF RecvClosed, EntryTypeOK
  <2>. QED
    BY Zenon, <1>10, <2>1, TypeUnchanged DEF RecvClosed
<1>11. CASE RouteNote
  <2>1. /\ Head(toClient) \in Note /\ Tail(toClient) \in Seq(Frame)
        /\ Head(toClient).owner \in Calls /\ Head(toClient).sub \in SubIds
    BY Zenon, <1>11, FrameKinds DEF RouteNote, Reads
  <2>2. subs[Head(toClient).sub] \in Calls \cup {None}
    BY Zenon, <2>1 DEF ClientTypeOK
  <2>3. EntryTypeOK'
    <3>1. \E c \in Calls : routed' = [routed EXCEPT ![c] = @ + 1]
      BY Zenon, <1>11, <2>1 DEF RouteNote
    <3>2. \/ UNCHANGED <<ch, dropped>>
          \/ \E c \in Calls, n \in Note : ch' = [ch EXCEPT ![c] = Append(@, n)] /\ UNCHANGED dropped
          \/ \E c \in Calls : dropped' = [dropped EXCEPT ![c] = @ + 1] /\ UNCHANGED ch
      BY Zenon, <1>11, <2>1, <2>2 DEF RouteNote
    <3>3. routed' \in [Calls -> Nat]
      BY <3>1 DEF EntryTypeOK
    <3>4. ch' \in [Calls -> Seq(Note)] /\ dropped' \in [Calls -> Nat]
      <4>1. ASSUME NEW c \in Calls, NEW n \in Note, ch' = [ch EXCEPT ![c] = Append(@, n)]
            PROVE  ch' \in [Calls -> Seq(Note)]
        BY <4>1 DEF EntryTypeOK
      <4>2. ASSUME NEW c \in Calls, dropped' = [dropped EXCEPT ![c] = @ + 1]
            PROVE  dropped' \in [Calls -> Nat]
        BY <4>2 DEF EntryTypeOK
      <4>. QED
        BY Zenon, <3>2, <4>1, <4>2 DEF EntryTypeOK
    <3>. QED
      BY Zenon, <1>11, <3>3, <3>4 DEF RouteNote, EntryTypeOK
  <2>4. NodeTypeOK'
    BY Zenon, <1>11, <2>1 DEF RouteNote, Reads, NodeTypeOK
  <2>. QED
    BY Zenon, <1>11, <2>3, <2>4, TypeUnchanged DEF RouteNote, Reads
<1>12. CASE RouteReply
  <2>1. /\ Head(toClient) \in Reply /\ Tail(toClient) \in Seq(Frame)
        /\ Head(toClient).type = "ack" => Head(toClient).sub \in SubIds
    BY Zenon, <1>12, FrameKinds DEF RouteReply, Reads
  <2>2. Head(toClient).id \in DOMAIN pending => pending[Head(toClient).id] \in Calls
    BY Zenon DEF ClientTypeOK
  <2>3. ClientTypeOK'
    BY <1>12, <2>1, TypeWithout DEF RouteReply, Reads, TakePending, ClientTypeOK
  <2>4. LoopTypeOK'
    <3>1. CASE UNCHANGED loopVars
      BY Zenon, <1>12, <3>1 DEF RouteReply, LoopTypeOK
    <3>2. CASE /\ Head(toClient).id \in DOMAIN pending
               /\ readLoop' = "deliver"
               /\ replyTo' = pending[Head(toClient).id]
               /\ reply' = Head(toClient)
      <4>1. replyTo' \in Calls /\ reply' \in Reply
        BY Zenon, <2>1, <2>2, <3>2
      <4>2. UNCHANGED closer
        BY Zenon, <1>12 DEF RouteReply
      <4>. QED
        BY Zenon, <3>2, <4>1, <4>2 DEF LoopTypeOK
    <3>. QED
      BY Zenon, <1>12, <3>1, <3>2 DEF RouteReply
  <2>5. NodeTypeOK'
    BY Zenon, <1>12, <2>1 DEF RouteReply, Reads, TakePending, NodeTypeOK
  <2>. QED
    BY Zenon, <1>12, <2>3, <2>4, <2>5, TypeUnchanged DEF RouteReply, Reads, TakePending
<1>13. CASE DeliverReply
  <2>1. LoopTypeOK'
    BY Zenon, <1>13 DEF DeliverReply, LoopTypeOK
  <2>2. CallTypeOK'
    BY Zenon, <1>13 DEF DeliverReply, CallTypeOK, LoopTypeOK
  <2>. QED
    BY Zenon, <1>13, <2>1, <2>2, TypeUnchanged DEF DeliverReply
<1>14. CASE ReadPing \/ ReadClose
  <2>1. LoopTypeOK'
    BY Zenon, <1>14 DEF ReadPing, ReadClose, Reads, LoopTypeOK
  <2>2. NodeTypeOK'
    BY Zenon, <1>14, FrameKinds DEF ReadPing, ReadClose, Reads, NodeTypeOK
  <2>. QED
    BY Zenon, <1>14, <2>1, <2>2, TypeUnchanged DEF ReadPing, ReadClose, Reads
<1>15. CASE PongLock
  <2>1. ClientTypeOK'
    BY Zenon, <1>15 DEF PongLock, ClientTypeOK
  <2>2. LoopTypeOK'
    BY Zenon, <1>15 DEF PongLock, LoopTypeOK
  <2>. QED
    BY Zenon, <1>15, <2>1, <2>2, TypeUnchanged DEF PongLock
<1>16. CASE Pong
  <2>1. [type |-> "pong"] \in Request
    BY Zenon DEF Request
  <2>2. toServer' \in Seq(Request)
    BY Zenon, <1>16, <2>1, TypeWrite DEF Pong
  <2>3. ClientTypeOK'
    BY Zenon, <1>16 DEF Pong, ClientTypeOK
  <2>4. LoopTypeOK'
    BY Zenon, <1>16 DEF Pong, LoopTypeOK
  <2>5. NodeTypeOK'
    BY Zenon, <1>16, <2>2 DEF Pong, NodeTypeOK
  <2>. QED
    BY Zenon, <1>16, <2>3, <2>4, <2>5, TypeUnchanged DEF Pong
<1>17. CASE ReadError
  <2>1. LoopTypeOK'
    BY Zenon, <1>17 DEF ReadError, LoopTypeOK
  <2>2. NodeTypeOK'
    BY <1>17 DEF ReadError, NodeTypeOK
  <2>. QED
    BY Zenon, <1>17, <2>1, <2>2, TypeUnchanged DEF ReadError
<1>18. CASE ReadLoopExit
  <2>1. ClientTypeOK'
    BY Zenon, <1>18 DEF ReadLoopExit, ClientTypeOK
  <2>2. LoopTypeOK'
    BY Zenon, <1>18 DEF ReadLoopExit, LoopTypeOK
  <2>. QED
    BY Zenon, <1>18, <2>1, <2>2, TypeUnchanged DEF ReadLoopExit
<1>19. CASE ReadLoopFail
  <2>1. ClientTypeOK'
    BY Zenon, <1>19, TypeFail DEF ReadLoopFail, ClientTypeOK
  <2>2. LoopTypeOK'
    BY Zenon, <1>19 DEF ReadLoopFail, LoopTypeOK
  <2>3. CallTypeOK'
    BY Zenon, <1>19, TypeFail DEF ReadLoopFail, CallTypeOK
  <2>4. EntryTypeOK'
    BY Zenon, <1>19, TypeFail DEF ReadLoopFail, EntryTypeOK
  <2>. QED
    BY Zenon, <1>19, <2>1, <2>2, <2>3, <2>4, TypeUnchanged DEF ReadLoopFail
<1>20. CASE CloseCall \/ CloseLock \/ CloseConn
  <2>1. ClientTypeOK'
    BY Zenon, <1>20 DEF CloseCall, CloseLock, CloseConn, ClientTypeOK
  <2>2. LoopTypeOK'
    BY Zenon, <1>20 DEF CloseCall, CloseLock, CloseConn, LoopTypeOK
  <2>. QED
    BY Zenon, <1>20, <2>1, <2>2, TypeUnchanged DEF CloseCall, CloseLock, CloseConn
<1>21. CASE CloseWrite
  <2>1. [type |-> "close"] \in Request
    BY Zenon DEF Request
  <2>2. toServer' \in Seq(Request)
    BY Zenon, <1>21, <2>1, TypeWrite DEF CloseWrite
  <2>3. ClientTypeOK'
    BY Zenon, <1>21 DEF CloseWrite, ClientTypeOK
  <2>4. LoopTypeOK'
    BY Zenon, <1>21 DEF CloseWrite, LoopTypeOK
  <2>5. NodeTypeOK'
    BY Zenon, <1>21, <2>2 DEF CloseWrite, NodeTypeOK
  <2>. QED
    BY <1>21, <2>3, <2>4, <2>5, TypeUnchanged DEF CloseWrite
<1>22. CASE CloseFail
  <2>1. ClientTypeOK'
    BY Zenon, <1>22, TypeFail DEF CloseFail, ClientTypeOK
  <2>2. LoopTypeOK'
    BY Zenon, <1>22 DEF CloseFail, LoopTypeOK
  <2>3. CallTypeOK'
    BY Zenon, <1>22, TypeFail DEF CloseFail, CallTypeOK
  <2>4. EntryTypeOK'
    BY Zenon, <1>22, TypeFail DEF CloseFail, EntryTypeOK
  <2>. QED
    BY <1>22, <2>1, <2>2, <2>3, <2>4, TypeUnchanged DEF CloseFail
<1>23. CASE ServerSubscribe
  <2>1. /\ Tail(toServer) \in Seq(Request)
        /\ Head(toServer).id \in Nat /\ Head(toServer).call \in Calls
    BY Zenon, <1>23, RequestKinds DEF ServerSubscribe, ServerTakes
  <2>2. /\ [type |-> "error", id |-> Head(toServer).id] \in Frame
        /\ \A s \in SubIds : [type |-> "ack", id |-> Head(toServer).id, sub |-> s] \in Frame
    BY Zenon, <2>1 DEF Frame, Reply
  <2>3. \E f \in Frame : toClient' = Append(toClient, f)
    BY <1>23, <2>2, Zenon DEF ServerSubscribe, FreeIds
  <2>4. toClient' \in Seq(Frame)
    BY <2>3 DEF NodeTypeOK
  <2>5. uses' \in [SubIds -> Nat]
    <3>1. uses' = uses \/ \E s \in SubIds : uses' = [uses EXCEPT ![s] = uses[s] + 1]
      BY Zenon, <1>23 DEF ServerSubscribe, FreeIds
    <3>. QED
      BY <3>1 DEF NodeTypeOK
  <2>6. NodeTypeOK'
    BY <1>23, <2>1, <2>4, <2>5, Zenon DEF ServerSubscribe, ServerTakes, FreeIds, NodeTypeOK
  <2>. QED
    BY Zenon, <1>23, <2>6, TypeUnchanged DEF ServerSubscribe, ServerTakes, FreeIds
<1>24. CASE ServerUnsubscribe
  <2>1. Tail(toServer) \in Seq(Request) /\ Head(toServer).id \in Nat
    BY <1>24, RequestKinds DEF ServerUnsubscribe, ServerTakes
  <2>2. \A t \in {"error", "other"} : [type |-> t, id |-> Head(toServer).id] \in Frame
    BY Zenon, <2>1 DEF Frame, Reply
  <2>3. \E f \in Frame : toClient' = Append(toClient, f)
    BY <1>24, <2>2 DEF ServerUnsubscribe
  <2>4. toClient' \in Seq(Frame)
    BY <2>3 DEF NodeTypeOK
  <2>5. NodeTypeOK'
    BY <1>24, <2>1, <2>4, Zenon DEF ServerUnsubscribe, ServerTakes, NodeTypeOK
  <2>. QED
    BY <1>24, <2>5, TypeUnchanged DEF ServerUnsubscribe, ServerTakes
<1>25. CASE ServerPongOrClose
  <2>1. NodeTypeOK'
    BY Zenon, <1>25, RequestKinds DEF ServerPongOrClose, ServerTakes, NodeTypeOK
  <2>. QED
    BY Zenon, <1>25, <2>1, TypeUnchanged DEF ServerPongOrClose, ServerTakes
<1>26. ASSUME NEW s \in SubIds, NEW final \in BOOLEAN, ServerNotify(s, final)
      PROVE  TypeOK'
  <2>1. [type |-> "note", sub |-> s, owner |-> serverSubs[s], seq |-> sent + 1] \in Frame
    <3>1. serverSubs[s] \in Calls /\ sent + 1 \in Nat
      BY <1>26 DEF ServerNotify, NodeTypeOK
    <3>. QED
      BY Zenon, <3>1 DEF Frame, Note
  <2>2. NodeTypeOK'
    BY <1>26, <2>1 DEF ServerNotify, NodeTypeOK
  <2>. QED
    BY Zenon, <1>26, <2>2, TypeUnchanged DEF ServerNotify
<1>27. CASE ServerPing
  <2>1. [type |-> "ping"] \in Frame
    BY Zenon DEF Frame
  <2>2. NodeTypeOK'
    BY <1>27, <2>1 DEF ServerPing, NodeTypeOK
  <2>. QED
    BY Zenon, <1>27, <2>2, TypeUnchanged DEF ServerPing
<1>28. CASE ServerGone
  <2>1. [type |-> "close"] \in Frame
    BY Zenon DEF Frame
  <2>2. toClient' \in Seq(Frame)
    <3>1. toClient \in Seq(Frame)
      BY Zenon DEF NodeTypeOK
    <3>2. toClient' = toClient \/ toClient' = Append(toClient, [type |-> "close"])
      BY Zenon, <1>28 DEF ServerGone
    <3> QED BY <2>1, <3>1, <3>2
  <2>3. NodeTypeOK'
    BY Zenon, <1>28, <2>2 DEF ServerGone, NodeTypeOK
  <2>. QED
    BY Zenon, <1>28, <2>3, TypeUnchanged DEF ServerGone
<1>29. CASE UNCHANGED vars
  <2>. QED
    BY Zenon, <1>29, TypeUnchanged DEF vars
<1>. QED
  BY Zenon, <1>1, <1>2, <1>3, <1>4, <1>5, <1>6, <1>7, <1>8, <1>9, <1>10, <1>11, <1>12, <1>13,
     <1>14, <1>15, <1>16, <1>17, <1>18, <1>19, <1>20, <1>21, <1>22, <1>23, <1>24, <1>25,
     <1>26, <1>27, <1>28, <1>29, Zenon
     DEF Next, CallStep, RecvStep, ReadLoopStep, CloseStep, ServerStep, ServerReads

\* The client's tables, channels and counters keep their types.
THEOREM TypeCorrect == Spec => []TypeOK
BY TypeInit, TypeNext, PTL DEF Spec

-----------------------------------------------------------------------------
(***************************************************************************)
(* The inductive invariant.  pending, callId, pc and resp agree about which *)
(* request a call is in; the reply the read loop carries is for a request  *)
(* that is no longer pending and whose channel is empty; an entry gets     *)
(* into subs once, while its subscribe waits, and leaves it for good.      *)
(***************************************************************************)

\* The places in request at which the call may still be in pending.
InRequest == {"lock", "write", "writeErr", "await", "cancel"}

PendingInv ==
  \A i \in DOMAIN pending :
    /\ callId[pending[i]] = i
    /\ pc[pending[i]] \in InRequest
    /\ resp[pending[i]] = None
    /\ ~(readLoop = "deliver" /\ replyTo = pending[i])

DeliverInv ==
  readLoop = "deliver" =>
    /\ replyTo \in Calls
    /\ reply \in Reply
    /\ resp[replyTo] = None
    /\ pc[replyTo] \in InRequest \cup {"returned"}

EntryInv ==
  /\ \A s \in SubIds : subs[s] # None => ~chClosed[subs[s]]
  /\ \A s, t \in SubIds : subs[s] # None /\ subs[s] = subs[t] => s = t
  /\ \A s \in SubIds : subs[s] # None /\ kind[subs[s]] = "sub" =>
       /\ pc[subs[s]] # "register"
       /\ \A i \in DOMAIN pending : pending[i] # subs[s]

HandleInv ==
  \A c \in Calls : pc[c] \in {"open", "released"} => handle[c] \in SubIds

Safe ==
  /\ PendingInv /\ DeliverInv /\ EntryInv /\ HandleInv
  /\ EntryClosedOnlyByOwner /\ NothingRegisteredAfterFailure

IInv == TypeOK /\ Safe

\* A new client has no request, subscription or closed channel.
LEMMA SafeInit == Init => Safe
BY DEF Init, Safe, PendingInv, DeliverInv, EntryInv, HandleInv, EntryClosedOnlyByOwner,
       NothingRegisteredAfterFailure

\* Steps of a call inside request that leave the tables alone.
LEMMA SafeCallMoves ==
  ASSUME IInv, NEW c \in Calls, NEW label \in InRequest \cup {"returned"},
         pc[c] \in InRequest, GoTo(c, label),
         label = "returned" => \A i \in DOMAIN pending : pending[i] # c,
         UNCHANGED <<pending, subs, err, kind, callId, resp, handle, chClosed, loopVars>>
  PROVE  Safe'
<1> USE DEF IInv, Safe, TypeOK, CallTypeOK, ClientTypeOK, GoTo, InRequest, loopVars
<1>1. PendingInv'
  BY DEF PendingInv
<1>2. DeliverInv'
  BY Zenon DEF DeliverInv
<1>3. EntryInv'
  BY DEF EntryInv
<1>4. EntryClosedOnlyByOwner'
  BY Zenon DEF EntryClosedOnlyByOwner
<1>5. NothingRegisteredAfterFailure'
  BY Zenon DEF NothingRegisteredAfterFailure
<1>6. HandleInv'
  BY Zenon DEF HandleInv
<1>. QED
  BY Zenon, <1>1, <1>2, <1>3, <1>4, <1>5, <1>6

\* Steps of the read loop that carry no reply.
LEMMA SafeLoopMoves ==
  ASSUME IInv, readLoop # "deliver", readLoop' # "deliver",
         UNCHANGED <<pending, subs, err, pc, kind, callId, resp, handle, chClosed>>
  PROVE  Safe'
BY Zenon DEF IInv, Safe, PendingInv, DeliverInv, EntryInv, HandleInv, EntryClosedOnlyByOwner,
       NothingRegisteredAfterFailure

\* Steps that touch nothing the invariant mentions.
LEMMA SafeUnchanged ==
  ASSUME IInv, UNCHANGED <<pending, subs, err, pc, kind, callId, resp, handle, chClosed, loopVars>>
  PROVE  Safe'
BY DEF IInv, Safe, PendingInv, DeliverInv, EntryInv, HandleInv, EntryClosedOnlyByOwner,
       NothingRegisteredAfterFailure, loopVars

\* The critical section of fail empties both tables.
LEMMA SafeFail ==
  ASSUME IInv, NEW e \in {"closed", "connection"}, fail(e), e # None,
         readLoop' = "deliver" => readLoop = "deliver",
         UNCHANGED <<pc, kind, callId, handle, replyTo, reply>>
  PROVE  Safe'
<1>1. CASE err # None
  BY <1>1 DEF fail, IInv, Safe, PendingInv, DeliverInv, EntryInv, HandleInv, EntryClosedOnlyByOwner,
              NothingRegisteredAfterFailure
<1>2. CASE err = None
  <2>1. /\ DOMAIN pending' = {}
        /\ \A s \in SubIds : subs'[s] = None
        /\ err' # None
    BY Zenon, <1>2 DEF fail
  <2>2. readLoop = "deliver" => replyTo \notin Waiting
    BY Zenon DEF IInv, Safe, PendingInv, Waiting
  <2>3. DeliverInv'
    BY Zenon, <1>2, <2>2 DEF fail, IInv, Safe, DeliverInv, TypeOK, CallTypeOK
  <2>4. HandleInv'
    BY Zenon DEF IInv, Safe, HandleInv
  <2>. QED
    BY Zenon, <2>1, <2>3, <2>4 DEF Safe, PendingInv, EntryInv, EntryClosedOnlyByOwner,
                      NothingRegisteredAfterFailure
<1>. QED
  BY Zenon, <1>1, <1>2

\* The critical section of Release, from both of its callers.
LEMMA SafeRelease ==
  ASSUME IInv, NEW c \in Calls, pc[c] \in {"open", "released"}, ReleaseEntry(c),
         \/ GoTo(c, "released") /\ UNCHANGED kind
         \/ GoTo(c, "register") /\ kind' = [kind EXCEPT ![c] = "unsub"],
         UNCHANGED <<pending, err, callId, resp, handle, loopVars>>
  PROVE  Safe'
<1> USE DEF IInv, Safe, TypeOK, CallTypeOK, ClientTypeOK, EntryTypeOK
<1>1. \A i \in DOMAIN pending : pending[i] \in Calls \ {c}
  BY ZenonT(30) DEF PendingInv, InRequest
<1>2. \A d \in Calls \ {c} : pc'[d] = pc[d] /\ kind'[d] = kind[d]
  BY DEF GoTo
<1>3. (pc'[c] = "released" /\ kind'[c] = kind[c]) \/ kind'[c] = "unsub"
  BY Zenon DEF GoTo
<1>4. PendingInv'
  BY Zenon, <1>1, <1>2 DEF PendingInv, loopVars
<1>5. DeliverInv'
  BY Zenon, <1>2 DEF DeliverInv, loopVars, InRequest
<1>6. HandleInv'
  BY Zenon, <1>2 DEF HandleInv, GoTo
<1>7. CASE subs[handle[c]] = c
  <2>1. /\ subs' = [subs EXCEPT ![handle[c]] = None]
        /\ chClosed' = [chClosed EXCEPT ![c] = TRUE]
    BY Zenon, <1>7 DEF ReleaseEntry
  <2>2. \A s \in SubIds : subs'[s] # None => subs'[s] = subs[s] /\ subs'[s] \in Calls \ {c}
    BY <1>7, <2>1 DEF EntryInv, HandleInv
  <2>3. EntryInv'
    BY <1>1, <1>2, <1>3, <2>1, <2>2, SMTT(60) DEF EntryInv
  <2>4. EntryClosedOnlyByOwner'
    BY <1>2, <1>3, <2>1 DEF EntryClosedOnlyByOwner
  <2>5. NothingRegisteredAfterFailure'
    BY Zenon, <2>1 DEF NothingRegisteredAfterFailure
  <2>. QED
    BY <1>4, <1>5, <1>6, <2>3, <2>4, <2>5
<1>8. CASE subs[handle[c]] # c
  <2>1. UNCHANGED <<subs, chClosed>>
    BY <1>8 DEF ReleaseEntry
  <2>2. EntryInv'
    <3>1. ASSUME NEW s \in SubIds, subs[s] # None, kind'[subs[s]] = "sub"
          PROVE  /\ pc'[subs[s]] # "register"
                 /\ \A i \in DOMAIN pending : pending[i] # subs[s]
      <4>1. CASE subs[s] = c
        BY <1>1, <1>3, <3>1, <4>1
      <4>2. CASE subs[s] \in Calls \ {c}
        BY <1>2, <3>1, <4>2, Zenon DEF EntryInv
      <4>. QED
        BY <3>1, <4>1, <4>2
    <3>. QED
      BY <2>1, <3>1 DEF EntryInv
  <2>3. EntryClosedOnlyByOwner'
    BY <1>2, <1>3, <2>1, ZenonT(30) DEF EntryClosedOnlyByOwner
  <2>4. NothingRegisteredAfterFailure'
    BY Zenon, <2>1 DEF NothingRegisteredAfterFailure
  <2>. QED
    BY Zenon, <1>4, <1>5, <1>6, <2>2, <2>3, <2>4
<1>. QED
  BY Zenon, <1>7, <1>8

\* Every step keeps the channels apart, action by action.
LEMMA SafeNext == IInv /\ [Next]_vars => Safe'
<1> SUFFICES ASSUME IInv, [Next]_vars
             PROVE  Safe'
  BY Zenon
<1> USE NoneAssumption DEF IInv, Safe, TypeOK
<1>1. ASSUME NEW c \in Calls, Register(c)
      PROVE  Safe'
  <2>1. \A i \in DOMAIN pending : pending[i] \in Calls \ {c}
    BY Zenon, <1>1 DEF Register, PendingInv, InRequest, ClientTypeOK
  <2>2. CASE err # None
    <3>1. GoTo(c, "returned") /\ UNCHANGED <<callId, pending, resp>>
      BY Zenon, <1>1, <2>2 DEF Register
    <3>2. DOMAIN pending = {} /\ \A s \in SubIds : subs[s] = None
      BY Zenon, <2>2 DEF NothingRegisteredAfterFailure
    <3>3. PendingInv' /\ EntryInv' /\ NothingRegisteredAfterFailure' /\ EntryClosedOnlyByOwner'
      BY <1>1, <2>2, <3>1, <3>2
         DEF Register, PendingInv, EntryInv, NothingRegisteredAfterFailure,
             EntryClosedOnlyByOwner, GoTo
    <3>4. DeliverInv' /\ HandleInv'
      BY <1>1, <3>1 DEF Register, DeliverInv, HandleInv, GoTo, loopVars, CallTypeOK, InRequest
    <3>. QED
      BY Zenon, <3>3, <3>4
  <2>3. CASE err = None
    <3>1. /\ callId' = [callId EXCEPT ![c] = reqID + 1]
          /\ pending' = [i \in DOMAIN pending \cup {reqID + 1} |->
                           IF i = reqID + 1 THEN c ELSE pending[i]]
          /\ resp' = [resp EXCEPT ![c] = None]
          /\ pc' = [pc EXCEPT ![c] = "lock"]
          /\ UNCHANGED <<subs, err, kind, handle, chClosed, loopVars>>
      BY Zenon, <1>1, <2>3 DEF Register, NextReqID, GoTo, entryVars
    <3>2. reqID + 1 \notin DOMAIN pending
      BY DEF ClientTypeOK
    <3>3. pc[c] = "register"
      BY Zenon, <1>1 DEF Register
    <3>4. readLoop = "deliver" => replyTo # c
      BY Zenon, <3>3 DEF DeliverInv, InRequest
    <3>5. PendingInv'
      BY <2>1, <3>1, <3>2, <3>4 DEF PendingInv, CallTypeOK, InRequest, loopVars
    <3>6. DeliverInv'
      BY Zenon, <3>1, <3>4 DEF DeliverInv, CallTypeOK, loopVars
    <3>7. EntryInv'
      BY <3>1, <3>2, <3>3 DEF EntryInv, CallTypeOK, ClientTypeOK
    <3>8. HandleInv' /\ EntryClosedOnlyByOwner' /\ NothingRegisteredAfterFailure'
      BY Zenon, <2>3, <3>1, <3>3
         DEF HandleInv, EntryClosedOnlyByOwner, NothingRegisteredAfterFailure, CallTypeOK
    <3>. QED
      BY Zenon, <3>5, <3>6, <3>7, <3>8
  <2>. QED
    BY Zenon, <2>2, <2>3
<1>2. ASSUME NEW c \in Calls, LockWrite(c) \/ Write(c) \/ AwaitFailure(c) \/ AwaitCancel(c)
      PROVE  Safe'
  <2>1. pc[c] \in InRequest
    BY Zenon, <1>2 DEF LockWrite, Write, AwaitFailure, AwaitCancel, InRequest
  <2>2. UNCHANGED <<pending, subs, err, kind, callId, resp, handle, chClosed, loopVars>>
    BY Zenon, <1>2 DEF LockWrite, Write, AwaitFailure, AwaitCancel, clientVars, entryVars
  <2>3. CASE AwaitFailure(c)
    <3>1. \A i \in DOMAIN pending : pending[i] # c
      BY Zenon, <2>3 DEF AwaitFailure, PendingInv, NothingRegisteredAfterFailure, Closed
    <3>. QED
      BY <2>1, <2>2, <2>3, <3>1, SafeCallMoves DEF AwaitFailure, InRequest
  <2>4. CASE LockWrite(c) \/ Write(c) \/ AwaitCancel(c)
    BY Zenon, <2>1, <2>2, <2>4, SafeCallMoves DEF LockWrite, Write, AwaitCancel, InRequest
  <2>. QED
    BY Zenon, <1>2, <2>3, <2>4
<1>3. ASSUME NEW c \in Calls, Release(c) \/ Unsubscribe(c)
      PROVE  Safe'
  BY Zenon, <1>3, SafeRelease DEF Release, Unsubscribe
<1>4. CASE ReadLoopFail
  BY Zenon, <1>4, SafeFail DEF ReadLoopFail
<1>5. CASE CloseFail
  BY Zenon, <1>5, SafeFail DEF CloseFail, loopVars
<1>6. CASE ReadPing \/ PongLock \/ Pong \/ ReadClose \/ ReadError \/ ReadLoopExit
  BY <1>6, SafeLoopMoves, Zenon
     DEF ReadPing, PongLock, Pong, ReadClose, ReadError, ReadLoopExit, Reads, clientVars,
         callVars, entryVars
<1>7. ASSUME NEW c \in Calls, Abandon(c)
      PROVE  Safe'
  <2>1. pc[c] \in InRequest /\ pc' = [pc EXCEPT ![c] = "returned"]
    BY Zenon, <1>7 DEF Abandon, GoTo, InRequest
  <2>2. pending' = Without(pending, callId[c])
    BY Zenon, <1>7 DEF Abandon
  <2>3. UNCHANGED <<subs, err, kind, callId, resp, handle, chClosed, loopVars>>
    BY Zenon, <1>7 DEF Abandon, entryVars
  <2>4. \A i \in DOMAIN pending' :
          i \in DOMAIN pending /\ pending'[i] = pending[i] /\ pending[i] \in Calls \ {c}
    BY Zenon, <2>2 DEF Without, PendingInv, ClientTypeOK
  <2>5. PendingInv'
    BY <2>1, <2>3, <2>4 DEF PendingInv, CallTypeOK, loopVars
  <2>6. DeliverInv'
    BY Zenon, <2>1, <2>3 DEF DeliverInv, CallTypeOK, loopVars
  <2>7. EntryInv'
    BY <2>1, <2>3, <2>4 DEF EntryInv, CallTypeOK, ClientTypeOK
  <2>8. HandleInv' /\ EntryClosedOnlyByOwner' /\ NothingRegisteredAfterFailure'
    BY <2>1, <2>3, <2>4, Zenon
       DEF HandleInv, EntryClosedOnlyByOwner, NothingRegisteredAfterFailure, CallTypeOK, InRequest
  <2>. QED
    BY Zenon, <2>5, <2>6, <2>7, <2>8
<1>8. ASSUME NEW c \in Calls, AwaitReply(c)
      PROVE  Safe'
  <2>1. /\ pc[c] = "await" /\ resp[c] # None
        /\ resp' = [resp EXCEPT ![c] = None]
        /\ UNCHANGED <<pending, subs, err, kind, callId, chClosed, loopVars>>
    BY Zenon, <1>8 DEF AwaitReply, clientVars, entryVars
  <2>2. \/ pc' = [pc EXCEPT ![c] = "returned"] /\ UNCHANGED handle
        \/ /\ pc' = [pc EXCEPT ![c] = "open"]
           /\ \E s \in SubIds : handle' = [handle EXCEPT ![c] = s]
    BY <1>8 DEF AwaitReply, GoTo, Reply
  <2>3. \A i \in DOMAIN pending : pending[i] \in Calls \ {c}
    BY <2>1 DEF PendingInv, ClientTypeOK
  <2>4. readLoop = "deliver" => replyTo # c
    BY Zenon, <2>1 DEF DeliverInv
  <2>5. PendingInv'
    BY <2>1, <2>2, <2>3 DEF PendingInv, CallTypeOK, loopVars
  <2>6. DeliverInv'
    BY <2>1, <2>2, <2>4 DEF DeliverInv, CallTypeOK, loopVars
  <2>7. EntryInv'
    BY <2>1, <2>2, <2>3 DEF EntryInv, CallTypeOK, ClientTypeOK
  <2>8. HandleInv'
    BY <2>2 DEF HandleInv, CallTypeOK
  <2>9. EntryClosedOnlyByOwner' /\ NothingRegisteredAfterFailure'
    BY <2>1, <2>2 DEF EntryClosedOnlyByOwner, NothingRegisteredAfterFailure, CallTypeOK
  <2>. QED
    BY <2>5, <2>6, <2>7, <2>8, <2>9
<1>9. CASE DeliverReply
  <2>1. /\ readLoop = "deliver" /\ readLoop' = "read"
        /\ resp' = [resp EXCEPT ![replyTo] = reply]
        /\ UNCHANGED <<pending, subs, err, pc, kind, callId, handle, chClosed>>
    BY <1>9 DEF DeliverReply, clientVars, entryVars
  <2>2. PendingInv'
    BY <2>1 DEF PendingInv, CallTypeOK, ClientTypeOK
  <2>. QED
    BY <2>1, <2>2 DEF DeliverInv, EntryInv, HandleInv, EntryClosedOnlyByOwner,
                      NothingRegisteredAfterFailure
<1>10. CASE RouteReply
  <2>. DEFINE r == Head(toClient)
  <2>1. /\ r \in Reply
        /\ r.type = "ack" => r.sub \in SubIds
    BY Zenon, <1>10, FrameKinds DEF RouteReply, Reads
  <2>2. /\ readLoop = "read"
        /\ TakePending(r)
        /\ UNCHANGED <<err, pc, kind, callId, resp, handle, chClosed>>
    BY <1>10 DEF RouteReply, Reads, callVars, entryVars
  <2>3. CASE r.id \notin DOMAIN pending
    <3>1. UNCHANGED <<pending, subs>>
      BY <2>2, <2>3 DEF TakePending, Without, ClientTypeOK
    <3>2. UNCHANGED loopVars
      BY Zenon, <1>10, <2>3 DEF RouteReply
    <3>. QED
      BY <2>2, <3>1, <3>2, SafeUnchanged
  <2>4. CASE r.id \in DOMAIN pending
    <3>. DEFINE c == pending[r.id]
    <3>1. c \in Calls /\ callId[c] = r.id /\ pc[c] \in InRequest /\ resp[c] = None
      BY Zenon, <2>4 DEF PendingInv, ClientTypeOK
    <3>2. readLoop' = "deliver" /\ replyTo' = c /\ reply' = r
      BY Zenon, <1>10, <2>4 DEF RouteReply
    <3>3. \A i \in DOMAIN pending' :
            i \in DOMAIN pending /\ pending'[i] = pending[i] /\ pending[i] \in Calls \ {c}
      BY Zenon, <2>2, <3>1 DEF TakePending, Without, PendingInv, ClientTypeOK
    <3>4. err = None
      BY Zenon, <2>4 DEF NothingRegisteredAfterFailure
    <3>5. \/ UNCHANGED subs
          \/ /\ kind[c] = "sub" /\ r.sub \in SubIds
             /\ subs' = [subs EXCEPT ![r.sub] = c]
      BY <2>1, <2>2, <2>4 DEF TakePending
    <3>6. PendingInv'
      BY <2>2, <3>2, <3>3, Zenon DEF PendingInv
    <3>7. DeliverInv'
      BY Zenon, <2>1, <2>2, <3>1, <3>2 DEF DeliverInv
    <3>8. EntryInv'
      <4>1. CASE UNCHANGED subs
        BY <2>2, <3>3, <4>1, ZenonT(30) DEF EntryInv
      <4>2. CASE /\ kind[c] = "sub" /\ r.sub \in SubIds
                 /\ subs' = [subs EXCEPT ![r.sub] = c]
        <5>1. ~chClosed[c] /\ \A s \in SubIds : subs[s] # c
          BY <2>4, <3>1, <3>4, <4>2, ConstantsAssumption
             DEF EntryClosedOnlyByOwner, EntryInv, InRequest
        <5>2. \A s \in SubIds : subs'[s] = IF s = r.sub THEN c ELSE subs[s]
          BY Zenon, <4>2 DEF ClientTypeOK
        <5>. HIDE DEF r, c
        <5>3. \A s \in SubIds : subs'[s] # None => ~chClosed'[subs'[s]]
          BY Zenon, <2>2, <5>1, <5>2 DEF EntryInv
        <5>4. \A s, t \in SubIds : subs'[s] # None /\ subs'[s] = subs'[t] => s = t
          BY <5>1, <5>2 DEF EntryInv
        <5>5. \A s \in SubIds : subs'[s] # None /\ kind'[subs'[s]] = "sub" =>
                /\ pc'[subs'[s]] # "register"
                /\ \A i \in DOMAIN pending' : pending'[i] # subs'[s]
          <6>1. \A s \in SubIds : subs[s] # None /\ kind[subs[s]] = "sub" =>
                  /\ pc[subs[s]] # "register"
                  /\ \A i \in DOMAIN pending : pending[i] # subs[s]
            BY Zenon DEF EntryInv
          <6>2. pc[c] # "register" /\ \A i \in DOMAIN pending' : pending'[i] # c
            BY <3>1, <3>3 DEF InRequest
          <6>. HIDE DEF IInv, Safe, TypeOK, CallTypeOK, ClientTypeOK, EntryTypeOK
          <6>. QED
            BY <2>2, <3>3, <5>2, <6>1, <6>2
        <5>. QED
          BY Zenon, <5>3, <5>4, <5>5 DEF EntryInv
      <4>. QED
        BY Zenon, <3>5, <4>1, <4>2
    <3>9. HandleInv' /\ EntryClosedOnlyByOwner' /\ NothingRegisteredAfterFailure'
      BY Zenon, <2>2, <3>4 DEF HandleInv, EntryClosedOnlyByOwner, NothingRegisteredAfterFailure
    <3>. QED
      BY Zenon, <3>6, <3>7, <3>8, <3>9
  <2>. QED
    BY Zenon, <2>3, <2>4
<1>11. ASSUME NEW c \in Calls, RecvNote(c) \/ RecvClosed(c)
       PROVE  Safe'
  BY Zenon, <1>11, SafeUnchanged DEF RecvNote, RecvClosed, clientVars, callVars, entryVars
<1>12. CASE RouteNote
  BY <1>12, SafeUnchanged, Zenon DEF RouteNote, clientVars, callVars
<1>13. CASE CloseCall \/ CloseLock \/ CloseWrite \/ CloseConn
  BY <1>13, SafeUnchanged, ZenonT(30)
     DEF CloseCall, CloseLock, CloseWrite, CloseConn, clientVars, callVars, entryVars
<1>14. CASE ServerReads \/ ServerPing \/ ServerGone
  BY <1>14, SafeUnchanged
     DEF ServerReads, ServerSubscribe, ServerUnsubscribe, ServerPongOrClose, ServerPing,
         ServerGone, clientVars, callVars, entryVars
<1>15. ASSUME NEW s \in SubIds, NEW final \in BOOLEAN, ServerNotify(s, final)
       PROVE  Safe'
  BY Zenon, <1>15, SafeUnchanged DEF ServerNotify, clientVars, callVars, entryVars
<1>16. CASE UNCHANGED vars
  BY Zenon, <1>16, SafeUnchanged DEF vars, clientVars, callVars, entryVars
<1>. QED
  BY Zenon, <1>1, <1>2, <1>3, <1>4, <1>5, <1>6, <1>7, <1>8, <1>9, <1>10, <1>11, <1>12, <1>13,
     <1>14, <1>15, <1>16
     DEF Next, CallStep, RecvStep, ReadLoopStep, CloseStep, ServerStep

\* So types and safety hold together throughout.
LEMMA Invariance == Spec => []IInv
<1>1. Init => IInv
  BY Zenon, TypeInit, SafeInit DEF IInv
<1>2. IInv /\ [Next]_vars => IInv'
  BY Zenon, TypeNext, SafeNext DEF IInv
<1>. QED
  BY <1>1, <1>2, PTL DEF Spec

\* No interleaving of request, route, Release and fail closes a channel twice
\* or sends on a closed one.
THEOREM ChannelsSafe == Spec => []NoChannelPanic
<1>1. IInv => NoChannelPanic
  <2> SUFFICES ASSUME IInv
               PROVE  NoChannelPanic
    BY Zenon
  <2>1. \A i, j \in DOMAIN pending : pending[i] = pending[j] => i = j
    BY Zenon DEF IInv, Safe, PendingInv
  <2>2. \A i \in DOMAIN pending : resp[pending[i]] # Closed
    BY Zenon, NoneAssumption DEF IInv, Safe, PendingInv
  <2>3. readLoop = "deliver" => resp[replyTo] # Closed
    BY NoneAssumption DEF IInv, Safe, DeliverInv
  <2>. QED
    BY <2>1, <2>2, <2>3 DEF IInv, Safe, EntryInv, NoChannelPanic
<1>. QED
  BY <1>1, Invariance, PTL

\* route's hand-over of a reply finds its channel empty, whoever has given up
\* waiting in the meantime.
THEOREM ReadLoopNeverBlocked == Spec => []ReplyNeverBlocksReadLoop
<1>1. IInv => ReplyNeverBlocksReadLoop
  BY Zenon DEF IInv, Safe, DeliverInv, ReplyNeverBlocksReadLoop
<1>. QED
  BY <1>1, Invariance, PTL

\* After fail, the tables are empty and stay so.
THEOREM FailureIsFinal == Spec => []NothingRegisteredAfterFailure
<1>1. IInv => NothingRegisteredAfterFailure
  BY DEF IInv, Safe
<1>. QED
  BY <1>1, Invariance, PTL

\* Release's identity check keeps it from closing another subscription's
\* entry, whatever ids the node reuses.
THEOREM OwnersClose == Spec => []EntryClosedOnlyByOwner
<1>1. IInv => EntryClosedOnlyByOwner
  BY Zenon DEF IInv, Safe
<1>. QED
  BY <1>1, Invariance, PTL

-----------------------------------------------------------------------------
(* Requests and their ids.                                                 *)

Asked(i)   == toServer[i].type \in {"sub", "unsub"}
Replied(i) == toClient[i].type \in {"ack", "other", "error"}

\* No two calls have the id of a request in common, an id is in flight once,
\* as a request or as its reply, and not before its call has written it.
IdsOfCalls ==
  /\ \A c \in Calls : callId[c] <= reqID
  /\ \A c, d \in Calls : callId[c] = callId[d] /\ callId[c] # 0 => c = d

IdsBounded ==
  /\ \A i \in DOMAIN toServer : Asked(i) => toServer[i].id <= reqID
  /\ \A i \in DOMAIN toClient : Replied(i) => toClient[i].id <= reqID

AskedOnce ==
  \A i, j \in DOMAIN toServer :
    Asked(i) /\ Asked(j) /\ toServer[i].id = toServer[j].id => i = j

RepliedOnce ==
  \A i, j \in DOMAIN toClient :
    Replied(i) /\ Replied(j) /\ toClient[i].id = toClient[j].id => i = j

AskedOrReplied ==
  \A i \in DOMAIN toServer : \A j \in DOMAIN toClient :
    Asked(i) /\ Replied(j) => toServer[i].id # toClient[j].id

IdsUnsent ==
  \A c \in Calls : pc[c] \in {"lock", "write"} =>
    /\ callId[c] # 0
    /\ \A i \in DOMAIN toServer : Asked(i) => toServer[i].id # callId[c]
    /\ \A i \in DOMAIN toClient : Replied(i) => toClient[i].id # callId[c]

IdInv ==
  /\ IdsOfCalls /\ IdsBounded /\ AskedOnce /\ RepliedOnce /\ AskedOrReplied
  /\ IdsUnsent

\* What is in flight, by its type.
LEMMA FlightKinds ==
  ASSUME TypeOK
  PROVE  /\ \A i \in DOMAIN toClient :
              /\ Replied(i) => toClient[i].id \in Nat
              /\ toClient[i].type = "ack" => toClient[i].sub \in SubIds
              /\ toClient[i].type = "note" =>
                   /\ toClient[i] \in Note
                   /\ toClient[i].owner \in Calls
                   /\ toClient[i].sub \in SubIds
                   /\ toClient[i].seq \in Nat
         /\ \A i \in DOMAIN toServer : Asked(i) =>
              /\ toServer[i].id \in Nat
              /\ toServer[i].call \in Calls
<1>1. toClient \in Seq(Frame) /\ toServer \in Seq(Request)
  BY Zenon DEF TypeOK, NodeTypeOK
<1>2. /\ \A i \in DOMAIN toClient : toClient[i] \in Frame
      /\ \A i \in DOMAIN toServer : toServer[i] \in Request
  BY <1>1
<1>3. \A f \in Frame :
        /\ f.type \in {"ack", "other", "error"} => f.id \in Nat
        /\ f.type = "ack" => f.sub \in SubIds
        /\ f.type = "note" => f \in Note /\ f.owner \in Calls /\ f.sub \in SubIds /\ f.seq \in Nat
  BY DEF Frame, Reply, Note
<1>4. \A r \in Request : r.type \in {"sub", "unsub"} => r.id \in Nat /\ r.call \in Calls
  BY DEF Request
<1> QED BY Zenon, <1>2, <1>3, <1>4 DEF Replied, Asked

\* Where a frame was before a step that appends at most one frame, or takes
\* the first, or loses all.
LEMMA Shifts ==
  ASSUME NEW S, NEW q \in Seq(S), NEW p,
         \/ p = q
         \/ p = <<>>
         \/ q # <<>> /\ p = Tail(q)
  PROVE  \E d \in {0, 1} : \A i \in DOMAIN p :
           i \in Nat /\ i + d \in DOMAIN q /\ p[i] = q[i + d]
<1>1. CASE p = q
  BY <1>1
<1>2. CASE p = <<>>
  BY <1>2
<1>3. CASE q # <<>> /\ p = Tail(q)
  BY <1>3
<1> QED BY <1>1, <1>2, <1>3

\* Frames that leave the connection keep the ids apart.
LEMMA IdsShrink ==
  ASSUME IdInv, TypeOK, UNCHANGED <<callId, reqID>>,
         \/ toClient' = toClient
         \/ toClient' = <<>>
         \/ toClient # <<>> /\ toClient' = Tail(toClient),
         \/ toServer' = toServer
         \/ toServer # <<>> /\ toServer' = Tail(toServer),
         \A c \in Calls : pc'[c] \in {"lock", "write"} => pc[c] \in {"lock", "write"}
  PROVE  IdInv'
<1>1. PICK d \in {0, 1} : \A i \in DOMAIN toClient' :
        i \in Nat /\ i + d \in DOMAIN toClient /\ toClient'[i] = toClient[i + d]
  <2>1. toClient \in Seq(Frame)
    BY Zenon DEF TypeOK, NodeTypeOK
  <2> QED BY Zenon, <2>1, Shifts
<1>2. PICK e \in {0, 1} : \A i \in DOMAIN toServer' :
        i \in Nat /\ i + e \in DOMAIN toServer /\ toServer'[i] = toServer[i + e]
  <2>1. toServer \in Seq(Request)
    BY Zenon DEF TypeOK, NodeTypeOK
  <2>2. \/ toServer' = toServer
        \/ toServer' = <<>>
        \/ toServer # <<>> /\ toServer' = Tail(toServer)
    BY Zenon
  <2> QED BY SMT, <2>1, <2>2, Shifts
<1>3. \A i, j \in DOMAIN toClient' : i + d = j + d => i = j
  BY <1>1
<1>4. \A i, j \in DOMAIN toServer' : i + e = j + e => i = j
  BY <1>2
<1>5. IdsOfCalls'
  BY Zenon DEF IdInv, IdsOfCalls
<1>6. IdsUnsent'
  BY Zenon, <1>1, <1>2 DEF IdInv, IdsUnsent, Asked, Replied
<1>7. IdsBounded' /\ AskedOnce' /\ RepliedOnce' /\ AskedOrReplied'
  <2>1. ASSUME NEW i \in DOMAIN toServer', NEW j \in DOMAIN toServer',
               Asked(i)', Asked(j)', toServer'[i].id = toServer'[j].id
        PROVE  i = j
    <3>1. /\ i + e \in DOMAIN toServer /\ j + e \in DOMAIN toServer
          /\ Asked(i + e) /\ Asked(j + e) /\ toServer[i + e].id = toServer[j + e].id
      BY Zenon, <1>2, <2>1 DEF Asked
    <3>2. i + e = j + e
      BY Zenon, <3>1 DEF IdInv, AskedOnce
    <3> QED BY Zenon, <1>4, <3>2
  <2>2. ASSUME NEW i \in DOMAIN toClient', NEW j \in DOMAIN toClient',
               Replied(i)', Replied(j)', toClient'[i].id = toClient'[j].id
        PROVE  i = j
    <3>1. /\ i + d \in DOMAIN toClient /\ j + d \in DOMAIN toClient
          /\ Replied(i + d) /\ Replied(j + d) /\ toClient[i + d].id = toClient[j + d].id
      BY Zenon, <1>1, <2>2 DEF Replied
    <3>2. i + d = j + d
      BY Zenon, <3>1 DEF IdInv, RepliedOnce
    <3> QED BY Zenon, <1>3, <3>2
  <2>3. \A i \in DOMAIN toServer' : Asked(i)' => toServer'[i].id <= reqID'
    BY Zenon, <1>2 DEF IdInv, IdsBounded, Asked
  <2>4. \A i \in DOMAIN toClient' : Replied(i)' => toClient'[i].id <= reqID'
    BY Zenon, <1>1 DEF IdInv, IdsBounded, Replied
  <2>5. ASSUME NEW i \in DOMAIN toServer', NEW j \in DOMAIN toClient', Asked(i)', Replied(j)'
        PROVE  toServer'[i].id # toClient'[j].id
    <3>1. /\ i + e \in DOMAIN toServer /\ j + d \in DOMAIN toClient
          /\ Asked(i + e) /\ Replied(j + d)
          /\ toServer'[i] = toServer[i + e] /\ toClient'[j] = toClient[j + d]
      BY Zenon, <1>1, <1>2, <2>5 DEF Asked, Replied
    <3> QED BY Zenon, <3>1 DEF IdInv, AskedOrReplied
  <2> QED
    BY Zenon, <2>1, <2>2, <2>3, <2>4, <2>5
       DEF IdsBounded, AskedOnce, RepliedOnce, AskedOrReplied
<1> QED BY Zenon, <1>5, <1>6, <1>7 DEF IdInv

\* Frames that carry no id may join either direction.
LEMMA IdsGrow ==
  ASSUME IdInv, TypeOK, UNCHANGED <<callId, reqID>>,
         toClient' = toClient \/ \E f \in Frame :
           toClient' = Append(toClient, f) /\ f.type \notin {"ack", "other", "error"},
         toServer' = toServer \/ \E r \in Request :
           toServer' = Append(toServer, r) /\ r.type \notin {"sub", "unsub"},
         \A c \in Calls : pc'[c] \in {"lock", "write"} => pc[c] \in {"lock", "write"}
  PROVE  IdInv'
<1>1. \A i \in DOMAIN toClient' : Replied(i)' =>
        i \in DOMAIN toClient /\ toClient'[i] = toClient[i] /\ Replied(i)
  <2>1. toClient \in Seq(Frame)
    BY Zenon DEF TypeOK, NodeTypeOK
  <2> QED BY <2>1 DEF Replied
<1>2. \A i \in DOMAIN toServer' : Asked(i)' =>
        i \in DOMAIN toServer /\ toServer'[i] = toServer[i] /\ Asked(i)
  <2>1. toServer \in Seq(Request)
    BY Zenon DEF TypeOK, NodeTypeOK
  <2> QED BY <2>1 DEF Asked
<1>3. IdsOfCalls'
  BY Zenon DEF IdInv, IdsOfCalls
<1>4. IdsUnsent'
  BY ZenonT(60), <1>1, <1>2 DEF IdInv, IdsUnsent
<1>5. IdsBounded' /\ AskedOnce' /\ RepliedOnce' /\ AskedOrReplied'
  <2>1. ASSUME NEW i \in DOMAIN toServer', NEW j \in DOMAIN toServer',
               Asked(i)', Asked(j)', toServer'[i].id = toServer'[j].id
        PROVE  i = j
    BY Zenon, <1>2, <2>1 DEF IdInv, AskedOnce
  <2>2. ASSUME NEW i \in DOMAIN toClient', NEW j \in DOMAIN toClient',
               Replied(i)', Replied(j)', toClient'[i].id = toClient'[j].id
        PROVE  i = j
    BY Zenon, <1>1, <2>2 DEF IdInv, RepliedOnce
  <2>3. \A i \in DOMAIN toServer' : Asked(i)' => toServer'[i].id <= reqID'
    BY Zenon, <1>2 DEF IdInv, IdsBounded
  <2>4. \A i \in DOMAIN toClient' : Replied(i)' => toClient'[i].id <= reqID'
    BY Zenon, <1>1 DEF IdInv, IdsBounded
  <2>5. ASSUME NEW i \in DOMAIN toServer', NEW j \in DOMAIN toClient', Asked(i)', Replied(j)'
        PROVE  toServer'[i].id # toClient'[j].id
    BY Zenon, <1>1, <1>2, <2>5 DEF IdInv, AskedOrReplied
  <2> QED
    BY Zenon, <2>1, <2>2, <2>3, <2>4, <2>5
       DEF IdsBounded, AskedOnce, RepliedOnce, AskedOrReplied
<1> QED BY Zenon, <1>3, <1>4, <1>5 DEF IdInv

\* The node answers the request at the head of its input.
LEMMA IdsAnswered ==
  ASSUME IdInv, TypeOK, UNCHANGED <<callId, reqID, pc>>,
         toServer # <<>>, toServer' = Tail(toServer), Asked(1),
         NEW f \in Frame, toClient' = Append(toClient, f),
         f.type \in {"ack", "other", "error"}, f.id = Head(toServer).id
  PROVE  IdInv'
<1>1. \A i \in DOMAIN toClient' :
        \/ i \in DOMAIN toClient /\ toClient'[i] = toClient[i] /\ (Replied(i)' => Replied(i))
        \/ i = Len(toClient) + 1 /\ toClient'[i] = f
  <2>1. toClient \in Seq(Frame)
    BY Zenon DEF TypeOK, NodeTypeOK
  <2> QED BY <2>1 DEF Replied
<1>2. /\ 1 \in DOMAIN toServer /\ toServer[1].id = f.id
      /\ \A i \in DOMAIN toServer' :
           /\ i \in Nat /\ i + 1 \in DOMAIN toServer /\ i + 1 # 1
           /\ toServer'[i] = toServer[i + 1] /\ (Asked(i)' => Asked(i + 1))
  <2>1. toServer \in Seq(Request)
    BY Zenon DEF TypeOK, NodeTypeOK
  <2> QED BY <2>1 DEF Asked
<1>3. \A i \in DOMAIN toServer' : Asked(i)' => toServer'[i].id # f.id
  BY Zenon, <1>2 DEF IdInv, AskedOnce
<1>4. \A i \in DOMAIN toClient : Replied(i) => toClient[i].id # f.id
  BY Zenon, <1>2 DEF IdInv, AskedOrReplied
<1>5. IdsOfCalls'
  BY Zenon DEF IdInv, IdsOfCalls
<1>6. IdsUnsent'
  <2>1. \A c \in Calls : pc[c] \in {"lock", "write"} => f.id # callId[c]
    BY Zenon, <1>2 DEF IdInv, IdsUnsent
  <2> QED BY Zenon, <1>1, <1>2, <2>1 DEF IdInv, IdsUnsent
<1>7. IdsBounded' /\ AskedOnce' /\ RepliedOnce' /\ AskedOrReplied'
  <2>1. ASSUME NEW i \in DOMAIN toServer', NEW j \in DOMAIN toServer',
               Asked(i)', Asked(j)', toServer'[i].id = toServer'[j].id
        PROVE  i = j
    <3>1. i + 1 = j + 1
      BY ZenonT(60), <1>2, <2>1 DEF IdInv, AskedOnce
    <3> QED BY <1>2, <3>1
  <2>2. ASSUME NEW i \in DOMAIN toClient', NEW j \in DOMAIN toClient',
               Replied(i)', Replied(j)', toClient'[i].id = toClient'[j].id
        PROVE  i = j
    BY Zenon, <1>1, <1>4, <2>2 DEF IdInv, RepliedOnce
  <2>3. \A i \in DOMAIN toServer' : Asked(i)' => toServer'[i].id <= reqID'
    BY Zenon, <1>2 DEF IdInv, IdsBounded
  <2>4. \A i \in DOMAIN toClient' : Replied(i)' => toClient'[i].id <= reqID'
    BY Zenon, <1>1, <1>2 DEF IdInv, IdsBounded
  <2>5. ASSUME NEW i \in DOMAIN toServer', NEW j \in DOMAIN toClient', Asked(i)', Replied(j)'
        PROVE  toServer'[i].id # toClient'[j].id
    BY Zenon, <1>1, <1>2, <1>3, <2>5 DEF IdInv, AskedOrReplied
  <2> QED
    BY Zenon, <2>1, <2>2, <2>3, <2>4, <2>5
       DEF IdsBounded, AskedOnce, RepliedOnce, AskedOrReplied
<1> QED BY Zenon, <1>5, <1>6, <1>7 DEF IdInv

\* A call writes its request.
LEMMA IdsWritten ==
  ASSUME IdInv, TypeOK, UNCHANGED <<callId, reqID, toClient>>,
         NEW c \in Calls, pc[c] = "write", GoTo(c, "await"),
         NEW r \in Request, toServer' = Append(toServer, r), r.id = callId[c]
  PROVE  IdInv'
<1>1. \A i \in DOMAIN toServer' :
        \/ i \in DOMAIN toServer /\ toServer'[i] = toServer[i] /\ (Asked(i)' => Asked(i))
        \/ i = Len(toServer) + 1 /\ toServer'[i] = r
  <2>1. toServer \in Seq(Request)
    BY Zenon DEF TypeOK, NodeTypeOK
  <2> QED BY <2>1 DEF Asked
<1>2. \A d \in Calls : pc'[d] \in {"lock", "write"} => pc[d] \in {"lock", "write"} /\ d # c
  BY DEF GoTo, TypeOK, CallTypeOK
<1>3. \A i \in DOMAIN toClient' : Replied(i)' <=> Replied(i)
  BY Zenon DEF Replied
<1>4. /\ callId[c] # 0 /\ callId[c] <= reqID
      /\ \A i \in DOMAIN toServer : Asked(i) => toServer[i].id # callId[c]
      /\ \A i \in DOMAIN toClient : Replied(i) => toClient[i].id # callId[c]
  BY Zenon DEF IdInv, IdsUnsent, IdsOfCalls
<1>5. IdsOfCalls'
  BY Zenon DEF IdInv, IdsOfCalls
<1>6. IdsUnsent'
  <2>1. \A d \in Calls : d # c => callId[d] # callId[c]
    BY Zenon, <1>4 DEF IdInv, IdsOfCalls
  <2> SUFFICES ASSUME NEW d \in Calls, pc'[d] \in {"lock", "write"}
               PROVE  /\ callId'[d] # 0
                      /\ \A i \in DOMAIN toServer' : Asked(i)' => toServer'[i].id # callId'[d]
                      /\ \A i \in DOMAIN toClient' : Replied(i)' => toClient'[i].id # callId'[d]
    BY Zenon DEF IdsUnsent
  <2>2. /\ callId[d] # 0 /\ d # c
        /\ \A i \in DOMAIN toServer : Asked(i) => toServer[i].id # callId[d]
        /\ \A i \in DOMAIN toClient : Replied(i) => toClient[i].id # callId[d]
    BY Zenon, <1>2 DEF IdInv, IdsUnsent
  <2> QED BY Zenon, <1>1, <1>3, <2>1, <2>2
<1>7. IdsBounded' /\ AskedOnce' /\ RepliedOnce' /\ AskedOrReplied'
  <2>1. AskedOnce'
    <3>1. ASSUME NEW i \in DOMAIN toServer', NEW j \in DOMAIN toServer',
                 Asked(i)', Asked(j)', toServer'[i].id = toServer'[j].id
          PROVE  i = j
      BY Zenon, <1>1, <1>4, <3>1 DEF IdInv, AskedOnce
    <3> QED BY Zenon, <3>1 DEF AskedOnce
  <2>2. RepliedOnce'
    BY Zenon, <1>3 DEF IdInv, RepliedOnce
  <2>3. IdsBounded'
    BY Zenon, <1>1, <1>3, <1>4 DEF IdInv, IdsBounded
  <2>4. AskedOrReplied'
    <3>1. ASSUME NEW i \in DOMAIN toServer', NEW j \in DOMAIN toClient', Asked(i)', Replied(j)'
          PROVE  toServer'[i].id # toClient'[j].id
      BY Zenon, <1>1, <1>3, <1>4, <3>1 DEF IdInv, AskedOrReplied
    <3> QED BY Zenon, <3>1 DEF AskedOrReplied
  <2> QED BY Zenon, <2>1, <2>2, <2>3, <2>4
<1> QED BY Zenon, <1>5, <1>6, <1>7 DEF IdInv

\* A call takes an id that no other has had.
LEMMA IdsTaken ==
  ASSUME IdInv, TypeOK, UNCHANGED <<toServer, toClient>>, NEW c \in Calls,
         reqID' = reqID + 1,
         \/ UNCHANGED callId /\ GoTo(c, "returned")
         \/ callId' = [callId EXCEPT ![c] = reqID + 1] /\ GoTo(c, "lock")
  PROVE  IdInv'
<1>1. reqID \in Nat /\ callId \in [Calls -> Nat] /\ pc = [d \in Calls |-> pc[d]]
  BY DEF TypeOK, ClientTypeOK, CallTypeOK
<1>2. \A i \in DOMAIN toClient : (Replied(i)' <=> Replied(i))
                                /\ (Replied(i) => toClient[i].id \in Nat /\ toClient[i].id <= reqID)
  BY Zenon, FlightKinds DEF Replied, IdInv, IdsBounded
<1>3. \A i \in DOMAIN toServer : (Asked(i)' <=> Asked(i))
                                /\ (Asked(i) => toServer[i].id \in Nat /\ toServer[i].id <= reqID)
  BY Zenon, FlightKinds DEF Asked, IdInv, IdsBounded
<1>4. /\ \A d \in Calls \ {c} : callId'[d] = callId[d] /\ pc'[d] = pc[d]
      /\ \/ callId'[c] = callId[c] /\ pc'[c] = "returned"
         \/ callId'[c] = reqID + 1 /\ pc'[c] = "lock"
  BY <1>1 DEF GoTo
<1>5. \A d \in Calls : callId[d] <= reqID /\ callId[d] \in Nat
  BY Zenon, <1>1 DEF IdInv, IdsOfCalls
<1>6. IdsOfCalls'
  <2>1. \A d \in Calls : callId'[d] <= reqID'
    BY <1>1, <1>4, <1>5
  <2>2. ASSUME NEW d \in Calls, NEW e \in Calls, callId'[d] = callId'[e], callId'[d] # 0
        PROVE  d = e
    <3>1. callId'[d] = callId[d] \/ (d = c /\ callId'[d] > reqID)
      BY <1>1, <1>4
    <3>2. callId'[e] = callId[e] \/ (e = c /\ callId'[e] > reqID)
      BY <1>1, <1>4
    <3>3. CASE callId'[d] = callId[d] /\ callId'[e] = callId[e]
      BY Zenon, <2>2, <3>3 DEF IdInv, IdsOfCalls
    <3> QED BY <1>1, <1>5, <2>2, <3>1, <3>2, <3>3
  <2> QED BY Zenon, <2>1, <2>2 DEF IdsOfCalls
<1>7. IdsUnsent'
  <2> SUFFICES ASSUME NEW d \in Calls, pc'[d] \in {"lock", "write"}
               PROVE  /\ callId'[d] # 0
                      /\ \A i \in DOMAIN toServer' : Asked(i)' => toServer'[i].id # callId'[d]
                      /\ \A i \in DOMAIN toClient' : Replied(i)' => toClient'[i].id # callId'[d]
    BY Zenon DEF IdsUnsent
  <2>1. CASE d = c
    <3>1. callId'[d] = reqID + 1
      BY Zenon, <1>4, <2>1
    <3> QED BY <1>1, <1>2, <1>3, <3>1
  <2>2. CASE d # c
    BY Zenon, <1>2, <1>3, <1>4, <2>2 DEF IdInv, IdsUnsent
  <2> QED BY <2>1, <2>2
<1>8. IdsBounded'
  <2>1. ASSUME NEW k \in Nat, k <= reqID PROVE k <= reqID'
    BY <1>1, <2>1
  <2> QED BY Zenon, <1>2, <1>3, <2>1 DEF IdsBounded
<1>9. AskedOnce' /\ RepliedOnce' /\ AskedOrReplied'
  BY Zenon, <1>2, <1>3 DEF IdInv, AskedOnce, RepliedOnce, AskedOrReplied
<1> QED BY Zenon, <1>6, <1>7, <1>8, <1>9 DEF IdInv

\* Every step keeps the ids of requests apart.
LEMMA IdNext ==
  ASSUME IInv, IdInv, [Next]_vars
  PROVE  IdInv'
<1> USE DEF clientVars, callVars, netVars
<1>t. TypeOK
  BY Zenon DEF IInv
<1>p. \A c \in Calls : \A label : label \notin {"lock", "write"} /\ GoTo(c, label) =>
        \A d \in Calls : pc'[d] \in {"lock", "write"} => pc[d] \in {"lock", "write"}
  BY <1>t DEF GoTo, TypeOK, CallTypeOK
<1>q. UNCHANGED pc =>
        \A d \in Calls : pc'[d] \in {"lock", "write"} => pc[d] \in {"lock", "write"}
  BY Zenon
<1>1. ASSUME NEW c \in Calls, Register(c)
      PROVE  IdInv'
  BY Zenon, <1>1, <1>t, IdsTaken DEF Register, NextReqID
<1>2. ASSUME NEW c \in Calls,
             \/ LockWrite(c) \/ Abandon(c) \/ AwaitReply(c) \/ AwaitFailure(c) \/ AwaitCancel(c)
             \/ Release(c) \/ Unsubscribe(c) \/ RecvStep(c)
      PROVE  IdInv'
  <2>1. UNCHANGED <<callId, reqID, toClient, toServer>>
    BY Zenon, <1>2 DEF LockWrite, Abandon, AwaitReply, AwaitFailure, AwaitCancel, Release,
                       Unsubscribe, RecvStep, RecvNote, RecvClosed
  <2>2. \A d \in Calls : pc'[d] \in {"lock", "write"} => pc[d] \in {"lock", "write"}
    <3>1. CASE LockWrite(c)
      BY <1>t, <3>1 DEF LockWrite, GoTo, TypeOK, CallTypeOK
    <3>2. CASE UNCHANGED pc
      BY Zenon, <3>2
    <3>3. CASE \E label : label \notin {"lock", "write"} /\ GoTo(c, label)
      BY Zenon, <1>p, <3>3
    <3>4. \/ LockWrite(c) \/ UNCHANGED pc
          \/ GoTo(c, "returned") \/ GoTo(c, "open") \/ GoTo(c, "cancel")
          \/ GoTo(c, "released") \/ GoTo(c, "register")
      BY Zenon, <1>2 DEF Abandon, AwaitReply, AwaitFailure, AwaitCancel, Release, Unsubscribe,
                         RecvStep, RecvNote, RecvClosed
    <3>5. \A label \in {"returned", "open", "cancel", "released", "register"} :
            label \notin {"lock", "write"}
      OBVIOUS
    <3> QED BY Zenon, <3>1, <3>2, <3>3, <3>4, <3>5
  <2> QED BY Zenon, <1>t, <2>1, <2>2, IdsShrink
<1>3. ASSUME NEW c \in Calls, Write(c)
      PROVE  IdInv'
  <2> DEFINE r == [type |-> kind[c], id |-> callId[c], call |-> c, sub |-> handle[c]]
  <2>1. /\ pc[c] = "write" /\ UNCHANGED <<callId, reqID, toClient>>
        /\ \/ toServer' = Append(toServer, r) /\ GoTo(c, "await")
           \/ UNCHANGED toServer /\ (GoTo(c, "await") \/ GoTo(c, "writeErr"))
    BY Zenon, <1>3 DEF Write, WriteOK, WriteFails
  <2>2. r \in Request /\ r.id = callId[c]
    BY <1>t DEF Request, TypeOK, CallTypeOK
  <2>3. CASE toServer' = Append(toServer, r) /\ GoTo(c, "await")
    BY Zenon, <1>t, <2>1, <2>2, <2>3, IdsWritten
  <2>4. CASE UNCHANGED toServer /\ (GoTo(c, "await") \/ GoTo(c, "writeErr"))
    <3>1. "await" \notin {"lock", "write"} /\ "writeErr" \notin {"lock", "write"}
      OBVIOUS
    <3>2. \A d \in Calls : pc'[d] \in {"lock", "write"} => pc[d] \in {"lock", "write"}
      BY Zenon, <1>p, <2>4, <3>1
    <3> QED BY Zenon, <1>t, <2>1, <2>4, <3>2, IdsShrink
  <2> QED BY <2>1, <2>3, <2>4
<1>4. CASE \/ RouteNote \/ RouteReply \/ DeliverReply \/ ReadPing \/ PongLock \/ ReadClose \/ ReadError
           \/ ReadLoopFail \/ ReadLoopExit \/ CloseConn \/ CloseFail \/ CloseCall \/ CloseLock
           \/ UNCHANGED vars
  <2>1. /\ UNCHANGED <<callId, reqID, pc, toServer>>
        /\ \/ toClient' = toClient
           \/ toClient' = <<>>
           \/ toClient # <<>> /\ toClient' = Tail(toClient)
    BY ZenonT(30), <1>4
       DEF RouteNote, RouteReply, DeliverReply, ReadPing, PongLock, ReadClose, ReadError,
           ReadLoopFail, ReadLoopExit, CloseConn, CloseFail, CloseCall, CloseLock, Reads, vars
  <2> QED BY Zenon, <1>t, <1>q, <2>1, IdsShrink
<1>5. CASE Pong \/ CloseWrite \/ ServerPing \/ ServerGone
           \/ \E s \in SubIds, final \in BOOLEAN : ServerNotify(s, final)
  <2>1. UNCHANGED <<callId, reqID, pc>>
    BY Zenon, <1>5 DEF Pong, CloseWrite, ServerPing, ServerGone, ServerNotify
  <2>2. toClient' = toClient \/ \E f \in Frame :
          toClient' = Append(toClient, f) /\ f.type \notin {"ack", "other", "error"}
    <3>1. /\ [type |-> "ping"] \in Frame /\ [type |-> "close"] \in Frame
          /\ \A s \in SubIds : serverSubs[s] # None =>
               [type |-> "note", sub |-> s, owner |-> serverSubs[s], seq |-> sent + 1] \in Frame
      BY <1>t DEF Frame, Note, TypeOK, NodeTypeOK
    <3> QED BY Zenon, <1>5, <3>1 DEF Pong, CloseWrite, ServerPing, ServerGone, ServerNotify
  <2>3. toServer' = toServer \/ \E r \in Request :
          toServer' = Append(toServer, r) /\ r.type \notin {"sub", "unsub"}
    <3>1. [type |-> "pong"] \in Request /\ [type |-> "close"] \in Request
      BY DEF Request
    <3> QED BY Zenon, <1>5, <3>1
               DEF Pong, CloseWrite, ServerPing, ServerGone, ServerNotify, WriteOK, WriteFails
  <2> QED BY Zenon, <1>t, <1>q, <2>1, <2>2, <2>3, IdsGrow
<1>6. CASE ServerSubscribe \/ ServerUnsubscribe
  <2>1. /\ toServer # <<>> /\ toServer' = Tail(toServer) /\ UNCHANGED <<callId, reqID, pc>>
        /\ Head(toServer).type \in {"sub", "unsub"}
    BY Zenon, <1>6 DEF ServerSubscribe, ServerUnsubscribe, ServerTakes
  <2>2. Asked(1)
    BY <1>t, <2>1 DEF Asked, TypeOK, NodeTypeOK
  <2>3. Head(toServer).id \in Nat
    BY Zenon, <1>t, <2>1, RequestKinds
  <2>4. \E f \in Frame : /\ toClient' = Append(toClient, f)
                         /\ f.type \in {"ack", "other", "error"}
                         /\ f.id = Head(toServer).id
    <3>1. /\ \A type \in {"other", "error"} : [type |-> type, id |-> Head(toServer).id] \in Frame
          /\ \A s \in SubIds : [type |-> "ack", id |-> Head(toServer).id, sub |-> s] \in Frame
      BY <2>3 DEF Frame, Reply
    <3>2. \/ \E type \in {"other", "error"} :
               toClient' = Append(toClient, [type |-> type, id |-> Head(toServer).id])
          \/ \E s \in SubIds :
               toClient' = Append(toClient, [type |-> "ack", id |-> Head(toServer).id, sub |-> s])
      BY Zenon, <1>6 DEF ServerSubscribe, ServerUnsubscribe, FreeIds
    <3> QED BY Zenon, <3>1, <3>2
  <2> QED BY Zenon, <1>t, <2>1, <2>2, <2>4, IdsAnswered
<1>7. CASE ServerPongOrClose
  <2>1. /\ toServer # <<>> /\ toServer' = Tail(toServer)
        /\ UNCHANGED <<callId, reqID, pc, toClient>>
    BY Zenon, <1>7 DEF ServerPongOrClose, ServerTakes
  <2> QED BY Zenon, <1>t, <1>q, <2>1, IdsShrink
<1> QED
  BY Zenon, <1>1, <1>2, <1>3, <1>4, <1>5, <1>6, <1>7
     DEF Next, CallStep, ReadLoopStep, CloseStep, ServerStep, ServerReads

-----------------------------------------------------------------------------
(* The order of notifications.                                             *)

NoteAt(i) == toClient[i].type = "note"

\* Notifications in flight carry increasing numbers; what is queued for a call
\* is older, and what its Recv returned is older still.
FlightOrder ==
  \A i \in DOMAIN toClient : NoteAt(i) =>
    /\ toClient[i].seq \in 1 .. sent
    /\ \A j \in DOMAIN toClient : NoteAt(j) /\ i < j => toClient[i].seq < toClient[j].seq

QueueOrder ==
  \A c \in Calls : \A k \in DOMAIN ch[c] :
    /\ ch[c][k].seq <= sent
    /\ \A j \in DOMAIN toClient : NoteAt(j) => ch[c][k].seq < toClient[j].seq
    /\ \A l \in DOMAIN ch[c] : k < l => ch[c][k].seq < ch[c][l].seq

ReceivedOrder ==
  \A c \in Calls : \A k \in DOMAIN received[c] :
    /\ received[c][k] <= sent
    /\ \A j \in DOMAIN toClient : NoteAt(j) => received[c][k] < toClient[j].seq
    /\ \A l \in DOMAIN ch[c] : received[c][k] < ch[c][l].seq
    /\ \A l \in DOMAIN received[c] : k < l => received[c][k] < received[c][l]

\* The node numbers no more notifications than it may send, and no queue
\* overflows.
Room == sent <= MaxNotes /\ \A c \in Calls : Len(ch[c]) <= Buffer

OrderInv == FlightOrder /\ QueueOrder /\ ReceivedOrder /\ Room

\* What is in a queue, and what Recv returned.
LEMMA EntryKinds ==
  ASSUME TypeOK, NEW c \in Calls
  PROVE  /\ ch[c] \in Seq(Note) /\ received[c] \in Seq(Nat)
         /\ \A k \in DOMAIN ch[c] : ch[c][k] \in Note /\ ch[c][k].seq \in Nat
         /\ \A k \in DOMAIN received[c] : received[c][k] \in Nat
<1>1. ch[c] \in Seq(Note) /\ received[c] \in Seq(Nat)
  BY Zenon DEF TypeOK, EntryTypeOK
<1>2. \A n \in Note : n.seq \in Nat
  BY DEF Note
<1>3. /\ \A k \in DOMAIN ch[c] : ch[c][k] \in Note
      /\ \A k \in DOMAIN received[c] : received[c][k] \in Nat
  BY <1>1
<1> QED BY Zenon, <1>1, <1>2, <1>3

\* Notifications stay where they are in flight, move up, or are lost.
LEMMA OrderKept ==
  ASSUME OrderInv, UNCHANGED <<ch, received, sent>>, NEW d \in {0, 1},
         \A i \in DOMAIN toClient' : NoteAt(i)' =>
           /\ i \in Nat /\ i + d \in DOMAIN toClient
           /\ toClient'[i] = toClient[i + d]
  PROVE  OrderInv'
<1>1. \A i \in DOMAIN toClient' : NoteAt(i)' => NoteAt(i + d)
  BY Zenon DEF NoteAt
<1>2. FlightOrder'
  <2>1. ASSUME NEW i \in DOMAIN toClient', NoteAt(i)', NEW j \in DOMAIN toClient', NoteAt(j)', i < j
        PROVE  toClient'[i].seq < toClient'[j].seq
    <3>1. i + d < j + d
      BY <2>1
    <3> QED BY Zenon, <1>1, <2>1, <3>1 DEF OrderInv, FlightOrder
  <2>2. \A i \in DOMAIN toClient' : NoteAt(i)' => toClient'[i].seq \in 1 .. sent'
    BY Zenon, <1>1 DEF OrderInv, FlightOrder
  <2> QED BY Zenon, <2>1, <2>2 DEF FlightOrder
<1>3. QueueOrder'
  BY Zenon, <1>1 DEF OrderInv, QueueOrder
<1>4. ReceivedOrder'
  BY Zenon, <1>1 DEF OrderInv, ReceivedOrder
<1>5. Room'
  BY Zenon DEF OrderInv, Room
<1> QED BY Zenon, <1>2, <1>3, <1>4, <1>5 DEF OrderInv

\* The node sends its next notification.
LEMMA OrderSent ==
  ASSUME OrderInv, TypeOK, UNCHANGED <<ch, received>>, sent < MaxNotes, sent' = sent + 1,
         NEW f \in Note, toClient' = Append(toClient, f), f.seq = sent + 1
  PROVE  OrderInv'
<1>1. sent \in Nat /\ toClient \in Seq(Frame)
  BY Zenon DEF TypeOK, NodeTypeOK
<1>2. \A i \in DOMAIN toClient' :
        /\ i \in Nat
        /\ \/ i \in DOMAIN toClient /\ i <= Len(toClient) /\ toClient'[i] = toClient[i]
           \/ i = Len(toClient) + 1 /\ toClient'[i] = f
  BY <1>1
<1>3. /\ \A i \in DOMAIN toClient : NoteAt(i)' => toClient'[i] # toClient[i] \/ NoteAt(i)
      /\ \A i \in DOMAIN toClient : NoteAt(i) => toClient[i].seq \in Nat
  BY Zenon, FlightKinds DEF NoteAt
<1>4. FlightOrder'
  <2>1. ASSUME NEW i \in DOMAIN toClient', NoteAt(i)'
        PROVE  toClient'[i].seq \in 1 .. sent'
    <3>1. CASE i \in DOMAIN toClient /\ toClient'[i] = toClient[i]
      <4>1. toClient[i].seq \in 1 .. sent
        BY Zenon, <1>3, <2>1, <3>1 DEF OrderInv, FlightOrder
      <4> QED BY <1>1, <3>1, <4>1
    <3>2. CASE toClient'[i] = f
      BY <1>1, <3>2
    <3> QED BY Zenon, <1>2, <3>1, <3>2
  <2>2. ASSUME NEW i \in DOMAIN toClient', NoteAt(i)', NEW j \in DOMAIN toClient', NoteAt(j)', i < j
        PROVE  toClient'[i].seq < toClient'[j].seq
    <3>1. i \in DOMAIN toClient /\ toClient'[i] = toClient[i]
      BY <1>1, <1>2, <2>2
    <3>2. toClient[i].seq \in 1 .. sent
      BY Zenon, <1>3, <2>2, <3>1 DEF OrderInv, FlightOrder
    <3>3. CASE j \in DOMAIN toClient /\ toClient'[j] = toClient[j]
      BY Zenon, <1>3, <2>2, <3>1, <3>3 DEF OrderInv, FlightOrder
    <3>4. CASE toClient'[j] = f
      BY <1>1, <3>1, <3>2, <3>4
    <3> QED BY Zenon, <1>2, <3>3, <3>4
  <2> QED BY Zenon, <2>1, <2>2 DEF FlightOrder
<1>5. \A k : k <= sent /\ k \in Nat => k <= sent' /\ k < f.seq
  BY <1>1
<1>6. QueueOrder'
  <2> SUFFICES ASSUME NEW c \in Calls, NEW k \in DOMAIN ch[c]
               PROVE  /\ ch[c][k].seq <= sent'
                      /\ \A j \in DOMAIN toClient' : NoteAt(j)' => ch[c][k].seq < toClient'[j].seq
                      /\ \A l \in DOMAIN ch[c] : k < l => ch[c][k].seq < ch[c][l].seq
    BY Zenon DEF QueueOrder
  <2>1. ch[c][k].seq \in Nat
    BY Zenon, EntryKinds
  <2>2. /\ ch[c][k].seq <= sent
        /\ \A j \in DOMAIN toClient : NoteAt(j) => ch[c][k].seq < toClient[j].seq
        /\ \A l \in DOMAIN ch[c] : k < l => ch[c][k].seq < ch[c][l].seq
    BY Zenon DEF OrderInv, QueueOrder
  <2> QED BY Zenon, <1>2, <1>3, <1>5, <2>1, <2>2
<1>7. ReceivedOrder'
  <2> SUFFICES ASSUME NEW c \in Calls, NEW k \in DOMAIN received[c]
               PROVE  /\ received[c][k] <= sent'
                      /\ \A j \in DOMAIN toClient' : NoteAt(j)' => received[c][k] < toClient'[j].seq
                      /\ \A l \in DOMAIN ch[c] : received[c][k] < ch[c][l].seq
                      /\ \A l \in DOMAIN received[c] : k < l => received[c][k] < received[c][l]
    BY Zenon DEF ReceivedOrder
  <2>1. received[c][k] \in Nat
    BY Zenon, EntryKinds
  <2>2. /\ received[c][k] <= sent
        /\ \A j \in DOMAIN toClient : NoteAt(j) => received[c][k] < toClient[j].seq
        /\ \A l \in DOMAIN ch[c] : received[c][k] < ch[c][l].seq
        /\ \A l \in DOMAIN received[c] : k < l => received[c][k] < received[c][l]
    BY Zenon DEF OrderInv, ReceivedOrder
  <2> QED BY Zenon, <1>2, <1>3, <1>5, <2>1, <2>2
<1>8. Room'
  <2>1. sent' <= MaxNotes
    BY <1>1, ConstantsAssumption
  <2> QED BY Zenon, <2>1 DEF OrderInv, Room
<1> QED BY Zenon, <1>4, <1>6, <1>7, <1>8 DEF OrderInv

\* The read loop puts the oldest notification in flight at the end of a queue.
LEMMA OrderQueued ==
  ASSUME OrderInv, TypeOK, UNCHANGED <<received, sent>>,
         toClient # <<>>, NoteAt(1), toClient' = Tail(toClient), NEW c \in Calls,
         Len(ch[c]) < Buffer, ch' = [ch EXCEPT ![c] = Append(@, Head(toClient))]
  PROVE  OrderInv'
<1> DEFINE n == toClient[1]
<1>1. toClient \in Seq(Frame) /\ sent \in Nat
  BY Zenon DEF TypeOK, NodeTypeOK
<1>2. 1 \in DOMAIN toClient /\ Head(toClient) = n
  BY <1>1
<1>3. n \in Note /\ n.seq \in 1 .. sent
  BY Zenon, <1>2, FlightKinds DEF NoteAt, OrderInv, FlightOrder
<1>4. \A i \in DOMAIN toClient' :
        i \in Nat /\ 1 < i + 1 /\ i + 1 \in DOMAIN toClient /\ toClient'[i] = toClient[i + 1]
  BY <1>1
<1>5. \A i \in DOMAIN toClient' : NoteAt(i)' => NoteAt(i + 1) /\ n.seq < toClient'[i].seq
  BY Zenon, <1>2, <1>4 DEF NoteAt, OrderInv, FlightOrder
<1> HIDE DEF n
<1>6. ASSUME NEW e \in Calls
      PROVE  /\ \A k \in DOMAIN ch'[e] :
                  \/ k \in DOMAIN ch[e] /\ ch'[e][k] = ch[e][k]
                  \/ e = c /\ k = Len(ch[c]) + 1 /\ ch'[e][k] = n
             /\ \A k \in DOMAIN ch'[e] : k \in Nat
             /\ \A k \in DOMAIN ch[c] : k <= Len(ch[c])
             /\ Len(ch[c]) \in Nat
             /\ Len(ch'[e]) <= Buffer
  <2>1. ch[e] \in Seq(Note) /\ ch[c] \in Seq(Note) /\ Len(ch[e]) <= Buffer
    BY Zenon, EntryKinds DEF OrderInv, Room
  <2>2. ch'[e] = IF e = c THEN Append(ch[c], n) ELSE ch[e]
    BY Zenon, <1>2 DEF TypeOK, EntryTypeOK
  <2>3. CASE e # c
    BY <2>1, <2>2, <2>3
  <2>4. CASE e = c
    BY <1>3, <2>1, <2>2, <2>4, ConstantsAssumption
  <2> QED BY <2>3, <2>4
<1>7. FlightOrder'
  <2>1. ASSUME NEW i \in DOMAIN toClient', NoteAt(i)', NEW j \in DOMAIN toClient', NoteAt(j)', i < j
        PROVE  toClient'[i].seq < toClient'[j].seq
    <3>1. i + 1 < j + 1
      BY <1>4, <2>1
    <3> QED BY Zenon, <1>4, <1>5, <2>1, <3>1 DEF OrderInv, FlightOrder
  <2>2. \A i \in DOMAIN toClient' : NoteAt(i)' => toClient'[i].seq \in 1 .. sent'
    BY Zenon, <1>4, <1>5 DEF OrderInv, FlightOrder
  <2> QED BY Zenon, <2>1, <2>2 DEF FlightOrder
<1>8. \A e \in Calls : \A k \in DOMAIN ch[e] : ch[e][k].seq <= sent /\ ch[e][k].seq < n.seq
  BY Zenon, <1>2 DEF OrderInv, QueueOrder, n
<1>9. \A e \in Calls : \A k \in DOMAIN received[e] : received[e][k] < n.seq
  BY Zenon, <1>2 DEF OrderInv, ReceivedOrder, n
<1>10. n.seq <= sent
  BY <1>1, <1>3
<1>11. QueueOrder'
  <2> SUFFICES ASSUME NEW e \in Calls, NEW k \in DOMAIN ch'[e]
               PROVE  /\ ch'[e][k].seq <= sent'
                      /\ \A j \in DOMAIN toClient' : NoteAt(j)' => ch'[e][k].seq < toClient'[j].seq
                      /\ \A l \in DOMAIN ch'[e] : k < l => ch'[e][k].seq < ch'[e][l].seq
    BY Zenon DEF QueueOrder
  <2>1. CASE k \in DOMAIN ch[e] /\ ch'[e][k] = ch[e][k]
    <3>1. /\ ch[e][k].seq <= sent
          /\ \A j \in DOMAIN toClient : NoteAt(j) => ch[e][k].seq < toClient[j].seq
          /\ \A l \in DOMAIN ch[e] : k < l => ch[e][k].seq < ch[e][l].seq
      BY Zenon, <2>1 DEF OrderInv, QueueOrder
    <3> QED BY Zenon, <1>4, <1>5, <1>6, <1>8, <2>1, <3>1
  <2>2. CASE e = c /\ k = Len(ch[c]) + 1 /\ ch'[e][k] = n
    <3>1. \A l \in DOMAIN ch'[e] : ~(k < l)
      BY <1>6, <2>2
    <3> QED BY Zenon, <1>5, <1>10, <2>2, <3>1
  <2> QED BY Zenon, <1>6, <2>1, <2>2
<1>12. ReceivedOrder'
  <2> SUFFICES ASSUME NEW e \in Calls, NEW k \in DOMAIN received[e]
               PROVE  /\ received[e][k] <= sent'
                      /\ \A j \in DOMAIN toClient' : NoteAt(j)' => received[e][k] < toClient'[j].seq
                      /\ \A l \in DOMAIN ch'[e] : received[e][k] < ch'[e][l].seq
                      /\ \A l \in DOMAIN received[e] : k < l => received[e][k] < received[e][l]
    BY Zenon DEF ReceivedOrder
  <2>1. /\ received[e][k] <= sent
        /\ \A j \in DOMAIN toClient : NoteAt(j) => received[e][k] < toClient[j].seq
        /\ \A l \in DOMAIN ch[e] : received[e][k] < ch[e][l].seq
        /\ \A l \in DOMAIN received[e] : k < l => received[e][k] < received[e][l]
    BY Zenon DEF OrderInv, ReceivedOrder
  <2> QED BY Zenon, <1>4, <1>5, <1>6, <1>9, <2>1
<1>13. Room'
  BY Zenon, <1>6 DEF OrderInv, Room
<1> QED BY Zenon, <1>7, <1>11, <1>12, <1>13 DEF OrderInv

\* Recv returns the oldest notification of its queue.
LEMMA OrderTaken ==
  ASSUME OrderInv, TypeOK, UNCHANGED <<toClient, sent>>, NEW c \in Calls, ch[c] # <<>>,
         ch' = [ch EXCEPT ![c] = Tail(@)],
         received' = [received EXCEPT ![c] = Append(@, Head(ch[c]).seq)]
  PROVE  OrderInv'
<1> DEFINE q == Head(ch[c]).seq
<1>1. ch[c] \in Seq(Note) /\ received[c] \in Seq(Nat)
  BY Zenon, EntryKinds
<1>2. 1 \in DOMAIN ch[c] /\ q = ch[c][1].seq
  BY <1>1
<1>3. q \in Nat /\ q <= sent
  BY Zenon, <1>2, EntryKinds DEF OrderInv, QueueOrder
<1>4. /\ \A e \in Calls : ch'[e] = IF e = c THEN Tail(ch[c]) ELSE ch[e]
      /\ \A e \in Calls : received'[e] = IF e = c THEN Append(received[c], q) ELSE received[e]
  BY Zenon DEF TypeOK, EntryTypeOK
<1>5. \A j \in DOMAIN toClient' : NoteAt(j)' <=> NoteAt(j)
  BY Zenon DEF NoteAt
<1> HIDE DEF q
<1>6. ASSUME NEW e \in Calls
      PROVE  \E d \in {0, 1} :
               /\ e = c => d = 1
               /\ \A k \in DOMAIN ch'[e] : /\ k \in Nat /\ 1 < k + 1
                                           /\ k + d \in DOMAIN ch[e] /\ ch'[e][k] = ch[e][k + d]
  <2>1. ch[e] \in Seq(Note)
    BY Zenon, EntryKinds
  <2>2. CASE e # c
    BY <1>4, <2>1, <2>2
  <2>3. CASE e = c
    <3>1. \A k \in DOMAIN Tail(ch[c]) : /\ k \in Nat /\ 1 < k + 1
                                        /\ k + 1 \in DOMAIN ch[c] /\ Tail(ch[c])[k] = ch[c][k + 1]
      BY <1>1
    <3>2. ch'[e] = Tail(ch[c])
      BY Zenon, <1>4, <2>3
    <3> QED BY Zenon, <2>3, <3>1, <3>2
  <2> QED BY <2>2, <2>3
<1>7. ASSUME NEW e \in Calls
      PROVE  \A k \in DOMAIN received'[e] :
               /\ k \in Nat
               /\ \/ k \in DOMAIN received[e] /\ received'[e][k] = received[e][k]
                  \/ e = c /\ k = Len(received[c]) + 1 /\ received'[e][k] = q
               /\ e = c => k <= Len(received[c]) + 1
  <2>1. received[e] \in Seq(Nat)
    BY Zenon, EntryKinds
  <2>2. CASE e # c
    <3>1. received'[e] = received[e]
      BY Zenon, <1>4, <2>2
    <3> QED BY <2>1, <2>2, <3>1
  <2>3. CASE e = c
    <3>1. received'[e] = Append(received[c], q)
      BY Zenon, <1>4, <2>3
    <3> QED BY <1>1, <1>3, <2>3, <3>1
  <2> QED BY <2>2, <2>3
<1>8. FlightOrder'
  BY Zenon, <1>5 DEF OrderInv, FlightOrder
<1>9. QueueOrder'
  <2> SUFFICES ASSUME NEW e \in Calls, NEW k \in DOMAIN ch'[e]
               PROVE  /\ ch'[e][k].seq <= sent'
                      /\ \A j \in DOMAIN toClient' : NoteAt(j)' => ch'[e][k].seq < toClient'[j].seq
                      /\ \A l \in DOMAIN ch'[e] : k < l => ch'[e][k].seq < ch'[e][l].seq
    BY Zenon DEF QueueOrder
  <2>1. PICK d \in {0, 1} :
          \A l \in DOMAIN ch'[e] :
            l \in Nat /\ l + d \in DOMAIN ch[e] /\ ch'[e][l] = ch[e][l + d]
    BY Zenon, <1>6
  <2>2. /\ ch[e][k + d].seq <= sent
        /\ \A j \in DOMAIN toClient : NoteAt(j) => ch[e][k + d].seq < toClient[j].seq
        /\ \A l \in DOMAIN ch[e] : k + d < l => ch[e][k + d].seq < ch[e][l].seq
    BY Zenon, <2>1 DEF OrderInv, QueueOrder
  <2>3. \A l \in DOMAIN ch'[e] : k < l => k + d < l + d
    BY <2>1
  <2> QED BY Zenon, <1>5, <2>1, <2>2, <2>3
<1>10. ReceivedOrder'
  <2> SUFFICES ASSUME NEW e \in Calls, NEW k \in DOMAIN received'[e]
               PROVE  /\ received'[e][k] <= sent'
                      /\ \A j \in DOMAIN toClient' : NoteAt(j)' => received'[e][k] < toClient'[j].seq
                      /\ \A l \in DOMAIN ch'[e] : received'[e][k] < ch'[e][l].seq
                      /\ \A l \in DOMAIN received'[e] : k < l => received'[e][k] < received'[e][l]
    BY Zenon DEF ReceivedOrder
  <2>1. PICK d \in {0, 1} :
          /\ e = c => d = 1
          /\ \A l \in DOMAIN ch'[e] : /\ l \in Nat /\ 1 < l + 1
                                      /\ l + d \in DOMAIN ch[e] /\ ch'[e][l] = ch[e][l + d]
    BY Zenon, <1>6
  <2>2. CASE k \in DOMAIN received[e] /\ received'[e][k] = received[e][k]
    <3>1. /\ received[e][k] <= sent
          /\ \A j \in DOMAIN toClient : NoteAt(j) => received[e][k] < toClient[j].seq
          /\ \A l \in DOMAIN ch[e] : received[e][k] < ch[e][l].seq
          /\ \A l \in DOMAIN received[e] : k < l => received[e][k] < received[e][l]
      BY Zenon, <2>2 DEF OrderInv, ReceivedOrder
    <3>2. e = c => received[e][k] < q
      BY Zenon, <1>2, <3>1
    <3> QED BY Zenon, <1>5, <1>7, <2>1, <2>2, <3>1, <3>2
  <2>3. CASE e = c /\ k = Len(received[c]) + 1 /\ received'[e][k] = q
    <3>1. /\ \A j \in DOMAIN toClient : NoteAt(j) => q < toClient[j].seq
          /\ \A l \in DOMAIN ch[c] : 1 < l => q < ch[c][l].seq
      BY Zenon, <1>2 DEF OrderInv, QueueOrder
    <3>2. \A l \in DOMAIN received'[e] : ~(k < l)
      BY <1>1, <1>7, <2>3
    <3> QED BY Zenon, <1>3, <1>5, <2>1, <2>3, <3>1, <3>2
  <2> QED BY Zenon, <1>7, <2>2, <2>3
<1>11. Room'
  <2>1. ASSUME NEW e \in Calls
        PROVE  Len(ch'[e]) <= Buffer
    <3>1. Len(ch[e]) <= Buffer /\ Len(ch[c]) <= Buffer
      BY Zenon DEF OrderInv, Room
    <3>2. Len(Tail(ch[c])) <= Buffer
      BY <1>1, <3>1, ConstantsAssumption
    <3> QED BY Zenon, <1>4, <3>1, <3>2
  <2> QED BY Zenon, <2>1 DEF OrderInv, Room
<1> QED BY Zenon, <1>8, <1>9, <1>10, <1>11 DEF OrderInv

\* Every step keeps the order.
LEMMA OrderNext ==
  ASSUME IInv, OrderInv, [Next]_vars
  PROVE  OrderInv'
<1> USE DEF entryVars, userVars, netVars, serverVars
<1>t. TypeOK /\ toClient \in Seq(Frame)
  BY Zenon DEF IInv, TypeOK, NodeTypeOK
<1>a. ASSUME toClient' = toClient, UNCHANGED <<ch, received, sent>>
      PROVE  OrderInv'
  <2>1. \A i \in DOMAIN toClient : i \in Nat /\ i + 0 = i
    BY <1>t
  <2> QED BY Zenon, <1>a, <2>1, OrderKept
<1>b. ASSUME toClient # <<>>, toClient' = Tail(toClient), UNCHANGED <<ch, received, sent>>
      PROVE  OrderInv'
  <2>1. \A i \in DOMAIN toClient' :
          i \in Nat /\ i + 1 \in DOMAIN toClient /\ toClient'[i] = toClient[i + 1]
    BY <1>t, <1>b
  <2> QED BY Zenon, <1>b, <2>1, OrderKept
<1>c. ASSUME NEW f \in Frame, f.type # "note", toClient' = Append(toClient, f),
             UNCHANGED <<ch, received, sent>>
      PROVE  OrderInv'
  <2>1. \A i \in DOMAIN toClient' : NoteAt(i)' =>
          i \in Nat /\ i + 0 \in DOMAIN toClient /\ toClient'[i] = toClient[i + 0]
    BY <1>t, <1>c DEF NoteAt
  <2> QED BY Zenon, <1>c, <2>1, OrderKept
<1>1. ASSUME NEW c \in Calls,
             \/ CallStep(c) \/ LockWrite(c) \/ AwaitCancel(c) \/ Release(c) \/ Unsubscribe(c)
             \/ RecvClosed(c)
      PROVE  OrderInv'
  <2>1. UNCHANGED <<toClient, ch, received, sent>>
    BY Zenon, <1>1
       DEF CallStep, Register, LockWrite, Write, Abandon, AwaitReply, AwaitFailure, AwaitCancel,
           Release, Unsubscribe, RecvClosed
  <2> QED BY Zenon, <1>a, <2>1
<1>2. ASSUME NEW c \in Calls, RecvNote(c)
      PROVE  OrderInv'
  BY Zenon, <1>2, <1>t, OrderTaken DEF RecvNote
<1>3. CASE RouteNote
  <2> DEFINE n == Head(toClient)
             c == subs[n.sub]
  <2>1. /\ toClient # <<>> /\ n.type = "note" /\ toClient' = Tail(toClient)
        /\ UNCHANGED <<received, sent>>
        /\ \/ UNCHANGED ch
           \/ c # None /\ Len(ch[c]) < Buffer /\ ch' = [ch EXCEPT ![c] = Append(@, n)]
    BY Zenon, <1>3 DEF RouteNote, Reads
  <2>2. NoteAt(1)
    <3>1. toClient \in Seq(Frame) /\ toClient # <<>>
      BY Zenon, <1>t, <2>1 DEF TypeOK, NodeTypeOK
    <3>2. 1 \in DOMAIN toClient /\ toClient[1] = Head(toClient)
      BY <3>1
    <3> QED BY Zenon, <2>1, <3>2 DEF NoteAt
  <2>3. c # None => c \in Calls
    BY Zenon, <1>t, <2>1, FrameKinds DEF TypeOK, ClientTypeOK
  <2> HIDE DEF c
  <2> QED BY Zenon, <1>b, <1>t, <2>1, <2>2, <2>3, OrderQueued
<1>4. CASE RouteReply \/ ReadPing \/ ReadClose
  <2>1. toClient # <<>> /\ toClient' = Tail(toClient) /\ UNCHANGED <<ch, received, sent>>
    BY Zenon, <1>4 DEF RouteReply, ReadPing, ReadClose, Reads
  <2> QED BY Zenon, <1>b, <2>1
<1>5. CASE ReadError
  <2>1. toClient' = <<>> /\ UNCHANGED <<ch, received, sent>>
    BY Zenon, <1>5 DEF ReadError
  <2>2. DOMAIN toClient' = {}
    BY <2>1
  <2> QED BY Zenon, <2>1, <2>2, OrderKept
<1>6. CASE \/ DeliverReply \/ PongLock \/ Pong \/ ReadLoopFail \/ ReadLoopExit \/ CloseWrite
           \/ CloseConn \/ CloseFail \/ CloseCall \/ CloseLock \/ ServerPongOrClose \/ UNCHANGED vars
  <2>1. UNCHANGED <<toClient, ch, received, sent>>
    BY Zenon, <1>6
       DEF DeliverReply, PongLock, Pong, ReadLoopFail, ReadLoopExit, CloseWrite, CloseConn,
           CloseFail, CloseCall, CloseLock, ServerPongOrClose, vars
  <2> QED BY Zenon, <1>a, <2>1
<1>7. CASE ServerSubscribe \/ ServerUnsubscribe
  <2>1. /\ toServer # <<>> /\ Head(toServer).type \in {"sub", "unsub"}
        /\ UNCHANGED <<ch, received, sent>>
    BY Zenon, <1>7 DEF ServerSubscribe, ServerUnsubscribe, ServerTakes
  <2>2. Head(toServer).id \in Nat
    BY Zenon, <1>t, <2>1, RequestKinds
  <2>3. /\ \A type \in {"other", "error"} : [type |-> type, id |-> Head(toServer).id] \in Frame
        /\ \A s \in SubIds : [type |-> "ack", id |-> Head(toServer).id, sub |-> s] \in Frame
    BY <2>2 DEF Frame, Reply
  <2>4. \/ \E type \in {"other", "error"} :
             toClient' = Append(toClient, [type |-> type, id |-> Head(toServer).id])
        \/ \E s \in SubIds :
             toClient' = Append(toClient, [type |-> "ack", id |-> Head(toServer).id, sub |-> s])
    BY Zenon, <1>7 DEF ServerSubscribe, ServerUnsubscribe, FreeIds
  <2>5. \E f \in Frame : f.type # "note" /\ toClient' = Append(toClient, f)
    BY Zenon, <2>3, <2>4
  <2> QED BY Zenon, <1>c, <2>1, <2>5
<1>8. ASSUME NEW s \in SubIds, NEW final \in BOOLEAN, ServerNotify(s, final)
      PROVE  OrderInv'
  <2> DEFINE f == [type |-> "note", sub |-> s, owner |-> serverSubs[s], seq |-> sent + 1]
  <2>1. /\ serverSubs[s] # None /\ sent < MaxNotes /\ sent' = sent + 1
        /\ toClient' = Append(toClient, f)
        /\ UNCHANGED <<ch, received>>
    BY Zenon, <1>8 DEF ServerNotify
  <2>2. f \in Note /\ f.seq = sent + 1
    BY <1>t, <2>1 DEF Note, TypeOK, NodeTypeOK
  <2> HIDE DEF f
  <2> QED BY Zenon, <1>t, <2>1, <2>2, OrderSent
<1>9. CASE ServerPing \/ ServerGone
  <2>1. /\ [type |-> "ping"] \in Frame /\ [type |-> "ping"].type # "note"
        /\ [type |-> "close"] \in Frame /\ [type |-> "close"].type # "note"
    BY DEF Frame
  <2>2. /\ UNCHANGED <<ch, received, sent>>
        /\ \/ toClient' = toClient
           \/ toClient' = Append(toClient, [type |-> "ping"])
           \/ toClient' = Append(toClient, [type |-> "close"])
    BY Zenon, <1>9 DEF ServerPing, ServerGone
  <2> QED BY Zenon, <1>a, <1>c, <2>1, <2>2
<1> QED
  BY Zenon, <1>1, <1>2, <1>3, <1>4, <1>5, <1>6, <1>7, <1>8, <1>9
     DEF Next, RecvStep, ReadLoopStep, CloseStep, ServerStep, ServerReads

=============================================================================
