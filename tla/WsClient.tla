------------------------------ MODULE WsClient ------------------------------
(***************************************************************************)
(* The WebSocket subscription client (src/ws/client.go): its read loop,    *)
(* the goroutines inside request, Recv, Unsubscribe and Release, Close,    *)
(* and the node at the other end of the connection (external).             *)
(*                                                                         *)
(* A call c \in Calls is one invocation of Client.subscribe together with  *)
(* the Subscription it may return.  c also names the subEntry that         *)
(* subscribe allocates, and the response channel of the request c is in:   *)
(* a call is in at most one request at a time.                             *)
(***************************************************************************)
EXTENDS Naturals, Sequences, FiniteSets

CONSTANTS
  Calls,      \* invocations of subscribe
  SubIds,     \* subscription ids the node hands out
  Buffer,     \* Client.buffer, the capacity of every subEntry.ch
  NetCap,     \* frames the connection holds before a client write blocks
  MaxNotes,   \* bound: notifications the node sends
  MaxPings,   \* bound: pings the node sends
  ReuseIds,   \* may the node hand out an id again once it is free?
  MayClose,   \* may the user call Close?
  MayVanish,  \* may the node go away?
  None

ASSUME ConstantsAssumption ==
  /\ Buffer \in Nat \ {0}
  /\ NetCap \in Nat \ {0}
  /\ MaxNotes \in Nat
  /\ MaxPings \in Nat
  /\ {ReuseIds, MayClose, MayVanish} \subseteq BOOLEAN
  /\ None \notin Calls \cup SubIds
  /\ {"readLoop", "Close"} \cap Calls = {}

VARIABLES
  reqID,       \* Client.reqID
  pending,     \* Client.pending: request id -> the call waiting for it
  subs,        \* Client.subs: subscription id -> entry, or None
  err,         \* Client.err; Client.closed is closed exactly when it is set
  writeMu,     \* holder of Client.writeMu, or None
  conn,        \* is Client.conn open on our side?
  readLoop,    \* program counter of the read loop
  replyTo,     \* the pending request whose reply the read loop carries, or None
  reply,       \* that reply, or None
  closer,      \* program counter of a Close call
  pc,          \* per call: where it is inside request
  kind,        \* per call: the request it is in, "sub" or "unsub"
  callId,      \* per call: id of its latest request
  resp,        \* per call: content of the response channel of that request
  handle,      \* per call: Subscription.id once subscribe returned, or None
  ch,          \* per entry: content of subEntry.ch
  chClosed,    \* per entry: is subEntry.ch closed?
  dropped,     \* per entry: subEntry.dropped
  receiver,    \* per call: is its user in Recv, or has Recv failed?
  toServer,    \* frames written by the client and not read by the node
  toClient,    \* frames written by the node and not read by the read loop
  peer,        \* is the node's end of the connection up?
  serverSubs,  \* the node's subscriptions: id -> the call that owns it
  uses,        \* how often the node has handed out each id
  sent,        \* notifications the node sent
  pings,       \* pings the node sent
  routed,      \* history: per call, its notifications the read loop routed
  received     \* history: per call, sequence numbers its Recv calls returned

clientVars == <<reqID, pending, subs, err>>
loopVars   == <<readLoop, replyTo, reply>>
callVars   == <<pc, kind, callId, resp, handle>>
entryVars  == <<ch, chClosed, dropped>>
userVars   == <<receiver, received>>
netVars    == <<toServer, toClient>>
serverVars == <<peer, serverSubs, uses, sent, pings>>
vars == <<clientVars, writeMu, conn, loopVars, closer, callVars, entryVars,
          userVars, netVars, serverVars, routed>>

Request == [type : {"sub", "unsub"}, id : Nat, call : Calls, sub : SubIds \cup {None}]
             \cup [type : {"pong", "close"}]
Reply == [type : {"ack"}, id : Nat, sub : SubIds]
           \cup [type : {"other", "error"}, id : Nat]
Note  == [type : {"note"}, sub : SubIds, owner : Calls, seq : Nat]
Frame == Reply \cup Note \cup [type : {"ping", "close"}]
Closed == [type |-> "closed"]   \* what a receive on a closed reply channel sees

ASSUME NoneAssumption == None \notin Reply /\ None # Closed /\ None \notin {"closed", "connection"}

\* The calls that have an entry in pending, and in subs.
Waiting    == {pending[i] : i \in DOMAIN pending}
Registered == {subs[s] : s \in SubIds} \ {None}

ClientTypeOK ==
  /\ reqID \in Nat
  /\ DOMAIN pending \subseteq 1..reqID
  /\ pending \in [DOMAIN pending -> Calls]
  /\ subs \in [SubIds -> Calls \cup {None}]
  /\ err \in {None, "closed", "connection"}
  /\ writeMu \in Calls \cup {"readLoop", "Close", None}
  /\ conn \in {"open", "closed"}

LoopTypeOK ==
  /\ readLoop \in {"read", "deliver", "pongLock", "pong", "fail", "connClose", "exit"}
  /\ replyTo \in Calls \cup {None}
  /\ reply \in Reply \cup {None}
  /\ closer \in {"idle", "lock", "write", "connClose", "fail", "done"}

CallTypeOK ==
  /\ pc \in [Calls -> {"register", "lock", "write", "writeErr", "await", "cancel",
                       "open", "released", "returned"}]
  /\ kind \in [Calls -> {"sub", "unsub"}]
  /\ callId \in [Calls -> Nat]
  /\ resp \in [Calls -> Reply \cup {None, Closed}]
  /\ handle \in [Calls -> SubIds \cup {None}]

EntryTypeOK ==
  /\ ch \in [Calls -> Seq(Note)]
  /\ chClosed \in [Calls -> BOOLEAN]
  /\ dropped \in [Calls -> Nat]
  /\ receiver \in [Calls -> {"waiting", "ended"}]
  /\ routed \in [Calls -> Nat]
  /\ received \in [Calls -> Seq(Nat)]

NodeTypeOK ==
  /\ toServer \in Seq(Request)
  /\ toClient \in Seq(Frame)
  /\ peer \in {"up", "down"}
  /\ serverSubs \in [SubIds -> Calls \cup {None}]
  /\ uses \in [SubIds -> Nat]
  /\ sent \in Nat
  /\ pings \in Nat

TypeOK == ClientTypeOK /\ LoopTypeOK /\ CallTypeOK /\ EntryTypeOK /\ NodeTypeOK

Init ==
  /\ reqID = 0
  /\ pending = [i \in {} |-> None]
  /\ subs = [s \in SubIds |-> None]
  /\ err = None
  /\ writeMu = None
  /\ conn = "open"
  /\ readLoop = "read"
  /\ replyTo = None
  /\ reply = None
  /\ closer = "idle"
  /\ pc = [c \in Calls |-> "register"]
  /\ kind = [c \in Calls |-> "sub"]
  /\ callId = [c \in Calls |-> 0]
  /\ resp = [c \in Calls |-> None]
  /\ handle = [c \in Calls |-> None]
  /\ ch = [c \in Calls |-> <<>>]
  /\ chClosed = [c \in Calls |-> FALSE]
  /\ dropped = [c \in Calls |-> 0]
  /\ receiver = [c \in Calls |-> "waiting"]
  /\ toServer = <<>>
  /\ toClient = <<>>
  /\ peer = "up"
  /\ serverSubs = [s \in SubIds |-> None]
  /\ uses = [s \in SubIds |-> 0]
  /\ sent = 0
  /\ pings = 0
  /\ routed = [c \in Calls |-> 0]
  /\ received = [c \in Calls |-> <<>>]

-----------------------------------------------------------------------------
(* Helpers *)

\* delete(m, k) on a Go map.
Without(m, k) == [i \in DOMAIN m \ {k} |-> m[i]]

GoTo(c, label) == pc' = [pc EXCEPT ![c] = label]

\* WriteFrame on the connection by the holder of writeMu: the frame goes out,
\* or is lost on the way to a node that is gone.  The write blocks while the
\* node does not read and the connection is full.
WriteOK(frame) ==
  /\ conn = "open"
  /\ \/ peer = "up" /\ Len(toServer) < NetCap /\ toServer' = Append(toServer, frame)
     \/ peer = "down" /\ UNCHANGED toServer

WriteFails == (conn = "closed" \/ peer = "down") /\ UNCHANGED toServer

\* Mutant: fail forgets the subscriptions without closing their channels.
failForgetsSubs(e) ==
  IF err # None THEN UNCHANGED <<pending, subs, err, chClosed, resp>>
  ELSE /\ err' = e
       /\ subs' = [s \in SubIds |-> None]
       /\ resp' = [c \in Calls |-> IF c \in Waiting THEN Closed ELSE resp[c]]
       /\ pending' = [i \in {} |-> None]
       /\ UNCHANGED chClosed

\* The first terminal error wins; every registered entry and every pending
\* reply channel is closed and forgotten in the same critical section.
fail(e) ==
  IF err # None THEN UNCHANGED <<pending, subs, err, chClosed, resp>>
  ELSE /\ err' = e
       /\ chClosed' = [c \in Calls |-> IF c \in Registered THEN TRUE ELSE chClosed[c]]
       /\ subs' = [s \in SubIds |-> None]
       /\ resp' = [c \in Calls |-> IF c \in Waiting THEN Closed ELSE resp[c]]
       /\ pending' = [i \in {} |-> None]

-----------------------------------------------------------------------------
(* request: register, write under writeMu, then select on the reply, the   *)
(* context and the closed channel.                                         *)

NextReqID == reqID + 1

\* Mutant: the terminal error is not checked before registering.
RegisterUnchecked(c) ==
  /\ pc[c] = "register"
  /\ reqID' = reqID + 1
  /\ callId' = [callId EXCEPT ![c] = NextReqID]
  /\ pending' = [i \in DOMAIN pending \cup {NextReqID} |->
                   IF i = NextReqID THEN c ELSE pending[i]]
  /\ resp' = [resp EXCEPT ![c] = None]
  /\ GoTo(c, "lock")
  /\ UNCHANGED <<subs, err, kind, handle, writeMu, conn, loopVars, closer,
                 entryVars, userVars, netVars, serverVars, routed>>

\* reqID.Add and the first critical section of request.
Register(c) ==
  /\ pc[c] = "register"
  /\ reqID' = reqID + 1
  /\ \/ /\ err # None
        /\ GoTo(c, "returned")
        /\ UNCHANGED <<callId, pending, resp>>
     \/ /\ err = None
        /\ callId' = [callId EXCEPT ![c] = NextReqID]
        /\ pending' = [i \in DOMAIN pending \cup {NextReqID} |->
                         IF i = NextReqID THEN c ELSE pending[i]]
        /\ resp' = [resp EXCEPT ![c] = None]
        /\ GoTo(c, "lock")
  /\ UNCHANGED <<subs, err, kind, handle, writeMu, conn, loopVars, closer,
                 entryVars, userVars, netVars, serverVars, routed>>

LockWrite(c) ==
  /\ pc[c] = "lock"
  /\ writeMu = None
  /\ writeMu' = c
  /\ GoTo(c, "write")
  /\ UNCHANGED <<clientVars, conn, loopVars, closer, kind, callId, resp, handle,
                 entryVars, userVars, netVars, serverVars, routed>>

\* WriteClientText and the unlock of writeMu.
Write(c) ==
  /\ pc[c] = "write"
  /\ \/ /\ WriteOK([type |-> kind[c], id |-> callId[c], call |-> c, sub |-> handle[c]])
        /\ GoTo(c, "await")
     \/ /\ WriteFails
        /\ GoTo(c, "writeErr")
  /\ writeMu' = None
  /\ UNCHANGED <<clientVars, conn, loopVars, closer, kind, callId, resp, handle,
                 entryVars, userVars, toClient, serverVars, routed>>

\* A failed write and an ended context both delete the pending request.
Abandon(c) ==
  /\ pc[c] \in {"writeErr", "cancel"}
  /\ pending' = Without(pending, callId[c])
  /\ GoTo(c, "returned")
  /\ UNCHANGED <<reqID, subs, err, writeMu, conn, loopVars, closer, kind, callId,
                 resp, handle, entryVars, userVars, netVars, serverVars, routed>>

\* The select takes the reply; subscribe then builds the Subscription if the
\* result is a subscription id.
AwaitReply(c) ==
  /\ pc[c] = "await"
  /\ resp[c] \in Reply
  /\ \/ /\ kind[c] = "sub" /\ resp[c].type = "ack"
        /\ handle' = [handle EXCEPT ![c] = resp[c].sub]
        /\ GoTo(c, "open")
     \/ /\ ~(kind[c] = "sub" /\ resp[c].type = "ack")
        /\ GoTo(c, "returned")
        /\ UNCHANGED handle
  /\ resp' = [resp EXCEPT ![c] = None]
  /\ UNCHANGED <<clientVars, writeMu, conn, loopVars, closer, kind, callId,
                 entryVars, userVars, netVars, serverVars, routed>>

\* Mutant: the select keeps waiting when the connection is gone.
AwaitForever(c) == FALSE

\* The select sees its reply channel closed, or Client.closed closed.
AwaitFailure(c) ==
  /\ pc[c] = "await"
  /\ resp[c] = Closed \/ err # None
  /\ GoTo(c, "returned")
  /\ UNCHANGED <<clientVars, writeMu, conn, loopVars, closer, kind, callId, resp,
                 handle, entryVars, userVars, netVars, serverVars, routed>>

\* The context ends; pending is cleaned up in a critical section of its own.
AwaitCancel(c) ==
  /\ pc[c] = "await"
  /\ GoTo(c, "cancel")
  /\ UNCHANGED <<clientVars, writeMu, conn, loopVars, closer, kind, callId, resp,
                 handle, entryVars, userVars, netVars, serverVars, routed>>

-----------------------------------------------------------------------------
(* The user's operations on a Subscription.                                *)

\* Mutant: Release closes whatever entry the id is registered for.
ReleaseEntryUnchecked(c) ==
  IF subs[handle[c]] # None
  THEN /\ subs' = [subs EXCEPT ![handle[c]] = None]
       /\ chClosed' = [chClosed EXCEPT ![subs[handle[c]]] = TRUE]
  ELSE UNCHANGED <<subs, chClosed>>

\* The critical section of Release, with its identity check.
ReleaseEntry(c) ==
  IF subs[handle[c]] = c
  THEN /\ subs' = [subs EXCEPT ![handle[c]] = None]
       /\ chClosed' = [chClosed EXCEPT ![c] = TRUE]
  ELSE UNCHANGED <<subs, chClosed>>

\* Release may be called again, and before Unsubscribe.
Release(c) ==
  /\ pc[c] \in {"open", "released"}
  /\ ReleaseEntry(c)
  /\ GoTo(c, "released")
  /\ UNCHANGED <<reqID, pending, err, writeMu, conn, loopVars, closer, kind, callId,
                 resp, handle, ch, dropped, userVars, netVars, serverVars, routed>>

\* Unsubscribe releases, then enters request with the unsubscribe method.
Unsubscribe(c) ==
  /\ pc[c] \in {"open", "released"}
  /\ ReleaseEntry(c)
  /\ kind' = [kind EXCEPT ![c] = "unsub"]
  /\ GoTo(c, "register")
  /\ UNCHANGED <<reqID, pending, err, writeMu, conn, loopVars, closer, callId,
                 resp, handle, ch, dropped, userVars, netVars, serverVars, routed>>

\* Recv returns the next notification.  (A Recv whose context ends changes
\* nothing: its user calls Recv again.)
RecvNote(c) ==
  /\ handle[c] # None
  /\ receiver[c] = "waiting"
  /\ ch[c] # <<>>
  /\ received' = [received EXCEPT ![c] = Append(@, Head(ch[c]).seq)]
  /\ ch' = [ch EXCEPT ![c] = Tail(@)]
  /\ UNCHANGED <<clientVars, writeMu, conn, loopVars, closer, callVars, chClosed,
                 dropped, receiver, netVars, serverVars, routed>>

\* Recv finds the channel drained and closed and returns an error.
RecvClosed(c) ==
  /\ handle[c] # None
  /\ receiver[c] = "waiting"
  /\ ch[c] = <<>>
  /\ chClosed[c]
  /\ receiver' = [receiver EXCEPT ![c] = "ended"]
  /\ UNCHANGED <<clientVars, writeMu, conn, loopVars, closer, callVars, entryVars,
                 received, netVars, serverVars, routed>>

-----------------------------------------------------------------------------
(* The read loop.                                                          *)

Reads(type) ==
  /\ readLoop = "read"
  /\ toClient # <<>>
  /\ Head(toClient).type = type
  /\ toClient' = Tail(toClient)

\* route, a notification: a non-blocking send under mu, or a drop.
RouteNote ==
  /\ Reads("note")
  /\ LET n == Head(toClient)
         c == subs[n.sub]
     IN  /\ routed' = [routed EXCEPT ![n.owner] = @ + 1]
         /\ \/ c = None /\ UNCHANGED <<ch, dropped>>
            \/ /\ c # None /\ Len(ch[c]) < Buffer
               /\ ch' = [ch EXCEPT ![c] = Append(@, n)]
               /\ UNCHANGED dropped
            \/ /\ c # None /\ Len(ch[c]) >= Buffer
               /\ dropped' = [dropped EXCEPT ![c] = @ + 1]
               /\ UNCHANGED ch
  /\ UNCHANGED <<clientVars, writeMu, conn, loopVars, closer, callVars, chClosed,
                 userVars, toServer, serverVars>>

\* Mutant: the read loop leaves the registration to the caller.
TakePendingUnregistered(r) ==
  /\ pending' = Without(pending, r.id)
  /\ UNCHANGED subs

\* Mutant: a registered entry is left in pending.
TakePendingNoDelete(r) ==
  /\ subs' = IF /\ r.id \in DOMAIN pending
                /\ kind[pending[r.id]] = "sub"
                /\ r.type = "ack"
             THEN [subs EXCEPT ![r.sub] = pending[r.id]]
             ELSE subs
  /\ UNCHANGED pending

\* route, a reply: the critical section takes the pending request and, for a
\* subscribe that succeeded, registers its entry under the new id.
TakePending(r) ==
  /\ pending' = Without(pending, r.id)
  /\ subs' = IF /\ r.id \in DOMAIN pending
                /\ kind[pending[r.id]] = "sub"
                /\ r.type = "ack"
             THEN [subs EXCEPT ![r.sub] = pending[r.id]]
             ELSE subs

RouteReply ==
  /\ \E type \in {"ack", "other", "error"} : Reads(type)
  /\ LET r == Head(toClient)
     IN  /\ TakePending(r)
         /\ \/ /\ r.id \in DOMAIN pending
               /\ readLoop' = "deliver" /\ replyTo' = pending[r.id] /\ reply' = r
            \/ r.id \notin DOMAIN pending /\ UNCHANGED loopVars
  /\ UNCHANGED <<reqID, err, writeMu, conn, closer, callVars, entryVars, userVars,
                 toServer, serverVars, routed>>

\* route, after the unlock: the send into the reply channel, of capacity 1.
DeliverReply ==
  /\ readLoop = "deliver"
  /\ resp[replyTo] = None
  /\ resp' = [resp EXCEPT ![replyTo] = reply]
  /\ readLoop' = "read" /\ replyTo' = None /\ reply' = None
  /\ UNCHANGED <<clientVars, writeMu, conn, closer, pc, kind, callId, handle,
                 entryVars, userVars, netVars, serverVars, routed>>

\* handleControlFrom: a ping is answered under writeMu, a close frame is an error.
ReadPing ==
  /\ Reads("ping")
  /\ readLoop' = "pongLock"
  /\ UNCHANGED <<replyTo, reply, clientVars, writeMu, conn, closer, callVars, entryVars, userVars,
                 toServer, serverVars, routed>>

PongLock ==
  /\ readLoop = "pongLock"
  /\ writeMu = None
  /\ writeMu' = "readLoop"
  /\ readLoop' = "pong"
  /\ UNCHANGED <<replyTo, reply, clientVars, conn, closer, callVars, entryVars, userVars, netVars,
                 serverVars, routed>>

Pong ==
  /\ readLoop = "pong"
  /\ \/ WriteOK([type |-> "pong"]) /\ readLoop' = "read"
     \/ WriteFails /\ readLoop' = "fail"
  /\ writeMu' = None
  /\ UNCHANGED <<replyTo, reply, clientVars, conn, closer, callVars, entryVars, userVars, toClient,
                 serverVars, routed>>

ReadClose ==
  /\ Reads("close")
  /\ readLoop' = "fail"
  /\ UNCHANGED <<replyTo, reply, clientVars, writeMu, conn, closer, callVars, entryVars, userVars,
                 toServer, serverVars, routed>>

\* NextFrame or ReadFrom returns an error.  Frames already buffered may have
\* been read first, or are lost.
ReadError ==
  /\ readLoop = "read"
  /\ conn = "closed" \/ peer = "down"
  /\ readLoop' = "fail"
  /\ toClient' = <<>>
  /\ UNCHANGED <<replyTo, reply, clientVars, writeMu, conn, closer, callVars, entryVars, userVars,
                 toServer, serverVars, routed>>

ReadLoopFail ==
  /\ readLoop = "fail"
  /\ fail("connection")
  /\ readLoop' = "connClose"
  /\ UNCHANGED <<replyTo, reply, reqID, writeMu, conn, closer, pc, kind, callId, handle, ch, dropped,
                 userVars, netVars, serverVars, routed>>

ReadLoopExit ==
  /\ readLoop = "connClose"
  /\ conn' = "closed"
  /\ readLoop' = "exit"
  /\ UNCHANGED <<replyTo, reply, clientVars, writeMu, closer, callVars, entryVars, userVars, netVars,
                 serverVars, routed>>

-----------------------------------------------------------------------------
(* Close: a close frame under writeMu, then conn.Close, then fail.         *)

CloseCall ==
  /\ MayClose
  /\ closer = "idle"
  /\ closer' = "lock"
  /\ UNCHANGED <<clientVars, writeMu, conn, loopVars, callVars, entryVars, userVars,
                 netVars, serverVars, routed>>

CloseLock ==
  /\ closer = "lock"
  /\ writeMu = None
  /\ writeMu' = "Close"
  /\ closer' = "write"
  /\ UNCHANGED <<clientVars, conn, loopVars, callVars, entryVars, userVars, netVars,
                 serverVars, routed>>

CloseWrite ==
  /\ closer = "write"
  /\ WriteOK([type |-> "close"]) \/ WriteFails
  /\ writeMu' = None
  /\ closer' = "connClose"
  /\ UNCHANGED <<clientVars, conn, loopVars, callVars, entryVars, userVars, toClient,
                 serverVars, routed>>

CloseConn ==
  /\ closer = "connClose"
  /\ conn' = "closed"
  /\ closer' = "fail"
  /\ UNCHANGED <<clientVars, writeMu, loopVars, callVars, entryVars, userVars, netVars,
                 serverVars, routed>>

CloseFail ==
  /\ closer = "fail"
  /\ fail("closed")
  /\ closer' = "done"
  /\ UNCHANGED <<reqID, writeMu, conn, loopVars, pc, kind, callId, handle, ch, dropped,
                 userVars, netVars, serverVars, routed>>

-----------------------------------------------------------------------------
(* The node (external), as the client's code and tests use it: it answers  *)
(* requests in order, sends notifications for live subscriptions, may end  *)
(* a subscription with its final notification (signatureSubscribe is       *)
(* single-shot), may ping, close or vanish, and may stop reading.  What it *)
(* does after the client closed the connection cannot be observed and is   *)
(* left out.                                                               *)

NodeUp == peer = "up" /\ conn = "open"

FreeIds == {s \in SubIds : serverSubs[s] = None /\ (ReuseIds \/ uses[s] = 0)}

ServerTakes(type) ==
  /\ NodeUp
  /\ toServer # <<>>
  /\ Head(toServer).type = type
  /\ toServer' = Tail(toServer)

ServerSubscribe ==
  /\ ServerTakes("sub")
  /\ LET r == Head(toServer)
     IN  \/ \E s \in FreeIds :
              /\ serverSubs' = [serverSubs EXCEPT ![s] = r.call]
              /\ uses' = [uses EXCEPT ![s] = @ + 1]
              /\ toClient' = Append(toClient, [type |-> "ack", id |-> r.id, sub |-> s])
         \/ /\ toClient' = Append(toClient, [type |-> "error", id |-> r.id])
            /\ UNCHANGED <<serverSubs, uses>>
  /\ UNCHANGED <<clientVars, writeMu, conn, loopVars, closer, callVars, entryVars,
                 userVars, peer, sent, pings, routed>>

ServerUnsubscribe ==
  /\ ServerTakes("unsub")
  /\ LET r == Head(toServer)
     IN  /\ serverSubs' = [serverSubs EXCEPT ![r.sub] = None]
         /\ toClient' = Append(toClient,
              [type |-> IF serverSubs[r.sub] = None THEN "error" ELSE "other", id |-> r.id])
  /\ UNCHANGED <<clientVars, writeMu, conn, loopVars, closer, callVars, entryVars,
                 userVars, peer, uses, sent, pings, routed>>

ServerPongOrClose ==
  /\ \/ ServerTakes("pong") /\ UNCHANGED peer
     \/ ServerTakes("close") /\ peer' = "down"
  /\ UNCHANGED <<clientVars, writeMu, conn, loopVars, closer, callVars, entryVars,
                 userVars, toClient, serverSubs, uses, sent, pings, routed>>

ServerNotify(s, final) ==
  /\ NodeUp
  /\ serverSubs[s] # None
  /\ sent < MaxNotes
  /\ sent' = sent + 1
  /\ toClient' = Append(toClient,
       [type |-> "note", sub |-> s, owner |-> serverSubs[s], seq |-> sent + 1])
  /\ serverSubs' = IF final THEN [serverSubs EXCEPT ![s] = None] ELSE serverSubs
  /\ UNCHANGED <<clientVars, writeMu, conn, loopVars, closer, callVars, entryVars,
                 userVars, toServer, peer, uses, pings, routed>>

ServerPing ==
  /\ NodeUp
  /\ pings < MaxPings
  /\ pings' = pings + 1
  /\ toClient' = Append(toClient, [type |-> "ping"])
  /\ UNCHANGED <<clientVars, writeMu, conn, loopVars, closer, callVars, entryVars,
                 userVars, toServer, peer, serverSubs, uses, sent, routed>>

\* The node goes away, with a close frame or without one.
ServerGone ==
  /\ MayVanish
  /\ NodeUp
  /\ peer' = "down"
  /\ toClient' \in {toClient, Append(toClient, [type |-> "close"])}
  /\ UNCHANGED <<clientVars, writeMu, conn, loopVars, closer, callVars, entryVars,
                 userVars, toServer, serverSubs, uses, sent, pings, routed>>

-----------------------------------------------------------------------------
CallStep(c) ==
  Register(c) \/ Write(c) \/ Abandon(c) \/ AwaitReply(c) \/ AwaitFailure(c)

RecvStep(c) == RecvNote(c) \/ RecvClosed(c)

ReadLoopStep ==
  \/ RouteNote \/ RouteReply \/ DeliverReply \/ ReadPing \/ Pong \/ ReadClose
  \/ ReadError \/ ReadLoopFail \/ ReadLoopExit

CloseStep == CloseWrite \/ CloseConn \/ CloseFail

ServerReads == ServerSubscribe \/ ServerUnsubscribe \/ ServerPongOrClose

ServerStep ==
  \/ ServerReads
  \/ \E s \in SubIds, final \in BOOLEAN : ServerNotify(s, final)
  \/ ServerPing \/ ServerGone

Next ==
  \/ \E c \in Calls : \/ CallStep(c) \/ LockWrite(c) \/ AwaitCancel(c)
                      \/ Release(c) \/ Unsubscribe(c) \/ RecvStep(c)
  \/ ReadLoopStep \/ PongLock
  \/ CloseStep \/ CloseCall \/ CloseLock
  \/ ServerStep

Spec == Init /\ [][Next]_vars

\* Goroutines that can run do run; Go's mutexes hand over to a starving
\* waiter, so a goroutine waiting for writeMu gets it if it is released again
\* and again.  Contexts need not end, users need not call Release, and nothing
\* is assumed of the node.
ClientFairness ==
  /\ \A c \in Calls : /\ WF_vars(CallStep(c)) /\ SF_vars(LockWrite(c))
                      /\ WF_vars(RecvStep(c))
  /\ WF_vars(ReadLoopStep) /\ SF_vars(PongLock)
  /\ WF_vars(CloseStep) /\ SF_vars(CloseLock)

FairSpec == Spec /\ ClientFairness

-----------------------------------------------------------------------------
(* Safety.                                                                 *)

\* No Go channel is closed twice or sent on after it was closed: an entry in
\* subs is open and registered under one id only (so fail and Release close it
\* once), and the reply channel of a pending request, or of one the read loop
\* is about to deliver, has not been closed.
NoChannelPanic ==
  /\ \A s \in SubIds : subs[s] # None => ~chClosed[subs[s]]
  /\ \A s, t \in SubIds : subs[s] # None /\ subs[s] = subs[t] => s = t
  /\ \A i, j \in DOMAIN pending : pending[i] = pending[j] => i = j
  /\ \A i \in DOMAIN pending : resp[pending[i]] # Closed
  /\ readLoop = "deliver" => resp[replyTo] # Closed

\* The read loop never blocks on handing a reply over, whether or not the
\* caller still waits for it: the one place in the reply channel is free.
ReplyNeverBlocksReadLoop ==
  readLoop = "deliver" => resp[replyTo] = None

\* Once the connection has a terminal error nothing is or becomes registered,
\* so no goroutine can wait for something only the dead read loop could bring.
NothingRegisteredAfterFailure ==
  err # None => DOMAIN pending = {} /\ \A s \in SubIds : subs[s] = None

\* While the connection lives, an entry is closed only by its own Release,
\* even when the node has given its id to a newer subscription.
EntryClosedOnlyByOwner ==
  \A c \in Calls : chClosed[c] /\ err = None => pc[c] = "released" \/ kind[c] = "unsub"

\* The node has given no id to a second subscription.
IdsUsedOnce == \A s \in SubIds : uses[s] <= 1

\* The request of subscribe is under way or has succeeded, and nothing has
\* ended the subscription on the client's side.
Live(c) ==
  /\ kind[c] = "sub" /\ pc[c] \in {"lock", "write", "await", "open"}
  /\ err = None /\ ~chClosed[c]

\* A notification that the read loop routes for a live subscription is in its
\* buffer, was returned by Recv, or is counted by Dropped: in particular the
\* ones right behind the ack, before subscribe has returned.
NoNotificationLost ==
  \A c \in Calls :
    Live(c) => routed[c] = Len(received[c]) + Len(ch[c]) + dropped[c]

\* A subscription is handed only its own notifications.
OnlyOwnNotifications ==
  \A c \in Calls : \A i \in DOMAIN ch[c] : ch[c][i].owner = c

\* What Recv returned and will return is in the order in which the node sent it.
NotificationsInOrder ==
  \A c \in Calls :
    LET seqs == received[c] \o [i \in DOMAIN ch[c] |-> ch[c][i].seq]
    IN  \A i, j \in DOMAIN seqs : i < j => seqs[i] < seqs[j]

\* A subscription sees notifications in the order in which the node sent them;
\* and as long as the node uses an id once, whatever the read loop routes for a
\* live subscription is in its buffer, was returned by Recv, or is counted by
\* Dropped, and it sees no other's (route).
NotificationsDelivered ==
  /\ NotificationsInOrder
  /\ IdsUsedOnce => NoNotificationLost /\ OnlyOwnNotifications

-----------------------------------------------------------------------------
(* What the client promises for each subscription.                         *)

\* The entry of a call is open while it is in subs, and shut once its channel
\* is closed.
Status(c) == IF chClosed[c] THEN "shut" ELSE IF c \in Registered THEN "open" ELSE "none"

Notifications == [type : {"note"}, sub : SubIds, owner : Calls, seq : 1..MaxNotes]

Contract == INSTANCE SubscriptionContract WITH
  Notes  <- Notifications,
  status <- [c \in Calls |-> Status(c)],
  queue  <- ch,
  lost   <- dropped

\* The client implements the contract of a subscription as long as the node
\* has given no id to a second subscription: whatever the contexts and a
\* concurrent Release or Close do, each entry's channel is opened once, fed in
\* order or counted as dropped while it is open, and closed once (route,
\* Release, fail).
ImplementsContract ==
  Contract!Init /\ [][IdsUsedOnce /\ ~UNCHANGED Contract!vars => Contract!Next]_vars

-----------------------------------------------------------------------------
(* Liveness.                                                               *)

\* When the connection has died every Recv returns its error.
RecvReturnsAfterFailure ==
  \A c \in Calls : (err # None /\ handle[c] # None) ~> receiver[c] = "ended"

\* When the connection has died no request is left waiting for its reply.
RequestReturnsAfterFailure ==
  \A c \in Calls : (err # None /\ pc[c] = "await") ~> pc[c] # "await"

\* When the connection has died, whoever waits on it returns (fail: pending
\* requests and subscriptions).
WaitersReturnAfterFailure == RecvReturnsAfterFailure /\ RequestReturnsAfterFailure

\* Close ends every Recv, if the node keeps reading its end of the connection:
\* Close first writes a close frame, without a deadline.
CloseEndsRecv ==
  WF_vars(ServerReads) =>
    \A c \in Calls : (closer # "idle" /\ handle[c] # None) ~> receiver[c] = "ended"

=============================================================================
