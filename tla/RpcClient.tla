----------------------------- MODULE RpcClient -----------------------------
(***************************************************************************)
(* Concurrent calls of one rpc.Client (src/rpc/client.go): do, post, call, *)
(* callNullable, SetHeader and GetProgramAccountsStream, over the pool of  *)
(* response buffers they share.  The HTTP transport and the node are       *)
(* external.                                                               *)
(*                                                                         *)
(* A body arrives in Parts pieces.  What a buffer holds is the set of the  *)
(* pieces in it, each with the answer it belongs to; it decodes when it    *)
(* holds all the pieces of one answer and nothing else.                    *)
(***************************************************************************)
EXTENDS Naturals

CONSTANTS
  Calls,        \* the calls that are made, at most one at a time each
  Nullable,     \* those whose null result means that there is no such item
  Streams,      \* those that read the body as it comes
  Buffers,      \* what bodyPool.New may return
  HeaderKeys,   \* keys of SetHeader
  Parts,        \* pieces of a body
  MaxSets,      \* bound: calls of SetHeader
  Nothing

\* A body is a result, null, an error, or not JSON at all.
Replies ==
  {[status |-> 200, kind |-> kind] : kind \in {"value", "null", "error", "garbage"}}
    \cup {[status |-> 500, kind |-> "garbage"]}
Answers == [id : Nat, status : {200, 500}, kind : {"value", "null", "error", "garbage"}]

ASSUME RpcAssumption ==
  /\ Nullable \subseteq Calls /\ Streams \subseteq Calls
  /\ Parts \in Nat \ {0} /\ MaxSets \in Nat
  /\ Nothing \notin Buffers /\ Nothing \notin Answers

VARIABLES
  at,           \* where each call is
  lastId,       \* Client.id
  reqId,        \* the id of its request
  headers,      \* Client.headers: for each key the number of its latest setting, or 0
  settings,     \* settings so far
  readers,      \* the calls that hold headersMu.RLock
  cloned,       \* the keys each has copied
  carried,      \* the headers of its request
  pool,         \* bodyPool
  held,         \* the buffer of each call
  content,      \* what each buffer holds
  got,          \* the pieces each call has read
  answer,       \* what the node answered to it
  returned,     \* what it returned
  states,       \* history: all states of headers
  before        \* history: headers when the call began

headerVars == <<headers, settings, readers, cloned, carried, states, before>>
bufferVars == <<pool, held, content, got>>
idVars     == <<lastId, reqId>>
rpcVars    == <<at, answer, returned, idVars, bufferVars, headerVars>>

Returns(what, id) == [what |-> what, id |-> id]

RpcInit ==
  /\ at = [c \in Calls |-> "idle"]
  /\ lastId = 0 /\ reqId = [c \in Calls |-> 0]
  /\ headers = [k \in HeaderKeys |-> 0] /\ settings = 0 /\ readers = {}
  /\ cloned = [c \in Calls |-> {}] /\ carried = [c \in Calls |-> headers]
  /\ pool = {} /\ held = [c \in Calls |-> Nothing] /\ content = [b \in Buffers |-> {}]
  /\ got = [c \in Calls |-> 0]
  /\ answer = [c \in Calls |-> Nothing] /\ returned = [c \in Calls |-> Nothing]
  /\ states = {headers} /\ before = [c \in Calls |-> headers]

-----------------------------------------------------------------------------
\* SetHeader, without the lock.
SetHeaderUnlocked(k) ==
  /\ settings < MaxSets
  /\ settings' = settings + 1
  /\ headers' = [headers EXCEPT ![k] = settings + 1]
  /\ states' = states \cup {headers'}
  /\ UNCHANGED <<at, answer, returned, idVars, bufferVars, readers, cloned, carried, before>>

\* SetHeader, under headersMu.
SetHeader(k) ==
  /\ settings < MaxSets /\ readers = {}
  /\ settings' = settings + 1
  /\ headers' = [headers EXCEPT ![k] = settings + 1]
  /\ states' = states \cup {headers'}
  /\ UNCHANGED <<at, answer, returned, idVars, bufferVars, readers, cloned, carried, before>>

\* do marshals the request under a new id.
Encode(c) ==
  /\ at[c] = "idle"
  /\ lastId' = lastId + 1 /\ reqId' = [reqId EXCEPT ![c] = lastId + 1]
  /\ before' = [before EXCEPT ![c] = headers]
  /\ at' = [at EXCEPT ![c] = "post"]
  /\ UNCHANGED <<answer, returned, bufferVars, headers, settings, readers, cloned, carried, states>>

\* Parameters that cannot be marshalled, or a URL that http.NewRequest
\* refuses; the id is spent.
EncodeFails(c) ==
  /\ at[c] = "idle"
  /\ lastId' = lastId + 1 /\ reqId' = [reqId EXCEPT ![c] = lastId + 1]
  /\ returned' = [returned EXCEPT ![c] = Returns("failed", 0)]
  /\ at' = [at EXCEPT ![c] = "done"]
  /\ UNCHANGED <<answer, bufferVars, headerVars>>

\* post: headers.Clone() under RLock, one key after the other.
LockHeaders(c) ==
  /\ at[c] = "post" /\ at' = [at EXCEPT ![c] = "clone"]
  /\ readers' = readers \cup {c}
  /\ UNCHANGED <<answer, returned, idVars, bufferVars, headers, settings, cloned, carried, states, before>>

CloneHeader(c, k) ==
  /\ at[c] = "clone" /\ k \notin cloned[c]
  /\ cloned' = [cloned EXCEPT ![c] = @ \cup {k}]
  /\ carried' = [carried EXCEPT ![c][k] = headers[k]]
  /\ UNCHANGED <<at, answer, returned, idVars, bufferVars, headers, settings, readers, states, before>>

Send(c) ==
  /\ at[c] = "clone" /\ cloned[c] = HeaderKeys
  /\ at' = [at EXCEPT ![c] = "sent"]
  /\ readers' = readers \ {c}
  /\ UNCHANGED <<answer, returned, idVars, bufferVars, headers, settings, cloned, carried, states, before>>

-----------------------------------------------------------------------------
\* The node, external: it answers the request it got, with the id it got.
NodeAnswers(c, reply) ==
  /\ at[c] = "sent" /\ answer[c] = Nothing
  /\ answer' = [answer EXCEPT ![c] = [id |-> reqId[c], status |-> reply.status, kind |-> reply.kind]]
  /\ UNCHANGED <<at, returned, idVars, bufferVars, headerVars>>

\* An http.Client without a timeout waits on.
RequestWaits(c) ==
  /\ at[c] = "sent" /\ answer[c] = Nothing
  /\ UNCHANGED rpcVars

\* http.Client.Do fails: connection, context or timeout.
RequestFails(c) ==
  /\ at[c] = "sent" /\ answer[c] = Nothing
  /\ returned' = [returned EXCEPT ![c] = Returns("failed", 0)]
  /\ at' = [at EXCEPT ![c] = "done"]
  /\ UNCHANGED <<answer, idVars, bufferVars, headerVars>>

\* bodyPool.Get: a buffer that was put back, or a new one; then Reset.
InUse == {held[c] : c \in Calls}

\* Without Reset.
GetBufferAsIs(c, b) ==
  /\ at[c] = "sent" /\ answer[c] # Nothing /\ c \notin Streams
  /\ b \in pool \/ b \notin InUse
  /\ pool' = pool \ {b} /\ held' = [held EXCEPT ![c] = b] /\ got' = [got EXCEPT ![c] = 0]
  /\ at' = [at EXCEPT ![c] = "read"]
  /\ UNCHANGED <<content, answer, returned, idVars, headerVars>>

GetBuffer(c, b) ==
  /\ at[c] = "sent" /\ answer[c] # Nothing /\ c \notin Streams
  /\ b \in pool \/ b \notin InUse
  /\ pool' = pool \ {b} /\ held' = [held EXCEPT ![c] = b]
  /\ content' = [content EXCEPT ![b] = {}] /\ got' = [got EXCEPT ![c] = 0]
  /\ at' = [at EXCEPT ![c] = "read"]
  /\ UNCHANGED <<answer, returned, idVars, headerVars>>

\* buf.ReadFrom, a piece at a time.
ReadBody(c) ==
  /\ at[c] = "read" /\ got[c] < Parts
  /\ got' = [got EXCEPT ![c] = @ + 1]
  /\ content' = [content EXCEPT ![held[c]] = @ \cup {<<got[c] + 1, answer[c]>>}]
  /\ UNCHANGED <<at, answer, returned, pool, held, idVars, headerVars>>

\* The body breaks off, or the context or the timeout of the client ends it.
ReadFails(c) ==
  /\ at[c] = "read" /\ got[c] < Parts
  /\ returned' = [returned EXCEPT ![c] = Returns("failed", 0)]
  /\ at' = [at EXCEPT ![c] = "put"]
  /\ UNCHANGED <<answer, bufferVars, idVars, headerVars>>

-----------------------------------------------------------------------------
\* sonic.Unmarshal of the buffer, which copies what it keeps.
WholeOf(a) == {<<i, a>> : i \in 1 .. Parts}

\* call and callNullable, and the methods that test result.Value.
ResultOf(c, a) ==
  Returns(IF a.kind = "error" THEN "rpcError"
          ELSE IF a.kind = "null" /\ c \in Nullable THEN "notFound"
          ELSE "ok", a.id)

\* The answers that the bytes in the buffer decode to.
Decoded(c) ==
  {a \in {answer[d] : d \in Calls} \ {Nothing} :
     content[held[c]] = WholeOf(a) /\ a.kind # "garbage"}

Handle(c) ==
  /\ at[c] = "read" /\ got[c] = Parts
  /\ IF answer[c].status # 200 \/ Decoded(c) = {}
     THEN returned' = [returned EXCEPT ![c] = Returns("failed", 0)]
     ELSE \E a \in Decoded(c) : returned' = [returned EXCEPT ![c] = ResultOf(c, a)]
  /\ at' = [at EXCEPT ![c] = "put"]
  /\ UNCHANGED <<answer, bufferVars, idVars, headerVars>>

\* The deferred bodyPool.Put and Body.Close.
Put(c) ==
  /\ at[c] = "put"
  /\ pool' = pool \cup {held[c]} /\ held' = [held EXCEPT ![c] = Nothing]
  /\ at' = [at EXCEPT ![c] = "done"]
  /\ UNCHANGED <<answer, returned, content, got, idVars, headerVars>>

\* GetProgramAccountsStream, on the body itself (JsonStream).
StreamBody(c) ==
  /\ at[c] = "sent" /\ answer[c] # Nothing /\ c \in Streams
  /\ \E r \in {ResultOf(c, answer[c]), Returns("failed", 0)} :
       /\ answer[c].status # 200 \/ answer[c].kind = "garbage" => r = Returns("failed", 0)
       /\ returned' = [returned EXCEPT ![c] = r]
  /\ at' = [at EXCEPT ![c] = "done"]
  /\ UNCHANGED <<answer, bufferVars, idVars, headerVars>>

\* The garbage collector empties the pool.
Collect(b) ==
  /\ b \in pool /\ pool' = pool \ {b}
  /\ UNCHANGED <<at, answer, returned, held, content, got, idVars, headerVars>>

RpcNext ==
  \/ \E k \in HeaderKeys : SetHeader(k)
  \/ \E c \in Calls :
       \/ Encode(c) \/ EncodeFails(c) \/ LockHeaders(c) \/ Send(c)
       \/ \E k \in HeaderKeys : CloneHeader(c, k)
       \/ \E reply \in Replies : NodeAnswers(c, reply)
       \/ RequestFails(c)
       \/ \E b \in Buffers : GetBuffer(c, b)
       \/ ReadBody(c) \/ ReadFails(c) \/ Handle(c) \/ Put(c) \/ StreamBody(c)
  \/ \E b \in Buffers : Collect(b)

RpcSpec == RpcInit /\ [][RpcNext]_rpcVars

\* The steps of a call that has begun and is not done; the timeout of the
\* http.Client that New makes ends the waits for the node.
CallStep(c) ==
  \/ LockHeaders(c) \/ Send(c) \/ \E k \in HeaderKeys : CloneHeader(c, k)
  \/ RequestFails(c)
  \/ \E b \in Buffers : GetBuffer(c, b)
  \/ ReadFails(c) \/ Handle(c) \/ Put(c) \/ StreamBody(c)

-----------------------------------------------------------------------------
\* A response buffer has one user: no two calls hold the same one, and what a
\* call holds cannot be taken from the pool (do: "the buffer is recycled").
BuffersExclusive ==
  \A c \in Calls : held[c] # Nothing =>
    /\ held[c] \notin pool
    /\ \A d \in Calls : held[d] = held[c] => d = c

\* A call that read its whole response returns what the node answered to it,
\* and to no other request, whoever had the buffer before and whoever works
\* beside it; ErrNotFound stands for a null result of a nullable method alone.
OwnAnswer ==
  \A c \in Calls : at[c] = "done" /\ got[c] = Parts =>
    LET a == answer[c]
    IN  /\ returned[c].what =
             IF a.status # 200 \/ a.kind = "garbage" THEN "failed"
             ELSE IF a.kind = "error" THEN "rpcError"
             ELSE IF a.kind = "null" /\ c \in Nullable THEN "notFound"
             ELSE "ok"
        /\ returned[c].what # "failed" => returned[c].id = reqId[c]
        /\ \A d \in Calls : reqId[d] = reqId[c] => d = c

\* The headers of a request are those the client had at one moment, never a
\* mixture of two settings (headersMu), and none that was set before the call
\* is missing or older ("a header sent with every request").
HeadersOfOneMoment ==
  \A c \in Calls : at[c] \notin {"idle", "post", "clone"} /\ cloned[c] = HeaderKeys =>
    /\ carried[c] \in states
    /\ \A k \in HeaderKeys : carried[c][k] >= before[c][k]

\* Every call returns, from a node that never answers or stops in the middle.
CallReturns == \A c \in Calls : (at[c] # "idle") ~> (at[c] = "done")
=============================================================================
