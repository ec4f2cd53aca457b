-------------------------- MODULE RpcClientProofs --------------------------
(***************************************************************************)
(* Proofs about RpcClient for any number of calls, buffers, header keys,   *)
(* settings and pieces of a body: the buffers are exclusive, every call    *)
(* gets its own answer, and the headers of a request are of one moment.    *)
(***************************************************************************)
EXTENDS RpcClient, TLAPS

Places == {"idle", "post", "clone", "sent", "read", "put", "done"}
Results == [what : {"failed", "rpcError", "notFound", "ok"}, id : Nat]
Headers == [HeaderKeys -> Nat]

\* The types of the variables, and the two facts about where a call is that
\* the types of the actions rest on.
RpcTypeOK ==
  /\ at \in [Calls -> Places]
  /\ lastId \in Nat /\ reqId \in [Calls -> Nat]
  /\ headers \in Headers /\ settings \in Nat /\ readers \in SUBSET Calls
  /\ cloned \in [Calls -> SUBSET HeaderKeys] /\ carried \in [Calls -> Headers]
  /\ pool \in SUBSET Buffers /\ held \in [Calls -> Buffers \cup {Nothing}]
  /\ content \in [Buffers -> SUBSET (Nat \X Answers)]
  /\ got \in [Calls -> 0 .. Parts]
  /\ answer \in [Calls -> Answers \cup {Nothing}]
  /\ returned \in [Calls -> Results \cup {Nothing}]
  /\ states \in SUBSET Headers /\ before \in [Calls -> Headers]
  /\ \A c \in Calls : held[c] # Nothing <=> at[c] \in {"read", "put"}
  /\ \A c \in Calls : at[c] \in {"read", "put"} => answer[c] # Nothing

\* Whatever a call returns for an answer is a result with the id of the answer.
LEMMA ResultType ==
  ASSUME NEW c, NEW a \in Answers
  PROVE  ResultOf(c, a) \in Results /\ ResultOf(c, a).id = a.id
  BY DEF ResultOf, Results, Returns, Answers

\* So is a failure.
LEMMA FailureType == Returns("failed", 0) \in Results
  BY Zenon DEF Returns, Results

\* The variables start with their types.
LEMMA TypeInit == RpcInit => RpcTypeOK
  BY RpcAssumption DEF RpcInit, RpcTypeOK, Places, Headers

\* Every step keeps the types.
LEMMA TypeNext == RpcTypeOK /\ [RpcNext]_rpcVars => RpcTypeOK'
<1> SUFFICES ASSUME RpcTypeOK, [RpcNext]_rpcVars PROVE RpcTypeOK'
  BY Zenon
<1> USE RpcAssumption DEF headerVars, bufferVars, idVars
<1>1. ASSUME NEW k \in HeaderKeys, SetHeader(k) PROVE RpcTypeOK'
  BY <1>1 DEF SetHeader, RpcTypeOK, Headers
<1>2. ASSUME NEW c \in Calls, Encode(c) PROVE RpcTypeOK'
  BY <1>2 DEF Encode, RpcTypeOK, Headers, Places
<1>3. ASSUME NEW c \in Calls, EncodeFails(c) PROVE RpcTypeOK'
  BY <1>3 DEF EncodeFails, RpcTypeOK, Headers, Places, Results, Returns
<1>4. ASSUME NEW c \in Calls, LockHeaders(c) PROVE RpcTypeOK'
  BY <1>4 DEF LockHeaders, RpcTypeOK, Headers, Places
<1>5. ASSUME NEW c \in Calls, NEW k \in HeaderKeys, CloneHeader(c, k) PROVE RpcTypeOK'
  BY <1>5 DEF CloneHeader, RpcTypeOK, Headers, Places
<1>6. ASSUME NEW c \in Calls, Send(c) PROVE RpcTypeOK'
  BY <1>6 DEF Send, RpcTypeOK, Headers, Places
<1>7. ASSUME NEW c \in Calls, NEW reply \in Replies, NodeAnswers(c, reply) PROVE RpcTypeOK'
  BY <1>7 DEF NodeAnswers, RpcTypeOK, Headers, Places, Replies, Answers
<1>8. ASSUME NEW c \in Calls, RequestFails(c) PROVE RpcTypeOK'
  BY <1>8 DEF RequestFails, RpcTypeOK, Headers, Places, Results, Returns
<1>9. ASSUME NEW c \in Calls, NEW b \in Buffers, GetBuffer(c, b) PROVE RpcTypeOK'
  BY <1>9 DEF GetBuffer, RpcTypeOK, Headers, Places
<1>10. ASSUME NEW c \in Calls, ReadBody(c) PROVE RpcTypeOK'
  BY <1>10 DEF ReadBody, RpcTypeOK, Headers, Places
<1>11. ASSUME NEW c \in Calls, ReadFails(c) PROVE RpcTypeOK'
  BY <1>11 DEF ReadFails, RpcTypeOK, Headers, Places, Results, Returns
<1>12. ASSUME NEW c \in Calls, Handle(c) PROVE RpcTypeOK'
  <2>1. \E r \in Results : returned' = [returned EXCEPT ![c] = r]
    <3>1. \A a \in Decoded(c) : a \in Answers
      BY DEF Decoded, RpcTypeOK
    <3> QED BY <1>12, <3>1, ResultType, FailureType DEF Handle
  <2> QED BY <1>12, <2>1 DEF Handle, RpcTypeOK, Headers, Places
<1>13. ASSUME NEW c \in Calls, Put(c) PROVE RpcTypeOK'
  BY <1>13 DEF Put, RpcTypeOK, Headers, Places
<1>14. ASSUME NEW c \in Calls, StreamBody(c) PROVE RpcTypeOK'
  <2>1. \E r \in Results : returned' = [returned EXCEPT ![c] = r]
    <3>1. answer[c] \in Answers
      BY Zenon, <1>14 DEF StreamBody, RpcTypeOK
    <3>2. PICK r \in {ResultOf(c, answer[c]), Returns("failed", 0)} :
            returned' = [returned EXCEPT ![c] = r]
      BY <1>14, Zenon DEF StreamBody
    <3>3. r \in Results
      BY <3>1, <3>2, ResultType, FailureType, Zenon
    <3> QED BY Zenon, <3>2, <3>3
  <2> QED BY <1>14, <2>1 DEF StreamBody, RpcTypeOK, Headers, Places
<1>15. ASSUME NEW b \in Buffers, Collect(b) PROVE RpcTypeOK'
  BY Zenon, <1>15 DEF Collect, RpcTypeOK, Headers, Places
<1>16. CASE UNCHANGED rpcVars
  BY Zenon, <1>16 DEF rpcVars, RpcTypeOK, Headers, Places
<1> QED
  BY Zenon, <1>1, <1>2, <1>3, <1>4, <1>5, <1>6, <1>7, <1>8, <1>9, <1>10, <1>11, <1>12, <1>13, <1>14,
     <1>15, <1>16 DEF RpcNext

-----------------------------------------------------------------------------
(* The headers: a reader keeps every writer out, so what a call has copied *)
(* so far is what the client still has, and all of it is one state.        *)
HeaderInv ==
  /\ headers \in states
  /\ \A k \in HeaderKeys : headers[k] <= settings
  /\ \A c \in Calls : at[c] = "clone" => c \in readers
  /\ \A c \in Calls : at[c] \in {"idle", "post"} => cloned[c] = {}
  /\ \A c \in Calls : at[c] = "clone" => \A k \in cloned[c] : carried[c][k] = headers[k]
  /\ \A c \in Calls : \A k \in HeaderKeys : before[c][k] <= headers[k]
  /\ HeadersOfOneMoment

\* No header is set before the first call.
LEMMA HeaderInit == RpcInit => HeaderInv
  BY DEF RpcInit, HeaderInv, HeadersOfOneMoment

\* The types that it rests on.
HeaderType ==
  /\ at \in [Calls -> Places] /\ headers \in [HeaderKeys -> Nat] /\ settings \in Nat
  /\ cloned \in [Calls -> SUBSET HeaderKeys] /\ carried \in [Calls -> [HeaderKeys -> Nat]]
  /\ before \in [Calls -> [HeaderKeys -> Nat]]

\* What a call does once its request is sent leaves the headers alone.
LEMMA HeaderFrame ==
  ASSUME HeaderType, HeaderInv, NEW c \in Calls, NEW place \in Places,
         UNCHANGED headerVars,
         at[c] \notin {"idle", "post", "clone"}, place \notin {"idle", "post", "clone"},
         at' = [at EXCEPT ![c] = place]
  PROVE  HeaderInv'
<1>1. \A d \in Calls : d # c => at'[d] = at[d]
  BY Zenon DEF HeaderType
<1>2. at'[c] \notin {"idle", "post", "clone"}
  BY Zenon DEF HeaderType
<1>3. UNCHANGED <<headers, settings, readers, cloned, carried, states, before>>
  BY Zenon DEF headerVars
<1>4. HeadersOfOneMoment'
  BY <1>1, <1>2, <1>3 DEF HeaderInv, HeadersOfOneMoment
<1> QED BY <1>1, <1>2, <1>3, <1>4 DEF HeaderInv

\* Every step keeps what is known of the headers.
LEMMA HeaderNext == RpcTypeOK /\ HeaderInv /\ [RpcNext]_rpcVars => HeaderInv'
<1> SUFFICES ASSUME RpcTypeOK, HeaderInv, [RpcNext]_rpcVars PROVE HeaderInv'
  BY Zenon
<1>t. HeaderType
  BY Zenon DEF RpcTypeOK, HeaderType, Headers
<1>p. "sent" \in Places /\ "read" \in Places /\ "put" \in Places /\ "done" \in Places
  BY Zenon DEF Places
<1>1. ASSUME NEW k \in HeaderKeys, SetHeader(k) PROVE HeaderInv'
  <2>1. /\ readers = {} /\ settings' = settings + 1
        /\ headers' = [headers EXCEPT ![k] = settings + 1] /\ states' = states \cup {headers'}
        /\ UNCHANGED <<at, readers, cloned, carried, before>>
    BY Zenon, <1>1 DEF SetHeader
  <2>2. \A c \in Calls : at[c] # "clone"
    BY Zenon, <2>1 DEF HeaderInv
  <2>3. \A j \in HeaderKeys : headers[j] <= headers'[j] /\ headers'[j] <= settings'
    BY <2>1, <1>t DEF HeaderInv, HeaderType
  <2>4. \A c \in Calls : \A j \in HeaderKeys : before'[c][j] <= headers'[j]
    <3> SUFFICES ASSUME NEW c \in Calls, NEW j \in HeaderKeys PROVE before[c][j] <= headers'[j]
      BY Zenon, <2>1
    <3>1. before[c][j] \in Nat /\ headers[j] \in Nat /\ headers'[j] \in Nat
      BY <2>1, <1>t DEF HeaderType
    <3> QED BY <2>3, <3>1 DEF HeaderInv
  <2>5. HeadersOfOneMoment'
    BY Zenon, <2>1 DEF HeaderInv, HeadersOfOneMoment
  <2> QED BY Zenon, <2>1, <2>2, <2>3, <2>4, <2>5 DEF HeaderInv
<1>2. ASSUME NEW c \in Calls, Encode(c) PROVE HeaderInv'
  <2>1. /\ at[c] = "idle" /\ at' = [at EXCEPT ![c] = "post"]
        /\ before' = [before EXCEPT ![c] = headers]
        /\ UNCHANGED <<headers, settings, readers, cloned, carried, states>>
    BY Zenon, <1>2 DEF Encode
  <2>2. \A d \in Calls : \A j \in HeaderKeys : before'[d][j] <= headers'[j]
    BY <2>1, <1>t DEF HeaderInv, HeaderType
  <2>3. HeadersOfOneMoment'
    BY <2>1, <1>t DEF HeaderInv, HeadersOfOneMoment, HeaderType
  <2>4. \A d \in Calls : d # c => at'[d] = at[d]
    BY Zenon, <2>1, <1>t DEF HeaderType
  <2>5. at'[c] = "post"
    BY Zenon, <2>1, <1>t DEF HeaderType
  <2> QED BY <2>1, <2>2, <2>3, <2>4, <2>5 DEF HeaderInv
<1>3. ASSUME NEW c \in Calls, EncodeFails(c) PROVE HeaderInv'
  <2>1. /\ at[c] = "idle" /\ at' = [at EXCEPT ![c] = "done"]
        /\ UNCHANGED <<headers, settings, readers, cloned, carried, states, before>>
    BY Zenon, <1>3 DEF EncodeFails, headerVars
  <2>2. cloned[c] = HeaderKeys => HeaderKeys = {}
    BY Zenon, <2>1 DEF HeaderInv
  <2>3. HeaderKeys = {} => carried[c] = headers
    BY <1>t DEF HeaderType
  <2>4. cloned[c] = HeaderKeys => carried[c] \in states
    BY Zenon, <2>2, <2>3 DEF HeaderInv
  <2>5. \A d \in Calls : d # c => at'[d] = at[d]
    BY Zenon, <2>1, <1>t DEF HeaderType
  <2>6. at'[c] = "done"
    BY Zenon, <2>1, <1>t DEF HeaderType
  <2>7. HeadersOfOneMoment'
    BY Zenon, <2>1, <2>2, <2>4, <2>5, <2>6 DEF HeaderInv, HeadersOfOneMoment
  <2> QED BY <2>1, <2>5, <2>6, <2>7 DEF HeaderInv
<1>4. ASSUME NEW c \in Calls, LockHeaders(c) PROVE HeaderInv'
  <2>1. /\ at[c] = "post" /\ at' = [at EXCEPT ![c] = "clone"] /\ readers' = readers \cup {c}
        /\ UNCHANGED <<headers, settings, cloned, carried, states, before>>
    BY Zenon, <1>4 DEF LockHeaders
  <2>2. (\A d \in Calls : d # c => at'[d] = at[d]) /\ at'[c] = "clone"
    BY Zenon, <2>1, <1>t DEF HeaderType
  <2>3. HeadersOfOneMoment'
    BY Zenon, <2>1, <2>2 DEF HeaderInv, HeadersOfOneMoment
  <2> QED BY <2>1, <2>2, <2>3 DEF HeaderInv
<1>5. ASSUME NEW c \in Calls, NEW k \in HeaderKeys, CloneHeader(c, k) PROVE HeaderInv'
  <2>1. /\ at[c] = "clone" /\ cloned' = [cloned EXCEPT ![c] = @ \cup {k}]
        /\ carried' = [carried EXCEPT ![c][k] = headers[k]]
        /\ UNCHANGED <<at, headers, settings, readers, states, before>>
    BY Zenon, <1>5 DEF CloneHeader
  <2>2. \A d \in Calls : d # c => cloned'[d] = cloned[d] /\ carried'[d] = carried[d]
    BY Zenon, <2>1, <1>t DEF HeaderType
  <2>3. cloned'[c] = cloned[c] \cup {k} /\ carried'[c] = [carried[c] EXCEPT ![k] = headers[k]]
    BY Zenon, <2>1, <1>t DEF HeaderType
  <2>4. \A j \in cloned'[c] : carried'[c][j] = headers[j]
    BY <2>1, <2>3, <1>t DEF HeaderInv, HeaderType
  <2>5. HeadersOfOneMoment'
    BY <2>1, <2>2 DEF HeaderInv, HeadersOfOneMoment
  <2> QED BY <2>1, <2>2, <2>4, <2>5 DEF HeaderInv
<1>6. ASSUME NEW c \in Calls, Send(c) PROVE HeaderInv'
  <2>1. /\ at[c] = "clone" /\ cloned[c] = HeaderKeys /\ at' = [at EXCEPT ![c] = "sent"]
        /\ readers' = readers \ {c}
        /\ UNCHANGED <<headers, settings, cloned, carried, states, before>>
    BY Zenon, <1>6 DEF Send
  <2>2. \A k \in HeaderKeys : carried[c][k] = headers[k]
    BY Zenon, <2>1 DEF HeaderInv
  <2>3. carried[c] = headers
    BY <2>2, <1>t DEF HeaderType
  <2>4. (\A d \in Calls : d # c => at'[d] = at[d]) /\ at'[c] = "sent"
    BY Zenon, <2>1, <1>t DEF HeaderType
  <2>5. \A k \in HeaderKeys : carried[c][k] >= before[c][k]
    BY Zenon, <2>3, <1>t DEF HeaderInv, HeaderType
  <2>6. HeadersOfOneMoment'
    BY <2>1, <2>3, <2>4, <2>5 DEF HeaderInv, HeadersOfOneMoment
  <2> QED BY <2>1, <2>4, <2>6 DEF HeaderInv
<1>7. ASSUME NEW c \in Calls, RequestFails(c) \/ Put(c) \/ StreamBody(c) PROVE HeaderInv'
  <2>1. at' = [at EXCEPT ![c] = "done"] /\ at[c] \in {"sent", "put"} /\ UNCHANGED headerVars
    BY Zenon, <1>7 DEF RequestFails, Put, StreamBody
  <2> QED BY Zenon, <2>1, <1>p, <1>t, HeaderFrame
<1>8. ASSUME NEW c \in Calls, ReadFails(c) \/ Handle(c) PROVE HeaderInv'
  <2>1. at' = [at EXCEPT ![c] = "put"] /\ at[c] = "read" /\ UNCHANGED headerVars
    BY Zenon, <1>8 DEF ReadFails, Handle
  <2> QED BY Zenon, <2>1, <1>p, <1>t, HeaderFrame
<1>9. ASSUME NEW c \in Calls, NEW b \in Buffers, GetBuffer(c, b) PROVE HeaderInv'
  <2>1. at' = [at EXCEPT ![c] = "read"] /\ at[c] = "sent" /\ UNCHANGED headerVars
    BY Zenon, <1>9 DEF GetBuffer
  <2> QED BY Zenon, <2>1, <1>p, <1>t, HeaderFrame
<1>10. ASSUME UNCHANGED <<at, headerVars>> PROVE HeaderInv'
  <2>1. HeadersOfOneMoment'
    BY Zenon, <1>10 DEF HeaderInv, HeadersOfOneMoment, headerVars
  <2> QED BY Zenon, <1>10, <2>1 DEF HeaderInv, headerVars
<1>11. ASSUME \/ \E c \in Calls : \/ ReadBody(c)
                                 \/ \E reply \in Replies : NodeAnswers(c, reply)
              \/ \E b \in Buffers : Collect(b)
              \/ UNCHANGED rpcVars
       PROVE  HeaderInv'
  BY Zenon, <1>10, <1>11 DEF ReadBody, NodeAnswers, Collect, rpcVars
<1> QED BY Zenon, <1>1, <1>2, <1>3, <1>4, <1>5, <1>6, <1>7, <1>8, <1>9, <1>11 DEF RpcNext

-----------------------------------------------------------------------------
(* The buffers: one user each, never in the pool while used, and holding   *)
(* exactly the pieces its user has read of its own answer; the answer has  *)
(* the id of the request, and ids are distinct.                            *)
AnswerOf(c) ==
  IF answer[c].status # 200 \/ answer[c].kind = "garbage" THEN "failed"
  ELSE IF answer[c].kind = "error" THEN "rpcError"
  ELSE IF answer[c].kind = "null" /\ c \in Nullable THEN "notFound"
  ELSE "ok"

ReturnedOwn(c) ==
  /\ returned[c] \in Results /\ returned[c].what = AnswerOf(c)
  /\ returned[c].what # "failed" => returned[c].id = reqId[c]

IdInv ==
  /\ \A c \in Calls : reqId[c] <= lastId
  /\ \A c \in Calls : at[c] # "idle" => reqId[c] > 0
  /\ \A c \in Calls : at[c] = "idle" => reqId[c] = 0
  /\ \A c, d \in Calls : at[c] # "idle" /\ reqId[d] = reqId[c] => d = c
  /\ \A c \in Calls : answer[c] # Nothing => at[c] # "idle" /\ answer[c].id = reqId[c]

BufferInv ==
  /\ BuffersExclusive
  /\ \A c \in Calls : at[c] \in {"idle", "post", "clone", "sent"} => got[c] = 0
  /\ \A c \in Calls : at[c] = "read" =>
       content[held[c]] = {<<i, answer[c]>> : i \in 1 .. got[c]}
  /\ \A c \in Calls : at[c] \in {"put", "done"} /\ got[c] = Parts => ReturnedOwn(c)

\* The types that the invariant of the buffers rests on.
BufferType ==
  /\ at \in [Calls -> Places] /\ reqId \in [Calls -> Nat] /\ got \in [Calls -> 0 .. Parts]
  /\ held \in [Calls -> Buffers \cup {Nothing}]
  /\ content \in [Buffers -> SUBSET (Nat \X Answers)]
  /\ answer \in [Calls -> Answers \cup {Nothing}]
  /\ returned \in [Calls -> Results \cup {Nothing}]
  /\ \A c \in Calls : held[c] # Nothing <=> at[c] \in {"read", "put"}
  /\ \A c \in Calls : at[c] \in {"read", "put"} => answer[c] # Nothing

\* No call has an id or a buffer before it begins.
LEMMA BufferInit == RpcInit => IdInv /\ BufferInv
  BY RpcAssumption DEF RpcInit, IdInv, BufferInv, BuffersExclusive

\* A call that has its id and moves on disturbs no id.
LEMMA IdFrame ==
  ASSUME IdInv, NEW c \in Calls, at[c] # "idle", at'[c] # "idle",
         \A d \in Calls : d # c => at'[d] = at[d],
         UNCHANGED <<lastId, reqId, answer>>
  PROVE  IdInv'
  BY DEF IdInv

\* Every step keeps the ids distinct and the answers with their requests.
LEMMA IdNext == RpcTypeOK /\ IdInv /\ [RpcNext]_rpcVars => IdInv'
<1> SUFFICES ASSUME RpcTypeOK, IdInv, [RpcNext]_rpcVars PROVE IdInv'
  BY Zenon
<1>t. /\ at \in [Calls -> Places] /\ lastId \in Nat /\ reqId \in [Calls -> Nat]
      /\ answer \in [Calls -> Answers \cup {Nothing}]
  BY Zenon DEF RpcTypeOK
<1>1. ASSUME NEW c \in Calls, Encode(c) \/ EncodeFails(c) PROVE IdInv'
  <2>1. /\ at[c] = "idle" /\ lastId' = lastId + 1 /\ reqId' = [reqId EXCEPT ![c] = lastId + 1]
        /\ answer' = answer
        /\ at' = [at EXCEPT ![c] = "post"] \/ at' = [at EXCEPT ![c] = "done"]
    BY Zenon, <1>1 DEF Encode, EncodeFails
  <2>2. (\A d \in Calls : d # c => at'[d] = at[d]) /\ at'[c] # "idle"
    BY Zenon, <2>1, <1>t
  <2>3. (\A d \in Calls : d # c => reqId'[d] = reqId[d]) /\ reqId'[c] = lastId + 1
    BY Zenon, <2>1, <1>t
  <2>4. \A d \in Calls : reqId[d] \in Nat
    BY Zenon, <1>t
  <2> QED BY <2>1, <2>2, <2>3, <2>4, <1>t DEF IdInv
<1>2. ASSUME NEW c \in Calls, NEW reply \in Replies, NodeAnswers(c, reply) PROVE IdInv'
  <2>1. (\A d \in Calls : d # c => answer'[d] = answer[d]) /\ answer'[c].id = reqId[c]
    BY Zenon, <1>2, <1>t DEF NodeAnswers
  <2> QED BY <1>2, <2>1 DEF NodeAnswers, IdInv, idVars
<1>3. ASSUME NEW c \in Calls, LockHeaders(c) \/ Send(c) \/ RequestFails(c) \/ StreamBody(c)
      PROVE  IdInv'
  BY Zenon, <1>3, <1>t, IdFrame DEF LockHeaders, Send, RequestFails, StreamBody, idVars
<1>4. ASSUME NEW c \in Calls, ReadFails(c) \/ Handle(c) \/ Put(c) \/ ReadBody(c) PROVE IdInv'
  BY <1>4, <1>t, IdFrame DEF ReadFails, Handle, Put, ReadBody, idVars
<1>5. ASSUME NEW c \in Calls, NEW b \in Buffers, GetBuffer(c, b) PROVE IdInv'
  BY Zenon, <1>5, <1>t, IdFrame DEF GetBuffer, idVars
<1>6. ASSUME \/ \E k \in HeaderKeys : SetHeader(k)
             \/ \E c \in Calls, k \in HeaderKeys : CloneHeader(c, k)
             \/ \E b \in Buffers : Collect(b)
             \/ UNCHANGED rpcVars
      PROVE  IdInv'
  <2>1. UNCHANGED <<at, lastId, reqId, answer>>
    BY Zenon, <1>6 DEF SetHeader, CloneHeader, Collect, rpcVars, idVars
  <2> QED BY Zenon, <2>1 DEF IdInv
<1> QED BY Zenon, <1>1, <1>2, <1>3, <1>4, <1>5, <1>6 DEF RpcNext

\* A buffer with all the pieces of an answer decodes to that answer alone.
LEMMA DecodesToOwn ==
  ASSUME RpcTypeOK, BufferInv, NEW c \in Calls, at[c] = "read", got[c] = Parts
  PROVE  Decoded(c) = IF answer[c].kind = "garbage" THEN {} ELSE {answer[c]}
<1>1. content[held[c]] = WholeOf(answer[c]) /\ answer[c] # Nothing
  BY DEF BufferInv, RpcTypeOK, WholeOf
<1>2. ASSUME NEW a, WholeOf(a) = WholeOf(answer[c]) PROVE a = answer[c]
  <2>1. <<1, a>> \in WholeOf(a)
    <3>1. 1 \in 1 .. Parts
      BY RpcAssumption
    <3> QED BY ZenonT(30), <3>1 DEF WholeOf
  <2>2. PICK i \in 1 .. Parts : <<1, a>> = <<i, answer[c]>>
    BY Zenon, <1>2, <2>1 DEF WholeOf
  <2> QED BY Zenon, <2>2
<1> QED BY <1>1, <1>2 DEF Decoded

\* A call whose answer, id and result stay keeps its own result.
LEMMA ReturnedFrame ==
  ASSUME NEW d \in Calls, answer'[d] = answer[d], returned'[d] = returned[d], reqId'[d] = reqId[d],
         ReturnedOwn(d)
  PROVE  ReturnedOwn(d)'
  BY DEF ReturnedOwn, AnswerOf

\* A call that moves without touching a buffer disturbs no other.
LEMMA BufferFrame ==
  ASSUME BufferType, BufferInv, NEW c \in Calls,
         UNCHANGED <<pool, held, content, got>>,
         \A d \in Calls : d # c =>
           /\ at'[d] = at[d] /\ answer'[d] = answer[d]
           /\ returned'[d] = returned[d] /\ reqId'[d] = reqId[d],
         at'[c] \in {"idle", "post", "clone", "sent"} => got[c] = 0,
         at'[c] # "read",
         at'[c] \in {"put", "done"} /\ got[c] = Parts => ReturnedOwn(c)'
  PROVE  BufferInv'
<1>1. BuffersExclusive'
  BY DEF BufferInv, BuffersExclusive
<1>2. \A d \in Calls : at'[d] \in {"idle", "post", "clone", "sent"} => got'[d] = 0
  BY Zenon DEF BufferInv
<1>3. \A d \in Calls : at'[d] = "read" =>
        content'[held'[d]] = {<<i, answer'[d]>> : i \in 1 .. got'[d]}
  BY DEF BufferInv
<1>4. \A d \in Calls : at'[d] \in {"put", "done"} /\ got'[d] = Parts => ReturnedOwn(d)'
  BY ReturnedFrame DEF BufferInv
<1> QED BY Zenon, <1>1, <1>2, <1>3, <1>4 DEF BufferInv

\* Every step keeps the buffers apart and what they hold.
LEMMA BufferNext == RpcTypeOK /\ IdInv /\ BufferInv /\ [RpcNext]_rpcVars => BufferInv'
<1> SUFFICES ASSUME RpcTypeOK, IdInv, BufferInv, [RpcNext]_rpcVars PROVE BufferInv'
  BY Zenon
<1> USE RpcAssumption
<1>t. BufferType
  BY Zenon DEF RpcTypeOK, BufferType
<1>g. \A c \in Calls : at[c] \in {"idle", "post", "clone", "sent"} => got[c] = 0 /\ got[c] # Parts
  BY Zenon DEF BufferInv
<1>1. ASSUME NEW c \in Calls, Encode(c) \/ EncodeFails(c) PROVE BufferInv'
  BY <1>1, <1>t, <1>g, BufferFrame DEF Encode, EncodeFails, bufferVars, BufferType
<1>2. ASSUME NEW c \in Calls, NEW reply \in Replies, NodeAnswers(c, reply) PROVE BufferInv'
  BY <1>2, <1>t, <1>g, BufferFrame DEF NodeAnswers, bufferVars, idVars, BufferType
<1>3. ASSUME NEW c \in Calls, LockHeaders(c) \/ Send(c) \/ RequestFails(c) PROVE  BufferInv'
  BY <1>3, <1>t, <1>g, BufferFrame
     DEF LockHeaders, Send, RequestFails, bufferVars, idVars, BufferType
<1>s. ASSUME NEW c \in Calls, StreamBody(c) PROVE  BufferInv'
  <2>1. PICK r : returned' = [returned EXCEPT ![c] = r]
    BY Zenon, <1>s DEF StreamBody
  <2>2. /\ at[c] = "sent" /\ at' = [at EXCEPT ![c] = "done"]
        /\ UNCHANGED <<answer, pool, held, content, got, reqId>>
    BY Zenon, <1>s DEF StreamBody, bufferVars, idVars
  <2> QED BY <2>1, <2>2, <1>t, <1>g, BufferFrame DEF BufferType
<1>4. ASSUME NEW c \in Calls, NEW b \in Buffers, GetBuffer(c, b) PROVE BufferInv'
  <2>1. \A d \in Calls : held[d] # b
    BY <1>4 DEF GetBuffer, InUse, BufferInv, BuffersExclusive
  <2>2. /\ pool' = pool \ {b} /\ held' = [held EXCEPT ![c] = b]
        /\ content' = [content EXCEPT ![b] = {}] /\ got' = [got EXCEPT ![c] = 0]
        /\ at' = [at EXCEPT ![c] = "read"] /\ UNCHANGED <<answer, returned, reqId>>
    BY Zenon, <1>4 DEF GetBuffer, idVars
  <2>3. BuffersExclusive'
    BY <2>1, <2>2, <1>t DEF BufferInv, BuffersExclusive, BufferType
  <2>4. \A d \in Calls : at'[d] \in {"idle", "post", "clone", "sent"} => got'[d] = 0
    BY <2>2, <1>t DEF BufferInv, BufferType
  <2>5. \A d \in Calls : at'[d] = "read" =>
          content'[held'[d]] = {<<i, answer'[d]>> : i \in 1 .. got'[d]}
    BY <2>1, <2>2, <1>t DEF BufferInv, BufferType
  <2>6. \A d \in Calls : at'[d] \in {"put", "done"} /\ got'[d] = Parts => ReturnedOwn(d)'
    BY Zenon, <2>2, <1>t, ReturnedFrame DEF BufferInv, BufferType
  <2> QED BY Zenon, <2>3, <2>4, <2>5, <2>6 DEF BufferInv
<1>5. ASSUME NEW c \in Calls, ReadBody(c) PROVE BufferInv'
  <2>1. /\ at[c] = "read" /\ got[c] < Parts /\ got' = [got EXCEPT ![c] = @ + 1]
        /\ content' = [content EXCEPT ![held[c]] = @ \cup {<<got[c] + 1, answer[c]>>}]
        /\ UNCHANGED <<at, answer, returned, pool, held, reqId>>
    BY Zenon, <1>5 DEF ReadBody, idVars
  <2>2. content'[held[c]] = {<<i, answer[c]>> : i \in 1 .. got[c] + 1}
    <3>1. content[held[c]] = {<<i, answer[c]>> : i \in 1 .. got[c]} /\ held[c] \in Buffers
      BY <2>1, <1>t DEF BufferInv, BufferType
    <3>2. content'[held[c]] = content[held[c]] \cup {<<got[c] + 1, answer[c]>>}
      BY <2>1, <3>1, <1>t DEF BufferType
    <3>3. got[c] \in Nat
      BY <1>t DEF BufferType
    <3>4. 1 .. got[c] + 1 = (1 .. got[c]) \cup {got[c] + 1}
      BY <3>3
    <3> QED BY <3>1, <3>2, <3>4
  <2>3. \A d \in Calls : d # c /\ at[d] = "read" => content'[held[d]] = content[held[d]]
    BY <2>1, <1>t DEF BufferInv, BuffersExclusive, BufferType
  <2>4. BuffersExclusive'
    BY Zenon, <2>1 DEF BufferInv, BuffersExclusive
  <2>5. \A d \in Calls : at'[d] \in {"idle", "post", "clone", "sent"} => got'[d] = 0
    BY Zenon, <2>1, <1>t DEF BufferInv, BufferType
  <2>6. \A d \in Calls : at'[d] = "read" =>
          content'[held'[d]] = {<<i, answer'[d]>> : i \in 1 .. got'[d]}
    BY <2>1, <2>2, <2>3, <1>t DEF BufferInv, BufferType
  <2>7. \A d \in Calls : at'[d] \in {"put", "done"} /\ got'[d] = Parts => ReturnedOwn(d)'
    BY Zenon, <2>1, <1>t, ReturnedFrame DEF BufferInv, BufferType
  <2> QED BY Zenon, <2>4, <2>5, <2>6, <2>7 DEF BufferInv
<1>6. ASSUME NEW c \in Calls, ReadFails(c) PROVE BufferInv'
  <2>1. /\ at[c] = "read" /\ got[c] < Parts /\ at' = [at EXCEPT ![c] = "put"]
        /\ UNCHANGED <<answer, pool, held, content, got, reqId>>
        /\ returned' = [returned EXCEPT ![c] = Returns("failed", 0)]
    BY Zenon, <1>6 DEF ReadFails, bufferVars, idVars
  <2>2. got[c] # Parts
    BY <2>1, <1>t DEF BufferType
  <2> QED BY <2>1, <2>2, <1>t, BufferFrame DEF BufferType
<1>7. ASSUME NEW c \in Calls, Handle(c) PROVE BufferInv'
  <2>1. answer[c] \in Answers /\ answer[c].id = reqId[c] /\ reqId[c] \in Nat
    <3>1. at[c] = "read"
      BY <1>7 DEF Handle
    <3>2. answer[c] \in Answers /\ answer[c] # Nothing /\ reqId[c] \in Nat
      BY Zenon, <3>1, <1>t DEF BufferType
    <3> QED BY Zenon, <3>2 DEF IdInv
  <2>2. Decoded(c) = IF answer[c].kind = "garbage" THEN {} ELSE {answer[c]}
    BY <1>7, DecodesToOwn DEF Handle
  <2>3. returned' = [returned EXCEPT ![c] =
          IF answer[c].status # 200 \/ answer[c].kind = "garbage"
          THEN Returns("failed", 0) ELSE ResultOf(c, answer[c])]
    BY <1>7, <2>2 DEF Handle
  <2>4. /\ at[c] = "read" /\ at' = [at EXCEPT ![c] = "put"]
        /\ UNCHANGED <<answer, pool, held, content, got, reqId>>
    BY Zenon, <1>7 DEF Handle, bufferVars, idVars
  <2>5. returned'[c] = IF answer[c].status # 200 \/ answer[c].kind = "garbage"
                       THEN Returns("failed", 0) ELSE ResultOf(c, answer[c])
    BY <2>3, <1>t DEF BufferType
  <2>6. ReturnedOwn(c)'
    BY <2>1, <2>4, <2>5 DEF ReturnedOwn, AnswerOf, ResultOf, Returns, Results, Answers
  <2>7. \A d \in Calls : at'[d] = IF d = c THEN "put" ELSE at[d]
    BY Zenon, <2>4, <1>t DEF BufferType
  <2>8. \A d \in Calls : d # c => returned'[d] = returned[d]
    BY <2>3, <1>t DEF BufferType
  <2> QED BY <2>4, <2>6, <2>7, <2>8, <1>t, BufferFrame, SMTT(30)
<1>8. ASSUME NEW c \in Calls, Put(c) PROVE BufferInv'
  <2>1. /\ at[c] = "put" /\ pool' = pool \cup {held[c]} /\ held' = [held EXCEPT ![c] = Nothing]
        /\ at' = [at EXCEPT ![c] = "done"] /\ UNCHANGED <<answer, returned, content, got, reqId>>
    BY Zenon, <1>8 DEF Put, idVars
  <2>2. BuffersExclusive'
    BY <2>1, <1>t DEF BufferInv, BuffersExclusive, BufferType
  <2>3. \A d \in Calls : at'[d] \in {"idle", "post", "clone", "sent"} => got'[d] = 0
    BY <2>1, <1>t DEF BufferInv, BufferType
  <2>4. \A d \in Calls : at'[d] = "read" =>
          content'[held'[d]] = {<<i, answer'[d]>> : i \in 1 .. got'[d]}
    BY <2>1, <1>t DEF BufferInv, BufferType
  <2>5. \A d \in Calls : at'[d] \in {"put", "done"} /\ got'[d] = Parts => ReturnedOwn(d)'
    <3>1. \A d \in Calls : at'[d] = IF d = c THEN "done" ELSE at[d]
      BY Zenon, <2>1, <1>t DEF BufferType
    <3>2. \A d \in Calls : ReturnedOwn(d) => ReturnedOwn(d)'
      BY Zenon, <2>1, ReturnedFrame
    <3> QED BY <2>1, <3>1, <3>2 DEF BufferInv
  <2> QED BY Zenon, <2>2, <2>3, <2>4, <2>5 DEF BufferInv
<1>9. ASSUME UNCHANGED <<at, answer, returned, held, content, got, reqId>>, pool' \subseteq pool
      PROVE  BufferInv'
  <2>1. BuffersExclusive'
    BY Zenon, <1>9 DEF BufferInv, BuffersExclusive
  <2>2. \A d \in Calls : ReturnedOwn(d) => ReturnedOwn(d)'
    BY Zenon, <1>9, ReturnedFrame
  <2> QED BY <1>9, <2>1, <2>2, Zenon DEF BufferInv
<1>10. ASSUME \/ \E k \in HeaderKeys : SetHeader(k)
              \/ \E c \in Calls, k \in HeaderKeys : CloneHeader(c, k)
              \/ \E b \in Buffers : Collect(b)
              \/ UNCHANGED rpcVars
      PROVE  BufferInv'
  BY <1>9, <1>10 DEF SetHeader, CloneHeader, Collect, rpcVars, bufferVars, idVars
<1> QED BY <1>1, <1>2, <1>3, <1>s, <1>4, <1>5, <1>6, <1>7, <1>8, <1>10 DEF RpcNext

-----------------------------------------------------------------------------
\* The three invariants hold together.
LEMMA RpcInvariant == RpcSpec => [](RpcTypeOK /\ HeaderInv /\ IdInv /\ BufferInv)
<1>1. RpcInit => RpcTypeOK /\ HeaderInv /\ IdInv /\ BufferInv
  BY Zenon, TypeInit, HeaderInit, BufferInit
<1>2. RpcTypeOK /\ HeaderInv /\ IdInv /\ BufferInv /\ [RpcNext]_rpcVars
        => (RpcTypeOK /\ HeaderInv /\ IdInv /\ BufferInv)'
  BY Zenon, TypeNext, HeaderNext, IdNext, BufferNext
<1> QED BY <1>1, <1>2, PTL DEF RpcSpec

\* do (src/rpc/client.go): a pooled response buffer has one user at a time,
\* and is not in the pool while it has one.
THEOREM BuffersStayExclusive == RpcSpec => []BuffersExclusive
<1>1. BufferInv => BuffersExclusive
  BY Zenon DEF BufferInv
<1> QED BY <1>1, RpcInvariant, PTL

\* call and callNullable: a call that read its response returns what the node
\* answered to its own request, however calls share and recycle the buffers.
THEOREM EveryCallGetsItsAnswer == RpcSpec => []OwnAnswer
<1>1. RpcTypeOK /\ IdInv /\ BufferInv => OwnAnswer
  <2> SUFFICES ASSUME RpcTypeOK, IdInv, BufferInv, NEW c \in Calls,
                      at[c] = "done", got[c] = Parts
               PROVE  /\ ReturnedOwn(c)
                      /\ \A d \in Calls : reqId[d] = reqId[c] => d = c
    BY ZenonT(30) DEF OwnAnswer, ReturnedOwn, AnswerOf
  <2> QED BY Zenon DEF BufferInv, IdInv
<1> QED BY <1>1, RpcInvariant, PTL

\* SetHeader and post: a request carries the headers of one moment, and all
\* that were set before the call.
THEOREM HeadersAreOfOneMoment == RpcSpec => []HeadersOfOneMoment
<1>1. HeaderInv => HeadersOfOneMoment
  BY Zenon DEF HeaderInv
<1> QED BY <1>1, RpcInvariant, PTL
=============================================================================
