-------------------------- MODULE WsContractProofs --------------------------
(***************************************************************************)
(* What the client promises its subscribers: NotificationsDelivered holds, *)
(* and WsClient implements SubscriptionContract in every behaviour in      *)
(* which the node gives no id to a second subscription, for any calls,     *)
(* ids, buffers and bounds.                                                *)
(***************************************************************************)
EXTENDS WsClientProofs

-----------------------------------------------------------------------------
(* Whose an id is.                                                         *)

\* The node acknowledges id s, at a place in flight; and whoever asked for it
\* still waits for the acknowledgement.
AckAt(i, s)   == toClient[i].type = "ack" /\ toClient[i].sub = s
Granted(i, s) == AckAt(i, s) /\ toClient[i].id \in DOMAIN pending

\* subscribe has not written its request.
Young(c) == kind[c] = "sub" /\ pc[c] \in {"register", "lock", "write"}

\* An id that the node has acknowledged in flight is not registered yet, is
\* acknowledged once, and is one that the node handed out.
AckFresh ==
  \A s \in SubIds : \A i \in DOMAIN toClient : AckAt(i, s) => uses[s] # 0 /\ subs[s] = None

AckOnce ==
  \A s \in SubIds : \A i, j \in DOMAIN toClient : AckAt(i, s) /\ AckAt(j, s) => i = j

SubsUsed == \A s \in SubIds : subs[s] # None => uses[s] # 0

\* Id s is c's: it is or will be registered for no other call.
Belongs(s, c) ==
  /\ uses[s] # 0
  /\ subs[s] # None => subs[s] = c
  /\ \A i \in DOMAIN toClient : Granted(i, s) => pending[toClient[i].id] = c

\* A notification in flight is of an id that is its owner's, and a live owner
\* is registered before the read loop comes to it.
NoteFor(j, s, c) == NoteAt(j) /\ toClient[j].sub = s /\ toClient[j].owner = c

NoteOwner ==
  \A s \in SubIds, c \in Calls : \A j \in DOMAIN toClient : NoteFor(j, s, c) => Belongs(s, c)

NoteReady ==
  \A s \in SubIds, c \in Calls : \A j \in DOMAIN toClient : NoteFor(j, s, c) /\ Live(c) =>
    subs[s] = c \/ \E i \in DOMAIN toClient : i < j /\ Granted(i, s)

\* The same of a notification that the node may still send.
NodeOwner ==
  \A s \in SubIds, c \in Calls : serverSubs[s] = c => Belongs(s, c)

NodeReady ==
  \A s \in SubIds, c \in Calls : serverSubs[s] = c /\ Live(c) /\ NodeUp =>
    subs[s] = c \/ \E i \in DOMAIN toClient : Granted(i, s)

\* A live call waits for the reply to what it is to write or has written.
AskedBy(i, c) == toServer[i].type = "sub" /\ toServer[i].call = c

AskPending ==
  \A c \in Calls : \A i \in DOMAIN toServer : AskedBy(i, c) =>
    /\ toServer[i].id \in DOMAIN pending => pending[toServer[i].id] = c
    /\ Live(c) => toServer[i].id \in DOMAIN pending

WritePending ==
  \A c \in Calls : Live(c) /\ pc[c] \in {"lock", "write"} =>
    callId[c] \in DOMAIN pending /\ pending[callId[c]] = c

\* The node knows nothing of a call that has not written its request.
Unseen ==
  \A c \in Calls : Young(c) =>
    /\ \A s \in SubIds : \A j \in DOMAIN toClient : ~NoteFor(j, s, c)
    /\ \A s \in SubIds : serverSubs[s] # c
    /\ \A i \in DOMAIN toServer : ~AskedBy(i, c)

Flow ==
  /\ AckFresh /\ AckOnce /\ SubsUsed
  /\ NoteOwner /\ NoteReady /\ NodeOwner /\ NodeReady
  /\ AskPending /\ WritePending /\ Unseen

\* What a step may do to the tables and to the connection without giving an id
\* to anyone: requests and subscriptions end, and not those of a call that
\* stays live; frames are read, lost or, when they are neither acknowledgements
\* nor notifications, sent.
CalmTables ==
  /\ \A i \in DOMAIN pending' : i \in DOMAIN pending /\ pending'[i] = pending[i]
  /\ \A c \in Calls : Live(c)' =>
       \A i \in DOMAIN pending : pending[i] = c => i \in DOMAIN pending'
  /\ \A s \in SubIds : subs'[s] \in {subs[s], None}
  /\ \A s \in SubIds, c \in Calls : subs[s] = c /\ Live(c)' => subs'[s] = c

CalmCalls ==
  \A c \in Calls :
    /\ Live(c)' => Live(c)
    /\ Live(c)' /\ pc'[c] \in {"lock", "write"} =>
         pc[c] \in {"lock", "write"} /\ callId'[c] = callId[c]
    /\ Young(c)' => Young(c)

CalmNode ==
  /\ UNCHANGED uses
  /\ \A s \in SubIds : serverSubs'[s] \in {serverSubs[s], None}
  /\ NodeUp' => NodeUp
  /\ \A i \in DOMAIN toServer' : toServer'[i].type = "sub" =>
       \E k \in DOMAIN toServer : toServer'[i] = toServer[k]

CalmWire(d) ==
  /\ \A i \in DOMAIN toClient' : toClient'[i].type \in {"ack", "note"} =>
       i \in Nat /\ i + d \in DOMAIN toClient /\ toClient'[i] = toClient[i + d]
  /\ \/ \A k \in DOMAIN toClient : toClient[k].type = "ack" =>
          \E i \in DOMAIN toClient' : i + d = k /\ i \in Nat /\ toClient'[i] = toClient[k]
     \/ ~NodeUp' /\ \A i \in DOMAIN toClient' : ~NoteAt(i)'

\* A calm step keeps who owns what.
LEMMA FlowKept ==
  ASSUME TypeOK, Flow, CalmTables, CalmCalls, CalmNode, NEW d \in {0, 1}, CalmWire(d)
  PROVE  Flow'
<1>1. /\ \A i \in DOMAIN toClient' : \A s, c : NoteFor(i, s, c)' =>
           i \in Nat /\ i + d \in DOMAIN toClient /\ NoteFor(i + d, s, c)
      /\ \A i \in DOMAIN toClient' : \A s : AckAt(i, s)' =>
           i \in Nat /\ i + d \in DOMAIN toClient /\ AckAt(i + d, s)
  BY Zenon DEF CalmWire, NoteFor, NoteAt, AckAt
<1>2. \A i \in DOMAIN toClient' : \A s : Granted(i, s)' =>
        /\ i + d \in DOMAIN toClient /\ Granted(i + d, s)
        /\ pending'[toClient'[i].id] = pending[toClient[i + d].id]
  BY Zenon DEF CalmWire, CalmTables, AckAt, Granted
<1>3. ASSUME NEW s \in SubIds, NEW c, Belongs(s, c)
      PROVE  Belongs(s, c)'
  <2>1. \A i \in DOMAIN toClient' : Granted(i, s)' => pending'[toClient'[i].id] = c
    BY Zenon, <1>2, <1>3 DEF Belongs
  <2>2. uses'[s] # 0 /\ (subs'[s] # None => subs'[s] = c)
    BY Zenon, <1>3 DEF Belongs, CalmTables, CalmNode
  <2> QED BY Zenon, <2>1, <2>2 DEF Belongs
<1>4. NoteOwner'
  BY Zenon, <1>1, <1>3 DEF Flow, NoteOwner
<1>5. \A s \in SubIds, c \in Calls : serverSubs'[s] = c => serverSubs[s] = c
  BY Zenon, ConstantsAssumption DEF CalmNode
<1>6. NodeOwner'
  BY Zenon, <1>3, <1>5 DEF Flow, NodeOwner
<1>7. AckFresh'
  <2>1. \A s \in SubIds : subs[s] = None => subs'[s] = None
    BY Zenon DEF CalmTables
  <2>2. UNCHANGED uses
    BY Zenon DEF CalmNode
  <2> QED BY Zenon, <1>1, <2>1, <2>2 DEF Flow, AckFresh
<1>8. AckOnce'
  <2>1. ASSUME NEW s \in SubIds, NEW i \in DOMAIN toClient', NEW j \in DOMAIN toClient',
               AckAt(i, s)', AckAt(j, s)'
        PROVE  i = j
    <3>1. i + d = j + d
      BY Zenon, <1>1, <2>1 DEF Flow, AckOnce
    <3>2. i \in Nat /\ j \in Nat
      BY Zenon, <1>1, <2>1
    <3> QED BY <3>1, <3>2
  <2> QED BY Zenon, <2>1 DEF AckOnce
<1>9. SubsUsed'
  BY Zenon DEF Flow, SubsUsed, CalmTables, CalmNode
<1>10. ASSUME NEW s \in SubIds, NEW c \in Calls, Live(c)', Belongs(s, c),
              NEW k \in DOMAIN toClient, Granted(k, s),
              NodeUp' \/ \E i \in DOMAIN toClient' : NoteAt(i)'
       PROVE  \E i \in DOMAIN toClient' : i + d = k /\ i \in Nat /\ Granted(i, s)'
  <2>1. pending[toClient[k].id] = c /\ toClient[k].id \in DOMAIN pending
    BY Zenon, <1>10 DEF Belongs, Granted
  <2>2. toClient[k].id \in DOMAIN pending'
    BY Zenon, <1>10, <2>1 DEF CalmTables
  <2>3. PICK i \in DOMAIN toClient' : i + d = k /\ i \in Nat /\ toClient'[i] = toClient[k]
    BY Zenon, <1>10 DEF Granted, AckAt, CalmWire
  <2> QED BY Zenon, <1>10, <2>2, <2>3 DEF Granted, AckAt
<1>11. NoteReady'
  <2> SUFFICES ASSUME NEW s \in SubIds, NEW c \in Calls, NEW j \in DOMAIN toClient',
                      NoteFor(j, s, c)', Live(c)'
               PROVE  subs'[s] = c \/ \E i \in DOMAIN toClient' : i < j /\ Granted(i, s)'
    BY Zenon DEF NoteReady
  <2>1. j \in Nat /\ j + d \in DOMAIN toClient /\ NoteFor(j + d, s, c)
    BY Zenon, <1>1
  <2>2. Live(c) /\ Belongs(s, c)
    BY Zenon, <2>1 DEF CalmCalls, Flow, NoteOwner
  <2>3. subs[s] = c \/ \E k \in DOMAIN toClient : k < j + d /\ Granted(k, s)
    BY Zenon, <2>1, <2>2 DEF Flow, NoteReady
  <2>4. CASE subs[s] = c
    BY Zenon, <2>4 DEF CalmTables
  <2>5. ASSUME NEW k \in DOMAIN toClient, k < j + d, Granted(k, s)
        PROVE  \E i \in DOMAIN toClient' : i < j /\ Granted(i, s)'
    <3>1. PICK i \in DOMAIN toClient' : i + d = k /\ i \in Nat /\ Granted(i, s)'
      BY Zenon, <1>10, <2>2, <2>5 DEF NoteFor
    <3>2. i < j
      BY <2>1, <2>5, <3>1
    <3> QED BY Zenon, <3>1, <3>2
  <2> QED BY Zenon, <2>3, <2>4, <2>5
<1>12. NodeReady'
  <2> SUFFICES ASSUME NEW s \in SubIds, NEW c \in Calls, serverSubs'[s] = c, Live(c)', NodeUp'
               PROVE  subs'[s] = c \/ \E i \in DOMAIN toClient' : Granted(i, s)'
    BY Zenon DEF NodeReady
  <2>1. serverSubs[s] = c /\ NodeUp /\ Live(c)
    BY Zenon, <1>5 DEF CalmNode, CalmCalls
  <2>2. Belongs(s, c)
    BY Zenon, <2>1 DEF Flow, NodeOwner
  <2>3. subs[s] = c \/ \E i \in DOMAIN toClient : Granted(i, s)
    BY Zenon, <2>1 DEF Flow, NodeReady
  <2>4. CASE subs[s] = c
    BY Zenon, <2>4 DEF CalmTables
  <2>5. CASE \E i \in DOMAIN toClient : Granted(i, s)
    BY Zenon, <1>10, <2>2, <2>5
  <2> QED BY Zenon, <2>3, <2>4, <2>5
<1>13. \A c \in Calls : \A i \in DOMAIN toServer' : AskedBy(i, c)' =>
         \E k \in DOMAIN toServer : AskedBy(k, c) /\ toServer'[i] = toServer[k]
  BY Zenon DEF CalmNode, AskedBy
<1>14. AskPending'
  <2> SUFFICES ASSUME NEW c \in Calls, NEW i \in DOMAIN toServer', AskedBy(i, c)'
               PROVE  /\ toServer'[i].id \in DOMAIN pending' => pending'[toServer'[i].id] = c
                      /\ Live(c)' => toServer'[i].id \in DOMAIN pending'
    BY Zenon DEF AskPending
  <2>1. PICK k \in DOMAIN toServer : AskedBy(k, c) /\ toServer'[i] = toServer[k]
    BY Zenon, <1>13
  <2>2. /\ toServer[k].id \in DOMAIN pending => pending[toServer[k].id] = c
        /\ Live(c) => toServer[k].id \in DOMAIN pending
    BY Zenon, <2>1 DEF Flow, AskPending
  <2> QED BY Zenon, <2>1, <2>2 DEF CalmTables, CalmCalls
<1>15. WritePending'
  <2> SUFFICES ASSUME NEW c \in Calls, Live(c)', pc'[c] \in {"lock", "write"}
               PROVE  callId'[c] \in DOMAIN pending' /\ pending'[callId'[c]] = c
    BY Zenon DEF WritePending
  <2>1. Live(c) /\ pc[c] \in {"lock", "write"} /\ callId'[c] = callId[c]
    BY Zenon DEF CalmCalls
  <2>2. callId[c] \in DOMAIN pending /\ pending[callId[c]] = c
    BY Zenon, <2>1 DEF Flow, WritePending
  <2> QED BY Zenon, <2>1, <2>2 DEF CalmTables
<1>16. Unseen'
  <2> SUFFICES ASSUME NEW c \in Calls, Young(c)'
               PROVE  /\ \A s \in SubIds : \A j \in DOMAIN toClient' : ~NoteFor(j, s, c)'
                      /\ \A s \in SubIds : serverSubs'[s] # c
                      /\ \A i \in DOMAIN toServer' : ~AskedBy(i, c)'
    BY Zenon DEF Unseen
  <2>1. Young(c)
    BY Zenon DEF CalmCalls
  <2>2. /\ \A s \in SubIds : \A j \in DOMAIN toClient : ~NoteFor(j, s, c)
        /\ \A s \in SubIds : serverSubs[s] # c
        /\ \A i \in DOMAIN toServer : ~AskedBy(i, c)
    BY Zenon, <2>1 DEF Flow, Unseen
  <2> QED BY Zenon, <1>1, <1>5, <1>13, <2>2
<1> QED
  BY Zenon, <1>4, <1>6, <1>7, <1>8, <1>9, <1>11, <1>12, <1>14, <1>15, <1>16 DEF Flow

\* A call registers its request under an id that is nowhere in flight.
LEMMA FlowRegistered ==
  ASSUME TypeOK, Flow, IdInv, NEW c \in Calls, pc[c] = "register", GoTo(c, "lock"),
         callId' = [callId EXCEPT ![c] = reqID + 1],
         pending' = [i \in DOMAIN pending \cup {reqID + 1} |->
                       IF i = reqID + 1 THEN c ELSE pending[i]],
         UNCHANGED <<subs, err, kind, chClosed, uses, serverSubs, toServer, toClient, peer, conn>>
  PROVE  Flow'
<1>1. reqID \in Nat /\ callId \in [Calls -> Nat] /\ pc = [d \in Calls |-> pc[d]]
  BY DEF TypeOK, ClientTypeOK, CallTypeOK
<1>2. /\ \A i \in DOMAIN pending : i \in DOMAIN pending' /\ (i # reqID + 1 => pending'[i] = pending[i])
      /\ \A i \in DOMAIN pending' : i # reqID + 1 => i \in DOMAIN pending
      /\ reqID + 1 \in DOMAIN pending' /\ pending'[reqID + 1] = c
  BY Zenon
<1>3. /\ \A s : \A i \in DOMAIN toClient : AckAt(i, s) => toClient[i].id # reqID + 1
      /\ \A d : \A i \in DOMAIN toServer : AskedBy(i, d) => toServer[i].id # reqID + 1
      /\ \A d \in Calls : callId[d] # reqID + 1
  <2>1. \A k \in Nat : k <= reqID => k # reqID + 1
    BY <1>1
  <2>2. \A i \in DOMAIN toClient : Replied(i) => toClient[i].id \in Nat /\ toClient[i].id <= reqID
    BY Zenon, FlightKinds DEF IdInv, IdsBounded
  <2>3. \A i \in DOMAIN toServer : Asked(i) => toServer[i].id \in Nat /\ toServer[i].id <= reqID
    BY Zenon, FlightKinds DEF IdInv, IdsBounded
  <2>4. /\ \A s : \A i \in DOMAIN toClient : AckAt(i, s) => Replied(i)
        /\ \A d : \A i \in DOMAIN toServer : AskedBy(i, d) => Asked(i)
    BY Zenon DEF AckAt, AskedBy, Replied, Asked
  <2>5. \A d \in Calls : callId[d] \in Nat /\ callId[d] <= reqID
    BY Zenon, <1>1 DEF IdInv, IdsOfCalls
  <2> QED BY Zenon, <2>1, <2>2, <2>3, <2>4, <2>5
<1>4. /\ \A d \in Calls : d # c => pc'[d] = pc[d] /\ callId'[d] = callId[d]
      /\ pc'[c] = "lock" /\ callId'[c] = reqID + 1
  BY Zenon, <1>1 DEF GoTo
<1>5. /\ \A d \in Calls : Live(d)' => (d = c /\ kind[c] = "sub") \/ Live(d)
      /\ \A d \in Calls : Young(d)' => Young(d)
      /\ kind[c] = "sub" => Young(c)
  BY Zenon, <1>4 DEF Live, Young
<1>6. /\ \A s : \A i \in DOMAIN toClient : AckAt(i, s)' <=> AckAt(i, s)
      /\ \A s, d : \A i \in DOMAIN toClient : NoteFor(i, s, d)' <=> NoteFor(i, s, d)
      /\ \A d : \A i \in DOMAIN toServer : AskedBy(i, d)' <=> AskedBy(i, d)
      /\ NodeUp' <=> NodeUp
  BY Zenon DEF AckAt, NoteFor, NoteAt, AskedBy, NodeUp
<1>7. \A s : \A i \in DOMAIN toClient :
        /\ Granted(i, s)' <=> Granted(i, s)
        /\ Granted(i, s) => pending'[toClient[i].id] = pending[toClient[i].id]
  BY Zenon, <1>2, <1>3, <1>6 DEF Granted
<1>8. \A s, d : Belongs(s, d) => Belongs(s, d)'
  BY Zenon, <1>7 DEF Belongs
<1>9. AckFresh' /\ AckOnce' /\ SubsUsed'
  BY Zenon, <1>6 DEF Flow, AckFresh, AckOnce, SubsUsed
<1>10. NoteOwner' /\ NodeOwner'
  BY Zenon, <1>6, <1>8 DEF Flow, NoteOwner, NodeOwner
<1>11. kind[c] = "sub" => /\ \A s \in SubIds : \A j \in DOMAIN toClient : ~NoteFor(j, s, c)
                          /\ \A s \in SubIds : serverSubs[s] # c
                          /\ \A i \in DOMAIN toServer : ~AskedBy(i, c)
  BY Zenon, <1>5 DEF Flow, Unseen
<1>12. NoteReady'
  BY ZenonT(60), <1>5, <1>6, <1>7, <1>11 DEF Flow, NoteReady
<1>13. NodeReady'
  BY Zenon, <1>5, <1>6, <1>7, <1>11 DEF Flow, NodeReady
<1>14. AskPending'
  <2> SUFFICES ASSUME NEW d \in Calls, NEW i \in DOMAIN toServer, AskedBy(i, d)
               PROVE  /\ toServer[i].id \in DOMAIN pending' => pending'[toServer[i].id] = d
                      /\ Live(d)' => toServer[i].id \in DOMAIN pending'
    BY Zenon, <1>6 DEF AskPending
  <2>1. /\ toServer[i].id \in DOMAIN pending => pending[toServer[i].id] = d
        /\ Live(d) => toServer[i].id \in DOMAIN pending
    BY Zenon DEF Flow, AskPending
  <2>2. toServer[i].id # reqID + 1
    BY Zenon, <1>3
  <2>3. Live(d)' => Live(d)
    BY Zenon, <1>5, <1>11
  <2> QED BY Zenon, <1>2, <2>1, <2>2, <2>3
<1>15. WritePending'
  <2> SUFFICES ASSUME NEW d \in Calls, Live(d)', pc'[d] \in {"lock", "write"}
               PROVE  callId'[d] \in DOMAIN pending' /\ pending'[callId'[d]] = d
    BY Zenon DEF WritePending
  <2>1. CASE d = c
    BY Zenon, <1>2, <1>4, <2>1
  <2>2. CASE d # c
    <3>1. Live(d) /\ pc[d] \in {"lock", "write"} /\ callId'[d] = callId[d]
      BY Zenon, <1>4, <1>5, <2>2
    <3>2. callId[d] \in DOMAIN pending /\ pending[callId[d]] = d
      BY Zenon, <3>1 DEF Flow, WritePending
    <3>3. callId[d] # reqID + 1
      BY Zenon, <1>3
    <3> QED BY Zenon, <1>2, <3>1, <3>2, <3>3
  <2> QED BY <2>1, <2>2
<1>16. Unseen'
  BY Zenon, <1>5, <1>6 DEF Flow, Unseen
<1> QED
  BY Zenon, <1>9, <1>10, <1>12, <1>13, <1>14, <1>15, <1>16 DEF Flow

\* A call writes its subscribe request.
LEMMA FlowWritten ==
  ASSUME TypeOK, Flow, PendingInv, IdInv, NEW c \in Calls, pc[c] = "write", GoTo(c, "await"),
         NEW r \in Request, toServer' = Append(toServer, r), r.id = callId[c], r.call = c,
         UNCHANGED <<pending, callId, subs, err, kind, chClosed, uses, serverSubs, toClient,
                     peer, conn>>
  PROVE  Flow'
<1>1. \A i \in DOMAIN toServer' :
        \/ i \in DOMAIN toServer /\ toServer'[i] = toServer[i]
        \/ toServer'[i] = r
  <2>1. toServer \in Seq(Request)
    BY Zenon DEF TypeOK, NodeTypeOK
  <2> QED BY <2>1
<1>2. /\ \A d \in Calls : d # c => pc'[d] = pc[d]
      /\ pc'[c] = "await" /\ "await" \notin {"register", "lock", "write"}
  BY DEF GoTo, TypeOK, CallTypeOK
<1>3. /\ \A d \in Calls : Live(d)' => Live(d)
      /\ \A d \in Calls : Young(d)' => Young(d) /\ d # c
  BY Zenon, <1>2 DEF Live, Young
<1>4. /\ \A s : \A i \in DOMAIN toClient : AckAt(i, s)' <=> AckAt(i, s)
      /\ \A s : \A i \in DOMAIN toClient : Granted(i, s)' <=> Granted(i, s)
      /\ \A s, d : \A i \in DOMAIN toClient : NoteFor(i, s, d)' <=> NoteFor(i, s, d)
      /\ NodeUp' <=> NodeUp
  BY Zenon DEF AckAt, Granted, NoteFor, NoteAt, NodeUp
<1>5. \A s, d : Belongs(s, d)' <=> Belongs(s, d)
  BY Zenon, <1>4 DEF Belongs
<1>6. AckFresh' /\ AckOnce' /\ SubsUsed' /\ NoteOwner' /\ NodeOwner'
  BY Zenon, <1>4, <1>5 DEF Flow, AckFresh, AckOnce, SubsUsed, NoteOwner, NodeOwner
<1>7. NoteReady' /\ NodeReady'
  BY Zenon, <1>3, <1>4 DEF Flow, NoteReady, NodeReady
<1>8. \A d : \A i \in DOMAIN toServer' : AskedBy(i, d)' =>
        \/ i \in DOMAIN toServer /\ toServer'[i] = toServer[i] /\ AskedBy(i, d)
        \/ d = c /\ toServer'[i].id = callId[c]
  BY Zenon, <1>1 DEF AskedBy
<1>9. AskPending'
  <2> SUFFICES ASSUME NEW d \in Calls, NEW i \in DOMAIN toServer', AskedBy(i, d)'
               PROVE  /\ toServer'[i].id \in DOMAIN pending' => pending'[toServer'[i].id] = d
                      /\ Live(d)' => toServer'[i].id \in DOMAIN pending'
    BY Zenon DEF AskPending
  <2>1. CASE i \in DOMAIN toServer /\ toServer'[i] = toServer[i] /\ AskedBy(i, d)
    BY ZenonT(60), <1>3, <2>1 DEF Flow, AskPending
  <2>2. CASE d = c /\ toServer'[i].id = callId[c]
    <3>1. callId[c] # 0
      BY Zenon DEF IdInv, IdsUnsent
    <3>2. callId[c] \in DOMAIN pending => pending[callId[c]] = c
      <4>1. \A k \in DOMAIN pending : pending[k] \in Calls /\ callId[pending[k]] = k
        BY Zenon DEF PendingInv, TypeOK, ClientTypeOK
      <4> QED BY Zenon, <3>1, <4>1 DEF IdInv, IdsOfCalls
    <3>3. Live(c) => callId[c] \in DOMAIN pending
      BY Zenon DEF Flow, WritePending
    <3> QED BY Zenon, <1>3, <2>2, <3>2, <3>3
  <2> QED BY Zenon, <1>8, <2>1, <2>2
<1>10. WritePending'
  <2>1. \A d \in Calls : pc'[d] \in {"lock", "write"} => pc'[d] = pc[d]
    BY Zenon, <1>2
  <2> QED BY Zenon, <1>3, <2>1 DEF Flow, WritePending
<1>11. Unseen'
  BY Zenon, <1>3, <1>4, <1>8 DEF Flow, Unseen
<1> QED BY Zenon, <1>6, <1>7, <1>9, <1>10, <1>11 DEF Flow

\* The read loop takes a reply; one that grants an id to a call that waits for
\* it is the only one in flight, and registers the call.
LEMMA FlowReplied ==
  ASSUME TypeOK, Flow, IdInv, toClient # <<>>, toClient' = Tail(toClient), Replied(1),
         TakePending(Head(toClient)),
         UNCHANGED <<pc, callId, err, kind, chClosed, uses, serverSubs, toServer, peer, conn>>
  PROVE  Flow'
<1> DEFINE k == toClient[1].id
<1>1. /\ 1 \in DOMAIN toClient
      /\ \A i \in DOMAIN toClient' :
           i \in Nat /\ i + 1 \in DOMAIN toClient /\ i + 1 # 1 /\ toClient'[i] = toClient[i + 1]
      /\ \A i \in DOMAIN toClient : i = 1 \/ \E j \in DOMAIN toClient' : i = j + 1 /\ j \in Nat
      /\ Head(toClient) = toClient[1]
  <2>1. toClient \in Seq(Frame)
    BY Zenon DEF TypeOK, NodeTypeOK
  <2>2. \A i \in DOMAIN toClient : i = 1 \/ i - 1 \in DOMAIN toClient'
    BY <2>1
  <2>3. DOMAIN toClient \subseteq Nat /\ DOMAIN toClient' \subseteq Nat
    BY <2>1
  <2>4. \A i \in DOMAIN toClient : i = 1 \/ \E j \in DOMAIN toClient' : i = j + 1 /\ j \in Nat
    BY <2>2, <2>3
  <2> QED BY <2>1, <2>4
<1>2. /\ \A i \in DOMAIN pending : i # k => i \in DOMAIN pending'
      /\ \A i \in DOMAIN pending' : i # k /\ i \in DOMAIN pending /\ pending'[i] = pending[i]
  BY Zenon, <1>1 DEF TakePending, Without
<1>3. /\ \A c \in Calls : Live(c)' <=> Live(c)
      /\ \A c \in Calls : Young(c)' <=> Young(c)
      /\ NodeUp' <=> NodeUp
      /\ \A i \in DOMAIN toServer : \A c : AskedBy(i, c)' <=> AskedBy(i, c)
  BY Zenon DEF Live, Young, NodeUp, AskedBy
<1>4. subs \in [SubIds -> Calls \cup {None}]
  BY Zenon DEF TypeOK, ClientTypeOK
<1>5. /\ \A s \in SubIds : subs'[s] = subs[s] \/ (Granted(1, s) /\ subs'[s] = pending[k])
      /\ \A s \in SubIds : Granted(1, s) /\ kind[pending[k]] = "sub" => subs'[s] = pending[k]
  BY Zenon, <1>1, <1>4 DEF TakePending, Granted, AckAt
<1>6. \A s \in SubIds : AckAt(1, s) => uses[s] # 0 /\ subs[s] = None
  BY Zenon, <1>1 DEF Flow, AckFresh
<1>7. \A s \in SubIds, c \in Calls : subs[s] = c => subs'[s] = c
  BY Zenon, <1>5, <1>6, ConstantsAssumption DEF Granted
<1>8. /\ \A i \in DOMAIN toClient' : \A s, c : NoteFor(i, s, c)' => NoteFor(i + 1, s, c)
      /\ \A i \in DOMAIN toClient' : \A s : AckAt(i, s)' <=> AckAt(i + 1, s)
  BY Zenon, <1>1 DEF NoteFor, NoteAt, AckAt
<1>9. \A i \in DOMAIN toClient' : \A s : Granted(i, s)' =>
        Granted(i + 1, s) /\ pending'[toClient'[i].id] = pending[toClient[i + 1].id]
  BY Zenon, <1>1, <1>2, <1>8 DEF Granted
<1>10. \A i \in DOMAIN toClient' : \A s : Granted(i + 1, s) => Granted(i, s)'
  <2>1. \A i \in DOMAIN toClient' : \A s : AckAt(i + 1, s) => toClient[i + 1].id # k
    BY Zenon, <1>1 DEF IdInv, RepliedOnce, Replied, AckAt
  <2> QED BY Zenon, <1>1, <1>2, <1>8, <2>1 DEF Granted
<1>11. \A s \in SubIds : AckAt(1, s) => \A i \in DOMAIN toClient' : ~AckAt(i, s)'
  BY Zenon, <1>1, <1>8 DEF Flow, AckOnce
<1>12. \A s \in SubIds : subs'[s] = subs[s] \/ \A i \in DOMAIN toClient' : ~AckAt(i, s)'
  BY Zenon, <1>5, <1>11 DEF Granted
<1>13. AckFresh'
  BY Zenon, <1>1, <1>8, <1>12 DEF Flow, AckFresh
<1>14. AckOnce'
  <2>1. ASSUME NEW s \in SubIds, NEW i \in DOMAIN toClient', NEW j \in DOMAIN toClient',
               AckAt(i, s)', AckAt(j, s)'
        PROVE  i = j
    <3>1. i + 1 = j + 1
      BY Zenon, <1>1, <1>8, <2>1 DEF Flow, AckOnce
    <3>2. i \in Nat /\ j \in Nat
      BY Zenon, <1>1
    <3> QED BY <3>1, <3>2
  <2> QED BY Zenon, <2>1 DEF AckOnce
<1>15. SubsUsed'
  BY Zenon, <1>5, <1>6 DEF Flow, SubsUsed, Granted
<1>16. \A s \in SubIds, c \in Calls : Belongs(s, c) => Belongs(s, c)'
  <2> SUFFICES ASSUME NEW s \in SubIds, NEW c \in Calls, Belongs(s, c)
               PROVE  Belongs(s, c)'
    OBVIOUS
  <2>1. uses'[s] # 0
    BY Zenon DEF Belongs
  <2>2. subs'[s] # None => subs'[s] = c
    BY Zenon, <1>1, <1>5 DEF Belongs
  <2>3. \A i \in DOMAIN toClient' : Granted(i, s)' => pending'[toClient'[i].id] = c
    BY Zenon, <1>1, <1>9 DEF Belongs
  <2> QED BY Zenon, <2>1, <2>2, <2>3 DEF Belongs
<1>17. NoteOwner'
  BY Zenon, <1>1, <1>8, <1>16 DEF Flow, NoteOwner
<1>18. NodeOwner'
  BY Zenon, <1>16 DEF Flow, NodeOwner
<1>19. ASSUME NEW s \in SubIds, NEW c \in Calls, Live(c), Belongs(s, c), Granted(1, s)
       PROVE  subs'[s] = c
  <2>1. pending[k] = c
    BY Zenon, <1>1, <1>19 DEF Belongs
  <2> QED BY Zenon, <1>5, <1>19, <2>1 DEF Live
<1>20. NoteReady'
  <2> SUFFICES ASSUME NEW s \in SubIds, NEW c \in Calls, NEW j \in DOMAIN toClient',
                      NoteFor(j, s, c)', Live(c)'
               PROVE  subs'[s] = c \/ \E i \in DOMAIN toClient' : i < j /\ Granted(i, s)'
    BY Zenon DEF NoteReady
  <2>1. j \in Nat /\ j + 1 \in DOMAIN toClient /\ NoteFor(j + 1, s, c)
    BY Zenon, <1>1, <1>8
  <2>2. Live(c) /\ Belongs(s, c)
    BY Zenon, <1>3, <2>1 DEF Flow, NoteOwner
  <2>3. subs[s] = c \/ \E i \in DOMAIN toClient : i < j + 1 /\ Granted(i, s)
    BY Zenon, <2>1, <2>2 DEF Flow, NoteReady
  <2>4. CASE subs[s] = c
    BY Zenon, <1>7, <2>4
  <2>5. ASSUME NEW m \in DOMAIN toClient, m < j + 1, Granted(m, s)
        PROVE  subs'[s] = c \/ \E i \in DOMAIN toClient' : i < j /\ Granted(i, s)'
    <3>1. CASE m = 1
      BY Zenon, <1>19, <2>2, <2>5, <3>1
    <3>2. ASSUME NEW i \in DOMAIN toClient', m = i + 1, i \in Nat
          PROVE  i < j /\ Granted(i, s)'
      <4>1. i < j
        BY <2>1, <2>5, <3>2
      <4> QED BY Zenon, <1>10, <2>5, <3>2, <4>1
    <3> QED BY Zenon, <1>1, <3>1, <3>2
  <2> QED BY Zenon, <2>3, <2>4, <2>5
<1>21. NodeReady'
  <2> SUFFICES ASSUME NEW s \in SubIds, NEW c \in Calls, serverSubs[s] = c, Live(c), NodeUp
               PROVE  subs'[s] = c \/ \E i \in DOMAIN toClient' : Granted(i, s)'
    BY Zenon, <1>3 DEF NodeReady
  <2>1. Belongs(s, c)
    BY Zenon DEF Flow, NodeOwner
  <2>2. subs[s] = c \/ \E i \in DOMAIN toClient : Granted(i, s)
    BY Zenon DEF Flow, NodeReady
  <2>3. CASE subs[s] = c
    BY Zenon, <1>7, <2>3
  <2>4. ASSUME NEW m \in DOMAIN toClient, Granted(m, s)
        PROVE  subs'[s] = c \/ \E i \in DOMAIN toClient' : Granted(i, s)'
    <3>1. CASE m = 1
      BY Zenon, <1>19, <2>1, <2>4, <3>1
    <3>2. ASSUME NEW i \in DOMAIN toClient', m = i + 1
          PROVE  Granted(i, s)'
      BY Zenon, <1>10, <2>4, <3>2
    <3> QED BY Zenon, <1>1, <3>1, <3>2
  <2> QED BY Zenon, <2>2, <2>3, <2>4
<1>22. AskPending'
  <2>1. \A i \in DOMAIN toServer : \A c : AskedBy(i, c) => toServer[i].id # k
    BY Zenon, <1>1 DEF IdInv, AskedOrReplied, AskedBy, Asked
  <2> QED BY Zenon, <1>2, <1>3, <2>1 DEF Flow, AskPending
<1>23. WritePending'
  <2>1. \A c \in Calls : pc[c] \in {"lock", "write"} => callId[c] # k
    BY Zenon, <1>1 DEF IdInv, IdsUnsent
  <2> QED BY Zenon, <1>2, <1>3, <2>1 DEF Flow, WritePending
<1>24. Unseen'
  BY Zenon, <1>1, <1>3, <1>8 DEF Flow, Unseen
<1> QED
  BY Zenon, <1>13, <1>14, <1>15, <1>17, <1>18, <1>20, <1>21, <1>22, <1>23, <1>24 DEF Flow

\* The node grants an id it has not used to the call whose request it reads.
LEMMA FlowGranted ==
  ASSUME TypeOK, Flow, NEW s \in SubIds, uses[s] = 0, toServer # <<>>,
         NEW c \in Calls, AskedBy(1, c), toServer' = Tail(toServer),
         NEW r, r.type = "ack", r.sub = s, r.id = toServer[1].id, toClient' = Append(toClient, r),
         serverSubs' = [serverSubs EXCEPT ![s] = c], uses' = [uses EXCEPT ![s] = @ + 1],
         UNCHANGED <<pending, subs, pc, callId, err, kind, chClosed, peer, conn>>
  PROVE  Flow'
<1>1. PICK n :
      /\ DOMAIN toClient \subseteq DOMAIN toClient' /\ n \in DOMAIN toClient'
      /\ n \notin DOMAIN toClient
      /\ \A i \in DOMAIN toClient' : i \in DOMAIN toClient \/ i = n
      /\ \A i \in DOMAIN toClient : toClient'[i] = toClient[i]
      /\ toClient'[n] = r
  <2>1. toClient \in Seq(Frame)
    BY Zenon DEF TypeOK, NodeTypeOK
  <2> WITNESS Len(toClient) + 1
  <2> QED BY <2>1
<1>2. /\ 1 \in DOMAIN toServer
      /\ \A i \in DOMAIN toServer' : i + 1 \in DOMAIN toServer /\ toServer'[i] = toServer[i + 1]
  <2>1. toServer \in Seq(Request)
    BY Zenon DEF TypeOK, NodeTypeOK
  <2> QED BY <2>1
<1>3. /\ \A d \in Calls : Live(d)' <=> Live(d)
      /\ \A d \in Calls : Young(d)' <=> Young(d)
      /\ NodeUp' <=> NodeUp
      /\ \A i \in DOMAIN toServer' : \A d : AskedBy(i, d)' => AskedBy(i + 1, d)
  BY Zenon, <1>2 DEF Live, Young, NodeUp, AskedBy
<1>4. /\ uses'[s] # 0 /\ \A t \in SubIds : uses[t] # 0 => uses'[t] # 0 /\ t # s
      /\ serverSubs'[s] = c /\ \A t \in SubIds : t # s => serverSubs'[t] = serverSubs[t]
  BY DEF TypeOK, NodeTypeOK
<1>5. /\ \A t : \A i \in DOMAIN toClient : AckAt(i, t)' <=> AckAt(i, t)
      /\ \A t : \A i \in DOMAIN toClient' :
           AckAt(i, t)' => (i \in DOMAIN toClient /\ AckAt(i, t)) \/ (i = n /\ t = s)
      /\ AckAt(n, s)'
      /\ \A t, d : \A i \in DOMAIN toClient' :
           NoteFor(i, t, d)' => i \in DOMAIN toClient /\ NoteFor(i, t, d)
  <2>1. /\ \A t : \A i \in DOMAIN toClient : AckAt(i, t)' <=> AckAt(i, t)
        /\ \A t : AckAt(n, t)' <=> t = s
    BY Zenon, <1>1 DEF AckAt
  <2>2. \A t, d : \A i \in DOMAIN toClient : NoteFor(i, t, d)' <=> NoteFor(i, t, d)
    BY Zenon, <1>1 DEF NoteFor, NoteAt
  <2>3. \A t, d : ~NoteFor(n, t, d)'
    BY Zenon, <1>1 DEF NoteFor, NoteAt
  <2> QED BY Zenon, <1>1, <2>1, <2>2, <2>3
<1>6. \A t : \A i \in DOMAIN toClient : Granted(i, t)' <=> Granted(i, t)
  BY Zenon, <1>1, <1>5 DEF Granted
<1>7. /\ \A i \in DOMAIN toClient : ~AckAt(i, s)
      /\ subs[s] = None
      /\ \A d \in Calls : ~Belongs(s, d)
  BY Zenon DEF Flow, AckFresh, SubsUsed, Belongs
<1>8. AckFresh'
  <2> SUFFICES ASSUME NEW t \in SubIds, NEW i \in DOMAIN toClient', AckAt(i, t)'
               PROVE  uses'[t] # 0 /\ subs[t] = None
    BY Zenon DEF AckFresh
  <2>1. CASE i \in DOMAIN toClient /\ AckAt(i, t)
    BY Zenon, <1>4, <2>1 DEF Flow, AckFresh
  <2>2. CASE t = s
    BY Zenon, <1>4, <1>7, <2>2
  <2> QED BY Zenon, <1>5, <2>1, <2>2
<1>9. AckOnce'
  <2> SUFFICES ASSUME NEW t \in SubIds, NEW i \in DOMAIN toClient', NEW j \in DOMAIN toClient',
                      AckAt(i, t)', AckAt(j, t)'
               PROVE  i = j
    BY Zenon DEF AckOnce
  <2>1. CASE t = s
    <3>1. i = n /\ j = n
      BY Zenon, <1>5, <1>7, <2>1
    <3> QED BY Zenon, <3>1
  <2>2. CASE t # s
    <3>1. i \in DOMAIN toClient /\ j \in DOMAIN toClient /\ AckAt(i, t) /\ AckAt(j, t)
      BY Zenon, <1>5, <2>2
    <3> QED BY Zenon, <3>1 DEF Flow, AckOnce
  <2> QED BY Zenon, <2>1, <2>2
<1>10. SubsUsed'
  BY Zenon, <1>4 DEF Flow, SubsUsed
<1>11. ASSUME NEW t \in SubIds, NEW d \in Calls, Belongs(t, d)
       PROVE  Belongs(t, d)'
  <2>1. t # s /\ uses'[t] # 0
    BY Zenon, <1>4, <1>7, <1>11 DEF Belongs
  <2>2. \A i \in DOMAIN toClient' : Granted(i, t)' => i \in DOMAIN toClient /\ Granted(i, t)
    BY Zenon, <1>5, <1>6, <2>1 DEF Granted
  <2>3. \A i \in DOMAIN toClient' : Granted(i, t)' => pending'[toClient'[i].id] = d
    BY ZenonT(60), <1>1, <1>11, <2>2 DEF Belongs
  <2> QED BY Zenon, <1>11, <2>1, <2>3 DEF Belongs
<1>12. /\ r.id \in DOMAIN pending => pending[r.id] = c
       /\ Live(c) => r.id \in DOMAIN pending
  BY ZenonT(60), <1>2 DEF Flow, AskPending
<1>13. Belongs(s, c)'
  <2>1. \A i \in DOMAIN toClient' : Granted(i, s)' => i = n
    BY Zenon, <1>5, <1>7 DEF Granted
  <2>2. \A i \in DOMAIN toClient' : Granted(i, s)' => pending'[toClient'[i].id] = c
    BY Zenon, <1>1, <1>12, <2>1 DEF Granted
  <2> QED BY Zenon, <1>4, <1>7, <2>2 DEF Belongs
<1>14. NoteOwner'
  BY Zenon, <1>5, <1>11 DEF Flow, NoteOwner
<1>15. NodeOwner'
  <2> SUFFICES ASSUME NEW t \in SubIds, NEW d \in Calls, serverSubs'[t] = d
               PROVE  Belongs(t, d)'
    BY Zenon DEF NodeOwner
  <2>1. CASE t = s
    BY Zenon, <1>4, <1>13, <2>1
  <2>2. CASE t # s
    BY Zenon, <1>4, <1>11, <2>2 DEF Flow, NodeOwner
  <2> QED BY Zenon, <2>1, <2>2
<1>16. NoteReady'
  <2> SUFFICES ASSUME NEW t \in SubIds, NEW d \in Calls, NEW j \in DOMAIN toClient',
                      NoteFor(j, t, d)', Live(d)'
               PROVE  subs[t] = d \/ \E i \in DOMAIN toClient' : i < j /\ Granted(i, t)'
    BY Zenon DEF NoteReady
  <2>1. subs[t] = d \/ \E i \in DOMAIN toClient : i < j /\ Granted(i, t)
    BY Zenon, <1>3, <1>5 DEF Flow, NoteReady
  <2> QED BY Zenon, <1>1, <1>6, <2>1
<1>17. NodeReady'
  <2> SUFFICES ASSUME NEW t \in SubIds, NEW d \in Calls, serverSubs'[t] = d, Live(d), NodeUp
               PROVE  subs[t] = d \/ \E i \in DOMAIN toClient' : Granted(i, t)'
    BY Zenon, <1>3 DEF NodeReady
  <2>1. CASE t = s
    <3>1. d = c /\ r.id \in DOMAIN pending
      BY Zenon, <1>4, <1>12, <2>1
    <3>2. Granted(n, s)'
      BY Zenon, <1>1, <1>5, <3>1 DEF Granted
    <3> QED BY Zenon, <1>1, <2>1, <3>2
  <2>2. CASE t # s
    <3>1. subs[t] = d \/ \E i \in DOMAIN toClient : Granted(i, t)
      BY Zenon, <1>4, <2>2 DEF Flow, NodeReady
    <3> QED BY Zenon, <1>1, <1>6, <3>1
  <2> QED BY Zenon, <2>1, <2>2
<1>18. AskPending'
  <2> SUFFICES ASSUME NEW d \in Calls, NEW i \in DOMAIN toServer', AskedBy(i, d)'
               PROVE  /\ toServer'[i].id \in DOMAIN pending => pending[toServer'[i].id] = d
                      /\ Live(d)' => toServer'[i].id \in DOMAIN pending
    BY Zenon DEF AskPending
  <2>1. /\ i + 1 \in DOMAIN toServer /\ AskedBy(i + 1, d)
        /\ toServer'[i] = toServer[i + 1]
    BY Zenon, <1>2, <1>3
  <2>2. /\ toServer[i + 1].id \in DOMAIN pending => pending[toServer[i + 1].id] = d
        /\ Live(d) => toServer[i + 1].id \in DOMAIN pending
    BY Zenon, <2>1 DEF Flow, AskPending
  <2> QED BY Zenon, <1>3, <2>1, <2>2
<1>19. WritePending'
  BY Zenon, <1>3 DEF Flow, WritePending
<1>20. Unseen'
  <2>1. ~Young(c)
    BY Zenon, <1>2 DEF Flow, Unseen
  <2>2. \A t \in SubIds, d \in Calls : Young(d) => serverSubs'[t] # d
    <3>1. \A t \in SubIds, d \in Calls : Young(d) => serverSubs[t] # d /\ d # c
      BY Zenon, <2>1 DEF Flow, Unseen
    <3>2. \A t \in SubIds : serverSubs'[t] = serverSubs[t] \/ serverSubs'[t] = c
      BY Zenon, <1>4
    <3> QED BY Zenon, <3>1, <3>2
  <2>3. \A d \in Calls : Young(d) =>
          \A t \in SubIds : \A j \in DOMAIN toClient' : ~NoteFor(j, t, d)'
    BY Zenon, <1>5 DEF Flow, Unseen
  <2>4. \A d \in Calls : Young(d) => \A i \in DOMAIN toServer' : ~AskedBy(i, d)'
    BY Zenon, <1>2, <1>3 DEF Flow, Unseen
  <2> QED BY Zenon, <1>3, <2>2, <2>3, <2>4 DEF Unseen
<1> QED
  BY Zenon, <1>8, <1>9, <1>10, <1>14, <1>15, <1>16, <1>17, <1>18, <1>19, <1>20
     DEF Flow

\* The node sends a notification to the subscription that has the id.
LEMMA FlowNotified ==
  ASSUME TypeOK, Flow, NEW s \in SubIds, serverSubs[s] # None, NodeUp,
         NEW r, r.type = "note", r.sub = s, r.owner = serverSubs[s],
         toClient' = Append(toClient, r),
         \A t \in SubIds : serverSubs'[t] \in {serverSubs[t], None},
         UNCHANGED <<pending, subs, pc, callId, err, kind, chClosed, uses, toServer, peer, conn>>
  PROVE  Flow'
<1>1. PICK n :
      /\ DOMAIN toClient \subseteq DOMAIN toClient' /\ n \in DOMAIN toClient'
      /\ \A i \in DOMAIN toClient' : i \in DOMAIN toClient \/ i = n
      /\ \A i \in DOMAIN toClient : toClient'[i] = toClient[i] /\ i < n
      /\ toClient'[n] = r
  <2>1. toClient \in Seq(Frame)
    BY Zenon DEF TypeOK, NodeTypeOK
  <2> WITNESS Len(toClient) + 1
  <2> QED BY <2>1
<1>2. /\ \A d \in Calls : Live(d)' <=> Live(d)
      /\ \A d \in Calls : Young(d)' <=> Young(d)
      /\ NodeUp' <=> NodeUp
      /\ \A i \in DOMAIN toServer : \A d : AskedBy(i, d)' <=> AskedBy(i, d)
  BY Zenon DEF Live, Young, NodeUp, AskedBy
<1>3. \A t \in SubIds, d \in Calls : serverSubs'[t] = d => serverSubs[t] = d
  BY Zenon, ConstantsAssumption
<1>4. \A t : \A i \in DOMAIN toClient' : AckAt(i, t)' => i \in DOMAIN toClient /\ AckAt(i, t)
  BY Zenon, <1>1 DEF AckAt
<1>5. /\ \A t : \A i \in DOMAIN toClient : Granted(i, t) => Granted(i, t)'
      /\ \A t : \A i \in DOMAIN toClient' : Granted(i, t)' =>
           /\ i \in DOMAIN toClient /\ Granted(i, t)
           /\ pending'[toClient'[i].id] = pending[toClient[i].id]
  <2>1. \A t : \A i \in DOMAIN toClient : AckAt(i, t) => AckAt(i, t)'
    BY Zenon, <1>1 DEF AckAt
  <2> QED BY Zenon, <1>1, <1>4, <2>1 DEF Granted
<1>6. \A t \in SubIds, d \in Calls : Belongs(t, d) => Belongs(t, d)'
  BY ZenonT(60), <1>5 DEF Belongs
<1>7. \A t, d : \A i \in DOMAIN toClient' : NoteFor(i, t, d)' =>
        \/ i \in DOMAIN toClient /\ NoteFor(i, t, d)
        \/ i = n /\ t = s /\ serverSubs[t] = d
  <2>1. \A t, d : \A i \in DOMAIN toClient : NoteFor(i, t, d)' => NoteFor(i, t, d)
    BY Zenon, <1>1 DEF NoteFor, NoteAt
  <2> SUFFICES ASSUME NEW t, NEW d, NEW i \in DOMAIN toClient', NoteFor(i, t, d)'
               PROVE  \/ i \in DOMAIN toClient /\ NoteFor(i, t, d)
                      \/ i = n /\ t = s /\ serverSubs[t] = d
    BY Zenon
  <2>3. CASE i \in DOMAIN toClient
    BY Zenon, <2>1, <2>3
  <2>4. i = n => toClient'[i] = r
    BY Zenon, <1>1
  <2>5. toClient'[i] = r => t = s /\ serverSubs[t] = d
    BY Zenon DEF NoteFor, NoteAt
  <2> QED BY Zenon, <1>1, <2>3, <2>4, <2>5
<1>8. AckFresh' /\ AckOnce' /\ SubsUsed'
  BY Zenon, <1>4 DEF Flow, AckFresh, AckOnce, SubsUsed
<1>9. NoteOwner' /\ NodeOwner'
  BY ZenonT(60), <1>3, <1>6, <1>7 DEF Flow, NoteOwner, NodeOwner
<1>10. NoteReady'
  <2> SUFFICES ASSUME NEW t \in SubIds, NEW d \in Calls, NEW j \in DOMAIN toClient',
                      NoteFor(j, t, d)', Live(d)
               PROVE  subs[t] = d \/ \E i \in DOMAIN toClient' : i < j /\ Granted(i, t)'
    BY Zenon, <1>2 DEF NoteReady
  <2>1. CASE j \in DOMAIN toClient /\ NoteFor(j, t, d)
    <3>1. subs[t] = d \/ \E i \in DOMAIN toClient : i < j /\ Granted(i, t)
      BY Zenon, <2>1 DEF Flow, NoteReady
    <3> QED BY Zenon, <1>1, <1>5, <3>1
  <2>2. CASE j = n /\ t = s /\ serverSubs[t] = d
    <3>1. subs[t] = d \/ \E i \in DOMAIN toClient : Granted(i, t)
      BY Zenon, <2>2 DEF Flow, NodeReady
    <3> QED BY Zenon, <1>1, <1>5, <2>2, <3>1
  <2> QED BY Zenon, <1>7, <2>1, <2>2
<1>11. NodeReady'
  <2> SUFFICES ASSUME NEW t \in SubIds, NEW d \in Calls, serverSubs'[t] = d, Live(d), NodeUp
               PROVE  subs[t] = d \/ \E i \in DOMAIN toClient' : Granted(i, t)'
    BY Zenon, <1>2 DEF NodeReady
  <2>1. subs[t] = d \/ \E i \in DOMAIN toClient : Granted(i, t)
    BY Zenon, <1>3 DEF Flow, NodeReady
  <2> QED BY Zenon, <1>1, <1>5, <2>1
<1>12. AskPending' /\ WritePending'
  BY Zenon, <1>2 DEF Flow, AskPending, WritePending
<1>13. Unseen'
  BY ZenonT(60), <1>2, <1>3, <1>7 DEF Flow, Unseen
<1> QED BY Zenon, <1>8, <1>9, <1>10, <1>11, <1>12, <1>13 DEF Flow

\* A step of the client that leaves what is in flight alone.
LEMMA WireKept ==
  ASSUME TypeOK, UNCHANGED toClient
  PROVE  CalmWire(0)
<1>1. \A i \in DOMAIN toClient : i \in Nat /\ i + 0 = i
  BY DEF TypeOK, NodeTypeOK
<1> QED BY Zenon, <1>1 DEF CalmWire

\* The read loop reads a frame that is no acknowledgement.
LEMMA WireRead ==
  ASSUME TypeOK, toClient # <<>>, toClient' = Tail(toClient), Head(toClient).type # "ack"
  PROVE  CalmWire(1)
<1>1. toClient \in Seq(Frame)
  BY Zenon DEF TypeOK, NodeTypeOK
<1>2. /\ \A i \in DOMAIN toClient' :
           i \in Nat /\ i + 1 \in DOMAIN toClient /\ toClient'[i] = toClient[i + 1]
      /\ Head(toClient) = toClient[1]
  BY <1>1
<1>3. \A k \in DOMAIN toClient : k # 1 => k - 1 \in DOMAIN toClient' /\ (k - 1) + 1 = k
  BY <1>1
<1>4. \A k \in DOMAIN toClient : toClient[k].type = "ack" =>
        \E i \in DOMAIN toClient' : i + 1 = k /\ i \in Nat /\ toClient'[i] = toClient[k]
  BY Zenon, <1>2, <1>3
<1> QED BY Zenon, <1>2, <1>4 DEF CalmWire

\* A frame is sent that is neither an acknowledgement nor a notification.
LEMMA WireSent ==
  ASSUME TypeOK, NEW r, r.type \notin {"ack", "note"}, toClient' = Append(toClient, r)
  PROVE  CalmWire(0)
<1>1. toClient \in Seq(Frame)
  BY Zenon DEF TypeOK, NodeTypeOK
<1>2. \A i \in DOMAIN toClient' : toClient'[i] = r \/ (i \in DOMAIN toClient /\ toClient'[i] = toClient[i])
  BY <1>1
<1>3. /\ \A i \in DOMAIN toClient : i \in DOMAIN toClient' /\ toClient'[i] = toClient[i]
      /\ \A i \in DOMAIN toClient : i \in Nat /\ i + 0 = i
  BY <1>1
<1> QED BY Zenon, <1>2, <1>3 DEF CalmWire

\* The frames in flight are lost with the connection.
LEMMA WireLost ==
  ASSUME toClient' = <<>>, ~NodeUp'
  PROVE  CalmWire(0)
<1>1. DOMAIN toClient' = {}
  OBVIOUS
<1> QED BY Zenon, <1>1 DEF CalmWire

\* The node's tables stay, and what it has to read loses its head or gains a
\* frame that asks for nothing.
LEMMA NodeCalm ==
  ASSUME TypeOK, UNCHANGED <<uses, serverSubs>>, NodeUp' => NodeUp,
         \/ toServer' = toServer
         \/ toServer # <<>> /\ toServer' = Tail(toServer)
         \/ \E r : r.type # "sub" /\ toServer' = Append(toServer, r)
  PROVE  CalmNode
<1>1. toServer \in Seq(Request)
  BY Zenon DEF TypeOK, NodeTypeOK
<1>2. CASE toServer' = toServer
  BY Zenon, <1>2 DEF CalmNode
<1>3. CASE toServer # <<>> /\ toServer' = Tail(toServer)
  <2>1. \A i \in DOMAIN toServer' : i + 1 \in DOMAIN toServer /\ toServer'[i] = toServer[i + 1]
    BY <1>1, <1>3
  <2> QED BY Zenon, <2>1 DEF CalmNode
<1>4. ASSUME NEW r, r.type # "sub", toServer' = Append(toServer, r)
      PROVE  CalmNode
  <2>1. \A i \in DOMAIN toServer' : toServer'[i] = r \/ (i \in DOMAIN toServer /\ toServer'[i] = toServer[i])
    BY <1>1, <1>4
  <2> QED BY Zenon, <1>4, <2>1 DEF CalmNode
<1> QED BY Zenon, <1>2, <1>3, <1>4

\* A call goes on without becoming live or young.
LEMMA CallsCalm ==
  ASSUME TypeOK, NEW c \in Calls, NEW l, GoTo(c, l), UNCHANGED <<kind, callId, err, chClosed>>,
         \/ l \notin {"register", "lock", "write", "await", "open"}
         \/ pc[c] \notin {"register", "cancel", "writeErr", "released", "returned"}
            /\ l \in {"await", "open"}
         \/ pc[c] = "lock" /\ l = "write"
  PROVE  CalmCalls
<1>1. pc = [d \in Calls |-> pc[d]] /\ pc[c] \in {"register", "lock", "write", "writeErr", "await",
         "cancel", "open", "released", "returned"}
  BY Zenon DEF TypeOK, CallTypeOK
<1>2. pc'[c] = l /\ \A d \in Calls : d # c => pc'[d] = pc[d]
  BY Zenon, <1>1 DEF GoTo
<1>3. \A d \in Calls : d # c =>
        /\ Live(d)' => Live(d)
        /\ Live(d)' /\ pc'[d] \in {"lock", "write"} =>
             pc[d] \in {"lock", "write"} /\ callId'[d] = callId[d]
        /\ Young(d)' => Young(d)
  BY Zenon, <1>2 DEF Live, Young
<1>4. /\ l \in {"lock", "write", "await", "open"} => pc[c] \in {"lock", "write", "await", "open"}
      /\ l \in {"lock", "write"} => pc[c] \in {"lock", "write"}
      /\ l # "register"
  BY Zenon, <1>1
<1>5. /\ Live(c)' => Live(c)
      /\ Live(c)' /\ pc'[c] \in {"lock", "write"} =>
           pc[c] \in {"lock", "write"} /\ callId'[c] = callId[c]
      /\ Young(c)' => Young(c)
  BY Zenon, <1>2, <1>4 DEF Live, Young
<1> QED BY Zenon, <1>3, <1>5 DEF CalmCalls

\* While the node uses an id once, a step keeps who owns what.
LEMMA FlowNext ==
  ASSUME IInv, IdInv, Flow, [Next]_vars, IdsUsedOnce'
  PROVE  Flow'
<1> USE DEF clientVars, callVars, entryVars, netVars, serverVars
<1>t. TypeOK /\ PendingInv /\ EntryInv /\ HandleInv
  BY Zenon DEF IInv, Safe
<1>q. UNCHANGED <<pending, subs, pc, kind, callId, err, chClosed>> => CalmTables /\ CalmCalls
  BY Zenon DEF CalmTables, CalmCalls, Live, Young
<1>p. UNCHANGED <<pending, subs>> => CalmTables
  BY Zenon DEF CalmTables
<1>n. UNCHANGED <<uses, serverSubs, toServer, peer, conn>> => CalmNode
  BY Zenon DEF CalmNode, NodeUp
<1>k. /\ CalmTables /\ CalmCalls /\ CalmNode /\ UNCHANGED toClient => Flow'
      /\ CalmTables /\ CalmCalls /\ CalmNode /\ CalmWire(0) => Flow'
      /\ CalmTables /\ CalmCalls /\ CalmNode /\ CalmWire(1) => Flow'
  BY Zenon, <1>t, WireKept, FlowKept
<1>w. /\ [type |-> "pong"].type # "sub" /\ [type |-> "close"].type # "sub"
      /\ \A l : l \notin {"ack", "note"} => [type |-> l].type \notin {"ack", "note"}
      /\ \A l, i : l \notin {"ack", "note"} => [type |-> l, id |-> i].type \notin {"ack", "note"}
      /\ \A i, s : /\ [type |-> "ack", id |-> i, sub |-> s].type = "ack"
                   /\ [type |-> "ack", id |-> i, sub |-> s].id = i
                   /\ [type |-> "ack", id |-> i, sub |-> s].sub = s
  BY Zenon
<1>1. ASSUME NEW c \in Calls, Register(c)
      PROVE  Flow'
  <2>1. CASE err # None
    <3>1. /\ pc[c] = "register" /\ GoTo(c, "returned")
          /\ UNCHANGED <<pending, subs, kind, callId, err, chClosed, uses, serverSubs,
                         toServer, peer, conn, toClient>>
      BY Zenon, <1>1, <2>1 DEF Register
    <3>2. CalmCalls
      BY Zenon, <1>t, <3>1, CallsCalm
    <3> QED BY Zenon, <1>k, <1>n, <1>p, <3>1, <3>2
  <2>2. CASE err = None
    BY Zenon, <1>1, <1>t, <2>2, FlowRegistered DEF Register, NextReqID
  <2> QED BY Zenon, <2>1, <2>2
<1>2. ASSUME NEW c \in Calls, LockWrite(c) \/ AwaitReply(c) \/ AwaitFailure(c) \/ AwaitCancel(c)
      PROVE  Flow'
  <2>1. /\ UNCHANGED <<pending, subs, kind, callId, err, chClosed, uses, serverSubs, toServer,
                       peer, conn, toClient>>
        /\ \/ pc[c] = "lock" /\ GoTo(c, "write")
           \/ pc[c] = "await" /\ GoTo(c, "open")
           \/ GoTo(c, "returned") \/ GoTo(c, "cancel")
    BY Zenon, <1>2 DEF LockWrite, AwaitReply, AwaitFailure, AwaitCancel
  <2>2. CalmCalls
    BY Zenon, <1>t, <2>1, CallsCalm
  <2> QED BY Zenon, <1>k, <1>n, <1>p, <2>1, <2>2
<1>3. ASSUME NEW c \in Calls, Write(c)
      PROVE  Flow'
  <2> DEFINE r == [type |-> kind[c], id |-> callId[c], call |-> c, sub |-> handle[c]]
  <2>1. /\ UNCHANGED <<pending, subs, kind, callId, err, chClosed, uses, serverSubs,
                       peer, conn, toClient>>
        /\ pc[c] = "write"
        /\ \/ toServer' = toServer /\ (GoTo(c, "await") \/ GoTo(c, "writeErr"))
           \/ toServer' = Append(toServer, r) /\ GoTo(c, "await")
    BY Zenon, <1>3 DEF Write, WriteOK, WriteFails
  <2>2. CASE toServer' = toServer
    <3>1. CalmCalls
      BY Zenon, <1>t, <2>1, CallsCalm
    <3> QED BY Zenon, <1>k, <1>n, <1>p, <2>1, <2>2, <3>1
  <2>3. CASE toServer' = Append(toServer, r) /\ GoTo(c, "await")
    <3>1. r \in Request /\ r.id = callId[c] /\ r.call = c
      <4>1. kind[c] \in {"sub", "unsub"} /\ callId[c] \in Nat /\ handle[c] \in SubIds \cup {None}
        BY Zenon, <1>t DEF TypeOK, CallTypeOK
      <4> QED BY <4>1 DEF Request
    <3> HIDE DEF r
    <3> QED BY Zenon, <1>t, <2>1, <2>3, <3>1, FlowWritten
  <2> QED BY Zenon, <2>1, <2>2, <2>3
<1>4. ASSUME NEW c \in Calls, Abandon(c)
      PROVE  Flow'
  <2>1. /\ UNCHANGED <<subs, kind, callId, err, chClosed, uses, serverSubs, toServer,
                       peer, conn, toClient>>
        /\ pending' = Without(pending, callId[c]) /\ GoTo(c, "returned")
    BY Zenon, <1>4 DEF Abandon
  <2>2. CalmCalls
    BY Zenon, <1>t, <2>1, CallsCalm
  <2>3. ~Live(c)'
    <3>1. pc'[c] = "returned"
      BY Zenon, <1>t, <2>1 DEF GoTo, TypeOK, CallTypeOK
    <3> QED BY Zenon, <3>1 DEF Live
  <2>4. \A i \in DOMAIN pending : i # 0 /\ pending[i] \in Calls /\ callId[pending[i]] = i
    <3>1. \A i \in 1..reqID : i # 0
      BY <1>t DEF TypeOK, ClientTypeOK
    <3> QED BY Zenon, <1>t, <3>1 DEF TypeOK, ClientTypeOK, PendingInv
  <2>5. callId[c] \in DOMAIN pending => pending[callId[c]] = c
    BY Zenon, <2>4 DEF IdInv, IdsOfCalls
  <2>6. /\ \A i \in DOMAIN pending' : i \in DOMAIN pending /\ pending'[i] = pending[i]
        /\ \A i \in DOMAIN pending : i # callId[c] => i \in DOMAIN pending'
    BY Zenon, <2>1 DEF Without
  <2>7. CalmTables
    BY Zenon, <2>1, <2>3, <2>5, <2>6 DEF CalmTables
  <2> QED BY Zenon, <1>k, <1>n, <2>1, <2>2, <2>7
<1>5. ASSUME NEW c \in Calls, Release(c) \/ Unsubscribe(c)
      PROVE  Flow'
  <2>1. /\ UNCHANGED <<pending, callId, err, uses, serverSubs, toServer, peer, conn, toClient>>
        /\ pc[c] \in {"open", "released"} /\ ReleaseEntry(c)
        /\ \/ UNCHANGED kind /\ GoTo(c, "released")
           \/ kind' = [kind EXCEPT ![c] = "unsub"] /\ GoTo(c, "register")
    BY Zenon, <1>5 DEF Release, Unsubscribe
  <2>2. handle[c] \in SubIds
    BY Zenon, <1>t, <2>1 DEF HandleInv
  <2>3. /\ \A d \in Calls : d # c => pc'[d] = pc[d] /\ kind'[d] = kind[d]
        /\ pc'[c] = "released" \/ (pc'[c] = "register" /\ kind'[c] = "unsub")
    BY Zenon, <1>t, <2>1 DEF GoTo, TypeOK, CallTypeOK
  <2>4. \A d \in Calls : chClosed[d] => chClosed'[d]
    BY Zenon, <1>t, <2>1 DEF ReleaseEntry, TypeOK, EntryTypeOK
  <2>5. ~Live(c)' /\ ~Young(c)'
    BY Zenon, <2>3 DEF Live, Young
  <2>6. \A d \in Calls : d # c => (Live(d)' => Live(d)) /\ (Young(d)' => Young(d))
    BY Zenon, <2>1, <2>3, <2>4 DEF Live, Young
  <2>7. CalmCalls
    BY Zenon, <2>1, <2>3, <2>5, <2>6 DEF CalmCalls
  <2>8. \A s \in SubIds : subs'[s] = subs[s] \/ (subs[s] = c /\ subs'[s] = None)
    BY Zenon, <1>t, <2>1, <2>2 DEF ReleaseEntry, TypeOK, ClientTypeOK
  <2>9. CalmTables
    BY Zenon, <2>1, <2>5, <2>8 DEF CalmTables
  <2> QED BY Zenon, <1>k, <1>n, <2>1, <2>7, <2>9
<1>6. ASSUME \/ \E c \in Calls : RecvStep(c)
             \/ DeliverReply \/ PongLock \/ Pong \/ ReadLoopExit
             \/ CloseWrite \/ CloseConn \/ CloseCall \/ CloseLock \/ UNCHANGED vars
      PROVE  Flow'
  <2>1. /\ UNCHANGED <<pending, subs, pc, kind, callId, err, chClosed, uses, serverSubs,
                       toClient, peer>>
        /\ conn' \in {conn, "closed"}
        /\ \/ toServer' = toServer
           \/ toServer' = Append(toServer, [type |-> "pong"])
           \/ toServer' = Append(toServer, [type |-> "close"])
    BY Zenon, <1>6
       DEF RecvStep, RecvNote, RecvClosed, DeliverReply, PongLock, Pong, ReadLoopExit, CloseWrite,
           CloseConn, CloseCall, CloseLock, WriteOK, WriteFails, vars
  <2>2. NodeUp' => NodeUp
    BY Zenon, <2>1 DEF NodeUp
  <2>3. CalmNode
    BY Zenon, <1>t, <1>w, <2>1, <2>2, NodeCalm
  <2> QED BY Zenon, <1>k, <1>q, <2>1, <2>3
<1>7. CASE RouteNote \/ ReadPing \/ ReadClose
  <2>1. /\ UNCHANGED <<pending, subs, pc, kind, callId, err, chClosed, uses, serverSubs, toServer,
                       peer, conn>>
        /\ toClient # <<>> /\ toClient' = Tail(toClient) /\ Head(toClient).type # "ack"
    BY Zenon, <1>7 DEF RouteNote, ReadPing, ReadClose, Reads
  <2>2. CalmWire(1)
    BY Zenon, <1>t, <2>1, WireRead
  <2> QED BY Zenon, <1>k, <1>n, <1>q, <2>1, <2>2
<1>8. CASE RouteReply
  <2>1. /\ UNCHANGED <<pc, callId, err, kind, chClosed, uses, serverSubs, toServer, peer, conn>>
        /\ toClient # <<>> /\ toClient' = Tail(toClient)
        /\ Head(toClient).type \in {"ack", "other", "error"} /\ TakePending(Head(toClient))
    BY Zenon, <1>8 DEF RouteReply, Reads
  <2>2. Head(toClient) = toClient[1]
    BY <1>t, <2>1 DEF TypeOK, NodeTypeOK
  <2> QED BY Zenon, <1>t, <2>1, <2>2, FlowReplied DEF Replied
<1>9. CASE ReadError
  <2>1. /\ UNCHANGED <<pending, subs, pc, kind, callId, err, chClosed, uses, serverSubs, toServer,
                       peer, conn>>
        /\ toClient' = <<>> /\ ~NodeUp'
    BY Zenon, <1>9 DEF ReadError, NodeUp
  <2>2. CalmWire(0)
    BY Zenon, <2>1, WireLost
  <2> QED BY Zenon, <1>k, <1>n, <1>q, <2>1, <2>2
<1>10. CASE ReadLoopFail \/ CloseFail
  <2>1. /\ UNCHANGED <<pc, kind, callId, uses, serverSubs, toServer, peer, conn, toClient>>
        /\ fail("connection") \/ fail("closed")
    BY Zenon, <1>10 DEF ReadLoopFail, CloseFail
  <2>2. /\ err' # None
        /\ UNCHANGED <<pending, subs>>
           \/ (pending' = [i \in {} |-> None] /\ subs' = [s \in SubIds |-> None])
    BY Zenon, <2>1, NoneAssumption DEF fail
  <2>3. \A c \in Calls : ~Live(c)'
    BY Zenon, <2>2 DEF Live
  <2>4. CalmTables
    <3>1. \A i \in DOMAIN pending' : i \in DOMAIN pending /\ pending'[i] = pending[i]
      BY Zenon, <2>2
    <3>2. \A s \in SubIds : subs'[s] \in {subs[s], None}
      BY Zenon, <2>2
    <3> QED BY Zenon, <2>3, <3>1, <3>2 DEF CalmTables
  <2>5. CalmCalls
    BY Zenon, <2>1, <2>3 DEF CalmCalls, Young
  <2> QED BY Zenon, <1>k, <1>n, <2>1, <2>4, <2>5
<1>11. ASSUME UNCHANGED <<pending, subs, pc, kind, callId, err, chClosed, uses, peer, conn>>,
              \A s \in SubIds : serverSubs'[s] \in {serverSubs[s], None},
              toServer # <<>>, toServer' = Tail(toServer),
              NEW l \in {"other", "error"}, NEW i, toClient' = Append(toClient, [type |-> l, id |-> i])
       PROVE  Flow'
  <2>1. CalmWire(0)
    BY Zenon, <1>11, <1>t, <1>w, WireSent
  <2>2. \A j \in DOMAIN toServer' : j + 1 \in DOMAIN toServer /\ toServer'[j] = toServer[j + 1]
    BY <1>11, <1>t DEF TypeOK, NodeTypeOK
  <2>3. CalmNode
    BY Zenon, <1>11, <2>2 DEF CalmNode, NodeUp
  <2> QED BY Zenon, <1>11, <1>k, <1>q, <2>1, <2>3
<1>12. CASE ServerSubscribe
  <2> DEFINE r == Head(toServer)
  <2>1. /\ UNCHANGED <<pending, subs, pc, kind, callId, err, chClosed, peer, conn>>
        /\ toServer # <<>> /\ r.type = "sub" /\ toServer' = Tail(toServer)
        /\ \/ \E s \in SubIds :
                /\ serverSubs' = [serverSubs EXCEPT ![s] = r.call]
                /\ uses' = [uses EXCEPT ![s] = @ + 1]
                /\ toClient' = Append(toClient, [type |-> "ack", id |-> r.id, sub |-> s])
           \/ /\ toClient' = Append(toClient, [type |-> "error", id |-> r.id])
              /\ UNCHANGED <<serverSubs, uses>>
    BY Zenon, <1>12 DEF ServerSubscribe, ServerTakes, FreeIds
  <2>2. r = toServer[1]
    BY <1>t, <2>1 DEF TypeOK, NodeTypeOK
  <2>3. r.call \in Calls /\ AskedBy(1, r.call)
    BY Zenon, <1>t, <2>1, <2>2, RequestKinds DEF AskedBy
  <2>4. ASSUME NEW s \in SubIds, uses' = [uses EXCEPT ![s] = @ + 1]
        PROVE  uses[s] = 0
    BY <1>t, <2>4 DEF TypeOK, NodeTypeOK, IdsUsedOnce
  <2>5. ASSUME NEW s \in SubIds, serverSubs' = [serverSubs EXCEPT ![s] = r.call],
               uses' = [uses EXCEPT ![s] = @ + 1],
               toClient' = Append(toClient, [type |-> "ack", id |-> r.id, sub |-> s])
        PROVE  Flow'
    BY Zenon, <1>t, <1>w, <2>1, <2>2, <2>3, <2>4, <2>5, FlowGranted
  <2> QED BY Zenon, <1>11, <2>1, <2>5
<1>13. CASE ServerUnsubscribe
  <2>1. /\ UNCHANGED <<pending, subs, pc, kind, callId, err, chClosed, uses, peer, conn>>
        /\ toServer # <<>> /\ toServer' = Tail(toServer)
        /\ serverSubs' = [serverSubs EXCEPT ![Head(toServer).sub] = None]
        /\ \E l \in {"other", "error"} :
             toClient' = Append(toClient, [type |-> l, id |-> Head(toServer).id])
    BY Zenon, <1>13 DEF ServerUnsubscribe, ServerTakes
  <2>2. \A s \in SubIds : serverSubs'[s] \in {serverSubs[s], None}
    BY Zenon, <1>t, <2>1 DEF TypeOK, NodeTypeOK
  <2> QED BY Zenon, <1>11, <2>1, <2>2
<1>14. CASE ServerPongOrClose \/ ServerPing \/ ServerGone
  <2>1. /\ UNCHANGED <<pending, subs, pc, kind, callId, err, chClosed, uses, serverSubs, conn>>
        /\ peer' \in {peer, "down"}
        /\ toServer' = toServer \/ (toServer # <<>> /\ toServer' = Tail(toServer))
        /\ \/ toClient' = toClient
           \/ \E l \in {"ping", "close"} : toClient' = Append(toClient, [type |-> l])
    BY Zenon, <1>14 DEF ServerPongOrClose, ServerTakes, ServerPing, ServerGone
  <2>2. NodeUp' => NodeUp
    BY Zenon, <2>1 DEF NodeUp
  <2>3. CalmNode
    BY Zenon, <1>t, <2>1, <2>2, NodeCalm
  <2>4. CalmWire(0)
    BY Zenon, <1>t, <1>w, <2>1, WireKept, WireSent
  <2> QED BY Zenon, <1>k, <1>q, <2>1, <2>3, <2>4
<1>15. ASSUME NEW s \in SubIds, NEW final \in BOOLEAN, ServerNotify(s, final)
       PROVE  Flow'
  <2> DEFINE r == [type |-> "note", sub |-> s, owner |-> serverSubs[s], seq |-> sent + 1]
  <2>1. /\ UNCHANGED <<pending, subs, pc, callId, err, kind, chClosed, uses, toServer, peer, conn>>
        /\ serverSubs[s] # None /\ NodeUp /\ toClient' = Append(toClient, r)
        /\ serverSubs' = serverSubs \/ serverSubs' = [serverSubs EXCEPT ![s] = None]
    BY Zenon, <1>15 DEF ServerNotify
  <2>2. \A t \in SubIds : serverSubs'[t] \in {serverSubs[t], None}
    BY Zenon, <1>t, <2>1 DEF TypeOK, NodeTypeOK
  <2>3. r.type = "note" /\ r.sub = s /\ r.owner = serverSubs[s]
    BY Zenon
  <2> HIDE DEF r
  <2> QED BY Zenon, <1>t, <2>1, <2>2, <2>3, FlowNotified
<1> QED
  BY Zenon, <1>1, <1>2, <1>3, <1>4, <1>5, <1>6, <1>7, <1>8, <1>9, <1>10, <1>12, <1>13, <1>14, <1>15
     DEF Next, CallStep, ReadLoopStep, CloseStep, ServerStep, ServerReads

-----------------------------------------------------------------------------
(* What has been delivered.                                                *)

\* While the node uses an id once, the notifications routed for a live
\* subscription are accounted for, a buffer holds only its owner's, and there
\* is nothing yet of a call that has not written its request.
Blank(c) == routed[c] = 0 /\ dropped[c] = 0 /\ ch[c] = <<>> /\ received[c] = <<>>
YoungBlank == \A c \in Calls : Young(c) => Blank(c)
Tally == NoNotificationLost /\ OnlyOwnNotifications /\ YoungBlank

Accounted(c) == routed[c] = Len(received[c]) + Len(ch[c]) + dropped[c]

\* A step that routes and receives nothing keeps the account.
LEMMA TallyKept ==
  ASSUME Tally, UNCHANGED <<ch, received, dropped, routed>>,
         \A c \in Calls : Live(c)' => Live(c) \/ Young(c),
         \A c \in Calls : Young(c)' => Young(c)
  PROVE  Tally'
<1>1. \A c \in Calls : Young(c) => Accounted(c)
  <2>1. \A c \in Calls : Blank(c) => Accounted(c)
    BY DEF Blank, Accounted
  <2> QED BY Zenon, <2>1 DEF Tally, YoungBlank
<1>2. \A c \in Calls : Live(c)' => Accounted(c)
  BY Zenon, <1>1 DEF Tally, NoNotificationLost, Accounted
<1>3. NoNotificationLost'
  BY Zenon, <1>2 DEF NoNotificationLost, Accounted
<1>4. OnlyOwnNotifications' /\ YoungBlank'
  BY Zenon DEF Tally, OnlyOwnNotifications, YoungBlank, Blank
<1> QED BY Zenon, <1>3, <1>4 DEF Tally

\* Recv takes the notification at the head of the buffer.
LEMMA TallyReceived ==
  ASSUME TypeOK, Tally, NEW c \in Calls, ch[c] # <<>>,
         received' = [received EXCEPT ![c] = Append(@, Head(ch[c]).seq)],
         ch' = [ch EXCEPT ![c] = Tail(@)],
         UNCHANGED <<dropped, routed, kind, pc, err, chClosed>>
  PROVE  Tally'
<1>1. /\ ch[c] \in Seq(Note) /\ received[c] \in Seq(Nat)
      /\ ch = [d \in Calls |-> ch[d]] /\ received = [d \in Calls |-> received[d]]
  BY Zenon DEF TypeOK, EntryTypeOK
<1>2. /\ \A d \in Calls : d # c => ch'[d] = ch[d] /\ received'[d] = received[d]
      /\ ch'[c] = Tail(ch[c]) /\ received'[c] = Append(received[c], Head(ch[c]).seq)
  BY Zenon, <1>1
<1>3. \A d \in Calls : (Live(d)' <=> Live(d)) /\ (Young(d)' <=> Young(d))
  BY Zenon DEF Live, Young
<1>4. Len(received'[c]) + Len(ch'[c]) = Len(received[c]) + Len(ch[c])
  BY <1>1, <1>2
<1>5. \A i \in DOMAIN ch'[c] : i + 1 \in DOMAIN ch[c] /\ ch'[c][i] = ch[c][i + 1]
  BY <1>1, <1>2
<1>6. \A d \in Calls : Len(received'[d]) + Len(ch'[d]) = Len(received[d]) + Len(ch[d])
  BY Zenon, <1>2, <1>4
<1>7. NoNotificationLost'
  BY Zenon, <1>3, <1>6 DEF Tally, NoNotificationLost
<1>8. OnlyOwnNotifications'
  <2>1. \A i \in DOMAIN ch'[c] : ch'[c][i].owner = c
    BY Zenon, <1>5 DEF Tally, OnlyOwnNotifications
  <2>2. \A d \in Calls : d # c => \A i \in DOMAIN ch'[d] : ch'[d][i].owner = d
    BY Zenon, <1>2 DEF Tally, OnlyOwnNotifications
  <2> QED BY Zenon, <2>1, <2>2 DEF OnlyOwnNotifications
<1>9. YoungBlank'
  <2>1. ~Young(c)
    BY Zenon DEF Tally, YoungBlank, Blank
  <2> QED BY Zenon, <1>2, <1>3, <2>1 DEF Tally, YoungBlank, Blank
<1> QED BY Zenon, <1>7, <1>8, <1>9 DEF Tally

\* The read loop routes a notification: its id is its owner's, and a live
\* owner is registered.
LEMMA TallyRouted ==
  ASSUME TypeOK, Flow, Tally, RouteNote
  PROVE  Tally'
<1> DEFINE n == Head(toClient)
           o == n.owner
<1>1. /\ toClient # <<>> /\ n.type = "note"
      /\ routed' = [routed EXCEPT ![o] = @ + 1]
      /\ \/ subs[n.sub] = None /\ UNCHANGED <<ch, dropped>>
         \/ /\ subs[n.sub] # None /\ ch' = [ch EXCEPT ![subs[n.sub]] = Append(@, n)]
            /\ UNCHANGED dropped
         \/ /\ subs[n.sub] # None /\ dropped' = [dropped EXCEPT ![subs[n.sub]] = @ + 1]
            /\ UNCHANGED ch
      /\ UNCHANGED <<received, kind, pc, err, chClosed>>
  BY Zenon DEF RouteNote, Reads, clientVars, callVars, userVars
<1>2. n = toClient[1] /\ 1 \in DOMAIN toClient /\ \A i \in DOMAIN toClient : ~(i < 1)
  <2>1. toClient \in Seq(Frame) /\ toClient # <<>>
    BY Zenon, <1>1 DEF TypeOK, NodeTypeOK
  <2> QED BY <2>1
<1>3. o \in Calls /\ n.owner = o /\ n.sub \in SubIds /\ n \in Note
  BY Zenon, <1>1, FrameKinds
<1>4. NoteFor(1, n.sub, o)
  BY Zenon, <1>1, <1>2 DEF NoteFor, NoteAt
<1>5. /\ subs[n.sub] # None => subs[n.sub] = o
      /\ Live(o) => subs[n.sub] = o
      /\ ~Young(o)
  BY Zenon, <1>2, <1>3, <1>4 DEF Flow, NoteOwner, NoteReady, Belongs, Unseen
<1>6. /\ ch = [d \in Calls |-> ch[d]] /\ dropped = [d \in Calls |-> dropped[d]]
      /\ routed = [d \in Calls |-> routed[d]]
  BY Zenon DEF TypeOK, EntryTypeOK
<1>7. \A d \in Calls : d # o => ch'[d] = ch[d] /\ dropped'[d] = dropped[d] /\ routed'[d] = routed[d]
  BY Zenon, <1>1, <1>5, <1>6
<1>8. /\ routed'[o] = routed[o] + 1
      /\ \/ subs[n.sub] = None /\ ch'[o] = ch[o]
         \/ ch'[o] = Append(ch[o], n) /\ dropped'[o] = dropped[o]
         \/ dropped'[o] = dropped[o] + 1 /\ ch'[o] = ch[o]
  BY Zenon, <1>1, <1>3, <1>5, <1>6
<1>9. \A d \in Calls : (Live(d)' <=> Live(d)) /\ (Young(d)' <=> Young(d))
  BY Zenon, <1>1 DEF Live, Young
<1>t. ch[o] \in Seq(Note) /\ dropped[o] \in Nat /\ routed[o] \in Nat /\ received[o] \in Seq(Nat)
  BY Zenon, <1>3 DEF TypeOK, EntryTypeOK
<1> HIDE DEF n, o
<1>10. NoNotificationLost'
  <2>1. ASSUME NEW d \in Calls, Live(d), d # o
        PROVE  routed'[d] = Len(received'[d]) + Len(ch'[d]) + dropped'[d]
    BY Zenon, <1>1, <1>7, <2>1 DEF Tally, NoNotificationLost
  <2>2. ASSUME Live(o)
        PROVE  routed'[o] = Len(received'[o]) + Len(ch'[o]) + dropped'[o]
    <3>1. subs[n.sub] # None
      BY Zenon, <1>3, <1>5, <2>2, ConstantsAssumption
    <3>2. routed[o] = Len(received[o]) + Len(ch[o]) + dropped[o]
      BY Zenon, <1>3, <2>2 DEF Tally, NoNotificationLost
    <3>3. received'[o] = received[o]
      BY Zenon, <1>1
    <3>4. /\ routed'[o] = routed[o] + 1
          /\ \/ ch'[o] = Append(ch[o], n) /\ dropped'[o] = dropped[o]
             \/ dropped'[o] = dropped[o] + 1 /\ ch'[o] = ch[o]
      BY Zenon, <1>8, <3>1
    <3>5. Len(Append(ch[o], n)) = Len(ch[o]) + 1 /\ Len(ch[o]) \in Nat /\ Len(received[o]) \in Nat
      BY <1>3, <1>t
    <3>6. \A l, m, d \in Nat : (l + m + d) + 1 = l + (m + 1) + d /\ (l + m + d) + 1 = l + m + (d + 1)
      OBVIOUS
    <3>7. \/ Len(ch'[o]) = Len(ch[o]) + 1 /\ dropped'[o] = dropped[o]
          \/ Len(ch'[o]) = Len(ch[o]) /\ dropped'[o] = dropped[o] + 1
      BY Zenon, <3>4, <3>5
    <3>8. routed'[o] = (Len(received[o]) + Len(ch[o]) + dropped[o]) + 1
      BY Zenon, <3>2, <3>4
    <3>9. /\ routed'[o] = Len(received[o]) + (Len(ch[o]) + 1) + dropped[o]
          /\ routed'[o] = Len(received[o]) + Len(ch[o]) + (dropped[o] + 1)
      BY ZenonT(60), <1>t, <3>5, <3>6, <3>8
    <3> QED BY Zenon, <3>3, <3>7, <3>9
  <2> QED BY Zenon, <1>9, <2>1, <2>2 DEF NoNotificationLost
<1>11. OnlyOwnNotifications'
  <2>1. ch'[o] = ch[o] \/ ch'[o] = Append(ch[o], n)
    BY Zenon, <1>8
  <2>2. \A i \in DOMAIN ch'[o] : ch'[o][i] = n \/ (i \in DOMAIN ch[o] /\ ch'[o][i] = ch[o][i])
    <3>1. \A i \in DOMAIN Append(ch[o], n) :
            Append(ch[o], n)[i] = n \/ (i \in DOMAIN ch[o] /\ Append(ch[o], n)[i] = ch[o][i])
      BY <1>3, <1>t
    <3> QED BY Zenon, <2>1, <3>1
  <2>3. \A i \in DOMAIN ch'[o] : ch'[o][i].owner = o
    BY ZenonT(60), <1>3, <2>2 DEF Tally, OnlyOwnNotifications
  <2> QED BY Zenon, <1>7, <2>3 DEF Tally, OnlyOwnNotifications
<1>12. YoungBlank'
  BY Zenon, <1>1, <1>5, <1>7, <1>9 DEF Tally, YoungBlank, Blank
<1> QED BY Zenon, <1>10, <1>11, <1>12 DEF Tally

\* A step keeps the account, as long as ids have been used once.
LEMMA TallyNext ==
  ASSUME IInv, Flow, Tally, [Next]_vars
  PROVE  Tally'
<1> USE DEF callVars, entryVars, userVars
<1>t. TypeOK
  BY Zenon DEF IInv
<1>k. ASSUME CalmCalls, UNCHANGED <<ch, received, dropped, routed>>
      PROVE  Tally'
  BY Zenon, <1>k, TallyKept DEF CalmCalls
<1>1. ASSUME NEW c \in Calls, Register(c)
      PROVE  Tally'
  <2>1. /\ UNCHANGED <<ch, received, dropped, routed, kind, err, chClosed>>
        /\ pc[c] = "register" /\ (GoTo(c, "returned") \/ GoTo(c, "lock"))
    BY Zenon, <1>1 DEF Register, clientVars
  <2>2. /\ \A d \in Calls : d # c => pc'[d] = pc[d]
        /\ pc'[c] \in {"returned", "lock"}
    BY Zenon, <1>t, <2>1 DEF GoTo, TypeOK, CallTypeOK
  <2>3. /\ \A d \in Calls : Live(d)' => Live(d) \/ Young(d)
        /\ \A d \in Calls : Young(d)' => Young(d)
    BY Zenon, <2>1, <2>2 DEF Live, Young
  <2> QED BY Zenon, <2>1, <2>3, TallyKept
<1>2. ASSUME NEW c \in Calls,
             \/ Write(c) \/ Abandon(c) \/ AwaitReply(c) \/ AwaitFailure(c)
             \/ LockWrite(c) \/ AwaitCancel(c)
      PROVE  Tally'
  <2>1. /\ UNCHANGED <<ch, received, dropped, routed, kind, callId, err, chClosed>>
        /\ \/ pc[c] = "lock" /\ GoTo(c, "write")
           \/ pc[c] = "write" /\ GoTo(c, "await")
           \/ pc[c] = "await" /\ GoTo(c, "open")
           \/ GoTo(c, "returned") \/ GoTo(c, "cancel") \/ GoTo(c, "writeErr")
    BY Zenon, <1>2
       DEF Write, Abandon, AwaitReply, AwaitFailure, LockWrite, AwaitCancel, clientVars
  <2>2. CalmCalls
    BY Zenon, <1>t, <2>1, CallsCalm
  <2> QED BY Zenon, <1>k, <2>1, <2>2
<1>3. ASSUME NEW c \in Calls, Release(c) \/ Unsubscribe(c)
      PROVE  Tally'
  <2>1. /\ UNCHANGED <<ch, received, dropped, routed, err>> /\ ReleaseEntry(c)
        /\ \/ UNCHANGED kind /\ GoTo(c, "released")
           \/ kind' = [kind EXCEPT ![c] = "unsub"] /\ GoTo(c, "register")
    BY Zenon, <1>3 DEF Release, Unsubscribe
  <2>2. /\ \A d \in Calls : d # c => pc'[d] = pc[d] /\ kind'[d] = kind[d]
        /\ pc'[c] = "released" \/ (pc'[c] = "register" /\ kind'[c] = "unsub")
    BY Zenon, <1>t, <2>1 DEF GoTo, TypeOK, CallTypeOK
  <2>3. \A d \in Calls : chClosed[d] => chClosed'[d]
    BY Zenon, <1>t, <2>1 DEF ReleaseEntry, TypeOK, EntryTypeOK
  <2>4. ~Live(c)' /\ ~Young(c)'
    BY Zenon, <2>2 DEF Live, Young
  <2>5. \A d \in Calls : d # c => (Live(d)' => Live(d)) /\ (Young(d)' => Young(d))
    BY Zenon, <2>1, <2>2, <2>3 DEF Live, Young
  <2> QED BY Zenon, <2>1, <2>4, <2>5, TallyKept
<1>4. ASSUME NEW c \in Calls, RecvNote(c)
      PROVE  Tally'
  BY Zenon, <1>4, <1>t, TallyReceived DEF RecvNote, clientVars
<1>5. CASE ReadLoopFail \/ CloseFail
  <2>1. /\ UNCHANGED <<ch, received, dropped, routed, pc, kind>>
        /\ fail("connection") \/ fail("closed")
    BY Zenon, <1>5 DEF ReadLoopFail, CloseFail
  <2>2. err' # None
    BY Zenon, <2>1, NoneAssumption DEF fail
  <2>3. \A c \in Calls : ~Live(c)' /\ (Young(c)' => Young(c))
    BY Zenon, <2>1, <2>2 DEF Live, Young
  <2> QED BY Zenon, <2>1, <2>3, TallyKept
<1>6. ASSUME \/ \E c \in Calls : RecvClosed(c)
             \/ RouteReply \/ DeliverReply \/ ReadPing \/ PongLock \/ Pong \/ ReadClose \/ ReadError
             \/ ReadLoopExit \/ CloseWrite \/ CloseConn \/ CloseCall \/ CloseLock
      PROVE  Tally'
  <2>1. UNCHANGED <<ch, received, dropped, routed, kind, pc, err, chClosed>>
    BY Zenon, <1>6
       DEF RecvClosed, RouteReply, DeliverReply, ReadPing, PongLock, Pong, ReadClose, ReadError,
           ReadLoopExit, CloseWrite, CloseConn, CloseCall, CloseLock, clientVars
  <2>2. \A c \in Calls : (Live(c)' => Live(c)) /\ (Young(c)' => Young(c))
    BY Zenon, <2>1 DEF Live, Young
  <2> QED BY Zenon, <2>1, <2>2, TallyKept
<1>7. ASSUME ServerStep \/ UNCHANGED vars
      PROVE  Tally'
  <2>1. UNCHANGED <<ch, received, dropped, routed, kind, pc, err, chClosed>>
    BY Zenon, <1>7
       DEF ServerStep, ServerReads, ServerSubscribe, ServerUnsubscribe, ServerPongOrClose,
           ServerNotify, ServerPing, ServerGone, clientVars, vars
  <2>2. \A c \in Calls : (Live(c)' => Live(c)) /\ (Young(c)' => Young(c))
    BY Zenon, <2>1 DEF Live, Young
  <2> QED BY Zenon, <2>1, <2>2, TallyKept
<1> QED
  BY Zenon, <1>t, <1>1, <1>2, <1>3, <1>4, <1>5, <1>6, <1>7, TallyRouted
     DEF Next, CallStep, RecvStep, ReadLoopStep, CloseStep

-----------------------------------------------------------------------------
(* The delivery of notifications.                                          *)

DInv == IInv /\ IdInv /\ OrderInv /\ (IdsUsedOnce => Flow /\ Tally)

\* The node hands out one id at a time, and reuses one only if it does that.
LEMMA IdsHandedOut ==
  ASSUME [Next]_vars
  PROVE  \/ uses' = uses
         \/ \E s \in SubIds : /\ ReuseIds \/ uses[s] = 0
                             /\ uses' = [uses EXCEPT ![s] = @ + 1]
<1> USE DEF serverVars
<1>1. ASSUME NEW c \in Calls,
             \/ CallStep(c) \/ LockWrite(c) \/ AwaitCancel(c) \/ Release(c) \/ Unsubscribe(c)
             \/ RecvStep(c)
      PROVE  uses' = uses
  BY Zenon, <1>1
     DEF CallStep, Register, LockWrite, Write, Abandon, AwaitReply, AwaitFailure, AwaitCancel,
         Release, Unsubscribe, RecvStep, RecvNote, RecvClosed
<1>2. CASE ReadLoopStep \/ PongLock
  BY Zenon, <1>2
     DEF ReadLoopStep, RouteNote, RouteReply, DeliverReply, ReadPing, Pong, ReadClose, ReadError,
         ReadLoopFail, ReadLoopExit, PongLock
<1>3. CASE CloseStep \/ CloseCall \/ CloseLock \/ UNCHANGED vars
  BY Zenon, <1>3 DEF CloseStep, CloseWrite, CloseConn, CloseFail, CloseCall, CloseLock, vars
<1>4. CASE ServerStep
  BY Zenon, <1>4
     DEF ServerStep, ServerReads, ServerSubscribe, ServerUnsubscribe, ServerPongOrClose,
         ServerNotify, ServerPing, ServerGone, FreeIds
<1> QED BY Zenon, <1>1, <1>2, <1>3, <1>4 DEF Next

\* The node does not take back that it has used an id.
LEMMA UsedOnceBefore ==
  ASSUME TypeOK, [Next]_vars, IdsUsedOnce'
  PROVE  IdsUsedOnce
<1>1. uses' = uses \/ \E s \in SubIds : uses' = [uses EXCEPT ![s] = @ + 1]
  BY Zenon, IdsHandedOut
<1>2. uses \in [SubIds -> Nat]
  BY Zenon DEF TypeOK, NodeTypeOK
<1> QED BY <1>1, <1>2 DEF IdsUsedOnce

\* At the start nothing is in flight, routed or delivered.
LEMMA DeliveryInit == Init => DInv
<1> SUFFICES ASSUME Init
             PROVE  DInv
  BY Zenon
<1>1. IInv
  BY Zenon, TypeInit, SafeInit DEF IInv
<1>2. DOMAIN toClient = {} /\ DOMAIN toServer = {} /\ 0 <= reqID
  BY DEF Init
<1>3. \A c \in Calls : /\ callId[c] = 0 /\ pc[c] = "register" /\ ch[c] = <<>> /\ received[c] = <<>>
                       /\ routed[c] = 0 /\ dropped[c] = 0 /\ DOMAIN ch[c] = {}
                       /\ DOMAIN received[c] = {}
  BY DEF Init
<1>4. IdInv
  BY Zenon, <1>2, <1>3
     DEF IdInv, IdsOfCalls, IdsBounded, AskedOnce, RepliedOnce, AskedOrReplied, IdsUnsent
<1>5. Room
  <2>1. sent = 0 /\ Len(<<>>) = 0 /\ 0 <= Buffer /\ 0 <= MaxNotes
    BY ConstantsAssumption DEF Init
  <2> QED BY Zenon, <1>3, <2>1 DEF Room
<1>6. OrderInv
  BY Zenon, <1>2, <1>3, <1>5 DEF OrderInv, FlightOrder, QueueOrder, ReceivedOrder
<1>7. \A s \in SubIds : subs[s] = None /\ serverSubs[s] = None
  BY Zenon DEF Init
<1>8. Flow
  <2>1. AckFresh /\ AckOnce /\ SubsUsed /\ NoteOwner /\ NoteReady /\ AskPending
    BY Zenon, <1>2, <1>7 DEF AckFresh, AckOnce, SubsUsed, NoteOwner, NoteReady, AskPending
  <2>2. NodeOwner /\ NodeReady
    BY Zenon, <1>7, ConstantsAssumption DEF NodeOwner, NodeReady
  <2>3. WritePending /\ Unseen
    BY Zenon, <1>2, <1>3, <1>7, ConstantsAssumption DEF WritePending, Unseen
  <2> QED BY Zenon, <2>1, <2>2, <2>3 DEF Flow
<1>9. Tally
  <2>1. OnlyOwnNotifications /\ YoungBlank
    BY Zenon, <1>3 DEF OnlyOwnNotifications, YoungBlank, Blank
  <2>2. NoNotificationLost
    BY Zenon, <1>3 DEF NoNotificationLost, Live
  <2> QED BY Zenon, <2>1, <2>2 DEF Tally
<1> QED BY Zenon, <1>1, <1>4, <1>6, <1>8, <1>9 DEF DInv

\* The invariant that the delivery of notifications rests on.
LEMMA DeliveryInvariance == Spec => []DInv
<1>1. ASSUME DInv, [Next]_vars
      PROVE  DInv'
  <2>1. IInv'
    BY Zenon, <1>1, TypeNext, SafeNext DEF DInv, IInv
  <2>2. IdInv' /\ OrderInv'
    BY Zenon, <1>1, IdNext, OrderNext DEF DInv
  <2>3. ASSUME IdsUsedOnce'
        PROVE  Flow' /\ Tally'
    <3>1. Flow /\ Tally
      BY Zenon, <1>1, <2>3, UsedOnceBefore DEF DInv, IInv
    <3> QED BY Zenon, <1>1, <2>3, <3>1, FlowNext, TallyNext DEF DInv
  <2> QED BY Zenon, <2>1, <2>2, <2>3 DEF DInv
<1> QED BY <1>1, DeliveryInit, PTL DEF Spec

\* Two increasing sequences, the second above the first, make an increasing one.
LEMMA Concatenated ==
  ASSUME NEW r \in Seq(Nat), NEW q \in Seq(Nat),
         \A i, j \in DOMAIN r : i < j => r[i] < r[j],
         \A i \in DOMAIN r : \A j \in DOMAIN q : r[i] < q[j],
         \A i, j \in DOMAIN q : i < j => q[i] < q[j]
  PROVE  \A i, j \in DOMAIN (r \o q) : i < j => (r \o q)[i] < (r \o q)[j]
<1>1. /\ DOMAIN r = 1 .. Len(r) /\ DOMAIN q = 1 .. Len(q) /\ Len(r) \in Nat /\ Len(q) \in Nat
      /\ DOMAIN (r \o q) = 1 .. Len(r) + Len(q)
  OBVIOUS
<1>2. /\ \A i \in 1 .. Len(r) : (r \o q)[i] = r[i]
      /\ \A i \in Len(r) + 1 .. Len(r) + Len(q) : (r \o q)[i] = q[i - Len(r)]
  OBVIOUS
<1> SUFFICES ASSUME NEW i \in 1 .. Len(r) + Len(q), NEW j \in 1 .. Len(r) + Len(q), i < j
             PROVE  (r \o q)[i] < (r \o q)[j]
  BY Zenon, <1>1
<1>3. CASE j <= Len(r)
  <2>1. i \in 1 .. Len(r) /\ j \in 1 .. Len(r)
    BY <1>1, <1>3
  <2> QED BY Zenon, <1>1, <1>2, <2>1
<1>4. CASE i <= Len(r) /\ j > Len(r)
  <2>1. i \in 1 .. Len(r) /\ j \in Len(r) + 1 .. Len(r) + Len(q) /\ j - Len(r) \in 1 .. Len(q)
    BY <1>1, <1>4
  <2> QED BY Zenon, <1>1, <1>2, <2>1
<1>5. CASE i > Len(r)
  <2>1. /\ i \in Len(r) + 1 .. Len(r) + Len(q) /\ j \in Len(r) + 1 .. Len(r) + Len(q)
        /\ i - Len(r) \in 1 .. Len(q) /\ j - Len(r) \in 1 .. Len(q)
        /\ i - Len(r) < j - Len(r)
    BY <1>1, <1>5
  <2> QED BY Zenon, <1>1, <1>2, <2>1
<1> QED BY <1>1, <1>3, <1>4, <1>5

\* The buffer continues what Recv returned.
LEMMA InOrder ==
  ASSUME TypeOK, OrderInv
  PROVE  NotificationsInOrder
<1> SUFFICES ASSUME NEW c \in Calls
             PROVE  LET seqs == received[c] \o [i \in DOMAIN ch[c] |-> ch[c][i].seq]
                    IN  \A i, j \in DOMAIN seqs : i < j => seqs[i] < seqs[j]
  BY Zenon DEF NotificationsInOrder
<1> DEFINE q == [i \in DOMAIN ch[c] |-> ch[c][i].seq]
<1>1. ch[c] \in Seq(Note) /\ received[c] \in Seq(Nat) /\ \A k \in DOMAIN ch[c] : ch[c][k].seq \in Nat
  BY Zenon, EntryKinds
<1>2. q \in Seq(Nat) /\ DOMAIN q = DOMAIN ch[c] /\ \A i \in DOMAIN q : q[i] = ch[c][i].seq
  <2>1. DOMAIN ch[c] = 1 .. Len(ch[c]) /\ Len(ch[c]) \in Nat
    BY <1>1
  <2>2. q \in [1 .. Len(ch[c]) -> Nat]
    BY Zenon, <1>1, <2>1
  <2>3. \A n \in Nat : \A f \in [1 .. n -> Nat] : f \in Seq(Nat)
    OBVIOUS
  <2> QED BY Zenon, <2>1, <2>2, <2>3
<1>3. /\ \A i, j \in DOMAIN received[c] : i < j => received[c][i] < received[c][j]
      /\ \A i \in DOMAIN received[c] : \A j \in DOMAIN q : received[c][i] < q[j]
      /\ \A i, j \in DOMAIN q : i < j => q[i] < q[j]
  BY Zenon, <1>2 DEF OrderInv, QueueOrder, ReceivedOrder
<1> HIDE DEF q
<1>4. \A i, j \in DOMAIN (received[c] \o q) : i < j => (received[c] \o q)[i] < (received[c] \o q)[j]
  BY Zenon, <1>1, <1>2, <1>3, Concatenated
<1> QED BY Zenon, <1>4 DEF q

\* Whatever the node sends, and whatever becomes of the calls, Recv returns
\* notifications in the order in which the node sent them; and as long as the
\* node gives no id to a second subscription, route loses none of a live
\* subscription and hands it no other's.
THEOREM Delivered == Spec => []NotificationsDelivered
<1>1. DInv => NotificationsDelivered
  BY Zenon, InOrder DEF DInv, IInv, Tally, NotificationsDelivered
<1> QED BY <1>1, DeliveryInvariance, PTL

-----------------------------------------------------------------------------
(* The steps, as the contract sees them.                                   *)

Step == [Contract!Next]_(Contract!vars)

\* A step that leaves the entries alone is a stutter of the contract.
LEMMA Stutters ==
  ASSUME UNCHANGED <<subs, chClosed, ch, dropped>>
  PROVE  Step
<1>1. Registered' = Registered
  BY Zenon DEF Registered
<1>2. [c \in Calls |-> Status(c)]' = [c \in Calls |-> Status(c)]
  BY Zenon, <1>1 DEF Status
<1> QED BY Zenon, <1>2 DEF Step, Contract!vars

\* The statuses after a step that shuts exactly the entries of S, all open.
LEMMA Shuts ==
  ASSUME TypeOK, EntryInv, NEW S \in SUBSET Registered,
         chClosed' = [c \in Calls |-> IF c \in S THEN TRUE ELSE chClosed[c]],
         Registered' = Registered \ S,
         UNCHANGED <<ch, dropped>>
  PROVE  Step
<1>1. Registered \subseteq Calls
  BY DEF Registered, TypeOK, ClientTypeOK
<1>2. \A c \in Registered : ~chClosed[c]
  BY ZenonT(60) DEF Registered, EntryInv
<1>3. \A c \in S : Status(c) = "open"
  BY Zenon, <1>1, <1>2 DEF Status
<1>4. \A c \in Calls : Status(c)' = IF c \in S THEN "shut" ELSE Status(c)
  <2> SUFFICES ASSUME NEW c \in Calls
               PROVE  Status(c)' = IF c \in S THEN "shut" ELSE Status(c)
    OBVIOUS
  <2>1. chClosed'[c] = IF c \in S THEN TRUE ELSE chClosed[c]
    BY Zenon
  <2>2. CASE c \in S
    BY Zenon, <2>1, <2>2 DEF Status
  <2>3. CASE c \notin S
    BY Zenon, <2>1, <2>3 DEF Status
  <2> QED BY <2>2, <2>3
<1>5. [c \in Calls |-> Status(c)]' =
        [c \in Calls |-> IF c \in S THEN "shut" ELSE [d \in Calls |-> Status(d)][c]]
  BY Zenon, <1>4
<1>6. CASE S = {}
  <2>1. [c \in Calls |-> Status(c)]' = [c \in Calls |-> Status(c)]
    BY Zenon, <1>4, <1>6
  <2> QED BY Zenon, <2>1 DEF Step, Contract!vars
<1>7. CASE S # {}
  <2>1. \A c \in S : [d \in Calls |-> Status(d)][c] = "open"
    BY Zenon, <1>1, <1>3
  <2>2. Contract!Shut(S)
    BY Zenon, <1>5, <2>1 DEF Contract!Shut
  <2>3. S \in (SUBSET Calls) \ {{}}
    BY <1>1, <1>7
  <2>4. \E T \in (SUBSET Calls) \ {{}} : Contract!Shut(T)
    BY Zenon, <2>2, <2>3
  <2>5. Contract!Next
    BY Zenon, <2>4 DEF Contract!Next
  <2> QED BY Zenon, <2>5 DEF Step
<1> QED BY <1>6, <1>7

\* fail shuts every open entry.
LEMMA FailShuts ==
  ASSUME TypeOK, EntryInv, NEW e, fail(e), UNCHANGED <<ch, dropped>>
  PROVE  Step
<1>1. CASE err # None
  <2>1. UNCHANGED <<subs, chClosed>>
    BY Zenon, <1>1 DEF fail
  <2> QED BY Zenon, <2>1, Stutters
<1>2. CASE err = None
  <2>1. /\ chClosed' = [c \in Calls |-> IF c \in Registered THEN TRUE ELSE chClosed[c]]
        /\ subs' = [s \in SubIds |-> None]
    BY Zenon, <1>2 DEF fail
  <2>2. \A s \in SubIds : subs'[s] = None
    BY Zenon, <2>1
  <2>3. Registered' = Registered \ Registered
    BY <2>2 DEF Registered
  <2> QED BY Zenon, <2>1, <2>3, Shuts
<1> QED BY <1>1, <1>2

\* Release shuts the entry of its own call, if it is still open.
LEMMA ReleaseShuts ==
  ASSUME TypeOK, EntryInv, NEW c \in Calls, handle[c] \in SubIds, ReleaseEntry(c),
         UNCHANGED <<ch, dropped>>
  PROVE  Step
<1>1. CASE subs[handle[c]] = c
  <2>1. /\ subs' = [subs EXCEPT ![handle[c]] = None]
        /\ chClosed' = [chClosed EXCEPT ![c] = TRUE]
    BY Zenon, <1>1 DEF ReleaseEntry
  <2>2. \A s \in SubIds : subs'[s] = IF s = handle[c] THEN None ELSE subs[s]
    BY <2>1 DEF TypeOK, ClientTypeOK
  <2>3. {c} \in SUBSET Registered
    BY SMT, <1>1, ConstantsAssumption DEF Registered
  <2>4. chClosed' = [d \in Calls |-> IF d \in {c} THEN TRUE ELSE chClosed[d]]
    BY <2>1 DEF TypeOK, EntryTypeOK
  <2>5. \A s \in SubIds : subs[s] = c => s = handle[c]
    BY Zenon, <1>1, ConstantsAssumption DEF EntryInv
  <2>6. Registered' = Registered \ {c}
    BY <1>1, <2>2, <2>5 DEF Registered
  <2> QED BY Zenon, <2>3, <2>4, <2>6, Shuts
<1>2. CASE subs[handle[c]] # c
  <2>1. UNCHANGED <<subs, chClosed>>
    BY Zenon, <1>2 DEF ReleaseEntry
  <2> QED BY Zenon, <2>1, Stutters
<1> QED BY <1>1, <1>2

\* The read loop hands a notification to the entry registered for its id.
LEMMA RouteDelivers ==
  ASSUME IInv, OrderInv, RouteNote
  PROVE  Step
<1> DEFINE n == Head(toClient)
           c == subs[n.sub]
<1>1. n \in Note /\ n.sub \in SubIds
  BY Zenon, FrameKinds DEF IInv, RouteNote, Reads
<1>2. c \in Calls \cup {None}
  BY <1>1 DEF IInv, TypeOK, ClientTypeOK
<1>3. n.seq \in 1 .. MaxNotes
  <2>1. toClient \in Seq(Frame) /\ toClient # <<>> /\ n.type = "note"
    BY Zenon DEF IInv, TypeOK, NodeTypeOK, RouteNote, Reads
  <2>2. 1 \in DOMAIN toClient /\ toClient[1] = n
    BY <2>1
  <2>3. n.seq \in 1 .. sent /\ sent <= MaxNotes /\ sent \in Nat
    BY Zenon, <2>1, <2>2 DEF OrderInv, FlightOrder, NoteAt, Room, IInv, TypeOK, NodeTypeOK
  <2> QED BY <2>3, ConstantsAssumption
<1>4. n \in Notifications
  BY <1>1, <1>3 DEF Note, Notifications
<1>5. /\ ch \in [Calls -> Seq(Note)] /\ dropped \in [Calls -> Nat]
      /\ UNCHANGED <<subs, chClosed>>
      /\ \/ c = None /\ UNCHANGED <<ch, dropped>>
         \/ /\ c # None /\ Len(ch[c]) < Buffer
            /\ ch' = [ch EXCEPT ![c] = Append(@, n)]
            /\ UNCHANGED dropped
         \/ /\ c # None /\ Len(ch[c]) >= Buffer
            /\ dropped' = [dropped EXCEPT ![c] = @ + 1]
            /\ UNCHANGED ch
  BY Zenon DEF IInv, TypeOK, EntryTypeOK, RouteNote, clientVars
<1>6. \A d \in Calls : Len(ch[d]) <= Buffer
  BY Zenon DEF OrderInv, Room
<1>7. EntryInv
  BY Zenon DEF IInv, Safe
<1> HIDE DEF n
<1>8. c # None => c \in Calls /\ ~chClosed[c] /\ c \in Registered
  BY Zenon, <1>1, <1>2, <1>7 DEF EntryInv, Registered
<1>9. CASE c = None
  BY Zenon, <1>5, <1>9, Stutters
<1>10. CASE c # None
  <2>1. c \in Calls /\ [d \in Calls |-> Status(d)][c] = "open"
    BY Zenon, <1>8, <1>10 DEF Status
  <2>2. [d \in Calls |-> Status(d)]' = [d \in Calls |-> Status(d)]
    <3>1. subs' = subs /\ chClosed' = chClosed
      BY Zenon, <1>5
    <3> QED BY Zenon, <3>1 DEF Status, Registered
  <2>3. Contract!Deliver(c, n)
    <3>1. CASE /\ Len(ch[c]) < Buffer
               /\ ch' = [ch EXCEPT ![c] = Append(@, n)]
               /\ UNCHANGED dropped
      BY Zenon, <2>1, <2>2, <3>1 DEF Contract!Deliver
    <3>2. CASE /\ Len(ch[c]) >= Buffer
               /\ dropped' = [dropped EXCEPT ![c] = @ + 1]
               /\ UNCHANGED ch
      <4>1. Len(ch[c]) = Buffer
        <5>1. \A q \in Seq(Note) : \A b \in Nat : Len(q) <= b /\ Len(q) >= b => Len(q) = b
          OBVIOUS
        <5>2. ch[c] \in Seq(Note) /\ Buffer \in Nat
          BY Zenon, <1>5, <2>1, ConstantsAssumption
        <5> QED BY Zenon, <1>6, <2>1, <3>2, <5>1, <5>2
      <4> QED BY Zenon, <2>1, <2>2, <3>2, <4>1 DEF Contract!Deliver
    <3> QED BY Zenon, <1>5, <1>10, <3>1, <3>2
  <2>4. Contract!Next
    BY Zenon, <1>4, <2>1, <2>3 DEF Contract!Next
  <2> QED BY Zenon, <2>4 DEF Step
<1> QED BY <1>9, <1>10

\* Recv takes the oldest notification.
LEMMA RecvTakes ==
  ASSUME IInv, NEW c \in Calls, RecvNote(c)
  PROVE  Step
<1>1. /\ ch \in [Calls -> Seq(Note)]
      /\ ch[c] # <<>>
      /\ ch' = [ch EXCEPT ![c] = Tail(@)]
      /\ UNCHANGED <<subs, chClosed, dropped>>
  BY Zenon DEF IInv, TypeOK, EntryTypeOK, RecvNote, clientVars
<1>2. [d \in Calls |-> Status(d)]' = [d \in Calls |-> Status(d)]
  BY Zenon, <1>1 DEF Status, Registered
<1>3. Contract!Take(c)
  BY Zenon, <1>1, <1>2 DEF Contract!Take
<1>4. Contract!Next
  BY Zenon, <1>3 DEF Contract!Next
<1> QED BY Zenon, <1>4 DEF Step

\* A reply opens the entry of the subscribe it answers, which was never open.
LEMMA ReplyOpens ==
  ASSUME IInv, AckFresh, RouteReply
  PROVE  Step
<1> DEFINE r == Head(toClient)
           c == pending[r.id]
<1>1. /\ toClient # <<>> /\ toClient' = Tail(toClient)
      /\ r.type \in {"ack", "other", "error"}
      /\ subs' = IF /\ r.id \in DOMAIN pending
                   /\ kind[c] = "sub"
                   /\ r.type = "ack"
                THEN [subs EXCEPT ![r.sub] = c]
                ELSE subs
      /\ UNCHANGED <<uses, sent, ch, chClosed, dropped>>
  BY Zenon DEF RouteReply, Reads, TakePending, entryVars, serverVars
<1>2. TypeOK /\ Safe
  BY Zenon DEF IInv
<1>3. toClient \in Seq(Frame) /\ Tail(toClient) \in Seq(Frame)
  BY Zenon, <1>1, <1>2, FrameKinds DEF TypeOK, NodeTypeOK
<1>4. CASE ~(r.id \in DOMAIN pending /\ kind[c] = "sub" /\ r.type = "ack")
  <2>1. UNCHANGED subs
    BY Zenon, <1>1, <1>4
  <2> QED BY Zenon, <1>1, <2>1, Stutters
<1>5. CASE r.id \in DOMAIN pending /\ kind[c] = "sub" /\ r.type = "ack"
  <2>1. c \in Calls /\ r.sub \in SubIds
    BY Zenon, <1>1, <1>2, <1>5, FrameKinds DEF TypeOK, ClientTypeOK
  <2>2. subs' = [subs EXCEPT ![r.sub] = c]
    BY Zenon, <1>1, <1>5
  <2>4. subs[r.sub] = None
    <3>1. 1 \in DOMAIN toClient /\ toClient[1] = r
      BY <1>1, <1>3
    <3> QED BY Zenon, <1>5, <2>1, <3>1 DEF AckFresh, AckAt
  <2>5. \A s \in SubIds : subs'[s] = IF s = r.sub THEN c ELSE subs[s]
    BY <1>2, <2>1, <2>2 DEF TypeOK, ClientTypeOK
  <2>6. c \notin Registered
    BY Zenon, <1>2, <1>5 DEF Safe, EntryInv, Registered
  <2>7. ~chClosed[c]
    <3>1. err = None
      BY Zenon, <1>2, <1>5 DEF Safe, NothingRegisteredAfterFailure
    <3>2. pc[c] \in InRequest
      BY Zenon, <1>2, <1>5 DEF Safe, PendingInv
    <3>3. pc[c] # "released" /\ kind[c] # "unsub"
      BY <1>5, <3>2 DEF InRequest
    <3> QED BY Zenon, <1>2, <2>1, <3>1, <3>3 DEF Safe, EntryClosedOnlyByOwner
  <2> HIDE DEF c, r
  <2>8. Registered' = Registered \cup {c}
    <3>1. ASSUME NEW d \in Registered'
          PROVE  d \in Registered \cup {c}
      BY Zenon, <2>5, <3>1 DEF Registered
    <3>2. c \in Registered'
      BY Zenon, <2>1, <2>5, ConstantsAssumption DEF Registered
    <3>3. ASSUME NEW d \in Registered
          PROVE  d \in Registered'
      <4>1. PICK s \in SubIds : subs[s] = d /\ d # None
        BY Zenon, <3>3 DEF Registered
      <4>2. subs'[s] = d
        BY Zenon, <2>4, <2>5, <4>1
      <4> QED BY Zenon, <4>1, <4>2 DEF Registered
    <3> QED BY <3>1, <3>2, <3>3
  <2>9. \A d \in Calls : Status(d)' = IF d = c THEN "open" ELSE Status(d)
    BY Zenon, <1>1, <2>7, <2>8 DEF Status
  <2>10. [d \in Calls |-> Status(d)]' = [[d \in Calls |-> Status(d)] EXCEPT ![c] = "open"]
    BY Zenon, <2>1, <2>9
  <2>11. [d \in Calls |-> Status(d)][c] = "none"
    BY Zenon, <2>1, <2>6, <2>7 DEF Status
  <2>12. Contract!Open(c)
    BY Zenon, <1>1, <2>10, <2>11 DEF Contract!Open
  <2>13. Contract!Next
    BY Zenon, <2>1, <2>12 DEF Contract!Next
  <2> QED BY Zenon, <2>13 DEF Step
<1> QED BY <1>4, <1>5

\* Every step of the client and of a node that has used an id once is a step
\* of the contract.
LEMMA ContractStep ==
  ASSUME DInv, IdsUsedOnce, [Next]_vars
  PROVE  Step
<1> USE DEF clientVars, entryVars
<1>t. TypeOK /\ IInv /\ EntryInv /\ HandleInv /\ OrderInv /\ AckFresh
  BY Zenon DEF DInv, IInv, Safe, Flow
<1>1. ASSUME NEW c \in Calls,
             \/ CallStep(c) \/ LockWrite(c) \/ AwaitCancel(c) \/ RecvClosed(c)
      PROVE  Step
  <2>1. UNCHANGED <<subs, chClosed, ch, dropped>>
    BY Zenon, <1>1
       DEF CallStep, Register, LockWrite, Write, Abandon, AwaitReply, AwaitFailure, AwaitCancel,
           RecvClosed
  <2> QED BY Zenon, <2>1, Stutters
<1>2. ASSUME NEW c \in Calls, Release(c) \/ Unsubscribe(c)
      PROVE  Step
  <2>1. handle[c] \in SubIds /\ ReleaseEntry(c) /\ UNCHANGED <<ch, dropped>>
    BY Zenon, <1>2, <1>t DEF Release, Unsubscribe, HandleInv
  <2> QED BY Zenon, <1>t, <2>1, ReleaseShuts
<1>3. ASSUME NEW c \in Calls, RecvNote(c)
      PROVE  Step
  BY Zenon, <1>3, <1>t, RecvTakes
<1>4. CASE RouteNote \/ RouteReply
  BY Zenon, <1>4, <1>t, RouteDelivers, ReplyOpens
<1>5. CASE \/ DeliverReply \/ ReadPing \/ PongLock \/ Pong \/ ReadClose \/ ReadError \/ ReadLoopExit
           \/ CloseWrite \/ CloseConn \/ CloseCall \/ CloseLock
  <2>1. UNCHANGED <<subs, chClosed, ch, dropped>>
    BY Zenon, <1>5
       DEF DeliverReply, ReadPing, PongLock, Pong, ReadClose, ReadError, ReadLoopExit, CloseWrite,
           CloseConn, CloseCall, CloseLock
  <2> QED BY Zenon, <2>1, Stutters
<1>6. CASE ReadLoopFail \/ CloseFail
  <2>1. \E e : fail(e)
    BY Zenon, <1>6 DEF ReadLoopFail, CloseFail
  <2>2. UNCHANGED <<ch, dropped>>
    BY Zenon, <1>6 DEF ReadLoopFail, CloseFail
  <2> QED BY Zenon, <1>t, <2>1, <2>2, FailShuts
<1>7. CASE ServerStep \/ UNCHANGED vars
  <2>1. UNCHANGED <<subs, chClosed, ch, dropped>>
    BY Zenon, <1>7
       DEF ServerStep, ServerReads, ServerSubscribe, ServerUnsubscribe, ServerPongOrClose,
           ServerNotify, ServerPing, ServerGone, vars
  <2> QED BY Zenon, <2>1, Stutters
<1> QED
  BY Zenon, <1>1, <1>2, <1>3, <1>4, <1>5, <1>6, <1>7 DEF Next, RecvStep, ReadLoopStep, CloseStep

\* A new client is a new contract.
LEMMA ContractInit == Init => Contract!Init
<1> SUFFICES ASSUME Init
             PROVE  Contract!Init
  BY Zenon
<1>1. Registered = {}
  BY DEF Init, Registered
<1>2. \A c \in Calls : ~chClosed[c]
  BY Zenon DEF Init
<1>3. [c \in Calls |-> Status(c)] = [c \in Calls |-> "none"]
  BY Zenon, <1>1, <1>2 DEF Status
<1> QED BY Zenon, <1>3 DEF Contract!Init, Init

\* As long as the node has given no id to a second subscription, every step of
\* the client is a step of the contract of a subscription or leaves it alone,
\* for any number of calls, ids and notifications and any capacity: whatever
\* the interleaving of the read loop, the requests, Release and Close, an entry
\* is opened once, fed in order or counted as dropped while it is open, and
\* shut once.
THEOREM ClientImplementsContract == Spec => ImplementsContract
<1>1. DInv /\ [Next]_vars
        => [IdsUsedOnce /\ ~UNCHANGED Contract!vars => Contract!Next]_vars
  BY Zenon, ContractStep DEF Step
<1> QED
  BY <1>1, ContractInit, DeliveryInvariance, PTL DEF Spec, ImplementsContract

\* A node that does not reuse ids has used each once.
LEMMA NeverReused ==
  ASSUME ReuseIds = FALSE
  PROVE  Spec => []IdsUsedOnce
<1>1. Init => IdsUsedOnce
  <2> SUFFICES ASSUME Init
               PROVE  IdsUsedOnce
    BY Zenon
  <2>1. \A s \in SubIds : uses[s] = 0
    BY Zenon DEF Init
  <2>2. 0 <= 1
    OBVIOUS
  <2> QED BY Zenon, <2>1, <2>2 DEF IdsUsedOnce
<1>2. TypeOK /\ IdsUsedOnce /\ [Next]_vars => IdsUsedOnce'
  <2> SUFFICES ASSUME TypeOK, IdsUsedOnce, [Next]_vars
               PROVE  IdsUsedOnce'
    BY Zenon
  <2>1. uses' = uses \/ \E s \in SubIds : uses[s] = 0 /\ uses' = [uses EXCEPT ![s] = @ + 1]
    BY Zenon, IdsHandedOut
  <2>2. uses \in [SubIds -> Nat]
    BY Zenon DEF TypeOK, NodeTypeOK
  <2> QED BY <2>1, <2>2 DEF IdsUsedOnce
<1> QED BY <1>1, <1>2, TypeCorrect, PTL DEF Spec

\* With a node that never reuses an id the client implements the whole contract
\* (the tables of route, Release and fail are those of SubscriptionContract).
THEOREM ContractWithoutReuse ==
  ASSUME ReuseIds = FALSE
  PROVE  Spec => Contract!Spec
<1>1. DInv /\ IdsUsedOnce /\ [Next]_vars => [Contract!Next]_(Contract!vars)
  BY Zenon, ContractStep DEF Step
<1> QED
  BY <1>1, ContractInit, DeliveryInvariance, NeverReused, PTL DEF Spec, Contract!Spec
=============================================================================
