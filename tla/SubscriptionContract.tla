------------------------ MODULE SubscriptionContract ------------------------
(***************************************************************************)
(* What src/ws promises the user of a Subscription, whatever the           *)
(* connection does: a bounded queue of notifications that is opened once,  *)
(* filled in order or, when full, counted as dropped, shut once and for    *)
(* ever, and still drained after it was shut.                              *)
(***************************************************************************)
EXTENDS Naturals, Sequences

CONSTANTS
  Calls,    \* the subscriptions
  Buffer,   \* capacity of each queue
  Notes     \* the notifications

VARIABLES
  status,   \* per subscription: "none", "open" or "shut"
  queue,    \* per subscription: notifications buffered
  lost      \* per subscription: notifications dropped

vars == <<status, queue, lost>>

Init ==
  /\ status = [c \in Calls |-> "none"]
  /\ queue = [c \in Calls |-> <<>>]
  /\ lost = [c \in Calls |-> 0]

Open(c) ==
  /\ status[c] = "none"
  /\ status' = [status EXCEPT ![c] = "open"]
  /\ UNCHANGED <<queue, lost>>

Deliver(c, n) ==
  /\ status[c] = "open"
  /\ \/ /\ Len(queue[c]) < Buffer
        /\ queue' = [queue EXCEPT ![c] = Append(@, n)]
        /\ UNCHANGED lost
     \/ /\ Len(queue[c]) = Buffer
        /\ lost' = [lost EXCEPT ![c] = @ + 1]
        /\ UNCHANGED queue
  /\ UNCHANGED status

Take(c) ==
  /\ queue[c] # <<>>
  /\ queue' = [queue EXCEPT ![c] = Tail(@)]
  /\ UNCHANGED <<status, lost>>

\* Release shuts one queue; the end of the connection shuts all that are open.
Shut(S) ==
  /\ \A c \in S : status[c] = "open"
  /\ status' = [c \in Calls |-> IF c \in S THEN "shut" ELSE status[c]]
  /\ UNCHANGED <<queue, lost>>

Next ==
  \/ \E c \in Calls : Open(c) \/ Take(c) \/ \E n \in Notes : Deliver(c, n)
  \/ \E S \in (SUBSET Calls) \ {{}} : Shut(S)

Spec == Init /\ [][Next]_vars

=============================================================================
