---------------------------- MODULE FlashService ----------------------------
(***************************************************************************)
(* What the flash layer promises its clients (the contract of fs_store and *)
(* fs_erase): accepted operations are carried out one at a time, in the    *)
(* order of acceptance, and each one is answered by exactly one event; an  *)
(* event that reports success is sent only once all of the operation is in *)
(* flash.  FStorage is the queue that keeps the promise.                   *)
(***************************************************************************)
EXTENDS Naturals, Sequences

CONSTANTS
    Ops,        \* identities of the operations, the p_context of a call
    QueueSize,  \* FS_QUEUE_SIZE
    MaxLen      \* longest operation: words of a store, pages of an erase

VARIABLES
    pending,    \* accepted operations without an event, oldest first
    left,       \* how much of each operation is not in flash yet
    outcome     \* the event that answered each operation last

vars == <<pending, left, outcome>>

Outcomes == {"success", "timeout"}

Queued(o) == \E i \in 1 .. Len(pending) : pending[i] = o

Init ==
    /\ pending = <<>>
    /\ left = [o \in Ops |-> 0]
    /\ outcome = [o \in Ops |-> "none"]

\* A request is taken into the queue.
Accept(o, n) ==
    /\ ~Queued(o)
    /\ Len(pending) < QueueSize
    /\ pending' = Append(pending, o)
    /\ left' = [left EXCEPT ![o] = n]
    /\ outcome' = [outcome EXCEPT ![o] = "none"]

\* A part of the oldest operation reaches the flash.
Program ==
    /\ pending # <<>>
    /\ \E n \in 0 .. MaxLen :
          /\ n < left[Head(pending)]
          /\ left' = [left EXCEPT ![Head(pending)] = n]
    /\ UNCHANGED <<pending, outcome>>

\* The oldest operation is answered.  The client's callback runs before the
\* operation leaves the queue and may submit one more operation.
Complete(r) ==
    /\ pending # <<>>
    /\ r = "success" => left[Head(pending)] = 0
    /\ \/ /\ pending' = Tail(pending)
          /\ outcome' = [outcome EXCEPT ![Head(pending)] = r]
          /\ UNCHANGED left
       \/ \E o \in Ops, n \in 1 .. MaxLen :
             /\ ~Queued(o)
             /\ Len(pending) < QueueSize
             /\ pending' = Append(Tail(pending), o)
             /\ left' = [left EXCEPT ![o] = n]
             /\ outcome' = [outcome EXCEPT ![Head(pending)] = r, ![o] = "none"]

Next ==
    \/ \E o \in Ops, n \in 1 .. MaxLen : Accept(o, n)
    \/ Program
    \/ \E r \in Outcomes : Complete(r)

Spec == Init /\ [][Next]_vars

\* The promise with progress: the oldest operation is always answered.
FairSpec == Spec /\ WF_vars(\E r \in Outcomes : Complete(r))

=============================================================================
