----------------------------- MODULE EventQueue -----------------------------
(***************************************************************************)
(* What the event scheduler promises its users: a bounded queue from the   *)
(* interrupts to the main loop.  Accepted events are handled one after the *)
(* other, in the order of their acceptance, each exactly once; an event    *)
(* keeps its place in the queue until its handler has returned.            *)
(***************************************************************************)
EXTENDS Naturals, Sequences

CONSTANTS Events, Capacity

VARIABLES
    q,        \* accepted events, oldest first
    handling  \* whether the handler of the oldest event runs

qVars == <<q, handling>>

Init == q = <<>> /\ handling = FALSE

Accept(e) ==
    /\ Len(q) < Capacity
    /\ q' = Append(q, e)
    /\ UNCHANGED handling

Begin ==
    /\ ~handling /\ q # <<>>
    /\ handling' = TRUE
    /\ UNCHANGED q

Finish ==
    /\ handling
    /\ q' = Tail(q)
    /\ handling' = FALSE

Next == (\E e \in Events : Accept(e)) \/ Begin \/ Finish

Spec == Init /\ [][Next]_qVars

FairSpec == Spec /\ WF_qVars(Begin) /\ WF_qVars(Finish)

=============================================================================
