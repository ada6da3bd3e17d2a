---------------------------- MODULE AppScheduler ----------------------------
(***************************************************************************)
(* app_scheduler.c: interrupts put events into a ring, the main loop takes *)
(* them out and runs their handlers.  Putting is two steps, the place is   *)
(* reserved in a critical region and filled outside of it, and interrupts  *)
(* of higher priority come between them.  The bootloader's handlers also   *)
(* call app_sched_execute again, through nrf_dfu_wait, before they return. *)
(***************************************************************************)
EXTENDS Integers, Sequences, SequencesExt

CONSTANTS
    Events,     \* the event handlers that are put
    NoHandler,  \* the content of a ring entry that was never used
    QueueSize,  \* m_queue_size
    Levels,     \* bound: puts that interrupt one another
    Depth       \* bound: calls of app_sched_execute inside one another

ASSUME AppSchedulerAssumption ==
    /\ QueueSize \in 1 .. 255
    /\ Levels \in Nat \ {0}
    /\ Depth \in Nat \ {0}
    /\ NoHandler \notin Events

VARIABLES
    headers,  \* m_queue_event_headers
    start,    \* m_queue_start_index
    end,      \* m_queue_end_index
    puts,     \* puts under way, the running one last: their entry and event
    main,     \* handlers under way, the innermost last: what they read
    loop      \* whether the thread is at the head of app_sched_execute's loop

vars == <<headers, start, end, puts, main, loop>>

Index == 0 .. QueueSize

\* Slip: the ring has one entry more than the buffer.
next_index_Beyond(index) == IF index <= QueueSize THEN index + 1 ELSE 0

next_index(index) == IF index < QueueSize THEN index + 1 ELSE 0

\* Slip: the ring is taken to be full one entry too late.
app_sched_queue_full_Late == FALSE

app_sched_queue_full == next_index(end) = start

app_sched_queue_empty == end = start

\* Slip: the ring is taken to have QueueSize entries.
app_sched_queue_space_get_ShortRing ==
    QueueSize - IF end >= start THEN end - start ELSE QueueSize - start + end

app_sched_queue_space_get ==
    QueueSize - IF end >= start THEN end - start ELSE QueueSize + 1 - start + end

Init ==
    /\ headers = [i \in Index |-> NoHandler]
    /\ start = 0 /\ end = 0
    /\ puts = <<>> /\ main = <<>> /\ loop = TRUE

\* app_sched_event_put, the critical region: called by an interrupt, or by a
\* handler in the main loop.  With a full ring the caller gets NO_MEM.
Reserve(e) ==
    /\ Len(puts) < Levels
    /\ ~app_sched_queue_full
    /\ puts' = Append(puts, [at |-> end, event |-> e])
    /\ end' = next_index(end)
    /\ UNCHANGED <<headers, start, main, loop>>

\* app_sched_event_put, after the critical region.
Fill ==
    /\ puts # <<>>
    /\ headers' = [headers EXCEPT ![Last(puts).at] = Last(puts).event]
    /\ puts' = Front(puts)
    /\ UNCHANGED <<start, end, main, loop>>

\* Slip: the entry is given free before its handler has run.
Execute_FreesFirst ==
    /\ puts = <<>> /\ loop /\ ~app_sched_queue_empty
    /\ main' = Append(main, headers[start])
    /\ start' = next_index(start)
    /\ loop' = FALSE
    /\ UNCHANGED <<headers, end, puts>>

\* app_sched_execute: the entry at the start is read and its handler called.
Execute ==
    /\ puts = <<>> /\ loop /\ ~app_sched_queue_empty
    /\ main' = Append(main, headers[start])
    /\ loop' = FALSE
    /\ UNCHANGED <<headers, start, end, puts>>

\* The handler returns and the start moves on.
Return ==
    /\ puts = <<>> /\ ~loop /\ main # <<>>
    /\ main' = Front(main)
    /\ start' = next_index(start)
    /\ loop' = TRUE
    /\ UNCHANGED <<headers, end, puts>>

\* A handler calls app_sched_execute (nrf_dfu_wait of nrf_dfu.c) ...
Wait ==
    /\ puts = <<>> /\ ~loop /\ Len(main) < Depth
    /\ loop' = TRUE
    /\ UNCHANGED <<headers, start, end, puts, main>>

\* ... which returns to it when the ring is empty.
WaitEnds ==
    /\ puts = <<>> /\ loop /\ app_sched_queue_empty /\ main # <<>>
    /\ loop' = FALSE
    /\ UNCHANGED <<headers, start, end, puts, main>>

Next ==
    \/ \E e \in Events : Reserve(e)
    \/ Fill \/ Execute \/ Return \/ Wait \/ WaitEnds

Spec == Init /\ [][Next]_vars

\* Interrupts end and leave the main loop time; handlers return.
Fairness == WF_vars(Fill) /\ SF_vars(Execute) /\ SF_vars(Return)

FairSpec == Spec /\ Fairness

\* app_sched_execute is only called from a main loop, as the application's
\* main.c does: no handler waits.
AppNext ==
    \/ \E e \in Events : Reserve(e)
    \/ Fill \/ Execute \/ Return

AppSpec == Init /\ [][AppNext]_vars /\ Fairness

-----------------------------------------------------------------------------
(* Properties.                                                             *)

TypeOK ==
    /\ headers \in [Index -> Events \cup {NoHandler}]
    /\ start \in Index /\ end \in Index
    /\ puts \in Seq([at : Index, event : Events])
    /\ main \in Seq(Events \cup {NoHandler})
    /\ loop \in BOOLEAN

\* app_sched_queue_space_get tells a caller, at any moment, that there is room
\* exactly when a put would be accepted.
SpaceIsRoom ==
    /\ app_sched_queue_space_get \in 0 .. QueueSize
    /\ app_sched_queue_space_get > 0 <=> ~app_sched_queue_full

\* What is in the ring, as its users see it: the events between the start and
\* the end, those too whose put has not filled its entry yet.
Used ==
    IF end >= start THEN end - start ELSE end - start + QueueSize + 1

\* The entry that is k entries behind the start.
Entry(k) ==
    IF start + k <= QueueSize THEN start + k ELSE start + k - QueueSize - 1

EventIn(p, h, i) ==
    IF \E k \in DOMAIN p : p[k].at = i
    THEN p[CHOOSE k \in DOMAIN p : p[k].at = i].event
    ELSE h[i]

Contents == [k \in 1 .. Used |-> EventIn(puts, headers, Entry(k - 1))]

Queue == INSTANCE EventQueue WITH
    Capacity <- QueueSize, q <- Contents, handling <- main # <<>>

\* The scheduler is the FIFO event queue it stands for: whatever interrupts a
\* put, no event is lost, overtaken, run twice or run before it is there.
QueueSpec == Queue!FairSpec

\* The handler that runs is the one of the oldest event, so nothing has
\* overwritten the entry while it was in use.
RunsOldest == main # <<>> => Used > 0 /\ main[1] = Contents[1]

=============================================================================
