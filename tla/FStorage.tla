------------------------------ MODULE FStorage ------------------------------
(***************************************************************************)
(* The flash queue of libraries/fstorage/fstorage.c.  Operations wait in a *)
(* ring; the one at rp is handed, chunk by chunk (page by page for an      *)
(* erase), to the SoftDevice, which executes one request at a time and     *)
(* answers with a system event.  The handler of system events runs to      *)
(* completion, with the callbacks it makes, in one interrupt.              *)
(***************************************************************************)
EXTENDS Integers, Sequences

CONSTANTS
    Ops,          \* identities of the operations (p_context)
    NoOp,         \* the content of a zeroed ring element
    QueueSize,    \* FS_QUEUE_SIZE
    MaxRetries,   \* FS_OP_MAX_RETRIES
    MaxWrite,     \* FS_MAX_WRITE_SIZE_WORDS
    MaxLen,       \* bound: the longest operation that is requested
    MaxEvents,    \* bound: system events waiting for the handler
    ForeignUsers, \* TRUE when other modules call sd_flash_* on their own
    StrayEvents,  \* TRUE when system events not about flash are dispatched too
    SdRejects     \* TRUE when the SoftDevice may refuse a request outright

ASSUME FStorageAssumption ==
    /\ QueueSize \in Nat \ {0}
    /\ MaxRetries \in Nat
    /\ MaxWrite \in Nat \ {0}
    /\ MaxLen \in Nat \ {0}
    /\ MaxEvents \in Nat
    /\ NoOp \notin Ops
    /\ {ForeignUsers, StrayEvents, SdRejects} \subseteq BOOLEAN

VARIABLES
    m,       \* the module's statics: m_queue, m_flags, m_retry_count
    sd,      \* the request the SoftDevice is executing
    evts,    \* system events not handled yet, oldest first
    left,    \* history: how much of each operation is not in flash yet
    outcome  \* history: the last event sent for each operation

vars == <<m, sd, evts, left, outcome>>

Slots == 0 .. QueueSize - 1

Idle == [by |-> "none", op |-> NoOp, rest |-> 0]

FreeSlot == [op |-> NoOp, code |-> "none", len |-> 0, done |-> 0]

\* The range of fs_op_t and of the statics.
OpRecords ==
    [op : Ops \cup {NoOp}, code : {"none", "store", "erase"}, len : Nat, done : Nat]

Statics ==
    [op : [Slots -> OpRecords], rp : Slots, count : 0 .. QueueSize,
     processing : BOOLEAN, reqPending : BOOLEAN, initialized : BOOLEAN,
     retry : 0 .. MaxRetries]

-----------------------------------------------------------------------------
(* The ring.                                                               *)

\* Index of the i-th element of the ring counted from rp.
SlotOf(q, i) == IF q.rp + i < QueueSize THEN q.rp + i ELSE q.rp + i - QueueSize

Element(q, i) == q.op[SlotOf(q, i)]

HeadOp(q) == q.op[q.rp]

\* The operations in the ring, oldest first.
Pending(q) == [i \in 1 .. q.count |-> Element(q, i - 1).op]

Queued(q, o) == \E i \in 0 .. q.count - 1 : Element(q, i).op = o

\* What one request to the SoftDevice covers of an operation.
Chunk(r) ==
    IF r.code = "erase" THEN 1
    ELSE IF r.len - r.done < MaxWrite THEN r.len - r.done ELSE MaxWrite

\* queue_get_next_free, and the initialisation of the element by the caller.
Enqueue(q, o, code, n) ==
    [q EXCEPT !.op[SlotOf(q, q.count)] = [op |-> o, code |-> code, len |-> n, done |-> 0],
              !.count = @ + 1]

\* Slip: the flag stays when the ring runs empty.
queue_advance_KeepsFlag(q) ==
    [q EXCEPT !.op[q.rp] = FreeSlot,
              !.count = @ - 1,
              !.rp = IF @ + 1 = QueueSize THEN 0 ELSE @ + 1]

\* The element that leaves is zeroed here and not, as in the code, when
\* queue_get_next_free takes it again: nothing reads it in between.
queue_advance(q) ==
    [q EXCEPT !.op[q.rp] = FreeSlot,
              !.count = @ - 1,
              !.processing = @ /\ q.count - 1 # 0,
              !.rp = IF @ + 1 = QueueSize THEN 0 ELSE @ + 1]

\* queue_process, when q, out are the statics and events so far: the head is
\* handed to the SoftDevice, which is busy, accepts it, or refuses it.  A
\* refused operation is reported and stays where it is.
queue_process(q, out) ==
    \/ /\ q.count = 0
       /\ m' = q /\ outcome' = out
       /\ UNCHANGED sd
    \/ /\ q.count > 0 /\ sd # Idle
       /\ m' = [q EXCEPT !.processing = FALSE, !.reqPending = TRUE]
       /\ outcome' = out
       /\ UNCHANGED sd
    \/ /\ q.count > 0 /\ sd = Idle
       /\ m' = q /\ outcome' = out
       /\ sd' = [by |-> "fstorage", op |-> HeadOp(q).op,
                 rest |-> HeadOp(q).len - HeadOp(q).done - Chunk(HeadOp(q))]
    \/ /\ q.count > 0 /\ sd = Idle /\ SdRejects
       /\ m' = q /\ outcome' = [out EXCEPT ![HeadOp(q).op] = "internal"]
       /\ UNCHANGED sd

queue_start(q, out) ==
    IF ~q.processing /\ ~q.reqPending
    THEN queue_process([q EXCEPT !.processing = TRUE], out)
    ELSE m' = q /\ outcome' = out /\ UNCHANGED sd

-----------------------------------------------------------------------------
(* Calls of the clients.                                                   *)

fs_init ==
    /\ ~m.initialized
    /\ m' = [m EXCEPT !.initialized = TRUE]
    /\ UNCHANGED <<sd, evts, left, outcome>>

\* Slip: a full ring is not noticed.
Request_NoFullCheck(o, code, n) ==
    /\ m.initialized
    /\ ~Queued(m, o)
    /\ left' = [left EXCEPT ![o] = n]
    /\ queue_start(Enqueue(m, o, code, n), [outcome EXCEPT ![o] = "none"])
    /\ UNCHANGED evts

\* fs_store and fs_erase, with arguments that pass the checks.
Request(o, code, n) ==
    /\ m.initialized
    /\ ~Queued(m, o)
    /\ m.count # QueueSize
    /\ left' = [left EXCEPT ![o] = n]
    /\ queue_start(Enqueue(m, o, code, n), [outcome EXCEPT ![o] = "none"])
    /\ UNCHANGED evts

fs_store(o, n) == Request(o, "store", n)
fs_erase(o, n) == Request(o, "erase", n)

-----------------------------------------------------------------------------
(* fs_sys_event_handler.                                                   *)

\* Slip: the ring is advanced, and the next operation not started.
Finish_NoResume(q, r) ==
    /\ m' = queue_advance(q)
    /\ outcome' = [outcome EXCEPT ![HeadOp(q).op] = r]
    /\ UNCHANGED <<sd, left>>

\* Slip: the event is sent after queue_advance, for what is the head then.
Finish_AdvanceFirst(q, r) ==
    /\ queue_process(queue_advance(q),
                     [outcome EXCEPT ![HeadOp(queue_advance(q)).op] = r])
    /\ UNCHANGED left

\* The head of q is answered with r: the callback, which may submit another
\* operation (FS_FLAG_PROCESSING is set, so that only enqueues it), then
\* queue_advance, then the queue_process the handler ends with.
Finish(q, r) ==
    LET out == [outcome EXCEPT ![HeadOp(q).op] = r] IN
    \/ /\ queue_process(queue_advance(q), out)
       /\ UNCHANGED left
    \/ \E o \in Ops, code \in {"store", "erase"}, n \in 1 .. MaxLen :
          /\ ~Queued(q, o)
          /\ q.count # QueueSize
          /\ left' = [left EXCEPT ![o] = n]
          /\ queue_process(queue_advance(Enqueue(q, o, code, n)),
                           [out EXCEPT ![o] = "none"])

Progressed(q) ==
    [q EXCEPT !.retry = 0, !.op[q.rp].done = @ + Chunk(HeadOp(q))]

on_operation_success ==
    LET q == Progressed(m) IN
    IF HeadOp(q).done = HeadOp(q).len
    THEN Finish(q, "success")
    ELSE queue_process(q, outcome) /\ UNCHANGED left

\* Slip: the failures are not counted.
on_operation_failure_Uncounted ==
    /\ queue_process(m, outcome)
    /\ UNCHANGED left

\* Slip: the operation that timed out is reported but not removed.
on_operation_failure_NotRemoved ==
    IF m.retry + 1 > MaxRetries
    THEN /\ queue_process([m EXCEPT !.retry = 0],
                          [outcome EXCEPT ![HeadOp(m).op] = "timeout"])
         /\ UNCHANGED left
    ELSE /\ queue_process([m EXCEPT !.retry = @ + 1], outcome)
         /\ UNCHANGED left

on_operation_failure ==
    IF m.retry + 1 > MaxRetries
    THEN Finish([m EXCEPT !.retry = 0], "timeout")
    ELSE /\ queue_process([m EXCEPT !.retry = @ + 1], outcome)
         /\ UNCHANGED left

\* Slip: a failed request counts as progress.
OnOwnResult_ErrorIsProgress(e) ==
    /\ m.processing
    /\ e \in {"success", "error"}
    /\ on_operation_success

\* FS_FLAG_PROCESSING: the event is taken as the result of the request this
\* module has made; an event that is not about flash only leads to another
\* queue_process.
OnOwnResult(e) ==
    /\ m.processing
    /\ \/ e = "success" /\ on_operation_success
       \/ e = "error" /\ on_operation_failure
       \/ e = "other" /\ queue_process(m, outcome) /\ UNCHANGED left

\* Slip: FS_FLAG_FLASH_REQ_PENDING is not cleared.
OnForeignResult_KeepsFlag ==
    /\ ~m.processing
    /\ m.reqPending
    /\ queue_process([m EXCEPT !.processing = m.count > 0], outcome)
    /\ UNCHANGED left

\* Slip: the ring is marked as processing but not processed.
OnForeignResult_NoResume ==
    /\ ~m.processing
    /\ m.reqPending
    /\ m' = [m EXCEPT !.reqPending = FALSE, !.processing = m.count > 0]
    /\ UNCHANGED <<sd, outcome, left>>

\* The event ends the wait for a request made outside this module.
OnForeignResult ==
    /\ ~m.processing
    /\ m.reqPending
    /\ queue_process([m EXCEPT !.reqPending = FALSE, !.processing = m.count > 0], outcome)
    /\ UNCHANGED left

OnUnexpectedEvent ==
    /\ ~m.processing
    /\ ~m.reqPending
    /\ queue_process(m, outcome)
    /\ UNCHANGED left

fs_sys_event_handler ==
    /\ evts # <<>>
    /\ evts' = Tail(evts)
    /\ OnOwnResult(Head(evts)) \/ OnForeignResult \/ OnUnexpectedEvent

-----------------------------------------------------------------------------
(* The SoftDevice: sd_flash_write and sd_flash_page_erase complete.        *)

SdComplete ==
    /\ sd # Idle
    /\ Len(evts) < MaxEvents
    /\ sd' = Idle
    /\ \E e \in {"success", "error"} :
          /\ evts' = Append(evts, e)
          /\ left' = IF e = "success" /\ sd.by = "fstorage"
                     THEN [left EXCEPT ![sd.op] = sd.rest]
                     ELSE left
    /\ UNCHANGED <<m, outcome>>

\* Another module starts a flash request of its own.
SdForeignRequest ==
    /\ ForeignUsers
    /\ sd = Idle
    /\ sd' = [by |-> "other", op |-> NoOp, rest |-> 0]
    /\ UNCHANGED <<m, evts, left, outcome>>

\* A system event that is not about flash.
SdStrayEvent ==
    /\ StrayEvents
    /\ Len(evts) < MaxEvents
    /\ evts' = Append(evts, "other")
    /\ UNCHANGED <<m, sd, left, outcome>>

-----------------------------------------------------------------------------

Init ==
    /\ m = [op |-> [s \in Slots |-> FreeSlot], rp |-> 0, count |-> 0,
            processing |-> FALSE, reqPending |-> FALSE, initialized |-> FALSE, retry |-> 0]
    /\ sd = Idle
    /\ evts = <<>>
    /\ left = [o \in Ops |-> 0]
    /\ outcome = [o \in Ops |-> "none"]

Next ==
    \/ fs_init
    \/ \E o \in Ops, n \in 1 .. MaxLen : fs_store(o, n) \/ fs_erase(o, n)
    \/ fs_sys_event_handler
    \/ SdComplete
    \/ SdForeignRequest
    \/ SdStrayEvent

Spec == Init /\ [][Next]_vars

\* The SoftDevice completes what it has accepted, and its event interrupt is
\* taken: both are promised by the hardware and the interrupt priorities.
FairSpec == Spec /\ WF_vars(SdComplete) /\ WF_vars(fs_sys_event_handler)

-----------------------------------------------------------------------------
(* Properties.                                                             *)

TypeOK ==
    /\ m \in Statics
    /\ sd \in [by : {"none", "fstorage", "other"}, op : Ops \cup {NoOp}, rest : Nat]
    /\ evts \in Seq({"success", "error", "other"})
    /\ left \in [Ops -> Nat]
    /\ outcome \in [Ops -> {"none", "success", "timeout", "internal"}]

\* Whenever the ring holds an operation, exactly one of the two flags says
\* who drives it: m_flags PROCESSING (its own request) or FLASH_REQ_PENDING
\* (a foreign one); with an empty ring neither is set.  If it failed, either
\* queue_start would never run the ring again or queue_advance would count
\* below zero.
FlagsMatchQueue ==
    /\ ~(m.processing /\ m.reqPending)
    /\ m.processing \/ m.reqPending <=> m.count > 0

\* No wake-up is lost: while the ring holds an operation and the SoftDevice
\* refused none, a request is executing or an event is on its way that will
\* make fs_sys_event_handler look at the ring again.
NoLostWakeup ==
    m.count > 0 => \/ sd # Idle
                   \/ evts # <<>>
                   \/ outcome[HeadOp(m).op] = "internal"

\* An operation is not queued twice, and its progress never reaches its
\* length while it waits: on_operation_success tests for equality, so a
\* progress beyond the length would never end.
ProgressInRange ==
    /\ \A i \in 0 .. m.count - 1 :
          Element(m, i).op \in Ops /\ Element(m, i).done < Element(m, i).len
    /\ \A i, j \in 0 .. m.count - 1 :
          Element(m, i).op = Element(m, j).op => i = j

\* fstorage.h: "Only one event will be sent to the application upon
\* completion" - an operation that got its event has left the ring.
AnsweredLeavesQueue ==
    \A o \in Ops : Queued(m, o) => outcome[o] = "none"

\* fstorage.c, fs_sys_event_handler: with FS_FLAG_PROCESSING set, "A flash
\* operation was initiated by this module. Handle the result." - no part of
\* an operation is counted as done that is not in flash.
ProgressIsPhysical ==
    \A i \in 0 .. m.count - 1 :
       LET r == Element(m, i) IN r.len - r.done >= left[r.op]

\* Every operation that is accepted is answered in the end.
EveryRequestAnswered ==
    \A o \in Ops : Queued(m, o) ~> ~Queued(m, o)

\* The queue keeps the promise of the flash service.
Service == INSTANCE FlashService WITH pending <- Pending(m)

ServiceSpec == Service!FairSpec

=============================================================================
