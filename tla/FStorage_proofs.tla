-------------------------- MODULE FStorage_proofs --------------------------
(***************************************************************************)
(* Proofs about FStorage, for every queue size, retry limit, chunk size,   *)
(* set of operations, and with or without foreign users of the flash,      *)
(* stray events and refused requests.                                      *)
(***************************************************************************)
EXTENDS FStorage, SequenceTheorems, TLAPS

\* What the elements of the ring from the i-th on look like: queued once,
\* with something left to do.
LiveFrom(q, first) ==
    /\ \A i \in first .. q.count - 1 :
          Element(q, i).op \in Ops /\ Element(q, i).done < Element(q, i).len
    /\ \A i, j \in first .. q.count - 1 :
          Element(q, i).op = Element(q, j).op => i = j

FlagsOK(q) ==
    /\ ~(q.processing /\ q.reqPending)
    /\ q.processing \/ q.reqPending <=> q.count > 0

\* The statics are well formed and the ring is ready to be processed.
Ready(q) ==
    /\ q \in Statics
    /\ LiveFrom(q, 0)
    /\ FlagsOK(q)

SdType == [by : {"none", "fstorage", "other"}, op : Ops \cup {NoOp}, rest : Nat]

OutcomeType == [Ops -> {"none", "success", "timeout", "internal"}]

\* The inductive invariant.
IInv ==
    /\ TypeOK
    /\ FlagsMatchQueue
    /\ ProgressInRange
    /\ NoLostWakeup

-----------------------------------------------------------------------------
(* Lemmas about the ring.                                                  *)

\* The i-th element is in the ring, and distinct elements have distinct slots.
LEMMA SlotInRing ==
    ASSUME NEW q \in Statics, NEW i \in 0 .. QueueSize - 1
    PROVE  SlotOf(q, i) \in Slots
  BY FStorageAssumption DEF SlotOf, Statics, Slots

LEMMA SlotsDistinct ==
    ASSUME NEW q \in Statics, NEW i \in 0 .. QueueSize - 1, NEW j \in 0 .. QueueSize - 1,
           SlotOf(q, i) = SlotOf(q, j)
    PROVE  i = j
  BY FStorageAssumption DEF SlotOf, Statics, Slots

\* The chunk of an operation with something left is at least 1 and at most
\* what is left.
LEMMA ChunkInRange ==
    ASSUME NEW r \in OpRecords, r.done < r.len
    PROVE  Chunk(r) \in 1 .. r.len - r.done
  BY FStorageAssumption DEF Chunk, OpRecords

\* Submitting an operation puts it behind the elements that are there.
LEMMA EnqueueElements ==
    ASSUME NEW q \in Statics, q.count # QueueSize,
           NEW o \in Ops, NEW code \in {"store", "erase"}, NEW n \in 1 .. MaxLen
    PROVE  LET e == Enqueue(q, o, code, n) IN
           /\ e \in Statics
           /\ e.count = q.count + 1
           /\ e.processing = q.processing /\ e.reqPending = q.reqPending
           /\ Element(e, q.count) = [op |-> o, code |-> code, len |-> n, done |-> 0]
           /\ \A i \in 0 .. q.count - 1 : Element(e, i) = Element(q, i)
  <1> DEFINE r == [op |-> o, code |-> code, len |-> n, done |-> 0]
             e == Enqueue(q, o, code, n)
             s == SlotOf(q, q.count)
  <1>1. q.count \in 0 .. QueueSize - 1
    BY FStorageAssumption DEF Statics
  <1>2. s \in Slots
    BY <1>1, SlotInRing
  <1>3. r \in OpRecords
    BY FStorageAssumption DEF OpRecords
  <1>4. /\ e.op = [q.op EXCEPT ![s] = r]
        /\ e.rp = q.rp
        /\ e.count = q.count + 1
        /\ e.processing = q.processing /\ e.reqPending = q.reqPending
    BY DEF Enqueue, Statics
  <1>5. e \in Statics
    <2>1. [q.op EXCEPT ![s] = r] \in [Slots -> OpRecords]
      BY <1>2, <1>3 DEF Statics
    <2>2. q.count + 1 \in 0 .. QueueSize
      BY <1>1, FStorageAssumption
    <2>3. e = [q EXCEPT !.op = [q.op EXCEPT ![s] = r], !.count = q.count + 1]
      BY DEF Enqueue
    <2> QED BY <2>1, <2>2, <2>3 DEF Statics
  <1>6. Element(e, q.count) = r
    BY <1>2, <1>4 DEF Element, SlotOf, Statics
  <1>7. ASSUME NEW i \in 0 .. q.count - 1
        PROVE  Element(e, i) = Element(q, i)
    <2>1. i \in 0 .. QueueSize - 1 /\ i # q.count
      BY <1>1, FStorageAssumption
    <2>2. SlotOf(q, i) # s
      BY <1>1, <2>1, SlotsDistinct
    <2>3. SlotOf(q, i) \in Slots
      BY <2>1, SlotInRing
    <2> QED BY <1>4, <2>2, <2>3 DEF Element, SlotOf, Statics
  <1> QED BY <1>4, <1>5, <1>6, <1>7

\* An operation that is not queued yet can be submitted.
LEMMA EnqueueLive ==
    ASSUME NEW q \in Statics, NEW first \in Nat, LiveFrom(q, first),
           first <= q.count,
           NEW o \in Ops, NEW code \in {"store", "erase"}, NEW n \in 1 .. MaxLen,
           ~Queued(q, o), q.count # QueueSize
    PROVE  LiveFrom(Enqueue(q, o, code, n), first)
  <1> DEFINE e == Enqueue(q, o, code, n)
  <1>1. /\ e.count = q.count + 1
        /\ Element(e, q.count) = [op |-> o, code |-> code, len |-> n, done |-> 0]
        /\ \A i \in 0 .. q.count - 1 : Element(e, i) = Element(q, i)
    BY EnqueueElements
  <1> HIDE DEF e
  <1>2. q.count \in Nat
    BY FStorageAssumption DEF Statics
  <1>3. \A i \in first .. q.count - 1 : Element(q, i).op # o
    BY <1>2 DEF Queued
  <1>4. Element(e, q.count).op = o /\ Element(e, q.count).done < Element(e, q.count).len
    BY <1>1
  <1>5. ASSUME NEW i \in first .. e.count - 1
        PROVE  Element(e, i).op \in Ops /\ Element(e, i).done < Element(e, i).len
    <2>1. CASE i = q.count
      BY <2>1, <1>4
    <2>2. CASE i \in first .. q.count - 1
      BY <2>2, <1>1, <1>2 DEF LiveFrom
    <2> QED BY <2>1, <2>2, <1>1, <1>2
  <1>6. ASSUME NEW i \in first .. e.count - 1, NEW j \in first .. e.count - 1,
               Element(e, i).op = Element(e, j).op
        PROVE  i = j
    <2>1. \A k \in first .. q.count - 1 :
             Element(e, k).op = Element(q, k).op /\ Element(e, k).op # o
      BY <1>1, <1>2, <1>3
    <2>2. i \in first .. q.count /\ j \in first .. q.count
      BY <1>1, <1>2
    <2> QED BY <1>2, <1>4, <1>6, <2>1, <2>2 DEF LiveFrom
  <1>7. LiveFrom(e, first)
    BY <1>5, <1>6 DEF LiveFrom
  <1> QED BY <1>7 DEF e

\* Removing the head moves every other element one place forward.
LEMMA AdvanceElements ==
    ASSUME NEW q \in Statics, q.count > 0
    PROVE  LET e == queue_advance(q) IN
           /\ e \in Statics
           /\ e.count = q.count - 1
           /\ e.processing = (q.processing /\ q.count - 1 # 0)
           /\ e.reqPending = q.reqPending
           /\ \A i \in 0 .. q.count - 2 : Element(e, i) = Element(q, i + 1)
  <1> DEFINE e == queue_advance(q)
  <1>1. /\ e.op = [q.op EXCEPT ![q.rp] = FreeSlot]
        /\ e.rp = IF q.rp + 1 = QueueSize THEN 0 ELSE q.rp + 1
        /\ e.count = q.count - 1
        /\ e.processing = (q.processing /\ q.count - 1 # 0)
        /\ e.reqPending = q.reqPending
    BY DEF queue_advance, Statics
  <1>2. FreeSlot \in OpRecords
    BY DEF FreeSlot, OpRecords
  <1>3. e \in Statics
    <2> DEFINE rp2 == IF q.rp + 1 = QueueSize THEN 0 ELSE q.rp + 1
    <2>1. [q.op EXCEPT ![q.rp] = FreeSlot] \in [Slots -> OpRecords]
      BY <1>2 DEF Statics
    <2>2. q.count - 1 \in 0 .. QueueSize /\ rp2 \in Slots
      BY FStorageAssumption DEF Statics, Slots
    <2>3. (q.processing /\ q.count - 1 # 0) \in BOOLEAN
      OBVIOUS
    <2>4. e = [q EXCEPT !.op = [q.op EXCEPT ![q.rp] = FreeSlot], !.count = q.count - 1,
                        !.processing = (q.processing /\ q.count - 1 # 0), !.rp = rp2]
      BY DEF queue_advance
    <2> HIDE DEF rp2
    <2> QED BY <2>1, <2>2, <2>3, <2>4 DEF Statics
  <1> HIDE DEF e
  <1>4. ASSUME NEW i \in 0 .. q.count - 2
        PROVE  Element(e, i) = Element(q, i + 1)
    <2>1. i + 1 \in 0 .. QueueSize - 1 /\ 0 \in 0 .. QueueSize - 1
      BY <1>1, FStorageAssumption DEF Statics
    <2>2. SlotOf(e, i) = SlotOf(q, i + 1)
      <3>1. i \in Nat /\ q.rp \in Nat /\ i + 1 < QueueSize /\ q.rp < QueueSize
        BY <1>1, FStorageAssumption DEF Statics, Slots
      <3> QED BY <1>1, <3>1, FStorageAssumption DEF SlotOf
    <2>3. SlotOf(q, 0) = q.rp
      BY FStorageAssumption DEF SlotOf, Statics, Slots
    <2>4. SlotOf(q, i + 1) # q.rp
      BY <2>1, <2>3, SlotsDistinct
    <2>5. SlotOf(q, i + 1) \in Slots
      BY <2>1, SlotInRing
    <2> QED BY <1>1, <2>2, <2>4, <2>5 DEF Element, Statics
  <1> QED BY <1>1, <1>3, <1>4 DEF e

\* What is left is ready when only the head was at its end.
LEMMA AdvanceReady ==
    ASSUME NEW q \in Statics, LiveFrom(q, 1), q.count > 0, q.processing, ~q.reqPending
    PROVE  Ready(queue_advance(q))
  <1> DEFINE e == queue_advance(q)
  <1>1. /\ e \in Statics
        /\ e.count = q.count - 1
        /\ e.processing = (q.processing /\ q.count - 1 # 0)
        /\ e.reqPending = q.reqPending
        /\ \A i \in 0 .. q.count - 2 : Element(e, i) = Element(q, i + 1)
    BY AdvanceElements
  <1> HIDE DEF e
  <1>2. LiveFrom(e, 0)
    <2>1. \A i \in 0 .. e.count - 1 : i \in 0 .. q.count - 2 /\ i + 1 \in 1 .. q.count - 1
      BY <1>1 DEF Statics
    <2> QED BY <1>1, <2>1 DEF LiveFrom, Statics
  <1>3. FlagsOK(e)
    BY <1>1 DEF FlagsOK, Statics
  <1> QED BY <1>1, <1>2, <1>3 DEF Ready, e

-----------------------------------------------------------------------------
(* Lemmas about the steps the handler and the calls are made of.           *)

\* LiveFrom and the ring only read op, rp and count.
LEMMA SameRing ==
    ASSUME NEW q, NEW e, NEW first \in Nat, e.op = q.op, e.rp = q.rp, e.count = q.count
    PROVE  /\ LiveFrom(e, first) <=> LiveFrom(q, first)
           /\ HeadOp(e) = HeadOp(q)
           /\ \A o : Queued(e, o) <=> Queued(q, o)
  BY DEF LiveFrom, Element, SlotOf, HeadOp, Queued

\* The head of a ring that is not empty is its element 0.
LEMMA HeadIsFirst ==
    ASSUME NEW q \in Statics
    PROVE  Element(q, 0) = HeadOp(q) /\ HeadOp(q) \in OpRecords
  BY FStorageAssumption DEF Element, SlotOf, HeadOp, Statics, Slots

\* queue_process leaves the ring ready, and it leaves a ring that is not empty
\* with a request executing or with a refusal reported.
LEMMA ProcessReady ==
    ASSUME NEW q, Ready(q), NEW out \in OutcomeType, sd \in SdType, queue_process(q, out)
    PROVE  /\ Ready(m')
           /\ sd' \in SdType
           /\ outcome' \in OutcomeType
           /\ m'.count > 0 => sd' # Idle \/ outcome'[HeadOp(m').op] = "internal"
  <1> DEFINE h == HeadOp(q)
  <1>0. q \in Statics /\ LiveFrom(q, 0) /\ FlagsOK(q)
    BY DEF Ready
  <1>1. q.count > 0 => h \in OpRecords /\ h.op \in Ops /\ h.done < h.len
    BY <1>0, HeadIsFirst DEF LiveFrom, Statics
  <1> HIDE DEF h
  <1>2. CASE q.count = 0 /\ m' = q /\ outcome' = out /\ UNCHANGED sd
    BY <1>2, <1>0 DEF Ready
  <1>3. CASE /\ q.count > 0 /\ sd # Idle
             /\ m' = [q EXCEPT !.processing = FALSE, !.reqPending = TRUE]
             /\ outcome' = out
             /\ UNCHANGED sd
    <2>1. m' \in Statics
      BY <1>0, <1>3 DEF Statics
    <2>2. m'.op = q.op /\ m'.rp = q.rp /\ m'.count = q.count
      BY <1>0, <1>3 DEF Statics
    <2>3. ~m'.processing /\ m'.reqPending
      BY <1>0, <1>3 DEF Statics
    <2>4. LiveFrom(m', 0)
      BY <1>0, <2>2, SameRing
    <2> QED BY <1>3, <2>1, <2>2, <2>3, <2>4 DEF Ready, FlagsOK
  <1>4. CASE /\ q.count > 0 /\ sd = Idle
             /\ m' = q /\ outcome' = out
             /\ sd' = [by |-> "fstorage", op |-> h.op, rest |-> h.len - h.done - Chunk(h)]
    <2>1. Chunk(h) \in 1 .. h.len - h.done
      BY <1>1, <1>4, ChunkInRange
    <2>2. h.len - h.done - Chunk(h) \in Nat
      BY <1>1, <1>4, <2>1 DEF OpRecords
    <2>3. sd' \in SdType
      BY <1>1, <1>4, <2>2 DEF SdType
    <2>4. sd' # Idle
      BY <1>4 DEF Idle
    <2> QED BY <1>0, <1>4, <2>3, <2>4 DEF Ready
  <1>5. CASE /\ q.count > 0 /\ sd = Idle /\ SdRejects
             /\ m' = q /\ outcome' = [out EXCEPT ![h.op] = "internal"]
             /\ UNCHANGED sd
    <2>1. outcome' \in OutcomeType /\ outcome'[h.op] = "internal"
      BY <1>1, <1>5 DEF OutcomeType
    <2> QED BY <1>0, <1>5, <2>1 DEF Ready, h
  <1> QED BY <1>2, <1>3, <1>4, <1>5 DEF queue_process, h

\* The progress of one chunk changes the head alone.
LEMMA ProgressedElements ==
    ASSUME NEW q \in Statics, LiveFrom(q, 0), q.count > 0
    PROVE  LET p == Progressed(q)
               h == HeadOp(q) IN
           /\ p \in Statics
           /\ p.count = q.count /\ p.processing = q.processing /\ p.reqPending = q.reqPending
           /\ HeadOp(p).op = h.op /\ HeadOp(p).len = h.len
           /\ HeadOp(p).done = h.done + Chunk(h) /\ HeadOp(p).done <= h.len
           /\ \A i \in 1 .. q.count - 1 : Element(p, i) = Element(q, i)
  <1> DEFINE p == Progressed(q)
             h == HeadOp(q)
             h2 == [h EXCEPT !.done = @ + Chunk(h)]
  <1>1. h \in OpRecords /\ h.op \in Ops /\ h.done < h.len /\ h = Element(q, 0)
    BY HeadIsFirst DEF LiveFrom, Statics
  <1>2. Chunk(h) \in 1 .. h.len - h.done
    BY <1>1, ChunkInRange
  <1>3. /\ h2 \in OpRecords
        /\ h2.op = h.op /\ h2.len = h.len /\ h2.done = h.done + Chunk(h)
        /\ h2.done <= h2.len
    BY <1>1, <1>2 DEF OpRecords
  <1>4. p = [q EXCEPT !.retry = 0, !.op = [q.op EXCEPT ![q.rp] = h2]]
    BY DEF Progressed, HeadOp
  <1> HIDE DEF h2
  <1>5. q.rp \in Slots /\ q.op \in [Slots -> OpRecords]
    BY DEF Statics
  <1>6. p \in Statics
    <2>1. [q.op EXCEPT ![q.rp] = h2] \in [Slots -> OpRecords]
      BY <1>3, <1>5
    <2>2. 0 \in 0 .. MaxRetries
      BY FStorageAssumption
    <2> QED BY <1>4, <2>1, <2>2 DEF Statics
  <1>7. /\ p.op = [q.op EXCEPT ![q.rp] = h2]
        /\ p.rp = q.rp /\ p.count = q.count
        /\ p.processing = q.processing /\ p.reqPending = q.reqPending
    BY <1>4 DEF Statics
  <1> HIDE DEF p
  <1>8. HeadOp(p) = h2
    BY <1>5, <1>7 DEF HeadOp
  <1>9. ASSUME NEW i \in 1 .. q.count - 1
        PROVE  Element(p, i) = Element(q, i)
    <2>1. i \in 0 .. QueueSize - 1 /\ 0 \in 0 .. QueueSize - 1 /\ i # 0
      BY FStorageAssumption DEF Statics
    <2>2. SlotOf(q, i) \in Slots /\ SlotOf(q, i) # SlotOf(q, 0)
      BY <2>1, SlotInRing, SlotsDistinct
    <2>3. SlotOf(q, 0) = q.rp
      BY FStorageAssumption DEF SlotOf, Statics, Slots
    <2> QED BY <1>5, <1>7, <2>2, <2>3 DEF Element, SlotOf
  <1> HIDE DEF h
  <1> QED BY <1>3, <1>6, <1>7, <1>8, <1>9 DEF p, h

\* The ring after the progress of one chunk.
LEMMA ProgressedLive ==
    ASSUME NEW q \in Statics, LiveFrom(q, 0), q.count > 0
    PROVE  LET p == Progressed(q) IN
           /\ p \in Statics
           /\ LiveFrom(p, 1)
           /\ HeadOp(p).op \in Ops
           /\ HeadOp(p).done # HeadOp(p).len => LiveFrom(p, 0)
           /\ p.count = q.count /\ p.processing = q.processing /\ p.reqPending = q.reqPending
  <1> DEFINE p == Progressed(q)
             h == HeadOp(q)
  <1>1. h \in OpRecords /\ h.op \in Ops /\ h.done < h.len /\ h = Element(q, 0)
    BY HeadIsFirst DEF LiveFrom, Statics
  <1>2. /\ p \in Statics
        /\ p.count = q.count /\ p.processing = q.processing /\ p.reqPending = q.reqPending
        /\ HeadOp(p).op = h.op /\ HeadOp(p).len = h.len /\ HeadOp(p).done <= h.len
        /\ \A i \in 1 .. q.count - 1 : Element(p, i) = Element(q, i)
    BY ProgressedElements
  <1> HIDE DEF p, h
  <1>3. Element(p, 0) = HeadOp(p) /\ HeadOp(p) \in OpRecords
    BY <1>2, HeadIsFirst
  <1>4. ASSUME NEW i \in 0 .. q.count - 1
        PROVE  Element(p, i).op = Element(q, i).op
    <2>1. CASE i = 0
      BY <2>1, <1>1, <1>2, <1>3
    <2>2. CASE i \in 1 .. q.count - 1
      BY <2>2, <1>2
    <2> QED BY <2>1, <2>2 DEF Statics
  <1>5. LiveFrom(p, 1)
    BY <1>2, <1>4 DEF LiveFrom, Statics
  <1>6. ASSUME HeadOp(p).done # HeadOp(p).len
        PROVE  LiveFrom(p, 0)
    <2>1. HeadOp(p).done < HeadOp(p).len /\ HeadOp(p).op \in Ops
      BY <1>6, <1>1, <1>2, <1>3 DEF OpRecords
    <2>2. ASSUME NEW i \in 0 .. q.count - 1
          PROVE  Element(p, i).op \in Ops /\ Element(p, i).done < Element(p, i).len
      <3>1. CASE i = 0
        BY <3>1, <2>1, <1>3
      <3>2. CASE i \in 1 .. q.count - 1
        BY <3>2, <1>2 DEF LiveFrom
      <3> QED BY <3>1, <3>2 DEF Statics
    <2> QED BY <2>2, <1>2, <1>4 DEF LiveFrom
  <1> QED BY <1>1, <1>2, <1>5, <1>6 DEF p

\* An answered head leaves a ring that is ready, whatever the callback did.
LEMMA FinishReady ==
    ASSUME NEW q \in Statics, LiveFrom(q, 1), q.count > 0, q.processing, ~q.reqPending,
           NEW r \in {"success", "timeout"},
           sd \in SdType, outcome \in OutcomeType, left \in [Ops -> Nat],
           Finish(q, r)
    PROVE  /\ Ready(m')
           /\ sd' \in SdType
           /\ outcome' \in OutcomeType
           /\ left' \in [Ops -> Nat]
           /\ m'.count > 0 => sd' # Idle \/ outcome'[HeadOp(m').op] = "internal"
  <1> DEFINE out == [outcome EXCEPT ![HeadOp(q).op] = r]
  <1>1. out \in OutcomeType
    BY DEF OutcomeType
  <1>2. CASE queue_process(queue_advance(q), out) /\ UNCHANGED left
    <2>1. Ready(queue_advance(q))
      BY AdvanceReady
    <2> QED BY <1>1, <1>2, <2>1, ProcessReady
  <1>3. ASSUME NEW o \in Ops, NEW code \in {"store", "erase"}, NEW n \in 1 .. MaxLen,
               ~Queued(q, o), q.count # QueueSize,
               left' = [left EXCEPT ![o] = n],
               queue_process(queue_advance(Enqueue(q, o, code, n)), [out EXCEPT ![o] = "none"])
        PROVE  /\ Ready(m')
               /\ sd' \in SdType
               /\ outcome' \in OutcomeType
               /\ left' \in [Ops -> Nat]
               /\ m'.count > 0 => sd' # Idle \/ outcome'[HeadOp(m').op] = "internal"
    <2> DEFINE e == Enqueue(q, o, code, n)
    <2>1. e \in Statics /\ LiveFrom(e, 1) /\ e.count = q.count + 1
      <3>1. 1 \in Nat /\ 1 <= q.count
        BY DEF Statics
      <3> QED BY <1>3, <3>1, EnqueueLive, EnqueueElements
    <2>2. e.processing /\ ~e.reqPending /\ e.count > 0
      <3>1. e.processing = q.processing /\ e.reqPending = q.reqPending
        BY <1>3, EnqueueElements
      <3> QED BY <2>1, <3>1 DEF Statics
    <2> HIDE DEF e
    <2>3. Ready(queue_advance(e))
      BY <2>1, <2>2, AdvanceReady
    <2>4. [out EXCEPT ![o] = "none"] \in OutcomeType
      BY <1>1 DEF OutcomeType
    <2>5. left' \in [Ops -> Nat]
      BY <1>3, FStorageAssumption
    <2> QED BY <1>3, <2>3, <2>4, <2>5, ProcessReady DEF e
  <1> QED BY <1>2, <1>3 DEF Finish

-----------------------------------------------------------------------------
(* The invariant.                                                          *)

LEMMA InvParts ==
    IInv <=> /\ Ready(m)
             /\ sd \in SdType
             /\ evts \in Seq({"success", "error", "other"})
             /\ left \in [Ops -> Nat]
             /\ outcome \in OutcomeType
             /\ NoLostWakeup
  BY DEF IInv, TypeOK, Ready, SdType, OutcomeType, FlagsOK, FlagsMatchQueue,
         LiveFrom, ProgressInRange

LEMMA InvPartsNext ==
    IInv' <=> /\ Ready(m')
              /\ sd' \in SdType
              /\ evts' \in Seq({"success", "error", "other"})
              /\ left' \in [Ops -> Nat]
              /\ outcome' \in OutcomeType
              /\ m'.count > 0 => \/ sd' # Idle
                                 \/ evts' # <<>>
                                 \/ outcome'[HeadOp(m').op] = "internal"
  BY DEF IInv, TypeOK, Ready, SdType, OutcomeType, FlagsOK, FlagsMatchQueue,
         LiveFrom, ProgressInRange, NoLostWakeup, HeadOp, Element, SlotOf, Idle

\* What every step of the module that ends in queue_process has to show.
Preserved ==
    /\ Ready(m')
    /\ sd' \in SdType
    /\ outcome' \in OutcomeType
    /\ left' \in [Ops -> Nat]
    /\ m'.count > 0 => sd' # Idle \/ outcome'[HeadOp(m').op] = "internal"

LEMMA InitInv == Init => IInv
  <1> SUFFICES ASSUME Init PROVE IInv
    OBVIOUS
  <1>1. FreeSlot \in OpRecords /\ 0 \in Slots /\ 0 \in 0 .. QueueSize /\ 0 \in 0 .. MaxRetries
    BY FStorageAssumption DEF FreeSlot, OpRecords, Slots
  <1>2. m \in Statics /\ m.count = 0 /\ ~m.processing /\ ~m.reqPending
    BY <1>1 DEF Init, Statics
  <1>3. Ready(m)
    BY <1>2 DEF Ready, LiveFrom, FlagsOK
  <1>4. sd \in SdType /\ outcome \in OutcomeType /\ left \in [Ops -> Nat]
    BY DEF Init, Idle, SdType, OutcomeType
  <1>5. evts \in Seq({"success", "error", "other"})
    BY DEF Init
  <1> QED BY <1>2, <1>3, <1>4, <1>5, InvParts DEF NoLostWakeup

\* A call keeps the invariant.
LEMMA RequestInv ==
    ASSUME IInv, NEW o \in Ops, NEW code \in {"store", "erase"}, NEW n \in 1 .. MaxLen,
           Request(o, code, n)
    PROVE  IInv'
  <1> DEFINE e == Enqueue(m, o, code, n)
             out == [outcome EXCEPT ![o] = "none"]
  <1>0. /\ Ready(m) /\ m \in Statics /\ LiveFrom(m, 0) /\ FlagsOK(m)
        /\ sd \in SdType /\ outcome \in OutcomeType /\ left \in [Ops -> Nat]
        /\ evts' \in Seq({"success", "error", "other"}) /\ evts' = evts
    BY InvParts DEF Ready, Request
  <1>1. /\ e \in Statics /\ LiveFrom(e, 0) /\ e.count = m.count + 1
        /\ \A i \in 0 .. m.count - 1 : Element(e, i) = Element(m, i)
    <2>1. 0 \in Nat /\ 0 <= m.count
      BY <1>0 DEF Statics
    <2>2. ~Queued(m, o) /\ m.count # QueueSize
      BY DEF Request
    <2> QED BY <1>0, <2>1, <2>2, EnqueueLive, EnqueueElements
  <1>2. e.processing = m.processing /\ e.reqPending = m.reqPending
    BY <1>0, EnqueueElements DEF Request
  <1>3. out \in OutcomeType /\ left' \in [Ops -> Nat]
    BY <1>0, FStorageAssumption DEF OutcomeType, Request
  <1>4. queue_start(e, out)
    BY DEF Request
  <1> HIDE DEF e
  <1>5. CASE ~m.processing /\ ~m.reqPending
    <2> DEFINE f == [e EXCEPT !.processing = TRUE]
    <2>1. /\ f \in Statics /\ f.op = e.op /\ f.rp = e.rp /\ f.count = e.count
          /\ f.processing /\ ~f.reqPending
      BY <1>1, <1>2, <1>5 DEF Statics
    <2>2. queue_process(f, out)
      BY <1>2, <1>4, <1>5 DEF queue_start
    <2> HIDE DEF f
    <2>3. Ready(f)
      <3>1. LiveFrom(f, 0)
        BY <1>1, <2>1, SameRing
      <3>2. f.count > 0
        BY <1>0, <1>1, <2>1 DEF Statics
      <3> QED BY <2>1, <3>1, <3>2 DEF Ready, FlagsOK
    <2>4. Preserved
      BY <1>0, <1>3, <2>2, <2>3, ProcessReady DEF Preserved
    <2> QED BY <1>0, <1>3, <2>4, InvPartsNext DEF Preserved
  <1>6. CASE m.processing \/ m.reqPending
    <2>1. m' = e /\ outcome' = out /\ sd' = sd
      BY <1>2, <1>4, <1>6 DEF queue_start
    <2>2. m.count > 0
      BY <1>0, <1>6 DEF FlagsOK
    <2>3. Ready(m')
      BY <1>0, <1>1, <1>2, <1>6, <2>1, <2>2 DEF Ready, FlagsOK, Statics
    <2>4. HeadOp(e) = HeadOp(m)
      BY <1>0, <1>1, <2>2, HeadIsFirst DEF Statics
    <2>5. outcome[HeadOp(m).op] = "internal" => outcome'[HeadOp(m').op] = "internal"
      <3>1. HeadOp(m).op # o /\ HeadOp(m).op \in Ops
        BY <1>0, <2>2, HeadIsFirst DEF Queued, LiveFrom, Request, Statics
      <3> QED BY <1>0, <2>1, <2>4, <3>1 DEF OutcomeType
    <2>6. m'.count > 0 => \/ sd' # Idle
                          \/ evts' # <<>>
                          \/ outcome'[HeadOp(m').op] = "internal"
      BY <1>0, <2>1, <2>2, <2>4, <2>5, InvParts DEF NoLostWakeup
    <2> QED BY <1>0, <1>3, <2>1, <2>3, <2>6, InvPartsNext
  <1> QED BY <1>5, <1>6

\* The handler of system events keeps the invariant.
LEMMA HandlerInv ==
    ASSUME IInv, fs_sys_event_handler
    PROVE  IInv'
  <1>0. /\ Ready(m) /\ m \in Statics /\ LiveFrom(m, 0) /\ FlagsOK(m)
        /\ sd \in SdType /\ outcome \in OutcomeType /\ left \in [Ops -> Nat]
    BY InvParts DEF Ready
  <1>1. evts' \in Seq({"success", "error", "other"})
    BY InvParts DEF fs_sys_event_handler
  <1>2. LiveFrom(m, 1)
    BY <1>0 DEF LiveFrom, Statics
  <1>3. ASSUME OnOwnResult(Head(evts))
        PROVE  Preserved
    <2>0. m.processing /\ ~m.reqPending /\ m.count > 0
      BY <1>0, <1>3 DEF OnOwnResult, FlagsOK
    <2>1. ASSUME Head(evts) = "success"
          PROVE  Preserved
      <3> DEFINE q == Progressed(m)
      <3>1. /\ q \in Statics /\ LiveFrom(q, 1)
            /\ HeadOp(q).done # HeadOp(q).len => LiveFrom(q, 0)
            /\ q.count = m.count /\ q.processing = m.processing /\ q.reqPending = m.reqPending
        BY <1>0, <2>0, ProgressedLive
      <3>2. IF HeadOp(q).done = HeadOp(q).len
            THEN Finish(q, "success")
            ELSE queue_process(q, outcome) /\ UNCHANGED left
        BY <1>3, <2>1 DEF OnOwnResult, on_operation_success
      <3> HIDE DEF q
      <3>3. CASE HeadOp(q).done = HeadOp(q).len
        BY <1>0, <2>0, <3>1, <3>2, <3>3, FinishReady DEF Preserved
      <3>4. CASE HeadOp(q).done # HeadOp(q).len
        <4>1. Ready(q)
          BY <1>0, <2>0, <3>1, <3>4 DEF Ready, FlagsOK
        <4> QED BY <1>0, <3>2, <3>4, <4>1, ProcessReady DEF Preserved
      <3> QED BY <3>3, <3>4
    <2>2. ASSUME Head(evts) = "error", m.retry + 1 > MaxRetries
          PROVE  Preserved
      <3> DEFINE q == [m EXCEPT !.retry = 0]
      <3>1. /\ q \in Statics /\ q.op = m.op /\ q.rp = m.rp /\ q.count = m.count
            /\ q.processing = m.processing /\ q.reqPending = m.reqPending
        BY <1>0, FStorageAssumption DEF Statics
      <3>2. Finish(q, "timeout")
        BY <1>3, <2>2 DEF OnOwnResult, on_operation_failure
      <3> HIDE DEF q
      <3>3. LiveFrom(q, 1)
        BY <1>2, <3>1, SameRing
      <3> QED BY <1>0, <2>0, <3>1, <3>2, <3>3, FinishReady DEF Preserved
    <2>3. ASSUME Head(evts) = "error", ~(m.retry + 1 > MaxRetries)
          PROVE  Preserved
      <3> DEFINE q == [m EXCEPT !.retry = @ + 1]
      <3>1. /\ q \in Statics /\ q.op = m.op /\ q.rp = m.rp /\ q.count = m.count
            /\ q.processing = m.processing /\ q.reqPending = m.reqPending
        BY <1>0, <2>3, FStorageAssumption DEF Statics
      <3>2. queue_process(q, outcome) /\ UNCHANGED left
        BY <1>3, <2>3 DEF OnOwnResult, on_operation_failure
      <3> HIDE DEF q
      <3>3. Ready(q)
        BY <1>0, <3>1, SameRing DEF Ready, FlagsOK
      <3> QED BY <1>0, <3>2, <3>3, ProcessReady DEF Preserved
    <2>4. ASSUME Head(evts) = "other"
          PROVE  Preserved
      <3>1. queue_process(m, outcome) /\ UNCHANGED left
        BY <1>3, <2>4 DEF OnOwnResult
      <3> QED BY <1>0, <3>1, ProcessReady DEF Preserved
    <2> QED BY <2>1, <2>2, <2>3, <2>4, <1>3 DEF OnOwnResult
  <1>4. ASSUME OnForeignResult
        PROVE  Preserved
    <2> DEFINE q == [m EXCEPT !.reqPending = FALSE, !.processing = m.count > 0]
    <2>1. /\ q \in Statics /\ q.op = m.op /\ q.rp = m.rp /\ q.count = m.count
          /\ q.processing = (m.count > 0) /\ ~q.reqPending
      <3>1. (m.count > 0) \in BOOLEAN
        OBVIOUS
      <3> QED BY <1>0, <3>1 DEF Statics
    <2>2. queue_process(q, outcome) /\ UNCHANGED left
      BY <1>4 DEF OnForeignResult
    <2> HIDE DEF q
    <2>3. Ready(q)
      BY <1>0, <2>1, SameRing DEF Ready, FlagsOK
    <2> QED BY <1>0, <2>2, <2>3, ProcessReady DEF Preserved
  <1>5. ASSUME OnUnexpectedEvent
        PROVE  Preserved
    <2>1. queue_process(m, outcome) /\ UNCHANGED left
      BY <1>5 DEF OnUnexpectedEvent
    <2> QED BY <1>0, <2>1, ProcessReady DEF Preserved
  <1>6. Preserved
    BY <1>3, <1>4, <1>5 DEF fs_sys_event_handler
  <1> QED BY <1>1, <1>6, InvPartsNext DEF Preserved

\* The SoftDevice's own steps keep it: they only take requests away once an
\* event is under way.
LEMMA SoftDeviceInv ==
    ASSUME IInv, SdComplete \/ SdForeignRequest \/ SdStrayEvent
    PROVE  IInv'
  <1>0. /\ Ready(m) /\ sd \in SdType /\ outcome \in OutcomeType /\ left \in [Ops -> Nat]
        /\ evts \in Seq({"success", "error", "other"}) /\ NoLostWakeup
    BY InvParts
  <1>1. CASE SdComplete
    <2>1. PICK e \in {"success", "error"} :
             /\ evts' = Append(evts, e)
             /\ left' = IF e = "success" /\ sd.by = "fstorage"
                        THEN [left EXCEPT ![sd.op] = sd.rest]
                        ELSE left
      BY <1>1 DEF SdComplete
    <2>2. evts' \in Seq({"success", "error", "other"}) /\ evts' # <<>>
      BY <1>0, <2>1
    <2>3. left' \in [Ops -> Nat]
      BY <1>0, <2>1 DEF SdType
    <2>4. sd' \in SdType /\ m' = m /\ outcome' = outcome
      BY <1>1 DEF SdComplete, Idle, SdType
    <2> QED BY <1>0, <2>2, <2>3, <2>4, InvPartsNext
  <1>2. CASE SdForeignRequest
    <2>1. /\ sd' \in SdType /\ sd' # Idle
          /\ m' = m /\ evts' = evts /\ outcome' = outcome /\ left' = left
      BY <1>2 DEF SdForeignRequest, SdType, Idle
    <2> QED BY <1>0, <2>1, InvPartsNext
  <1>3. CASE SdStrayEvent
    <2>1. evts' = Append(evts, "other") /\ UNCHANGED <<m, sd, left, outcome>>
      BY <1>3 DEF SdStrayEvent
    <2>2. evts' \in Seq({"success", "error", "other"}) /\ evts' # <<>>
      BY <1>0, <2>1
    <2> QED BY <1>0, <2>1, <2>2, InvPartsNext
  <1> QED BY <1>1, <1>2, <1>3

\* The statics of fstorage.c stay within their types, the flags match the
\* ring, no operation is queued twice or past its end, and no wake-up is lost.
THEOREM QueueInvariant == Spec => []IInv
  <1>1. Init => IInv
    BY InitInv
  <1>2. IInv /\ [Next]_vars => IInv'
    <2> SUFFICES ASSUME IInv, [Next]_vars
                 PROVE  IInv'
      OBVIOUS
    <2>1. CASE fs_init
      <3>1. m' = [m EXCEPT !.initialized = TRUE] /\ UNCHANGED <<sd, evts, left, outcome>>
        BY <2>1 DEF fs_init
      <3>2. /\ m' \in Statics /\ m'.op = m.op /\ m'.rp = m.rp /\ m'.count = m.count
            /\ m'.processing = m.processing /\ m'.reqPending = m.reqPending
        BY <3>1, InvParts DEF Ready, Statics
      <3>3. Ready(m')
        BY <3>2, InvParts, SameRing DEF Ready, FlagsOK
      <3>4. HeadOp(m') = HeadOp(m)
        BY <3>2, SameRing
      <3>5. m'.count > 0 => \/ sd' # Idle
                            \/ evts' # <<>>
                            \/ outcome'[HeadOp(m').op] = "internal"
        BY <3>1, <3>2, <3>4, InvParts DEF NoLostWakeup
      <3> QED BY <3>1, <3>3, <3>5, InvParts, InvPartsNext
    <2>2. ASSUME NEW o \in Ops, NEW n \in 1 .. MaxLen, fs_store(o, n) \/ fs_erase(o, n)
          PROVE  IInv'
      BY <2>2, RequestInv DEF fs_store, fs_erase
    <2>3. CASE fs_sys_event_handler
      BY <2>3, HandlerInv
    <2>4. CASE SdComplete \/ SdForeignRequest \/ SdStrayEvent
      BY <2>4, SoftDeviceInv
    <2>5. CASE UNCHANGED vars
      BY <2>5, InvParts, InvPartsNext DEF vars, NoLostWakeup
    <2> QED BY <2>1, <2>2, <2>3, <2>4, <2>5 DEF Next
  <1> QED BY <1>1, <1>2, PTL DEF Spec

\* m_queue and m_flags keep their types: count never passes FS_QUEUE_SIZE nor
\* goes below zero, and the retry counter stays within FS_OP_MAX_RETRIES.
THEOREM TypeCorrect == Spec => []TypeOK
  BY QueueInvariant, PTL DEF IInv

\* FS_FLAG_PROCESSING and FS_FLAG_FLASH_REQ_PENDING say whether, and by whom,
\* a ring that holds operations is driven.
THEOREM FlagsCorrect == Spec => []FlagsMatchQueue
  BY QueueInvariant, PTL DEF IInv

\* No operation passes its end or is queued twice.
THEOREM ProgressCorrect == Spec => []ProgressInRange
  BY QueueInvariant, PTL DEF IInv

\* A ring that holds operations is always looked at again, unless the
\* SoftDevice refused its head.
THEOREM WakeupCorrect == Spec => []NoLostWakeup
  BY QueueInvariant, PTL DEF IInv
-----------------------------------------------------------------------------
(* The ring as the sequence of its operations.                             *)

\* No operation is queued twice.
Distinct(q) ==
    \A i, j \in 0 .. q.count - 1 : Element(q, i).op = Element(q, j).op => i = j

\* The operations of the ring in terms of its elements.
LEMMA PendingElements ==
    ASSUME NEW q \in Statics
    PROVE  /\ Pending(q) \in Seq(Ops \cup {NoOp})
           /\ Len(Pending(q)) = q.count
           /\ \A i \in 1 .. q.count : Pending(q)[i] = Element(q, i - 1).op
           /\ q.count \in 0 .. QueueSize
  <1>1. q.count \in 0 .. QueueSize
    BY DEF Statics
  <1>2. ASSUME NEW i \in 1 .. q.count
        PROVE  Element(q, i - 1).op \in Ops \cup {NoOp}
    <2>1. i - 1 \in 0 .. QueueSize - 1
      BY <1>1, FStorageAssumption
    <2>2. SlotOf(q, i - 1) \in Slots
      BY <2>1, SlotInRing
    <2> QED BY <2>2 DEF Element, Statics, OpRecords
  <1>3. Pending(q) \in [1 .. q.count -> Ops \cup {NoOp}]
    BY <1>2 DEF Pending
  <1>4. \A i \in 1 .. q.count : Pending(q)[i] = Element(q, i - 1).op
    BY DEF Pending
  <1>5. q.count \in Nat
    BY <1>1, FStorageAssumption
  <1>6. Pending(q) \in Seq(Ops \cup {NoOp}) /\ Len(Pending(q)) = q.count
    <2> HIDE DEF Pending
    <2> DEFINE S == Ops \cup {NoOp}
    <2> HIDE DEF S
    <2> SUFFICES Pending(q) \in Seq(S) /\ Len(Pending(q)) = q.count
      BY DEF S
    <2>1. Pending(q) \in [1 .. q.count -> S]
      BY <1>3 DEF S
    <2> QED BY <1>5, <2>1
  <1> QED BY <1>1, <1>4, <1>6

\* An empty ring has no operation, any other begins with its head.
LEMMA PendingHead ==
    ASSUME NEW q \in Statics
    PROVE  /\ Pending(q) = <<>> <=> q.count = 0
           /\ q.count > 0 => Head(Pending(q)) = HeadOp(q).op
  <1>1. /\ Pending(q) \in Seq(Ops \cup {NoOp}) /\ Len(Pending(q)) = q.count
        /\ \A i \in 1 .. q.count : Pending(q)[i] = Element(q, i - 1).op
        /\ q.count \in Nat
    BY PendingElements, FStorageAssumption
  <1>2. Pending(q) = <<>> <=> q.count = 0
    BY <1>1, EmptySeq
  <1>3. ASSUME q.count > 0
        PROVE  Head(Pending(q)) = HeadOp(q).op
    <2>1. Head(Pending(q)) = Pending(q)[1]
      BY <1>1, <1>3
    <2>2. Pending(q)[1] = Element(q, 0).op
      BY <1>1, <1>3
    <2> QED BY <2>1, <2>2, HeadIsFirst
  <1> QED BY <1>2, <1>3

\* queue_get_next_free appends.
LEMMA PendingEnqueue ==
    ASSUME NEW q \in Statics, q.count # QueueSize,
           NEW o \in Ops, NEW code \in {"store", "erase"}, NEW n \in 1 .. MaxLen
    PROVE  Pending(Enqueue(q, o, code, n)) = Append(Pending(q), o)
  <1> DEFINE e == Enqueue(q, o, code, n)
             S == Ops \cup {NoOp}
  <1>1. /\ e \in Statics /\ e.count = q.count + 1
        /\ Element(e, q.count).op = o
        /\ \A i \in 0 .. q.count - 1 : Element(e, i) = Element(q, i)
    <2>1. Element(e, q.count) = [op |-> o, code |-> code, len |-> n, done |-> 0]
      BY EnqueueElements
    <2>2. Element(e, q.count).op = o
      BY ONLY <2>1
    <2> QED BY <2>2, EnqueueElements
  <1> HIDE DEF e
  <1>2. /\ Pending(e) \in Seq(S) /\ Len(Pending(e)) = e.count
        /\ \A i \in 1 .. e.count : Pending(e)[i] = Element(e, i - 1).op
    BY <1>1, PendingElements
  <1>3. /\ Pending(q) \in Seq(S) /\ Len(Pending(q)) = q.count
        /\ \A i \in 1 .. q.count : Pending(q)[i] = Element(q, i - 1).op
        /\ q.count \in Nat
    BY PendingElements, FStorageAssumption
  <1> HIDE DEF S
  <1>4. o \in S
    BY DEF S
  <1> DEFINE a == Append(Pending(q), o)
  <1>5. /\ a \in Seq(S) /\ Len(a) = q.count + 1
        /\ \A i \in 1 .. q.count : a[i] = Pending(q)[i]
        /\ a[q.count + 1] = o
    BY <1>3, <1>4, AppendProperties
  <1> HIDE DEF a
  <1>6. ASSUME NEW i \in 1 .. e.count
        PROVE  Pending(e)[i] = a[i]
    <2>1. CASE i = q.count + 1
      <3>1. i - 1 = q.count
        BY <2>1, <1>3
      <3> QED BY <2>1, <3>1, <1>1, <1>2, <1>5
    <2>2. CASE i \in 1 .. q.count
      <3>1. i - 1 \in 0 .. q.count - 1
        BY <2>2, <1>3
      <3> QED BY <2>2, <3>1, <1>1, <1>2, <1>3, <1>5
    <2> QED BY <2>1, <2>2, <1>1, <1>3
  <1>7. Pending(e) = a
    BY <1>1, <1>2, <1>5, <1>6, SeqEqual
  <1> QED BY <1>7 DEF a, e

\* queue_advance takes the first operation away.
LEMMA PendingAdvance ==
    ASSUME NEW q \in Statics, q.count > 0
    PROVE  Pending(queue_advance(q)) = Tail(Pending(q))
  <1> DEFINE e == queue_advance(q)
             S == Ops \cup {NoOp}
  <1>1. /\ e \in Statics /\ e.count = q.count - 1
        /\ \A i \in 0 .. q.count - 2 : Element(e, i) = Element(q, i + 1)
    BY AdvanceElements
  <1> HIDE DEF e
  <1>2. /\ Pending(e) \in Seq(S) /\ Len(Pending(e)) = e.count
        /\ \A i \in 1 .. e.count : Pending(e)[i] = Element(e, i - 1).op
    BY <1>1, PendingElements
  <1>3. /\ Pending(q) \in Seq(S) /\ Len(Pending(q)) = q.count
        /\ \A i \in 1 .. q.count : Pending(q)[i] = Element(q, i - 1).op
        /\ q.count \in Nat
    BY PendingElements, FStorageAssumption
  <1>4. Pending(q) # <<>>
    BY PendingHead
  <1> HIDE DEF S
  <1> DEFINE a == Tail(Pending(q))
  <1>5. /\ a \in Seq(S) /\ Len(a) = q.count - 1
        /\ \A i \in 1 .. q.count - 1 : a[i] = Pending(q)[i + 1]
    BY <1>3, <1>4, HeadTailProperties
  <1> HIDE DEF a
  <1>6. ASSUME NEW i \in 1 .. e.count
        PROVE  Pending(e)[i] = a[i]
    <2>1. /\ i - 1 \in 0 .. q.count - 2 /\ i + 1 \in 1 .. q.count /\ i \in 1 .. q.count - 1
          /\ (i - 1) + 1 = i /\ (i + 1) - 1 = i
      BY <1>1, <1>3
    <2>2. Pending(e)[i] = Element(q, i).op
      BY <2>1, <1>1, <1>2
    <2>3. a[i] = Element(q, i).op
      BY <2>1, <1>3, <1>5
    <2> QED BY <2>2, <2>3
  <1>7. Pending(e) = a
    BY <1>1, <1>2, <1>5, <1>6, SeqEqual
  <1> QED BY <1>7 DEF a, e

\* The sequence only depends on the operations at each place.
LEMMA PendingSame ==
    ASSUME NEW q, NEW e, e.count = q.count,
           \A i \in 0 .. q.count - 1 : Element(e, i).op = Element(q, i).op, q.count \in Nat
    PROVE  Pending(e) = Pending(q)
  <1>1. ASSUME NEW i \in 1 .. q.count
        PROVE  Element(e, i - 1).op = Element(q, i - 1).op
    <2>1. i - 1 \in 0 .. q.count - 1
      OBVIOUS
    <2> QED BY <2>1
  <1> QED BY <1>1 DEF Pending

\* Who is queued, in the service's words.
LEMMA QueuedInService ==
    ASSUME m \in Statics, NEW o
    PROVE  Service!Queued(o) <=> Queued(m, o)
  <1>1. /\ Len(Pending(m)) = m.count /\ m.count \in Nat
        /\ \A i \in 1 .. m.count : Pending(m)[i] = Element(m, i - 1).op
    BY PendingElements, FStorageAssumption
  <1>2. ASSUME Service!Queued(o)
        PROVE  Queued(m, o)
    <2>1. PICK i \in 1 .. m.count : Pending(m)[i] = o
      BY <1>1, <1>2 DEF Service!Queued
    <2>2. i - 1 \in 0 .. m.count - 1
      BY <1>1
    <2> QED BY <1>1, <2>1, <2>2 DEF Queued
  <1>3. ASSUME Queued(m, o)
        PROVE  Service!Queued(o)
    <2>1. PICK i \in 0 .. m.count - 1 : Element(m, i).op = o
      BY <1>3 DEF Queued
    <2>2. i + 1 \in 1 .. m.count /\ (i + 1) - 1 = i
      BY <1>1
    <2>3. Pending(m)[i + 1] = o
      BY <1>1, <2>1, <2>2
    <2> QED BY <1>1, <2>2, <2>3 DEF Service!Queued
  <1> QED BY <1>2, <1>3

\* Who is queued after a request, and after the head has left.
LEMMA EnqueueQueued ==
    ASSUME NEW q \in Statics, q.count # QueueSize,
           NEW o \in Ops, NEW code \in {"store", "erase"}, NEW n \in 1 .. MaxLen
    PROVE  LET e == Enqueue(q, o, code, n) IN
           /\ \A x : Queued(e, x) <=> Queued(q, x) \/ x = o
           /\ Distinct(q) /\ ~Queued(q, o) => Distinct(e)
           /\ q.count > 0 => HeadOp(e) = HeadOp(q)
  <1> DEFINE e == Enqueue(q, o, code, n)
  <1>1. /\ e \in Statics /\ e.count = q.count + 1
        /\ Element(e, q.count).op = o
        /\ \A i \in 0 .. q.count - 1 : Element(e, i) = Element(q, i)
    <2>1. Element(e, q.count) = [op |-> o, code |-> code, len |-> n, done |-> 0]
      BY EnqueueElements
    <2>2. Element(e, q.count).op = o
      BY ONLY <2>1
    <2> QED BY <2>2, EnqueueElements
  <1> HIDE DEF e
  <1>2. q.count \in Nat /\ 0 .. e.count - 1 = (0 .. q.count - 1) \cup {q.count}
    BY <1>1, FStorageAssumption DEF Statics
  <1>3. \A x : Queued(e, x) <=> Queued(q, x) \/ x = o
    BY <1>1, <1>2 DEF Queued
  <1>4. Distinct(q) /\ ~Queued(q, o) => Distinct(e)
    BY <1>1, <1>2 DEF Distinct, Queued
  <1>5. q.count > 0 => HeadOp(e) = HeadOp(q)
    <2>1. q.count > 0 => 0 \in 0 .. q.count - 1
      BY <1>2
    <2> QED BY <1>1, <2>1, HeadIsFirst
  <1> QED BY <1>3, <1>4, <1>5 DEF e

LEMMA AdvanceQueued ==
    ASSUME NEW q \in Statics, q.count > 0, Distinct(q)
    PROVE  LET e == queue_advance(q) IN
           /\ \A x : Queued(e, x) => Queued(q, x) /\ x # HeadOp(q).op
           /\ Distinct(e)
  <1> DEFINE e == queue_advance(q)
  <1>1. /\ e \in Statics /\ e.count = q.count - 1
        /\ \A i \in 0 .. q.count - 2 : Element(e, i) = Element(q, i + 1)
    BY AdvanceElements
  <1> HIDE DEF e
  <1>2. \A i \in 0 .. e.count - 1 : i \in 0 .. q.count - 2 /\ i + 1 \in 1 .. q.count - 1
    BY <1>1 DEF Statics
  <1>3. ASSUME NEW x, Queued(e, x)
        PROVE  Queued(q, x) /\ x # HeadOp(q).op
    <2>1. PICK i \in 0 .. e.count - 1 : Element(e, i).op = x
      BY <1>3 DEF Queued
    <2>2. Element(q, i + 1).op = x /\ i + 1 \in 0 .. q.count - 1 /\ i + 1 # 0
      BY <1>1, <1>2, <2>1
    <2>3. 0 \in 0 .. q.count - 1 /\ Element(q, 0) = HeadOp(q)
      BY HeadIsFirst DEF Statics
    <2> QED BY <2>2, <2>3 DEF Queued, Distinct
  <1>4. Distinct(e)
    <2>1. ASSUME NEW i \in 0 .. e.count - 1, NEW j \in 0 .. e.count - 1,
                 Element(e, i).op = Element(e, j).op
          PROVE  i = j
      <3>1. i + 1 \in 0 .. q.count - 1 /\ j + 1 \in 0 .. q.count - 1
        BY <1>2
      <3>2. i + 1 = j + 1
        BY <1>1, <1>2, <2>1, <3>1 DEF Distinct
      <3> QED BY <3>2
    <2> QED BY <2>1 DEF Distinct
  <1> QED BY <1>3, <1>4 DEF e
-----------------------------------------------------------------------------
(* An answered operation has left the ring.                                *)

\* The invariant in the terms of IInv: the ring has no operation twice.
LEMMA LiveDistinct ==
    ASSUME NEW q \in Statics, LiveFrom(q, 0)
    PROVE  Distinct(q)
  BY DEF LiveFrom, Distinct

Unanswered(q, out) == \A o \in Ops : Queued(q, o) => out[o] = "none"

\* queue_process neither moves nor answers an operation, unless the SoftDevice
\* refuses it.
LEMMA ProcessSame ==
    ASSUME ~SdRejects, NEW q \in Statics, NEW out, queue_process(q, out)
    PROVE  /\ outcome' = out
           /\ m' \in Statics
           /\ m'.op = q.op /\ m'.rp = q.rp /\ m'.count = q.count
  BY DEF queue_process, Statics

LEMMA ProcessUnanswered ==
    ASSUME ~SdRejects, NEW q \in Statics, NEW out, queue_process(q, out), Unanswered(q, out)
    PROVE  Unanswered(m', outcome')
  <1>1. outcome' = out /\ m'.op = q.op /\ m'.rp = q.rp /\ m'.count = q.count
    BY ProcessSame
  <1>2. \A o : Queued(m', o) <=> Queued(q, o)
    BY <1>1 DEF Queued, Element, SlotOf
  <1> QED BY <1>1, <1>2 DEF Unanswered

\* The answer of the head is given for no operation that stays.
LEMMA FinishUnanswered ==
    ASSUME ~SdRejects, NEW q \in Statics, q.count > 0, Distinct(q),
           Unanswered(q, outcome), outcome \in OutcomeType, NEW r, Finish(q, r)
    PROVE  Unanswered(m', outcome')
  <1> DEFINE out == [outcome EXCEPT ![HeadOp(q).op] = r]
  <1>1. CASE queue_process(queue_advance(q), out) /\ UNCHANGED left
    <2>1. queue_advance(q) \in Statics
      BY AdvanceElements
    <2>2. \A x : Queued(queue_advance(q), x) => Queued(q, x) /\ x # HeadOp(q).op
      BY AdvanceQueued
    <2>3. Unanswered(queue_advance(q), out)
      BY <2>2 DEF Unanswered, OutcomeType
    <2> QED BY <1>1, <2>1, <2>3, ProcessUnanswered
  <1>2. ASSUME NEW o \in Ops, NEW code \in {"store", "erase"}, NEW n \in 1 .. MaxLen,
               ~Queued(q, o), q.count # QueueSize,
               queue_process(queue_advance(Enqueue(q, o, code, n)), [out EXCEPT ![o] = "none"])
        PROVE  Unanswered(m', outcome')
    <2> DEFINE e == Enqueue(q, o, code, n)
    <2>1. /\ e \in Statics /\ e.count = q.count + 1
      BY <1>2, EnqueueElements
    <2>2. /\ \A x : Queued(e, x) <=> Queued(q, x) \/ x = o
          /\ Distinct(e)
          /\ HeadOp(e) = HeadOp(q)
      BY <1>2, EnqueueQueued
    <2>3. e.count > 0
      BY <2>1 DEF Statics
    <2> HIDE DEF e
    <2>4. queue_advance(e) \in Statics
      BY <2>1, <2>3, AdvanceElements
    <2>5. \A x : Queued(queue_advance(e), x) => Queued(e, x) /\ x # HeadOp(e).op
      BY <2>1, <2>2, <2>3, AdvanceQueued
    <2>6. ASSUME NEW x \in Ops, Queued(queue_advance(e), x)
          PROVE  [out EXCEPT ![o] = "none"][x] = "none"
      <3>1. x # HeadOp(q).op /\ (Queued(q, x) \/ x = o)
        BY <2>2, <2>5, <2>6
      <3>2. x # o => outcome[x] = "none"
        BY <3>1 DEF Unanswered
      <3> QED BY <3>1, <3>2 DEF OutcomeType
    <2>7. Unanswered(queue_advance(e), [out EXCEPT ![o] = "none"])
      BY <2>6 DEF Unanswered
    <2> QED BY <1>2, <2>4, <2>7, ProcessUnanswered DEF e
  <1> QED BY <1>1, <1>2 DEF Finish

\* A call is answered by one event only, as fstorage.h promises: with a
\* SoftDevice that refuses no request, an operation that has its event is no
\* longer in the ring, whoever else uses the flash.
THEOREM AnsweredCorrect ==
    ASSUME ~SdRejects
    PROVE  Spec => []AnsweredLeavesQueue
  <1>1. Init => AnsweredLeavesQueue
    <2>1. Init => m.count = 0
      BY DEF Init
    <2> QED BY <2>1 DEF AnsweredLeavesQueue, Queued
  <1>2. AnsweredLeavesQueue <=> Unanswered(m, outcome)
    BY DEF AnsweredLeavesQueue, Unanswered
  <1>3. AnsweredLeavesQueue' <=> Unanswered(m', outcome')
    BY DEF AnsweredLeavesQueue, Unanswered, Queued, Element, SlotOf
  <1>4. IInv /\ AnsweredLeavesQueue /\ [Next]_vars => AnsweredLeavesQueue'
    <2> SUFFICES ASSUME IInv, Unanswered(m, outcome), [Next]_vars
                 PROVE  Unanswered(m', outcome')
      BY <1>2, <1>3
    <2>0. /\ Ready(m) /\ m \in Statics /\ LiveFrom(m, 0) /\ FlagsOK(m) /\ Distinct(m)
          /\ outcome \in OutcomeType
      BY InvParts, LiveDistinct DEF Ready
    <2>1. CASE fs_init
      <3>1. m' = [m EXCEPT !.initialized = TRUE] /\ outcome' = outcome
        BY <2>1 DEF fs_init
      <3>2. m'.op = m.op /\ m'.rp = m.rp /\ m'.count = m.count
        BY <2>0, <3>1 DEF Statics
      <3> QED BY <3>1, <3>2 DEF Unanswered, Queued, Element, SlotOf
    <2>2. ASSUME NEW o \in Ops, NEW code \in {"store", "erase"}, NEW n \in 1 .. MaxLen,
                 Request(o, code, n)
          PROVE  Unanswered(m', outcome')
      <3> DEFINE e == Enqueue(m, o, code, n)
                 out == [outcome EXCEPT ![o] = "none"]
      <3>1. ~Queued(m, o) /\ m.count # QueueSize /\ queue_start(e, out)
        BY <2>2 DEF Request
      <3>2. e \in Statics /\ \A x : Queued(e, x) <=> Queued(m, x) \/ x = o
        BY <2>0, <3>1, EnqueueElements, EnqueueQueued
      <3> HIDE DEF e
      <3>3. Unanswered(e, out)
        BY <2>0, <3>2 DEF Unanswered, OutcomeType
      <3>4. CASE queue_process([e EXCEPT !.processing = TRUE], out)
        <4> DEFINE f == [e EXCEPT !.processing = TRUE]
        <4>1. f \in Statics /\ f.op = e.op /\ f.rp = e.rp /\ f.count = e.count
          BY <3>2 DEF Statics
        <4> HIDE DEF f
        <4>2. Unanswered(f, out)
          BY <3>3, <4>1 DEF Unanswered, Queued, Element, SlotOf
        <4> QED BY <3>4, <4>1, <4>2, ProcessUnanswered DEF f
      <3>5. CASE m' = e /\ outcome' = out
        BY <3>3, <3>5
      <3> QED BY <3>1, <3>4, <3>5 DEF queue_start
    <2>3. CASE fs_sys_event_handler
      <3>1. ASSUME OnOwnResult(Head(evts))
            PROVE  Unanswered(m', outcome')
        <4>0. m.count > 0
          BY <2>0, <3>1 DEF OnOwnResult, FlagsOK
        <4>1. CASE on_operation_success
          <5> DEFINE q == Progressed(m)
          <5>1. /\ q \in Statics /\ q.count = m.count
                /\ HeadOp(q).op = HeadOp(m).op
                /\ \A i \in 1 .. m.count - 1 : Element(q, i) = Element(m, i)
            BY <2>0, <4>0, ProgressedElements
          <5>2. IF HeadOp(q).done = HeadOp(q).len
                THEN Finish(q, "success")
                ELSE queue_process(q, outcome)
            BY <4>1 DEF on_operation_success
          <5> HIDE DEF q
          <5>3. \A i \in 0 .. m.count - 1 : Element(q, i).op = Element(m, i).op
            <6>1. Element(q, 0).op = Element(m, 0).op
              BY <2>0, <5>1, HeadIsFirst
            <6>2. \A i \in 0 .. m.count - 1 : i = 0 \/ i \in 1 .. m.count - 1
              BY <2>0 DEF Statics
            <6> QED BY <5>1, <6>1, <6>2
          <5>4. Distinct(q) /\ Unanswered(q, outcome)
            BY <2>0, <5>1, <5>3 DEF Distinct, Unanswered, Queued
          <5> QED BY <2>0, <4>0, <5>1, <5>2, <5>4, FinishUnanswered, ProcessUnanswered
        <4>2. CASE on_operation_failure
          <5>1. ASSUME m.retry + 1 > MaxRetries
                PROVE  Unanswered(m', outcome')
            <6> DEFINE q == [m EXCEPT !.retry = 0]
            <6>1. q \in Statics /\ q.op = m.op /\ q.rp = m.rp /\ q.count = m.count
              BY <2>0, FStorageAssumption DEF Statics
            <6>2. Finish(q, "timeout")
              BY <4>2, <5>1 DEF on_operation_failure
            <6> HIDE DEF q
            <6>3. Distinct(q) /\ Unanswered(q, outcome)
              BY <2>0, <6>1 DEF Distinct, Unanswered, Queued, Element, SlotOf
            <6> QED BY <2>0, <4>0, <6>1, <6>2, <6>3, FinishUnanswered
          <5>2. ASSUME ~(m.retry + 1 > MaxRetries)
                PROVE  Unanswered(m', outcome')
            <6> DEFINE q == [m EXCEPT !.retry = @ + 1]
            <6>1. q \in Statics /\ q.op = m.op /\ q.rp = m.rp /\ q.count = m.count
              BY <2>0, <5>2, FStorageAssumption DEF Statics
            <6>2. queue_process(q, outcome)
              BY <4>2, <5>2 DEF on_operation_failure
            <6> HIDE DEF q
            <6>3. Unanswered(q, outcome)
              BY <2>0, <6>1 DEF Unanswered, Queued, Element, SlotOf
            <6> QED BY <6>1, <6>2, <6>3, ProcessUnanswered
          <5> QED BY <5>1, <5>2
        <4>3. CASE queue_process(m, outcome)
          BY <2>0, <4>3, ProcessUnanswered
        <4> QED BY <3>1, <4>1, <4>2, <4>3 DEF OnOwnResult
      <3>2. ASSUME OnForeignResult
            PROVE  Unanswered(m', outcome')
        <4> DEFINE q == [m EXCEPT !.reqPending = FALSE, !.processing = m.count > 0]
        <4>1. q \in Statics /\ q.op = m.op /\ q.rp = m.rp /\ q.count = m.count
          <5>1. (m.count > 0) \in BOOLEAN
            OBVIOUS
          <5> QED BY <2>0, <5>1 DEF Statics
        <4>2. queue_process(q, outcome)
          BY <3>2 DEF OnForeignResult
        <4> HIDE DEF q
        <4>3. Unanswered(q, outcome)
          BY <4>1 DEF Unanswered, Queued, Element, SlotOf
        <4> QED BY <4>1, <4>2, <4>3, ProcessUnanswered
      <3>3. ASSUME OnUnexpectedEvent
            PROVE  Unanswered(m', outcome')
        BY <2>0, <3>3, ProcessUnanswered DEF OnUnexpectedEvent
      <3> QED BY <2>3, <3>1, <3>2, <3>3 DEF fs_sys_event_handler
    <2>4. CASE UNCHANGED <<m, outcome>>
      BY <2>4 DEF Unanswered, Queued, Element, SlotOf
    <2> QED BY <2>1, <2>2, <2>3, <2>4
            DEF Next, vars, fs_store, fs_erase, SdComplete, SdForeignRequest, SdStrayEvent
  <1> QED BY <1>1, <1>4, QueueInvariant, PTL DEF Spec
-----------------------------------------------------------------------------
(* Without other users of the flash: progress is physical.                 *)

\* Of every operation in the ring, what is not counted as done is what is not
\* in flash.
LeftIs(q, lft) ==
    \A i \in 0 .. q.count - 1 :
       /\ Element(q, i).op \in Ops
       /\ lft[Element(q, i).op] = Element(q, i).len - Element(q, i).done

\* The request that covers the next chunk of an operation.
HandedOver(r) == [by |-> "fstorage", op |-> r.op, rest |-> r.len - r.done - Chunk(r)]

LeftType == [Ops -> 0 .. MaxLen]

\* The strengthening for a module that has the flash to itself: the SoftDevice
\* executes the head of the ring or nothing, one event at most is under way,
\* and it is the answer to the head.
OwnInv ==
    /\ ~m.reqPending
    /\ left \in LeftType
    /\ evts \in {<<>>, <<"success">>, <<"error">>}
    /\ sd # Idle => m.count > 0 /\ evts = <<>> /\ sd = HandedOver(HeadOp(m))
    /\ evts # <<>> => m.count > 0 /\ sd = Idle
    /\ IF evts = <<"success">> THEN LeftIs(Progressed(m), left) ELSE LeftIs(m, left)

LEMMA OwnInvNext ==
    OwnInv' <=>
       /\ ~m'.reqPending
       /\ left' \in LeftType
       /\ evts' \in {<<>>, <<"success">>, <<"error">>}
       /\ sd' # Idle => m'.count > 0 /\ evts' = <<>> /\ sd' = HandedOver(HeadOp(m'))
       /\ evts' # <<>> => m'.count > 0 /\ sd' = Idle
       /\ IF evts' = <<"success">> THEN LeftIs(Progressed(m'), left') ELSE LeftIs(m', left')
  BY DEF OwnInv, LeftType, LeftIs, Progressed, HandedOver, Chunk, HeadOp, Element, SlotOf, Idle

\* LeftIs only reads the ring.
LEMMA LeftSame ==
    ASSUME NEW q, NEW e, NEW lft, e.op = q.op, e.rp = q.rp, e.count = q.count, LeftIs(q, lft)
    PROVE  LeftIs(e, lft)
  BY DEF LeftIs, Element, SlotOf

\* A new operation has all of its length left.
LEMMA LeftEnqueue ==
    ASSUME NEW q \in Statics, NEW lft \in LeftType, LeftIs(q, lft),
           NEW o \in Ops, NEW code \in {"store", "erase"}, NEW n \in 1 .. MaxLen,
           ~Queued(q, o), q.count # QueueSize
    PROVE  /\ LeftIs(Enqueue(q, o, code, n), [lft EXCEPT ![o] = n])
           /\ [lft EXCEPT ![o] = n] \in LeftType
  <1> DEFINE e == Enqueue(q, o, code, n)
             r == [op |-> o, code |-> code, len |-> n, done |-> 0]
             lft2 == [lft EXCEPT ![o] = n]
  <1>1. /\ e.count = q.count + 1
        /\ Element(e, q.count) = r
        /\ \A i \in 0 .. q.count - 1 : Element(e, i) = Element(q, i)
    BY EnqueueElements
  <1>2. r.op = o /\ r.len = n /\ r.done = 0
    OBVIOUS
  <1>3. q.count \in Nat /\ 0 .. e.count - 1 = (0 .. q.count - 1) \cup {q.count}
    BY <1>1, FStorageAssumption DEF Statics
  <1>4. lft2 \in LeftType /\ lft2[o] = n /\ \A x \in Ops \ {o} : lft2[x] = lft[x]
    BY FStorageAssumption DEF LeftType
  <1> HIDE DEF e, r, lft2
  <1>5. /\ Element(e, q.count).op \in Ops
        /\ lft2[Element(e, q.count).op] = Element(e, q.count).len - Element(e, q.count).done
    BY <1>1, <1>2, <1>4
  <1>6. ASSUME NEW i \in 0 .. q.count - 1
        PROVE  /\ Element(e, i).op \in Ops
               /\ lft2[Element(e, i).op] = Element(e, i).len - Element(e, i).done
    <2>1. Element(q, i).op \in Ops \ {o}
      BY DEF Queued, LeftIs
    <2> QED BY <1>1, <1>4, <2>1 DEF LeftIs
  <1>7. LeftIs(e, lft2)
    BY <1>3, <1>5, <1>6 DEF LeftIs
  <1> QED BY <1>4, <1>7 DEF e, lft2

\* Nothing changes for the operations behind the head when it leaves.
LEMMA LeftAdvance ==
    ASSUME NEW q \in Statics, NEW lft, LeftIs(q, lft), q.count > 0
    PROVE  LeftIs(queue_advance(q), lft)
  <1> DEFINE e == queue_advance(q)
  <1>1. /\ e.count = q.count - 1
        /\ \A i \in 0 .. q.count - 2 : Element(e, i) = Element(q, i + 1)
    BY AdvanceElements
  <1> HIDE DEF e
  <1>2. \A i \in 0 .. e.count - 1 : i \in 0 .. q.count - 2 /\ i + 1 \in 0 .. q.count - 1
    BY <1>1 DEF Statics
  <1>3. LeftIs(e, lft)
    BY <1>1, <1>2 DEF LeftIs
  <1> QED BY <1>3 DEF e

\* The chunk that was handed over reaches the flash: the head is where the
\* handler of its event will count it to be, and it has less left than before.
LEMMA LeftProgressed ==
    ASSUME NEW q \in Statics, LiveFrom(q, 0), q.count > 0,
           NEW lft \in LeftType, LeftIs(q, lft)
    PROVE  LET h == HeadOp(q)
               n == HandedOver(h).rest IN
           /\ h.op \in Ops
           /\ n \in 0 .. MaxLen
           /\ n < lft[h.op]
           /\ [lft EXCEPT ![h.op] = n] \in LeftType
           /\ LeftIs(Progressed(q), [lft EXCEPT ![h.op] = n])
  <1> DEFINE p == Progressed(q)
             h == HeadOp(q)
             n == HandedOver(h).rest
             lft2 == [lft EXCEPT ![h.op] = n]
  <1>1. /\ p \in Statics /\ p.count = q.count
        /\ HeadOp(p).op = h.op /\ HeadOp(p).len = h.len
        /\ HeadOp(p).done = h.done + Chunk(h)
        /\ \A i \in 1 .. q.count - 1 : Element(p, i) = Element(q, i)
    BY ProgressedElements
  <1>2. /\ h \in OpRecords /\ h.op \in Ops /\ h.done < h.len /\ h = Element(q, 0)
        /\ 0 \in 0 .. q.count - 1
    BY HeadIsFirst DEF LiveFrom, Statics
  <1>3. n = h.len - h.done - Chunk(h)
    BY DEF HandedOver
  <1> HIDE DEF p, h, n
  <1>4. Chunk(h) \in 1 .. h.len - h.done
    BY <1>2, ChunkInRange
  <1>5. h.len \in Nat /\ h.done \in Nat
    BY <1>2 DEF OpRecords
  <1>6. lft[h.op] = h.len - h.done /\ lft[h.op] \in 0 .. MaxLen
    BY <1>2 DEF LeftIs, LeftType
  <1>7. n \in 0 .. MaxLen /\ n < lft[h.op]
    BY <1>3, <1>4, <1>5, <1>6, FStorageAssumption
  <1>8. lft2 \in LeftType /\ lft2[h.op] = n /\ \A x \in Ops \ {h.op} : lft2[x] = lft[x]
    BY <1>2, <1>7 DEF LeftType
  <1> HIDE DEF lft2
  <1>9. Element(p, 0) = HeadOp(p)
    BY <1>1, HeadIsFirst
  <1>10. h.len - (h.done + Chunk(h)) = n
    BY <1>3, <1>4, <1>5
  <1>11. ASSUME NEW i \in 0 .. p.count - 1
         PROVE  /\ Element(p, i).op \in Ops
                /\ lft2[Element(p, i).op] = Element(p, i).len - Element(p, i).done
    <2>1. CASE i = 0
      BY <2>1, <1>1, <1>2, <1>8, <1>9, <1>10
    <2>2. CASE i \in 1 .. q.count - 1
      <3>1. i \in 0 .. q.count - 1 /\ i # 0
        BY <2>2
      <3>2. Element(q, i).op \in Ops \ {h.op}
        BY <3>1, <1>2 DEF LiveFrom
      <3> QED BY <2>2, <3>1, <3>2, <1>1, <1>8 DEF LeftIs
    <2> QED BY <2>1, <2>2, <1>1 DEF Statics
  <1>12. LeftIs(p, lft2)
    BY <1>11 DEF LeftIs
  <1> QED BY <1>2, <1>7, <1>8, <1>12 DEF p, h, n, lft2

\* The head is handed over, and nothing else is under way.
LEMMA OwnProcess ==
    ASSUME NEW q, Ready(q), ~q.reqPending, NEW out, queue_process(q, out),
           sd = Idle, evts' = <<>>, left' \in LeftType, LeftIs(q, left')
    PROVE  OwnInv'
  <1>1. m' = q
    BY DEF queue_process
  <1>2. sd' # Idle => m'.count > 0 /\ sd' = HandedOver(HeadOp(m'))
    BY DEF queue_process, HandedOver
  <1> QED BY <1>1, <1>2, OwnInvNext

\* An answered head leaves a ring whose next head is handed over.
LEMMA OwnFinish ==
    ASSUME NEW q \in Statics, LiveFrom(q, 1), q.count > 0, q.processing, ~q.reqPending,
           NEW r, Finish(q, r),
           sd = Idle, evts' = <<>>, left \in LeftType, LeftIs(q, left)
    PROVE  OwnInv'
  <1>1. ASSUME NEW e \in Statics, LiveFrom(e, 1), e.count > 0, e.processing, ~e.reqPending,
               NEW out, queue_process(queue_advance(e), out),
               left' \in LeftType, LeftIs(e, left')
        PROVE  OwnInv'
    <2>1. Ready(queue_advance(e)) /\ ~queue_advance(e).reqPending
      BY <1>1, AdvanceReady, AdvanceElements
    <2>2. LeftIs(queue_advance(e), left')
      BY <1>1, LeftAdvance
    <2> QED BY <1>1, <2>1, <2>2, OwnProcess
  <1>2. CASE /\ queue_process(queue_advance(q), [outcome EXCEPT ![HeadOp(q).op] = r])
             /\ UNCHANGED left
    BY <1>1, <1>2
  <1>3. ASSUME NEW o \in Ops, NEW code \in {"store", "erase"}, NEW n \in 1 .. MaxLen,
               ~Queued(q, o), q.count # QueueSize, left' = [left EXCEPT ![o] = n],
               queue_process(queue_advance(Enqueue(q, o, code, n)),
                             [[outcome EXCEPT ![HeadOp(q).op] = r] EXCEPT ![o] = "none"])
        PROVE  OwnInv'
    <2> DEFINE e == Enqueue(q, o, code, n)
    <2>1. e \in Statics /\ e.count = q.count + 1
          /\ e.processing = q.processing /\ e.reqPending = q.reqPending
      BY <1>3, EnqueueElements
    <2>2. LiveFrom(e, 1)
      <3>1. 1 \in Nat /\ 1 <= q.count
        BY DEF Statics
      <3> QED BY <1>3, <3>1, EnqueueLive
    <2>3. LeftIs(e, left') /\ left' \in LeftType
      BY <1>3, LeftEnqueue
    <2> HIDE DEF e
    <2>4. e.count > 0
      BY <2>1 DEF Statics
    <2> QED BY <1>1, <1>3, <2>1, <2>2, <2>3, <2>4 DEF e
  <1> QED BY <1>2, <1>3 DEF Finish
\* What the handler does when the event is the answer to the head: the ring q
\* it goes on with has the same operations, and the head is answered with
\* success only when all of it is in flash.
LEMMA OwnHandler ==
    ASSUME IInv, OwnInv, fs_sys_event_handler
    PROVE  /\ sd = Idle /\ evts' = <<>> /\ m.count > 0
           /\ \E q \in Statics :
                 /\ q.count = m.count /\ q.processing /\ ~q.reqPending
                 /\ LiveFrom(q, 1) /\ LeftIs(q, left)
                 /\ \A i \in 0 .. m.count - 1 : Element(q, i).op = Element(m, i).op
                 /\ \/ LiveFrom(q, 0) /\ queue_process(q, outcome) /\ UNCHANGED left
                    \/ \E r \in {"success", "timeout"} :
                          Finish(q, r) /\ (r = "success" => left[HeadOp(q).op] = 0)
  <1> DEFINE Goes(q) ==
        /\ q.count = m.count /\ q.processing /\ ~q.reqPending
        /\ LiveFrom(q, 1) /\ LeftIs(q, left)
        /\ \A i \in 0 .. m.count - 1 : Element(q, i).op = Element(m, i).op
        /\ \/ LiveFrom(q, 0) /\ queue_process(q, outcome) /\ UNCHANGED left
           \/ \E r \in {"success", "timeout"} :
                 Finish(q, r) /\ (r = "success" => left[HeadOp(q).op] = 0)
  <1>0. /\ m \in Statics /\ LiveFrom(m, 0) /\ LiveFrom(m, 1) /\ FlagsOK(m)
    BY InvParts DEF Ready, LiveFrom, Statics
  <1>1. evts # <<>> /\ evts' = Tail(evts)
    BY DEF fs_sys_event_handler
  <1>2. sd = Idle /\ m.count > 0 /\ ~m.reqPending /\ m.processing
    BY <1>0, <1>1 DEF OwnInv, FlagsOK
  <1>3. PICK e \in {"success", "error"} : evts = <<e>>
    BY <1>1 DEF OwnInv
  <1>4. evts' = <<>> /\ Head(evts) = e
    BY <1>1, <1>3
  <1>5. \/ e = "success" /\ on_operation_success
        \/ e = "error" /\ on_operation_failure
    BY <1>2, <1>3, <1>4
       DEF fs_sys_event_handler, OnOwnResult, OnForeignResult, OnUnexpectedEvent
  <1>6. CASE e = "success" /\ on_operation_success
    <2> DEFINE q == Progressed(m)
    <2>1. /\ q \in Statics /\ q.count = m.count
          /\ q.processing = m.processing /\ q.reqPending = m.reqPending
          /\ HeadOp(q).op = HeadOp(m).op
          /\ \A i \in 1 .. m.count - 1 : Element(q, i) = Element(m, i)
      BY <1>0, <1>2, ProgressedElements
    <2>2. LiveFrom(q, 1) /\ (HeadOp(q).done # HeadOp(q).len => LiveFrom(q, 0))
      BY <1>0, <1>2, ProgressedLive
    <2>3. LeftIs(q, left)
      BY <1>3, <1>6 DEF OwnInv
    <2>4. IF HeadOp(q).done = HeadOp(q).len
          THEN Finish(q, "success")
          ELSE queue_process(q, outcome) /\ UNCHANGED left
      BY <1>6 DEF on_operation_success
    <2> HIDE DEF q
    <2>5. Element(q, 0) = HeadOp(q) /\ Element(m, 0) = HeadOp(m) /\ HeadOp(q) \in OpRecords
      BY <1>0, <2>1, HeadIsFirst
    <2>6. \A i \in 0 .. m.count - 1 : Element(q, i).op = Element(m, i).op
      <3>1. \A i \in 0 .. m.count - 1 : i = 0 \/ i \in 1 .. m.count - 1
        BY <1>0 DEF Statics
      <3> QED BY <2>1, <2>5, <3>1
    <2>7. HeadOp(q).done = HeadOp(q).len => left[HeadOp(q).op] = 0
      <3>1. 0 \in 0 .. q.count - 1
        BY <1>2, <2>1 DEF Statics
      <3>2. left[HeadOp(q).op] = HeadOp(q).len - HeadOp(q).done
        BY <2>3, <2>5, <3>1 DEF LeftIs
      <3> QED BY <2>5, <3>2 DEF OpRecords
    <2>8. \/ LiveFrom(q, 0) /\ queue_process(q, outcome) /\ UNCHANGED left
          \/ Finish(q, "success") /\ left[HeadOp(q).op] = 0
      BY <2>2, <2>4, <2>7
    <2>9. Goes(q)
      BY <1>2, <2>1, <2>2, <2>3, <2>6, <2>8
    <2> QED BY <1>2, <1>4, <2>1, <2>9
  <1>7. CASE e = "error" /\ on_operation_failure
    <2>1. LeftIs(m, left)
      <3>1. evts # <<"success">>
        BY <1>3, <1>7
      <3> QED BY <3>1 DEF OwnInv
    <2>2. ASSUME m.retry + 1 > MaxRetries
          PROVE  \E q \in Statics : Goes(q)
      <3> DEFINE q == [m EXCEPT !.retry = 0]
      <3>1. /\ q \in Statics /\ q.op = m.op /\ q.rp = m.rp /\ q.count = m.count
            /\ q.processing = m.processing /\ q.reqPending = m.reqPending
        BY <1>0, FStorageAssumption DEF Statics
      <3>2. Finish(q, "timeout")
        BY <1>7, <2>2 DEF on_operation_failure
      <3> HIDE DEF q
      <3>3. LiveFrom(q, 1) /\ LeftIs(q, left)
        BY <1>0, <2>1, <3>1, SameRing, LeftSame
      <3>4. \A i \in 0 .. m.count - 1 : Element(q, i).op = Element(m, i).op
        BY <3>1 DEF Element, SlotOf
      <3>5. Goes(q)
        BY <1>2, <3>1, <3>2, <3>3, <3>4
      <3> QED BY <3>1, <3>5
    <2>3. ASSUME ~(m.retry + 1 > MaxRetries)
          PROVE  \E q \in Statics : Goes(q)
      <3> DEFINE q == [m EXCEPT !.retry = @ + 1]
      <3>1. /\ q \in Statics /\ q.op = m.op /\ q.rp = m.rp /\ q.count = m.count
            /\ q.processing = m.processing /\ q.reqPending = m.reqPending
        BY <1>0, <2>3, FStorageAssumption DEF Statics
      <3>2. queue_process(q, outcome) /\ UNCHANGED left
        BY <1>7, <2>3 DEF on_operation_failure
      <3> HIDE DEF q
      <3>3. LiveFrom(q, 0) /\ LiveFrom(q, 1) /\ LeftIs(q, left)
        BY <1>0, <2>1, <3>1, SameRing, LeftSame
      <3>4. \A i \in 0 .. m.count - 1 : Element(q, i).op = Element(m, i).op
        BY <3>1 DEF Element, SlotOf
      <3>5. Goes(q)
        BY <1>2, <3>1, <3>2, <3>3, <3>4
      <3> QED BY <3>1, <3>5
    <2> QED BY <1>2, <1>4, <2>2, <2>3
  <1> QED BY <1>5, <1>6, <1>7

LEMMA OwnHandlerInv ==
    ASSUME IInv, OwnInv, fs_sys_event_handler
    PROVE  OwnInv'
  <1>1. sd = Idle /\ evts' = <<>> /\ m.count > 0 /\ left \in LeftType
    BY OwnHandler DEF OwnInv
  <1>2. PICK q \in Statics :
           /\ q.count = m.count /\ q.processing /\ ~q.reqPending
           /\ LiveFrom(q, 1) /\ LeftIs(q, left)
           /\ \/ LiveFrom(q, 0) /\ queue_process(q, outcome) /\ UNCHANGED left
              \/ \E r \in {"success", "timeout"} : Finish(q, r)
    BY OwnHandler
  <1>3. CASE LiveFrom(q, 0) /\ queue_process(q, outcome) /\ UNCHANGED left
    <2>1. Ready(q)
      BY <1>1, <1>2, <1>3 DEF Ready, FlagsOK
    <2> QED BY <1>1, <1>2, <1>3, <2>1, OwnProcess
  <1>4. CASE \E r \in {"success", "timeout"} : Finish(q, r)
    BY <1>1, <1>2, <1>4, OwnFinish
  <1> QED BY <1>2, <1>3, <1>4

\* A call finds the SoftDevice idle, or the ring not empty.
LEMMA OwnRequestInv ==
    ASSUME IInv, OwnInv, NEW o \in Ops, NEW code \in {"store", "erase"},
           NEW n \in 1 .. MaxLen, Request(o, code, n)
    PROVE  OwnInv'
  <1> DEFINE e == Enqueue(m, o, code, n)
             out == [outcome EXCEPT ![o] = "none"]
  <1>0. /\ m \in Statics /\ LiveFrom(m, 0) /\ FlagsOK(m) /\ left \in LeftType /\ ~m.reqPending
    BY InvParts DEF Ready, OwnInv
  <1>1. /\ ~Queued(m, o) /\ m.count # QueueSize /\ left' = [left EXCEPT ![o] = n]
        /\ evts' = evts /\ queue_start(e, out)
    BY DEF Request
  <1>2. /\ e \in Statics /\ e.count = m.count + 1
        /\ e.processing = m.processing /\ e.reqPending = m.reqPending
        /\ Element(e, m.count) = [op |-> o, code |-> code, len |-> n, done |-> 0]
        /\ \A i \in 0 .. m.count - 1 : Element(e, i) = Element(m, i)
    BY <1>0, <1>1, EnqueueElements
  <1>3. LiveFrom(e, 0)
    <2>1. 0 \in Nat /\ 0 <= m.count
      BY <1>0 DEF Statics
    <2> QED BY <1>0, <1>1, <2>1, EnqueueLive
  <1>4. left' \in LeftType
    BY <1>0, <1>1, FStorageAssumption DEF LeftType
  <1>5. LeftIs(m, left) => LeftIs(e, left')
    BY <1>0, <1>1, LeftEnqueue
  <1> HIDE DEF e
  <1>6. CASE m.count = 0
    <2>1. ~m.processing /\ sd = Idle /\ evts = <<>>
      BY <1>0, <1>6 DEF FlagsOK, OwnInv
    <2> DEFINE f == [e EXCEPT !.processing = TRUE]
    <2>2. /\ f \in Statics /\ f.op = e.op /\ f.rp = e.rp /\ f.count = e.count
          /\ f.processing /\ ~f.reqPending
      BY <1>0, <1>2 DEF Statics
    <2>3. queue_process(f, out)
      BY <1>0, <1>1, <1>2, <2>1 DEF queue_start
    <2> HIDE DEF f
    <2>4. Ready(f)
      <3>1. LiveFrom(f, 0)
        BY <1>3, <2>2, SameRing
      <3>2. f.count > 0
        BY <1>0, <1>2, <2>2 DEF Statics
      <3> QED BY <2>2, <3>1, <3>2 DEF Ready, FlagsOK
    <2>5. evts # <<"success">>
      BY <2>1
    <2>6. LeftIs(f, left')
      BY <1>5, <2>2, <2>5, LeftSame DEF OwnInv
    <2>7. evts' = <<>>
      BY <1>1, <2>1
    <2> QED BY <1>4, <2>1, <2>2, <2>3, <2>4, <2>6, <2>7, OwnProcess
  <1>7. CASE m.count > 0
    <2>1. m.processing
      BY <1>0, <1>7 DEF FlagsOK
    <2>2. m' = e /\ sd' = sd
      BY <1>1, <1>2, <2>1 DEF queue_start
    <2>3. HeadOp(e) = HeadOp(m)
      BY <1>0, <1>1, <1>7, EnqueueQueued DEF e
    <2>4. m'.count > 0 /\ ~m'.reqPending
      BY <1>0, <1>2, <2>2 DEF Statics
    <2>5. CASE evts # <<"success">>
      <3>1. LeftIs(m', left')
        BY <1>5, <2>2, <2>5 DEF OwnInv
      <3> QED BY <1>1, <1>4, <2>2, <2>3, <2>4, <2>5, <3>1, OwnInvNext DEF OwnInv
    <2>6. CASE evts = <<"success">>
      <3>1. LeftIs(Progressed(m), left)
        BY <2>6 DEF OwnInv
      <3> DEFINE p == Progressed(m)
      <3>2. /\ p \in Statics /\ p.count = m.count
            /\ HeadOp(p).op = HeadOp(m).op
            /\ \A i \in 1 .. m.count - 1 : Element(p, i) = Element(m, i)
        BY <1>0, <1>7, ProgressedElements
      <3> HIDE DEF p
      <3>3. ~Queued(p, o)
        <4>1. Element(p, 0).op = Element(m, 0).op
          BY <1>0, <3>2, HeadIsFirst
        <4>2. \A i \in 0 .. m.count - 1 : i = 0 \/ i \in 1 .. m.count - 1
          BY <1>0 DEF Statics
        <4> QED BY <1>1, <3>2, <4>1, <4>2 DEF Queued
      <3> DEFINE f == Enqueue(p, o, code, n)
                 g == Progressed(e)
      <3>4. LeftIs(f, left')
        BY <1>0, <1>1, <3>1, <3>2, <3>3, LeftEnqueue DEF p
      <3>5. /\ f.count = m.count + 1 /\ Element(f, m.count) = Element(e, m.count)
            /\ \A i \in 0 .. m.count - 1 : Element(f, i) = Element(p, i)
        <4>1. p.count # QueueSize
          BY <1>1, <3>2
        <4> QED BY <1>2, <3>2, <4>1, EnqueueElements
      <3>6. /\ g \in Statics /\ g.count = m.count + 1
            /\ \A i \in 1 .. m.count : Element(g, i) = Element(e, i)
            /\ HeadOp(g).op = HeadOp(p).op /\ HeadOp(g).len = HeadOp(p).len
            /\ HeadOp(g).done = HeadOp(p).done
        <4>1. e.count > 0 /\ e.count - 1 = m.count
          BY <1>0, <1>2 DEF Statics
        <4> QED BY <1>0, <1>2, <1>3, <1>7, <2>3, <4>1, ProgressedElements DEF p
      <3> HIDE DEF f, g
      <3>7. Element(g, 0) = HeadOp(g) /\ Element(p, 0) = HeadOp(p) /\ 0 \in 0 .. m.count - 1
        BY <1>0, <1>7, <3>2, <3>6, HeadIsFirst DEF Statics
      <3>8. ASSUME NEW i \in 0 .. m.count
            PROVE  /\ Element(g, i).op = Element(f, i).op
                   /\ Element(g, i).len = Element(f, i).len
                   /\ Element(g, i).done = Element(f, i).done
        <4>1. CASE i = 0
          BY <4>1, <3>5, <3>6, <3>7
        <4>2. CASE i = m.count
          BY <4>2, <1>0, <1>7, <3>5, <3>6 DEF Statics
        <4>3. CASE i \in 1 .. m.count - 1
          <5>1. i \in 0 .. m.count - 1 /\ i \in 1 .. m.count
            BY <1>0, <4>3 DEF Statics
          <5>2. Element(g, i) = Element(m, i) /\ Element(f, i) = Element(m, i)
            BY <1>2, <3>2, <3>5, <3>6, <4>3, <5>1
          <5> QED BY <5>2
        <4> QED BY <4>1, <4>2, <4>3, <1>0 DEF Statics
      <3>9. LeftIs(g, left')
        <4>1. g.count - 1 = m.count /\ f.count - 1 = m.count
          BY <1>0, <3>5, <3>6 DEF Statics
        <4> QED BY <3>4, <3>8, <4>1 DEF LeftIs
      <3>10. LeftIs(Progressed(m'), left')
        BY <2>2, <3>9 DEF g
      <3>11. evts' = <<"success">> /\ sd' = Idle
        BY <1>1, <2>2, <2>6 DEF OwnInv
      <3> QED BY <1>4, <2>4, <3>10, <3>11, OwnInvNext
    <2> QED BY <2>5, <2>6
  <1> QED BY <1>0, <1>6, <1>7 DEF Statics

\* The SoftDevice ends the request of the head, with or without success.
LEMMA OwnCompleteInv ==
    ASSUME IInv, OwnInv, SdComplete
    PROVE  /\ OwnInv'
           /\ m.count > 0
           /\ \/ left' = left
              \/ \E n \in 0 .. MaxLen :
                    n < left[HeadOp(m).op] /\ left' = [left EXCEPT ![HeadOp(m).op] = n]
  <1>0. /\ m \in Statics /\ LiveFrom(m, 0) /\ left \in LeftType /\ ~m.reqPending
    BY InvParts DEF Ready, OwnInv
  <1>1. /\ m.count > 0 /\ evts = <<>> /\ sd = HandedOver(HeadOp(m))
        /\ sd' = Idle /\ m' = m
    BY DEF SdComplete, OwnInv
  <1>2. LeftIs(m, left)
    <2>1. evts # <<"success">>
      BY <1>1
    <2> QED BY <2>1 DEF OwnInv
  <1>3. sd.by = "fstorage" /\ sd.op = HeadOp(m).op /\ sd.rest = HandedOver(HeadOp(m)).rest
    BY <1>1 DEF HandedOver
  <1>4. PICK e \in {"success", "error"} :
           /\ evts' = Append(evts, e)
           /\ left' = IF e = "success" /\ sd.by = "fstorage"
                      THEN [left EXCEPT ![sd.op] = sd.rest]
                      ELSE left
    BY DEF SdComplete
  <1>5. evts' = <<e>> /\ evts' # <<>>
    BY <1>1, <1>4
  <1>6. CASE e = "success"
    <2>1. left' = [left EXCEPT ![HeadOp(m).op] = HandedOver(HeadOp(m)).rest]
      BY <1>3, <1>4, <1>6
    <2>2. /\ HandedOver(HeadOp(m)).rest \in 0 .. MaxLen
          /\ HandedOver(HeadOp(m)).rest < left[HeadOp(m).op]
          /\ left' \in LeftType /\ LeftIs(Progressed(m), left')
      BY <1>0, <1>1, <1>2, <2>1, LeftProgressed
    <2>3. OwnInv'
      BY <1>0, <1>1, <1>5, <1>6, <2>2, OwnInvNext
    <2> QED BY <1>1, <2>1, <2>2, <2>3
  <1>7. CASE e = "error"
    <2>1. left' = left /\ evts' # <<"success">>
      BY <1>4, <1>5, <1>7
    <2>2. OwnInv'
      BY <1>0, <1>1, <1>2, <1>5, <1>7, <2>1, OwnInvNext
    <2> QED BY <1>1, <2>1, <2>2
  <1> QED BY <1>4, <1>6, <1>7

\* The strengthened invariant of a module that has the flash to itself,
\* whatever the SoftDevice refuses.
THEOREM OwnInvariant ==
    ASSUME ~ForeignUsers, ~StrayEvents
    PROVE  Spec => [](IInv /\ OwnInv)
  <1>1. Init => OwnInv
    <2> SUFFICES ASSUME Init PROVE OwnInv
      OBVIOUS
    <2>1. m.count = 0 /\ ~m.reqPending /\ sd = Idle /\ evts = <<>> /\ left \in LeftType
      BY FStorageAssumption DEF Init, LeftType
    <2>2. LeftIs(m, left) /\ evts # <<"success">>
      BY <2>1 DEF LeftIs
    <2> QED BY <2>1, <2>2 DEF OwnInv
  <1>2. IInv /\ OwnInv /\ [Next]_vars => OwnInv'
    <2> SUFFICES ASSUME IInv, OwnInv, [Next]_vars
                 PROVE  OwnInv'
      OBVIOUS
    <2>1. CASE fs_init
      <3>1. m' = [m EXCEPT !.initialized = TRUE] /\ UNCHANGED <<sd, evts, left>>
        BY <2>1 DEF fs_init
      <3>2. /\ m'.op = m.op /\ m'.rp = m.rp /\ m'.count = m.count
            /\ m'.reqPending = m.reqPending /\ HeadOp(m') = HeadOp(m)
        BY <3>1, InvParts, SameRing DEF Ready, Statics
      <3>3. LeftIs(m, left) => LeftIs(m', left')
        BY <3>1, <3>2, LeftSame
      <3>4. LeftIs(Progressed(m), left) => LeftIs(Progressed(m'), left')
        <4>1. /\ Progressed(m').op = Progressed(m).op /\ Progressed(m').rp = Progressed(m).rp
              /\ Progressed(m').count = Progressed(m).count
          BY <3>1, InvParts DEF Ready, Progressed, HeadOp, Statics
        <4> QED BY <3>1, <4>1, LeftSame
      <3> QED BY <3>1, <3>2, <3>3, <3>4, OwnInvNext DEF OwnInv
    <2>2. ASSUME NEW o \in Ops, NEW n \in 1 .. MaxLen, fs_store(o, n) \/ fs_erase(o, n)
          PROVE  OwnInv'
      BY <2>2, OwnRequestInv DEF fs_store, fs_erase
    <2>3. CASE fs_sys_event_handler
      BY <2>3, OwnHandlerInv
    <2>4. CASE SdComplete
      BY <2>4, OwnCompleteInv
    <2>5. CASE UNCHANGED vars
      BY <2>5, OwnInvNext DEF vars, OwnInv
    <2> QED BY <2>1, <2>2, <2>3, <2>4, <2>5 DEF Next, SdForeignRequest, SdStrayEvent
  <1> QED BY <1>1, <1>2, QueueInvariant, PTL DEF Spec

\* fs_sys_event_handler counts no part of an operation as done that is not in
\* flash, as long as no other module uses the flash and only flash events are
\* dispatched to it.
THEOREM ProgressPhysical ==
    ASSUME ~ForeignUsers, ~StrayEvents
    PROVE  Spec => []ProgressIsPhysical
  <1>1. IInv /\ OwnInv => ProgressIsPhysical
    <2> SUFFICES ASSUME IInv, OwnInv, NEW i \in 0 .. m.count - 1
                 PROVE  Element(m, i).len - Element(m, i).done >= left[Element(m, i).op]
      BY DEF ProgressIsPhysical
    <2>0. /\ m \in Statics /\ LiveFrom(m, 0) /\ left \in LeftType
      BY InvParts DEF Ready, OwnInv
    <2>1. Element(m, i).op \in Ops
      BY <2>0 DEF LiveFrom
    <2>2. left[Element(m, i).op] \in Int
      BY <2>0, <2>1, FStorageAssumption DEF LeftType
    <2>3. CASE evts # <<"success">>
      BY <2>2, <2>3 DEF OwnInv, LeftIs
    <2>4. CASE evts = <<"success">>
      <3> DEFINE p == Progressed(m)
                 h == HeadOp(m)
      <3>1. m.count > 0
        BY <2>0 DEF Statics
      <3>2. /\ p \in Statics /\ p.count = m.count
            /\ HeadOp(p).op = h.op /\ HeadOp(p).len = h.len
            /\ HeadOp(p).done = h.done + Chunk(h)
            /\ \A j \in 1 .. m.count - 1 : Element(p, j) = Element(m, j)
        BY <2>0, <3>1, ProgressedElements
      <3>3. LeftIs(p, left)
        BY <2>4 DEF OwnInv
      <3>4. h \in OpRecords /\ h = Element(m, 0) /\ h.done < h.len /\ Chunk(h) \in 1 .. h.len - h.done
        BY <2>0, <3>1, HeadIsFirst, ChunkInRange DEF LiveFrom, Statics
      <3> HIDE DEF p, h
      <3>5. Element(p, 0) = HeadOp(p)
        BY <3>2, HeadIsFirst
      <3>6. CASE i = 0
        <4>1. left[h.op] = h.len - (h.done + Chunk(h))
          BY <3>2, <3>3, <3>5, <3>6 DEF LeftIs
        <4>2. h.len \in Nat /\ h.done \in Nat /\ Chunk(h) \in Nat
          BY <3>4 DEF OpRecords
        <4>3. h.len - h.done >= left[h.op]
          BY <4>1, <4>2
        <4> QED BY <3>4, <3>6, <4>3
      <3>7. CASE i \in 1 .. m.count - 1
        BY <2>2, <3>2, <3>3, <3>7 DEF LeftIs
      <3> QED BY <3>6, <3>7, <2>0 DEF Statics
    <2> QED BY <2>3, <2>4
  <1> QED BY <1>1, OwnInvariant, PTL
-----------------------------------------------------------------------------
(* The queue implements the flash service.                                 *)

\* Pending in the next state is the sequence of the next ring.
LEMMA PendingNext ==
    Pending(m)' = Pending(m')
  BY DEF Pending, Element, SlotOf

\* queue_process is invisible to the clients.
LEMMA ProcessPending ==
    ASSUME ~SdRejects, NEW q \in Statics, NEW out, queue_process(q, out)
    PROVE  Pending(m)' = Pending(q) /\ outcome' = out
  <1>1. outcome' = out /\ m'.op = q.op /\ m'.rp = q.rp /\ m'.count = q.count
    BY ProcessSame
  <1>2. Pending(m') = Pending(q)
    BY <1>1 DEF Pending, Element, SlotOf
  <1> QED BY <1>1, <1>2, PendingNext

\* A call is the service's Accept.
LEMMA RequestAccepts ==
    ASSUME ~SdRejects, IInv, NEW o \in Ops, NEW code \in {"store", "erase"},
           NEW n \in 1 .. MaxLen, Request(o, code, n)
    PROVE  Service!Accept(o, n)
  <1> DEFINE e == Enqueue(m, o, code, n)
             out == [outcome EXCEPT ![o] = "none"]
  <1>1. /\ ~Queued(m, o) /\ m.count # QueueSize /\ left' = [left EXCEPT ![o] = n]
        /\ queue_start(e, out) /\ m \in Statics
    BY InvParts DEF Request, Ready
  <1>2. e \in Statics /\ Pending(e) = Append(Pending(m), o)
    BY <1>1, EnqueueElements, PendingEnqueue
  <1> HIDE DEF e
  <1>3. Pending(m)' = Pending(e) /\ outcome' = out
    <2>1. CASE queue_process([e EXCEPT !.processing = TRUE], out)
      <3> DEFINE f == [e EXCEPT !.processing = TRUE]
      <3>1. f \in Statics /\ f.op = e.op /\ f.rp = e.rp /\ f.count = e.count
        BY <1>2 DEF Statics
      <3> HIDE DEF f
      <3>2. Pending(f) = Pending(e)
        BY <3>1 DEF Pending, Element, SlotOf
      <3> QED BY <2>1, <3>1, <3>2, ProcessPending DEF f
    <2>2. CASE m' = e /\ outcome' = out
      BY <2>2, PendingNext
    <2> QED BY <1>1, <2>1, <2>2 DEF queue_start
  <1>4. ~Service!Queued(o)
    BY <1>1, QueuedInService
  <1>5. Len(Pending(m)) < QueueSize
    <2>1. Len(Pending(m)) = m.count /\ m.count \in 0 .. QueueSize
      BY <1>1, PendingElements
    <2> QED BY <1>1, <2>1, FStorageAssumption
  <1> QED BY <1>1, <1>2, <1>3, <1>4, <1>5 DEF Service!Accept

\* The event of an operation is the service's Complete, with the request that
\* the callback makes.
LEMMA FinishCompletes ==
    ASSUME ~SdRejects, m \in Statics, NEW q \in Statics,
           q.count = m.count, q.count > 0,
           \A i \in 0 .. m.count - 1 : Element(q, i).op = Element(m, i).op,
           NEW r \in {"success", "timeout"}, Finish(q, r),
           r = "success" => left[HeadOp(q).op] = 0
    PROVE  Service!Complete(r)
  <1> DEFINE out == [outcome EXCEPT ![HeadOp(q).op] = r]
  <1>1. Pending(q) = Pending(m)
    <2>1. m.count \in Nat
      BY FStorageAssumption DEF Statics
    <2> QED BY <2>1, PendingSame
  <1>2. Pending(m) # <<>> /\ Head(Pending(m)) = HeadOp(q).op
    BY <1>1, PendingHead
  <1>3. \A o : Queued(m, o) <=> Queued(q, o)
    BY DEF Queued
  <1>4. CASE queue_process(queue_advance(q), out) /\ UNCHANGED left
    <2>1. queue_advance(q) \in Statics
      BY AdvanceElements
    <2>2. Pending(m)' = Tail(Pending(m)) /\ outcome' = out
      BY <1>1, <1>4, <2>1, ProcessPending, PendingAdvance
    <2> QED BY <1>2, <1>4, <2>2 DEF Service!Complete
  <1>5. ASSUME NEW o \in Ops, NEW code \in {"store", "erase"}, NEW n \in 1 .. MaxLen,
               ~Queued(q, o), q.count # QueueSize, left' = [left EXCEPT ![o] = n],
               queue_process(queue_advance(Enqueue(q, o, code, n)), [out EXCEPT ![o] = "none"])
        PROVE  Service!Complete(r)
    <2> DEFINE e == Enqueue(q, o, code, n)
    <2>1. e \in Statics /\ e.count = q.count + 1 /\ Pending(e) = Append(Pending(q), o)
      BY <1>5, EnqueueElements, PendingEnqueue
    <2> HIDE DEF e
    <2>2. e.count > 0
      BY <2>1 DEF Statics
    <2>3. queue_advance(e) \in Statics
      BY <2>1, <2>2, AdvanceElements
    <2>4. Pending(m)' = Tail(Pending(e)) /\ outcome' = [out EXCEPT ![o] = "none"]
      BY <1>5, <2>1, <2>2, <2>3, ProcessPending, PendingAdvance DEF e
    <2>5. Tail(Append(Pending(m), o)) = Append(Tail(Pending(m)), o)
      <3>1. Pending(m) \in Seq(Ops \cup {NoOp})
        BY PendingElements
      <3> QED BY <1>2, <3>1, HeadTailAppend
    <2>6. ~Service!Queued(o) /\ Len(Pending(m)) < QueueSize
      <3>1. Len(Pending(m)) = m.count /\ m.count \in 0 .. QueueSize
        BY PendingElements
      <3> QED BY <1>3, <1>5, <3>1, QueuedInService, FStorageAssumption
    <2>7. /\ Pending(m)' = Append(Tail(Pending(m)), o)
          /\ outcome' = [outcome EXCEPT ![Head(Pending(m))] = r, ![o] = "none"]
      BY <1>1, <1>2, <2>1, <2>4, <2>5
    <2> QED BY <1>2, <1>5, <2>6, <2>7 DEF Service!Complete
  <1> QED BY <1>4, <1>5 DEF Finish

\* The safety half of the refinement: a module that has the flash to itself,
\* with a SoftDevice that refuses nothing, carries out the operations one at a
\* time in the order of the calls, and answers each once, with success only
\* when it is in flash.
THEOREM QueueImplementsService ==
    ASSUME ~ForeignUsers, ~StrayEvents, ~SdRejects
    PROVE  Spec => Service!Spec
  <1>1. Init => Service!Init
    <2> SUFFICES ASSUME Init PROVE Service!Init
      OBVIOUS
    <2>1. m.count = 0 /\ left = [o \in Ops |-> 0] /\ outcome = [o \in Ops |-> "none"]
      BY DEF Init
    <2>2. Pending(m) = <<>>
      BY <2>1 DEF Pending
    <2> QED BY <2>1, <2>2 DEF Service!Init
  <1>2. IInv /\ OwnInv /\ [Next]_vars => [Service!Next]_Service!vars
    <2> SUFFICES ASSUME IInv, OwnInv, [Next]_vars
                 PROVE  Service!Next \/ UNCHANGED <<Pending(m), left, outcome>>
      BY DEF Service!vars
    <2>0. m \in Statics /\ LiveFrom(m, 0)
      BY InvParts DEF Ready
    <2>1. CASE fs_init
      <3>1. m' = [m EXCEPT !.initialized = TRUE] /\ UNCHANGED <<left, outcome>>
        BY <2>1 DEF fs_init
      <3>2. Pending(m') = Pending(m)
        BY <2>0, <3>1 DEF Pending, Element, SlotOf, Statics
      <3> QED BY <3>1, <3>2, PendingNext
    <2>2. ASSUME NEW o \in Ops, NEW n \in 1 .. MaxLen, fs_store(o, n) \/ fs_erase(o, n)
          PROVE  Service!Next
      <3>1. Service!Accept(o, n)
        BY <2>2, RequestAccepts DEF fs_store, fs_erase
      <3> QED BY <3>1 DEF Service!Next
    <2>3. CASE fs_sys_event_handler
      <3>1. PICK q \in Statics :
               /\ q.count = m.count
               /\ \A i \in 0 .. m.count - 1 : Element(q, i).op = Element(m, i).op
               /\ \/ queue_process(q, outcome) /\ UNCHANGED left
                  \/ \E r \in {"success", "timeout"} :
                        Finish(q, r) /\ (r = "success" => left[HeadOp(q).op] = 0)
        BY <2>3, OwnHandler
      <3>2. m.count > 0
        BY <2>3, OwnHandler
      <3>3. CASE queue_process(q, outcome) /\ UNCHANGED left
        <4>1. Pending(m)' = Pending(q) /\ outcome' = outcome
          BY <3>3, ProcessPending
        <4>2. Pending(q) = Pending(m)
          <5>1. m.count \in Nat
            BY <2>0, FStorageAssumption DEF Statics
          <5> QED BY <3>1, <5>1, PendingSame
        <4> QED BY <3>3, <4>1, <4>2
      <3>4. CASE \E r \in {"success", "timeout"} :
                    Finish(q, r) /\ (r = "success" => left[HeadOp(q).op] = 0)
        <4>1. PICK r \in {"success", "timeout"} :
                 Finish(q, r) /\ (r = "success" => left[HeadOp(q).op] = 0)
          BY <3>4
        <4>2. Service!Complete(r)
          BY <2>0, <3>1, <3>2, <4>1, FinishCompletes
        <4> QED BY <4>2 DEF Service!Next, Service!Outcomes
      <3> QED BY <3>1, <3>3, <3>4
    <2>4. CASE SdComplete
      <3>1. m' = m /\ outcome' = outcome
        BY <2>4 DEF SdComplete
      <3>2. Pending(m)' = Pending(m)
        BY <3>1, PendingNext
      <3>3. Pending(m) # <<>> /\ Head(Pending(m)) = HeadOp(m).op
        BY <2>0, <2>4, OwnCompleteInv, PendingHead
      <3>4. \/ left' = left
            \/ \E n \in 0 .. MaxLen :
                  n < left[HeadOp(m).op] /\ left' = [left EXCEPT ![HeadOp(m).op] = n]
        BY <2>4, OwnCompleteInv
      <3>5. left' = left \/ Service!Program
        BY <3>1, <3>2, <3>3, <3>4 DEF Service!Program
      <3> QED BY <3>1, <3>2, <3>5 DEF Service!Next
    <2>5. CASE UNCHANGED vars
      <3>1. m' = m /\ UNCHANGED <<left, outcome>>
        BY <2>5 DEF vars
      <3> QED BY <3>1, PendingNext
    <2> QED BY <2>1, <2>2, <2>3, <2>4, <2>5 DEF Next, SdForeignRequest, SdStrayEvent
  <1>3. Spec => [](IInv /\ OwnInv)
    BY OwnInvariant
  <1> QED BY <1>1, <1>2, <1>3, PTL DEF Spec, Service!Spec

=============================================================================
