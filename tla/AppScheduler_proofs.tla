------------------------ MODULE AppScheduler_proofs ------------------------
(***************************************************************************)
(* Proofs about AppScheduler, for every queue size, set of events and      *)
(* number of interrupt levels.                                             *)
(***************************************************************************)
EXTENDS AppScheduler, SequenceTheorems, TLAPS

PutType == [at : Index, event : Events]

Handlers == Events \cup {NoHandler}

\* How far an entry is behind the start.
Offset(i) == IF i >= start THEN i - start ELSE i - start + QueueSize + 1

\* The entries of puts under way are in use, and each put has its own.
PutsInUse == \A k \in DOMAIN puts : Offset(puts[k].at) < Used

PutsDistinct ==
    \A j, k \in DOMAIN puts : puts[j].at = puts[k].at => j = k

\* Handlers do not wait: at most one runs, its entry is still in use, still
\* holds it and is no put's.
OneHandler ==
    /\ Len(main) <= 1
    /\ loop <=> main = <<>>
    /\ main # <<>> =>
          /\ start # end
          /\ main[1] = headers[start]
          /\ \A k \in DOMAIN puts : puts[k].at # start

\* The inductive invariant of the application's scheduler.
IInv == TypeOK /\ PutsInUse /\ PutsDistinct /\ OneHandler

-----------------------------------------------------------------------------
(* Lemmas about the ring and its sequences.                                *)

\* The last element can be taken off a sequence.
LEMMA FrontOfSeq ==
    ASSUME NEW S, NEW s \in Seq(S), s # <<>>
    PROVE  /\ Front(s) \in Seq(S)
           /\ Len(s) \in Nat \ {0}
           /\ Len(Front(s)) = Len(s) - 1
           /\ DOMAIN s = 1 .. Len(s)
           /\ DOMAIN Front(s) = 1 .. Len(s) - 1
           /\ \A i \in 1 .. Len(s) - 1 : Front(s)[i] = s[i]
           /\ Last(s) = s[Len(s)]
           /\ Last(s) \in S
  <1>1. Len(s) \in Nat \ {0} /\ DOMAIN s = 1 .. Len(s)
    BY EmptySeq, LenProperties
  <1>2. /\ Front(s) \in Seq(S)
        /\ Len(Front(s)) = Len(s) - 1
        /\ \A i \in 1 .. Len(s) - 1 : Front(s)[i] = s[i]
    BY <1>1 DEF Front
  <1>3. DOMAIN Front(s) = 1 .. Len(s) - 1
    BY <1>2, LenProperties
  <1>4. Last(s) = s[Len(s)] /\ Last(s) \in S
    BY <1>1 DEF Last
  <1> QED
    BY <1>1, <1>2, <1>3, <1>4

\* An entry that some put is still to fill holds that put's event, for the
\* ring's users; any other entry holds what is in memory.
LEMMA EventOfPut ==
    ASSUME NEW p, NEW h, NEW k \in DOMAIN p,
           \A i, j \in DOMAIN p : p[i].at = p[j].at => i = j
    PROVE  EventIn(p, h, p[k].at) = p[k].event
  <1>1. \E j \in DOMAIN p : p[j].at = p[k].at
    OBVIOUS
  <1>2. (CHOOSE j \in DOMAIN p : p[j].at = p[k].at) = k
    BY <1>1
  <1> QED
    BY <1>1, <1>2 DEF EventIn

LEMMA EventOfRing ==
    ASSUME NEW p, NEW h, NEW i, \A k \in DOMAIN p : p[k].at # i
    PROVE  EventIn(p, h, i) = h[i]
  BY DEF EventIn

\* The next entry is in the ring.
LEMMA NextInIndex ==
    ASSUME NEW i \in Index
    PROVE  next_index(i) \in Index
  BY AppSchedulerAssumption DEF Index, next_index

\* Entries and their offsets from the start correspond one to one.
LEMMA EntryOffset ==
    ASSUME start \in Index, end \in Index
    PROVE  /\ Used \in 0 .. QueueSize
           /\ \A k \in 0 .. QueueSize : Entry(k) \in Index /\ Offset(Entry(k)) = k
           /\ \A i \in Index : Offset(i) \in 0 .. QueueSize /\ Entry(Offset(i)) = i
           /\ Offset(end) = Used
           /\ Used = 0 <=> start = end
  BY AppSchedulerAssumption DEF Index, Used, Entry, Offset

\* Every put under way has an entry of the ring and an event.
LEMMA PutsTyped ==
    ASSUME TypeOK
    PROVE  /\ DOMAIN puts = 1 .. Len(puts)
           /\ Len(puts) \in Nat
           /\ \A k \in DOMAIN puts : puts[k] \in PutType
  <1>1. puts \in Seq(PutType)
    BY DEF TypeOK, PutType
  <1> QED
    BY <1>1, LenProperties, ElementOfSeq

\* What the ring holds, seen as a sequence.
ContentsWellFormed ==
    /\ Contents \in Seq(Handlers)
    /\ Len(Contents) = Used
    /\ \A k \in 1 .. Used :
          Contents[k] = EventIn(puts, headers, Entry(k - 1))

\* What the ring holds is a sequence of Used elements.
LEMMA ContentsType ==
    ASSUME TypeOK
    PROVE  ContentsWellFormed
  <1>1. Used \in 0 .. QueueSize /\ \A k \in 0 .. QueueSize : Entry(k) \in Index
    BY EntryOffset DEF TypeOK
  <1>2. ASSUME NEW i \in Index
        PROVE  EventIn(puts, headers, i) \in Handlers
    <2>1. CASE \E k \in DOMAIN puts : puts[k].at = i
      <3>1. (CHOOSE k \in DOMAIN puts : puts[k].at = i) \in DOMAIN puts
        BY <2>1
      <3>2. \A k \in DOMAIN puts : puts[k].event \in Events
        BY PutsTyped DEF PutType
      <3> QED
        BY <2>1, <3>1, <3>2 DEF EventIn, Handlers
    <2>2. CASE \A k \in DOMAIN puts : puts[k].at # i
      BY <2>2, EventOfRing DEF TypeOK, Handlers
    <2> QED
      BY <2>1, <2>2
  <1>3. ASSUME NEW k \in 1 .. Used
        PROVE  EventIn(puts, headers, Entry(k - 1)) \in Handlers
    <2>1. k - 1 \in 0 .. QueueSize
      BY <1>1, AppSchedulerAssumption
    <2>2. Entry(k - 1) \in Index
      BY <1>1, <2>1
    <2> QED
      BY <1>2, <2>2
  <1>4. Contents \in [1 .. Used -> Handlers]
    BY <1>3 DEF Contents
  <1> QED
    BY <1>1, <1>4 DEF Contents, ContentsWellFormed

-----------------------------------------------------------------------------
(* Type correctness, with or without waiting handlers.                     *)

\* The initial state is well typed.
LEMMA TypeInit == Init => TypeOK
  <1> SUFFICES ASSUME Init PROVE TypeOK
    OBVIOUS
  <1>1. <<>> \in Seq([at : Index, event : Events]) /\ <<>> \in Seq(Events \cup {NoHandler})
    BY EmptySeq
  <1> QED
    BY <1>1, AppSchedulerAssumption DEF Init, TypeOK, Index

\* Every step keeps the types.
LEMMA TypeStep == TypeOK /\ [Next]_vars => TypeOK'
  <1> SUFFICES ASSUME TypeOK, [Next]_vars PROVE TypeOK'
    OBVIOUS
  <1> USE DEF TypeOK
  <1>1. ASSUME NEW e \in Events, Reserve(e) PROVE TypeOK'
    <2>1. [at |-> end, event |-> e] \in [at : Index, event : Events]
      OBVIOUS
    <2>2. puts' \in Seq([at : Index, event : Events])
      BY <1>1, <2>1 DEF Reserve
    <2>3. end' \in Index
      BY <1>1, NextInIndex DEF Reserve
    <2> QED
      BY <1>1, <2>2, <2>3 DEF Reserve
  <1>2. ASSUME Fill PROVE TypeOK'
    <2>1. /\ Front(puts) \in Seq([at : Index, event : Events])
          /\ Last(puts) \in [at : Index, event : Events]
      BY <1>2, FrontOfSeq DEF Fill
    <2> QED
      BY <1>2, <2>1 DEF Fill
  <1>3. ASSUME Execute PROVE TypeOK'
    <2>1. headers[start] \in Events \cup {NoHandler}
      OBVIOUS
    <2>2. main' \in Seq(Events \cup {NoHandler})
      BY <1>3, <2>1 DEF Execute
    <2> QED
      BY <1>3, <2>2 DEF Execute
  <1>4. ASSUME Return PROVE TypeOK'
    <2>1. Front(main) \in Seq(Events \cup {NoHandler})
      BY <1>4, FrontOfSeq DEF Return
    <2>2. start' \in Index
      BY <1>4, NextInIndex DEF Return
    <2> QED
      BY <1>4, <2>1, <2>2 DEF Return
  <1>5. ASSUME Wait PROVE TypeOK'
    BY <1>5 DEF Wait
  <1>6. ASSUME WaitEnds PROVE TypeOK'
    BY <1>6 DEF WaitEnds
  <1>7. CASE UNCHANGED vars
    BY <1>7 DEF vars
  <1> QED
    BY <1>1, <1>2, <1>3, <1>4, <1>5, <1>6, <1>7 DEF Next

\* The indices stay in the ring and every entry holds a handler, with
\* app_sched_execute nested as deep as the bootloader's handlers like.
THEOREM TypeCorrect == Spec => []TypeOK
  <1> QED
    BY TypeInit, TypeStep, PTL DEF Spec

\* app_sched_queue_space_get agrees with app_sched_queue_full at any moment,
\* in the middle of a put too.
THEOREM SpaceCorrect == Spec => []SpaceIsRoom
  <1>1. TypeOK => SpaceIsRoom
    BY AppSchedulerAssumption
    DEF TypeOK, Index, SpaceIsRoom, app_sched_queue_space_get,
        app_sched_queue_full, next_index
  <1> QED
    BY <1>1, TypeCorrect, PTL

-----------------------------------------------------------------------------
(* The application's scheduler: the inductive invariant.                   *)

\* The inductive invariant holds when app_sched_init returns.
LEMMA AppInit == Init => IInv
  <1> SUFFICES ASSUME Init PROVE IInv
    OBVIOUS
  <1>1. DOMAIN puts = {} /\ Len(main) = 0 /\ main = <<>>
    BY DEF Init
  <1> QED
    BY <1>1, TypeInit DEF Init, IInv, PutsInUse, PutsDistinct, OneHandler

\* A put gets the entry at the end, which is no other put's and not the one
\* whose handler runs.
LEMMA ReserveKeeps ==
    ASSUME IInv, NEW e \in Events, Reserve(e)
    PROVE  IInv'
  <1> DEFINE n == Len(puts)
             r == [at |-> end, event |-> e]
  <1>1. /\ TypeOK /\ start \in Index /\ end \in Index
        /\ DOMAIN puts = 1 .. n /\ n \in Nat
        /\ \A k \in 1 .. n : puts[k].at \in Index
    BY PutsTyped DEF IInv, TypeOK, PutType
  <1>2. TypeOK'
    BY TypeStep DEF IInv, Next
  <1>3. /\ DOMAIN puts' = 1 .. n + 1
        /\ \A k \in 1 .. n : puts'[k] = puts[k]
        /\ puts'[n + 1] = r
    <2>1. puts \in Seq(PutType) /\ r \in PutType /\ puts' = Append(puts, r)
      BY <1>1 DEF TypeOK, PutType, Reserve
    <2>2. /\ puts' \in Seq(PutType)
          /\ Len(puts') = n + 1
          /\ \A k \in 1 .. n : puts'[k] = puts[k]
          /\ puts'[n + 1] = r
      BY <2>1, AppendProperties
    <2> QED
      BY <2>2, LenProperties
  <1>4. r.at = end
    OBVIOUS
  <1> HIDE DEF n, r
  <1>5. start' = start /\ end' = next_index(end) /\ next_index(end) # start
    BY DEF Reserve, app_sched_queue_full
  <1>6. Used' = Used + 1 /\ Used \in 0 .. QueueSize
    BY <1>1, <1>5, AppSchedulerAssumption DEF Used, next_index, Index
  <1>7. \A k \in 1 .. n : Offset(puts[k].at) < Used
    BY <1>1 DEF IInv, PutsInUse
  <1>8. Offset(end) = Used
    BY <1>1, EntryOffset
  <1>9. PutsInUse'
    <2>1. \A k \in 1 .. n + 1 : Offset(puts'[k].at) < Used + 1
      <3>1. ASSUME NEW k \in 1 .. n
            PROVE  Offset(puts'[k].at) < Used + 1
        <4>1. Offset(puts[k].at) \in 0 .. QueueSize
          BY <1>1, EntryOffset
        <4> QED
          BY <1>3, <1>6, <1>7, <4>1
      <3>2. Offset(puts'[n + 1].at) < Used + 1
        BY <1>3, <1>4, <1>6, <1>8
      <3> QED
        BY <1>1, <3>1, <3>2
    <2> QED
      BY <1>3, <1>5, <1>6, <2>1 DEF PutsInUse, Offset
  <1>10. \A k \in 1 .. n : puts[k].at # end
    BY <1>6, <1>7, <1>8
  <1>11. PutsDistinct'
    <2>1. \A j, k \in 1 .. n : puts[j].at = puts[k].at => j = k
      BY <1>1 DEF IInv, PutsDistinct
    <2> QED
      BY <1>1, <1>3, <1>4, <1>10, <2>1 DEF PutsDistinct
  <1>12. OneHandler'
    <2>1. main' = main /\ loop' = loop /\ headers' = headers
      BY DEF Reserve
    <2>2. CASE main = <<>>
      BY <2>1, <2>2 DEF IInv, OneHandler
    <2>3. CASE main # <<>>
      <3>1. start # end /\ \A k \in 1 .. n : puts[k].at # start
        BY <1>1, <2>3 DEF IInv, OneHandler
      <3>2. \A k \in 1 .. n + 1 : puts'[k].at # start
        BY <1>1, <1>3, <1>4, <3>1
      <3> QED
        BY <1>3, <1>5, <2>1, <2>3, <3>1, <3>2 DEF IInv, OneHandler
    <2> QED
      BY <2>2, <2>3
  <1> QED
    BY <1>2, <1>9, <1>11, <1>12 DEF IInv

\* A put that fills its entry writes to no other put's entry and not to the
\* one whose handler runs.
LEMMA FillKeeps ==
    ASSUME IInv, Fill
    PROVE  IInv'
  <1> DEFINE n == Len(puts)
  <1>1. /\ puts \in Seq(PutType) /\ puts # <<>> /\ start \in Index
        /\ headers \in [Index -> Handlers]
    BY DEF IInv, TypeOK, PutType, Handlers, Fill
  <1>2. TypeOK'
    BY TypeStep DEF IInv, Next
  <1>3. /\ n \in Nat \ {0}
        /\ DOMAIN puts = 1 .. n
        /\ DOMAIN puts' = 1 .. n - 1
        /\ \A k \in 1 .. n - 1 : puts'[k] = puts[k]
        /\ Last(puts) = puts[n]
        /\ puts' = Front(puts)
    BY <1>1, FrontOfSeq DEF Fill
  <1> HIDE DEF n
  <1>4. \A k \in DOMAIN puts' : k \in DOMAIN puts /\ puts'[k] = puts[k]
    BY <1>3
  <1>5. /\ start' = start /\ end' = end /\ main' = main /\ loop' = loop
        /\ headers' = [headers EXCEPT ![puts[n].at] = puts[n].event]
    BY <1>3 DEF Fill
  <1>6. PutsInUse'
    BY <1>4, <1>5 DEF IInv, PutsInUse, Offset, Used
  <1>7. PutsDistinct'
    BY <1>4 DEF IInv, PutsDistinct
  <1>8. OneHandler'
    <2>1. n \in DOMAIN puts
      BY <1>3
    <2>2. main # <<>> => puts[n].at # start
      BY <2>1 DEF IInv, OneHandler
    <2>3. main # <<>> => headers'[start] = headers[start]
      BY <1>1, <1>5, <2>2
    <2> QED
      BY <1>4, <1>5, <2>3 DEF IInv, OneHandler
  <1> QED
    BY <1>2, <1>6, <1>7, <1>8 DEF IInv

\* No put is under way when the main loop reads the entry at the start.
LEMMA ExecuteKeeps ==
    ASSUME IInv, Execute
    PROVE  IInv'
  <1>1. TypeOK'
    BY TypeStep DEF IInv, Next
  <1>2. main = <<>>
    BY DEF IInv, OneHandler, Execute
  <1>3. headers[start] \in Handlers
    BY DEF IInv, TypeOK, Handlers
  <1>4. main' # <<>> /\ Len(main') = 1 /\ main'[1] = headers[start]
    BY <1>2, <1>3 DEF Execute
  <1>5. puts' = puts /\ DOMAIN puts = {}
    BY DEF Execute
  <1> QED
    BY <1>1, <1>4, <1>5
    DEF IInv, PutsInUse, PutsDistinct, OneHandler, Execute, Offset, Used,
        app_sched_queue_empty

\* The handler that returns is the only one.
LEMMA ReturnKeeps ==
    ASSUME IInv, Return
    PROVE  IInv'
  <1>1. TypeOK'
    BY TypeStep DEF IInv, Next
  <1>2. main \in Seq(Handlers) /\ main # <<>> /\ Len(main) <= 1
    BY DEF IInv, TypeOK, OneHandler, Handlers, Return
  <1>3. Len(main) = 1
    <2>1. Len(main) \in Nat \ {0}
      BY <1>2, EmptySeq
    <2>2. Len(main) <= 1
      BY <1>2
    <2> QED
      BY <2>1, <2>2
  <1>4. main' \in Seq(Handlers) /\ Len(main') = 0
    BY <1>2, <1>3, FrontOfSeq DEF Return
  <1>5. main' = <<>>
    BY <1>4, EmptySeq
  <1>6. puts' = puts /\ DOMAIN puts = {}
    BY DEF Return
  <1> QED
    BY <1>1, <1>4, <1>5, <1>6
    DEF IInv, PutsInUse, PutsDistinct, OneHandler, Return

\* Every step of the application's scheduler keeps the inductive invariant.
LEMMA AppStep == IInv /\ [AppNext]_vars => IInv'
  <1> SUFFICES ASSUME IInv, [AppNext]_vars PROVE IInv'
    OBVIOUS
  <1>1. ASSUME NEW e \in Events, Reserve(e) PROVE IInv'
    BY <1>1, ReserveKeeps
  <1>2. CASE Fill
    BY <1>2, FillKeeps
  <1>3. CASE Execute
    BY <1>3, ExecuteKeeps
  <1>4. CASE Return
    BY <1>4, ReturnKeeps
  <1>5. CASE UNCHANGED vars
    BY <1>5 DEF vars, IInv, TypeOK, PutsInUse, PutsDistinct, OneHandler, Offset, Used
  <1> QED
    BY <1>1, <1>2, <1>3, <1>4, <1>5 DEF AppNext

\* The invariant holds in every state of the application's scheduler.
LEMMA Inductive == AppSpec => []IInv
  <1> QED
    BY AppInit, AppStep, PTL DEF AppSpec

\* While a handler runs its entry is still in the ring and holds it: no put
\* that interrupts the handler can overwrite it.
THEOREM OldestRuns == AppSpec => []RunsOldest
  <1>1. IInv => RunsOldest
    <2> SUFFICES ASSUME IInv, main # <<>> PROVE Used > 0 /\ main[1] = Contents[1]
      BY DEF RunsOldest
    <2>1. /\ TypeOK /\ start \in Index /\ end \in Index /\ start # end
          /\ main[1] = headers[start]
          /\ \A k \in DOMAIN puts : puts[k].at # start
      BY DEF IInv, TypeOK, OneHandler
    <2>2. Used \in 1 .. QueueSize
      BY <2>1, EntryOffset, AppSchedulerAssumption
    <2>3. Contents[1] = EventIn(puts, headers, Entry(0))
      BY <2>1, <2>2, ContentsType DEF ContentsWellFormed
    <2>4. Entry(0) = start
      BY <2>1, AppSchedulerAssumption DEF Entry, Index
    <2> QED
      BY <2>1, <2>2, <2>3, <2>4, EventOfRing
  <1> QED
    BY <1>1, Inductive, PTL

-----------------------------------------------------------------------------
(* The application's scheduler implements the event queue.                 *)

\* The initial ring is the empty queue.
LEMMA RefinesInit == Init => Queue!Init
  <1> SUFFICES ASSUME Init PROVE Queue!Init
    OBVIOUS
  <1>1. Contents \in Seq(Handlers) /\ Len(Contents) = 0
    BY TypeInit, ContentsType DEF Init, Used, ContentsWellFormed
  <1>2. Contents = <<>>
    BY <1>1, EmptySeq
  <1> QED
    BY <1>2 DEF Init, Queue!Init

\* ContentsType after a step.
LEMMA ContentsTypeNext == TypeOK' => ContentsWellFormed'
  <1>1. TypeOK => ContentsWellFormed
    BY ContentsType
  <1> QED
    BY <1>1, PTL

\* Reserving an entry accepts the event, filled or not.
LEMMA ReserveRefines ==
    ASSUME IInv, NEW e \in Events, Reserve(e)
    PROVE  Queue!Accept(e)
  <1> DEFINE n == Len(puts)
  <1>1. /\ TypeOK /\ start \in Index /\ end \in Index
        /\ DOMAIN puts = 1 .. n /\ n \in Nat
        /\ \A k \in 1 .. n : puts[k].at \in Index
    BY PutsTyped DEF IInv, TypeOK, PutType
  <1>2. ContentsWellFormed /\ ContentsWellFormed'
    BY <1>1, ContentsType, ContentsTypeNext, TypeStep DEF Next
  <1>3. /\ DOMAIN puts' = 1 .. n + 1
        /\ \A k \in 1 .. n : puts'[k] = puts[k]
        /\ puts'[n + 1].at = end /\ puts'[n + 1].event = e
    <2> DEFINE r == [at |-> end, event |-> e]
    <2>1. puts \in Seq(PutType) /\ r \in PutType /\ puts' = Append(puts, r)
      BY <1>1 DEF TypeOK, PutType, Reserve
    <2>2. /\ puts' \in Seq(PutType)
          /\ Len(puts') = n + 1
          /\ \A k \in 1 .. n : puts'[k] = puts[k]
          /\ puts'[n + 1] = r
      BY <2>1, AppendProperties
    <2>3. r.at = end /\ r.event = e
      OBVIOUS
    <2> QED
      BY <2>2, <2>3, LenProperties
  <1>4. /\ start' = start /\ headers' = headers /\ main' = main
        /\ end' = next_index(end) /\ next_index(end) # start
    BY DEF Reserve, app_sched_queue_full
  <1>5. Used \in 0 .. QueueSize - 1 /\ Used' = Used + 1
    BY <1>1, <1>4, AppSchedulerAssumption DEF Used, next_index, Index
  <1>6. \A i : Entry(i)' = Entry(i)
    BY <1>4 DEF Entry
  <1>7. PutsDistinct'
    BY ReserveKeeps DEF IInv
  <1> HIDE DEF n
  <1>8. \A i, j \in DOMAIN puts' : puts'[i].at = puts'[j].at => i = j
    BY <1>7 DEF PutsDistinct
  <1>9. Contents'[Used + 1] = e
    <2>1. Entry(Used) = end
      BY <1>1, EntryOffset
    <2>2. n + 1 \in DOMAIN puts'
      BY <1>1, <1>3
    <2>3. EventIn(puts', headers', end) = e
      BY <1>3, <1>8, <2>2, EventOfPut
    <2> QED
      BY <1>2, <1>5, <1>6, <2>1, <2>3 DEF ContentsWellFormed
  <1>10. ASSUME NEW k \in 1 .. Used
         PROVE  Contents'[k] = Contents[k]
    <2> DEFINE i == Entry(k - 1)
    <2>1. i \in Index /\ i # end
      <3>1. k - 1 \in 0 .. QueueSize /\ k - 1 # Used
        BY <1>5, AppSchedulerAssumption
      <3> QED
        BY <1>1, <3>1, EntryOffset
    <2>2. Contents[k] = EventIn(puts, headers, i) /\ Contents'[k] = EventIn(puts', headers, i)
      BY <1>2, <1>4, <1>5, <1>6 DEF ContentsWellFormed
    <2> HIDE DEF i
    <2>3. CASE \E j \in 1 .. n : puts[j].at = i
      <3>1. PICK j \in 1 .. n : puts[j].at = i
        BY <2>3
      <3>2. EventIn(puts, headers, i) = puts[j].event
        BY <1>1, <3>1, EventOfPut DEF IInv, PutsDistinct
      <3>3. j \in DOMAIN puts' /\ puts'[j] = puts[j]
        BY <1>1, <1>3
      <3>4. EventIn(puts', headers, puts'[j].at) = puts'[j].event
        BY <1>8, <3>3, EventOfPut
      <3> QED
        BY <2>2, <3>1, <3>2, <3>3, <3>4
    <2>4. CASE \A j \in 1 .. n : puts[j].at # i
      <3>1. EventIn(puts, headers, i) = headers[i]
        BY <1>1, <2>4, EventOfRing
      <3>2. \A j \in DOMAIN puts' : puts'[j].at # i
        BY <1>1, <1>3, <2>1, <2>4
      <3>3. EventIn(puts', headers, i) = headers[i]
        BY <3>2, EventOfRing
      <3> QED
        BY <2>2, <3>1, <3>3
    <2> QED
      BY <2>3, <2>4
  <1>11. Contents' = Append(Contents, e)
    <2>1. e \in Handlers
      BY DEF Handlers
    <2>2. /\ Append(Contents, e) \in Seq(Handlers)
          /\ Len(Append(Contents, e)) = Used + 1
          /\ \A k \in 1 .. Used : Append(Contents, e)[k] = Contents[k]
          /\ Append(Contents, e)[Used + 1] = e
      BY <1>2, <2>1, AppendProperties DEF ContentsWellFormed
    <2>3. Contents' \in Seq(Handlers) /\ Len(Contents') = Used + 1
      BY <1>2, <1>5 DEF ContentsWellFormed
    <2>4. \A k \in 1 .. Used + 1 : Contents'[k] = Append(Contents, e)[k]
      BY <1>5, <1>9, <1>10, <2>2
    <2> QED
      BY <2>2, <2>3, <2>4, SeqEqual
  <1>12. Len(Contents) < QueueSize
    BY <1>2, <1>5, AppSchedulerAssumption DEF ContentsWellFormed
  <1>13. UNCHANGED (main # <<>>)
    BY <1>4
  <1> QED
    BY <1>11, <1>12, <1>13 DEF Queue!Accept

\* Filling an entry changes nothing that the ring's users see.
LEMMA FillRefines ==
    ASSUME IInv, Fill
    PROVE  UNCHANGED <<Contents, main # <<>>>>
  <1> DEFINE n == Len(puts)
  <1>1. /\ TypeOK /\ puts \in Seq(PutType) /\ puts # <<>>
        /\ headers \in [Index -> Handlers]
        /\ start \in Index /\ end \in Index
    BY DEF IInv, TypeOK, PutType, Handlers, Fill
  <1>2. ContentsWellFormed /\ ContentsWellFormed'
    BY <1>1, ContentsType, ContentsTypeNext, TypeStep DEF Next
  <1>3. /\ n \in Nat \ {0}
        /\ DOMAIN puts = 1 .. n
        /\ DOMAIN puts' = 1 .. n - 1
        /\ \A k \in 1 .. n - 1 : puts'[k] = puts[k]
        /\ Last(puts) = puts[n]
        /\ puts' = Front(puts)
    BY <1>1, FrontOfSeq DEF Fill
  <1> HIDE DEF n
  <1>4. /\ start' = start /\ end' = end /\ main' = main
        /\ headers' = [headers EXCEPT ![puts[n].at] = puts[n].event]
    BY <1>3 DEF Fill
  <1>5. Used' = Used /\ \A k : Entry(k)' = Entry(k)
    BY <1>4 DEF Used, Entry
  <1>6. \A i, j \in DOMAIN puts : puts[i].at = puts[j].at => i = j
    BY DEF IInv, PutsDistinct
  <1>7. \A i, j \in DOMAIN puts' : puts'[i].at = puts'[j].at => i = j
    BY <1>3, <1>6
  <1>8. ASSUME NEW i \in Index
        PROVE  EventIn(puts', headers', i) = EventIn(puts, headers, i)
    <2>1. CASE i = puts[n].at
      <3>1. n \in DOMAIN puts
        BY <1>3
      <3>2. EventIn(puts, headers, i) = puts[n].event
        BY <1>6, <2>1, <3>1, EventOfPut
      <3>3. \A k \in DOMAIN puts' : puts'[k].at # i
        BY <1>3, <1>6, <2>1, <3>1
      <3>4. EventIn(puts', headers', i) = headers'[i]
        BY <3>3, EventOfRing
      <3>5. headers'[i] = puts[n].event
        BY <1>1, <1>4, <2>1
      <3> QED
        BY <3>2, <3>4, <3>5
    <2>2. CASE i # puts[n].at /\ \E j \in 1 .. n - 1 : puts[j].at = i
      <3>1. PICK j \in 1 .. n - 1 : puts[j].at = i
        BY <2>2
      <3>2. j \in DOMAIN puts /\ j \in DOMAIN puts' /\ puts'[j] = puts[j]
        BY <1>3
      <3>3. EventIn(puts, headers, puts[j].at) = puts[j].event
        BY <1>6, <3>2, EventOfPut
      <3>4. EventIn(puts', headers', puts'[j].at) = puts'[j].event
        BY <1>7, <3>2, EventOfPut
      <3> QED
        BY <3>1, <3>2, <3>3, <3>4
    <2>3. CASE i # puts[n].at /\ \A j \in 1 .. n - 1 : puts[j].at # i
      <3>1. \A k \in DOMAIN puts : puts[k].at # i
        BY <1>3, <2>3
      <3>2. \A k \in DOMAIN puts' : puts'[k].at # i
        BY <1>3, <2>3
      <3>3. headers'[i] = headers[i]
        BY <1>1, <1>4, <2>3
      <3> QED
        BY <3>1, <3>2, <3>3, EventOfRing
    <2> QED
      BY <2>1, <2>2, <2>3
  <1>9. \A k \in 1 .. Used : Contents'[k] = Contents[k]
    <2>1. SUFFICES ASSUME NEW k \in 1 .. Used PROVE Contents'[k] = Contents[k]
      OBVIOUS
    <2>2. Used \in 0 .. QueueSize
      BY <1>1, EntryOffset
    <2>3. k - 1 \in 0 .. QueueSize
      BY <2>2, AppSchedulerAssumption
    <2>4. Entry(k - 1) \in Index
      BY <1>1, <2>3, EntryOffset
    <2> QED
      BY <1>2, <1>5, <1>8, <2>4 DEF ContentsWellFormed
  <1>10. Contents' = Contents
    BY <1>2, <1>5, <1>9, SeqEqual DEF ContentsWellFormed
  <1> QED
    BY <1>4, <1>10

\* Reading the entry at the start begins the handling of the oldest event.
LEMMA ExecuteRefines ==
    ASSUME IInv, Execute
    PROVE  Queue!Begin
  <1>1. main = <<>> /\ start # end
    BY DEF IInv, OneHandler, Execute, app_sched_queue_empty
  <1>2. ContentsWellFormed /\ Used # 0
    BY <1>1, ContentsType, EntryOffset DEF IInv, TypeOK
  <1>3. Contents # <<>>
    BY <1>2, EmptySeq DEF ContentsWellFormed
  <1>4. Contents' = Contents
    BY DEF Execute, Contents, Used, Entry
  <1>5. main' # <<>>
    BY <1>1 DEF Execute
  <1> QED
    BY <1>1, <1>3, <1>4, <1>5 DEF Queue!Begin

\* Moving the start on takes the handled event out of the queue.
LEMMA ReturnRefines ==
    ASSUME IInv, Return
    PROVE  Queue!Finish
  <1>1. /\ TypeOK /\ start \in Index /\ end \in Index
        /\ main # <<>> /\ start # end /\ puts = <<>>
    BY DEF IInv, TypeOK, OneHandler, Return
  <1>2. ContentsWellFormed /\ ContentsWellFormed'
    BY <1>1, ContentsType, ContentsTypeNext, TypeStep DEF Next
  <1>3. main' = <<>>
    <2>1. loop' /\ IInv'
      BY ReturnKeeps DEF Return
    <2> QED
      BY <2>1 DEF IInv, OneHandler
  <1>4. /\ start' = next_index(start) /\ end' = end
        /\ headers' = headers /\ puts' = puts
    BY DEF Return
  <1>5. Used \in 1 .. QueueSize /\ Used' = Used - 1
    BY <1>1, <1>4, AppSchedulerAssumption DEF Used, next_index, Index
  <1>6. \A k \in 1 .. Used - 1 : Entry(k - 1)' = Entry(k)
    BY <1>1, <1>4, <1>5, AppSchedulerAssumption DEF Entry, next_index, Index
  <1>7. Contents # <<>>
    BY <1>2, <1>5, EmptySeq DEF ContentsWellFormed
  <1>8. /\ Tail(Contents) \in Seq(Handlers)
        /\ Len(Tail(Contents)) = Used - 1
        /\ \A k \in 1 .. Used - 1 : Tail(Contents)[k] = Contents[k + 1]
    BY <1>2, <1>7, HeadTailProperties DEF ContentsWellFormed
  <1>9. \A k \in 1 .. Used - 1 : Contents'[k] = Tail(Contents)[k]
    <2>1. SUFFICES ASSUME NEW k \in 1 .. Used - 1
                   PROVE  Contents'[k] = Tail(Contents)[k]
      OBVIOUS
    <2>2. Contents'[k] = EventIn(puts, headers, Entry(k))
      BY <1>2, <1>4, <1>5, <1>6 DEF ContentsWellFormed
    <2>3. k + 1 \in 1 .. Used /\ (k + 1) - 1 = k
      BY <1>5, AppSchedulerAssumption
    <2>4. Contents[k + 1] = EventIn(puts, headers, Entry(k))
      BY <1>2, <2>3 DEF ContentsWellFormed
    <2> QED
      BY <1>8, <2>2, <2>4
  <1>10. Contents' = Tail(Contents)
    <2>1. Contents' \in Seq(Handlers) /\ Len(Contents') = Used - 1
      BY <1>2, <1>5 DEF ContentsWellFormed
    <2> QED
      BY <1>8, <1>9, <2>1, SeqEqual
  <1> QED
    BY <1>1, <1>3, <1>10 DEF Queue!Finish

\* Every step of the ring is a step of the queue or leaves it alone.
LEMMA RefinesStep == IInv /\ [AppNext]_vars => [Queue!Next]_(Queue!qVars)
  <1> SUFFICES ASSUME IInv, [AppNext]_vars PROVE [Queue!Next]_(Queue!qVars)
    OBVIOUS
  <1>1. ASSUME NEW e \in Events, Reserve(e) PROVE Queue!Next
    BY <1>1, ReserveRefines DEF Queue!Next
  <1>2. CASE Fill
    BY <1>2, FillRefines DEF Queue!qVars
  <1>3. CASE Execute
    BY <1>3, ExecuteRefines DEF Queue!Next
  <1>4. CASE Return
    BY <1>4, ReturnRefines DEF Queue!Next
  <1>5. CASE UNCHANGED vars
    BY <1>5 DEF vars, Queue!qVars, Contents, Used, Entry
  <1> QED
    BY <1>1, <1>2, <1>3, <1>4, <1>5 DEF AppNext

\* The safety part of QueueSpec: whatever interrupts a put, no event is lost,
\* overtaken or handled twice.
THEOREM Refines == AppSpec => Queue!Spec
  <1> QED
    BY RefinesInit, RefinesStep, Inductive, PTL DEF AppSpec, Queue!Spec

=============================================================================
