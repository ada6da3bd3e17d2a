------------------------------ MODULE AppTimer ------------------------------
(***************************************************************************)
(* The timers of libraries/timer/app_timer.c: one real time counter, RTC1, *)
(* serves them all.  Calls of app_timer_start and app_timer_stop only      *)
(* queue operations.  The RTC interrupt finds out what has expired and     *)
(* calls the handlers; the software interrupt SWI then applies what has    *)
(* expired and what was queued to the list of running timers, and sets the *)
(* compare register for the next one.                                      *)
(*                                                                         *)
(* Both interrupts, and the SoftDevice's events, have one priority: each   *)
(* runs to its end and preempts the main thread.  The counter goes on      *)
(* meanwhile.  It wraps, and so do all the times that are computed from    *)
(* it.  The times of the history variables do not.                         *)
(*                                                                         *)
(* What is checked ends at three calls that the code does not survive      *)
(* (upset): a stop behind a start that is still queued, which does not     *)
(* cancel it; a stop that finds the queue full and has cleared is_running; *)
(* and the start of a timer behind the stop of the only one, for which the *)
(* compare register is computed from the counter before it is cleared.     *)
(***************************************************************************)
EXTENDS Integers, Sequences, SequencesExt, FiniteSets, FiniteSetsExt

CONSTANTS
    Timers,      \* the timers
    Repeated,    \* those created with APP_TIMER_MODE_REPEATED
    InMain,      \* those that the main thread starts and stops
    InHandlers,  \* those that interrupt handlers start and stop
    Interval,    \* the ticks each is started with
    Period,      \* MAX_RTC_COUNTER_VAL + 1: the counter's values
    OffsetMin,   \* RTC_COMPARE_OFFSET_MIN
    QueueSize,   \* APP_TIMER_OP_QUEUE_SIZE
    MaxLag,      \* ticks during which interrupts may go on at a stretch
    NoTimer      \* no timer

ASSUME AppTimerAssumption ==
    /\ Timers = InMain \cup InHandlers /\ Repeated \subseteq InMain
    /\ NoTimer \notin Timers
    /\ Interval \in [Timers -> Nat]
    /\ \A t \in Timers : Interval[t] > OffsetMin + 2 * MaxLag
    /\ Period \in Nat /\ OffsetMin \in Nat /\ QueueSize \in Nat \ {0} /\ MaxLag \in Nat
    /\ \A t, u \in Timers :
          Interval[t] + Interval[u] + 2 * MaxLag + OffsetMin < (Period - 1) \div 2

VARIABLES
    counter,   \* COUNTER of RTC1
    cc,        \* CC[0]
    unsure,    \* CC[0] was written so late that it may not raise its event
    rtcOn,     \* m_rtc1_running
    pending,   \* the pending interrupts, of "rtc" and "swi"
    isr,       \* the interrupt that runs
    list,      \* the running timers, from mp_timer_id_head
    toExpire,  \* ticks_to_expire: from the timer before it in the list
    latest,    \* m_ticks_latest
    elapsed,   \* the value in m_ticks_elapsed that was not read yet, or -1
    isRunning, \* is_running
    ops,       \* m_op_queue
    stopping,  \* the timer whose app_timer_stop the main thread is in
    lag,       \* ticks since interrupts have been pending or running
    wanted,    \* history: started, and neither expired nor stopped
    due,       \* history: the ticks until it should expire
    upset      \* history: the calls that the code does not survive

hardware == <<counter, cc, unsure, rtcOn>>
timers == <<list, toExpire, latest, elapsed, isRunning>>
history == <<wanted, due, upset>>
vars == <<hardware, pending, isr, timers, ops, stopping, lag, history>>

\* ticks_diff_get
Diff(now, old) == (now - old) % Period

-----------------------------------------------------------------------------
(* The counter.                                                            *)

Quiet == isr.kind = "none" /\ pending = {}

Counted == IF Quiet THEN 0 ELSE lag + 1

\* A tick, with the compare event if the counter reaches CC[0].
Tick ==
    /\ rtcOn
    /\ Counted <= MaxLag
    /\ counter' = (counter + 1) % Period
    /\ \/ counter' = cc /\ pending' = pending \cup {"rtc"}
       \/ (counter' # cc \/ unsure) /\ UNCHANGED pending
    /\ unsure' = FALSE
    /\ lag' = Counted
    /\ due' = [t \in Timers |-> IF wanted[t] THEN due[t] - 1 ELSE 0]
    /\ UNCHANGED <<cc, rtcOn, isr, timers, ops, stopping, wanted, upset>>

-----------------------------------------------------------------------------
(* The calls.                                                              *)

\* An interrupt handler of a client: an expired timer's, or another one.
InHandler == isr.kind \in {"none", "called"}

\* The main thread, which pending interrupts preempt.
MainRuns == Quiet

Queued(op, t) == \E k \in DOMAIN ops : ops[k].op = op /\ ops[k].timer = t

\* user_op_alloc, user_op_enque and timer_list_handler_sched.
Enqueue(op, t) ==
    /\ Len(ops) < QueueSize
    /\ ops' = Append(ops, [op |-> op, timer |-> t, at |-> counter])
    /\ pending' = pending \cup {"swi"}

\* app_timer_start.  A timer that repeats is started once.
Start(t) ==
    /\ t \in Repeated => ~wanted[t]
    /\ Enqueue("start", t)
    /\ wanted' = [wanted EXCEPT ![t] = TRUE]
    /\ due' = IF wanted[t] THEN due ELSE [due EXCEPT ![t] = Interval[t]]
    /\ UNCHANGED <<hardware, isr, timers, stopping, lag, upset>>

\* The first thing app_timer_stop does.  A start that is still queued is not
\* found by the stop.
StopRunning(t) ==
    /\ t \notin Repeated
    /\ isRunning' = [isRunning EXCEPT ![t] = FALSE]
    /\ wanted' = [wanted EXCEPT ![t] = FALSE]
    /\ due' = [due EXCEPT ![t] = 0]

\* The rest of app_timer_stop, from an interrupt handler or the main thread.
StopQueued(t) ==
    IF Len(ops) < QueueSize THEN Enqueue("stop", t) ELSE UNCHANGED <<ops, pending>>

\* The upset of a stop that finds the queue full.
Refused == IF Len(ops) < QueueSize THEN {} ELSE {"refused"}

StopInHandler(t) ==
    /\ StopRunning(t)
    /\ StopQueued(t)
    /\ upset' = upset \cup Refused \cup IF Queued("start", t) THEN {"startStop"} ELSE {}
    /\ UNCHANGED <<hardware, isr, list, toExpire, latest, elapsed, stopping, lag>>

StopInMain(t) ==
    /\ StopRunning(t)
    /\ stopping' = t
    /\ UNCHANGED <<hardware, pending, isr, list, toExpire, latest, elapsed, ops, lag,
                   upset>>

StopGoesOn ==
    /\ stopping # NoTimer
    /\ StopQueued(stopping)
    /\ upset' = upset \cup Refused
    /\ stopping' = NoTimer
    /\ UNCHANGED <<hardware, isr, timers, lag, wanted, due>>

\* No interrupt handler calls for the timer whose stop it preempts.
Calls ==
    \/ \E t \in InHandlers \ {stopping} : InHandler /\ (Start(t) \/ StopInHandler(t))
    \/ MainRuns /\ StopGoesOn
    \/ \E t \in InMain : MainRuns /\ stopping = NoTimer /\ (Start(t) \/ StopInMain(t))

-----------------------------------------------------------------------------
(* RTC1_IRQHandler: timer_timeouts_check.                                  *)

NoIsr == [kind |-> "none", left |-> 0, expired |-> 0, next |-> 1, pre |-> 0]

RtcBegins ==
    /\ isr.kind = "none" /\ "rtc" \in pending
    /\ pending' = pending \ {"rtc"}
    /\ isr' = IF list = <<>> THEN NoIsr
              ELSE [NoIsr EXCEPT !.kind = "check", !.left = Diff(counter, latest)]
    /\ UNCHANGED <<hardware, timers, ops, stopping, lag, history>>

\* The timer that is looked at has expired.
Expires ==
    /\ isr.next \in DOMAIN list
    /\ isr.left >= toExpire[list[isr.next]]

\* Slip: a timer that was stopped since is called too.
IsCalled_Stopped(t) == TRUE

IsCalled(t) == isRunning[t]

\* When the handler of t is called, the timer has done what it was started
\* for; one that repeats, or was started again, is due again.
Served(t) ==
    /\ wanted' = [wanted EXCEPT ![t] = t \in Repeated \/ Queued("start", t)]
    /\ due' = [due EXCEPT ![t] =
                  IF t \in Repeated THEN @ + Interval[t]
                  ELSE IF ~Queued("start", t) THEN 0
                  ELSE LET k == CHOOSE k \in DOMAIN ops :
                                   ops[k].op = "start" /\ ops[k].timer = t
                       IN Interval[t] - Diff(counter, ops[k].at)]

\* One round of the loop.
Expire ==
    /\ isr.kind = "check" /\ Expires
    /\ \E t \in {list[isr.next]} :
       /\ isr' = [isr EXCEPT !.kind = IF IsCalled(t) THEN "called" ELSE "check",
                             !.left = @ - toExpire[t], !.expired = @ + toExpire[t],
                             !.next = @ + 1]
       /\ isRunning' = [isRunning EXCEPT ![t] = FALSE]
       /\ IF IsCalled(t) THEN Served(t) ELSE UNCHANGED <<wanted, due>>
    /\ UNCHANGED <<hardware, pending, list, toExpire, latest, elapsed, ops, stopping, lag,
                   upset>>

HandlerReturns ==
    /\ isr.kind = "called"
    /\ isr' = [isr EXCEPT !.kind = "check"]
    /\ UNCHANGED <<hardware, pending, timers, ops, stopping, lag, history>>

\* What has expired is left for the SWI.  A value it has not read yet was
\* counted from the same m_ticks_latest and is written over.
RtcEnds ==
    /\ isr.kind = "check" /\ ~Expires
    /\ elapsed' = isr.expired
    /\ pending' = pending \cup {"swi"}
    /\ isr' = NoIsr
    /\ UNCHANGED <<hardware, list, toExpire, latest, isRunning, ops, stopping, lag,
                   history>>

-----------------------------------------------------------------------------
(* SWI_IRQHandler: timer_list_handler, on s = [list, toExpire, latest,     *)
(* reset].                                                                 *)

\* Ticks from m_ticks_latest until the k-th timer expires.
Until(s, k) == FoldLeft(LAMBDA sum, t : sum + s.toExpire[t], 0, SubSeq(s.list, 1, k))

\* Slip: the timers behind the removed one lose its ticks.
timer_list_remove_KeepsNext(s, t) ==
    IF ~Contains(s.list, t) THEN s
    ELSE LET rest == SelectSeq(s.list, LAMBDA u : u # t) IN
         [s EXCEPT !.list = rest,
                   !.latest = IF rest = <<>> THEN 0 ELSE @,
                   !.reset = rest = <<>>]

\* The next timer gets the removed one's ticks; an empty list resets the
\* counter.
timer_list_remove(s, t) ==
    IF ~Contains(s.list, t) THEN s
    ELSE LET k == CHOOSE k \in DOMAIN s.list : s.list[k] = t
             rest == SelectSeq(s.list, LAMBDA u : u # t)
         IN [s EXCEPT !.list = rest,
                      !.toExpire = IF k = Len(s.list) THEN @
                                   ELSE [@ EXCEPT ![s.list[k + 1]] = @ + s.toExpire[t]],
                      !.latest = IF rest = <<>> THEN 0 ELSE @,
                      !.reset = rest = <<>>]

list_deletions_handler(s) ==
    FoldLeft(LAMBDA r, op : IF op.op = "stop" THEN timer_list_remove(r, op.timer) ELSE r,
             s, ops)

\* expired_timers_handler, on what the SWI read from m_ticks_elapsed.
ExpiredCount(s) == Cardinality({k \in DOMAIN s.list : Until(s, k) <= elapsed})

expired_timers_handler(s) ==
    LET n == ExpiredCount(s) IN
    [s EXCEPT !.list = SubSeq(@, n + 1, Len(@)),
              !.toExpire = IF n = Len(s.list) THEN @
                           ELSE [@ EXCEPT ![s.list[n + 1]] = Until(s, n + 1) - elapsed]]

\* The timers to restart, the last expired first, as starts.
Restarts(s) ==
    LET n == ExpiredCount(s)
        starts == [k \in 1 .. n |->
                      [op |-> "start", timer |-> s.list[k],
                       at |-> (latest + Until(s, k)) % Period]]
    IN Reverse(SelectSeq(starts, LAMBDA op : op.timer \in Repeated))

\* ticks_to_expire of a timer to insert.
FromLatest(s, at, interval) ==
    IF Diff(at, s.latest) < (Period - 1) \div 2 THEN Diff(at, s.latest) + interval
    ELSE IF interval > Diff(s.latest, at) THEN interval - Diff(s.latest, at)
    ELSE 0

timer_list_insert(s, t, ticks) ==
    LET later == {k \in DOMAIN s.list : ticks <= Until(s, k)} IN
    IF later = {}
    THEN [s EXCEPT !.list = Append(@, t),
                   !.toExpire[t] = ticks - Until(s, Len(s.list))]
    ELSE LET k == Min(later) IN
         [s EXCEPT !.list = InsertAt(@, k, t),
                   !.toExpire = [@ EXCEPT ![t] = ticks - Until(s, k - 1),
                                          ![s.list[k]] = Until(s, k) - ticks]]

\* list_insertions_handler, on the starts that were called.
Inserted(s, op) ==
    IF op.op # "start" \/ s.isRunning[op.timer] THEN s
    ELSE LET at == IF s.reset THEN 0 ELSE op.at
             new == timer_list_insert(s, op.timer, FromLatest(s, at, Interval[op.timer]))
         IN [new EXCEPT !.isRunning[op.timer] = TRUE]

\* The same on those that restart, whatever is_running says.
Restarted(s, op) ==
    LET new == timer_list_insert(s, op.timer, FromLatest(s, op.at, Interval[op.timer]))
    IN [new EXCEPT !.isRunning[op.timer] = TRUE]

HeadOf(l) == IF l = <<>> THEN NoTimer ELSE l[1]

\* timer_list_handler up to compare_reg_update, which reads the counter.
SwiBegins ==
    /\ isr.kind = "none" /\ "swi" \in pending
    /\ \E known \in {IF elapsed = -1 THEN latest ELSE (latest + elapsed) % Period} :
       \E deleted \in {list_deletions_handler(
              [list |-> list, toExpire |-> toExpire, latest |-> known, reset |-> FALSE,
               isRunning |-> isRunning])} :
       \E left \in {IF elapsed = -1 THEN deleted ELSE expired_timers_handler(deleted)} :
       \E s \in {FoldLeft(Inserted,
                          FoldLeft(Restarted, left,
                                   IF elapsed = -1 THEN <<>> ELSE Restarts(deleted)), ops)} :
          LET update == \/ elapsed # -1
                        \/ HeadOf(deleted.list) # HeadOf(list)
                        \/ HeadOf(s.list) # HeadOf(left.list)
              stops == update /\ s.list = <<>>
          IN /\ list' = s.list /\ toExpire' = s.toExpire /\ isRunning' = s.isRunning
             /\ latest' = IF stops THEN 0 ELSE s.latest
             /\ upset' = IF s.reset /\ s.list # <<>> THEN upset \cup {"cleared"} ELSE upset
             /\ rtcOn' = IF update THEN s.list # <<>> ELSE rtcOn
             /\ counter' = IF stops THEN 0 ELSE counter
             /\ pending' = pending \ IF stops \/ (update /\ ~rtcOn) THEN {"swi", "rtc"}
                                     ELSE {"swi"}
             /\ isr' = IF update /\ ~stops
                       THEN [NoIsr EXCEPT !.kind = "compare", !.pre = counter] ELSE NoIsr
    /\ elapsed' = -1
    /\ ops' = <<>>
    /\ UNCHANGED <<cc, unsure, stopping, lag, wanted, due>>

\* CC[0] := value.  With the counter's value, or the next one, the event may
\* be missed.
SetCompare(value) ==
    /\ cc' = value
    /\ unsure' = (value = (counter + 1) % Period)

\* The rest of compare_reg_update: the register is written,
CompareSet ==
    /\ isr.kind = "compare"
    /\ LET ticks == Diff(isr.pre, latest) + OffsetMin IN
       SetCompare((latest + IF ticks < toExpire[list[1]] THEN toExpire[list[1]] ELSE ticks)
                      % Period)
    /\ isr' = [isr EXCEPT !.kind = "post"]
    /\ UNCHANGED <<counter, rtcOn, pending, timers, ops, stopping, lag, history>>

\* Slip: the counter's value alone counts as too late, not the next ones.
TooLate_AtCounter == Diff(counter, isr.pre) > Diff(cc, isr.pre)

TooLate == Diff(counter, isr.pre) + OffsetMin > Diff(cc, isr.pre)

\* and if the counter has come too close meanwhile, the interrupt is pended.
CompareChecked ==
    /\ isr.kind = "post"
    /\ IF TooLate
       THEN SetCompare(counter) /\ pending' = pending \cup {"rtc"}
       ELSE UNCHANGED <<cc, unsure, pending>>
    /\ isr' = NoIsr
    /\ UNCHANGED <<counter, rtcOn, timers, ops, stopping, lag, history>>

-----------------------------------------------------------------------------

Init ==
    /\ counter = 0 /\ cc = 0 /\ unsure = FALSE /\ rtcOn = FALSE
    /\ pending = {} /\ isr = NoIsr
    /\ list = <<>> /\ toExpire = [t \in Timers |-> 0] /\ latest = 0 /\ elapsed = -1
    /\ isRunning = [t \in Timers |-> FALSE]
    /\ ops = <<>> /\ stopping = NoTimer /\ lag = 0
    /\ wanted = [t \in Timers |-> FALSE] /\ due = [t \in Timers |-> 0] /\ upset = {}

Next ==
    /\ upset = {}
    /\ \/ Tick \/ Calls
       \/ RtcBegins \/ Expire \/ HandlerReturns \/ RtcEnds
       \/ SwiBegins \/ CompareSet \/ CompareChecked

Spec == Init /\ [][Next]_vars

-----------------------------------------------------------------------------
(* Properties.                                                             *)

Now == [list |-> list, toExpire |-> toExpire]

\* Each timer that is wanted is in the list, or its start is queued.  When
\* nothing is under way, the list says for each when it is due: no tick is
\* lost or counted twice by what expired, restarted or was removed around it.
DeadlinesKept ==
    upset = {} =>
        /\ \A t \in Timers :
              wanted[t] => Contains(list, t) \/ Queued("start", t)
        /\ elapsed = -1 /\ isr.kind # "called" /\ isr.next = 1 =>
              \A k \in DOMAIN list :
                 wanted[list[k]] /\ ~Queued("stop", list[k]) =>
                    (latest + Until(Now, k)) % Period = (counter + due[list[k]]) % Period

\* A handler is called only for a timer that was started and not stopped
\* since, and never before its time.
CalledInTime ==
    [][\A t \in Timers :
          isr.kind = "check" /\ isr'.kind = "called" /\ list[isr.next] = t =>
              wanted[t] /\ due[t] <= 0]_vars

\* No timer is late by more than the minimum offset of the compare register,
\* and the time interrupts may take, before and after that.
NotLate == upset = {} => \A t \in Timers : due[t] >= -(OffsetMin + 2 * MaxLag)

=============================================================================
