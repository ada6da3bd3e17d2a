-------------------------- MODULE Application_proofs --------------------------
(***************************************************************************)
(* Proofs about Application, for every length of the watchdog from four    *)
(* seconds on: the SPI driver has one user, and the watchdog resets the    *)
(* device only when its interrupts hang; and about its calendar, for every *)
(* day that a UTCTime reaches.                                             *)
(***************************************************************************)
EXTENDS Application, Arithmetic

Sending(c) == at[c] \in DrawSteps \ {"spi_init"}

\* SpiHeld without the cardinality.
OneSends ==
    /\ ~(Sending("main") /\ Sending("event"))
    /\ spi = (Sending("main") \/ Sending("event"))

\* The order of main: the watchdog runs before the callbacks are registered,
\* and both before the loop.
StartOrder ==
    /\ at.main \notin {"ble_init", "system_clock_init", "wdt_start"} => wdt.on
    /\ at.main \notin StartUp \/ at.main = "fill" => callbacks.registered

\* A watchdog that is not started has all its seconds left; in its last second
\* the tick that feeds it is due, and nothing but the main thread runs.
LastSecond ==
    /\ ~wdt.on => wdt.left = WdtSeconds
    /\ wdt.on /\ wdt.left = 1 /\ ~Hung =>
           pending /\ at.event = "none" /\ at.main \notin StartUp

IInv == TypeOK /\ OneSends /\ StartOrder /\ LastSecond

USE DEF StartUp, DrawSteps, Contexts

\* The inductive invariant holds at the start.
LEMMA AppInit == Init => IInv
  <1> SUFFICES ASSUME Init PROVE IInv
    OBVIOUS
  <1>1. /\ at.main = "ble_init" /\ at.event = "none" /\ spi = FALSE
        /\ ~callbacks.registered /\ ~wdt.on /\ wdt.left = WdtSeconds
    BY DEF Init, AtBoot, Unregistered, Stopped
  <1>2. TypeOK
    <2>1. at \in [main : StartUp \cup DrawSteps \cup {"loop"}, event : DrawSteps \cup {"none"}]
      BY DEF Init, AtBoot
    <2>2. callbacks \in [registered : BOOLEAN, null : SUBSET {"day", "month", "year"},
                         called : BOOLEAN]
      BY DEF Init, Unregistered
    <2>3. wdt \in [on : BOOLEAN, left : 1 .. WdtSeconds]
      BY ApplicationAssumption DEF Init, Stopped
    <2> QED BY <2>1, <2>2, <2>3 DEF Init, TypeOK
  <1>3. ~Sending("main") /\ ~Sending("event")
    BY <1>1 DEF Sending
  <1>4. OneSends
    BY <1>1, <1>3 DEF OneSends
  <1>5. StartOrder /\ LastSecond
    BY <1>1 DEF StartOrder, LastSecond
  <1> QED BY <1>2, <1>4, <1>5 DEF IInv

\* A reset keeps it, unless it leaves the watchdog in its last second.
LEMMA RestartKeeps ==
    ASSUME IInv, NEW w \in [on : BOOLEAN, left : 2 .. WdtSeconds], Restart(w),
           ~w.on => w.left = WdtSeconds
    PROVE  IInv'
  <1>1. /\ at'.main = "ble_init" /\ at'.event = "none" /\ spi' = FALSE
        /\ ~callbacks'.registered
    BY DEF Restart, AtBoot, Unregistered
  <1>2. TypeOK'
    <2>1. at' \in [main : StartUp \cup DrawSteps \cup {"loop"}, event : DrawSteps \cup {"none"}]
      BY DEF Restart, AtBoot
    <2>2. callbacks' \in [registered : BOOLEAN, null : SUBSET {"day", "month", "year"},
                          called : BOOLEAN]
      BY DEF Restart, Unregistered
    <2>3. wdt' \in [on : BOOLEAN, left : 1 .. WdtSeconds]
      BY ApplicationAssumption DEF Restart
    <2>4. spi' \in BOOLEAN /\ pending' \in BOOLEAN /\ fault' \in BOOLEAN
      BY DEF Restart
    <2>5. panel' \in {"idle", "busy", "stuck"}
      BY DEF Restart, IInv, TypeOK
    <2> QED BY <2>1, <2>2, <2>3, <2>4, <2>5 DEF TypeOK
  <1>3. ~Sending("main")' /\ ~Sending("event")'
    BY <1>1 DEF Sending
  <1>4. OneSends'
    BY <1>1, <1>3 DEF OneSends
  <1>5. wdt'.left # 1 /\ (~wdt'.on => wdt'.left = WdtSeconds)
    BY DEF Restart
  <1>6. StartOrder' /\ LastSecond'
    BY <1>1, <1>5 DEF StartOrder, LastSecond
  <1> QED BY <1>2, <1>4, <1>6 DEF IInv

\* The steps of the main thread before it draws.
LEMMA StartUpKeeps ==
    ASSUME IInv, MainInit \/ wdt_start \/ register_clock_callbacks \/ fill_callback
    PROVE  IInv'
  <1> USE ApplicationAssumption DEF IInv, OneSends, StartOrder, LastSecond, Sending, Hung,
                                     MainGoes, Runs, Following
  <1>1. CASE MainInit
    BY <1>1 DEF MainInit, TypeOK
  <1>2. CASE wdt_start
    <2>1. /\ at.main = "wdt_start" /\ at' = [at EXCEPT !.main = "register"]
          /\ wdt' = [wdt EXCEPT !.on = TRUE]
          /\ UNCHANGED <<spi, panel, callbacks, pending, fault>>
      BY <1>2 DEF wdt_start
    <2>2. TypeOK'
      BY <2>1 DEF TypeOK
    <2>3. at'.main = "register" /\ at'.event = at.event /\ wdt'.on /\ wdt'.left = wdt.left
      BY <2>1 DEF TypeOK
    <2> QED BY <2>1, <2>2, <2>3
  <1>3. CASE register_clock_callbacks
    BY <1>3 DEF register_clock_callbacks, TypeOK
  <1>4. CASE fill_callback
    <2>1. TypeOK'
      BY <1>4 DEF fill_callback, TypeOK
    <2>2. /\ at'.main \in {"fill", "spi_init"} /\ at.main = "fill" /\ at.event = "none"
          /\ at'.event = "none" /\ callbacks'.registered = callbacks.registered
          /\ UNCHANGED <<spi, panel, pending, wdt, fault>>
      BY <1>4 DEF fill_callback, TypeOK
    <2> QED BY <2>1, <2>2 DEF TypeOK
  <1> QED BY <1>1, <1>2, <1>3, <1>4

\* A step of a draw.  The driver is only taken when nobody has it, and the
\* main thread finds it free.
LEMMA DrawKeeps ==
    ASSUME IInv, NEW c \in Contexts, Draw(c)
    PROVE  IInv'
  <1> USE ApplicationAssumption DEF Draws, Runs
  <1>1. CASE spi_init(c) /\ spi
    <2>1. Restart(wdt) /\ c = "event" /\ at.event = "spi_init"
      BY <1>1 DEF spi_init, IInv, TypeOK, OneSends, Sending
    <2>2. ~Hung
      BY <1>1, <2>1 DEF spi_init, Hung
    <2>3. wdt.left # 1 /\ (~wdt.on => wdt.left = WdtSeconds)
      BY <2>1, <2>2 DEF IInv, LastSecond
    <2>4. wdt \in [on : BOOLEAN, left : 2 .. WdtSeconds]
      BY <2>3 DEF IInv, TypeOK
    <2> QED BY <2>1, <2>3, <2>4, RestartKeeps
  <1>2. CASE spi_init(c) /\ ~spi
    <2>1. TypeOK'
      BY <1>2 DEF spi_init, IInv, TypeOK
    <2>2. OneSends'
      BY <1>2 DEF spi_init, IInv, TypeOK, OneSends, Sending
    <2>3. StartOrder'
      BY <1>2 DEF spi_init, IInv, TypeOK, StartOrder
    <2>4. LastSecond'
      BY <1>2 DEF spi_init, IInv, TypeOK, LastSecond, Hung
    <2> QED BY <2>1, <2>2, <2>3, <2>4 DEF IInv
  <1>3. CASE display_image(c)
    BY <1>3 DEF display_image, IInv, TypeOK, OneSends, StartOrder, LastSecond, Sending, Hung
  <1>4. CASE READBUSY(c)
    BY <1>4 DEF READBUSY, IInv, TypeOK, OneSends, StartOrder, LastSecond, Sending, Hung
  <1>5. CASE spi_uninit(c)
    BY <1>5 DEF spi_uninit, IInv, TypeOK, OneSends, StartOrder, LastSecond, Sending, Hung
  <1> QED BY <1>1, <1>2, <1>3, <1>4, <1>5 DEF Draw

\* The end of a transfer, and the panel.
LEMMA OutsideKeeps ==
    ASSUME IInv, EndOfTransfer \/ PanelReady \/ PanelFails
    PROVE  IInv'
  <1> USE DEF IInv, TypeOK, OneSends, StartOrder, LastSecond, Sending, Hung
  <1>1. CASE EndOfTransfer
    BY <1>1 DEF EndOfTransfer, TickRuns
  <1>2. CASE PanelReady
    BY <1>2 DEF PanelReady
  <1>3. CASE PanelFails
    BY <1>3 DEF PanelFails
  <1> QED BY <1>1, <1>2, <1>3

\* No second passes in which the watchdog bites a device that does not hang.
LEMMA BiteIsDue ==
    ASSUME IInv, Second, Bites
    PROVE  Hung
  <1> SUFFICES ASSUME ~Hung PROVE FALSE
    OBVIOUS
  <1>1. wdt.on /\ wdt.left = 1
    BY DEF Bites
  <1>2. pending /\ at.event = "none"
    BY <1>1 DEF IInv, LastSecond
  <1> QED BY <1>2 DEF Second, TickRuns, Hung

\* A second, and a tick.
LEMMA TimeKeeps ==
    ASSUME IInv, Second \/ Tick
    PROVE  IInv'
  <1> USE ApplicationAssumption
  <1>1. CASE Second /\ Bites
    <2>1. Restart(Stopped)
      BY <1>1 DEF Second
    <2>2. Stopped \in [on : BOOLEAN, left : 2 .. WdtSeconds]
      BY DEF Stopped
    <2>3. ~Stopped.on => Stopped.left = WdtSeconds
      BY DEF Stopped
    <2> QED BY <2>1, <2>2, <2>3, RestartKeeps
  <1>2. CASE Second /\ ~Bites
    <2>1. /\ wdt' = [wdt EXCEPT !.left = IF wdt.on /\ ~Sleeps THEN @ - 1 ELSE @]
          /\ pending' = (pending \/ TimerRuns)
          /\ UNCHANGED <<at, spi, panel, callbacks, fault>>
      BY <1>2 DEF Second
    <2>2. TypeOK'
      BY <1>2, <2>1 DEF IInv, TypeOK, Bites, TimerRuns
    <2>3. OneSends' /\ StartOrder'
      BY <2>1 DEF IInv, TypeOK, OneSends, StartOrder, Sending
    <2>4. LastSecond'
      <3>0. ~wdt'.on => wdt'.left = WdtSeconds
        BY <2>1 DEF IInv, TypeOK, LastSecond
      <3> SUFFICES ASSUME wdt'.on, wdt'.left = 1, ~Hung'
                   PROVE  pending' /\ at'.event = "none" /\ at'.main \notin StartUp
        BY <3>0 DEF LastSecond
      <3>1. ~Hung /\ wdt.on
        BY <2>1 DEF Hung, IInv, TypeOK
      <3>2. wdt.left <= 2
        BY <2>1 DEF IInv, TypeOK
      <3>3. at.main \notin StartUp /\ at.event = "none"
        BY <1>2, <3>1, <3>2 DEF Second, Timely
      <3> QED BY <2>1, <3>3 DEF TimerRuns
    <2> QED BY <2>2, <2>3, <2>4 DEF IInv
  <1>3. CASE Tick
    <2>1. /\ pending /\ ~fault /\ at.event = "none" /\ pending' = FALSE
          /\ UNCHANGED <<at, spi, panel>>
      BY <1>3 DEF Tick, TickRuns
    <2>2. CASE callbacks.registered
      <3>1. /\ wdt' = [wdt EXCEPT !.left = WdtSeconds]
            /\ callbacks' = [callbacks EXCEPT !.called = TRUE]
            /\ fault' \in BOOLEAN
        BY <1>3, <2>2 DEF Tick
      <3>2. TypeOK'
        <4>1. wdt' \in [on : BOOLEAN, left : 1 .. WdtSeconds]
          BY <3>1 DEF IInv, TypeOK
        <4>2. callbacks' \in [registered : BOOLEAN, null : SUBSET {"day", "month", "year"},
                              called : BOOLEAN]
          BY <3>1 DEF IInv, TypeOK
        <4> QED BY <2>1, <3>1, <4>1, <4>2 DEF IInv, TypeOK
      <3>3. OneSends'
        BY <2>1 DEF IInv, OneSends, Sending
      <3>4. /\ wdt'.on = wdt.on /\ wdt'.left = WdtSeconds
            /\ callbacks'.registered = callbacks.registered
        BY <3>1 DEF IInv, TypeOK
      <3>5. StartOrder' /\ LastSecond'
        BY <2>1, <3>4 DEF IInv, StartOrder, LastSecond
      <3> QED BY <3>2, <3>3, <3>5 DEF IInv
    <2>3. CASE ~callbacks.registered
      <3>1. UNCHANGED <<wdt, callbacks, fault>>
        BY <1>3, <2>3 DEF Tick
      <3>2. at.main \in StartUp
        BY <2>3 DEF IInv, StartOrder
      <3>3. TypeOK' /\ OneSends' /\ StartOrder'
        BY <2>1, <3>1 DEF IInv, TypeOK, OneSends, StartOrder, Sending
      <3>4. LastSecond'
        BY <2>1, <3>1, <3>2 DEF IInv, LastSecond, Hung
      <3> QED BY <3>3, <3>4 DEF IInv
    <2> QED BY <2>2, <2>3
  <1> QED BY <1>1, <1>2, <1>3

LEMMA AppStep == IInv /\ [Next]_vars => IInv'
  <1> SUFFICES ASSUME IInv, [Next]_vars PROVE IInv'
    OBVIOUS
  <1>1. CASE Main
    BY <1>1, StartUpKeeps, DrawKeeps DEF Main
  <1>2. CASE Draw("event")
    BY <1>2, DrawKeeps
  <1>3. CASE EndOfTransfer \/ PanelReady \/ PanelFails
    BY <1>3, OutsideKeeps
  <1>4. CASE Second \/ Tick
    BY <1>4, TimeKeeps
  <1>5. CASE UNCHANGED vars
    BY <1>5 DEF vars, IInv, TypeOK, OneSends, StartOrder, LastSecond, Sending, Hung
  <1> QED BY <1>1, <1>2, <1>3, <1>4, <1>5 DEF Next

\* The inductive invariant of the start-up, the draws and the watchdog.
LEMMA Inductive == Spec => []IInv
  BY AppInit, AppStep, PTL DEF Spec

\* The program keeps its types.
THEOREM TypeCorrect == Spec => []TypeOK
  <1>1. IInv => TypeOK
    BY DEF IInv
  <1> QED BY <1>1, Inductive, PTL

\* Of the main thread and the control point handler at most one sends to the
\* panel, and the SPI driver is initialized exactly while one does, whatever
\* transfers end during the start-up and however often the device starts over.
THEOREM DriverHeld == Spec => []SpiHeld
  <1>1. IInv => SpiHeld
    <2> SUFFICES ASSUME IInv PROVE SpiHeld
      OBVIOUS
    <2> DEFINE sending == {c \in Contexts : at[c] \in DrawSteps \ {"spi_init"}}
    <2> SUFFICES Cardinality(sending) <= 1 /\ spi = (sending # {})
      BY Zenon DEF SpiHeld
    <2> HIDE DEF sending
    <2>1. CASE spi = TRUE
      <3>1. PICK c \in Contexts : sending = {c}
        BY <2>1 DEF IInv, OneSends, Sending, sending
      <3>2. Cardinality(sending) = 1 /\ sending # {}
        BY <3>1, FS_Singleton
      <3>3. Cardinality(sending) <= 1
        BY <3>2
      <3> QED BY <2>1, <3>2, <3>3, Zenon
    <2>2. CASE spi = FALSE
      <3>1. sending = {}
        BY <2>2 DEF IInv, OneSends, Sending, sending
      <3>2. Cardinality(sending) = 0
        BY <3>1, FS_EmptySet
      <3>3. Cardinality(sending) <= 1
        BY <3>2
      <3> QED BY <2>2, <3>1, <3>3, Zenon
    <2> QED BY <2>1, <2>2 DEF IInv, TypeOK
  <1> QED BY <1>1, Inductive, PTL

\* The watchdog resets the device only if its interrupts hang.
THEOREM OnlyHungIsBitten == Spec => BitesOnlyHung
  <1>1. IInv => (Second /\ Bites => Hung)
    BY BiteIsDue
  <1>2. IInv /\ [Next]_vars => [Second /\ Bites => Hung]_vars
    BY <1>1
  <1> QED BY <1>2, Inductive, PTL DEF Spec, BitesOnlyHung

-----------------------------------------------------------------------------
(* The calendar.                                                           *)

\* The loop over the years ends.
LEMMA InYearDef ==
    \A t \in YearAndDays :
        InYear[t] = IF t \in LastYear THEN t
                    ELSE InYear[[year |-> t.year + 1, days |-> t.days - YearLength(t.year)]]
  <1> DEFINE on(t) == [year |-> t.year + 1, days |-> t.days - YearLength(t.year)]
             next == [t \in YearAndDays |-> IF t \in LastYear THEN t ELSE on(t)]
             left == [t \in YearAndDays |-> t.days]
  <1>1. ASSUME NEW t \in YearAndDays, t \notin LastYear
        PROVE  on(t) \in YearAndDays /\ on(t).days < t.days
    <2>1. YearLength(t.year) \in {365, 366}
      BY DEF YearLength
    <2>2. t.year \in Nat /\ t.days \in Nat /\ t.days >= YearLength(t.year)
      BY <1>1, <2>1 DEF YearAndDays, LastYear
    <2> QED BY <2>1, <2>2 DEF YearAndDays
  <1>2. next \in [YearAndDays -> YearAndDays] /\ left \in [YearAndDays -> Nat]
    <2> HIDE DEF on
    <2>1. next \in [YearAndDays -> YearAndDays]
      BY <1>1
    <2>2. left \in [YearAndDays -> Nat]
      BY DEF YearAndDays
    <2> QED BY <2>1, <2>2
  <1>3. \A t \in YearAndDays \ LastYear : left[next[t]] < left[t]
    <2> HIDE DEF on
    <2> QED BY <1>1
  <1>4. LastYear \in SUBSET YearAndDays
    BY DEF LastYear
  <1>5. PICK f \in [YearAndDays -> YearAndDays] : Loops(f, YearAndDays, next, LastYear)
    <2> HIDE DEF next, left
    <2> QED BY <1>2, <1>3, <1>4, Loop
  <1>6. f = [t \in YearAndDays |-> IF t \in LastYear THEN t ELSE f[on(t)]]
    <2> HIDE DEF on
    <2>1. \A t \in YearAndDays : t \notin LastYear => next[t] = on(t)
      OBVIOUS
    <2> HIDE DEF next
    <2> QED BY <1>5, <2>1 DEF Loops
  <1>7. InYear = [t \in YearAndDays |-> IF t \in LastYear THEN t ELSE InYear[on(t)]]
    BY <1>6 DEF InYear
  <1> QED BY <1>7

\* The loop over the months ends.
LEMMA InMonthDef ==
    \A t \in MonthAndDays :
        InMonth[t] = IF t \in LastMonth THEN t
                     ELSE InMonth[[leap |-> t.leap, month |-> t.month + 1,
                                   days |-> t.days - monthLength(t.leap, t.month)]]
  <1> DEFINE on(t) == [leap |-> t.leap, month |-> t.month + 1,
                      days |-> t.days - monthLength(t.leap, t.month)]
             next == [t \in MonthAndDays |-> IF t \in LastMonth THEN t ELSE on(t)]
             left == [t \in MonthAndDays |-> t.days]
  <1>1. ASSUME NEW t \in MonthAndDays, t \notin LastMonth
        PROVE  on(t) \in MonthAndDays /\ on(t).days < t.days
    <2>1. monthLength(t.leap, t.month) \in {28, 29, 30, 31}
      BY DEF monthLength
    <2>2. t.month \in Nat /\ t.days \in Nat /\ t.days >= monthLength(t.leap, t.month)
      BY <1>1, <2>1 DEF MonthAndDays, LastMonth
    <2>3. t.leap \in BOOLEAN
      BY DEF MonthAndDays
    <2> QED BY <2>1, <2>2, <2>3 DEF MonthAndDays
  <1>2. next \in [MonthAndDays -> MonthAndDays] /\ left \in [MonthAndDays -> Nat]
    <2> HIDE DEF on
    <2>1. next \in [MonthAndDays -> MonthAndDays]
      BY <1>1
    <2>2. left \in [MonthAndDays -> Nat]
      BY DEF MonthAndDays
    <2> QED BY <2>1, <2>2
  <1>3. \A t \in MonthAndDays \ LastMonth : left[next[t]] < left[t]
    <2> HIDE DEF on
    <2> QED BY <1>1
  <1>4. LastMonth \in SUBSET MonthAndDays
    BY DEF LastMonth
  <1>5. PICK f \in [MonthAndDays -> MonthAndDays] : Loops(f, MonthAndDays, next, LastMonth)
    <2> HIDE DEF next, left
    <2> QED BY <1>2, <1>3, <1>4, Loop
  <1>6. f = [t \in MonthAndDays |-> IF t \in LastMonth THEN t ELSE f[on(t)]]
    <2> HIDE DEF on
    <2>1. \A t \in MonthAndDays : t \notin LastMonth => next[t] = on(t)
      OBVIOUS
    <2> HIDE DEF next
    <2> QED BY <1>5, <2>1 DEF Loops
  <1>7. InMonth = [t \in MonthAndDays |-> IF t \in LastMonth THEN t ELSE InMonth[on(t)]]
    BY <1>6 DEF InMonth
  <1> QED BY <1>7

\* The sums of the years' and the months' lengths.
LEMMA DaysOfYearsDef ==
    /\ DaysOfYears \in [Nat -> Nat]
    /\ DaysOfYears[0] = 0
    /\ \A n \in Nat : DaysOfYears[n + 1] = YearLength(n + 2000) + DaysOfYears[n]
  <1> DEFINE a == [n \in Nat |-> YearLength(n + 2000)]
  <1>1. a \in [Nat -> Nat]
    BY DEF YearLength
  <1>2. PICK f \in [Nat -> Nat] : f = [n \in Nat |-> IF n = 0 THEN 0 ELSE a[n - 1] + f[n - 1]]
    <2> HIDE DEF a
    <2> QED BY <1>1, Sums
  <1>3. f = [n \in Nat |-> IF n = 0 THEN 0 ELSE YearLength(n - 1 + 2000) + f[n - 1]]
    <2>1. \A n \in Nat : n # 0 => a[n - 1] = YearLength(n - 1 + 2000)
      OBVIOUS
    <2> HIDE DEF a
    <2> QED BY <1>2, <2>1
  <1>4. DaysOfYears = [n \in Nat |-> IF n = 0 THEN 0
                                     ELSE YearLength(n - 1 + 2000) + DaysOfYears[n - 1]]
    BY <1>3 DEF DaysOfYears
  <1>5. ASSUME NEW n \in Nat PROVE DaysOfYears[n] = f[n]
    <2> DEFINE S == {k \in Nat : DaysOfYears[k] = f[k]}
    <2>1. 0 \in S
      BY <1>3, <1>4
    <2>2. ASSUME NEW k \in Nat, k \in S PROVE k + 1 \in S
      <3>1. DaysOfYears[k + 1] = YearLength(k + 1 - 1 + 2000) + DaysOfYears[k + 1 - 1]
        BY <1>4
      <3>2. f[k + 1] = YearLength(k + 1 - 1 + 2000) + f[k + 1 - 1]
        BY <1>3
      <3>3. k + 1 - 1 = k /\ k + 1 \in Nat
        OBVIOUS
      <3> QED BY <2>2, <3>1, <3>2, <3>3
    <2>3. Nat \subseteq S
      <3> HIDE DEF S
      <3> QED BY <2>1, <2>2, Induction
    <2> QED BY <2>3
  <1>6. DaysOfYears \in [Nat -> Nat]
    <2>1. DaysOfYears = [n \in Nat |-> DaysOfYears[n]]
      BY <1>4
    <2> QED BY <2>1, <1>5
  <1>7. ASSUME NEW n \in Nat PROVE DaysOfYears[n + 1] = YearLength(n + 2000) + DaysOfYears[n]
    <2>1. DaysOfYears[n + 1] = YearLength(n + 1 - 1 + 2000) + DaysOfYears[n + 1 - 1]
      BY <1>4
    <2>2. n + 1 - 1 = n
      OBVIOUS
    <2> QED BY <2>1, <2>2
  <1>8. DaysOfYears[0] = 0
    BY <1>4
  <1> QED BY <1>6, <1>7, <1>8

LEMMA DaysOfMonthsDef ==
    ASSUME NEW leap \in BOOLEAN
    PROVE  /\ DaysOfMonths(leap, 0) = 0
           /\ \A n \in Nat : /\ DaysOfMonths(leap, n) \in Nat
                             /\ DaysOfMonths(leap, n + 1)
                                   = monthLength(leap, n) + DaysOfMonths(leap, n)
  <1> DEFINE a == [n \in Nat |-> monthLength(leap, n)]
             days[k \in Nat] == IF k = 0 THEN 0 ELSE monthLength(leap, k - 1) + days[k - 1]
  <1>1. a \in [Nat -> Nat]
    BY DEF monthLength
  <1>2. PICK f \in [Nat -> Nat] : f = [n \in Nat |-> IF n = 0 THEN 0 ELSE a[n - 1] + f[n - 1]]
    <2> HIDE DEF a
    <2> QED BY <1>1, Sums
  <1>3. f = [n \in Nat |-> IF n = 0 THEN 0 ELSE monthLength(leap, n - 1) + f[n - 1]]
    <2>1. \A n \in Nat : n # 0 => a[n - 1] = monthLength(leap, n - 1)
      OBVIOUS
    <2> HIDE DEF a
    <2> QED BY <1>2, <2>1
  <1>4. days = [n \in Nat |-> IF n = 0 THEN 0 ELSE monthLength(leap, n - 1) + days[n - 1]]
    BY <1>3
  <1>5. \A n : DaysOfMonths(leap, n) = days[n]
    BY DEF DaysOfMonths
  <1> HIDE DEF days
  <1>6. ASSUME NEW n \in Nat PROVE days[n + 1] = monthLength(leap, n) + days[n]
    <2>1. days[n + 1] = monthLength(leap, n + 1 - 1) + days[n + 1 - 1]
      BY <1>4
    <2>2. n + 1 - 1 = n
      OBVIOUS
    <2> QED BY <2>1, <2>2
  <1>7. days[0] = 0
    BY <1>4
  <1>8. ASSUME NEW n \in Nat PROVE days[n] \in Nat
    <2> DEFINE S == {k \in Nat : days[k] \in Nat}
    <2>1. 0 \in S
      BY <1>7
    <2>2. ASSUME NEW k \in Nat, k \in S PROVE k + 1 \in S
      <3>1. monthLength(leap, k) \in Nat
        BY DEF monthLength
      <3> QED BY <2>2, <3>1, <1>6
    <2>3. Nat \subseteq S
      <3> HIDE DEF S
      <3> QED BY <2>1, <2>2, Induction
    <2> QED BY <2>3
  <1> QED BY <1>5, <1>6, <1>7, <1>8

\* What the loop over the years finds for a day, and for the day after it.
YearFound(t) ==
    LET r == InYear[t] IN
    /\ r \in LastYear /\ r.year >= t.year
    /\ 365 * (r.year - t.year) + r.days <= t.days
    /\ t.year >= 2000 =>
          DaysOfYears[t.year - 2000] + t.days = DaysOfYears[r.year - 2000] + r.days
    /\ InYear[[year |-> t.year, days |-> t.days + 1]] =
          IF r.days + 1 < YearLength(r.year) THEN [year |-> r.year, days |-> r.days + 1]
          ELSE [year |-> r.year + 1, days |-> 0]

LEMMA YearLengths == \A y : YearLength(y) \in {365, 366}
  BY DEF YearLength

LEMMA YearsFound == \A t \in YearAndDays : YearFound(t)
  <1>1. ASSUME NEW t \in LastYear PROVE YearFound(t)
    <2>1. t \in YearAndDays /\ t.year \in Nat /\ t.days \in Nat /\ t.days < YearLength(t.year)
      BY DEF LastYear, YearAndDays
    <2>2. InYear[t] = t
      BY <2>1, InYearDef
    <2> DEFINE u == [year |-> t.year, days |-> t.days + 1]
               v == [year |-> t.year + 1, days |-> 0]
    <2>3. u \in YearAndDays /\ v \in YearAndDays
      BY <2>1 DEF YearAndDays
    <2>4. CASE t.days + 1 < YearLength(t.year)
      <3>1. u \in LastYear
        BY <2>3, <2>4 DEF LastYear
      <3>2. InYear[u] = u
        BY <2>3, <3>1, InYearDef
      <3> QED BY <2>1, <2>2, <2>4, <3>2 DEF YearFound
    <2>5. CASE ~(t.days + 1 < YearLength(t.year))
      <3>1. t.days + 1 = YearLength(t.year)
        BY <2>1, <2>5, YearLengths
      <3>2. u \notin LastYear
        BY <3>1, YearLengths DEF LastYear
      <3>3. u.days - YearLength(u.year) = 0
        BY <3>1, <2>1
      <3>4. InYear[u] = InYear[v]
        BY <2>3, <3>2, <3>3, InYearDef
      <3>5. v \in LastYear
        BY <2>3, YearLengths DEF LastYear
      <3>6. InYear[v] = v
        BY <2>3, <3>5, InYearDef
      <3> QED BY <2>1, <2>2, <2>5, <3>4, <3>6 DEF YearFound
    <2> QED BY <2>4, <2>5
  <1>2. ASSUME NEW t \in YearAndDays, t \notin LastYear,
               YearFound([year |-> t.year + 1, days |-> t.days - YearLength(t.year)])
        PROVE  YearFound(t)
    <2> DEFINE n == [year |-> t.year + 1, days |-> t.days - YearLength(t.year)]
               u == [year |-> t.year, days |-> t.days + 1]
               w == [year |-> n.year, days |-> n.days + 1]
               r == InYear[n]
    <2>1. t.year \in Nat /\ t.days \in Nat /\ YearLength(t.year) \in {365, 366}
          /\ t.days >= YearLength(t.year)
      BY <1>2, YearLengths DEF LastYear, YearAndDays
    <2>2. InYear[t] = r
      BY <1>2, InYearDef
    <2>3. u \in YearAndDays /\ u \notin LastYear
      BY <2>1 DEF YearAndDays, LastYear
    <2>4. InYear[u] = InYear[w]
      <3>1. InYear[u] = InYear[[year |-> u.year + 1, days |-> u.days - YearLength(u.year)]]
        BY <2>3, InYearDef
      <3>2. u.year + 1 = n.year /\ u.days - YearLength(u.year) = n.days + 1
        BY <2>1
      <3> QED BY <3>1, <3>2
    <2>5. /\ r \in LastYear /\ r.year >= t.year + 1
          /\ 365 * (r.year - (t.year + 1)) + r.days <= t.days - YearLength(t.year)
          /\ t.year + 1 >= 2000 =>
                DaysOfYears[(t.year + 1) - 2000] + (t.days - YearLength(t.year))
                   = DaysOfYears[r.year - 2000] + r.days
          /\ InYear[w] =
                IF r.days + 1 < YearLength(r.year) THEN [year |-> r.year, days |-> r.days + 1]
                ELSE [year |-> r.year + 1, days |-> 0]
      <3>1. n.year = t.year + 1 /\ n.days = t.days - YearLength(t.year) /\ YearFound(n)
        BY <1>2
      <3> HIDE DEF n
      <3>2. /\ r \in LastYear /\ r.year >= n.year
            /\ 365 * (r.year - n.year) + r.days <= n.days
            /\ n.year >= 2000 =>
                  DaysOfYears[n.year - 2000] + n.days = DaysOfYears[r.year - 2000] + r.days
            /\ InYear[w] =
                IF r.days + 1 < YearLength(r.year) THEN [year |-> r.year, days |-> r.days + 1]
                ELSE [year |-> r.year + 1, days |-> 0]
        BY <3>1 DEF YearFound
      <3> HIDE DEF r, w
      <3>3. r \in LastYear /\ r.year >= t.year + 1
            /\ 365 * (r.year - (t.year + 1)) + r.days <= t.days - YearLength(t.year)
        BY <3>1, <3>2
      <3>4. t.year + 1 >= 2000 =>
                DaysOfYears[(t.year + 1) - 2000] + (t.days - YearLength(t.year))
                   = DaysOfYears[r.year - 2000] + r.days
        BY <3>1, <3>2
      <3> QED BY <3>2, <3>3, <3>4
    <2>6. r.year \in Nat /\ r.days \in Nat
      BY <2>5 DEF LastYear, YearAndDays
    <2> HIDE DEF n, u, w, r
    <2>7. ASSUME t.year >= 2000
          PROVE  DaysOfYears[t.year - 2000] + t.days = DaysOfYears[r.year - 2000] + r.days
      <3>1. t.year - 2000 \in Nat /\ (t.year - 2000) + 1 = (t.year + 1) - 2000
            /\ (t.year - 2000) + 2000 = t.year
        BY <2>1, <2>7
      <3>2. DaysOfYears[(t.year + 1) - 2000] = YearLength(t.year) + DaysOfYears[t.year - 2000]
            /\ DaysOfYears[t.year - 2000] \in Nat
        BY <3>1, DaysOfYearsDef
      <3>3. DaysOfYears[(t.year + 1) - 2000] + (t.days - YearLength(t.year))
               = DaysOfYears[r.year - 2000] + r.days
        BY <2>5, <2>7, <2>1
      <3> QED BY <3>2, <3>3, <2>1
    <2>8. r.year >= t.year /\ 365 * (r.year - t.year) + r.days <= t.days
      BY <2>1, <2>5, <2>6
    <2>9. InYear[u] =
                IF r.days + 1 < YearLength(r.year) THEN [year |-> r.year, days |-> r.days + 1]
                ELSE [year |-> r.year + 1, days |-> 0]
      BY <2>4, <2>5
    <2> QED BY <2>2, <2>5, <2>7, <2>8, <2>9 DEF YearFound, u
  <1> DEFINE A == {n \in Nat : \A t \in YearAndDays : t.days <= n => YearFound(t)}
  <1>3. 0 \in A
    <2>1. ASSUME NEW t \in YearAndDays, t.days <= 0 PROVE t \in LastYear
      BY <2>1, YearLengths DEF LastYear, YearAndDays
    <2> QED BY <2>1, <1>1
  <1>4. ASSUME NEW n \in Nat, n \in A PROVE n + 1 \in A
    <2>1. ASSUME NEW t \in YearAndDays, t.days <= n + 1 PROVE YearFound(t)
      <3>1. CASE t \in LastYear
        BY <3>1, <1>1
      <3>2. CASE t \notin LastYear
        <4> DEFINE v == [year |-> t.year + 1, days |-> t.days - YearLength(t.year)]
        <4>1. v \in YearAndDays /\ v.days <= n
          <5>1. t.year \in Nat /\ t.days \in Nat /\ YearLength(t.year) \in {365, 366}
                /\ t.days >= YearLength(t.year)
            BY <3>2, YearLengths DEF LastYear, YearAndDays
          <5> QED BY <5>1, <2>1 DEF YearAndDays
        <4>2. YearFound(v)
          BY <4>1, <1>4
        <4> QED BY <4>2, <3>2, <1>2
      <3> QED BY <3>1, <3>2
    <2> QED BY <2>1
  <1>5. Nat \subseteq A
    <2> HIDE DEF A
    <2> QED BY <1>3, <1>4, Induction
  <1>6. ASSUME NEW t \in YearAndDays PROVE YearFound(t)
    <2>1. t.days \in Nat
      BY DEF YearAndDays
    <2> QED BY <2>1, <1>5
  <1> QED BY <1>6

\* What the loop over the months finds for a day of a year, and the day after it.
MonthFound(t) ==
    LET r == InMonth[t] IN
    /\ r \in LastMonth /\ r.month >= t.month /\ r.leap = t.leap
    /\ DaysOfMonths(t.leap, t.month) + t.days = DaysOfMonths(t.leap, r.month) + r.days
    /\ InMonth[[leap |-> t.leap, month |-> t.month, days |-> t.days + 1]] =
          IF r.days + 1 < monthLength(t.leap, r.month)
          THEN [leap |-> t.leap, month |-> r.month, days |-> r.days + 1]
          ELSE [leap |-> t.leap, month |-> r.month + 1, days |-> 0]

LEMMA MonthLengths == \A leap, n : monthLength(leap, n) \in {28, 29, 30, 31}
  BY DEF monthLength

LEMMA MonthsFound == \A t \in MonthAndDays : MonthFound(t)
  <1>1. ASSUME NEW t \in LastMonth PROVE MonthFound(t)
    <2>1. t \in MonthAndDays /\ t.month \in Nat /\ t.days \in Nat /\ t.leap \in BOOLEAN
          /\ t.days < monthLength(t.leap, t.month)
      BY DEF LastMonth, MonthAndDays
    <2>2. InMonth[t] = t
      BY <2>1, InMonthDef
    <2> DEFINE u == [leap |-> t.leap, month |-> t.month, days |-> t.days + 1]
               v == [leap |-> t.leap, month |-> t.month + 1, days |-> 0]
    <2>3. u \in MonthAndDays /\ v \in MonthAndDays
      BY <2>1 DEF MonthAndDays
    <2>4. CASE t.days + 1 < monthLength(t.leap, t.month)
      <3>1. u \in LastMonth
        BY <2>3, <2>4 DEF LastMonth
      <3>2. InMonth[u] = u
        BY <2>3, <3>1, InMonthDef
      <3> QED BY <2>1, <2>2, <2>4, <3>2 DEF MonthFound
    <2>5. CASE ~(t.days + 1 < monthLength(t.leap, t.month))
      <3>1. t.days + 1 = monthLength(t.leap, t.month)
        BY <2>1, <2>5, MonthLengths
      <3>2. u \notin LastMonth
        BY <3>1, MonthLengths DEF LastMonth
      <3>3. u.days - monthLength(u.leap, u.month) = 0
        BY <3>1, <2>1
      <3>4. InMonth[u] = InMonth[v]
        BY <2>3, <3>2, <3>3, InMonthDef
      <3>5. v \in LastMonth
        BY <2>3, MonthLengths DEF LastMonth
      <3>6. InMonth[v] = v
        BY <2>3, <3>5, InMonthDef
      <3> QED BY <2>1, <2>2, <2>5, <3>4, <3>6 DEF MonthFound
    <2> QED BY <2>4, <2>5
  <1> DEFINE on(t) == [leap |-> t.leap, month |-> t.month + 1,
                       days |-> t.days - monthLength(t.leap, t.month)]
  <1>2. ASSUME NEW t \in MonthAndDays, t \notin LastMonth, MonthFound(on(t))
        PROVE  MonthFound(t)
    <2> DEFINE n == on(t)
               u == [leap |-> t.leap, month |-> t.month, days |-> t.days + 1]
               w == [leap |-> n.leap, month |-> n.month, days |-> n.days + 1]
               r == InMonth[n]
    <2>1. t.month \in Nat /\ t.days \in Nat /\ t.leap \in BOOLEAN
          /\ monthLength(t.leap, t.month) \in {28, 29, 30, 31}
          /\ t.days >= monthLength(t.leap, t.month)
      BY <1>2, MonthLengths DEF LastMonth, MonthAndDays
    <2>2. InMonth[t] = r
      BY <1>2, InMonthDef
    <2>3. u \in MonthAndDays /\ u \notin LastMonth
      BY <2>1 DEF MonthAndDays, LastMonth
    <2>4. InMonth[u] = InMonth[w]
      <3>1. InMonth[u] = InMonth[on(u)]
        BY <2>3, InMonthDef
      <3>2. u.month + 1 = n.month /\ u.days - monthLength(u.leap, u.month) = n.days + 1
        BY <2>1
      <3> QED BY <3>1, <3>2
    <2>5. /\ r \in LastMonth /\ r.month >= t.month + 1 /\ r.leap = t.leap
          /\ DaysOfMonths(t.leap, t.month + 1) + (t.days - monthLength(t.leap, t.month))
                = DaysOfMonths(t.leap, r.month) + r.days
          /\ InMonth[w] =
                IF r.days + 1 < monthLength(t.leap, r.month)
                THEN [leap |-> t.leap, month |-> r.month, days |-> r.days + 1]
                ELSE [leap |-> t.leap, month |-> r.month + 1, days |-> 0]
      BY <1>2 DEF MonthFound
    <2>6. r.month \in Nat /\ r.days \in Nat
      BY <2>5 DEF LastMonth, MonthAndDays
    <2> HIDE DEF n, u, w, r
    <2>7. DaysOfMonths(t.leap, t.month) + t.days = DaysOfMonths(t.leap, r.month) + r.days
      <3>1. DaysOfMonths(t.leap, t.month + 1)
               = monthLength(t.leap, t.month) + DaysOfMonths(t.leap, t.month)
            /\ DaysOfMonths(t.leap, t.month) \in Nat
        BY <2>1, DaysOfMonthsDef
      <3> QED BY <3>1, <2>1, <2>5
    <2>8. r.month >= t.month
      BY <2>1, <2>5, <2>6
    <2> QED BY <2>2, <2>4, <2>5, <2>7, <2>8 DEF MonthFound, u
  <1> DEFINE A == {n \in Nat : \A t \in MonthAndDays : t.days <= n => MonthFound(t)}
  <1>3. 0 \in A
    <2>1. ASSUME NEW t \in MonthAndDays, t.days <= 0 PROVE t \in LastMonth
      BY <2>1, MonthLengths DEF LastMonth, MonthAndDays
    <2> QED BY <2>1, <1>1
  <1>4. ASSUME NEW n \in Nat, n \in A PROVE n + 1 \in A
    <2>1. ASSUME NEW t \in MonthAndDays, t.days <= n + 1 PROVE MonthFound(t)
      <3>1. CASE t \in LastMonth
        BY <3>1, <1>1
      <3>2. CASE t \notin LastMonth
        <4>1. on(t) \in MonthAndDays /\ on(t).days <= n
          <5>1. t.month \in Nat /\ t.days \in Nat /\ t.leap \in BOOLEAN
                /\ monthLength(t.leap, t.month) \in {28, 29, 30, 31}
                /\ t.days >= monthLength(t.leap, t.month)
            BY <3>2, MonthLengths DEF LastMonth, MonthAndDays
          <5> QED BY <5>1, <2>1 DEF MonthAndDays
        <4>2. MonthFound(on(t))
          BY <4>1, <1>4
        <4> QED BY <4>2, <3>2, <1>2
      <3> QED BY <3>1, <3>2
    <2> QED BY <2>1
  <1>5. Nat \subseteq A
    <2> HIDE DEF A
    <2> QED BY <1>3, <1>4, Induction
  <1>6. ASSUME NEW t \in MonthAndDays PROVE MonthFound(t)
    <2>1. t.days \in Nat
      BY DEF MonthAndDays
    <2> QED BY <2>1, <1>5
  <1> QED BY <1>6

\* A year has twelve months.
LEMMA YearOfMonths ==
    \A leap \in BOOLEAN : \A n \in Nat :
        /\ n >= 12 => DaysOfMonths(leap, n) >= IF leap THEN 366 ELSE 365
        /\ n = 12 => DaysOfMonths(leap, n) = IF leap THEN 366 ELSE 365
        /\ n < 12 => DaysOfMonths(leap, n) + monthLength(leap, n) <= IF leap THEN 366 ELSE 365
        /\ n < 11 => DaysOfMonths(leap, n) + monthLength(leap, n) < IF leap THEN 366 ELSE 365
  <1> SUFFICES ASSUME NEW leap \in BOOLEAN
               PROVE  \A n \in Nat :
        /\ n >= 12 => DaysOfMonths(leap, n) >= IF leap THEN 366 ELSE 365
        /\ n = 12 => DaysOfMonths(leap, n) = IF leap THEN 366 ELSE 365
        /\ n < 12 => DaysOfMonths(leap, n) + monthLength(leap, n) <= IF leap THEN 366 ELSE 365
        /\ n < 11 => DaysOfMonths(leap, n) + monthLength(leap, n) < IF leap THEN 366 ELSE 365
    OBVIOUS
  <1> DEFINE D(n) == DaysOfMonths(leap, n)
             F == IF leap THEN 29 ELSE 28
  <1>1. D(0) = 0 /\ \A n \in Nat : D(n) \in Nat /\ D(n + 1) = monthLength(leap, n) + D(n)
    BY DaysOfMonthsDef
  <1>2. /\ monthLength(leap, 0) = 31 /\ monthLength(leap, 1) = F /\ monthLength(leap, 2) = 31
        /\ monthLength(leap, 3) = 30 /\ monthLength(leap, 4) = 31 /\ monthLength(leap, 5) = 30
        /\ monthLength(leap, 6) = 31 /\ monthLength(leap, 7) = 31 /\ monthLength(leap, 8) = 30
        /\ monthLength(leap, 9) = 31 /\ monthLength(leap, 10) = 30 /\ monthLength(leap, 11) = 31
    BY DEF monthLength
  <1> HIDE DEF D, F
  <1>3. /\ D(0 + 1) = 31 + D(0) /\ D(1 + 1) = F + D(1) /\ D(2 + 1) = 31 + D(2)
        /\ D(3 + 1) = 30 + D(3) /\ D(4 + 1) = 31 + D(4) /\ D(5 + 1) = 30 + D(5)
        /\ D(6 + 1) = 31 + D(6) /\ D(7 + 1) = 31 + D(7) /\ D(8 + 1) = 30 + D(8)
        /\ D(9 + 1) = 31 + D(9) /\ D(10 + 1) = 30 + D(10) /\ D(11 + 1) = 31 + D(11)
    BY <1>1, <1>2
  <1>4. F \in {28, 29} /\ F + 337 = IF leap THEN 366 ELSE 365
    BY DEF F
  <1>5. /\ D(0) = 0 /\ D(1) = 31 /\ D(2) = F + 31 /\ D(3) = F + 62 /\ D(4) = F + 92
        /\ D(5) = F + 123 /\ D(6) = F + 153 /\ D(7) = F + 184 /\ D(8) = F + 215
        /\ D(9) = F + 245 /\ D(10) = F + 276 /\ D(11) = F + 306 /\ D(12) = F + 337
    BY <1>1, <1>3, <1>4
  <1>6. \A n \in Nat : n >= 12 => D(n) >= F + 337
    <2> DEFINE S == {k \in Nat : D(12 + k) >= F + 337}
    <2>1. 0 \in S
      BY <1>4, <1>5
    <2>2. ASSUME NEW k \in Nat, k \in S PROVE k + 1 \in S
      <3>1. D((12 + k) + 1) = monthLength(leap, 12 + k) + D(12 + k) /\ D(12 + k) \in Nat
        BY <1>1
      <3>2. monthLength(leap, 12 + k) \in {28, 29, 30, 31}
        BY MonthLengths
      <3>3. D((12 + k) + 1) >= F + 337
        BY <3>1, <3>2, <2>2, <1>4
      <3>4. (12 + k) + 1 = 12 + (k + 1) /\ k + 1 \in Nat
        OBVIOUS
      <3> QED BY <3>3, <3>4
    <2>3. Nat \subseteq S
      <3> HIDE DEF S
      <3> QED BY <2>1, <2>2, Induction
    <2>4. ASSUME NEW n \in Nat, n >= 12 PROVE D(n) >= F + 337
      <3>1. n - 12 \in Nat /\ 12 + (n - 12) = n
        BY <2>4
      <3>2. n - 12 \in S
        BY <3>1, <2>3
      <3> QED BY <3>1, <3>2
    <2> QED BY <2>4
  <1>7. ASSUME NEW n \in Nat, n < 12 PROVE n \in {0, 1, 2, 3, 4, 5, 6, 7, 8, 9, 10, 11}
    BY <1>7
  <1>8. ASSUME NEW n \in Nat, n < 12
        PROVE  D(n) + monthLength(leap, n) <= F + 337
               /\ (n < 11 => D(n) + monthLength(leap, n) < F + 337)
    BY <1>2, <1>4, <1>5, <1>7, <1>8
  <1> QED BY <1>4, <1>5, <1>6, <1>8 DEF D

YearOf(d) == InYear[[year |-> 2000, days |-> d]]
MonthOf(d) ==
    InMonth[[leap |-> IsLeapYear(YearOf(d).year), month |-> 0, days |-> YearOf(d).days]]

Days == {d \in Nat : d <= LastDays}
DaysButLast == {d \in Nat : d < LastDays}

\* The place of a day in its year and month.
LEMMA DatePlace ==
    ASSUME NEW d \in Days
    PROVE  /\ YearOf(d).year \in 2000 .. 2136 /\ YearOf(d).days \in Nat
           /\ YearOf(d).days < YearLength(YearOf(d).year)
           /\ DaysOfYears[YearOf(d).year - 2000] + YearOf(d).days = d
           /\ MonthOf(d).month \in 0 .. 11 /\ MonthOf(d).days \in Nat
           /\ MonthOf(d).days < monthLength(IsLeapYear(YearOf(d).year), MonthOf(d).month)
           /\ DaysOfMonths(IsLeapYear(YearOf(d).year), MonthOf(d).month) + MonthOf(d).days
                 = YearOf(d).days
  <1> DEFINE t == [year |-> 2000, days |-> d]
             y == YearOf(d)
             leap == IsLeapYear(y.year)
             u == [leap |-> leap, month |-> 0, days |-> y.days]
             m == MonthOf(d)
  <1>1. d \in Nat /\ d <= 49710 /\ t \in YearAndDays
    BY DEF Days, LastDays, YearAndDays
  <1>2. y \in LastYear /\ y.year >= 2000 /\ 365 * (y.year - 2000) + y.days <= d
        /\ DaysOfYears[2000 - 2000] + d = DaysOfYears[y.year - 2000] + y.days
    <2>1. YearFound(t) /\ y = InYear[t] /\ t.year = 2000 /\ t.days = d
      BY <1>1, YearsFound DEF YearOf
    <2> HIDE DEF y, t
    <2> QED BY <2>1 DEF YearFound
  <1>3. y.year \in Nat /\ y.days \in Nat /\ y.days < YearLength(y.year) /\ y.year - 2000 \in Nat
    BY <1>2 DEF LastYear, YearAndDays
  <1>4. y.year \in 2000 .. 2136
    <2> HIDE DEF y
    <2> QED BY <1>1, <1>2, <1>3
  <1>5. DaysOfYears[y.year - 2000] + y.days = d
    <2>1. DaysOfYears[0] = 0 /\ DaysOfYears[y.year - 2000] \in Nat
      BY <1>3, DaysOfYearsDef
    <2>2. 2000 - 2000 = 0
      OBVIOUS
    <2> HIDE DEF y
    <2> QED BY <1>1, <1>2, <1>3, <2>1, <2>2
  <1>6. leap \in BOOLEAN /\ u \in MonthAndDays
    BY <1>3 DEF MonthAndDays, IsLeapYear
  <1>7. m \in LastMonth /\ m.leap = leap
        /\ DaysOfMonths(leap, 0) + y.days = DaysOfMonths(leap, m.month) + m.days
    <2>1. MonthFound(u) /\ m = InMonth[u] /\ u.leap = leap /\ u.month = 0 /\ u.days = y.days
      BY <1>6, MonthsFound DEF MonthOf
    <2> HIDE DEF m, u, leap, y
    <2> QED BY <2>1 DEF MonthFound
  <1>8. m.month \in Nat /\ m.days \in Nat /\ m.days < monthLength(leap, m.month)
    BY <1>7 DEF LastMonth, MonthAndDays
  <1>9. DaysOfMonths(leap, m.month) + m.days = y.days /\ DaysOfMonths(leap, m.month) \in Nat
    <2>1. DaysOfMonths(leap, 0) = 0 /\ DaysOfMonths(leap, m.month) \in Nat
      BY <1>6, <1>8, DaysOfMonthsDef
    <2> HIDE DEF m, leap, y
    <2> QED BY <1>3, <1>7, <1>8, <2>1
  <1>10. m.month <= 11
    <2>1. m.month >= 12 => DaysOfMonths(leap, m.month) >= IF leap THEN 366 ELSE 365
      BY <1>6, <1>8, YearOfMonths
    <2>2. YearLength(y.year) = IF leap THEN 366 ELSE 365
      BY DEF YearLength
    <2> HIDE DEF m, leap, y
    <2> QED BY <1>3, <1>6, <1>8, <1>9, <2>1, <2>2
  <1>11. m.month \in 0 .. 11
    BY <1>8, <1>10
  <1> HIDE DEF y, leap, m
  <1> QED BY <1>3, <1>4, <1>5, <1>8, <1>9, <1>11 DEF y, leap, m

\* The three ways in which a day goes on to the next.
SameMonth(d) ==
    /\ MonthOf(d).days + 1 < monthLength(IsLeapYear(YearOf(d).year), MonthOf(d).month)
    /\ YearOf(d + 1).year = YearOf(d).year
    /\ MonthOf(d + 1).month = MonthOf(d).month
    /\ MonthOf(d + 1).days = MonthOf(d).days + 1

NextMonth(d) ==
    /\ MonthOf(d).days + 1 = monthLength(IsLeapYear(YearOf(d).year), MonthOf(d).month)
    /\ MonthOf(d).month < 11
    /\ YearOf(d + 1).year = YearOf(d).year
    /\ MonthOf(d + 1).month = MonthOf(d).month + 1 /\ MonthOf(d + 1).days = 0

NextYear(d) ==
    /\ MonthOf(d).days + 1 = monthLength(IsLeapYear(YearOf(d).year), MonthOf(d).month)
    /\ MonthOf(d).month = 11
    /\ YearOf(d + 1).year = YearOf(d).year + 1
    /\ MonthOf(d + 1).month = 0 /\ MonthOf(d + 1).days = 0

LEMMA DateNext ==
    ASSUME NEW d \in Days
    PROVE  SameMonth(d) \/ NextMonth(d) \/ NextYear(d)
  <1> DEFINE y == YearOf(d)
             leap == IsLeapYear(y.year)
             u == [leap |-> leap, month |-> 0, days |-> y.days]
             m == MonthOf(d)
             len == monthLength(leap, m.month)
             e == d + 1
  <1>1. /\ y.year \in 2000 .. 2136 /\ y.days \in Nat /\ y.days < YearLength(y.year)
        /\ m.month \in 0 .. 11 /\ m.days \in Nat /\ m.days < len
        /\ DaysOfMonths(leap, m.month) + m.days = y.days
    BY DatePlace
  <1>2. leap \in BOOLEAN /\ len \in {28, 29, 30, 31} /\ YearLength(y.year) \in {365, 366}
        /\ YearLength(y.year) = IF leap THEN 366 ELSE 365
    BY MonthLengths, YearLengths DEF YearLength, IsLeapYear
  <1>3. YearOf(e) = IF y.days + 1 < YearLength(y.year) THEN [year |-> y.year, days |-> y.days + 1]
                    ELSE [year |-> y.year + 1, days |-> 0]
    <2> DEFINE t == [year |-> 2000, days |-> d]
    <2>1. t \in YearAndDays
      BY DEF Days, LastDays, YearAndDays
    <2>2. YearFound(t) /\ y = InYear[t] /\ t.year = 2000 /\ t.days = d
      BY <2>1, YearsFound DEF YearOf
    <2>3. YearOf(e) = InYear[[year |-> t.year, days |-> t.days + 1]]
      BY DEF YearOf
    <2> HIDE DEF t, y, e
    <2> QED BY <2>2, <2>3 DEF YearFound
  <1>4. InMonth[[leap |-> leap, month |-> 0, days |-> y.days + 1]] =
           IF m.days + 1 < len THEN [leap |-> leap, month |-> m.month, days |-> m.days + 1]
           ELSE [leap |-> leap, month |-> m.month + 1, days |-> 0]
    <2>1. u \in MonthAndDays
      BY <1>1, <1>2 DEF MonthAndDays
    <2>2. MonthFound(u) /\ m = InMonth[u] /\ u.leap = leap /\ u.month = 0 /\ u.days = y.days
      BY <2>1, MonthsFound DEF MonthOf
    <2> HIDE DEF m, u, leap, y
    <2> QED BY <2>2 DEF MonthFound
  <1>5. /\ DaysOfMonths(leap, m.month) \in Nat
        /\ DaysOfMonths(leap, m.month) + len <= IF leap THEN 366 ELSE 365
        /\ m.month < 11 => DaysOfMonths(leap, m.month) + len < IF leap THEN 366 ELSE 365
        /\ m.month = 11 => DaysOfMonths(leap, m.month) + len = IF leap THEN 366 ELSE 365
    <2>1. m.month \in Nat /\ m.month < 12
      BY <1>1
    <2>2. DaysOfMonths(leap, m.month) \in Nat
          /\ DaysOfMonths(leap, m.month + 1) = len + DaysOfMonths(leap, m.month)
      BY <1>2, <2>1, DaysOfMonthsDef
    <2>3. DaysOfMonths(leap, 12) = IF leap THEN 366 ELSE 365
      BY <1>2, YearOfMonths
    <2>4. m.month = 11 => m.month + 1 = 12
      OBVIOUS
    <2>5. m.month = 11 => DaysOfMonths(leap, m.month) + len = IF leap THEN 366 ELSE 365
      <3> HIDE DEF leap, m, len
      <3> QED BY <1>2, <2>2, <2>3, <2>4
    <2>6. /\ DaysOfMonths(leap, m.month) + len <= IF leap THEN 366 ELSE 365
          /\ m.month < 11 => DaysOfMonths(leap, m.month) + len < IF leap THEN 366 ELSE 365
      BY <1>2, <2>1, YearOfMonths
    <2> QED BY <2>2, <2>5, <2>6
  <1>6. MonthOf(e) = InMonth[[leap |-> IsLeapYear(YearOf(e).year), month |-> 0,
                              days |-> YearOf(e).days]]
    BY DEF MonthOf
  <1>7. CASE y.days + 1 < YearLength(y.year)
    <2>1. YearOf(e).year = y.year /\ YearOf(e).days = y.days + 1
      BY <1>3, <1>7
    <2>2. MonthOf(e) = IF m.days + 1 < len
                       THEN [leap |-> leap, month |-> m.month, days |-> m.days + 1]
                       ELSE [leap |-> leap, month |-> m.month + 1, days |-> 0]
      BY <1>4, <1>6, <2>1
    <2>3. CASE m.days + 1 < len
      BY <2>1, <2>2, <2>3 DEF SameMonth
    <2>4. CASE ~(m.days + 1 < len)
      <3>1. m.days + 1 = len
        <4> HIDE DEF m, len
        <4> QED BY <1>1, <1>2, <2>4
      <3>2. m.month < 11
        <4> HIDE DEF leap, m, len, y
        <4> QED BY <1>1, <1>2, <1>5, <1>7, <3>1
      <3> QED BY <2>1, <2>2, <2>4, <3>1, <3>2 DEF NextMonth
    <2> QED BY <2>3, <2>4
  <1>8. CASE ~(y.days + 1 < YearLength(y.year))
    <2>1. YearOf(e).year = y.year + 1 /\ YearOf(e).days = 0
      BY <1>3, <1>8
    <2> DEFINE v == [leap |-> IsLeapYear(y.year + 1), month |-> 0, days |-> 0]
    <2>2. MonthOf(e) = InMonth[v]
      BY <1>6, <2>1
    <2>3. v \in LastMonth
      BY MonthLengths DEF LastMonth, MonthAndDays, IsLeapYear
    <2>4. InMonth[v] = v
      BY <2>3, InMonthDef DEF LastMonth
    <2>5. m.days + 1 = len /\ m.month = 11
      <3> HIDE DEF leap, m, len, y
      <3> QED BY <1>1, <1>2, <1>5, <1>8
    <2>6. MonthOf(e).month = 0 /\ MonthOf(e).days = 0
      BY <2>2, <2>4
    <2> QED BY <2>1, <2>5, <2>6 DEF NextYear
  <1> QED BY <1>7, <1>8

\* The cast to uint16_t loses nothing.
LEMMA DaysFit == ASSUME NEW d \in Days PROVE d % UINT16 = d
  <1>1. d \in Nat /\ d < 65536
    BY DEF Days, LastDays
  <1> QED BY <1>1 DEF UINT16

\* What get_clock_time finds.
LEMMA ClockTime ==
    ASSUME NEW d \in Days, NEW left \in Nat
    PROVE  get_clock_time(UTCTime(d, left)) =
              [year |-> YearOf(d).year, month |-> MonthOf(d).month + 1,
               day |-> MonthOf(d).days + 1, hour |-> left \div 3600,
               minutes |-> (left % 3600) \div 60, seconds |-> left % 60]
  <1> DEFINE t == UTCTime(d, left)
             c == ConvertToUTCTime(t)
  <1>1. t.left = left /\ t.days = d /\ t.days % UINT16 = d
    BY DaysFit DEF UTCTime
  <1> HIDE DEF t
  <1>2. InYear[[year |-> BEGYEAR, days |-> t.days % UINT16]] = YearOf(d)
    BY <1>1 DEF YearOf, BEGYEAR
  <1>3. c = [year |-> YearOf(d).year, month |-> MonthOf(d).month, day |-> MonthOf(d).days,
             hour |-> left \div 3600,
             minutes |-> (left % 3600) \div 60, seconds |-> left % 60]
    BY <1>1, <1>2 DEF ConvertToUTCTime, MonthOf
  <1>4. get_clock_time(t) =
            [year |-> c.year, month |-> c.month + 1, day |-> c.day + 1,
             hour |-> c.hour, minutes |-> c.minutes, seconds |-> c.seconds]
    BY Zenon DEF get_clock_time
  <1> HIDE DEF c
  <1> QED BY <1>3, <1>4 DEF t

\* Years that a UTCTime reaches: 2100 is the only century among them but 2000.
LEMMA LeapYears ==
    ASSUME NEW y \in 2000 .. 2136
    PROVE  IsLeapYear(y) <=> (y % 4 = 0 /\ y # 2100)
  BY DEF IsLeapYear

LEMMA LastDayIs ==
    ASSUME NEW y \in 2000 .. 2136, NEW n \in 0 .. 11
    PROVE  LastDay(y, n + 1) = monthLength(IsLeapYear(y), n)
  <1> DEFINE leap == IsLeapYear(y)
  <1>1. leap <=> (y % 4 = 0 /\ y # 2100)
    BY LeapYears
  <1>2. /\ monthLength(leap, 0) = 31 /\ monthLength(leap, 1) = (IF leap THEN 29 ELSE 28)
        /\ monthLength(leap, 2) = 31
        /\ monthLength(leap, 3) = 30 /\ monthLength(leap, 4) = 31 /\ monthLength(leap, 5) = 30
        /\ monthLength(leap, 6) = 31 /\ monthLength(leap, 7) = 31 /\ monthLength(leap, 8) = 30
        /\ monthLength(leap, 9) = 31 /\ monthLength(leap, 10) = 30 /\ monthLength(leap, 11) = 31
    BY DEF monthLength
  <1> HIDE DEF leap
  <1>3. n \in {0, 1, 2, 3, 4, 5, 6, 7, 8, 9, 10, 11}
    OBVIOUS
  <1>4. CASE n = 1
    BY <1>1, <1>2, <1>4 DEF LastDay, leap
  <1>5. CASE n # 1
    BY <1>2, <1>3, <1>5 DEF LastDay, leap
  <1> QED BY <1>4, <1>5 DEF leap

LEMMA NextDay ==
    ASSUME NEW d \in DaysButLast
    PROVE  d \in Nat /\ d \in Days /\ d + 1 \in Days
  <1>1. LastDays \in Nat
    BY DEF LastDays
  <1> QED BY <1>1 DEF Days, DaysButLast

LEMMA DayAfterRight ==
    ASSUME NEW d \in DaysButLast
    PROVE  get_clock_time(UTCTime(d + 1, 0)) = DayAfter(get_clock_time(UTCTime(d, 0)))
  <1> DEFINE e == d + 1
             y == YearOf(d).year
             n == MonthOf(d).month
             k == MonthOf(d).days
             len == monthLength(IsLeapYear(y), n)
             t == get_clock_time(UTCTime(d, 0))
  <1>1. d \in Days /\ e \in Days
    BY NextDay
  <1>2. 0 \div 3600 = 0 /\ (0 % 3600) \div 60 = 0 /\ 0 % 60 = 0
    OBVIOUS
  <1>3. t = Midnight(y, n + 1, k + 1)
    <2>1. t = [year |-> y, month |-> n + 1, day |-> k + 1, hour |-> 0 \div 3600,
               minutes |-> (0 % 3600) \div 60, seconds |-> 0 % 60]
      BY <1>1, ClockTime
    <2> HIDE DEF t, y, n, k
    <2> QED BY <1>2, <2>1 DEF Midnight
  <1>4. get_clock_time(UTCTime(e, 0))
           = Midnight(YearOf(e).year, MonthOf(e).month + 1, MonthOf(e).days + 1)
    <2>1. get_clock_time(UTCTime(e, 0))
             = [year |-> YearOf(e).year, month |-> MonthOf(e).month + 1,
                day |-> MonthOf(e).days + 1, hour |-> 0 \div 3600,
                minutes |-> (0 % 3600) \div 60, seconds |-> 0 % 60]
      BY <1>1, ClockTime
    <2> QED BY <1>2, <2>1 DEF Midnight
  <1>5. y \in 2000 .. 2136 /\ n \in 0 .. 11 /\ k \in Nat /\ k < len
    BY <1>1, DatePlace
  <1>6. LastDay(y, n + 1) = len /\ len \in Nat
    BY <1>5, LastDayIs, MonthLengths
  <1>7. t.year = y /\ t.month = n + 1 /\ t.day = k + 1
    BY <1>3 DEF Midnight
  <1>8. SameMonth(d) \/ NextMonth(d) \/ NextYear(d)
    BY <1>1, DateNext
  <1>9. CASE SameMonth(d)
    <2>1. k + 1 < len /\ YearOf(e).year = y /\ MonthOf(e).month = n /\ MonthOf(e).days = k + 1
      BY <1>9 DEF SameMonth
    <2> HIDE DEF y, n, k, len, t, e
    <2>2. DayAfter(t) = Midnight(y, n + 1, (k + 1) + 1)
      BY <1>6, <1>7, <2>1 DEF DayAfter
    <2> QED BY <1>4, <2>1, <2>2 DEF e, t
  <1>10. CASE NextMonth(d)
    <2>1. k + 1 = len /\ n < 11 /\ YearOf(e).year = y /\ MonthOf(e).month = n + 1
          /\ MonthOf(e).days = 0
      BY <1>10 DEF NextMonth
    <2> HIDE DEF y, n, k, len, t, e
    <2>2. DayAfter(t) = Midnight(y, (n + 1) + 1, 1)
      BY <1>5, <1>6, <1>7, <2>1 DEF DayAfter
    <2> QED BY <1>4, <2>1, <2>2 DEF e, t
  <1>11. CASE NextYear(d)
    <2>1. k + 1 = len /\ n = 11 /\ YearOf(e).year = y + 1 /\ MonthOf(e).month = 0
          /\ MonthOf(e).days = 0
      BY <1>11 DEF NextYear
    <2> HIDE DEF y, n, k, len, t, e
    <2>2. DayAfter(t) = Midnight(y + 1, 1, 1)
      BY <1>5, <1>6, <1>7, <2>1 DEF DayAfter
    <2> QED BY <1>4, <2>1, <2>2 DEF e, t
  <1> QED BY <1>8, <1>9, <1>10, <1>11

-----------------------------------------------------------------------------
(* The weekday.                                                            *)

\* Zeller's sum, of a year, a month from 1 on and a day from 1 on.
OfYear(y) == (y % 100) + (y % 100) \div 4 + (y \div 100) \div 4 + 5 * (y \div 100)

OfDate(y, n, k) ==
    IF n < 3 THEN k + (13 * (n + 13)) \div 5 + OfYear(y - 1)
    ELSE k + (13 * (n + 1)) \div 5 + OfYear(y)

LEMMA ZellerIs ==
    ASSUME NEW t, t.year \in Nat, t.month \in Nat, t.day \in Nat
    PROVE  Zeller(t) = Weekdays[1 + (((OfDate(t.year, t.month, t.day) % 7) + 5) % 7)]
  <1>1. CASE t.month < 3
    <2>1. (t.month + 12) + 1 = t.month + 13
      OBVIOUS
    <2> QED BY <1>1, <2>1 DEF Zeller, OfDate, OfYear
  <1>2. CASE ~(t.month < 3)
    BY <1>2 DEF Zeller, OfDate, OfYear
  <1> QED BY <1>1, <1>2

LEMMA OfYearNat == ASSUME NEW y \in 1999 .. 2136 PROVE OfYear(y) \in Nat
  BY DEF OfYear

\* A year moves the weekdays of March by a day, a leap year by two.
LEMMA OfYearNext ==
    ASSUME NEW y \in 2000 .. 2136
    PROVE  \E q \in -17 .. 0 : OfYear(y) = OfYear(y - 1) + (IF IsLeapYear(y) THEN 2 ELSE 1) + 7 * q
  <1>1. IsLeapYear(y) <=> (y % 4 = 0 /\ y # 2100)
    BY LeapYears
  <1>2. CASE y = 2000
    <2>1. OfYear(2000) = 105 /\ OfYear(1999) = 222
      BY DEF OfYear
    <2>2. OfYear(y) = OfYear(y - 1) + 2 + 7 * (-17)
      BY <1>2, <2>1
    <2> QED BY <1>1, <1>2, <2>2
  <1>3. CASE y = 2100
    <2>1. OfYear(2100) = 110 /\ OfYear(2099) = 228
      BY DEF OfYear
    <2>2. OfYear(y) = OfYear(y - 1) + 1 + 7 * (-17)
      BY <1>3, <2>1
    <2> QED BY <1>1, <1>3, <2>2
  <1>4. CASE y \in 2001 .. 2099 \/ y \in 2101 .. 2136
    <2>1. PICK c \in {20, 21} : y \in 100 * c + 1 .. 100 * c + 99
      BY <1>4
    <2>2. y \div 100 = c /\ y % 100 = y - 100 * c
          /\ (y - 1) \div 100 = c /\ (y - 1) % 100 = (y - 1) - 100 * c
      BY <2>1
    <2>3. (y - 100 * c) \div 4 = ((y - 1) - 100 * c) \div 4 + (IF y % 4 = 0 THEN 1 ELSE 0)
      BY <2>1
    <2>4. OfYear(y) = OfYear(y - 1) + (IF y % 4 = 0 THEN 2 ELSE 1) + 7 * 0
      BY <2>1, <2>2, <2>3 DEF OfYear
    <2>5. OfYear(y) = OfYear(y - 1) + (IF IsLeapYear(y) THEN 2 ELSE 1) + 7 * 0
      BY <2>4, <1>1, <1>4
    <2> QED BY <2>5
  <1> QED BY <1>2, <1>3, <1>4

\* A sum is that of the next day, but for whole weeks.
Follows(a, b) == b % 7 = (a + 1) % 7

LEMMA WholeWeeks ==
    ASSUME NEW a \in Nat, NEW b \in Nat, NEW q \in Int, b = a + 1 + 7 * q
    PROVE  Follows(a, b)
  BY DEF Follows

Years == 2000 .. 2136
Months == 1 .. 12

LEMMA OfDateNat ==
    ASSUME NEW y \in Years, NEW n \in Months, NEW k \in Nat
    PROVE  OfDate(y, n, k) \in Nat
  <1>1. y - 1 \in 1999 .. 2136 /\ y \in 1999 .. 2136
    BY DEF Years
  <1>2. OfYear(y - 1) \in Nat /\ OfYear(y) \in Nat
    BY <1>1, OfYearNat
  <1> QED BY <1>2 DEF OfDate, Months

\* The first of a month comes a day after the last of the month before.
LEMMA OfDateNextMonth ==
    \A y, n : y \in Years /\ n + 1 \in Months /\ n \in Nat /\ n < 11 =>
        Follows(OfDate(y, n + 1, monthLength(IsLeapYear(y), n)), OfDate(y, n + 2, 1))
  <1> TAKE y, n
  <1> SUFFICES ASSUME y \in 2000 .. 2136, n \in 0 .. 10
               PROVE  Follows(OfDate(y, n + 1, monthLength(IsLeapYear(y), n)),
                              OfDate(y, n + 2, 1))
    BY DEF Years
  <1> DEFINE leap == IsLeapYear(y)
             len == monthLength(leap, n)
             a == OfDate(y, n + 1, len)
             b == OfDate(y, n + 2, 1)
  <1>1. y - 1 \in 1999 .. 2136 /\ y \in 1999 .. 2136
    OBVIOUS
  <1>2. OfYear(y - 1) \in Nat /\ OfYear(y) \in Nat
    BY <1>1, OfYearNat
  <1>3. n = 0 \/ n = 1 \/ n \in {2, 3, 4, 5, 6, 7, 8, 9, 10}
    OBVIOUS
  <1>4. /\ monthLength(leap, 0) = 31 /\ monthLength(leap, 1) = (IF leap THEN 29 ELSE 28)
        /\ monthLength(leap, 2) = 31
        /\ monthLength(leap, 3) = 30 /\ monthLength(leap, 4) = 31 /\ monthLength(leap, 5) = 30
        /\ monthLength(leap, 6) = 31 /\ monthLength(leap, 7) = 31 /\ monthLength(leap, 8) = 30
        /\ monthLength(leap, 9) = 31 /\ monthLength(leap, 10) = 30
    BY DEF monthLength
  <1> SUFFICES \E q \in Int : b = a + 1 + 7 * q
    <2> DEFINE n1 == n + 1
               n2 == n + 2
    <2>1. n1 \in Months /\ n2 \in Months /\ len \in Nat /\ 1 \in Nat /\ y \in Years
      BY MonthLengths DEF Months, Years
    <2> HIDE DEF n1, n2, len
    <2>3. OfDate(y, n1, len) \in Nat /\ OfDate(y, n2, 1) \in Nat
      BY <2>1, OfDateNat
    <2>2. a \in Nat /\ b \in Nat
      BY <2>3 DEF n1, n2
    <2> HIDE DEF a, b
    <2>4. Follows(a, b)
      BY <2>2, WholeWeeks
    <2> QED BY <2>4 DEF a, b, len, leap
  <1>5. CASE n = 0
    <2>1. OfDate(y, 2, 1) = 1 + 39 + OfYear(y - 1)
      BY <1>2 DEF OfDate
    <2>2. OfDate(y, 1, 31) = 31 + 36 + OfYear(y - 1)
      BY <1>2 DEF OfDate
    <2>3. OfDate(y, 2, 1) = OfDate(y, 1, 31) + 1 + 7 * (-4)
      BY <1>2, <2>1, <2>2
    <2>4. len = 31 /\ n + 1 = 1 /\ n + 2 = 2
      BY <1>4, <1>5
    <2>5. b = a + 1 + 7 * (-4)
      BY <2>3, <2>4
    <2> HIDE DEF a, b
    <2> QED BY <2>5
  <1>6. CASE n = 1
    <2>1. PICK q \in -17 .. 0 : OfYear(y) = OfYear(y - 1) + (IF leap THEN 2 ELSE 1) + 7 * q
      BY OfYearNext
    <2>2. OfDate(y, 3, 1) = 1 + 10 + OfYear(y)
      BY <1>2 DEF OfDate
    <2>3. OfDate(y, 2, len) = len + 39 + OfYear(y - 1)
      BY <1>2 DEF OfDate
    <2>4. len = 27 + (IF leap THEN 2 ELSE 1)
      BY <1>4, <1>6
    <2> HIDE DEF len, leap
    <2>5. OfDate(y, 3, 1) = OfDate(y, 2, len) + 1 + 7 * (q - 8)
      BY <1>2, <2>1, <2>2, <2>3, <2>4
    <2>6. q - 8 \in Int
      OBVIOUS
    <2>7. n + 1 = 2 /\ n + 2 = 3
      BY <1>6
    <2>8. b = a + 1 + 7 * (q - 8)
      BY <2>5, <2>7
    <2> HIDE DEF a, b
    <2> DEFINE p == q - 8
    <2>9. p \in Int /\ b = a + 1 + 7 * p
      BY <2>8
    <2> HIDE DEF p
    <2> QED BY <2>9
  <1>7. CASE n \in {2, 3, 4, 5, 6, 7, 8, 9, 10}
    <2>1. OfDate(y, n + 2, 1) = 1 + (13 * (n + 3)) \div 5 + OfYear(y)
      <3>1. (n + 2) + 1 = n + 3 /\ ~(n + 2 < 3)
        BY <1>7
      <3> QED BY <3>1 DEF OfDate
    <2>2. OfDate(y, n + 1, len) = len + (13 * (n + 2)) \div 5 + OfYear(y)
      <3>1. (n + 1) + 1 = n + 2 /\ ~(n + 1 < 3)
        BY <1>7
      <3> QED BY <3>1 DEF OfDate
    <2>3. (13 * (n + 3)) \div 5 = (13 * (n + 2)) \div 5 + len - 28
      BY <1>4, <1>7
    <2>4. len \in Nat /\ (13 * (n + 2)) \div 5 \in Nat
      BY <1>7, MonthLengths
    <2> HIDE DEF len
    <2>5. OfDate(y, n + 2, 1) = OfDate(y, n + 1, len) + 1 + 7 * (-4)
      BY <1>2, <2>1, <2>2, <2>3, <2>4
    <2> HIDE DEF a, b
    <2> QED BY <2>5 DEF a, b
  <1> QED BY <1>3, <1>5, <1>6, <1>7

LEMMA OfDateNextYear ==
    ASSUME NEW y \in 2000 .. 2135
    PROVE  Follows(OfDate(y, 12, 31), OfDate(y + 1, 1, 1))
  <1>1. OfYear(y) \in Nat
    BY OfYearNat
  <1>2. (y + 1) - 1 = y
    OBVIOUS
  <1>3. OfDate(y + 1, 1, 1) = 1 + 36 + OfYear(y)
    BY <1>1, <1>2 DEF OfDate
  <1>4. OfDate(y, 12, 31) = 31 + 33 + OfYear(y)
    BY <1>1 DEF OfDate
  <1>5. OfDate(y + 1, 1, 1) = OfDate(y, 12, 31) + 1 + 7 * (-4)
    BY <1>1, <1>3, <1>4
  <1>6. OfDate(y + 1, 1, 1) \in Nat /\ OfDate(y, 12, 31) \in Nat
    BY <1>1, <1>3, <1>4
  <1> QED BY <1>5, <1>6, WholeWeeks

ZellerOf(d) == OfDate(YearOf(d).year, MonthOf(d).month + 1, MonthOf(d).days + 1)

LEMMA ZellerNat ==
    ASSUME NEW d \in Days
    PROVE  ZellerOf(d) \in Nat
  <1> DEFINE y == YearOf(d).year
             n == MonthOf(d).month + 1
             k == MonthOf(d).days + 1
  <1>1. y \in Years /\ n \in Months /\ k \in Nat
    BY DatePlace DEF Years, Months
  <1>2. ZellerOf(d) = OfDate(y, n, k)
    BY DEF ZellerOf
  <1> HIDE DEF y, n, k
  <1>3. OfDate(y, n, k) \in Nat
    BY <1>1, OfDateNat
  <1> QED BY <1>2, <1>3

\* A day is a day.
LEMMA ZellerNext ==
    ASSUME NEW d \in DaysButLast
    PROVE  Follows(ZellerOf(d), ZellerOf(d + 1))
  <1> DEFINE e == d + 1
             y == YearOf(d).year
             n == MonthOf(d).month
             k == MonthOf(d).days
             len == monthLength(IsLeapYear(y), n)
             z == YearOf(e).year
  <1>1. d \in Days /\ e \in Days
    BY NextDay
  <1>2. y \in 2000 .. 2136 /\ n \in 0 .. 11 /\ k \in Nat /\ z \in 2000 .. 2136
    BY <1>1, DatePlace
  <1>3. ZellerOf(d) = OfDate(y, n + 1, k + 1)
        /\ ZellerOf(e) = OfDate(z, MonthOf(e).month + 1, MonthOf(e).days + 1)
    BY DEF ZellerOf
  <1>4. ZellerOf(d) \in Nat /\ ZellerOf(e) \in Nat
    BY <1>1, ZellerNat
  <1>5. SameMonth(d) \/ NextMonth(d) \/ NextYear(d)
    BY <1>1, DateNext
  <1>6. OfYear(y) \in Nat /\ OfYear(y - 1) \in Nat
    <2>1. y \in 1999 .. 2136 /\ y - 1 \in 1999 .. 2136
      BY <1>2
    <2> QED BY <2>1, OfYearNat
  <1>7. CASE SameMonth(d)
    <2>1. z = y /\ MonthOf(e).month = n /\ MonthOf(e).days = k + 1
      BY <1>7 DEF SameMonth
    <2>2. ZellerOf(e) = OfDate(y, n + 1, (k + 1) + 1)
      BY <1>3, <2>1
    <2> HIDE DEF y, n, k, e
    <2>3. OfDate(y, n + 1, (k + 1) + 1) = OfDate(y, n + 1, k + 1) + 1 + 7 * 0
      BY <1>2, <1>6 DEF OfDate
    <2>4. ZellerOf(e) = ZellerOf(d) + 1 + 7 * 0
      BY <1>3, <2>2, <2>3
    <2> QED BY <1>4, <2>4, WholeWeeks DEF e
  <1>8. CASE NextMonth(d)
    <2>1. k + 1 = len /\ n < 11 /\ z = y /\ MonthOf(e).month = n + 1 /\ MonthOf(e).days = 0
      BY <1>8 DEF NextMonth
    <2>2. n \in Nat /\ n < 11 /\ n + 1 \in Months /\ y \in Years
          /\ (n + 1) + 1 = n + 2 /\ 0 + 1 = 1
      BY <1>2, <2>1 DEF Months, Years
    <2>3. ZellerOf(e) = OfDate(y, n + 2, 1) /\ ZellerOf(d) = OfDate(y, n + 1, len)
      BY <1>3, <2>1, <2>2
    <2>4. Follows(OfDate(y, n + 1, len), OfDate(y, n + 2, 1))
      <3> HIDE DEF y, n
      <3>1. Follows(OfDate(y, n + 1, monthLength(IsLeapYear(y), n)), OfDate(y, n + 2, 1))
        BY <1>2, <2>2, OfDateNextMonth
      <3> QED BY <3>1
    <2> QED BY <2>3, <2>4
  <1>9. CASE NextYear(d)
    <2>1. k + 1 = len /\ n = 11 /\ z = y + 1 /\ MonthOf(e).month = 0 /\ MonthOf(e).days = 0
      BY <1>9 DEF NextYear
    <2>2. y \in 2000 .. 2135
      BY <1>2, <2>1
    <2>3. len = 31
      BY <2>1 DEF monthLength
    <2>4. ZellerOf(e) = OfDate(y + 1, 1, 1) /\ ZellerOf(d) = OfDate(y, 12, 31)
      <3>1. 0 + 1 = 1 /\ n + 1 = 12
        BY <2>1
      <3> QED BY <1>3, <2>1, <2>3, <3>1
    <2> QED BY <2>2, <2>4, OfDateNextYear
  <1> QED BY <1>5, <1>7, <1>8, <1>9

LEMMA FirstDay == YearOf(0) = [year |-> 2000, days |-> 0] /\ MonthOf(0).month = 0 /\ MonthOf(0).days = 0
  <1> DEFINE t == [year |-> 2000, days |-> 0]
             u == [leap |-> IsLeapYear(2000), month |-> 0, days |-> 0]
  <1>1. t \in LastYear
    BY YearLengths DEF LastYear, YearAndDays
  <1>2. InYear[t] = t
    <2> HIDE DEF t
    <2>1. t \in YearAndDays
      BY <1>1 DEF LastYear
    <2> QED BY <1>1, <2>1, InYearDef
  <1>3. YearOf(0) = t
    BY <1>2 DEF YearOf
  <1>4. u \in LastMonth
    BY MonthLengths DEF LastMonth, MonthAndDays, IsLeapYear
  <1>5. InMonth[u] = u
    <2> HIDE DEF u
    <2>1. u \in MonthAndDays
      BY <1>4 DEF LastMonth
    <2> QED BY <1>4, <2>1, InMonthDef
  <1>6. MonthOf(0) = u
    BY <1>3, <1>5 DEF MonthOf
  <1> QED BY <1>3, <1>6

\* Weekdays go on as days do.
LEMMA ZellerDays ==
    ASSUME NEW d \in Days
    PROVE  ZellerOf(d) \in Nat /\ ZellerOf(d) % 7 = d % 7
  <1> DEFINE S == {n \in Nat : n \in Days => ZellerOf(n) \in Nat /\ ZellerOf(n) % 7 = n % 7}
  <1>1. 0 \in S
    <2>1. YearOf(0).year = 2000 /\ MonthOf(0).month + 1 = 1 /\ MonthOf(0).days + 1 = 1
      BY FirstDay
    <2>2. ZellerOf(0) = OfDate(2000, 1, 1)
      BY <2>1 DEF ZellerOf
    <2>3. OfDate(2000, 1, 1) = 259
      BY DEF OfDate, OfYear
    <2> QED BY <2>2, <2>3
  <1>2. ASSUME NEW n \in Nat, n \in S PROVE n + 1 \in S
    <2>1. ASSUME n + 1 \in Days
          PROVE  ZellerOf(n + 1) \in Nat /\ ZellerOf(n + 1) % 7 = (n + 1) % 7
      <3>1. n \in DaysButLast /\ n \in Days
        <4>1. LastDays \in Nat
          BY DEF LastDays
        <4> QED BY <2>1, <4>1 DEF Days, DaysButLast
      <3>2. ZellerOf(n) \in Nat /\ ZellerOf(n) % 7 = n % 7
        BY <1>2, <3>1
      <3>3. ZellerOf(n + 1) % 7 = (ZellerOf(n) + 1) % 7
        BY <3>1, ZellerNext DEF Follows
      <3>4. ZellerOf(n + 1) \in Nat
        BY <2>1, ZellerNat
      <3> DEFINE a == ZellerOf(n)
      <3>5. a \in Nat /\ a % 7 = n % 7
        BY <3>2
      <3> HIDE DEF a
      <3>6. (a + 1) % 7 = (n + 1) % 7
        BY <3>5
      <3> QED BY <3>3, <3>4, <3>6 DEF a
    <2> QED BY <2>1
  <1>3. Nat \subseteq S
    <2> HIDE DEF S
    <2> QED BY <1>1, <1>2, Induction
  <1>4. d \in Nat
    BY DEF Days
  <1> QED BY <1>3, <1>4

LEMMA WeekdayRight ==
    ASSUME NEW d \in Days, NEW left \in Nat
    PROVE  get_day_of_week(UTCTime(d, left)) = Zeller(get_clock_time(UTCTime(d, 0)))
  <1> DEFINE t == get_clock_time(UTCTime(d, 0))
  <1>1. t.year = YearOf(d).year /\ t.month = MonthOf(d).month + 1 /\ t.day = MonthOf(d).days + 1
    BY ClockTime
  <1>2. t.year \in Nat /\ t.month \in Nat /\ t.day \in Nat
    BY <1>1, DatePlace
  <1>3. Zeller(t) = Weekdays[1 + (((OfDate(t.year, t.month, t.day) % 7) + 5) % 7)]
    <2> HIDE DEF t
    <2> QED BY <1>2, ZellerIs
  <1>4. OfDate(t.year, t.month, t.day) = ZellerOf(d)
    <2> HIDE DEF t
    <2> QED BY <1>1 DEF ZellerOf
  <1>5. ZellerOf(d) % 7 = d % 7
    BY ZellerDays
  <1>6. get_day_of_week(UTCTime(d, left)) = Weekdays[1 + (((d % 7) + 5) % 7)]
    BY DEF get_day_of_week, UTCTime
  <1> HIDE DEF t
  <1> QED BY <1>3, <1>4, <1>5, <1>6 DEF t

LEMMA SecondsBack ==
    ASSUME NEW left \in Nat
    PROVE  (left % 60) + ((left % 3600) \div 60) * 60 + (left \div 3600) * 3600 = left
  <1> DEFINE h == left % 3600
  <1>1. left = 3600 * (left \div 3600) + h /\ h \in Nat /\ left \div 3600 \in Nat
    OBVIOUS
  <1>2. left % 60 = h % 60
    BY <1>1
  <1>3. h = 60 * (h \div 60) + (h % 60) /\ h \div 60 \in Nat /\ h % 60 \in Nat
    BY <1>1
  <1> DEFINE a == left \div 3600
             b == h \div 60
             c == left % 60
  <1>4. a \in Nat /\ b \in Nat /\ c \in Nat /\ left = 3600 * a + h /\ h = 60 * b + c
    BY <1>1, <1>2, <1>3
  <1> HIDE DEF h, a, b, c
  <1>5. c + b * 60 + a * 3600 = left
    BY <1>4
  <1> QED BY <1>5 DEF a, b, c, h

LEMMA TimeBack ==
    ASSUME NEW d \in Days, NEW left \in Nat, NEW t, t = get_clock_time(UTCTime(d, left))
    PROVE  convert_time_to_Second([t EXCEPT !.year = @ - 2000]) = UTCTime(d, left)
  <1> DEFINE y == YearOf(d).year
             n == MonthOf(d).month
             k == MonthOf(d).days
             u == [t EXCEPT !.year = @ - 2000]
  <1>1. t = [year |-> y, month |-> n + 1, day |-> k + 1, hour |-> left \div 3600,
             minutes |-> (left % 3600) \div 60, seconds |-> left % 60]
    BY ClockTime
  <1>2. /\ y \in 2000 .. 2136 /\ YearOf(d).days \in Nat
        /\ DaysOfYears[y - 2000] + YearOf(d).days = d
        /\ n \in 0 .. 11 /\ k \in Nat
        /\ DaysOfMonths(IsLeapYear(y), n) + k = YearOf(d).days
    BY DatePlace
  <1> HIDE DEF y, n, k
  <1>3. u.year = y - 2000 /\ u.month = n + 1 /\ u.day = k + 1 /\ u.hour = left \div 3600
        /\ u.minutes = (left % 3600) \div 60 /\ u.seconds = left % 60
    BY <1>1
  <1> HIDE DEF u
  <1>4. (y - 2000) + 2000 = y /\ (n + 1) - 1 = n /\ (k + 1) - 1 = k
    BY <1>2
  <1>5. convert_time_to_Second(u)
           = UTCTime(((u.day - 1) + DaysOfMonths(IsLeapYear(u.year + 2000), u.month - 1))
                        + DaysOfYears[u.year],
                     u.seconds + u.minutes * 60 + u.hour * 3600)
    BY DEF convert_time_to_Second
  <1>6. u.day - 1 = k /\ IsLeapYear(u.year + 2000) = IsLeapYear(y) /\ u.month - 1 = n
    BY <1>3, <1>4
  <1>7. (k + DaysOfMonths(IsLeapYear(y), n)) + DaysOfYears[y - 2000] = d
    <2>1. DaysOfMonths(IsLeapYear(y), n) \in Nat
      <3>1. IsLeapYear(y) \in BOOLEAN
        BY DEF IsLeapYear
      <3> QED BY <1>2, <3>1, DaysOfMonthsDef
    <2>2. DaysOfYears[y - 2000] \in Nat
      BY <1>2, DaysOfYearsDef
    <2> QED BY <1>2, <2>1, <2>2
  <1>8. u.seconds + u.minutes * 60 + u.hour * 3600 = left
    BY <1>3, SecondsBack
  <1>9. ((u.day - 1) + DaysOfMonths(IsLeapYear(u.year + 2000), u.month - 1)) + DaysOfYears[u.year] = d
    BY <1>3, <1>6, <1>7
  <1> QED BY <1>5, <1>8, <1>9 DEF u

LEMMA Nested ==
    ASSUME NEW old, NEW new, NEW a, NEW b, a = get_clock_time(old), b = get_clock_time(new),
           a.year # b.year => a.month # b.month, a.month # b.month => a.day # b.day,
           a.day # b.day => a.hour # b.hour, a.hour # b.hour => a.minutes # b.minutes
    PROVE  UpdatesNested(old, new)
  <1> DEFINE U == {f \in {"minutes", "hour", "day", "month", "year"} : a[f] # b[f]}
  <1>1. Updates(a, b) = U
    BY DEF Updates
  <1>2. CASE a.year # b.year
    <2>1. U = {"minutes", "hour", "day", "month", "year"}
      BY <1>2
    <2> QED BY <1>1, <2>1 DEF UpdatesNested
  <1>3. CASE a.year = b.year /\ a.month # b.month
    <2>1. U = {"minutes", "hour", "day", "month"}
      BY <1>3
    <2> QED BY <1>1, <2>1 DEF UpdatesNested
  <1>4. CASE a.year = b.year /\ a.month = b.month /\ a.day # b.day
    <2>1. U = {"minutes", "hour", "day"}
      BY <1>4
    <2> QED BY <1>1, <2>1 DEF UpdatesNested
  <1>5. CASE a.year = b.year /\ a.month = b.month /\ a.day = b.day /\ a.hour # b.hour
    <2>1. U = {"minutes", "hour"}
      BY <1>5
    <2> QED BY <1>1, <2>1 DEF UpdatesNested
  <1>6. CASE a.year = b.year /\ a.month = b.month /\ a.day = b.day /\ a.hour = b.hour
             /\ a.minutes # b.minutes
    <2>1. U = {"minutes"}
      BY <1>6
    <2> QED BY <1>1, <2>1 DEF UpdatesNested
  <1>7. CASE a.year = b.year /\ a.month = b.month /\ a.day = b.day /\ a.hour = b.hour
             /\ a.minutes = b.minutes
    <2>1. U = {}
      BY <1>7
    <2> QED BY <1>1, <2>1 DEF UpdatesNested
  <1> QED BY <1>2, <1>3, <1>4, <1>5, <1>6, <1>7

\* Within a day.
LEMMA DayNestedInside ==
    ASSUME NEW d \in Days, NEW i \in Nat, NEW j \in Nat
    PROVE  (i \div 3600 # j \div 3600 => (i % 3600) \div 60 # (j % 3600) \div 60)
              => UpdatesNested(UTCTime(d, i), UTCTime(d, j))
  <1> DEFINE a == get_clock_time(UTCTime(d, i))
             b == get_clock_time(UTCTime(d, j))
  <1>1. a = [year |-> YearOf(d).year, month |-> MonthOf(d).month + 1,
             day |-> MonthOf(d).days + 1, hour |-> i \div 3600,
             minutes |-> (i % 3600) \div 60, seconds |-> i % 60]
    BY ClockTime
  <1>2. b = [year |-> YearOf(d).year, month |-> MonthOf(d).month + 1,
             day |-> MonthOf(d).days + 1, hour |-> j \div 3600,
             minutes |-> (j % 3600) \div 60, seconds |-> j % 60]
    BY ClockTime
  <1> HIDE DEF a, b
  <1> HAVE i \div 3600 # j \div 3600 => (i % 3600) \div 60 # (j % 3600) \div 60
  <1>3. a.year = b.year /\ a.month = b.month /\ a.day = b.day
        /\ (a.hour # b.hour => a.minutes # b.minutes)
    BY <1>1, <1>2
  <1> QED BY <1>3, Nested DEF a, b

LEMMA SecondNested ==
    ASSUME NEW d \in Days, NEW left \in {58, 59, 3598, 3599}
    PROVE  UpdatesNested(UTCTime(d, left), UTCTime(d, left + 1))
  <1> DEFINE next == left + 1
  <1>1. left \div 3600 # next \div 3600 => (left % 3600) \div 60 # (next % 3600) \div 60
    OBVIOUS
  <1>2. left \in Nat /\ next \in Nat
    OBVIOUS
  <1> HIDE DEF next
  <1>3. UpdatesNested(UTCTime(d, left), UTCTime(d, next))
    BY <1>1, <1>2, DayNestedInside
  <1> QED BY <1>3 DEF next

\* From a day to the next.
LEMMA DayNested ==
    ASSUME NEW d \in DaysButLast
    PROVE  UpdatesNested(UTCTime(d, DAY - 1), UTCTime(d + 1, 0))
  <1> DEFINE e == d + 1
             late == DAY - 1
             a == get_clock_time(UTCTime(d, late))
             b == get_clock_time(UTCTime(e, 0))
  <1>1. d \in Days /\ e \in Days
    BY NextDay
  <1>2. late \in Nat /\ late \div 3600 = 23 /\ (late % 3600) \div 60 = 59
    BY DEF DAY
  <1>3. a = [year |-> YearOf(d).year, month |-> MonthOf(d).month + 1,
             day |-> MonthOf(d).days + 1, hour |-> late \div 3600,
             minutes |-> (late % 3600) \div 60, seconds |-> late % 60]
    BY <1>1, <1>2, ClockTime
  <1>4. b = [year |-> YearOf(e).year, month |-> MonthOf(e).month + 1,
             day |-> MonthOf(e).days + 1, hour |-> 0 \div 3600,
             minutes |-> (0 % 3600) \div 60, seconds |-> 0 % 60]
    BY <1>1, ClockTime
  <1>5. 0 \div 3600 = 0 /\ (0 % 3600) \div 60 = 0
    OBVIOUS
  <1> HIDE DEF a, b, late, e
  <1>6. a.hour # b.hour /\ a.minutes # b.minutes
    BY <1>2, <1>3, <1>4, <1>5
  <1>7. /\ a.year = YearOf(d).year /\ a.month = MonthOf(d).month + 1 /\ a.day = MonthOf(d).days + 1
        /\ b.year = YearOf(e).year /\ b.month = MonthOf(e).month + 1 /\ b.day = MonthOf(e).days + 1
    BY <1>3, <1>4
  <1>8. /\ MonthOf(d).month \in 0 .. 11 /\ MonthOf(d).days \in Nat
        /\ monthLength(IsLeapYear(YearOf(d).year), MonthOf(d).month) \in {28, 29, 30, 31}
    BY <1>1, DatePlace, MonthLengths
  <1>9. (a.year # b.year => a.month # b.month) /\ (a.month # b.month => a.day # b.day)
    <2>1. CASE SameMonth(d)
      BY <1>7, <2>1 DEF SameMonth, e
    <2>2. CASE NextMonth(d)
      <3>1. YearOf(e).year = YearOf(d).year /\ MonthOf(e).days = 0 /\ MonthOf(d).days # 0
        BY <1>8, <2>2 DEF NextMonth, e
      <3> QED BY <1>7, <1>8, <3>1
    <2>3. CASE NextYear(d)
      <3>1. MonthOf(d).month = 11 /\ MonthOf(e).month = 0 /\ MonthOf(e).days = 0
            /\ MonthOf(d).days # 0
        BY <1>8, <2>3 DEF NextYear, e
      <3> QED BY <1>7, <1>8, <3>1
    <2> QED BY <1>1, <2>1, <2>2, <2>3, DateNext
  <1> QED BY <1>6, <1>9, Nested DEF a, b, e, late

\* The calendar agrees with the one to compare with on every day that the count
\* of seconds reaches: ConvertToUTCTime, the way back, weekdays and callbacks.
THEOREM CalendarCorrect == CalendarRight
  <1>1. get_clock_time(UTCTime(0, 0)) = Midnight(2000, 1, 1)
    <2>1. 0 \in Days
      BY DEF Days, LastDays
    <2>2. get_clock_time(UTCTime(0, 0)) =
             [year |-> YearOf(0).year, month |-> MonthOf(0).month + 1,
              day |-> MonthOf(0).days + 1, hour |-> 0 \div 3600,
              minutes |-> (0 % 3600) \div 60, seconds |-> 0 % 60]
      BY <2>1, ClockTime
    <2>3. YearOf(0).year = 2000 /\ MonthOf(0).month + 1 = 1 /\ MonthOf(0).days + 1 = 1
      BY FirstDay
    <2>4. 0 \div 3600 = 0 /\ (0 % 3600) \div 60 = 0 /\ 0 % 60 = 0
      OBVIOUS
    <2> QED BY <2>2, <2>3, <2>4 DEF Midnight
  <1>2. ASSUME NEW d \in CheckedDays
        PROVE  d \in DaysButLast /\ d \in Days
    <2>1. d \in DaysButLast
      BY ClockAssumption DEF DaysButLast
    <2> QED BY <2>1, NextDay
  <1>3. ASSUME NEW d \in CheckedDays
        PROVE  LET today == get_clock_time(UTCTime(d, 0))
               IN  /\ get_clock_time(UTCTime(d + 1, 0)) = DayAfter(today)
                   /\ get_day_of_week(UTCTime(d, DAY - 1)) = Zeller(today)
    <2>1. DAY - 1 \in Nat
      BY DEF DAY
    <2> QED BY <1>2, <2>1, DayAfterRight, WeekdayRight
  <1>4. ASSUME NEW d \in CheckedDays, NEW left \in {0, 3599, 3600, DAY - 1}
        PROVE  LET tm == get_clock_time(UTCTime(d, left))
               IN  convert_time_to_Second([tm EXCEPT !.year = @ - 2000]) = UTCTime(d, left)
    <2>1. left \in Nat
      BY DEF DAY
    <2> QED BY <1>2, <2>1, TimeBack
  <1>5. ASSUME NEW d \in CheckedDays
        PROVE  UpdatesNested(UTCTime(d, DAY - 1), UTCTime(d + 1, 0))
    BY <1>2, DayNested
  <1>6. ASSUME NEW d \in CheckedDays, NEW left \in {58, 59, 3598, 3599}
        PROVE  UpdatesNested(UTCTime(d, left), UTCTime(d, left + 1))
    BY <1>2, SecondNested
  <1> QED BY <1>1, <1>3, <1>4, <1>5, <1>6 DEF CalendarRight

\* Once the clock ticks, every date that get_clock_time gives is the right one.
THEOREM DatesCorrect == Spec => []DatesRight
  <1>1. DatesRight
    BY CalendarCorrect DEF DatesRight
  <1> QED BY <1>1, PTL

=============================================================================
