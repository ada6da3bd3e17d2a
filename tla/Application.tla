----------------------------- MODULE Application -----------------------------
(***************************************************************************)
(* The label's program around its services: the start-up in the main       *)
(* thread (main.c), the clock's tick and its callbacks (clock.c), the      *)
(* watchdog they feed (wdt.c), and the drawing of the display (ssd1608.c), *)
(* which the main thread does once at start-up and the control point       *)
(* handler does when a transfer ends (lable_data.c).                       *)
(*                                                                         *)
(* The tick and the SoftDevice's events run in interrupts of one priority: *)
(* each preempts the main thread, neither preempts the other, and when both *)
(* are due the tick, whose interrupt has the lower number, is first.       *)
(* Seconds pass one by one; Timely says which code is taken to be fast     *)
(* enough.                                                                 *)
(***************************************************************************)
EXTENDS Clock

CONSTANT WdtSeconds   \* RELOAD_COUNT, in seconds

ASSUME ApplicationAssumption == WdtSeconds \in Nat /\ WdtSeconds >= 4

VARIABLES
    at,        \* where the main thread and the event handler are
    spi,       \* the state of the SPI driver: initialized
    panel,     \* the display: "idle", "busy" or "stuck" with its busy pin set
    callbacks, \* clock_callbacks: registered, still NULL, called before
    pending,   \* the tick's interrupt is pending
    wdt,       \* the watchdog: running, and the seconds left
    fault      \* the processor loops in the hard fault handler

vars == <<at, spi, panel, callbacks, pending, wdt, fault>>

Contexts == {"main", "event"}

\* The steps of main before ssd1608_init, up to the ones after which
\* something new can happen.
StartUp == {"ble_init", "system_clock_init", "wdt_start", "register", "fill"}

DrawSteps == {"spi_init", "display_image", "READBUSY", "spi_uninit"}

AtBoot == [main |-> "ble_init", event |-> "none"]

Unregistered == [registered |-> FALSE, null |-> {"day", "month", "year"}, called |-> FALSE]

\* What every reset does; the panel has its own supply, and the watchdog is
\* stopped by its own reset only.
Restart(watchdog) ==
    /\ at' = AtBoot
    /\ spi' = FALSE /\ callbacks' = Unregistered /\ pending' = FALSE /\ fault' = FALSE
    /\ wdt' = watchdog
    /\ UNCHANGED panel

Stopped == [on |-> FALSE, left |-> WdtSeconds]

\* An interrupt handler runs to its end before the main thread goes on.
Runs(c) == ~fault /\ (c = "main" => at.event = "none")

TickRuns == ~fault /\ at.event = "none"

-----------------------------------------------------------------------------
(* The main thread, up to its loop.                                        *)

\* Slip: the callbacks are registered before the watchdog is started.
Following_WatchdogLast(step) ==
    CASE step = "ble_init" -> "system_clock_init"
      [] step = "system_clock_init" -> "register"
      [] step = "register" -> "fill"
      [] step = "fill" -> "wdt_start"
      [] step = "wdt_start" -> "spi_init"

\* The order of main.
Following(step) ==
    CASE step = "ble_init" -> "system_clock_init"
      [] step = "system_clock_init" -> "wdt_start"
      [] step = "wdt_start" -> "register"
      [] step = "register" -> "fill"
      [] step = "fill" -> "spi_init"

MainGoes(step) ==
    /\ Runs("main") /\ at.main = step
    /\ at' = [at EXCEPT !.main = Following(step)]

\* ble_init and system_clock_init: advertising, and then the timer, has begun.
MainInit ==
    /\ MainGoes("ble_init") \/ MainGoes("system_clock_init")
    /\ UNCHANGED <<spi, panel, callbacks, pending, wdt, fault>>

\* Starting a watchdog that runs changes nothing.
wdt_start ==
    /\ MainGoes("wdt_start")
    /\ wdt' = [wdt EXCEPT !.on = TRUE]
    /\ UNCHANGED <<spi, panel, callbacks, pending, fault>>

\* register_clock_callbacks: the structure is published first,
register_clock_callbacks ==
    /\ MainGoes("register")
    /\ callbacks' = [callbacks EXCEPT !.registered = TRUE]
    /\ UNCHANGED <<spi, panel, pending, wdt, fault>>

\* and then each callback that is NULL is replaced.
fill_callback ==
    /\ Runs("main") /\ at.main = "fill"
    /\ IF "day" \in callbacks.null THEN callbacks' = [callbacks EXCEPT !.null = @ \ {"day"}]
       ELSE IF "month" \in callbacks.null
       THEN callbacks' = [callbacks EXCEPT !.null = @ \ {"month"}]
       ELSE callbacks' = [callbacks EXCEPT !.null = @ \ {"year"}]
    /\ at' = [at EXCEPT !.main = IF callbacks'.null = {} THEN Following("fill") ELSE @]
    /\ UNCHANGED <<spi, panel, pending, wdt, fault>>

-----------------------------------------------------------------------------
(* Drawing: ssd1608_init, in the context c.                                *)

Draws(c, step) == Runs(c) /\ at[c] = step

\* Slip: an instance that is in use is initialized again.
spi_init_Again(c) ==
    /\ Draws(c, "spi_init")
    /\ at' = [at EXCEPT ![c] = "display_image"]
    /\ spi' = TRUE
    /\ panel' = IF panel = "busy" THEN "idle" ELSE panel
    /\ UNCHANGED <<callbacks, pending, wdt, fault>>

\* nrf_drv_spi_init refuses an instance that is in use, and APP_ERROR_CHECK
\* resets the device; otherwise the panel gets its reset pulse.
spi_init(c) ==
    /\ Draws(c, "spi_init")
    /\ IF spi THEN Restart(wdt)
       ELSE /\ at' = [at EXCEPT ![c] = "display_image"]
            /\ spi' = TRUE
            /\ panel' = IF panel = "busy" THEN "idle" ELSE panel
            /\ UNCHANGED <<callbacks, pending, wdt, fault>>

\* The picture is sent and the panel told to show it.
display_image(c) ==
    /\ Draws(c, "display_image")
    /\ at' = [at EXCEPT ![c] = "READBUSY"]
    /\ panel' = IF panel = "idle" THEN "busy" ELSE panel
    /\ UNCHANGED <<spi, callbacks, pending, wdt, fault>>

READBUSY(c) ==
    /\ Draws(c, "READBUSY") /\ panel = "idle"
    /\ at' = [at EXCEPT ![c] = "spi_uninit"]
    /\ UNCHANGED <<spi, panel, callbacks, pending, wdt, fault>>

\* The last commands, and the driver released.
spi_uninit(c) ==
    /\ Draws(c, "spi_uninit")
    /\ at' = [at EXCEPT ![c] = IF c = "main" THEN "loop" ELSE "none"]
    /\ spi' = FALSE
    /\ UNCHANGED <<panel, callbacks, pending, wdt, fault>>

Draw(c) == spi_init(c) \/ display_image(c) \/ READBUSY(c) \/ spi_uninit(c)

\* A central ends a transfer (control point 0x01).
EndOfTransfer ==
    /\ at.main # "ble_init" /\ TickRuns /\ ~pending
    /\ at' = [at EXCEPT !.event = "spi_init"]
    /\ UNCHANGED <<spi, panel, callbacks, pending, wdt, fault>>

\* The panel is done, or stops answering for good.
PanelReady ==
    /\ panel = "busy" /\ panel' = "idle"
    /\ UNCHANGED <<at, spi, callbacks, pending, wdt, fault>>

PanelFails ==
    /\ panel = "busy" /\ panel' = "stuck"
    /\ UNCHANGED <<at, spi, callbacks, pending, wdt, fault>>

-----------------------------------------------------------------------------
(* Time: the tick and the watchdog.                                        *)

\* Nothing short of a reset ends this.
Hung == fault \/ (at.event = "READBUSY" /\ panel = "stuck")

\* What is taken to end within the watchdog's time: the start-up until the
\* callbacks are registered, and a draw by a panel that answers.
Timely ==
    wdt.on /\ wdt.left <= 2 /\ ~Hung => at.main \notin StartUp /\ at.event = "none"

\* The watchdog pauses while the processor sleeps in the main loop.
Sleeps == at.main = "loop" /\ TickRuns

\* Slip: one second is taken too many.
Bites_Late == wdt.on /\ ~Sleeps /\ wdt.left = 0

Bites == wdt.on /\ ~Sleeps /\ wdt.left = 1

TimerRuns == at.main \notin {"ble_init", "system_clock_init"}

\* A second passes.  A tick that can run does so within its second.
Second ==
    /\ ~(pending /\ TickRuns)
    /\ Timely
    /\ IF Bites THEN Restart(Stopped)
       ELSE /\ wdt' = [wdt EXCEPT !.left = IF wdt.on /\ ~Sleeps THEN @ - 1 ELSE @]
            /\ pending' = (pending \/ TimerRuns)
            /\ UNCHANGED <<at, spi, panel, callbacks, fault>>

\* The callbacks besides the second's that a tick calls: at the first one the
\* date it is compared with is all zero.
Called ==
    IF callbacks.called
    THEN {{}, {"minutes"}, {"minutes", "hour"}, {"minutes", "hour", "day"},
          {"minutes", "hour", "day", "month"}, {"minutes", "hour", "day", "month", "year"}}
    ELSE {fields \cup {"day", "month", "year"} : fields \in {{}, {"minutes"}, {"minutes", "hour"}}}

\* Slip: the watchdog is fed only when the main thread is in its loop.
Tick_FeedsInLoop ==
    /\ pending /\ TickRuns
    /\ pending' = FALSE
    /\ IF callbacks.registered /\ at.main = "loop"
       THEN /\ wdt' = [wdt EXCEPT !.left = WdtSeconds]
            /\ callbacks' = [callbacks EXCEPT !.called = TRUE]
            /\ \E fields \in Called : fault' = (fields \cap callbacks.null # {})
       ELSE UNCHANGED <<wdt, callbacks, fault>>
    /\ UNCHANGED <<at, spi, panel>>

\* update_clock: the second's callback feeds the watchdog, and then the others
\* that are due are called; one that is NULL ends in the hard fault handler.
Tick ==
    /\ pending /\ TickRuns
    /\ pending' = FALSE
    /\ IF callbacks.registered
       THEN /\ wdt' = [wdt EXCEPT !.left = WdtSeconds]
            /\ callbacks' = [callbacks EXCEPT !.called = TRUE]
            /\ \E fields \in Called : fault' = (fields \cap callbacks.null # {})
       ELSE UNCHANGED <<wdt, callbacks, fault>>
    /\ UNCHANGED <<at, spi, panel>>

-----------------------------------------------------------------------------

Init ==
    /\ at = AtBoot
    /\ spi = FALSE /\ panel = "idle" /\ callbacks = Unregistered
    /\ pending = FALSE /\ wdt = Stopped /\ fault = FALSE

Main == MainInit \/ wdt_start \/ register_clock_callbacks \/ fill_callback \/ Draw("main")

Next ==
    \/ Main \/ Draw("event") \/ EndOfTransfer
    \/ PanelReady \/ PanelFails
    \/ Second \/ Tick

Spec == Init /\ [][Next]_vars

\* The processor executes, seconds pass, and interrupts are served.
FairSpec ==
    /\ Spec
    /\ WF_vars(Main) /\ WF_vars(Draw("event")) /\ WF_vars(PanelReady)
    /\ WF_vars(Second) /\ WF_vars(Tick)

-----------------------------------------------------------------------------
(* Properties.                                                             *)

TypeOK ==
    /\ at \in [main : StartUp \cup DrawSteps \cup {"loop"}, event : DrawSteps \cup {"none"}]
    /\ spi \in BOOLEAN /\ pending \in BOOLEAN /\ fault \in BOOLEAN
    /\ panel \in {"idle", "busy", "stuck"}
    /\ callbacks \in [registered : BOOLEAN, null : SUBSET {"day", "month", "year"},
                      called : BOOLEAN]
    /\ wdt \in [on : BOOLEAN, left : 1 .. WdtSeconds]

\* The context that sends to the panel has the SPI driver, and has it alone:
\* a transfer that ends while the main thread draws never takes the driver
\* from under it, the device starts over instead.
SpiHeld ==
    LET sending == {c \in Contexts : at[c] \in DrawSteps \ {"spi_init"}}
    IN  /\ Cardinality(sending) <= 1
        /\ spi = (sending # {})

\* Once the clock ticks its dates are those of the calendar: no tick shows or
\* reports a date that the number of seconds does not stand for.
DatesRight == callbacks.called => CalendarRight

\* The watchdog resets the device only if its interrupts hang, in the hard
\* fault handler or in READBUSY inside the event handler.  A main thread that
\* waits for the panel for ever is fed on.
BitesOnlyHung == [][Second /\ Bites => Hung]_vars

\* A hang of the interrupts ends in a reset: a tick that called through a
\* callback that is still NULL at any time, and a panel that stops answering
\* the event handler once the watchdog runs.
HangEnds == (fault \/ (Hung /\ wdt.on)) ~> at = AtBoot

=============================================================================
