# Pumelo ESL in TLA+

Models, model checks and proofs for the firmware of the Pumelo electronic shelf
label: a Nordic nRF51 with an e-paper display that receives its picture over
Bluetooth LE, and the secure DFU bootloader that updates it. Paths are relative
to the repository and line numbers refer to its files.

Contents: [the system](#1-the-system), [the modules](#2-the-modules),
[the runs](#3-the-runs), [fairness](#4-fairness), [the proofs](#5-the-proofs),
[where code and text disagree](#6-where-the-code-and-its-text-disagree),
[what is not modelled](#7-what-is-not-modelled), [the plan](#8-the-plan).

## 1. The system

The repository holds two programs for the same chip, the application
(`src/app`) and the bootloader (`src/bootloader`). Both are built on the Nordic
SDK 12 (`src/components`) and run beside the S130 SoftDevice, which owns the
radio and the flash controller.

**Who runs when.** In the application the SoftDevice's events are pulled and handled
in its event interrupt (`bles.c:648` gives no scheduler), one at a time and
to completion; timers are called in the RTC interrupt (`timers_init` passes
false), and so the clock ticks there. Both interrupts have one priority: neither
preempts the other, both preempt the main thread. The main loop calls
`app_sched_execute` and sleeps, and as the program stands nothing puts an event
into its queue. In the bootloader the SoftDevice's interrupt and the timers'
only put an event into the *scheduler* (`nrf_ble_dfu.c:760`, `nrf_dfu.c:64`),
and the main thread takes it out and runs the handlers, again one at a time,
with one exception: `nrf_dfu_wait` calls `app_sched_execute` from inside a
handler.

**How components interact.** A write by the central is a SoftDevice event; the
label service turns it into a call of `lable_data`, which fills a buffer and
calls `esl_flash_store`, which calls `fs_store`. The flash queue hands the
request to the SoftDevice in chunks, and each result comes back as a system
event, through the queue to a callback, through the callback to flags that a
later call looks at. The peer manager's record store (`fds`) is the other client
of the same queue. When a transfer ends the control point handler draws the
display, with the SPI driver that the main thread uses at start-up. The
bootloader has the same shape with more layers: the transport calls the request
handler, which stores data through `nrf_dfu_flash` and its own progress through
`nrf_dfu_settings`, and after a reset `nrf_dfu_continue` reads those settings
to decide what to boot or copy.

### Inventory

| Component | Source | State | Operations | What is hard | What makes it correct |
|---|---|---|---|---|---|
| Flash queue | `components/libraries/fstorage/fstorage.c` | ring of operations, flags, retry counter | `fs_init`, `fs_store`, `fs_erase`, `fs_sys_event_handler` | callbacks that submit again, results that are somebody else's, chunks and retries, a full ring | every accepted request is answered once, in order, after its data are in flash; no wake-up is lost |
| Flash data storage | `components/libraries/fds/fds.c` | pages, swap, garbage collection, two queues, reservations | `fds_init`, write, update, delete, `fds_gc`, reserve, open, close | power failures in a collection, records opened and space promised meanwhile, operations that fail half way | it is a store of records, which nothing but its operations changes |
| Event scheduler | `components/libraries/scheduler/app_scheduler.c` | ring of events, two indices | `app_sched_event_put`, `app_sched_execute` | interrupts inside a put, a put during a handler, the wait inside a handler | it is a bounded FIFO queue |
| Timers | `components/libraries/timer/app_timer.c` | list of relative times, compare register, queue of operations | `app_timer_start`, `app_timer_stop`, RTC and SWI interrupts | a counter that wraps and goes on during all of it | a timer is called once, in its time, unless it was stopped |
| Label picture transfer | `app/main/lable_data.c`, `fs_esl_data.c`, `app/components/ble/ble_services/ble_esls/ble_esls.c` | packet buffer, `sequency`, `fs_store_point`, sticky failure flag, announced picture | data packets, control point commands, flash callback | lost answers and repeated batches, lost links, resets, failed stores, a buffer that flash still reads | a picture that is drawn is whole; what is stored has no hole and no foreign packet; a transfer ends |
| Start-up, clock, watchdog, display | `app/main/main.c`, `clock.c`, `wdt.c`, `app/drivers/ssd1608/ssd1608.c` | registered callbacks, seconds, watchdog, SPI driver, the panel's busy pin | start-up, tick, drawing | interrupts between any two steps of the start-up, two users of one driver, waits for the panel | dates are those of the calendar, the driver has one user, what hangs is reset |
| Settings and banks | `components/libraries/bootloader/dfu/nrf_dfu_settings.c`, `nrf_dfu_utils.c`, `nrf_dfu.c` | settings page, two banks | `nrf_dfu_continue`, `nrf_dfu_app_continue`, `nrf_dfu_find_cache`, settings write | a power failure anywhere | the device boots a whole application, a validated image gets installed |
| SoftDevice and bootloader activation | `nrf_dfu_utils.c:157-362`, `nrf_dfu_mbr.c` | settings, `write_offset`, `sd_size` | MBR copy and compare | power failures in a copy over itself | the settings always know how far it is |
| DFU request handler | `bootloader/bootloader/dfu_req_handling.c`, `nrf_dfu_flash.c` | command, progress, double buffer, pending counter | requests on command and data objects, post-validation | stores in the background, a settings write that waits, resumption | saved progress is in flash, only whole images are installed, an update ends |
| DFU transport | `components/libraries/bootloader/ble_dfu/nrf_ble_dfu.c` | receipt count | control point and packet writes, notifications, links | two sides that count on their own, answers that are not sent | nobody waits for an answer that does not come |
| SoftDevice event handler | `components/softdevice/common/softdevice_handler/*.c` | one event buffer, suspended flag | pull and dispatch | a nested pull overwrites the buffer | not modelled, section 7 |
| Alarms | `app/main/alarm.c` | list of alarms | | | never called |
| Serial protocol | `app/uart_protocol/*.c` | byte buffer | framing, parsing | | not built |
| BLE set-up, advertising, peer manager, board support and buttons, crypto, decoders | `app/main/bles.c`, `bsp`, `components` | | | | not modelled, section 7 |

## 2. The modules

| Module | Models | Composed with |
|---|---|---|
| `FlashService` | abstract: what the flash queue promises | |
| `FStorage` | the flash queue | implements `FlashService` |
| `FStorage_proofs` | proofs about it | |
| `EventQueue` | abstract: a bounded FIFO queue of events | |
| `AppScheduler` | the scheduler's ring | implements `EventQueue` |
| `AppScheduler_proofs` | proofs about it | |
| `RecordStore` | abstract: a set of records | |
| `Fds` | flash data storage | implements `RecordStore` |
| `Fds_proofs` | proofs about it | |
| `AppTimer` | the timers and their counter | |
| `Clock` | the calendar, as pure operators, and a reference calendar | |
| `Application` | start-up, tick, watchdog, display | extends `Clock` |
| `Application_proofs` | proofs about it | |
| `EslTransfer` | label service, packet and control point handlers, label flash store, and a central | the flash queue, as `FlashService` has it |
| `EslTransfer_proofs` | proofs about it | |
| `DfuBoot` | settings, banks and boot decision across power failures | |
| `DfuActivate` | SoftDevices and bootloaders, through the MBR | extends `DfuBoot` |
| `DfuActivate_proofs` | proofs about it and `DfuBoot` | |
| `DfuReqHandling` | the request handler in DFU mode, its flash, and a controller | |
| `DfuTransport` | the BLE transport between the two | extends `DfuReqHandling` |
| `DfuReqHandling_proofs` | proofs about both | |
| `Arithmetic` | lemmas about division, induction over a set of numbers, and the functions that loops and sums compute | |
| `MC_*` | values for TLC | |

Operators and actions have the name of the function they stand for where there
is one; `PROJECT.json` gives the lines of each. Operators called `X_Something`
directly above `X` are plausible mistakes in `X`; they are in no specification
and serve to see that the properties notice them. Every module has a type
invariant (`TypeOK`, `SystemTypeOK` in `DfuActivate`). It is proved for `FStorage`,
`AppScheduler`, `Application`, `EslTransfer`, and `DfuActivate` with `DfuBoot`; that of `DfuReqHandling`
is implied by the invariant that is proved there up to one field (section 5). For `Fds` the
proved invariant has types of its own, which hold up to the first upset: what the code
does not survive may well take an offset out of its range. For `AppTimer` it is no
run's question, and stays with the module.

**FStorage.** The statics of the file are one record `m` (ring `op`, read index
`rp`, `count`, the flags and the retry counter). `Request` is `fs_store` and
`fs_erase` with all their refusals and the start of an idle queue;
`fs_sys_event_handler` is the whole handler, the client's callback included,
which may submit another operation before the queue moves on. The SoftDevice
executes one request at a time and posts its result. Lengths are words for a
store and pages for an erase. `left` and `outcome` are history variables for the
properties. `ServiceSpec` says that the ring, read as the sequence of its
operations, implements `FlashService`.

**AppScheduler.** `Reserve` is the critical region of `app_sched_event_put` and
`Fill` what follows it; interrupts nest, so puts under way form a stack.
`Execute` and `Return` are the loop's two halves around the handler. `Wait` and
`WaitEnds` are the nested call that `nrf_dfu_wait` makes: `AppNext` is the
scheduler without them, called from a main loop only, as the application's
`main.c` does and the bootloader does while no handler waits. `Contents` is the abstraction: the entries
from start to end, with the event of a put that has reserved its entry and not
yet filled it. `QueueSpec` says that it implements `EventQueue`.

**Fds.** A page is its tag and its records in the order of their addresses;
`page_scan` and `record_find_next` walk them as the code does, up to the first erased
word. Each queued operation is a sequence of flash operations: `EventHandler` is
`fs_event_handler` with the whole step that the result leads to, `QueueStart` the
start of an idle queue by a call, and the step is named `InitStep`, `WriteStep`,
`DeleteStep` or `GcStep` after the operation. A flash operation may be refused
or time out; when the power fails it has happened or not. `InitTail` is what the
main thread still has to do in `init_execute` behind its first flash
operation, whose event may come before that. `used` counts what the bounds limit
and `upset` notes what the code does not survive; section 6 has the list.
`StoreSpec` says that the flash, read by its tags, implements
`RecordStore`: which records there are changes by operations only, never by a
collection, a power failure or an initialization.

**AppTimer.** The counter and the compare register are hardware that goes on
by itself: `Tick` may come between any two steps of the interrupts. The RTC
interrupt is split into one round per expired timer and the client's handler,
which may start and stop timers; the SWI takes deletions, expired timers, restarts and
insertions in one step, since nothing but the counter moves meanwhile,
and then reads the counter, writes the register and checks it again in three
steps between which the counter does move. `wanted` and `due` are the history of
what the clients were promised, in ticks that do not wrap.

**Clock, Application.** `Clock` is the arithmetic of `clock.c`, with the day
counter in its 16 bits, next to a calendar of its own that counts day by day.
`Application` has two contexts, the main thread and the interrupts; `at` says
where each is, and a second may pass, a tick or the end of a transfer may come
between any two steps. The panel is idle, busy or stuck; its state survives a reset of
the device, and so does the watchdog, which only its own reset stops.

**EslTransfer.** One unit of flash and of the buffer is one packet, and a
packet's content is the pair of its picture and position, which is what makes a
hole, a shift or a foreign packet visible. `on_write` is the handler of one
write, from `ble_esls.c` down to the flash queue, for each command in order:
start (0x00), end (0x01), repeat of a batch, and data packets.
The flash queue is reduced to what `FlashService` promises; `FlashWork`
reads the buffer when the store is executed, not when it is requested. The
central keeps to the protocol: it announces, sends batches, repeats a batch when
the answer says so or does not come, and ends.

**DfuBoot.** Flash is a function from pages to what they hold. Every step is one
flash operation or one stretch of code between two of them, so that a power
failure can hit each: the copy loop is split into erase, store, compare, release
of the source page and the note of progress. A failure in the middle of an
operation leaves torn pages. The reception of an image is there at the level
of pages. `StorePages` is the length of the store in the copy, which is given in
bytes where words are expected and so runs over the pages behind; that the
application is at least as long is an assumption (a shorter one would have its own
source overwritten and end in the comparison).

**DfuActivate.** The place of the SoftDevice and of the bootloader are counted in
units, of which a page has two, since a SoftDevice need not end on a page. An
activation copies the SoftDevice in parts that are no longer than the gap between source
and target, and saves `write_offset` behind each; a bootloader is copied by the
MBR at once. `COPY_SD` erases whole pages, those too that the target begins in the
middle of. The SoftDevice's own size, from which the bootloader computes
where the banks are, is in the first part: when a copy of that is cut off
(`RegionKnown` is false) the next start ends in a fault. SoftDevices have one size in
pages, since another one moves the banks; what becomes of a `COPY_BL` that is cut
off is the MBR's affair.

**DfuReqHandling.** The device's record `s` is `s_dfu_settings` in RAM, `saved`
the page in flash, `m` the module's variables, `fs` the flash queue with the
failure flag and the settings barrier. A CRC is the data it was computed over: no
data, a prefix of one image, or a mixture. The controller is the protocol's: it
selects, resumes or creates, writes, asks for the CRC, executes, and after a
lost link or a reset starts with any image.

**DfuTransport.** `notif` is the device's count of packets up to the next
receipt, `flow` the controller's own. A request is answered in the step that
handles it, or the SoftDevice does not take the notification and nobody repeats it;
the controller then waits until it gives up the link. Before the next packet it waits for
every receipt that is due by its own count. The device's numbers survive a lost
link.

## 3. The runs

Every passing run's properties have been seen to fail on a mistake in the code
they are about (`PROJECT.json`, "mutants").

| Run | Configuration | Question | States |
|---|---|---|---|
| `fstorage_app` | `FStorage_app.cfg` | Does the queue keep the promise of the flash service when it is the flash's only user? | 30 850 |
| `fstorage_shared` | `FStorage_shared.cfg` | Do its flags and its ring agree, and is it always woken, with other users, stray events and refusals? | 448 872 |
| `scheduler_app` | `AppScheduler_app.cfg` | Is the scheduler a FIFO queue with nested interrupts? | 3 281 |
| `fds_power` | `Fds_power.cfg` | Is the record store a store of records, whatever the power does? | 265 985 |
| `fds_promote` | `Fds_promote.cfg` | Also when the power fails before the swap is promoted? (violation) | 421 510 |
| `timers` | `AppTimer_ticks.cfg` | Are timers called once and in time while the counter goes on and wraps? | 4.1 million |
| `start` | `Application_start.cfg` | Do start-up, tick, watchdog and display fit together? Are dates right? | 708 |
| `esl_link` | `EslTransfer_link.cfg` | Is a picture stored and drawn whole, and does a transfer end, with lost answers, links, resets and failing flash? | 103 704 |
| `boot` | `DfuActivate_boot.cfg` | Does the device boot a whole application, and know how far an activation is, whatever the power does? | 1.25 million |
| `boot_copycrash` | `DfuBoot_copycrash.cfg` | Is a validated application installed too if the power fails in its copy? (violation) | 1 684 |
| `dfu_paced` | `DfuTransport_paced.cfg` | Is the saved progress true, and does an update end, with lost answers, links and resets? | 16 543 |
| `dfu_flood` | `DfuReqHandling_flood.cfg` | What if the flash is too slow, full or fails? | 4.9 million |

### What the properties say

- `FStorage`: `FlagsMatchQueue` (one of the two flags drives a ring that is not
  empty), `NoLostWakeup`, `AnsweredLeavesQueue`, `ProgressIsPhysical` (nothing
  is counted that is not in flash), `EveryRequestAnswered`, `ServiceSpec`;
  `ProgressInRange` (progress stays below the length, so that the test for
  equality is met) is proved.
- `AppScheduler`: `SpaceIsRoom`, `RunsOldest`, `QueueSpec`.
- `Fds`: `RecordsFound` (a search finds every record once), `NoOverlay` (a store
  goes to erased words), `SpaceHeld` (queued writes and reservations have their
  words), `AnswerTrue`, `OpenKept` (an open record stays where it is),
  `InitKnowsFlash` (no combination of pages is unknown to `fds_init`), `StoreSpec`,
  `QueueDrains`; `RecordsSurvive`, without an exception for upsets, is violated.
- `AppTimer`: `DeadlinesKept` (the list of relative times says for each timer
  when it is due), `NotLate`, `CalledInTime`.
- `Application`: `SpiHeld` (the driver has one user), `DatesRight`, `BitesOnlyHung`
  (the watchdog resets only what hangs), `HangEnds`.
- `EslTransfer`: `NoOverrun` (of the packet buffer), `StoredPrefix`,
  `EndMeansWhole`, `NoOverwrite`, `TransferCompletes`; `BufferHeld` is in no
  run, see section 6.
- `DfuBoot`, `DfuActivate`: `BootsWhole`, `ReceivingKeepsApp`,
  `ValidatedIsInstalled`, `ActivationTracked`, `BootDecides`; `FailSafe` is violated.
- `DfuReqHandling`, through `DfuTransport`: `SavedIsStored`, `ValidIsWhole`,
  `BufferHeld`, `UpdateCompletes`; by itself `PendingCounted`, `InstalledIsWhole`.

### Bounds, and why they are enough

- `fstorage_app`: three operations on a ring of two (more requests than
  places, and the indices wrap), lengths up to 3 with chunks of 2 (a full chunk,
  a shorter last one, and both), one retry (used and exhausted), two
  events waiting. `fstorage_shared` has two operations, on which the SoftDevice
  and others interfere; they are interchangeable.
- `scheduler_app`: a ring of 3 + 1 entries, two levels of interrupts (one
  within another; a third adds no new pair), two kinds of events. The proofs
  are for all sizes.
- `fds_power`: the store as it is configured, of two data pages and the swap, with pages
  that hold two records; three records written, one delete, two collections (a
  second one meets what the first has left), one power failure, and one of a
  reservation, an opening or a failure of flash (`MaxSpecials`); events interrupt
  `fds_init`. `fds_promote` has pages of two headers without data and one record
  more, so that the record behind the collection fills the page that is lost.
  The device may stop where the bounds are used up (`CHECK_DEADLOCK FALSE`).
- `timers`: one repeated timer started by the main thread and one single-shot timer
  that the main thread and the handlers start and stop; a counter of 36 values
  and intervals of 5 and 6, so that it wraps between a timer's start and its
  end, and the intervals stay in the smaller half of the counter as the code's
  comparison requires; two queued operations (the queue fills); `MaxLag` is one tick in
  which interrupts may keep each other waiting; the minimum offset of the compare
  register is 2 where the SDK has 3, the least that leaves a tick for the check
  behind the write to matter. `NotLate`'s bound, the offset and two lags, is met.
  The run ends at an upset, and
  the ticks stop when the lag is used up (`CHECK_DEADLOCK FALSE`).
- `start`: a watchdog of four seconds (30 in the code; what matters is that it
  is longer than what `Timely` takes to end in time), the days of four years
  and of the turn of 2100.
- `esl_link`: two pictures of five and four packets in batches of two, a
  region of three pages: one picture has a packet that is not full and a last
  batch that is, the other the reverse; both are longer than a page and
  the buffer. Two lost answers. With `PacedWrites` a write arrives when the queue is empty, which
  is what a central does whose packets take longer than the flash.
- `boot`: a device with an application of two pages in a region of five is offered
  a larger one that fits behind it but not behind itself; or a SoftDevice with bootloader; or a
  SoftDevice, a bootloader and both (`Offers` bounds what is offered to one
  device). One SoftDevice ends on a page and the other does not. Two power
  failures, the second of which may hit the recovery from the first.
- `dfu_paced`: a page and a buffer hold two units, an object four; images of
  five and seven units, so that one has to be received in two objects with a last
  buffer that is half full, and the other does not fit behind the factory
  image; packets that fit a buffer exactly and that straddle two; a receipt for every three
  packets, which falls into the middle of an object or on another object, or none; one lost answer, link
  or reset, at any moment.
- `dfu_flood`: a queue of three and two buffers, so that both are
  exhausted; an image of two objects of a page, the second of half a buffer; packets of a
  full buffer; any number of failing flash operations and one lost link or reset.

Deadlock is checked in every run but those of `Fds` and `AppTimer`;
`DfuReqHandling` has `Finished` for the device that has started over, and
`DfuTransport` has `KeepsWaiting` for a controller to which nothing happens, so that
one that waits for ever is an error of liveness.

## 4. Fairness

- *Flash results* (`SdComplete`, `FlashWork`, `FlashSuccess`, `FlashResult`, the
  flash steps in `Internal` of `Fds`): the
  SoftDevice completes or times out every request that it has accepted, and its
  event interrupt has a priority that nothing keeps away for ever.
- *Handlers of events* (`fs_sys_event_handler`, `on_write`, `EventHandler` and
  `InitTail`; `HandlerGoesOn` and the steps of the bootloader): the application's
  run in the event interrupt, the bootloader's in a main loop that has no other
  work; they return. A device that lost its power is switched on again
  (`PowerOn`), only so that something follows.
- *`Execute` and `Return`* of the scheduler are strongly fair: they are disabled
  while an interrupt runs, interrupts end, and between two of them the main
  thread gets time.
- *`Application`*: the processor executes, seconds pass, a pending tick is
  served, and a panel that is busy gets ready or stops answering. `Timely`
  restricts the seconds instead: start-up and a draw by a panel that answers do not take
  longer than the watchdog, or every device would be reset while it starts.
- *The central and the controller* go on with their protocol while the link
  lasts, and the controller gives up a link on which an answer does not come. They
  are not the device's code; the liveness properties say that the
  device does its part. No fairness is put on a link loss or a reset, nor is
  any needed on their absence: `TransferCompletes` and `UpdateCompletes` are
  discharged by the end of a link.
- *Success of flash operations* is not assumed: weak fairness of `FlashWork` is
  satisfied by an operation that times out instead, and in `FStorage` every result
  may be an error.
- `AppTimer` has no fairness: that a timer is called is the safety property
  `NotLate`, over the ticks of the counter.

## 5. The proofs

TLAPS checks, for every value of the constants that the modules' assumptions
allow:

| Theorem | Statement |
|---|---|
| `FStorage_proofs!QueueInvariant` and `TypeCorrect`, `FlagsCorrect`, `ProgressCorrect`, `WakeupCorrect` | `Spec => []` the inductive invariant, and `TypeOK`, `FlagsMatchQueue`, `ProgressInRange`, `NoLostWakeup` |
| `FStorage_proofs!AnsweredCorrect` | `Spec => []AnsweredLeavesQueue`, unless the SoftDevice refuses requests |
| `FStorage_proofs!OwnInvariant`, `ProgressPhysical` | `Spec => []` the stronger invariant, and `ProgressIsPhysical`, for a queue that has the flash to itself |
| `FStorage_proofs!QueueImplementsService` | `Spec => Service!Spec` for such a queue without refusals: the ring implements the flash service |
| `AppScheduler_proofs!TypeCorrect`, `SpaceCorrect` | `Spec => []TypeOK`, `Spec => []SpaceIsRoom`, with handlers that wait too |
| `AppScheduler_proofs!OldestRuns` | `AppSpec => []RunsOldest` |
| `AppScheduler_proofs!Refines` | `AppSpec => Queue!Spec`: the ring implements the FIFO queue |
| `Application_proofs!TypeCorrect`, `DriverHeld` | `Spec => []TypeOK`, `Spec => []SpiHeld` |
| `Application_proofs!OnlyHungIsBitten` | `Spec => BitesOnlyHung`, for every watchdog of four seconds or more |
| `Application_proofs!CalendarCorrect`, `DatesCorrect` | `CalendarRight`, and `Spec => []DatesRight`, for every day that a `UTCTime` reaches |
| `EslTransfer_proofs!LinkInvariant`, `TypeCorrect`, `BufferCorrect` | `Spec => []` the invariant of the link, `TypeOK` and `NoOverrun`, however fast the central writes |
| `EslTransfer_proofs!FlashInvariant`, `OverwriteNever`, `PrefixCorrect`, `ShownCorrect` | `Spec => []` the invariant of the flash, `NoOverwrite`, `StoredPrefix` and `EndMeansWhole`, for a central with `PacedWrites` |
| `DfuActivate_proofs!TypeCorrect`, `BootCorrect`, `AppKept` | `SystemSpec => []SystemTypeOK`, `[]BootsWhole` and `ReceivingKeepsApp` |
| `DfuActivate_proofs!InstalledCorrect`, `TrackingCorrect` | `SystemSpec => []ValidatedIsInstalled`, `[]ActivationTracked` |
| `DfuReqHandling_proofs!HandlerInvariant`, `PendingCorrect`, `InstalledCorrect` | `Spec => []` the inductive invariant, `PendingCounted` and `InstalledIsWhole` |
| `DfuReqHandling_proofs!PacedInvariant`, `SavedCorrect`, `ValidCorrect`, `BuffersCorrect` | `Spec => []` the invariant of a flash that keeps up, `SavedIsStored`, `ValidIsWhole`, and `Spec => BufferHeld`, under `KeepsUp` |
| `DfuReqHandling_proofs!TransportRefines` | `TransportSpec => Spec`: the invariants hold over BLE as well |
| `DfuReqHandling_proofs!TransportKept` | the three of `KeepsUp` for `TransportSpec` |
| `Fds_proofs!FdsSafe`, `FdsTypes` | `Spec => []` the inductive invariant, and its types, up to the first upset |
| `Fds_proofs!StoresFit`, `SpaceIsHeld` | `Spec => []NoOverlay`, `Spec => []SpaceHeld` |
| `Fds_proofs!OpenStays` | `Spec => []OpenKept` |
| `Fds_proofs!InitKnows`, `InitKnowsAlways` | `fds_init` knows the pages at every step from a state without upsets; `Spec => []InitKnowsFlash` when `Upsets = {}`, as in `fds_power` |

The assumptions on the constants are those of the modules, and TLC evaluates them in
every run. They say what the code leaves to its callers and its environment:
that a page holds whole packets, that a central announces batches that fit the buffer and
pictures that fit the region (`CentralAssumption`: the label checks neither), that an
application is at least as long as the store in the copy (`DfuBootAssumption`), that a SoftDevice image fills
its place up to less than a page (`DfuActivateAssumption`), and that the markers for erased, torn
or foreign content are no content of an image.

*FStorage.* The invariant is the conjunction of the four properties; none of them
is inductive without the others. That a wake-up is on its way needs to know that
the flags agree with the ring, for the handler looks at the flags; that the
flags agree needs the ring to be well formed; that progress stays in range
needs that no operation is queued twice, for a result is credited to the head.
The handler calls a client in the middle of its work, when the head is already
answered, and the client may queue new operations: `LiveFrom(q, 1)` is what the
ring satisfies at that moment, and the lemmas say that queueing keeps it, with
any number of calls, and that the advance of the queue makes it `LiveFrom(q, 0)`
again. There are assumptions only on the constants; foreign users, stray events
and refusals may be on or off.

The other three theorems of the queue name what they need. That an answered operation has left
the ring needs that the SoftDevice refuses nothing, since a refused operation is reported and stays
(section 6), but holds with foreign users; it rests on the distinctness that `ProgressInRange`
gives, for the answer of the head must not be that of an operation behind it. That progress is
physical is false with foreign users or stray events (section 6). Without them `OwnInv` strengthens the
invariant: nobody waits for a foreign request, the SoftDevice executes the head's next chunk
(`HandedOver`) or nothing, at most one event is under way, and what every operation has
left is exactly what is not counted as done - after the event that is under way, if that is a success, so
that `LeftIs` holds of the ring as `Progressed` will make it. The refinement reads the ring as a
sequence, for which queueing appends (`PendingEnqueue`), the advance takes the tail (`PendingAdvance`)
and progress changes nothing. A call maps to `Accept`, a successful chunk to `Program`, a failed one
to a stutter, and the event with the client's callback to `Complete`, in which the callback's own
request is already behind the head that leaves.

*AppScheduler.* `TypeOK` is inductive by itself; `SpaceIsRoom` follows from it by
arithmetic on the two indices, which is why it holds in the middle of a put. The
invariant for the rest, `IInv`, adds that puts under way have entries of their
own (`PutsDistinct`) that are in use (`PutsInUse`), and that at most one
handler runs, from the entry at the start, which is no put's (`OneHandler`). That
is why a fill can neither overwrite another put's event nor the entry whose
handler runs. The refinement maps the ring to `Contents`; `Reserve` appends to
it, `Fill` leaves it alone because the abstraction already counts the
reserved event, `Execute` begins, and `Return` takes the head away. The
theorem does not hold of `Spec`, where handlers wait: see section 6.

*Application.* `IInv` adds three things to the types. `OneSends` says for the two
contexts what `SpiHeld` says of a cardinality. `StartOrder` is what the order of
`main` gives: the watchdog runs before the callbacks are registered, and both
before the loop. `LastSecond` is the reason why the watchdog never bites a device that does
not hang: in its last second the tick that feeds it is pending, nothing keeps
the tick away and the callbacks are registered, so that no second passes before
it is served. It is kept because a second that leads to the last one is `Timely`, and because
a watchdog that is not started has all its seconds left, which matters for a
reset that comes between.

The calendar is proved on all 49710 days of a 32-bit count of seconds, of which `start`
takes some. `InYear` and `InMonth` are the loops of `ConvertToUTCTime`; that such functions
exist, and that they end, is `Arithmetic!Loop`, and that the sums of the way back exist is
`Arithmetic!Sums`, both from an induction over a set of numbers. `YearFound` and `MonthFound`
say of each loop what it finds for a day and for the day after it, so that a date
goes on in one of three ways (`DateNext`), which are those of `DayAfter`. The weekday follows because
Zeller's sum grows by one, but for whole weeks, in each of the three.

*EslTransfer.* The proof has two layers. `LinkInv` is about the protocol: at each point of the
central's work it says which writes and notifications can be on their way, and how
the central's position, the label's position in its batch and the store point fit together
(`Silent`, `Starting`, `Sending`, `Ending`, `Done`). The protocol has one command or one stretch of packets
under way, never both, but an answer or a whole link may be lost at any of them, after
which the central repeats a batch that the label may have stored already; that is why the
invariant distinguishes a batch that is being sent from one that waits for its answer or is
about to be repeated. It gives `NoOverrun` without any assumption on the central's speed.
`FlashInv` adds the contents: what is below the store point is in flash or in the queue with the right
packets, what is above is erased once the region's erase is done, and a failure is sticky. It needs
`PacedWrites` - a write arrives only when the flash queue is empty, so that the queue holds at most one operation -
since the store reads the buffer when it is executed; section 6 says what happens without it.

*DfuActivate and DfuBoot.* `BaseInv` has the types and the geometry: which sizes and banks a
record may name, where the copy stands, how far a reception is, and which part of a SoftDevice an activation is at.
`BootsWhole` then only needs that the check before a start is still true when the application
runs. `ValidatedIsInstalled` needs to know, for each stage, where the promised application is: in bank
0, in bank 1 and waiting to be copied, or on the way with each page in place on one side of the
copy (`Moving`). The store in the copy runs over the pages behind it, so the step from one page to
the next erases what the last store overran; that the page counted as copied is still whole
is what the comparison is for. `ActivationTracked` relates the SoftDevice's place to `write_offset`
wherever the power fails, by the parts that were copied, compared and noted. Induction over pages
goes through the least page for which a claim fails (`Arithmetic!Induction`), as the provers have no
induction rule of their own.

*DfuReqHandling.* The handler's operators take a device and return the next one, so `DeviceOK`
is a predicate of a device, with one lemma for each operator; `ControllerOK` says what the
device is ready for when the controller makes its next request, and `WaitOK` what post-validation waits
for. The heart is `StoresWhole`: settings that call an image valid wait in the queue with no operation on
the image in front of them, because they are queued only when no such operation is pending,
and nothing that follows can change the image before they are stored. Nothing is assumed of the packets'
pace or of the flash: overrun buffers and failed operations make an image that is not whole,
which the CRC finds. `TransportRefines` maps the device of the BLE transport, with its
own counters hidden, to the handler. The `TypeOK` of the module is left to TLC: the size of
an image that the request handler refused stays in the model's RAM and is only bounded by the images' sizes there.

Three properties of the handler need a flash that keeps up (`KeepsUp`): the controller is
paced, no flash operation fails, there are as many buffers as places in the queue
(`FS_QUEUE_SIZE` and `FLASH_BUFFER_CHUNK_COUNT` are both 4), and the application in the device
fits its region. Without the first two they are false, which is section 6 and the reason for
`dfu_flood`; `dfu_paced` checks them in this setting. `PacedInv` says of each unit of flash
what the operations in the queue make of it: `Clean(f, q, n, x)` when it is erased before the
n-th operation comes to it, `Holds(f, q, b, n, x, v)` when it holds content v by then. From
these it is said that each store finds its place erased (`WritesTrue`), that settings which wait in the
queue are true of the flash at the moment they are stored (`SettingsTrue`), that the settings
page is true now (`PageTrue`) and stays true until it is erased, for no operation in front of
the erase touches what it claims (`PageKept`), that the operations in the queue read
buffers that lie behind the one that is filled next (`BuffersBehind`), and, while an object is received, that
what it has got so far is in flash, in the queue or in the buffer (`Receiving`). A reset takes the
queue away and leaves the page, which is why `PageTrue` is not a consequence of the rest.

*Fds.* All of it holds up to the first upset (section 6) and is stated as `Safe`: without an upset,
`IInv`. Nothing else is assumed: events may preempt `fds_init`, flash operations may be refused
or time out, the power may fail at any step, and the numbers and sizes of pages, queue, records and
calls are arbitrary. `NoOverlay` says that a store's offset is where the records in flash
end, and that depends on everything else. `Offsets` has the write offset of each page, which is behind
its records, or at the start of the last one while that one is being written (`Wrote`), or
of no meaning while the page is erased in a collection (`Swapped`); `SwapOffsets` and `Copying` have the swap's, at each step
of a collection, also of one that failed and is to be resumed, when a copy may or may not have been
done. They need to know which operation is at which step and where its flash operation is
(`Turns`, `Behind`, `ReadyControl`, `ReadyFlash`), and that no other page is the swap and none is erased
(`ReadyTags`). The copy has room because the records of the swap are those of the collected page, moved
down: the swap's offset is not behind that of the next record (`ChainOrder`).

`ReadyTags` must hold when `fds_init` ends. `InitPhase` is what is true before, one part for each
kind of first step: what the tags are, and which of them are still under way, when `tail`, the
assignments behind the main thread's flash operation, is made before or behind its event and
the steps that this event leads to. What `fds_init` begins with comes from the scan. `ScanOK` is its
loop invariant, by induction over the pages looked at (`Arithmetic!Iteration`, as `Known` is a
recursive function, which has to be shown to exist): the pages in the array are those below with
their offsets, the swap is the one tagged so or the first erased one, `seen` are the kinds there are. From `OneSwap` and
`NotAllData`, which are all that a power failure leaves of the tags, follows that
`InitOption` knows the combination and that it fits the array (`Provided`), which is `InitKnows`.

`SpaceHeld` needs sums over the queue: that queueing adds the words of an operation to its page, that
the advance of the queue takes them off, and that a step of the operation at the head changes none
of the others' (the lemmas about `Total`, again by induction over the length). The
offset and the reservation of a page change together, with the words of the head (`SpaceDone`), and a
collection keeps `woff + rsv` below the page's size because the offset it leaves is not above the old one.

`OpenKept` follows from two more facts, `ReadSafe`, which are inductive next to `Safe`. A record is opened behind
`fds_init` only, with no assignments left to the main thread, on a page that counts it
(`Reading`), and `Closed`, a part of `IInv`, says that a page with open records is never the one being
erased, so `gc_page_erase` discards the swap instead. `Headed` is about the writes to that page: the ID of
a record is written when there is nothing of it but its header, and offsets on a page increase
(`ChainOrder`), so it is not written into the open record, which is complete.

The proof corrected the model in one place. The history variable missed a case: a record begun on
a page whose collection has failed, by a write that reached the flash when the power failed. `PowerFail`
notes it now as `FlashDone` does.

Only model-checked: all liveness (`EveryRequestAnswered`, the fair halves of
`ServiceSpec` and `QueueSpec`, `QueueDrains`, `HangEnds`, `TransferCompletes`,
`BootDecides`, `UpdateCompletes`), which is out of the prover's reach;
of `Fds`, what speaks of the contents of records: `RecordsFound`, `AnswerTrue` and
`StoreSpec`; and `AppTimer` (`DeadlinesKept`, `NotLate`), whose list of timers is
a fold over delta times.

## 6. Where the code and its text disagree

Two disagreements have a run of their own:

- `boot_copycrash`: `nrf_dfu_app_continue` resumes a copy with the target moved on
  by `write_offset` and the source at the start of bank 1, whose first pages the
  copy has already erased (`nrf_dfu_utils.c:371`), although the copy is
  described as fail-safe (`nrf_dfu_utils.h:36`).
- `fds_promote`: the power fails between the erase of a collected page and the
  promotion of the swap, and the erased page lies before the swap. `pages_init` takes
  it for the swap at first and, when it meets the real one, does not note
  which page of the array it is (`fds.c:695`): the swap is promoted over the
  data page, whose records are not found any more.

Others were met while modelling. The specifications follow the code, and where a
property excludes the case, a named constant or a history variable does so. In the
flash queue, the scheduler and the label:

- `fstorage.c:150`: when the SoftDevice refuses a chunk in the middle of a
  request, the client gets an error event and the request stays at the head, to
  be tried and answered again (`SdRejects`; `AnsweredLeavesQueue` is checked
  without it).
- `fstorage.c:496`: the result of another module's flash operation is taken for
  the queue's own while a request is being processed (`ForeignUsers`;
  `ProgressIsPhysical` is checked without them).
- `app_scheduler.c:240` and `:255` hold the start index back until the handler has
  returned; a handler that calls `app_sched_execute` (`nrf_dfu.c:89`) lets the
  nested call take its own entry once more and moves the index past the end.
  `RunsOldest` fails on `Spec` with `Depth = 2`.
- `fstorage.h:174` requires data to be kept until the operation's event;
  `lable_data.c:56` fills the buffer with the next batch at once. With a
  central that is faster than flash (`PacedWrites = FALSE`, nothing lost, no link
  losses, resets or failures), `BufferHeld` of `EslTransfer` fails: a batch is
  stored with packets of the next.
- `lable_data.c:81`: the verification of the picture against its CRC is a stub that
  always succeeds; `EndMeansWhole` is checked up to the first failure of flash,
  where counting packets is enough.
- `lable_data.c:59`: the last batch is recognised by its index being `length / 16`,
  which a picture of whole packets never reaches; only when its batches divide its
  packets is its last batch answered. The pictures of `esl_link` respect this.
- `fs_esl_data.c:52`: a success that was queued behind a failure clears the sticky
  failure flag before anybody has looked at it; `NoOverwrite` holds nonetheless,
  `StoredPrefix` and `EndMeansWhole` are checked up to the first failure.
- `main.c:113`: the label accepts control points before `esl_flash_init(true)` has
  been called; until then the stores and erases that they ask for are skipped without
  a word. `EslTransfer` begins behind the start-up.

In the record store, what it does not survive (`upset` in `Fds`; the properties hold
up to it):

| Upset | What happens |
|---|---|
| `promoted` | the swap is promoted over a data page (`fds_promote`) |
| `hole` | the first store of a record fails: the page's offset passes words that stay erased, at which every later walk ends (`fds.c:1204`) |
| `ranPast` | the index of the chunk queue is moved on by a refused write without wrapping (`fds.c:586`), and the next write takes chunks from behind the array |
| `gcSkipped`, `gcStuck` | a collection that was queued before another one failed takes the step that failed for done; one that fails while it discards the swap leaves a state for which there is no step, and every later `fds_gc` is answered with an error (`fds.c:1333`) |
| `gcStale` | between a failed collection and its resumption a write or delete changes the page that is being collected: the swap has not got the record, or still has it |
| `staleToken` | a delete of a file that failed leaves its place in a static token, where the next one starts (`fds.c:820`) |
| `lateOpen`, `openLeaked` | a record is opened when the erase of its page is already queued (`fds.h:605` promises otherwise), or closed when it cannot be found any more, so that its page is never collected again (`fds.c:954`) |
| `reservation` | a reserved write that finds the queue full gives the space back and keeps the token; a token of zeros is cancelled by the peer manager (`fds.c:1842`, `peer_data_storage.c`) |
| `unknown` | more pages than the array has, or a combination that is not known: `InitKnowsFlash` shows it does not come about, and `InitKnows` proves it |

An update of a record that is not found returns at `fds.c:1224` without giving its
reserved words back; no property of the model sees this.

In the timers, three calls after which `AppTimer` stops (`upset`): a stop behind a
start that is still queued, which does not cancel it; a stop that finds the queue
full and has already cleared `is_running`; and a start behind the stop of the only
timer, for which the compare register is computed from the counter before it is
cleared. A repeated timer that the main thread stops may be restarted by an
expiry that is being handled; the program's only one, the clock's, is never
stopped.

In the bootloader:

- `nrf_dfu_settings.c:162`: there is one settings page, erased before it is stored.
  A power failure in between loses it; the device then starts in DFU mode and the
  image that was validated is not installed (`hurt`; with a SoftDevice half copied,
  `damaged`).
- `nrf_dfu_utils.c:173`: a SoftDevice whose size is not whole pages is resumed in
  the middle of a page, and `COPY_SD` erases the half before it (`damaged`).
- `nrf_dfu_types.h:126`: the region's start is read out of the SoftDevice that is being
  copied; a power failure in its first part leaves a device that starts into a fault
  (`RegionLost`).
- `nrf_dfu_settings.c:104`: only a successful store releases the settings barrier.
  After a failed one every write is refused as busy, and the wait in
  post-validation does not end (`FlashFails`; `UpdateCompletes` is checked
  without it).
- `dfu_req_handling.c:817`: no data buffer is checked for a store still pending
  before it is filled again. A controller faster than flash overruns it; the
  hash in post-validation rejects the image (`Paced`).
- `dfu_req_handling.c:929`: an execute request for a data object before any init
  command passes the size comparison with zeros. The controller of the model does
  not send one.
- `nrf_ble_dfu.c:544`: a receipt behind a packet that was refused carries zeros
  for offset and CRC. The model's controller asks for the CRC instead.

## 7. What is not modelled

`PROJECT.json` lists every component with its reason. In short:

- *Requests that are handled inside `nrf_dfu_wait`*, and the SoftDevice event
  handler they go through. The controller sends one request at a time and a new
  link takes longer than the operations that are waited for; only behind a failed store
  of the settings does the wait outlast a link, and then no request can change
  flash for good, since every later write of the settings is refused.
- *The content of an init command*: signature, versions and types of images are
  whether it is accepted and what it announces. The settings page is modelled
  without the versions.
- *Never called, or not built*: alarms, the buttonless DFU flash layer but for
  its initialisation, the serial packet framer, sensor and OLED drivers.
- *Tables and calls without alternatives*: the bootloader's start-up, BLE set-up, GATT
  tables, advertising data, board support and buttons. The peer manager is there
  as the client of `fds`.
- *Hardware*: the display's registers, the bytes that go to the panel, flash timing.
- *Third-party code*: the rest of the SDK, cryptography, generated decoders; a
  CRC or hash is the data it was computed over.

Within the modelled components: `FStorage` leaves out the assignment of address
ranges to clients at initialisation; `EslTransfer` has the label as the only
client of the flash queue, although the record store shares it; event
data travel with their handler in `AppScheduler`; `Fds` leaves out the calls that
keep no state; in `DfuReqHandling`, one request is handled at a time.

Known and covered by no property: the single event buffer of the SoftDevice
handler, which a pull nested in `nrf_dfu_wait` fills again
(`softdevice_handler.c:179`); the CRC of the settings, which leaves out the init
command that is stored behind it (`nrf_dfu_settings.c:116`).

## 8. The plan

Done, in this order: the flash queue and its contract, with proofs; the picture
transfer on top of it; the scheduler and its contract, with proofs; banks and
settings across power failures; the request handler; the record store and its
contract; clock, watchdog, start-up and display; the timers; activation through the
MBR; the transport.

Proved since: the request handler and its transport, with what holds when flash keeps up, activation and boot, the picture
transfer, the rest of the flash queue, the calendar, and the record store's offsets, space, open records and
initialization.

Next, proofs, most important first:

1. `Fds`: `RecordsFound`, for which `IInv` has to follow the records of a
   collection by their IDs, and with it `AnswerTrue` and `StoreSpec`.
2. `AppTimer`: `DeadlinesKept`, for every size of the counter.
