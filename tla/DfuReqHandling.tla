--------------------------- MODULE DfuReqHandling ---------------------------
(***************************************************************************)
(* The request handler of the bootloader (dfu_req_handling.c) in DFU mode, *)
(* with the asynchronous flash it writes to (nrf_dfu_flash.c over fstorage *)
(* and nrf_dfu_settings.c), the controller that sends an image over a link *)
(* that may be lost, and resets of the device at any time.  Data are       *)
(* counted in units, of which a flash buffer holds Chunk.                  *)
(*                                                                         *)
(* Requests that arrive while a request waits in nrf_dfu_wait are left     *)
(* out: the controller sends one request at a time, and a new link takes   *)
(* longer to set up than the flash operations that are waited for.         *)
(***************************************************************************)
EXTENDS Integers, Sequences, FiniteSets

CONSTANTS
    Images, Size,   \* Size[i]: the units of image i
    Factory,        \* the image installed at the start
    Region,         \* units between the SoftDevice and the reserved data
    PageUnits,      \* CODE_PAGE_SIZE
    Chunk,          \* FLASH_BUFFER_CHUNK_LENGTH
    Buffers,        \* FLASH_BUFFER_CHUNK_COUNT
    MaxObject,      \* DATA_OBJECT_MAX_SIZE
    CommandUnits,   \* the units of an init command
    Packets,        \* the units that a packet may carry
    QueueSize,      \* FS_QUEUE_SIZE
    NoImage, Mixed, \* no image; data that are no image's
    Erased, Torn,   \* content of flash
    NoSettings,     \* a settings page whose CRC does not match
    Paced,          \* TRUE: the flash keeps up with the controller
    FlashFails,     \* TRUE: a flash operation may fail for good
    MaxBreaks       \* bound on link losses and resets

ASSUME DfuReqHandlingAssumption ==
    /\ Size \in [Images -> Nat \ {0}]
    /\ Factory \in Images /\ {NoImage, Mixed} \cap Images = {}
    /\ {Region, PageUnits, Chunk, Buffers, MaxObject, CommandUnits} \subseteq Nat \ {0}
    /\ Packets \subseteq 1 .. Chunk
    /\ QueueSize \in Nat /\ QueueSize >= 2 /\ MaxBreaks \in Nat

VARIABLES
    flash,   \* the application region, by unit
    saved,   \* the settings page
    s,       \* s_dfu_settings
    m,       \* the module's variables in RAM
    fs,      \* the flash queue, the failure flag and the settings barrier
    pc,      \* where the handler waits
    ctl,     \* the controller: its image, next request and position
    breaks   \* history: link losses and resets so far

vars == <<flash, saved, s, m, fs, pc, ctl, breaks>>

Min2(a, b) == IF a < b THEN a ELSE b

AlignToPage(n) == ((n + PageUnits - 1) \div PageUnits) * PageUnits

NoBank == [code |-> "INVALID", crc |-> NoImage, size |-> 0]

NoCommand == [size |-> 0, offset |-> 0, image |-> NoImage]

\* A crc stands for the data it was computed over: no data, the units of an
\* image from the first on, or anything else.
NoProgress == [object |-> 0, offset |-> 0, last |-> 0, crc |-> NoImage, crc_last |-> NoImage]

Zero == [layout |-> "DUAL", current |-> 0, bank0 |-> NoBank, bank1 |-> NoBank,
         command |-> NoCommand, progress |-> NoProgress, write_offset |-> 0]

FreshRam == [valid |-> FALSE, size_req |-> 0, start |-> 0, packet |-> NoImage,
             pos |-> 0, cur |-> 0, pending |-> 0,
             buf |-> [b \in 0 .. Buffers - 1 |-> [k \in 0 .. Chunk - 1 |-> Erased]]]

FreshFs == [queue |-> <<>>, failure |-> FALSE, barrier |-> FALSE, reset |-> FALSE]

NoLink == [image |-> NoImage, step |-> "off", pos |-> 0]

\* The device while it handles a request.
Device == [s |-> s, m |-> m, fs |-> fs]

-----------------------------------------------------------------------------
(* Flash: nrf_dfu_flash_store and nrf_dfu_flash_erase, the settings.        *)

Accepts(f) == ~f.failure /\ Len(f.queue) < QueueSize

Queued(f, op) == [f EXCEPT !.queue = Append(@, op)]

\* nrf_dfu_settings_write: refused while an earlier write is under way.  When
\* only the erase finds room, it stays queued without the store.
nrf_dfu_settings_write(d, reset) ==
    LET erased == Queued([d.fs EXCEPT !.reset = reset], [op |-> "settingsErase"])
        stored == Queued(erased, [op |-> "settingsStore", content |-> d.s])
    IN  CASE d.fs.barrier -> d.fs
          [] ~d.fs.barrier /\ ~Accepts(d.fs) -> [d.fs EXCEPT !.reset = reset]
          [] ~d.fs.barrier /\ Accepts(d.fs) /\ ~Accepts(erased) -> erased
          [] OTHER -> [stored EXCEPT !.barrier = TRUE]

\* NRF_SUCCESS
SettingsQueued(d) ==
    /\ ~d.fs.barrier
    /\ nrf_dfu_settings_write(d, FALSE).barrier

-----------------------------------------------------------------------------
(* Object creation and data.                                               *)

\* Slip: the index of the current buffer does not wrap.
FLASH_BUFFER_SWAP_NoMask(x) == [x EXCEPT !.cur = @ + 1, !.pos = 0]

FLASH_BUFFER_SWAP(x) == [x EXCEPT !.cur = (@ + 1) % Buffers, !.pos = 0]

\* Slip: the object goes on in the buffer that is being stored.
StoreBuffer_SameBuffer(d) ==
    IF Accepts(d.fs)
    THEN [s |-> [d.s EXCEPT !.write_offset = @ + d.m.pos],
          m |-> [d.m EXCEPT !.pending = @ + 1, !.pos = 0],
          fs |-> Queued(d.fs, [op |-> "store", at |-> d.m.start + d.s.write_offset,
                               buf |-> d.m.cur, len |-> d.m.pos])]
    ELSE [s |-> [d.s EXCEPT !.progress.crc = d.s.progress.crc_last,
                            !.progress.offset = d.s.progress.last],
          m |-> [d.m EXCEPT !.pos = 0],
          fs |-> d.fs]

\* Slip: the operation is counted even if it is refused.
StoreBuffer_CountsRefused(d) ==
    IF Accepts(d.fs)
    THEN [s |-> [d.s EXCEPT !.write_offset = @ + d.m.pos],
          m |-> FLASH_BUFFER_SWAP([d.m EXCEPT !.pending = @ + 1]),
          fs |-> Queued(d.fs, [op |-> "store", at |-> d.m.start + d.s.write_offset,
                               buf |-> d.m.cur, len |-> d.m.pos])]
    ELSE [s |-> [d.s EXCEPT !.progress.crc = d.s.progress.crc_last,
                            !.progress.offset = d.s.progress.last],
          m |-> FLASH_BUFFER_SWAP([d.m EXCEPT !.pending = @ + 1]),
          fs |-> d.fs]

\* The current buffer is stored; a refusal reverts the progress of the object.
\* Either way the next buffer is taken.
StoreBuffer(d) ==
    IF Accepts(d.fs)
    THEN [s |-> [d.s EXCEPT !.write_offset = @ + d.m.pos],
          m |-> FLASH_BUFFER_SWAP([d.m EXCEPT !.pending = @ + 1]),
          fs |-> Queued(d.fs, [op |-> "store", at |-> d.m.start + d.s.write_offset,
                               buf |-> d.m.cur, len |-> d.m.pos])]
    ELSE [s |-> [d.s EXCEPT !.progress.crc = d.s.progress.crc_last,
                            !.progress.offset = d.s.progress.last],
          m |-> FLASH_BUFFER_SWAP(d.m),
          fs |-> d.fs]

Fill(d, data) ==
    [d EXCEPT !.m.buf[d.m.cur] =
                  [k \in 0 .. Chunk - 1 |->
                      IF k \in d.m.pos .. d.m.pos + Len(data) - 1
                      THEN data[k - d.m.pos + 1] ELSE @[k]],
              !.m.pos = @ + Len(data)]

\* crc32_compute, continued over data
Crc(p, data) ==
    LET i == data[1][1]
    IN  IF /\ p.offset = 0 \/ p.crc = i
           /\ \A k \in DOMAIN data : data[k] = <<i, p.offset + k - 1>>
        THEN i ELSE Mixed

Received(d, data) ==
    [d EXCEPT !.s.progress.crc = Crc(d.s.progress, data),
              !.s.progress.offset = @ + Len(data)]

\* The data and what they complete: a full buffer is stored and the rest goes
\* to the next one.
Buffered(d, data) ==
    LET room == Chunk - d.m.pos
    IN  IF Len(data) < room
        THEN Fill(d, data)
        ELSE Fill(StoreBuffer(Fill(d, SubSeq(data, 1, room))),
                  SubSeq(data, room + 1, Len(data)))

\* Slip: the last buffer is stored only when the object is overrun.
ObjectEnds_Strict(d) ==
    /\ d.m.pos # 0
    /\ d.s.write_offset - d.s.progress.last + d.m.pos > d.s.progress.object

\* "End of an object and there is still data in the write buffer."
ObjectEnds(d) ==
    /\ d.m.pos # 0
    /\ d.s.write_offset - d.s.progress.last + d.m.pos >= d.s.progress.object

WriteAllowed(d, data) ==
    /\ d.m.valid
    /\ Len(data) <= Chunk
    /\ Len(data) + d.s.progress.offset - d.s.progress.last <= d.s.progress.object

\* NRF_DFU_OBJECT_OP_WRITE of a data object.
DataWrite(d, data) ==
    IF WriteAllowed(d, data)
    THEN LET b == Buffered(Received(d, data), data)
         IN  IF ObjectEnds(b) THEN StoreBuffer(b) ELSE b
    ELSE d

CreateAllowed(d, size) ==
    /\ size # 0 /\ size <= MaxObject
    /\ size % PageUnits = 0 \/ d.s.progress.last + size = d.m.size_req
    /\ d.m.valid
    /\ d.s.progress.last + size <= d.m.size_req

\* NRF_DFU_OBJECT_OP_CREATE of a data object: back to the end of the last
\* object, and the pages erased.
DataCreate(d, size) ==
    LET p == d.s.progress
        new == [s |-> [d.s EXCEPT !.progress = [p EXCEPT !.crc = p.crc_last, !.object = size,
                                                         !.offset = p.last],
                                  !.write_offset = p.last],
                m |-> FLASH_BUFFER_SWAP(d.m),
                fs |-> d.fs]
    IN  IF ~CreateAllowed(d, size) THEN d
        ELSE IF ~Accepts(d.fs) THEN new
        ELSE [new EXCEPT !.m.pending = @ + 1,
                         !.fs = Queued(@, [op |-> "erase", at |-> d.m.start + p.last,
                                           len |-> AlignToPage(size)])]

DataCreated(d, size) == CreateAllowed(d, size) /\ Accepts(d.fs)

ExecuteAllowed(d) == d.s.progress.object = d.s.progress.offset - d.s.progress.last

\* The object is accepted and the progress saved, if the settings can be.
ObjectDone(d) ==
    LET new == [d EXCEPT !.s.progress.object = 0,
                         !.s.progress.last = d.s.progress.offset,
                         !.s.progress.crc_last = d.s.progress.crc]
    IN  [new EXCEPT !.fs = nrf_dfu_settings_write(new, FALSE)]

-----------------------------------------------------------------------------
(* The init command.                                                       *)

\* Slip: the bank that is written over is still marked as valid.
nrf_dfu_find_cache_KeepsCode(r, size) ==
    IF r.bank0.code = "VALID_APP" /\ size <= Region - AlignToPage(r.bank0.size)
    THEN [at |-> AlignToPage(r.bank0.size),
          settings |-> [r EXCEPT !.layout = "DUAL", !.current = 1,
                                 !.bank1 = [NoBank EXCEPT !.size = size]]]
    ELSE [at |-> 0,
          settings |-> [r EXCEPT !.layout = IF r.bank0.code = "VALID_APP"
                                            THEN "SINGLE" ELSE "DUAL",
                                 !.current = 0,
                                 !.bank0.size = size]]

\* Behind a valid application when there is room, over it when there is not.
nrf_dfu_find_cache(r, size) ==
    IF r.bank0.code = "VALID_APP" /\ size <= Region - AlignToPage(r.bank0.size)
    THEN [at |-> AlignToPage(r.bank0.size),
          settings |-> [r EXCEPT !.layout = "DUAL", !.current = 1,
                                 !.bank1 = [NoBank EXCEPT !.size = size]]]
    ELSE [at |-> 0,
          settings |-> [r EXCEPT !.layout = IF r.bank0.code = "VALID_APP"
                                            THEN "SINGLE" ELSE "DUAL",
                                 !.current = 0,
                                 !.bank0 = [NoBank EXCEPT !.size = size]]]

\* NRF_DFU_OBJECT_OP_CREATE of a command object.
CommandCreate(d) ==
    [d EXCEPT !.m.valid = FALSE,
              !.s.progress = NoProgress,
              !.s.write_offset = 0,
              !.s.command = [@ EXCEPT !.size = CommandUnits, !.offset = 0]]

\* NRF_DFU_OBJECT_OP_WRITE of one unit of the command of image i.
CommandWrite(d, i) ==
    LET c == d.s.command
    IN  IF c.offset + 1 > c.size THEN d
        ELSE [d EXCEPT !.s.command = [c EXCEPT !.offset = @ + 1,
                                               !.image = IF c.offset = 0 \/ @ = i
                                                         THEN i ELSE NoImage]]

\* dfu_decode_commmand
Decoded(c) == IF c.size = CommandUnits THEN c.image ELSE NoImage

CommandComplete(d) == d.s.command.offset = d.s.command.size

CommandValid(c) == Decoded(c) \in Images /\ Size[Decoded(c)] <= Region

\* NRF_DFU_OBJECT_OP_EXECUTE of a command object: the place of the image is
\* chosen and the command saved, if the settings can be.  The size asked for
\* is taken over before anything can refuse it.
CommandExecute(d) ==
    LET i == Decoded(d.s.command)
        c == nrf_dfu_find_cache(d.s, Size[i])
        decoded == [d.m EXCEPT !.packet = i, !.size_req = IF i \in Images THEN Size[i] ELSE @]
        new == [d EXCEPT !.s = c.settings,
                         !.m = [decoded EXCEPT !.valid = TRUE, !.start = c.at]]
    IN  IF ~CommandComplete(d) \/ d.m.valid THEN d
        ELSE IF ~CommandValid(d.s.command) THEN [d EXCEPT !.m = decoded]
        ELSE [new EXCEPT !.fs = nrf_dfu_settings_write(new, FALSE)]

\* NRF_DFU_RES_CODE_SUCCESS
CommandExecuted(d) ==
    CommandComplete(d) /\ (d.m.valid \/ CommandValid(d.s.command))

-----------------------------------------------------------------------------
(* The end of the image.                                                   *)

WholeAt(i, at) == \A k \in 0 .. Size[i] - 1 : flash[at + k] = <<i, k>>

HashMatches(d) ==
    d.m.packet \in Images /\ d.m.size_req = Size[d.m.packet] /\ WholeAt(d.m.packet, d.m.start)

\* Slip: what was received is taken for what was stored.
PostValidated_NoHash(d) ==
    LET bank == [code |-> "VALID_APP", crc |-> d.s.progress.crc, size |-> d.m.size_req]
    IN  [d EXCEPT !.s.bank0 = IF d.s.current = 0 THEN bank ELSE @,
                  !.s.bank1 = IF d.s.current = 1 THEN bank ELSE @,
                  !.s.progress = NoProgress, !.s.command = NoCommand, !.s.write_offset = 0]

\* nrf_dfu_postvalidate, up to the settings: the hash of the flash decides.
PostValidated(d) ==
    LET bank == IF HashMatches(d)
                THEN [code |-> "VALID_APP", crc |-> d.s.progress.crc, size |-> d.m.size_req]
                ELSE NoBank
    IN  [d EXCEPT !.s.bank0 = IF d.s.current = 0 THEN bank ELSE @,
                  !.s.bank1 = IF d.s.current = 1 THEN bank ELSE @,
                  !.s.progress = NoProgress, !.s.command = NoCommand, !.s.write_offset = 0]

Becomes(d) == \E new \in {d} : s' = new.s /\ m' = new.m /\ fs' = new.fs

\* The settings are written, with a reset to follow, or their turn waited for.
SaveAndReset(d) ==
    /\ Becomes([d EXCEPT !.fs = nrf_dfu_settings_write(d, TRUE)])
    /\ pc' = IF SettingsQueued(d) THEN "idle" ELSE "waitSettings"

\* while (m_flash_operations_pending) nrf_dfu_wait();
PendingDone ==
    /\ pc = "waitPending" /\ m.pending = 0
    /\ SaveAndReset(PostValidated(Device))
    /\ UNCHANGED <<flash, saved, ctl, breaks>>

\* while (nrf_dfu_settings_write(on_dfu_complete) == NRF_ERROR_BUSY) nrf_dfu_wait();
SettingsRetry ==
    /\ pc = "waitSettings"
    /\ SaveAndReset(Device)
    /\ UNCHANGED <<flash, saved, ctl, breaks>>

-----------------------------------------------------------------------------
(* The controller.  It has one image, asks the device how far it got, and  *)
(* sends one request at a time.                                            *)

\* The flash is fast enough for what the controller sends.
Room(n) == Paced => Len(fs.queue) <= n

Requests(step) == pc = "idle" /\ ctl.step = step

NextStep(step) == ctl' = [ctl EXCEPT !.step = step]

Connect ==
    /\ ctl.step = "off" /\ pc = "idle"
    /\ \E i \in Images : ctl' = [image |-> i, step |-> "select", pos |-> 0]
    /\ UNCHANGED <<flash, saved, s, m, fs, pc, breaks>>

\* SELECT of the command object: what is there is used if it is the right one.
SelectCommand ==
    /\ Requests("select")
    /\ NextStep(IF s.command = [size |-> CommandUnits, offset |-> CommandUnits, image |-> ctl.image]
             THEN "initExecute" ELSE "initCreate")
    /\ UNCHANGED <<flash, saved, s, m, fs, pc, breaks>>

SendCommandCreate ==
    /\ Requests("initCreate")
    /\ Becomes(CommandCreate(Device))
    /\ NextStep("initWrite")
    /\ UNCHANGED <<flash, saved, pc, breaks>>

SendCommandWrite ==
    /\ Requests("initWrite")
    /\ LET d == CommandWrite(Device, ctl.image)
       IN  /\ Becomes(d)
           /\ NextStep(IF d.s.command.offset = CommandUnits THEN "initExecute" ELSE "initWrite")
    /\ UNCHANGED <<flash, saved, pc, breaks>>

SendCommandExecute ==
    /\ Requests("initExecute") /\ Room(0)
    /\ Becomes(CommandExecute(Device))
    /\ ctl' = IF CommandExecuted(Device) THEN [ctl EXCEPT !.step = "resume"] ELSE NoLink
    /\ UNCHANGED <<flash, saved, pc, breaks>>

\* SELECT of the data object.  At the end of an object it is executed, in
\* case the answer was lost.
SelectData ==
    /\ Requests("resume")
    /\ LET p == s.progress
           at == p.offset % MaxObject = 0 \/ p.offset = Size[ctl.image]
       IN  ctl' = [ctl EXCEPT !.pos = p.offset,
                              !.step = IF p.offset = 0 \/ p.crc # ctl.image THEN "create"
                                       ELSE IF at THEN "execute" ELSE "write"]
    /\ UNCHANGED <<flash, saved, s, m, fs, pc, breaks>>

ObjectSize == Min2(MaxObject, Size[ctl.image] - s.progress.last)

SendDataCreate ==
    /\ Requests("create") /\ Room(QueueSize - 2)
    /\ Becomes(DataCreate(Device, ObjectSize))
    /\ ctl' = [ctl EXCEPT !.pos = s.progress.last,
                          !.step = IF DataCreated(Device, ObjectSize) THEN "write" ELSE "create"]
    /\ UNCHANGED <<flash, saved, pc, breaks>>

ObjectEnd(pos) == Min2(((pos \div MaxObject) + 1) * MaxObject, Size[ctl.image])

\* A packet, which gets no answer.
SendDataWrite ==
    /\ Requests("write") /\ Room(QueueSize - 2)
    /\ \E n \in {Min2(p, ObjectEnd(ctl.pos) - ctl.pos) : p \in Packets} :
          /\ Becomes(DataWrite(Device, [k \in 1 .. n |-> <<ctl.image, ctl.pos + k - 1>>]))
          /\ ctl' = [ctl EXCEPT !.pos = @ + n,
                                !.step = IF ctl.pos + n = ObjectEnd(ctl.pos)
                                         THEN "crc" ELSE "write"]
    /\ UNCHANGED <<flash, saved, pc, breaks>>

\* NRF_DFU_OBJECT_OP_CRC: the object is sent again if anything is missing.
AskCrc ==
    /\ Requests("crc")
    /\ NextStep(IF s.progress.offset = ctl.pos /\ s.progress.crc = ctl.image
             THEN "execute" ELSE "create")
    /\ UNCHANGED <<flash, saved, s, m, fs, pc, breaks>>

\* NRF_DFU_OBJECT_OP_EXECUTE of a data object.
SendDataExecute ==
    /\ Requests("execute") /\ Room(QueueSize - 2)
    /\ IF ExecuteAllowed(Device)
       THEN LET d == ObjectDone(Device)
                last == d.s.progress.offset = d.m.size_req
            IN  /\ Becomes(d)
                /\ pc' = IF last THEN "waitPending" ELSE "idle"
                /\ NextStep(IF last THEN "end" ELSE "create")
       ELSE /\ NextStep("create")
            /\ UNCHANGED <<s, m, fs, pc>>
    /\ UNCHANGED <<flash, saved, breaks>>

-----------------------------------------------------------------------------
(* Results of flash operations, resets and lost links.                     *)

Written(old, new) == IF old \in {Erased, new} THEN new ELSE Torn

Covered(op) == IF op.op \in {"erase", "store"} THEN op.at .. op.at + op.len - 1 ELSE {}

\* What an operation does to the flash: a store takes what the buffer holds now.
FlashAfter(op) ==
    [u \in DOMAIN flash |->
        IF u \notin Covered(op) THEN flash[u]
        ELSE IF op.op = "erase" THEN Erased
        ELSE Written(flash[u], m.buf[op.buf][u - op.at])]

SavedAfter(op) ==
    CASE op.op = "settingsErase" -> Erased
      [] op.op = "settingsStore" -> IF saved = Erased THEN op.content ELSE NoSettings
      [] OTHER -> saved

\* nrf_dfu_settings_init: settings that are not valid are reset and written.
Loaded(r) == IF r \in {Erased, NoSettings} THEN Zero ELSE r

\* nrf_dfu_req_handler_init: an interrupted update is taken up again.
Resumed(r) ==
    LET first == r.bank0.code = "INVALID"
        known == r.bank0.size # 0 /\ (first \/ r.bank1.code = "INVALID")
        size == IF first THEN r.bank0.size ELSE r.bank1.size
        c == nrf_dfu_find_cache(r, size)
        decoded == [FreshRam EXCEPT !.packet = Decoded(r.command)]
    IN  IF Decoded(r.command) # NoImage /\ known
        THEN [s |-> c.settings, fs |-> FreshFs,
              m |-> [decoded EXCEPT !.valid = TRUE, !.size_req = size, !.start = c.at]]
        ELSE [s |-> r, fs |-> FreshFs, m |-> decoded]

\* The device starts again, in DFU mode, with what the flash holds.
Restart(content) ==
    /\ saved' = Loaded(content)
    /\ Becomes(Resumed(Loaded(content)))
    /\ pc' = "idle"
    /\ ctl' = NoLink

\* The image is installed: the bootloader goes on after the reset.
Installed(content) ==
    /\ content \notin {Erased, NoSettings}
    /\ "VALID_APP" = IF content.current = 0 THEN content.bank0.code ELSE content.bank1.code

\* fs_evt_handler, dfu_settings_write_callback
FsResult(op, ok) ==
    [fs EXCEPT !.queue = Tail(@), !.failure = ~ok,
               !.barrier = IF op.op = "settingsStore" /\ ok THEN FALSE ELSE @]

\* The operation at the head of the queue ends and its callback is called:
\* dfu_data_write_handler, dfu_settings_write_callback, on_dfu_complete.
FlashResult ==
    /\ fs.queue # <<>> /\ pc # "done"
    /\ LET op == Head(fs.queue) IN
       \E ok \in {TRUE} \cup (IF FlashFails THEN {FALSE} ELSE {}) :
          LET content == IF ok THEN SavedAfter(op) ELSE saved IN
          /\ flash' = IF ok THEN FlashAfter(op) ELSE flash
          /\ IF op.op = "settingsStore" /\ fs.reset
             THEN IF ok /\ Installed(content)
                  THEN pc' = "done" /\ saved' = content /\ UNCHANGED <<s, m, fs, ctl>>
                  ELSE Restart(content)
             ELSE /\ fs' = FsResult(op, ok)
                  /\ m' = [m EXCEPT !.pending = @ - (IF Covered(op) # {} THEN 1 ELSE 0)]
                  /\ saved' = content
                  /\ UNCHANGED <<s, pc, ctl>>
    /\ UNCHANGED breaks

\* The device is reset, before or in the middle of a flash operation.
Reset ==
    /\ pc # "done" /\ breaks < MaxBreaks
    /\ \/ Restart(saved) /\ UNCHANGED flash
       \/ /\ fs.queue # <<>>
          /\ LET op == Head(fs.queue) IN
             /\ flash' = [u \in DOMAIN flash |-> IF u \in Covered(op) THEN Torn ELSE flash[u]]
             /\ Restart(IF Covered(op) = {} THEN NoSettings ELSE saved)
    /\ breaks' = breaks + 1

LinkLoss ==
    /\ ctl.step # "off" /\ pc # "done" /\ breaks < MaxBreaks
    /\ ctl' = NoLink
    /\ breaks' = breaks + 1
    /\ UNCHANGED <<flash, saved, s, m, fs, pc>>

Finished == pc = "done" /\ UNCHANGED vars

Start == [Zero EXCEPT !.bank0 = [code |-> "VALID_APP", crc |-> Factory, size |-> Size[Factory]]]

Init ==
    /\ flash = [u \in 0 .. Region - 1 |-> IF u < Size[Factory] THEN <<Factory, u>> ELSE Erased]
    /\ saved = Start /\ s = Start /\ m = FreshRam /\ fs = FreshFs
    /\ pc = "idle" /\ ctl = NoLink /\ breaks = 0

Controller ==
    \/ SelectCommand \/ SendCommandCreate \/ SendCommandWrite \/ SendCommandExecute
    \/ SelectData \/ SendDataCreate \/ SendDataWrite \/ AskCrc \/ SendDataExecute

Next ==
    \/ Connect \/ Controller
    \/ PendingDone \/ SettingsRetry \/ FlashResult
    \/ Reset \/ LinkLoss \/ Finished

Spec == Init /\ [][Next]_vars

-----------------------------------------------------------------------------
(* Properties.                                                             *)

Units == {<<i, k>> : i \in Images, k \in 0 .. Region - 1}

Crcs == Images \cup {NoImage, Mixed}

Bank == [code : {"INVALID", "VALID_APP"}, crc : Crcs, size : 0 .. Region]

Settings ==
    [layout : {"DUAL", "SINGLE"}, current : {0, 1}, bank0 : Bank, bank1 : Bank,
     command : [size : {0, CommandUnits}, offset : 0 .. CommandUnits,
                image : Images \cup {NoImage}],
     progress : [object : 0 .. MaxObject, offset : 0 .. Region, last : 0 .. Region,
                 crc : Crcs, crc_last : Crcs],
     write_offset : 0 .. Region]

TypeOK ==
    /\ flash \in [0 .. Region - 1 -> Units \cup {Erased, Torn}]
    /\ saved \in Settings \cup {Erased, NoSettings} /\ s \in Settings
    /\ m \in [valid : BOOLEAN, size_req : 0 .. Region, start : 0 .. Region,
              packet : Images \cup {NoImage}, pos : 0 .. Chunk - 1, cur : 0 .. Buffers - 1,
              pending : 0 .. QueueSize,
              buf : [0 .. Buffers - 1 -> [0 .. Chunk - 1 -> Units \cup {Erased}]]]
    /\ Len(fs.queue) <= QueueSize
    /\ {fs.failure, fs.barrier, fs.reset} \subseteq BOOLEAN
    /\ pc \in {"idle", "waitPending", "waitSettings", "done"}

QueuedStores == {op \in {fs.queue[j] : j \in DOMAIN fs.queue} : op.op = "store"}

\* The buffers are cyclic "because the RAM copy must be kept alive until
\* copying is done": what a queued store is to copy does not change.
BufferHeld ==
    [][\A op \in QueuedStores \cap QueuedStores' :
          \A k \in 0 .. op.len - 1 : m'.buf[op.buf][k] = m.buf[op.buf][k]]_vars

IsRecord(r) == r \notin {Erased, NoSettings}

PlaceOf(r) == IF r.current = 1 THEN AlignToPage(r.bank0.size) ELSE 0

\* The settings page never claims more of an image than the flash holds, at
\* whatever moment the device is reset: an update can be taken up from it.
SavedIsStored ==
    IsRecord(saved) /\ saved.progress.crc_last \in Images =>
        \A k \in 0 .. saved.progress.last - 1 :
            flash[PlaceOf(saved) + k] = <<saved.progress.crc_last, k>>

BankWhole(b, at) ==
    b.code = "VALID_APP" => b.crc \in Images /\ b.size = Size[b.crc] /\ WholeAt(b.crc, at)

\* A bank that the settings page calls valid holds the whole image that its
\* CRC was computed over, also while another image is received over it.
ValidIsWhole ==
    IsRecord(saved) =>
        /\ BankWhole(saved.bank0, 0)
        /\ BankWhole(saved.bank1, AlignToPage(saved.bank0.size))

\* A link that is not lost ends in the installation of its image.
UpdateCompletes ==
    \A n \in 0 .. MaxBreaks :
        (ctl.step # "off" /\ breaks = n) ~> (pc = "done" \/ breaks > n)

\* m_flash_operations_pending counts the data operations that are queued, so
\* that the handler waits for all of them, and for no more.
PendingCounted ==
    m.pending = Cardinality({j \in DOMAIN fs.queue : Covered(fs.queue[j]) # {}})

\* Whatever is overrun, refused or fails on the way, the device only starts
\* over into an image that is whole in flash and carries its own CRC.
InstalledIsWhole ==
    pc = "done" => BankWhole(IF saved.current = 0 THEN saved.bank0 ELSE saved.bank1,
                             PlaceOf(saved))

=============================================================================
