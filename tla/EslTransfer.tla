---------------------------- MODULE EslTransfer ----------------------------
(***************************************************************************)
(* The transfer of a picture to the label: the central's protocol over the *)
(* label service (ble_esls.c), the packet and control point handlers       *)
(* (lable_data.c), the label's flash store (fs_esl_data.c) on top of the   *)
(* flash queue, and the display that is drawn from flash (ssd1608.c).      *)
(* All handlers run to completion in one interrupt; what runs beside them  *)
(* is the SoftDevice, which reads the packet buffer when it gets round to  *)
(* a store.  One unit of flash and of the buffer holds one packet.         *)
(***************************************************************************)
EXTENDS Integers, Sequences

CONSTANTS
    Pictures,     \* the pictures a central may send
    Length,       \* Length[p]: bytes of picture p
    Batch,        \* Batch[p]: packets per verified batch, the verify_number
    PacketBytes,  \* ONE_PACKET_DATA_LENGTH
    BufPackets,   \* packets that fit in aligned_data
    PageBytes,    \* flash page size
    RegionPages,  \* pages between ESL_DATA_START_ADDRESS and its end
    QueueSize,    \* FS_QUEUE_SIZE
    Erased, Garbage, Blank,
    PacedWrites,  \* TRUE: a write arrives only when the flash queue is empty
    MaxLost,      \* bound: notifications that sd_ble_gatts_hvx refuses
    LinkLoss,     \* TRUE: the link may be lost
    Resets,       \* TRUE: the device may be reset
    FlashFails    \* TRUE: a flash operation may time out

ASSUME EslTransferAssumption ==
    /\ {PacketBytes, BufPackets, PageBytes, RegionPages, QueueSize} \subseteq Nat \ {0}
    /\ PageBytes % PacketBytes = 0 /\ MaxLost \in Nat
    /\ Pictures # {}
    /\ Length \in [Pictures -> Nat] /\ Batch \in [Pictures -> Nat \ {0}]
    /\ PacedWrites \in BOOLEAN

\* A central that keeps to the protocol announces batches that fit in
\* aligned_data and pictures that fit in the region: the label checks neither.
ASSUME CentralAssumption ==
    \A p \in Pictures : Batch[p] <= BufPackets /\ Length[p] <= RegionPages * PageBytes

VARIABLES
    m_flags, sequency, fs_store_point, esl_data_info, aligned_data, \* lable_data.c
    failure,  \* FLASH_FLAG_FAILURE_SINCE_LAST of fs_esl_data.c
    fq,       \* operations accepted by fstorage and not answered, oldest first
    flash,    \* the label's region, by packet
    notify,   \* is_notification_enabled of ble_esls.c
    link,     \* whether the central is connected
    toDev,    \* writes on their way to the device
    toCen,    \* notifications on their way to the central
    cen,      \* the central: what it does, its picture, its position
    shown,    \* history: what the last control point 0x01 put on the display
    lost,     \* history: notifications refused so far
    failed    \* history: a flash operation has failed since the last reset

devVars == <<m_flags, sequency, fs_store_point, esl_data_info, aligned_data>>
flashVars == <<failure, fq, flash>>
history == <<lost, failed>>
vars == <<devVars, flashVars, notify, link, toDev, toCen, cen, shown, history>>

-----------------------------------------------------------------------------
(* Packets, pictures and the region.                                       *)

Packets(p) == (Length[p] + PacketBytes - 1) \div PacketBytes

PagePackets == PageBytes \div PacketBytes

Units == 0 .. RegionPages * PagePackets - 1

Data(p) == {<<p, i>> : i \in 0 .. Packets(p) - 1}

AllData == UNION {Data(p) : p \in Pictures}

ASSUME ContentAssumption == Garbage \notin AllData \cup {Erased, Blank}

\* The packets of picture p from position a to position b - 1.
Part(p, a, b) == [k \in 1 .. b - a |-> <<p, a + k - 1>>]

\* All of picture p is in flash.
Holds(f, p) == \A i \in 0 .. Packets(p) - 1 : f[i] = <<p, i>>

-----------------------------------------------------------------------------
(* The label's flash store and the flash queue below it.                   *)

\* Slip: the failure since the last operation is not looked at.
Room_IgnoresFailure == Len(fq) < QueueSize

Room == ~failure /\ Len(fq) < QueueSize

\* esl_flash_erase and esl_flash_store: the operation is queued, or refused
\* with an error the callers do not look at.
esl_flash_erase(first, pages) ==
    IF Room /\ pages > 0 /\ first + pages <= RegionPages
    THEN fq' = Append(fq, [kind |-> "erase", at |-> first, left |-> pages])
    ELSE UNCHANGED fq

esl_flash_store(dest, packets) ==
    LET at == dest \div PacketBytes IN
    IF Room /\ packets > 0 /\ at + packets - 1 \in Units
    THEN fq' = Append(fq, [kind |-> "store", at |-> at, left |-> packets])
    ELSE UNCHANGED fq

\* A unit can be written once between erasures: flash only clears bits.
Written(old, new) == IF old \in {Erased, new} THEN new ELSE Garbage

\* The SoftDevice erases the next page, or copies the packets out of the
\* buffer as they are at this moment.
FlashWork ==
    /\ fq # <<>>
    /\ Head(fq).left > 0
    /\ LET op == Head(fq) IN
       IF op.kind = "erase"
       THEN /\ flash' = [u \in Units |->
                           IF u \div PagePackets = op.at THEN Erased ELSE flash[u]]
            /\ fq' = [fq EXCEPT ![1].at = @ + 1, ![1].left = @ - 1]
       ELSE /\ flash' = [u \in Units |->
                           IF u - op.at \in 0 .. op.left - 1
                           THEN Written(flash[u], aligned_data[u - op.at])
                           ELSE flash[u]]
            /\ fq' = [fq EXCEPT ![1].left = 0]
    /\ UNCHANGED <<devVars, failure, notify, link, toDev, toCen, cen, shown, history>>

\* fs_evt_handler of fs_esl_data.c: the operation's event, the same for every
\* operation since the transfer passes no callback.
FlashSuccess ==
    /\ fq # <<>>
    /\ Head(fq).left = 0
    /\ fq' = Tail(fq)
    /\ failure' = FALSE
    /\ UNCHANGED <<devVars, flash, notify, link, toDev, toCen, cen, shown, history>>

FlashTimeout ==
    /\ FlashFails
    /\ fq # <<>>
    /\ Head(fq).left > 0
    /\ fq' = Tail(fq)
    /\ failure' = TRUE
    /\ failed' = TRUE
    /\ UNCHANGED <<devVars, flash, notify, link, toDev, toCen, cen, shown, lost>>

-----------------------------------------------------------------------------
(* The label service.                                                      *)

\* ble_esls_cp_update: without notifications enabled, or when the SoftDevice
\* has no buffer, the response is dropped and the caller does not look.
esl_cp_resp(r) ==
    \/ /\ notify
       /\ toCen' = Append(toCen, r)
       /\ UNCHANGED lost
    \/ /\ notify /\ lost < MaxLost
       /\ lost' = lost + 1
       /\ UNCHANGED toCen
    \/ /\ ~notify
       /\ UNCHANGED <<toCen, lost>>

on_cccd_write(w) ==
    /\ w.t = "cccd"
    /\ notify' = w.on
    /\ UNCHANGED <<devVars, fq, toCen, shown, lost>>

\* Slip: a new transfer goes on where the last batch stopped.
esl_packet_handle_KeepsSequency(w) ==
    /\ w.t = "packet"
    /\ IF m_flags \notin {"START", "DOING"}
       THEN UNCHANGED <<devVars, toCen, lost>>
       ELSE LET s == sequency IN
            /\ m_flags' = "DOING"
            /\ fs_store_point' = IF m_flags = "START" THEN 0 ELSE fs_store_point
            /\ aligned_data' = [k \in DOMAIN aligned_data |->
                                  IF k = s THEN w.data ELSE aligned_data[k]]
            /\ sequency' = s + 1
            /\ IF \/ s + 1 = esl_data_info.verify_number
                  \/ w.index = esl_data_info.length \div PacketBytes
               THEN esl_cp_resp([t |-> "verify", index |-> w.index, sequency |-> s + 1,
                                 crc |-> [k \in 1 .. s + 1 |-> aligned_data'[k - 1]]])
               ELSE UNCHANGED <<toCen, lost>>
            /\ UNCHANGED esl_data_info
    /\ UNCHANGED <<fq, notify, shown>>

\* Slip: a new transfer stores where the last one ended.
esl_packet_handle_KeepsPoint(w) ==
    /\ w.t = "packet"
    /\ IF m_flags \notin {"START", "DOING"}
       THEN UNCHANGED <<devVars, toCen, lost>>
       ELSE LET s == IF m_flags = "START" THEN 0 ELSE sequency IN
            /\ m_flags' = "DOING"
            /\ aligned_data' = [k \in DOMAIN aligned_data |->
                                  IF k = s THEN w.data ELSE aligned_data[k]]
            /\ sequency' = s + 1
            /\ IF \/ s + 1 = esl_data_info.verify_number
                  \/ w.index = esl_data_info.length \div PacketBytes
               THEN esl_cp_resp([t |-> "verify", index |-> w.index, sequency |-> s + 1,
                                 crc |-> [k \in 1 .. s + 1 |-> aligned_data'[k - 1]]])
               ELSE UNCHANGED <<toCen, lost>>
            /\ UNCHANGED <<esl_data_info, fs_store_point>>
    /\ UNCHANGED <<fq, notify, shown>>

\* Slip: a last batch that is not full is not answered.
esl_packet_handle_FullBatchOnly(w) ==
    /\ w.t = "packet"
    /\ IF m_flags \notin {"START", "DOING"}
       THEN UNCHANGED <<devVars, toCen, lost>>
       ELSE LET s == IF m_flags = "START" THEN 0 ELSE sequency IN
            /\ m_flags' = "DOING"
            /\ fs_store_point' = IF m_flags = "START" THEN 0 ELSE fs_store_point
            /\ aligned_data' = [k \in DOMAIN aligned_data |->
                                  IF k = s THEN w.data ELSE aligned_data[k]]
            /\ sequency' = s + 1
            /\ IF s + 1 = esl_data_info.verify_number
               THEN esl_cp_resp([t |-> "verify", index |-> w.index, sequency |-> s + 1,
                                 crc |-> [k \in 1 .. s + 1 |-> aligned_data'[k - 1]]])
               ELSE UNCHANGED <<toCen, lost>>
            /\ UNCHANGED esl_data_info
    /\ UNCHANGED <<fq, notify, shown>>

\* esl_packet_handle: the first packet after 0x00 starts the transfer; each
\* packet goes to the next place of the buffer, whatever its index says; the
\* response follows the last packet of a batch or of the picture.
esl_packet_handle(w) ==
    /\ w.t = "packet"
    /\ IF m_flags \notin {"START", "DOING"}
       THEN UNCHANGED <<devVars, toCen, lost>>
       ELSE LET s == IF m_flags = "START" THEN 0 ELSE sequency IN
            /\ m_flags' = "DOING"
            /\ fs_store_point' = IF m_flags = "START" THEN 0 ELSE fs_store_point
            /\ aligned_data' = [k \in DOMAIN aligned_data |->
                                  IF k = s THEN w.data ELSE aligned_data[k]]
            /\ sequency' = s + 1
            /\ IF \/ s + 1 = esl_data_info.verify_number
                  \/ w.index = esl_data_info.length \div PacketBytes
               THEN esl_cp_resp([t |-> "verify", index |-> w.index, sequency |-> s + 1,
                                 crc |-> [k \in 1 .. s + 1 |-> aligned_data'[k - 1]]])
               ELSE UNCHANGED <<toCen, lost>>
            /\ UNCHANGED esl_data_info
    /\ UNCHANGED <<fq, notify, shown>>

\* Control point 0x00: the pages are erased and the transfer is armed.
cp_start(w) ==
    /\ w.t = "start"
    /\ esl_data_info' = [length |-> w.length, crc16 |-> w.crc16,
                         verify_number |-> w.verify_number]
    /\ esl_flash_erase(0, (PageBytes - 1 + w.length) \div PageBytes)
    /\ m_flags' = "START"
    /\ esl_cp_resp([t |-> "started"])
    /\ UNCHANGED <<sequency, fs_store_point, aligned_data, notify, shown>>

\* Control point 0x01: esl_data_verify always finds the data right, so the
\* transfer is done, and the display is drawn from flash at once.
cp_end(w) ==
    /\ w.t = "end"
    /\ m_flags' = "DONE"
    /\ esl_cp_resp([t |-> "ended"])
    /\ shown' = IF Holds(flash, esl_data_info.crc16) THEN "whole" ELSE "other"
    /\ UNCHANGED <<sequency, fs_store_point, esl_data_info, aligned_data, fq, notify>>

\* Slip: dropping a batch takes back a full batch.
cp_batch_DropsFullBatch(w) ==
    /\ w.t \in {"commit", "retry"}
    /\ IF w.t = "commit"
       THEN /\ esl_flash_store(fs_store_point, sequency)
            /\ fs_store_point' = fs_store_point + sequency * PacketBytes
            /\ sequency' = 0
       ELSE /\ sequency' = sequency - esl_data_info.verify_number
            /\ UNCHANGED <<fq, fs_store_point>>
    /\ UNCHANGED <<m_flags, esl_data_info, aligned_data, notify, toCen, shown, lost>>

\* Slip: the store point moves by one packet.
cp_batch_PointByOne(w) ==
    /\ w.t \in {"commit", "retry"}
    /\ IF w.t = "commit"
       THEN /\ esl_flash_store(fs_store_point, sequency)
            /\ fs_store_point' = fs_store_point + PacketBytes
       ELSE UNCHANGED <<fq, fs_store_point>>
    /\ sequency' = 0
    /\ UNCHANGED <<m_flags, esl_data_info, aligned_data, notify, toCen, shown, lost>>

\* Control point 0x02, 0x00: the batch is stored; anything else: it is
\* dropped, to be sent again.
cp_batch(w) ==
    /\ w.t \in {"commit", "retry"}
    /\ IF w.t = "commit"
       THEN /\ esl_flash_store(fs_store_point, sequency)
            /\ fs_store_point' = fs_store_point + sequency * PacketBytes
       ELSE UNCHANGED <<fq, fs_store_point>>
    /\ sequency' = 0
    /\ UNCHANGED <<m_flags, esl_data_info, aligned_data, notify, toCen, shown, lost>>

\* A write of the central reaches on_write of ble_esls.c.
on_write ==
    /\ toDev # <<>>
    /\ PacedWrites => fq = <<>>
    /\ toDev' = Tail(toDev)
    /\ LET w == Head(toDev) IN
          on_cccd_write(w) \/ esl_packet_handle(w) \/ cp_start(w) \/ cp_end(w) \/ cp_batch(w)
    /\ UNCHANGED <<failure, flash, link, cen, failed>>

-----------------------------------------------------------------------------
(* The central.  It follows the protocol: it asks for notifications, starts *)
(* the transfer, sends a batch, waits until the device has answered with    *)
(* the checksum of just that batch, and has the batch stored.               *)

Home == [pc |-> "off", pic |-> CHOOSE p \in Pictures : TRUE, base |-> 0, next |-> 0]

StartOf(p) == [t |-> "start", length |-> Length[p], crc16 |-> p, verify_number |-> Batch[p]]

Connect(p) ==
    /\ ~link
    /\ link' = TRUE
    /\ toDev' = <<[t |-> "cccd", on |-> TRUE], StartOf(p)>>
    /\ cen' = [Home EXCEPT !.pc = "starting", !.pic = p]
    /\ UNCHANGED <<devVars, flashVars, notify, toCen, shown, history>>

\* After a picture the central may send another one on the same link.
NextPicture(p) ==
    /\ link
    /\ cen.pc = "done"
    /\ toDev' = Append(toDev, StartOf(p))
    /\ cen' = [Home EXCEPT !.pc = "starting", !.pic = p]
    /\ UNCHANGED <<devVars, flashVars, notify, link, toCen, shown, history>>

BatchSent ==
    \/ cen.next = Packets(cen.pic)
    \/ cen.next - cen.base = Batch[cen.pic]

SendPacket ==
    /\ cen.pc = "sending"
    /\ ~BatchSent
    /\ toDev' = Append(toDev, [t |-> "packet", index |-> cen.next, data |-> <<cen.pic, cen.next>>])
    /\ cen' = [cen EXCEPT !.next = @ + 1]
    /\ UNCHANGED <<devVars, flashVars, notify, link, toCen, shown, history>>

\* A notification arrives; one that the central does not wait for is ignored.
Receive ==
    /\ toCen # <<>>
    /\ toCen' = Tail(toCen)
    /\ LET r == Head(toCen) IN
       CASE cen.pc = "starting" /\ r.t = "started" ->
              /\ cen' = [cen EXCEPT !.pc = "sending"]
              /\ UNCHANGED toDev
         [] cen.pc = "sending" /\ BatchSent /\ r.t = "verify" ->
              IF r.crc = Part(cen.pic, cen.base, cen.next)
              THEN IF cen.next = Packets(cen.pic)
                   THEN /\ cen' = [cen EXCEPT !.pc = "ending"]
                        /\ toDev' = toDev \o <<[t |-> "commit"], [t |-> "end"]>>
                   ELSE /\ cen' = [cen EXCEPT !.base = cen.next]
                        /\ toDev' = Append(toDev, [t |-> "commit"])
              ELSE /\ cen' = [cen EXCEPT !.next = cen.base]
                   /\ toDev' = Append(toDev, [t |-> "retry"])
         [] cen.pc = "ending" /\ r.t = "ended" ->
              /\ cen' = [cen EXCEPT !.pc = "done"]
              /\ UNCHANGED toDev
         [] OTHER -> UNCHANGED <<cen, toDev>>
    /\ UNCHANGED <<devVars, flashVars, notify, link, shown, history>>

\* The central has waited long enough to know that the answer was lost.
Timeout ==
    /\ link /\ toDev = <<>> /\ toCen = <<>>
    /\ \/ /\ cen.pc = "starting"
          /\ toDev' = <<StartOf(cen.pic)>>
          /\ UNCHANGED cen
       \/ /\ cen.pc = "sending" /\ BatchSent
          /\ toDev' = <<[t |-> "retry"]>>
          /\ cen' = [cen EXCEPT !.next = cen.base]
       \/ /\ cen.pc = "ending"
          /\ toDev' = <<[t |-> "end"]>>
          /\ UNCHANGED cen
    /\ UNCHANGED <<devVars, flashVars, notify, link, toCen, shown, history>>

\* The link is lost with all that is on its way; on_disconnect keeps
\* is_notification_enabled and the state of the transfer.
Disconnect ==
    /\ LinkLoss
    /\ link
    /\ link' = FALSE
    /\ toDev' = <<>> /\ toCen' = <<>>
    /\ cen' = Home
    /\ UNCHANGED <<devVars, flashVars, notify, shown, history>>

-----------------------------------------------------------------------------

FreshInfo == [length |-> 0, crc16 |-> Home.pic, verify_number |-> 0]

FreshBuffer == [k \in 0 .. BufPackets - 1 |-> Blank]

Init ==
    /\ m_flags = "0" /\ sequency = 0 /\ fs_store_point = 0
    /\ esl_data_info = FreshInfo /\ aligned_data = FreshBuffer
    /\ failure = FALSE /\ fq = <<>> /\ flash = [u \in Units |-> Erased]
    /\ notify = FALSE /\ link = FALSE /\ toDev = <<>> /\ toCen = <<>>
    /\ cen = Home /\ shown = "nothing" /\ lost = 0 /\ failed = FALSE

\* A reset loses everything but the flash.
Reset ==
    /\ Resets
    /\ m_flags' = "0" /\ sequency' = 0 /\ fs_store_point' = 0
    /\ esl_data_info' = FreshInfo /\ aligned_data' = FreshBuffer
    /\ failure' = FALSE /\ fq' = <<>>
    /\ notify' = FALSE /\ link' = FALSE /\ toDev' = <<>> /\ toCen' = <<>>
    /\ cen' = Home /\ shown' = "nothing" /\ failed' = FALSE
    /\ UNCHANGED <<flash, lost>>

Next ==
    \/ FlashWork \/ FlashSuccess \/ FlashTimeout
    \/ on_write
    \/ \E p \in Pictures : Connect(p) \/ NextPicture(p)
    \/ SendPacket \/ Receive \/ Timeout \/ Disconnect
    \/ Reset

Spec == Init /\ [][Next]_vars

FairSpec ==
    /\ Spec
    /\ WF_vars(FlashWork) /\ WF_vars(FlashSuccess) /\ WF_vars(on_write)
    /\ WF_vars(SendPacket) /\ WF_vars(Receive) /\ WF_vars(Timeout)

-----------------------------------------------------------------------------
(* Properties.                                                             *)

TypeOK ==
    /\ m_flags \in {"0", "START", "DOING", "DONE"}
    /\ sequency \in Nat
    /\ fs_store_point \in Nat
    /\ esl_data_info \in [length : Nat, crc16 : Pictures, verify_number : Nat]
    /\ aligned_data \in [0 .. BufPackets - 1 -> AllData \cup {Blank}]
    /\ failure \in BOOLEAN
    /\ fq \in Seq([kind : {"erase", "store"}, at : Nat, left : Nat])
    /\ Len(fq) <= QueueSize
    /\ flash \in [Units -> AllData \cup {Erased, Garbage, Blank}]
    /\ notify \in BOOLEAN /\ link \in BOOLEAN
    /\ cen \in [pc : {"off", "starting", "sending", "ending", "done"},
                pic : Pictures, base : Nat, next : Nat]
    /\ shown \in {"nothing", "whole", "other"}

\* With a central that keeps to the protocol, whatever answers are lost and
\* repeated, a packet is never written past the end of aligned_data.
NoOverrun == sequency <= BufPackets

\* fs_esl_data.c: after a failure nothing is stored until an operation has
\* succeeded, so no packet is ever written over flash that was not erased,
\* whichever operation fails and whenever the device is reset.
NoOverwrite == \A u \in Units : flash[u] # Garbage

\* The position of a unit in a store that waits in the queue.
Waiting(u) ==
    \E i \in 1 .. Len(fq) :
       /\ fq[i].kind = "store" /\ fq[i].left > 0
       /\ u - fq[i].at \in 0 .. fq[i].left - 1
       /\ aligned_data[u - fq[i].at] = <<esl_data_info.crc16, u>>

\* Everything below fs_store_point is in flash, packet by packet of the
\* picture announced with 0x00, or waits to be stored with the right content:
\* lost answers, repeated batches, lost links and resets leave no hole, no
\* shift and no packet of another picture, as long as the flash has not failed.
StoredPrefix ==
    m_flags \in {"DOING", "DONE"} /\ ~failed =>
       \A u \in Units :
          u * PacketBytes < fs_store_point =>
             flash[u] = <<esl_data_info.crc16, u>> \/ Waiting(u)

\* lable_data.c: control point 0x01 ends the transfer, verifies that the data
\* is complete and returns a flag of success - the success is only returned,
\* and the display only drawn, when the whole picture is in flash.  A failure
\* of the flash is not looked at.
EndMeansWhole == ~failed => shown # "other"

\* fstorage.h: "The data to be written to flash has to be kept in memory until
\* the operation has terminated, i.e., an event is received."
BufferHeld ==
    [][\A i \in 1 .. Len(fq) :
          fq[i].kind = "store" /\ fq[i].left > 0 =>
             \A k \in 0 .. fq[i].left - 1 : aligned_data'[k] = aligned_data[k]]_vars

\* A picture that is being sent is answered for to the end while the link
\* lasts: every batch, the short last one too, and whatever an earlier link, a
\* failed flash operation or a reset has left behind.
TransferCompletes == \A p \in Pictures :
    (cen.pc = "starting" /\ cen.pic = p) ~> (~link \/ (cen.pc = "done" /\ cen.pic = p))

=============================================================================
