---------------------------- MODULE DfuTransport ----------------------------
(***************************************************************************)
(* The DFU service over BLE (nrf_ble_dfu.c) between the controller and the *)
(* request handler of DfuReqHandling.  A write of the control point is a   *)
(* request that is answered with a notification, a write of the packet     *)
(* characteristic is not; instead the device sends a receipt for every so  *)
(* many packets as the controller has asked for.  The two count the        *)
(* packets on their own.  A notification that the SoftDevice does not take *)
(* is given up, and the controller waits for it until it drops the link.   *)
(*                                                                         *)
(* What a receipt carries is left to AskCrc, which asks for the same.      *)
(* m_conn_handle and the advertising flag say whether there is a link, as  *)
(* ctl.step does.  Writes that are malformed or come before notifications  *)
(* are enabled change nothing.                                             *)
(***************************************************************************)
EXTENDS DfuReqHandling

CONSTANT Receipts  \* the numbers of packets per receipt that are asked for

ASSUME DfuTransportAssumption == Receipts \subseteq Nat

VARIABLES
    notif,  \* m_pkt_notif_target and m_pkt_notif_target_cnt
    flow    \* the controller's side: the packets per receipt it asked for, if
            \* it did, those sent since, and the notification it waits for

transportVars == <<flash, saved, s, m, fs, pc, ctl, breaks, notif, flow>>

NoNotif == [target |-> 0, cnt |-> 0]

NoFlow == [set |-> FALSE, target |-> 0, sent |-> 0, wait |-> "none"]

Waits == flow.wait # "none"

\* The answer of a request comes, or is not taken by the SoftDevice.
Answer(f) ==
    \/ flow' = f
    \/ breaks < MaxBreaks /\ flow' = [f EXCEPT !.wait = "lost"]

-----------------------------------------------------------------------------
(* on_ctrl_pt_write.                                                       *)

\* BLE_DFU_OP_CODE_SET_RECEIPT_NOTIF, the first request on a link.
SetReceiptNotif ==
    /\ ctl.step = "select" /\ pc = "idle" /\ ~flow.set /\ ~Waits
    /\ \E n \in Receipts :
          /\ notif' = [target |-> n, cnt |-> n]
          /\ Answer([flow EXCEPT !.set = TRUE, !.target = n])
    /\ UNCHANGED vars

\* Slip: the packets of the last object go on counting.
CreateObject_KeepsCount == UNCHANGED notif

\* "Reset the packet receipt notification on create object."
CreateObject == notif' = [notif EXCEPT !.cnt = notif.target]

CreateRequest ==
    /\ SendCommandCreate \/ SendDataCreate
    /\ CreateObject
    /\ Answer([flow EXCEPT !.sent = 0])

OtherRequest ==
    /\ SelectCommand \/ SelectData \/ AskCrc \/ SendCommandExecute \/ SendDataExecute
    /\ UNCHANGED notif
    /\ IF ctl' = NoLink THEN flow' = NoFlow ELSE Answer(flow)

-----------------------------------------------------------------------------
(* on_write.                                                               *)

\* --m_pkt_notif_target_cnt == 0
ReceiptDue == notif.target # 0 /\ notif.cnt = 1

PacketCounted ==
    notif' = IF notif.target = 0 THEN notif
             ELSE [notif EXCEPT !.cnt = IF ReceiptDue THEN notif.target ELSE @ - 1]

\* The controller goes on, except that it waits for the receipt it counts on.
ReceiptAwaited ==
    LET f == [flow EXCEPT !.sent = IF flow.target = 0 THEN 0 ELSE @ + 1] IN
    IF flow.target = 0 \/ f.sent < flow.target THEN flow' = f
    ELSE IF ReceiptDue THEN Answer([f EXCEPT !.sent = 0])
    ELSE flow' = [f EXCEPT !.wait = "receipt"]

Packet ==
    /\ SendCommandWrite \/ SendDataWrite
    /\ PacketCounted
    /\ ReceiptAwaited

Request == flow.set /\ ~Waits /\ (CreateRequest \/ OtherRequest \/ Packet)

-----------------------------------------------------------------------------
(* The link and the device.                                                *)

\* BLE_GAP_EVT_CONNECTED: the numbers of an earlier link stay.
LinkUp == Connect /\ flow' = NoFlow /\ UNCHANGED notif

\* BLE_GAP_EVT_DISCONNECTED
LinkDown == LinkLoss /\ flow' = NoFlow /\ UNCHANGED notif

\* The controller gives up on a notification that was not sent.
GivesUp == flow.wait = "lost" /\ LinkDown

\* A flash operation ends; a failed update restarts the device.
Result ==
    /\ FlashResult
    /\ LET restarts == /\ Head(fs.queue).op = "settingsStore" /\ fs.reset
                       /\ pc' # "done" IN
       /\ notif' = IF restarts THEN NoNotif ELSE notif
       /\ flow' = IF restarts THEN NoFlow ELSE flow

DeviceReset == Reset /\ notif' = NoNotif /\ flow' = NoFlow

HandlerGoesOn == (PendingDone \/ SettingsRetry) /\ UNCHANGED <<notif, flow>>

\* The controller waits, and nothing else need happen.
KeepsWaiting == Waits /\ UNCHANGED transportVars

TransportInit == Init /\ notif = NoNotif /\ flow = NoFlow

TransportNext ==
    \/ LinkUp \/ SetReceiptNotif \/ Request
    \/ HandlerGoesOn \/ Result
    \/ DeviceReset \/ LinkDown
    \/ KeepsWaiting
    \/ Finished /\ UNCHANGED <<notif, flow>>

TransportSpec == TransportInit /\ [][TransportNext]_transportVars

\* The main loop goes on, flash operations end, a controller goes on, and does
\* not wait for a notification for ever.
FairTransportSpec ==
    /\ TransportSpec
    /\ WF_transportVars(HandlerGoesOn) /\ WF_transportVars(Result)
    /\ WF_transportVars(SetReceiptNotif \/ Request) /\ WF_transportVars(GivesUp)

=============================================================================
