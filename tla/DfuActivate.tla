---------------------------- MODULE DfuActivate -----------------------------
(***************************************************************************)
(* The activation of a received SoftDevice, bootloader or both: after the  *)
(* reset nrf_dfu_continue copies them from their bank to their place with  *)
(* commands of the Master Boot Record (nrf_dfu_utils.c:157-362,            *)
(* nrf_dfu_mbr.c) and saves how far it is, so that a power failure is made *)
(* good by the next start.  DfuBoot supplies the banks, the settings page  *)
(* and the power failures.  Lengths are in units, of which a flash page    *)
(* has PageUnits: a SoftDevice need not end on a page.                     *)
(*                                                                         *)
(* The SoftDevices have the same place and, in pages, the same size: a     *)
(* different size moves CODE_REGION_1_START, and with it the banks, as     *)
(* soon as its first part is copied.  A power failure in the middle of     *)
(* COPY_BL is left to the MBR.                                             *)
(***************************************************************************)
EXTENDS DfuBoot

CONSTANTS
    PageUnits,  \* units of a page
    SdUnits,    \* units between the MBR and the application, whole pages
    BlUnits,    \* units of the bootloader's place
    BlSize,     \* BlSize[i]: bl_size of the init command of image i, in units
    Offers      \* bound on the images that one device is offered

ASSUME DfuActivateAssumption ==
    /\ {PageUnits, SdUnits, BlUnits} \subseteq Nat \ {0} /\ SdUnits % PageUnits = 0
    /\ BlSize \in [Images -> 0 .. BlUnits] /\ Offers \subseteq SUBSET Images
    /\ \A i \in Images :
          /\ SdSize[i] <= SdUnits
          /\ IF Kind[i] \in {"SD", "SD_BL"} THEN SdSize[i] > SdUnits - PageUnits
             ELSE SdSize[i] = 0
          /\ Kind[i] # "APP" => Pages[i] * PageUnits \in
                SdSize[i] + BlSize[i] .. SdSize[i] + BlSize[i] + PageUnits - 1
    /\ Torn \notin ((Images \cup {NoImage}) \X Nat) \X Nat

VARIABLES
    sd,      \* the place of the SoftDevice, by unit
    bl,      \* the place of the bootloader, by unit
    act,     \* locals of nrf_dfu_sd_continue_impl
    offered, \* the images that this device is offered
    damaged  \* history: the settings were lost in an activation, or a copy
             \* was resumed in the middle of a page

system == <<sd, bl, act, offered, damaged>>

allVars == <<flash, settings, s, write, pc, copy, enter, upd, promised, hurt, failures,
             sd, bl, act, offered, damaged>>

NoAct == [target |-> 0, src |-> 0, left |-> 0, split |-> 0]

AlignToPage(n) == ((n + PageUnits - 1) \div PageUnits) * PageUnits

\* A unit of the application region, and a unit of an image; the system that
\* is installed at the start counts as image NoImage.
RegionUnit(u) == IF u \div PageUnits < Region THEN <<flash[u \div PageUnits], u % PageUnits>>
                 ELSE Torn

ImageUnit(i, u) == <<<<i, u \div PageUnits>>, u % PageUnits>>

SdHolds(i) == \A u \in 0 .. (IF i = NoImage THEN SdUnits ELSE SdSize[i]) - 1 :
                 sd[u] = ImageUnit(i, u)

BlHolds(i) == IF i = NoImage THEN \A u \in 0 .. BlUnits - 1 : bl[u] = ImageUnit(i, u)
              ELSE \A u \in 0 .. BlSize[i] - 1 : bl[u] = ImageUnit(i, SdSize[i] + u)

SdWhole == \E i \in {NoImage} \cup {j \in Images : SdSize[j] > 0} : SdHolds(i)

BlWhole == \E i \in {NoImage} \cup {j \in Images : BlSize[j] > 0} : BlHolds(i)

\* SD_SIZE_GET reads CODE_REGION_1_START from the SoftDevice's first page.
RegionKnown == sd[0] # Torn

-----------------------------------------------------------------------------
(* The commands of the MBR (external).                                     *)

\* SD_MBR_COMMAND_COPY_SD erases every page that it touches.
SD_MBR_COMMAND_COPY_SD(to, from, len, ok) ==
    [u \in DOMAIN sd |->
        IF u \in to .. to + len - 1 /\ ok THEN RegionUnit(from + u - to)
        ELSE IF u \div PageUnits \in to \div PageUnits .. (to + len - 1) \div PageUnits
             THEN Torn
             ELSE sd[u]]

\* SD_MBR_COMMAND_COPY_BL erases the pages it writes to.
SD_MBR_COMMAND_COPY_BL(from, len) ==
    [u \in DOMAIN bl |-> IF u < len THEN RegionUnit(from + u)
                         ELSE IF u < AlignToPage(len) THEN Torn
                         ELSE bl[u]]

-----------------------------------------------------------------------------
(* nrf_dfu_continue, for a bank with a SoftDevice or a bootloader.         *)

\* src_addr
Source == IF s.layout = "DUAL" /\ s.current = 1 THEN PageUnits * s.bank0.size ELSE 0

\* A quarter of what is left, in whole pages.
Split(left) == AlignToPage((left + 3) \div 4)

\* Slip: the source does not move with write_offset.
nrf_dfu_sd_continue_impl_FromStart ==
    LET left == AlignToPage(s.sd_size - s.write_offset) IN
    [target |-> s.write_offset, src |-> Source, left |-> left, split |-> Split(left)]

nrf_dfu_sd_continue_impl ==
    LET left == AlignToPage(s.sd_size - s.write_offset) IN
    [target |-> s.write_offset, src |-> Source + s.write_offset, left |-> left,
     split |-> Split(left)]

Activate ==
    /\ pc = "continue" /\ Idle /\ RegionKnown
    /\ CurrentBank(s).code \in SystemCodes
    /\ LET copied == s.sd_size # 0 /\ s.write_offset = s.sd_size IN
       IF CurrentBank(s).code = "VALID_BL" THEN pc' = "blCompare" /\ UNCHANGED act
       ELSE IF copied THEN pc' = "sdDone" /\ UNCHANGED act
       ELSE pc' = "sdCopy" /\ act' = nrf_dfu_sd_continue_impl
    /\ damaged' = (damaged \/ (pc' = "sdCopy" /\ s.write_offset % PageUnits # 0))
    /\ UNCHANGED <<flash, settings, s, write, copy, enter, upd, promised, hurt, failures,
                   sd, bl, offered>>

\* The place of the banks is read from an erased page: a hard fault.
RegionLost ==
    /\ pc = "continue" /\ Idle /\ ~RegionKnown
    /\ pc' = "fault"
    /\ UNCHANGED <<flash, settings, s, write, copy, enter, upd, promised, hurt, failures,
                   sd, bl, act, offered, damaged>>

SdCopy ==
    /\ pc = "sdCopy" /\ Idle
    /\ \E ok \in {TRUE} \cup (IF FlashFails THEN {FALSE} ELSE {}) :
          sd' = SD_MBR_COMMAND_COPY_SD(act.target, act.src, act.split, ok)
    /\ pc' = "sdCompare"
    /\ UNCHANGED <<flash, settings, s, write, copy, enter, upd, promised, hurt, failures,
                   bl, act, offered, damaged>>

\* A part that differs ends the continuation in DFU mode.
SdCompare ==
    /\ pc = "sdCompare"
    /\ IF \A k \in 0 .. act.split - 1 :
             act.target + k \in DOMAIN sd => sd[act.target + k] = RegionUnit(act.src + k)
       THEN pc' = "sdSave" /\ UNCHANGED <<enter, act>>
       ELSE pc' = "check" /\ enter' = TRUE /\ act' = NoAct
    /\ UNCHANGED <<flash, settings, s, write, copy, upd, promised, hurt, failures,
                   sd, bl, offered, damaged>>

\* The point that was reached is saved in case of power loss.
SdSave ==
    /\ pc = "sdSave"
    /\ LET left == IF act.split > act.left THEN 0 ELSE act.left - act.split IN
       /\ s' = [s EXCEPT !.write_offset = s.sd_size - left]
       /\ act' = IF left = 0 THEN NoAct
                 ELSE [act EXCEPT !.target = @ + act.split, !.src = @ + act.split,
                                  !.left = left]
       /\ pc' = IF left = 0 THEN "sdDone" ELSE "sdCopy"
    /\ settings_write
    /\ UNCHANGED <<flash, settings, copy, enter, upd, promised, hurt, failures,
                   sd, bl, offered, damaged>>

nrf_dfu_invalidate_bank ==
    s' = IF CurrentBank(s) = s.bank1 /\ s.layout = "DUAL" /\ s.current = 1
         THEN [Zero EXCEPT !.bank0 = s.bank0]
         ELSE [Zero EXCEPT !.bank1 = s.bank1]

\* nrf_dfu_sd_continue and nrf_dfu_sd_bl_continue, behind the copy.
SdDone ==
    /\ pc = "sdDone" /\ Idle
    /\ enter' = TRUE
    /\ IF CurrentBank(s).code = "VALID_SD"
       THEN nrf_dfu_invalidate_bank /\ settings_write /\ pc' = "check"
       ELSE pc' = "blCompare" /\ UNCHANGED <<s, write>>
    /\ UNCHANGED <<flash, settings, copy, upd, promised, hurt, failures,
                   sd, bl, act, offered, damaged>>

BlLen == SdSize[CurrentBank(s).crc] + BlSize[CurrentBank(s).crc] - s.sd_size

\* nrf_dfu_bl_continue: a bootloader that is in place ends the activation, any
\* other is copied.
BlCompare ==
    /\ pc = "blCompare" /\ Idle
    /\ LET same == \A u \in 0 .. BlLen - 1 : bl[u] = RegionUnit(Source + s.sd_size + u) IN
       \/ /\ same
          /\ nrf_dfu_invalidate_bank /\ settings_write
          /\ pc' = "check"
       \/ ~same /\ pc' = "blCopy" /\ UNCHANGED <<s, write>>
    /\ UNCHANGED <<flash, settings, copy, enter, upd, promised, hurt, failures,
                   sd, bl, act, offered, damaged>>

\* COPY_BL starts the new bootloader.
BlCopy ==
    /\ pc = "blCopy"
    /\ bl' = SD_MBR_COMMAND_COPY_BL(Source + s.sd_size, BlLen)
    /\ Restarted
    /\ UNCHANGED <<flash, settings, promised, hurt, failures, sd, act, offered, damaged>>

-----------------------------------------------------------------------------
(* The composition.                                                        *)

\* DFU mode needs the SoftDevice.
Receive ==
    /\ SdWhole
    /\ \/ \E i \in offered : InitCommand(i)
       \/ ObjectErase \/ ObjectStore \/ PostValidate
    /\ UNCHANGED system

BootStep ==
    /\ \/ SettingsErase \/ SettingsStore \/ nrf_dfu_settings_init
       \/ RegionKnown /\ nrf_dfu_continue
       \/ CopyErase \/ CopyStore \/ CopyCompare \/ CopyRelease \/ CopyNext
       \/ Check \/ on_dfu_complete
    /\ UNCHANGED system

Activation ==
    \/ Activate \/ RegionLost \/ SdCopy \/ SdCompare \/ SdSave \/ SdDone
    \/ BlCompare \/ BlCopy

\* A copy of the SoftDevice that is cut off leaves its pages torn.
PowerFailureInSystem ==
    /\ PowerFailure
    /\ sd' \in IF pc = "sdCopy" /\ Idle
               THEN {sd, SD_MBR_COMMAND_COPY_SD(act.target, act.src, act.split, FALSE)}
               ELSE {sd}
    /\ damaged' = (damaged \/ (~Idle /\ ~(SdWhole /\ BlWhole)))
    /\ act' = NoAct
    /\ UNCHANGED <<bl, offered>>

SystemInit ==
    /\ Init
    /\ sd = [u \in 0 .. SdUnits - 1 |-> ImageUnit(NoImage, u)]
    /\ bl = [u \in 0 .. BlUnits - 1 |-> ImageUnit(NoImage, u)]
    /\ act = NoAct /\ offered \in Offers /\ damaged = FALSE

SystemNext ==
    \/ BootStep \/ Activation \/ Receive
    \/ AppReset /\ UNCHANGED system
    \/ PowerFailureInSystem

SystemSpec == SystemInit /\ [][SystemNext]_allVars

\* The bootloader runs on by itself from a reset to its decision.
FairSystemSpec == SystemSpec /\ WF_allVars(BootStep \/ Activation)

-----------------------------------------------------------------------------
(* Properties.                                                             *)

SystemTypeOK ==
    /\ TypeOK
    /\ DOMAIN sd = 0 .. SdUnits - 1 /\ DOMAIN bl = 0 .. BlUnits - 1
    /\ act \in [target : 0 .. SdUnits, src : Nat, left : 0 .. SdUnits, split : 0 .. SdUnits]
    /\ damaged \in BOOLEAN

\* The settings page never loses track of an activation: as long as it records
\* one, the part that it calls copied is in place, and when it records none the
\* SoftDevice and the bootloader are each whole, of one image - at whatever
\* moment the power failed, except in a write of the settings in the midst of
\* the activation, or behind a part that does not end on a page.  A bootloader
\* that came alone is not looked for behind a SoftDevice of an earlier update.
ActivationTracked ==
    settings # NoSettings /\ ~damaged =>
        LET b == CurrentBank(settings) IN
        IF b.code \in SystemCodes
        THEN /\ b.code # "VALID_BL" =>
                   \A u \in 0 .. settings.write_offset - 1 : sd[u] = ImageUnit(b.crc, u)
             /\ BlWhole
             /\ b.code = "VALID_BL" => settings.sd_size = 0
        ELSE SdWhole /\ BlWhole

=============================================================================
