------------------------------ MODULE DfuBoot ------------------------------
(***************************************************************************)
(* The bootloader's persistent state across resets: the settings page      *)
(* (nrf_dfu_settings.c), the two banks of application flash and the copy   *)
(* of a validated application from bank 1 down to bank 0 after a reset     *)
(* (nrf_dfu_utils.c, nrf_dfu.c), with the reception of an image in DFU     *)
(* mode at the level of flash pages (dfu_req_handling.c).  The power may   *)
(* fail between any two flash operations and in the middle of one.         *)
(***************************************************************************)
EXTENDS Integers, FiniteSets

CONSTANTS
    Images,        \* images that may be received
    Kind,          \* Kind[i]: the type of image i
    Pages,         \* Pages[i]: the flash pages of image i
    SdSize,        \* SdSize[i]: sd_size of its init command, in units
    Region,        \* pages between the SoftDevice and the reserved data
    StorePages,    \* pages written by the store of one page of the copy
    Factory,       \* the image installed at the start
    Erased, Torn,  \* content of a page
    NoSettings,    \* a settings page whose CRC does not match
    NoImage,       \* no image; a CRC of 0
    FlashFails,    \* TRUE: a page of a received image may be stored wrongly
    PowerFails,    \* the stages in which the power may fail
    SettingsTear,  \* TRUE: the power may fail in a write of the settings
    MaxFailures    \* bound on the power failures

ASSUME DfuBootAssumption ==
    /\ Pages \in [Images -> Nat \ {0}] /\ SdSize \in [Images -> Nat]
    /\ Kind \in [Images -> {"APP", "SD", "BL", "SD_BL"}]
    /\ Factory \in Images /\ Kind[Factory] = "APP" /\ NoImage \notin Images
    /\ {Region, StorePages} \subseteq Nat \ {0} /\ MaxFailures \in Nat
    /\ \A i \in Images : Pages[i] <= Region
    /\ \A i \in Images : Kind[i] = "APP" => Pages[i] >= StorePages

VARIABLES
    flash,     \* the application region, by page
    settings,  \* the settings page, m_dfu_settings_buffer
    s,         \* s_dfu_settings
    write,     \* progress of nrf_dfu_settings_write
    pc,        \* the stage the bootloader is in
    copy,      \* locals of nrf_dfu_app_continue, in pages
    enter,     \* enter_bootloader_mode
    upd,       \* the image being received, its place and its progress
    promised,  \* history: the image that was last validated and recorded
    hurt,      \* history: since then, the power has failed in a copy or in a
               \* write of the settings
    failures   \* history: power failures so far

vars == <<flash, settings, s, write, pc, copy, enter, upd, promised, hurt, failures>>

Stages == {"reset", "continue", "copyErase", "copyStore", "copyCompare",
           "copyRelease", "copyNext", "sdCopy", "sdCompare", "sdSave", "sdDone",
           "blCompare", "blCopy", "check", "app", "dfu", "fault", "receive", "done"}

Copying == {"copyErase", "copyStore", "copyCompare", "copyRelease", "copyNext"}

NoBank == [code |-> "INVALID", crc |-> NoImage, size |-> 0]

\* write_offset counts pages; in the copy of a SoftDevice, units.
Zero == [layout |-> "DUAL", current |-> 0, bank0 |-> NoBank, bank1 |-> NoBank,
         write_offset |-> 0, sd_size |-> 0]

\* The bank code of each type of image.
BankCode == [APP |-> "VALID_APP", SD |-> "VALID_SD", BL |-> "VALID_BL",
             SD_BL |-> "VALID_SD_BL"]

SystemCodes == {"VALID_SD", "VALID_BL", "VALID_SD_BL"}

Bank == [code : {"INVALID", "VALID_APP"} \cup SystemCodes, crc : Images \cup {NoImage}, size : Nat]

Settings == [layout : {"DUAL", "SINGLE"}, current : {0, 1}, bank0 : Bank, bank1 : Bank,
             write_offset : Nat, sd_size : Nat]

\* A page whose CRC does not match is no record of the settings.
ASSUME SettingsAssumption == NoSettings \notin Settings

\* p_bank of nrf_dfu_continue
CurrentBank(r) == IF r.layout = "DUAL" /\ r.current = 1 THEN r.bank1 ELSE r.bank0

NoCopy == [target |-> 0, src |-> 0, left |-> 0]

NoUpdate == [image |-> NoImage, at |-> 0, next |-> 0, erased |-> FALSE]

\* The pages from page at hold all of image i.
WholeAt(f, i, at) == \A k \in 0 .. Pages[i] - 1 : f[at + k] = <<i, k>>

\* crc32_compute over size pages from the start of bank 0: it equals the CRC
\* recorded for an image only if the pages hold that image.
CrcMatches(f, b) ==
    b.crc \in Images /\ b.size = Pages[b.crc] /\ WholeAt(f, b.crc, 0)

\* Slip: a bank marked as valid is taken for a valid application.
nrf_dfu_app_is_valid_NoCrc(f, r) == r.bank0.code = "VALID_APP"

\* A CRC of 0 is not checked.
nrf_dfu_app_is_valid(f, r) ==
    /\ r.bank0.code = "VALID_APP"
    /\ r.bank0.crc # NoImage => CrcMatches(f, r.bank0)

Written(old, new) == IF old \in {Erased, new} THEN new ELSE Torn

-----------------------------------------------------------------------------
(* nrf_dfu_settings_write: the page is erased, then stored.  No other      *)
(* operation comes between the two: at boot the flash is written            *)
(* synchronously, in DFU mode in the order of the flash queue.             *)

Idle == write = "none"

settings_write == write' = "erase"

SettingsErase ==
    /\ write = "erase"
    /\ settings' = NoSettings
    /\ write' = "store"
    /\ UNCHANGED <<flash, s, pc, copy, enter, upd, promised, hurt, failures>>

SettingsStore ==
    /\ write = "store"
    /\ settings' = s
    /\ write' = "none"
    /\ LET done == pc = "done" /\ upd.image \in Images /\ Kind[upd.image] = "APP" IN
       /\ promised' = IF done THEN upd.image ELSE promised
       /\ hurt' = (hurt /\ ~done)
    /\ UNCHANGED <<flash, s, pc, copy, enter, upd, failures>>

-----------------------------------------------------------------------------
(* Boot.                                                                   *)

nrf_dfu_settings_init ==
    /\ pc = "reset"
    /\ \/ settings # NoSettings /\ s' = settings /\ UNCHANGED write
       \/ settings = NoSettings /\ s' = Zero /\ settings_write
    /\ enter' = FALSE
    /\ pc' = "continue"
    /\ UNCHANGED <<flash, settings, copy, upd, promised, hurt, failures>>

\* Slip: the application is copied from the bank that is not current.
nrf_dfu_continue_OtherBank ==
    /\ pc = "continue" /\ Idle /\ CurrentBank(s).code \notin SystemCodes
    /\ IF s.layout = "DUAL" /\ s.current = 1 /\ s.bank1.code = "VALID_APP"
       THEN /\ copy' = [target |-> s.write_offset, src |-> 0,
                        left |-> s.bank1.size - s.write_offset]
            /\ pc' = "copyErase"
       ELSE /\ pc' = "check"
            /\ UNCHANGED copy
    /\ UNCHANGED <<flash, settings, s, write, enter, upd, promised, hurt, failures>>

\* nrf_dfu_continue, nrf_dfu_continue_bank: an application is only copied when
\* it is in bank 1.  The target moves with write_offset, the source does not.
nrf_dfu_continue ==
    /\ pc = "continue" /\ Idle /\ CurrentBank(s).code \notin SystemCodes
    /\ IF s.layout = "DUAL" /\ s.current = 1 /\ s.bank1.code = "VALID_APP"
       THEN /\ copy' = [target |-> s.write_offset, src |-> s.bank0.size,
                        left |-> s.bank1.size - s.write_offset]
            /\ pc' = "copyErase"
       ELSE /\ pc' = "check"
            /\ UNCHANGED copy
    /\ UNCHANGED <<flash, settings, s, write, enter, upd, promised, hurt, failures>>

\* cur_len, in pages
Cur == IF copy.left = 0 THEN 0 ELSE 1

CopyErase ==
    /\ pc = "copyErase"
    /\ flash' = [flash EXCEPT ![copy.target] = Erased]
    /\ pc' = "copyStore"
    /\ UNCHANGED <<settings, s, write, copy, enter, upd, promised, hurt, failures>>

\* nrf_nvmc_write_words is given the length in bytes for the length in words,
\* so that StorePages pages are written, one after the other.
PagesStored ==
    LET n == StorePages * Cur
        Source(f, k) == IF copy.src + k < Region THEN f[copy.src + k] ELSE Torn
        f[k \in 0 .. n] ==
            IF k = 0 THEN flash
            ELSE [f[k - 1] EXCEPT ![copy.target + k - 1] =
                                     Written(@, Source(f[k - 1], k - 1))]
    IN  f[n]

CopyStore ==
    /\ pc = "copyStore"
    /\ flash' = PagesStored
    /\ pc' = "copyCompare"
    /\ UNCHANGED <<settings, s, write, copy, enter, upd, promised, hurt, failures>>

\* "We will not retry the copy": the bootloader goes to DFU mode.
CopyCompare ==
    /\ pc = "copyCompare"
    /\ IF Cur = 1 /\ (copy.src >= Region \/ flash[copy.target] # flash[copy.src])
       THEN pc' = "check" /\ enter' = TRUE /\ copy' = NoCopy
       ELSE pc' = "copyRelease" /\ UNCHANGED <<enter, copy>>
    /\ UNCHANGED <<flash, settings, s, write, upd, promised, hurt, failures>>

\* Slip: the pages stored are counted, not the pages copied.
CopyRelease_CountsStored ==
    /\ pc = "copyRelease"
    /\ flash' = IF copy.src < Region THEN [flash EXCEPT ![copy.src] = Erased] ELSE flash
    /\ s' = [s EXCEPT !.write_offset = @ + StorePages * Cur]
    /\ settings_write
    /\ pc' = "copyNext"
    /\ UNCHANGED <<settings, copy, enter, upd, promised, hurt, failures>>

\* "Erase the head (to handle growing bank 0)", then the progress is saved.
CopyRelease ==
    /\ pc = "copyRelease"
    /\ flash' = IF copy.src < Region THEN [flash EXCEPT ![copy.src] = Erased] ELSE flash
    /\ s' = [s EXCEPT !.write_offset = @ + Cur]
    /\ settings_write
    /\ pc' = "copyNext"
    /\ UNCHANGED <<settings, copy, enter, upd, promised, hurt, failures>>

\* Slip: the loop runs while the unsigned length is not negative.
CopyNext_Unsigned ==
    /\ pc = "copyNext" /\ Idle
    /\ copy' = [target |-> copy.target + Cur, src |-> copy.src + Cur, left |-> copy.left - Cur]
    /\ pc' = "copyErase"
    /\ UNCHANGED <<flash, settings, s, write, enter, upd, promised, hurt, failures>>

\* The end of the loop of nrf_dfu_app_continue and what follows it.
CopyNext ==
    /\ pc = "copyNext" /\ Idle
    /\ IF copy.left > Cur
       THEN /\ copy' = [target |-> copy.target + 1, src |-> copy.src + 1, left |-> copy.left - 1]
            /\ pc' = "copyErase"
            /\ UNCHANGED <<s, write>>
       ELSE /\ copy' = NoCopy
            /\ s' = [Zero EXCEPT !.bank0 = IF CrcMatches(flash, s.bank1)
                                           THEN s.bank1 ELSE s.bank0]
            /\ settings_write
            /\ pc' = "check"
    /\ UNCHANGED <<flash, settings, enter, upd, promised, hurt, failures>>

\* nrf_dfu_init: the button, a failed continuation or the lack of a valid
\* application lead to DFU mode.
Check ==
    /\ pc = "check" /\ Idle
    /\ \E button \in BOOLEAN :
          pc' = IF enter \/ button \/ ~nrf_dfu_app_is_valid(flash, s) THEN "dfu" ELSE "app"
    /\ UNCHANGED <<flash, settings, s, write, copy, enter, upd, promised, hurt, failures>>

-----------------------------------------------------------------------------
(* DFU mode.                                                               *)

\* Slip: the second bank starts where the region does.
nrf_dfu_find_cache_FromStart(i) ==
    IF s.bank0.code = "VALID_APP" /\ Pages[i] <= Region - s.bank0.size
    THEN [at |-> 0,
          settings |-> [s EXCEPT !.layout = "DUAL", !.current = 1,
                                 !.bank1 = [NoBank EXCEPT !.size = Pages[i]]]]
    ELSE [at |-> 0,
          settings |-> [s EXCEPT !.layout = IF s.bank0.code = "VALID_APP"
                                            THEN "SINGLE" ELSE "DUAL",
                                 !.current = 0,
                                 !.bank0 = [NoBank EXCEPT !.size = Pages[i]]]]

\* Behind a valid application when there is room, over it when there is not.
nrf_dfu_find_cache(i) ==
    IF s.bank0.code = "VALID_APP" /\ Pages[i] <= Region - s.bank0.size
    THEN [at |-> s.bank0.size,
          settings |-> [s EXCEPT !.layout = "DUAL", !.current = 1,
                                 !.bank1 = [NoBank EXCEPT !.size = Pages[i]]]]
    ELSE [at |-> 0,
          settings |-> [s EXCEPT !.layout = IF s.bank0.code = "VALID_APP"
                                            THEN "SINGLE" ELSE "DUAL",
                                 !.current = 0,
                                 !.bank0 = [NoBank EXCEPT !.size = Pages[i]]]]

\* A valid init command: the place is chosen and the settings saved.
InitCommand(i) ==
    /\ pc \in {"dfu", "receive"} /\ Idle
    /\ LET c == nrf_dfu_find_cache(i) IN
       /\ s' = [c.settings EXCEPT !.write_offset = 0]
       /\ upd' = [image |-> i, at |-> c.at, next |-> 0, erased |-> FALSE]
    /\ settings_write
    /\ pc' = "receive"
    /\ promised' = IF Kind[i] # "APP" /\ s'.current = 1 THEN promised ELSE NoImage
    /\ UNCHANGED <<flash, settings, copy, enter, hurt, failures>>

\* An object of one page is created.
ObjectErase ==
    /\ pc = "receive" /\ Idle
    /\ ~upd.erased /\ upd.next < Pages[upd.image]
    /\ flash' = [flash EXCEPT ![upd.at + upd.next] = Erased]
    /\ upd' = [upd EXCEPT !.erased = TRUE]
    /\ UNCHANGED <<settings, s, write, pc, copy, enter, promised, hurt, failures>>

\* The object is received and executed, and the progress saved.
ObjectStore ==
    /\ pc = "receive" /\ Idle
    /\ upd.erased
    /\ \E data \in {<<upd.image, upd.next>>} \cup (IF FlashFails THEN {Torn} ELSE {}) :
          flash' = [flash EXCEPT ![upd.at + upd.next] = data]
    /\ upd' = [upd EXCEPT !.next = @ + 1, !.erased = FALSE]
    /\ s' = [s EXCEPT !.write_offset = @ + 1]
    /\ settings_write
    /\ UNCHANGED <<settings, pc, copy, enter, promised, hurt, failures>>

\* nrf_dfu_postvalidate: the hash of the flash decides; the settings are saved
\* and the device reset when they are stored.
PostValidate ==
    /\ pc = "receive" /\ Idle
    /\ upd.next = Pages[upd.image]
    /\ LET ok == WholeAt(flash, upd.image, upd.at)
           kind == Kind[upd.image]
           bank == IF ok THEN [code |-> BankCode[kind], crc |-> upd.image, size |-> upd.next]
                         ELSE NoBank
       IN  /\ s' = [s EXCEPT !.write_offset = 0,
                             !.sd_size = IF ok /\ kind \in {"SD", "SD_BL"}
                                         THEN SdSize[upd.image] ELSE @,
                             !.bank0 = IF s.current = 0 THEN bank ELSE @,
                             !.bank1 = IF s.current = 1 THEN bank ELSE @]
           /\ upd' = IF ok THEN upd ELSE NoUpdate
    /\ settings_write
    /\ pc' = "done"
    /\ UNCHANGED <<flash, settings, copy, enter, promised, hurt, failures>>

Restarted ==
    /\ pc' = "reset" /\ write' = "none"
    /\ s' = Zero /\ copy' = NoCopy /\ enter' = FALSE /\ upd' = NoUpdate

\* on_dfu_complete
on_dfu_complete ==
    /\ pc = "done" /\ Idle
    /\ Restarted
    /\ UNCHANGED <<flash, settings, promised, hurt, failures>>

\* The user resets the running device.
AppReset ==
    /\ pc \in {"app", "dfu", "fault"} /\ Idle
    /\ Restarted
    /\ UNCHANGED <<flash, settings, promised, hurt, failures>>

\* The page that the next flash operation of a stage changes.
InHand ==
    CASE pc \in {"copyErase", "copyStore"} -> {copy.target}
      [] pc = "copyRelease" -> {copy.src} \cap 0 .. Region - 1
      [] pc = "receive" -> {upd.at + upd.next} \cap 0 .. Region - 1
      [] OTHER -> {}

\* The power fails before the next flash operation or in the middle of it.
PowerFailure ==
    /\ failures < MaxFailures
    /\ pc \in PowerFails
    /\ \/ /\ Idle
          /\ UNCHANGED settings
          /\ \/ UNCHANGED flash
             \/ \E p \in InHand : flash' = [flash EXCEPT ![p] = Torn]
       \/ /\ ~Idle /\ SettingsTear
          /\ settings' \in IF write = "erase" THEN {settings, NoSettings} ELSE {NoSettings}
          /\ UNCHANGED flash
    /\ failures' = failures + 1
    /\ hurt' = (hurt \/ ~Idle \/ pc \in Copying)
    /\ Restarted
    /\ UNCHANGED promised

Init ==
    /\ flash = [p \in 0 .. Region - 1 |->
                  IF p < Pages[Factory] THEN <<Factory, p>> ELSE Erased]
    /\ settings = [Zero EXCEPT !.bank0 = [code |-> "VALID_APP", crc |-> Factory,
                                          size |-> Pages[Factory]]]
    /\ s = Zero /\ write = "none" /\ pc = "reset" /\ copy = NoCopy /\ enter = FALSE
    /\ upd = NoUpdate /\ promised = Factory /\ hurt = FALSE /\ failures = 0

Next ==
    \/ SettingsErase \/ SettingsStore
    \/ nrf_dfu_settings_init \/ nrf_dfu_continue
    \/ CopyErase \/ CopyStore \/ CopyCompare \/ CopyRelease \/ CopyNext
    \/ Check
    \/ \E i \in Images : InitCommand(i)
    \/ ObjectErase \/ ObjectStore \/ PostValidate \/ on_dfu_complete
    \/ AppReset \/ PowerFailure

Spec == Init /\ [][Next]_vars

-----------------------------------------------------------------------------
(* Properties.                                                             *)

Content == (Images \X Nat) \cup {Erased, Torn}

TypeOK ==
    /\ flash \in [0 .. Region - 1 -> Content]
    /\ settings \in Settings \cup {NoSettings} /\ s \in Settings
    /\ write \in {"none", "erase", "store"}
    /\ pc \in Stages
    /\ copy \in [target : 0 .. Region, src : Nat, left : Nat]
    /\ enter \in BOOLEAN
    /\ upd \in [image : Images \cup {NoImage}, at : Nat, next : Nat, erased : BOOLEAN]
    /\ promised \in Images \cup {NoImage}
    /\ hurt \in BOOLEAN

\* nrf_dfu_init jumps to an application only if all of it is there, whatever
\* was interrupted before.
BootsWhole == pc = "app" => \E i \in Images : WholeAt(flash, i, 0)

\* An update that is received behind the application leaves every page of it
\* alone, so it can go on being used if the update is never finished.
ReceivingKeepsApp ==
    [][pc = "receive" /\ s.current = 1 =>
          \A p \in 0 .. s.bank0.size - 1 : flash'[p] = flash[p]]_vars

\* nrf_dfu_utils.h: the routines that nrf_dfu_continue initiates or continues
\* are fail-safe - an application that was validated and recorded is that of
\* every later boot until an update starts that replaces it.
FailSafe ==
    pc \in {"app", "dfu"} /\ promised # NoImage =>
        /\ nrf_dfu_app_is_valid(flash, s)
        /\ s.bank0.crc = promised

\* The same as long as the power has failed neither in the copy nor in a write
\* of the settings since the image was validated, whatever was interrupted or
\* stored wrongly before.
ValidatedIsInstalled == ~hurt => FailSafe

\* Every reset ends in an application that runs, in DFU mode or, when a copy of
\* the SoftDevice was cut off, in a fault: no content of the flash and of the
\* settings makes the bootloader reset or copy for ever.
BootDecides == pc = "reset" ~> pc \in {"app", "dfu", "fault"}

=============================================================================
