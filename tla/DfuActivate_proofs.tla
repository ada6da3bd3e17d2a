------------------------- MODULE DfuActivate_proofs -------------------------
(***************************************************************************)
(* Proofs about DfuActivate, for every set of images and every size of the *)
(* flash: what is booted is whole, an update behind the application leaves *)
(* it alone, a validated application stays installed, and the settings     *)
(* never lose track of an activation.                                      *)
(***************************************************************************)
EXTENDS DfuActivate, Arithmetic

\* Only a bank whose image is whole is marked as valid.
BankOK(b) ==
    b.code # "INVALID" =>
        b.crc \in Images /\ b.code = BankCode[Kind[b.crc]] /\ b.size = Pages[b.crc]

\* The first page of the current bank.
Place(r) == IF r.current = 1 THEN r.bank0.size ELSE 0

WithSd == {"VALID_SD", "VALID_SD_BL"}

WithBl == {"VALID_BL", "VALID_SD_BL"}

\* What every record of the settings satisfies.
RecordOK(r) ==
    /\ r \in Settings /\ BankOK(r.bank0) /\ BankOK(r.bank1) /\ r.sd_size <= SdUnits
    /\ r.current = 1 =>
          /\ r.layout = "DUAL" /\ r.bank0.code = "VALID_APP"
          /\ r.bank0.size + r.bank1.size <= Region
          /\ r.bank1.code = "VALID_APP" => r.write_offset <= r.bank1.size
    /\ CurrentBank(r).code \in WithSd =>
          r.sd_size = SdSize[CurrentBank(r).crc] /\ r.write_offset <= r.sd_size

Quiet == {"reset", "copyErase", "copyStore", "copyCompare", "copyRelease",
          "sdCompare", "sdSave", "blCompare", "blCopy", "app", "dfu", "fault"}

\* The settings page and its copy in RAM differ only while a write is on.
RecordsOK ==
    /\ RecordOK(s) /\ (settings # NoSettings => RecordOK(settings))
    /\ settings = NoSettings \/ settings \in Settings
    /\ write \in {"none", "erase", "store"}
    /\ pc \in Quiet => Idle
    /\ pc # "reset" /\ Idle => settings = s

\* The copy of an application, from bank 1 to bank 0.
CopyOK ==
    pc \in Copying =>
        /\ s.current = 1 /\ s.bank1.code = "VALID_APP"
        /\ copy.target + copy.left = s.bank1.size
        /\ s.write_offset = IF pc = "copyNext" THEN copy.target + Cur ELSE copy.target

\* The reception of an image and its validation.
ReceiveOK ==
    /\ pc = "receive" =>
          /\ upd.image \in Images /\ upd.at = Place(s)
          /\ upd.next <= Pages[upd.image] /\ (upd.erased => upd.next < Pages[upd.image])
          /\ upd.at + Pages[upd.image] <= Region
          /\ CurrentBank(s).code = "INVALID"
    /\ pc = "done" =>
          /\ s.write_offset = 0
          /\ upd.image \in Images =>
                /\ CurrentBank(s) = [code |-> BankCode[Kind[upd.image]], crc |-> upd.image,
                                     size |-> Pages[upd.image]]
                /\ WholeAt(flash, upd.image, Place(s))

\* The copy of a SoftDevice part by part, and the stages behind it.
ActOK ==
    /\ pc \in {"sdCopy", "sdCompare", "sdSave"} =>
          /\ CurrentBank(s).code \in WithSd
          /\ act.left > 0 /\ act.split > 0
          /\ act.left % PageUnits = 0 /\ act.split % PageUnits = 0
          /\ act.target + act.left \in s.sd_size .. s.sd_size + PageUnits - 1
          /\ act.src = PageUnits * Place(s) + act.target
    /\ pc = "sdDone" => CurrentBank(s).code \in WithSd /\ s.write_offset = s.sd_size
    /\ pc \in {"blCompare", "blCopy"} =>
          /\ CurrentBank(s).code \in WithBl
          /\ CurrentBank(s).code = "VALID_SD_BL" => s.write_offset = s.sd_size

BaseInv == SystemTypeOK /\ offered \subseteq Images /\ RecordsOK /\ CopyOK /\ ReceiveOK /\ ActOK

-----------------------------------------------------------------------------

\* A validated application is in bank 0, with nothing on the way to replace it,
Installed(r) ==
    /\ r.bank0.code = "VALID_APP" /\ r.bank0.crc = promised
    /\ WholeAt(flash, promised, 0)
    /\ r.current = 1 => r.bank1.code # "VALID_APP"

\* or it is in bank 1, and the next boot will copy it.
Waiting(r) ==
    /\ r.current = 1 /\ r.bank1.code = "VALID_APP" /\ r.bank1.crc = promised
    /\ r.write_offset = 0
    /\ WholeAt(flash, promised, r.bank0.size)

\* In the copy, the pages in front of the target are in place, those behind it
\* still in bank 1.
Moving ==
    LET j == copy.target IN
    /\ s.bank1.crc = promised /\ copy.left > 0 /\ copy.src = s.bank0.size + j
    /\ \A k \in 0 .. Pages[promised] - 1 :
          /\ k < j \/ (k = j /\ pc \in {"copyCompare", "copyRelease", "copyNext"}) =>
                flash[k] = <<promised, k>>
          /\ k > j \/ (k = j /\ pc # "copyNext") =>
                flash[s.bank0.size + k] = <<promised, k>>
    /\ pc = "copyStore" => flash[j] = Erased

Kept ==
    ~hurt /\ promised # NoImage =>
        /\ Kind[promised] = "APP"
        /\ pc = "reset" => settings # NoSettings /\ (Installed(settings) \/ Waiting(settings))
        /\ pc \in {"continue", "fault", "done"} => Installed(s) \/ Waiting(s)
        /\ pc \in Copying => Moving
        /\ pc = "receive" => Kind[upd.image] # "APP"
        /\ pc \notin Copying \cup {"reset", "continue", "fault", "done"} => Installed(s)

-----------------------------------------------------------------------------

\* Relative to a record: an image that it activates is whole in its bank, and
\* either what it calls copied is in place or the SoftDevice is whole.
Tracked(r) ==
    LET b == CurrentBank(r) IN
    /\ b.code \in SystemCodes => WholeAt(flash, b.crc, Place(r))
    /\ IF b.code \in WithSd
       THEN \A u \in 0 .. r.write_offset - 1 : sd[u] = ImageUnit(b.crc, u)
       ELSE SdWhole /\ r.sd_size = 0

Part == {u \in 0 .. SdUnits - 1 : act.target <= u /\ u < act.target + act.split}

\* The part that was copied is that of the image, or torn as a whole.
PartCopied == \A u \in Part : sd[u] = RegionUnit(act.src + u - act.target)

PartTorn == \A u \in Part : sd[u] = Torn

Tracking ==
    ~damaged =>
        /\ BlWhole
        /\ settings # NoSettings => Tracked(settings)
        /\ pc # "reset" => Tracked(s)
        /\ pc = "reset" /\ settings = NoSettings => SdWhole
        /\ pc \in {"check", "dfu", "app"} /\ CurrentBank(s).code \in SystemCodes => ~SdWhole
        /\ pc \in {"sdCopy", "sdCompare", "sdSave"} =>
              /\ act.target % PageUnits = 0 /\ s.write_offset <= act.target
              /\ \A u \in 0 .. act.target - 1 :
                    u < s.sd_size => sd[u] = ImageUnit(CurrentBank(s).crc, u)
        /\ pc = "sdCompare" => PartCopied \/ PartTorn
        /\ pc = "sdSave" => PartCopied

-----------------------------------------------------------------------------
(* The sizes of the images, and what a record says of its banks.           *)

LEMMA Sizes ==
    /\ Region \in Nat /\ Region > 0 /\ StorePages \in Nat /\ StorePages > 0
    /\ PageUnits \in Nat \ {0} /\ SdUnits \in Nat \ {0} /\ BlUnits \in Nat \ {0}
    /\ NoImage \notin Images /\ Factory \in Images /\ Kind[Factory] = "APP"
    /\ \A i \in Images :
          /\ Pages[i] \in Nat /\ Pages[i] > 0 /\ Pages[i] <= Region
          /\ SdSize[i] \in Nat /\ SdSize[i] <= SdUnits
          /\ BlSize[i] \in Nat /\ BlSize[i] <= BlUnits
          /\ Kind[i] \in {"APP", "SD", "BL", "SD_BL"}
  BY DfuBootAssumption, DfuActivateAssumption

\* Only an image with a SoftDevice has a size of one, and it fills its pages.
LEMMA SdSizes ==
    ASSUME NEW i \in Images
    PROVE  IF Kind[i] \in {"SD", "SD_BL"}
           THEN SdSize[i] > 0 /\ SdSize[i] > SdUnits - PageUnits
           ELSE SdSize[i] = 0
  <1>1. SdUnits >= PageUnits
    BY DfuActivateAssumption
  <1>2. IF Kind[i] \in {"SD", "SD_BL"} THEN SdSize[i] > SdUnits - PageUnits
        ELSE SdSize[i] = 0
    BY DfuActivateAssumption
  <1> QED BY <1>1, <1>2, Sizes

LEMMA BankCodes ==
    ASSUME NEW i \in Images
    PROVE  /\ BankCode[Kind[i]] \in {"VALID_APP", "VALID_SD", "VALID_BL", "VALID_SD_BL"}
           /\ BankCode[Kind[i]] = "VALID_APP" <=> Kind[i] = "APP"
           /\ BankCode[Kind[i]] \in WithSd <=> Kind[i] \in {"SD", "SD_BL"}
           /\ BankCode[Kind[i]] \in WithBl <=> Kind[i] \in {"BL", "SD_BL"}
           /\ BankCode[Kind[i]] = "VALID_BL" <=> Kind[i] = "BL"
           /\ BankCode[Kind[i]] \in SystemCodes <=> Kind[i] # "APP"
  BY Sizes DEF BankCode, WithSd, WithBl, SystemCodes

LEMMA CurrentIs ==
    ASSUME NEW r, RecordOK(r)
    PROVE  /\ r.current \in {0, 1} /\ CurrentBank(r) \in Bank
           /\ CurrentBank(r) = IF r.current = 1 THEN r.bank1 ELSE r.bank0
           /\ BankOK(CurrentBank(r)) /\ Place(r) \in Nat
           /\ r.layout = "DUAL" /\ r.current = 1 <=> r.current = 1
  BY DEF RecordOK, CurrentBank, Settings, Bank, Place

LEMMA ZeroOK == NoBank \in Bank /\ Zero \in Settings /\ RecordOK(Zero)
  <1>1. NoBank \in Bank /\ NoBank.code = "INVALID"
    BY DEF NoBank, Bank
  <1>2. Zero \in Settings
    BY <1>1 DEF Zero, Settings
  <1>3. Zero.bank0 = NoBank /\ Zero.bank1 = NoBank /\ Zero.current = 0 /\ Zero.sd_size = 0
    BY DEF Zero
  <1>4. CurrentBank(Zero) = NoBank
    BY <1>3 DEF CurrentBank
  <1> QED BY <1>1, <1>2, <1>3, <1>4, Sizes DEF RecordOK, BankOK, WithSd

-----------------------------------------------------------------------------
(* The records.                                                            *)

\* A step that leaves the settings, their copy and the write alone.
LEMMA RecordsFrame ==
    ASSUME RecordsOK, UNCHANGED <<s, settings, write>>, pc' \in Quiet => Idle,
           pc' # "reset" /\ Idle => settings = s
    PROVE  RecordsOK'
  BY DEF RecordsOK, Idle

\* A step that changes the copy in RAM and has it written.
LEMMA RecordsWrite ==
    ASSUME RecordsOK, RecordOK(s'), settings_write, settings' = settings, pc' \notin Quiet
    PROVE  RecordsOK'
  BY DEF RecordsOK, Idle, settings_write

\* A step that starts the device again.
LEMMA RecordsRestart ==
    ASSUME RecordsOK, Restarted, settings' \in {settings, NoSettings}
    PROVE  RecordsOK'
  <1>1. s' = Zero /\ write' = "none" /\ pc' = "reset"
    BY DEF Restarted
  <1>2. RecordOK(s')
    BY <1>1, ZeroOK
  <1> QED BY <1>1, <1>2 DEF RecordsOK, Idle

\* The records that the steps make.
LEMMA InitRecord ==
    ASSUME RecordOK(s), NEW i \in Images,
           s' = [nrf_dfu_find_cache(i).settings EXCEPT !.write_offset = 0]
    PROVE  /\ RecordOK(s') /\ CurrentBank(s').code = "INVALID"
           /\ nrf_dfu_find_cache(i).at = Place(s')
           /\ Place(s') + Pages[i] <= Region
           /\ s'.sd_size = s.sd_size /\ s'.write_offset = 0
           /\ s'.current = 1 => s'.bank0 = s.bank0
  <1> DEFINE b == [NoBank EXCEPT !.size = Pages[i]]
  <1>1. b \in Bank /\ b.code = "INVALID" /\ b.size = Pages[i]
    BY Sizes DEF NoBank, Bank
  <1>2. CASE s.bank0.code = "VALID_APP" /\ Pages[i] <= Region - s.bank0.size
    <2>1. /\ nrf_dfu_find_cache(i).at = s.bank0.size
          /\ s' = [s EXCEPT !.layout = "DUAL", !.current = 1, !.bank1 = b, !.write_offset = 0]
      <3>1. nrf_dfu_find_cache(i) =
               [at |-> s.bank0.size,
                settings |-> [s EXCEPT !.layout = "DUAL", !.current = 1, !.bank1 = b]]
        BY <1>2 DEF nrf_dfu_find_cache
      <3> QED BY <3>1
    <2> HIDE DEF b
    <2>2. /\ s' \in Settings /\ s'.layout = "DUAL" /\ s'.current = 1 /\ s'.bank0 = s.bank0
          /\ s'.bank1 = b /\ s'.write_offset = 0 /\ s'.sd_size = s.sd_size
      <3>1. s' = [layout |-> "DUAL", current |-> 1, bank0 |-> s.bank0, bank1 |-> b,
            write_offset |-> 0, sd_size |-> s.sd_size]
        BY <2>1 DEF RecordOK, Settings
      <3>2. s.bank0 \in Bank /\ s.sd_size \in Nat
        BY DEF RecordOK, Settings
      <3> QED BY <3>1, <3>2, <1>1 DEF Settings
    <2>3. CurrentBank(s') = b
      BY <2>2 DEF CurrentBank
    <2>4. s.bank0.size \in Nat
      BY DEF RecordOK, Settings, Bank
    <2>5. RecordOK(s')
      BY <2>2, <2>3, <2>4, <1>1, <1>2, Sizes DEF RecordOK, BankOK, WithSd
    <2> QED BY <2>1, <2>2, <2>3, <2>4, <2>5, <1>1, <1>2, Sizes DEF Place
  <1>3. CASE ~(s.bank0.code = "VALID_APP" /\ Pages[i] <= Region - s.bank0.size)
    <2> DEFINE l == IF s.bank0.code = "VALID_APP" THEN "SINGLE" ELSE "DUAL"
    <2>1. /\ nrf_dfu_find_cache(i).at = 0
          /\ s' = [s EXCEPT !.layout = l, !.current = 0, !.bank0 = b, !.write_offset = 0]
      <3>1. nrf_dfu_find_cache(i) =
               [at |-> 0, settings |-> [s EXCEPT !.layout = l, !.current = 0, !.bank0 = b]]
        BY <1>3 DEF nrf_dfu_find_cache
      <3> QED BY <3>1
    <2>2. l \in {"SINGLE", "DUAL"}
      OBVIOUS
    <2> HIDE DEF b, l
    <2>3. /\ s' \in Settings /\ s'.current = 0 /\ s'.bank0 = b /\ s'.bank1 = s.bank1
          /\ s'.write_offset = 0 /\ s'.sd_size = s.sd_size
      <3>1. s' = [layout |-> l, current |-> 0, bank0 |-> b, bank1 |-> s.bank1,
            write_offset |-> 0, sd_size |-> s.sd_size]
        BY <2>1 DEF RecordOK, Settings
      <3>2. s.bank1 \in Bank /\ s.sd_size \in Nat
        BY DEF RecordOK, Settings
      <3> QED BY <3>1, <3>2, <2>2, <1>1 DEF Settings
    <2>4. CurrentBank(s') = b
      BY <2>3 DEF CurrentBank
    <2>5. RecordOK(s')
      BY <2>3, <2>4, <1>1, Sizes DEF RecordOK, BankOK, WithSd
    <2> QED BY <2>1, <2>3, <2>4, <2>5, <1>1, Sizes DEF Place
  <1> QED BY <1>2, <1>3

\* A record whose progress is set.
LEMMA ProgressRecord ==
    ASSUME RecordOK(s), NEW w \in Nat, s' = [s EXCEPT !.write_offset = w],
           CurrentBank(s).code \in WithSd => w <= s.sd_size,
           s.current = 1 /\ s.bank1.code = "VALID_APP" => w <= s.bank1.size
    PROVE  /\ RecordOK(s') /\ CurrentBank(s') = CurrentBank(s) /\ Place(s') = Place(s)
           /\ s'.current = s.current /\ s'.bank0 = s.bank0 /\ s'.bank1 = s.bank1
           /\ s'.sd_size = s.sd_size /\ s'.write_offset = w
  <1>1. s' \in Settings
    BY DEF RecordOK, Settings
  <1>2. /\ s'.layout = s.layout /\ s'.current = s.current
        /\ s'.bank0 = s.bank0 /\ s'.bank1 = s.bank1
        /\ s'.sd_size = s.sd_size /\ s'.write_offset = w
    BY DEF RecordOK, Settings
  <1>3. CurrentBank(s') = CurrentBank(s) /\ Place(s') = Place(s)
    BY <1>2 DEF CurrentBank, Place
  <1>4. RecordOK(s')
    BY <1>1, <1>2, <1>3 DEF RecordOK
  <1> QED BY <1>2, <1>3, <1>4

\* The records behind a finished activation.
LEMMA ClearedRecord ==
    ASSUME NEW b \in Bank, BankOK(b), NEW r
    PROVE  /\ b.code \notin WithSd /\ r = [Zero EXCEPT !.bank0 = b] =>
                 /\ RecordOK(r) /\ CurrentBank(r) = b /\ r.current = 0 /\ r.bank0 = b
                 /\ r.sd_size = 0 /\ r.write_offset = 0
           /\ r = [Zero EXCEPT !.bank1 = b] =>
                 /\ RecordOK(r) /\ CurrentBank(r) = NoBank /\ r.current = 0
                 /\ r.bank0 = NoBank /\ r.sd_size = 0 /\ r.write_offset = 0
  <1>1. NoBank \in Bank /\ NoBank.code = "INVALID"
    BY ZeroOK DEF NoBank
  <1>2. ASSUME b.code \notin WithSd, r = [Zero EXCEPT !.bank0 = b]
        PROVE  /\ RecordOK(r) /\ CurrentBank(r) = b /\ r.current = 0 /\ r.bank0 = b
               /\ r.sd_size = 0 /\ r.write_offset = 0
    <2>1. r = [layout |-> "DUAL", current |-> 0, bank0 |-> b, bank1 |-> NoBank,
               write_offset |-> 0, sd_size |-> 0]
      BY <1>2 DEF Zero
    <2>2. r \in Settings
      BY <2>1, <1>1 DEF Settings
    <2>3. CurrentBank(r) = b
      BY <2>1 DEF CurrentBank
    <2> QED BY <2>1, <2>2, <2>3, <1>1, <1>2, Sizes DEF RecordOK, BankOK
  <1>3. ASSUME r = [Zero EXCEPT !.bank1 = b]
        PROVE  /\ RecordOK(r) /\ CurrentBank(r) = NoBank /\ r.current = 0
               /\ r.bank0 = NoBank /\ r.sd_size = 0 /\ r.write_offset = 0
    <2>1. r = [layout |-> "DUAL", current |-> 0, bank0 |-> NoBank, bank1 |-> b,
               write_offset |-> 0, sd_size |-> 0]
      BY <1>3 DEF Zero
    <2>2. r \in Settings
      BY <2>1, <1>1 DEF Settings
    <2>3. CurrentBank(r) = NoBank
      BY <2>1 DEF CurrentBank
    <2> QED BY <2>1, <2>2, <2>3, <1>1, Sizes DEF RecordOK, BankOK, WithSd
  <1> QED BY <1>2, <1>3

LEMMA InvalidatedRecord ==
    ASSUME RecordOK(s), nrf_dfu_invalidate_bank
    PROVE  /\ RecordOK(s') /\ CurrentBank(s').code \notin SystemCodes
           /\ s'.current = 0 /\ s'.sd_size = 0 /\ s'.write_offset = 0
           /\ s.current = 1 => s'.bank0 = s.bank0
  <1>1. s.bank0 \in Bank /\ s.bank1 \in Bank /\ BankOK(s.bank0) /\ BankOK(s.bank1)
    BY DEF RecordOK, Settings
  <1>2. s.current \in {0, 1}
    BY DEF RecordOK, Settings
  <1>3. CASE s.current = 1
    <2>1. s.layout = "DUAL" /\ CurrentBank(s) = s.bank1 /\ s.bank0.code = "VALID_APP"
      BY <1>3 DEF RecordOK, CurrentBank
    <2>2. s' = [Zero EXCEPT !.bank0 = s.bank0] /\ s.bank0.code \notin SystemCodes \cup WithSd
      BY <2>1, <1>3 DEF nrf_dfu_invalidate_bank, SystemCodes, WithSd
    <2> QED BY <2>2, <1>1, ClearedRecord
  <1>4. CASE s.current = 0
    <2>1. s' = [Zero EXCEPT !.bank1 = s.bank1]
      BY <1>4 DEF nrf_dfu_invalidate_bank
    <2>2. /\ RecordOK(s') /\ CurrentBank(s') = NoBank /\ s'.current = 0
          /\ s'.sd_size = 0 /\ s'.write_offset = 0
      BY <2>1, <1>1, ClearedRecord
    <2>3. NoBank.code \notin SystemCodes
      BY DEF NoBank, SystemCodes
    <2>4. CurrentBank(s') = CurrentBank(s)'
      OBVIOUS
    <2> QED BY <2>2, <2>3, <1>4
  <1> QED BY <1>2, <1>3, <1>4

LEMMA ValidatedRecord ==
    ASSUME RecordOK(s), ReceiveOK, PostValidate
    PROVE  LET ok == WholeAt(flash, upd.image, upd.at)
               i == upd.image
           IN  /\ i \in Images /\ upd.at = Place(s)
               /\ RecordOK(s') /\ Place(s') = Place(s) /\ s'.write_offset = 0
               /\ s'.current = s.current /\ (s.current = 1 => s'.bank0 = s.bank0)
               /\ CurrentBank(s') = IF ok THEN [code |-> BankCode[Kind[i]], crc |-> i,
                                                 size |-> Pages[i]]
                                     ELSE NoBank
               /\ s'.sd_size = IF ok /\ Kind[i] \in {"SD", "SD_BL"} THEN SdSize[i]
                               ELSE s.sd_size
  <1> DEFINE ok == WholeAt(flash, upd.image, upd.at)
             i == upd.image
             bank == IF ok THEN [code |-> BankCode[Kind[i]], crc |-> i, size |-> Pages[i]]
                           ELSE NoBank
             z == IF ok /\ Kind[i] \in {"SD", "SD_BL"} THEN SdSize[i] ELSE s.sd_size
             x0 == IF s.current = 0 THEN bank ELSE s.bank0
             x1 == IF s.current = 1 THEN bank ELSE s.bank1
  <1>1. /\ i \in Images /\ upd.at = Place(s) /\ Place(s) + Pages[i] <= Region
        /\ CurrentBank(s).code = "INVALID" /\ upd.next = Pages[i]
    BY DEF PostValidate, ReceiveOK
  <1>2. s' = [s EXCEPT !.write_offset = 0, !.sd_size = z, !.bank0 = x0, !.bank1 = x1]
    BY <1>1 DEF PostValidate
  <1>3. ok \in BOOLEAN
    BY DEF WholeAt
  <1>4. bank \in Bank /\ BankOK(bank) /\ bank.size \in Nat /\ bank.size <= Pages[i]
    BY <1>1, Sizes, BankCodes, ZeroOK DEF Bank, NoBank, BankOK, SystemCodes
  <1>5. /\ s.layout \in {"DUAL", "SINGLE"} /\ s.current \in {0, 1} /\ s \in Settings
        /\ s.bank0 \in Bank /\ s.bank1 \in Bank /\ s.bank0.size \in Nat
    BY DEF RecordOK, Settings, Bank
  <1>6. z \in Nat /\ z <= SdUnits
    BY <1>1, Sizes DEF RecordOK, Settings
  <1>7. bank.code \in WithSd => bank.crc = i /\ z = SdSize[i]
    BY <1>1, BankCodes DEF WithSd, NoBank
  <1>8. x0 \in Bank /\ x1 \in Bank
    BY <1>4, <1>5
  <1>9. /\ s' \in Settings /\ s'.layout = s.layout /\ s'.current = s.current
        /\ s'.bank0 = x0 /\ s'.bank1 = x1 /\ s'.write_offset = 0 /\ s'.sd_size = z
    <2> HIDE DEF x0, x1, z
    <2>1. s' \in Settings
      BY <1>2, <1>5, <1>6, <1>8 DEF Settings
    <2>2. /\ s'.layout = s.layout /\ s'.current = s.current
          /\ s'.bank0 = x0 /\ s'.bank1 = x1 /\ s'.write_offset = 0 /\ s'.sd_size = z
      BY <1>2, <1>5 DEF Settings
    <2> QED BY <2>1, <2>2
  <1>10. /\ RecordOK(s') /\ CurrentBank(s') = bank /\ Place(s') = Place(s)
         /\ s.current = 1 => s'.bank0 = s.bank0
    <2>1. s.current = 0 => x0 = bank
      OBVIOUS
    <2>2. s.current = 1 => x0 = s.bank0 /\ x1 = bank
      OBVIOUS
    <2> HIDE DEF bank, z, x0, x1
    <2>3. CASE s.current = 0
      <3>1. CurrentBank(s') = bank
        BY <2>1, <2>3, <1>9 DEF CurrentBank
      <3>2. BankOK(x1)
        BY <2>3 DEF x1, RecordOK
      <3>3. RecordOK(s')
        BY <2>1, <2>3, <3>1, <3>2, <1>4, <1>6, <1>7, <1>9, Sizes DEF RecordOK
      <3> QED BY <2>3, <3>1, <3>3, <1>9 DEF Place
    <2>4. CASE s.current = 1
      <3>1. s.layout = "DUAL" /\ s.bank0.code = "VALID_APP" /\ s.bank0.size + Pages[i] <= Region
        BY <2>4, <1>1 DEF RecordOK, Place
      <3>2. CurrentBank(s') = bank
        BY <2>2, <2>4, <3>1, <1>9 DEF CurrentBank
      <3>3. BankOK(s.bank0)
        BY DEF RecordOK
      <3>4. RecordOK(s')
        BY <2>2, <2>4, <3>1, <3>2, <3>3, <1>1, <1>4, <1>5, <1>6, <1>7, <1>9, Sizes DEF RecordOK
      <3> QED BY <2>2, <2>4, <3>2, <3>4, <1>9 DEF Place
    <2> QED BY <2>3, <2>4, <1>5
  <1> QED BY <1>1, <1>9, <1>10

\* The record behind a part of a SoftDevice: what is left is less than all of it.
LEMMA SavedRecord ==
    ASSUME RecordOK(s), ActOK, SdSave, TypeOK,
           act \in [target : Nat, src : Nat, left : Nat, split : Nat]
    PROVE  LET left == IF act.split > act.left THEN 0 ELSE act.left - act.split IN
           /\ RecordOK(s') /\ CurrentBank(s') = CurrentBank(s) /\ Place(s') = Place(s)
           /\ s'.current = s.current /\ s'.bank0 = s.bank0 /\ s'.bank1 = s.bank1
           /\ s'.sd_size = s.sd_size /\ s'.write_offset = s.sd_size - left
           /\ s'.write_offset <= act.target + act.split
  <1> DEFINE left == IF act.split > act.left THEN 0 ELSE act.left - act.split
  <1>1. s' = [s EXCEPT !.write_offset = s.sd_size - left]
    BY DEF SdSave
  <1>2. /\ CurrentBank(s).code \in WithSd /\ act.left > 0 /\ act.split > 0
        /\ act.left % PageUnits = 0 /\ act.split % PageUnits = 0
        /\ act.target + act.left \in s.sd_size .. s.sd_size + PageUnits - 1
    BY DEF ActOK, SdSave
  <1>3. s.sd_size \in Nat /\ act.target \in Nat /\ act.left \in Nat /\ act.split \in Nat
    BY DEF RecordOK, Settings
  <1>4. act.split >= PageUnits
    BY <1>2, <1>3, Sizes
  <1>5. left \in Nat /\ left <= s.sd_size /\ s.sd_size - left <= act.target + act.split
    BY <1>2, <1>3, <1>4, Sizes
  <1>6. s.current = 1 => CurrentBank(s) = s.bank1
    BY CurrentIs
  <1> HIDE DEF left
  <1>7. s.sd_size - left \in Nat /\ s.sd_size - left <= s.sd_size
    BY <1>3, <1>5
  <1> QED BY <1>1, <1>2, <1>5, <1>6, <1>7, ProgressRecord DEF left, WithSd

LEMMA RecordsStep == BaseInv /\ [SystemNext]_allVars => RecordsOK'
  <1> SUFFICES ASSUME BaseInv, [SystemNext]_allVars PROVE RecordsOK'
    OBVIOUS
  <1>0. RecordsOK /\ CopyOK /\ ReceiveOK /\ ActOK /\ RecordOK(s) /\ TypeOK
    BY DEF BaseInv, RecordsOK, SystemTypeOK
  <1>1. CASE SettingsErase
    BY <1>0, <1>1 DEF SettingsErase, RecordsOK, Idle, Quiet
  <1>2. CASE SettingsStore
    BY <1>0, <1>2 DEF SettingsStore, RecordsOK, RecordOK, Idle
  <1>3. CASE nrf_dfu_settings_init
    BY <1>0, <1>3, ZeroOK DEF nrf_dfu_settings_init, RecordsOK, settings_write, Idle, Quiet
  <1>4. CASE nrf_dfu_continue
    <2>1. UNCHANGED <<s, settings, write>> /\ Idle /\ settings = s
      BY <1>0, <1>4 DEF nrf_dfu_continue, RecordsOK
    <2> QED BY <2>1, <1>0, RecordsFrame
  <1>5. CASE CopyErase \/ CopyStore \/ CopyCompare
    <2>1. UNCHANGED <<s, settings, write>> /\ pc \in Quiet \ {"reset"}
      BY <1>5 DEF CopyErase, CopyStore, CopyCompare, Quiet
    <2>2. Idle /\ settings = s
      BY <2>1, <1>0 DEF RecordsOK
    <2> QED BY <2>1, <2>2, <1>0, RecordsFrame
  <1>6. CASE CopyRelease
    <2>1. /\ s.current = 1 /\ s.bank1.code = "VALID_APP" /\ s.write_offset = copy.target
          /\ copy.target + copy.left = s.bank1.size
      BY <1>0, <1>6 DEF CopyRelease, CopyOK, Copying
    <2>2. copy.target \in Nat /\ copy.left \in Nat
      BY <1>0, Sizes DEF TypeOK
    <2>3. CurrentBank(s) = s.bank1
      BY <1>0, <2>1, CurrentIs
    <2>4. s.write_offset + Cur \in Nat /\ s.write_offset + Cur <= s.bank1.size
      BY <2>1, <2>2 DEF Cur
    <2>5. s' = [s EXCEPT !.write_offset = s.write_offset + Cur]
      BY <1>6 DEF CopyRelease
    <2>6. RecordOK(s')
      BY <2>1, <2>3, <2>4, <2>5, <1>0, ProgressRecord DEF WithSd
    <2> QED BY <2>6, <1>0, <1>6, RecordsWrite DEF CopyRelease, Quiet
  <1>7. CASE CopyNext
    <2>1. CASE copy.left > Cur
      <3>1. UNCHANGED <<s, settings, write>> /\ settings = s /\ Idle
        BY <1>0, <1>7, <2>1 DEF CopyNext, RecordsOK
      <3> QED BY <3>1, <1>0, RecordsFrame
    <2>2. CASE ~(copy.left > Cur)
      <3>1. PICK b \in {s.bank0, s.bank1} : s' = [Zero EXCEPT !.bank0 = b]
        BY <1>7, <2>2 DEF CopyNext
      <3>2. s.bank0.code = "VALID_APP" /\ s.bank1.code = "VALID_APP"
        BY <1>0, <1>7 DEF CopyNext, CopyOK, Copying, RecordOK
      <3>3. b \in Bank /\ BankOK(b) /\ b.code \notin WithSd
        BY <3>2, <1>0 DEF RecordOK, Settings, WithSd
      <3>4. RecordOK(s')
        BY <3>1, <3>3, ClearedRecord
      <3> QED BY <3>4, <1>0, <1>7, <2>2, RecordsWrite DEF CopyNext, Quiet
    <2> QED BY <2>1, <2>2
  <1>8. CASE Check
    BY <1>0, <1>8, RecordsFrame DEF Check, RecordsOK
  <1>9. CASE on_dfu_complete \/ AppReset \/ PowerFailure \/ BlCopy
    <2>1. Restarted /\ settings' \in {settings, NoSettings}
      BY <1>9 DEF on_dfu_complete, AppReset, PowerFailure, BlCopy
    <2> QED BY <2>1, <1>0, RecordsRestart
  <1>10. CASE \E i \in offered : InitCommand(i)
    <2>1. PICK i \in Images : InitCommand(i)
      BY <1>10 DEF BaseInv
    <2>2. s' = [nrf_dfu_find_cache(i).settings EXCEPT !.write_offset = 0]
      BY <2>1 DEF InitCommand
    <2>3. RecordOK(s')
      BY <2>2, <1>0, InitRecord
    <2> QED BY <2>1, <2>3, <1>0, RecordsWrite DEF InitCommand, Quiet
  <1>11. CASE ObjectErase
    BY <1>0, <1>11, RecordsFrame DEF ObjectErase, RecordsOK
  <1>12. CASE ObjectStore
    <2>1. s' = [s EXCEPT !.write_offset = s.write_offset + 1] /\ CurrentBank(s).code = "INVALID"
      BY <1>0, <1>12 DEF ObjectStore, ReceiveOK
    <2>2. s.write_offset + 1 \in Nat
      BY <1>0 DEF RecordOK, Settings
    <2>3. s.current = 1 => CurrentBank(s) = s.bank1
      BY <1>0, CurrentIs
    <2>4. RecordOK(s')
      BY <2>1, <2>2, <2>3, <1>0, ProgressRecord DEF WithSd
    <2> QED BY <2>4, <1>0, <1>12, RecordsWrite DEF ObjectStore, Quiet
  <1>13. CASE PostValidate
    <2>1. RecordOK(s')
      BY <1>0, <1>13, ValidatedRecord
    <2> QED BY <2>1, <1>0, <1>13, RecordsWrite DEF PostValidate, Quiet
  <1>14. CASE Activate \/ RegionLost \/ SdCopy
    <2>1. UNCHANGED <<s, settings, write>> /\ Idle /\ pc # "reset"
      BY <1>14 DEF Activate, RegionLost, SdCopy
    <2> QED BY <2>1, <1>0, RecordsFrame DEF RecordsOK
  <1>15. CASE SdCompare
    <2>1. UNCHANGED <<s, settings, write>> /\ pc \in Quiet \ {"reset"}
      BY <1>15 DEF SdCompare, Quiet
    <2> QED BY <2>1, <1>0, RecordsFrame DEF RecordsOK
  <1>16. CASE SdSave
    <2>1. act \in [target : Nat, src : Nat, left : Nat, split : Nat]
      BY Sizes DEF BaseInv, SystemTypeOK
    <2>2. RecordOK(s')
      BY <2>1, <1>0, <1>16, SavedRecord
    <2> QED BY <2>2, <1>0, <1>16, RecordsWrite DEF SdSave, Quiet
  <1>17. CASE SdDone \/ BlCompare
    <2>1. UNCHANGED settings /\ Idle /\ pc # "reset"
      BY <1>17 DEF SdDone, BlCompare
    <2>2. CASE UNCHANGED <<s, write>>
      BY <2>1, <2>2, <1>0, RecordsFrame DEF RecordsOK
    <2>3. CASE nrf_dfu_invalidate_bank /\ settings_write /\ pc' = "check"
      BY <2>1, <2>3, <1>0, InvalidatedRecord, RecordsWrite DEF Quiet
    <2> QED BY <2>2, <2>3, <1>17 DEF SdDone, BlCompare
  <1>18. CASE UNCHANGED allVars
    BY <1>0, <1>18 DEF allVars, RecordsOK, RecordOK, Idle, CurrentBank, BankOK
  <1> QED
    BY <1>1, <1>2, <1>3, <1>4, <1>5, <1>6, <1>7, <1>8, <1>9, <1>10, <1>11, <1>12, <1>13,
       <1>14, <1>15, <1>16, <1>17, <1>18
       DEF SystemNext, BootStep, Activation, Receive, PowerFailureInSystem

-----------------------------------------------------------------------------
(* The contents of the flash.                                              *)

\* The store of one page of the copy touches StorePages pages from the target
\* on, and the first of them gets the page of the source if it was erased.
LEMMA Stored ==
    ASSUME TypeOK
    PROVE  /\ PagesStored \in [0 .. Region - 1 -> Content]
           /\ \A p \in 0 .. Region - 1 :
                 p < copy.target \/ p >= copy.target + StorePages => PagesStored[p] = flash[p]
           /\ Cur = 1 /\ copy.target < Region /\ copy.src < Region
                 /\ flash[copy.target] = Erased =>
                    PagesStored[copy.target] = flash[copy.src]
  <1> DEFINE n == StorePages * Cur
             From(h, k) == IF copy.src + k < Region THEN h[copy.src + k] ELSE Torn
             Step(h, k) == [h EXCEPT ![copy.target + k - 1] = Written(@, From(h, k - 1))]
             Rec(g, m) == g = [k \in 0 .. m |-> IF k = 0 THEN flash ELSE Step(g[k - 1], k)]
             F == CHOOSE g : Rec(g, n)
  <1>1. PagesStored = F[n]
    BY DEF PagesStored
  <1>2. /\ flash \in [0 .. Region - 1 -> Content]
        /\ copy.target \in Nat /\ copy.src \in Nat /\ Region \in Nat
    BY Sizes DEF TypeOK
  <1>3. n \in Nat /\ n <= StorePages /\ (Cur = 1 => n = StorePages) /\ StorePages > 0
    BY Sizes DEF Cur
  <1>4. Rec(F, n)
    <2> DEFINE S == {m \in Nat : \E g : Rec(g, m)}
    <2>1. 0 \in S
      <3>1. Rec([k \in 0 .. 0 |-> flash], 0)
        OBVIOUS
      <3> QED BY <3>1
    <2>2. ASSUME NEW m \in Nat, m \in S PROVE m + 1 \in S
      <3>1. PICK g : Rec(g, m)
        BY <2>2
      <3> DEFINE h == [k \in 0 .. m + 1 |-> IF k <= m THEN g[k] ELSE Step(g[m], m + 1)]
      <3>2. ASSUME NEW k \in 0 .. m + 1
            PROVE  h[k] = IF k = 0 THEN flash ELSE Step(h[k - 1], k)
        <4>1. CASE k = m + 1
          <5>1. h[m + 1] = Step(g[m], m + 1) /\ h[m] = g[m]
            OBVIOUS
          <5> HIDE DEF h, Step
          <5> QED BY <4>1, <5>1
        <4>2. CASE k <= m
          <5>1. h[k] = g[k] /\ (k > 0 => h[k - 1] = g[k - 1])
            BY <4>2
          <5>2. g[k] = IF k = 0 THEN flash ELSE Step(g[k - 1], k)
            <6> HIDE DEF Step
            <6> QED BY <3>1, <4>2
          <5> HIDE DEF h, Step
          <5> QED BY <4>2, <5>1, <5>2
        <4> QED BY <4>1, <4>2
      <3>3. Rec(h, m + 1)
        <4>1. h = [k \in 0 .. m + 1 |-> h[k]]
          OBVIOUS
        <4> HIDE DEF h, Step
        <4> QED BY <4>1, <3>2
      <3> HIDE DEF h, Rec
      <3> QED BY <3>3
    <2> HIDE DEF S
    <2>3. Nat \subseteq S
      BY <2>1, <2>2, Induction
    <2>4. \E g : Rec(g, n)
      <3> HIDE DEF Rec
      <3> QED BY <2>3, <1>3 DEF S
    <2> HIDE DEF Rec, n
    <2> QED BY <2>4
  <1> DEFINE P(h, k) ==
               /\ h \in [0 .. Region - 1 -> Content]
               /\ \A p \in 0 .. Region - 1 :
                     p < copy.target \/ p >= copy.target + k => h[p] = flash[p]
               /\ k > 0 /\ copy.target < Region /\ copy.src < Region
                     /\ flash[copy.target] = Erased => h[copy.target] = flash[copy.src]
  <1>0. F[0] = flash
    <2> HIDE DEF Step, F, n
    <2> QED BY <1>3, <1>4
  <1>5. P(F[0], 0)
    <2> HIDE DEF F
    <2> QED BY <1>0, <1>2
  <1>6. ASSUME NEW k \in 0 .. n - 1, P(F[k], k) PROVE P(F[k + 1], k + 1)
    <2> DEFINE h == F[k]
               t == copy.target + k
               w == Written(h[t], From(h, k))
    <2>1. F[k + 1] = [h EXCEPT ![t] = w]
      <3>1. F[k + 1] = Step(F[k], k + 1)
        <4> HIDE DEF Step, F
        <4> QED BY <1>3, <1>4
      <3>2. copy.target + (k + 1) - 1 = t /\ (k + 1) - 1 = k
        BY <1>2, <1>3
      <3> HIDE DEF F
      <3> QED BY <3>1, <3>2
    <2>2. t \in Nat /\ k \in Nat
      BY <1>2, <1>3
    <2>3. t < Region => w \in Content
      <3> HIDE DEF F
      <3>1. From(h, k) \in Content
        BY <1>2, <1>6, <2>2 DEF Content
      <3> QED BY <3>1 DEF Written, Content
    <2>4. F[k + 1] \in [0 .. Region - 1 -> Content]
      <3> HIDE DEF h, t, w, F
      <3>1. h \in [0 .. Region - 1 -> Content]
        BY <1>6 DEF h
      <3>2. CASE t < Region
        BY <2>1, <2>2, <2>3, <3>1, <3>2
      <3>3. CASE ~(t < Region)
        <4>1. t \notin 0 .. Region - 1
          BY <3>3, <2>2, <1>2
        <4> QED BY <2>1, <3>1, <4>1
      <3> QED BY <3>2, <3>3
    <2>5. ASSUME NEW p \in 0 .. Region - 1, p < copy.target \/ p >= copy.target + (k + 1)
          PROVE  F[k + 1][p] = flash[p]
      <3> HIDE DEF F
      <3>1. h[p] = flash[p] /\ p # t
        BY <1>2, <1>6, <2>2, <2>5
      <3>2. h \in [0 .. Region - 1 -> Content]
        BY <1>6
      <3> HIDE DEF h, t, w
      <3> QED BY <2>1, <3>1, <3>2
    <2>6. ASSUME copy.target < Region, copy.src < Region, flash[copy.target] = Erased
          PROVE  F[k + 1][copy.target] = flash[copy.src]
      <3>1. h \in [0 .. Region - 1 -> Content]
        BY <1>6
      <3>2. CASE k = 0
        <4> HIDE DEF F
        <4>1. h = flash /\ t = copy.target
          BY <1>0, <1>2, <3>2
        <4>2. w = flash[copy.src]
          BY <4>1, <2>6, <3>2, <1>2 DEF Written
        <4> HIDE DEF h, t, w
        <4> QED BY <2>1, <2>6, <3>1, <4>1, <4>2, <1>2
      <3>3. CASE k > 0
        <4>1. copy.target # t
          BY <1>2, <2>2, <3>3
        <4> HIDE DEF h, t, w
        <4>2. h[copy.target] = flash[copy.src]
          <5> HIDE DEF F
          <5> QED BY <1>6, <2>6, <3>3 DEF h
        <4> HIDE DEF F
        <4> QED BY <2>1, <3>1, <4>1, <4>2, <2>6, <1>2
      <3> QED BY <3>2, <3>3, <2>2
    <2> HIDE DEF F, h, t, w
    <2> QED BY <2>4, <2>5, <2>6
  <1>7. P(F[n], n)
    <2> DEFINE T == {k \in Nat : k <= n => P(F[k], k)}
    <2>1. 0 \in T
      BY <1>5
    <2>2. ASSUME NEW k \in Nat, k \in T PROVE k + 1 \in T
      <3> HIDE DEF P, F, n
      <3>1. CASE k < n
        <4>1. k \in 0 .. n - 1 /\ P(F[k], k)
          BY <2>2, <3>1, <1>3
        <4> QED BY <4>1, <1>6
      <3>2. CASE ~(k < n)
        BY <3>2, <1>3
      <3> QED BY <3>1, <3>2
    <2> HIDE DEF T
    <2>3. n \in T
      BY <2>1, <2>2, <1>3, Induction
    <2> HIDE DEF P, F, n
    <2> QED BY <2>3, <1>3 DEF T
  <1> QED
    <2> HIDE DEF F, n
    <2> QED BY <1>1, <1>2, <1>3, <1>7, Sizes

LEMMA AlignUp ==
    ASSUME NEW n \in Nat
    PROVE  /\ AlignToPage(n) \in Nat /\ AlignToPage(n) % PageUnits = 0
           /\ n <= AlignToPage(n) /\ AlignToPage(n) <= n + PageUnits - 1
           /\ \A m \in Nat : m % PageUnits = 0 /\ n <= m => AlignToPage(n) <= m
  <1> DEFINE P == PageUnits
             q == (n + P - 1) \div P
  <1>1. P \in Nat \ {0} /\ n + P - 1 \in Nat
    BY Sizes
  <1>2. /\ n + P - 1 = P * q + ((n + P - 1) % P) /\ (n + P - 1) % P \in 0 .. P - 1 /\ q \in Nat
    BY <1>1, DivMod
  <1>3. AlignToPage(n) = P * q
    BY <1>1, <1>2 DEF AlignToPage
  <1>4. P * q \in Nat /\ n <= P * q /\ P * q <= n + P - 1
    BY <1>1, <1>2
  <1>5. (P * q) % P = 0
    <2>1. P * q = P * q + 0 /\ 0 \in 0 .. P - 1
      BY <1>1, <1>4
    <2> HIDE DEF P, q
    <2> QED BY <2>1, <1>1, <1>2, <1>4, DivUnique
  <1>6. ASSUME NEW m \in Nat, m % P = 0, n <= m PROVE P * q <= m
    <2>1. m = P * (m \div P) + (m % P) /\ m \div P \in Nat
      BY <1>1, DivMod
    <2> DEFINE j == m \div P
               e == m + P - 1
    <2>2. e = P * j + (P - 1) /\ e \in Nat /\ P - 1 \in 0 .. P - 1 /\ j \in Nat
      BY <1>1, <1>6, <2>1
    <2>3. e \div P = j
      <3> HIDE DEF P, e, j
      <3> QED BY <1>1, <2>2, DivUnique
    <2>4. q <= j
      <3>1. n + P - 1 <= e
        BY <1>1, <1>6
      <3> DEFINE d == n + P - 1
      <3>2. d \div P <= e \div P
        <4>1. d \in Nat /\ d <= e /\ e \in Nat
          BY <1>1, <3>1, <2>2
        <4> HIDE DEF P, e, d
        <4> QED BY <1>1, <4>1, DivMonotone
      <3> QED BY <3>2, <2>3
    <2>5. P * q <= P * j
      <3> HIDE DEF P, q, j
      <3> QED BY <1>1, <1>2, <2>2, <2>4
    <2>6. m = P * j
      BY <2>1, <1>6, <1>1
    <2> HIDE DEF P, q, j
    <2> QED BY <2>5, <2>6
  <1> QED BY <1>3, <1>4, <1>5, <1>6

\* The parts of a copy: whole pages, and never more than what is left.
LEMMA Parts ==
    ASSUME NEW left \in Nat, left % PageUnits = 0, left > 0
    PROVE  /\ Split(left) \in Nat /\ Split(left) > 0 /\ Split(left) % PageUnits = 0
           /\ Split(left) <= left
  <1> DEFINE k == (left + 3) \div 4
  <1>1. k \in Nat /\ k > 0 /\ k <= left
    OBVIOUS
  <1> HIDE DEF k
  <1>2. Split(left) = AlignToPage(k)
    BY DEF Split, k
  <1> QED BY <1>1, <1>2, AlignUp

-----------------------------------------------------------------------------
(* Types, and the stages.                                                  *)

LEMMA CopyStep == BaseInv /\ [SystemNext]_allVars => CopyOK'
  <1> SUFFICES ASSUME BaseInv, [SystemNext]_allVars, pc' \in Copying PROVE CopyOK'
    BY DEF CopyOK
  <1>0. /\ RecordsOK /\ CopyOK /\ ReceiveOK /\ ActOK /\ RecordOK(s) /\ TypeOK
        /\ copy.target \in Nat /\ copy.src \in Nat /\ copy.left \in Nat
        /\ s \in Settings
    BY DEF BaseInv, RecordsOK, SystemTypeOK, TypeOK, RecordOK
  <1>1. CASE nrf_dfu_continue
    <2>1. pc' = "copyErase"
      BY <1>1 DEF nrf_dfu_continue, Copying
    <2>2. /\ s.current = 1 /\ s.bank1.code = "VALID_APP" /\ s' = s
          /\ copy' = [target |-> s.write_offset, src |-> s.bank0.size,
                      left |-> s.bank1.size - s.write_offset]
      BY <1>1, <2>1 DEF nrf_dfu_continue
    <2>3. s.write_offset \in Nat /\ s.bank1.size \in Nat
      BY <1>0 DEF Settings, Bank
    <2> QED BY <2>1, <2>2, <2>3 DEF CopyOK
  <1>2. CASE CopyErase \/ CopyStore \/ CopyCompare
    <2>1. pc \in Copying \ {"copyNext"} /\ pc' # "copyNext" /\ UNCHANGED <<s, copy>>
      BY <1>2 DEF CopyErase, CopyStore, CopyCompare, Copying
    <2> QED BY <2>1, <1>0 DEF CopyOK
  <1>3. CASE CopyRelease
    <2>1. /\ pc = "copyRelease" /\ pc' = "copyNext" /\ copy' = copy
          /\ s' = [s EXCEPT !.write_offset = @ + Cur]
      BY <1>3 DEF CopyRelease
    <2>2. /\ s'.current = s.current /\ s'.bank0 = s.bank0 /\ s'.bank1 = s.bank1
          /\ s'.write_offset = s.write_offset + Cur
      BY <2>1, <1>0 DEF Settings
    <2>3. Cur' = Cur
      BY <2>1 DEF Cur
    <2> QED BY <2>1, <2>2, <2>3, <1>0 DEF CopyOK, Copying
  <1>4. CASE CopyNext
    <2>1. /\ pc = "copyNext" /\ pc' = "copyErase" /\ copy.left > Cur /\ s' = s
          /\ copy' = [target |-> copy.target + 1, src |-> copy.src + 1, left |-> copy.left - 1]
      BY <1>4 DEF CopyNext, Copying
    <2>2. Cur = 1
      BY <2>1, <1>0 DEF Cur
    <2> QED BY <2>1, <2>2, <1>0 DEF CopyOK, Copying
  <1>5. CASE UNCHANGED <<pc, s, copy>>
    BY <1>5, <1>0 DEF CopyOK, Cur
  <1>6. CASE \/ Restarted \/ nrf_dfu_settings_init \/ Check \/ PostValidate \/ Activation
             \/ \E i \in offered : InitCommand(i)
    BY <1>6 DEF Restarted, nrf_dfu_settings_init, Check, PostValidate, InitCommand,
                Activation, Activate, RegionLost, SdCopy, SdCompare, SdSave, SdDone,
                BlCompare, BlCopy, Copying
  <1> QED
    <2>1. CASE \/ SettingsErase \/ SettingsStore \/ ObjectErase \/ UNCHANGED allVars
      BY <2>1, <1>5 DEF SettingsErase, SettingsStore, ObjectErase, allVars
    <2>2. CASE ObjectStore
      BY <2>2 DEF ObjectStore, Copying
    <2>3. CASE on_dfu_complete \/ AppReset \/ PowerFailure
      BY <2>3, <1>6 DEF on_dfu_complete, AppReset, PowerFailure
    <2> QED
      BY <2>1, <2>2, <2>3, <1>1, <1>2, <1>3, <1>4, <1>6
         DEF SystemNext, BootStep, Receive, PowerFailureInSystem

LEMMA ReceiveStep == BaseInv /\ [SystemNext]_allVars => ReceiveOK'
  <1> SUFFICES ASSUME BaseInv, [SystemNext]_allVars, pc' \in {"receive", "done"}
               PROVE ReceiveOK'
    BY DEF ReceiveOK
  <1>0. /\ RecordsOK /\ ReceiveOK /\ RecordOK(s) /\ TypeOK /\ offered \subseteq Images
        /\ upd \in [image : Images \cup {NoImage}, at : Nat, next : Nat, erased : BOOLEAN]
    BY DEF BaseInv, RecordsOK, SystemTypeOK, TypeOK
  <1>1. CASE \E i \in offered : InitCommand(i)
    <2>1. PICK i \in Images : InitCommand(i)
      BY <1>1, <1>0
    <2>2. /\ s' = [nrf_dfu_find_cache(i).settings EXCEPT !.write_offset = 0]
          /\ upd' = [image |-> i, at |-> nrf_dfu_find_cache(i).at, next |-> 0, erased |-> FALSE]
          /\ pc' = "receive"
      BY <2>1 DEF InitCommand
    <2>3. /\ CurrentBank(s').code = "INVALID" /\ nrf_dfu_find_cache(i).at = Place(s')
          /\ Place(s') + Pages[i] <= Region
      BY <2>2, <1>0, InitRecord
    <2> QED BY <2>2, <2>3, Sizes DEF ReceiveOK
  <1>2. CASE ObjectErase
    <2>1. /\ upd' = [upd EXCEPT !.erased = TRUE] /\ s' = s /\ pc' = "receive" /\ pc = "receive"
          /\ upd.next < Pages[upd.image]
      BY <1>2 DEF ObjectErase
    <2>2. /\ upd'.image = upd.image /\ upd'.at = upd.at /\ upd'.next = upd.next
      BY <2>1, <1>0
    <2> QED BY <2>1, <2>2, <1>0 DEF ReceiveOK
  <1>3. CASE ObjectStore
    <2>1. /\ upd' = [upd EXCEPT !.next = @ + 1, !.erased = FALSE] /\ pc' = "receive"
          /\ pc = "receive" /\ upd.erased /\ s' = [s EXCEPT !.write_offset = s.write_offset + 1]
      BY <1>3 DEF ObjectStore
    <2>2. /\ upd'.image = upd.image /\ upd'.at = upd.at /\ upd'.next = upd.next + 1
          /\ upd'.erased = FALSE
      BY <2>1, <1>0
    <2>3. /\ upd.image \in Images /\ upd.at = Place(s) /\ upd.next < Pages[upd.image]
          /\ upd.at + Pages[upd.image] <= Region /\ CurrentBank(s).code = "INVALID"
      BY <2>1, <1>0 DEF ReceiveOK
    <2>4. s.write_offset + 1 \in Nat
      BY <1>0 DEF RecordOK, Settings
    <2>5. s.current = 1 => CurrentBank(s) = s.bank1
      BY <1>0, CurrentIs
    <2>6. CurrentBank(s') = CurrentBank(s) /\ Place(s') = Place(s)
      BY <2>1, <2>3, <2>4, <2>5, <1>0, ProgressRecord DEF WithSd
    <2> QED BY <2>1, <2>2, <2>3, <2>6, <1>0, Sizes DEF ReceiveOK
  <1>4. CASE PostValidate
    <2> DEFINE ok == WholeAt(flash, upd.image, upd.at)
    <2>1. /\ pc' = "done" /\ flash' = flash /\ upd' = IF ok THEN upd ELSE NoUpdate
      BY <1>4 DEF PostValidate
    <2>2. /\ upd.image \in Images /\ upd.at = Place(s) /\ Place(s') = Place(s)
          /\ s'.write_offset = 0
          /\ ok => CurrentBank(s') = [code |-> BankCode[Kind[upd.image]], crc |-> upd.image,
                                      size |-> Pages[upd.image]]
      BY <1>0, <1>4, ValidatedRecord
    <2>3. CASE ok
      <3>1. WholeAt(flash', upd'.image, Place(s'))
        BY <2>1, <2>2, <2>3
      <3> HIDE DEF ok
      <3> QED BY <2>1, <2>2, <2>3, <3>1 DEF ReceiveOK
    <2>4. CASE ~ok
      <3>1. upd'.image \notin Images
        BY <2>1, <2>4, Sizes DEF NoUpdate
      <3> HIDE DEF ok
      <3> QED BY <2>1, <2>2, <3>1 DEF ReceiveOK
    <2> QED BY <2>3, <2>4
  <1>5. CASE UNCHANGED <<flash, pc, s, upd>>
    BY <1>5, <1>0 DEF ReceiveOK, WholeAt
  <1> QED
    <2>1. CASE \/ SettingsErase \/ SettingsStore \/ UNCHANGED allVars
      BY <2>1, <1>5 DEF SettingsErase, SettingsStore, allVars
    <2>2. CASE BootStep /\ ~(SettingsErase \/ SettingsStore)
      BY <2>2 DEF BootStep, nrf_dfu_settings_init, nrf_dfu_continue, CopyErase, CopyStore,
                  CopyCompare, CopyRelease, CopyNext, Check, on_dfu_complete, Restarted
    <2>3. CASE Activation
      BY <2>3 DEF Activation, Activate, RegionLost, SdCopy, SdCompare, SdSave, SdDone,
                  BlCompare, BlCopy, Restarted
    <2>4. CASE AppReset \/ PowerFailure
      BY <2>4 DEF AppReset, PowerFailure, Restarted
    <2> QED
      BY <2>1, <2>2, <2>3, <2>4, <1>1, <1>2, <1>3, <1>4
         DEF SystemNext, BootStep, Receive, PowerFailureInSystem

LEMMA ActStep == BaseInv /\ [SystemNext]_allVars => ActOK'
  <1> DEFINE Acting == {"sdCopy", "sdCompare", "sdSave", "sdDone", "blCompare", "blCopy"}
  <1> SUFFICES ASSUME BaseInv, [SystemNext]_allVars, pc' \in Acting
               PROVE ActOK'
    BY DEF ActOK
  <1>0. /\ RecordsOK /\ ActOK /\ RecordOK(s) /\ TypeOK
        /\ act \in [target : Nat, src : Nat, left : Nat, split : Nat]
        /\ s.write_offset \in Nat /\ s.sd_size \in Nat /\ Place(s) \in Nat
    BY Sizes DEF BaseInv, RecordsOK, RecordOK, Settings, Bank, Place, SystemTypeOK
  <1>1. CASE Activate
    <2>1. /\ CurrentBank(s).code \in SystemCodes /\ s' = s
          /\ \/ pc' = "blCompare" /\ CurrentBank(s).code = "VALID_BL"
             \/ pc' = "sdDone" /\ CurrentBank(s).code # "VALID_BL" /\ s.write_offset = s.sd_size
             \/ /\ pc' = "sdCopy" /\ CurrentBank(s).code # "VALID_BL"
                /\ ~(s.sd_size # 0 /\ s.write_offset = s.sd_size)
                /\ act' = nrf_dfu_sd_continue_impl
      BY <1>1 DEF Activate
    <2>2. CASE pc' = "blCompare" /\ CurrentBank(s).code = "VALID_BL"
      BY <2>1, <2>2 DEF ActOK, WithBl
    <2>3. CASE pc' = "sdDone" /\ CurrentBank(s).code # "VALID_BL" /\ s.write_offset = s.sd_size
      BY <2>1, <2>3 DEF ActOK, WithSd, SystemCodes
    <2>4. CASE /\ pc' = "sdCopy" /\ CurrentBank(s).code # "VALID_BL"
               /\ ~(s.sd_size # 0 /\ s.write_offset = s.sd_size)
               /\ act' = nrf_dfu_sd_continue_impl
      <3> DEFINE rest == s.sd_size - s.write_offset
                 left == AlignToPage(rest)
      <3>1. CurrentBank(s).code \in WithSd
        BY <2>1, <2>4 DEF WithSd, SystemCodes
      <3>2. rest \in Nat /\ rest > 0
        <4>1. /\ s.sd_size = SdSize[CurrentBank(s).crc] /\ s.write_offset <= s.sd_size
              /\ CurrentBank(s).crc \in Images
              /\ Kind[CurrentBank(s).crc] \in {"SD", "SD_BL"}
          <5>1. BankOK(CurrentBank(s)) /\ CurrentBank(s).code # "INVALID"
            BY <1>0, <3>1, CurrentIs DEF WithSd
          <5>2. /\ CurrentBank(s).crc \in Images
                /\ CurrentBank(s).code = BankCode[Kind[CurrentBank(s).crc]]
            BY <5>1 DEF BankOK
          <5> QED BY <5>2, <3>1, <1>0, BankCodes DEF RecordOK
        <4>2. s.sd_size > 0
          BY <4>1, SdSizes
        <4> QED BY <4>1, <4>2, <2>4, <1>0
      <3> HIDE DEF rest
      <3>3. /\ left \in Nat /\ left % PageUnits = 0 /\ rest <= left
            /\ left <= rest + PageUnits - 1
        BY <3>2, AlignUp
      <3>4. Split(left) > 0 /\ Split(left) % PageUnits = 0
        <4> HIDE DEF left
        <4> QED BY <3>2, <3>3, Parts
      <3>5. act' = [target |-> s.write_offset, src |-> Source + s.write_offset, left |-> left,
                    split |-> Split(left)]
        BY <2>4 DEF nrf_dfu_sd_continue_impl, rest
      <3>6. Source = PageUnits * Place(s)
        BY <1>0, CurrentIs, Sizes DEF Source, Place
      <3> HIDE DEF left
      <3>7. s.write_offset + left \in s.sd_size .. s.sd_size + PageUnits - 1
        BY <3>2, <3>3, <1>0, Sizes DEF rest
      <3> QED BY <2>1, <2>4, <3>1, <3>2, <3>3, <3>4, <3>5, <3>6, <3>7 DEF ActOK
    <2> QED BY <2>1, <2>2, <2>3, <2>4
  <1>2. CASE SdCopy \/ SdCompare
    <2>1. /\ pc \in {"sdCopy", "sdCompare"} /\ pc' \in {"sdCompare", "sdSave"}
          /\ act' = act /\ s' = s
      BY <1>2 DEF SdCopy, SdCompare
    <2> QED BY <2>1, <1>0 DEF ActOK
  <1>3. CASE SdSave
    <2> DEFINE left == IF act.split > act.left THEN 0 ELSE act.left - act.split
    <2>1. /\ CurrentBank(s') = CurrentBank(s) /\ Place(s') = Place(s)
          /\ s'.sd_size = s.sd_size /\ s'.write_offset = s.sd_size - left
      BY <1>0, <1>3, SavedRecord
    <2>2. /\ CurrentBank(s).code \in WithSd /\ act.left > 0 /\ act.split > 0
          /\ act.left % PageUnits = 0 /\ act.split % PageUnits = 0
          /\ act.target + act.left \in s.sd_size .. s.sd_size + PageUnits - 1
          /\ act.src = PageUnits * Place(s) + act.target
      BY <1>0, <1>3 DEF SdSave, ActOK
    <2>3. CASE left = 0
      <3>1. pc' = "sdDone"
        BY <1>3, <2>3 DEF SdSave
      <3> QED BY <3>1, <2>1, <2>2, <2>3, <1>0 DEF ActOK
    <2>4. CASE left # 0
      <3>1. /\ pc' = "sdCopy"
            /\ act' = [act EXCEPT !.target = act.target + act.split,
                                  !.src = act.src + act.split, !.left = left]
        BY <1>3, <2>4 DEF SdSave
      <3>2. left = act.left - act.split /\ left > 0 /\ left \in Nat
        BY <2>4, <1>0
      <3>3. left % PageUnits = 0
        BY <3>2, <2>2, <1>0, ModSum, Sizes
      <3> HIDE DEF left
      <3>4. /\ act'.target = act.target + act.split /\ act'.src = act.src + act.split
            /\ act'.left = left /\ act'.split = act.split
        BY <3>1, <1>0
      <3>5. /\ act'.target + act'.left = act.target + act.left
            /\ act'.src = PageUnits * Place(s) + act'.target
        <4> DEFINE b == PageUnits * Place(s)
        <4>1. b \in Nat
          BY <1>0, Sizes
        <4> HIDE DEF b
        <4>2. act.src = b + act.target
          BY <2>2 DEF b
        <4>3. act'.src = b + act'.target /\ act'.target + act'.left = act.target + act.left
          BY <4>1, <4>2, <3>2, <3>4, <1>0
        <4> QED BY <4>3 DEF b
      <3> QED BY <3>1, <3>2, <3>3, <3>4, <3>5, <2>1, <2>2 DEF ActOK
    <2> QED BY <2>3, <2>4
  <1>4. CASE SdDone
    BY <1>4, <1>0 DEF SdDone, ActOK, WithSd, WithBl
  <1>5. CASE BlCompare
    BY <1>5, <1>0 DEF BlCompare, ActOK
  <1>6. CASE UNCHANGED <<pc, s, act>>
    BY <1>6, <1>0 DEF ActOK
  <1> QED
    <2>1. CASE SettingsErase /\ UNCHANGED system
      BY <2>1, <1>6 DEF SettingsErase, system
    <2>2. CASE SettingsStore /\ UNCHANGED system
      BY <2>2, <1>6 DEF SettingsStore, system
    <2>3. CASE UNCHANGED allVars
      BY <2>3, <1>6 DEF allVars
    <2>4. CASE BootStep /\ ~(SettingsErase \/ SettingsStore)
      BY <2>4 DEF BootStep, nrf_dfu_settings_init, nrf_dfu_continue, CopyErase, CopyStore,
                  CopyCompare, CopyRelease, CopyNext, Check, on_dfu_complete, Restarted
    <2>5. CASE RegionLost \/ BlCopy \/ AppReset \/ PowerFailure
      BY <2>5 DEF RegionLost, BlCopy, AppReset, PowerFailure, Restarted
    <2>6. CASE Receive
      BY <2>6 DEF Receive, InitCommand, ObjectErase, ObjectStore, PostValidate
    <2> QED
      BY <2>1, <2>2, <2>3, <2>4, <2>5, <2>6, <1>1, <1>2, <1>3, <1>4, <1>5
         DEF SystemNext, BootStep, Activation, PowerFailureInSystem

\* The contents of the application flash after a step.
LEMMA FlashStep == BaseInv /\ [SystemNext]_allVars => flash' \in [0 .. Region - 1 -> Content]
  <1> SUFFICES ASSUME BaseInv, [SystemNext]_allVars
               PROVE flash' \in [0 .. Region - 1 -> Content]
    OBVIOUS
  <1>0. flash \in [0 .. Region - 1 -> Content] /\ TypeOK /\ ReceiveOK
    BY DEF BaseInv, SystemTypeOK, TypeOK
  <1>1. ASSUME NEW p, NEW c \in Content, flash' = [flash EXCEPT ![p] = c]
        PROVE  flash' \in [0 .. Region - 1 -> Content]
    BY <1>0, <1>1
  <1>2. Erased \in Content /\ Torn \in Content
    BY DEF Content
  <1>3. CASE CopyErase \/ CopyRelease \/ ObjectErase
    BY <1>0, <1>1, <1>2, <1>3 DEF CopyErase, CopyRelease, ObjectErase
  <1>4. CASE CopyStore
    BY <1>0, <1>4, Stored DEF CopyStore
  <1>5. CASE ObjectStore
    <2>1. PICK data \in {<<upd.image, upd.next>>} \cup {Torn} :
             flash' = [flash EXCEPT ![upd.at + upd.next] = data]
      BY <1>5 DEF ObjectStore
    <2>2. upd.image \in Images /\ upd.next \in Nat
      BY <1>0, <1>5 DEF ObjectStore, ReceiveOK, TypeOK
    <2>3. data \in Content
      BY <2>1, <2>2 DEF Content
    <2> QED BY <2>1, <2>3, <1>1
  <1>6. CASE PowerFailure
    BY <1>0, <1>1, <1>2, <1>6 DEF PowerFailure
  <1>7. CASE UNCHANGED flash
    BY <1>0, <1>7
  <1> QED
    <2>1. CASE BootStep /\ ~(CopyErase \/ CopyRelease \/ CopyStore)
      BY <2>1, <1>7 DEF BootStep, SettingsErase, SettingsStore, nrf_dfu_settings_init,
                        nrf_dfu_continue, CopyCompare, CopyNext, Check, on_dfu_complete
    <2>2. CASE Activation
      BY <2>2, <1>7 DEF Activation, Activate, RegionLost, SdCopy, SdCompare, SdSave, SdDone,
                        BlCompare, BlCopy
    <2>3. CASE PostValidate \/ (\E i \in offered : InitCommand(i)) \/ AppReset
      BY <2>3, <1>7 DEF PostValidate, InitCommand, AppReset
    <2>4. CASE UNCHANGED allVars
      BY <2>4, <1>7 DEF allVars
    <2> QED
      BY <2>1, <2>2, <2>3, <2>4, <1>3, <1>4, <1>5, <1>6
         DEF SystemNext, BootStep, Receive, PowerFailureInSystem

LEMMA CopyTypeStep ==
    BaseInv /\ [SystemNext]_allVars => copy' \in [target : 0 .. Region, src : Nat, left : Nat]
  <1> SUFFICES ASSUME BaseInv, [SystemNext]_allVars
               PROVE copy' \in [target : 0 .. Region, src : Nat, left : Nat]
    OBVIOUS
  <1>0. /\ RecordOK(s) /\ CopyOK /\ Region \in Nat
        /\ copy \in [target : 0 .. Region, src : Nat, left : Nat]
    BY Sizes DEF BaseInv, RecordsOK, SystemTypeOK, TypeOK
  <1>1. NoCopy \in [target : 0 .. Region, src : Nat, left : Nat]
    BY <1>0 DEF NoCopy
  <1>2. /\ s.write_offset \in Nat /\ s.bank0.size \in Nat /\ s.bank1.size \in Nat
        /\ s.current = 1 => s.bank1.size <= Region
    BY <1>0 DEF RecordOK, Settings, Bank
  <1>3. CASE nrf_dfu_continue
    <2>1. CASE s.current = 1 /\ s.bank1.code = "VALID_APP"
      <3>1. s.write_offset <= s.bank1.size /\ s.layout = "DUAL"
        BY <2>1, <1>0 DEF RecordOK
      <3>2. copy' = [target |-> s.write_offset, src |-> s.bank0.size,
                     left |-> s.bank1.size - s.write_offset]
        BY <1>3, <2>1, <3>1 DEF nrf_dfu_continue
      <3>3. s.write_offset \in 0 .. Region /\ s.bank1.size - s.write_offset \in Nat
        BY <2>1, <3>1, <1>2, <1>0
      <3> QED BY <3>2, <3>3, <1>2
    <2>2. CASE ~(s.current = 1 /\ s.bank1.code = "VALID_APP")
      BY <1>0, <1>3, <2>2 DEF nrf_dfu_continue
    <2> QED BY <2>1, <2>2
  <1>4. CASE CopyNext
    <2>1. CASE copy.left > Cur
      <3>1. copy' = [target |-> copy.target + 1, src |-> copy.src + 1, left |-> copy.left - 1]
        BY <1>4, <2>1 DEF CopyNext
      <3>2. copy.target + copy.left = s.bank1.size /\ s.current = 1
        BY <1>4, <1>0 DEF CopyNext, CopyOK, Copying
      <3>3. /\ copy.target + 1 \in 0 .. Region /\ copy.src + 1 \in Nat /\ copy.left - 1 \in Nat
        BY <3>2, <2>1, <1>0, <1>2 DEF Cur
      <3> QED BY <3>1, <3>3
    <2>2. CASE ~(copy.left > Cur)
      BY <1>1, <1>4, <2>2 DEF CopyNext
    <2> QED BY <2>1, <2>2
  <1>5. CASE copy' \in {copy, NoCopy}
    BY <1>0, <1>1, <1>5
  <1> QED
    <2>1. CASE BootStep /\ ~(nrf_dfu_continue \/ CopyNext)
      BY <2>1, <1>5 DEF BootStep, SettingsErase, SettingsStore, nrf_dfu_settings_init,
                        CopyErase, CopyStore, CopyCompare, CopyRelease, Check,
                        on_dfu_complete, Restarted
    <2>2. CASE Activation
      BY <2>2, <1>5 DEF Activation, Activate, RegionLost, SdCopy, SdCompare, SdSave, SdDone,
                        BlCompare, BlCopy, Restarted
    <2>3. CASE Receive \/ AppReset \/ PowerFailure
      BY <2>3, <1>5 DEF Receive, InitCommand, ObjectErase, ObjectStore, PostValidate,
                        AppReset, PowerFailure, Restarted
    <2>4. CASE UNCHANGED allVars
      BY <2>4, <1>5 DEF allVars
    <2> QED
      BY <2>1, <2>2, <2>3, <2>4, <1>3, <1>4 DEF SystemNext, BootStep, PowerFailureInSystem

LEMMA UpdTypeStep ==
    BaseInv /\ [SystemNext]_allVars =>
        /\ upd' \in [image : Images \cup {NoImage}, at : Nat, next : Nat, erased : BOOLEAN]
        /\ promised' \in Images \cup {NoImage} /\ hurt' \in BOOLEAN /\ enter' \in BOOLEAN
        /\ pc' \in Stages
  <1> DEFINE U == [image : Images \cup {NoImage}, at : Nat, next : Nat, erased : BOOLEAN]
  <1> SUFFICES ASSUME BaseInv, [SystemNext]_allVars
               PROVE  /\ upd' \in U /\ promised' \in Images \cup {NoImage}
                      /\ hurt' \in BOOLEAN /\ enter' \in BOOLEAN /\ pc' \in Stages
    OBVIOUS
  <1>0. /\ RecordOK(s) /\ upd \in U /\ promised \in Images \cup {NoImage} /\ hurt \in BOOLEAN
        /\ enter \in BOOLEAN /\ pc \in Stages /\ offered \subseteq Images
    BY DEF BaseInv, RecordsOK, SystemTypeOK, TypeOK
  <1>1. NoUpdate \in U
    BY DEF NoUpdate
  <1>2. CASE BootStep
    <2>1. CASE SettingsStore
      BY <2>1, <1>0 DEF SettingsStore
    <2>2. CASE BootStep /\ ~SettingsStore
      BY <2>2, <1>0, <1>1 DEF BootStep, SettingsErase, nrf_dfu_settings_init,
           nrf_dfu_continue, CopyErase, CopyStore, CopyCompare, CopyRelease, CopyNext, Check,
           on_dfu_complete, Restarted, Stages
    <2> QED BY <2>1, <2>2, <1>2
  <1>3. CASE Activation
    BY <1>3, <1>0, <1>1 DEF Activation, Activate, RegionLost, SdCopy, SdCompare, SdSave,
                            SdDone, BlCompare, BlCopy, Restarted, Stages
  <1>4. CASE \E i \in offered : InitCommand(i)
    <2>1. PICK i \in Images : InitCommand(i)
      BY <1>4, <1>0
    <2>2. nrf_dfu_find_cache(i).at \in Nat
      BY <2>1, <1>0 DEF nrf_dfu_find_cache, RecordOK, Settings, Bank
    <2> QED BY <2>1, <2>2, <1>0 DEF InitCommand, Stages
  <1>5. CASE ObjectErase \/ ObjectStore \/ PostValidate
    <2>1. CASE ObjectErase
      BY <2>1, <1>0 DEF ObjectErase
    <2>2. CASE ObjectStore
      <3>1. /\ upd' = [upd EXCEPT !.next = upd.next + 1, !.erased = FALSE]
            /\ UNCHANGED <<promised, hurt, enter, pc>>
        BY <2>2 DEF ObjectStore
      <3>2. upd' \in U
        <4>1. upd' = [image |-> upd.image, at |-> upd.at, next |-> upd.next + 1, erased |-> FALSE]
          BY <3>1, <1>0
        <4>2. upd.image \in Images \cup {NoImage} /\ upd.at \in Nat /\ upd.next + 1 \in Nat
          BY <1>0
        <4> QED BY <4>1, <4>2
      <3> HIDE DEF U
      <3> QED BY <3>1, <3>2, <1>0
    <2>3. CASE PostValidate
      <3>1. upd' \in {upd, NoUpdate}
        BY <2>3 DEF PostValidate
      <3> QED BY <3>1, <2>3, <1>0, <1>1 DEF PostValidate, Stages
    <2> QED BY <2>1, <2>2, <2>3, <1>5
  <1>6. CASE AppReset
    BY <1>6, <1>0, <1>1 DEF AppReset, Restarted, Stages
  <1>7. CASE PowerFailure
    BY <1>7, <1>0, <1>1 DEF PowerFailure, Restarted, Stages
  <1>8. CASE UNCHANGED allVars
    BY <1>8, <1>0 DEF allVars
  <1> QED
    BY <1>2, <1>3, <1>4, <1>5, <1>6, <1>7, <1>8
       DEF SystemNext, Receive, PowerFailureInSystem

LEMMA SystemTypeStep ==
    BaseInv /\ [SystemNext]_allVars =>
        /\ DOMAIN sd' = 0 .. SdUnits - 1 /\ DOMAIN bl' = 0 .. BlUnits - 1
        /\ act' \in [target : 0 .. SdUnits, src : Nat, left : 0 .. SdUnits, split : 0 .. SdUnits]
        /\ damaged' \in BOOLEAN /\ offered' \subseteq Images
  <1> DEFINE A == [target : 0 .. SdUnits, src : Nat, left : 0 .. SdUnits, split : 0 .. SdUnits]
  <1> SUFFICES ASSUME BaseInv, [SystemNext]_allVars
               PROVE  /\ DOMAIN sd' = 0 .. SdUnits - 1 /\ DOMAIN bl' = 0 .. BlUnits - 1
                      /\ act' \in A /\ damaged' \in BOOLEAN /\ offered' \subseteq Images
    OBVIOUS
  <1>0. /\ DOMAIN sd = 0 .. SdUnits - 1 /\ DOMAIN bl = 0 .. BlUnits - 1
        /\ act \in A /\ damaged \in BOOLEAN /\ offered \subseteq Images
        /\ RecordOK(s) /\ ActOK /\ TypeOK
    BY DEF BaseInv, RecordsOK, SystemTypeOK
  <1>1. NoAct \in A
    BY Sizes DEF NoAct
  <1>2. CASE BootStep \/ Receive \/ (AppReset /\ UNCHANGED system) \/ UNCHANGED allVars
    BY <1>2, <1>0 DEF BootStep, Receive, system, allVars
  <1>3. CASE Activate
    <2>1. damaged' = (damaged \/ (pc' = "sdCopy" /\ s.write_offset % PageUnits # 0))
      BY <1>3 DEF Activate
    <2>2. damaged' \in BOOLEAN
      BY <2>1
    <2>3. CASE act' = act
      BY <1>0, <1>3, <2>2, <2>3 DEF Activate
    <2>4. CASE act' # act
      <3> DEFINE rest == s.sd_size - s.write_offset
                 left == AlignToPage(rest)
      <3>1. /\ act' = [target |-> s.write_offset, src |-> Source + s.write_offset,
                       left |-> left, split |-> Split(left)]
            /\ CurrentBank(s).code \in WithSd /\ pc' = "sdCopy"
            /\ ~(s.sd_size # 0 /\ s.write_offset = s.sd_size)
        BY <1>3, <2>4 DEF Activate, nrf_dfu_sd_continue_impl, SystemCodes, WithSd
      <3>2. /\ s.write_offset \in Nat /\ s.sd_size \in Nat /\ s.write_offset <= s.sd_size
            /\ s.sd_size <= SdUnits /\ Source \in Nat
        <4>1. s.bank0.size \in Nat
          BY <1>0 DEF RecordOK, Settings, Bank
        <4>2. PageUnits * s.bank0.size \in Nat
          BY <4>1, Sizes
        <4>3. Source \in Nat
          BY <4>2 DEF Source
        <4>4. s.write_offset \in Nat /\ s.sd_size \in Nat
          BY <1>0 DEF RecordOK, Settings
        <4> QED BY <3>1, <4>3, <4>4, <1>0 DEF RecordOK
      <3>3. rest \in Nat /\ rest <= SdUnits
        BY <3>2, Sizes
      <3> HIDE DEF rest
      <3>4. left \in Nat /\ left % PageUnits = 0 /\ rest <= left /\ left <= SdUnits
        BY <3>3, AlignUp, Sizes, DfuActivateAssumption
      <3>5. Split(left) \in 0 .. SdUnits
        <4>1. CASE left > 0
          <5> HIDE DEF left
          <5> QED BY <3>4, <4>1, Parts, Sizes
        <4>2. CASE left = 0
          <5>1. Split(left) = AlignToPage(0)
            BY <4>2 DEF Split
          <5>2. AlignToPage(0) \in Nat /\ AlignToPage(0) <= SdUnits
            BY AlignUp, Sizes, DfuActivateAssumption
          <5> QED BY <5>1, <5>2, Sizes
        <4> QED BY <4>1, <4>2, <3>4
      <3> HIDE DEF left
      <3>6. act' \in A
        BY <3>1, <3>2, <3>4, <3>5, Sizes
      <3> QED BY <3>6, <2>2, <1>0, <1>3 DEF Activate
    <2> QED BY <2>3, <2>4
  <1>4. CASE SdSave
    <2>1. /\ act.left > 0 /\ act.split > 0
          /\ act.left % PageUnits = 0 /\ act.split % PageUnits = 0
          /\ act.target + act.left \in s.sd_size .. s.sd_size + PageUnits - 1
          /\ s.sd_size \in Nat /\ s.sd_size <= SdUnits
      BY <1>0, <1>4 DEF SdSave, ActOK, RecordOK, Settings
    <2> DEFINE left == IF act.split > act.left THEN 0 ELSE act.left - act.split
    <2>2. CASE left = 0
      BY <1>0, <1>1, <1>4, <2>2 DEF SdSave
    <2>3. CASE left # 0
      <3>1. /\ act' = [act EXCEPT !.target = act.target + act.split,
                                  !.src = act.src + act.split, !.left = left]
        BY <1>4, <2>3 DEF SdSave
      <3>0. /\ act.target \in Nat /\ act.src \in Nat /\ act.left \in Nat /\ act.split \in Nat
            /\ act.left <= SdUnits /\ act.split <= SdUnits /\ SdUnits \in Nat
        BY <1>0, Sizes
      <3>2. left = act.left - act.split /\ left \in Nat /\ left > 0 /\ left <= SdUnits
        BY <2>3, <3>0
      <3>3. left >= PageUnits
        <4>1. (act.left - act.split) % PageUnits = 0
          <5>1. /\ act.left % PageUnits = 0 /\ act.split % PageUnits = 0
                /\ PageUnits \in Nat \ {0} /\ act.left - act.split >= 0
            BY <3>0, <3>2, <2>1, Sizes
          <5> HIDE DEF left
          <5> QED BY <5>1, <3>0, ModSum
        <4>2. left % PageUnits = 0
          BY <4>1, <3>2
        <4> HIDE DEF left
        <4> QED BY <4>2, <3>2, Sizes
      <3> HIDE DEF left
      <3>4. act.target + act.split \in 0 .. SdUnits
        BY <3>0, <3>2, <3>3, <2>1, Sizes
      <3>5. act' \in A
        <4>1. act' = [target |-> act.target + act.split, src |-> act.src + act.split,
                      left |-> left, split |-> act.split]
          BY <3>1, <1>0
        <4> QED BY <4>1, <3>0, <3>2, <3>4
      <3> QED BY <3>5, <1>0, <1>4 DEF SdSave
    <2> QED BY <2>2, <2>3
  <1>5. CASE SdCopy
    BY <1>5, <1>0 DEF SdCopy, SD_MBR_COMMAND_COPY_SD
  <1>6. CASE BlCopy
    BY <1>6, <1>0 DEF BlCopy, SD_MBR_COMMAND_COPY_BL
  <1>7. CASE RegionLost \/ SdCompare \/ SdDone \/ BlCompare
    BY <1>7, <1>0, <1>1 DEF RegionLost, SdCompare, SdDone, BlCompare
  <1>8. CASE PowerFailureInSystem
    <2>1. damaged' \in BOOLEAN
      BY <1>8 DEF PowerFailureInSystem
    <2>2. DOMAIN sd' = 0 .. SdUnits - 1
      BY <1>8, <1>0 DEF PowerFailureInSystem, SD_MBR_COMMAND_COPY_SD
    <2> QED BY <2>1, <2>2, <1>8, <1>0, <1>1 DEF PowerFailureInSystem
  <1> QED
    BY <1>2, <1>3, <1>4, <1>5, <1>6, <1>7, <1>8 DEF SystemNext, Activation

LEMMA BaseStep == BaseInv /\ [SystemNext]_allVars => BaseInv'
  <1> SUFFICES ASSUME BaseInv, [SystemNext]_allVars PROVE BaseInv'
    OBVIOUS
  <1>1. RecordsOK' /\ CopyOK' /\ ReceiveOK' /\ ActOK'
    BY RecordsStep, CopyStep, ReceiveStep, ActStep
  <1>2. /\ settings' \in Settings \cup {NoSettings} /\ s' \in Settings
        /\ write' \in {"none", "erase", "store"}
    BY <1>1 DEF RecordsOK, RecordOK
  <1>3. TypeOK'
    BY <1>2, FlashStep, CopyTypeStep, UpdTypeStep DEF TypeOK
  <1> QED BY <1>1, <1>3, SystemTypeStep DEF BaseInv, SystemTypeOK

LEMMA FactoryRecord ==
    ASSUME NEW r, r = [Zero EXCEPT !.bank0 = [code |-> "VALID_APP", crc |-> Factory,
                                              size |-> Pages[Factory]]]
    PROVE  /\ RecordOK(r) /\ r.current = 0 /\ r.bank0.code = "VALID_APP" /\ r.bank0.crc = Factory
           /\ CurrentBank(r) = r.bank0 /\ r.sd_size = 0
  <1> DEFINE b == [code |-> "VALID_APP", crc |-> Factory, size |-> Pages[Factory]]
  <1>1. b \in Bank /\ BankOK(b) /\ b.code = "VALID_APP" /\ b.crc = Factory
    BY Sizes DEF Bank, BankOK, BankCode
  <1> HIDE DEF b
  <1>2. r = [Zero EXCEPT !.bank0 = b] /\ b.code \notin WithSd
    BY <1>1 DEF b, WithSd
  <1> QED BY <1>1, <1>2, ClearedRecord

LEMMA BaseInit == SystemInit => BaseInv
  <1> SUFFICES ASSUME SystemInit PROVE BaseInv
    OBVIOUS
  <1> USE DEF SystemInit, Init
  <1>1. RecordOK(s) /\ RecordOK(settings) /\ settings \in Settings
    BY ZeroOK, FactoryRecord DEF RecordOK
  <1>2. RecordsOK
    BY <1>1 DEF RecordsOK, Idle
  <1>3. CopyOK /\ ReceiveOK /\ ActOK
    BY DEF CopyOK, ReceiveOK, ActOK, Copying
  <1>4. flash \in [0 .. Region - 1 -> Content]
    BY Sizes DEF Content
  <1>5. TypeOK
    <2>1. NoCopy \in [target : 0 .. Region, src : Nat, left : Nat]
      BY Sizes DEF NoCopy
    <2>2. NoUpdate \in [image : Images \cup {NoImage}, at : Nat, next : Nat, erased : BOOLEAN]
      BY DEF NoUpdate
    <2>3. Zero \in Settings /\ promised \in Images \cup {NoImage}
      BY ZeroOK, Sizes
    <2> QED BY <2>1, <2>2, <2>3, <1>1, <1>4 DEF TypeOK, Stages
  <1>6. SystemTypeOK
    <2>1. DOMAIN sd = 0 .. SdUnits - 1 /\ DOMAIN bl = 0 .. BlUnits - 1
      OBVIOUS
    <2>2. NoAct \in [target : 0 .. SdUnits, src : Nat, left : 0 .. SdUnits, split : 0 .. SdUnits]
      BY Sizes DEF NoAct
    <2> QED BY <2>1, <2>2, <1>5 DEF SystemTypeOK
  <1>7. offered \subseteq Images
    BY DfuActivateAssumption
  <1> QED BY <1>2, <1>3, <1>6, <1>7 DEF BaseInv

\* The records, the banks and the stages fit together in every state.
THEOREM BaseInvariant == SystemSpec => []BaseInv
  BY BaseInit, BaseStep, PTL DEF SystemSpec

\* Type correctness of the boot, the reception of an image and its activation.
THEOREM TypeCorrect == SystemSpec => []SystemTypeOK
  <1>1. BaseInv => SystemTypeOK
    BY DEF BaseInv
  <1> QED BY <1>1, BaseInvariant, PTL

-----------------------------------------------------------------------------
(* What is booted.                                                         *)

\* The check of nrf_dfu_init holds as long as the application runs.
BootInv == pc = "app" => nrf_dfu_app_is_valid(flash, s)

LEMMA BootStepKeeps == BaseInv /\ BootInv /\ [SystemNext]_allVars => BootInv'
  <1> SUFFICES ASSUME BaseInv, BootInv, [SystemNext]_allVars, pc' = "app"
               PROVE nrf_dfu_app_is_valid(flash, s)'
    BY DEF BootInv
  <1>1. CASE Check
    BY <1>1 DEF Check, nrf_dfu_app_is_valid, CrcMatches, WholeAt
  <1>2. CASE UNCHANGED <<pc, flash, s>>
    BY <1>2 DEF BootInv, nrf_dfu_app_is_valid, CrcMatches, WholeAt
  <1> QED
    <2>1. CASE BootStep /\ ~Check
      BY <2>1, <1>2 DEF BootStep, SettingsErase, SettingsStore, nrf_dfu_settings_init,
         nrf_dfu_continue, CopyErase, CopyStore, CopyCompare, CopyRelease, CopyNext,
         on_dfu_complete, Restarted
    <2>2. CASE Activation
      BY <2>2 DEF Activation, Activate, RegionLost, SdCopy, SdCompare, SdSave, SdDone,
                  BlCompare, BlCopy, Restarted
    <2>3. CASE Receive \/ AppReset \/ PowerFailure
      BY <2>3 DEF Receive, InitCommand, ObjectErase, ObjectStore, PostValidate,
                  AppReset, PowerFailure, Restarted
    <2>4. CASE UNCHANGED allVars
      BY <2>4, <1>2 DEF allVars
    <2> QED
      BY <2>1, <2>2, <2>3, <2>4, <1>1 DEF SystemNext, PowerFailureInSystem

\* BootsWhole: nrf_dfu_init leaves for the application only with its pages all
\* in place, wherever the power failed before.
THEOREM BootCorrect == SystemSpec => []BootsWhole
  <1>1. SystemInit => BootInv
    BY DEF SystemInit, Init, BootInv
  <1>2. BaseInv /\ BootInv => BootsWhole
    <2> SUFFICES ASSUME BaseInv, BootInv, pc = "app" PROVE \E i \in Images : WholeAt(flash, i, 0)
      BY DEF BootsWhole
    <2>1. s.bank0.code = "VALID_APP" /\ (s.bank0.crc # NoImage => CrcMatches(flash, s.bank0))
      BY DEF BootInv, nrf_dfu_app_is_valid
    <2>2. s.bank0.crc \in Images
      BY <2>1 DEF BaseInv, RecordsOK, RecordOK, BankOK
    <2> QED BY <2>1, <2>2, Sizes DEF CrcMatches
  <1> QED BY <1>1, <1>2, BootStepKeeps, BaseInvariant, PTL DEF SystemSpec

\* ReceivingKeepsApp: an update that is received behind the application leaves
\* its pages alone.
THEOREM AppKept == SystemSpec => ReceivingKeepsApp
  <1>1. BaseInv /\ [SystemNext]_allVars =>
            [pc = "receive" /\ s.current = 1 =>
                \A p \in 0 .. s.bank0.size - 1 : flash'[p] = flash[p]]_vars
    <2> SUFFICES ASSUME BaseInv, [SystemNext]_allVars, pc = "receive", s.current = 1,
                        NEW p \in 0 .. s.bank0.size - 1
                 PROVE  flash'[p] = flash[p]
      OBVIOUS
    <2>1. /\ flash \in [0 .. Region - 1 -> Content] /\ upd.at = s.bank0.size
          /\ upd.next \in Nat /\ s.bank0.size \in Nat /\ s.bank0.size <= Region
      <3>1. RecordOK(s) /\ ReceiveOK /\ TypeOK
        BY DEF BaseInv, RecordsOK, SystemTypeOK
      <3>2. s.bank0.size \in Nat /\ s.bank1.size \in Nat /\ s.bank0.size + s.bank1.size <= Region
        BY <3>1 DEF RecordOK, Settings, Bank
      <3>3. upd.at = s.bank0.size
        BY <3>1 DEF ReceiveOK, Place
      <3> QED BY <3>1, <3>2, <3>3, Sizes DEF TypeOK
    <2>2. p \in 0 .. Region - 1 /\ p # upd.at + upd.next
      BY <2>1, Sizes
    <2>3. CASE flash' = flash
      BY <2>3
    <2>4. ASSUME NEW c, flash' = [flash EXCEPT ![upd.at + upd.next] = c]
          PROVE  flash'[p] = flash[p]
      BY <2>1, <2>2, <2>4
    <2>5. CASE ObjectErase \/ ObjectStore
      BY <2>4, <2>5 DEF ObjectErase, ObjectStore
    <2>6. CASE PowerFailure
      BY <2>3, <2>4, <2>6 DEF PowerFailure, InHand
    <2>7. CASE BootStep
      BY <2>3, <2>7 DEF BootStep, SettingsErase, SettingsStore, nrf_dfu_settings_init,
         nrf_dfu_continue, CopyErase, CopyStore, CopyCompare, CopyRelease, CopyNext, Check,
         on_dfu_complete
    <2>8. CASE Activation
      BY <2>3, <2>8 DEF Activation, Activate, RegionLost, SdCopy, SdCompare, SdSave, SdDone,
                        BlCompare, BlCopy
    <2>9. CASE (\E i \in offered : InitCommand(i)) \/ PostValidate \/ AppReset \/ UNCHANGED allVars
      BY <2>3, <2>9 DEF InitCommand, PostValidate, AppReset, allVars
    <2> QED
      BY <2>5, <2>6, <2>7, <2>8, <2>9 DEF SystemNext, Receive, PowerFailureInSystem
  <1> QED BY <1>1, BaseInvariant, PTL DEF SystemSpec, ReceivingKeepsApp

-----------------------------------------------------------------------------
(* What stays installed.                                                   *)

\* In the context of the invariants: what Kept is about, and its parts.
Keeping == BaseInv /\ Kept /\ ~hurt /\ promised # NoImage

LEMMA KeepingFacts ==
    ASSUME Keeping
    PROVE  /\ RecordOK(s) /\ TypeOK /\ CopyOK /\ ReceiveOK /\ ActOK /\ RecordsOK
           /\ promised \in Images /\ Kind[promised] = "APP"
           /\ Pages[promised] \in Nat /\ Pages[promised] >= StorePages
           /\ s \in Settings /\ s.current \in {0, 1} /\ s.bank0.size \in Nat /\ s.bank1.size \in Nat
           /\ flash \in [0 .. Region - 1 -> Content] /\ Region \in Nat
           /\ pc # "reset" /\ Idle => settings = s
           /\ settings \in Settings => settings # NoSettings
  <1>1. /\ RecordOK(s) /\ TypeOK /\ CopyOK /\ ReceiveOK /\ ActOK /\ RecordsOK
        /\ promised \in Images /\ Kind[promised] = "APP"
    BY DEF Keeping, BaseInv, SystemTypeOK, RecordsOK, TypeOK, Kept
  <1>2. Pages[promised] \in Nat /\ Pages[promised] >= StorePages
    BY <1>1, DfuBootAssumption
  <1>3. s \in Settings /\ s.current \in {0, 1} /\ s.bank0.size \in Nat /\ s.bank1.size \in Nat
    BY <1>1 DEF RecordOK, Settings, Bank
  <1> QED BY <1>1, <1>2, <1>3, Sizes, SettingsAssumption DEF TypeOK, RecordsOK

\* An installed application is the one of bank 0, and fills it.
LEMMA InstalledBank ==
    ASSUME Keeping, Installed(s)
    PROVE  /\ s.bank0.size = Pages[promised]
           /\ CurrentBank(s).code # "VALID_APP" => s.current = 1
           /\ CurrentBank(s).code \in SystemCodes => s.current = 1
           /\ s.current = 1 => CurrentBank(s) = s.bank1
  <1>1. s.bank0.code = "VALID_APP" /\ s.bank0.crc = promised
    BY DEF Installed
  <1>2. RecordOK(s)
    BY KeepingFacts
  <1>3. s.bank0.size = Pages[promised]
    BY <1>1, <1>2 DEF RecordOK, BankOK
  <1> QED BY <1>1, <1>2, <1>3, CurrentIs DEF SystemCodes

\* The settings page is written.
LEMMA KeptStore ==
    ASSUME BaseInv, Kept, SettingsStore, ~hurt', promised' # NoImage
    PROVE  Kept'
  <1>1. /\ UNCHANGED <<flash, s, pc, copy, upd>> /\ pc # "reset" /\ pc \notin Copying \ {"copyNext"}
        /\ BaseInv
    BY DEF SettingsStore, BaseInv, RecordsOK, Quiet, Idle, Copying
  <1> DEFINE done == pc = "done" /\ upd.image \in Images /\ Kind[upd.image] = "APP"
  <1>2. CASE done
    <2>1. promised' = upd.image /\ hurt' = FALSE
      BY <1>2 DEF SettingsStore
    <2>2. /\ s.write_offset = 0 /\ WholeAt(flash, upd.image, Place(s))
          /\ CurrentBank(s) = [code |-> BankCode[Kind[upd.image]], crc |-> upd.image,
                               size |-> Pages[upd.image]]
      BY <1>2 DEF BaseInv, ReceiveOK
    <2>3. BankCode[Kind[upd.image]] = "VALID_APP"
      BY <1>2, BankCodes
    <2>4. RecordOK(s)
      BY DEF BaseInv, RecordsOK
    <2>5. CASE s.current = 1
      <3>1. CurrentBank(s) = s.bank1 /\ Place(s) = s.bank0.size
        BY <2>4, <2>5, CurrentIs DEF Place
      <3>2. Waiting(s)'
        BY <1>1, <2>1, <2>2, <2>3, <2>5, <3>1 DEF Waiting
      <3> QED BY <1>1, <1>2, <2>1, <3>2 DEF Kept, Copying
    <2>6. CASE s.current # 1
      <3>1. CurrentBank(s) = s.bank0 /\ Place(s) = 0
        BY <2>4, <2>6, CurrentIs DEF Place
      <3>2. Installed(s)'
        BY <1>1, <2>1, <2>2, <2>3, <2>6, <3>1 DEF Installed
      <3> QED BY <1>1, <1>2, <2>1, <3>2 DEF Kept, Copying
    <2> QED BY <2>5, <2>6
  <1>3. CASE ~done
    <2>1. promised' = promised /\ hurt' = hurt
      BY <1>3 DEF SettingsStore, BaseInv, SystemTypeOK, TypeOK
    <2> QED BY <1>1, <2>1 DEF Kept, Installed, Waiting, Moving
  <1> QED BY <1>2, <1>3

\* The copy of an application, page by page.
LEMMA KeptCopy ==
    ASSUME Keeping, CopyErase \/ CopyStore \/ CopyCompare \/ CopyRelease \/ CopyNext
    PROVE  Kept'
  <1> DEFINE j == copy.target
             B == s.bank0.size
             N == Pages[promised]
  <1>0. /\ pc \in Copying /\ Moving /\ UNCHANGED <<promised, hurt, upd>>
        /\ Kind[promised] = "APP" /\ promised \in Images
    BY KeepingFacts DEF Keeping, Kept, CopyErase, CopyStore, CopyCompare, CopyRelease, CopyNext,
                        Copying
  <1>1. /\ s.current = 1 /\ s.bank1.code = "VALID_APP" /\ s.bank1.crc = promised
        /\ s.bank0.code = "VALID_APP" /\ s.bank1.size = N
        /\ j + copy.left = N /\ copy.left > 0 /\ copy.src = B + j
        /\ B >= StorePages /\ B + N <= Region
    <2>1. RecordOK(s) /\ CopyOK
      BY KeepingFacts
    <2>2. /\ s.current = 1 /\ s.bank1.code = "VALID_APP" /\ j + copy.left = s.bank1.size
      BY <1>0, <2>1 DEF CopyOK
    <2>3. s.bank1.crc = promised /\ copy.left > 0 /\ copy.src = B + j
      BY <1>0 DEF Moving
    <2>4. /\ s.bank0.code = "VALID_APP" /\ s.bank0.size + s.bank1.size <= Region
          /\ s.bank1.size = N
      BY <2>1, <2>2, <2>3 DEF RecordOK, BankOK
    <2>5. s.bank0.crc \in Images /\ BankCode[Kind[s.bank0.crc]] = "VALID_APP"
          /\ B = Pages[s.bank0.crc]
      BY <2>1, <2>4 DEF RecordOK, BankOK
    <2>6. B >= StorePages
      BY <2>5, BankCodes, DfuBootAssumption
    <2> QED BY <2>2, <2>3, <2>4, <2>6
  <1>2. /\ j \in Nat /\ copy.left \in Nat /\ copy.src \in Nat /\ B \in Nat /\ N \in Nat
        /\ StorePages \in Nat /\ StorePages > 0 /\ Cur = 1 /\ Region \in Nat
        /\ flash \in [0 .. Region - 1 -> Content]
    BY <1>1, KeepingFacts, Sizes DEF TypeOK, Cur
  <1>3. /\ \A k \in 0 .. N - 1 :
              /\ k < j \/ (k = j /\ pc \in {"copyCompare", "copyRelease", "copyNext"}) =>
                    flash[k] = <<promised, k>>
              /\ k > j \/ (k = j /\ pc # "copyNext") => flash[B + k] = <<promised, k>>
        /\ pc = "copyStore" => flash[j] = Erased
    BY <1>0 DEF Moving
  <1>11. /\ j \in 0 .. Region - 1 /\ j \in 0 .. N - 1 /\ copy.src = B + j
         /\ copy.src < Region /\ j < Region
    <2> HIDE DEF N, B, j
    <2> QED BY <1>1, <1>2
  <1>4. ASSUME pc' \in Copying, Moving' PROVE Kept'
    BY <1>0, <1>4 DEF Kept, Copying
  <1>10. ASSUME NEW k \in 0 .. N - 1
         PROVE  /\ k \in 0 .. Region - 1 /\ B + k \in 0 .. Region - 1
                /\ k < j => k # B + j
                /\ k > j \/ k = j => B + k # j /\ B + k >= j + StorePages
                /\ k > j => B + k # B + j
                /\ k = j => B + k = copy.src
                /\ k = j => k # B + j
    <2>1. k \in Nat /\ k < N /\ copy.src = B + j
      BY <1>1, <1>2
    <2>2. B >= StorePages /\ B + N <= Region
      BY <1>1
    <2> HIDE DEF N, B, j
    <2> QED BY <2>1, <2>2, <1>2
  <1>5. CASE CopyErase
    <2>1. /\ pc = "copyErase" /\ pc' = "copyStore" /\ flash' = [flash EXCEPT ![j] = Erased]
          /\ UNCHANGED <<s, copy>>
      BY <1>5 DEF CopyErase
    <2>2. \A q \in 0 .. Region - 1 : q # j => flash'[q] = flash[q]
      BY <2>1, <1>2
    <2>3. flash'[j] = Erased
      <3> HIDE DEF j
      <3> QED BY <2>1, <1>11, <1>2
    <2>4. ASSUME NEW k \in 0 .. N - 1
          PROVE  /\ k < j => flash'[k] = <<promised, k>>
                 /\ k > j \/ k = j => flash'[B + k] = <<promised, k>>
      <3>1. /\ k < j => flash[k] = <<promised, k>>
            /\ k > j \/ k = j => flash[B + k] = <<promised, k>>
        BY <2>1, <1>3
      <3>2. k < j => k # j
        BY <1>2
      <3> HIDE DEF N, B, j
      <3> QED BY <2>2, <3>1, <3>2, <1>10
    <2>5. Moving'
      <3> HIDE DEF N, B, j
      <3> QED BY <2>1, <2>3, <2>4, <1>0, <1>1 DEF Moving, N, B, j
    <2> QED BY <2>1, <2>5, <1>4 DEF Copying
  <1>6. CASE CopyStore
    <2>1. /\ pc = "copyStore" /\ pc' = "copyCompare" /\ flash' = PagesStored
          /\ UNCHANGED <<s, copy>>
      BY <1>6 DEF CopyStore
    <2>2. /\ \A q \in 0 .. Region - 1 : q < j \/ q >= j + StorePages => flash'[q] = flash[q]
          /\ flash'[j] = flash[B + j]
      <3>1. TypeOK /\ flash[j] = Erased
        BY <2>1, <1>3, KeepingFacts
      <3> QED BY <2>1, <3>1, <1>11, <1>2, Stored
    <2>3. ASSUME NEW k \in 0 .. N - 1
          PROVE  /\ k < j \/ k = j => flash'[k] = <<promised, k>>
                 /\ k > j \/ k = j => flash'[B + k] = <<promised, k>>
      <3>1. /\ k < j => flash[k] = <<promised, k>>
            /\ k > j \/ k = j => flash[B + k] = <<promised, k>>
        BY <2>1, <1>3
      <3> HIDE DEF N, B, j
      <3> QED BY <2>2, <3>1, <1>10
    <2>4. Moving'
      <3> HIDE DEF N, B, j
      <3> QED BY <2>1, <2>3, <1>0, <1>1 DEF Moving, N, B, j
    <2> QED BY <2>1, <2>4, <1>4 DEF Copying
  <1>7. CASE CopyCompare
    <2>1. pc = "copyCompare" /\ j \in 0 .. N - 1
      BY <1>1, <1>2, <1>7 DEF CopyCompare
    <2>2. flash[j] = flash[copy.src] /\ copy.src < Region
      <3>1. flash[j] = <<promised, j>> /\ flash[B + j] = <<promised, j>>
        BY <2>1, <1>3
      <3> HIDE DEF B, j
      <3> QED BY <3>1, <1>11
    <2>3. pc' = "copyRelease" /\ UNCHANGED <<s, copy, flash>>
      BY <2>2, <1>2, <1>7 DEF CopyCompare
    <2>4. Moving'
      BY <2>1, <2>3, <1>0 DEF Moving
    <2> QED BY <2>3, <2>4, <1>4 DEF Copying
  <1>8. CASE CopyRelease
    <2>1. /\ pc = "copyRelease" /\ pc' = "copyNext" /\ copy' = copy
          /\ s' = [s EXCEPT !.write_offset = @ + Cur]
          /\ flash' = [flash EXCEPT ![B + j] = Erased]
      BY <1>1, <1>2, <1>8 DEF CopyRelease
    <2>2. s'.bank0 = s.bank0 /\ s'.bank1 = s.bank1
      BY <2>1, KeepingFacts DEF Settings
    <2>3. \A q \in 0 .. Region - 1 : q # B + j => flash'[q] = flash[q]
      BY <2>1, <1>2
    <2>4. ASSUME NEW k \in 0 .. N - 1
          PROVE  /\ k < j \/ k = j => flash'[k] = <<promised, k>>
                 /\ k > j => flash'[B + k] = <<promised, k>>
      <3>1. /\ k < j \/ k = j => flash[k] = <<promised, k>>
            /\ k > j => flash[B + k] = <<promised, k>>
        BY <2>1, <1>3
      <3> HIDE DEF N, B, j
      <3> QED BY <2>3, <3>1, <1>10
    <2>5. Moving'
      <3> HIDE DEF N, B, j
      <3> QED BY <2>1, <2>2, <2>4, <1>0, <1>1 DEF Moving, N, B, j
    <2> QED BY <2>1, <2>5, <1>4 DEF Copying
  <1>9. CASE CopyNext
    <2>1. pc = "copyNext" /\ flash' = flash
      BY <1>9 DEF CopyNext
    <2>2. CASE copy.left > Cur
      <3>1. /\ pc' = "copyErase" /\ s' = s
            /\ copy' = [target |-> j + 1, src |-> copy.src + 1, left |-> copy.left - 1]
        BY <1>9, <2>2 DEF CopyNext
      <3>2. /\ copy'.target = j + 1 /\ copy'.src = B + (j + 1) /\ copy'.left > 0
        <4> HIDE DEF B, j
        <4>1. copy.src + 1 = B + (j + 1) /\ copy.left - 1 > 0
          BY <2>2, <1>2, <1>11
        <4> QED BY <3>1, <4>1
      <3>3. ASSUME NEW k \in 0 .. N - 1
            PROVE  /\ k < j + 1 => flash[k] = <<promised, k>>
                   /\ k > j + 1 \/ k = j + 1 => flash[B + k] = <<promised, k>>
        <4>1. /\ k < j \/ k = j => flash[k] = <<promised, k>>
              /\ k > j => flash[B + k] = <<promised, k>>
          BY <2>1, <1>3
        <4>2. /\ k < j + 1 => k < j \/ k = j
              /\ k > j + 1 \/ k = j + 1 => k > j
          BY <1>2
        <4> HIDE DEF N, B, j
        <4> QED BY <4>1, <4>2
      <3>4. Moving'
        <4> HIDE DEF N, B, j
        <4> QED BY <2>1, <3>1, <3>2, <3>3, <1>0, <1>1 DEF Moving, N, B
      <3> QED BY <3>1, <3>4, <1>4 DEF Copying
    <2>3. CASE ~(copy.left > Cur)
      <3>1. N = j + 1
        BY <2>3, <1>1, <1>2
      <3>2. WholeAt(flash, promised, 0)
        <4>1. \A k \in 0 .. N - 1 : 0 + k = k /\ (k < j \/ k = j)
          BY <3>1, <1>2
        <4> QED BY <4>1, <2>1, <1>3 DEF WholeAt
      <3>3. CrcMatches(flash, s.bank1)
        BY <3>2, <1>0, <1>1 DEF CrcMatches
      <3>4. pc' = "check" /\ s' = [Zero EXCEPT !.bank0 = s.bank1]
        BY <3>3, <2>3, <1>9 DEF CopyNext
      <3>5. s'.bank0 = s.bank1 /\ s'.current = 0
        BY <3>4 DEF Zero
      <3>6. Installed(s)'
        BY <3>2, <3>5, <2>1, <1>0, <1>1 DEF Installed, WholeAt
      <3> QED BY <3>4, <3>6, <1>0 DEF Kept, Copying
    <2> QED BY <2>2, <2>3
  <1> QED BY <1>5, <1>6, <1>7, <1>8, <1>9

\* The reception of an image.
LEMMA KeptReceive ==
    ASSUME Keeping, promised' # NoImage,
           (\E i \in offered : InitCommand(i)) \/ ObjectErase \/ ObjectStore \/ PostValidate
    PROVE  Kept'
  <1>0. /\ pc \in {"dfu", "receive"} /\ UNCHANGED hurt
        /\ (pc = "receive" => Kind[upd.image] # "APP") /\ Kind[promised] = "APP"
        /\ offered \subseteq Images
    BY KeepingFacts DEF Keeping, Kept, BaseInv, InitCommand, ObjectErase, ObjectStore, PostValidate
  <1>1. Installed(s)
    BY <1>0 DEF Keeping, Kept, Copying
  <1>2. /\ RecordOK(s) /\ ReceiveOK /\ TypeOK /\ Pages[promised] \in Nat
    BY KeepingFacts
  <1>3. CASE \E i \in offered : InitCommand(i)
    <2>1. PICK i \in Images : InitCommand(i)
      BY <1>0, <1>3
    <2>2. /\ s' = [nrf_dfu_find_cache(i).settings EXCEPT !.write_offset = 0]
          /\ upd'.image = i /\ pc' = "receive" /\ flash' = flash
          /\ promised' = promised /\ Kind[i] # "APP" /\ s'.current = 1
      BY <2>1 DEF InitCommand, Keeping
    <2>3. RecordOK(s') /\ CurrentBank(s').code = "INVALID" /\ s'.bank0 = s.bank0
      BY <2>2, <1>2, InitRecord
    <2>4. s'.bank1.code = "INVALID"
      BY <2>2, <2>3, CurrentIs
    <2>5. Installed(s)'
      BY <1>1, <2>2, <2>3, <2>4 DEF Installed, WholeAt
    <2> QED BY <2>2, <2>5, <1>0 DEF Kept, Copying
  <1>4. CASE ObjectErase \/ ObjectStore
    <2>1. pc = "receive" /\ pc' = "receive" /\ promised' = promised /\ upd'.image = upd.image
      BY <1>4, <1>2 DEF ObjectErase, ObjectStore, TypeOK
    <2>2. s.current = 1 /\ s.bank0.size = Pages[promised] /\ upd.at = s.bank0.size
      <3>1. s.bank0.code # "INVALID"
        BY <1>1 DEF Installed
      <3>2. CurrentBank(s).code = "INVALID" /\ upd.at = Place(s)
        BY <1>2, <2>1 DEF ReceiveOK
      <3> QED BY <3>1, <3>2, <1>1, <1>2, InstalledBank, CurrentIs DEF Place
    <2>3. \A k \in 0 .. Pages[promised] - 1 : flash'[0 + k] = flash[0 + k]
      <3>1. upd.next \in Nat /\ flash \in [0 .. Region - 1 -> Content] /\ Region \in Nat
            /\ Pages[promised] <= Region
        BY <1>2, Sizes, KeepingFacts DEF TypeOK
      <3>2. PICK c : flash' = [flash EXCEPT ![Pages[promised] + upd.next] = c]
        BY <1>4, <2>2 DEF ObjectErase, ObjectStore
      <3>3. \A k \in 0 .. Pages[promised] - 1 :
               k # Pages[promised] + upd.next /\ k \in 0 .. Region - 1 /\ 0 + k = k
        BY <3>1, <1>2
      <3> QED BY <3>1, <3>2, <3>3
    <2>4. s'.bank0 = s.bank0 /\ s'.bank1 = s.bank1 /\ s'.current = s.current
      BY <1>4, KeepingFacts DEF ObjectErase, ObjectStore, Settings
    <2>5. s'.current = 1 => s'.bank1.code # "VALID_APP"
      BY <1>1, <2>4 DEF Installed
    <2>6. Installed(s)'
      BY <1>1, <2>1, <2>3, <2>4, <2>5 DEF Installed, WholeAt
    <2> QED BY <2>1, <2>6, <1>0 DEF Kept, Copying
  <1>5. CASE PostValidate
    <2> DEFINE ok == WholeAt(flash, upd.image, upd.at)
    <2>1. pc = "receive" /\ pc' = "done" /\ promised' = promised /\ flash' = flash
      BY <1>5 DEF PostValidate
    <2>2. /\ upd.image \in Images /\ RecordOK(s')
          /\ s'.current = s.current /\ (s.current = 1 => s'.bank0 = s.bank0)
          /\ CurrentBank(s') = IF ok THEN [code |-> BankCode[Kind[upd.image]], crc |-> upd.image,
                                           size |-> Pages[upd.image]]
                               ELSE NoBank
      BY <1>2, <1>5, ValidatedRecord
    <2>3. s.current = 1
      <3>1. s.bank0.code # "INVALID"
        BY <1>1 DEF Installed
      <3>2. CurrentBank(s).code = "INVALID"
        BY <1>2, <2>1 DEF ReceiveOK
      <3> QED BY <3>1, <3>2, <1>1, <1>2, InstalledBank, CurrentIs
    <2>4. s'.bank1 = CurrentBank(s')
      BY <2>2, <2>3, CurrentIs
    <2>5. s'.bank1.code # "VALID_APP"
      BY <2>1, <2>2, <2>4, <1>0, BankCodes DEF NoBank
    <2>6. Installed(s)'
      BY <1>1, <2>1, <2>2, <2>3, <2>5 DEF Installed, WholeAt
    <2> QED BY <2>1, <2>6, <1>0 DEF Kept, Copying
  <1> QED BY <1>3, <1>4, <1>5

\* The activation of a SoftDevice or a bootloader: it came behind the application.
LEMMA KeptActivation ==
    ASSUME Keeping, Activation
    PROVE  Kept'
  <1>0. /\ UNCHANGED <<promised, hurt, flash>> /\ Kind[promised] = "APP"
        /\ pc \in {"continue", "sdCopy", "sdCompare", "sdSave", "sdDone", "blCompare", "blCopy"}
        /\ pc \in Stages
    BY KeepingFacts DEF Activation, Activate, RegionLost, SdCopy, SdCompare, SdSave, SdDone,
                        BlCompare, BlCopy, TypeOK
  <1>1. RecordOK(s) /\ ActOK /\ RecordsOK
    BY KeepingFacts
  <1>2. CASE Activate \/ RegionLost
    <2>1. pc = "continue" /\ s' = s
      BY <1>2 DEF Activate, RegionLost
    <2>2. Installed(s) \/ Waiting(s)
      BY <2>1 DEF Keeping, Kept
    <2>3. CASE RegionLost
      <3>1. pc' = "fault"
        BY <2>3 DEF RegionLost
      <3> QED BY <2>1, <2>2, <3>1, <1>0 DEF Kept, Installed, Waiting, WholeAt, Copying
    <2>4. CASE Activate
      <3>1. CurrentBank(s).code \in SystemCodes /\ pc' \in {"blCompare", "sdDone", "sdCopy"}
        BY <2>4 DEF Activate
      <3>2. ~Waiting(s)
        BY <3>1, <1>1, CurrentIs DEF Waiting, SystemCodes
      <3>3. Installed(s)'
        BY <2>1, <2>2, <3>2, <1>0 DEF Installed, WholeAt
      <3> QED BY <3>1, <3>3, <1>0 DEF Kept, Copying
    <2> QED BY <1>2, <2>3, <2>4
  <1>3. ASSUME pc # "continue" PROVE Installed(s)
    BY <1>0, <1>3 DEF Keeping, Kept, Copying
  <1>4. CASE SdCopy \/ SdCompare
    <2>1. s' = s /\ pc # "continue" /\ pc' \in {"sdCompare", "sdSave", "check"}
      BY <1>4 DEF SdCopy, SdCompare
    <2>2. Installed(s)'
      BY <2>1, <1>0, <1>3 DEF Installed, WholeAt
    <2> QED BY <2>1, <2>2, <1>0 DEF Kept, Copying
  <1>5. CASE SdSave
    <2>1. pc # "continue" /\ pc' \in {"sdDone", "sdCopy"}
      BY <1>5 DEF SdSave
    <2>2. s'.bank0 = s.bank0 /\ s'.bank1 = s.bank1 /\ s'.current = s.current
      BY <1>5, KeepingFacts DEF SdSave, Settings
    <2>3. Installed(s)'
      BY <2>1, <2>2, <1>0, <1>3 DEF Installed, WholeAt
    <2> QED BY <2>1, <2>3, <1>0 DEF Kept, Copying
  <1>6. CASE SdDone \/ BlCompare
    <2>1. pc # "continue" /\ pc' \in {"check", "blCompare", "blCopy"}
      BY <1>6 DEF SdDone, BlCompare
    <2>2. Installed(s)
      BY <2>1, <1>3
    <2>3. CASE s' = s
      <3>1. Installed(s)'
        BY <2>2, <2>3, <1>0 DEF Installed, WholeAt
      <3> QED BY <2>1, <3>1, <1>0 DEF Kept, Copying
    <2>4. CASE nrf_dfu_invalidate_bank
      <3>1. CurrentBank(s).code \in SystemCodes
        BY <1>1, <1>6 DEF ActOK, SdDone, BlCompare, WithSd, WithBl, SystemCodes
      <3>2. s.current = 1
        BY <2>2, <3>1, InstalledBank
      <3>3. s'.bank0 = s.bank0 /\ s'.current = 0
        BY <2>4, <3>2, <1>1, InvalidatedRecord
      <3>4. Installed(s)'
        BY <2>2, <3>3, <1>0 DEF Installed, WholeAt
      <3> QED BY <2>1, <3>4, <1>0 DEF Kept, Copying
    <2> QED BY <2>3, <2>4, <1>6 DEF SdDone, BlCompare
  <1>7. CASE BlCopy
    <2>1. pc = "blCopy" /\ pc' = "reset" /\ settings' = settings
      BY <1>7 DEF BlCopy, Restarted
    <2>2. settings = s
      BY <2>1, <1>1 DEF RecordsOK, Quiet
    <2>3. Installed(s) /\ settings' # NoSettings
      BY <2>1, <2>2, <1>3, KeepingFacts
    <2>4. Installed(settings)'
      BY <2>1, <2>2, <2>3, <1>0 DEF Installed, WholeAt
    <2> QED BY <2>1, <2>3, <2>4, <1>0 DEF Kept, Copying
  <1> QED BY <1>2, <1>4, <1>5, <1>6, <1>7 DEF Activation

\* A reset: the settings page holds what the copy in RAM does.
LEMMA KeptReset ==
    ASSUME Keeping, on_dfu_complete \/ AppReset \/ PowerFailure, ~hurt', promised' # NoImage
    PROVE  Kept'
  <1>0. /\ pc' = "reset" /\ promised' = promised /\ Idle /\ settings' = settings
        /\ Kind[promised] = "APP" /\ pc \notin Copying /\ settings' # NoSettings
    <2>1. /\ pc' = "reset" /\ promised' = promised /\ Idle /\ settings' = settings
          /\ pc \notin Copying
      BY DEF on_dfu_complete, AppReset, PowerFailure, Restarted, Copying, Keeping
    <2>2. Kind[promised] = "APP" /\ settings # NoSettings
      <3>1. pc = "reset" => settings # NoSettings
        BY DEF Keeping, Kept
      <3> QED BY <3>1, <2>1, KeepingFacts
    <2> QED BY <2>1, <2>2
  <1>1. CASE pc = "reset"
    <2>1. Installed(settings) \/ Waiting(settings)
      BY <1>1 DEF Keeping, Kept
    <2>2. flash' = flash
      BY <1>1 DEF on_dfu_complete, AppReset, PowerFailure, InHand
    <2> QED BY <2>1, <2>2, <1>0 DEF Kept, Copying, Installed, Waiting, WholeAt
  <1>2. CASE pc # "reset"
    <2>1. settings = s
      BY <1>0, <1>2, KeepingFacts
    <2>2. CASE pc = "receive"
      <3>1. Installed(s)
        BY <2>2 DEF Keeping, Kept, Copying
      <3>2. s.current = 1 /\ s.bank0.size = Pages[promised] /\ upd.at = s.bank0.size
        <4>1. s.bank0.code # "INVALID"
          BY <3>1 DEF Installed
        <4>2. CurrentBank(s).code = "INVALID" /\ upd.at = Place(s)
          BY <2>2, KeepingFacts DEF ReceiveOK
        <4> QED BY <4>1, <4>2, <3>1, InstalledBank, KeepingFacts, CurrentIs DEF Place
      <3>3. \A k \in 0 .. Pages[promised] - 1 : flash'[0 + k] = flash[0 + k]
        <4>1. upd.next \in Nat /\ flash \in [0 .. Region - 1 -> Content] /\ Region \in Nat
              /\ Pages[promised] \in Nat
          BY Sizes, KeepingFacts DEF TypeOK
        <4>2. flash' = flash \/ \E c : flash' = [flash EXCEPT ![Pages[promised] + upd.next] = c]
          BY <2>2, <3>2, <1>0 DEF on_dfu_complete, AppReset, PowerFailure, InHand
        <4>3. Pages[promised] <= Region
          BY KeepingFacts, Sizes
        <4>4. \A k \in 0 .. Pages[promised] - 1 :
                 k # Pages[promised] + upd.next /\ k \in 0 .. Region - 1 /\ 0 + k = k
          BY <4>1, <4>3
        <4> QED BY <4>1, <4>2, <4>4
      <3>4. Installed(settings)'
        BY <2>1, <3>1, <3>3, <1>0 DEF Installed, WholeAt
      <3> QED BY <3>4, <1>0 DEF Kept, Copying
    <2>3. CASE pc # "receive"
      <3>1. Installed(s) \/ Waiting(s)
        BY <2>3, <1>0, <1>2 DEF Keeping, Kept
      <3>2. flash' = flash
        BY <2>3, <1>0 DEF on_dfu_complete, AppReset, PowerFailure, InHand, Copying
      <3> QED BY <2>1, <3>1, <3>2, <1>0 DEF Kept, Copying, Installed, Waiting, WholeAt
    <2> QED BY <2>2, <2>3
  <1> QED BY <1>1, <1>2

LEMMA KeptStep == BaseInv /\ Kept /\ [SystemNext]_allVars => Kept'
  <1> SUFFICES ASSUME BaseInv, Kept, [SystemNext]_allVars, ~hurt', promised' # NoImage
               PROVE Kept'
    BY DEF Kept
  <1>1. CASE SettingsStore
    BY <1>1, KeptStore
  <1>2. CASE \E i \in offered : InitCommand(i)
    <2>1. Keeping
      BY <1>2 DEF InitCommand, Keeping
    <2> QED BY <1>2, <2>1, KeptReceive
  <1>3. ASSUME ~SettingsStore, ~(\E i \in offered : InitCommand(i)) PROVE Keeping
    <2>1. promised' = promised /\ (hurt' = hurt \/ PowerFailure)
      BY <1>3 DEF SystemNext, BootStep, SettingsErase, nrf_dfu_settings_init,
         nrf_dfu_continue, CopyErase, CopyStore, CopyCompare, CopyRelease, CopyNext, Check,
         on_dfu_complete, Activation, Activate, RegionLost, SdCopy, SdCompare, SdSave, SdDone,
         BlCompare, BlCopy, Receive, ObjectErase, ObjectStore, PostValidate, AppReset,
         PowerFailureInSystem, PowerFailure, allVars
    <2>2. ~hurt
      BY <2>1 DEF PowerFailure
    <2> QED BY <2>1, <2>2 DEF Keeping
  <1>4. CASE Keeping /\ SettingsErase
    <2>1. /\ UNCHANGED <<flash, s, pc, copy, promised, hurt, upd>> /\ pc # "reset"
      BY <1>4 DEF SettingsErase, BaseInv, RecordsOK, Quiet, Idle
    <2> QED BY <2>1, <1>4 DEF Kept, Keeping, Installed, Waiting, Moving
  <1>5. CASE Keeping /\ nrf_dfu_settings_init
    <2>1. settings # NoSettings /\ (Installed(settings) \/ Waiting(settings))
      BY <1>5 DEF nrf_dfu_settings_init, Keeping, Kept
    <2>2. /\ s' = settings /\ pc' = "continue" /\ UNCHANGED <<flash, promised>>
      BY <2>1, <1>5 DEF nrf_dfu_settings_init
    <2>3. Kind[promised] = "APP"
      BY <1>5, KeepingFacts
    <2> QED BY <2>1, <2>2, <2>3 DEF Kept, Copying, Installed, Waiting, WholeAt
  <1>6. CASE Keeping /\ nrf_dfu_continue
    <2>1. /\ Installed(s) \/ Waiting(s)
          /\ UNCHANGED <<s, flash, promised, hurt, upd>> /\ Kind[promised] = "APP"
          /\ RecordOK(s) /\ promised \in Images
      BY <1>6, KeepingFacts DEF nrf_dfu_continue, Keeping, Kept
    <2>2. CASE s.current = 1 /\ s.bank1.code = "VALID_APP"
      <3>1. Waiting(s)
        BY <2>1, <2>2 DEF Installed
      <3>2. /\ s.layout = "DUAL" /\ s.bank1.size = Pages[promised] /\ s.write_offset = 0
            /\ s.bank1.crc = promised /\ WholeAt(flash, promised, s.bank0.size)
        BY <2>1, <2>2, <3>1 DEF RecordOK, BankOK, Waiting
      <3>3. /\ pc' = "copyErase"
            /\ copy' = [target |-> 0, src |-> s.bank0.size, left |-> Pages[promised] - 0]
        BY <2>2, <3>2, <1>6 DEF nrf_dfu_continue
      <3>4. Pages[promised] - 0 > 0 /\ s.bank0.size = s.bank0.size + 0
        BY <2>1, Sizes, <1>6, KeepingFacts
      <3>5. Moving'
        <4>1. \A k \in 0 .. Pages[promised] - 1 :
                 ~(k < 0) /\ flash[s.bank0.size + k] = <<promised, k>>
          BY <3>2 DEF WholeAt
        <4> QED BY <4>1, <3>2, <3>3, <3>4, <2>1 DEF Moving
      <3> QED BY <3>3, <3>5, <2>1 DEF Kept, Copying
    <2>3. CASE ~(s.current = 1 /\ s.bank1.code = "VALID_APP")
      <3>1. pc' = "check"
        BY <2>3, <1>6 DEF nrf_dfu_continue
      <3>2. Installed(s)'
        BY <2>1, <2>3 DEF Waiting, Installed, WholeAt
      <3> QED BY <3>1, <3>2, <2>1 DEF Kept, Copying
    <2> QED BY <2>2, <2>3
  <1>7. CASE Keeping /\ (CopyErase \/ CopyStore \/ CopyCompare \/ CopyRelease \/ CopyNext)
    BY <1>7, KeptCopy
  <1>8. CASE Keeping /\ Check
    <2>1. /\ pc = "check" /\ pc' \in {"dfu", "app"} /\ UNCHANGED <<s, flash, promised>>
      BY <1>8 DEF Check
    <2>2. Installed(s) /\ Kind[promised] = "APP"
      BY <2>1, <1>8, KeepingFacts DEF Keeping, Kept, Copying
    <2>3. Installed(s)'
      BY <2>1, <2>2 DEF Installed, WholeAt
    <2> QED BY <2>1, <2>2, <2>3 DEF Kept, Copying
  <1>9. CASE Keeping /\ (ObjectErase \/ ObjectStore \/ PostValidate)
    BY <1>9, KeptReceive
  <1>10. CASE Keeping /\ Activation
    BY <1>10, KeptActivation
  <1>11. CASE Keeping /\ (on_dfu_complete \/ AppReset \/ PowerFailure)
    BY <1>11, KeptReset
  <1>12. CASE Keeping /\ UNCHANGED allVars
    BY <1>12 DEF Keeping, allVars, Kept, Installed, Waiting, Moving, WholeAt
  <1> QED
    BY <1>1, <1>2, <1>3, <1>4, <1>5, <1>6, <1>7, <1>8, <1>9, <1>10, <1>11, <1>12
       DEF SystemNext, BootStep, Receive, PowerFailureInSystem

\* ValidatedIsInstalled: the application that was validated and recorded is that
\* of every later boot until an update starts that replaces it.
THEOREM InstalledCorrect == SystemSpec => []ValidatedIsInstalled
  <1>1. SystemInit => Kept
    <2> SUFFICES ASSUME SystemInit PROVE Kept
      OBVIOUS
    <2> USE DEF SystemInit, Init
    <2>1. /\ settings.current = 0 /\ settings.bank0.code = "VALID_APP"
          /\ settings.bank0.crc = Factory /\ settings \in Settings
      BY FactoryRecord DEF RecordOK
    <2>2. WholeAt(flash, Factory, 0)
      BY Sizes DEF WholeAt
    <2>3. pc = "reset" /\ promised = Factory /\ Kind[promised] = "APP" /\ settings # NoSettings
      BY <2>1, Sizes, SettingsAssumption
    <2>4. Installed(settings)
      <3> HIDE DEF SystemInit, Init
      <3> QED BY <2>1, <2>2, <2>3 DEF Installed
    <2> HIDE DEF SystemInit, Init
    <2> QED BY <2>3, <2>4 DEF Kept, Copying
  <1>2. BaseInv /\ Kept => ValidatedIsInstalled
    <2> SUFFICES ASSUME BaseInv, Kept, ~hurt, pc \in {"app", "dfu"}, promised # NoImage
                 PROVE  nrf_dfu_app_is_valid(flash, s) /\ s.bank0.crc = promised
      BY DEF ValidatedIsInstalled, FailSafe
    <2>1. Keeping /\ Installed(s)
      BY DEF Keeping, Kept, Copying
    <2>2. s.bank0.size = Pages[promised] /\ promised \in Images
      BY <2>1, InstalledBank, KeepingFacts
    <2> QED BY <2>1, <2>2 DEF Installed, nrf_dfu_app_is_valid, CrcMatches
  <1> QED BY <1>1, <1>2, KeptStep, BaseInvariant, PTL DEF SystemSpec

-----------------------------------------------------------------------------
(* What the settings say of an activation.                                 *)

\* No unit of an image reads as torn.
LEMMA NotTorn ==
    ASSUME NEW i \in Images \cup {NoImage}, NEW u \in Nat
    PROVE  ImageUnit(i, u) # Torn
  <1>1. u \div PageUnits \in Nat /\ u % PageUnits \in Nat
    <2>1. PageUnits \in Nat \ {0}
      BY Sizes
    <2>2. u % PageUnits \in 0 .. PageUnits - 1 /\ u \div PageUnits \in Nat
      BY <2>1, DivMod
    <2> QED BY <2>1, <2>2
  <1>2. ImageUnit(i, u) \in ((Images \cup {NoImage}) \X Nat) \X Nat
    BY <1>1 DEF ImageUnit
  <1> QED BY <1>2, DfuActivateAssumption

\* A torn page of the SoftDevice's place is of no whole SoftDevice: each of them
\* reaches into the last page.
LEMMA TornPage ==
    ASSUME NEW t \in 0 .. SdUnits - 1, t % PageUnits = 0, sd[t] = Torn
    PROVE  ~SdWhole
  <1>1. t + PageUnits <= SdUnits
    <2>1. t \in Nat /\ SdUnits \in Nat /\ t < SdUnits /\ PageUnits \in Nat \ {0}
          /\ SdUnits % PageUnits = 0
      BY Sizes, DfuActivateAssumption
    <2>2. t \div PageUnits < SdUnits \div PageUnits
      BY <2>1, DivBefore
    <2>3. /\ t = PageUnits * (t \div PageUnits) /\ t \div PageUnits \in Nat
          /\ SdUnits = PageUnits * (SdUnits \div PageUnits) /\ SdUnits \div PageUnits \in Nat
      <3>1. /\ t = PageUnits * (t \div PageUnits) + (t % PageUnits)
            /\ SdUnits = PageUnits * (SdUnits \div PageUnits) + (SdUnits % PageUnits)
            /\ t \div PageUnits \in Nat /\ SdUnits \div PageUnits \in Nat
        BY <2>1, DivMod
      <3> QED BY <3>1, <2>1
    <2> DEFINE q == t \div PageUnits
               m == SdUnits \div PageUnits
    <2>4. q \in Nat /\ m \in Nat /\ q + 1 <= m
      BY <2>2, <2>3
    <2>5. PageUnits * (q + 1) <= PageUnits * m
      <3> HIDE DEF q, m
      <3> QED BY <2>1, <2>4
    <2>6. PageUnits * (q + 1) = PageUnits * q + PageUnits
      <3> HIDE DEF q, m
      <3> QED BY <2>1, <2>4
    <2> QED BY <2>3, <2>5, <2>6, <2>1
  <1>2. ASSUME NEW i \in {NoImage} \cup {j \in Images : SdSize[j] > 0}
        PROVE  ~SdHolds(i)
    <2>1. CASE i = NoImage
      <3>1. sd[t] # ImageUnit(i, t)
        BY <2>1, NotTorn
      <3> QED BY <2>1, <3>1 DEF SdHolds
    <2>2. CASE i \in Images /\ SdSize[i] > 0
      <3>1. t < SdSize[i] /\ i # NoImage /\ SdSize[i] \in Nat
        BY <2>2, <1>1, SdSizes, Sizes
      <3>2. sd[t] # ImageUnit(i, t)
        BY <2>2, NotTorn
      <3> QED BY <3>1, <3>2 DEF SdHolds
    <2> QED BY <2>1, <2>2
  <1> QED BY <1>2 DEF SdWhole

\* A step that leaves the places of the SoftDevice and the bootloader alone.
LEMMA SameSystem ==
    ASSUME sd' = sd
    PROVE  SdWhole' <=> SdWhole
  BY DEF SdWhole, SdHolds

LEMMA SameBootloader ==
    ASSUME bl' = bl
    PROVE  BlWhole' <=> BlWhole
  BY DEF BlWhole, BlHolds

\* The units of a bank that holds an image are those of the image.
LEMMA BankUnits ==
    ASSUME NEW r, RecordOK(r), CurrentBank(r).code \in SystemCodes,
           WholeAt(flash, CurrentBank(r).crc, Place(r)),
           NEW u \in Nat, u < PageUnits * Pages[CurrentBank(r).crc]
    PROVE  RegionUnit(PageUnits * Place(r) + u) = ImageUnit(CurrentBank(r).crc, u)
  <1> DEFINE i == CurrentBank(r).crc
             b == Place(r)
             q == u \div PageUnits
  <1>1. i \in Images /\ b \in Nat /\ b + Pages[i] <= Region /\ Pages[i] \in Nat
    <2>1. /\ i \in Images /\ CurrentBank(r).size = Pages[i] /\ b \in Nat
          /\ CurrentBank(r) = IF r.current = 1 THEN r.bank1 ELSE r.bank0
      BY CurrentIs DEF BankOK, SystemCodes
    <2> QED BY <2>1, Sizes DEF RecordOK, Place
  <1>2. q \in Nat /\ q < Pages[i]
    <2> HIDE DEF i
    <2>1. u < PageUnits * Pages[i]
      BY DEF i
    <2> QED BY <2>1, <1>1, Sizes, DivMod, DivBelow
  <1>3. (PageUnits * b + u) \div PageUnits = b + q /\ (PageUnits * b + u) % PageUnits = u % PageUnits
    <2> HIDE DEF b
    <2> QED BY <1>1, Sizes, DivShift
  <1>4. flash[b + q] = <<i, q>>
    <2>1. WholeAt(flash, i, b)
      OBVIOUS
    <2> HIDE DEF i, b, q
    <2> QED BY <2>1, <1>1, <1>2 DEF WholeAt
  <1>5. b + q < Region
    BY <1>1, <1>2, Sizes
  <1> QED BY <1>3, <1>4, <1>5 DEF RegionUnit, ImageUnit

\* An image fills its pages with the SoftDevice and the bootloader behind it.
LEMMA SystemPages ==
    ASSUME NEW r, RecordOK(r), CurrentBank(r).code \in SystemCodes
    PROVE  /\ CurrentBank(r).crc \in Images /\ CurrentBank(r).crc # NoImage
           /\ CurrentBank(r).code = BankCode[Kind[CurrentBank(r).crc]]
           /\ SdSize[CurrentBank(r).crc] + BlSize[CurrentBank(r).crc]
                <= PageUnits * Pages[CurrentBank(r).crc]
           /\ CurrentBank(r).code \in WithSd =>
                 /\ r.sd_size = SdSize[CurrentBank(r).crc]
                 /\ SdSize[CurrentBank(r).crc] > 0
           /\ CurrentBank(r).code \notin WithSd =>
                 CurrentBank(r).code = "VALID_BL" /\ SdSize[CurrentBank(r).crc] = 0
  <1> DEFINE i == CurrentBank(r).crc
  <1>1. i \in Images /\ CurrentBank(r).code = BankCode[Kind[i]]
    BY CurrentIs DEF BankOK, SystemCodes
  <1>2. Kind[i] # "APP" /\ (CurrentBank(r).code \in WithSd <=> Kind[i] \in {"SD", "SD_BL"})
    BY <1>1, BankCodes
  <1>3. Pages[i] * PageUnits \in SdSize[i] + BlSize[i] .. SdSize[i] + BlSize[i] + PageUnits - 1
    BY <1>1, <1>2, DfuActivateAssumption
  <1>4. SdSize[i] + BlSize[i] <= PageUnits * Pages[i]
    BY <1>1, <1>3, Sizes
  <1>5. IF Kind[i] \in {"SD", "SD_BL"} THEN SdSize[i] > 0 ELSE SdSize[i] = 0
    BY <1>1, SdSizes
  <1> QED BY <1>1, <1>2, <1>4, <1>5, Sizes DEF RecordOK, SystemCodes, WithSd

\* In the context of the invariants: what Tracking is about, and its parts.
Tracing == BaseInv /\ Tracking /\ ~damaged

LEMMA TracingFacts ==
    ASSUME Tracing
    PROVE  /\ RecordOK(s) /\ RecordsOK /\ CopyOK /\ ReceiveOK /\ ActOK /\ TypeOK
           /\ s \in Settings /\ s.write_offset \in Nat /\ s.sd_size \in Nat
           /\ act \in [target : Nat, src : Nat, left : Nat, split : Nat]
           /\ DOMAIN sd = 0 .. SdUnits - 1 /\ DOMAIN bl = 0 .. BlUnits - 1
           /\ BlWhole
           /\ settings # NoSettings => Tracked(settings)
           /\ pc # "reset" => Tracked(s)
           /\ pc # "reset" /\ Idle => settings = s /\ settings # NoSettings
           /\ ~Idle => pc \notin Quiet
           /\ s.sd_size <= SdUnits
           /\ settings # NoSettings => RecordOK(settings)
  <1>1. /\ RecordOK(s) /\ RecordsOK /\ CopyOK /\ ReceiveOK /\ ActOK /\ TypeOK
        /\ DOMAIN sd = 0 .. SdUnits - 1 /\ DOMAIN bl = 0 .. BlUnits - 1
        /\ act \in [target : Nat, src : Nat, left : Nat, split : Nat]
    BY Sizes DEF Tracing, BaseInv, RecordsOK, SystemTypeOK
  <1>2. s \in Settings /\ s.write_offset \in Nat /\ s.sd_size \in Nat /\ s.sd_size <= SdUnits
    BY <1>1 DEF RecordOK, Settings
  <1>3. /\ BlWhole /\ (settings # NoSettings => Tracked(settings)) /\ (pc # "reset" => Tracked(s))
    BY DEF Tracing, Tracking
  <1>4. /\ pc # "reset" /\ Idle => settings = s /\ settings # NoSettings
        /\ ~Idle => pc \notin Quiet
        /\ settings # NoSettings => RecordOK(settings)
    BY <1>1, <1>2, SettingsAssumption DEF RecordsOK
  <1> QED BY <1>1, <1>2, <1>3, <1>4

\* The SoftDevice behind the last part.
LEMMA CopiedWhole ==
    ASSUME Tracing, CurrentBank(s).code \in WithSd, s.write_offset = s.sd_size, pc # "reset"
    PROVE  SdWhole
  <1> DEFINE i == CurrentBank(s).crc
  <1>1. RecordOK(s) /\ Tracked(s)
    BY TracingFacts
  <1>2. i \in Images /\ i # NoImage /\ s.sd_size = SdSize[i] /\ SdSize[i] > 0
    BY <1>1, SystemPages DEF WithSd, SystemCodes
  <1>3. \A u \in 0 .. SdSize[i] - 1 : sd[u] = ImageUnit(i, u)
    BY <1>1, <1>2 DEF Tracked
  <1>4. SdHolds(i)
    BY <1>2, <1>3 DEF SdHolds
  <1> QED BY <1>2, <1>4 DEF SdWhole

\* A command of the MBR leaves the pages in front of its target alone, and those
\* that it writes to are as they should be, or torn as a whole.
LEMMA CopySd ==
    ASSUME DOMAIN sd = 0 .. SdUnits - 1,
           act \in [target : Nat, src : Nat, left : Nat, split : Nat],
           act.target % PageUnits = 0, NEW ok \in BOOLEAN,
           sd' = SD_MBR_COMMAND_COPY_SD(act.target, act.src, act.split, ok)
    PROVE  /\ \A u \in 0 .. SdUnits - 1 : u < act.target => sd'[u] = sd[u]
           /\ ok => \A u \in Part : sd'[u] = RegionUnit(act.src + u - act.target)
           /\ ~ok => \A u \in Part : sd'[u] = Torn
  <1> DEFINE t == act.target
             e == t + act.split - 1
  <1>1. /\ t \in Nat /\ act.split \in Nat /\ PageUnits \in Nat \ {0}
        /\ t \div PageUnits \in Nat /\ SdUnits \in Nat
    BY Sizes, DivMod
  <1>2. \A u \in 0 .. SdUnits - 1 :
           sd'[u] = IF u \in t .. e /\ ok THEN RegionUnit(act.src + u - t)
                    ELSE IF u \div PageUnits \in t \div PageUnits .. e \div PageUnits
                         THEN Torn
                         ELSE sd[u]
    BY DEF SD_MBR_COMMAND_COPY_SD
  <1>3. ASSUME NEW u \in 0 .. SdUnits - 1, u < t PROVE sd'[u] = sd[u]
    <2>1. u \in Nat /\ t % PageUnits = 0
      BY <1>1
    <2>2. u \div PageUnits < t \div PageUnits /\ u \div PageUnits \in Nat
      <3> HIDE DEF t
      <3> QED BY <2>1, <1>1, <1>3, DivBefore, DivMod
    <2>3. u \notin t .. e /\ u \div PageUnits \notin t \div PageUnits .. e \div PageUnits
      <3> HIDE DEF t, e
      <3> QED BY <2>1, <2>2, <1>1, <1>3
    <2> HIDE DEF t, e
    <2> QED BY <1>2, <2>3
  <1>4. ASSUME NEW u \in Part
        PROVE  /\ u \in 0 .. SdUnits - 1 /\ u \in t .. e
               /\ u \div PageUnits \in t \div PageUnits .. e \div PageUnits
    <2>1. u \in 0 .. SdUnits - 1 /\ t <= u /\ u <= e /\ u \in Nat /\ e \in Nat
      BY <1>1 DEF Part
    <2>2. t \div PageUnits <= u \div PageUnits /\ u \div PageUnits <= e \div PageUnits
      <3> HIDE DEF t, e
      <3> QED BY <2>1, <1>1, DivMonotone
    <2>3. u \div PageUnits \in Nat /\ e \div PageUnits \in Nat
      <3> HIDE DEF t, e
      <3> QED BY <2>1, <1>1, DivMod
    <2> HIDE DEF t, e
    <2> QED BY <2>1, <2>2, <2>3, <1>1
  <1>5. CASE ok
    <2> HIDE DEF e
    <2> QED BY <1>2, <1>3, <1>4, <1>5
  <1>6. CASE ~ok
    <2> HIDE DEF e
    <2> QED BY <1>2, <1>3, <1>4, <1>6
  <1> QED BY <1>5, <1>6

\* Of a part that is copied, every unit in front of the SoftDevice's end is in place.
LEMMA PartInPlace ==
    ASSUME Tracing, pc = "sdSave", NEW u \in Nat, u < s.sd_size, u < act.target + act.split
    PROVE  sd[u] = ImageUnit(CurrentBank(s).crc, u)
  <1>1. /\ CurrentBank(s).code \in WithSd /\ act.src = PageUnits * Place(s) + act.target
        /\ RecordOK(s) /\ Tracked(s) /\ s.sd_size \in Nat /\ s.sd_size <= SdUnits
        /\ act.target \in Nat /\ act.split \in Nat
    BY TracingFacts DEF ActOK
  <1>2. CASE u < act.target
    BY <1>2, <1>1 DEF Tracing, Tracking
  <1>3. CASE act.target <= u
    <2> DEFINE i == CurrentBank(s).crc
               b == PageUnits * Place(s)
    <2>1. PartCopied
      BY DEF Tracing, Tracking
    <2>2. u \in Part
      BY <1>1, <1>3, Sizes DEF Part
    <2>3. sd[u] = RegionUnit(act.src + u - act.target)
      BY <2>1, <2>2 DEF PartCopied
    <2>4. act.src + u - act.target = b + u
      <3>1. b \in Nat
        BY <1>1, CurrentIs, Sizes
      <3>2. act.src = b + act.target
        BY <1>1
      <3> HIDE DEF b
      <3> QED BY <1>1, <3>1, <3>2
    <2>5. CurrentBank(s).code \in SystemCodes /\ WholeAt(flash, i, Place(s))
      BY <1>1 DEF Tracked, WithSd, SystemCodes
    <2>6. u < PageUnits * Pages[i]
      <3>1. s.sd_size = SdSize[i] /\ SdSize[i] + BlSize[i] <= PageUnits * Pages[i] /\ i \in Images
        BY <1>1, <2>5, SystemPages
      <3>2. Pages[i] \in Nat /\ SdSize[i] \in Nat /\ BlSize[i] \in Nat /\ PageUnits \in Nat
        BY <3>1, Sizes
      <3>3. PageUnits * Pages[i] \in Nat
        BY <3>2
      <3> HIDE DEF i
      <3> QED BY <3>1, <3>2, <3>3
    <2>7. RegionUnit(b + u) = ImageUnit(i, u)
      BY <1>1, <2>5, <2>6, BankUnits
    <2> QED BY <2>3, <2>4, <2>7
  <1> QED BY <1>1, <1>2, <1>3

\* The bootloader that COPY_BL leaves.
LEMMA CopiedBootloader ==
    ASSUME Tracing, BlCopy
    PROVE  BlWhole'
  <1> DEFINE b == PageUnits * Place(s)
  <1>0. PICK i : i = CurrentBank(s).crc
    OBVIOUS
  <1>1. /\ CurrentBank(s).code \in WithBl /\ RecordOK(s) /\ Tracked(s)
        /\ DOMAIN bl = 0 .. BlUnits - 1 /\ BlWhole
    BY TracingFacts DEF BlCopy, ActOK
  <1>2. CurrentBank(s).code \in SystemCodes /\ WholeAt(flash, i, Place(s))
    BY <1>0, <1>1 DEF Tracked, WithBl, SystemCodes
  <1>3. s.sd_size = SdSize[i] /\ i \in Images /\ i # NoImage
    <2>1. CurrentBank(s).code \notin WithSd => s.sd_size = 0
      BY <1>1 DEF Tracked
    <2> QED BY <1>0, <1>1, <1>2, <2>1, SystemPages
  <1>4. /\ SdSize[i] + BlSize[i] <= PageUnits * Pages[i]
        /\ SdSize[i] \in Nat /\ BlSize[i] \in Nat /\ BlSize[i] <= BlUnits
        /\ PageUnits * Pages[i] \in Nat /\ PageUnits \in Nat \ {0} /\ BlUnits \in Nat
    BY <1>0, <1>1, <1>2, <1>3, Sizes, SystemPages
  <1>5. BlLen = BlSize[i] /\ Source = b /\ b \in Nat
    <2>1. BlLen = BlSize[i]
      BY <1>0, <1>3, <1>4 DEF BlLen
    <2> QED BY <2>1, <1>1, CurrentIs, Sizes DEF Source, Place
  <1> HIDE DEF b
  <1>6. bl' = [u \in 0 .. BlUnits - 1 |->
                 IF u < BlSize[i] THEN RegionUnit(b + SdSize[i] + u)
                 ELSE IF u < AlignToPage(BlSize[i]) THEN Torn ELSE bl[u]]
    BY <1>1, <1>3, <1>5 DEF BlCopy, SD_MBR_COMMAND_COPY_BL
  <1>7. CASE BlSize[i] > 0
    <2>1. ASSUME NEW u \in 0 .. BlSize[i] - 1 PROVE bl'[u] = ImageUnit(i, SdSize[i] + u)
      <3>1. bl'[u] = RegionUnit(b + SdSize[i] + u)
        BY <1>4, <1>6
      <3>2. b + SdSize[i] + u = b + (SdSize[i] + u)
        BY <1>4, <1>5
      <3>3. SdSize[i] + u \in Nat /\ SdSize[i] + u < PageUnits * Pages[i]
        BY <1>4
      <3>4. RegionUnit(b + (SdSize[i] + u)) = ImageUnit(i, SdSize[i] + u)
        BY <1>0, <1>1, <1>2, <3>3, BankUnits DEF b
      <3> QED BY <3>1, <3>2, <3>4
    <2>2. i # NoImage /\ BlHolds(i)'
      BY <2>1, <1>3 DEF BlHolds
    <2> QED BY <2>2, <1>3, <1>7 DEF BlWhole
  <1>8. CASE BlSize[i] = 0
    <2>1. AlignToPage(BlSize[i]) = 0
      <3>1. 0 % PageUnits = 0
        <4>1. 0 = PageUnits * 0 + 0 /\ 0 \in 0 .. PageUnits - 1
          BY <1>4
        <4> QED BY <4>1, <1>4, DivUnique
      <3> QED BY <3>1, <1>8, AlignUp
    <2>2. \A u \in 0 .. BlUnits - 1 : bl'[u] = bl[u]
      BY <1>6, <1>8, <2>1
    <2>3. PICK j \in {NoImage} \cup {k \in Images : BlSize[k] > 0} : BlHolds(j)
      BY <1>1 DEF BlWhole
    <2>4. j # NoImage => BlSize[j] \in Nat /\ BlSize[j] <= BlUnits
      BY Sizes
    <2>5. BlHolds(j)'
      BY <2>2, <2>3, <2>4, <1>4 DEF BlHolds
    <2> QED BY <2>5 DEF BlWhole
  <1> QED BY <1>4, <1>7, <1>8

\* The settings page is written or read.
LEMMA TrackSettings ==
    ASSUME Tracing, SettingsErase \/ SettingsStore \/ nrf_dfu_settings_init,
           UNCHANGED system
    PROVE  Tracking'
  <1>1. /\ UNCHANGED <<flash, sd, bl, act>> /\ BlWhole' /\ (SdWhole' <=> SdWhole)
    <2>1. UNCHANGED <<flash, sd, bl, act>>
      BY DEF SettingsErase, SettingsStore, nrf_dfu_settings_init, system
    <2> QED BY <2>1, TracingFacts, SameSystem, SameBootloader
  <1>2. CASE SettingsErase \/ SettingsStore
    <2>1. /\ UNCHANGED <<s, pc>> /\ pc # "reset"
          /\ settings' = NoSettings \/ settings' = s
      BY <1>2, TracingFacts DEF SettingsErase, SettingsStore, Idle, Quiet
    <2>2. Tracked(s)
      BY <2>1, TracingFacts
    <2>3. Tracked(s)' /\ (settings' # NoSettings => Tracked(settings)')
      BY <2>1, <2>2, <1>1 DEF Tracked, WholeAt
    <2>4. ~damaged /\ Tracking
      BY DEF Tracing
    <2> QED BY <2>1, <2>3, <2>4, <1>1 DEF Tracking, PartCopied, PartTorn, Part, RegionUnit
  <1>3. CASE nrf_dfu_settings_init
    <2>1. pc = "reset" /\ pc' = "continue" /\ settings' = settings
      BY <1>3 DEF nrf_dfu_settings_init
    <2>2. Tracked(s)'
      <3>1. CASE settings # NoSettings /\ s' = settings
        <4>1. Tracked(settings)
          BY <3>1, TracingFacts
        <4> QED BY <3>1, <4>1, <1>1 DEF Tracked, WholeAt
      <3>2. CASE settings = NoSettings /\ s' = Zero
        <4>1. SdWhole
          BY <2>1, <3>2 DEF Tracing, Tracking
        <4>2. CurrentBank(Zero).code = "INVALID" /\ Zero.sd_size = 0
          BY DEF Zero, NoBank, CurrentBank
        <4> QED BY <3>2, <4>1, <4>2, <1>1 DEF Tracked, WithSd, SystemCodes
      <3> QED BY <3>1, <3>2, <1>3 DEF nrf_dfu_settings_init
    <2>3. settings' # NoSettings => Tracked(settings)'
      <3>1. settings # NoSettings => Tracked(settings)
        BY TracingFacts
      <3> QED BY <3>1, <2>1, <1>1 DEF Tracked, WholeAt
    <2> QED BY <2>1, <2>2, <2>3, <1>1 DEF Tracking
  <1> QED BY <1>2, <1>3

\* A step behind which the settings name no SoftDevice and no bootloader to activate.
LEMMA TrackPlain ==
    ASSUME Tracing, UNCHANGED <<sd, bl>>, Idle, pc # "reset",
           CurrentBank(s).code \notin SystemCodes,
           settings' = settings, CurrentBank(s').code \notin SystemCodes,
           s'.sd_size = 0 \/ s'.sd_size = s.sd_size,
           pc' \notin {"sdCopy", "sdCompare", "sdSave"}
    PROVE  Tracking'
  <1>1. BlWhole' /\ (SdWhole' <=> SdWhole) /\ Tracked(s) /\ settings = s /\ settings # NoSettings
    BY TracingFacts, SameSystem, SameBootloader
  <1>2. SdWhole /\ s.sd_size = 0
    BY <1>1 DEF Tracked, WithSd, SystemCodes
  <1>3. Tracked(settings)'
    BY <1>1, <1>2 DEF Tracked, WithSd, SystemCodes
  <1>4. Tracked(s)'
    BY <1>1, <1>2 DEF Tracked, WithSd, SystemCodes
  <1>5. settings' # NoSettings /\ ~(CurrentBank(s)'.code \in SystemCodes)
    BY <1>1
  <1> QED BY <1>1, <1>3, <1>4, <1>5 DEF Tracking

\* The copy of an application, and the decision where to boot.
LEMMA TrackCopy ==
    ASSUME Tracing, UNCHANGED system,
           \/ nrf_dfu_continue \/ CopyErase \/ CopyStore \/ CopyCompare \/ CopyRelease
           \/ CopyNext \/ Check
    PROVE  Tracking'
  <1>0. UNCHANGED <<sd, bl>> /\ RecordOK(s) /\ CopyOK
    BY TracingFacts DEF system
  <1>1. CASE nrf_dfu_continue
    <2>1. /\ Idle /\ pc = "continue" /\ UNCHANGED <<s, settings>> /\ pc' \in {"copyErase", "check"}
          /\ CurrentBank(s).code \notin SystemCodes
      BY <1>1 DEF nrf_dfu_continue
    <2> QED BY <2>1, <1>0, TrackPlain
  <1>2. CASE CopyErase \/ CopyStore \/ CopyCompare \/ CopyRelease \/ CopyNext
    <2>1. /\ pc \in Copying /\ settings' = settings /\ (pc # "copyNext" => pc \in Quiet)
          /\ pc' \in Copying \cup {"check"} /\ (pc = "copyNext" => Idle)
      BY <1>2 DEF CopyErase, CopyStore, CopyCompare, CopyRelease, CopyNext, Copying, Quiet
    <2>2. Idle /\ pc # "reset"
      BY <2>1, TracingFacts DEF Copying
    <2>3. /\ s.current = 1 /\ s.bank1.code = "VALID_APP" /\ s.bank0.code = "VALID_APP"
          /\ CurrentBank(s) = s.bank1 /\ s.bank0 \in Bank /\ s.bank1 \in Bank
          /\ BankOK(s.bank0) /\ BankOK(s.bank1)
          /\ CurrentBank(s).code \notin SystemCodes
      BY <2>1, <1>0, CurrentIs DEF CopyOK, RecordOK, Settings, SystemCodes
    <2>4. CurrentBank(s').code \notin SystemCodes /\ (s'.sd_size = 0 \/ s'.sd_size = s.sd_size)
      <3>1. CASE s' = s
        BY <3>1, <2>3
      <3>2. CASE CopyRelease
        <4>1. /\ s'.layout = s.layout /\ s'.current = s.current /\ s'.bank0 = s.bank0
              /\ s'.bank1 = s.bank1 /\ s'.sd_size = s.sd_size
          BY <3>2, <1>0 DEF CopyRelease, RecordOK, Settings
        <4>2. CurrentBank(s') = CurrentBank(s)
          BY <4>1 DEF CurrentBank
        <4> QED BY <4>1, <4>2, <2>3
      <3>3. CASE CopyNext /\ s' # s
        <4>1. PICK b \in {s.bank0, s.bank1} : s' = [Zero EXCEPT !.bank0 = b]
          BY <3>3 DEF CopyNext
        <4>2. b \in Bank /\ BankOK(b) /\ b.code = "VALID_APP" /\ b.code \notin WithSd \cup SystemCodes
          BY <2>3 DEF WithSd, SystemCodes
        <4>3. CurrentBank(s') = b /\ s'.sd_size = 0
          BY <4>1, <4>2, ClearedRecord
        <4> QED BY <4>2, <4>3
      <3> QED BY <3>1, <3>2, <3>3, <1>2 DEF CopyErase, CopyStore, CopyCompare
    <2> QED BY <2>1, <2>2, <2>3, <2>4, <1>0, TrackPlain DEF Copying
  <1>3. CASE Check
    <2>1. /\ pc = "check" /\ pc' \in {"dfu", "app"} /\ UNCHANGED <<s, settings, flash>> /\ Idle
      BY <1>3 DEF Check
    <2>2. BlWhole' /\ (SdWhole' <=> SdWhole) /\ Tracked(s) /\ settings = s /\ settings # NoSettings
      BY <1>0, <2>1, TracingFacts, SameSystem, SameBootloader
    <2>3. Tracked(s)' /\ Tracked(settings)'
      BY <2>1, <2>2, <1>0 DEF Tracked, WholeAt
    <2>4. CurrentBank(s).code \in SystemCodes => ~SdWhole
      BY <2>1 DEF Tracing, Tracking
    <2> QED BY <2>1, <2>2, <2>3, <2>4 DEF Tracking
  <1> QED BY <1>1, <1>2, <1>3

\* The reception of an image: only its pages change, and nothing refers to them yet.
LEMMA TrackReceive ==
    ASSUME Tracing, Receive
    PROVE  Tracking'
  <1>0. /\ UNCHANGED <<sd, bl>> /\ RecordOK(s) /\ ReceiveOK /\ SdWhole /\ Idle
        /\ settings' = settings
    BY TracingFacts DEF Receive, system, InitCommand, ObjectErase, ObjectStore, PostValidate
  <1>1. CASE \E i \in offered : InitCommand(i)
    <2>1. PICK i \in Images : InitCommand(i)
      BY <1>1 DEF Tracing, BaseInv
    <2>2. s' = [nrf_dfu_find_cache(i).settings EXCEPT !.write_offset = 0]
          /\ pc \in {"dfu", "receive"} /\ pc' = "receive"
      BY <2>1 DEF InitCommand
    <2>3. CurrentBank(s').code = "INVALID" /\ s'.sd_size = s.sd_size
      BY <2>2, <1>0, InitRecord
    <2>4. CurrentBank(s).code \notin SystemCodes
      <3>1. pc = "dfu" /\ CurrentBank(s).code \in SystemCodes => ~SdWhole
        BY DEF Tracing, Tracking
      <3> QED BY <3>1, <2>2, <1>0 DEF ReceiveOK, SystemCodes
    <2> QED BY <2>2, <2>3, <2>4, <1>0, TrackPlain DEF SystemCodes
  <1>2. CASE ObjectErase \/ ObjectStore
    <2>1. pc = "receive" /\ pc' = "receive"
      BY <1>2 DEF ObjectErase, ObjectStore
    <2>2. CurrentBank(s).code = "INVALID"
      BY <2>1, <1>0 DEF ReceiveOK
    <2>3. CurrentBank(s').code = "INVALID" /\ s'.sd_size = s.sd_size
      <3>1. /\ s'.layout = s.layout /\ s'.current = s.current /\ s'.bank0 = s.bank0
            /\ s'.bank1 = s.bank1 /\ s'.sd_size = s.sd_size
        BY <1>2, <1>0 DEF ObjectErase, ObjectStore, RecordOK, Settings
      <3>2. CurrentBank(s') = CurrentBank(s)
        BY <3>1 DEF CurrentBank
      <3> QED BY <3>1, <3>2, <2>2
    <2> QED BY <2>1, <2>2, <2>3, <1>0, TrackPlain DEF SystemCodes
  <1>3. CASE PostValidate
    <2> DEFINE ok == WholeAt(flash, upd.image, upd.at)
               i == upd.image
    <2>1. pc = "receive" /\ pc' = "done" /\ flash' = flash
      BY <1>3 DEF PostValidate
    <2>2. CurrentBank(s).code = "INVALID"
      BY <2>1, <1>0 DEF ReceiveOK
    <2>3. /\ i \in Images /\ upd.at = Place(s) /\ Place(s') = Place(s) /\ s'.write_offset = 0
          /\ CurrentBank(s') = IF ok THEN [code |-> BankCode[Kind[i]], crc |-> i,
                                           size |-> Pages[i]]
                               ELSE NoBank
          /\ s'.sd_size = IF ok /\ Kind[i] \in {"SD", "SD_BL"} THEN SdSize[i] ELSE s.sd_size
      BY <1>0, <1>3, ValidatedRecord
    <2>4. /\ BlWhole' /\ (SdWhole' <=> SdWhole) /\ Tracked(s) /\ settings = s
          /\ settings # NoSettings
      BY <1>0, <2>1, TracingFacts, SameSystem, SameBootloader
    <2>5. s.sd_size = 0 /\ Tracked(settings)'
      BY <2>2, <2>4, <1>0 DEF Tracked, WithSd, SystemCodes
    <2>6. Tracked(s)'
      <3>1. CASE ok
        <4>1. /\ CurrentBank(s').crc = i /\ CurrentBank(s').code = BankCode[Kind[i]]
              /\ s'.sd_size = IF Kind[i] \in {"SD", "SD_BL"} THEN SdSize[i] ELSE 0
          BY <2>3, <2>5, <3>1
        <4>2. WholeAt(flash', CurrentBank(s').crc, Place(s'))
          BY <2>1, <2>3, <3>1, <4>1
        <4>3. CurrentBank(s').code \notin WithSd => s'.sd_size = 0
          BY <4>1, <2>3, BankCodes
        <4>4. \A u \in 0 .. s'.write_offset - 1 : FALSE
          BY <2>3
        <4> HIDE DEF ok, i
        <4> QED BY <4>2, <4>3, <4>4, <2>4, <1>0 DEF Tracked
      <3>2. CASE ~ok
        <4>1. CurrentBank(s').code = "INVALID" /\ s'.sd_size = 0
          BY <2>3, <2>5, <3>2 DEF NoBank
        <4> HIDE DEF ok, i
        <4> QED BY <4>1, <2>4, <1>0 DEF Tracked, WithSd, SystemCodes
      <3> QED BY <3>1, <3>2
    <2> HIDE DEF ok, i
    <2> QED BY <2>1, <2>4, <2>5, <2>6, <1>0 DEF Tracking
  <1> QED BY <1>1, <1>2, <1>3 DEF Receive

\* A reset, and the power failure that leaves a copy of the SoftDevice torn.
LEMMA TrackReset ==
    ASSUME Tracing, ~damaged',
           \/ (on_dfu_complete \/ AppReset) /\ UNCHANGED system
           \/ PowerFailureInSystem
    PROVE  Tracking'
  <1>0. /\ pc' = "reset" /\ bl' = bl /\ BlWhole'
        /\ settings' = settings \/ settings' = NoSettings
    <2>1. bl' = bl /\ pc' = "reset" /\ (settings' = settings \/ settings' = NoSettings)
      BY DEF on_dfu_complete, AppReset, PowerFailureInSystem, PowerFailure, Restarted, system
    <2> QED BY <2>1, TracingFacts, SameBootloader
  <1>1. SUFFICES ASSUME TRUE
                 PROVE  /\ settings' # NoSettings => Tracked(settings)'
                        /\ settings' = NoSettings => SdWhole'
    BY <1>0 DEF Tracking
  <1>2. CASE ~Idle
    <2>1. PowerFailureInSystem /\ sd' = sd /\ SdWhole /\ flash' = flash
      BY <1>2 DEF on_dfu_complete, AppReset, PowerFailureInSystem, PowerFailure
    <2>2. SdWhole' <=> SdWhole
      BY <2>1, SameSystem
    <2>3. settings' # NoSettings => settings' = settings /\ Tracked(settings)
      BY <1>0, TracingFacts
    <2> QED BY <2>1, <2>2, <2>3 DEF Tracked, WholeAt
  <1>3. CASE Idle /\ pc = "reset"
    <2>1. sd' = sd /\ flash' = flash /\ settings' = settings
      BY <1>3 DEF on_dfu_complete, AppReset, PowerFailureInSystem, PowerFailure, InHand
    <2>2. SdWhole' <=> SdWhole
      BY <2>1, SameSystem
    <2>3. /\ settings # NoSettings => Tracked(settings)
          /\ settings = NoSettings => SdWhole
      BY <1>3, TracingFacts DEF Tracing, Tracking
    <2> QED BY <2>1, <2>2, <2>3 DEF Tracked, WholeAt
  <1>4. CASE Idle /\ pc # "reset" /\ pc # "sdCopy"
    <2>1. sd' = sd /\ settings' = settings
      BY <1>4 DEF on_dfu_complete, AppReset, PowerFailureInSystem, PowerFailure, system
    <2>2. settings = s /\ settings # NoSettings /\ Tracked(s)
      BY <1>4, TracingFacts
    <2>3. SdWhole' <=> SdWhole
      BY <2>1, SameSystem
    <2>4. CASE flash' = flash
      BY <2>1, <2>2, <2>3, <2>4 DEF Tracked, WholeAt
    <2>5. CASE flash' # flash
      <3>1. pc \in Copying \cup {"receive"}
        BY <2>5 DEF on_dfu_complete, AppReset, PowerFailureInSystem, PowerFailure, InHand,
                    Copying
      <3>2. CurrentBank(s).code \notin SystemCodes
        <4>1. RecordOK(s) /\ CopyOK /\ ReceiveOK
          BY TracingFacts
        <4> QED BY <3>1, <4>1, CurrentIs DEF CopyOK, ReceiveOK, Copying, SystemCodes
      <3> QED BY <2>1, <2>2, <2>3, <3>2 DEF Tracked, WithSd, SystemCodes
    <2> QED BY <2>4, <2>5
  <1>5. CASE Idle /\ pc = "sdCopy"
    <2>1. flash' = flash /\ settings' = settings /\ PowerFailureInSystem
      BY <1>5 DEF on_dfu_complete, AppReset, PowerFailureInSystem, PowerFailure, InHand
    <2>2. settings = s /\ settings # NoSettings /\ Tracked(s)
      BY <1>5, TracingFacts
    <2>3. /\ CurrentBank(s).code \in WithSd /\ act.target % PageUnits = 0
          /\ s.write_offset <= act.target
      BY <1>5, TracingFacts DEF ActOK, Tracing, Tracking
    <2>4. /\ s.write_offset \in Nat /\ s.write_offset <= s.sd_size /\ s.sd_size <= SdUnits
          /\ s.sd_size \in Nat /\ act.target \in Nat /\ SdUnits \in Nat
          /\ act \in [target : Nat, src : Nat, left : Nat, split : Nat]
          /\ DOMAIN sd = 0 .. SdUnits - 1
      BY <2>3, TracingFacts, Sizes DEF RecordOK
    <2>5. sd' \in {sd, SD_MBR_COMMAND_COPY_SD(act.target, act.src, act.split, FALSE)}
      BY <1>5, <2>1 DEF PowerFailureInSystem
    <2>6. \A u \in 0 .. SdUnits - 1 : u < act.target => sd'[u] = sd[u]
      <3>1. CASE sd' = sd
        BY <3>1
      <3>2. CASE sd' = SD_MBR_COMMAND_COPY_SD(act.target, act.src, act.split, FALSE)
        <4>1. FALSE \in BOOLEAN
          OBVIOUS
        <4> QED BY <4>1, <3>2, <2>3, <2>4, CopySd
      <3> QED BY <2>5, <3>1, <3>2
    <2>7. \A u \in 0 .. s.write_offset - 1 : sd'[u] = ImageUnit(CurrentBank(s).crc, u)
      <3>1. \A u \in 0 .. s.write_offset - 1 : sd[u] = ImageUnit(CurrentBank(s).crc, u)
        BY <2>2, <2>3 DEF Tracked
      <3>2. \A u \in 0 .. s.write_offset - 1 : u \in 0 .. SdUnits - 1 /\ u < act.target
        BY <2>3, <2>4
      <3> QED BY <3>1, <3>2, <2>6
    <2> QED BY <2>1, <2>2, <2>3, <2>7 DEF Tracked, WholeAt
  <1> QED BY <1>2, <1>3, <1>4, <1>5

\* The copy of a SoftDevice, part by part.
LEMMA TrackSd ==
    ASSUME Tracing, ~damaged', Activate \/ RegionLost \/ SdCopy \/ SdCompare \/ SdSave
    PROVE  Tracking'
  <1>0. /\ settings' = settings /\ flash' = flash /\ bl' = bl /\ BlWhole' /\ pc # "reset"
        /\ Idle /\ settings = s /\ settings # NoSettings /\ Tracked(s)
        /\ RecordOK(s) /\ s.write_offset \in Nat /\ s.sd_size \in Nat /\ s.sd_size <= SdUnits
        /\ DOMAIN sd = 0 .. SdUnits - 1 /\ SdUnits \in Nat /\ ActOK
        /\ act \in [target : Nat, src : Nat, left : Nat, split : Nat]
    <2>1. /\ settings' = settings /\ flash' = flash /\ bl' = bl /\ pc # "reset"
          /\ pc \in Quiet \/ Idle
      BY DEF Activate, RegionLost, SdCopy, SdCompare, SdSave, Quiet
    <2>2. Idle /\ BlWhole'
      BY <2>1, TracingFacts, SameBootloader
    <2> QED BY <2>1, <2>2, TracingFacts, Sizes
  <1>1. CASE Activate
    <2>1. s' = s /\ sd' = sd
      BY <1>1 DEF Activate
    <2>2. Tracked(s)' /\ Tracked(settings)'
      <3>1. SdWhole' <=> SdWhole
        BY <2>1, SameSystem
      <3> QED BY <3>1, <2>1, <1>0 DEF Tracked, WholeAt
    <2>3. CASE pc' # "sdCopy"
      <3>1. pc' \in {"blCompare", "sdDone"}
        BY <2>3, <1>1 DEF Activate
      <3> QED BY <3>1, <2>2, <1>0 DEF Tracking
    <2>4. CASE pc' = "sdCopy"
      <3>1. /\ CurrentBank(s).code \in WithSd /\ act'.target = s.write_offset
            /\ s.write_offset % PageUnits = 0
        <4>1. CurrentBank(s).code \in WithSd /\ act' = nrf_dfu_sd_continue_impl
          BY <2>4, <1>1 DEF Activate, WithSd, SystemCodes
        <4>2. damaged' = (damaged \/ (pc' = "sdCopy" /\ s.write_offset % PageUnits # 0))
          BY <1>1 DEF Activate
        <4>3. s.write_offset % PageUnits = 0
          BY <4>2, <2>4
        <4>4. act'.target = s.write_offset
          BY <4>1 DEF nrf_dfu_sd_continue_impl
        <4> QED BY <4>1, <4>3, <4>4
      <3>2. \A u \in 0 .. s.write_offset - 1 : sd[u] = ImageUnit(CurrentBank(s).crc, u)
        BY <3>1, <1>0 DEF Tracked
      <3>3. /\ act'.target % PageUnits = 0 /\ s'.write_offset <= act'.target
            /\ \A u \in 0 .. act'.target - 1 : sd'[u] = ImageUnit(CurrentBank(s').crc, u)
        BY <3>1, <3>2, <2>1, <1>0
      <3> QED BY <3>3, <2>2, <2>4, <1>0 DEF Tracking
    <2> QED BY <2>3, <2>4
  <1>2. CASE RegionLost
    <2>1. s' = s /\ sd' = sd /\ pc' = "fault"
      BY <1>2 DEF RegionLost
    <2>2. SdWhole' <=> SdWhole
      BY <2>1, SameSystem
    <2>3. Tracked(s)' /\ Tracked(settings)'
      BY <2>1, <2>2, <1>0 DEF Tracked, WholeAt
    <2> QED BY <2>1, <2>3, <1>0 DEF Tracking
  <1>3. CASE SdCopy
    <2>1. pc = "sdCopy" /\ pc' = "sdCompare" /\ s' = s /\ act' = act
      BY <1>3 DEF SdCopy
    <2>2. PICK ok \in BOOLEAN : sd' = SD_MBR_COMMAND_COPY_SD(act.target, act.src, act.split, ok)
      BY <1>3 DEF SdCopy
    <2>3. /\ CurrentBank(s).code \in WithSd /\ act.target % PageUnits = 0
          /\ s.write_offset <= act.target /\ s.write_offset <= s.sd_size
          /\ \A u \in 0 .. act.target - 1 :
                u < s.sd_size => sd[u] = ImageUnit(CurrentBank(s).crc, u)
      BY <2>1, <1>0 DEF ActOK, Tracing, Tracking, RecordOK
    <2>4. /\ \A u \in 0 .. SdUnits - 1 : u < act.target => sd'[u] = sd[u]
          /\ ok => \A u \in Part : sd'[u] = RegionUnit(act.src + u - act.target)
          /\ ~ok => \A u \in Part : sd'[u] = Torn
      BY <2>2, <2>3, <1>0, CopySd
    <2>5. \A u \in 0 .. act.target - 1 :
             u < s.sd_size => sd'[u] = ImageUnit(CurrentBank(s).crc, u)
      <3>1. act.target \in Nat
        BY <1>0
      <3>2. \A u \in 0 .. act.target - 1 :
               u < s.sd_size => u \in 0 .. SdUnits - 1 /\ u < act.target
        BY <3>1, <1>0
      <3> QED BY <3>2, <2>3, <2>4
    <2>6. \A u \in 0 .. s.write_offset - 1 : sd'[u] = ImageUnit(CurrentBank(s).crc, u)
      <3>1. \A u \in 0 .. s.write_offset - 1 : u \in 0 .. act.target - 1 /\ u < s.sd_size
        BY <1>0, <2>3
      <3> QED BY <3>1, <2>5
    <2>7. Tracked(s)' /\ Tracked(settings)'
      <3>1. CurrentBank(s).code \in SystemCodes => WholeAt(flash, CurrentBank(s).crc, Place(s))
        BY <1>0 DEF Tracked
      <3> QED BY <3>1, <2>1, <2>3, <2>6, <1>0 DEF Tracked, WholeAt
    <2>8. PartCopied' \/ PartTorn'
      BY <2>1, <2>4, <1>0 DEF PartCopied, PartTorn, Part, RegionUnit
    <2> QED BY <2>1, <2>3, <2>5, <2>7, <2>8, <1>0 DEF Tracking
  <1>4. CASE SdCompare
    <2>1. pc = "sdCompare" /\ s' = s /\ sd' = sd
      BY <1>4 DEF SdCompare
    <2>2. SdWhole' <=> SdWhole
      BY <2>1, SameSystem
    <2>3. Tracked(s)' /\ Tracked(settings)'
      BY <2>1, <2>2, <1>0 DEF Tracked, WholeAt
    <2>4. /\ CurrentBank(s).code \in WithSd /\ act.left > 0 /\ act.split > 0
          /\ act.left % PageUnits = 0 /\ act.target % PageUnits = 0
          /\ act.target + act.left \in s.sd_size .. s.sd_size + PageUnits - 1
          /\ s.write_offset <= act.target
          /\ \A u \in 0 .. act.target - 1 :
                u < s.sd_size => sd[u] = ImageUnit(CurrentBank(s).crc, u)
          /\ PartCopied \/ PartTorn
      BY <2>1, <1>0 DEF ActOK, Tracing, Tracking
    <2> DEFINE same == \A k \in 0 .. act.split - 1 :
                          act.target + k \in DOMAIN sd =>
                             sd[act.target + k] = RegionUnit(act.src + k)
    <2>5. same <=> PartCopied
      <3>1. act.target \in Nat /\ act.src \in Nat /\ act.split \in Nat
        BY <1>0
      <3>2. ASSUME same, NEW u \in Part PROVE sd[u] = RegionUnit(act.src + u - act.target)
        <4> DEFINE k == u - act.target
        <4>1. /\ k \in 0 .. act.split - 1 /\ act.target + k = u /\ u \in DOMAIN sd
              /\ act.src + k = act.src + u - act.target
          BY <1>0, <3>1 DEF Part
        <4>2. act.target + k \in DOMAIN sd => sd[act.target + k] = RegionUnit(act.src + k)
          <5> HIDE DEF k
          <5> QED BY <3>2, <4>1
        <4> HIDE DEF k
        <4> QED BY <4>1, <4>2
      <3>3. ASSUME PartCopied, NEW k \in 0 .. act.split - 1, act.target + k \in DOMAIN sd
            PROVE  sd[act.target + k] = RegionUnit(act.src + k)
        <4> DEFINE u == act.target + k
        <4>1. u \in Part /\ act.src + u - act.target = act.src + k
          BY <1>0, <3>1, <3>3 DEF Part
        <4>2. sd[u] = RegionUnit(act.src + u - act.target)
          <5> HIDE DEF u
          <5> QED BY <3>3, <4>1 DEF PartCopied
        <4> QED BY <4>1, <4>2
      <3> QED BY <3>2, <3>3 DEF PartCopied
    <2>6. CASE same
      <3>1. pc' = "sdSave" /\ act' = act
        BY <1>4, <2>6 DEF SdCompare
      <3>2. PartCopied'
        <4>1. PartCopied
          BY <2>5, <2>6
        <4> QED BY <3>1, <4>1, <2>1, <1>0 DEF PartCopied, Part, RegionUnit
      <3> HIDE DEF same
      <3> QED BY <3>1, <3>2, <2>1, <2>3, <2>4, <1>0 DEF Tracking
    <2>7. CASE ~same
      <3>1. pc' = "check"
        BY <1>4, <2>7 DEF SdCompare
      <3>2. act.target \in Part /\ act.target \in 0 .. SdUnits - 1
        <4>1. act.left \in Nat /\ act.target \in Nat /\ act.split \in Nat /\ PageUnits \in Nat \ {0}
          BY <1>0, Sizes
        <4>2. act.left >= PageUnits
          BY <4>1, <2>4
        <4> QED BY <4>1, <4>2, <2>4, <1>0 DEF Part
      <3>3. sd[act.target] = Torn
        BY <2>4, <2>5, <2>7, <3>2 DEF PartTorn
      <3>4. ~SdWhole
        BY <3>2, <3>3, <2>4, TornPage
      <3> HIDE DEF same
      <3> QED BY <3>1, <3>4, <2>2, <2>3, <1>0 DEF Tracking
    <2> HIDE DEF same
    <2> QED BY <2>6, <2>7
  <1>5. CASE SdSave
    <2> DEFINE left == IF act.split > act.left THEN 0 ELSE act.left - act.split
    <2>1. pc = "sdSave" /\ sd' = sd /\ TypeOK
      BY <1>5, TracingFacts DEF SdSave
    <2>2. /\ CurrentBank(s') = CurrentBank(s) /\ Place(s') = Place(s)
          /\ s'.sd_size = s.sd_size /\ s'.write_offset = s.sd_size - left
          /\ s'.write_offset <= act.target + act.split
      BY <1>0, <1>5, <2>1, SavedRecord
    <2>3. /\ CurrentBank(s).code \in WithSd /\ act.target % PageUnits = 0
          /\ act.split % PageUnits = 0
          /\ act.target \in Nat /\ act.split \in Nat /\ act.left \in Nat /\ PageUnits \in Nat \ {0}
      BY <2>1, <1>0, Sizes DEF ActOK, Tracing, Tracking
    <2>4. left \in Nat
      BY <2>3
    <2> HIDE DEF left
    <2>5. \A u \in 0 .. (act.target + act.split) - 1 :
             u < s.sd_size => sd'[u] = ImageUnit(CurrentBank(s).crc, u)
      <3>1. ASSUME NEW u \in 0 .. (act.target + act.split) - 1, u < s.sd_size
            PROVE  sd[u] = ImageUnit(CurrentBank(s).crc, u)
        <4>1. u \in Nat /\ u < act.target + act.split
          BY <2>3
        <4> QED BY <3>1, <4>1, <2>1, PartInPlace
      <3> QED BY <3>1, <2>1
    <2>6. \A u \in 0 .. s'.write_offset - 1 : sd'[u] = ImageUnit(CurrentBank(s').crc, u)
      <3>1. \A u \in 0 .. s'.write_offset - 1 :
               u \in 0 .. (act.target + act.split) - 1 /\ u < s.sd_size
        <4> DEFINE e == act.target + act.split
        <4>1. e \in Nat
          BY <2>3
        <4>2. s'.write_offset <= e /\ s'.write_offset <= s.sd_size /\ s'.write_offset \in Int
          BY <2>2, <2>4, <1>0
        <4> HIDE DEF e
        <4>3. \A u \in 0 .. s'.write_offset - 1 : u \in 0 .. e - 1 /\ u < s.sd_size
          BY <4>1, <4>2, <1>0
        <4> QED BY <4>3 DEF e
      <3> QED BY <3>1, <2>2, <2>5
    <2>7. Tracked(s)'
      <3>1. CurrentBank(s).code \in SystemCodes => WholeAt(flash, CurrentBank(s).crc, Place(s))
        BY <1>0 DEF Tracked
      <3> QED BY <3>1, <2>2, <2>3, <2>6, <1>0 DEF Tracked, WholeAt
    <2>8. Tracked(settings)'
      <3>1. SdWhole' <=> SdWhole
        BY <2>1, SameSystem
      <3> QED BY <3>1, <2>1, <1>0 DEF Tracked, WholeAt
    <2>9. CASE pc' = "sdDone"
      BY <2>9, <2>7, <2>8, <1>0 DEF Tracking
    <2>10. CASE pc' # "sdDone"
      <3>1. pc' = "sdCopy" /\ act'.target = act.target + act.split
        BY <1>5, <2>10, <1>0 DEF SdSave
      <3>2. act'.target % PageUnits = 0
        BY <3>1, <2>3, ModSum
      <3>3. s'.write_offset <= act'.target
        BY <3>1, <2>2
      <3>4. \A u \in 0 .. act'.target - 1 :
               u < s'.sd_size => sd'[u] = ImageUnit(CurrentBank(s').crc, u)
        <4> DEFINE e == act.target + act.split
        <4>1. act'.target = e /\ \A u \in 0 .. e - 1 :
                 u < s.sd_size => sd'[u] = ImageUnit(CurrentBank(s).crc, u)
          BY <3>1, <2>5
        <4> HIDE DEF e
        <4> QED BY <4>1, <2>2
      <3> QED BY <3>1, <3>2, <3>3, <3>4, <2>7, <2>8, <1>0 DEF Tracking
    <2> QED BY <2>9, <2>10
  <1> QED BY <1>1, <1>2, <1>3, <1>4, <1>5

\* The end of an activation.
LEMMA TrackEnd ==
    ASSUME Tracing, SdDone \/ BlCompare \/ BlCopy
    PROVE  Tracking'
  <1>0. /\ settings' = settings /\ flash' = flash /\ sd' = sd /\ pc # "reset"
        /\ Idle /\ settings = s /\ settings # NoSettings /\ Tracked(s)
        /\ RecordOK(s) /\ ActOK /\ BlWhole /\ (SdWhole' <=> SdWhole)
    <2>1. /\ settings' = settings /\ flash' = flash /\ sd' = sd /\ pc # "reset"
          /\ pc \in Quiet \/ Idle
      BY DEF SdDone, BlCompare, BlCopy, Quiet
    <2> QED BY <2>1, TracingFacts, SameSystem
  <1>1. Tracked(settings)'
    BY <1>0 DEF Tracked, WholeAt
  <1>2. CASE SdDone \/ BlCompare
    <2>1. /\ BlWhole' /\ pc' \in {"check", "blCompare", "blCopy"}
          /\ s' = s \/ nrf_dfu_invalidate_bank
          /\ pc' = "check" => nrf_dfu_invalidate_bank
      <3>1. bl' = bl
        BY <1>2 DEF SdDone, BlCompare
      <3> QED BY <3>1, <1>0, <1>2, SameBootloader DEF SdDone, BlCompare
    <2>2. CASE s' = s /\ pc' # "check"
      <3>1. Tracked(s)'
        BY <2>2, <1>0 DEF Tracked, WholeAt
      <3> QED BY <3>1, <2>1, <2>2, <1>0, <1>1 DEF Tracking
    <2>3. CASE nrf_dfu_invalidate_bank
      <3>1. CurrentBank(s').code \notin SystemCodes /\ s'.sd_size = 0
        BY <2>3, <1>0, InvalidatedRecord
      <3>2. SdWhole
        <4>1. CASE CurrentBank(s).code \in WithSd
          <5>1. s.write_offset = s.sd_size
            BY <4>1, <1>0, <1>2 DEF SdDone, BlCompare, ActOK, WithSd, WithBl
          <5> QED BY <4>1, <5>1, <1>0, CopiedWhole
        <4>2. CASE CurrentBank(s).code \notin WithSd
          BY <4>2, <1>0 DEF Tracked
        <4> QED BY <4>1, <4>2
      <3>3. Tracked(s)'
        BY <3>1, <3>2, <1>0 DEF Tracked, WithSd, SystemCodes
      <3>4. ~(CurrentBank(s)'.code \in SystemCodes)
        BY <3>1
      <3> QED BY <3>3, <3>4, <2>1, <1>0, <1>1 DEF Tracking
    <2> QED BY <2>1, <2>2, <2>3
  <1>3. CASE BlCopy
    <2>1. BlWhole' /\ pc' = "reset"
      BY <1>3, CopiedBootloader DEF BlCopy, Restarted
    <2> QED BY <2>1, <1>0, <1>1 DEF Tracking
  <1> QED BY <1>2, <1>3

LEMMA TrackStep == BaseInv /\ Tracking /\ [SystemNext]_allVars => Tracking'
  <1> SUFFICES ASSUME BaseInv, Tracking, [SystemNext]_allVars, ~damaged' PROVE Tracking'
    BY DEF Tracking
  <1>1. Tracing
    <2>1. damaged' = damaged \/ Activate \/ PowerFailureInSystem
      BY DEF SystemNext, BootStep, Activation, RegionLost, SdCopy, SdCompare, SdSave, SdDone,
             BlCompare, BlCopy, Receive, allVars, system
    <2>2. ~damaged
      BY <2>1 DEF Activate, PowerFailureInSystem
    <2> QED BY <2>2 DEF Tracing
  <1>2. CASE UNCHANGED allVars
    BY <1>2 DEF allVars, Tracking, Tracked, WholeAt, SdWhole, SdHolds, BlWhole, BlHolds,
                PartCopied, PartTorn, Part, RegionUnit
  <1> QED
    BY <1>1, <1>2, TrackSettings, TrackCopy, TrackReceive, TrackReset, TrackSd, TrackEnd
       DEF SystemNext, BootStep, Activation

\* ActivationTracked: wherever the power fails, the settings page says of an
\* activation which part of it is in place, and none is left half done.
THEOREM TrackingCorrect == SystemSpec => []ActivationTracked
  <1>1. SystemInit => Tracking
    <2> SUFFICES ASSUME SystemInit PROVE Tracking
      OBVIOUS
    <2> USE DEF SystemInit, Init
    <2>1. SdWhole /\ BlWhole
      <3>1. SdHolds(NoImage) /\ BlHolds(NoImage)
        BY DEF SdHolds, BlHolds
      <3> QED BY <3>1 DEF SdWhole, BlWhole
    <2>2. CurrentBank(settings).code = "VALID_APP" /\ settings.sd_size = 0
      BY FactoryRecord
    <2>3. Tracked(settings)
      <3> HIDE DEF SystemInit, Init
      <3> QED BY <2>1, <2>2 DEF Tracked, WithSd, SystemCodes
    <2>4. pc = "reset"
      OBVIOUS
    <2> HIDE DEF SystemInit, Init
    <2> QED BY <2>1, <2>3, <2>4 DEF Tracking
  <1>2. BaseInv /\ Tracking => ActivationTracked
    <2> SUFFICES ASSUME BaseInv, Tracking, settings # NoSettings, ~damaged
                 PROVE  LET b == CurrentBank(settings) IN
                        IF b.code \in SystemCodes
                        THEN /\ b.code # "VALID_BL" =>
                                   \A u \in 0 .. settings.write_offset - 1 :
                                      sd[u] = ImageUnit(b.crc, u)
                             /\ BlWhole
                             /\ b.code = "VALID_BL" => settings.sd_size = 0
                        ELSE SdWhole /\ BlWhole
      BY DEF ActivationTracked
    <2> QED BY DEF Tracking, Tracked, WithSd, SystemCodes
  <1> QED BY <1>1, <1>2, TrackStep, BaseInvariant, PTL DEF SystemSpec

=============================================================================
