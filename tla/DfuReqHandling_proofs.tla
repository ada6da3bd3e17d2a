----------------------- MODULE DfuReqHandling_proofs ------------------------
(***************************************************************************)
(* Theorems about the request handler of DfuReqHandling and about the DFU  *)
(* transport that drives it.                                               *)
(*                                                                         *)
(* The handler's operators take a device (s, m, fs) and return the next    *)
(* one, so the inductive invariant is for the larger part a predicate of a *)
(* device, and there is one lemma for each operator.  The rest ties the    *)
(* request that the controller makes next to what the device is ready for. *)
(*                                                                         *)
(* The first half, HandlerInv, holds however fast the controller is and    *)
(* however flash operations fail.  The second, PacedInv, is about a flash  *)
(* that keeps up: for each unit of the region it follows what the queued   *)
(* operations make of it one after the other, and so what the flash holds  *)
(* by the time that the settings which speak of it are written.            *)
(***************************************************************************)
EXTENDS DfuTransport, Arithmetic

-----------------------------------------------------------------------------
(* The inductive invariant.                                                *)

Command == [size : {0, CommandUnits}, offset : Nat, image : Images \cup {NoImage}]

Progress == [object : Nat, offset : Nat, last : Nat, crc : Crcs, crc_last : Crcs]

AnyBank ==
    [code : {"INVALID"}, crc : Crcs, size : Nat]
    \cup [code : {"VALID_APP"}, crc : Crcs, size : Nat \ {0}]

Record ==
    [layout : {"DUAL", "SINGLE"}, current : {0, 1}, bank0 : AnyBank, bank1 : AnyBank,
     command : Command, progress : Progress, write_offset : Nat]

Unit == (Images \X Nat) \cup {Erased}

Ram ==
    [valid : BOOLEAN, size_req : Nat, start : Nat, packet : Images \cup {NoImage},
     pos : 0 .. Chunk, cur : 0 .. Buffers - 1, pending : Int,
     buf : [0 .. Buffers - 1 -> [0 .. Chunk - 1 -> Unit]]]

CurrentBank(r) == IF r.current = 0 THEN r.bank0 ELSE r.bank1

Full(c) == c = [size |-> CommandUnits, offset |-> CommandUnits, image |-> c.image]
           /\ c.image \in Images

\* The current bank is being written with the image of the command.
Updating(r) ==
    /\ Full(r.command)
    /\ CurrentBank(r).code = "INVALID" /\ CurrentBank(r).size = Size[r.command.image]
    /\ r.current = 1 => r.bank0.code = "VALID_APP"

\* What the settings page may hold: no update, or one at the end of an object.
Storable(r) ==
    /\ r \in Record
    /\ \/ r.command = NoCommand
       \/ /\ Updating(r)
          /\ r.progress.object = 0 /\ r.progress.offset = r.progress.last
          /\ r.progress.last <= Size[r.command.image]

Op ==
    [op : {"erase"}, at : Nat, len : Nat \ {0}]
    \cup [op : {"store"}, at : Nat, buf : 0 .. Buffers - 1, len : 1 .. Chunk]
    \cup [op : {"settingsErase"}]
    \cup [op : {"settingsStore"}, content : {r \in Record : Storable(r)}]

DeviceFs == [queue : Seq(Op), failure : BOOLEAN, barrier : BOOLEAN, reset : BOOLEAN]

DeviceType == [s : Record, m : Ram, fs : DeviceFs]

IsData(op) == op.op \in {"erase", "store"}

DataOps(q) == {j \in DOMAIN q : IsData(q[j])}

\* An image is only called valid if it is whole.
CurrentWhole(r) == BankWhole(CurrentBank(r), PlaceOf(r))

\* ... and stays so until the settings that call it valid are stored.
StoresWhole(q) ==
    \A j \in DOMAIN q :
        /\ q[j].op = "settingsStore"
        /\ CurrentBank(q[j].content).code = "VALID_APP"
        => /\ CurrentWhole(q[j].content)
           /\ \A k \in 1 .. j - 1 : ~IsData(q[k])

Active(d) == d.m.valid /\ d.s.command.size = CommandUnits

CommandOK(c) == c.offset <= c.size /\ (c.size = 0 => c = NoCommand)

\* Before the command is executed there is no progress.
NotStarted(d) ==
    ~d.m.valid /\ d.s.command.size = CommandUnits =>
        d.s.progress = NoProgress /\ d.s.write_offset = 0

\* After it the image goes to the current bank, object by object.
Started(d) ==
    Active(d) =>
        /\ Updating(d.s)
        /\ d.m.packet = d.s.command.image /\ d.m.size_req = Size[d.m.packet]
        /\ d.m.start = PlaceOf(d.s)
        /\ d.s.progress.last <= d.s.progress.offset
        /\ d.s.progress.offset <= d.s.progress.last + d.s.progress.object
        /\ d.s.progress.last + d.s.progress.object <= d.m.size_req

DeviceOK(d) ==
    /\ d \in DeviceType
    /\ CommandOK(d.s.command) /\ NotStarted(d) /\ Started(d)
    /\ StoresWhole(d.fs.queue)
    /\ d.m.pending = Cardinality(DataOps(d.fs.queue))

FlashOK ==
    /\ flash \in [0 .. Region - 1 -> Unit \cup {Torn}]
    /\ saved \in {Erased, NoSettings} \/ Storable(saved)
    /\ pc = "done" => saved \notin {Erased, NoSettings} /\ CurrentWhole(saved)

DataSteps == {"resume", "create", "write", "crc", "execute"}

Steps == {"off", "select", "initCreate", "initWrite", "initExecute", "end"} \cup DataSteps

\* What the device is ready for when the controller makes its next request.
ControllerOK ==
    /\ ctl \in [image : Images \cup {NoImage}, step : Steps, pos : Nat]
    /\ ctl.step # "off" => ctl.image \in Images
    /\ ctl.step = "initWrite" =>
          /\ ~m.valid /\ s.command.size = CommandUnits
          /\ s.command.offset = 0 \/ s.command.image = ctl.image
    /\ ctl.step = "initExecute" => Full(s.command) /\ s.command.image = ctl.image
    /\ ctl.step \in DataSteps =>
          Active(Device) /\ Full(s.command) /\ s.command.image = ctl.image
    /\ ctl.step = "execute" => s.progress.crc = ctl.image
    /\ ctl.step = "write" => ctl.pos < Size[ctl.image]

\* What the handler waits for.
WaitOK ==
    /\ pc \in {"idle", "waitPending", "waitSettings", "done"}
    /\ pc \in {"waitPending", "waitSettings"} => ctl.step \in {"end", "off"}
    /\ pc = "waitPending" => Active(Device) /\ s.progress.crc = m.packet
    /\ pc = "waitSettings" =>
          /\ s.command = NoCommand /\ CurrentWhole(s)
          /\ DataOps(fs.queue) = {}

HandlerInv == DeviceOK(Device) /\ FlashOK /\ ControllerOK /\ WaitOK

-----------------------------------------------------------------------------
(* Constants and sequences.                                                *)

LEMMA Sizes ==
    /\ {Region, PageUnits, Chunk, Buffers, MaxObject, CommandUnits} \subseteq Nat \ {0}
    /\ Size \in [Images -> Nat \ {0}] /\ Factory \in Images
    /\ NoImage \notin Images /\ Mixed \notin Images
    /\ Packets \subseteq 1 .. Chunk
    /\ QueueSize \in Nat /\ QueueSize >= 2
  BY DfuReqHandlingAssumption

LEMMA AlignUp ==
    ASSUME NEW n \in Nat
    PROVE  AlignToPage(n) \in Nat /\ n <= AlignToPage(n)
  <1> DEFINE P == PageUnits
             q == (n + P - 1) \div P
  <1>1. P \in Nat \ {0} /\ n + P - 1 \in Nat
    BY Sizes
  <1>2. /\ n + P - 1 = P * q + ((n + P - 1) % P) /\ (n + P - 1) % P \in 0 .. P - 1 /\ q \in Nat
    BY <1>1, DivMod
  <1>3. AlignToPage(n) = P * q
    BY <1>1, <1>2 DEF AlignToPage
  <1> HIDE DEF P, q
  <1> QED BY <1>1, <1>2, <1>3

LEMMA DataOpsFinite ==
    ASSUME NEW q \in Seq(Op)
    PROVE  IsFiniteSet(DataOps(q)) /\ Cardinality(DataOps(q)) \in Nat
  <1>1. DataOps(q) \subseteq 1 .. Len(q)
    BY DEF DataOps
  <1>2. IsFiniteSet(1 .. Len(q))
    BY FS_Interval
  <1> QED BY <1>1, <1>2, FS_Subset, FS_CardinalityType

\* An operation that is queued counts if it changes data.
LEMMA AppendData ==
    ASSUME NEW q \in Seq(Op), NEW o \in Op
    PROVE  /\ Append(q, o) \in Seq(Op)
           /\ Cardinality(DataOps(Append(q, o)))
                = Cardinality(DataOps(q)) + (IF IsData(o) THEN 1 ELSE 0)
  <1> DEFINE r == Append(q, o)
             n == Len(q) + 1
  <1>1. /\ r \in Seq(Op) /\ DOMAIN r = 1 .. n /\ r[n] = o
        /\ \A j \in 1 .. Len(q) : r[j] = q[j]
        /\ DOMAIN q = 1 .. Len(q) /\ Len(q) \in Nat
    OBVIOUS
  <1> HIDE DEF r
  <1>2. DataOps(r) = DataOps(q) \cup (IF IsData(o) THEN {n} ELSE {})
    BY <1>1 DEF DataOps
  <1>3. n \notin DataOps(q)
    BY <1>1 DEF DataOps
  <1>4. IsFiniteSet(DataOps(q)) /\ Cardinality(DataOps(q)) \in Nat
    BY DataOpsFinite
  <1>5. CASE IsData(o)
    BY <1>1, <1>2, <1>3, <1>4, <1>5, FS_AddElement DEF r
  <1>6. CASE ~IsData(o)
    BY <1>1, <1>2, <1>4, <1>6 DEF r
  <1> QED BY <1>5, <1>6

\* One that has ended does no longer.
LEMMA TailData ==
    ASSUME NEW q \in Seq(Op), q # <<>>
    PROVE  /\ Tail(q) \in Seq(Op) /\ Head(q) \in Op
           /\ Cardinality(DataOps(Tail(q)))
                = Cardinality(DataOps(q)) - (IF IsData(Head(q)) THEN 1 ELSE 0)
  <1> DEFINE r == Tail(q)
             A == DataOps(r)
             B == DataOps(q) \ {1}
             f == [j \in A |-> j + 1]
  <1>1. /\ r \in Seq(Op) /\ Head(q) \in Op /\ Head(q) = q[1] /\ Len(q) \in Nat \ {0}
        /\ DOMAIN r = 1 .. Len(q) - 1 /\ DOMAIN q = 1 .. Len(q)
        /\ \A j \in 1 .. Len(q) - 1 : r[j] = q[j + 1]
    OBVIOUS
  <1> HIDE DEF r
  <1>2. A \subseteq 1 .. Len(q) - 1 /\ B \subseteq 2 .. Len(q)
    BY <1>1 DEF DataOps
  <1>3. \A j \in 1 .. Len(q) - 1 : j \in A <=> j + 1 \in B
    BY <1>1 DEF DataOps
  <1>4. f \in Bijection(A, B)
    <2>1. f \in [A -> B]
      BY <1>2, <1>3
    <2>2. \A a, b \in A : f[a] = f[b] => a = b
      BY <1>2
    <2>3. \A b \in B : \E a \in A : f[a] = b
      <3>1. TAKE b \in B
      <3>2. b - 1 \in 1 .. Len(q) - 1 /\ (b - 1) + 1 = b
        BY <3>1, <1>1, <1>2
      <3>3. b - 1 \in A
        BY <3>1, <3>2, <1>3
      <3> QED BY <3>2, <3>3
    <2> HIDE DEF A, B, f
    <2> QED BY <2>1, <2>2, <2>3 DEF Bijection, Injection, Surjection, IsInjective
  <1>5. /\ IsFiniteSet(A) /\ Cardinality(A) \in Nat
        /\ IsFiniteSet(DataOps(q)) /\ Cardinality(DataOps(q)) \in Nat
    BY <1>1, DataOpsFinite
  <1>6. Cardinality(A) = Cardinality(B)
    <2> HIDE DEF A, B, f
    <2> QED BY <1>4, <1>5, FS_Bijection DEF ExistsBijection
  <1>7. CASE IsData(Head(q))
    <2>1. 1 \in DataOps(q)
      BY <1>1, <1>7 DEF DataOps
    <2>2. Cardinality(B) = Cardinality(DataOps(q)) - 1
      BY <2>1, <1>5, FS_RemoveElement
    <2> QED BY <1>1, <1>6, <1>7, <2>2, <1>5 DEF r
  <1>8. CASE ~IsData(Head(q))
    <2>1. 1 \notin DataOps(q)
      BY <1>1, <1>8 DEF DataOps
    <2>2. B = DataOps(q)
      BY <2>1
    <2> HIDE DEF B
    <2> QED BY <1>1, <1>6, <1>8, <2>2, <1>5 DEF r
  <1> QED BY <1>7, <1>8

LEMMA NoneLeft ==
    ASSUME NEW q \in Seq(Op), Cardinality(DataOps(q)) = 0
    PROVE  DataOps(q) = {}
  BY DataOpsFinite, FS_EmptySet

\* Data operations, and only they, cover units.
LEMMA CoveredData ==
    ASSUME NEW o \in Op
    PROVE  Covered(o) # {} <=> IsData(o)
  <1>1. CASE IsData(o)
    <2>1. o.at \in Nat /\ o.len \in Nat \ {0}
      BY <1>1, Sizes DEF Op, IsData
    <2>2. o.at \in o.at .. o.at + o.len - 1
      BY <2>1
    <2> QED BY <1>1, <2>2 DEF Covered, IsData
  <1>2. CASE ~IsData(o)
    BY <1>2 DEF Covered, IsData
  <1> QED BY <1>1, <1>2

\* Queueing an operation does not touch what settings in the queue promise,
\* unless it is a promise itself.
LEMMA AppendStores ==
    ASSUME NEW q \in Seq(Op), NEW o \in Op, StoresWhole(q),
           o.op = "settingsStore" /\ CurrentBank(o.content).code = "VALID_APP"
               => CurrentWhole(o.content) /\ DataOps(q) = {}
    PROVE  StoresWhole(Append(q, o))
  <1> DEFINE r == Append(q, o)
             n == Len(q) + 1
  <1>1. /\ r \in Seq(Op) /\ DOMAIN r = 1 .. n /\ r[n] = o
        /\ \A j \in 1 .. Len(q) : r[j] = q[j]
        /\ DOMAIN q = 1 .. Len(q) /\ Len(q) \in Nat
    OBVIOUS
  <1> HIDE DEF r
  <1>2. SUFFICES ASSUME NEW j \in DOMAIN r, r[j].op = "settingsStore",
                        CurrentBank(r[j].content).code = "VALID_APP"
                 PROVE  CurrentWhole(r[j].content) /\ \A k \in 1 .. j - 1 : ~IsData(r[k])
    BY DEF StoresWhole, r
  <1>3. CASE j \in 1 .. Len(q)
    <2>1. r[j] = q[j] /\ \A k \in 1 .. j - 1 : r[k] = q[k]
      BY <1>1, <1>3
    <2> QED BY <2>1, <1>1, <1>2, <1>3 DEF StoresWhole
  <1>4. CASE j = n
    <2>1. \A k \in 1 .. j - 1 : r[k] = q[k] /\ k \in DOMAIN q
      BY <1>1, <1>4
    <2> QED BY <2>1, <1>1, <1>2, <1>4 DEF DataOps
  <1> QED BY <1>1, <1>3, <1>4

LEMMA TailStores ==
    ASSUME NEW q \in Seq(Op), q # <<>>, StoresWhole(q)
    PROVE  StoresWhole(Tail(q))
  <1> DEFINE r == Tail(q)
  <1>1. /\ r \in Seq(Op) /\ Len(q) \in Nat \ {0}
        /\ DOMAIN r = 1 .. Len(q) - 1 /\ DOMAIN q = 1 .. Len(q)
        /\ \A j \in 1 .. Len(q) - 1 : r[j] = q[j + 1]
    OBVIOUS
  <1> HIDE DEF r
  <1>2. SUFFICES ASSUME NEW j \in DOMAIN r, r[j].op = "settingsStore",
                        CurrentBank(r[j].content).code = "VALID_APP"
                 PROVE  CurrentWhole(r[j].content) /\ \A k \in 1 .. j - 1 : ~IsData(r[k])
    BY DEF StoresWhole, r
  <1>3. r[j] = q[j + 1] /\ j + 1 \in DOMAIN q
    BY <1>1, <1>2
  <1>4. CurrentWhole(q[j + 1].content) /\ \A k \in 1 .. (j + 1) - 1 : ~IsData(q[k])
    BY <1>2, <1>3 DEF StoresWhole
  <1>5. ASSUME NEW k \in 1 .. j - 1 PROVE ~IsData(r[k])
    <2>1. r[k] = q[k + 1] /\ k + 1 \in 1 .. (j + 1) - 1
      BY <1>1, <1>5
    <2> QED BY <2>1, <1>4
  <1> QED BY <1>3, <1>4, <1>5

-----------------------------------------------------------------------------
(* The flash queue and the settings.                                       *)

LEMMA QueuedType ==
    ASSUME NEW f \in DeviceFs, NEW o \in Op
    PROVE  /\ Queued(f, o) \in DeviceFs /\ Queued(f, o).queue = Append(f.queue, o)
           /\ Queued(f, o) = [queue |-> Append(f.queue, o), failure |-> f.failure,
                              barrier |-> f.barrier, reset |-> f.reset]
  <1> DEFINE q == Append(f.queue, o)
             g == [queue |-> q, failure |-> f.failure, barrier |-> f.barrier,
                   reset |-> f.reset]
  <1>1. q \in Seq(Op)
    BY AppendData DEF DeviceFs
  <1> HIDE DEF q
  <1>2. [f EXCEPT !.queue = q] = g
    BY DEF DeviceFs
  <1>3. g \in DeviceFs /\ g.queue = q
    BY <1>1 DEF DeviceFs
  <1>4. Queued(f, o) = [f EXCEPT !.queue = q]
    BY DEF Queued, q
  <1> QED BY <1>2, <1>3, <1>4 DEF q

\* The settings that are queued keep what they promise, and nothing else that
\* is queued changes.
LEMMA SettingsWrite ==
    ASSUME NEW d \in DeviceType, NEW reset \in BOOLEAN, Storable(d.s),
           StoresWhole(d.fs.queue),
           CurrentBank(d.s).code = "VALID_APP" =>
               CurrentWhole(d.s) /\ DataOps(d.fs.queue) = {}
    PROVE  LET f == nrf_dfu_settings_write(d, reset)
           IN  /\ f \in DeviceFs /\ StoresWhole(f.queue)
               /\ Cardinality(DataOps(f.queue)) = Cardinality(DataOps(d.fs.queue))
  <1> DEFINE f0 == [d.fs EXCEPT !.reset = reset]
             e == [op |-> "settingsErase"]
             o == [op |-> "settingsStore", content |-> d.s]
             f1 == Queued(f0, e)
             f2 == Queued(f1, o)
             f3 == [f2 EXCEPT !.barrier = TRUE]
             q == d.fs.queue
             Good(f) == /\ f \in DeviceFs /\ StoresWhole(f.queue)
                        /\ Cardinality(DataOps(f.queue)) = Cardinality(DataOps(q))
  <1>1. d.fs \in DeviceFs /\ q \in Seq(Op) /\ d.s \in Record
    BY DEF DeviceType, DeviceFs
  <1>2. e \in Op /\ o \in Op /\ ~IsData(e) /\ ~IsData(o) /\ e.op # "settingsStore"
        /\ o.content = d.s
    BY <1>1 DEF Op, IsData
  <1>3. f0 \in DeviceFs /\ f0.queue = q
    BY <1>1 DEF DeviceFs
  <1>4. Cardinality(DataOps(q)) \in Nat
    BY <1>1, DataOpsFinite
  <1> HIDE DEF e, o
  <1>5. Good(f0) /\ Good(d.fs)
    BY <1>1, <1>3
  <1>6. f1 \in DeviceFs /\ f1.queue = Append(q, e)
    <2> HIDE DEF f0
    <2> QED BY <1>2, <1>3, QueuedType
  <1>7. /\ f1.queue \in Seq(Op) /\ StoresWhole(f1.queue)
        /\ Cardinality(DataOps(f1.queue)) = Cardinality(DataOps(q))
    <2> HIDE DEF f1, q
    <2>1. StoresWhole(q)
      BY DEF q
    <2>2. f1.queue \in Seq(Op) /\ Cardinality(DataOps(f1.queue)) = Cardinality(DataOps(q))
      BY <1>1, <1>2, <1>4, <1>6, AppendData
    <2> QED BY <2>1, <2>2, <1>1, <1>2, <1>6, AppendStores
  <1>8. DataOps(q) = {} => DataOps(f1.queue) = {}
    <2>1. Cardinality(DataOps(q)) = 0 => DataOps(f1.queue) = {}
      <3> HIDE DEF f1, q
      <3> QED BY <1>7, NoneLeft
    <2> QED BY <2>1, FS_EmptySet
  <1>9. Good(f1)
    BY <1>6, <1>7
  <1>10. f2 \in DeviceFs /\ f2.queue = Append(f1.queue, o)
    <2> HIDE DEF f1
    <2> QED BY <1>2, <1>6, QueuedType
  <1>11. StoresWhole(Append(f1.queue, o))
    <2> HIDE DEF f1
    <2> QED BY <1>2, <1>7, <1>8, AppendStores
  <1>12. Cardinality(DataOps(Append(f1.queue, o))) = Cardinality(DataOps(q))
    <2> HIDE DEF f1
    <2> QED BY <1>2, <1>4, <1>7, AppendData
  <1> HIDE DEF f1, f2
  <1>13. f3 \in DeviceFs /\ f3.queue = f2.queue
    BY <1>10 DEF DeviceFs
  <1>14. Good(f3)
    BY <1>10, <1>11, <1>12, <1>13
  <1>15. nrf_dfu_settings_write(d, reset) \in {f0, d.fs, f1, f3}
    BY DEF nrf_dfu_settings_write, f1, f2, e, o
  <1> HIDE DEF f0, f3, Good
  <1>16. Good(nrf_dfu_settings_write(d, reset))
    BY <1>5, <1>9, <1>14, <1>15
  <1> QED BY <1>16 DEF Good

-----------------------------------------------------------------------------
(* Object creation and data.                                               *)

LEMMA RamUpdates ==
    ASSUME NEW x \in Ram
    PROVE  /\ \A v \in 0 .. Chunk :
                 /\ [x EXCEPT !.pos = v] \in Ram
                 /\ [x EXCEPT !.pos = v] = [valid |-> x.valid, size_req |-> x.size_req,
                       start |-> x.start, packet |-> x.packet, pos |-> v, cur |-> x.cur,
                       pending |-> x.pending, buf |-> x.buf]
           /\ \A v \in 0 .. Buffers - 1 :
                 /\ [x EXCEPT !.cur = v] \in Ram
                 /\ [x EXCEPT !.cur = v] = [valid |-> x.valid, size_req |-> x.size_req,
                       start |-> x.start, packet |-> x.packet, pos |-> x.pos, cur |-> v,
                       pending |-> x.pending, buf |-> x.buf]
           /\ \A v \in Int :
                 /\ [x EXCEPT !.pending = v] \in Ram
                 /\ [x EXCEPT !.pending = v] = [valid |-> x.valid, size_req |-> x.size_req,
                       start |-> x.start, packet |-> x.packet, pos |-> x.pos, cur |-> x.cur,
                       pending |-> v, buf |-> x.buf]
           /\ \A v \in [0 .. Buffers - 1 -> [0 .. Chunk - 1 -> Unit]] :
                 /\ [x EXCEPT !.buf = v] \in Ram
                 /\ [x EXCEPT !.buf = v] = [valid |-> x.valid, size_req |-> x.size_req,
                       start |-> x.start, packet |-> x.packet, pos |-> x.pos, cur |-> x.cur,
                       pending |-> x.pending, buf |-> v]
  <1>1. ASSUME NEW v \in 0 .. Chunk
        PROVE  /\ [x EXCEPT !.pos = v] \in Ram
               /\ [x EXCEPT !.pos = v] = [valid |-> x.valid, size_req |-> x.size_req,
                     start |-> x.start, packet |-> x.packet, pos |-> v, cur |-> x.cur,
                     pending |-> x.pending, buf |-> x.buf]
    BY DEF Ram
  <1>2. ASSUME NEW v \in 0 .. Buffers - 1
        PROVE  /\ [x EXCEPT !.cur = v] \in Ram
               /\ [x EXCEPT !.cur = v] = [valid |-> x.valid, size_req |-> x.size_req,
                     start |-> x.start, packet |-> x.packet, pos |-> x.pos, cur |-> v,
                     pending |-> x.pending, buf |-> x.buf]
    BY DEF Ram
  <1>3. ASSUME NEW v \in Int
        PROVE  /\ [x EXCEPT !.pending = v] \in Ram
               /\ [x EXCEPT !.pending = v] = [valid |-> x.valid, size_req |-> x.size_req,
                     start |-> x.start, packet |-> x.packet, pos |-> x.pos, cur |-> x.cur,
                     pending |-> v, buf |-> x.buf]
    BY DEF Ram
  <1>4. ASSUME NEW v \in [0 .. Buffers - 1 -> [0 .. Chunk - 1 -> Unit]]
        PROVE  /\ [x EXCEPT !.buf = v] \in Ram
               /\ [x EXCEPT !.buf = v] = [valid |-> x.valid, size_req |-> x.size_req,
                     start |-> x.start, packet |-> x.packet, pos |-> x.pos, cur |-> x.cur,
                     pending |-> x.pending, buf |-> v]
    BY DEF Ram
  <1> QED BY <1>1, <1>2, <1>3, <1>4

LEMMA SwapType ==
    ASSUME NEW x \in Ram
    PROVE  LET y == FLASH_BUFFER_SWAP(x)
           IN  /\ y \in Ram /\ y.pos = 0 /\ y.cur = (x.cur + 1) % Buffers
               /\ y.valid = x.valid /\ y.size_req = x.size_req /\ y.start = x.start
               /\ y.packet = x.packet /\ y.pending = x.pending /\ y.buf = x.buf
  <1> DEFINE n == (x.cur + 1) % Buffers
             y == [x EXCEPT !.cur = n]
  <1>1. n \in 0 .. Buffers - 1
    <2>1. x.cur + 1 \in Nat
      BY DEF Ram
    <2> QED BY <2>1, Sizes, DivMod
  <1>2. FLASH_BUFFER_SWAP(x) = [y EXCEPT !.pos = 0]
    BY DEF FLASH_BUFFER_SWAP
  <1>3. 0 \in 0 .. Chunk
    BY Sizes
  <1> HIDE DEF n
  <1>4. y \in Ram /\ y = [valid |-> x.valid, size_req |-> x.size_req,
                          start |-> x.start, packet |-> x.packet, pos |-> x.pos,
                          cur |-> n, pending |-> x.pending, buf |-> x.buf]
    BY <1>1, RamUpdates
  <1> HIDE DEF y
  <1>5. /\ [y EXCEPT !.pos = 0] \in Ram
        /\ [y EXCEPT !.pos = 0] = [valid |-> y.valid, size_req |-> y.size_req,
              start |-> y.start, packet |-> y.packet, pos |-> 0, cur |-> y.cur,
              pending |-> y.pending, buf |-> y.buf]
    BY <1>3, <1>4, RamUpdates
  <1> DEFINE z == [y EXCEPT !.pos = 0]
  <1>6. z = FLASH_BUFFER_SWAP(x) /\ z \in Ram /\ z.cur = n /\ z.pos = 0
        /\ z.valid = x.valid /\ z.size_req = x.size_req /\ z.start = x.start
        /\ z.packet = x.packet /\ z.pending = x.pending /\ z.buf = x.buf
    BY <1>2, <1>4, <1>5
  <1> QED BY <1>6 DEF n

LEMMA RecordUpdates ==
    ASSUME NEW r \in Record
    PROVE  /\ \A v \in Nat :
                 /\ [r EXCEPT !.write_offset = v] \in Record
                 /\ [r EXCEPT !.write_offset = v] = [layout |-> r.layout,
                       current |-> r.current, bank0 |-> r.bank0, bank1 |-> r.bank1,
                       command |-> r.command, progress |-> r.progress, write_offset |-> v]
           /\ \A v \in Progress :
                 /\ [r EXCEPT !.progress = v] \in Record
                 /\ [r EXCEPT !.progress = v] = [layout |-> r.layout,
                       current |-> r.current, bank0 |-> r.bank0, bank1 |-> r.bank1,
                       command |-> r.command, progress |-> v,
                       write_offset |-> r.write_offset]
           /\ \A v \in Command :
                 /\ [r EXCEPT !.command = v] \in Record
                 /\ [r EXCEPT !.command = v] = [layout |-> r.layout,
                       current |-> r.current, bank0 |-> r.bank0, bank1 |-> r.bank1,
                       command |-> v, progress |-> r.progress,
                       write_offset |-> r.write_offset]
           /\ \A v \in AnyBank :
                 /\ [r EXCEPT !.bank0 = v] \in Record
                 /\ [r EXCEPT !.bank0 = v] = [layout |-> r.layout,
                       current |-> r.current, bank0 |-> v, bank1 |-> r.bank1,
                       command |-> r.command, progress |-> r.progress,
                       write_offset |-> r.write_offset]
           /\ \A v \in AnyBank :
                 /\ [r EXCEPT !.bank1 = v] \in Record
                 /\ [r EXCEPT !.bank1 = v] = [layout |-> r.layout,
                       current |-> r.current, bank0 |-> r.bank0, bank1 |-> v,
                       command |-> r.command, progress |-> r.progress,
                       write_offset |-> r.write_offset]
  <1>1. ASSUME NEW v \in Nat
        PROVE  /\ [r EXCEPT !.write_offset = v] \in Record
               /\ [r EXCEPT !.write_offset = v] = [layout |-> r.layout,
                     current |-> r.current, bank0 |-> r.bank0, bank1 |-> r.bank1,
                     command |-> r.command, progress |-> r.progress, write_offset |-> v]
    BY DEF Record
  <1>2. ASSUME NEW v \in Progress
        PROVE  /\ [r EXCEPT !.progress = v] \in Record
               /\ [r EXCEPT !.progress = v] = [layout |-> r.layout,
                     current |-> r.current, bank0 |-> r.bank0, bank1 |-> r.bank1,
                     command |-> r.command, progress |-> v,
                     write_offset |-> r.write_offset]
    BY DEF Record
  <1>3. ASSUME NEW v \in Command
        PROVE  /\ [r EXCEPT !.command = v] \in Record
               /\ [r EXCEPT !.command = v] = [layout |-> r.layout,
                     current |-> r.current, bank0 |-> r.bank0, bank1 |-> r.bank1,
                     command |-> v, progress |-> r.progress,
                     write_offset |-> r.write_offset]
    BY DEF Record
  <1>4. ASSUME NEW v \in AnyBank
        PROVE  /\ [r EXCEPT !.bank0 = v] \in Record
               /\ [r EXCEPT !.bank0 = v] = [layout |-> r.layout,
                     current |-> r.current, bank0 |-> v, bank1 |-> r.bank1,
                     command |-> r.command, progress |-> r.progress,
                     write_offset |-> r.write_offset]
    BY DEF Record
  <1>5. ASSUME NEW v \in AnyBank
        PROVE  /\ [r EXCEPT !.bank1 = v] \in Record
               /\ [r EXCEPT !.bank1 = v] = [layout |-> r.layout,
                     current |-> r.current, bank0 |-> r.bank0, bank1 |-> v,
                     command |-> r.command, progress |-> r.progress,
                     write_offset |-> r.write_offset]
    BY DEF Record
  <1> QED BY <1>1, <1>2, <1>3, <1>4, <1>5

\* What is left of a device's invariant when only the buffers change.
LEMMA SameSettings ==
    ASSUME NEW d, DeviceOK(d), NEW x \in Ram,
           x.valid = d.m.valid, x.size_req = d.m.size_req, x.start = d.m.start,
           x.packet = d.m.packet, x.pending = d.m.pending
    PROVE  DeviceOK([s |-> d.s, m |-> x, fs |-> d.fs])
  <1> DEFINE e == [s |-> d.s, m |-> x, fs |-> d.fs]
  <1>1. e \in DeviceType
    BY DEF DeviceOK, DeviceType
  <1>2. e.s = d.s /\ e.fs = d.fs /\ e.m = x
    OBVIOUS
  <1> HIDE DEF e
  <1>3. NotStarted(e) /\ Started(e)
    BY <1>2 DEF DeviceOK, NotStarted, Started, Active
  <1>4. DeviceOK(e)
    BY <1>1, <1>2, <1>3 DEF DeviceOK
  <1> QED BY <1>4 DEF e

LEMMA Parts ==
    ASSUME NEW d, DeviceOK(d)
    PROVE  /\ d = [s |-> d.s, m |-> d.m, fs |-> d.fs]
           /\ d.s \in Record /\ d.m \in Ram /\ d.fs \in DeviceFs
           /\ d.fs.queue \in Seq(Op)
           /\ d.s.progress \in Progress /\ d.s.command \in Command
           /\ d.s.bank0 \in AnyBank /\ d.s.bank1 \in AnyBank
           /\ d.s.write_offset \in Nat /\ d.m.start \in Nat
           /\ d.m.pos \in 0 .. Chunk /\ d.m.cur \in 0 .. Buffers - 1
           /\ d.m.pending = Cardinality(DataOps(d.fs.queue)) /\ d.m.pending \in Nat
  <1>1. d \in DeviceType /\ d.m.pending = Cardinality(DataOps(d.fs.queue))
    BY DEF DeviceOK
  <1>2. /\ d = [s |-> d.s, m |-> d.m, fs |-> d.fs]
        /\ d.s \in Record /\ d.m \in Ram /\ d.fs \in DeviceFs
    BY <1>1 DEF DeviceType
  <1>3. d.fs.queue \in Seq(Op)
    BY <1>2 DEF DeviceFs
  <1>4. /\ d.s.progress \in Progress /\ d.s.command \in Command
        /\ d.s.bank0 \in AnyBank /\ d.s.bank1 \in AnyBank
        /\ d.s.write_offset \in Nat
    BY <1>2 DEF Record
  <1>5. d.m.start \in Nat /\ d.m.pos \in 0 .. Chunk /\ d.m.cur \in 0 .. Buffers - 1
    BY <1>2 DEF Ram
  <1> QED BY <1>1, <1>2, <1>3, <1>4, <1>5, DataOpsFinite

\* The current buffer is stored, or its object goes back to its beginning:
\* the operations that are pending are counted either way.
LEMMA StoreBufferOK ==
    ASSUME NEW d, DeviceOK(d), d.m.valid, d.m.pos # 0
    PROVE  /\ DeviceOK(StoreBuffer(d)) /\ StoreBuffer(d).m.pos = 0
           /\ StoreBuffer(d).m.valid /\ StoreBuffer(d).s.command = d.s.command
  <1> DEFINE o == [op |-> "store", at |-> d.m.start + d.s.write_offset,
                   buf |-> d.m.cur, len |-> d.m.pos]
             w == d.s.write_offset + d.m.pos
             p == [d.s.progress EXCEPT !.crc = d.s.progress.crc_last,
                                       !.offset = d.s.progress.last]
             x == [d.m EXCEPT !.pending = @ + 1]
             e == StoreBuffer(d)
  <1>1. /\ d.s \in Record /\ d.m \in Ram /\ d.fs \in DeviceFs /\ d.fs.queue \in Seq(Op)
        /\ d.s.progress \in Progress /\ w \in Nat /\ d.m.start + d.s.write_offset \in Nat
        /\ d.m.pos \in 1 .. Chunk /\ d.m.cur \in 0 .. Buffers - 1
        /\ d.m.pending = Cardinality(DataOps(d.fs.queue)) /\ d.m.pending \in Nat
    BY Parts
  <1>2. CASE Accepts(d.fs)
    <2>1. o \in Op /\ IsData(o) /\ o.op # "settingsStore"
      BY <1>1 DEF Op, IsData
    <2>2. /\ x \in Ram /\ x.pending = d.m.pending + 1 /\ x.valid = d.m.valid
          /\ x.size_req = d.m.size_req /\ x.start = d.m.start /\ x.packet = d.m.packet
      <3> DEFINE n == d.m.pending + 1
      <3>1. n \in Int
        BY <1>1
      <3> HIDE DEF n
      <3>2. /\ [d.m EXCEPT !.pending = n] \in Ram
            /\ [d.m EXCEPT !.pending = n] = [valid |-> d.m.valid, size_req |-> d.m.size_req,
                  start |-> d.m.start, packet |-> d.m.packet, pos |-> d.m.pos,
                  cur |-> d.m.cur, pending |-> n, buf |-> d.m.buf]
        BY <1>1, <3>1, RamUpdates
      <3>3. x = [d.m EXCEPT !.pending = n]
        BY DEF n
      <3> HIDE DEF x
      <3> QED BY <3>2, <3>3 DEF n
    <2> HIDE DEF o, x
    <2>3. e = [s |-> [d.s EXCEPT !.write_offset = w], m |-> FLASH_BUFFER_SWAP(x),
               fs |-> Queued(d.fs, o)]
      BY <1>2 DEF StoreBuffer, o, x
    <2> HIDE DEF w, e
    <2>4. /\ e.s \in Record /\ e.s.command = d.s.command /\ e.s.progress = d.s.progress
          /\ e.s.current = d.s.current /\ e.s.bank0 = d.s.bank0 /\ e.s.bank1 = d.s.bank1
      <3> DEFINE r == [d.s EXCEPT !.write_offset = w]
      <3>1. /\ r \in Record
            /\ r = [layout |-> d.s.layout, current |-> d.s.current, bank0 |-> d.s.bank0,
                    bank1 |-> d.s.bank1, command |-> d.s.command,
                    progress |-> d.s.progress, write_offset |-> w]
        BY <1>1, RecordUpdates
      <3>2. e.s = r
        BY <2>3
      <3> HIDE DEF r
      <3> QED BY <3>1, <3>2
    <2>5. /\ e.m \in Ram /\ e.m.pos = 0 /\ e.m.valid = d.m.valid
          /\ e.m.size_req = d.m.size_req /\ e.m.start = d.m.start
          /\ e.m.packet = d.m.packet /\ e.m.pending = d.m.pending + 1
      BY <2>2, <2>3, SwapType
    <2>6. /\ e.fs \in DeviceFs /\ e.fs.queue = Append(d.fs.queue, o)
      BY <1>1, <2>1, <2>3, QueuedType
    <2>7. e.m.pending = Cardinality(DataOps(e.fs.queue))
      BY <1>1, <2>1, <2>5, <2>6, AppendData
    <2>8. StoresWhole(e.fs.queue)
      BY <1>1, <2>1, <2>6, AppendStores DEF DeviceOK
    <2>9. e \in DeviceType
      BY <2>3, <2>4, <2>5, <2>6 DEF DeviceType
    <2>10. CommandOK(e.s.command) /\ NotStarted(e)
      BY <2>4, <2>5 DEF DeviceOK, NotStarted
    <2>11. Started(e)
      BY <2>4, <2>5 DEF DeviceOK, Started, Active, Updating, CurrentBank, PlaceOf
    <2>12. DeviceOK(e)
      BY <2>7, <2>8, <2>9, <2>10, <2>11 DEF DeviceOK
    <2> QED BY <2>12, <2>4, <2>5 DEF e
  <1>3. CASE ~Accepts(d.fs)
    <2>1. /\ p \in Progress /\ p.last = d.s.progress.last /\ p.object = d.s.progress.object
          /\ p.offset = d.s.progress.last
      BY <1>1 DEF Progress
    <2>2. e = [s |-> [d.s EXCEPT !.progress = p], m |-> FLASH_BUFFER_SWAP(d.m), fs |-> d.fs]
      BY <1>3 DEF StoreBuffer
    <2> HIDE DEF p, e
    <2>3. /\ e.s \in Record /\ e.s.command = d.s.command /\ e.s.progress = p
          /\ e.s.current = d.s.current /\ e.s.bank0 = d.s.bank0 /\ e.s.bank1 = d.s.bank1
      <3> DEFINE r == [d.s EXCEPT !.progress = p]
      <3>1. /\ r \in Record
            /\ r = [layout |-> d.s.layout, current |-> d.s.current, bank0 |-> d.s.bank0,
                    bank1 |-> d.s.bank1, command |-> d.s.command,
                    progress |-> p, write_offset |-> d.s.write_offset]
        BY <1>1, <2>1, RecordUpdates
      <3>2. e.s = r
        BY <2>2
      <3> HIDE DEF r
      <3> QED BY <3>1, <3>2
    <2>4. /\ e.m \in Ram /\ e.m.pos = 0 /\ e.m.valid = d.m.valid
          /\ e.m.size_req = d.m.size_req /\ e.m.start = d.m.start
          /\ e.m.packet = d.m.packet /\ e.m.pending = d.m.pending
      BY <1>1, <2>2, SwapType
    <2>5. e \in DeviceType /\ e.fs = d.fs
      BY <1>1, <2>2, <2>3, <2>4 DEF DeviceType
    <2>6. CommandOK(e.s.command) /\ NotStarted(e)
      BY <2>3, <2>4 DEF DeviceOK, NotStarted
    <2>7. Started(e)
      <3>1. d.s.progress.last \in Nat /\ d.s.progress.object \in Nat
        BY <1>1 DEF Progress
      <3> QED BY <2>1, <2>3, <2>4, <3>1
              DEF DeviceOK, Started, Active, Updating, CurrentBank, PlaceOf
    <2>8. DeviceOK(e)
      BY <1>1, <2>4, <2>5, <2>6, <2>7 DEF DeviceOK
    <2> QED BY <2>8, <2>3, <2>4 DEF e
  <1> QED BY <1>2, <1>3

Data == Images \X Nat

LEMMA FillOK ==
    ASSUME NEW d, DeviceOK(d), NEW data \in Seq(Data), d.m.pos + Len(data) <= Chunk
    PROVE  LET e == Fill(d, data)
           IN  /\ DeviceOK(e) /\ e.s = d.s /\ e.m.valid = d.m.valid
               /\ e.m.pos = d.m.pos + Len(data)
  <1> DEFINE g == [k \in 0 .. Chunk - 1 |->
                      IF k \in d.m.pos .. d.m.pos + Len(data) - 1
                      THEN data[k - d.m.pos + 1] ELSE d.m.buf[d.m.cur][k]]
             b == [d.m.buf EXCEPT ![d.m.cur] = g]
             n == d.m.pos + Len(data)
             y == [d.m EXCEPT !.buf = b]
             x == [y EXCEPT !.pos = n]
             e == Fill(d, data)
  <1>1. d = [s |-> d.s, m |-> d.m, fs |-> d.fs] /\ d.m \in Ram /\ d.m.pos \in 0 .. Chunk
        /\ d.m.cur \in 0 .. Buffers - 1
    BY Parts
  <1>2. d.m.buf \in [0 .. Buffers - 1 -> [0 .. Chunk - 1 -> Unit]]
    BY <1>1 DEF Ram
  <1>3. g \in [0 .. Chunk - 1 -> Unit]
    <2>1. ASSUME NEW k \in 0 .. Chunk - 1
          PROVE  IF k \in d.m.pos .. d.m.pos + Len(data) - 1
                 THEN data[k - d.m.pos + 1] \in Unit ELSE d.m.buf[d.m.cur][k] \in Unit
      <3>1. CASE k \in d.m.pos .. d.m.pos + Len(data) - 1
        <4>1. k - d.m.pos + 1 \in 1 .. Len(data)
          BY <1>1, <3>1
        <4>2. data[k - d.m.pos + 1] \in Data
          BY <4>1
        <4> QED BY <4>2, <3>1 DEF Data, Unit
      <3>2. CASE k \notin d.m.pos .. d.m.pos + Len(data) - 1
        BY <1>1, <1>2, <3>2
      <3> QED BY <3>1, <3>2
    <2> QED BY <2>1
  <1>4. n \in 0 .. Chunk
    <2>1. d.m.pos \in Nat /\ Len(data) \in Nat /\ Chunk \in Nat
      BY <1>1, Sizes
    <2> QED BY <2>1
  <1>5. b \in [0 .. Buffers - 1 -> [0 .. Chunk - 1 -> Unit]]
    <2> HIDE DEF g
    <2> QED BY <1>2, <1>3
  <1>6. e = [s |-> d.s, m |-> x, fs |-> d.fs]
    <2>1. e = [d EXCEPT !.m = x]
      BY <1>1 DEF Fill
    <2> HIDE DEF x, e
    <2> QED BY <2>1, <1>1
  <1> HIDE DEF b, n, e
  <1>7. y \in Ram /\ y = [valid |-> d.m.valid, size_req |-> d.m.size_req,
              start |-> d.m.start, packet |-> d.m.packet, pos |-> d.m.pos,
              cur |-> d.m.cur, pending |-> d.m.pending, buf |-> b]
    BY <1>1, <1>5, RamUpdates
  <1> HIDE DEF y
  <1>8. x \in Ram /\ x = [valid |-> y.valid, size_req |-> y.size_req,
              start |-> y.start, packet |-> y.packet, pos |-> n, cur |-> y.cur,
              pending |-> y.pending, buf |-> y.buf]
    BY <1>4, <1>7, RamUpdates
  <1> HIDE DEF x
  <1>9. /\ x.pos = n /\ x.valid = d.m.valid /\ x.size_req = d.m.size_req
        /\ x.start = d.m.start /\ x.packet = d.m.packet /\ x.pending = d.m.pending
    BY <1>7, <1>8
  <1>10. DeviceOK([s |-> d.s, m |-> x, fs |-> d.fs])
    BY <1>8, <1>9, SameSettings
  <1> QED BY <1>6, <1>9, <1>10 DEF n, e

\* A packet that is accepted continues the object.
LEMMA ReceivedOK ==
    ASSUME NEW d, DeviceOK(d), NEW data \in Seq(Data), Len(data) > 0,
           WriteAllowed(d, data)
    PROVE  LET e == Received(d, data)
           IN  /\ DeviceOK(e) /\ e.m = d.m /\ e.fs = d.fs /\ e.s.command = d.s.command
  <1> DEFINE c == Crc(d.s.progress, data)
             o == d.s.progress.offset + Len(data)
             p == [object |-> d.s.progress.object, offset |-> o, last |-> d.s.progress.last,
                   crc |-> c, crc_last |-> d.s.progress.crc_last]
             r == [d.s EXCEPT !.progress = p]
             e == Received(d, data)
  <1>1. /\ d = [s |-> d.s, m |-> d.m, fs |-> d.fs] /\ d.s \in Record
        /\ d.m \in Ram /\ d.fs \in DeviceFs /\ d.s.progress \in Progress
    BY Parts
  <1>2. /\ d.s.progress.object \in Nat /\ d.s.progress.offset \in Nat
        /\ d.s.progress.last \in Nat /\ Len(data) \in Nat
    BY <1>1 DEF Progress
  <1>3. c \in Crcs
    <2>1. data[1] \in Data
      OBVIOUS
    <2>2. data[1][1] \in Images
      BY <2>1 DEF Data
    <2> QED BY <2>2 DEF Crc, Crcs
  <1> HIDE DEF c
  <1>4. p \in Progress
    BY <1>1, <1>2, <1>3 DEF Progress
  <1>5. e = [s |-> r, m |-> d.m, fs |-> d.fs]
    <2>1. p = [d.s.progress EXCEPT !.crc = c, !.offset = o]
      <3> DEFINE q == d.s.progress
                 z == [q EXCEPT !.crc = c, !.offset = o]
      <3>0. q \in Progress /\ o \in Nat
        BY <1>1, <1>2
      <3> HIDE DEF q, o
      <3>1. /\ z \in Progress /\ z.object = q.object /\ z.offset = o /\ z.last = q.last
            /\ z.crc = c /\ z.crc_last = q.crc_last
        BY <3>0, <1>3 DEF Progress
      <3> HIDE DEF z
      <3>2. z = [object |-> z.object, offset |-> z.offset, last |-> z.last,
                 crc |-> z.crc, crc_last |-> z.crc_last]
        BY <3>1 DEF Progress
      <3>3. z = p
        BY <3>1, <3>2 DEF q, o
      <3> QED BY <3>3 DEF z, q
    <2>2. e = [d EXCEPT !.s = [d.s EXCEPT !.progress =
                                   [d.s.progress EXCEPT !.crc = c, !.offset = o]]]
      BY <1>1 DEF Received, c
    <2> HIDE DEF p, e, o
    <2>3. e = [d EXCEPT !.s = r]
      BY <2>1, <2>2
    <2> HIDE DEF r
    <2> QED BY <2>3, <1>1
  <1>6. r \in Record /\ r.progress = p /\ r.command = d.s.command /\ r.current = d.s.current
        /\ r.bank0 = d.s.bank0 /\ r.bank1 = d.s.bank1
    <2> HIDE DEF p
    <2>1. r \in Record /\ r = [layout |-> d.s.layout, current |-> d.s.current,
              bank0 |-> d.s.bank0, bank1 |-> d.s.bank1, command |-> d.s.command,
              progress |-> p, write_offset |-> d.s.write_offset]
      BY <1>1, <1>4, RecordUpdates
    <2> HIDE DEF r
    <2> QED BY <2>1
  <1>7. /\ p.object = d.s.progress.object /\ p.last = d.s.progress.last
        /\ p.offset = d.s.progress.offset + Len(data)
    OBVIOUS
  <1> HIDE DEF p, r, e
  <1>8. e \in DeviceType /\ e.s = r /\ e.m = d.m /\ e.fs = d.fs
    BY <1>1, <1>5, <1>6 DEF DeviceType
  <1>9. CommandOK(e.s.command) /\ NotStarted(e)
    BY <1>6, <1>8 DEF DeviceOK, NotStarted, WriteAllowed
  <1>10. Started(e)
    <2>1. Active(e) => Active(d)
      BY <1>6, <1>8 DEF Active
    <2>2. ASSUME Active(e) PROVE Updating(e.s) /\ PlaceOf(e.s) = PlaceOf(d.s)
      BY <2>1, <2>2, <1>6, <1>8 DEF DeviceOK, Started, Updating, CurrentBank, PlaceOf
    <2>3. Len(data) + d.s.progress.offset - d.s.progress.last <= d.s.progress.object
      BY DEF WriteAllowed
    <2>4. ASSUME Active(e)
          PROVE  /\ d.m.packet = d.s.command.image /\ d.m.size_req = Size[d.m.packet]
                 /\ d.m.start = PlaceOf(d.s)
                 /\ d.s.progress.last <= d.s.progress.offset
                 /\ d.s.progress.last + d.s.progress.object <= d.m.size_req
      BY <2>1, <2>4 DEF DeviceOK, Started
    <2>5. ASSUME Active(e)
          PROVE  /\ p.last <= p.offset /\ p.offset <= p.last + p.object
                 /\ p.last + p.object <= d.m.size_req
      <3>1. PICK n \in Nat : n = Len(data)
        BY <1>2
      <3>2. p.offset = d.s.progress.offset + n /\ p.last = d.s.progress.last
            /\ p.object = d.s.progress.object
        BY <3>1, <1>7
      <3>3. n + d.s.progress.offset - d.s.progress.last <= d.s.progress.object
        BY <3>1, <2>3
      <3>4. p.last <= p.offset /\ p.offset <= p.last + p.object
        <4>1. PICK x \in Nat, y \in Nat, z \in Nat :
                 x = d.s.progress.offset /\ y = d.s.progress.last /\ z = d.s.progress.object
          BY <1>2
        <4>2. y <= x
          BY <2>4, <2>5, <4>1
        <4>3. n + x - y <= z
          BY <3>3, <4>1
        <4>4. y <= x + n /\ x + n <= y + z
          BY <4>2, <4>3
        <4> QED BY <3>2, <4>1, <4>4
      <3> QED BY <2>4, <2>5, <3>2, <3>4
    <2> QED BY <2>2, <2>4, <2>5, <1>6, <1>8 DEF Started
  <1>11. DeviceOK(e)
    BY <1>8, <1>9, <1>10 DEF DeviceOK
  <1> QED BY <1>11, <1>6, <1>8 DEF e

LEMMA BufferedOK ==
    ASSUME NEW d, DeviceOK(d), d.m.valid, NEW data \in Seq(Data), Len(data) <= Chunk
    PROVE  LET e == Buffered(d, data)
           IN  DeviceOK(e) /\ e.m.valid /\ e.s.command = d.s.command
  <1> DEFINE room == Chunk - d.m.pos
             first == SubSeq(data, 1, room)
             rest == SubSeq(data, room + 1, Len(data))
  <1>1. d.m.pos \in 0 .. Chunk /\ room \in 0 .. Chunk /\ Len(data) \in Nat
    BY Parts, Sizes
  <1>2. CASE Len(data) < room
    <2>1. d.m.pos + Len(data) <= Chunk
      <3>1. Chunk \in Nat
        BY Sizes
      <3> QED BY <1>1, <1>2, <3>1
    <2>2. Buffered(d, data) = Fill(d, data)
      BY <1>2 DEF Buffered
    <2> QED BY <2>1, <2>2, FillOK
  <1>3. CASE ~(Len(data) < room)
    <2> DEFINE a == Fill(d, first)
               b == StoreBuffer(a)
    <2>1. Buffered(d, data) = Fill(b, rest)
      BY <1>3 DEF Buffered
    <2>2. first \in Seq(Data) /\ Len(first) = room
      BY <1>1, <1>3
    <2>3. rest \in Seq(Data) /\ Len(rest) <= Chunk
      <3> HIDE DEF room
      <3>1. rest \in Seq(Data) /\ Len(rest) <= Len(data)
        BY <1>1, <1>3
      <3> QED BY <3>1, <1>1, Sizes
    <2> HIDE DEF first, rest
    <2>4. DeviceOK(a) /\ a.s = d.s /\ a.m.valid /\ a.m.pos = Chunk
      <3>1. Chunk \in Nat
        BY Sizes
      <3>2. d.m.pos + Len(first) = Chunk
        BY <1>1, <2>2, <3>1
      <3>3. d.m.pos + Len(first) <= Chunk
        BY <3>1, <3>2
      <3> HIDE DEF room
      <3> QED BY <2>2, <3>2, <3>3, FillOK
    <2> HIDE DEF a
    <2>5. DeviceOK(b) /\ b.m.pos = 0 /\ b.m.valid /\ b.s.command = d.s.command
      BY <2>4, StoreBufferOK, Sizes
    <2> HIDE DEF b
    <2>6. b.m.pos + Len(rest) <= Chunk
      BY <2>3, <2>5
    <2> QED BY <2>1, <2>3, <2>5, <2>6, FillOK
  <1> QED BY <1>2, <1>3

LEMMA DataWriteOK ==
    ASSUME NEW d, DeviceOK(d), d.m.valid, NEW data \in Seq(Data), Len(data) > 0
    PROVE  LET e == DataWrite(d, data)
           IN  DeviceOK(e) /\ e.m.valid /\ e.s.command = d.s.command
  <1>1. CASE WriteAllowed(d, data)
    <2> DEFINE a == Received(d, data)
               b == Buffered(a, data)
    <2>1. DeviceOK(a) /\ a.m.valid /\ a.s.command = d.s.command
      BY <1>1, ReceivedOK
    <2>2. Len(data) <= Chunk
      BY <1>1 DEF WriteAllowed
    <2> HIDE DEF a
    <2>3. DeviceOK(b) /\ b.m.valid /\ b.s.command = d.s.command
      BY <2>1, <2>2, BufferedOK
    <2> HIDE DEF b
    <2>4. DataWrite(d, data) = IF ObjectEnds(b) THEN StoreBuffer(b) ELSE b
      BY <1>1 DEF DataWrite, a, b
    <2>5. ObjectEnds(b) => b.m.pos # 0
      BY DEF ObjectEnds
    <2> QED BY <2>3, <2>4, <2>5, StoreBufferOK
  <1>2. CASE ~WriteAllowed(d, data)
    BY <1>2 DEF DataWrite
  <1> QED BY <1>1, <1>2

LEMMA DataCreateOK ==
    ASSUME NEW d, DeviceOK(d), NEW size \in Nat
    PROVE  LET e == DataCreate(d, size)
           IN  DeviceOK(e) /\ e.m.valid = d.m.valid /\ e.s.command = d.s.command
  <1> DEFINE q == d.s.progress
             p == [q EXCEPT !.crc = q.crc_last, !.object = size, !.offset = q.last]
             r == [d.s EXCEPT !.progress = p]
             t == [r EXCEPT !.write_offset = q.last]
             x == FLASH_BUFFER_SWAP(d.m)
             new == [s |-> t, m |-> x, fs |-> d.fs]
             n == x.pending + 1
             y == [x EXCEPT !.pending = n]
             o == [op |-> "erase", at |-> d.m.start + q.last, len |-> AlignToPage(size)]
             last == [s |-> t, m |-> y, fs |-> Queued(d.fs, o)]
  <1>1. SUFFICES ASSUME CreateAllowed(d, size)
                 PROVE  LET e == DataCreate(d, size)
                        IN  DeviceOK(e) /\ e.m.valid = d.m.valid
                            /\ e.s.command = d.s.command
    BY DEF DataCreate
  <1>2. /\ d.s \in Record /\ d.m \in Ram /\ d.fs \in DeviceFs /\ d.fs.queue \in Seq(Op)
        /\ q \in Progress /\ q.last \in Nat /\ q.crc_last \in Crcs
        /\ d.m.start + q.last \in Nat
        /\ d.m.pending = Cardinality(DataOps(d.fs.queue)) /\ d.m.pending \in Nat
    BY Parts DEF Progress
  <1>3. /\ DataCreate(d, size) = IF Accepts(d.fs) THEN last ELSE new
        /\ d.m.valid /\ size # 0 /\ q.last + size <= d.m.size_req
    <2>1. d.m.valid /\ size # 0 /\ q.last + size <= d.m.size_req
      BY <1>1 DEF CreateAllowed
    <2>2. t = [d.s EXCEPT !.progress = p, !.write_offset = q.last]
      OBVIOUS
    <2>3. DataCreate(d, size) =
            IF Accepts(d.fs) THEN [new EXCEPT !.m.pending = @ + 1, !.fs = Queued(@, o)]
            ELSE new
      BY <1>1, <2>2 DEF DataCreate
    <2>4. [new EXCEPT !.m.pending = @ + 1, !.fs = Queued(@, o)] = last
      <3> HIDE DEF x, t, o
      <3>1. new.m = x /\ new.fs = d.fs
        OBVIOUS
      <3>2. [new EXCEPT !.m.pending = @ + 1, !.fs = Queued(@, o)]
              = [new EXCEPT !.m = y, !.fs = Queued(d.fs, o)]
        <4> HIDE DEF new
        <4>1. [new EXCEPT !.m.pending = @ + 1, !.fs = Queued(@, o)]
                = [new EXCEPT !.m = [new.m EXCEPT !.pending = new.m.pending + 1],
                              !.fs = Queued(new.fs, o)]
          OBVIOUS
        <4> QED BY <3>1, <4>1
      <3>3. [new EXCEPT !.m = y, !.fs = Queued(d.fs, o)] = last
        <4> DEFINE a == [s |-> t, m |-> y, fs |-> d.fs]
                   f == Queued(d.fs, o)
        <4> HIDE DEF y, f
        <4>1. [new EXCEPT !.m = y] = a
          OBVIOUS
        <4>2. [a EXCEPT !.fs = f] = [s |-> t, m |-> y, fs |-> f]
          OBVIOUS
        <4>3. [new EXCEPT !.m = y, !.fs = f] = [[new EXCEPT !.m = y] EXCEPT !.fs = f]
          <5> HIDE DEF new
          <5> QED OBVIOUS
        <4> HIDE DEF new, a
        <4> QED BY <4>1, <4>2, <4>3 DEF f
      <3> QED BY <3>2, <3>3
    <2> HIDE DEF new, last
    <2> QED BY <2>1, <2>3, <2>4
  <1> HIDE DEF q
  <1>4. /\ p \in Progress /\ p.object = size /\ p.offset = q.last /\ p.last = q.last
    BY <1>2 DEF Progress
  <1> HIDE DEF p
  <1>5. r \in Record /\ r = [layout |-> d.s.layout, current |-> d.s.current,
            bank0 |-> d.s.bank0, bank1 |-> d.s.bank1, command |-> d.s.command,
            progress |-> p, write_offset |-> d.s.write_offset]
    BY <1>2, <1>4, RecordUpdates
  <1> HIDE DEF r
  <1>6. t \in Record /\ t = [layout |-> r.layout, current |-> r.current,
            bank0 |-> r.bank0, bank1 |-> r.bank1, command |-> r.command,
            progress |-> r.progress, write_offset |-> q.last]
    BY <1>2, <1>5, RecordUpdates
  <1> HIDE DEF t
  <1>7. /\ t.progress = p /\ t.command = d.s.command /\ t.current = d.s.current
        /\ t.bank0 = d.s.bank0 /\ t.bank1 = d.s.bank1
    BY <1>5, <1>6
  <1>8. /\ x \in Ram /\ x.valid = d.m.valid /\ x.size_req = d.m.size_req
        /\ x.start = d.m.start /\ x.packet = d.m.packet /\ x.pending = d.m.pending
    BY <1>2, SwapType
  <1> HIDE DEF x
  <1>9. ASSUME NEW e \in DeviceType, e.s = t, e.m.valid, e.m.size_req = d.m.size_req,
               e.m.start = d.m.start, e.m.packet = d.m.packet
        PROVE  CommandOK(e.s.command) /\ NotStarted(e) /\ Started(e)
    <2>1. CommandOK(e.s.command) /\ NotStarted(e)
      BY <1>7, <1>9 DEF DeviceOK, NotStarted
    <2>2. Active(e) => Active(d)
      BY <1>3, <1>7, <1>9 DEF Active
    <2>3. ASSUME Active(e)
          PROVE  /\ Updating(e.s) /\ PlaceOf(e.s) = PlaceOf(d.s)
                 /\ d.m.packet = d.s.command.image /\ d.m.size_req = Size[d.m.packet]
                 /\ d.m.start = PlaceOf(d.s)
      BY <2>2, <2>3, <1>7, <1>9 DEF DeviceOK, Started, Updating, CurrentBank, PlaceOf
    <2>4. /\ p.last <= p.offset /\ p.offset <= p.last + p.object
          /\ p.last + p.object <= d.m.size_req
      BY <1>2, <1>3, <1>4
    <2> QED BY <2>1, <2>3, <2>4, <1>7, <1>9 DEF Started
  <1>10. CASE ~Accepts(d.fs)
    <2>1. new \in DeviceType /\ new.s = t /\ new.m = x /\ new.fs = d.fs
      BY <1>2, <1>6, <1>8 DEF DeviceType
    <2> HIDE DEF new
    <2>2. DeviceOK(new)
      BY <2>1, <1>2, <1>3, <1>8, <1>9 DEF DeviceOK
    <2> QED BY <2>1, <2>2, <1>3, <1>7, <1>8, <1>10
  <1>11. CASE Accepts(d.fs)
    <2>1. n \in Int /\ n = d.m.pending + 1
      BY <1>2, <1>8
    <2> HIDE DEF n
    <2>2. y \in Ram /\ y = [valid |-> x.valid, size_req |-> x.size_req,
              start |-> x.start, packet |-> x.packet, pos |-> x.pos, cur |-> x.cur,
              pending |-> n, buf |-> x.buf]
      BY <2>1, <1>8, RamUpdates
    <2> HIDE DEF y
    <2>3. /\ y.valid = d.m.valid /\ y.size_req = d.m.size_req /\ y.start = d.m.start
          /\ y.packet = d.m.packet /\ y.pending = d.m.pending + 1
      BY <2>1, <2>2, <1>8
    <2>4. AlignToPage(size) \in Nat \ {0}
      BY <1>3, AlignUp
    <2>5. o \in Op /\ IsData(o) /\ o.op # "settingsStore"
      BY <2>4, <1>2 DEF Op, IsData
    <2> HIDE DEF o
    <2>6. Queued(d.fs, o) \in DeviceFs /\ Queued(d.fs, o).queue = Append(d.fs.queue, o)
      BY <2>5, <1>2, QueuedType
    <2>7. last \in DeviceType /\ last.s = t /\ last.m = y /\ last.fs = Queued(d.fs, o)
      BY <2>2, <2>6, <1>6 DEF DeviceType
    <2> HIDE DEF last
    <2>8. last.m.pending = Cardinality(DataOps(last.fs.queue))
      <3>1. Cardinality(DataOps(Append(d.fs.queue, o))) = Cardinality(DataOps(d.fs.queue)) + 1
        BY <2>5, <1>2, AppendData
      <3> QED BY <3>1, <2>3, <2>6, <2>7, <1>2
    <2>9. StoresWhole(last.fs.queue)
      BY <2>5, <2>6, <2>7, <1>2, AppendStores DEF DeviceOK
    <2>10. DeviceOK(last)
      BY <2>3, <2>7, <2>8, <2>9, <1>3, <1>9 DEF DeviceOK
    <2> QED BY <2>3, <2>7, <2>10, <1>3, <1>7, <1>11
  <1> QED BY <1>10, <1>11

\* Writing the settings changes the queue alone.
LEMMA SaveOK ==
    ASSUME NEW d, DeviceOK(d), NEW reset \in BOOLEAN, Storable(d.s),
           CurrentBank(d.s).code = "VALID_APP" =>
               CurrentWhole(d.s) /\ DataOps(d.fs.queue) = {}
    PROVE  LET e == [d EXCEPT !.fs = nrf_dfu_settings_write(d, reset)]
           IN  /\ DeviceOK(e) /\ e.s = d.s /\ e.m = d.m
               /\ Cardinality(DataOps(e.fs.queue)) = Cardinality(DataOps(d.fs.queue))
  <1> DEFINE f == nrf_dfu_settings_write(d, reset)
             e == [d EXCEPT !.fs = f]
  <1>1. d \in DeviceType /\ StoresWhole(d.fs.queue)
    BY DEF DeviceOK
  <1>2. /\ f \in DeviceFs /\ StoresWhole(f.queue)
        /\ Cardinality(DataOps(f.queue)) = Cardinality(DataOps(d.fs.queue))
    BY <1>1, SettingsWrite
  <1> HIDE DEF f
  <1>3. e \in DeviceType /\ e.s = d.s /\ e.m = d.m /\ e.fs = f
    BY <1>1, <1>2 DEF DeviceType
  <1> HIDE DEF e
  <1>4. NotStarted(e) /\ Started(e)
    BY <1>3 DEF DeviceOK, NotStarted, Started, Active
  <1>5. DeviceOK(e)
    BY <1>2, <1>3, <1>4 DEF DeviceOK
  <1> QED BY <1>2, <1>3, <1>5 DEF e, f

\* What the device is when an object is settled and not saved yet.
Settled(d, new) ==
    /\ ObjectDone(d) = [new EXCEPT !.fs = nrf_dfu_settings_write(new, FALSE)]
    /\ DeviceOK(new) /\ Storable(new.s) /\ CurrentBank(new.s).code # "VALID_APP"
    /\ new.m = d.m /\ new.fs = d.fs
    /\ new.s.command = d.s.command /\ new.s.current = d.s.current
    /\ new.s.bank0 = d.s.bank0 /\ new.s.bank1 = d.s.bank1
    /\ new.s.write_offset = d.s.write_offset
    /\ new.s.progress.object = 0
    /\ new.s.progress.offset = d.s.progress.offset
    /\ new.s.progress.last = d.s.progress.offset
    /\ new.s.progress.crc = d.s.progress.crc
    /\ new.s.progress.crc_last = d.s.progress.crc

\* An object that is accepted is settled before it is saved.
LEMMA ObjectAccepted ==
    ASSUME NEW d, DeviceOK(d), Active(d), ExecuteAllowed(d)
    PROVE  \E new : Settled(d, new)
  <1> DEFINE q == d.s.progress
             p == [q EXCEPT !.object = 0, !.last = q.offset, !.crc_last = q.crc]
             r == [d.s EXCEPT !.progress = p]
             new == [s |-> r, m |-> d.m, fs |-> d.fs]
  <1>1. /\ d.s \in Record /\ d.m \in Ram /\ d.fs \in DeviceFs
        /\ d = [s |-> d.s, m |-> d.m, fs |-> d.fs] /\ q \in Progress
        /\ q.object \in Nat /\ q.offset \in Nat /\ q.last \in Nat /\ q.crc \in Crcs
    BY Parts DEF Progress
  <1>2. /\ Updating(d.s) /\ d.m.packet = d.s.command.image
        /\ d.m.size_req = Size[d.m.packet] /\ d.m.start = PlaceOf(d.s)
        /\ q.offset <= q.last + q.object /\ q.last + q.object <= d.m.size_req
    BY DEF DeviceOK, Started
  <1>3. Size[d.m.packet] \in Nat
    BY <1>2, Sizes DEF Updating, Full
  <1>4. ObjectDone(d) = [new EXCEPT !.fs = nrf_dfu_settings_write(new, FALSE)]
    <2>1. [d EXCEPT !.s.progress.object = 0, !.s.progress.last = d.s.progress.offset,
                    !.s.progress.crc_last = d.s.progress.crc] = [d EXCEPT !.s = r]
      BY <1>1, ZenonT(40)
    <2> HIDE DEF r
    <2>2. [d EXCEPT !.s = r] = new
      BY <1>1
    <2> QED BY <2>1, <2>2 DEF ObjectDone
  <1> HIDE DEF q
  <1>5. /\ p \in Progress /\ p.object = 0 /\ p.offset = q.offset /\ p.last = q.offset
        /\ p.crc = q.crc /\ p.crc_last = q.crc
    BY <1>1 DEF Progress
  <1> HIDE DEF p
  <1>6. r \in Record /\ r = [layout |-> d.s.layout, current |-> d.s.current,
            bank0 |-> d.s.bank0, bank1 |-> d.s.bank1, command |-> d.s.command,
            progress |-> p, write_offset |-> d.s.write_offset]
    BY <1>1, <1>5, RecordUpdates
  <1> HIDE DEF r
  <1>7. new \in DeviceType /\ new.s = r /\ new.m = d.m /\ new.fs = d.fs
    BY <1>1, <1>6 DEF DeviceType
  <1> HIDE DEF new
  <1>8. Updating(r) /\ PlaceOf(r) = PlaceOf(d.s)
    BY <1>2, <1>6 DEF Updating, CurrentBank, PlaceOf
  <1>9. p.last <= d.m.size_req
    BY <1>1, <1>2, <1>3, <1>5
  <1>10. Storable(r) /\ CurrentBank(r).code # "VALID_APP"
    BY <1>2, <1>5, <1>6, <1>8, <1>9 DEF Storable, Updating
  <1>11. CommandOK(r.command) /\ NotStarted(new)
    BY <1>6, <1>7 DEF DeviceOK, NotStarted, Active
  <1>12. Started(new)
    <2>1. p.last <= p.offset /\ p.offset <= p.last + p.object
          /\ p.last + p.object <= d.m.size_req
      BY <1>1, <1>5, <1>9
    <2> QED BY <2>1, <1>2, <1>6, <1>7, <1>8 DEF Started
  <1>13. DeviceOK(new)
    BY <1>7, <1>11, <1>12 DEF DeviceOK
  <1>14. /\ p.object = 0 /\ p.offset = d.s.progress.offset /\ p.last = d.s.progress.offset
         /\ p.crc = d.s.progress.crc /\ p.crc_last = d.s.progress.crc
    BY <1>5 DEF q
  <1>15. /\ new.s.command = d.s.command /\ new.s.current = d.s.current
         /\ new.s.bank0 = d.s.bank0 /\ new.s.bank1 = d.s.bank1
         /\ new.s.write_offset = d.s.write_offset /\ new.s.progress = p
    BY <1>6, <1>7
  <1>16. Settled(d, new)
    BY <1>4, <1>7, <1>10, <1>13, <1>14, <1>15 DEF Settled
  <1> QED BY <1>16

LEMMA ObjectDoneOK ==
    ASSUME NEW d, DeviceOK(d), Active(d), ExecuteAllowed(d)
    PROVE  LET e == ObjectDone(d)
           IN  /\ DeviceOK(e) /\ e.m = d.m /\ e.s.command = d.s.command
               /\ e.s.progress.crc = d.s.progress.crc
               /\ e.s.progress.offset = d.s.progress.offset
  <1>0. PICK new : Settled(d, new)
    BY ObjectAccepted
  <1>1. /\ ObjectDone(d) = [new EXCEPT !.fs = nrf_dfu_settings_write(new, FALSE)]
        /\ DeviceOK(new) /\ Storable(new.s) /\ CurrentBank(new.s).code # "VALID_APP"
        /\ new.m = d.m /\ new.s.command = d.s.command
        /\ new.s.progress.offset = d.s.progress.offset
        /\ new.s.progress.crc = d.s.progress.crc
    BY <1>0 DEF Settled
  <1> DEFINE e == [new EXCEPT !.fs = nrf_dfu_settings_write(new, FALSE)]
  <1>2. DeviceOK(e) /\ e.s = new.s /\ e.m = new.m
    BY <1>1, SaveOK
  <1> HIDE DEF e
  <1> QED BY <1>1, <1>2 DEF e

-----------------------------------------------------------------------------
(* The init command.                                                       *)

LEMMA RamValid ==
    ASSUME NEW x \in Ram, NEW v \in BOOLEAN
    PROVE  LET y == [x EXCEPT !.valid = v]
           IN  /\ y \in Ram /\ y.valid = v /\ y.size_req = x.size_req /\ y.start = x.start
               /\ y.packet = x.packet /\ y.pending = x.pending
               /\ y.buf = x.buf /\ y.cur = x.cur
  BY DEF Ram

LEMMA CommandCreateOK ==
    ASSUME NEW d, DeviceOK(d)
    PROVE  LET e == CommandCreate(d)
           IN  /\ DeviceOK(e) /\ ~e.m.valid /\ e.s.command.size = CommandUnits
               /\ e.s.command.offset = 0 /\ e.s.progress = NoProgress
               /\ e.s.current = d.s.current /\ e.s.bank0 = d.s.bank0 /\ e.s.bank1 = d.s.bank1
               /\ e.m.buf = d.m.buf /\ e.m.cur = d.m.cur /\ e.fs = d.fs
  <1> DEFINE c == [d.s.command EXCEPT !.size = CommandUnits, !.offset = 0]
             r == [d.s EXCEPT !.progress = NoProgress]
             t == [r EXCEPT !.write_offset = 0]
             u == [t EXCEPT !.command = c]
             x == [d.m EXCEPT !.valid = FALSE]
             e == [s |-> u, m |-> x, fs |-> d.fs]
  <1>1. /\ d.s \in Record /\ d.m \in Ram /\ d.fs \in DeviceFs
        /\ d = [s |-> d.s, m |-> d.m, fs |-> d.fs] /\ d.s.command \in Command
    BY Parts
  <1>2. CommandCreate(d) = e
    <2>1. u = [d.s EXCEPT !.progress = NoProgress, !.write_offset = 0, !.command = c]
      OBVIOUS
    <2>2. CommandCreate(d) = [d EXCEPT !.m = x, !.s = [d.s EXCEPT !.progress = NoProgress,
                                                  !.write_offset = 0, !.command = c]]
      BY <1>1 DEF CommandCreate
    <2> HIDE DEF u, x
    <2>3. [d EXCEPT !.m = x, !.s = u] = [[d EXCEPT !.m = x] EXCEPT !.s = u]
      OBVIOUS
    <2>4. [d EXCEPT !.m = x] = [s |-> d.s, m |-> x, fs |-> d.fs]
      BY <1>1
    <2>5. [[s |-> d.s, m |-> x, fs |-> d.fs] EXCEPT !.s = u] = e
      OBVIOUS
    <2> HIDE DEF e
    <2> QED BY <2>1, <2>2, <2>3, <2>4, <2>5
  <1>3. c \in Command /\ c.size = CommandUnits /\ c.offset = 0
    BY <1>1, Sizes DEF Command
  <1>4. NoProgress \in Progress /\ 0 \in Nat
    BY DEF NoProgress, Progress, Crcs
  <1> HIDE DEF c
  <1>5. r \in Record
    BY <1>1, <1>4, RecordUpdates
  <1>6. /\ r.progress = NoProgress
        /\ r.current = d.s.current /\ r.bank0 = d.s.bank0 /\ r.bank1 = d.s.bank1
    BY <1>1 DEF Record
  <1> HIDE DEF r
  <1>7. t \in Record
    BY <1>4, <1>5, RecordUpdates
  <1>8. /\ t.progress = NoProgress /\ t.write_offset = 0
        /\ t.current = d.s.current /\ t.bank0 = d.s.bank0 /\ t.bank1 = d.s.bank1
    BY <1>5, <1>6 DEF Record
  <1> HIDE DEF t
  <1>9. u \in Record
    BY <1>3, <1>7, RecordUpdates
  <1>10. /\ u.progress = NoProgress /\ u.write_offset = 0 /\ u.command = c
         /\ u.current = d.s.current /\ u.bank0 = d.s.bank0 /\ u.bank1 = d.s.bank1
    BY <1>7, <1>8 DEF Record
  <1> HIDE DEF u
  <1>11. /\ x \in Ram /\ x.valid = FALSE /\ x.pending = d.m.pending
         /\ x.buf = d.m.buf /\ x.cur = d.m.cur
    BY <1>1, RamValid
  <1> HIDE DEF x
  <1>12. e \in DeviceType /\ e.s = u /\ e.m = x /\ e.fs = d.fs
    BY <1>1, <1>9, <1>11 DEF DeviceType
  <1> HIDE DEF e
  <1>13. CommandOK(e.s.command) /\ NotStarted(e) /\ Started(e)
    BY <1>3, <1>10, <1>11, <1>12, Sizes DEF CommandOK, NotStarted, Started, Active
  <1>14. DeviceOK(e)
    BY <1>11, <1>12, <1>13 DEF DeviceOK
  <1> QED BY <1>2, <1>3, <1>10, <1>11, <1>12, <1>14

LEMMA CommandWriteOK ==
    ASSUME NEW d, DeviceOK(d), NEW i \in Images, ~d.m.valid, d.s.command.size = CommandUnits,
           d.s.command.offset = 0 \/ d.s.command.image = i
    PROVE  LET e == CommandWrite(d, i)
           IN  /\ DeviceOK(e) /\ ~e.m.valid /\ e.s.command.size = CommandUnits
               /\ e.s.command.image = i /\ e.s.progress = d.s.progress
               /\ e.s.current = d.s.current /\ e.s.bank0 = d.s.bank0 /\ e.s.bank1 = d.s.bank1
               /\ e.m = d.m /\ e.fs = d.fs
  <1> DEFINE k == d.s.command
             c == [size |-> k.size, offset |-> k.offset + 1, image |-> i]
             r == [d.s EXCEPT !.command = c]
             e == [s |-> r, m |-> d.m, fs |-> d.fs]
  <1>1. /\ d.s \in Record /\ d.m \in Ram /\ d.fs \in DeviceFs
        /\ d = [s |-> d.s, m |-> d.m, fs |-> d.fs] /\ k \in Command
        /\ k.offset \in Nat /\ k.size = CommandUnits
    BY Parts DEF Command
  <1>2. CASE k.offset + 1 > k.size
    <2>1. k.offset # 0
      BY <1>1, <1>2, Sizes
    <2> QED BY <1>2, <2>1 DEF CommandWrite
  <1>3. CASE ~(k.offset + 1 > k.size)
    <2>1. CommandWrite(d, i) = e
      <3>1. [k EXCEPT !.offset = @ + 1,
                      !.image = IF k.offset = 0 \/ @ = i THEN i ELSE NoImage] = c
        <4> DEFINE n == k.offset + 1
                   z == [k EXCEPT !.offset = n, !.image = i]
        <4>1. k \in Command /\ n \in Nat
          BY <1>1
        <4>2. (IF k.offset = 0 \/ k.image = i THEN i ELSE NoImage) = i
          OBVIOUS
        <4> HIDE DEF k, n
        <4>3. z \in Command /\ z.size = k.size /\ z.offset = n /\ z.image = i
          BY <4>1 DEF Command
        <4> HIDE DEF z
        <4>4. z = [size |-> z.size, offset |-> z.offset, image |-> z.image]
          BY <4>3 DEF Command
        <4>5. z = c
          BY <4>3, <4>4 DEF n
        <4> QED BY <4>2, <4>5 DEF z, n
      <3>2. CommandWrite(d, i) = [d EXCEPT !.s = [d.s EXCEPT !.command =
              [k EXCEPT !.offset = @ + 1,
                        !.image = IF k.offset = 0 \/ @ = i THEN i ELSE NoImage]]]
        BY <1>1, <1>3 DEF CommandWrite
      <3> HIDE DEF c
      <3>3. CommandWrite(d, i) = [d EXCEPT !.s = r]
        BY <3>1, <3>2
      <3> HIDE DEF r
      <3> QED BY <1>1, <3>3
    <2>2. c \in Command /\ c.image = i /\ c.size = CommandUnits /\ c.offset <= c.size
      BY <1>1, <1>3, Sizes DEF Command
    <2> HIDE DEF c
    <2>3. r \in Record /\ r = [layout |-> d.s.layout, current |-> d.s.current,
              bank0 |-> d.s.bank0, bank1 |-> d.s.bank1, command |-> c,
              progress |-> d.s.progress, write_offset |-> d.s.write_offset]
      BY <1>1, <2>2, RecordUpdates
    <2> HIDE DEF r
    <2>4. e \in DeviceType /\ e.s = r /\ e.m = d.m /\ e.fs = d.fs
      BY <1>1, <2>3 DEF DeviceType
    <2> HIDE DEF e
    <2>5. CommandOK(e.s.command) /\ NotStarted(e) /\ Started(e)
      BY <1>1, <2>2, <2>3, <2>4, Sizes DEF CommandOK, NotStarted, Started, Active, DeviceOK
    <2>6. DeviceOK(e)
      BY <2>4, <2>5 DEF DeviceOK
    <2> QED BY <2>1, <2>2, <2>3, <2>4, <2>6
  <1> QED BY <1>2, <1>3

\* The place of an image is that of the bank that is made current.
LEMMA FindCache ==
    ASSUME NEW r \in Record, NEW size \in Nat
    PROVE  LET c == nrf_dfu_find_cache(r, size)
               t == c.settings
           IN  /\ t \in Record /\ t.command = r.command /\ t.progress = r.progress
               /\ t.write_offset = r.write_offset
               /\ c.at = PlaceOf(t) /\ c.at \in Nat
               /\ CurrentBank(t).code = "INVALID" /\ CurrentBank(t).size = size
               /\ t.current = 1 => t.bank0.code = "VALID_APP"
               /\ IF r.bank0.code = "VALID_APP" /\ size <= Region - AlignToPage(r.bank0.size)
                  THEN t.current = 1 /\ t.bank0 = r.bank0
                  ELSE t.current = 0 /\ t.bank1 = r.bank1
  <1> DEFINE b == [NoBank EXCEPT !.size = size]
             lay == IF r.bank0.code = "VALID_APP" THEN "SINGLE" ELSE "DUAL"
             t1 == [r EXCEPT !.layout = "DUAL", !.current = 1, !.bank1 = b]
             t0 == [r EXCEPT !.layout = lay, !.current = 0, !.bank0 = b]
             c == nrf_dfu_find_cache(r, size)
  <1>1. b \in AnyBank /\ b.code = "INVALID" /\ b.size = size
    BY DEF NoBank, AnyBank, Crcs
  <1>2. r.bank0 \in AnyBank /\ r.bank0.size \in Nat
    BY DEF Record, AnyBank
  <1>3. AlignToPage(r.bank0.size) \in Nat
    BY <1>2, AlignUp
  <1>4. CASE r.bank0.code = "VALID_APP" /\ size <= Region - AlignToPage(r.bank0.size)
    <2>1. c = [at |-> AlignToPage(r.bank0.size), settings |-> t1]
      BY <1>4 DEF nrf_dfu_find_cache
    <2> HIDE DEF b
    <2>2. /\ t1 \in Record /\ t1.current = 1 /\ t1.bank1 = b /\ t1.bank0 = r.bank0
          /\ t1.command = r.command /\ t1.progress = r.progress
          /\ t1.write_offset = r.write_offset
      BY <1>1 DEF Record
    <2> HIDE DEF t1, c
    <2> QED BY <1>1, <1>3, <1>4, <2>1, <2>2 DEF PlaceOf, CurrentBank, c
  <1>5. CASE ~(r.bank0.code = "VALID_APP" /\ size <= Region - AlignToPage(r.bank0.size))
    <2>1. c = [at |-> 0, settings |-> t0]
      BY <1>5 DEF nrf_dfu_find_cache
    <2>2. lay \in {"DUAL", "SINGLE"}
      OBVIOUS
    <2> HIDE DEF b, lay
    <2>3. /\ t0 \in Record /\ t0.current = 0 /\ t0.bank0 = b
          /\ t0.command = r.command /\ t0.progress = r.progress
          /\ t0.write_offset = r.write_offset /\ t0.bank1 = r.bank1
      BY <1>1, <2>2 DEF Record
    <2> HIDE DEF t0, c
    <2> QED BY <1>1, <1>5, <2>1, <2>3 DEF PlaceOf, CurrentBank, c
  <1> QED BY <1>4, <1>5

\* A command of an image that does not fit leaves the device without an update.
LEMMA CommandRefused ==
    ASSUME NEW d, DeviceOK(d), Full(d.s.command), ~d.m.valid, ~CommandValid(d.s.command)
    PROVE  LET e == CommandExecute(d)
           IN  /\ DeviceOK(e) /\ ~e.m.valid /\ e.s = d.s /\ e.fs = d.fs
               /\ e.m.buf = d.m.buf /\ e.m.cur = d.m.cur
  <1> DEFINE i == d.s.command.image
             size == Size[i]
             x == [d.m EXCEPT !.packet = i, !.size_req = size]
             e == [d EXCEPT !.m = x]
  <1>1. /\ d.s \in Record /\ d.m \in Ram /\ d.fs \in DeviceFs
        /\ d = [s |-> d.s, m |-> d.m, fs |-> d.fs]
    BY Parts
  <1>2. /\ i \in Images /\ size \in Nat \ {0} /\ Decoded(d.s.command) = i
        /\ CommandComplete(d)
    BY Sizes DEF Full, Decoded, CommandComplete
  <1>3. CommandExecute(d) = e
    <2>1. x = [d.m EXCEPT !.packet = i, !.size_req = IF i \in Images THEN Size[i] ELSE @]
      BY <1>2
    <2> QED BY <1>2, <2>1 DEF CommandExecute
  <1>4. /\ x \in Ram /\ x.valid = d.m.valid /\ x.pending = d.m.pending
        /\ x.buf = d.m.buf /\ x.cur = d.m.cur
    <2> HIDE DEF i, size
    <2> QED BY <1>1, <1>2 DEF Ram
  <1> HIDE DEF x
  <1>5. e \in DeviceType /\ e.s = d.s /\ e.m = x /\ e.fs = d.fs
    BY <1>1, <1>4 DEF DeviceType
  <1> HIDE DEF e
  <1>6. NotStarted(e) /\ Started(e)
    BY <1>4, <1>5 DEF DeviceOK, NotStarted, Started, Active
  <1>7. DeviceOK(e)
    BY <1>4, <1>5, <1>6 DEF DeviceOK
  <1> QED BY <1>3, <1>4, <1>5, <1>7

\* A command that is accepted is what the image is received by.
LEMMA CommandAccepted ==
    ASSUME NEW d, DeviceOK(d), Full(d.s.command), ~d.m.valid, CommandValid(d.s.command)
    PROVE  LET r == d.s
               size == Size[d.s.command.image] IN
           /\ size \in Nat \ {0} /\ size <= Region
           /\ \E new :
                 /\ CommandExecute(d) = [new EXCEPT !.fs = nrf_dfu_settings_write(new, FALSE)]
                 /\ DeviceOK(new) /\ Storable(new.s) /\ CurrentBank(new.s).code = "INVALID"
                 /\ CurrentBank(new.s).size = size /\ new.m.size_req = size
                 /\ new.m.valid /\ new.s.command = d.s.command /\ new.fs = d.fs
                 /\ new.m.buf = d.m.buf
                 /\ new.s.progress = NoProgress /\ new.s.write_offset = 0
                 /\ new.m.start = PlaceOf(new.s)
                 /\ IF r.bank0.code = "VALID_APP" /\ size <= Region - AlignToPage(r.bank0.size)
                    THEN new.s.current = 1 /\ new.s.bank0 = r.bank0
                    ELSE new.s.current = 0 /\ new.s.bank1 = r.bank1
  <1> DEFINE i == d.s.command.image
             size == Size[i]
             c == nrf_dfu_find_cache(d.s, size)
             t == c.settings
             x == [d.m EXCEPT !.packet = i, !.size_req = size]
             y == [x EXCEPT !.valid = TRUE, !.start = c.at]
             new == [s |-> t, m |-> y, fs |-> d.fs]
  <1>1. /\ d.s \in Record /\ d.m \in Ram /\ d.fs \in DeviceFs
        /\ d = [s |-> d.s, m |-> d.m, fs |-> d.fs]
    BY Parts
  <1>2. /\ i \in Images /\ size \in Nat \ {0} /\ Decoded(d.s.command) = i
        /\ d.s.command.size = CommandUnits /\ CommandComplete(d) /\ size <= Region
    BY Sizes DEF Full, Decoded, CommandComplete, CommandValid
  <1>3. CommandExecute(d) = [new EXCEPT !.fs = nrf_dfu_settings_write(new, FALSE)]
    <2>1. x = [d.m EXCEPT !.packet = i, !.size_req = IF i \in Images THEN Size[i] ELSE @]
      BY <1>2
    <2>2. [d EXCEPT !.s = t, !.m = y] = new
      <3> HIDE DEF t, y
      <3>1. [d EXCEPT !.s = t, !.m = y] = [[d EXCEPT !.s = t] EXCEPT !.m = y]
        OBVIOUS
      <3>2. [d EXCEPT !.s = t] = [s |-> t, m |-> d.m, fs |-> d.fs]
        BY <1>1
      <3>3. [[s |-> t, m |-> d.m, fs |-> d.fs] EXCEPT !.m = y] = new
        OBVIOUS
      <3> QED BY <3>1, <3>2, <3>3
    <2> HIDE DEF new
    <2> QED BY <1>2, <2>1, <2>2 DEF CommandExecute
  <1>4. /\ x \in Ram /\ x.packet = i /\ x.size_req = size /\ x.valid = d.m.valid
        /\ x.pending = d.m.pending /\ x.buf = d.m.buf
    <2> HIDE DEF i, size
    <2> QED BY <1>1, <1>2 DEF Ram
  <1>5. d.s.progress = NoProgress /\ d.s.write_offset = 0
    BY <1>2 DEF DeviceOK, NotStarted
  <1>6. size \in Nat
    BY <1>2
  <1> HIDE DEF size
  <1>7. /\ t \in Record /\ t.command = d.s.command /\ t.progress = d.s.progress
        /\ t.write_offset = d.s.write_offset
        /\ c.at = PlaceOf(t) /\ c.at \in Nat
        /\ CurrentBank(t).code = "INVALID" /\ CurrentBank(t).size = size
        /\ t.current = 1 => t.bank0.code = "VALID_APP"
        /\ IF d.s.bank0.code = "VALID_APP" /\ size <= Region - AlignToPage(d.s.bank0.size)
           THEN t.current = 1 /\ t.bank0 = d.s.bank0
           ELSE t.current = 0 /\ t.bank1 = d.s.bank1
    BY <1>1, <1>6, FindCache
  <1> HIDE DEF c, x
  <1>8. /\ y \in Ram /\ y.packet = i /\ y.size_req = size /\ y.valid /\ y.start = c.at
        /\ y.pending = d.m.pending /\ y.buf = d.m.buf
    <2> DEFINE v == [x EXCEPT !.valid = TRUE]
    <2>1. /\ v \in Ram /\ v.valid = TRUE /\ v.packet = i /\ v.size_req = size
          /\ v.pending = d.m.pending /\ v.buf = d.m.buf
      BY <1>4, RamValid DEF size
    <2> HIDE DEF v, i
    <2>2. [v EXCEPT !.start = c.at] \in Ram
      BY <2>1, <1>7 DEF Ram
    <2>3. LET w == [v EXCEPT !.start = c.at]
          IN  /\ w.packet = i /\ w.size_req = size /\ w.valid = TRUE /\ w.start = c.at
              /\ w.pending = d.m.pending /\ w.buf = d.m.buf
      BY <2>1 DEF Ram
    <2>4. y = [v EXCEPT !.start = c.at]
      BY DEF v
    <2> HIDE DEF y
    <2> QED BY <2>2, <2>3, <2>4
  <1> HIDE DEF t, y
  <1>9. new \in DeviceType /\ new.s = t /\ new.m = y /\ new.fs = d.fs
    BY <1>1, <1>7, <1>8 DEF DeviceType
  <1> HIDE DEF new
  <1>10. Updating(t)
    BY <1>7, <1>2 DEF Updating, size
  <1>11. /\ t.progress.object = 0 /\ t.progress.offset = 0 /\ t.progress.last = 0
    BY <1>5, <1>7 DEF NoProgress
  <1>12. Storable(t)
    BY <1>6, <1>7, <1>10, <1>11 DEF Storable, size
  <1>13. CommandOK(new.s.command) /\ NotStarted(new)
    BY <1>7, <1>8, <1>9 DEF DeviceOK, NotStarted
  <1>14. Started(new)
    BY <1>6, <1>7, <1>8, <1>9, <1>10, <1>11 DEF Started, size
  <1>15. DeviceOK(new)
    BY <1>8, <1>9, <1>13, <1>14 DEF DeviceOK
  <1>16. size \in Nat \ {0} /\ size <= Region
    BY <1>2 DEF size
  <1>17. /\ CommandExecute(d) = [new EXCEPT !.fs = nrf_dfu_settings_write(new, FALSE)]
         /\ DeviceOK(new) /\ Storable(new.s) /\ CurrentBank(new.s).code = "INVALID"
         /\ CurrentBank(new.s).size = size /\ new.m.size_req = size
         /\ new.m.valid /\ new.s.command = d.s.command /\ new.fs = d.fs
         /\ new.m.buf = d.m.buf
         /\ new.s.progress = NoProgress /\ new.s.write_offset = 0
         /\ new.m.start = PlaceOf(new.s)
    BY <1>3, <1>5, <1>7, <1>8, <1>9, <1>12, <1>15
  <1>18. IF d.s.bank0.code = "VALID_APP" /\ size <= Region - AlignToPage(d.s.bank0.size)
         THEN new.s.current = 1 /\ new.s.bank0 = d.s.bank0
         ELSE new.s.current = 0 /\ new.s.bank1 = d.s.bank1
    BY <1>7, <1>9
  <1>19. size = Size[d.s.command.image]
    BY DEF size
  <1> QED BY <1>16, <1>17, <1>18, <1>19

LEMMA CommandExecuteOK ==
    ASSUME NEW d, DeviceOK(d), Full(d.s.command)
    PROVE  LET e == CommandExecute(d)
           IN  /\ DeviceOK(e) /\ e.s.command = d.s.command
               /\ CommandExecuted(d) => e.m.valid
  <1>1. CommandExecuted(d) => d.m.valid \/ CommandValid(d.s.command)
    BY DEF CommandExecuted
  <1>2. CASE d.m.valid
    BY <1>2 DEF CommandExecute
  <1>3. CASE ~d.m.valid /\ ~CommandValid(d.s.command)
    BY <1>1, <1>3, CommandRefused
  <1>4. CASE ~d.m.valid /\ CommandValid(d.s.command)
    <2>1. PICK new :
             /\ CommandExecute(d) = [new EXCEPT !.fs = nrf_dfu_settings_write(new, FALSE)]
             /\ DeviceOK(new) /\ Storable(new.s) /\ CurrentBank(new.s).code = "INVALID"
             /\ new.m.valid /\ new.s.command = d.s.command
      BY <1>4, CommandAccepted
    <2> DEFINE e == [new EXCEPT !.fs = nrf_dfu_settings_write(new, FALSE)]
    <2>2. DeviceOK(e) /\ e.s = new.s /\ e.m = new.m
      BY <2>1, SaveOK
    <2> HIDE DEF e
    <2> QED BY <2>1, <2>2 DEF e
  <1> QED BY <1>2, <1>3, <1>4

-----------------------------------------------------------------------------
(* The end of the image, and the start of the device.                      *)

\* A bank is only made valid by the hash of what it holds.
LEMMA PostValidatedOK ==
    ASSUME NEW d, DeviceOK(d), Active(d), d.s.progress.crc = d.m.packet
    PROVE  LET e == PostValidated(d)
           IN  /\ DeviceOK(e) /\ e.m = d.m /\ e.fs = d.fs
               /\ e.s.command = NoCommand /\ Storable(e.s) /\ CurrentWhole(e.s)
               /\ e.s.progress = NoProgress /\ e.s.write_offset = 0
               /\ e.s.current = d.s.current /\ PlaceOf(e.s) = d.m.start
               /\ CurrentBank(e.s).size <= d.m.size_req
               /\ d.s.current = 0 => e.s.bank1 = d.s.bank1
               /\ d.s.current = 1 => e.s.bank0 = d.s.bank0
  <1> DEFINE b == IF HashMatches(d)
                  THEN [code |-> "VALID_APP", crc |-> d.s.progress.crc,
                        size |-> d.m.size_req]
                  ELSE NoBank
             b0 == IF d.s.current = 0 THEN b ELSE d.s.bank0
             b1 == IF d.s.current = 1 THEN b ELSE d.s.bank1
             r == [layout |-> d.s.layout, current |-> d.s.current, bank0 |-> b0,
                   bank1 |-> b1, command |-> NoCommand, progress |-> NoProgress,
                   write_offset |-> 0]
             e == [s |-> r, m |-> d.m, fs |-> d.fs]
  <1>1. /\ d.s \in Record /\ d.m \in Ram /\ d.fs \in DeviceFs
        /\ d = [s |-> d.s, m |-> d.m, fs |-> d.fs] /\ d.s.progress \in Progress
        /\ d.s.bank0 \in AnyBank /\ d.s.bank1 \in AnyBank
    BY Parts
  <1>2. /\ d.m.packet \in Images /\ d.m.size_req = Size[d.m.packet]
        /\ d.m.size_req \in Nat \ {0} /\ d.m.start = PlaceOf(d.s)
    BY Sizes DEF DeviceOK, Started, Updating, Full
  <1>3. b \in AnyBank /\ BankWhole(b, d.m.start) /\ b.size <= d.m.size_req
    <2>1. CASE HashMatches(d)
      BY <1>2, <2>1 DEF AnyBank, Crcs, BankWhole, HashMatches
    <2>2. CASE ~HashMatches(d)
      BY <1>2, <2>2 DEF NoBank, AnyBank, Crcs, BankWhole
    <2> QED BY <2>1, <2>2
  <1>4. d.s.current \in {0, 1} /\ d.s.layout \in {"DUAL", "SINGLE"}
    BY <1>1 DEF Record
  <1> HIDE DEF b
  <1>5. b0 \in AnyBank /\ b1 \in AnyBank
    BY <1>1, <1>3
  <1>6. PostValidated(d) = e
    <2>1. PostValidated(d) = [d EXCEPT !.s = [d.s EXCEPT !.bank0 = b0, !.bank1 = b1,
             !.progress = NoProgress, !.command = NoCommand, !.write_offset = 0]]
      BY <1>1, ZenonT(40) DEF PostValidated, b
    <2> HIDE DEF b0, b1
    <2>2. [d.s EXCEPT !.bank0 = b0, !.bank1 = b1,
             !.progress = NoProgress, !.command = NoCommand, !.write_offset = 0] = r
      <3> DEFINE z == [d.s EXCEPT !.bank0 = b0, !.bank1 = b1, !.progress = NoProgress,
                                  !.command = NoCommand, !.write_offset = 0]
      <3>1. /\ DOMAIN z = DOMAIN d.s /\ z.layout = d.s.layout /\ z.current = d.s.current
            /\ z.bank0 = b0 /\ z.bank1 = b1 /\ z.command = NoCommand
            /\ z.progress = NoProgress /\ z.write_offset = 0
        BY <1>1 DEF Record
      <3>2. NoCommand \in Command /\ NoProgress \in Progress
        BY DEF NoCommand, Command, NoProgress, Progress, Crcs
      <3>3. z \in Record
        BY <1>1, <1>5, <3>2 DEF Record
      <3> HIDE DEF z
      <3>4. z = [layout |-> z.layout, current |-> z.current, bank0 |-> z.bank0,
                 bank1 |-> z.bank1, command |-> z.command, progress |-> z.progress,
                 write_offset |-> z.write_offset]
        BY <3>3 DEF Record
      <3>5. z = r
        BY <3>1, <3>4
      <3> QED BY <3>5 DEF z
    <2> HIDE DEF r
    <2>3. PostValidated(d) = [d EXCEPT !.s = r]
      BY <2>1, <2>2
    <2> QED BY <2>3, <1>1
  <1>7. /\ r \in Record /\ r.command = NoCommand /\ r.current = d.s.current
        /\ CurrentBank(r) = b /\ r.progress = NoProgress /\ r.write_offset = 0
        /\ r.current = 0 => r.bank1 = d.s.bank1
        /\ r.current = 1 => r.bank0 = d.s.bank0
    <2>0. /\ d.s.current = 0 => b1 = d.s.bank1
          /\ d.s.current = 1 => b0 = d.s.bank0
      OBVIOUS
    <2> HIDE DEF b0, b1
    <2>1. NoCommand \in Command /\ NoProgress \in Progress
      BY DEF NoCommand, Command, NoProgress, Progress, Crcs
    <2>2. r \in Record
      BY <1>4, <1>5, <2>1 DEF Record
    <2>3. CurrentBank(r) = b
      BY <1>4 DEF CurrentBank, b0, b1
    <2> QED BY <2>0, <2>2, <2>3
  <1>8. PlaceOf(r) = d.m.start
    <2> HIDE DEF b1
    <2> QED BY <1>2, <1>4 DEF PlaceOf
  <1> HIDE DEF r
  <1>9. Storable(r) /\ CurrentWhole(r)
    BY <1>3, <1>7, <1>8 DEF Storable, CurrentWhole
  <1>10. e \in DeviceType /\ e.s = r /\ e.m = d.m /\ e.fs = d.fs
    BY <1>1, <1>7 DEF DeviceType
  <1> HIDE DEF e
  <1>11. CommandOK(e.s.command) /\ NotStarted(e) /\ Started(e)
    BY <1>7, <1>10, Sizes DEF NoCommand, CommandOK, NotStarted, Started, Active
  <1>12. DeviceOK(e)
    BY <1>10, <1>11 DEF DeviceOK
  <1> QED BY <1>3, <1>6, <1>7, <1>8, <1>9, <1>10, <1>12

LEMMA FreshOK ==
    /\ FreshRam \in Ram /\ FreshFs \in DeviceFs /\ FreshFs.queue = <<>>
    /\ FreshRam.valid = FALSE /\ FreshRam.pending = 0
    /\ Cardinality(DataOps(<<>>)) = 0 /\ StoresWhole(<<>>)
  <1>1. FreshFs \in DeviceFs /\ FreshFs.queue = <<>>
    BY DEF FreshFs, DeviceFs
  <1>2. DataOps(<<>>) = {} /\ StoresWhole(<<>>)
    BY DEF DataOps, StoresWhole
  <1>3. FreshRam \in Ram /\ FreshRam.valid = FALSE /\ FreshRam.pending = 0
    <2> DEFINE b == [i \in 0 .. Buffers - 1 |-> [k \in 0 .. Chunk - 1 |-> Erased]]
    <2>1. b \in [0 .. Buffers - 1 -> [0 .. Chunk - 1 -> Unit]]
      BY DEF Unit
    <2>2. 0 \in 0 .. Chunk /\ 0 \in 0 .. Buffers - 1
      BY Sizes
    <2>3. FreshRam = [valid |-> FALSE, size_req |-> 0, start |-> 0, packet |-> NoImage,
                      pos |-> 0, cur |-> 0, pending |-> 0, buf |-> b]
      BY DEF FreshRam
    <2> HIDE DEF b
    <2> QED BY <2>1, <2>2, <2>3 DEF Ram
  <1> QED BY <1>1, <1>2, <1>3, FS_EmptySet

LEMMA LoadedOK ==
    ASSUME NEW c, c \in {Erased, NoSettings} \/ Storable(c)
    PROVE  Storable(Loaded(c))
  <1>1. Storable(Zero)
    <2>1. NoBank \in AnyBank
      BY DEF NoBank, AnyBank, Crcs
    <2>2. NoCommand \in Command /\ NoProgress \in Progress
      BY DEF NoCommand, Command, NoProgress, Progress, Crcs
    <2>3. Zero \in Record /\ Zero.command = NoCommand
      BY <2>1, <2>2 DEF Zero, Record
    <2> QED BY <2>3 DEF Storable
  <1> QED BY <1>1 DEF Loaded

\* An update that the settings page holds is taken up where it stands.
LEMMA ResumedOK ==
    ASSUME NEW r, Storable(r)
    PROVE  LET e == Resumed(r)
               size == CurrentBank(r).size IN
           /\ DeviceOK(e) /\ e.fs = FreshFs
           /\ r.command = NoCommand => e.s = r /\ ~e.m.valid
           /\ r.command # NoCommand =>
                 /\ Updating(r) /\ Updating(e.s) /\ CurrentBank(e.s).size = size
                 /\ e.s.progress = r.progress /\ e.s.write_offset = r.write_offset
                 /\ e.m.start = PlaceOf(e.s) /\ e.m.size_req = size
                 /\ IF r.bank0.code = "VALID_APP" /\ size <= Region - AlignToPage(r.bank0.size)
                    THEN e.s.current = 1 /\ e.s.bank0 = r.bank0
                    ELSE e.s.current = 0 /\ e.s.bank1 = r.bank1
  <1> DEFINE first == r.bank0.code = "INVALID"
             known == r.bank0.size # 0 /\ (first \/ r.bank1.code = "INVALID")
             size == IF first THEN r.bank0.size ELSE r.bank1.size
             c == nrf_dfu_find_cache(r, size)
             i == Decoded(r.command)
             x == [FreshRam EXCEPT !.packet = i]
             y == [x EXCEPT !.valid = TRUE, !.size_req = size, !.start = c.at]
             again == [s |-> c.settings, fs |-> FreshFs, m |-> y]
             none == [s |-> r, fs |-> FreshFs, m |-> x]
  <1>1. Resumed(r) = IF i # NoImage /\ known THEN again ELSE none
    BY DEF Resumed
  <1>2. /\ r \in Record /\ r.bank0 \in AnyBank /\ r.bank1 \in AnyBank
        /\ r.command \in Command /\ size \in Nat
    BY DEF Storable, Record, AnyBank
  <1>3. i \in Images \cup {NoImage}
    BY <1>2 DEF Decoded, Command
  <1>4. /\ x \in Ram /\ x.valid = FALSE /\ x.packet = i /\ x.pending = 0
    <2> HIDE DEF i
    <2> QED BY <1>3, FreshOK DEF Ram
  <1> HIDE DEF x
  <1>5. CASE r.command = NoCommand
    <2>1. i = NoImage
      BY <1>5, Sizes DEF Decoded, NoCommand
    <2>2. Resumed(r) = none
      BY <1>1, <2>1
    <2>3. /\ none \in DeviceType /\ none.s = r /\ none.m = x /\ none.fs = FreshFs
      BY <1>2, <1>4, FreshOK DEF DeviceType
    <2> HIDE DEF none
    <2>4. CommandOK(none.s.command) /\ NotStarted(none) /\ Started(none)
      BY <1>5, <2>3, Sizes DEF NoCommand, CommandOK, NotStarted, Started, Active
    <2>5. DeviceOK(none)
      BY <1>4, <2>3, <2>4, FreshOK DEF DeviceOK
    <2> QED BY <2>2, <2>3, <2>5, <1>4, <1>5
  <1>6. CASE r.command # NoCommand
    <2> DEFINE p == r.progress
    <2>1. /\ Updating(r) /\ p.object = 0 /\ p.offset = p.last /\ p.last <= Size[r.command.image]
      BY <1>6 DEF Storable
    <2>2. /\ r.command.image \in Images /\ r.command.size = CommandUnits
          /\ r.command.offset = CommandUnits
      BY <2>1 DEF Updating, Full
    <2>3. i = r.command.image /\ i # NoImage /\ Size[i] \in Nat \ {0}
      BY <2>2, Sizes DEF Decoded
    <2>4. known /\ size = Size[i] /\ size = CurrentBank(r).size
      BY <1>2, <2>1, <2>3 DEF Updating, CurrentBank, Record, AnyBank
    <2>5. Resumed(r) = again
      BY <1>1, <2>3, <2>4
    <2>6. p \in Progress /\ p.last \in Nat
      BY <1>2 DEF Record, Progress
    <2> DEFINE t == c.settings
    <2> HIDE DEF size, i, p
    <2>7. /\ t \in Record /\ t.command = r.command /\ t.progress = r.progress
          /\ c.at = PlaceOf(t) /\ c.at \in Nat
          /\ CurrentBank(t).code = "INVALID" /\ CurrentBank(t).size = size
          /\ t.current = 1 => t.bank0.code = "VALID_APP"
          /\ t.write_offset = r.write_offset
          /\ IF r.bank0.code = "VALID_APP" /\ size <= Region - AlignToPage(r.bank0.size)
             THEN t.current = 1 /\ t.bank0 = r.bank0
             ELSE t.current = 0 /\ t.bank1 = r.bank1
      BY <1>2, FindCache
    <2> HIDE DEF c
    <2>8. /\ y \in Ram /\ y.valid = TRUE /\ y.size_req = size /\ y.start = c.at
          /\ y.packet = i /\ y.pending = 0
      <3> DEFINE v == [x EXCEPT !.valid = TRUE]
                 at == c.at
                 w == [v EXCEPT !.size_req = size, !.start = at]
      <3>1. /\ v \in Ram /\ v.valid = TRUE /\ v.packet = i /\ v.pending = 0
        BY <1>4, RamValid
      <3>2. y = w
        BY DEF v
      <3> HIDE DEF v, at
      <3>3. w \in Ram
        BY <3>1, <1>2, <2>7 DEF Ram, at
      <3>4. /\ w.valid = TRUE /\ w.size_req = size /\ w.start = at /\ w.packet = i
            /\ w.pending = 0
        BY <3>1 DEF Ram
      <3> HIDE DEF w, y
      <3> QED BY <3>2, <3>3, <3>4 DEF at
    <2> HIDE DEF t, y
    <2>9. again \in DeviceType /\ again.s = t /\ again.m = y /\ again.fs = FreshFs
      BY <2>7, <2>8, FreshOK DEF DeviceType, t
    <2> HIDE DEF again
    <2>10. Updating(t)
      BY <2>1, <2>3, <2>4, <2>7 DEF Updating
    <2>11. CommandOK(again.s.command) /\ NotStarted(again)
      BY <2>2, <2>7, <2>8, <2>9, Sizes DEF CommandOK, NotStarted
    <2>12. Started(again)
      <3>1. /\ t.progress.last <= t.progress.offset
            /\ t.progress.offset <= t.progress.last + t.progress.object
            /\ t.progress.last + t.progress.object <= size
        BY <2>1, <2>3, <2>4, <2>6, <2>7 DEF p
      <3> QED BY <3>1, <2>3, <2>4, <2>7, <2>8, <2>9, <2>10 DEF Started
    <2>13. DeviceOK(again)
      BY <2>8, <2>9, <2>11, <2>12, FreshOK DEF DeviceOK
    <2> QED BY <2>1, <2>4, <2>5, <2>7, <2>8, <2>9, <2>10, <2>13, <1>6
  <1> QED BY <1>5, <1>6

-----------------------------------------------------------------------------
(* Steps of the controller and of the handler.                             *)

LEMMA Elsewhere ==
    ASSUME HandlerInv, UNCHANGED <<flash, saved>>, pc' # "done"
    PROVE  FlashOK'
  BY DEF HandlerInv, FlashOK

LEMMA Becoming ==
    ASSUME NEW e, DeviceOK(e), s' = e.s, m' = e.m, fs' = e.fs, UNCHANGED flash
    PROVE  DeviceOK(Device)' /\ Device' = e
  <1>1. e = [s |-> e.s, m |-> e.m, fs |-> e.fs]
    BY DEF DeviceOK, DeviceType
  <1>2. Device' = e
    BY <1>1 DEF Device
  <1>3. StoresWhole(e.fs.queue)' <=> StoresWhole(e.fs.queue)
    BY DEF StoresWhole, CurrentWhole, BankWhole, WholeAt
  <1>4. DeviceOK(e)'
    BY <1>3 DEF DeviceOK
  <1> QED BY <1>2, <1>4

LEMMA Idle ==
    ASSUME NEW e, DeviceOK(e), s' = e.s, m' = e.m, fs' = e.fs, HandlerInv,
           pc = "idle", UNCHANGED <<flash, saved, pc>>, ControllerOK'
    PROVE  HandlerInv'
  <1>1. DeviceOK(Device)'
    BY Becoming
  <1>2. FlashOK' /\ WaitOK'
    BY Elsewhere DEF WaitOK
  <1> QED BY <1>1, <1>2 DEF HandlerInv

LEMMA IdleSame ==
    ASSUME HandlerInv, pc = "idle", UNCHANGED <<flash, saved, s, m, fs, pc>>, ControllerOK'
    PROVE  HandlerInv'
  <1>1. PICK e : e = Device
    OBVIOUS
  <1>2. DeviceOK(e) /\ s' = e.s /\ m' = e.m /\ fs' = e.fs
    BY <1>1 DEF HandlerInv, Device
  <1> QED BY <1>2, Idle

LEMMA ConnectInv == ASSUME HandlerInv, Connect PROVE HandlerInv'
  <1>1. ControllerOK'
    BY DEF Connect, ControllerOK, Steps, DataSteps
  <1> QED BY <1>1, IdleSame DEF Connect

LEMMA SelectCommandInv == ASSUME HandlerInv, SelectCommand PROVE HandlerInv'
  <1>1. /\ ctl \in [image : Images \cup {NoImage}, step : Steps, pos : Nat]
        /\ ctl.image \in Images
    BY DEF HandlerInv, ControllerOK, SelectCommand, Requests
  <1>2. CASE s.command = [size |-> CommandUnits, offset |-> CommandUnits, image |-> ctl.image]
    <2>1. ctl' = [ctl EXCEPT !.step = "initExecute"]
      BY <1>2 DEF SelectCommand, NextStep
    <2>2. /\ ctl' \in [image : Images \cup {NoImage}, step : Steps, pos : Nat]
          /\ ctl'.image = ctl.image /\ ctl'.step = "initExecute"
      BY <1>1, <2>1 DEF Steps, DataSteps
    <2>3. Full(s.command) /\ s.command.image = ctl.image
      BY <1>1, <1>2 DEF Full
    <2>4. ControllerOK'
      BY <1>1, <2>2, <2>3 DEF SelectCommand, ControllerOK, DataSteps, Full
    <2> QED BY <2>4, IdleSame DEF SelectCommand, Requests
  <1>3. CASE s.command # [size |-> CommandUnits, offset |-> CommandUnits, image |-> ctl.image]
    <2>1. ctl' = [ctl EXCEPT !.step = "initCreate"]
      BY <1>3 DEF SelectCommand, NextStep
    <2>2. /\ ctl' \in [image : Images \cup {NoImage}, step : Steps, pos : Nat]
          /\ ctl'.image = ctl.image /\ ctl'.step = "initCreate"
      BY <1>1, <2>1 DEF Steps, DataSteps
    <2>3. ControllerOK'
      BY <1>1, <2>2 DEF ControllerOK, DataSteps
    <2> QED BY <2>3, IdleSame DEF SelectCommand, Requests
  <1> QED BY <1>2, <1>3

LEMMA SendCommandCreateInv == ASSUME HandlerInv, SendCommandCreate PROVE HandlerInv'
  <1>1. PICK e \in {CommandCreate(Device)} : s' = e.s /\ m' = e.m /\ fs' = e.fs
    BY DEF SendCommandCreate, Becomes
  <1>2. /\ DeviceOK(e) /\ ~e.m.valid /\ e.s.command.size = CommandUnits
        /\ e.s.command.offset = 0
    BY <1>1, CommandCreateOK DEF HandlerInv
  <1>3. /\ ctl \in [image : Images \cup {NoImage}, step : Steps, pos : Nat]
        /\ ctl.image \in Images
    BY DEF HandlerInv, ControllerOK, SendCommandCreate, Requests
  <1>4. ctl' = [ctl EXCEPT !.step = "initWrite"]
    BY DEF SendCommandCreate, NextStep
  <1>5. /\ ctl' \in [image : Images \cup {NoImage}, step : Steps, pos : Nat]
        /\ ctl'.image = ctl.image /\ ctl'.step = "initWrite"
    BY <1>3, <1>4 DEF Steps, DataSteps
  <1>6. ControllerOK'
    BY <1>1, <1>2, <1>3, <1>5 DEF ControllerOK, DataSteps
  <1> QED BY <1>1, <1>2, <1>6, Idle DEF SendCommandCreate, Requests

LEMMA SendCommandWriteInv == ASSUME HandlerInv, SendCommandWrite PROVE HandlerInv'
  <1>1. PICK e \in {CommandWrite(Device, ctl.image)} : s' = e.s /\ m' = e.m /\ fs' = e.fs
    BY DEF SendCommandWrite, Becomes
  <1>2. /\ ctl \in [image : Images \cup {NoImage}, step : Steps, pos : Nat]
        /\ ctl.image \in Images /\ DeviceOK(Device)
        /\ ~Device.m.valid /\ Device.s.command.size = CommandUnits
        /\ Device.s.command.offset = 0 \/ Device.s.command.image = ctl.image
    BY DEF HandlerInv, ControllerOK, SendCommandWrite, Requests, Device
  <1>3. /\ DeviceOK(e) /\ ~e.m.valid /\ e.s.command.size = CommandUnits
        /\ e.s.command.image = ctl.image
    <2> HIDE DEF Device
    <2> QED BY <1>1, <1>2, CommandWriteOK
  <1>4. e.s.command \in Command
    BY <1>3, Parts
  <1>5. CASE e.s.command.offset = CommandUnits
    <2>1. ctl' = [ctl EXCEPT !.step = "initExecute"]
      BY <1>1, <1>5 DEF SendCommandWrite, NextStep
    <2>2. /\ ctl' \in [image : Images \cup {NoImage}, step : Steps, pos : Nat]
          /\ ctl'.image = ctl.image /\ ctl'.step = "initExecute"
      BY <1>2, <2>1 DEF Steps, DataSteps
    <2>3. Full(e.s.command)
      BY <1>2, <1>3, <1>4, <1>5 DEF Full, Command
    <2>4. ControllerOK'
      BY <1>1, <1>2, <1>3, <2>2, <2>3 DEF ControllerOK, DataSteps, Full
    <2> QED BY <2>4, <1>1, <1>3, Idle DEF SendCommandWrite, Requests
  <1>6. CASE e.s.command.offset # CommandUnits
    <2>1. ctl' = [ctl EXCEPT !.step = "initWrite"]
      BY <1>1, <1>6 DEF SendCommandWrite, NextStep
    <2>2. /\ ctl' \in [image : Images \cup {NoImage}, step : Steps, pos : Nat]
          /\ ctl'.image = ctl.image /\ ctl'.step = "initWrite"
      BY <1>2, <2>1 DEF Steps, DataSteps
    <2>3. ControllerOK'
      BY <1>1, <1>2, <1>3, <2>2 DEF ControllerOK, DataSteps
    <2> QED BY <2>3, <1>1, <1>3, Idle DEF SendCommandWrite, Requests
  <1> QED BY <1>5, <1>6

LEMMA SendCommandExecuteInv == ASSUME HandlerInv, SendCommandExecute PROVE HandlerInv'
  <1>1. PICK e \in {CommandExecute(Device)} : s' = e.s /\ m' = e.m /\ fs' = e.fs
    BY DEF SendCommandExecute, Becomes
  <1>2. /\ ctl \in [image : Images \cup {NoImage}, step : Steps, pos : Nat]
        /\ ctl.image \in Images /\ DeviceOK(Device)
        /\ Full(Device.s.command) /\ Device.s.command.image = ctl.image
    BY DEF HandlerInv, ControllerOK, SendCommandExecute, Requests, Device
  <1>3. /\ DeviceOK(e) /\ e.s.command = Device.s.command
        /\ CommandExecuted(Device) => e.m.valid
    BY <1>1, <1>2, CommandExecuteOK
  <1>4. CASE CommandExecuted(Device)
    <2>1. ctl' = [ctl EXCEPT !.step = "resume"]
      BY <1>4 DEF SendCommandExecute
    <2>2. /\ ctl' \in [image : Images \cup {NoImage}, step : Steps, pos : Nat]
          /\ ctl'.image = ctl.image /\ ctl'.step = "resume"
      BY <1>2, <2>1 DEF Steps, DataSteps
    <2>3. Full(e.s.command) /\ Active(e) /\ e.s.command.image = ctl.image
      BY <1>2, <1>3, <1>4 DEF Full, Active
    <2>4. Device' = e
      BY <1>1, <1>3, Becoming DEF SendCommandExecute
    <2>5. ControllerOK'
      <3>1. Active(Device)'
        BY <2>3, <2>4 DEF Active
      <3> QED BY <1>1, <1>2, <2>2, <2>3, <3>1 DEF ControllerOK, DataSteps, Full
    <2> QED BY <2>5, <1>1, <1>3, Idle DEF SendCommandExecute, Requests
  <1>5. CASE ~CommandExecuted(Device)
    <2>1. ctl' = NoLink
      BY <1>5 DEF SendCommandExecute
    <2>2. ControllerOK'
      BY <2>1 DEF ControllerOK, DataSteps, Steps, NoLink
    <2> QED BY <2>2, <1>1, <1>3, Idle DEF SendCommandExecute, Requests
  <1> QED BY <1>4, <1>5

\* What the controller has to know of the device to send data.
LEMMA DataReady ==
    ASSUME HandlerInv, ctl.step \in DataSteps
    PROVE  /\ ctl \in [image : Images \cup {NoImage}, step : Steps, pos : Nat]
           /\ ctl.image \in Images /\ Active(Device) /\ DeviceOK(Device)
           /\ Full(s.command) /\ s.command.image = ctl.image
           /\ m.valid /\ m.packet = ctl.image /\ m.size_req = Size[ctl.image]
           /\ Size[ctl.image] \in Nat \ {0}
           /\ s.progress \in Progress
           /\ s.progress.last <= s.progress.offset
           /\ s.progress.offset <= s.progress.last + s.progress.object
           /\ s.progress.last + s.progress.object <= Size[ctl.image]
           /\ s.progress.last \in Nat /\ s.progress.offset \in Nat
           /\ s.progress.object \in Nat
  <1>1. /\ ctl \in [image : Images \cup {NoImage}, step : Steps, pos : Nat]
        /\ ctl.image \in Images /\ Active(Device) /\ DeviceOK(Device)
        /\ Full(s.command) /\ s.command.image = ctl.image
    BY DEF HandlerInv, ControllerOK, DataSteps
  <1>2. /\ m.valid /\ m.packet = ctl.image /\ m.size_req = Size[m.packet]
        /\ s.progress.last <= s.progress.offset
        /\ s.progress.offset <= s.progress.last + s.progress.object
        /\ s.progress.last + s.progress.object <= m.size_req
    BY <1>1 DEF DeviceOK, Started, Active, Device
  <1>3. Size[ctl.image] \in Nat \ {0}
    BY <1>1, Sizes
  <1>4. s.progress \in Progress
    BY <1>1, Parts DEF Device
  <1>5. s.progress.last \in Nat /\ s.progress.offset \in Nat /\ s.progress.object \in Nat
    BY <1>4 DEF Progress
  <1> QED BY <1>1, <1>2, <1>3, <1>4, <1>5

\* A request that only reads the device, and the one the controller makes next.
LEMMA Reading ==
    ASSUME HandlerInv, pc = "idle", UNCHANGED <<flash, saved, s, m, fs, pc>>,
           ctl.step \in DataSteps, NEW next \in DataSteps, NEW pos \in Nat,
           ctl' = [ctl EXCEPT !.step = next, !.pos = pos],
           next = "execute" => s.progress.crc = ctl.image,
           next = "write" => pos < Size[ctl.image]
    PROVE  HandlerInv'
  <1>1. /\ ctl \in [image : Images \cup {NoImage}, step : Steps, pos : Nat]
        /\ ctl.image \in Images /\ Active(Device) /\ Full(s.command)
        /\ s.command.image = ctl.image
    BY DataReady
  <1>2. /\ ctl' \in [image : Images \cup {NoImage}, step : Steps, pos : Nat]
        /\ ctl'.image = ctl.image /\ ctl'.step = next /\ ctl'.pos = pos
    BY <1>1 DEF Steps
  <1>3. Active(Device)'
    BY <1>1 DEF Active, Device
  <1>4. ControllerOK'
    BY <1>1, <1>2, <1>3 DEF ControllerOK, DataSteps, Full
  <1> QED BY <1>4, IdleSame

LEMMA SelectDataInv == ASSUME HandlerInv, SelectData PROVE HandlerInv'
  <1> DEFINE p == s.progress
             at == p.offset % MaxObject = 0 \/ p.offset = Size[ctl.image]
             next == IF p.offset = 0 \/ p.crc # ctl.image THEN "create"
                     ELSE IF at THEN "execute" ELSE "write"
  <1>1. ctl.step \in DataSteps /\ pc = "idle" /\ UNCHANGED <<flash, saved, s, m, fs, pc>>
    BY DEF SelectData, Requests, DataSteps
  <1>2. /\ p.offset \in Nat /\ p.offset <= p.last + p.object
        /\ p.last + p.object <= Size[ctl.image] /\ p.last \in Nat /\ p.object \in Nat
        /\ Size[ctl.image] \in Nat
    BY <1>1, DataReady
  <1>3. PICK n : n = next
    OBVIOUS
  <1>4. PICK pos : pos = p.offset
    OBVIOUS
  <1>5. ctl' = [ctl EXCEPT !.step = n, !.pos = pos]
    BY <1>3, <1>4, DataReady, <1>1 DEF SelectData
  <1>6. n \in DataSteps /\ (n = "execute" => p.crc = ctl.image)
    BY <1>3 DEF DataSteps
  <1>7. n = "write" => pos < Size[ctl.image]
    <2>1. n = "write" => p.offset # Size[ctl.image]
      BY <1>3
    <2> QED BY <2>1, <1>2, <1>4
  <1>8. pos \in Nat
    BY <1>2, <1>4
  <1> HIDE DEF next
  <1> QED BY <1>1, <1>5, <1>6, <1>7, <1>8, Reading

LEMMA AskCrcInv == ASSUME HandlerInv, AskCrc PROVE HandlerInv'
  <1> DEFINE next == IF s.progress.offset = ctl.pos /\ s.progress.crc = ctl.image
                     THEN "execute" ELSE "create"
  <1>1. ctl.step \in DataSteps /\ pc = "idle" /\ UNCHANGED <<flash, saved, s, m, fs, pc>>
    BY DEF AskCrc, Requests, DataSteps
  <1>2. PICK n : n = next
    OBVIOUS
  <1>3. PICK pos : pos = ctl.pos
    OBVIOUS
  <1>4. ctl \in [image : Images \cup {NoImage}, step : Steps, pos : Nat]
    BY <1>1, DataReady
  <1>5. ctl' = [ctl EXCEPT !.step = n]
    BY <1>2 DEF AskCrc, NextStep
  <1>6. ctl' = [ctl EXCEPT !.step = n, !.pos = pos]
    BY <1>3, <1>4, <1>5
  <1>7. n \in DataSteps /\ (n = "execute" => s.progress.crc = ctl.image) /\ n # "write"
    BY <1>2 DEF DataSteps
  <1>8. pos \in Nat
    BY <1>3, <1>4
  <1> HIDE DEF next
  <1> QED BY <1>1, <1>6, <1>7, <1>8, Reading

\* A request that changes the device and keeps its command.
LEMMA Sending ==
    ASSUME HandlerInv, pc = "idle", UNCHANGED <<flash, saved, pc>>,
           ctl.step \in DataSteps, NEW next \in DataSteps, next # "execute", NEW pos \in Nat,
           ctl' = [ctl EXCEPT !.step = next, !.pos = pos],
           next = "write" => pos < Size[ctl.image],
           NEW e, DeviceOK(e), e.m.valid, e.s.command = s.command,
           s' = e.s, m' = e.m, fs' = e.fs
    PROVE  HandlerInv'
  <1>1. /\ ctl \in [image : Images \cup {NoImage}, step : Steps, pos : Nat]
        /\ ctl.image \in Images /\ Full(s.command) /\ s.command.image = ctl.image
    BY DataReady
  <1>2. /\ ctl' \in [image : Images \cup {NoImage}, step : Steps, pos : Nat]
        /\ ctl'.image = ctl.image /\ ctl'.step = next /\ ctl'.pos = pos
    BY <1>1 DEF Steps
  <1>3. Active(Device)'
    BY <1>1 DEF Active, Device, Full
  <1>4. ControllerOK'
    BY <1>1, <1>2, <1>3 DEF ControllerOK, DataSteps, Full
  <1> QED BY <1>4, Idle

LEMMA SendDataCreateInv == ASSUME HandlerInv, SendDataCreate PROVE HandlerInv'
  <1> DEFINE next == IF DataCreated(Device, ObjectSize) THEN "write" ELSE "create"
  <1>1. PICK e \in {DataCreate(Device, ObjectSize)} : s' = e.s /\ m' = e.m /\ fs' = e.fs
    BY DEF SendDataCreate, Becomes
  <1>2. ctl.step \in DataSteps /\ pc = "idle" /\ UNCHANGED <<flash, saved, pc>>
    BY DEF SendDataCreate, Requests, DataSteps
  <1>3. /\ ctl.image \in Images /\ Active(Device) /\ DeviceOK(Device)
        /\ Size[ctl.image] \in Nat /\ s.progress.last \in Nat /\ s.progress.object \in Nat
        /\ s.progress.last + s.progress.object <= Size[ctl.image]
        /\ m.size_req = Size[ctl.image]
    BY <1>2, DataReady
  <1>4. PICK size : size = ObjectSize
    OBVIOUS
  <1>5. size \in Nat
    BY <1>3, <1>4, Sizes DEF ObjectSize, Min2
  <1>6. DeviceOK(e) /\ e.m.valid /\ e.s.command = s.command
    <2>1. DeviceOK(e) /\ e.m.valid = Device.m.valid /\ e.s.command = Device.s.command
      BY <1>1, <1>3, <1>4, <1>5, DataCreateOK
    <2> QED BY <2>1, <1>3 DEF Active, Device
  <1>7. PICK n : n = next
    OBVIOUS
  <1>8. PICK pos : pos = s.progress.last
    OBVIOUS
  <1>9. ctl' = [ctl EXCEPT !.step = n, !.pos = pos]
    <2>1. ctl' = [ctl EXCEPT !.pos = pos, !.step = n]
      BY <1>7, <1>8 DEF SendDataCreate
    <2>2. ctl \in [image : Images \cup {NoImage}, step : Steps, pos : Nat]
      BY <1>2, DataReady
    <2> QED BY <2>1, <2>2
  <1>10. n \in DataSteps /\ n # "execute"
    BY <1>7 DEF DataSteps
  <1>11. n = "write" => pos < Size[ctl.image]
    <2>1. ASSUME n = "write" PROVE size # 0 /\ s.progress.last + size <= m.size_req
      <3>1. CreateAllowed(Device, size)
        BY <1>4, <1>7, <2>1 DEF DataCreated
      <3> QED BY <3>1 DEF CreateAllowed, Device
    <2> QED BY <2>1, <1>3, <1>5, <1>8
  <1>12. pos \in Nat
    BY <1>3, <1>8
  <1> HIDE DEF next
  <1> QED BY <1>1, <1>2, <1>6, <1>9, <1>10, <1>11, <1>12, Sending

\* A packet ends no further than its object, and that within the image.
LEMMA PacketFits ==
    ASSUME HandlerInv, ctl.step = "write", NEW p \in Packets
    PROVE  LET n == Min2(p, ObjectEnd(ctl.pos) - ctl.pos)
           IN  /\ n \in Nat \ {0} /\ ctl.pos + n <= ObjectEnd(ctl.pos)
               /\ ObjectEnd(ctl.pos) <= Size[ctl.image] /\ ObjectEnd(ctl.pos) \in Int
               /\ ctl.pos \in Nat
  <1> DEFINE e == ((ctl.pos \div MaxObject) + 1) * MaxObject
  <1>1. ctl.pos \in Nat /\ ctl.pos < Size[ctl.image] /\ Size[ctl.image] \in Nat
    <2>1. ctl.pos \in Nat /\ ctl.pos < Size[ctl.image]
      BY DEF HandlerInv, ControllerOK
    <2> QED BY <2>1, DataReady DEF DataSteps
  <1>2. e \in Nat /\ ctl.pos < e
    <2>1. MaxObject \in Nat \ {0}
      BY Sizes
    <2>2. /\ ctl.pos = MaxObject * (ctl.pos \div MaxObject) + (ctl.pos % MaxObject)
          /\ ctl.pos % MaxObject \in 0 .. MaxObject - 1 /\ ctl.pos \div MaxObject \in Nat
      BY <2>1, <1>1, DivMod
    <2> QED BY <2>1, <2>2
  <1>3. ObjectEnd(ctl.pos) = Min2(e, Size[ctl.image])
    BY DEF ObjectEnd
  <1> HIDE DEF e
  <1>4. /\ ObjectEnd(ctl.pos) \in Nat /\ ctl.pos < ObjectEnd(ctl.pos)
        /\ ObjectEnd(ctl.pos) <= Size[ctl.image]
    BY <1>1, <1>2, <1>3 DEF Min2
  <1>5. p \in Nat \ {0}
    BY Sizes
  <1> QED BY <1>1, <1>4, <1>5 DEF Min2

LEMMA SendDataWriteInv == ASSUME HandlerInv, SendDataWrite PROVE HandlerInv'
  <1>1. ctl.step = "write" /\ ctl.step \in DataSteps /\ pc = "idle"
        /\ UNCHANGED <<flash, saved, pc>>
    BY DEF SendDataWrite, Requests, DataSteps
  <1>2. PICK p \in Packets :
          LET n == Min2(p, ObjectEnd(ctl.pos) - ctl.pos)
          IN  /\ Becomes(DataWrite(Device, [k \in 1 .. n |-> <<ctl.image, ctl.pos + k - 1>>]))
              /\ ctl' = [ctl EXCEPT !.pos = @ + n,
                                    !.step = IF ctl.pos + n = ObjectEnd(ctl.pos)
                                             THEN "crc" ELSE "write"]
    BY DEF SendDataWrite
  <1>3. PICK n : n = Min2(p, ObjectEnd(ctl.pos) - ctl.pos)
    OBVIOUS
  <1>4. PICK data : data = [k \in 1 .. n |-> <<ctl.image, ctl.pos + k - 1>>]
    OBVIOUS
  <1>5. PICK next : next = IF ctl.pos + n = ObjectEnd(ctl.pos) THEN "crc" ELSE "write"
    OBVIOUS
  <1>6. PICK pos : pos = ctl.pos + n
    OBVIOUS
  <1>7. /\ Becomes(DataWrite(Device, data))
        /\ ctl' = [ctl EXCEPT !.pos = pos, !.step = next]
    BY <1>2, <1>3, <1>4, <1>5, <1>6
  <1>8. /\ n \in Nat \ {0} /\ ctl.pos + n <= ObjectEnd(ctl.pos)
        /\ ObjectEnd(ctl.pos) <= Size[ctl.image] /\ ObjectEnd(ctl.pos) \in Int
        /\ ctl.pos \in Nat
    BY <1>1, <1>3, PacketFits
  <1>9. /\ ctl \in [image : Images \cup {NoImage}, step : Steps, pos : Nat]
        /\ ctl.image \in Images /\ Active(Device) /\ DeviceOK(Device)
        /\ Size[ctl.image] \in Nat
    BY <1>1, DataReady
  <1>10. data \in Seq(Data) /\ Len(data) > 0
    <2>1. \A k \in 1 .. n : <<ctl.image, ctl.pos + k - 1>> \in Data
      BY <1>8, <1>9 DEF Data
    <2>2. data \in [1 .. n -> Data]
      BY <2>1, <1>4
    <2> QED BY <2>2, <1>8
  <1>11. PICK e \in {DataWrite(Device, data)} : s' = e.s /\ m' = e.m /\ fs' = e.fs
    BY <1>7 DEF Becomes
  <1>12. DeviceOK(e) /\ e.m.valid /\ e.s.command = s.command
    <2>1. Device.m.valid /\ Device.s.command = s.command
      BY <1>9 DEF Active, Device
    <2> QED BY <2>1, <1>9, <1>10, <1>11, DataWriteOK
  <1>13. ctl' = [ctl EXCEPT !.step = next, !.pos = pos]
    BY <1>7, <1>9
  <1>14. next \in DataSteps /\ next # "execute" /\ pos \in Nat
    BY <1>5, <1>6, <1>8 DEF DataSteps
  <1>15. next = "write" => pos < Size[ctl.image]
    <2>1. next = "write" => pos # ObjectEnd(ctl.pos)
      BY <1>5, <1>6
    <2> QED BY <2>1, <1>6, <1>8, <1>9
  <1> QED BY <1>1, <1>11, <1>12, <1>13, <1>14, <1>15, Sending

\* The handler only waits for the end of an image that it has in full.
LEMMA SendDataExecuteInv == ASSUME HandlerInv, SendDataExecute PROVE HandlerInv'
  <1>1. ctl.step \in DataSteps /\ pc = "idle" /\ UNCHANGED <<flash, saved>>
        /\ ctl.step = "execute"
    BY DEF SendDataExecute, Requests, DataSteps
  <1>2. /\ ctl \in [image : Images \cup {NoImage}, step : Steps, pos : Nat]
        /\ ctl.image \in Images /\ Active(Device) /\ DeviceOK(Device)
        /\ Full(s.command) /\ s.command.image = ctl.image /\ m.packet = ctl.image
        /\ s.progress.crc = ctl.image
    BY <1>1, DataReady DEF HandlerInv, ControllerOK
  <1>3. CASE ~ExecuteAllowed(Device)
    <2>1. ctl' = [ctl EXCEPT !.step = "create"] /\ UNCHANGED <<s, m, fs, pc>>
      BY <1>3 DEF SendDataExecute, NextStep
    <2>2. PICK pos : pos = ctl.pos
      OBVIOUS
    <2>3. pos \in Nat /\ ctl' = [ctl EXCEPT !.step = "create", !.pos = pos]
      BY <2>1, <2>2, <1>2
    <2>4. "create" \in DataSteps
      BY DEF DataSteps
    <2> QED BY <2>1, <2>3, <2>4, <1>1, Reading
  <1>4. CASE ExecuteAllowed(Device)
    <2> DEFINE d == ObjectDone(Device)
               last == d.s.progress.offset = d.m.size_req
    <2>1. /\ Becomes(d)
          /\ pc' = IF last THEN "waitPending" ELSE "idle"
          /\ ctl' = [ctl EXCEPT !.step = IF last THEN "end" ELSE "create"]
      BY <1>4 DEF SendDataExecute, NextStep
    <2>2. PICK e \in {d} : s' = e.s /\ m' = e.m /\ fs' = e.fs
      <3> HIDE DEF d
      <3> QED BY <2>1 DEF Becomes
    <2>3. /\ DeviceOK(e) /\ e.m = m /\ e.s.command = s.command
          /\ e.s.progress.crc = s.progress.crc
      <3>1. /\ DeviceOK(d) /\ d.m = Device.m /\ d.s.command = Device.s.command
            /\ d.s.progress.crc = Device.s.progress.crc
        BY <1>2, <1>4, ObjectDoneOK
      <3> HIDE DEF d
      <3> QED BY <2>2, <3>1 DEF Device
    <2> HIDE DEF d
    <2>4. m.valid /\ s.command.size = CommandUnits
      BY <1>2 DEF Active, Device
    <2>5. CASE ~last
      <3>1. UNCHANGED pc /\ ctl' = [ctl EXCEPT !.step = "create"]
        BY <1>1, <2>1, <2>5
      <3>2. PICK pos : pos = ctl.pos
        OBVIOUS
      <3>3. pos \in Nat /\ ctl' = [ctl EXCEPT !.step = "create", !.pos = pos]
        BY <3>1, <3>2, <1>2
      <3>4. "create" \in DataSteps
        BY DEF DataSteps
      <3> QED BY <3>1, <3>3, <3>4, <1>1, <2>2, <2>3, <2>4, Sending
    <2>6. CASE last
      <3>1. pc' = "waitPending" /\ ctl' = [ctl EXCEPT !.step = "end"]
        BY <2>1, <2>6
      <3>2. /\ ctl' \in [image : Images \cup {NoImage}, step : Steps, pos : Nat]
            /\ ctl'.image = ctl.image /\ ctl'.step = "end"
        BY <3>1, <1>2 DEF Steps
      <3>3. DeviceOK(Device)' /\ Device' = e
        BY <1>1, <2>2, <2>3, Becoming
      <3>4. Active(Device)'
        BY <2>3, <2>4, <3>3 DEF Active
      <3>5. FlashOK'
        BY <1>1, <3>1, Elsewhere
      <3>6. ControllerOK'
        BY <1>2, <3>2 DEF ControllerOK, DataSteps
      <3>7. WaitOK'
        BY <1>2, <2>2, <2>3, <3>1, <3>2, <3>4 DEF WaitOK
      <3> QED BY <3>3, <3>5, <3>6, <3>7 DEF HandlerInv
    <2> QED BY <2>5, <2>6
  <1> QED BY <1>3, <1>4

LEMMA Settling ==
    ASSUME HandlerInv, NEW d, DeviceOK(d), d.s.command = NoCommand, Storable(d.s),
           CurrentWhole(d.s), DataOps(d.fs.queue) = {}, SaveAndReset(d),
           ctl.step \in {"end", "off"}, UNCHANGED <<flash, saved, ctl>>
    PROVE  HandlerInv'
  <1>1. PICK e \in {[d EXCEPT !.fs = nrf_dfu_settings_write(d, TRUE)]} :
          s' = e.s /\ m' = e.m /\ fs' = e.fs
    BY DEF SaveAndReset, Becomes
  <1>2. /\ DeviceOK(e) /\ e.s = d.s /\ e.m = d.m
        /\ Cardinality(DataOps(e.fs.queue)) = Cardinality(DataOps(d.fs.queue))
    BY <1>1, SaveOK
  <1>3. DataOps(e.fs.queue) = {}
    <2>1. Cardinality(DataOps(e.fs.queue)) = 0
      BY <1>2, FS_EmptySet
    <2>2. e.fs.queue \in Seq(Op)
      BY <1>2, Parts
    <2> QED BY <2>1, <2>2, NoneLeft
  <1>4. DeviceOK(Device)'
    BY <1>1, <1>2, Becoming
  <1>5. pc' \in {"idle", "waitSettings"}
    BY DEF SaveAndReset
  <1>6. FlashOK'
    BY <1>5, Elsewhere
  <1>7. ControllerOK'
    BY DEF HandlerInv, ControllerOK, DataSteps
  <1>8. CurrentWhole(d.s)'
    BY DEF CurrentWhole, BankWhole, WholeAt
  <1>9. CurrentWhole(s)'
    <2>1. s' = d.s
      BY <1>1, <1>2
    <2> QED BY <2>1, <1>8 DEF CurrentWhole, BankWhole, WholeAt
  <1>10. WaitOK'
    BY <1>1, <1>2, <1>3, <1>5, <1>9 DEF WaitOK
  <1> QED BY <1>4, <1>6, <1>7, <1>10 DEF HandlerInv

\* All data are in flash when their hash is computed.
LEMMA PendingDoneInv == ASSUME HandlerInv, PendingDone PROVE HandlerInv'
  <1>1. PICK d : d = PostValidated(Device)
    OBVIOUS
  <1>2. /\ SaveAndReset(d) /\ UNCHANGED <<flash, saved, ctl>> /\ pc = "waitPending"
        /\ m.pending = 0
    BY <1>1 DEF PendingDone
  <1>3. /\ DeviceOK(Device) /\ Active(Device) /\ Device.s.progress.crc = Device.m.packet
        /\ ctl.step \in {"end", "off"}
    BY <1>2 DEF HandlerInv, WaitOK, Device
  <1>4. /\ DeviceOK(d) /\ d.fs = Device.fs /\ d.s.command = NoCommand /\ Storable(d.s)
        /\ CurrentWhole(d.s)
    BY <1>1, <1>3, PostValidatedOK
  <1>5. DataOps(d.fs.queue) = {}
    <2>1. Device.fs.queue \in Seq(Op) /\ Cardinality(DataOps(Device.fs.queue)) = 0
      BY <1>2, <1>3, Parts DEF Device
    <2> QED BY <2>1, <1>4, NoneLeft
  <1> QED BY <1>2, <1>3, <1>4, <1>5, Settling

LEMMA SettingsRetryInv == ASSUME HandlerInv, SettingsRetry PROVE HandlerInv'
  <1>1. PICK d : d = Device
    OBVIOUS
  <1>2. SaveAndReset(d) /\ UNCHANGED <<flash, saved, ctl>> /\ pc = "waitSettings"
    BY <1>1 DEF SettingsRetry
  <1>3. /\ DeviceOK(d) /\ d.s.command = NoCommand /\ DataOps(d.fs.queue) = {}
        /\ ctl.step \in {"end", "off"} /\ d.s = s
    BY <1>1, <1>2 DEF HandlerInv, WaitOK, Device
  <1>4. CurrentWhole(d.s)
    <2>1. CurrentWhole(s)
      BY <1>2 DEF HandlerInv, WaitOK
    <2> QED BY <2>1, <1>3
  <1>5. Storable(d.s)
    <2>1. d.s \in Record
      BY <1>3, Parts
    <2> QED BY <2>1, <1>3 DEF Storable
  <1> QED BY <1>2, <1>3, <1>4, <1>5, Settling

-----------------------------------------------------------------------------
(* Flash operations and resets.                                            *)

LEMMA Restarting ==
    ASSUME HandlerInv, NEW c, c \in {Erased, NoSettings} \/ Storable(c), Restart(c),
           flash' \in [0 .. Region - 1 -> Unit \cup {Torn}]
    PROVE  HandlerInv'
  <1>1. PICK r : r = Loaded(c)
    OBVIOUS
  <1>2. Storable(r)
    BY <1>1, LoadedOK
  <1>3. PICK e \in {Resumed(r)} : s' = e.s /\ m' = e.m /\ fs' = e.fs
    BY <1>1 DEF Restart, Becomes
  <1>4. DeviceOK(e) /\ e.fs = FreshFs
    BY <1>2, <1>3, ResumedOK
  <1>5. Device' = e
    <2>1. e = [s |-> e.s, m |-> e.m, fs |-> e.fs]
      BY <1>4, Parts
    <2> QED BY <2>1, <1>3 DEF Device
  <1>6. StoresWhole(e.fs.queue)'
    BY <1>4 DEF StoresWhole, FreshFs
  <1>7. DeviceOK(e)'
    BY <1>4, <1>6 DEF DeviceOK
  <1>8. saved' = r /\ pc' = "idle" /\ ctl' = NoLink
    BY <1>1 DEF Restart
  <1>9. FlashOK'
    BY <1>2, <1>8 DEF FlashOK
  <1>10. ControllerOK' /\ WaitOK'
    BY <1>8 DEF ControllerOK, WaitOK, NoLink, Steps, DataSteps
  <1> QED BY <1>5, <1>7, <1>9, <1>10 DEF HandlerInv

LEMMA FlashAfterOK ==
    ASSUME NEW o \in Op, flash \in [0 .. Region - 1 -> Unit \cup {Torn}], m \in Ram
    PROVE  /\ FlashAfter(o) \in [0 .. Region - 1 -> Unit \cup {Torn}]
           /\ ~IsData(o) => FlashAfter(o) = flash
  <1>1. CASE ~IsData(o)
    <2>1. Covered(o) = {}
      BY <1>1, CoveredData
    <2> QED BY <2>1, <1>1 DEF FlashAfter
  <1>2. CASE IsData(o)
    <2>1. ASSUME NEW u \in 0 .. Region - 1
          PROVE  (IF u \notin Covered(o) THEN flash[u]
                  ELSE IF o.op = "erase" THEN Erased
                  ELSE Written(flash[u], m.buf[o.buf][u - o.at])) \in Unit \cup {Torn}
      <3>1. CASE u \notin Covered(o)
        BY <3>1
      <3>2. CASE u \in Covered(o) /\ o.op = "erase"
        BY <3>2 DEF Unit
      <3>3. CASE u \in Covered(o) /\ o.op # "erase"
        <4>1. o.op = "store" /\ o.buf \in 0 .. Buffers - 1 /\ o.len \in 1 .. Chunk
              /\ o.at \in Nat
          BY <3>3, <1>2 DEF IsData, Op
        <4>2. u \in o.at .. o.at + o.len - 1
          BY <3>3, <4>1 DEF Covered
        <4>3. u - o.at \in 0 .. Chunk - 1
          <5>1. Chunk \in Nat
            BY Sizes
          <5> QED BY <4>1, <4>2, <5>1
        <4>4. m.buf \in [0 .. Buffers - 1 -> [0 .. Chunk - 1 -> Unit]]
          BY DEF Ram
        <4>5. m.buf[o.buf][u - o.at] \in Unit
          BY <4>1, <4>3, <4>4
        <4> QED BY <3>3, <4>5 DEF Written
      <3> QED BY <3>1, <3>2, <3>3
    <2> QED BY <2>1, <1>2 DEF FlashAfter
  <1> QED BY <1>1, <1>2

\* What is true of an operation when it ends.
LEMMA HeadOK ==
    ASSUME HandlerInv, fs.queue # <<>>
    PROVE  /\ fs.queue \in Seq(Op) /\ Head(fs.queue) \in Op
           /\ Head(fs.queue) = fs.queue[1] /\ 1 \in DOMAIN fs.queue
           /\ fs \in DeviceFs /\ m \in Ram /\ s \in Record
           /\ flash \in [0 .. Region - 1 -> Unit \cup {Torn}]
           /\ StoresWhole(fs.queue)
           /\ m.pending = Cardinality(DataOps(fs.queue)) /\ m.pending \in Nat
  <1>1. DeviceOK(Device) /\ flash \in [0 .. Region - 1 -> Unit \cup {Torn}]
    BY DEF HandlerInv, FlashOK
  <1>2. /\ fs.queue \in Seq(Op) /\ fs \in DeviceFs /\ m \in Ram /\ s \in Record
        /\ m.pending = Cardinality(DataOps(fs.queue)) /\ m.pending \in Nat
    BY <1>1, Parts DEF Device
  <1>3. StoresWhole(fs.queue)
    BY <1>1 DEF DeviceOK, Device
  <1>4. Head(fs.queue) = fs.queue[1] /\ 1 \in DOMAIN fs.queue /\ Head(fs.queue) \in Op
    BY <1>2
  <1> QED BY <1>1, <1>2, <1>3, <1>4

LEMMA SavedAfterOK ==
    ASSUME HandlerInv, NEW o \in Op
    PROVE  SavedAfter(o) \in {Erased, NoSettings} \/ Storable(SavedAfter(o))
  <1>1. saved \in {Erased, NoSettings} \/ Storable(saved)
    BY DEF HandlerInv, FlashOK
  <1>2. o.op = "settingsStore" => Storable(o.content)
    BY DEF Op
  <1> QED BY <1>1, <1>2 DEF SavedAfter

\* The bank that the stored settings call valid is whole.
LEMMA InstalledInv ==
    ASSUME HandlerInv, fs.queue # <<>>, NEW o, o = Head(fs.queue), o.op = "settingsStore",
           NEW c, c = SavedAfter(o), Installed(c),
           flash' = FlashAfter(o), pc' = "done", saved' = c, UNCHANGED <<s, m, fs, ctl>>
    PROVE  HandlerInv'
  <1>1. o \in Op /\ o = fs.queue[1] /\ 1 \in DOMAIN fs.queue /\ StoresWhole(fs.queue)
    BY HeadOK
  <1>2. UNCHANGED flash
    BY <1>1, HeadOK, FlashAfterOK DEF IsData
  <1>3. c = o.content /\ c \notin {Erased, NoSettings}
    BY DEF SavedAfter, Installed
  <1>4. Storable(c)
    BY <1>1, <1>3 DEF Op
  <1>5. CurrentBank(c).code = "VALID_APP"
    BY DEF Installed, CurrentBank
  <1>6. CurrentWhole(c)
    BY <1>1, <1>3, <1>5 DEF StoresWhole
  <1>7. CurrentWhole(saved)'
    BY <1>2, <1>6 DEF CurrentWhole, BankWhole, WholeAt
  <1>8. FlashOK'
    BY <1>2, <1>3, <1>4, <1>7 DEF HandlerInv, FlashOK
  <1>9. DeviceOK(Device)'
    <2>1. PICK e : e = Device
      OBVIOUS
    <2>2. DeviceOK(e) /\ s' = e.s /\ m' = e.m /\ fs' = e.fs
      BY <2>1 DEF HandlerInv, Device
    <2> QED BY <2>2, <1>2, Becoming
  <1>10. ControllerOK'
    BY DEF HandlerInv, ControllerOK, Active, Device
  <1>11. WaitOK'
    BY DEF WaitOK
  <1> QED BY <1>8, <1>9, <1>10, <1>11 DEF HandlerInv

\* Any other operation leaves the queue and, if it was one of data, the count.
LEMMA EndedInv ==
    ASSUME HandlerInv, fs.queue # <<>>, pc # "done", NEW o, o = Head(fs.queue),
           NEW ok \in BOOLEAN,
           flash' = IF ok THEN FlashAfter(o) ELSE flash,
           saved' = IF ok THEN SavedAfter(o) ELSE saved,
           fs' = FsResult(o, ok),
           m' = [m EXCEPT !.pending = @ - (IF Covered(o) # {} THEN 1 ELSE 0)],
           UNCHANGED <<s, pc, ctl>>
    PROVE  HandlerInv'
  <1> DEFINE q == fs.queue
             n == m.pending - (IF Covered(o) # {} THEN 1 ELSE 0)
  <1>1. /\ q \in Seq(Op) /\ o \in Op /\ o = q[1] /\ 1 \in DOMAIN q /\ fs \in DeviceFs
        /\ m \in Ram /\ s \in Record /\ flash \in [0 .. Region - 1 -> Unit \cup {Torn}]
        /\ StoresWhole(q) /\ m.pending = Cardinality(DataOps(q)) /\ m.pending \in Nat
    BY HeadOK
  <1>2. /\ Tail(q) \in Seq(Op)
        /\ Cardinality(DataOps(Tail(q))) = Cardinality(DataOps(q)) - (IF IsData(o) THEN 1 ELSE 0)
    BY <1>1, TailData
  <1>3. /\ fs' \in DeviceFs /\ fs'.queue = Tail(q)
    <2> HIDE DEF q
    <2> QED BY <1>1, <1>2 DEF DeviceFs, FsResult, q
  <1>4. n \in Int /\ n = Cardinality(DataOps(Tail(q)))
    <2>1. Covered(o) # {} <=> IsData(o)
      BY <1>1, CoveredData
    <2> QED BY <1>1, <1>2, <2>1
  <1>5. /\ m' \in Ram /\ m'.pending = n /\ m'.valid = m.valid /\ m'.packet = m.packet
        /\ m'.size_req = m.size_req /\ m'.start = m.start
    <2>1. m' = [m EXCEPT !.pending = n]
      OBVIOUS
    <2> HIDE DEF n
    <2> QED BY <2>1, <1>1, <1>4 DEF Ram
  <1> HIDE DEF n
  <1>6. Device' = [s |-> s, m |-> m', fs |-> fs']
    BY DEF Device
  <1>7. Device' \in DeviceType
    BY <1>1, <1>3, <1>5, <1>6 DEF DeviceType
  <1>8. ~IsData(o) => UNCHANGED flash
    BY <1>1, FlashAfterOK
  <1>9. StoresWhole(fs.queue)'
    <2>1. PICK r : r = Tail(q)
      OBVIOUS
    <2>2. StoresWhole(r)'
      <3>1. CASE ~IsData(o)
        <4>1. StoresWhole(r)
          BY <1>1, <2>1, TailStores
        <4>2. UNCHANGED flash
          BY <3>1, <1>8
        <4> QED BY <4>1, <4>2 DEF StoresWhole, CurrentWhole, BankWhole, WholeAt
      <3>2. CASE IsData(o)
        <4>1. ASSUME NEW j \in DOMAIN r, r[j].op = "settingsStore",
                     CurrentBank(r[j].content).code = "VALID_APP"
              PROVE  FALSE
          <5>1. r[j] = q[j + 1] /\ j + 1 \in DOMAIN q /\ 1 \in 1 .. (j + 1) - 1
            BY <1>1, <2>1
          <5> QED BY <5>1, <4>1, <3>2, <1>1 DEF StoresWhole
        <4> QED BY <4>1 DEF StoresWhole
      <3> QED BY <3>1, <3>2
    <2>3. fs'.queue = r
      BY <2>1, <1>3
    <2>4. SUFFICES ASSUME NEW j \in DOMAIN r, r[j].op = "settingsStore",
                          CurrentBank(r[j].content).code = "VALID_APP"
                   PROVE  /\ CurrentWhole(fs.queue[j].content)'
                          /\ \A k \in 1 .. j - 1 : ~IsData(r[k])
      BY <2>3 DEF StoresWhole
    <2>5. PICK c : c = r[j].content
      OBVIOUS
    <2>6. CurrentWhole(c)' /\ \A k \in 1 .. j - 1 : ~IsData(r[k])
      BY <2>2, <2>4, <2>5 DEF StoresWhole, CurrentWhole, BankWhole, WholeAt
    <2>7. fs'.queue[j].content = c
      BY <2>3, <2>5
    <2> QED BY <2>6, <2>7 DEF CurrentWhole, BankWhole, WholeAt
  <1>10. DeviceOK(Device)'
    <2>1. DeviceOK(Device)
      BY DEF HandlerInv
    <2>2. CommandOK(s.command)' /\ NotStarted(Device)' /\ Started(Device)'
      BY <2>1, <1>5 DEF DeviceOK, NotStarted, Started, Active, Device
    <2> QED BY <2>2, <1>3, <1>4, <1>5, <1>7, <1>9 DEF DeviceOK, Device
  <1>11. FlashOK'
    <2>1. flash' \in [0 .. Region - 1 -> Unit \cup {Torn}]
      BY <1>1, FlashAfterOK
    <2>2. saved' \in {Erased, NoSettings} \/ Storable(saved')
      BY <1>1, SavedAfterOK DEF HandlerInv, FlashOK
    <2>3. (saved \in {Erased, NoSettings} \/ Storable(saved))'
      BY <2>2
    <2> QED BY <2>1, <2>3 DEF FlashOK
  <1>12. ControllerOK'
    BY <1>5 DEF HandlerInv, ControllerOK, Active, Device
  <1>13. WaitOK'
    <2>1. ASSUME pc = "waitSettings" PROVE (CurrentWhole(s) /\ DataOps(fs.queue) = {})'
      <3>1. CurrentWhole(s) /\ DataOps(q) = {}
        BY <2>1 DEF HandlerInv, WaitOK
      <3>2. ~IsData(o)
        BY <3>1, <1>1 DEF DataOps
      <3>3. DataOps(Tail(q)) = {}
        <4>1. Cardinality(DataOps(Tail(q))) = 0
          BY <3>1, <3>2, <1>2, FS_EmptySet
        <4> QED BY <4>1, <1>2, NoneLeft
      <3>4. CurrentWhole(s)'
        BY <3>1, <3>2, <1>8 DEF CurrentWhole, BankWhole, WholeAt
      <3>5. (DataOps(fs.queue))' = DataOps(Tail(q))
        BY <1>3 DEF DataOps
      <3> QED BY <3>3, <3>4, <3>5
    <2> QED BY <2>1, <1>5 DEF HandlerInv, WaitOK, Active, Device
  <1> QED BY <1>10, <1>11, <1>12, <1>13 DEF HandlerInv

LEMMA FlashResultInv == ASSUME HandlerInv, FlashResult PROVE HandlerInv'
  <1>1. fs.queue # <<>> /\ pc # "done"
    BY DEF FlashResult
  <1>2. PICK o : o = Head(fs.queue)
    OBVIOUS
  <1>3. PICK ok \in BOOLEAN :
          /\ flash' = IF ok THEN FlashAfter(o) ELSE flash
          /\ IF o.op = "settingsStore" /\ fs.reset
             THEN IF ok /\ Installed(IF ok THEN SavedAfter(o) ELSE saved)
                  THEN /\ pc' = "done" /\ saved' = (IF ok THEN SavedAfter(o) ELSE saved)
                       /\ UNCHANGED <<s, m, fs, ctl>>
                  ELSE Restart(IF ok THEN SavedAfter(o) ELSE saved)
             ELSE /\ fs' = FsResult(o, ok)
                  /\ m' = [m EXCEPT !.pending = @ - (IF Covered(o) # {} THEN 1 ELSE 0)]
                  /\ saved' = (IF ok THEN SavedAfter(o) ELSE saved)
                  /\ UNCHANGED <<s, pc, ctl>>
    BY <1>2 DEF FlashResult
  <1>4. o \in Op /\ flash \in [0 .. Region - 1 -> Unit \cup {Torn}] /\ m \in Ram
    BY <1>1, <1>2, HeadOK
  <1>5. CASE ~(o.op = "settingsStore" /\ fs.reset)
    BY <1>1, <1>2, <1>3, <1>5, EndedInv
  <1>6. CASE o.op = "settingsStore" /\ fs.reset
    <2>1. PICK c : c = IF ok THEN SavedAfter(o) ELSE saved
      OBVIOUS
    <2>2. CASE ok /\ Installed(c)
      <3>1. /\ pc' = "done" /\ saved' = c /\ UNCHANGED <<s, m, fs, ctl>>
            /\ flash' = FlashAfter(o) /\ c = SavedAfter(o)
        BY <1>3, <1>6, <2>1, <2>2
      <3> QED BY <3>1, <2>2, <1>1, <1>2, <1>6, InstalledInv
    <2>3. CASE ~(ok /\ Installed(c))
      <3>1. Restart(c)
        BY <1>3, <1>6, <2>1, <2>3
      <3>2. c \in {Erased, NoSettings} \/ Storable(c)
        BY <1>4, <2>1, SavedAfterOK DEF HandlerInv, FlashOK
      <3>3. flash' \in [0 .. Region - 1 -> Unit \cup {Torn}]
        BY <1>3, <1>4, FlashAfterOK
      <3> QED BY <3>1, <3>2, <3>3, Restarting
    <2> QED BY <2>2, <2>3
  <1> QED BY <1>5, <1>6

LEMMA ResetInv == ASSUME HandlerInv, Reset PROVE HandlerInv'
  <1>1. /\ saved \in {Erased, NoSettings} \/ Storable(saved)
        /\ flash \in [0 .. Region - 1 -> Unit \cup {Torn}]
    BY DEF HandlerInv, FlashOK
  <1>2. CASE Restart(saved) /\ UNCHANGED flash
    <2>1. PICK c : c = saved
      OBVIOUS
    <2>2. Restart(c)
      BY <1>2, <2>1
    <2> QED BY <1>1, <1>2, <2>1, <2>2, Restarting
  <1>3. CASE ~(Restart(saved) /\ UNCHANGED flash)
    <2>1. PICK c : c = IF Covered(Head(fs.queue)) = {} THEN NoSettings ELSE saved
      OBVIOUS
    <2>2. /\ flash' = [u \in DOMAIN flash |-> IF u \in Covered(Head(fs.queue))
                                              THEN Torn ELSE flash[u]]
          /\ Restart(c)
      BY <1>3, <2>1 DEF Reset
    <2>3. flash' \in [0 .. Region - 1 -> Unit \cup {Torn}]
      BY <1>1, <2>2
    <2>4. c \in {Erased, NoSettings} \/ Storable(c)
      BY <1>1, <2>1
    <2> QED BY <2>2, <2>3, <2>4, Restarting
  <1> QED BY <1>2, <1>3

\* The link goes, and the device stays as it is.
LEMMA LinkLossInv == ASSUME HandlerInv, LinkLoss PROVE HandlerInv'
  <1>1. /\ pc # "done" /\ ctl' = NoLink /\ UNCHANGED <<flash, saved, s, m, fs, pc>>
    BY DEF LinkLoss
  <1>2. ControllerOK'
    BY <1>1 DEF ControllerOK, NoLink, Steps, DataSteps
  <1>3. DeviceOK(Device)' /\ FlashOK'
    <2>1. PICK e : e = Device
      OBVIOUS
    <2>2. DeviceOK(e) /\ s' = e.s /\ m' = e.m /\ fs' = e.fs
      BY <2>1, <1>1 DEF HandlerInv, Device
    <2>3. DeviceOK(Device)'
      BY <2>2, <1>1, Becoming
    <2> QED BY <2>3, <1>1, Elsewhere
  <1>4. WaitOK'
    BY <1>1 DEF HandlerInv, WaitOK, NoLink, Active, Device, CurrentWhole, BankWhole, WholeAt
  <1> QED BY <1>2, <1>3, <1>4 DEF HandlerInv

LEMMA StutterInv == ASSUME HandlerInv, UNCHANGED vars PROVE HandlerInv'
  <1>1. UNCHANGED <<flash, saved, s, m, fs, pc, ctl>>
    BY DEF vars
  <1>2. DeviceOK(Device)'
    <2>1. PICK e : e = Device
      OBVIOUS
    <2>2. DeviceOK(e) /\ s' = e.s /\ m' = e.m /\ fs' = e.fs
      BY <2>1, <1>1 DEF HandlerInv, Device
    <2> QED BY <2>2, <1>1, Becoming
  <1>3. CurrentWhole(saved)' <=> CurrentWhole(saved)
    BY <1>1 DEF CurrentWhole, BankWhole, WholeAt
  <1>4. FlashOK'
    BY <1>1, <1>3 DEF HandlerInv, FlashOK
  <1>5. ControllerOK'
    BY <1>1 DEF HandlerInv, ControllerOK, Active, Device
  <1>6. WaitOK'
    BY <1>1 DEF HandlerInv, WaitOK, Active, Device, CurrentWhole, BankWhole, WholeAt
  <1> QED BY <1>2, <1>4, <1>5, <1>6 DEF HandlerInv

LEMMA InitHandler == Init => HandlerInv
  <1>1. SUFFICES ASSUME Init PROVE HandlerInv
    OBVIOUS
  <1>2. Storable(s) /\ s.command = NoCommand
    <2>1. [code |-> "VALID_APP", crc |-> Factory, size |-> Size[Factory]] \in AnyBank
      BY Sizes DEF AnyBank, Crcs
    <2>2. NoBank \in AnyBank /\ NoCommand \in Command /\ NoProgress \in Progress
      BY DEF NoBank, AnyBank, NoCommand, Command, NoProgress, Progress, Crcs
    <2>3. Start \in Record /\ Start.command = NoCommand
      BY <2>1, <2>2 DEF Start, Zero, Record
    <2> QED BY <1>1, <2>3 DEF Init, Storable
  <1>3. m = FreshRam /\ fs = FreshFs /\ saved = s /\ pc = "idle" /\ ctl = NoLink
    BY <1>1 DEF Init
  <1>4. DeviceOK(Device)
    <2>1. Device \in DeviceType
      BY <1>2, <1>3, FreshOK DEF Device, DeviceType, Storable
    <2>2. CommandOK(s.command) /\ NotStarted(Device) /\ Started(Device)
      BY <1>2, <1>3, Sizes, FreshOK
         DEF Device, NoCommand, CommandOK, NotStarted, Started, Active
    <2> QED BY <2>1, <2>2, <1>3, FreshOK DEF DeviceOK, Device
  <1>5. FlashOK
    <2>1. ASSUME NEW u \in 0 .. Region - 1
          PROVE  (IF u < Size[Factory] THEN <<Factory, u>> ELSE Erased) \in Unit \cup {Torn}
      BY Sizes DEF Unit
    <2>2. flash = [u \in 0 .. Region - 1 |-> IF u < Size[Factory] THEN <<Factory, u>>
                                                          ELSE Erased]
      BY <1>1 DEF Init
    <2> QED BY <2>1, <2>2, <1>2, <1>3 DEF FlashOK
  <1>6. ControllerOK /\ WaitOK
    BY <1>3 DEF ControllerOK, WaitOK, NoLink, Steps, DataSteps
  <1> QED BY <1>4, <1>5, <1>6 DEF HandlerInv

LEMMA NextHandler == HandlerInv /\ [Next]_vars => HandlerInv'
  <1>1. SUFFICES ASSUME HandlerInv, [Next]_vars PROVE HandlerInv'
    OBVIOUS
  <1>2. CASE Connect
    BY <1>1, <1>2, ConnectInv
  <1>3. CASE SelectCommand
    BY <1>1, <1>3, SelectCommandInv
  <1>4. CASE SendCommandCreate
    BY <1>1, <1>4, SendCommandCreateInv
  <1>5. CASE SendCommandWrite
    BY <1>1, <1>5, SendCommandWriteInv
  <1>6. CASE SendCommandExecute
    BY <1>1, <1>6, SendCommandExecuteInv
  <1>7. CASE SelectData
    BY <1>1, <1>7, SelectDataInv
  <1>8. CASE SendDataCreate
    BY <1>1, <1>8, SendDataCreateInv
  <1>9. CASE SendDataWrite
    BY <1>1, <1>9, SendDataWriteInv
  <1>10. CASE AskCrc
    BY <1>1, <1>10, AskCrcInv
  <1>11. CASE SendDataExecute
    BY <1>1, <1>11, SendDataExecuteInv
  <1>12. CASE PendingDone
    BY <1>1, <1>12, PendingDoneInv
  <1>13. CASE SettingsRetry
    BY <1>1, <1>13, SettingsRetryInv
  <1>14. CASE FlashResult
    BY <1>1, <1>14, FlashResultInv
  <1>15. CASE Reset
    BY <1>1, <1>15, ResetInv
  <1>16. CASE LinkLoss
    BY <1>1, <1>16, LinkLossInv
  <1>17. CASE UNCHANGED vars
    BY <1>1, <1>17, StutterInv
  <1> QED BY <1>1, <1>2, <1>3, <1>4, <1>5, <1>6, <1>7, <1>8, <1>9, <1>10, <1>11, <1>12, <1>13,
             <1>14, <1>15, <1>16, <1>17 DEF Next, Controller, Finished

-----------------------------------------------------------------------------
(* The theorems.                                                           *)

\* The request handler's invariant: what the device has in its settings and
\* its RAM fits to the request that the controller makes next, whatever the
\* sizes and however flash operations fail (dfu_req_handling.c).
THEOREM HandlerInvariant == Spec => []HandlerInv
  <1>1. Init => HandlerInv
    BY InitHandler
  <1>2. HandlerInv /\ [Next]_vars => HandlerInv'
    BY NextHandler
  <1> QED BY <1>1, <1>2, PTL DEF Spec

\* nrf_dfu_postvalidate is never reached while operations on the image are on
\* their way: the count of on_data_write_request_* and dfu_data_write_handler
\* is that of the data operations that are queued.
THEOREM PendingCorrect == Spec => []PendingCounted
  <1>1. HandlerInv => PendingCounted
    <2>1. SUFFICES ASSUME HandlerInv PROVE PendingCounted
      OBVIOUS
    <2>2. fs.queue \in Seq(Op) /\ m.pending = Cardinality(DataOps(fs.queue))
      <3>1. DeviceOK(Device)
        BY <2>1 DEF HandlerInv
      <3> QED BY <3>1, Parts DEF Device
    <2>3. \A j \in DOMAIN fs.queue : Covered(fs.queue[j]) # {} <=> IsData(fs.queue[j])
      BY <2>2, CoveredData
    <2>4. DataOps(fs.queue) = {j \in DOMAIN fs.queue : Covered(fs.queue[j]) # {}}
      BY <2>3 DEF DataOps
    <2> QED BY <2>2, <2>4 DEF PendingCounted
  <1> QED BY <1>1, HandlerInvariant, PTL

\* The bootloader only goes on with an application that is whole in flash and
\* carries the CRC that was computed while it was received, whatever was
\* overrun, refused, reset or failed before (nrf_dfu_postvalidate).
THEOREM InstalledCorrect == Spec => []InstalledIsWhole
  <1>1. HandlerInv => InstalledIsWhole
    <2>1. SUFFICES ASSUME HandlerInv, pc = "done"
                   PROVE  BankWhole(IF saved.current = 0 THEN saved.bank0 ELSE saved.bank1,
                                    PlaceOf(saved))
      BY DEF InstalledIsWhole
    <2> QED BY <2>1 DEF HandlerInv, FlashOK, CurrentWhole, CurrentBank
  <1> QED BY <1>1, HandlerInvariant, PTL

-----------------------------------------------------------------------------
(* The transport.                                                          *)

LEMMA TransportStep == [TransportNext]_transportVars => [Next]_vars
  <1>1. SUFFICES ASSUME [TransportNext]_transportVars PROVE Next \/ UNCHANGED vars
    OBVIOUS
  <1>2. CASE LinkUp
    BY <1>2 DEF LinkUp, Next
  <1>3. CASE SetReceiptNotif
    BY <1>3 DEF SetReceiptNotif
  <1>4. CASE Request
    BY <1>4 DEF Request, CreateRequest, OtherRequest, Packet, Next, Controller
  <1>5. CASE HandlerGoesOn
    BY <1>5 DEF HandlerGoesOn, Next
  <1>6. CASE Result
    BY <1>6 DEF Result, Next
  <1>7. CASE DeviceReset
    BY <1>7 DEF DeviceReset, Next
  <1>8. CASE LinkDown
    BY <1>8 DEF LinkDown, Next
  <1>9. CASE KeepsWaiting \/ UNCHANGED transportVars
    BY <1>9 DEF KeepsWaiting, transportVars, vars
  <1>10. CASE Finished /\ UNCHANGED <<notif, flow>>
    BY <1>10 DEF Finished
  <1> QED BY <1>1, <1>2, <1>3, <1>4, <1>5, <1>6, <1>7, <1>8, <1>9, <1>10 DEF TransportNext

\* Requests, answers and receipts that go over BLE make no step of the handler
\* that it could not make on its own, so that all of the above holds of the
\* device behind nrf_ble_dfu.c: lost notifications and receipts that are not
\* due only make the controller wait or drop the link.
THEOREM TransportRefines == TransportSpec => Spec
  <1>1. TransportInit => Init
    BY DEF TransportInit
  <1>2. [TransportNext]_transportVars => [Next]_vars
    BY TransportStep
  <1> QED BY <1>1, <1>2, PTL DEF TransportSpec, Spec

-----------------------------------------------------------------------------
(* A controller that the flash keeps up with: what is saved is stored.     *)

\* Operations a to z of the queue leave unit x alone.
Untouched(q, a, z, x) == \A j \in a .. z : x \notin Covered(q[j])

\* Once the operations before the n-th are done, unit x is erased, ...
Clean(f, q, n, x) ==
    \/ f[x] = Erased /\ Untouched(q, 1, n - 1, x)
    \/ \E j \in 1 .. n - 1 :
          q[j].op = "erase" /\ x \in Covered(q[j]) /\ Untouched(q, j + 1, n - 1, x)

\* ... or it holds v.
Holds(f, q, b, n, x, v) ==
    \/ f[x] = v /\ Untouched(q, 1, n - 1, x)
    \/ \E j \in 1 .. n - 1 :
          /\ q[j].op = "store" /\ x \in Covered(q[j])
          /\ b[q[j].buf][x - q[j].at] = v
          /\ Clean(f, q, j, x) /\ Untouched(q, j + 1, n - 1, x)

\* The units that settings say something about, each with what it holds.
ImageAt(i, at, n) == {<<at + k, <<i, k>>>> : k \in 0 .. n - 1}

BankClaims(b, at) == IF b.code = "VALID_APP" THEN ImageAt(b.crc, at, b.size) ELSE {}

ProgressClaims(r) ==
    IF r.progress.crc_last \in Images
    THEN ImageAt(r.progress.crc_last, PlaceOf(r), r.progress.last) ELSE {}

Claims(r) ==
    BankClaims(r.bank0, 0) \cup BankClaims(r.bank1, AlignToPage(r.bank0.size))
    \cup ProgressClaims(r)

\* A valid bank is one of an image, and all that is claimed lies in the region.
Known(b) == b.code = "VALID_APP" => b.crc \in Images /\ b.size = Size[b.crc]

Sound(r) == Known(r.bank0) /\ Known(r.bank1) /\ \A c \in Claims(r) : c[1] < Region

\* Settings are written at the end of an object or of an update, and the image
\* that is being received fits in its place.
Writable(r) ==
    LET p == r.progress IN
    /\ p.object = 0 /\ p.offset = p.last /\ p.crc = p.crc_last /\ r.write_offset = p.last
    /\ Sound(r)
    /\ r.command # NoCommand => PlaceOf(r) + CurrentBank(r).size <= Region

\* The progress that r records is that of the update that goes on in d.
SameUpdate(d, r) ==
    Active(d) =>
        /\ r.current = d.s.current /\ r.bank0.code = d.s.bank0.code
        /\ r.bank0.size = d.s.bank0.size /\ r.bank1.code = d.s.bank1.code
        /\ r.progress.last <= d.s.progress.last

\* No operation has failed, and at most one write of the settings is under way.
QueueFine(d) ==
    LET q == d.fs.queue IN
    /\ ~d.fs.failure
    /\ d.fs.barrier <=> \E j \in DOMAIN q : q[j].op = "settingsStore"
    /\ \A j, k \in DOMAIN q :
          q[j].op = "settingsStore" /\ q[k].op = "settingsStore" => j = k

\* The buffer of a store in the queue is one that was current before, no longer
\* ago than there are operations since.
BuffersBehind(d) ==
    LET q == d.fs.queue IN
    \A j \in DOMAIN q :
        q[j].op = "store" =>
            \E n \in 1 .. Len(q) - j + 1 : (q[j].buf + n) % Buffers = d.m.cur

\* Once the queue is empty ...
AfterAll(d) == Len(d.fs.queue) + 1

\* ... unit x of the region is erased, or holds v.
WillBeClean(f, d, x) == Clean(f, d.fs.queue, AfterAll(d), x)

WillHold(f, d, x, v) == Holds(f, d.fs.queue, d.m.buf, AfterAll(d), x, v)

SettingsTrue(f, d) ==
    /\ Sound(d.s)
    /\ \A c \in Claims(d.s) : WillHold(f, d, c[1], c[2])
    /\ d.s.bank1.code = "VALID_APP" => d.s.current = 1

\* An object in progress: its data are in flash or on their way up to
\* write_offset, and in the current buffer behind it; what follows in the
\* object is erased or will be.
ObjectTrue(f, d) ==
    LET p == d.s.progress
        w == d.s.write_offset IN
    /\ p.last <= w
    /\ \A k \in w .. (p.last + p.object) - 1 : WillBeClean(f, d, d.m.start + k)
    /\ p.crc \in Images =>
          /\ \A k \in 0 .. w - 1 : WillHold(f, d, d.m.start + k, <<p.crc, k>>)
          /\ p.object > 0 =>
                \A k \in 0 .. d.m.pos - 1 : d.m.buf[d.m.cur][k] = <<p.crc, w + k>>

\* Between requests all that was received is there, and a full object is stored.
Counted(d) ==
    LET p == d.s.progress
        w == d.s.write_offset IN
    /\ p.object = 0 => p.offset = p.last /\ w = p.last
    /\ p.object > 0 => /\ p.offset = w + d.m.pos /\ d.m.pos < Chunk
                       /\ d.m.pos > 0 => p.offset < p.last + p.object

Receiving(f, d) ==
    Active(d) => ObjectTrue(f, d) /\ Counted(d) /\ d.m.start + d.m.size_req <= Region

\* Settings in the queue: when they are written, what they say is stored.
WritesTrue(f, d) ==
    LET q == d.fs.queue IN
    \A j \in DOMAIN q :
        q[j].op = "settingsStore" =>
            LET r == q[j].content IN
            /\ Writable(r) /\ SameUpdate(d, r)
            /\ r.bank1.code = "VALID_APP" => d.fs.reset /\ r.current = 1
            /\ \A c \in Claims(r) :
                  Holds(f, q, d.m.buf, j, c[1], c[2]) /\ Untouched(q, j, Len(q), c[1])

\* Settings in flash: the same, up to their erasure.
PageTrue(f, r) == Writable(r) /\ \A c \in Claims(r) : f[c[1]] = c[2]

EraseFirst(q) == q # <<>> /\ q[1].op = "settingsErase"

PageKept(d, r) ==
    LET q == d.fs.queue IN
    ~EraseFirst(q) =>
        SameUpdate(d, r) /\ \A c \in Claims(r) : Untouched(q, 1, Len(q), c[1])

Standing(f, d) ==
    QueueFine(d) /\ BuffersBehind(d) /\ SettingsTrue(f, d) /\ WritesTrue(f, d)

PacedDevice(f, d) == Standing(f, d) /\ Receiving(f, d)

PacedInv ==
    /\ IsRecord(saved) => PageTrue(flash, saved)
    /\ pc # "done" =>
          /\ PacedDevice(flash, Device)
          /\ IsRecord(saved) => PageKept(Device, saved) /\ saved.bank1.code = "INVALID"
          /\ pc = "waitSettings" => s.command = NoCommand /\ Writable(s)
          /\ s.bank1.code = "VALID_APP" =>
                pc = "waitSettings" \/ (fs.barrier /\ fs.reset)

-----------------------------------------------------------------------------
(* What the operations of a queue leave in a unit.                         *)

\* It is a matter of the operations before the n-th alone, ...
LEMMA SameBefore ==
    ASSUME NEW f, NEW q, NEW r, NEW n \in Nat, NEW x,
           \A j \in 1 .. n - 1 : r[j] = q[j]
    PROVE  /\ Clean(f, q, n, x) => Clean(f, r, n, x)
           /\ \A b, v : Holds(f, q, b, n, x, v) => Holds(f, r, b, n, x, v)
  <1>1. \A k \in 1 .. n - 1 : Clean(f, q, k, x) => Clean(f, r, k, x)
    <2>1. SUFFICES ASSUME NEW k \in 1 .. n - 1, Clean(f, q, k, x) PROVE Clean(f, r, k, x)
      OBVIOUS
    <2>2. \A j \in 1 .. k - 1 : r[j] = q[j]
      OBVIOUS
    <2> QED BY <2>1, <2>2 DEF Clean, Untouched
  <1>2. Clean(f, q, n, x) => Clean(f, r, n, x)
    BY DEF Clean, Untouched
  <1>3. ASSUME NEW b, NEW v, Holds(f, q, b, n, x, v) PROVE Holds(f, r, b, n, x, v)
    <2>1. CASE f[x] = v /\ Untouched(q, 1, n - 1, x)
      BY <2>1 DEF Holds, Untouched
    <2>2. ASSUME NEW j \in 1 .. n - 1,
                 q[j].op = "store" /\ x \in Covered(q[j]),
                 b[q[j].buf][x - q[j].at] = v,
                 Clean(f, q, j, x), Untouched(q, j + 1, n - 1, x)
          PROVE  Holds(f, r, b, n, x, v)
      <3>1. r[j] = q[j] /\ Untouched(r, j + 1, n - 1, x)
        BY <2>2 DEF Untouched
      <3> QED BY <3>1, <2>2, <1>1 DEF Holds
    <2> QED BY <1>3, <2>1, <2>2 DEF Holds
  <1> QED BY <1>2, <1>3

\* ... and the n-th leaves it, erases it, or stores to it.
LEMMA OneMore ==
    ASSUME NEW f, NEW q, NEW b, NEW n \in Nat \ {0}, NEW x, NEW v
    PROVE  /\ x \notin Covered(q[n]) /\ Clean(f, q, n, x) => Clean(f, q, n + 1, x)
           /\ x \notin Covered(q[n]) /\ Holds(f, q, b, n, x, v) => Holds(f, q, b, n + 1, x, v)
           /\ q[n].op = "erase" /\ x \in Covered(q[n]) => Clean(f, q, n + 1, x)
           /\ /\ q[n].op = "store" /\ x \in Covered(q[n])
              /\ Clean(f, q, n, x) /\ b[q[n].buf][x - q[n].at] = v
              => Holds(f, q, b, n + 1, x, v)
  <1>1. (n + 1) - 1 = n /\ n \in 1 .. n /\ 1 .. n = (1 .. n - 1) \cup {n}
    OBVIOUS
  <1>2. \A a \in 1 .. n : Untouched(q, a, n - 1, x) /\ x \notin Covered(q[n])
                            => Untouched(q, a, n, x)
    <2>1. \A a \in 1 .. n : a .. n = (a .. n - 1) \cup {n}
      OBVIOUS
    <2> QED BY <2>1 DEF Untouched
  <1>3. Untouched(q, n + 1, n, x)
    BY DEF Untouched
  <1>4. ASSUME x \notin Covered(q[n]), Clean(f, q, n, x) PROVE Clean(f, q, n + 1, x)
    <2>1. CASE f[x] = Erased /\ Untouched(q, 1, n - 1, x)
      BY <2>1, <1>1, <1>2, <1>4 DEF Clean
    <2>2. ASSUME NEW j \in 1 .. n - 1, q[j].op = "erase" /\ x \in Covered(q[j]),
                 Untouched(q, j + 1, n - 1, x)
          PROVE  Clean(f, q, n + 1, x)
      <3>1. Untouched(q, j + 1, n, x) /\ j \in 1 .. n
        BY <1>2, <1>4, <2>2
      <3> QED BY <3>1, <2>2, <1>1 DEF Clean
    <2> QED BY <1>4, <2>1, <2>2 DEF Clean
  <1>5. ASSUME x \notin Covered(q[n]), Holds(f, q, b, n, x, v)
        PROVE  Holds(f, q, b, n + 1, x, v)
    <2>1. CASE f[x] = v /\ Untouched(q, 1, n - 1, x)
      BY <2>1, <1>1, <1>2, <1>5 DEF Holds
    <2>2. ASSUME NEW j \in 1 .. n - 1, q[j].op = "store" /\ x \in Covered(q[j]),
                 b[q[j].buf][x - q[j].at] = v, Clean(f, q, j, x),
                 Untouched(q, j + 1, n - 1, x)
          PROVE  Holds(f, q, b, n + 1, x, v)
      <3>1. Untouched(q, j + 1, n, x) /\ j \in 1 .. n
        BY <1>2, <1>5, <2>2
      <3> QED BY <3>1, <2>2, <1>1 DEF Holds
    <2> QED BY <1>5, <2>1, <2>2 DEF Holds
  <1>6. ASSUME q[n].op = "erase" /\ x \in Covered(q[n]) PROVE Clean(f, q, n + 1, x)
    BY <1>1, <1>3, <1>6 DEF Clean
  <1>7. ASSUME q[n].op = "store" /\ x \in Covered(q[n]), Clean(f, q, n, x),
               b[q[n].buf][x - q[n].at] = v
        PROVE  Holds(f, q, b, n + 1, x, v)
    BY <1>1, <1>3, <1>7 DEF Holds
  <1> QED BY <1>4, <1>5, <1>6, <1>7

\* Holding does not depend on buffers that the queue does not store.
LEMMA OtherBuffers ==
    ASSUME NEW f, NEW q, NEW b, NEW c, NEW n \in Nat, NEW x, NEW v,
           \A j \in 1 .. n - 1 : q[j].op = "store" /\ x \in Covered(q[j]) =>
               c[q[j].buf][x - q[j].at] = b[q[j].buf][x - q[j].at],
           Holds(f, q, b, n, x, v)
    PROVE  Holds(f, q, c, n, x, v)
  BY DEF Holds

\* What holds up to the n-th operation and is left alone from then on holds
\* in the end.
LEMMA LeftAlone ==
    ASSUME NEW f, NEW q, NEW b, NEW n \in Nat \ {0}, NEW z \in Nat, n <= z + 1, NEW x, NEW v,
           Holds(f, q, b, n, x, v), Untouched(q, n, z, x)
    PROVE  Holds(f, q, b, z + 1, x, v)
  <1>1. \A a \in 1 .. n : Untouched(q, a, n - 1, x) => Untouched(q, a, z, x)
    <2>1. \A a \in 1 .. n : a .. z = (a .. n - 1) \cup (n .. z)
      OBVIOUS
    <2> QED BY <2>1 DEF Untouched
  <1>2. (z + 1) - 1 = z /\ 1 \in 1 .. n
    OBVIOUS
  <1>3. CASE f[x] = v /\ Untouched(q, 1, n - 1, x)
    BY <1>1, <1>2, <1>3 DEF Holds
  <1>4. ASSUME NEW j \in 1 .. n - 1, q[j].op = "store" /\ x \in Covered(q[j]),
               b[q[j].buf][x - q[j].at] = v, Clean(f, q, j, x),
               Untouched(q, j + 1, n - 1, x)
        PROVE  Holds(f, q, b, z + 1, x, v)
    <2>1. Untouched(q, j + 1, z, x) /\ j \in 1 .. z
      BY <1>1, <1>4
    <2> QED BY <2>1, <1>2, <1>4 DEF Holds
  <1> QED BY <1>3, <1>4 DEF Holds

LEMMA TailShift ==
    ASSUME NEW q \in Seq(Op), q # <<>>
    PROVE  /\ Tail(q) \in Seq(Op) /\ Len(q) \in Nat \ {0} /\ Len(Tail(q)) = Len(q) - 1
           /\ DOMAIN Tail(q) = 1 .. Len(q) - 1 /\ DOMAIN q = 1 .. Len(q)
           /\ \A j \in 1 .. Len(q) - 1 : Tail(q)[j] = q[j + 1]
           /\ \A x : \A a \in Nat \ {0}, z \in 0 .. Len(q) - 1 :
                 Untouched(q, a + 1, z + 1, x) <=> Untouched(Tail(q), a, z, x)
  <1> DEFINE r == Tail(q)
  <1>1. /\ r \in Seq(Op) /\ Len(q) \in Nat \ {0} /\ Len(r) = Len(q) - 1
        /\ DOMAIN r = 1 .. Len(q) - 1 /\ DOMAIN q = 1 .. Len(q)
        /\ \A j \in 1 .. Len(q) - 1 : r[j] = q[j + 1]
    OBVIOUS
  <1> HIDE DEF r
  <1>2. ASSUME NEW x, NEW a \in Nat \ {0}, NEW z \in 0 .. Len(q) - 1
        PROVE  Untouched(q, a + 1, z + 1, x) <=> Untouched(r, a, z, x)
    <2>1. ASSUME Untouched(q, a + 1, z + 1, x), NEW j \in a .. z
          PROVE  x \notin Covered(r[j])
      <3>1. j + 1 \in a + 1 .. z + 1 /\ r[j] = q[j + 1]
        BY <1>1, <2>1
      <3> QED BY <3>1, <2>1 DEF Untouched
    <2>2. ASSUME Untouched(r, a, z, x), NEW j \in a + 1 .. z + 1
          PROVE  x \notin Covered(q[j])
      <3>1. j - 1 \in a .. z /\ r[j - 1] = q[j]
        <4>1. j - 1 \in 1 .. Len(q) - 1 /\ (j - 1) + 1 = j /\ j - 1 \in a .. z
          BY <1>1, <2>2
        <4> QED BY <4>1, <1>1
      <3> QED BY <3>1, <2>2 DEF Untouched
    <2> QED BY <2>1, <2>2 DEF Untouched
  <1> QED BY <1>1, <1>2 DEF r

\* When the first operation is done, the rest of the queue has the rest to do.
LEMMA FirstDone ==
    ASSUME NEW f, NEW g, NEW q \in Seq(Op), q # <<>>, NEW b, NEW x, NEW v,
           x \notin Covered(q[1]) => g[x] = f[x],
           x \in Covered(q[1]) /\ q[1].op = "erase" => g[x] = Erased,
           /\ x \in Covered(q[1]) /\ q[1].op = "store" /\ f[x] = Erased
           => g[x] = b[q[1].buf][x - q[1].at],
           NEW n \in 1 .. Len(q)
    PROVE  /\ Clean(f, q, n + 1, x) => Clean(g, Tail(q), n, x)
           /\ Holds(f, q, b, n + 1, x, v) => Holds(g, Tail(q), b, n, x, v)
           /\ Holds(f, q, b, 1, x, v) /\ Untouched(q, 1, Len(q), x)
              => g[x] = v /\ Untouched(Tail(q), 1, Len(Tail(q)), x)
  <1> DEFINE r == Tail(q)
  <1>1. /\ Len(q) \in Nat \ {0} /\ Len(r) = Len(q) - 1
        /\ \A j \in 1 .. Len(q) - 1 : r[j] = q[j + 1]
        /\ \A a \in Nat \ {0}, z \in 0 .. Len(q) - 1 :
                 Untouched(q, a + 1, z + 1, x) => Untouched(r, a, z, x)
    BY TailShift
  <1> HIDE DEF r
  <1>2. \A a \in Nat \ {0}, k \in 1 .. Len(q) :
           Untouched(q, a + 1, k, x) => Untouched(r, a, k - 1, x)
    <2>1. SUFFICES ASSUME NEW a \in Nat \ {0}, NEW k \in 1 .. Len(q), Untouched(q, a + 1, k, x)
                   PROVE  Untouched(r, a, k - 1, x)
      OBVIOUS
    <2>2. k - 1 \in 0 .. Len(q) - 1 /\ (k - 1) + 1 = k
      BY <1>1
    <2> QED BY <1>1, <2>1, <2>2
  <1>3. \A k \in 1 .. Len(q) : Untouched(q, 1, k, x)
                                 => x \notin Covered(q[1]) /\ Untouched(r, 1, k - 1, x)
    <2>1. SUFFICES ASSUME NEW k \in 1 .. Len(q), Untouched(q, 1, k, x)
                   PROVE  x \notin Covered(q[1]) /\ Untouched(r, 1, k - 1, x)
      OBVIOUS
    <2>2. 1 \in 1 .. k /\ 1 + 1 .. k \subseteq 1 .. k
      BY <1>1
    <2>3. x \notin Covered(q[1]) /\ Untouched(q, 1 + 1, k, x)
      BY <2>1, <2>2 DEF Untouched
    <2> QED BY <2>3, <1>2
  <1>4. ASSUME NEW k \in 1 .. Len(q), Clean(f, q, k + 1, x) PROVE Clean(g, r, k, x)
    <2>0. (k + 1) - 1 = k /\ k - 1 \in 0 .. Len(q) - 1 /\ k \in Nat
      BY <1>1
    <2>1. CASE f[x] = Erased /\ Untouched(q, 1, k, x)
      BY <2>1, <1>3 DEF Clean
    <2>2. ASSUME NEW j \in 1 .. k, q[j].op = "erase", x \in Covered(q[j]),
                 Untouched(q, j + 1, k, x)
          PROVE  Clean(g, r, k, x)
      <3>1. CASE j = 1
        BY <3>1, <2>2, <1>2 DEF Clean
      <3>2. CASE j # 1
        <4>1. j - 1 \in 1 .. k - 1 /\ (j - 1) + 1 = j /\ j - 1 \in 1 .. Len(q) - 1
              /\ j - 1 \in Nat \ {0} /\ j \in Nat \ {0}
          BY <2>0, <2>2, <3>2, <1>1
        <4>2. r[j - 1] = q[j]
          BY <4>1, <1>1
        <4>3. Untouched(r, j, k - 1, x)
          BY <4>1, <2>2, <1>2
        <4> QED BY <4>1, <4>2, <4>3, <2>2 DEF Clean
      <3> QED BY <3>1, <3>2
    <2> QED BY <1>4, <2>0, <2>1, <2>2 DEF Clean
  <1>5. ASSUME NEW k \in 1 .. Len(q), Holds(f, q, b, k + 1, x, v) PROVE Holds(g, r, b, k, x, v)
    <2>0. (k + 1) - 1 = k /\ k - 1 \in 0 .. Len(q) - 1 /\ k \in Nat
      BY <1>1
    <2>1. CASE f[x] = v /\ Untouched(q, 1, k, x)
      BY <2>1, <1>3 DEF Holds
    <2>2. ASSUME NEW j \in 1 .. k, q[j].op = "store", x \in Covered(q[j]),
                 b[q[j].buf][x - q[j].at] = v, Clean(f, q, j, x),
                 Untouched(q, j + 1, k, x)
          PROVE  Holds(g, r, b, k, x, v)
      <3>1. CASE j = 1
        <4>1. f[x] = Erased
          BY <3>1, <2>2 DEF Clean
        <4> QED BY <3>1, <4>1, <2>2, <1>2 DEF Holds
      <3>2. CASE j # 1
        <4>1. j - 1 \in 1 .. k - 1 /\ (j - 1) + 1 = j /\ j - 1 \in 1 .. Len(q)
              /\ j - 1 \in 1 .. Len(q) - 1 /\ j - 1 \in Nat \ {0} /\ j \in Nat \ {0}
          BY <2>0, <2>2, <3>2, <1>1
        <4>2. r[j - 1] = q[j]
          BY <4>1, <1>1
        <4>3. Untouched(r, j, k - 1, x)
          BY <4>1, <2>2, <1>2
        <4>4. Clean(g, r, j - 1, x)
          BY <4>1, <2>2, <1>4
        <4> QED BY <4>1, <4>2, <4>3, <4>4, <2>2 DEF Holds
      <3> QED BY <3>1, <3>2
    <2> QED BY <1>5, <2>0, <2>1, <2>2 DEF Holds
  <1>6. ASSUME Holds(f, q, b, 1, x, v), Untouched(q, 1, Len(q), x)
        PROVE  g[x] = v /\ Untouched(r, 1, Len(r), x)
    <2>1. f[x] = v
      BY <1>6 DEF Holds
    <2> QED BY <2>1, <1>1, <1>3, <1>6
  <1> QED BY <1>4, <1>5, <1>6 DEF r

-----------------------------------------------------------------------------
(* A device that queues an operation.                                      *)

LEMMA AppendIndex ==
    ASSUME NEW q \in Seq(Op), NEW o \in Op
    PROVE  /\ Append(q, o) \in Seq(Op) /\ Len(q) \in Nat /\ Len(Append(q, o)) = Len(q) + 1
           /\ DOMAIN Append(q, o) = 1 .. Len(q) + 1 /\ DOMAIN q = 1 .. Len(q)
           /\ Append(q, o)[Len(q) + 1] = o
           /\ \A j \in 1 .. Len(q) : Append(q, o)[j] = q[j]
           /\ \A x : \A a \in Nat, z \in 0 .. Len(q) :
                 Untouched(q, a, z, x) /\ a > 0 => Untouched(Append(q, o), a, z, x)
           /\ \A x : \A a \in 1 .. Len(q) + 1 :
                 Untouched(q, a, Len(q), x) /\ x \notin Covered(o)
                     => Untouched(Append(q, o), a, Len(q) + 1, x)
  <1> DEFINE r == Append(q, o)
  <1>1. /\ r \in Seq(Op) /\ Len(q) \in Nat /\ Len(r) = Len(q) + 1
        /\ DOMAIN r = 1 .. Len(q) + 1 /\ DOMAIN q = 1 .. Len(q)
        /\ r[Len(q) + 1] = o /\ \A j \in 1 .. Len(q) : r[j] = q[j]
    OBVIOUS
  <1> HIDE DEF r
  <1>2. ASSUME NEW a \in Nat, NEW z \in 0 .. Len(q), NEW x, Untouched(q, a, z, x), a > 0
        PROVE  Untouched(r, a, z, x)
    <2>1. \A j \in a .. z : j \in 1 .. Len(q)
      BY <1>1, <1>2
    <2> QED BY <2>1, <1>1, <1>2 DEF Untouched
  <1>3. ASSUME NEW a \in 1 .. Len(q) + 1, NEW x, Untouched(q, a, Len(q), x), x \notin Covered(o)
        PROVE  Untouched(r, a, Len(q) + 1, x)
    <2>1. ASSUME NEW j \in a .. Len(q) + 1 PROVE x \notin Covered(r[j])
      <3>1. CASE j = Len(q) + 1
        BY <3>1, <1>1, <1>3
      <3>2. CASE j # Len(q) + 1
        <4>1. j \in a .. Len(q) /\ j \in 1 .. Len(q)
          BY <2>1, <3>2, <1>1
        <4> QED BY <4>1, <1>1, <1>3 DEF Untouched
      <3> QED BY <3>1, <3>2
    <2> QED BY <2>1 DEF Untouched
  <1> QED BY <1>1, <1>2, <1>3 DEF r

LEMMA Appended ==
    ASSUME NEW f, NEW d, NEW e, NEW o \in Op, d.fs.queue \in Seq(Op),
           e.fs.queue = Append(d.fs.queue, o), e.m.buf = d.m.buf, NEW x, NEW v
    PROVE  /\ x \notin Covered(o) /\ WillBeClean(f, d, x) => WillBeClean(f, e, x)
           /\ x \notin Covered(o) /\ WillHold(f, d, x, v) => WillHold(f, e, x, v)
           /\ o.op = "erase" /\ x \in Covered(o) => WillBeClean(f, e, x)
           /\ /\ o.op = "store" /\ x \in Covered(o)
              /\ WillBeClean(f, d, x) /\ e.m.buf[o.buf][x - o.at] = v
              => WillHold(f, e, x, v)
  <1> DEFINE q == d.fs.queue
             r == e.fs.queue
             n == Len(q) + 1
             b == e.m.buf
  <1>1. /\ Len(q) \in Nat /\ Len(r) = n /\ r[n] = o /\ n \in Nat \ {0}
        /\ \A j \in 1 .. n - 1 : r[j] = q[j]
    BY AppendIndex
  <1>2. b = d.m.buf
    OBVIOUS
  <1> HIDE DEF q, r, b
  <1>3. /\ Clean(f, q, n, x) => Clean(f, r, n, x)
        /\ Holds(f, q, b, n, x, v) => Holds(f, r, b, n, x, v)
    <2> HIDE DEF n
    <2> QED BY <1>1, SameBefore
  <1>4. /\ x \notin Covered(r[n]) /\ Clean(f, r, n, x) => Clean(f, r, n + 1, x)
        /\ x \notin Covered(r[n]) /\ Holds(f, r, b, n, x, v) => Holds(f, r, b, n + 1, x, v)
        /\ r[n].op = "erase" /\ x \in Covered(r[n]) => Clean(f, r, n + 1, x)
        /\ /\ r[n].op = "store" /\ x \in Covered(r[n])
           /\ Clean(f, r, n, x) /\ b[r[n].buf][x - r[n].at] = v
           => Holds(f, r, b, n + 1, x, v)
    <2> HIDE DEF n
    <2> QED BY <1>1, OneMore
  <1>5. /\ WillBeClean(f, d, x) <=> Clean(f, q, n, x)
        /\ WillHold(f, d, x, v) <=> Holds(f, q, b, n, x, v)
        /\ WillBeClean(f, e, x) <=> Clean(f, r, n + 1, x)
        /\ WillHold(f, e, x, v) <=> Holds(f, r, b, n + 1, x, v)
    BY <1>1, <1>2 DEF WillBeClean, WillHold, AfterAll, q, r, b
  <1> HIDE DEF n
  <1> QED BY <1>1, <1>3, <1>4, <1>5 DEF b

-----------------------------------------------------------------------------
(* What settings claim.                                                    *)

LEMMA ClaimCases ==
    ASSUME NEW r, NEW c
    PROVE  c \in Claims(r) <=>
              \/ /\ r.bank0.code = "VALID_APP"
                 /\ \E k \in 0 .. r.bank0.size - 1 : c = <<0 + k, <<r.bank0.crc, k>>>>
              \/ /\ r.bank1.code = "VALID_APP"
                 /\ \E k \in 0 .. r.bank1.size - 1 :
                       c = <<AlignToPage(r.bank0.size) + k, <<r.bank1.crc, k>>>>
              \/ /\ r.progress.crc_last \in Images
                 /\ \E k \in 0 .. r.progress.last - 1 :
                       c = <<PlaceOf(r) + k, <<r.progress.crc_last, k>>>>
  BY DEF Claims, BankClaims, ProgressClaims, ImageAt

LEMMA SameClaims ==
    ASSUME NEW r, NEW t, t.current = r.current, t.bank0 = r.bank0, t.bank1 = r.bank1,
           t.progress.last = r.progress.last, t.progress.crc_last = r.progress.crc_last
    PROVE  Claims(t) = Claims(r) /\ (Sound(t) <=> Sound(r))
  <1>1. Claims(t) = Claims(r)
    BY DEF Claims, BankClaims, ProgressClaims, PlaceOf
  <1> QED BY <1>1 DEF Sound

LEMMA RecordFields ==
    ASSUME NEW r \in Record
    PROVE  /\ r.current \in {0, 1} /\ r.bank0 \in AnyBank /\ r.bank1 \in AnyBank
           /\ r.bank0.size \in Nat /\ r.bank1.size \in Nat
           /\ r.bank0.code \in {"INVALID", "VALID_APP"}
           /\ r.bank1.code \in {"INVALID", "VALID_APP"}
           /\ AlignToPage(r.bank0.size) \in Nat /\ r.bank0.size <= AlignToPage(r.bank0.size)
           /\ PlaceOf(r) \in Nat /\ r.write_offset \in Nat
           /\ r.progress \in Progress /\ r.command \in Command
           /\ r.progress.object \in Nat /\ r.progress.offset \in Nat
           /\ r.progress.last \in Nat
  <1>1. /\ r.current \in {0, 1} /\ r.bank0 \in AnyBank /\ r.bank1 \in AnyBank
        /\ r.write_offset \in Nat /\ r.progress \in Progress /\ r.command \in Command
    BY DEF Record
  <1>2. /\ r.bank0.size \in Nat /\ r.bank1.size \in Nat
        /\ r.bank0.code \in {"INVALID", "VALID_APP"}
        /\ r.bank1.code \in {"INVALID", "VALID_APP"}
    BY <1>1 DEF AnyBank
  <1>3. AlignToPage(r.bank0.size) \in Nat /\ r.bank0.size <= AlignToPage(r.bank0.size)
    BY <1>2, AlignUp
  <1>4. PlaceOf(r) \in Nat
    BY <1>3 DEF PlaceOf
  <1>5. r.progress.object \in Nat /\ r.progress.offset \in Nat /\ r.progress.last \in Nat
    BY <1>1 DEF Progress
  <1> QED BY <1>1, <1>2, <1>3, <1>4, <1>5

LEMMA ClaimUnits ==
    ASSUME NEW r \in Record, NEW c \in Claims(r)
    PROVE  c[1] \in Nat
  <1>1. /\ r.bank0.size \in Nat /\ r.bank1.size \in Nat /\ r.progress.last \in Nat
        /\ AlignToPage(r.bank0.size) \in Nat /\ PlaceOf(r) \in Nat
    BY RecordFields
  <1> QED BY <1>1, ClaimCases

\* All that settings of the update in progress claim lies before the object
\* that is being received.
LEMMA ClaimsBehind ==
    ASSUME NEW d, DeviceOK(d), Active(d), d.s.bank1.code = "VALID_APP" => d.s.current = 1,
           NEW r \in Record, SameUpdate(d, r), NEW c \in Claims(r)
    PROVE  c[1] \in Nat /\ c[1] < d.m.start + d.s.progress.last
  <1>1. /\ r.current = d.s.current /\ r.bank0.code = d.s.bank0.code
        /\ r.bank0.size = d.s.bank0.size /\ r.bank1.code = d.s.bank1.code
        /\ r.progress.last <= d.s.progress.last
    BY DEF SameUpdate
  <1>2. /\ d.m.start = PlaceOf(d.s) /\ CurrentBank(d.s).code = "INVALID"
        /\ d.s.current = 1 => d.s.bank0.code = "VALID_APP"
    BY DEF DeviceOK, Started, Updating
  <1>3. d.s \in Record
    BY Parts
  <1>4. /\ d.s.current \in {0, 1} /\ d.s.progress.last \in Nat
    BY <1>3, RecordFields
  <1>5. /\ r.bank0.size \in Nat /\ r.progress.last \in Nat /\ PlaceOf(r) \in Nat
        /\ AlignToPage(r.bank0.size) \in Nat /\ r.bank0.size <= AlignToPage(r.bank0.size)
    BY RecordFields
  <1>6. PlaceOf(r) = d.m.start
    BY <1>1, <1>2 DEF PlaceOf
  <1>7. r.bank1.code # "VALID_APP"
    BY <1>1, <1>2, <1>4 DEF CurrentBank
  <1>8. r.bank0.code = "VALID_APP" => d.m.start = AlignToPage(r.bank0.size)
    BY <1>1, <1>2, <1>4 DEF CurrentBank, PlaceOf
  <1>9. CASE /\ r.bank0.code = "VALID_APP"
             /\ \E k \in 0 .. r.bank0.size - 1 : c = <<0 + k, <<r.bank0.crc, k>>>>
    <2>1. PICK k \in 0 .. r.bank0.size - 1 : c[1] = 0 + k
      BY <1>9
    <2> QED BY <2>1, <1>4, <1>5, <1>8, <1>9
  <1>10. CASE \E k \in 0 .. r.progress.last - 1 :
                  c = <<PlaceOf(r) + k, <<r.progress.crc_last, k>>>>
    <2>1. PICK k \in 0 .. r.progress.last - 1 : c[1] = PlaceOf(r) + k
      BY <1>10
    <2> QED BY <2>1, <1>1, <1>4, <1>5, <1>6
  <1> QED BY <1>7, <1>9, <1>10, ClaimCases

LEMMA NotCovered ==
    ASSUME NEW o \in Op, NEW x \in Nat, IsData(o) => x < o.at
    PROVE  x \notin Covered(o)
  <1>1. CASE IsData(o)
    <2>1. o.at \in Nat
      BY <1>1 DEF Op, IsData
    <2> QED BY <1>1, <2>1 DEF Covered
  <1>2. CASE ~IsData(o)
    BY <1>2 DEF Covered, IsData
  <1> QED BY <1>1, <1>2

-----------------------------------------------------------------------------
(* Queueing an operation on the data.                                      *)

LEMMA ModSucc ==
    ASSUME NEW a \in Nat
    PROVE  ((a % Buffers) + 1) % Buffers = (a + 1) % Buffers
  <1> DEFINE q == a \div Buffers
             r == a % Buffers
  <1>1. Buffers \in Nat \ {0}
    BY Sizes
  <1>2. a = Buffers * q + r /\ q \in Nat /\ r \in Nat
    BY <1>1, DivMod
  <1> HIDE DEF q, r
  <1>3. r + 1 \in Nat /\ a + 1 = Buffers * q + (r + 1)
    BY <1>1, <1>2
  <1> DEFINE t == r + 1
  <1> HIDE DEF t
  <1>4. (Buffers * q + t) % Buffers = t % Buffers
    BY <1>1, <1>2, <1>3, DivShift DEF t
  <1> QED BY <1>3, <1>4 DEF r, t

\* The buffer that is current next is behind those of the stores in the queue.
LEMMA AppendBuffers ==
    ASSUME NEW d, NEW e, NEW o \in Op, d.fs.queue \in Seq(Op), d.m.cur \in 0 .. Buffers - 1,
           BuffersBehind(d), o.op = "store" => o.buf = d.m.cur,
           e.fs.queue = Append(d.fs.queue, o), e.m.cur = (d.m.cur + 1) % Buffers
    PROVE  BuffersBehind(e)
  <1> DEFINE q == d.fs.queue
             r == e.fs.queue
  <1>1. /\ Len(q) \in Nat /\ Len(r) = Len(q) + 1 /\ DOMAIN r = 1 .. Len(q) + 1
        /\ DOMAIN q = 1 .. Len(q) /\ r[Len(q) + 1] = o
        /\ \A j \in 1 .. Len(q) : r[j] = q[j] /\ q[j] \in Op
    BY AppendIndex
  <1> HIDE DEF q, r
  <1>2. SUFFICES ASSUME NEW j \in 1 .. Len(q) + 1, r[j].op = "store"
                 PROVE  \E n \in 1 .. Len(r) - j + 1 : (r[j].buf + n) % Buffers = e.m.cur
    BY <1>1 DEF BuffersBehind, r
  <1>3. CASE j = Len(q) + 1
    <2>1. r[j].buf = d.m.cur /\ 1 \in 1 .. Len(r) - j + 1
      BY <1>1, <1>2, <1>3
    <2> QED BY <2>1
  <1>4. CASE j \in 1 .. Len(q)
    <2>1. r[j] = q[j] /\ q[j] \in Op /\ j \in DOMAIN q
      BY <1>1, <1>4
    <2>2. PICK n \in 1 .. Len(q) - j + 1 : (q[j].buf + n) % Buffers = d.m.cur
      BY <1>2, <2>1 DEF BuffersBehind, q
    <2> DEFINE b == q[j].buf
    <2>3. b \in Nat /\ n \in Nat
      BY <1>1, <1>2, <1>4, <2>1, Sizes DEF Op
    <2> HIDE DEF b
    <2>4. b + n \in Nat /\ (b + n) + 1 = b + (n + 1)
      BY <2>3
    <2> DEFINE a == b + n
    <2>5. ((a % Buffers) + 1) % Buffers = (a + 1) % Buffers
      <3>1. a \in Nat
        BY <2>4
      <3> HIDE DEF a
      <3> QED BY <3>1, ModSucc
    <2>6. (b + (n + 1)) % Buffers = e.m.cur
      BY <2>2, <2>4, <2>5 DEF b
    <2>7. n + 1 \in 1 .. Len(r) - j + 1
      BY <1>1, <1>4, <2>2
    <2> QED BY <2>1, <2>6, <2>7 DEF b
  <1> QED BY <1>2, <1>3, <1>4

LEMMA AppendStanding ==
    ASSUME NEW f, NEW d, DeviceOK(d), Standing(f, d), Active(d),
           NEW o \in Op, IsData(o), o.at >= d.m.start + d.s.progress.last,
           o.op = "store" => o.buf = d.m.cur,
           NEW e, e.fs.queue = Append(d.fs.queue, o), e.fs.failure = d.fs.failure,
           e.fs.barrier = d.fs.barrier, e.fs.reset = d.fs.reset,
           e.m.buf = d.m.buf, e.m.cur = (d.m.cur + 1) % Buffers,
           e.s.current = d.s.current, e.s.bank0 = d.s.bank0, e.s.bank1 = d.s.bank1,
           e.s.progress.last = d.s.progress.last,
           e.s.progress.crc_last = d.s.progress.crc_last
    PROVE  Standing(f, e) /\ \A r \in Record : PageKept(d, r) => PageKept(e, r)
  <1> DEFINE q == d.fs.queue
             t == e.fs.queue
             lo == d.m.start + d.s.progress.last
  <1>1. /\ d.s \in Record /\ d.m.start \in Nat /\ d.s.progress.last \in Nat
        /\ q \in Seq(Op) /\ d.m.cur \in 0 .. Buffers - 1
    BY Parts, RecordFields
  <1>2. /\ t \in Seq(Op) /\ Len(q) \in Nat /\ Len(t) = Len(q) + 1
        /\ DOMAIN t = 1 .. Len(q) + 1 /\ DOMAIN q = 1 .. Len(q) /\ t[Len(q) + 1] = o
        /\ \A j \in 1 .. Len(q) : t[j] = q[j]
        /\ \A x : \A a \in 1 .. Len(q) + 1 :
              Untouched(q, a, Len(q), x) /\ x \notin Covered(o)
                  => Untouched(t, a, Len(q) + 1, x)
    BY <1>1, AppendIndex
  <1>3. \A x \in Nat : x < lo => x \notin Covered(o)
    <2>1. SUFFICES ASSUME NEW x \in Nat, x < lo PROVE x \notin Covered(o)
      OBVIOUS
    <2>2. x < o.at
      <3>1. o.at \in Nat
        BY DEF Op, IsData
      <3> QED BY <1>1, <2>1, <3>1
    <2> QED BY <2>2, NotCovered
  <1>4. \A r \in Record : SameUpdate(d, r) =>
           SameUpdate(e, r) /\ \A c \in Claims(r) : c[1] \notin Covered(o)
    <2>1. SUFFICES ASSUME NEW r \in Record, SameUpdate(d, r)
                   PROVE  SameUpdate(e, r) /\ \A c \in Claims(r) : c[1] \notin Covered(o)
      OBVIOUS
    <2>2. SameUpdate(e, r)
      BY <2>1 DEF SameUpdate
    <2>3. \A c \in Claims(r) : c[1] \in Nat /\ c[1] < lo
      BY <2>1, ClaimsBehind DEF Standing, SettingsTrue
    <2> QED BY <2>2, <2>3, <1>3
  <1>5. o.op # "settingsStore"
    BY DEF IsData
  <1>6. QueueFine(e)
    BY <1>2, <1>5 DEF Standing, QueueFine
  <1>7. BuffersBehind(e)
    BY <1>1, AppendBuffers DEF Standing
  <1>8. SettingsTrue(f, e)
    <2>1. Claims(e.s) = Claims(d.s) /\ Sound(e.s)
      BY SameClaims DEF Standing, SettingsTrue
    <2>2. SameUpdate(d, d.s)
      BY <1>1 DEF SameUpdate
    <2>3. ASSUME NEW x, NEW v, x \notin Covered(o), WillHold(f, d, x, v)
          PROVE  WillHold(f, e, x, v)
      BY <2>3, <1>1, Appended
    <2>4. ASSUME NEW c \in Claims(e.s) PROVE WillHold(f, e, c[1], c[2])
      <3>1. WillHold(f, d, c[1], c[2]) /\ c[1] \notin Covered(o)
        BY <2>1, <2>2, <2>4, <1>1, <1>4 DEF Standing, SettingsTrue
      <3> QED BY <3>1, <2>3
    <2> QED BY <2>1, <2>4 DEF Standing, SettingsTrue
  <1>9. WritesTrue(f, e)
    <2>1. SUFFICES ASSUME NEW j \in 1 .. Len(q), q[j].op = "settingsStore"
                   PROVE  LET r == q[j].content IN
                          /\ Writable(r) /\ SameUpdate(e, r)
                          /\ r.bank1.code = "VALID_APP" => e.fs.reset /\ r.current = 1
                          /\ \A c \in Claims(r) :
                                /\ Holds(f, t, e.m.buf, j, c[1], c[2])
                                /\ Untouched(t, j, Len(q) + 1, c[1])
      <3>1. /\ e.fs.queue = t /\ DOMAIN t = 1 .. Len(q) + 1 /\ Len(t) = Len(q) + 1
            /\ \A j \in 1 .. Len(q) : t[j] = q[j]
        BY <1>2
      <3>2. Len(q) \in Nat /\ t[Len(q) + 1].op # "settingsStore"
        BY <1>2, <1>5
      <3> HIDE DEF q, t
      <3>3. \A j \in 1 .. Len(q) + 1 : t[j].op = "settingsStore" =>
               j \in 1 .. Len(q) /\ t[j] = q[j] /\ q[j].op = "settingsStore"
        BY <3>1, <3>2
      <3> QED BY <3>1, <3>3 DEF WritesTrue
    <2>2. PICK r : r = q[j].content
      OBVIOUS
    <2>3. /\ Writable(r) /\ SameUpdate(d, r)
          /\ r.bank1.code = "VALID_APP" => d.fs.reset /\ r.current = 1
          /\ \A c \in Claims(r) : /\ Holds(f, q, d.m.buf, j, c[1], c[2])
                                  /\ Untouched(q, j, Len(q), c[1])
      BY <2>1, <2>2, <1>2 DEF Standing, WritesTrue
    <2>4. r \in Record
      <3>1. q[j] \in Op
        BY <1>1, <1>2
      <3> QED BY <3>1, <2>1, <2>2 DEF Op
    <2>5. ASSUME NEW c \in Claims(r)
          PROVE  /\ Holds(f, t, e.m.buf, j, c[1], c[2])
                 /\ Untouched(t, j, Len(q) + 1, c[1])
      <3>1. c[1] \notin Covered(o)
        BY <2>3, <2>4, <1>4
      <3>2. Untouched(t, j, Len(q) + 1, c[1])
        BY <3>1, <2>3, <1>2
      <3>3. \A k \in 1 .. j - 1 : t[k] = q[k]
        BY <1>2
      <3>4. \A b, v : Holds(f, q, b, j, c[1], v) => Holds(f, t, b, j, c[1], v)
        <4>1. j \in Nat
          OBVIOUS
        <4> HIDE DEF q, t
        <4> QED BY <4>1, <3>3, SameBefore
      <3> QED BY <3>2, <3>4, <2>3
    <2> QED BY <2>2, <2>3, <2>4, <2>5, <1>4
  <1>10. ASSUME NEW r \in Record, PageKept(d, r) PROVE PageKept(e, r)
    <2>1. SUFFICES ASSUME ~EraseFirst(t)
                   PROVE  /\ SameUpdate(e, r)
                          /\ \A c \in Claims(r) : Untouched(t, 1, Len(t), c[1])
      BY DEF PageKept
    <2>2. ~EraseFirst(q)
      <3>1. ASSUME q # <<>> PROVE t # <<>> /\ t[1] = q[1]
        <4>1. Len(q) # 0
          BY <3>1, <1>1
        <4>2. 1 \in 1 .. Len(q)
          BY <4>1, <1>2
        <4>3. t # <<>>
          BY <1>2
        <4> QED BY <4>2, <4>3, <1>2
      <3> QED BY <3>1, <2>1 DEF EraseFirst
    <2>3. SameUpdate(d, r) /\ \A c \in Claims(r) : Untouched(q, 1, Len(q), c[1])
      BY <2>2, <1>10 DEF PageKept
    <2>4. 1 \in 1 .. Len(q) + 1
      BY <1>2
    <2> QED BY <2>3, <2>4, <1>2, <1>4
  <1> QED BY <1>6, <1>7, <1>8, <1>9, <1>10 DEF Standing

-----------------------------------------------------------------------------
(* The data of an object.                                                  *)

\* What an operator that handles data does besides what it does to the object.
Proceeds(f, d, e) ==
    /\ DeviceOK(e) /\ Standing(f, e) /\ Active(e)
    /\ e.m.start = d.m.start /\ e.m.size_req = d.m.size_req
    /\ e.fs.barrier = d.fs.barrier /\ e.fs.reset = d.fs.reset
    /\ e.s.bank1 = d.s.bank1
    /\ \A r \in Record : PageKept(d, r) => PageKept(e, r)
    /\ \A j \in DOMAIN d.fs.queue :
          /\ j \in DOMAIN e.fs.queue /\ e.fs.queue[j] = d.fs.queue[j]
          /\ d.fs.queue[j].op = "store" =>
                e.m.buf[d.fs.queue[j].buf] = d.m.buf[d.fs.queue[j].buf]

LEMMA ProceedsOn ==
    ASSUME NEW f, NEW d, NEW e, NEW g, Proceeds(f, d, e), Proceeds(f, e, g)
    PROVE  Proceeds(f, d, g)
  <1>1. /\ DeviceOK(g) /\ Standing(f, g) /\ Active(g)
        /\ g.m.start = d.m.start /\ g.m.size_req = d.m.size_req
        /\ g.fs.barrier = d.fs.barrier /\ g.fs.reset = d.fs.reset
        /\ g.s.bank1 = d.s.bank1
    BY DEF Proceeds
  <1>2. \A r \in Record : PageKept(d, r) => PageKept(g, r)
    BY DEF Proceeds
  <1>3. ASSUME NEW j \in DOMAIN d.fs.queue
        PROVE  /\ j \in DOMAIN g.fs.queue /\ g.fs.queue[j] = d.fs.queue[j]
               /\ d.fs.queue[j].op = "store" =>
                     g.m.buf[d.fs.queue[j].buf] = d.m.buf[d.fs.queue[j].buf]
    <2>1. /\ j \in DOMAIN e.fs.queue /\ e.fs.queue[j] = d.fs.queue[j]
          /\ d.fs.queue[j].op = "store" =>
                e.m.buf[d.fs.queue[j].buf] = d.m.buf[d.fs.queue[j].buf]
      BY DEF Proceeds
    <2>2. /\ j \in DOMAIN g.fs.queue /\ g.fs.queue[j] = e.fs.queue[j]
          /\ e.fs.queue[j].op = "store" =>
                g.m.buf[e.fs.queue[j].buf] = e.m.buf[e.fs.queue[j].buf]
      BY <2>1 DEF Proceeds
    <2> QED BY <2>1, <2>2
  <1> QED BY <1>1, <1>2, <1>3 DEF Proceeds

\* A buffer that finds room in the queue.
LEMMA StoreBufferEffect ==
    ASSUME NEW d, DeviceOK(d), d.m.pos # 0, Accepts(d.fs)
    PROVE  LET e == StoreBuffer(d) IN
           /\ e.s.progress = d.s.progress /\ e.s.command = d.s.command
           /\ e.s.current = d.s.current /\ e.s.bank0 = d.s.bank0 /\ e.s.bank1 = d.s.bank1
           /\ e.s.write_offset = d.s.write_offset + d.m.pos
           /\ e.m.valid = d.m.valid /\ e.m.start = d.m.start /\ e.m.size_req = d.m.size_req
           /\ e.m.pos = 0 /\ e.m.cur = (d.m.cur + 1) % Buffers /\ e.m.buf = d.m.buf
           /\ e.fs.failure = d.fs.failure /\ e.fs.barrier = d.fs.barrier
           /\ e.fs.reset = d.fs.reset
           /\ \E o \in Op :
                 /\ o.op = "store" /\ o.at = d.m.start + d.s.write_offset
                 /\ o.buf = d.m.cur /\ o.len = d.m.pos
                 /\ e.fs.queue = Append(d.fs.queue, o)
  <1> DEFINE o == [op |-> "store", at |-> d.m.start + d.s.write_offset,
                   buf |-> d.m.cur, len |-> d.m.pos]
             w == d.s.write_offset + d.m.pos
             n == d.m.pending + 1
             x == [d.m EXCEPT !.pending = n]
             e == StoreBuffer(d)
  <1>1. /\ d.s \in Record /\ d.m \in Ram /\ d.fs \in DeviceFs /\ w \in Nat
        /\ d.m.start + d.s.write_offset \in Nat
        /\ d.m.pos \in 1 .. Chunk /\ d.m.cur \in 0 .. Buffers - 1 /\ n \in Int
    BY Parts
  <1>2. o \in Op
    BY <1>1 DEF Op
  <1>3. /\ o.op = "store" /\ o.at = d.m.start + d.s.write_offset
        /\ o.buf = d.m.cur /\ o.len = d.m.pos
    OBVIOUS
  <1>4. e = [s |-> [d.s EXCEPT !.write_offset = w], m |-> FLASH_BUFFER_SWAP(x),
             fs |-> Queued(d.fs, o)]
    BY DEF StoreBuffer
  <1> HIDE DEF o, w, n, e
  <1>5. /\ x \in Ram
        /\ x = [valid |-> d.m.valid, size_req |-> d.m.size_req,
                start |-> d.m.start, packet |-> d.m.packet, pos |-> d.m.pos,
                cur |-> d.m.cur, pending |-> n, buf |-> d.m.buf]
    BY <1>1, RamUpdates
  <1>6. /\ x.valid = d.m.valid /\ x.size_req = d.m.size_req /\ x.start = d.m.start
        /\ x.cur = d.m.cur /\ x.buf = d.m.buf
    BY ONLY <1>5
  <1> HIDE DEF x
  <1>7. /\ e.m.valid = d.m.valid /\ e.m.start = d.m.start /\ e.m.size_req = d.m.size_req
        /\ e.m.pos = 0 /\ e.m.cur = (d.m.cur + 1) % Buffers /\ e.m.buf = d.m.buf
    BY <1>4, <1>5, <1>6, SwapType
  <1>8. /\ e.s.progress = d.s.progress /\ e.s.command = d.s.command
        /\ e.s.current = d.s.current /\ e.s.bank0 = d.s.bank0 /\ e.s.bank1 = d.s.bank1
        /\ e.s.write_offset = w
    <2> DEFINE r == [d.s EXCEPT !.write_offset = w]
    <2>1. r = [layout |-> d.s.layout, current |-> d.s.current, bank0 |-> d.s.bank0,
               bank1 |-> d.s.bank1, command |-> d.s.command,
               progress |-> d.s.progress, write_offset |-> w]
      BY <1>1, RecordUpdates
    <2>2. e.s = r
      BY <1>4
    <2> HIDE DEF r
    <2> QED BY <2>1, <2>2
  <1>9. /\ e.fs.queue = Append(d.fs.queue, o) /\ e.fs.failure = d.fs.failure
        /\ e.fs.barrier = d.fs.barrier /\ e.fs.reset = d.fs.reset
    <2>1. Queued(d.fs, o) = [queue |-> Append(d.fs.queue, o), failure |-> d.fs.failure,
                             barrier |-> d.fs.barrier, reset |-> d.fs.reset]
      BY <1>1, <1>2, QueuedType
    <2> QED BY <1>4, <2>1
  <1> QED BY <1>2, <1>3, <1>7, <1>8, <1>9 DEF e, w

LEMMA StoreBufferPaced ==
    ASSUME NEW f, NEW d, DeviceOK(d), d.m.pos # 0, Accepts(d.fs),
           Standing(f, d), Active(d), ObjectTrue(f, d), d.s.progress.object > 0,
           d.s.write_offset + d.m.pos <= d.s.progress.last + d.s.progress.object
    PROVE  LET e == StoreBuffer(d) IN
           /\ Proceeds(f, d, e) /\ ObjectTrue(f, e)
           /\ e.s.progress = d.s.progress /\ e.m.pos = 0
           /\ e.s.write_offset = d.s.write_offset + d.m.pos
           /\ Len(e.fs.queue) = Len(d.fs.queue) + 1
  <1> DEFINE e == StoreBuffer(d)
             w == d.s.write_offset
             p == d.s.progress
  <1>1. DeviceOK(e)
    BY StoreBufferOK DEF Active
  <1>2. PICK o \in Op :
          /\ o.op = "store" /\ o.at = d.m.start + w
          /\ o.buf = d.m.cur /\ o.len = d.m.pos
          /\ e.fs.queue = Append(d.fs.queue, o)
    BY StoreBufferEffect
  <1>3. /\ e.s.progress = p /\ e.s.command = d.s.command
        /\ e.s.current = d.s.current /\ e.s.bank0 = d.s.bank0 /\ e.s.bank1 = d.s.bank1
        /\ e.s.write_offset = w + d.m.pos
        /\ e.m.valid = d.m.valid /\ e.m.start = d.m.start /\ e.m.size_req = d.m.size_req
        /\ e.m.pos = 0 /\ e.m.cur = (d.m.cur + 1) % Buffers /\ e.m.buf = d.m.buf
        /\ e.fs.failure = d.fs.failure /\ e.fs.barrier = d.fs.barrier
        /\ e.fs.reset = d.fs.reset
    BY StoreBufferEffect
  <1>4. /\ d.s \in Record /\ d.fs.queue \in Seq(Op) /\ w \in Nat /\ d.m.start \in Nat
        /\ d.m.pos \in 1 .. Chunk /\ p.last \in Nat /\ p.object \in Nat
    BY Parts, RecordFields
  <1>5. p.last <= w
    BY DEF ObjectTrue
  <1>6. IsData(o) /\ o.at >= d.m.start + p.last
    BY <1>2, <1>4, <1>5 DEF IsData
  <1> HIDE DEF e
  <1>7. Standing(f, e) /\ \A r \in Record : PageKept(d, r) => PageKept(e, r)
    <2> HIDE DEF p, w
    <2> QED BY <1>2, <1>3, <1>6, AppendStanding DEF p, w
  <1>8. Active(e)
    BY <1>3 DEF Active
  <1>9. \A k \in Nat : d.m.start + k \in Covered(o) <=> k \in w .. (w + d.m.pos) - 1
    <2> DEFINE a == d.m.start
               n == d.m.pos
    <2>1. a \in Nat /\ n \in Nat /\ w \in Nat
      BY <1>4
    <2>2. Covered(o) = a + w .. (a + w) + (n - 1)
      BY <1>2 DEF Covered
    <2> HIDE DEF a, n, w
    <2>3. \A k \in Nat : a + k \in a + w .. (a + w) + (n - 1) <=> k \in w .. (w + n) - 1
      BY <2>1
    <2> QED BY <2>2, <2>3 DEF a, n
  <1>10. ASSUME NEW x, NEW v
         PROVE  /\ x \notin Covered(o) /\ WillBeClean(f, d, x) => WillBeClean(f, e, x)
                /\ x \notin Covered(o) /\ WillHold(f, d, x, v) => WillHold(f, e, x, v)
                /\ /\ x \in Covered(o)
                   /\ WillBeClean(f, d, x) /\ d.m.buf[d.m.cur][x - (d.m.start + w)] = v
                   => WillHold(f, e, x, v)
    BY <1>2, <1>3, <1>4, Appended
  <1>11. ObjectTrue(f, e)
    <2>1. p.last <= w + d.m.pos
      BY <1>4, <1>5
    <2>2. ASSUME NEW k \in w + d.m.pos .. (p.last + p.object) - 1
          PROVE  WillBeClean(f, e, d.m.start + k)
      <3>1. k \in Nat /\ k \in w .. (p.last + p.object) - 1 /\ k \notin w .. (w + d.m.pos) - 1
        BY <1>4, <2>2
      <3>2. WillBeClean(f, d, d.m.start + k)
        BY <3>1 DEF ObjectTrue
      <3> QED BY <3>1, <3>2, <1>9, <1>10
    <2>3. ASSUME p.crc \in Images, NEW k \in 0 .. (w + d.m.pos) - 1
          PROVE  WillHold(f, e, d.m.start + k, <<p.crc, k>>)
      <3>1. CASE k < w
        <4>1. k \in Nat /\ k \in 0 .. w - 1 /\ k \notin w .. (w + d.m.pos) - 1
          BY <1>4, <2>3, <3>1
        <4>2. WillHold(f, d, d.m.start + k, <<p.crc, k>>)
          BY <4>1, <2>3 DEF ObjectTrue
        <4> QED BY <4>1, <4>2, <1>9, <1>10
      <3>2. CASE ~(k < w)
        <4>1. /\ k \in Nat /\ k \in w .. (p.last + p.object) - 1 /\ k \in w .. (w + d.m.pos) - 1
              /\ k - w \in 0 .. d.m.pos - 1 /\ (d.m.start + k) - (d.m.start + w) = k - w
              /\ w + (k - w) = k
          <5>1. d.m.pos \in Nat
            BY <1>4
          <5>2. k \in Nat /\ k >= w
            BY <1>4, <2>3, <3>2, <5>1
          <5>3. k < w + d.m.pos
            BY <1>4, <2>3, <5>1
          <5>4. k < p.last + p.object
            <6>1. w + d.m.pos <= p.last + p.object
              OBVIOUS
            <6>2. p.last \in Nat /\ p.object \in Nat /\ w \in Nat /\ d.m.pos \in Nat
              BY <1>4, <5>1
            <6> HIDE DEF p, w
            <6> QED BY <6>1, <6>2, <5>2, <5>3
          <5>5. k \in w .. (p.last + p.object) - 1 /\ k \in w .. (w + d.m.pos) - 1
            BY <1>4, <5>1, <5>2, <5>3, <5>4
          <5>6. k - w \in 0 .. d.m.pos - 1
            <6>1. w \in Nat
              BY <1>4
            <6> HIDE DEF w
            <6> QED BY <6>1, <5>1, <5>2, <5>3
          <5>7. (d.m.start + k) - (d.m.start + w) = k - w /\ w + (k - w) = k
            BY <1>4, <5>2
          <5> QED BY <5>2, <5>5, <5>6, <5>7
        <4>2. WillBeClean(f, d, d.m.start + k)
          BY <4>1 DEF ObjectTrue
        <4>3. d.m.buf[d.m.cur][k - w] = <<p.crc, w + (k - w)>>
          BY <4>1, <2>3 DEF ObjectTrue
        <4>4. d.m.buf[d.m.cur][(d.m.start + k) - (d.m.start + w)] = <<p.crc, k>>
          BY <4>1, <4>3
        <4>5. d.m.start + k \in Covered(o)
          BY <4>1, <1>9
        <4> QED BY <4>2, <4>4, <4>5, <1>10
      <3> QED BY <3>1, <3>2
    <2>4. \A k \in 0 .. 0 - 1 : FALSE
      OBVIOUS
    <2> DEFINE u == w + d.m.pos
    <2>5. /\ e.s.progress = p /\ e.s.write_offset = u /\ e.m.start = d.m.start /\ e.m.pos = 0
      BY <1>3
    <2> HIDE DEF p, w, u
    <2>6. p.last <= u /\ \A k \in u .. (p.last + p.object) - 1 : WillBeClean(f, e, d.m.start + k)
      BY <2>1, <2>2 DEF u
    <2>7. ASSUME p.crc \in Images, NEW k \in 0 .. u - 1
          PROVE  WillHold(f, e, d.m.start + k, <<p.crc, k>>)
      BY <2>3, <2>7 DEF u
    <2> QED BY <2>4, <2>5, <2>6, <2>7 DEF ObjectTrue
  <1>12. /\ Len(e.fs.queue) = Len(d.fs.queue) + 1 /\ ~e.fs.failure
         /\ \A j \in DOMAIN d.fs.queue :
               e.fs.queue[j] = d.fs.queue[j] /\ j \in DOMAIN e.fs.queue
    <2> DEFINE q == d.fs.queue
               t == e.fs.queue
    <2>1. q \in Seq(Op) /\ o \in Op /\ t = Append(q, o)
      BY <1>2, <1>3, <1>4
    <2>2. ~e.fs.failure
      BY <1>3 DEF Accepts
    <2> HIDE DEF q, t
    <2>3. /\ Len(q) \in Nat /\ Len(t) = Len(q) + 1 /\ DOMAIN t = 1 .. Len(q) + 1
          /\ DOMAIN q = 1 .. Len(q) /\ \A j \in 1 .. Len(q) : t[j] = q[j]
      BY <2>1, AppendIndex
    <2> QED BY <2>2, <2>3 DEF q, t
  <1>13. Proceeds(f, d, e)
    <2> HIDE DEF p, w
    <2> QED BY <1>1, <1>3, <1>7, <1>8, <1>12 DEF Proceeds
  <1> QED BY <1>3, <1>11, <1>12, <1>13 DEF e

LEMMA FillEffect ==
    ASSUME NEW d, DeviceOK(d), NEW data \in Seq(Data), d.m.pos + Len(data) <= Chunk
    PROVE  LET e == Fill(d, data) IN
           /\ e.s = d.s /\ e.fs = d.fs /\ e.m.pos = d.m.pos + Len(data)
           /\ e.m.valid = d.m.valid /\ e.m.start = d.m.start /\ e.m.size_req = d.m.size_req
           /\ e.m.cur = d.m.cur
           /\ \A i \in 0 .. Buffers - 1 : i # d.m.cur => e.m.buf[i] = d.m.buf[i]
           /\ \A k \in 0 .. Chunk - 1 :
                 e.m.buf[d.m.cur][k] =
                     IF k \in d.m.pos .. d.m.pos + Len(data) - 1
                     THEN data[k - d.m.pos + 1] ELSE d.m.buf[d.m.cur][k]
  <1> DEFINE g == [k \in 0 .. Chunk - 1 |->
                      IF k \in d.m.pos .. d.m.pos + Len(data) - 1
                      THEN data[k - d.m.pos + 1] ELSE d.m.buf[d.m.cur][k]]
             b == [d.m.buf EXCEPT ![d.m.cur] = g]
             n == d.m.pos + Len(data)
             x == [d.m EXCEPT !.buf = b, !.pos = n]
             e == Fill(d, data)
  <1>1. d = [s |-> d.s, m |-> d.m, fs |-> d.fs] /\ d.m \in Ram /\ d.m.pos \in 0 .. Chunk
        /\ d.m.cur \in 0 .. Buffers - 1
    BY Parts
  <1>2. d.m.buf \in [0 .. Buffers - 1 -> [0 .. Chunk - 1 -> Unit]]
    BY <1>1 DEF Ram
  <1>3. e = [s |-> d.s, m |-> x, fs |-> d.fs]
    <2>1. e = [d EXCEPT !.m = x]
      BY <1>1 DEF Fill
    <2> HIDE DEF x, e
    <2> QED BY <2>1, <1>1
  <1>4. e.s = d.s /\ e.m = x /\ e.fs = d.fs
    BY ONLY <1>3
  <1>5. /\ b[d.m.cur] = g
        /\ \A i \in 0 .. Buffers - 1 : i # d.m.cur => b[i] = d.m.buf[i]
    <2> HIDE DEF g
    <2> QED BY <1>1, <1>2
  <1>6. \A k \in 0 .. Chunk - 1 :
           g[k] = IF k \in d.m.pos .. d.m.pos + Len(data) - 1
                  THEN data[k - d.m.pos + 1] ELSE d.m.buf[d.m.cur][k]
    OBVIOUS
  <1> HIDE DEF g, b, n, e
  <1>7. /\ x.valid = d.m.valid /\ x.start = d.m.start /\ x.size_req = d.m.size_req
        /\ x.cur = d.m.cur /\ x.pos = n /\ x.buf = b
    BY <1>1 DEF Ram
  <1> HIDE DEF x
  <1>8. \A k \in 0 .. Chunk - 1 :
           e.m.buf[d.m.cur][k] = IF k \in d.m.pos .. d.m.pos + Len(data) - 1
                                 THEN data[k - d.m.pos + 1] ELSE d.m.buf[d.m.cur][k]
    BY <1>4, <1>5, <1>6, <1>7
  <1> QED BY <1>4, <1>5, <1>7, <1>8 DEF e, n

\* A queue shorter than the ring of buffers does not store the current one.
LEMMA NotCurrent ==
    ASSUME NEW d, DeviceOK(d), BuffersBehind(d), Len(d.fs.queue) < Buffers,
           NEW j \in DOMAIN d.fs.queue, d.fs.queue[j].op = "store"
    PROVE  /\ d.fs.queue[j].buf \in 0 .. Buffers - 1 /\ d.fs.queue[j].buf # d.m.cur
           /\ d.fs.queue[j].at \in Nat /\ d.fs.queue[j].len \in 1 .. Chunk
  <1> DEFINE q == d.fs.queue
             b == q[j].buf
  <1>1. /\ q \in Seq(Op) /\ d.m.cur \in 0 .. Buffers - 1 /\ Buffers \in Nat \ {0}
    BY Parts, Sizes
  <1>2. q[j] \in Op /\ j \in 1 .. Len(q) /\ Len(q) \in Nat
    BY <1>1
  <1>3. b \in 0 .. Buffers - 1 /\ q[j].at \in Nat /\ q[j].len \in 1 .. Chunk
    BY <1>2 DEF Op
  <1>4. PICK n \in 1 .. Len(q) - j + 1 : (b + n) % Buffers = d.m.cur
    BY DEF BuffersBehind
  <1> HIDE DEF q, b
  <1>5. b \in Nat /\ n \in Nat /\ n > 0 /\ n < Buffers
    <2>1. n > 0 /\ n <= Len(q)
      BY <1>2, <1>4
    <2> QED BY <2>1, <1>1, <1>2, <1>3 DEF q
  <1>6. ASSUME b = d.m.cur PROVE FALSE
    <2> DEFINE a == b + n
    <2>1. a \in Nat
      BY <1>5
    <2>2. a = Buffers * (a \div Buffers) + (a % Buffers) /\ a \div Buffers \in Nat
      <3> HIDE DEF a
      <3> QED BY <2>1, <1>1, DivMod
    <2>3. a % Buffers = b
      BY <1>4, <1>6
    <2> DEFINE k == a \div Buffers
               rest == a % Buffers
    <2>4. n = Buffers * k /\ k \in Nat
      <3>1. b + n = Buffers * k + b /\ k \in Nat
        BY <2>2, <2>3
      <3> HIDE DEF k
      <3> QED BY <3>1, <1>1, <1>5
    <2> HIDE DEF k
    <2>5. CASE k = 0
      BY <2>4, <2>5, <1>1, <1>5
    <2>6. CASE k # 0
      <3>1. Buffers * k >= Buffers
        BY <2>4, <2>6, <1>1
      <3> QED BY <3>1, <2>4, <1>1, <1>5
    <2> QED BY <2>5, <2>6
  <1> QED BY <1>3, <1>6 DEF q, b

\* What a device that only changes in its current buffer keeps.
LEMMA FillPaced ==
    ASSUME NEW f, NEW d, DeviceOK(d), Standing(f, d), Active(d), ObjectTrue(f, d),
           Len(d.fs.queue) < Buffers, NEW data \in Seq(Data), d.m.pos + Len(data) <= Chunk,
           d.s.progress.crc \in Images =>
               \A k \in DOMAIN data :
                   data[k] = <<d.s.progress.crc, (d.s.write_offset + d.m.pos) + (k - 1)>>
    PROVE  LET e == Fill(d, data) IN
           /\ Proceeds(f, d, e) /\ ObjectTrue(f, e)
           /\ e.s = d.s /\ e.fs = d.fs /\ e.m.pos = d.m.pos + Len(data)
  <1> DEFINE e == Fill(d, data)
             q == d.fs.queue
             p == d.s.progress
             w == d.s.write_offset
  <1>1. DeviceOK(e)
    BY FillOK
  <1>2. /\ e.s = d.s /\ e.fs = d.fs /\ e.m.pos = d.m.pos + Len(data)
        /\ e.m.valid = d.m.valid /\ e.m.start = d.m.start /\ e.m.size_req = d.m.size_req
        /\ e.m.cur = d.m.cur
        /\ \A i \in 0 .. Buffers - 1 : i # d.m.cur => e.m.buf[i] = d.m.buf[i]
        /\ \A k \in 0 .. Chunk - 1 :
              e.m.buf[d.m.cur][k] =
                  IF k \in d.m.pos .. d.m.pos + Len(data) - 1
                  THEN data[k - d.m.pos + 1] ELSE d.m.buf[d.m.cur][k]
    BY FillEffect
  <1> HIDE DEF e
  <1>3. /\ q \in Seq(Op) /\ DOMAIN q = 1 .. Len(q) /\ Len(q) \in Nat
        /\ d.m.pos \in Nat /\ w \in Nat /\ Len(data) \in Nat /\ Chunk \in Nat
        /\ DOMAIN data = 1 .. Len(data)
    <2>1. d.m.pos \in 0 .. Chunk /\ w \in Nat /\ q \in Seq(Op) /\ Chunk \in Nat
      BY Parts, Sizes
    <2> QED BY <2>1
  <1>4. \A j \in DOMAIN q : q[j].op = "store" => e.m.buf[q[j].buf] = d.m.buf[q[j].buf]
    BY <1>2, NotCurrent DEF Standing
  <1>5. ASSUME NEW n \in 1 .. Len(q) + 1, NEW x, NEW v, Holds(f, q, d.m.buf, n, x, v)
        PROVE  Holds(f, q, e.m.buf, n, x, v)
    <2>1. n \in Nat /\ \A j \in 1 .. n - 1 : j \in DOMAIN q
      BY <1>3, <1>5
    <2>2. \A j \in 1 .. n - 1 : q[j].op = "store" /\ x \in Covered(q[j]) =>
             e.m.buf[q[j].buf][x - q[j].at] = d.m.buf[q[j].buf][x - q[j].at]
      BY <2>1, <1>4
    <2> QED BY <2>1, <2>2, <1>5, OtherBuffers
  <1>6. \A x, v : WillHold(f, d, x, v) => WillHold(f, e, x, v)
    <2>1. Len(q) + 1 \in 1 .. Len(q) + 1
      BY <1>3
    <2> QED BY <2>1, <1>2, <1>5 DEF WillHold, AfterAll
  <1>7. \A x : WillBeClean(f, d, x) => WillBeClean(f, e, x)
    BY <1>2 DEF WillBeClean, AfterAll
  <1>8. QueueFine(e) /\ BuffersBehind(e) /\ SettingsTrue(f, e)
    BY <1>2, <1>6 DEF Standing, QueueFine, BuffersBehind, SettingsTrue
  <1>9. Active(e) /\ \A r : SameUpdate(d, r) => SameUpdate(e, r)
    BY <1>2 DEF Active, SameUpdate
  <1>10. WritesTrue(f, e)
    <2>1. SUFFICES ASSUME NEW j \in 1 .. Len(q), q[j].op = "settingsStore"
                   PROVE  LET r == q[j].content IN
                          /\ Writable(r) /\ SameUpdate(e, r)
                          /\ r.bank1.code = "VALID_APP" => d.fs.reset /\ r.current = 1
                          /\ \A c \in Claims(r) :
                                /\ Holds(f, q, e.m.buf, j, c[1], c[2])
                                /\ Untouched(q, j, Len(q), c[1])
      BY <1>2, <1>3 DEF WritesTrue
    <2>2. PICK r : r = q[j].content
      OBVIOUS
    <2>3. /\ Writable(r) /\ SameUpdate(d, r)
          /\ r.bank1.code = "VALID_APP" => d.fs.reset /\ r.current = 1
          /\ \A c \in Claims(r) : /\ Holds(f, q, d.m.buf, j, c[1], c[2])
                                  /\ Untouched(q, j, Len(q), c[1])
      BY <2>1, <2>2, <1>3 DEF Standing, WritesTrue
    <2>4. j \in 1 .. Len(q) + 1
      BY <1>3
    <2> QED BY <2>2, <2>3, <2>4, <1>5, <1>9
  <1>11. \A r \in Record : PageKept(d, r) => PageKept(e, r)
    BY <1>2, <1>9 DEF PageKept
  <1>12. ObjectTrue(f, e)
    <2>1. /\ p.last <= w
          /\ \A k \in w .. (p.last + p.object) - 1 : WillBeClean(f, e, e.m.start + k)
          /\ p.crc \in Images => \A k \in 0 .. w - 1 : WillHold(f, e, e.m.start + k, <<p.crc, k>>)
      BY <1>2, <1>6, <1>7 DEF ObjectTrue
    <2>2. ASSUME p.crc \in Images, p.object > 0, NEW k \in 0 .. e.m.pos - 1
          PROVE  e.m.buf[d.m.cur][k] = <<p.crc, w + k>>
      <3>0. k \in Nat /\ k < d.m.pos + Len(data) /\ k \in 0 .. Chunk - 1
        BY <1>2, <1>3, <2>2
      <3>1. CASE k < d.m.pos
        <4>1. k \in 0 .. d.m.pos - 1 /\ k \notin d.m.pos .. d.m.pos + Len(data) - 1
          BY <3>0, <3>1, <1>3
        <4>2. d.m.buf[d.m.cur][k] = <<p.crc, w + k>>
          BY <4>1, <2>2 DEF ObjectTrue
        <4> QED BY <3>0, <4>1, <4>2, <1>2
      <3>2. CASE ~(k < d.m.pos)
        <4> DEFINE n == d.m.pos
                   h == Len(data)
                   i == k - n + 1
        <4>0. k \in Nat /\ n \in Nat /\ h \in Nat /\ w \in Nat /\ n <= k /\ k < n + h
          BY <3>0, <3>2, <1>3
        <4>1. k \in n .. n + h - 1 /\ i \in 1 .. h /\ (w + n) + (i - 1) = w + k
          <5>1. \A a, b, c, u \in Nat :
                   b <= a /\ a < b + c => /\ a \in b .. b + c - 1 /\ a - b + 1 \in 1 .. c
                                          /\ (u + b) + ((a - b + 1) - 1) = u + a
            OBVIOUS
          <5> HIDE DEF n, h, w
          <5>2. /\ k \in n .. n + h - 1 /\ k - n + 1 \in 1 .. h
                /\ (w + n) + ((k - n + 1) - 1) = w + k
            BY <4>0, <5>1
          <5> QED BY <5>2 DEF i
        <4>2. (w + d.m.pos) + (i - 1) = w + k
          BY <4>1
        <4>3. i \in DOMAIN data
          BY <4>1, <1>3
        <4>4. e.m.buf[d.m.cur][k] = data[i]
          BY <3>0, <4>1, <1>2
        <4> HIDE DEF i
        <4>5. data[i] = <<p.crc, (w + d.m.pos) + (i - 1)>>
          BY <4>3, <2>2
        <4> QED BY <4>2, <4>4, <4>5
      <3> QED BY <3>1, <3>2
    <2> QED BY <2>1, <2>2, <1>2 DEF ObjectTrue
  <1>13. Proceeds(f, d, e)
    BY <1>1, <1>2, <1>4, <1>8, <1>9, <1>10, <1>11 DEF Proceeds, Standing
  <1> QED BY <1>2, <1>12, <1>13 DEF e

LEMMA ReceivedEffect ==
    ASSUME NEW d, DeviceOK(d), NEW data \in Seq(Data), Len(data) > 0
    PROVE  LET e == Received(d, data) IN
           /\ e.m = d.m /\ e.fs = d.fs /\ e.s.command = d.s.command
           /\ e.s.current = d.s.current /\ e.s.bank0 = d.s.bank0 /\ e.s.bank1 = d.s.bank1
           /\ e.s.write_offset = d.s.write_offset
           /\ e.s.progress.object = d.s.progress.object
           /\ e.s.progress.offset = d.s.progress.offset + Len(data)
           /\ e.s.progress.last = d.s.progress.last
           /\ e.s.progress.crc_last = d.s.progress.crc_last
           /\ e.s.progress.crc = Crc(d.s.progress, data)
  <1> DEFINE c == Crc(d.s.progress, data)
             o == d.s.progress.offset + Len(data)
             q == d.s.progress
             p == [q EXCEPT !.crc = c, !.offset = o]
             r == [d.s EXCEPT !.progress = p]
             e == Received(d, data)
  <1>1. /\ d = [s |-> d.s, m |-> d.m, fs |-> d.fs] /\ d.s \in Record /\ q \in Progress
    BY Parts
  <1>2. e = [s |-> r, m |-> d.m, fs |-> d.fs]
    <2>1. e = [d EXCEPT !.s = r]
      BY <1>1 DEF Received
    <2> HIDE DEF e, r
    <2> QED BY <2>1, <1>1
  <1>3. e.s = r /\ e.m = d.m /\ e.fs = d.fs
    BY ONLY <1>2
  <1> HIDE DEF c, o, e
  <1>4. /\ p.object = q.object /\ p.offset = o /\ p.last = q.last /\ p.crc_last = q.crc_last
        /\ p.crc = c
    <2> HIDE DEF q
    <2> QED BY <1>1 DEF Progress
  <1> HIDE DEF p, q
  <1>5. /\ r.progress = p /\ r.command = d.s.command /\ r.current = d.s.current
        /\ r.bank0 = d.s.bank0 /\ r.bank1 = d.s.bank1 /\ r.write_offset = d.s.write_offset
    BY <1>1 DEF Record
  <1> HIDE DEF r
  <1> QED BY <1>3, <1>4, <1>5 DEF e, c, o, q

LEMMA CrcOf ==
    ASSUME NEW p, NEW data \in Seq(Data), Crc(p, data) \in Images
    PROVE  /\ p.offset = 0 \/ p.crc = Crc(p, data)
           /\ \A k \in DOMAIN data : data[k] = <<Crc(p, data), p.offset + (k - 1)>>
  <1> DEFINE i == data[1][1]
  <1>1. CASE /\ p.offset = 0 \/ p.crc = i
             /\ \A k \in DOMAIN data : data[k] = <<i, p.offset + k - 1>>
    <2>1. Crc(p, data) = i
      BY <1>1 DEF Crc
    <2> QED BY <1>1, <2>1
  <1>2. CASE ~(/\ p.offset = 0 \/ p.crc = i
               /\ \A k \in DOMAIN data : data[k] = <<i, p.offset + k - 1>>)
    <2>1. Crc(p, data) = Mixed
      BY <1>2 DEF Crc
    <2> QED BY <2>1, Sizes
  <1> QED BY <1>1, <1>2

\* A packet that is accepted is part of the object.
LEMMA ReceivedPaced ==
    ASSUME NEW f, NEW d, DeviceOK(d), Standing(f, d), Active(d), Receiving(f, d),
           NEW data \in Seq(Data), Len(data) > 0, WriteAllowed(d, data)
    PROVE  LET e == Received(d, data)
               p == e.s.progress
               z == e.s.write_offset + e.m.pos IN
           /\ Proceeds(f, d, e) /\ ObjectTrue(f, e)
           /\ e.fs = d.fs /\ e.m.pos < Chunk
           /\ p.object > 0 /\ z + Len(data) = p.offset /\ p.offset <= p.last + p.object
           /\ p.crc \in Images => \A k \in DOMAIN data : data[k] = <<p.crc, z + (k - 1)>>
  <1> DEFINE e == Received(d, data)
             p == d.s.progress
             u == e.s.progress
             w == d.s.write_offset
             n == Len(data)
  <1>1. DeviceOK(e)
    BY ReceivedOK
  <1>2. /\ e.m = d.m /\ e.fs = d.fs /\ e.s.command = d.s.command
        /\ e.s.current = d.s.current /\ e.s.bank0 = d.s.bank0 /\ e.s.bank1 = d.s.bank1
        /\ e.s.write_offset = w /\ u.object = p.object /\ u.offset = p.offset + n
        /\ u.last = p.last /\ u.crc_last = p.crc_last /\ u.crc = Crc(p, data)
    BY ReceivedEffect
  <1>3. /\ w \in Nat /\ d.m.pos \in Nat /\ n \in Nat /\ n > 0
        /\ p.object \in Nat /\ p.offset \in Nat /\ p.last \in Nat
    <2>1. d.s \in Record /\ d.m.pos \in 0 .. Chunk
      BY Parts
    <2>2. w \in Nat /\ p.object \in Nat /\ p.offset \in Nat /\ p.last \in Nat
      BY <2>1, RecordFields
    <2>3. d.m.pos \in Nat
      BY <2>1, Sizes
    <2>4. n \in Nat /\ n > 0
      OBVIOUS
    <2> QED BY <2>2, <2>3, <2>4
  <1>4. /\ ObjectTrue(f, d) /\ Counted(d)
    BY DEF Receiving
  <1>5. p.last <= p.offset /\ n + p.offset - p.last <= p.object
    BY DEF DeviceOK, Started, WriteAllowed
  <1>6. p.object > 0 /\ p.offset + n <= p.last + p.object
    <2> HIDE DEF p, n
    <2> QED BY <1>3, <1>5
  <1>7. p.offset = w + d.m.pos /\ d.m.pos < Chunk
    BY <1>4, <1>6 DEF Counted
  <1>8. u.crc \in Images =>
           /\ p.offset = 0 \/ p.crc = u.crc
           /\ \A k \in DOMAIN data : data[k] = <<u.crc, p.offset + (k - 1)>>
    BY <1>2, CrcOf
  <1> HIDE DEF e
  <1>9. Active(e) /\ \A r : SameUpdate(d, r) => SameUpdate(e, r)
    BY <1>2 DEF Active, SameUpdate
  <1>10. Standing(f, e)
    <2>1. Claims(e.s) = Claims(d.s) /\ (Sound(e.s) <=> Sound(d.s))
      BY <1>2, SameClaims
    <2>2. QueueFine(e) /\ BuffersBehind(e)
      BY <1>2 DEF Standing, QueueFine, BuffersBehind
    <2>3. SettingsTrue(f, e)
      BY <2>1, <1>2 DEF Standing, SettingsTrue, WillHold, AfterAll
    <2>4. WritesTrue(f, e)
      BY <1>2, <1>9 DEF Standing, WritesTrue
    <2> QED BY <2>2, <2>3, <2>4 DEF Standing
  <1>11. Proceeds(f, d, e)
    BY <1>1, <1>2, <1>9, <1>10 DEF Proceeds, PageKept
  <1>12. ObjectTrue(f, e)
    <2>1. /\ p.last <= w
          /\ \A k \in w .. (p.last + p.object) - 1 : WillBeClean(f, e, d.m.start + k)
      BY <1>2, <1>4 DEF ObjectTrue, WillBeClean, AfterAll
    <2>2. ASSUME u.crc \in Images
          PROVE  /\ \A k \in 0 .. w - 1 : WillHold(f, e, d.m.start + k, <<u.crc, k>>)
                 /\ \A k \in 0 .. d.m.pos - 1 : d.m.buf[d.m.cur][k] = <<u.crc, w + k>>
      <3>1. CASE p.offset = 0
        <4>1. w = 0 /\ d.m.pos = 0
          BY <3>1, <1>3, <1>7
        <4> QED BY <4>1
      <3>2. CASE p.crc = u.crc
        BY <3>2, <2>2, <1>2, <1>4, <1>6 DEF ObjectTrue, WillHold, AfterAll
      <3> QED BY <3>1, <3>2, <2>2, <1>8
    <2> QED BY <2>1, <2>2, <1>2 DEF ObjectTrue
  <1> QED BY <1>2, <1>6, <1>7, <1>8, <1>11, <1>12 DEF e

\* The two parts of a sequence.
LEMMA FirstPart ==
    ASSUME NEW T, NEW t \in Seq(T), NEW n \in 0 .. Len(t)
    PROVE  LET u == SubSeq(t, 1, n) IN
           /\ u \in Seq(T) /\ Len(u) = n /\ \A k \in 1 .. n : u[k] = t[k]
  OBVIOUS

LEMMA LastPart ==
    ASSUME NEW T, NEW t \in Seq(T), NEW n \in 0 .. Len(t)
    PROVE  LET u == SubSeq(t, n + 1, Len(t)) IN
           /\ u \in Seq(T) /\ Len(u) = Len(t) - n
           /\ \A k \in 1 .. Len(t) - n : u[k] = t[n + k]
  <1> DEFINE u == SubSeq(t, n + 1, Len(t))
  <1>1. n + 1 \in 1 .. Len(t) + 1 /\ Len(t) \in Nat
    OBVIOUS
  <1>2. u \in Seq(T) /\ Len(u) = Len(t) - n
    BY <1>1
  <1>3. \A k \in 1 .. Len(t) - n : u[k] = t[n + k]
    BY <1>1
  <1> QED BY <1>2, <1>3

\* The data of a packet go to the buffer, and over into the next one when it is
\* full.
LEMMA BufferedPaced ==
    ASSUME NEW f, NEW d, DeviceOK(d), Standing(f, d), Active(d), ObjectTrue(f, d),
           Len(d.fs.queue) + 2 <= QueueSize, QueueSize <= Buffers,
           d.m.pos < Chunk, d.s.progress.object > 0,
           NEW data \in Seq(Data), Len(data) > 0, Len(data) <= Chunk,
           (d.s.write_offset + d.m.pos) + Len(data) = d.s.progress.offset,
           d.s.progress.offset <= d.s.progress.last + d.s.progress.object,
           d.s.progress.crc \in Images =>
               \A k \in DOMAIN data :
                   data[k] = <<d.s.progress.crc, (d.s.write_offset + d.m.pos) + (k - 1)>>
    PROVE  LET e == Buffered(d, data) IN
           /\ Proceeds(f, d, e) /\ ObjectTrue(f, e) /\ e.s.progress = d.s.progress
           /\ e.s.write_offset + e.m.pos = d.s.progress.offset /\ e.m.pos < Chunk
           /\ Len(e.fs.queue) <= Len(d.fs.queue) + 1
  <1> DEFINE room == Chunk - d.m.pos
             first == SubSeq(data, 1, room)
             rest == SubSeq(data, room + 1, Len(data))
             p == d.s.progress
             w == d.s.write_offset
             n == Len(data)
             z == w + d.m.pos
  <1>1. /\ d.m.pos \in Nat /\ room \in 1 .. Chunk /\ n \in Nat /\ n > 0 /\ n <= Chunk
        /\ Chunk \in Nat /\ Chunk # 0 /\ w \in Nat /\ Len(d.fs.queue) \in Nat
        /\ p.last \in Nat /\ p.object \in Nat /\ p.offset \in Nat /\ DOMAIN data = 1 .. n
        /\ Buffers \in Nat /\ QueueSize \in Nat
    <2>1. d.m.pos \in 0 .. Chunk /\ d.fs.queue \in Seq(Op) /\ d.s \in Record
      BY Parts
    <2>2. Chunk \in Nat \ {0} /\ Buffers \in Nat /\ QueueSize \in Nat
      BY Sizes
    <2>3. w \in Nat /\ p.last \in Nat /\ p.object \in Nat /\ p.offset \in Nat
      BY <2>1, RecordFields
    <2>4. d.m.pos \in Nat /\ room \in 1 .. Chunk /\ Chunk # 0
      BY <2>1, <2>2
    <2>5. n \in Nat /\ n > 0 /\ n <= Chunk /\ DOMAIN data = 1 .. n
      OBVIOUS
    <2>6. Len(d.fs.queue) \in Nat
      BY <2>1
    <2> HIDE DEF p, w, n, room
    <2> QED BY <2>2, <2>3, <2>4, <2>5, <2>6
  <1>2. Len(d.fs.queue) < Buffers /\ Len(d.fs.queue) + 1 < Buffers
        /\ Len(d.fs.queue) < QueueSize
    <2> DEFINE L == Len(d.fs.queue)
    <2>1. L \in Nat /\ L + 2 <= QueueSize /\ QueueSize <= Buffers /\ Buffers \in Nat
          /\ QueueSize \in Nat
      BY <1>1
    <2> HIDE DEF L
    <2>2. L < Buffers /\ L + 1 < Buffers /\ L < QueueSize
      BY <2>1
    <2> QED BY <2>2 DEF L
  <1> DEFINE x == d.m.pos
             o == p.offset
             lim == p.last + p.object
  <1>3. /\ x \in Nat /\ n \in Nat /\ w \in Nat /\ o \in Nat /\ lim \in Nat /\ room \in Nat
        /\ z \in Nat /\ Chunk \in Nat
        /\ n > 0 /\ n <= Chunk /\ room = Chunk - x /\ room > 0 /\ x < Chunk
        /\ z = w + x /\ z + n = o /\ o <= lim /\ DOMAIN data = 1 .. n
    <2>1. x \in Nat /\ n \in Nat /\ w \in Nat /\ o \in Nat /\ lim \in Nat /\ z \in Nat
          /\ DOMAIN data = 1 .. n /\ n > 0 /\ n <= Chunk /\ Chunk \in Nat
      <3>1. x \in Nat /\ n \in Nat /\ w \in Nat /\ o \in Nat /\ p.last \in Nat /\ p.object \in Nat
            /\ DOMAIN data = 1 .. n /\ n > 0 /\ n <= Chunk /\ Chunk \in Nat
        <4> HIDE DEF p, w, n, room, z
        <4> QED BY <1>1
      <3> HIDE DEF n, w, o, p
      <3>2. lim \in Nat
        BY <3>1
      <3>3. z \in Nat
        BY <3>1
      <3> HIDE DEF x, lim, z
      <3> QED BY <3>1, <3>2, <3>3
    <2>2. room \in Nat /\ room = Chunk - x /\ room > 0 /\ x < Chunk
      <3>1. room \in Nat /\ room > 0
        <4> HIDE DEF room
        <4> QED BY <1>1
      <3> QED BY <3>1
    <2>3. z = w + x /\ z + n = o /\ o <= lim
      OBVIOUS
    <2> HIDE DEF x, n, w, o, lim, room, z
    <2> QED BY <2>1, <2>2, <2>3
  <1>4. CASE n < room
    <2>1. x + n < Chunk /\ x + n <= Chunk /\ w + (x + n) = o
      <3> HIDE DEF x, n, w, o, lim, room, z
      <3> QED BY <1>3, <1>4
    <2>2. Buffered(d, data) = Fill(d, data)
      BY <1>4 DEF Buffered
    <2> DEFINE e == Fill(d, data)
    <2>3. /\ Proceeds(f, d, e) /\ ObjectTrue(f, e)
          /\ e.s = d.s /\ e.fs = d.fs /\ e.m.pos = x + n
      BY <2>1, <1>2, FillPaced
    <2>4. Len(d.fs.queue) <= Len(d.fs.queue) + 1
      BY <1>1
    <2> HIDE DEF e, x, n, w, o
    <2>5. e.s.write_offset + e.m.pos = o /\ e.m.pos < Chunk /\ Len(e.fs.queue) <= Len(d.fs.queue) + 1
      BY <2>1, <2>3, <2>4 DEF w
    <2> QED BY <2>2, <2>3, <2>5 DEF e, o
  <1>5. CASE ~(n < room)
    <2> DEFINE a == Fill(d, first)
               b == StoreBuffer(a)
               e == Fill(b, rest)
    <2>1. Buffered(d, data) = e
      BY <1>5 DEF Buffered
    <2>2. /\ x + room = Chunk /\ room <= n /\ w + Chunk <= o /\ w + Chunk <= lim
          /\ n - room \in Nat /\ n - room < Chunk /\ (w + Chunk) + (n - room) = o
      <3> HIDE DEF x, n, w, o, lim, room, z
      <3> QED BY <1>3, <1>5
    <2>3. /\ first \in Seq(Data) /\ Len(first) = room /\ DOMAIN first = 1 .. room
          /\ \A k \in 1 .. room : first[k] = data[k] /\ k \in 1 .. n
      <3> HIDE DEF room, x, w, o, lim, z
      <3>1. room \in 0 .. Len(data)
        BY <1>3, <2>2
      <3>2. /\ first \in Seq(Data) /\ Len(first) = room
            /\ \A k \in 1 .. room : first[k] = data[k]
        BY <3>1, FirstPart
      <3>3. \A k \in 1 .. room : k \in 1 .. n
        BY <1>3, <2>2
      <3> QED BY <3>2, <3>3
    <2>4. /\ rest \in Seq(Data) /\ Len(rest) = n - room /\ DOMAIN rest = 1 .. n - room
          /\ \A k \in 1 .. n - room : rest[k] = data[room + k] /\ room + k \in 1 .. n
      <3> HIDE DEF room, x, w, o, lim, z
      <3>1. room \in 0 .. Len(data)
        BY <1>3, <2>2
      <3>2. /\ rest \in Seq(Data) /\ Len(rest) = n - room
            /\ \A k \in 1 .. n - room : rest[k] = data[room + k]
        BY <3>1, LastPart
      <3>3. \A k \in 1 .. n - room : room + k \in 1 .. n
        <4> HIDE DEF n
        <4> QED BY <1>3, <2>2
      <3> QED BY <3>2, <3>3
    <2> HIDE DEF first, rest
    <2>5. d.m.pos + Len(first) <= Chunk
      <3>1. x + room <= Chunk
        <4> HIDE DEF x, room
        <4> QED BY <2>2, <1>3
      <3> HIDE DEF room
      <3> QED BY <3>1, <2>3
    <2>6. p.crc \in Images => \A k \in DOMAIN first : first[k] = <<p.crc, z + (k - 1)>>
      <3> HIDE DEF room, x, w, o, lim
      <3> QED BY <2>3, <1>3 DEF w
    <2>7. /\ Proceeds(f, d, a) /\ ObjectTrue(f, a)
          /\ a.s = d.s /\ a.fs = d.fs /\ a.m.pos = Chunk
      <3>1. /\ Proceeds(f, d, a) /\ ObjectTrue(f, a)
            /\ a.s = d.s /\ a.fs = d.fs /\ a.m.pos = x + Len(first)
        <4> HIDE DEF room, x, w, o, lim
        <4> QED BY <2>3, <2>5, <2>6, <1>2, FillPaced DEF w, x
      <3> HIDE DEF room, x, w, o, lim, z, a
      <3> QED BY <3>1, <2>2, <2>3
    <2> HIDE DEF a
    <2>8. /\ Proceeds(f, a, b) /\ ObjectTrue(f, b) /\ b.s.progress = p /\ b.m.pos = 0
          /\ b.s.write_offset = w + Chunk /\ Len(b.fs.queue) = Len(d.fs.queue) + 1
      <3>1. Accepts(a.fs)
        BY <2>7, <1>2 DEF Accepts, Standing, QueueFine
      <3>2. DeviceOK(a) /\ Standing(f, a) /\ Active(a)
        BY <2>7 DEF Proceeds
      <3>3. a.m.pos # 0 /\ a.s.progress.object > 0
        BY <2>7, Sizes
      <3>4. a.s.write_offset + a.m.pos <= a.s.progress.last + a.s.progress.object
        <4> HIDE DEF room, x, o, z
        <4> QED BY <2>2, <2>7
      <3> HIDE DEF room, x, o, lim, z
      <3> QED BY <3>1, <3>2, <3>3, <3>4, <2>7, StoreBufferPaced
    <2> HIDE DEF b
    <2>9. DeviceOK(b) /\ Standing(f, b) /\ Active(b) /\ b.m.pos + Len(rest) <= Chunk
      <3> HIDE DEF room, x, w, o, lim, z, n
      <3>1. 0 + (n - room) <= Chunk
        BY <2>2, <1>3
      <3> QED BY <3>1, <2>4, <2>8 DEF Proceeds
    <2>10. b.s.progress.crc \in Images =>
              \A k \in DOMAIN rest :
                 rest[k] = <<b.s.progress.crc, (b.s.write_offset + b.m.pos) + (k - 1)>>
      <3>1. SUFFICES ASSUME p.crc \in Images, NEW k \in 1 .. n - room
                     PROVE  data[room + k] = <<p.crc, ((w + Chunk) + 0) + (k - 1)>>
        <4> HIDE DEF room, x, w, o, lim, z, n
        <4> QED BY <2>4, <2>8
      <3>2. z + ((room + k) - 1) = ((w + Chunk) + 0) + (k - 1)
        <4>1. k \in Nat
          BY <3>1, <2>2
        <4> HIDE DEF room, x, w, o, lim, z, n
        <4> QED BY <4>1, <1>3, <2>2
      <3> DEFINE i == room + k
      <3>3. i \in DOMAIN data
        <4> HIDE DEF room, x, w, o, lim, z, n
        <4> QED BY <2>4, <1>3
      <3> HIDE DEF i
      <3>4. data[i] = <<p.crc, z + (i - 1)>>
        BY <3>1, <3>3
      <3> QED BY <3>2, <3>4 DEF i
    <2>11. /\ Proceeds(f, b, e) /\ ObjectTrue(f, e)
           /\ e.s = b.s /\ e.fs = b.fs /\ e.m.pos = b.m.pos + Len(rest)
      <3>1. Len(b.fs.queue) < Buffers
        BY <2>8, <1>2
      <3> HIDE DEF room, x, w, o, lim, z, n
      <3>2. Proceeds(f, b, Fill(b, rest))
        BY <3>1, <2>4, <2>8, <2>9, <2>10, FillPaced
      <3>3. ObjectTrue(f, Fill(b, rest))
        BY <3>1, <2>4, <2>8, <2>9, <2>10, FillPaced
      <3>4. Fill(b, rest).s = b.s
        BY <3>1, <2>4, <2>8, <2>9, <2>10, FillPaced
      <3>5. Fill(b, rest).fs = b.fs
        BY <3>1, <2>4, <2>8, <2>9, <2>10, FillPaced
      <3>6. Fill(b, rest).m.pos = b.m.pos + Len(rest)
        BY <2>4, <2>9, FillOK
      <3> QED BY <3>2, <3>3, <3>4, <3>5, <3>6
    <2> HIDE DEF e
    <2>12. Proceeds(f, d, e)
      BY <2>7, <2>8, <2>11, ProceedsOn
    <2> HIDE DEF room, x, w, o, lim, z, n
    <2>13. /\ e.m.pos = n - room /\ e.m.pos < Chunk
           /\ e.s.write_offset + e.m.pos = o
      <3>1. e.m.pos = 0 + (n - room) /\ 0 + (n - room) = n - room
        BY <2>2, <2>4, <2>8, <2>11
      <3>2. e.s.write_offset = w + Chunk
        BY <2>8, <2>11
      <3> QED BY <3>1, <3>2, <2>2
    <2>14. Len(e.fs.queue) <= Len(d.fs.queue) + 1
      BY <2>8, <2>11, <1>1
    <2> QED BY <2>1, <2>8, <2>11, <2>12, <2>13, <2>14 DEF o
  <1> QED BY <1>4, <1>5

\* NRF_DFU_OBJECT_OP_WRITE of a data object.
LEMMA DataWritePaced ==
    ASSUME NEW f, NEW d, DeviceOK(d), PacedDevice(f, d), Active(d),
           Len(d.fs.queue) + 2 <= QueueSize, QueueSize <= Buffers,
           NEW data \in Seq(Data), Len(data) > 0
    PROVE  LET e == DataWrite(d, data) IN
           PacedDevice(f, e) /\ Proceeds(f, d, e)
  <1> DEFINE e == DataWrite(d, data)
  <1>1. CASE WriteAllowed(d, data)
    <2> DEFINE a == Received(d, data)
               b == Buffered(a, data)
               p == a.s.progress
    <2>1. /\ Proceeds(f, d, a) /\ ObjectTrue(f, a) /\ a.fs = d.fs /\ a.m.pos < Chunk
          /\ p.object > 0 /\ (a.s.write_offset + a.m.pos) + Len(data) = p.offset
          /\ p.offset <= p.last + p.object
          /\ p.crc \in Images =>
                \A k \in DOMAIN data :
                   data[k] = <<p.crc, (a.s.write_offset + a.m.pos) + (k - 1)>>
      BY <1>1, ReceivedPaced DEF PacedDevice
    <2>2. Len(data) <= Chunk
      BY <1>1 DEF WriteAllowed
    <2> HIDE DEF a
    <2>3. DeviceOK(a) /\ Standing(f, a) /\ Active(a) /\ Len(a.fs.queue) + 2 <= QueueSize
      BY <2>1 DEF Proceeds
    <2>4. /\ Proceeds(f, a, b) /\ ObjectTrue(f, b) /\ b.s.progress = p
          /\ b.s.write_offset + b.m.pos = p.offset /\ b.m.pos < Chunk
          /\ Len(b.fs.queue) <= Len(a.fs.queue) + 1
      BY <2>1, <2>2, <2>3, BufferedPaced
    <2> HIDE DEF b
    <2>5. e = IF ObjectEnds(b) THEN StoreBuffer(b) ELSE b
      BY <1>1 DEF DataWrite, a, b
    <2>6. Proceeds(f, d, b)
      BY <2>1, <2>4, ProceedsOn
    <2>7. DeviceOK(b) /\ Standing(f, b) /\ Active(b)
      BY <2>4 DEF Proceeds
    <2> DEFINE w == b.s.write_offset
               x == b.m.pos
    <2>8. /\ w \in Nat /\ x \in Nat /\ p.last \in Nat /\ p.object \in Nat
          /\ p.offset \in Nat
      <3>1. b.s \in Record /\ b.m.pos \in 0 .. Chunk /\ Chunk \in Nat
        BY <2>7, Parts, Sizes
      <3>2. w \in Nat /\ p.last \in Nat /\ p.object \in Nat /\ p.offset \in Nat
        BY <3>1, <2>4, RecordFields
      <3>3. x \in Nat
        BY <3>1
      <3> QED BY <3>2, <3>3
    <2>9. d.m.start + d.m.size_req <= Region
      BY DEF PacedDevice, Receiving
    <2> HIDE DEF e, p
    <2>10. CASE ObjectEnds(b)
      <3>1. w + x <= p.last + p.object
        BY <2>1, <2>4
      <3>2. Accepts(b.fs)
        <4>1. Len(a.fs.queue) \in Nat /\ Len(b.fs.queue) \in Nat /\ QueueSize \in Nat
          <5>1. a.fs.queue \in Seq(Op) /\ b.fs.queue \in Seq(Op)
            BY <2>3, <2>7, Parts
          <5> HIDE DEF a, b
          <5>2. Len(a.fs.queue) \in Nat
            BY <5>1
          <5>3. Len(b.fs.queue) \in Nat
            BY <5>1
          <5> QED BY <5>2, <5>3, Sizes
        <4>2. Len(b.fs.queue) < QueueSize
          BY <4>1, <2>3, <2>4
        <4> QED BY <4>2, <2>7 DEF Accepts, Standing, QueueFine
      <3>3. /\ Proceeds(f, b, e) /\ ObjectTrue(f, e) /\ e.s.progress = p /\ e.m.pos = 0
            /\ e.s.write_offset = w + x
        <4>1. b.m.pos # 0 /\ e = StoreBuffer(b)
          BY <2>5, <2>10 DEF ObjectEnds
        <4> QED BY <3>1, <3>2, <4>1, <2>1, <2>4, <2>7, StoreBufferPaced DEF p
      <3>4. Proceeds(f, d, e)
        BY <2>6, <3>3, ProceedsOn
      <3>5. Counted(e)
        <4> HIDE DEF w, x
        <4>1. 0 < Chunk
          BY Sizes
        <4>2. p.offset = (w + x) + 0 /\ p.object # 0 /\ ~(0 > 0)
          BY <2>1, <2>4, <2>8 DEF w, x
        <4> QED BY <3>3, <4>1, <4>2 DEF Counted
      <3>6. Standing(f, e) /\ e.m.start = d.m.start /\ e.m.size_req = d.m.size_req
        BY <3>4 DEF Proceeds
      <3> QED BY <3>3, <3>4, <3>5, <3>6, <2>9 DEF PacedDevice, Receiving, e
    <2>11. CASE ~ObjectEnds(b)
      <3>1. x > 0 => p.offset < p.last + p.object
        <4>1. SUFFICES ASSUME x > 0 PROVE p.offset < p.last + p.object
          OBVIOUS
        <4>2. ~(w - p.last + x >= p.object)
          <5>1. x # 0
            BY <4>1, <2>8
          <5> QED BY <5>1, <2>4, <2>11 DEF ObjectEnds
        <4> QED BY <4>2, <2>4, <2>8
      <3>2. Counted(b)
        BY <3>1, <2>1, <2>4, <2>8 DEF Counted
      <3>3. e = b
        BY <2>5, <2>11
      <3>4. b.m.start = d.m.start /\ b.m.size_req = d.m.size_req
        BY <2>6 DEF Proceeds
      <3> QED BY <3>2, <3>3, <3>4, <2>4, <2>6, <2>7, <2>9 DEF PacedDevice, Receiving, e
    <2> QED BY <2>10, <2>11 DEF e
  <1>2. CASE ~WriteAllowed(d, data)
    <2>1. e = d
      BY <1>2 DEF DataWrite
    <2> QED BY <2>1 DEF PacedDevice, Proceeds
  <1> QED BY <1>1, <1>2

-----------------------------------------------------------------------------
(* The creation of an object.                                              *)

LEMMA DataCreateEffect ==
    ASSUME NEW d, DeviceOK(d), NEW size \in Nat, DataCreated(d, size)
    PROVE  LET e == DataCreate(d, size)
               last == d.s.progress.last IN
           /\ e.s.command = d.s.command /\ e.s.current = d.s.current
           /\ e.s.bank0 = d.s.bank0 /\ e.s.bank1 = d.s.bank1 /\ e.s.write_offset = last
           /\ e.s.progress.object = size /\ e.s.progress.offset = last
           /\ e.s.progress.last = last /\ e.s.progress.crc_last = d.s.progress.crc_last
           /\ e.s.progress.crc = d.s.progress.crc_last
           /\ e.m.valid = d.m.valid /\ e.m.start = d.m.start /\ e.m.size_req = d.m.size_req
           /\ e.m.pos = 0 /\ e.m.cur = (d.m.cur + 1) % Buffers /\ e.m.buf = d.m.buf
           /\ e.fs.failure = d.fs.failure /\ e.fs.barrier = d.fs.barrier
           /\ e.fs.reset = d.fs.reset
           /\ \E o \in Op :
                 /\ o.op = "erase" /\ o.at = d.m.start + last /\ o.len = AlignToPage(size)
                 /\ e.fs.queue = Append(d.fs.queue, o)
  <1> DEFINE q == d.s.progress
             p == [q EXCEPT !.crc = q.crc_last, !.object = size, !.offset = q.last]
             r == [d.s EXCEPT !.progress = p]
             t == [r EXCEPT !.write_offset = q.last]
             x == FLASH_BUFFER_SWAP(d.m)
             new == [s |-> t, m |-> x, fs |-> d.fs]
             n == x.pending + 1
             o == [op |-> "erase", at |-> d.m.start + q.last, len |-> AlignToPage(size)]
             g == Queued(d.fs, o)
             e == DataCreate(d, size)
  <1>1. CreateAllowed(d, size) /\ Accepts(d.fs) /\ size # 0
    BY DEF DataCreated, CreateAllowed
  <1>2. /\ d.s \in Record /\ d.m \in Ram /\ d.fs \in DeviceFs /\ d.fs.queue \in Seq(Op)
        /\ q \in Progress /\ q.last \in Nat /\ q.crc_last \in Crcs
        /\ d.m.start + q.last \in Nat /\ d.m.pending \in Nat
    BY Parts DEF Progress
  <1>3. e = [new EXCEPT !.m.pending = @ + 1, !.fs = Queued(@, o)]
    <2>1. t = [d.s EXCEPT !.progress = p, !.write_offset = q.last]
      OBVIOUS
    <2> QED BY <1>1, <2>1 DEF DataCreate
  <1>4. /\ o \in Op /\ o.op = "erase" /\ o.at = d.m.start + q.last
        /\ o.len = AlignToPage(size)
    <2>1. AlignToPage(size) \in Nat \ {0}
      BY <1>1, AlignUp
    <2> QED BY <2>1, <1>2 DEF Op
  <1> HIDE DEF o, e, n, q
  <1>5. /\ p \in Progress /\ p.object = size /\ p.offset = q.last /\ p.last = q.last
        /\ p.crc = q.crc_last /\ p.crc_last = q.crc_last
    BY <1>2 DEF Progress
  <1> HIDE DEF p
  <1>6. r \in Record /\ r = [layout |-> d.s.layout, current |-> d.s.current,
            bank0 |-> d.s.bank0, bank1 |-> d.s.bank1, command |-> d.s.command,
            progress |-> p, write_offset |-> d.s.write_offset]
    BY <1>2, <1>5, RecordUpdates
  <1> HIDE DEF r
  <1>7. t \in Record /\ t = [layout |-> r.layout, current |-> r.current,
            bank0 |-> r.bank0, bank1 |-> r.bank1, command |-> r.command,
            progress |-> r.progress, write_offset |-> q.last]
    BY <1>2, <1>6, RecordUpdates
  <1> HIDE DEF t
  <1>8. /\ t.progress = p /\ t.command = d.s.command /\ t.current = d.s.current
        /\ t.bank0 = d.s.bank0 /\ t.bank1 = d.s.bank1 /\ t.write_offset = q.last
    BY <1>6, <1>7
  <1>9. /\ x \in Ram /\ x.valid = d.m.valid /\ x.size_req = d.m.size_req
        /\ x.start = d.m.start /\ x.pending = d.m.pending /\ x.pos = 0 /\ x.buf = d.m.buf
        /\ x.cur = (d.m.cur + 1) % Buffers
    BY <1>2, SwapType
  <1> HIDE DEF x
  <1>10. new.s = t /\ new.m = x /\ new.fs = d.fs
    BY DEF new
  <1>11. /\ e.s = t /\ e.m = [x EXCEPT !.pending = n] /\ e.fs = g
    <2> HIDE DEF g
    <2>1. DOMAIN new = {"s", "m", "fs"}
      BY DEF new
    <2> HIDE DEF new
    <2>2. e = [new EXCEPT !.m = [new.m EXCEPT !.pending = new.m.pending + 1],
                          !.fs = Queued(new.fs, o)]
      BY <1>3
    <2>3. [new.m EXCEPT !.pending = new.m.pending + 1] = [x EXCEPT !.pending = n]
      BY <1>10 DEF n
    <2> DEFINE y == [x EXCEPT !.pending = n]
    <2>4. e = [new EXCEPT !.m = y, !.fs = g]
      BY <2>2, <2>3, <1>10 DEF g
    <2> HIDE DEF y
    <2>5. e.s = new.s /\ e.m = y /\ e.fs = g
      BY <2>1, <2>4
    <2> QED BY <2>5, <1>10 DEF y
  <1>12. /\ e.m.valid = d.m.valid /\ e.m.start = d.m.start /\ e.m.size_req = d.m.size_req
         /\ e.m.pos = 0 /\ e.m.cur = (d.m.cur + 1) % Buffers /\ e.m.buf = d.m.buf
    <2>1. n \in Int
      BY <1>2, <1>9 DEF n
    <2>2. e.m = [valid |-> x.valid, size_req |-> x.size_req, start |-> x.start,
                 packet |-> x.packet, pos |-> x.pos, cur |-> x.cur, pending |-> n,
                 buf |-> x.buf]
      BY <2>1, <1>9, <1>11, RamUpdates
    <2> QED BY <2>2, <1>9
  <1>13. g = [queue |-> Append(d.fs.queue, o), failure |-> d.fs.failure,
              barrier |-> d.fs.barrier, reset |-> d.fs.reset]
    BY <1>2, <1>4, QueuedType
  <1> HIDE DEF g
  <1>14. /\ e.fs.queue = Append(d.fs.queue, o) /\ e.fs.failure = d.fs.failure
         /\ e.fs.barrier = d.fs.barrier /\ e.fs.reset = d.fs.reset
    BY <1>11, <1>13
  <1> HIDE DEF new
  <1> QED BY <1>4, <1>5, <1>8, <1>11, <1>12, <1>14 DEF e, q

\* NRF_DFU_OBJECT_OP_CREATE of a data object: what is behind the last object
\* is erased, and what is saved of the image lies in front of it.
LEMMA DataCreatePaced ==
    ASSUME NEW f, NEW d, DeviceOK(d), PacedDevice(f, d), Active(d),
           Len(d.fs.queue) < QueueSize, NEW size \in Nat
    PROVE  LET e == DataCreate(d, size) IN
           PacedDevice(f, e) /\ Proceeds(f, d, e)
  <1> DEFINE e == DataCreate(d, size)
             last == d.s.progress.last
             a == d.m.start
  <1>1. CASE ~CreateAllowed(d, size)
    <2>1. e = d
      BY <1>1 DEF DataCreate
    <2> QED BY <2>1 DEF PacedDevice, Proceeds
  <1>2. CASE CreateAllowed(d, size)
    <2>1. DataCreated(d, size)
      BY <1>2 DEF DataCreated, Accepts, PacedDevice, Standing, QueueFine
    <2>2. DeviceOK(e)
      BY DataCreateOK
    <2>3. PICK o \in Op :
             /\ o.op = "erase" /\ o.at = a + last /\ o.len = AlignToPage(size)
             /\ e.fs.queue = Append(d.fs.queue, o)
      BY <2>1, DataCreateEffect
    <2>4. /\ e.s.command = d.s.command /\ e.s.current = d.s.current
          /\ e.s.bank0 = d.s.bank0 /\ e.s.bank1 = d.s.bank1 /\ e.s.write_offset = last
          /\ e.s.progress.object = size /\ e.s.progress.offset = last
          /\ e.s.progress.last = last /\ e.s.progress.crc_last = d.s.progress.crc_last
          /\ e.s.progress.crc = d.s.progress.crc_last
          /\ e.m.valid = d.m.valid /\ e.m.start = d.m.start /\ e.m.size_req = d.m.size_req
          /\ e.m.pos = 0 /\ e.m.cur = (d.m.cur + 1) % Buffers /\ e.m.buf = d.m.buf
          /\ e.fs.failure = d.fs.failure /\ e.fs.barrier = d.fs.barrier
          /\ e.fs.reset = d.fs.reset
      BY <2>1, DataCreateEffect
    <2>5. /\ d.s \in Record /\ d.fs.queue \in Seq(Op) /\ a \in Nat /\ last \in Nat
      BY Parts, RecordFields
    <2>6. size # 0 /\ AlignToPage(size) \in Nat /\ size <= AlignToPage(size)
      BY <1>2, AlignUp DEF CreateAllowed
    <2>7. IsData(o) /\ o.at >= a + last
      BY <2>3, <2>5 DEF IsData
    <2> HIDE DEF e
    <2>8. Standing(f, e) /\ \A r \in Record : PageKept(d, r) => PageKept(e, r)
      <3> HIDE DEF last, a
      <3> QED BY <2>3, <2>4, <2>7, AppendStanding DEF PacedDevice, last, a
    <2>9. Active(e)
      BY <2>4 DEF Active
    <2>10. ASSUME NEW x, NEW v
           PROVE  /\ x \notin Covered(o) /\ WillHold(f, d, x, v) => WillHold(f, e, x, v)
                  /\ x \in Covered(o) => WillBeClean(f, e, x)
      BY <2>3, <2>4, <2>5, Appended
    <2>11. \A k \in last .. (last + size) - 1 : WillBeClean(f, e, a + k)
      <3> DEFINE z == AlignToPage(size)
      <3>1. Covered(o) = a + last .. (a + last) + (z - 1)
        BY <2>3 DEF Covered
      <3>2. z \in Nat /\ size <= z
        BY <2>6
      <3> HIDE DEF last, a, z
      <3>3. \A k \in last .. (last + size) - 1 : a + k \in Covered(o)
        BY <3>1, <3>2, <2>5
      <3> QED BY <3>3, <2>10
    <2>12. ASSUME d.s.progress.crc_last \in Images, NEW k \in 0 .. last - 1
           PROVE  WillHold(f, e, a + k, <<d.s.progress.crc_last, k>>)
      <3>1. a = PlaceOf(d.s)
        BY DEF DeviceOK, Started
      <3> DEFINE c == <<a + k, <<d.s.progress.crc_last, k>>>>
      <3>2. c \in Claims(d.s)
        BY <3>1, <2>12, ClaimCases
      <3>3. WillHold(f, d, c[1], c[2])
        BY <3>2 DEF PacedDevice, Standing, SettingsTrue
      <3>4. a + k \in Nat /\ a + k < a + last
        <4> HIDE DEF a, last
        <4> QED BY <2>5, <2>12
      <3>5. a + k \notin Covered(o)
        BY <2>3, <3>4, NotCovered
      <3>6. WillHold(f, d, a + k, <<d.s.progress.crc_last, k>>)
        BY <3>3
      <3> QED BY <3>5, <3>6, <2>10
    <2>13. \A k \in 0 .. 0 - 1 : FALSE
      OBVIOUS
    <2>14. ObjectTrue(f, e)
      <3> HIDE DEF last, a
      <3>1. last <= last
        BY <2>5
      <3> QED BY <3>1, <2>4, <2>11, <2>12, <2>13 DEF ObjectTrue, a
    <2>15. Counted(e)
      <3> HIDE DEF last
      <3>1. last = last + 0 /\ ~(0 > 0) /\ 0 < Chunk
        BY <2>5, Sizes
      <3> QED BY <3>1, <2>4, <2>6 DEF Counted
    <2>16. PacedDevice(f, e)
      <3>1. d.m.start + d.m.size_req <= Region
        BY DEF PacedDevice, Receiving
      <3> QED BY <3>1, <2>4, <2>8, <2>14, <2>15 DEF PacedDevice, Receiving
    <2>17. Proceeds(f, d, e)
      <3>1. \A j \in DOMAIN d.fs.queue :
               e.fs.queue[j] = d.fs.queue[j] /\ j \in DOMAIN e.fs.queue
        BY <2>3, <2>5, AppendIndex
      <3> HIDE DEF last, a
      <3> QED BY <3>1, <2>2, <2>4, <2>8, <2>9 DEF Proceeds
    <2> QED BY <2>16, <2>17 DEF e
  <1> QED BY <1>1, <1>2

-----------------------------------------------------------------------------
(* Queueing the settings.                                                  *)

KeepsPage(d, e) == \A r \in Record : PageKept(d, r) => PageKept(e, r)

KeepsQueue(d, e) ==
    \A j \in DOMAIN d.fs.queue : j \in DOMAIN e.fs.queue /\ e.fs.queue[j] = d.fs.queue[j]

QueuedWith(d, e, reset) == SettingsQueued(d) => e.fs.barrier /\ e.fs.reset = reset

\* An operation on the settings page leaves the data alone, and what is to be
\* stored of the settings is true by then.
LEMMA SettingsOpPaced ==
    ASSUME NEW f, NEW d, d.fs.queue \in Seq(Op), d.s \in Record, PacedDevice(f, d),
           NEW o \in Op, ~IsData(o),
           NEW e, e.s = d.s, e.m = d.m, e.fs.queue = Append(d.fs.queue, o),
           e.fs.failure = d.fs.failure, ~d.fs.barrier,
           e.fs.barrier <=> o.op = "settingsStore",
           o.op = "settingsStore" =>
               /\ o.content = d.s /\ Writable(d.s)
               /\ d.s.bank1.code = "VALID_APP" => e.fs.reset
    PROVE  PacedDevice(f, e) /\ KeepsPage(d, e)
  <1> DEFINE q == d.fs.queue
             t == e.fs.queue
  <1>1. q \in Seq(Op) /\ d.s \in Record
    OBVIOUS
  <1>2. /\ t \in Seq(Op) /\ Len(q) \in Nat /\ Len(t) = Len(q) + 1
        /\ DOMAIN t = 1 .. Len(q) + 1 /\ DOMAIN q = 1 .. Len(q) /\ t[Len(q) + 1] = o
        /\ \A j \in 1 .. Len(q) : t[j] = q[j]
        /\ \A x : \A a \in 1 .. Len(q) + 1 :
              Untouched(q, a, Len(q), x) /\ x \notin Covered(o)
                  => Untouched(t, a, Len(q) + 1, x)
    BY <1>1, AppendIndex
  <1>3. \A x : x \notin Covered(o)
    BY DEF Covered, IsData
  <1>4. o.op # "store"
    BY DEF IsData
  <1>5. \A j \in 1 .. Len(q) : q[j].op # "settingsStore"
    BY <1>2 DEF PacedDevice, Standing, QueueFine
  <1>6. QueueFine(e)
    <2>1. ~e.fs.failure
      BY DEF PacedDevice, Standing, QueueFine
    <2>2. \A j \in 1 .. Len(q) + 1 :
             t[j].op = "settingsStore" => j = Len(q) + 1 /\ o.op = "settingsStore"
      BY <1>2, <1>5
    <2>3. Len(q) + 1 \in DOMAIN t /\ t[Len(q) + 1] = o /\ DOMAIN t = 1 .. Len(q) + 1
      BY <1>2
    <2>4. e.fs.barrier <=> \E j \in DOMAIN t : t[j].op = "settingsStore"
      <3> HIDE DEF t, q
      <3> QED BY <2>2, <2>3
    <2>5. \A j, k \in DOMAIN t :
             t[j].op = "settingsStore" /\ t[k].op = "settingsStore" => j = k
      BY <2>2, <2>3
    <2>6. e.fs.queue = t
      OBVIOUS
    <2> HIDE DEF t, q
    <2> QED BY <2>1, <2>4, <2>5, <2>6 DEF QueueFine
  <1>7. BuffersBehind(e)
    <2>1. SUFFICES ASSUME NEW j \in 1 .. Len(q) + 1, t[j].op = "store"
                   PROVE  \E n \in 1 .. Len(t) - j + 1 : (t[j].buf + n) % Buffers = d.m.cur
      BY <1>2 DEF BuffersBehind
    <2>2. j \in 1 .. Len(q) /\ t[j] = q[j]
      BY <2>1, <1>2, <1>4
    <2>3. PICK n \in 1 .. Len(q) - j + 1 : (q[j].buf + n) % Buffers = d.m.cur
      BY <2>1, <2>2, <1>2 DEF PacedDevice, Standing, BuffersBehind
    <2>4. n \in 1 .. Len(t) - j + 1
      <3> HIDE DEF q, t
      <3> QED BY <2>2, <2>3, <1>2
    <2> QED BY <2>2, <2>3, <2>4
  <1>8. ASSUME NEW x, NEW v
        PROVE  /\ WillBeClean(f, d, x) => WillBeClean(f, e, x)
               /\ WillHold(f, d, x, v) => WillHold(f, e, x, v)
    <2>1. e.m.buf = d.m.buf
      OBVIOUS
    <2> QED BY <2>1, <1>1, <1>3, Appended
  <1>9. SettingsTrue(f, e)
    BY <1>8 DEF PacedDevice, Standing, SettingsTrue
  <1>10. \A r : SameUpdate(d, r) => SameUpdate(e, r)
    BY DEF SameUpdate, Active
  <1>11. Receiving(f, e)
    BY <1>8 DEF PacedDevice, Receiving, Active, ObjectTrue, Counted
  <1>12. WritesTrue(f, e)
    <2>1. SUFFICES ASSUME NEW j \in 1 .. Len(q) + 1, t[j].op = "settingsStore"
                   PROVE  LET r == t[j].content IN
                          /\ Writable(r) /\ SameUpdate(e, r)
                          /\ r.bank1.code = "VALID_APP" => e.fs.reset /\ r.current = 1
                          /\ \A c \in Claims(r) :
                                /\ Holds(f, t, d.m.buf, j, c[1], c[2])
                                /\ Untouched(t, j, Len(q) + 1, c[1])
      BY <1>2 DEF WritesTrue
    <2>2. j = Len(q) + 1 /\ t[j] = o /\ o.op = "settingsStore"
      BY <2>1, <1>2, <1>5
    <2>3. t[j].content = d.s /\ Writable(d.s) /\ (d.s.bank1.code = "VALID_APP" => e.fs.reset)
      BY <2>2
    <2>4. SameUpdate(e, d.s)
      BY <1>1, RecordFields DEF SameUpdate
    <2>5. d.s.bank1.code = "VALID_APP" => d.s.current = 1
      BY DEF PacedDevice, Standing, SettingsTrue
    <2>6. ASSUME NEW c \in Claims(d.s)
          PROVE  /\ Holds(f, t, d.m.buf, j, c[1], c[2])
                 /\ Untouched(t, j, Len(q) + 1, c[1])
      <3>1. Holds(f, q, d.m.buf, j, c[1], c[2])
        BY <2>2 DEF PacedDevice, Standing, SettingsTrue, WillHold, AfterAll
      <3>2. \A k \in 1 .. j - 1 : t[k] = q[k]
        BY <2>2, <1>2
      <3>3. Holds(f, t, d.m.buf, j, c[1], c[2])
        <4>1. j \in Nat
          BY <1>2
        <4> HIDE DEF q, t
        <4>2. \A x : \A b, v : Holds(f, q, b, j, x, v) => Holds(f, t, b, j, x, v)
          BY <4>1, <3>2, SameBefore
        <4> QED BY <4>2, <3>1
      <3>4. Untouched(t, j, Len(q) + 1, c[1])
        <4>1. Untouched(q, j, Len(q), c[1])
          BY <2>2, <1>2 DEF Untouched
        <4> QED BY <4>1, <1>2, <1>3
      <3> QED BY <3>3, <3>4
    <2> QED BY <2>3, <2>4, <2>5, <2>6
  <1>13. ASSUME NEW r \in Record, PageKept(d, r) PROVE PageKept(e, r)
    <2>1. SUFFICES ASSUME ~EraseFirst(t)
                   PROVE  /\ SameUpdate(e, r)
                          /\ \A c \in Claims(r) : Untouched(t, 1, Len(t), c[1])
      BY DEF PageKept
    <2>2. ~EraseFirst(q)
      <3>1. ASSUME q # <<>> PROVE t # <<>> /\ t[1] = q[1]
        <4>1. Len(q) # 0
          BY <3>1, <1>1
        <4>2. 1 \in 1 .. Len(q)
          BY <4>1, <1>2
        <4>3. t # <<>>
          BY <1>2
        <4> QED BY <4>2, <4>3, <1>2
      <3> QED BY <3>1, <2>1 DEF EraseFirst
    <2>3. SameUpdate(d, r) /\ \A c \in Claims(r) : Untouched(q, 1, Len(q), c[1])
      BY <2>2, <1>13 DEF PageKept
    <2>4. 1 \in 1 .. Len(q) + 1
      BY <1>2
    <2> QED BY <2>3, <2>4, <1>2, <1>3, <1>10
  <1> QED BY <1>6, <1>7, <1>9, <1>11, <1>12, <1>13 DEF PacedDevice, Standing, KeepsPage

LEMMA WriteCases ==
    ASSUME NEW d \in DeviceType, NEW reset \in BOOLEAN, NEW f,
           f = nrf_dfu_settings_write(d, reset)
    PROVE  LET e == [op |-> "settingsErase"]
               o == [op |-> "settingsStore", content |-> d.s]
               q == d.fs.queue IN
           /\ \/ d.fs.barrier /\ f = d.fs
              \/ /\ ~d.fs.barrier /\ ~f.barrier /\ f.reset = reset
                 /\ f.failure = d.fs.failure
                 /\ \/ ~Accepts(d.fs) /\ f.queue = q
                    \/ /\ Accepts(d.fs) /\ ~(Len(q) + 1 < QueueSize)
                       /\ f.queue = Append(q, e)
              \/ /\ ~d.fs.barrier /\ f.barrier /\ f.reset = reset
                 /\ f.failure = d.fs.failure
                 /\ Accepts(d.fs) /\ Len(q) + 1 < QueueSize
                 /\ f.queue = Append(Append(q, e), o)
           /\ SettingsQueued(d) <=> ~d.fs.barrier /\ Accepts(d.fs) /\ Len(q) + 1 < QueueSize
  <1> DEFINE e == [op |-> "settingsErase"]
             o == [op |-> "settingsStore", content |-> d.s]
             q == d.fs.queue
             f0(b) == [d.fs EXCEPT !.reset = b]
             f1(b) == Queued(f0(b), e)
             f2(b) == Queued(f1(b), o)
             f3(b) == [f2(b) EXCEPT !.barrier = TRUE]
  <1>1. d.fs \in DeviceFs /\ q \in Seq(Op) /\ Len(q) \in Nat
    BY DEF DeviceType, DeviceFs
  <1>2. ASSUME NEW b \in BOOLEAN
        PROVE  /\ f0(b).queue = q /\ f0(b).failure = d.fs.failure
               /\ f0(b).barrier = d.fs.barrier /\ f0(b).reset = b
               /\ f1(b).queue = Append(q, e) /\ f1(b).failure = d.fs.failure
               /\ f1(b).barrier = d.fs.barrier /\ f1(b).reset = b
               /\ f3(b).queue = Append(Append(q, e), o) /\ f3(b).failure = d.fs.failure
               /\ f3(b).barrier = TRUE /\ f3(b).reset = b
    <2>1. DOMAIN d.fs = {"queue", "failure", "barrier", "reset"}
      BY <1>1 DEF DeviceFs
    <2> DEFINE g0 == f0(b)
               g1 == f1(b)
               g2 == f2(b)
               g3 == f3(b)
    <2> HIDE DEF q, e, o
    <2>2. /\ DOMAIN g0 = {"queue", "failure", "barrier", "reset"}
          /\ g0.queue = q /\ g0.failure = d.fs.failure
          /\ g0.barrier = d.fs.barrier /\ g0.reset = b
      BY <2>1 DEF q
    <2>3. g1 = Queued(g0, e)
      OBVIOUS
    <2>4. g2 = Queued(g1, o)
      OBVIOUS
    <2>5. g3 = [g2 EXCEPT !.barrier = TRUE]
      OBVIOUS
    <2> HIDE DEF g0, g1, g2, g3
    <2>6. /\ DOMAIN g1 = {"queue", "failure", "barrier", "reset"}
          /\ g1.queue = Append(q, e) /\ g1.failure = d.fs.failure
          /\ g1.barrier = d.fs.barrier /\ g1.reset = b
      BY <2>2, <2>3 DEF Queued
    <2>7. /\ DOMAIN g2 = {"queue", "failure", "barrier", "reset"}
          /\ g2.queue = Append(Append(q, e), o) /\ g2.failure = d.fs.failure
          /\ g2.barrier = d.fs.barrier /\ g2.reset = b
      BY <2>4, <2>6 DEF Queued
    <2>8. /\ g3.queue = Append(Append(q, e), o) /\ g3.failure = d.fs.failure
          /\ g3.barrier = TRUE /\ g3.reset = b
      BY <2>5, <2>7
    <2> QED BY <2>2, <2>6, <2>8 DEF g0, g1, g3
  <1>3. ASSUME NEW b \in BOOLEAN
        PROVE  nrf_dfu_settings_write(d, b) =
                 CASE d.fs.barrier -> d.fs
                   [] ~d.fs.barrier /\ ~Accepts(d.fs) -> f0(b)
                   [] ~d.fs.barrier /\ Accepts(d.fs) /\ ~Accepts(f1(b)) -> f1(b)
                   [] OTHER -> f3(b)
    BY DEF nrf_dfu_settings_write
  <1>4. ASSUME NEW b \in BOOLEAN, ~d.fs.failure
        PROVE  Accepts(f1(b)) <=> Len(q) + 1 < QueueSize
    <2>1. Len(Append(q, e)) = Len(q) + 1
      BY <1>1
    <2> HIDE DEF f1
    <2> QED BY <2>1, <1>2, <1>4 DEF Accepts
  <1> HIDE DEF f0, f1, f2, f3, e, o, q
  <1>5. Accepts(d.fs) => ~d.fs.failure
    BY DEF Accepts
  <1>6. ASSUME NEW b \in BOOLEAN, NEW g, g = nrf_dfu_settings_write(d, b)
        PROVE \/ d.fs.barrier /\ g = d.fs
              \/ /\ ~d.fs.barrier /\ ~g.barrier /\ g.reset = b
                 /\ g.failure = d.fs.failure
                 /\ \/ ~Accepts(d.fs) /\ g.queue = q
                    \/ /\ Accepts(d.fs) /\ ~(Len(q) + 1 < QueueSize)
                       /\ g.queue = Append(q, e)
              \/ /\ ~d.fs.barrier /\ g.barrier /\ g.reset = b
                 /\ g.failure = d.fs.failure
                 /\ Accepts(d.fs) /\ Len(q) + 1 < QueueSize
                 /\ g.queue = Append(Append(q, e), o)
    <2>1. CASE d.fs.barrier
      BY <2>1, <1>3, <1>6
    <2>2. CASE ~d.fs.barrier /\ ~Accepts(d.fs)
      <3>1. g = f0(b)
        BY <2>2, <1>3, <1>6
      <3> QED BY <3>1, <2>2, <1>2
    <2>3. CASE ~d.fs.barrier /\ Accepts(d.fs) /\ ~Accepts(f1(b))
      <3>1. g = f1(b)
        BY <2>3, <1>3, <1>6
      <3> QED BY <3>1, <2>3, <1>2, <1>4, <1>5
    <2>4. CASE ~d.fs.barrier /\ Accepts(d.fs) /\ Accepts(f1(b))
      <3>1. g = f3(b)
        BY <2>4, <1>3, <1>6
      <3> QED BY <3>1, <2>4, <1>2, <1>4, <1>5
    <2> QED BY <2>1, <2>2, <2>3, <2>4
  <1>7. SettingsQueued(d) <=> ~d.fs.barrier /\ Accepts(d.fs) /\ Len(q) + 1 < QueueSize
    <2>1. PICK g : g = nrf_dfu_settings_write(d, FALSE)
      OBVIOUS
    <2> QED BY <2>1, <1>6 DEF SettingsQueued
  <1> QED BY <1>6, <1>7 DEF q, e, o

\* The settings are queued behind what they say is stored.
LEMMA SavePaced ==
    ASSUME NEW f, NEW d, DeviceOK(d), PacedDevice(f, d), NEW reset \in BOOLEAN,
           Storable(d.s), Writable(d.s), d.s.bank1.code = "VALID_APP" => reset = TRUE,
           NEW e, e = [d EXCEPT !.fs = nrf_dfu_settings_write(d, reset)]
    PROVE  /\ e.s = d.s /\ e.m = d.m /\ PacedDevice(f, e)
           /\ KeepsPage(d, e) /\ KeepsQueue(d, e)
           /\ QueuedWith(d, e, reset)
           /\ d.fs.queue = <<>> /\ ~d.fs.barrier => EraseFirst(e.fs.queue)
  <1> DEFINE w == nrf_dfu_settings_write(d, reset)
             o == [op |-> "settingsErase"]
             u == [op |-> "settingsStore", content |-> d.s]
             q == d.fs.queue
             t == Append(q, o)
  <1>1. d = [s |-> d.s, m |-> d.m, fs |-> d.fs] /\ q \in Seq(Op) /\ d.s \in Record
        /\ d \in DeviceType /\ Len(q) \in Nat /\ QueueSize \in Nat /\ QueueSize >= 2
    BY Parts, Sizes DEF DeviceOK
  <1>2. /\ o \in Op /\ u \in Op /\ ~IsData(o) /\ ~IsData(u) /\ o.op = "settingsErase"
        /\ u.op = "settingsStore" /\ u.content = d.s
    BY <1>1 DEF Op, IsData
  <1>3. e.s = d.s /\ e.m = d.m /\ e.fs = w
    <2>1. e = [d EXCEPT !.fs = w]
      OBVIOUS
    <2> HIDE DEF w
    <2> QED BY <2>1, <1>1
  <1>4. /\ \/ d.fs.barrier /\ w = d.fs
           \/ /\ ~d.fs.barrier /\ ~w.barrier /\ w.reset = reset /\ w.failure = d.fs.failure
              /\ \/ ~Accepts(d.fs) /\ w.queue = q
                 \/ /\ Accepts(d.fs) /\ ~(Len(q) + 1 < QueueSize) /\ w.queue = Append(q, o)
           \/ /\ ~d.fs.barrier /\ w.barrier /\ w.reset = reset /\ w.failure = d.fs.failure
              /\ Accepts(d.fs) /\ Len(q) + 1 < QueueSize
              /\ w.queue = Append(Append(q, o), u)
        /\ SettingsQueued(d) <=> ~d.fs.barrier /\ Accepts(d.fs) /\ Len(q) + 1 < QueueSize
    BY <1>1, WriteCases
  <1> HIDE DEF w, o, u
  <1>5. t \in Seq(Op) /\ \A j \in DOMAIN q : j \in DOMAIN t /\ t[j] = q[j]
    <2> HIDE DEF q, t
    <2> QED BY <1>1, <1>2, AppendIndex DEF t
  <1>6. CASE d.fs.barrier
    <2>1. e.s = d.s /\ e.m = d.m /\ e.fs = d.fs
      BY <1>3, <1>4, <1>6
    <2>2. PacedDevice(f, e)
      <3>1. Standing(f, e)
        BY <2>1 DEF PacedDevice, Standing, QueueFine, BuffersBehind, SettingsTrue,
                    WritesTrue, SameUpdate, Active, WillHold, AfterAll
      <3>2. Receiving(f, e)
        BY <2>1 DEF PacedDevice, Receiving, Active, ObjectTrue, Counted, WillHold,
                    WillBeClean, AfterAll
      <3> QED BY <3>1, <3>2 DEF PacedDevice
    <2>3. \A r \in Record : PageKept(d, r) => PageKept(e, r)
      BY <2>1 DEF PageKept, SameUpdate, Active
    <2> QED BY <2>1, <2>2, <2>3, <1>4, <1>6 DEF KeepsPage, KeepsQueue, QueuedWith
  <1>7. CASE ~d.fs.barrier /\ ~w.barrier /\ ~Accepts(d.fs)
    <2>1. /\ e.s = d.s /\ e.m = d.m /\ e.fs.queue = q /\ e.fs.failure = d.fs.failure
          /\ ~e.fs.barrier
      BY <1>3, <1>4, <1>7
    <2>2. PacedDevice(f, e)
      <3>1. \A j \in DOMAIN q : q[j].op # "settingsStore"
        BY <1>7 DEF PacedDevice, Standing, QueueFine
      <3>2. Standing(f, e)
        BY <2>1, <3>1, <1>7 DEF PacedDevice, Standing, QueueFine, BuffersBehind, SettingsTrue,
                  WritesTrue, WillHold, AfterAll
      <3>3. Receiving(f, e)
        BY <2>1 DEF PacedDevice, Receiving, Active, ObjectTrue, Counted, WillHold,
                  WillBeClean, AfterAll
      <3> QED BY <3>2, <3>3 DEF PacedDevice
    <2>3. \A r \in Record : PageKept(d, r) => PageKept(e, r)
      BY <2>1 DEF PageKept, SameUpdate, Active
    <2>4. q # <<>>
      <3>1. 0 < QueueSize /\ Len(<<>>) = 0
        BY <1>1
      <3> QED BY <3>1, <1>7 DEF Accepts, PacedDevice, Standing, QueueFine
    <2> QED BY <2>1, <2>2, <2>3, <2>4, <1>4, <1>7 DEF KeepsPage, KeepsQueue, QueuedWith
  <1>8. CASE ~d.fs.barrier /\ ~w.barrier /\ Accepts(d.fs)
    <2>1. /\ e.s = d.s /\ e.m = d.m /\ e.fs.queue = t /\ e.fs.failure = d.fs.failure
          /\ ~e.fs.barrier
      BY <1>3, <1>4, <1>8
    <2>2. PacedDevice(f, e) /\ KeepsPage(d, e)
      BY <2>1, <1>1, <1>2, <1>8, SettingsOpPaced
    <2>3. EraseFirst(e.fs.queue) \/ q # <<>>
      BY <2>1, <1>2 DEF EraseFirst
    <2> QED BY <2>1, <2>2, <2>3, <1>4, <1>5, <1>8 DEF KeepsQueue, QueuedWith
  <1>9. CASE ~d.fs.barrier /\ w.barrier
    <2> DEFINE g == [s |-> d.s, m |-> d.m, fs |-> [d.fs EXCEPT !.queue = t]]
    <2>1. /\ e.s = d.s /\ e.m = d.m /\ e.fs.queue = Append(t, u)
          /\ e.fs.failure = d.fs.failure /\ e.fs.barrier /\ e.fs.reset = reset
      BY <1>3, <1>4, <1>9
    <2>2. /\ g.s = d.s /\ g.m = d.m /\ g.fs.queue = t /\ g.fs.failure = d.fs.failure
          /\ ~g.fs.barrier
      <3>1. DOMAIN d.fs = {"queue", "failure", "barrier", "reset"}
        BY <1>1 DEF DeviceType, DeviceFs
      <3> HIDE DEF t
      <3>2. g.s = d.s /\ g.m = d.m /\ g.fs = [d.fs EXCEPT !.queue = t]
        OBVIOUS
      <3> HIDE DEF g
      <3> QED BY <3>1, <3>2, <1>9
    <2> HIDE DEF g
    <2>3. PacedDevice(f, g) /\ KeepsPage(d, g)
      BY <2>2, <1>1, <1>2, <1>9, SettingsOpPaced
    <2>4. PacedDevice(f, e) /\ KeepsPage(g, e)
      <3>1. g.fs.queue \in Seq(Op) /\ g.s \in Record
        BY <2>2, <1>1, <1>5
      <3>2. e.s = g.s /\ e.m = g.m /\ e.fs.queue = Append(g.fs.queue, u)
            /\ e.fs.failure = g.fs.failure
        BY <2>1, <2>2
      <3>3. u.op = "settingsStore" =>
               /\ u.content = g.s /\ Writable(g.s)
               /\ g.s.bank1.code = "VALID_APP" => e.fs.reset
        BY <2>1, <2>2, <1>2
      <3>4. e.fs.barrier <=> u.op = "settingsStore"
        BY <2>1, <1>2
      <3> HIDE DEF t
      <3> QED BY <3>1, <3>2, <3>3, <3>4, <2>2, <2>3, <1>2, SettingsOpPaced
    <2>5. EraseFirst(e.fs.queue) \/ q # <<>>
      <3>1. /\ t[Len(q) + 1] = o /\ Append(t, u) # <<>> /\ Len(q) + 1 \in 1 .. Len(t)
            /\ \A j \in 1 .. Len(t) : Append(t, u)[j] = t[j]
        <4>1. t[Len(q) + 1] = o /\ Len(t) = Len(q) + 1
          BY <1>1, <1>2, AppendIndex
        <4> HIDE DEF t
        <4>2. Append(t, u) # <<>> /\ \A j \in 1 .. Len(t) : Append(t, u)[j] = t[j]
          <5>1. Len(Append(t, u)) # 0
            BY <1>2, <1>5
          <5> QED BY <5>1, <1>2, <1>5, AppendIndex
        <4> QED BY <4>1, <4>2, <1>1
      <3>2. q = <<>> => Len(q) + 1 = 1
        OBVIOUS
      <3> QED BY <3>1, <3>2, <2>1, <1>2 DEF EraseFirst
    <2>6. \A j \in DOMAIN q : j \in DOMAIN e.fs.queue /\ e.fs.queue[j] = q[j]
      <3>1. \A j \in DOMAIN t : j \in DOMAIN Append(t, u) /\ Append(t, u)[j] = t[j]
        <4> HIDE DEF t
        <4> QED BY <1>2, <1>5, AppendIndex
      <3> QED BY <3>1, <2>1, <1>5
    <2> QED BY <2>1, <2>3, <2>4, <2>5, <2>6, <1>4, <1>9 DEF KeepsPage, KeepsQueue, QueuedWith
  <1> QED BY <1>4, <1>6, <1>7, <1>8, <1>9

-----------------------------------------------------------------------------
(* The end of an object.                                                   *)

\* The object is in flash, or queued in front of the settings.
LEMMA ObjectDonePaced ==
    ASSUME NEW f, NEW d, DeviceOK(d), PacedDevice(f, d), Active(d), ExecuteAllowed(d)
    PROVE  LET e == ObjectDone(d) IN
           /\ PacedDevice(f, e) /\ e.s.bank1.code # "VALID_APP" /\ e.m.buf = d.m.buf
           /\ KeepsPage(d, e) /\ KeepsQueue(d, e)
  <1> DEFINE p == d.s.progress
             w == d.s.write_offset
  <1>0. PICK new : Settled(d, new)
    BY ObjectAccepted
  <1>1. /\ ObjectDone(d) = [new EXCEPT !.fs = nrf_dfu_settings_write(new, FALSE)]
        /\ DeviceOK(new) /\ Storable(new.s) /\ CurrentBank(new.s).code # "VALID_APP"
        /\ new.m = d.m /\ new.fs = d.fs
        /\ new.s.command = d.s.command /\ new.s.current = d.s.current
        /\ new.s.bank0 = d.s.bank0 /\ new.s.bank1 = d.s.bank1
        /\ new.s.write_offset = w
        /\ new.s.progress.object = 0 /\ new.s.progress.offset = p.offset
        /\ new.s.progress.last = p.offset
        /\ new.s.progress.crc = p.crc /\ new.s.progress.crc_last = p.crc
    BY <1>0 DEF Settled
  <1>2. /\ d.s \in Record /\ new.s \in Record /\ w \in Nat /\ d.m.start \in Nat
        /\ d.m.pos \in Nat
        /\ p.object \in Nat /\ p.offset \in Nat /\ p.last \in Nat /\ d.m.size_req \in Nat
        /\ Region \in Nat
    <2>1. d.s \in Record /\ new.s \in Record /\ d.m.start \in Nat /\ d.m.pos \in 0 .. Chunk
          /\ d.m \in Ram
      BY <1>1, Parts
    <2>2. w \in Nat /\ p.object \in Nat /\ p.offset \in Nat /\ p.last \in Nat
      BY <2>1, RecordFields
    <2>3. d.m.size_req \in Nat /\ Region \in Nat
      BY <2>1, Sizes DEF Ram
    <2>4. d.m.pos \in Nat
      BY <2>1, Sizes
    <2> QED BY <2>1, <2>2, <2>3, <2>4
  <1>3. /\ d.m.start = PlaceOf(d.s) /\ CurrentBank(d.s).size = d.m.size_req
        /\ p.last <= p.offset /\ p.last + p.object <= d.m.size_req
        /\ p.offset = p.last + p.object
    <2>1. /\ d.m.start = PlaceOf(d.s) /\ CurrentBank(d.s).size = d.m.size_req
          /\ p.last <= p.offset /\ p.last + p.object <= d.m.size_req
      BY DEF DeviceOK, Started, Updating
    <2>2. p.object = p.offset - p.last
      BY DEF ExecuteAllowed
    <2> HIDE DEF p
    <2> QED BY <2>1, <2>2, <1>2
  <1>4. /\ ObjectTrue(f, d) /\ Counted(d) /\ d.m.start + d.m.size_req <= Region
    BY DEF PacedDevice, Receiving
  <1>5. w = p.offset
    <2>1. CASE p.object = 0
      BY <2>1, <1>4 DEF Counted
    <2>2. CASE p.object # 0
      <3>1. p.offset = w + d.m.pos /\ (d.m.pos > 0 => p.offset < p.last + p.object)
        BY <2>2, <1>2, <1>4 DEF Counted
      <3> HIDE DEF p, w
      <3> QED BY <3>1, <1>2, <1>3
    <2> QED BY <2>1, <2>2
  <1>6. CurrentBank(new.s) = CurrentBank(d.s) /\ PlaceOf(new.s) = d.m.start
    BY <1>1, <1>3 DEF CurrentBank, PlaceOf
  <1> HIDE DEF p, w
  <1>7. ASSUME NEW c \in Claims(new.s)
        PROVE  \/ c \in Claims(d.s)
               \/ /\ p.crc \in Images
                  /\ \E k \in 0 .. w - 1 : c = <<d.m.start + k, <<p.crc, k>>>>
    <2>1. CASE /\ new.s.bank0.code = "VALID_APP"
               /\ \E k \in 0 .. new.s.bank0.size - 1 : c = <<0 + k, <<new.s.bank0.crc, k>>>>
      BY <2>1, <1>1, ClaimCases
    <2>2. CASE /\ new.s.bank1.code = "VALID_APP"
               /\ \E k \in 0 .. new.s.bank1.size - 1 :
                     c = <<AlignToPage(new.s.bank0.size) + k, <<new.s.bank1.crc, k>>>>
      BY <2>2, <1>1, ClaimCases
    <2>3. CASE /\ new.s.progress.crc_last \in Images
               /\ \E k \in 0 .. new.s.progress.last - 1 :
                     c = <<PlaceOf(new.s) + k, <<new.s.progress.crc_last, k>>>>
      BY <2>3, <1>1, <1>5, <1>6
    <2> QED BY <2>1, <2>2, <2>3, <1>7, ClaimCases
  <1>8. \A c \in Claims(new.s) : c[1] < Region /\ WillHold(f, d, c[1], c[2])
    <2>1. SUFFICES ASSUME NEW c \in Claims(new.s)
                   PROVE  c[1] < Region /\ WillHold(f, d, c[1], c[2])
      OBVIOUS
    <2>2. CASE c \in Claims(d.s)
      BY <2>2 DEF PacedDevice, Standing, SettingsTrue, Sound
    <2>3. ASSUME p.crc \in Images, NEW k \in 0 .. w - 1, c = <<d.m.start + k, <<p.crc, k>>>>
          PROVE  c[1] < Region /\ WillHold(f, d, c[1], c[2])
      <3>1. c[1] = d.m.start + k /\ c[2] = <<p.crc, k>>
        BY <2>3
      <3>2. d.m.start + k < Region
        BY <2>3, <1>2, <1>3, <1>4, <1>5
      <3>3. WillHold(f, d, d.m.start + k, <<p.crc, k>>)
        BY <2>3, <1>4 DEF ObjectTrue, p, w
      <3> QED BY <3>1, <3>2, <3>3
    <2> QED BY <1>7, <2>2, <2>3
  <1>9. Sound(new.s)
    BY <1>1, <1>8 DEF PacedDevice, Standing, SettingsTrue, Sound
  <1>10. Writable(new.s)
    BY <1>1, <1>3, <1>4, <1>5, <1>6, <1>9 DEF Writable
  <1>11. \A r \in Record : SameUpdate(d, r) => SameUpdate(new, r)
    <2>1. SUFFICES ASSUME NEW r \in Record, r.progress.last <= p.last
                   PROVE  r.progress.last <= p.offset
      BY <1>1 DEF SameUpdate, p
    <2>2. r.progress.last \in Nat
      BY RecordFields
    <2> QED BY <2>1, <2>2, <1>2, <1>3
  <1>12. \A x, v : /\ WillHold(f, d, x, v) => WillHold(f, new, x, v)
                   /\ WillBeClean(f, d, x) => WillBeClean(f, new, x)
    BY <1>1 DEF WillHold, WillBeClean, AfterAll
  <1>13. Standing(f, new)
    <2>1. QueueFine(new) /\ BuffersBehind(new)
      BY <1>1 DEF PacedDevice, Standing, QueueFine, BuffersBehind
    <2>2. SettingsTrue(f, new)
      BY <1>1, <1>8, <1>9, <1>12 DEF PacedDevice, Standing, SettingsTrue
    <2>3. WritesTrue(f, new)
      <3>1. \A j \in DOMAIN d.fs.queue :
               d.fs.queue[j].op = "settingsStore" => d.fs.queue[j].content \in Record
        <4>1. d.fs.queue \in Seq(Op)
          BY Parts
        <4>2. \A j \in DOMAIN d.fs.queue : d.fs.queue[j] \in Op
          BY <4>1
        <4> QED BY <4>2 DEF Op
      <3> QED BY <3>1, <1>1, <1>11 DEF PacedDevice, Standing, WritesTrue
    <2> QED BY <2>1, <2>2, <2>3 DEF Standing
  <1>14. Receiving(f, new)
    <2>1. /\ p.offset <= w /\ \A k \in w .. (p.offset + 0) - 1 : FALSE
      BY <1>2, <1>5
    <2>2. p.crc \in Images =>
             \A k \in 0 .. w - 1 : WillHold(f, new, d.m.start + k, <<p.crc, k>>)
      BY <1>4, <1>12 DEF ObjectTrue, p, w
    <2>3. ObjectTrue(f, new)
      BY <2>1, <2>2, <1>1 DEF ObjectTrue
    <2>4. Counted(new)
      BY <1>1, <1>5 DEF Counted
    <2> QED BY <2>3, <2>4, <1>1, <1>4 DEF Receiving
  <1>15. new.s.bank1.code # "VALID_APP"
    <2>1. d.s.bank1.code = "VALID_APP" => d.s.current = 1
      BY DEF PacedDevice, Standing, SettingsTrue
    <2> QED BY <2>1, <1>1 DEF CurrentBank
  <1>16. PacedDevice(f, new)
    BY <1>13, <1>14 DEF PacedDevice
  <1>17. \A r \in Record : PageKept(d, r) => PageKept(new, r)
    BY <1>1, <1>11 DEF PageKept
  <1> DEFINE e == [new EXCEPT !.fs = nrf_dfu_settings_write(new, FALSE)]
  <1>18. /\ e.s = new.s /\ e.m = new.m /\ PacedDevice(f, e)
         /\ KeepsPage(new, e) /\ KeepsQueue(new, e)
    <2>1. new.s.bank1.code = "VALID_APP" => FALSE = TRUE
      BY <1>15
    <2>2. e = [new EXCEPT !.fs = nrf_dfu_settings_write(new, FALSE)] /\ FALSE \in BOOLEAN
      OBVIOUS
    <2>3. DeviceOK(new) /\ Storable(new.s)
      BY <1>1
    <2> HIDE DEF e
    <2> QED BY <2>1, <2>2, <2>3, <1>10, <1>16, SavePaced
  <1> HIDE DEF e
  <1>19. KeepsPage(d, e)
    BY <1>17, <1>18 DEF KeepsPage
  <1>20. KeepsQueue(d, e)
    BY <1>1, <1>18 DEF KeepsQueue
  <1> QED BY <1>1, <1>15, <1>18, <1>19, <1>20 DEF e

-----------------------------------------------------------------------------
(* The place of an image is chosen.                                        *)

LEMMA NoClaims ==
    ASSUME NEW r, r.bank0.code # "VALID_APP", r.bank1.code # "VALID_APP",
           r.progress = NoProgress
    PROVE  Claims(r) = {}
  <1>1. r.progress.crc_last \notin Images
    BY Sizes DEF NoProgress
  <1> QED BY <1>1 DEF Claims, BankClaims, ProgressClaims

\* While no update is received, nothing but what is stored can go wrong.
LEMMA InactivePaced ==
    ASSUME NEW f, NEW d, PacedDevice(f, d), NEW e, ~Active(e), e.fs = d.fs,
           e.m.buf = d.m.buf, e.m.cur = d.m.cur,
           e.s.current = d.s.current, e.s.bank0 = d.s.bank0, e.s.bank1 = d.s.bank1,
           e.s.progress = d.s.progress \/ e.s.progress = NoProgress
    PROVE  PacedDevice(f, e) /\ KeepsPage(d, e)
  <1>1. Claims(e.s) \subseteq Claims(d.s)
    <2>1. CASE e.s.progress = d.s.progress
      BY <2>1 DEF Claims, BankClaims, ProgressClaims, PlaceOf
    <2>2. CASE e.s.progress = NoProgress
      <3>1. e.s.progress.crc_last \notin Images
        BY <2>2, Sizes DEF NoProgress
      <3> QED BY <3>1 DEF Claims, BankClaims, ProgressClaims
    <2> QED BY <2>1, <2>2
  <1>2. SettingsTrue(f, e)
    BY <1>1 DEF PacedDevice, Standing, SettingsTrue, Sound, WillHold, AfterAll
  <1>3. QueueFine(e) /\ BuffersBehind(e)
    BY DEF PacedDevice, Standing, QueueFine, BuffersBehind
  <1>4. WritesTrue(f, e)
    BY DEF PacedDevice, Standing, WritesTrue, SameUpdate
  <1>5. Receiving(f, e)
    BY DEF Receiving
  <1>6. KeepsPage(d, e)
    BY DEF KeepsPage, PageKept, SameUpdate
  <1> QED BY <1>2, <1>3, <1>4, <1>5, <1>6 DEF PacedDevice, Standing

\* The place of the image is chosen beside or over the banks, and the settings
\* are erased before anything is written there.
LEMMA CommandExecutePaced ==
    ASSUME NEW f, NEW d, DeviceOK(d), PacedDevice(f, d), Full(d.s.command),
           d.fs.queue = <<>>, d.s.bank1.code # "VALID_APP"
    PROVE  LET e == CommandExecute(d) IN
           /\ PacedDevice(f, e) /\ KeepsPage(d, e)
           /\ e.m.buf = d.m.buf /\ e.s.bank1.code # "VALID_APP"
  <1>1. CASE d.m.valid
    BY <1>1 DEF CommandExecute, KeepsPage
  <1>2. CASE ~d.m.valid /\ ~CommandValid(d.s.command)
    <2> DEFINE e == CommandExecute(d)
    <2>1. /\ ~e.m.valid /\ e.s = d.s /\ e.fs = d.fs
          /\ e.m.buf = d.m.buf /\ e.m.cur = d.m.cur
      BY <1>2, CommandRefused
    <2> HIDE DEF e
    <2>2. PacedDevice(f, e) /\ KeepsPage(d, e)
      BY <2>1, InactivePaced DEF Active
    <2> QED BY <2>1, <2>2 DEF e
  <1>3. CASE ~d.m.valid /\ CommandValid(d.s.command)
    <2> DEFINE r == d.s
               size == Size[d.s.command.image]
    <2>1. size \in Nat \ {0} /\ size <= Region
      BY <1>3, CommandAccepted
    <2>2. PICK new :
             /\ CommandExecute(d) = [new EXCEPT !.fs = nrf_dfu_settings_write(new, FALSE)]
             /\ DeviceOK(new) /\ Storable(new.s) /\ CurrentBank(new.s).code = "INVALID"
             /\ CurrentBank(new.s).size = size /\ new.m.size_req = size
             /\ new.m.valid /\ new.s.command = d.s.command /\ new.fs = d.fs
             /\ new.m.buf = d.m.buf
             /\ new.s.progress = NoProgress /\ new.s.write_offset = 0
             /\ new.m.start = PlaceOf(new.s)
             /\ IF r.bank0.code = "VALID_APP" /\ size <= Region - AlignToPage(r.bank0.size)
                THEN new.s.current = 1 /\ new.s.bank0 = r.bank0
                ELSE new.s.current = 0 /\ new.s.bank1 = r.bank1
      BY <1>3, CommandAccepted
    <2> HIDE DEF size
    <2> DEFINE t == new.s
    <2>3. r \in Record /\ t \in Record /\ Region \in Nat
      BY <2>2, Parts, Sizes
    <2>4. /\ t.progress.object = 0 /\ t.progress.offset = 0 /\ t.progress.last = 0
          /\ t.progress.crc = NoImage /\ t.progress.crc_last = NoImage
      BY <2>2 DEF NoProgress
    <2>5. t.bank1.code # "VALID_APP"
      BY <2>2 DEF CurrentBank
    <2>6. PlaceOf(t) + size <= Region /\ Sound(t) /\ Claims(t) \subseteq Claims(r)
      <3>1. CASE r.bank0.code = "VALID_APP" /\ size <= Region - AlignToPage(r.bank0.size)
        <4>1. t.current = 1 /\ t.bank0 = r.bank0
          BY <2>2, <3>1
        <4>2. PlaceOf(t) = AlignToPage(r.bank0.size) /\ AlignToPage(r.bank0.size) \in Nat
          BY <4>1, <2>3, RecordFields DEF PlaceOf
        <4>3. PlaceOf(t) + size <= Region
          BY <4>2, <3>1, <2>1, <2>3
        <4>4. Claims(t) \subseteq Claims(r)
          <5>1. t.progress.crc_last \notin Images
            BY <2>4, Sizes
          <5> QED BY <5>1, <4>1, <2>5 DEF Claims, BankClaims, ProgressClaims
        <4>5. Sound(t)
          BY <4>1, <4>4, <2>5 DEF PacedDevice, Standing, SettingsTrue, Sound, Known
        <4> QED BY <4>3, <4>4, <4>5
      <3>2. CASE ~(r.bank0.code = "VALID_APP" /\ size <= Region - AlignToPage(r.bank0.size))
        <4>1. t.current = 0 /\ PlaceOf(t) = 0 /\ t.bank0.code = "INVALID"
          BY <2>2, <3>2 DEF PlaceOf, CurrentBank
        <4>2. Claims(t) = {}
          BY <4>1, <2>2, <2>5, NoClaims
        <4>3. Sound(t)
          BY <4>1, <4>2, <2>5 DEF Sound, Known
        <4> QED BY <4>1, <4>2, <4>3, <2>1, <2>3
      <3> QED BY <3>1, <3>2
    <2> HIDE DEF t
    <2>7. Writable(t)
      BY <2>2, <2>4, <2>6 DEF Writable, t
    <2>8. \A j \in DOMAIN new.fs.queue : FALSE
      BY <2>2
    <2>9. Standing(f, new)
      <3>1. QueueFine(new) /\ BuffersBehind(new) /\ WritesTrue(f, new)
        BY <2>2, <2>8 DEF PacedDevice, Standing, QueueFine, BuffersBehind, WritesTrue
      <3>2. SettingsTrue(f, new)
        BY <2>2, <2>5, <2>6
           DEF PacedDevice, Standing, SettingsTrue, WillHold, AfterAll, t
      <3> QED BY <3>1, <3>2 DEF Standing
    <2>10. Receiving(f, new)
      <3>1. /\ \A k \in 0 .. (0 + 0) - 1 : FALSE
            /\ NoImage \notin Images
        BY Sizes
      <3>2. ObjectTrue(f, new)
        BY <3>1, <2>2, <2>4 DEF ObjectTrue, t
      <3>3. Counted(new)
        BY <2>2, <2>4 DEF Counted, t
      <3> QED BY <3>2, <3>3, <2>2, <2>6 DEF Receiving, t
    <2>11. PacedDevice(f, new)
      BY <2>9, <2>10 DEF PacedDevice
    <2> DEFINE e == [new EXCEPT !.fs = nrf_dfu_settings_write(new, FALSE)]
    <2>12. /\ e.s = new.s /\ e.m = new.m /\ PacedDevice(f, e)
           /\ new.fs.queue = <<>> /\ ~new.fs.barrier => EraseFirst(e.fs.queue)
      <3>1. e = [new EXCEPT !.fs = nrf_dfu_settings_write(new, FALSE)] /\ FALSE \in BOOLEAN
        OBVIOUS
      <3>2. DeviceOK(new) /\ Storable(new.s) /\ Writable(new.s)
        BY <2>2, <2>7 DEF t
      <3>3. new.s.bank1.code = "VALID_APP" => FALSE = TRUE
        BY <2>5 DEF t
      <3> HIDE DEF e
      <3>4. e.s = new.s
        BY <3>1, <3>2, <3>3, <2>11, SavePaced
      <3>5. e.m = new.m
        BY <3>1, <3>2, <3>3, <2>11, SavePaced
      <3>6. PacedDevice(f, e)
        BY <3>1, <3>2, <3>3, <2>11, SavePaced
      <3>7. new.fs.queue = <<>> /\ ~new.fs.barrier => EraseFirst(e.fs.queue)
        BY <3>1, <3>2, <3>3, <2>11, SavePaced
      <3> QED BY <3>4, <3>5, <3>6, <3>7
    <2> HIDE DEF e
    <2>13. EraseFirst(e.fs.queue)
      <3>1. ~new.fs.barrier
        BY <2>8, <2>9 DEF Standing, QueueFine
      <3> QED BY <3>1, <2>2, <2>12
    <2>14. KeepsPage(d, e)
      BY <2>13 DEF KeepsPage, PageKept
    <2> QED BY <2>2, <2>5, <2>12, <2>14 DEF e, t
  <1> QED BY <1>1, <1>2, <1>3

-----------------------------------------------------------------------------
(* From the end of an image to the next start.                             *)

\* A bank that becomes valid is in flash, with nothing on its way there.
LEMMA PostValidatedPaced ==
    ASSUME NEW d, DeviceOK(d), PacedDevice(flash, d), Active(d),
           d.s.progress.crc = d.m.packet, DataOps(d.fs.queue) = {}
    PROVE  LET e == PostValidated(d) IN
           PacedDevice(flash, e) /\ Writable(e.s) /\ KeepsPage(d, e)
  <1> DEFINE e == PostValidated(d)
             t == e.s
             b == CurrentBank(e.s)
  <1>1. /\ DeviceOK(e) /\ e.m = d.m /\ e.fs = d.fs
        /\ t.command = NoCommand /\ CurrentWhole(t)
        /\ t.progress = NoProgress /\ t.write_offset = 0
        /\ t.current = d.s.current /\ PlaceOf(t) = d.m.start
        /\ b.size <= d.m.size_req
        /\ d.s.current = 0 => t.bank1 = d.s.bank1
        /\ d.s.current = 1 => t.bank0 = d.s.bank0
    BY PostValidatedOK
  <1> HIDE DEF e
  <1>2. /\ t \in Record /\ d.s \in Record /\ d.s.current \in {0, 1} /\ d.fs.queue \in Seq(Op)
        /\ Region \in Nat /\ d.m.start \in Nat /\ d.m.size_req \in Nat /\ b.size \in Nat
    <2>1. t \in Record /\ d.s \in Record /\ d.m \in Ram /\ d.fs.queue \in Seq(Op)
      BY <1>1, Parts
    <2>2. d.s.current \in {0, 1} /\ b.size \in Nat
      BY <2>1, RecordFields DEF CurrentBank
    <2> QED BY <2>1, <2>2, Sizes DEF Ram
  <1>3. d.s.bank1.code = "VALID_APP" => d.s.current = 1
    BY DEF PacedDevice, Standing, SettingsTrue
  <1>4. d.m.start + d.m.size_req <= Region
    BY DEF PacedDevice, Receiving
  <1>5. d.s.current = 1 => d.s.bank0.code = "VALID_APP" /\ d.m.start = AlignToPage(d.s.bank0.size)
    BY DEF DeviceOK, Started, Updating, PlaceOf
  <1>6. b.code = "VALID_APP" =>
           b.crc \in Images /\ b.size = Size[b.crc] /\ WholeAt(b.crc, d.m.start)
    BY <1>1 DEF CurrentWhole, BankWhole
  <1>7. t.bank1.code = "VALID_APP" => t.current = 1 /\ t.bank1 = b
    BY <1>1, <1>2, <1>3 DEF CurrentBank
  <1>8. t.bank0.code = "VALID_APP" => t.bank0 = d.s.bank0 \/ (t.current = 0 /\ t.bank0 = b)
    BY <1>1, <1>2 DEF CurrentBank
  <1> HIDE DEF b
  <1>9. ASSUME NEW c \in Claims(t)
        PROVE  \/ c \in Claims(d.s)
               \/ /\ b.code = "VALID_APP"
                  /\ \E k \in 0 .. b.size - 1 : c = <<d.m.start + k, <<b.crc, k>>>>
    <2>1. t.progress.crc_last \notin Images
      BY <1>1, Sizes DEF NoProgress
    <2>2. ASSUME t.bank0.code = "VALID_APP", NEW k \in 0 .. t.bank0.size - 1,
                 c = <<0 + k, <<t.bank0.crc, k>>>>
          PROVE  \/ c \in Claims(d.s)
                 \/ /\ b.code = "VALID_APP"
                    /\ \E i \in 0 .. b.size - 1 : c = <<d.m.start + i, <<b.crc, i>>>>
      <3>1. CASE t.bank0 = d.s.bank0
        BY <2>2, <3>1, ClaimCases
      <3>2. CASE t.current = 0 /\ t.bank0 = b
        <4>1. d.m.start = 0
          BY <1>1, <3>2 DEF PlaceOf
        <4> QED BY <4>1, <2>2, <3>2
      <3> QED BY <2>2, <3>1, <3>2, <1>8
    <2>3. ASSUME t.bank1.code = "VALID_APP", NEW k \in 0 .. t.bank1.size - 1,
                 c = <<AlignToPage(t.bank0.size) + k, <<t.bank1.crc, k>>>>
          PROVE  /\ b.code = "VALID_APP"
                 /\ \E i \in 0 .. b.size - 1 : c = <<d.m.start + i, <<b.crc, i>>>>
      <3>1. t.current = 1 /\ t.bank1 = b
        BY <2>3, <1>7
      <3>2. AlignToPage(t.bank0.size) = d.m.start
        BY <1>1, <1>5, <3>1
      <3> QED BY <3>1, <3>2, <2>3
    <2> QED BY <1>9, <2>1, <2>2, <2>3, ClaimCases
  <1>10. ASSUME NEW k \in 0 .. b.size - 1, b.code = "VALID_APP"
         PROVE  /\ d.m.start + k < Region
                /\ WillHold(flash, d, d.m.start + k, <<b.crc, k>>)
    <2>1. d.m.start + k < Region
      BY <1>1, <1>2, <1>4, <1>10 DEF b
    <2>2. flash[d.m.start + k] = <<b.crc, k>>
      BY <1>6, <1>10 DEF WholeAt
    <2>3. \A j \in 1 .. Len(d.fs.queue) : Covered(d.fs.queue[j]) = {}
      <3>1. \A j \in 1 .. Len(d.fs.queue) : ~IsData(d.fs.queue[j])
        BY <1>2 DEF DataOps
      <3> QED BY <3>1 DEF Covered, IsData
    <2>4. AfterAll(d) - 1 = Len(d.fs.queue)
      BY <1>2 DEF AfterAll
    <2> QED BY <2>1, <2>2, <2>3, <2>4 DEF WillHold, Holds, Untouched
  <1>11. \A c \in Claims(t) : c[1] < Region /\ WillHold(flash, d, c[1], c[2])
    <2>1. SUFFICES ASSUME NEW c \in Claims(t)
                   PROVE  c[1] < Region /\ WillHold(flash, d, c[1], c[2])
      OBVIOUS
    <2>2. CASE c \in Claims(d.s)
      BY <2>2 DEF PacedDevice, Standing, SettingsTrue, Sound
    <2>3. ASSUME b.code = "VALID_APP", NEW k \in 0 .. b.size - 1,
                 c = <<d.m.start + k, <<b.crc, k>>>>
          PROVE  c[1] < Region /\ WillHold(flash, d, c[1], c[2])
      <3>1. c[1] = d.m.start + k /\ c[2] = <<b.crc, k>>
        BY <2>3
      <3> QED BY <3>1, <2>3, <1>10
    <2> QED BY <1>9, <2>2, <2>3
  <1>12. Sound(t)
    <2>1. Known(t.bank1)
      BY <1>6, <1>7 DEF Known
    <2>2. Known(t.bank0)
      BY <1>6, <1>8 DEF Known, PacedDevice, Standing, SettingsTrue, Sound
    <2> QED BY <2>1, <2>2, <1>11 DEF Sound
  <1>13. Writable(t)
    BY <1>1, <1>12 DEF Writable, NoProgress
  <1>14. ~Active(e)
    BY <1>1, Sizes DEF Active, NoCommand
  <1>15. SettingsTrue(flash, e)
    BY <1>1, <1>7, <1>11, <1>12 DEF SettingsTrue, WillHold, AfterAll
  <1>16. QueueFine(e) /\ BuffersBehind(e) /\ WritesTrue(flash, e)
    <2>1. QueueFine(e)
      BY <1>1 DEF PacedDevice, Standing, QueueFine
    <2>2. BuffersBehind(e)
      BY <1>1 DEF PacedDevice, Standing, BuffersBehind
    <2>3. WritesTrue(flash, e)
      BY <1>1, <1>14 DEF PacedDevice, Standing, WritesTrue, SameUpdate
    <2> QED BY <2>1, <2>2, <2>3
  <1>17. PacedDevice(flash, e)
    BY <1>14, <1>15, <1>16 DEF PacedDevice, Standing, Receiving
  <1>18. KeepsPage(d, e)
    BY <1>1, <1>14 DEF KeepsPage, PageKept, SameUpdate
  <1> QED BY <1>13, <1>17, <1>18 DEF e
\* An empty queue leaves everything as it is.
LEMMA NothingQueued ==
    ASSUME NEW f, NEW d, d.fs.queue = <<>>
    PROVE  /\ \A x : f[x] = Erased => WillBeClean(f, d, x)
           /\ \A x, v : f[x] = v => WillHold(f, d, x, v)
           /\ \A x : Untouched(d.fs.queue, 1, Len(d.fs.queue), x)
           /\ BuffersBehind(d) /\ WritesTrue(f, d)
           /\ ~d.fs.failure /\ ~d.fs.barrier => QueueFine(d)
  <1>1. Len(d.fs.queue) = 0 /\ \A j \in DOMAIN d.fs.queue : FALSE
    OBVIOUS
  <1>2. AfterAll(d) - 1 = 0 /\ \A j \in 1 .. 0 : FALSE
    BY <1>1 DEF AfterAll
  <1>3. \A x : Untouched(d.fs.queue, 1, 0, x)
    BY <1>2 DEF Untouched
  <1>4. \A x : f[x] = Erased => WillBeClean(f, d, x)
    BY <1>2, <1>3 DEF WillBeClean, Clean
  <1>5. \A x, v : f[x] = v => WillHold(f, d, x, v)
    BY <1>2, <1>3 DEF WillHold, Holds
  <1>6. BuffersBehind(d) /\ WritesTrue(f, d) /\ (~d.fs.failure /\ ~d.fs.barrier => QueueFine(d))
    BY <1>1 DEF BuffersBehind, WritesTrue, QueueFine
  <1> QED BY <1>1, <1>3, <1>4, <1>5, <1>6

\* What the settings page says is stored is where the update goes on.
LEMMA ResumedPaced ==
    ASSUME NEW f, NEW r, Storable(r), PageTrue(f, r), r.bank1.code # "VALID_APP"
    PROVE  LET e == Resumed(r) IN
           PacedDevice(f, e) /\ PageKept(e, r) /\ e.s.bank1.code # "VALID_APP"
  <1> DEFINE e == Resumed(r)
             size == CurrentBank(r).size
  <1>1. /\ DeviceOK(e) /\ e.fs = FreshFs
        /\ r.command = NoCommand => e.s = r /\ ~e.m.valid
        /\ r.command # NoCommand =>
              /\ Updating(r) /\ Updating(e.s) /\ CurrentBank(e.s).size = size
              /\ e.s.progress = r.progress /\ e.s.write_offset = r.write_offset
              /\ e.m.start = PlaceOf(e.s) /\ e.m.size_req = size
              /\ IF r.bank0.code = "VALID_APP" /\ size <= Region - AlignToPage(r.bank0.size)
                 THEN e.s.current = 1 /\ e.s.bank0 = r.bank0
                 ELSE e.s.current = 0 /\ e.s.bank1 = r.bank1
    BY ResumedOK
  <1> HIDE DEF e
  <1>2. /\ r \in Record /\ r.current \in {0, 1} /\ r.progress.last \in Nat /\ PlaceOf(r) \in Nat
        /\ AlignToPage(r.bank0.size) \in Nat /\ Region \in Nat /\ size \in Nat
    <2>1. r \in Record
      BY DEF Storable
    <2> QED BY <2>1, RecordFields, Sizes DEF CurrentBank
  <1>3. /\ r.progress.object = 0 /\ r.progress.offset = r.progress.last
        /\ r.progress.crc = r.progress.crc_last /\ r.write_offset = r.progress.last
        /\ Sound(r) /\ (r.command # NoCommand => PlaceOf(r) + size <= Region)
        /\ \A c \in Claims(r) : f[c[1]] = c[2]
    BY DEF PageTrue, Writable
  <1>4. /\ e.fs.queue = <<>> /\ ~e.fs.failure /\ ~e.fs.barrier
    BY <1>1 DEF FreshFs
  <1>5. /\ \A x, v : f[x] = v => WillHold(f, e, x, v)
        /\ \A x : Untouched(e.fs.queue, 1, Len(e.fs.queue), x)
        /\ BuffersBehind(e) /\ WritesTrue(f, e) /\ QueueFine(e)
    BY <1>4, NothingQueued
  <1>6. CASE r.command = NoCommand
    <2>1. e.s = r /\ ~Active(e)
      BY <1>1, <1>6 DEF Active
    <2>2. SettingsTrue(f, e)
      BY <2>1, <1>3, <1>5 DEF SettingsTrue
    <2>3. PacedDevice(f, e)
      BY <2>1, <2>2, <1>5 DEF PacedDevice, Standing, Receiving
    <2>4. PageKept(e, r)
      BY <2>1, <1>5 DEF PageKept, SameUpdate
    <2> QED BY <2>1, <2>3, <2>4 DEF e
  <1>7. CASE r.command # NoCommand
    <2> DEFINE t == e.s
    <2>1. /\ t.current = r.current /\ t.bank0.code = r.bank0.code
          /\ t.bank0.size = r.bank0.size /\ t.bank1.code # "VALID_APP"
          /\ t.bank0.code = "VALID_APP" => t.bank0 = r.bank0
      <3>1. CASE r.current = 1
        <4>1. r.bank0.code = "VALID_APP" /\ PlaceOf(r) = AlignToPage(r.bank0.size)
          BY <3>1, <1>1, <1>7 DEF Updating, PlaceOf
        <4>2. size <= Region - AlignToPage(r.bank0.size)
          BY <4>1, <1>2, <1>3, <1>7
        <4>3. t.current = 1 /\ t.bank0 = r.bank0
          BY <4>1, <4>2, <1>1, <1>7
        <4>4. t.bank1.code # "VALID_APP"
          BY <4>3, <1>1, <1>7 DEF Updating, CurrentBank
        <4> QED BY <4>3, <4>4, <3>1
      <3>2. CASE r.current # 1
        <4>1. r.current = 0 /\ r.bank0.code = "INVALID" /\ size = r.bank0.size
          BY <3>2, <1>1, <1>2, <1>7 DEF Updating, CurrentBank
        <4>2. t.current = 0 /\ t.bank1 = r.bank1
          BY <4>1, <1>1, <1>7
        <4>3. t.bank0.code = "INVALID" /\ t.bank0.size = size
          BY <4>2, <1>1, <1>7 DEF Updating, CurrentBank
        <4> QED BY <4>1, <4>2, <4>3
      <3> QED BY <3>1, <3>2
    <2>2. t.progress = r.progress /\ PlaceOf(t) = PlaceOf(r)
      BY <2>1, <1>1, <1>7 DEF PlaceOf
    <2>3. Claims(t) = Claims(r)
      BY <2>1, <2>2 DEF Claims, BankClaims, ProgressClaims
    <2>4. Sound(t)
      BY <2>1, <2>3, <1>3 DEF Sound, Known
    <2>5. SettingsTrue(f, e)
      BY <2>1, <2>3, <2>4, <1>3, <1>5 DEF SettingsTrue
    <2>6. e.m.start = PlaceOf(r) /\ e.m.size_req = size /\ t.write_offset = r.progress.last
      BY <2>2, <1>1, <1>3, <1>7
    <2>7. ObjectTrue(f, e)
      <3>1. /\ r.progress.last <= r.progress.last
            /\ \A k \in r.progress.last .. (r.progress.last + 0) - 1 : FALSE
        BY <1>2
      <3>2. ASSUME r.progress.crc \in Images, NEW k \in 0 .. r.progress.last - 1
            PROVE  WillHold(f, e, PlaceOf(r) + k, <<r.progress.crc, k>>)
        <4> DEFINE c == <<PlaceOf(r) + k, <<r.progress.crc, k>>>>
        <4>1. c \in Claims(r)
          BY <3>2, <1>3, ClaimCases
        <4>2. f[PlaceOf(r) + k] = <<r.progress.crc, k>>
          BY <4>1, <1>3
        <4> QED BY <4>2, <1>5
      <3> QED BY <3>1, <3>2, <2>2, <2>6, <1>3 DEF ObjectTrue
    <2>8. Counted(e)
      BY <2>2, <2>6, <1>3 DEF Counted
    <2>9. PacedDevice(f, e)
      BY <2>5, <2>6, <2>7, <2>8, <1>3, <1>5, <1>7 DEF PacedDevice, Standing, Receiving
    <2>10. PageKept(e, r)
      <3>1. SameUpdate(e, r)
        <4>1. r.progress.last <= r.progress.last
          BY <1>2
        <4>2. r.bank1.code = t.bank1.code
          <5>1. r.bank1.code \in {"INVALID", "VALID_APP"} /\ t.bank1.code \in {"INVALID", "VALID_APP"}
            <6>1. t \in Record
              BY <1>1, Parts
            <6> QED BY <6>1, <1>2, RecordFields
          <5> QED BY <5>1, <2>1
        <4> QED BY <4>1, <4>2, <2>1, <2>2 DEF SameUpdate
      <3> QED BY <3>1, <1>5 DEF PageKept
    <2> QED BY <2>1, <2>9, <2>10 DEF e
  <1> QED BY <1>6, <1>7

-----------------------------------------------------------------------------
(* The first operation of the queue ends.                                  *)

\* What the first operation of q makes of flash f.
Ends(f, g, q, b) ==
    \A x \in 0 .. Region - 1 :
        /\ x \notin Covered(q[1]) => g[x] = f[x]
        /\ x \in Covered(q[1]) /\ q[1].op = "erase" => g[x] = Erased
        /\ x \in Covered(q[1]) /\ q[1].op = "store" /\ f[x] = Erased =>
              g[x] = b[q[1].buf][x - q[1].at]

\* What settings in flash promise lasts until their erasure begins.
PageLasts(f, g, d, e) ==
    \A r \in Record :
        ~EraseFirst(d.fs.queue) /\ PageKept(d, r) /\ PageTrue(f, r)
            => PageKept(e, r) /\ PageTrue(g, r)

LEMMA SoundUnits ==
    ASSUME NEW r \in Record, Sound(r), NEW c \in Claims(r)
    PROVE  c[1] \in 0 .. Region - 1
  <1>1. c[1] \in Nat /\ c[1] < Region /\ Region \in Nat
    BY ClaimUnits, Sizes DEF Sound
  <1> QED BY <1>1

LEMMA FirstEnds ==
    ASSUME NEW f, NEW g, NEW d, DeviceOK(d), PacedDevice(f, d), d.fs.queue # <<>>,
           Ends(f, g, d.fs.queue, d.m.buf),
           NEW e, e.s = d.s, e.m.valid = d.m.valid, e.m.start = d.m.start,
           e.m.size_req = d.m.size_req, e.m.pos = d.m.pos, e.m.cur = d.m.cur,
           e.m.buf = d.m.buf, e.fs.queue = Tail(d.fs.queue), ~e.fs.failure,
           e.fs.barrier <=> d.fs.barrier /\ d.fs.queue[1].op # "settingsStore",
           e.fs.reset = d.fs.reset
    PROVE  PacedDevice(g, e) /\ PageLasts(f, g, d, e)
  <1> DEFINE q == d.fs.queue
             t == Tail(q)
             b == d.m.buf
  <1>1. q \in Seq(Op) /\ q # <<>> /\ d.s \in Record /\ Region \in Nat
    BY Parts, Sizes
  <1>2. /\ t \in Seq(Op) /\ Len(q) \in Nat \ {0} /\ Len(t) = Len(q) - 1
        /\ DOMAIN t = 1 .. Len(q) - 1 /\ DOMAIN q = 1 .. Len(q)
        /\ \A j \in 1 .. Len(q) - 1 : t[j] = q[j + 1]
        /\ \A x : \A a \in Nat \ {0}, z \in 0 .. Len(q) - 1 :
              Untouched(q, a + 1, z + 1, x) => Untouched(t, a, z, x)
    BY <1>1, TailShift
  <1>3. ASSUME NEW x \in 0 .. Region - 1, NEW v, NEW n \in 1 .. Len(q)
        PROVE  /\ Clean(f, q, n + 1, x) => Clean(g, t, n, x)
               /\ Holds(f, q, b, n + 1, x, v) => Holds(g, t, b, n, x, v)
    <2>1. /\ x \notin Covered(q[1]) => g[x] = f[x]
          /\ x \in Covered(q[1]) /\ q[1].op = "erase" => g[x] = Erased
          /\ x \in Covered(q[1]) /\ q[1].op = "store" /\ f[x] = Erased =>
                g[x] = b[q[1].buf][x - q[1].at]
      BY <1>3 DEF Ends
    <2>2. /\ x \notin Covered(q[1]) => g[x] = f[x]
          /\ x \in Covered(q[1]) /\ q[1].op = "erase" => g[x] = Erased
      BY <2>1
    <2>3. x \in Covered(q[1]) /\ q[1].op = "store" /\ f[x] = Erased =>
             g[x] = b[q[1].buf][x - q[1].at]
      BY <2>1
    <2>4. q \in Seq(Op) /\ q # <<>> /\ n \in 1 .. Len(q)
      BY <1>1, <1>3
    <2> HIDE DEF q, b
    <2>5. Clean(f, q, n + 1, x) => Clean(g, Tail(q), n, x)
      <3>1. x \notin Covered(q[1]) => g[x] = f[x]
        BY <2>2
      <3>2. x \in Covered(q[1]) /\ q[1].op = "erase" => g[x] = Erased
        BY <2>2
      <3> QED BY <3>1, <3>2, <2>3, <2>4, FirstDone
    <2>6. Holds(f, q, b, n + 1, x, v) => Holds(g, Tail(q), b, n, x, v)
      BY <2>2, <2>3, <2>4, FirstDone
    <2> QED BY <2>5, <2>6
  <1>4. ASSUME NEW x \in 0 .. Region - 1
        PROVE  /\ WillBeClean(f, d, x) => WillBeClean(g, e, x)
               /\ \A v : WillHold(f, d, x, v) => WillHold(g, e, x, v)
    <2>1. AfterAll(d) = Len(q) + 1 /\ AfterAll(e) = Len(q) /\ Len(q) \in 1 .. Len(q)
      BY <1>2 DEF AfterAll
    <2> QED BY <2>1, <1>3, <1>4 DEF WillBeClean, WillHold
  <1>5. QueueFine(e)
    <2>1. /\ d.fs.barrier <=> \E j \in DOMAIN q : q[j].op = "settingsStore"
          /\ \A j, k \in DOMAIN q :
                q[j].op = "settingsStore" /\ q[k].op = "settingsStore" => j = k
      BY DEF PacedDevice, Standing, QueueFine
    <2> HIDE DEF q, t
    <2>2. \A j \in 1 .. Len(q) - 1 : j + 1 \in 1 .. Len(q) /\ j + 1 # 1
      BY <1>2
    <2>3. \A j, k \in DOMAIN t :
             t[j].op = "settingsStore" /\ t[k].op = "settingsStore" => j = k
      <3>1. SUFFICES ASSUME NEW j \in DOMAIN t, NEW k \in DOMAIN t,
                            t[j].op = "settingsStore", t[k].op = "settingsStore"
                     PROVE  j = k
        OBVIOUS
      <3>4. /\ j + 1 \in DOMAIN q /\ q[j + 1] = t[j]
            /\ k + 1 \in DOMAIN q /\ q[k + 1] = t[k]
        BY <2>2, <1>2
      <3>2. j + 1 = k + 1
        BY <3>1, <3>4, <2>1
      <3>3. j \in Int /\ k \in Int
        BY <1>2
      <3> QED BY <3>2, <3>3
    <2>4. e.fs.barrier <=> \E j \in DOMAIN t : t[j].op = "settingsStore"
      <3>1. ASSUME NEW j \in DOMAIN t, t[j].op = "settingsStore" PROVE e.fs.barrier
        <4>1. j + 1 \in DOMAIN q /\ q[j + 1].op = "settingsStore" /\ j + 1 # 1
          BY <3>1, <2>2, <1>2
        <4>2. 1 \in DOMAIN q
          BY <1>2
        <4> QED BY <4>1, <4>2, <2>1 DEF q
      <3>2. ASSUME e.fs.barrier PROVE \E j \in DOMAIN t : t[j].op = "settingsStore"
        <4>1. PICK k \in DOMAIN q : q[k].op = "settingsStore"
          BY <3>2, <2>1
        <4>2. k # 1
          BY <4>1, <3>2 DEF q
        <4>3. k - 1 \in 1 .. Len(q) - 1 /\ (k - 1) + 1 = k
          BY <4>1, <4>2, <1>2
        <4>4. t[k - 1] = q[k]
          BY <4>3, <1>2
        <4> QED BY <4>1, <4>3, <4>4, <1>2
      <3> QED BY <3>1, <3>2
    <2> QED BY <2>3, <2>4 DEF QueueFine, t, q
  <1>6. BuffersBehind(e)
    <2>0. e.fs.queue = t /\ e.m.cur = d.m.cur /\ DOMAIN t = 1 .. Len(q) - 1
      BY <1>2
    <2>1. SUFFICES ASSUME NEW j \in 1 .. Len(q) - 1, t[j].op = "store"
                   PROVE  \E n \in 1 .. Len(t) - j + 1 : (t[j].buf + n) % Buffers = d.m.cur
      <3> HIDE DEF t, q
      <3> QED BY <2>0 DEF BuffersBehind
    <2>2. j + 1 \in DOMAIN q /\ t[j] = q[j + 1]
      BY <1>2
    <2>3. PICK n \in 1 .. Len(q) - (j + 1) + 1 : (q[j + 1].buf + n) % Buffers = d.m.cur
      BY <2>1, <2>2 DEF PacedDevice, Standing, BuffersBehind
    <2>4. n \in 1 .. Len(t) - j + 1
      <3> HIDE DEF q, t
      <3> QED BY <2>1, <2>3, <1>2
    <2> QED BY <2>2, <2>3, <2>4
  <1>7. SettingsTrue(g, e)
    <2>1. Sound(d.s) /\ \A c \in Claims(d.s) : WillHold(f, d, c[1], c[2])
      BY DEF PacedDevice, Standing, SettingsTrue
    <2>2. \A c \in Claims(d.s) : WillHold(g, e, c[1], c[2])
      BY <2>1, <1>1, <1>4, SoundUnits
    <2> QED BY <2>1, <2>2 DEF PacedDevice, Standing, SettingsTrue
  <1>8. \A r : SameUpdate(d, r) => SameUpdate(e, r)
    BY DEF SameUpdate, Active
  <1>9. WritesTrue(g, e)
    <2>1. SUFFICES ASSUME NEW j \in 1 .. Len(q) - 1, t[j].op = "settingsStore"
                   PROVE  LET r == t[j].content IN
                          /\ Writable(r) /\ SameUpdate(e, r)
                          /\ r.bank1.code = "VALID_APP" => d.fs.reset /\ r.current = 1
                          /\ \A c \in Claims(r) :
                                /\ Holds(g, t, b, j, c[1], c[2])
                                /\ Untouched(t, j, Len(t), c[1])
      <3>1. /\ e.fs.queue = t /\ e.m.buf = b /\ (e.fs.reset <=> d.fs.reset)
            /\ DOMAIN t = 1 .. Len(q) - 1
        BY <1>2
      <3> HIDE DEF q, t, b
      <3> QED BY <3>1 DEF WritesTrue
    <2>2. PICK r : r = t[j].content
      OBVIOUS
    <2>3. j + 1 \in DOMAIN q /\ t[j] = q[j + 1] /\ j \in 1 .. Len(q) /\ j \in Nat \ {0}
      BY <1>2
    <2>4. /\ Writable(r) /\ SameUpdate(d, r)
          /\ r.bank1.code = "VALID_APP" => d.fs.reset /\ r.current = 1
          /\ \A c \in Claims(r) : /\ Holds(f, q, b, j + 1, c[1], c[2])
                                  /\ Untouched(q, j + 1, Len(q), c[1])
      BY <2>1, <2>2, <2>3 DEF PacedDevice, Standing, WritesTrue
    <2>5. r \in Record
      <3>1. t[j] \in Op
        BY <1>2
      <3> QED BY <3>1, <2>1, <2>2 DEF Op
    <2>6. ASSUME NEW c \in Claims(r)
          PROVE  Holds(g, t, b, j, c[1], c[2]) /\ Untouched(t, j, Len(t), c[1])
      <3>1. c[1] \in 0 .. Region - 1
        BY <2>4, <2>5, SoundUnits DEF Writable
      <3>2. Holds(g, t, b, j, c[1], c[2])
        BY <3>1, <2>3, <2>4, <1>3
      <3>3. Len(t) \in 0 .. Len(q) - 1 /\ Len(q) = Len(t) + 1
        <4> HIDE DEF q, t
        <4> QED BY <1>2
      <3>4. Untouched(q, j + 1, Len(t) + 1, c[1])
        BY <3>3, <2>4
      <3> QED BY <3>2, <3>3, <3>4, <2>3, <1>2
    <2> QED BY <2>2, <2>4, <2>6, <1>8
  <1>10. Receiving(g, e)
    <2>1. SUFFICES ASSUME Active(d) PROVE Receiving(g, e)
      BY DEF Receiving, Active
    <2> DEFINE p == d.s.progress
               w == d.s.write_offset
               at == d.m.start
               n == d.m.size_req
               pos == d.m.pos
    <2>2. ObjectTrue(f, d) /\ Counted(d) /\ at + n <= Region
      BY <2>1 DEF PacedDevice, Receiving
    <2>3. /\ at \in Nat /\ n \in Nat /\ w \in Nat /\ p.last \in Nat /\ p.object \in Nat
          /\ p.offset \in Nat /\ pos \in Nat
      <3>1. at \in Nat /\ w \in Nat /\ p \in Progress /\ d.m \in Ram /\ pos \in 0 .. Chunk
        BY Parts
      <3>2. p.last \in Nat /\ p.object \in Nat /\ p.offset \in Nat
        <4> HIDE DEF p
        <4> QED BY <3>1, Sizes DEF Progress
      <3>3. pos \in Nat
        <4> HIDE DEF pos
        <4> QED BY <3>1, Sizes
      <3>4. n \in Nat
        BY <3>1, Sizes DEF Ram
      <3> QED BY <3>1, <3>2, <3>3, <3>4
    <2>4. p.offset <= p.last + p.object /\ p.last + p.object <= n
      BY <2>1 DEF DeviceOK, Started
    <2>5. w <= n
      <3>1. CASE p.object = 0
        <4>1. w = p.last
          BY <3>1, <2>2 DEF Counted
        <4> HIDE DEF p, w, n
        <4> QED BY <4>1, <3>1, <2>3, <2>4
      <3>2. CASE p.object # 0
        <4>1. p.offset = w + pos
          BY <3>2, <2>2, <2>3 DEF Counted
        <4> HIDE DEF p, w, n, pos
        <4> QED BY <4>1, <2>3, <2>4
      <3> QED BY <3>1, <3>2
    <2>6. \A k \in 0 .. n - 1 : at + k \in 0 .. Region - 1
      <3> HIDE DEF at, n
      <3> QED BY <2>2, <2>3, <1>1
    <2>7. /\ \A k \in w .. (p.last + p.object) - 1 : k \in 0 .. n - 1
          /\ \A k \in 0 .. w - 1 : k \in 0 .. n - 1
      <3> HIDE DEF p, w, n
      <3> QED BY <2>3, <2>4, <2>5
    <2>8. ObjectTrue(g, e)
      <3>1. \A k \in w .. (p.last + p.object) - 1 : WillBeClean(g, e, at + k)
        BY <2>2, <2>6, <2>7, <1>4 DEF ObjectTrue
      <3>2. p.crc \in Images => \A k \in 0 .. w - 1 : WillHold(g, e, at + k, <<p.crc, k>>)
        BY <2>2, <2>6, <2>7, <1>4 DEF ObjectTrue
      <3> QED BY <3>1, <3>2, <2>2 DEF ObjectTrue
    <2>9. Counted(e)
      BY <2>2 DEF Counted
    <2> QED BY <2>2, <2>8, <2>9 DEF Receiving
  <1>11. PageLasts(f, g, d, e)
    <2>1. SUFFICES ASSUME NEW r \in Record, ~EraseFirst(q), PageKept(d, r), PageTrue(f, r)
                   PROVE  PageKept(e, r) /\ PageTrue(g, r)
      BY DEF PageLasts
    <2>2. SameUpdate(d, r) /\ \A c \in Claims(r) : Untouched(q, 1, Len(q), c[1])
      BY <2>1 DEF PageKept
    <2>3. ASSUME NEW c \in Claims(r)
          PROVE  g[c[1]] = c[2] /\ Untouched(t, 1, Len(t), c[1])
      <3>1. c[1] \in 0 .. Region - 1
        BY <2>1, SoundUnits DEF PageTrue, Writable
      <3>2. c[1] \notin Covered(q[1])
        <4>1. 1 \in 1 .. Len(q)
          BY <1>2
        <4> QED BY <4>1, <2>2 DEF Untouched
      <3>3. g[c[1]] = c[2]
        BY <3>1, <3>2, <2>1 DEF Ends, PageTrue
      <3>4. Len(t) \in 0 .. Len(q) - 1 /\ Len(q) = Len(t) + 1
        <4> HIDE DEF q, t
        <4> QED BY <1>2
      <3>5. Untouched(q, 1 + 1, Len(t) + 1, c[1])
        <4>1. \A j \in 1 + 1 .. Len(q) : j \in 1 .. Len(q)
          BY <1>2
        <4> QED BY <4>1, <3>4, <2>2 DEF Untouched
      <3> QED BY <3>3, <3>4, <3>5, <1>2
    <2> QED BY <2>1, <2>2, <2>3, <1>8 DEF PageKept, PageTrue
  <1> QED BY <1>5, <1>6, <1>7, <1>9, <1>10, <1>11 DEF PacedDevice, Standing

\* Settings that have been stored are true.
LEMMA StoreEnds ==
    ASSUME NEW f, NEW d, DeviceOK(d), PacedDevice(f, d), d.fs.queue # <<>>,
           d.fs.queue[1].op = "settingsStore",
           NEW r, r = d.fs.queue[1].content
    PROVE  /\ r \in Record /\ PageTrue(f, r)
           /\ r.bank1.code = "VALID_APP" => d.fs.reset /\ r.current = 1
           /\ \A e : e.s = d.s /\ e.m.valid = d.m.valid /\ e.fs.queue = Tail(d.fs.queue)
                     => PageKept(e, r)
  <1> DEFINE q == d.fs.queue
             t == Tail(q)
  <1>1. q \in Seq(Op) /\ q # <<>>
    BY Parts
  <1>2. /\ t \in Seq(Op) /\ Len(q) \in Nat \ {0} /\ Len(t) = Len(q) - 1
        /\ DOMAIN q = 1 .. Len(q)
        /\ \A x : \A a \in Nat \ {0}, z \in 0 .. Len(q) - 1 :
              Untouched(q, a + 1, z + 1, x) => Untouched(t, a, z, x)
    BY <1>1, TailShift
  <1>3. 1 \in DOMAIN q
    BY <1>2
  <1>4. /\ Writable(r) /\ SameUpdate(d, r)
        /\ r.bank1.code = "VALID_APP" => d.fs.reset /\ r.current = 1
        /\ \A c \in Claims(r) : /\ Holds(f, q, d.m.buf, 1, c[1], c[2])
                                /\ Untouched(q, 1, Len(q), c[1])
    BY <1>3 DEF PacedDevice, Standing, WritesTrue
  <1>5. r \in Record
    <2>1. q[1] \in Op
      BY <1>1, <1>3
    <2> QED BY <2>1 DEF Op
  <1>6. \A c \in Claims(r) : f[c[1]] = c[2]
    BY <1>4 DEF Holds
  <1>7. \A c \in Claims(r) : Untouched(t, 1, Len(t), c[1])
    <2>1. SUFFICES ASSUME NEW c \in Claims(r) PROVE Untouched(t, 1, Len(t), c[1])
      OBVIOUS
    <2>2. Len(t) \in 0 .. Len(q) - 1 /\ Len(q) = Len(t) + 1
      <3> HIDE DEF q, t
      <3> QED BY <1>2
    <2>3. Untouched(q, 1 + 1, Len(t) + 1, c[1])
      <3>1. \A j \in 1 + 1 .. Len(q) : j \in 1 .. Len(q)
        BY <1>2
      <3> QED BY <3>1, <2>2, <1>4 DEF Untouched
    <2> QED BY <2>2, <2>3, <1>2
  <1>8. ASSUME NEW e, e.s = d.s, e.m.valid = d.m.valid, e.fs.queue = t PROVE PageKept(e, r)
    BY <1>4, <1>7, <1>8 DEF PageKept, SameUpdate, Active
  <1> QED BY <1>4, <1>5, <1>6, <1>8 DEF PageTrue

-----------------------------------------------------------------------------
(* The steps of a device that is kept up with.                             *)

\* The flash keeps up with the controller and does not fail, there is a buffer
\* for every operation of its queue, and the application fits its region.
KeepsUp ==
    Paced /\ ~FlashFails /\ QueueSize <= Buffers /\ Size[Factory] <= Region

\* What the paced invariant says of a device that goes on.
GoesOn(f, r, p, d) ==
    /\ PacedDevice(f, d)
    /\ IsRecord(r) => PageTrue(f, r) /\ PageKept(d, r) /\ r.bank1.code = "INVALID"
    /\ p = "waitSettings" => d.s.command = NoCommand /\ Writable(d.s)
    /\ d.s.bank1.code = "VALID_APP" => p = "waitSettings" \/ (d.fs.barrier /\ d.fs.reset)

\* The stores that are queued find in their buffers what they were queued for.
KeepsBuffers(d, e) ==
    \A j \in DOMAIN d.fs.queue :
        d.fs.queue[j].op = "store" =>
            e.m.buf[d.fs.queue[j].buf] = d.m.buf[d.fs.queue[j].buf]

BuffersKept == fs'.queue = <<>> \/ KeepsBuffers(Device, Device')

LEMMA PacedGoesOn ==
    ASSUME PacedInv, pc # "done"
    PROVE  GoesOn(flash, saved, pc, Device)
  BY DEF PacedInv, GoesOn, Device

LEMMA PacedThen ==
    ASSUME GoesOn(flash', saved', pc', Device'), pc' # "done"
    PROVE  PacedInv'
  BY DEF PacedInv, GoesOn, Device

LEMMA PacedKept ==
    ASSUME HandlerInv, PacedInv, pc # "done", pc' # "done", UNCHANGED <<flash, saved>>,
           NEW e, DeviceOK(e), s' = e.s, m' = e.m, fs' = e.fs,
           PacedDevice(flash, e), KeepsPage(Device, e), KeepsBuffers(Device, e),
           pc' = "waitSettings" => e.s.command = NoCommand /\ Writable(e.s),
           e.s.bank1.code = "VALID_APP" => pc' = "waitSettings" \/ (e.fs.barrier /\ e.fs.reset)
    PROVE  PacedInv' /\ BuffersKept
  <1>1. Device' = e
    BY Becoming
  <1>2. GoesOn(flash, saved, pc, Device)
    BY PacedGoesOn
  <1>3. IsRecord(saved) => saved \in Record
    BY DEF IsRecord, HandlerInv, FlashOK, Storable
  <1>4. GoesOn(flash', saved', pc', Device')
    BY <1>1, <1>2, <1>3 DEF GoesOn, KeepsPage
  <1> QED BY <1>1, <1>4, PacedThen DEF BuffersKept

\* Between requests.
LEMMA PacedIdle ==
    ASSUME HandlerInv, PacedInv, pc = "idle", pc' \in {"idle", "waitPending"},
           UNCHANGED <<flash, saved>>,
           NEW e, DeviceOK(e), s' = e.s, m' = e.m, fs' = e.fs,
           PacedDevice(flash, e), KeepsPage(Device, e), KeepsBuffers(Device, e),
           \/ e.s.bank1.code # "VALID_APP"
           \/ e.s.bank1 = s.bank1 /\ e.fs.barrier = fs.barrier /\ e.fs.reset = fs.reset
    PROVE  PacedInv' /\ BuffersKept
  <1>1. s.bank1.code = "VALID_APP" => fs.barrier /\ fs.reset
    BY DEF PacedInv
  <1> QED BY <1>1, PacedKept

LEMMA PacedSame ==
    ASSUME HandlerInv, PacedInv, UNCHANGED <<flash, saved, s, m, fs, pc>>
    PROVE  PacedInv' /\ BuffersKept
  <1>1. PICK d : d = Device
    OBVIOUS
  <1>2. d = [s |-> s, m |-> m, fs |-> fs]
    BY <1>1 DEF Device
  <1>3. /\ DeviceOK(d) /\ s' = d.s /\ m' = d.m /\ fs' = d.fs
        /\ d.s.bank1 = s.bank1 /\ d.fs = fs
    BY <1>1, <1>2 DEF HandlerInv
  <1>4. Device' = d
    BY <1>3, Becoming
  <1>5. BuffersKept
    BY <1>1, <1>4 DEF BuffersKept, KeepsBuffers
  <1>6. PICK f, r, p : f = flash /\ r = saved /\ p = pc
    OBVIOUS
  <1>7. f = flash' /\ r = saved' /\ p = pc'
    BY <1>6
  <1>8. CASE pc = "done"
    <2>1. IsRecord(r) => PageTrue(f, r)
      BY <1>6 DEF PacedInv
    <2>2. (IsRecord(saved') => PageTrue(flash', saved')) /\ pc' = "done"
      BY <2>1, <1>6, <1>7, <1>8
    <2> QED BY <1>5, <2>2 DEF PacedInv
  <1>9. CASE pc # "done"
    <2>1. GoesOn(f, r, p, d)
      BY <1>1, <1>6, <1>9, PacedGoesOn
    <2>2. GoesOn(flash', saved', pc', Device')
      BY <2>1, <1>4, <1>7
    <2> QED BY <1>5, <1>6, <1>7, <1>9, <2>2, PacedThen
  <1> QED BY <1>8, <1>9

LEMMA SendCommandCreatePaced ==
    ASSUME HandlerInv, PacedInv, SendCommandCreate
    PROVE  PacedInv' /\ BuffersKept
  <1>1. PICK d : d = Device
    OBVIOUS
  <1>2. /\ DeviceOK(d) /\ PacedDevice(flash, d) /\ pc = "idle" /\ d.s = s /\ d.fs = fs
        /\ UNCHANGED <<flash, saved, pc>>
    BY <1>1 DEF HandlerInv, PacedInv, SendCommandCreate, Requests, Device
  <1>3. PICK e \in {CommandCreate(d)} : s' = e.s /\ m' = e.m /\ fs' = e.fs
    BY <1>1 DEF SendCommandCreate, Becomes
  <1>4. /\ DeviceOK(e) /\ ~e.m.valid /\ e.s.progress = NoProgress
        /\ e.s.current = d.s.current /\ e.s.bank0 = d.s.bank0 /\ e.s.bank1 = d.s.bank1
        /\ e.m.buf = d.m.buf /\ e.m.cur = d.m.cur /\ e.fs = d.fs
    BY <1>2, <1>3, CommandCreateOK
  <1>5. PacedDevice(flash, e) /\ KeepsPage(d, e)
    BY <1>2, <1>4, InactivePaced DEF Active
  <1>6. KeepsBuffers(d, e)
    BY <1>4 DEF KeepsBuffers
  <1> QED BY <1>1, <1>2, <1>3, <1>4, <1>5, <1>6, PacedIdle

LEMMA SendCommandWritePaced ==
    ASSUME HandlerInv, PacedInv, SendCommandWrite
    PROVE  PacedInv' /\ BuffersKept
  <1>1. PICK d : d = Device
    OBVIOUS
  <1>2. /\ DeviceOK(d) /\ PacedDevice(flash, d) /\ pc = "idle" /\ d.s = s /\ d.fs = fs
        /\ d.m = m /\ UNCHANGED <<flash, saved, pc>>
    BY <1>1 DEF HandlerInv, PacedInv, SendCommandWrite, Requests, Device
  <1>3. PICK e \in {CommandWrite(d, ctl.image)} : s' = e.s /\ m' = e.m /\ fs' = e.fs
    BY <1>1 DEF SendCommandWrite, Becomes
  <1>4. /\ ctl.image \in Images /\ ~d.m.valid /\ d.s.command.size = CommandUnits
        /\ d.s.command.offset = 0 \/ d.s.command.image = ctl.image
    BY <1>2 DEF HandlerInv, ControllerOK, SendCommandWrite, Requests
  <1>5. /\ DeviceOK(e) /\ ~e.m.valid /\ e.s.progress = d.s.progress
        /\ e.s.current = d.s.current /\ e.s.bank0 = d.s.bank0 /\ e.s.bank1 = d.s.bank1
        /\ e.m = d.m /\ e.fs = d.fs
    BY <1>2, <1>3, <1>4, CommandWriteOK
  <1>6. PacedDevice(flash, e) /\ KeepsPage(d, e)
    BY <1>2, <1>5, InactivePaced DEF Active
  <1>7. KeepsBuffers(d, e)
    BY <1>5 DEF KeepsBuffers
  <1> QED BY <1>1, <1>2, <1>3, <1>5, <1>6, <1>7, PacedIdle

LEMMA SendCommandExecutePaced ==
    ASSUME KeepsUp, HandlerInv, PacedInv, SendCommandExecute
    PROVE  PacedInv' /\ BuffersKept
  <1>1. PICK d : d = Device
    OBVIOUS
  <1>2. /\ DeviceOK(d) /\ PacedDevice(flash, d) /\ pc = "idle" /\ d.s = s /\ d.fs = fs
        /\ UNCHANGED <<flash, saved, pc>>
    BY <1>1 DEF HandlerInv, PacedInv, SendCommandExecute, Requests, Device
  <1>3. PICK e \in {CommandExecute(d)} : s' = e.s /\ m' = e.m /\ fs' = e.fs
    BY <1>1 DEF SendCommandExecute, Becomes
  <1>4. Full(d.s.command)
    BY <1>2 DEF HandlerInv, ControllerOK, SendCommandExecute, Requests
  <1>5. DeviceOK(e)
    BY <1>2, <1>3, <1>4, CommandExecuteOK
  <1>6. d.fs.queue = <<>>
    <2>1. Len(d.fs.queue) <= 0 /\ d.fs.queue \in Seq(Op)
      BY <1>2, Parts DEF KeepsUp, SendCommandExecute, Room
    <2> QED BY <2>1
  <1>7. d.s.bank1.code # "VALID_APP"
    <2>1. ~d.fs.barrier
      BY <1>2, <1>6 DEF PacedDevice, Standing, QueueFine
    <2> QED BY <2>1, <1>2 DEF PacedInv
  <1>8. /\ PacedDevice(flash, e) /\ KeepsPage(d, e) /\ e.m.buf = d.m.buf
        /\ e.s.bank1.code # "VALID_APP"
    BY <1>2, <1>3, <1>4, <1>6, <1>7, CommandExecutePaced
  <1>9. KeepsBuffers(d, e)
    BY <1>8 DEF KeepsBuffers
  <1> QED BY <1>1, <1>2, <1>3, <1>5, <1>8, <1>9, PacedIdle

\* Handling data.
LEMMA PacedProceeds ==
    ASSUME HandlerInv, PacedInv, pc = "idle", UNCHANGED <<flash, saved, pc>>,
           NEW d, d = Device, NEW e, s' = e.s, m' = e.m, fs' = e.fs,
           PacedDevice(flash, e), Proceeds(flash, d, e)
    PROVE  PacedInv' /\ BuffersKept
  <1>1. d.s = s /\ d.fs = fs
    BY DEF Device
  <1>2. KeepsPage(d, e) /\ KeepsBuffers(d, e)
    BY DEF Proceeds, KeepsPage, KeepsBuffers
  <1>3. /\ DeviceOK(e) /\ e.s.bank1 = s.bank1 /\ e.fs.barrier = fs.barrier
        /\ e.fs.reset = fs.reset
    BY <1>1 DEF Proceeds
  <1> QED BY <1>2, <1>3, PacedIdle

\* There is room for what a request queues.
LEMMA RoomLeft ==
    ASSUME KeepsUp, Room(QueueSize - 2), fs.queue \in Seq(Op)
    PROVE  Len(fs.queue) + 2 <= QueueSize /\ Len(fs.queue) < QueueSize
  <1>1. Len(fs.queue) <= QueueSize - 2 /\ Len(fs.queue) \in Nat /\ QueueSize \in Nat
    BY Sizes DEF KeepsUp, Room
  <1> QED BY <1>1

LEMMA SendDataCreatePaced ==
    ASSUME KeepsUp, HandlerInv, PacedInv, SendDataCreate
    PROVE  PacedInv' /\ BuffersKept
  <1>1. PICK d : d = Device
    OBVIOUS
  <1>2. PICK size : size = ObjectSize
    OBVIOUS
  <1>3. /\ ctl.step \in DataSteps /\ pc = "idle" /\ UNCHANGED <<flash, saved, pc>>
        /\ d.fs = fs
    BY <1>1 DEF SendDataCreate, Requests, DataSteps, Device
  <1>4. PICK e \in {DataCreate(d, size)} : s' = e.s /\ m' = e.m /\ fs' = e.fs
    BY <1>1, <1>2 DEF SendDataCreate, Becomes
  <1>5. Active(d) /\ DeviceOK(d) /\ PacedDevice(flash, d)
    BY <1>1, <1>3, DataReady DEF PacedInv
  <1>6. size \in Nat
    <2>1. /\ Size[ctl.image] \in Nat /\ s.progress.last \in Nat /\ s.progress.object \in Nat
          /\ s.progress.last + s.progress.object <= Size[ctl.image]
      BY <1>3, DataReady
    <2> QED BY <2>1, <1>2, Sizes DEF ObjectSize, Min2
  <1>7. Len(d.fs.queue) < QueueSize
    BY <1>3, <1>5, Parts, RoomLeft DEF SendDataCreate
  <1>8. PacedDevice(flash, e) /\ Proceeds(flash, d, e)
    BY <1>4, <1>5, <1>6, <1>7, DataCreatePaced
  <1> QED BY <1>1, <1>3, <1>4, <1>8, PacedProceeds

LEMMA SendDataWritePaced ==
    ASSUME KeepsUp, HandlerInv, PacedInv, SendDataWrite
    PROVE  PacedInv' /\ BuffersKept
  <1>1. PICK d : d = Device
    OBVIOUS
  <1>2. PICK p \in Packets :
          LET n == Min2(p, ObjectEnd(ctl.pos) - ctl.pos)
          IN  Becomes(DataWrite(d, [k \in 1 .. n |-> <<ctl.image, ctl.pos + k - 1>>]))
    BY <1>1 DEF SendDataWrite
  <1>3. PICK n : n = Min2(p, ObjectEnd(ctl.pos) - ctl.pos)
    OBVIOUS
  <1>4. PICK data : data = [k \in 1 .. n |-> <<ctl.image, ctl.pos + k - 1>>]
    OBVIOUS
  <1>5. PICK e \in {DataWrite(d, data)} : s' = e.s /\ m' = e.m /\ fs' = e.fs
    BY <1>2, <1>3, <1>4 DEF Becomes
  <1>6. /\ ctl.step \in DataSteps /\ ctl.step = "write" /\ pc = "idle"
        /\ UNCHANGED <<flash, saved, pc>> /\ d.fs = fs
    BY <1>1 DEF SendDataWrite, Requests, DataSteps, Device
  <1>7. Active(d) /\ DeviceOK(d) /\ PacedDevice(flash, d) /\ ctl.image \in Images
    BY <1>1, <1>6, DataReady DEF PacedInv
  <1>8. data \in Seq(Data) /\ Len(data) > 0
    <2>1. n \in Nat \ {0} /\ ctl.pos \in Nat
      BY <1>3, <1>6, PacketFits
    <2>2. \A k \in 1 .. n : <<ctl.image, ctl.pos + k - 1>> \in Data
      BY <2>1, <1>7 DEF Data
    <2>3. data \in [1 .. n -> Data]
      BY <2>2, <1>4
    <2> QED BY <2>1, <2>3
  <1>9. Len(d.fs.queue) + 2 <= QueueSize /\ QueueSize <= Buffers
    BY <1>6, <1>7, Parts, RoomLeft DEF SendDataWrite, KeepsUp
  <1>10. PacedDevice(flash, e) /\ Proceeds(flash, d, e)
    BY <1>5, <1>7, <1>8, <1>9, DataWritePaced
  <1> QED BY <1>1, <1>5, <1>6, <1>10, PacedProceeds

LEMMA SendDataExecutePaced ==
    ASSUME HandlerInv, PacedInv, SendDataExecute
    PROVE  PacedInv' /\ BuffersKept
  <1>1. PICK d : d = Device
    OBVIOUS
  <1>2. ctl.step \in DataSteps /\ pc = "idle" /\ UNCHANGED <<flash, saved>>
    BY DEF SendDataExecute, Requests, DataSteps
  <1>3. Active(d) /\ DeviceOK(d) /\ PacedDevice(flash, d)
    BY <1>1, <1>2, DataReady DEF PacedInv
  <1>4. CASE ~ExecuteAllowed(d)
    <2>1. UNCHANGED <<s, m, fs, pc>>
      BY <1>1, <1>4 DEF SendDataExecute
    <2> QED BY <2>1, <1>2, PacedSame
  <1>5. CASE ExecuteAllowed(d)
    <2>1. Becomes(ObjectDone(d)) /\ pc' \in {"idle", "waitPending"}
      BY <1>1, <1>5 DEF SendDataExecute
    <2>2. PICK e \in {ObjectDone(d)} : s' = e.s /\ m' = e.m /\ fs' = e.fs
      BY <2>1 DEF Becomes
    <2>3. DeviceOK(e)
      BY <2>2, <1>3, <1>5, ObjectDoneOK
    <2>4. /\ PacedDevice(flash, e) /\ e.s.bank1.code # "VALID_APP" /\ e.m.buf = d.m.buf
          /\ KeepsPage(d, e)
      BY <2>2, <1>3, <1>5, ObjectDonePaced
    <2>5. KeepsBuffers(d, e)
      BY <2>4 DEF KeepsBuffers
    <2> QED BY <2>1, <2>2, <2>3, <2>4, <2>5, <1>1, <1>2, PacedIdle
  <1> QED BY <1>4, <1>5

\* The settings are written for the last time.
LEMMA SettlingPaced ==
    ASSUME HandlerInv, PacedInv, pc # "done", UNCHANGED <<flash, saved>>,
           NEW d, DeviceOK(d), d.s.command = NoCommand, Storable(d.s), CurrentWhole(d.s),
           DataOps(d.fs.queue) = {}, d.fs = fs, d.m.buf = m.buf,
           PacedDevice(flash, d), Writable(d.s), KeepsPage(Device, d), SaveAndReset(d)
    PROVE  PacedInv' /\ BuffersKept
  <1>0. PICK reset \in BOOLEAN : reset = TRUE
    OBVIOUS
  <1>1. PICK e : e = [d EXCEPT !.fs = nrf_dfu_settings_write(d, reset)]
    OBVIOUS
  <1>2. s' = e.s /\ m' = e.m /\ fs' = e.fs
    BY <1>0, <1>1 DEF SaveAndReset, Becomes
  <1>3. pc' = IF SettingsQueued(d) THEN "idle" ELSE "waitSettings"
    BY DEF SaveAndReset
  <1>4. DeviceOK(e)
    BY <1>1, SaveOK
  <1>5. d.s.bank1.code = "VALID_APP" => reset = TRUE
    BY <1>0
  <1>6. /\ e.s = d.s /\ e.m = d.m /\ PacedDevice(flash, e) /\ KeepsPage(d, e)
        /\ QueuedWith(d, e, reset)
    <2>1. e.s = d.s
      BY <1>1, <1>5, SavePaced
    <2>2. e.m = d.m
      BY <1>1, <1>5, SavePaced
    <2>3. PacedDevice(flash, e)
      BY <1>1, <1>5, SavePaced
    <2>4. KeepsPage(d, e)
      BY <1>1, <1>5, SavePaced
    <2>5. QueuedWith(d, e, reset)
      BY <1>1, <1>5, SavePaced
    <2> QED BY <2>1, <2>2, <2>3, <2>4, <2>5
  <1>7. KeepsPage(Device, e)
    BY <1>6 DEF KeepsPage
  <1>8. KeepsBuffers(Device, e)
    BY <1>6 DEF KeepsBuffers, Device
  <1>9. pc' # "done" /\ (pc' # "waitSettings" => e.fs.barrier /\ e.fs.reset)
    BY <1>0, <1>3, <1>6 DEF QueuedWith
  <1> QED BY <1>0, <1>2, <1>4, <1>6, <1>7, <1>8, <1>9, PacedKept

LEMMA PendingDonePaced ==
    ASSUME HandlerInv, PacedInv, PendingDone
    PROVE  PacedInv' /\ BuffersKept
  <1>1. PICK d : d = Device
    OBVIOUS
  <1>2. PICK e : e = PostValidated(d)
    OBVIOUS
  <1>3. /\ SaveAndReset(e) /\ UNCHANGED <<flash, saved>> /\ pc = "waitPending"
        /\ m.pending = 0 /\ d.fs = fs /\ d.m = m
    BY <1>1, <1>2 DEF PendingDone, Device
  <1>4. DeviceOK(d) /\ Active(d) /\ d.s.progress.crc = d.m.packet
    BY <1>1, <1>3 DEF HandlerInv, WaitOK, Device
  <1>5. PacedDevice(flash, d)
    BY <1>1, <1>3 DEF PacedInv
  <1>6. DataOps(d.fs.queue) = {}
    <2>1. d.fs.queue \in Seq(Op) /\ Cardinality(DataOps(d.fs.queue)) = 0
      BY <1>3, <1>4, Parts
    <2> QED BY <2>1, NoneLeft
  <1>7. /\ DeviceOK(e) /\ e.m = d.m /\ e.fs = d.fs /\ e.s.command = NoCommand
        /\ Storable(e.s) /\ CurrentWhole(e.s)
    BY <1>2, <1>4, PostValidatedOK
  <1>8. PacedDevice(flash, e) /\ Writable(e.s) /\ KeepsPage(d, e)
    BY <1>2, <1>4, <1>5, <1>6, PostValidatedPaced
  <1> QED BY <1>1, <1>3, <1>6, <1>7, <1>8, SettlingPaced

LEMMA SettingsRetryPaced ==
    ASSUME HandlerInv, PacedInv, SettingsRetry
    PROVE  PacedInv' /\ BuffersKept
  <1>1. PICK d : d = Device
    OBVIOUS
  <1>2. /\ SaveAndReset(d) /\ UNCHANGED <<flash, saved>> /\ pc = "waitSettings"
        /\ d.fs = fs /\ d.m = m /\ d.s = s
    BY <1>1 DEF SettingsRetry, Device
  <1>3. DeviceOK(d) /\ d.s.command = NoCommand /\ DataOps(d.fs.queue) = {}
    BY <1>1, <1>2 DEF HandlerInv, WaitOK
  <1>4. PacedDevice(flash, d) /\ Writable(d.s)
    BY <1>1, <1>2 DEF PacedInv
  <1>5. CurrentWhole(d.s)
    <2>1. CurrentWhole(s)
      BY <1>2 DEF HandlerInv, WaitOK
    <2> QED BY <2>1, <1>2
  <1>6. Storable(d.s)
    <2>1. d.s \in Record
      BY <1>3, Parts
    <2> QED BY <2>1, <1>3 DEF Storable
  <1>7. KeepsPage(Device, d)
    BY <1>1 DEF KeepsPage
  <1> QED BY <1>2, <1>3, <1>4, <1>5, <1>6, <1>7, SettlingPaced

\* No settings claim nothing.
LEMMA NothingClaimed ==
    ASSUME NEW f
    PROVE  PageTrue(f, Zero) /\ Zero.bank1.code = "INVALID"
  <1>1. PICK r : r = Zero
    OBVIOUS
  <1>2. /\ r.bank0 = NoBank /\ r.bank1 = NoBank /\ r.progress = NoProgress
        /\ r.write_offset = 0 /\ r.command = NoCommand
    BY <1>1 DEF Zero
  <1>3. /\ NoBank.code = "INVALID"
        /\ NoProgress.object = 0 /\ NoProgress.offset = 0 /\ NoProgress.last = 0
        /\ NoProgress.crc = NoImage /\ NoProgress.crc_last = NoImage
    BY DEF NoBank, NoProgress
  <1>4. Claims(r) = {}
    BY <1>2, <1>3, NoClaims
  <1>5. Sound(r)
    BY <1>2, <1>3, <1>4 DEF Sound, Known
  <1>6. Writable(r)
    BY <1>2, <1>3, <1>5 DEF Writable
  <1> QED BY <1>1, <1>2, <1>3, <1>4, <1>6 DEF PageTrue

\* The device starts again from settings that are true.
LEMMA RestartPaced ==
    ASSUME NEW c, Restart(c), NEW f, f = flash',
           \/ c \in {Erased, NoSettings}
           \/ Storable(c) /\ PageTrue(f, c) /\ c.bank1.code # "VALID_APP"
    PROVE  PacedInv' /\ BuffersKept
  <1>1. PICK r : r = Loaded(c)
    OBVIOUS
  <1>2. Storable(r)
    BY <1>1, LoadedOK
  <1>3. PageTrue(f, r) /\ r.bank1.code # "VALID_APP"
    <2>1. CASE c \in {Erased, NoSettings}
      BY <2>1, <1>1, NothingClaimed DEF Loaded
    <2>2. CASE c \notin {Erased, NoSettings}
      BY <2>2, <1>1 DEF Loaded
    <2> QED BY <2>1, <2>2
  <1>4. r.bank1.code = "INVALID"
    BY <1>2, <1>3 DEF Storable, Record, AnyBank
  <1>5. PICK e \in {Resumed(r)} : s' = e.s /\ m' = e.m /\ fs' = e.fs
    BY <1>1 DEF Restart, Becomes
  <1>6. DeviceOK(e) /\ e.fs = FreshFs
    BY <1>2, <1>5, ResumedOK
  <1>7. PacedDevice(f, e) /\ PageKept(e, r) /\ e.s.bank1.code # "VALID_APP"
    BY <1>2, <1>3, <1>5, ResumedPaced
  <1>8. Device' = e
    <2>1. e = [s |-> e.s, m |-> e.m, fs |-> e.fs]
      BY <1>6, Parts
    <2> QED BY <2>1, <1>5 DEF Device
  <1>9. saved' = r /\ pc' = "idle"
    BY <1>1 DEF Restart
  <1>10. GoesOn(f, r, "idle", e)
    BY <1>3, <1>4, <1>7 DEF GoesOn
  <1>11. GoesOn(flash', saved', pc', Device')
    BY <1>8, <1>9, <1>10
  <1>12. fs'.queue = <<>>
    BY <1>5, <1>6 DEF FreshFs
  <1> QED BY <1>9, <1>11, <1>12, PacedThen DEF BuffersKept

\* What the end of the first operation makes of the flash.
LEMMA FlashEnds ==
    ASSUME HandlerInv, fs.queue # <<>>
    PROVE  Ends(flash, FlashAfter(Head(fs.queue)), fs.queue, m.buf)
  <1>1. PICK o : o = Head(fs.queue)
    OBVIOUS
  <1>2. /\ o \in Op /\ o = fs.queue[1] /\ DOMAIN flash = 0 .. Region - 1
    BY <1>1, HeadOK
  <1>3. ASSUME NEW x \in 0 .. Region - 1
        PROVE  /\ x \notin Covered(o) => FlashAfter(o)[x] = flash[x]
               /\ x \in Covered(o) /\ o.op = "erase" => FlashAfter(o)[x] = Erased
               /\ x \in Covered(o) /\ o.op = "store" /\ flash[x] = Erased =>
                     FlashAfter(o)[x] = m.buf[o.buf][x - o.at]
    BY <1>2 DEF FlashAfter, Written
  <1> QED BY <1>1, <1>2, <1>3 DEF Ends

\* The operation that ends is not the one that the handler waits for to reset.
LEMMA EndedPaced ==
    ASSUME HandlerInv, PacedInv, fs.queue # <<>>, pc # "done", NEW o, o = Head(fs.queue),
           ~(o.op = "settingsStore" /\ fs.reset),
           flash' = FlashAfter(o), saved' = SavedAfter(o), fs' = FsResult(o, TRUE),
           m' = [m EXCEPT !.pending = @ - (IF Covered(o) # {} THEN 1 ELSE 0)],
           UNCHANGED <<s, pc, ctl>>
    PROVE  PacedInv' /\ BuffersKept
  <1>1. PICK d, f, g : d = Device /\ f = flash /\ g = flash'
    OBVIOUS
  <1>2. PICK e : e = Device'
    OBVIOUS
  <1>3. /\ d.s = s /\ d.m = m /\ d.fs = fs /\ e.s = s /\ e.m = m' /\ e.fs = fs'
    BY <1>1, <1>2 DEF Device
  <1>4. /\ fs.queue \in Seq(Op) /\ o \in Op /\ o = fs.queue[1] /\ fs \in DeviceFs /\ m \in Ram
        /\ flash \in [0 .. Region - 1 -> Unit \cup {Torn}]
    BY HeadOK
  <1>5. DeviceOK(d) /\ PacedDevice(f, d) /\ GoesOn(f, saved, pc, d)
    BY <1>1, PacedGoesOn DEF HandlerInv, GoesOn
  <1>6. Ends(f, g, d.fs.queue, d.m.buf)
    BY <1>1, <1>3, FlashEnds
  <1>7. /\ e.fs.queue = Tail(d.fs.queue) /\ ~e.fs.failure /\ e.fs.reset = d.fs.reset
        /\ e.fs.barrier <=> d.fs.barrier /\ d.fs.queue[1].op # "settingsStore"
    <2>1. /\ fs'.queue = Tail(fs.queue) /\ fs'.failure = FALSE /\ fs'.reset = fs.reset
          /\ fs'.barrier = IF o.op = "settingsStore" THEN FALSE ELSE fs.barrier
      BY <1>4 DEF FsResult, DeviceFs
    <2>2. fs'.barrier <=> fs.barrier /\ o.op # "settingsStore"
      <3>1. CASE o.op = "settingsStore"
        BY <3>1, <2>1
      <3>2. CASE o.op # "settingsStore"
        BY <3>2, <2>1
      <3> QED BY <3>1, <3>2
    <2> QED BY <2>1, <2>2, <1>3, <1>4
  <1>8. /\ e.m.valid = d.m.valid /\ e.m.start = d.m.start /\ e.m.size_req = d.m.size_req
        /\ e.m.pos = d.m.pos /\ e.m.cur = d.m.cur /\ e.m.buf = d.m.buf
    BY <1>3, <1>4 DEF Ram
  <1>9. PacedDevice(g, e) /\ PageLasts(f, g, d, e)
    BY <1>3, <1>5, <1>6, <1>7, <1>8, FirstEnds
  <1>10. ASSUME IsRecord(saved')
         PROVE  PageTrue(g, saved') /\ PageKept(e, saved') /\ saved'.bank1.code = "INVALID"
    <2>1. CASE o.op = "settingsErase"
      BY <2>1, <1>10 DEF SavedAfter, IsRecord
    <2>2. CASE o.op = "settingsStore"
      <3>1. PICK r : r = o.content
        OBVIOUS
      <3>2. saved' = r
        BY <2>2, <3>1, <1>10 DEF SavedAfter, IsRecord
      <3>3. /\ r \in Record /\ PageTrue(f, r) /\ PageKept(e, r)
            /\ r.bank1.code = "VALID_APP" => d.fs.reset
        BY <2>2, <3>1, <1>3, <1>4, <1>5, <1>7, <1>8, StoreEnds
      <3>4. ~IsData(o)
        BY <2>2 DEF IsData
      <3>5. g = f
        BY <3>4, <1>1, <1>4, FlashAfterOK
      <3>6. r.bank1.code = "INVALID"
        BY <2>2, <3>3, <1>3 DEF Record, AnyBank
      <3> QED BY <3>2, <3>3, <3>5, <3>6
    <2>3. CASE o.op \notin {"settingsErase", "settingsStore"}
      <3>1. saved' = saved
        BY <2>3 DEF SavedAfter
      <3>2. IsRecord(saved) /\ saved \in Record
        BY <3>1, <1>10 DEF HandlerInv, FlashOK, IsRecord, Storable
      <3>3. ~EraseFirst(d.fs.queue)
        BY <2>3, <1>3, <1>4 DEF EraseFirst
      <3>4. PageTrue(f, saved) /\ PageKept(d, saved) /\ saved.bank1.code = "INVALID"
        BY <3>2, <1>5 DEF GoesOn
      <3> QED BY <3>1, <3>2, <3>3, <3>4, <1>9 DEF PageLasts
    <2> QED BY <2>1, <2>2, <2>3
  <1>11. pc = "waitSettings" => e.s.command = NoCommand /\ Writable(e.s)
    BY <1>3, <1>5 DEF GoesOn
  <1>12. e.s.bank1.code = "VALID_APP" => pc = "waitSettings" \/ (e.fs.barrier /\ e.fs.reset)
    <2>1. e.s.bank1.code = "VALID_APP" => pc = "waitSettings" \/ (d.fs.barrier /\ d.fs.reset)
      BY <1>3, <1>5 DEF GoesOn
    <2> QED BY <2>1, <1>3, <1>4, <1>7
  <1>13. GoesOn(g, saved', pc, e)
    BY <1>9, <1>10, <1>11, <1>12 DEF GoesOn
  <1>14. GoesOn(flash', saved', pc', Device')
    BY <1>1, <1>2, <1>13
  <1>15. BuffersKept
    BY <1>1, <1>2, <1>8 DEF BuffersKept, KeepsBuffers
  <1> QED BY <1>14, <1>15, PacedThen

LEMMA FlashResultPaced ==
    ASSUME KeepsUp, HandlerInv, PacedInv, FlashResult
    PROVE  PacedInv' /\ BuffersKept
  <1>1. fs.queue # <<>> /\ pc # "done"
    BY DEF FlashResult
  <1>2. PICK o : o = Head(fs.queue)
    OBVIOUS
  <1>3. PICK c : c = SavedAfter(o)
    OBVIOUS
  <1>4. /\ flash' = FlashAfter(o)
        /\ IF o.op = "settingsStore" /\ fs.reset
           THEN IF Installed(c)
                THEN pc' = "done" /\ saved' = c /\ UNCHANGED <<s, m, fs, ctl>>
                ELSE Restart(c)
           ELSE /\ fs' = FsResult(o, TRUE)
                /\ m' = [m EXCEPT !.pending = @ - (IF Covered(o) # {} THEN 1 ELSE 0)]
                /\ saved' = c
                /\ UNCHANGED <<s, pc, ctl>>
    BY <1>2, <1>3 DEF FlashResult, KeepsUp
  <1>5. o \in Op /\ o = fs.queue[1] /\ flash \in [0 .. Region - 1 -> Unit \cup {Torn}] /\ m \in Ram
    BY <1>1, <1>2, HeadOK
  <1>6. CASE ~(o.op = "settingsStore" /\ fs.reset)
    BY <1>1, <1>2, <1>3, <1>4, <1>6, EndedPaced
  <1>7. CASE o.op = "settingsStore" /\ fs.reset
    <2>1. PICK r : r = o.content
      OBVIOUS
    <2>2. PICK f : f = flash
      OBVIOUS
    <2>3. f = flash'
      <3>1. ~IsData(o)
        BY <1>7 DEF IsData
      <3> QED BY <3>1, <2>2, <1>4, <1>5, FlashAfterOK
    <2>4. /\ PageTrue(f, r) /\ Storable(r)
          /\ r.bank1.code = "VALID_APP" => r.current = 1
      <3>1. PICK d : d = Device
        OBVIOUS
      <3>2. DeviceOK(d) /\ PacedDevice(f, d) /\ d.fs = fs
        BY <3>1, <2>2, <1>1 DEF HandlerInv, PacedInv, Device
      <3>3. PageTrue(f, r) /\ (r.bank1.code = "VALID_APP" => r.current = 1)
        BY <3>2, <2>1, <1>1, <1>5, <1>7, StoreEnds
      <3> QED BY <3>3, <2>1, <1>5, <1>7 DEF Op
    <2>5. c = r \/ c = NoSettings
      BY <2>1, <1>3, <1>7 DEF SavedAfter
    <2>6. CASE Installed(c)
      <3>1. c = r
        BY <2>5, <2>6 DEF Installed
      <3>2. pc' = "done" /\ saved' = r /\ UNCHANGED <<s, m, fs>>
        BY <3>1, <2>6, <1>4, <1>7
      <3>3. BuffersKept
        <4>1. Device' = Device
          BY <3>2 DEF Device
        <4> QED BY <4>1 DEF BuffersKept, KeepsBuffers
      <3>4. PageTrue(flash', saved') /\ pc' = "done"
        BY <3>2, <2>3, <2>4
      <3> QED BY <3>3, <3>4 DEF PacedInv
    <2>7. CASE ~Installed(c)
      <3>1. Restart(c)
        BY <2>7, <1>4, <1>7
      <3>2. c \notin {Erased, NoSettings} => c = r /\ r.bank1.code # "VALID_APP"
        BY <2>4, <2>5, <2>7 DEF Installed
      <3> QED BY <3>1, <3>2, <2>3, <2>4, RestartPaced
    <2> QED BY <2>6, <2>7
  <1> QED BY <1>6, <1>7

LEMMA ResetPaced ==
    ASSUME HandlerInv, PacedInv, Reset
    PROVE  PacedInv' /\ BuffersKept
  <1>1. /\ saved \in {Erased, NoSettings} \/ Storable(saved)
        /\ DOMAIN flash = 0 .. Region - 1 /\ pc # "done"
    BY DEF HandlerInv, FlashOK, Reset
  <1>2. PICK f, r, d : f = flash /\ r = saved /\ d = Device
    OBVIOUS
  <1>3. r \notin {Erased, NoSettings} =>
           /\ Storable(r) /\ PageTrue(f, r) /\ PageKept(d, r) /\ r.bank1.code = "INVALID"
    BY <1>1, <1>2, PacedGoesOn DEF GoesOn, IsRecord
  <1>4. CASE Restart(saved) /\ UNCHANGED flash
    <2>1. Restart(r) /\ f = flash'
      BY <1>2, <1>4
    <2> QED BY <2>1, <1>3, RestartPaced
  <1>5. CASE ~(Restart(saved) /\ UNCHANGED flash)
    <2>1. PICK o : o = Head(fs.queue)
      OBVIOUS
    <2>2. PICK c : c = IF Covered(o) = {} THEN NoSettings ELSE saved
      OBVIOUS
    <2>3. /\ fs.queue # <<>> /\ Restart(c)
          /\ flash' = [u \in DOMAIN flash |-> IF u \in Covered(o) THEN Torn ELSE flash[u]]
      BY <1>5, <2>1, <2>2 DEF Reset
    <2>4. PICK g : g = flash'
      OBVIOUS
    <2>5. CASE c \in {Erased, NoSettings}
      BY <2>3, <2>4, <2>5, RestartPaced
    <2>6. CASE c \notin {Erased, NoSettings}
      <3>1. c = r /\ Covered(o) # {}
        BY <2>2, <2>6, <1>2
      <3>2. /\ o \in Op /\ o = fs.queue[1] /\ fs.queue \in Seq(Op) /\ d.fs = fs
            /\ 1 \in 1 .. Len(fs.queue)
        BY <2>1, <2>3, <1>2, HeadOK DEF Device
      <3>3. ~EraseFirst(d.fs.queue)
        <4>1. IsData(o)
          BY <3>1, <3>2, CoveredData
        <4> QED BY <4>1, <3>2 DEF IsData, EraseFirst
      <3>4. ASSUME NEW x \in Claims(r) PROVE g[x[1]] = x[2]
        <4>1. x[1] \in 0 .. Region - 1 /\ f[x[1]] = x[2]
          BY <3>1, <3>4, <2>6, <1>3, SoundUnits DEF PageTrue, Writable, Storable
        <4>2. x[1] \notin Covered(o)
          BY <3>1, <3>2, <3>3, <3>4, <2>6, <1>3 DEF PageKept, Untouched
        <4> QED BY <4>1, <4>2, <2>3, <2>4, <1>1, <1>2
      <3>5. Storable(c) /\ PageTrue(g, c) /\ c.bank1.code # "VALID_APP"
        BY <3>1, <3>4, <2>6, <1>3 DEF PageTrue
      <3> QED BY <3>5, <2>3, <2>4, RestartPaced
    <2> QED BY <2>5, <2>6
  <1> QED BY <1>4, <1>5

\* The first application is in flash, and its settings say no more than that.
LEMMA InitPaced ==
    ASSUME KeepsUp, Init
    PROVE  PacedInv
  <1>1. PICK r, d, f : r = Start /\ d = Device /\ f = flash
    OBVIOUS
  <1>2. /\ saved = r /\ d.s = r /\ d.m = FreshRam /\ d.fs = FreshFs /\ pc = "idle"
        /\ f = [u \in 0 .. Region - 1 |-> IF u < Size[Factory] THEN <<Factory, u>> ELSE Erased]
    BY <1>1 DEF Init, Device
  <1>3. /\ r.current = 0 /\ r.bank1 = NoBank /\ r.command = NoCommand
        /\ r.progress = NoProgress /\ r.write_offset = 0
        /\ r.bank0 = [code |-> "VALID_APP", crc |-> Factory, size |-> Size[Factory]]
    BY <1>1 DEF Start, Zero
  <1>4. /\ NoBank.code = "INVALID"
        /\ NoProgress.object = 0 /\ NoProgress.offset = 0 /\ NoProgress.last = 0
        /\ NoProgress.crc = NoImage /\ NoProgress.crc_last = NoImage
    BY DEF NoBank, NoProgress
  <1>5. r.bank0.code = "VALID_APP" /\ r.bank0.crc = Factory /\ r.bank0.size = Size[Factory]
    BY <1>3
  <1>6. Claims(r) = ImageAt(Factory, 0, Size[Factory])
    BY <1>3, <1>4, <1>5, Sizes DEF Claims, BankClaims, ProgressClaims
  <1>7. ASSUME NEW c \in Claims(r) PROVE c[1] < Region /\ f[c[1]] = c[2]
    <2>1. PICK k \in 0 .. Size[Factory] - 1 : c = <<0 + k, <<Factory, k>>>>
      BY <1>6, <1>7 DEF ImageAt
    <2>2. Size[Factory] \in Nat /\ Region \in Nat /\ Size[Factory] <= Region
      BY Sizes DEF KeepsUp
    <2>3. 0 + k = k /\ k \in 0 .. Region - 1 /\ k < Size[Factory] /\ k < Region
      BY <2>2
    <2> QED BY <2>1, <2>3, <1>2
  <1>8. Sound(r)
    BY <1>3, <1>4, <1>5, <1>7, Sizes DEF Sound, Known
  <1>9. Writable(r)
    BY <1>3, <1>4, <1>8 DEF Writable
  <1>10. PageTrue(f, r)
    BY <1>7, <1>9 DEF PageTrue
  <1>11. /\ d.fs.queue = <<>> /\ ~d.fs.failure /\ ~d.fs.barrier /\ ~d.m.valid
    BY <1>2 DEF FreshFs, FreshRam
  <1>12. /\ \A x, v : f[x] = v => WillHold(f, d, x, v)
         /\ \A x : Untouched(d.fs.queue, 1, Len(d.fs.queue), x)
         /\ BuffersBehind(d) /\ WritesTrue(f, d) /\ QueueFine(d)
    BY <1>11, NothingQueued
  <1>13. SettingsTrue(f, d)
    BY <1>2, <1>3, <1>4, <1>7, <1>8, <1>12 DEF SettingsTrue
  <1>14. PacedDevice(f, d)
    BY <1>11, <1>12, <1>13 DEF PacedDevice, Standing, Receiving, Active
  <1>15. PageKept(d, r)
    BY <1>11, <1>12 DEF PageKept, SameUpdate, Active
  <1>16. r.bank1.code = "INVALID"
    BY <1>3, <1>4
  <1>17. s = r
    BY <1>1 DEF Init
  <1> QED BY <1>1, <1>2, <1>10, <1>14, <1>15, <1>16, <1>17 DEF PacedInv

LEMMA NextPaced ==
    ASSUME KeepsUp, HandlerInv, PacedInv, [Next]_vars
    PROVE  PacedInv' /\ BuffersKept
  <1>1. CASE \/ Connect \/ SelectCommand \/ SelectData \/ AskCrc \/ LinkLoss
             \/ UNCHANGED vars
    <2>1. UNCHANGED <<flash, saved, s, m, fs, pc>>
      BY <1>1 DEF Connect, SelectCommand, SelectData, AskCrc, LinkLoss, vars
    <2> QED BY <2>1, PacedSame
  <1>2. CASE SendCommandCreate
    BY <1>2, SendCommandCreatePaced
  <1>3. CASE SendCommandWrite
    BY <1>3, SendCommandWritePaced
  <1>4. CASE SendCommandExecute
    BY <1>4, SendCommandExecutePaced
  <1>5. CASE SendDataCreate
    BY <1>5, SendDataCreatePaced
  <1>6. CASE SendDataWrite
    BY <1>6, SendDataWritePaced
  <1>7. CASE SendDataExecute
    BY <1>7, SendDataExecutePaced
  <1>8. CASE PendingDone
    BY <1>8, PendingDonePaced
  <1>9. CASE SettingsRetry
    BY <1>9, SettingsRetryPaced
  <1>10. CASE FlashResult
    BY <1>10, FlashResultPaced
  <1>11. CASE Reset
    BY <1>11, ResetPaced
  <1> QED BY <1>1, <1>2, <1>3, <1>4, <1>5, <1>6, <1>7, <1>8, <1>9, <1>10, <1>11
          DEF Next, Controller, Finished

-----------------------------------------------------------------------------
(* The theorems of a flash that keeps up.                                  *)

\* What the queue, the buffers and the settings promise, whatever the sizes and
\* wherever the device is reset (on_data_obj_write_request and its relatives).
THEOREM PacedInvariant ==
    ASSUME KeepsUp
    PROVE  Spec => [](HandlerInv /\ PacedInv)
  <1>1. Init => HandlerInv /\ PacedInv
    BY InitHandler, InitPaced
  <1>2. HandlerInv /\ PacedInv /\ [Next]_vars => HandlerInv' /\ PacedInv'
    BY NextHandler, NextPaced
  <1> QED BY <1>1, <1>2, PTL DEF Spec

\* A reset finds in the settings page no more progress than there are data in
\* flash: nrf_dfu_settings_write is queued behind the data of the object.
THEOREM SavedCorrect ==
    ASSUME KeepsUp
    PROVE  Spec => []SavedIsStored
  <1>1. PacedInv => SavedIsStored
    <2>1. SUFFICES ASSUME PacedInv, IsRecord(saved), saved.progress.crc_last \in Images,
                          NEW k \in 0 .. saved.progress.last - 1
                   PROVE  flash[PlaceOf(saved) + k] = <<saved.progress.crc_last, k>>
      BY DEF SavedIsStored
    <2>2. <<PlaceOf(saved) + k, <<saved.progress.crc_last, k>>>> \in Claims(saved)
      BY <2>1 DEF Claims, ProgressClaims, ImageAt
    <2> QED BY <2>1, <2>2 DEF PacedInv, PageTrue
  <1> QED BY <1>1, PacedInvariant, PTL

\* A bank is called valid in the settings page only as long as its image is
\* whole: the page is erased before nrf_dfu_find_cache's place is written to.
THEOREM ValidCorrect ==
    ASSUME KeepsUp
    PROVE  Spec => []ValidIsWhole
  <1>1. PacedInv => ValidIsWhole
    <2>1. SUFFICES ASSUME PacedInv, IsRecord(saved) PROVE ValidIsWhole
      BY DEF ValidIsWhole
    <2>2. /\ Known(saved.bank0) /\ Known(saved.bank1)
          /\ \A c \in Claims(saved) : flash[c[1]] = c[2]
      BY <2>1 DEF PacedInv, PageTrue, Writable, Sound
    <2>3. ASSUME NEW b, NEW at, Known(b), BankClaims(b, at) \subseteq Claims(saved)
          PROVE  BankWhole(b, at)
      <3>1. SUFFICES ASSUME b.code = "VALID_APP", NEW k \in 0 .. Size[b.crc] - 1
                     PROVE  b.crc \in Images /\ b.size = Size[b.crc]
                            /\ flash[at + k] = <<b.crc, k>>
        BY <2>3 DEF BankWhole, WholeAt, Known
      <3>2. b.crc \in Images /\ b.size = Size[b.crc]
        BY <2>3, <3>1 DEF Known
      <3>3. <<at + k, <<b.crc, k>>>> \in Claims(saved)
        BY <2>3, <3>1, <3>2 DEF BankClaims, ImageAt
      <3> QED BY <3>2, <3>3, <2>2
    <2> QED BY <2>2, <2>3 DEF ValidIsWhole, Claims
  <1> QED BY <1>1, PacedInvariant, PTL

\* What a queued store is to copy stays in its buffer until it is copied: the
\* buffers are never gone round before their operations have left the queue.
THEOREM BuffersCorrect ==
    ASSUME KeepsUp
    PROVE  Spec => BufferHeld
  <1>1. ASSUME HandlerInv, PacedInv, [Next]_vars,
               NEW o \in QueuedStores \cap QueuedStores', NEW k \in 0 .. o.len - 1
        PROVE  m'.buf[o.buf][k] = m.buf[o.buf][k]
    <2>1. BuffersKept
      BY <1>1, NextPaced
    <2>2. fs'.queue # <<>>
      BY <1>1 DEF QueuedStores
    <2>3. PICK j \in DOMAIN fs.queue : fs.queue[j] = o /\ o.op = "store"
      BY <1>1 DEF QueuedStores
    <2>4. m'.buf[o.buf] = m.buf[o.buf]
      BY <2>1, <2>2, <2>3 DEF BuffersKept, KeepsBuffers, Device
    <2> QED BY <2>4
  <1>2. HandlerInv /\ PacedInv /\ [Next]_vars =>
           [\A op \in QueuedStores \cap QueuedStores' :
               \A k \in 0 .. op.len - 1 : m'.buf[op.buf][k] = m.buf[op.buf][k]]_vars
    BY <1>1
  <1> QED BY <1>2, PacedInvariant, PTL DEF Spec, BufferHeld

\* All three hold of the device behind nrf_ble_dfu.c.
THEOREM TransportKept ==
    ASSUME KeepsUp
    PROVE  TransportSpec => []SavedIsStored /\ []ValidIsWhole /\ BufferHeld
  BY TransportRefines, SavedCorrect, ValidCorrect, BuffersCorrect

=============================================================================
