------------------------- MODULE EslTransfer_proofs -------------------------
(***************************************************************************)
(* The transfer of a picture to the label keeps its types, never writes    *)
(* past the packet buffer, and with a central that leaves the flash the    *)
(* time it needs it stores the picture without a hole and only shows what  *)
(* is whole (lable_data.c, fs_esl_data.c).                                 *)
(*                                                                         *)
(* Two invariants, one over the other.  The first is about the link: what  *)
(* is on its way in either direction, the central's position and the       *)
(* label's place in the buffer always fit together, whatever answers are   *)
(* lost.  The second is about the flash: what is stored below the store    *)
(* point, what waits to be stored and what is erased above it.             *)
(***************************************************************************)
EXTENDS EslTransfer, Arithmetic

-----------------------------------------------------------------------------
(* The invariant of the link.                                              *)

Writes ==
    [t : {"cccd"}, on : BOOLEAN]
    \cup [t : {"start"}, length : Nat, crc16 : Pictures, verify_number : Nat]
    \cup [t : {"packet"}, index : Nat, data : AllData]
    \cup [t : {"commit", "retry", "end"}]

PacketOf(p, i) == [t |-> "packet", index |-> i, data |-> <<p, i>>]

Cccd == [t |-> "cccd", on |-> TRUE]
Cp(c) == [t |-> c]

\* What the label was told with 0x00 is what the central knows of picture p.
Announced(p) == esl_data_info = [length |-> Length[p], crc16 |-> p, verify_number |-> Batch[p]]

\* The last writes on their way, after the first k, are the packets up to next.
PacketsFrom(k) ==
    \A i \in k + 1 .. Len(toDev) :
       toDev[i] = PacketOf(cen.pic, cen.next - Len(toDev) + i - 1)

\* The first n places of the buffer hold the packets of the picture from a on.
Buffered(a, n) == \A k \in 0 .. n - 1 : aligned_data[k] = <<cen.pic, a + k>>

\* A batch is in the buffer and its commit, or its check, is still to come.
BatchAt(a, n) ==
    /\ m_flags = "DOING"
    /\ sequency = n
    /\ fs_store_point = a * PacketBytes
    /\ Buffered(a, n)

Silent == ~link /\ toDev = <<>> /\ toCen = <<>> /\ cen = Home

Starting ==
    /\ cen.pc = "starting" /\ cen.base = 0 /\ cen.next = 0
    /\ \/ toDev \in {<<Cccd, StartOf(cen.pic)>>, <<StartOf(cen.pic)>>} /\ toCen = <<>>
       \/ /\ toDev = <<>> /\ toCen \in {<<>>, <<Cp("started")>>}
          /\ m_flags = "START" /\ Announced(cen.pic)

\* Packets are on their way, the first of them next in the batch.
Streaming ==
    LET j == cen.next - Len(toDev) IN
    /\ PacketsFrom(0)
    /\ j >= cen.base
    /\ \/ m_flags = "START" /\ cen.base = 0 /\ j = 0
       \/ BatchAt(cen.base, j - cen.base)
    /\ toCen # <<>> =>
         /\ toDev = <<>> /\ BatchSent /\ m_flags = "DOING" /\ sequency > 0
         /\ toCen = <<toCen[1]>>
         /\ toCen[1].t = "verify" /\ toCen[1].crc = Part(cen.pic, cen.base, cen.next)

\* The packets of a batch follow the commit of the batch before.
AfterCommit ==
    /\ toDev # <<>> /\ toDev[1] = Cp("commit")
    /\ PacketsFrom(1)
    /\ cen.next = cen.base + Len(toDev) - 1
    /\ sequency \in 1 .. cen.base
    /\ BatchAt(cen.base - sequency, sequency)
    /\ toCen = <<>>

\* The packets of a batch that is sent again follow the request to drop it.
AfterRetry ==
    /\ toDev # <<>> /\ toDev[1] = Cp("retry")
    /\ PacketsFrom(1)
    /\ cen.next = cen.base + Len(toDev) - 1
    /\ \/ m_flags = "START" /\ cen.base = 0
       \/ m_flags = "DOING" /\ fs_store_point = cen.base * PacketBytes
    /\ toCen = <<>>

Sending ==
    /\ cen.pc = "sending"
    /\ cen.base <= cen.next
    /\ cen.next <= Packets(cen.pic) /\ cen.next - cen.base <= Batch[cen.pic]
    /\ Announced(cen.pic)
    /\ Streaming \/ AfterCommit \/ AfterRetry

Stored == fs_store_point = Packets(cen.pic) * PacketBytes

Ending ==
    /\ cen.pc = "ending"
    /\ Announced(cen.pic)
    /\ \/ /\ toDev = <<Cp("commit"), Cp("end")>> /\ toCen = <<>>
          /\ sequency \in 1 .. Packets(cen.pic)
          /\ BatchAt(Packets(cen.pic) - sequency, sequency)
       \/ /\ toDev = <<Cp("end")>> /\ toCen = <<>>
          /\ m_flags \in {"DOING", "DONE"} /\ Stored
       \/ /\ toDev = <<>> /\ toCen \in {<<>>, <<Cp("ended")>>}
          /\ m_flags = "DONE" /\ Stored

Done == cen.pc = "done" /\ toDev = <<>> /\ toCen = <<>>

Talk == Silent \/ (link /\ (Starting \/ Sending \/ Ending \/ Done))

Op == [kind : {"erase", "store"}, at : Nat, left : Nat]

\* No store reads behind the end of the buffer.
QueueOK(q) ==
    /\ q \in Seq(Op) /\ Len(q) <= QueueSize
    /\ \A i \in 1 .. Len(q) : q[i].kind = "store" => q[i].left <= BufPackets

LinkInv ==
    /\ TypeOK
    /\ QueueOK(fq)
    /\ toDev \in Seq(Writes)
    /\ NoOverrun
    /\ Talk

-----------------------------------------------------------------------------
(* The invariant of the flash, for a central that leaves it time.          *)

Pages(p) == (PageBytes - 1 + Length[p]) \div PageBytes

Top == fs_store_point \div PacketBytes

\* The erasure of the picture's pages goes on, and what it has done is erased.
Erasing(p) ==
    /\ fq # <<>> => fq[1].kind = "erase" /\ fq[1].at + fq[1].left = Pages(p)
    /\ \A u \in Units :
          u \div PagePackets < (IF fq = <<>> THEN Pages(p) ELSE fq[1].at) => flash[u] = Erased

\* Below the store point is the picture, or the store that will put it there;
\* the rest of the picture's place is erased.
Storing(p) ==
    /\ fs_store_point = Top * PacketBytes
    /\ \A u \in Units : u < Packets(p) /\ u >= Top => flash[u] = Erased
    /\ fq # <<>> =>
         /\ fq[1].kind = "store"
         /\ fq[1].left > 0 =>
              /\ fq[1].at + fq[1].left = Top
              /\ \A k \in 0 .. fq[1].left - 1 :
                    aligned_data[k] = <<p, fq[1].at + k>> /\ flash[fq[1].at + k] = Erased
    /\ \A u \in Units :
          u < Top => flash[u] = <<p, u>> \/ (fq # <<>> /\ fq[1].left > 0 /\ u >= fq[1].at)

FlashInv ==
    /\ failed = failure
    /\ Len(fq) <= 1
    /\ failure => fq = <<>>
    /\ NoOverwrite
    /\ EndMeansWhole
    /\ m_flags = "0" => fq = <<>>
    /\ m_flags # "0" => Announced(esl_data_info.crc16)
    /\ ~failure /\ m_flags = "START" => Erasing(esl_data_info.crc16)
    /\ ~failure /\ m_flags \in {"DOING", "DONE"} => Storing(esl_data_info.crc16)
-----------------------------------------------------------------------------
(* Sizes.                                                                  *)

LEMMA Sizes ==
    /\ PacketBytes \in Nat \ {0} /\ BufPackets \in Nat \ {0} /\ PageBytes \in Nat \ {0}
    /\ RegionPages \in Nat \ {0} /\ QueueSize \in Nat \ {0} /\ MaxLost \in Nat
    /\ PagePackets \in Nat \ {0} /\ PageBytes = PagePackets * PacketBytes
    /\ Units = 0 .. RegionPages * PagePackets - 1
  <1>1. /\ PacketBytes \in Nat \ {0} /\ BufPackets \in Nat \ {0} /\ PageBytes \in Nat \ {0}
        /\ RegionPages \in Nat \ {0} /\ QueueSize \in Nat \ {0} /\ MaxLost \in Nat
        /\ PageBytes % PacketBytes = 0
    BY EslTransferAssumption
  <1>2. PageBytes = PacketBytes * PagePackets + 0 /\ PagePackets \in Nat
    BY <1>1, DivMod DEF PagePackets
  <1>3. PagePackets # 0 /\ PageBytes = PagePackets * PacketBytes
    BY <1>1, <1>2
  <1> QED BY <1>1, <1>2, <1>3 DEF Units

LEMMA PictureSizes ==
    ASSUME NEW p \in Pictures
    PROVE  /\ Length[p] \in Nat /\ Batch[p] \in 1 .. BufPackets
           /\ Packets(p) \in Nat /\ Pages(p) \in 0 .. RegionPages
  <1>1. /\ Length[p] \in Nat /\ Batch[p] \in Nat \ {0}
        /\ Batch[p] <= BufPackets /\ Length[p] <= RegionPages * PageBytes
    BY EslTransferAssumption, CentralAssumption
  <1>2. /\ PacketBytes \in Nat \ {0} /\ BufPackets \in Nat \ {0} /\ PageBytes \in Nat \ {0}
        /\ RegionPages \in Nat \ {0}
    BY Sizes
  <1>3. Length[p] + PacketBytes - 1 \in Nat /\ PageBytes - 1 + Length[p] \in Nat
    BY <1>1, <1>2
  <1>4. Packets(p) \in Nat /\ Pages(p) \in Nat
    BY <1>2, <1>3, DivMod DEF Packets, Pages
  <1>5. PageBytes - 1 + Length[p] < PageBytes * (RegionPages + 1)
    BY <1>1, <1>2
  <1>6. Pages(p) < RegionPages + 1
    <2> DEFINE m == RegionPages + 1
    <2>1. m \in Nat /\ PageBytes - 1 + Length[p] < PageBytes * m
      BY <1>2, <1>5
    <2> HIDE DEF m
    <2>2. Pages(p) < m
      BY <1>2, <1>3, <2>1, DivBelow DEF Pages
    <2> QED BY <2>2 DEF m
  <1> QED BY <1>1, <1>2, <1>4, <1>6

\* The pages that are erased for a picture have room for its packets.
LEMMA PicturesFit ==
    ASSUME NEW p \in Pictures
    PROVE  Packets(p) <= Pages(p) * PagePackets /\ Packets(p) <= RegionPages * PagePackets
  <1> DEFINE n == Length[p]
             g == Pages(p)
             a == g * PagePackets
  <1>1. n \in Nat /\ g \in 0 .. RegionPages /\ Packets(p) \in Nat
    BY PictureSizes
  <1>2. /\ PacketBytes \in Nat \ {0} /\ PageBytes \in Nat \ {0} /\ RegionPages \in Nat \ {0}
        /\ PagePackets \in Nat \ {0} /\ PageBytes = PagePackets * PacketBytes
    BY Sizes
  <1>3. PageBytes - 1 + n = PageBytes * g + ((PageBytes - 1 + n) % PageBytes)
        /\ (PageBytes - 1 + n) % PageBytes \in 0 .. PageBytes - 1
    <2>1. PageBytes - 1 + n \in Nat
      BY <1>1, <1>2
    <2> HIDE DEF n
    <2> QED BY <1>2, <2>1, DivMod DEF Pages, n
  <1>4. n <= PageBytes * g
    <2> DEFINE r == (PageBytes - 1 + n) % PageBytes
    <2>1. r \in 0 .. PageBytes - 1 /\ PageBytes - 1 + n = PageBytes * g + r
      BY <1>3
    <2> HIDE DEF r, n, g
    <2>2. PageBytes * g \in Nat
      BY <1>1, <1>2
    <2> QED BY <1>1, <1>2, <2>1, <2>2
  <1>5. a \in Nat /\ PageBytes * g = PacketBytes * a
    <2> HIDE DEF g
    <2> QED BY <1>1, <1>2
  <1>6. (n + PacketBytes) - 1 \in Nat /\ (n + PacketBytes) - 1 < PacketBytes * (a + 1)
    <2>1. PacketBytes * (a + 1) = PacketBytes * a + PacketBytes
      <3> HIDE DEF a
      <3> QED BY <1>2, <1>5
    <2>2. PacketBytes * a \in Nat
      <3> HIDE DEF a
      <3> QED BY <1>2, <1>5
    <2> HIDE DEF n, a, g
    <2> QED BY <1>1, <1>2, <1>4, <1>5, <2>1, <2>2
  <1>7. Packets(p) < a + 1
    <2> DEFINE m == a + 1
    <2>1. m \in Nat /\ (n + PacketBytes) - 1 < PacketBytes * m
      BY <1>5, <1>6
    <2> HIDE DEF a, m
    <2>2. Packets(p) < m
      <3>1. PacketBytes \in Nat \ {0} /\ (n + PacketBytes) - 1 \in Nat
        BY <1>2, <1>6
      <3> QED BY <1>1, <2>1, <3>1, DivBelow DEF Packets
    <2> QED BY <2>2 DEF m
  <1>8. a <= RegionPages * PagePackets
    <2> HIDE DEF g
    <2> QED BY <1>1, <1>2
  <1>9. RegionPages * PagePackets \in Nat
    BY <1>2
  <1> HIDE DEF a
  <1>10. Packets(p) <= a
    BY <1>1, <1>5, <1>7
  <1> QED BY <1>1, <1>5, <1>8, <1>9, <1>10 DEF a

\* The index that ends a picture is that of its last packet.
LEMMA LastIndex ==
    ASSUME NEW p \in Pictures, NEW i \in 0 .. Packets(p) - 1, i = Length[p] \div PacketBytes
    PROVE  i = Packets(p) - 1
  <1> DEFINE n == Length[p]
             q == n \div PacketBytes
  <1>1. n \in Nat /\ PacketBytes \in Nat \ {0} /\ Packets(p) \in Nat
    BY Sizes, PictureSizes
  <1>2. n = PacketBytes * q + (n % PacketBytes) /\ n % PacketBytes \in 0 .. PacketBytes - 1
        /\ q \in Nat
    BY <1>1, DivMod
  <1>3. (n + PacketBytes) - 1 < PacketBytes * (q + 2)
    <2>1. PacketBytes * (q + 2) = PacketBytes * q + 2 * PacketBytes
      <3> HIDE DEF q
      <3> QED BY <1>1, <1>2
    <2>2. PacketBytes * q \in Nat
      <3> HIDE DEF q
      <3> QED BY <1>1, <1>2
    <2> DEFINE r == n % PacketBytes
    <2>3. r \in 0 .. PacketBytes - 1 /\ n = PacketBytes * q + r
      BY <1>2
    <2> HIDE DEF r, q, n
    <2> QED BY <1>1, <1>2, <2>1, <2>2, <2>3
  <1>4. (n + PacketBytes) - 1 \in Nat
    BY <1>1
  <1>5. Packets(p) < q + 2
    <2> DEFINE m == q + 2
    <2>1. m \in Nat /\ (n + PacketBytes) - 1 < PacketBytes * m
      BY <1>2, <1>3
    <2> HIDE DEF q, m
    <2>2. Packets(p) < m
      BY <1>1, <1>4, <2>1, DivBelow DEF Packets
    <2> QED BY <2>2 DEF m
  <1> QED BY <1>1, <1>2, <1>5

LEMMA PacketData ==
    ASSUME NEW p \in Pictures, NEW i \in 0 .. Packets(p) - 1
    PROVE  <<p, i>> \in AllData
  BY DEF AllData, Data
-----------------------------------------------------------------------------
(* The queue of flash operations.                                          *)

LEMMA EmptyQueue == QueueOK(<<>>)
  BY Sizes DEF QueueOK

LEMMA QueueTail ==
    ASSUME NEW q, QueueOK(q), q # <<>>
    PROVE  QueueOK(Tail(q)) /\ Head(q) \in Op /\ Head(q) = q[1] /\ Len(Tail(q)) = Len(q) - 1
  BY Sizes DEF QueueOK

LEMMA QueueAppend ==
    ASSUME NEW q, QueueOK(q), Len(q) < QueueSize, NEW e \in Op,
           e.kind = "store" => e.left <= BufPackets
    PROVE  QueueOK(Append(q, e))
  BY Sizes DEF QueueOK

LEMMA EraseQueued ==
    ASSUME QueueOK(fq), NEW a \in Nat, NEW n \in Nat, esl_flash_erase(a, n)
    PROVE  QueueOK(fq')
  <1> DEFINE e == [kind |-> "erase", at |-> a, left |-> n]
  <1>1. CASE UNCHANGED fq
    BY <1>1
  <1>2. CASE Len(fq) < QueueSize /\ fq' = Append(fq, e)
    <2>1. e \in Op /\ (e.kind = "store" => e.left <= BufPackets)
      BY DEF Op
    <2> QED BY <1>2, <2>1, QueueAppend
  <1> QED BY <1>1, <1>2 DEF esl_flash_erase, Room

LEMMA StoreQueued ==
    ASSUME QueueOK(fq), NEW a \in Nat, NEW n \in 0 .. BufPackets, esl_flash_store(a, n)
    PROVE  QueueOK(fq')
  <1> DEFINE e == [kind |-> "store", at |-> a \div PacketBytes, left |-> n]
  <1>1. CASE UNCHANGED fq
    BY <1>1
  <1>2. CASE Len(fq) < QueueSize /\ fq' = Append(fq, e)
    <2>1. a \div PacketBytes \in Nat /\ n \in Nat /\ n <= BufPackets
      <3>1. PacketBytes \in Nat \ {0} /\ BufPackets \in Nat
        BY Sizes
      <3>2. a \div PacketBytes \in Nat
        BY <3>1, DivMod
      <3> QED BY <3>1, <3>2
    <2>2. e \in Op /\ (e.kind = "store" => e.left <= BufPackets)
      BY <2>1 DEF Op
    <2> QED BY <1>2, <2>2, QueueAppend
  <1> QED BY <1>1, <1>2 DEF esl_flash_store, Room

LEMMA WriteKinds ==
    ASSUME NEW w \in Writes
    PROVE  /\ w.t \in {"cccd", "start", "packet", "commit", "retry", "end"}
           /\ w.t = "cccd" => w.on \in BOOLEAN
           /\ w.t = "start" => w.length \in Nat /\ w.crc16 \in Pictures /\ w.verify_number \in Nat
           /\ w.t = "packet" => w.index \in Nat /\ w.data \in AllData
  BY DEF Writes

-----------------------------------------------------------------------------
(* The invariant of the link: the first state, the flash and a reset.      *)

LEMMA HomeOK ==
    /\ Home \in [pc : {"off", "starting", "sending", "ending", "done"},
                 pic : Pictures, base : Nat, next : Nat]
    /\ FreshInfo \in [length : Nat, crc16 : Pictures, verify_number : Nat]
    /\ FreshBuffer \in [0 .. BufPackets - 1 -> AllData \cup {Blank}]
  <1>1. (CHOOSE p \in Pictures : TRUE) \in Pictures
    BY EslTransferAssumption
  <1> QED BY <1>1 DEF Home, FreshInfo, FreshBuffer

LEMMA InitLink == Init => LinkInv
  <1>1. SUFFICES ASSUME Init PROVE LinkInv
    OBVIOUS
  <1>2. TypeOK
    BY <1>1, HomeOK, Sizes, EmptyQueue DEF Init, TypeOK, QueueOK, Op
  <1>3. Talk
    BY <1>1 DEF Init, Talk, Silent
  <1>4. toDev \in Seq(Writes) /\ NoOverrun
    BY <1>1, Sizes DEF Init, NoOverrun
  <1>5. QueueOK(fq)
    BY <1>1, EmptyQueue DEF Init
  <1> QED BY <1>2, <1>3, <1>4, <1>5 DEF LinkInv

\* What runs on the link does not change with the flash.
LEMMA SameTalk ==
    ASSUME Talk, UNCHANGED <<devVars, link, toDev, toCen, cen>>
    PROVE  Talk'
  BY DEF Talk, Silent, Starting, Sending, Streaming, AfterCommit, AfterRetry, Ending, Done,
         Stored, BatchAt, Buffered, PacketsFrom, Announced, BatchSent, devVars

LEMMA FlashWorkLink ==
    ASSUME LinkInv, FlashWork
    PROVE  LinkInv'
  <1> DEFINE op == Head(fq)
  <1>1. /\ TypeOK /\ QueueOK(fq) /\ toDev \in Seq(Writes) /\ NoOverrun /\ Talk
        /\ fq # <<>> /\ op = fq[1] /\ op \in Op /\ op.left > 0
        /\ UNCHANGED <<devVars, failure, notify, link, toDev, toCen, cen, shown, history>>
    BY QueueTail DEF LinkInv, FlashWork
  <1>2. Talk'
    BY <1>1, SameTalk
  <1>3. QueueOK(fq') /\ flash' \in [Units -> AllData \cup {Erased, Garbage, Blank}]
    <2>1. CASE op.kind = "erase"
      <3>1. /\ flash' = [u \in Units |-> IF u \div PagePackets = op.at THEN Erased ELSE flash[u]]
            /\ fq' = [fq EXCEPT ![1].at = @ + 1, ![1].left = @ - 1]
        BY <2>1 DEF FlashWork
      <3>2. fq \in Seq(Op) /\ Len(fq) > 0 /\ op.at + 1 \in Nat /\ op.left - 1 \in Nat
        BY <1>1 DEF QueueOK, Op
      <3>3. fq' = [fq EXCEPT ![1] = [op EXCEPT !.at = @ + 1, !.left = @ - 1]]
        BY <3>1, <3>2, <1>1, Zenon
      <3>4. [op EXCEPT !.at = @ + 1, !.left = @ - 1] \in Op
            /\ [op EXCEPT !.at = @ + 1, !.left = @ - 1].kind = "erase"
        BY <1>1, <2>1, <3>2 DEF Op
      <3>5. QueueOK(fq')
        <4> DEFINE e == [op EXCEPT !.at = @ + 1, !.left = @ - 1]
        <4>1. e \in Op /\ e.kind = "erase" /\ fq' = [fq EXCEPT ![1] = e]
          BY <3>3, <3>4
        <4> HIDE DEF e, op
        <4> QED BY <1>1, <3>2, <4>1 DEF QueueOK
      <3>6. flash' \in [Units -> AllData \cup {Erased, Garbage, Blank}]
        BY <1>1, <3>1 DEF TypeOK
      <3> QED BY <3>5, <3>6
    <2>2. CASE op.kind = "store"
      <3>1. /\ flash' = [u \in Units |-> IF u - op.at \in 0 .. op.left - 1
                                         THEN Written(flash[u], aligned_data[u - op.at])
                                         ELSE flash[u]]
            /\ fq' = [fq EXCEPT ![1].left = 0]
        BY <2>2 DEF FlashWork
      <3>2. fq \in Seq(Op) /\ Len(fq) > 0 /\ op.left <= BufPackets
        BY <1>1, <2>2 DEF QueueOK, Op
      <3>3. fq' = [fq EXCEPT ![1] = [op EXCEPT !.left = 0]]
        BY <3>1, <3>2, <1>1, Zenon
      <3>4. [op EXCEPT !.left = 0] \in Op /\ [op EXCEPT !.left = 0].left = 0
        BY <1>1 DEF Op
      <3>5. QueueOK(fq')
        <4> DEFINE e == [op EXCEPT !.left = 0]
        <4>1. e \in Op /\ e.left = 0 /\ fq' = [fq EXCEPT ![1] = e]
          BY <3>3, <3>4
        <4> HIDE DEF e, op
        <4> QED BY <1>1, <3>2, <4>1, Sizes DEF QueueOK
      <3>6. \A u \in Units : u - op.at \in 0 .. op.left - 1 =>
                               aligned_data[u - op.at] \in AllData \cup {Blank}
        <4>1. op.at \in Nat /\ op.left \in Nat /\ BufPackets \in Nat /\ op.left <= BufPackets
          BY <1>1, <3>2, Sizes DEF Op
        <4>2. Units \subseteq Nat
          BY Sizes
        <4>3. aligned_data \in [0 .. BufPackets - 1 -> AllData \cup {Blank}]
          BY <1>1 DEF TypeOK
        <4> HIDE DEF op
        <4> QED BY <4>1, <4>2, <4>3
      <3>7. flash' \in [Units -> AllData \cup {Erased, Garbage, Blank}]
        BY <1>1, <3>1, <3>6 DEF TypeOK, Written
      <3> QED BY <3>5, <3>7
    <2> QED BY <1>1, <2>1, <2>2 DEF Op
  <1>4. TypeOK'
    BY <1>1, <1>3 DEF TypeOK, QueueOK, Op, devVars, history
  <1> QED BY <1>1, <1>2, <1>3, <1>4 DEF LinkInv, NoOverrun, devVars

LEMMA FlashAnswerLink ==
    ASSUME LinkInv, FlashSuccess \/ FlashTimeout
    PROVE  LinkInv'
  <1>1. /\ TypeOK /\ QueueOK(fq) /\ toDev \in Seq(Writes) /\ NoOverrun /\ Talk
        /\ fq # <<>> /\ fq' = Tail(fq) /\ failure' \in BOOLEAN
        /\ UNCHANGED <<devVars, flash, notify, link, toDev, toCen, cen, shown>>
    BY DEF LinkInv, FlashSuccess, FlashTimeout, history
  <1>2. Talk'
    BY <1>1, SameTalk
  <1>3. QueueOK(fq')
    BY <1>1, QueueTail
  <1>4. TypeOK'
    BY <1>1, <1>3 DEF TypeOK, QueueOK, Op, devVars
  <1> QED BY <1>1, <1>2, <1>3, <1>4 DEF LinkInv, NoOverrun, devVars

LEMMA ResetLink ==
    ASSUME LinkInv, Reset
    PROVE  LinkInv'
  <1>1. TypeOK'
    BY HomeOK, Sizes, EmptyQueue DEF LinkInv, Reset, TypeOK, QueueOK, Op
  <1>2. Talk'
    BY DEF Reset, Talk, Silent
  <1>3. toDev' \in Seq(Writes) /\ NoOverrun'
    BY Sizes DEF Reset, NoOverrun
  <1>4. QueueOK(fq')
    BY EmptyQueue DEF Reset
  <1> QED BY <1>1, <1>2, <1>3, <1>4 DEF LinkInv
-----------------------------------------------------------------------------
(* The invariant of the link: the central's steps.                         *)

CenType == [pc : {"off", "starting", "sending", "ending", "done"},
            pic : Pictures, base : Nat, next : Nat]

LEMMA WritesSent ==
    /\ Cccd \in Writes /\ Cp("commit") \in Writes /\ Cp("retry") \in Writes /\ Cp("end") \in Writes
    /\ \A p \in Pictures : StartOf(p) \in Writes
    /\ \A p \in Pictures : \A i \in 0 .. Packets(p) - 1 : PacketOf(p, i) \in Writes
  <1>1. /\ Cccd \in Writes /\ Cp("commit") \in Writes /\ Cp("retry") \in Writes
        /\ Cp("end") \in Writes
    BY DEF Writes, Cccd, Cp
  <1>2. ASSUME NEW p \in Pictures PROVE StartOf(p) \in Writes
    <2>1. Length[p] \in Nat /\ Batch[p] \in Nat
      BY EslTransferAssumption
    <2> QED BY <2>1 DEF Writes, StartOf
  <1>3. ASSUME NEW p \in Pictures, NEW i \in 0 .. Packets(p) - 1 PROVE PacketOf(p, i) \in Writes
    <2>1. <<p, i>> \in AllData /\ i \in Nat
      BY <1>3, PacketData
    <2> QED BY <2>1 DEF Writes, PacketOf
  <1> QED BY <1>1, <1>2, <1>3

LEMMA CentralStep ==
    ASSUME LinkInv, UNCHANGED <<devVars, flashVars, notify, shown>>, link' \in BOOLEAN,
           cen' \in CenType, toDev' \in Seq(Writes), Talk'
    PROVE  LinkInv'
  BY DEF LinkInv, TypeOK, NoOverrun, QueueOK, CenType, devVars, flashVars

LEMMA LinkParts ==
    ASSUME LinkInv
    PROVE  /\ cen \in CenType /\ cen.pic \in Pictures /\ cen.base \in Nat /\ cen.next \in Nat
           /\ Packets(cen.pic) \in Nat /\ Batch[cen.pic] \in 1 .. BufPackets
           /\ toDev \in Seq(Writes) /\ link \in BOOLEAN /\ Talk
           /\ sequency \in Nat /\ fs_store_point \in Nat /\ sequency <= BufPackets
           /\ PacketBytes \in Nat \ {0} /\ BufPackets \in Nat \ {0}
           /\ aligned_data \in [0 .. BufPackets - 1 -> AllData \cup {Blank}]
  <1>1. cen \in CenType
    BY DEF LinkInv, TypeOK, CenType
  <1>2. cen.pic \in Pictures /\ cen.base \in Nat /\ cen.next \in Nat
    BY <1>1 DEF CenType
  <1> QED BY <1>1, <1>2, PictureSizes, Sizes DEF LinkInv, TypeOK, NoOverrun

LEMMA ConnectLink ==
    ASSUME LinkInv, NEW p \in Pictures, Connect(p)
    PROVE  LinkInv'
  <1>1. /\ toDev' = <<Cccd, StartOf(p)>> /\ link' = TRUE /\ toCen' = toCen
        /\ cen' = [Home EXCEPT !.pc = "starting", !.pic = p]
        /\ UNCHANGED <<devVars, flashVars, notify, shown>>
    BY DEF Connect, Cccd
  <1>2. toCen = <<>>
    BY DEF Connect, LinkInv, Talk, Silent
  <1>3. cen' \in CenType /\ cen'.pc = "starting" /\ cen'.pic = p /\ cen'.base = 0 /\ cen'.next = 0
    BY <1>1, HomeOK DEF CenType, Home
  <1>4. Starting'
    BY <1>1, <1>2, <1>3 DEF Starting, Cccd, StartOf
  <1>5. toDev' \in Seq(Writes)
    BY <1>1, WritesSent
  <1> QED BY <1>1, <1>3, <1>4, <1>5, CentralStep DEF Talk

LEMMA NextPictureLink ==
    ASSUME LinkInv, NEW p \in Pictures, NextPicture(p)
    PROVE  LinkInv'
  <1>1. /\ toDev' = Append(toDev, StartOf(p)) /\ link /\ link' = link /\ toCen' = toCen
        /\ cen' = [Home EXCEPT !.pc = "starting", !.pic = p] /\ cen.pc = "done"
        /\ UNCHANGED <<devVars, flashVars, notify, shown>>
    BY DEF NextPicture
  <1>2. toCen = <<>> /\ toDev = <<>>
    BY <1>1 DEF LinkInv, Talk, Silent, Starting, Sending, Ending, Done
  <1>3. cen' \in CenType /\ cen'.pc = "starting" /\ cen'.pic = p /\ cen'.base = 0 /\ cen'.next = 0
    BY <1>1, HomeOK DEF CenType, Home
  <1>4. toDev' = <<StartOf(p)>>
    BY <1>1, <1>2
  <1>5. Starting'
    BY <1>1, <1>2, <1>3, <1>4 DEF Starting, StartOf
  <1>6. toDev' \in Seq(Writes)
    BY <1>4, WritesSent
  <1> QED BY <1>1, <1>3, <1>5, <1>6, CentralStep DEF Talk

LEMMA DisconnectLink ==
    ASSUME LinkInv, Disconnect
    PROVE  LinkInv'
  <1>1. /\ toDev' = <<>> /\ toCen' = <<>> /\ link' = FALSE /\ cen' = Home
        /\ UNCHANGED <<devVars, flashVars, notify, shown>>
    BY DEF Disconnect
  <1>2. Talk'
    BY <1>1 DEF Talk, Silent, Home
  <1>3. cen' \in CenType /\ link' \in BOOLEAN /\ toDev' \in Seq(Writes)
    <2>1. Home \in CenType
      BY HomeOK DEF CenType
    <2>2. <<>> \in Seq(Writes)
      OBVIOUS
    <2> QED BY <1>1, <2>1, <2>2
  <1> QED BY <1>1, <1>2, <1>3, CentralStep

LEMMA SendPacketLink ==
    ASSUME LinkInv, SendPacket
    PROVE  LinkInv'
  <1> DEFINE n == cen.next
             L == Len(toDev)
  <1>1. /\ cen.pc = "sending" /\ ~BatchSent
        /\ toDev' = Append(toDev, PacketOf(cen.pic, n)) /\ cen' = [cen EXCEPT !.next = @ + 1]
        /\ UNCHANGED <<devVars, flashVars, notify, link, toCen, shown>>
    BY DEF SendPacket, PacketOf
  <1>2. link /\ Sending
    BY <1>1 DEF LinkInv, Talk, Silent, Home, Starting, Sending, Ending, Done
  <1>3. /\ cen \in CenType /\ cen.pic \in Pictures /\ cen.base \in Nat /\ n \in Nat
        /\ Packets(cen.pic) \in Nat /\ Batch[cen.pic] \in Nat
        /\ toDev \in Seq(Writes) /\ L \in Nat
    <2>1. BufPackets \in Nat
      BY Sizes
    <2> QED BY <2>1, LinkParts
  <1>4. /\ cen' \in CenType /\ cen'.pc = "sending" /\ cen'.pic = cen.pic
        /\ cen'.base = cen.base /\ cen'.next = n + 1
    BY <1>1, <1>3 DEF CenType
  <1>5. cen.base <= n + 1 /\ n + 1 <= Packets(cen.pic) /\ (n + 1) - cen.base <= Batch[cen.pic]
    <2>1. n # Packets(cen.pic) /\ n - cen.base # Batch[cen.pic]
      BY <1>1 DEF BatchSent
    <2>2. cen.base <= n /\ n <= Packets(cen.pic) /\ n - cen.base <= Batch[cen.pic]
      BY <1>2 DEF Sending
    <2> HIDE DEF n
    <2> QED BY <1>3, <2>1, <2>2
  <1>6. n \in 0 .. Packets(cen.pic) - 1
    BY <1>3, <1>5
  <1>7. toDev' \in Seq(Writes) /\ Len(toDev') = L + 1 /\ toDev'[L + 1] = PacketOf(cen.pic, n)
        /\ toDev' # <<>> /\ \A i \in 1 .. L : toDev'[i] = toDev[i]
    <2>1. PacketOf(cen.pic, n) \in Writes
      BY <1>3, <1>6, WritesSent
    <2> QED BY <1>1, <1>3, <2>1
  <1>8. ASSUME NEW k \in {0, 1}, PacketsFrom(k), k <= L
        PROVE  PacketsFrom(k)'
    <2>1. ASSUME NEW i \in k + 1 .. L + 1
          PROVE  toDev'[i] = PacketOf(cen.pic, (n + 1) - (L + 1) + i - 1)
      <3>1. CASE i = L + 1
        <4>1. (n + 1) - (L + 1) + i - 1 = n
          BY <1>3, <3>1
        <4> QED BY <1>7, <3>1, <4>1
      <3>2. CASE i # L + 1
        <4>1. i \in k + 1 .. L /\ i \in 1 .. L /\ (n + 1) - (L + 1) + i - 1 = n - L + i - 1
          <5>1. n \in Nat /\ L \in Nat /\ k \in Nat
            BY <1>3
          <5> HIDE DEF n, L
          <5> QED BY <2>1, <3>2, <5>1
        <4>2. toDev[i] = PacketOf(cen.pic, n - L + i - 1)
          BY <1>8, <4>1 DEF PacketsFrom
        <4> QED BY <1>7, <4>1, <4>2
      <3> QED BY <3>1, <3>2
    <2> QED BY <1>4, <1>7, <2>1 DEF PacketsFrom
  <1>9. /\ Announced(cen.pic) => Announced(cen.pic)'
        /\ \A a, b : BatchAt(a, b) => BatchAt(a, b)'
    BY <1>1, <1>4 DEF Announced, BatchAt, Buffered, devVars
  <1>10. Streaming' \/ AfterCommit' \/ AfterRetry'
    <2>1. CASE Streaming
      <3>1. /\ PacketsFrom(0) /\ n - L >= cen.base /\ toCen = <<>>
            /\ \/ m_flags = "START" /\ cen.base = 0 /\ n - L = 0
               \/ BatchAt(cen.base, n - L - cen.base)
        BY <1>1, <2>1 DEF Streaming
      <3>2. (n + 1) - (L + 1) = n - L
        BY <1>3
      <3>3. PacketsFrom(0)'
        BY <1>3, <1>8, <3>1
      <3>4. m_flags' = m_flags /\ toCen' = toCen
        BY <1>1 DEF devVars
      <3>6. Streaming'
        <4>1. (cen.next - Len(toDev))' = n - L
          BY <1>4, <1>7, <3>2
        <4>2. BatchAt(cen.base, n - L - cen.base)
              => BatchAt(cen.base, cen.next - Len(toDev) - cen.base)'
          BY <1>1, <1>4, <4>1 DEF BatchAt, Buffered, devVars
        <4> QED BY <3>1, <3>3, <3>4, <4>1, <4>2, <1>4 DEF Streaming
      <3> QED BY <3>6
    <2>2. CASE AfterCommit
      <3>1. PacketsFrom(1)'
        <4>1. PacketsFrom(1) /\ 1 <= L
          BY <1>3, <2>2 DEF AfterCommit
        <4> QED BY <1>8, <4>1
      <3>2. toDev'[1] = Cp("commit") /\ n + 1 = cen.base + (L + 1) - 1
        BY <1>3, <1>7, <2>2 DEF AfterCommit
      <3>3. sequency' = sequency /\ toCen' = toCen
        BY <1>1 DEF devVars
      <3>4. BatchAt(cen.base - sequency, sequency)'
        BY <2>2, <1>9, <1>4, <3>3 DEF AfterCommit, BatchAt, Buffered
      <3> QED BY <1>4, <1>7, <2>2, <3>1, <3>2, <3>3, <3>4 DEF AfterCommit, Cp
    <2>3. CASE AfterRetry
      <3>1. PacketsFrom(1)'
        <4>1. PacketsFrom(1) /\ 1 <= L
          BY <1>3, <2>3 DEF AfterRetry
        <4> QED BY <1>8, <4>1
      <3>2. toDev'[1] = Cp("retry") /\ n + 1 = cen.base + (L + 1) - 1
        BY <1>3, <1>7, <2>3 DEF AfterRetry
      <3> QED BY <1>1, <1>4, <1>7, <2>3, <3>1, <3>2 DEF AfterRetry, Cp, devVars
    <2> QED BY <1>2, <2>1, <2>2, <2>3 DEF Sending
  <1>11. Sending'
    BY <1>2, <1>4, <1>5, <1>9, <1>10 DEF Sending, Announced
  <1>12. link' = link
    BY <1>1
  <1> QED BY <1>1, <1>2, <1>4, <1>7, <1>11, <1>12, CentralStep DEF Talk

LEMMA ReceiveLink ==
    ASSUME LinkInv, Receive
    PROVE  LinkInv'
  <1> DEFINE r == Head(toCen)
             n == cen.next
             b == cen.base
             P == Packets(cen.pic)
  <1>1. /\ toCen # <<>> /\ toCen' = Tail(toCen)
        /\ UNCHANGED <<devVars, flashVars, notify, link, shown>>
    BY DEF Receive
  <1>2. /\ cen \in CenType /\ cen.pic \in Pictures /\ b \in Nat /\ n \in Nat /\ P \in Nat
        /\ Batch[cen.pic] \in Nat /\ toDev \in Seq(Writes) /\ link \in BOOLEAN
    <2>1. BufPackets \in Nat
      BY Sizes
    <2> QED BY <2>1, LinkParts
  <1>3. link /\ (Starting \/ Sending \/ Ending)
    BY <1>1 DEF LinkInv, Talk, Silent, Done
  <1>4. CASE Starting
    <2>1. /\ toDev = <<>> /\ toCen = <<Cp("started")>> /\ m_flags = "START"
          /\ Announced(cen.pic) /\ cen.pc = "starting" /\ b = 0 /\ n = 0
      BY <1>1, <1>4 DEF Starting
    <2>2. r.t = "started" /\ toCen' = <<>>
      BY <1>1, <2>1 DEF Cp
    <2>3. cen' = [cen EXCEPT !.pc = "sending"] /\ toDev' = toDev
      BY <2>1, <2>2 DEF Receive
    <2>4. /\ cen' \in CenType /\ cen'.pc = "sending" /\ cen'.pic = cen.pic
          /\ cen'.base = 0 /\ cen'.next = 0
      BY <1>2, <2>1, <2>3 DEF CenType
    <2>5. PacketsFrom(0)' /\ Len(toDev') = 0
      BY <2>1, <2>3 DEF PacketsFrom
    <2>6. Streaming'
      BY <1>1, <2>1, <2>2, <2>4, <2>5 DEF Streaming, devVars
    <2>7. Announced(cen.pic)'
      BY <1>1, <2>1, <2>4 DEF Announced, devVars
    <2>8. Sending'
      BY <1>2, <2>4, <2>6, <2>7 DEF Sending
    <2> QED BY <1>1, <1>2, <1>3, <2>3, <2>4, <2>8, CentralStep DEF Talk
  <1>5. CASE Sending
    <2>1. /\ toDev = <<>> /\ BatchSent /\ m_flags = "DOING" /\ sequency > 0 /\ toCen = <<toCen[1]>>
          /\ r.t = "verify" /\ r.crc = Part(cen.pic, b, n)
          /\ BatchAt(b, n - Len(toDev) - b)
          /\ Announced(cen.pic) /\ b <= n /\ n <= P /\ cen.pc = "sending"
      <3>1. Streaming
        BY <1>1, <1>5 DEF Sending, AfterCommit, AfterRetry
      <3>2. r = toCen[1]
        BY <1>1
      <3> QED BY <1>1, <1>5, <3>1, <3>2 DEF Sending, Streaming
    <2>2. toCen' = <<>>
      <3>1. PICK x : toCen = <<x>>
        BY <2>1
      <3>2. Tail(<<x>>) = <<>>
        OBVIOUS
      <3> QED BY <1>1, <3>1, <3>2
    <2>3. sequency = n - b /\ BatchAt(b, n - b) /\ sequency \in Nat /\ sequency \in 1 .. n
      <3>1. n - Len(toDev) - b = n - b
        BY <1>2, <2>1
      <3>2. BatchAt(b, n - b) /\ sequency = n - b
        BY <2>1, <3>1 DEF BatchAt
      <3> HIDE DEF n, b
      <3> QED BY <1>2, <2>1, <3>2
    <2>4. CASE n = P
      <3>1. /\ cen' = [cen EXCEPT !.pc = "ending"]
            /\ toDev' = toDev \o <<Cp("commit"), Cp("end")>>
        BY <2>1, <2>4 DEF Receive, Cp
      <3>2. toDev' = <<Cp("commit"), Cp("end")>>
        BY <2>1, <3>1, WritesSent
      <3>3. cen' \in CenType /\ cen'.pc = "ending" /\ cen'.pic = cen.pic
        BY <1>2, <3>1 DEF CenType
      <3>4. P - sequency = b /\ sequency \in 1 .. P
        <4> HIDE DEF n, b, P
        <4> QED BY <1>2, <2>3, <2>4
      <3>5. Announced(cen.pic)'
        BY <1>1, <2>1, <3>3 DEF Announced, devVars
      <3>6. BatchAt(P - sequency, sequency)
        BY <2>3, <3>4
      <3>7. BatchAt(Packets(cen.pic) - sequency, sequency)'
        BY <1>1, <3>6, <3>3 DEF BatchAt, Buffered, devVars
      <3>8. sequency' \in 1 .. Packets(cen'.pic)
        BY <1>1, <3>3, <3>4 DEF devVars
      <3>9. Ending'
        BY <2>2, <3>2, <3>3, <3>5, <3>7, <3>8 DEF Ending, Cp
      <3>10. toDev' \in Seq(Writes)
        BY <3>2, WritesSent
      <3> QED BY <1>1, <1>2, <1>3, <3>3, <3>9, <3>10, CentralStep DEF Talk
    <2>5. CASE n # P
      <3>1. cen' = [cen EXCEPT !.base = n] /\ toDev' = Append(toDev, Cp("commit"))
        BY <2>1, <2>5 DEF Receive, Cp
      <3>2. toDev' = <<Cp("commit")>>
        BY <2>1, <3>1
      <3>3. /\ cen' \in CenType /\ cen'.pc = "sending" /\ cen'.pic = cen.pic
            /\ cen'.base = n /\ cen'.next = n
        BY <1>2, <2>1, <3>1 DEF CenType
      <3>4. n - sequency = b
        <4> HIDE DEF n, b
        <4> QED BY <1>2, <2>3
      <3>5. Announced(cen.pic)'
        BY <1>1, <2>1, <3>3 DEF Announced, devVars
      <3>6. BatchAt(n - sequency, sequency)
        BY <2>3, <3>4
      <3>7. BatchAt(cen.base - sequency, sequency)'
        BY <1>1, <3>6, <3>3 DEF BatchAt, Buffered, devVars
      <3>8. sequency' \in 1 .. cen'.base
        BY <1>1, <3>3, <2>3 DEF devVars
      <3>9. toDev' # <<>> /\ toDev'[1] = Cp("commit") /\ Len(toDev') = 1
        BY <3>2
      <3>10. PacketsFrom(1)' /\ cen'.next = cen'.base + Len(toDev') - 1
        BY <1>2, <3>3, <3>9 DEF PacketsFrom
      <3>11. AfterCommit'
        BY <2>2, <3>9, <3>10, <3>8, <3>7 DEF AfterCommit, Cp
      <3>12. Sending'
        BY <1>2, <2>1, <3>3, <3>5, <3>11 DEF Sending
      <3>13. toDev' \in Seq(Writes)
        BY <3>2, WritesSent
      <3> QED BY <1>1, <1>2, <1>3, <3>3, <3>12, <3>13, CentralStep DEF Talk
    <2> QED BY <2>4, <2>5
  <1>6. CASE Ending
    <2>1. /\ toDev = <<>> /\ toCen = <<Cp("ended")>> /\ cen.pc = "ending"
      BY <1>1, <1>6 DEF Ending
    <2>2. r.t = "ended" /\ toCen' = <<>>
      BY <1>1, <2>1 DEF Cp
    <2>3. cen' = [cen EXCEPT !.pc = "done"] /\ toDev' = toDev
      BY <2>1, <2>2 DEF Receive
    <2>4. cen' \in CenType /\ cen'.pc = "done"
      BY <1>2, <2>3 DEF CenType
    <2>5. Done'
      BY <2>1, <2>2, <2>3, <2>4 DEF Done
    <2> QED BY <1>1, <1>2, <1>3, <2>3, <2>4, <2>5, CentralStep DEF Talk
  <1> QED BY <1>3, <1>4, <1>5, <1>6

LEMMA TimeoutLink ==
    ASSUME LinkInv, Timeout
    PROVE  LinkInv'
  <1> DEFINE n == cen.next
             b == cen.base
  <1>1. /\ link /\ toDev = <<>> /\ toCen = <<>>
        /\ UNCHANGED <<devVars, flashVars, notify, link, toCen, shown>>
    BY DEF Timeout
  <1>2. /\ cen \in CenType /\ cen.pic \in Pictures /\ b \in Nat /\ n \in Nat
        /\ Packets(cen.pic) \in Nat /\ Batch[cen.pic] \in Nat /\ link \in BOOLEAN
    <2>1. BufPackets \in Nat
      BY Sizes
    <2> QED BY <2>1, LinkParts
  <1>3. Starting \/ Sending \/ Ending \/ Done
    BY <1>1 DEF LinkInv, Talk, Silent
  <1>4. CASE cen.pc = "starting" /\ toDev' = <<StartOf(cen.pic)>> /\ UNCHANGED cen
    <2>1. Starting
      BY <1>3, <1>4 DEF Starting, Sending, Ending, Done
    <2>2. Starting'
      BY <1>1, <1>4, <2>1 DEF Starting, StartOf
    <2>3. toDev' \in Seq(Writes)
      BY <1>2, <1>4, WritesSent
    <2> QED BY <1>1, <1>2, <1>4, <2>2, <2>3, CentralStep DEF Talk
  <1>5. CASE /\ cen.pc = "sending" /\ BatchSent
             /\ toDev' = <<Cp("retry")>>
             /\ cen' = [cen EXCEPT !.next = b]
    <2>1. Sending /\ Streaming
      BY <1>1, <1>3, <1>5 DEF Starting, Sending, Ending, Done, AfterCommit, AfterRetry
    <2>2. /\ cen' \in CenType /\ cen'.pc = "sending" /\ cen'.pic = cen.pic
          /\ cen'.base = b /\ cen'.next = b
      BY <1>2, <1>5 DEF CenType
    <2>3. \/ m_flags = "START" /\ b = 0
          \/ m_flags = "DOING" /\ fs_store_point = b * PacketBytes
      BY <2>1 DEF Streaming, BatchAt
    <2>4. toDev' # <<>> /\ toDev'[1] = Cp("retry") /\ Len(toDev') = 1
      BY <1>5
    <2>5. PacketsFrom(1)' /\ cen'.next = cen'.base + Len(toDev') - 1
      BY <1>2, <2>2, <2>4 DEF PacketsFrom
    <2>6. AfterRetry'
      BY <1>1, <2>2, <2>3, <2>4, <2>5 DEF AfterRetry, Cp, devVars
    <2>7. Announced(cen.pic)'
      BY <1>1, <2>1, <2>2 DEF Sending, Announced, devVars
    <2>8. b <= Packets(cen.pic) /\ b - b <= Batch[cen.pic]
      <3>1. b <= n /\ n <= Packets(cen.pic)
        BY <2>1 DEF Sending
      <3> HIDE DEF b, n
      <3> QED BY <1>2, <3>1
    <2>9. Sending'
      BY <1>2, <2>2, <2>6, <2>7, <2>8 DEF Sending
    <2>10. toDev' \in Seq(Writes)
      BY <1>5, WritesSent
    <2> QED BY <1>1, <1>2, <2>2, <2>9, <2>10, CentralStep DEF Talk
  <1>6. CASE cen.pc = "ending" /\ toDev' = <<Cp("end")>> /\ UNCHANGED cen
    <2>1. Ending
      BY <1>3, <1>6 DEF Starting, Sending, Ending, Done
    <2>2. Announced(cen.pic) /\ m_flags = "DONE" /\ Stored
      BY <1>1, <2>1 DEF Ending
    <2>3. Ending'
      BY <1>1, <1>6, <2>2 DEF Ending, Announced, Stored, Cp, devVars
    <2>4. toDev' \in Seq(Writes)
      BY <1>6, WritesSent
    <2> QED BY <1>1, <1>2, <1>6, <2>3, <2>4, CentralStep DEF Talk
  <1> QED BY <1>4, <1>5, <1>6 DEF Timeout, Cp
-----------------------------------------------------------------------------
(* The invariant of the link: the label's handlers.                        *)

\* An answer is sent, or it is lost.
LEMMA RespSent ==
    ASSUME NEW r, toCen = <<>>, esl_cp_resp(r)
    PROVE  toCen' = <<>> \/ toCen' = <<r>>
  <1>1. Append(<<>>, r) = <<r>>
    OBVIOUS
  <1> QED BY <1>1 DEF esl_cp_resp

InfoType == [length : Nat, crc16 : Pictures, verify_number : Nat]

BufferType == [0 .. BufPackets - 1 -> AllData \cup {Blank}]

LEMMA WriteStep ==
    ASSUME LinkInv, toDev # <<>>, toDev' = Tail(toDev),
           UNCHANGED <<failure, flash, link, cen>>, notify' \in BOOLEAN,
           m_flags' \in {"0", "START", "DOING", "DONE"}, sequency' \in 0 .. BufPackets,
           fs_store_point' \in Nat, esl_data_info' \in InfoType, aligned_data' \in BufferType,
           QueueOK(fq'), shown' \in {"nothing", "whole", "other"}, Talk'
    PROVE  LinkInv'
  <1>1. toDev' \in Seq(Writes)
    BY DEF LinkInv
  <1>2. sequency' \in Nat /\ sequency' <= BufPackets
    BY Sizes
  <1>3. TypeOK'
    BY <1>2 DEF LinkInv, TypeOK, QueueOK, Op, InfoType, BufferType
  <1> QED BY <1>1, <1>2, <1>3 DEF LinkInv, NoOverrun

\* While packets are on their way the oldest write is the one of the batch
\* that the label has not seen.
LEMMA StreamHead ==
    ASSUME LinkInv, toDev # <<>>, Streaming
    PROVE  /\ toDev[1] = PacketOf(cen.pic, cen.next - Len(toDev))
           /\ toDev[1].t = "packet"
  <1>1. toDev \in Seq(Writes) /\ cen.next \in Nat
    BY LinkParts
  <1>2. Len(toDev) \in Nat \ {0}
    BY <1>1
  <1>3. 1 \in 0 + 1 .. Len(toDev)
    BY <1>2
  <1>4. toDev[1] = PacketOf(cen.pic, cen.next - Len(toDev) + 1 - 1)
    BY <1>3 DEF Streaming, PacketsFrom
  <1>5. cen.next - Len(toDev) + 1 - 1 = cen.next - Len(toDev)
    BY <1>1, <1>2
  <1>6. toDev[1] = PacketOf(cen.pic, cen.next - Len(toDev))
    BY <1>4, <1>5
  <1> QED BY <1>6 DEF PacketOf

\* What the central is doing follows from the oldest write on its way.
LEMMA WritePhase ==
    ASSUME LinkInv, toDev # <<>>
    PROVE  /\ link
           /\ toDev[1].t = "cccd" => Starting
           /\ toDev[1].t = "start" => Starting /\ toDev[1] = StartOf(cen.pic)
           /\ toDev[1].t = "packet" => Sending /\ Streaming
           /\ toDev[1].t = "commit" => (Sending /\ AfterCommit) \/ Ending
           /\ toDev[1].t = "retry" => Sending /\ AfterRetry
           /\ toDev[1].t = "end" => Ending
  <1>1. link /\ (Starting \/ Sending \/ Ending)
    BY DEF LinkInv, Talk, Silent, Done
  <1>2. Starting =>
             toDev[1].t = "cccd" \/ (toDev[1].t = "start" /\ toDev[1] = StartOf(cen.pic))
    <2>1. StartOf(cen.pic).t = "start" /\ Cccd.t = "cccd"
      BY DEF StartOf, Cccd
    <2>2. Starting => toDev = <<Cccd, StartOf(cen.pic)>> \/ toDev = <<StartOf(cen.pic)>>
      BY DEF Starting
    <2>3. Starting => toDev[1] = Cccd \/ toDev[1] = StartOf(cen.pic)
      BY <2>2
    <2> QED BY <2>1, <2>3
  <1>3. Sending => \/ Streaming /\ toDev[1].t = "packet"
                   \/ AfterCommit /\ toDev[1].t = "commit"
                   \/ AfterRetry /\ toDev[1].t = "retry"
    BY StreamHead DEF Sending, AfterCommit, AfterRetry, Cp
  <1>4. Ending => toDev[1].t \in {"commit", "end"}
    BY DEF Ending, Cp
  <1> QED BY <1>1, <1>2, <1>3, <1>4

LEMMA CccdLink ==
    ASSUME LinkInv, toDev # <<>>, toDev' = Tail(toDev), UNCHANGED <<failure, flash, link, cen>>,
           NEW w \in Writes, w = toDev[1], on_cccd_write(w)
    PROVE  LinkInv'
  <1>1. /\ w.t = "cccd" /\ notify' \in BOOLEAN
        /\ UNCHANGED <<devVars, fq, toCen, shown>>
    BY WriteKinds DEF on_cccd_write
  <1>2. link /\ Starting
    BY <1>1, WritePhase
  <1>3. toDev = <<Cccd, StartOf(cen.pic)>> /\ toCen = <<>>
    BY <1>1, <1>2 DEF Starting, StartOf
  <1>4. toDev' = <<StartOf(cen.pic)>>
    BY <1>3
  <1>5. Starting'
    BY <1>1, <1>2, <1>3, <1>4 DEF Starting, StartOf
  <1>6. /\ m_flags' \in {"0", "START", "DOING", "DONE"} /\ sequency' \in 0 .. BufPackets
        /\ fs_store_point' \in Nat /\ esl_data_info' \in InfoType /\ aligned_data' \in BufferType
        /\ shown' \in {"nothing", "whole", "other"} /\ QueueOK(fq')
    BY <1>1, Sizes DEF LinkInv, TypeOK, NoOverrun, devVars, InfoType, BufferType
  <1>7. Talk'
    BY <1>2, <1>5 DEF Talk
  <1> QED BY <1>1, <1>6, <1>7, WriteStep

LEMMA StartLink ==
    ASSUME LinkInv, toDev # <<>>, toDev' = Tail(toDev), UNCHANGED <<failure, flash, link, cen>>,
           NEW w \in Writes, w = toDev[1], cp_start(w)
    PROVE  LinkInv'
  <1>1. /\ w.t = "start"
        /\ esl_data_info' = [length |-> w.length, crc16 |-> w.crc16,
                             verify_number |-> w.verify_number]
        /\ m_flags' = "START"
        /\ UNCHANGED <<sequency, fs_store_point, aligned_data, notify, shown>>
    BY DEF cp_start
  <1>2. link /\ Starting
    BY <1>1, WritePhase
  <1>3. toDev = <<StartOf(cen.pic)>> /\ toCen = <<>>
    BY <1>1, <1>2 DEF Starting, Cccd
  <1>4. toDev' = <<>>
    BY <1>3
  <1>5. toCen' \in {<<>>, <<Cp("started")>>}
    <2>1. PICK r : r = [t |-> "started"]
      OBVIOUS
    <2>2. esl_cp_resp(r)
      BY <2>1 DEF cp_start
    <2>3. toCen' = <<>> \/ toCen' = <<r>>
      BY <1>3, <2>2, RespSent
    <2> QED BY <2>1, <2>3 DEF Cp
  <1>6. Announced(cen.pic)'
    BY <1>1, <1>3 DEF Announced, StartOf
  <1>7. Starting'
    BY <1>1, <1>2, <1>4, <1>5, <1>6 DEF Starting, Cp
  <1>8. QueueOK(fq')
    <2>1. PICK n : n = (PageBytes - 1 + w.length) \div PageBytes
      OBVIOUS
    <2>2. n \in Nat
      <3>1. PageBytes \in Nat \ {0} /\ w.length \in Nat
        BY <1>1, WriteKinds, Sizes
      <3>2. PageBytes - 1 + w.length \in Nat
        BY <3>1
      <3> QED BY <2>1, <3>1, <3>2, DivMod
    <2>3. esl_flash_erase(0, n)
      BY <2>1 DEF cp_start
    <2> QED BY <2>2, <2>3, EraseQueued DEF LinkInv
  <1>9. esl_data_info' \in InfoType
    BY <1>1, WriteKinds DEF InfoType
  <1>10. /\ m_flags' \in {"0", "START", "DOING", "DONE"} /\ sequency' \in 0 .. BufPackets
         /\ fs_store_point' \in Nat /\ aligned_data' \in BufferType
         /\ shown' \in {"nothing", "whole", "other"} /\ notify' \in BOOLEAN
    BY <1>1, Sizes DEF LinkInv, TypeOK, NoOverrun, BufferType
  <1>11. Talk'
    BY <1>2, <1>7 DEF Talk
  <1> QED BY <1>8, <1>9, <1>10, <1>11, WriteStep

LEMMA EndLink ==
    ASSUME LinkInv, toDev # <<>>, toDev' = Tail(toDev), UNCHANGED <<failure, flash, link, cen>>,
           NEW w \in Writes, w = toDev[1], cp_end(w)
    PROVE  LinkInv'
  <1>1. /\ w.t = "end" /\ m_flags' = "DONE" /\ shown' \in {"nothing", "whole", "other"}
        /\ UNCHANGED <<sequency, fs_store_point, esl_data_info, aligned_data, fq, notify>>
    BY DEF cp_end
  <1>2. link /\ Ending
    BY <1>1, WritePhase
  <1>3. toDev = <<Cp("end")>> /\ toCen = <<>> /\ Stored /\ Announced(cen.pic)
    BY <1>1, <1>2 DEF Ending, Cp
  <1>4. toDev' = <<>>
    BY <1>3
  <1>5. toCen' \in {<<>>, <<Cp("ended")>>}
    <2>1. PICK r : r = [t |-> "ended"]
      OBVIOUS
    <2>2. esl_cp_resp(r)
      BY <2>1 DEF cp_end
    <2>3. toCen' = <<>> \/ toCen' = <<r>>
      BY <1>3, <2>2, RespSent
    <2> QED BY <2>1, <2>3 DEF Cp
  <1>6. Announced(cen.pic)' /\ Stored'
    BY <1>1, <1>3 DEF Announced, Stored
  <1>7. Ending'
    BY <1>1, <1>2, <1>4, <1>5, <1>6 DEF Ending, Cp
  <1>8. /\ sequency' \in 0 .. BufPackets /\ fs_store_point' \in Nat /\ aligned_data' \in BufferType
        /\ esl_data_info' \in InfoType /\ notify' \in BOOLEAN /\ QueueOK(fq')
    BY <1>1, Sizes DEF LinkInv, TypeOK, NoOverrun, BufferType, InfoType
  <1>9. Talk'
    BY <1>2, <1>7 DEF Talk
  <1> QED BY <1>1, <1>8, <1>9, WriteStep

\* What the writes behind the first are when it has been handled.
LEMMA RestOfStream ==
    ASSUME LinkInv, toDev # <<>>, toDev' = Tail(toDev), UNCHANGED cen,
           PacketsFrom(1) \/ PacketsFrom(0)
    PROVE  PacketsFrom(0)' /\ Len(toDev') = Len(toDev) - 1
  <1> DEFINE n == cen.next
             L == Len(toDev)
  <1>1. toDev \in Seq(Writes) /\ n \in Nat /\ L \in Nat \ {0}
    BY LinkParts
  <1>2. Len(toDev') = L - 1 /\ \A i \in 1 .. L - 1 : toDev'[i] = toDev[i + 1]
    BY <1>1
  <1>3. ASSUME NEW i \in 1 .. L - 1
        PROVE  toDev'[i] = PacketOf(cen.pic, n - (L - 1) + i - 1)
    <2>1. i + 1 \in 1 + 1 .. L /\ i + 1 \in 0 + 1 .. L
          /\ n - L + (i + 1) - 1 = n - (L - 1) + i - 1
      <3> HIDE DEF n, L
      <3> QED BY <1>1
    <2>2. toDev[i + 1] = PacketOf(cen.pic, n - L + (i + 1) - 1)
      BY <2>1 DEF PacketsFrom
    <2> QED BY <1>2, <2>1, <2>2
  <1>4. \A i \in 0 + 1 .. L - 1 : toDev'[i] = PacketOf(cen.pic, n - (L - 1) + i - 1)
    BY <1>3
  <1> QED BY <1>2, <1>4 DEF PacketsFrom

LEMMA CommitLink ==
    ASSUME LinkInv, toDev # <<>>, toDev' = Tail(toDev), UNCHANGED <<failure, flash, link, cen>>,
           NEW w \in Writes, w = toDev[1], w.t = "commit", cp_batch(w)
    PROVE  LinkInv'
  <1> DEFINE n == cen.next
             b == cen.base
             P == Packets(cen.pic)
  <1>1. /\ fs_store_point' = fs_store_point + sequency * PacketBytes /\ sequency' = 0
        /\ esl_flash_store(fs_store_point, sequency)
        /\ UNCHANGED <<m_flags, esl_data_info, aligned_data, notify, toCen, shown>>
    BY DEF cp_batch
  <1>2. /\ cen.pic \in Pictures /\ b \in Nat /\ n \in Nat /\ P \in Nat
        /\ sequency \in Nat /\ fs_store_point \in Nat /\ sequency <= BufPackets
        /\ PacketBytes \in Nat \ {0} /\ BufPackets \in Nat \ {0}
    BY LinkParts
  <1>3. /\ m_flags' \in {"0", "START", "DOING", "DONE"} /\ sequency' \in 0 .. BufPackets
        /\ esl_data_info' \in InfoType /\ aligned_data' \in BufferType
        /\ shown' \in {"nothing", "whole", "other"} /\ notify' \in BOOLEAN
    BY <1>1, <1>2 DEF LinkInv, TypeOK, InfoType, BufferType
  <1>4. fs_store_point' \in Nat
    BY <1>1, <1>2
  <1>5. QueueOK(fq')
    <2>1. PICK a \in Nat, k \in 0 .. BufPackets : a = fs_store_point /\ k = sequency
      BY <1>2
    <2>2. esl_flash_store(a, k)
      BY <1>1, <2>1
    <2> QED BY <2>2, StoreQueued DEF LinkInv
  <1>7. link /\ ((Sending /\ AfterCommit) \/ Ending)
    BY WritePhase
  <1>8. ASSUME NEW e \in Nat, sequency \in 1 .. e, fs_store_point = (e - sequency) * PacketBytes
        PROVE  fs_store_point' = e * PacketBytes
    <2>1. PICK f \in Nat, q \in Nat : f = fs_store_point /\ q = sequency
      BY <1>2
    <2>2. q \in 1 .. e /\ f = (e - q) * PacketBytes
      BY <1>8, <2>1
    <2>3. f + q * PacketBytes = e * PacketBytes
      BY <1>2, <2>2
    <2> QED BY <1>1, <2>1, <2>3
  <1>9. CASE Sending /\ AfterCommit
    <2>1. /\ PacketsFrom(1) /\ n = b + Len(toDev) - 1 /\ sequency \in 1 .. b /\ toCen = <<>>
          /\ m_flags = "DOING" /\ fs_store_point = (b - sequency) * PacketBytes
      BY <1>9 DEF AfterCommit, BatchAt
    <2>2. PacketsFrom(0)' /\ Len(toDev') = Len(toDev) - 1
      BY <2>1, RestOfStream
    <2>3. n - Len(toDev') = b
      <3>1. Len(toDev) \in Nat
        BY DEF LinkInv
      <3> HIDE DEF n, b
      <3> QED BY <1>2, <2>1, <2>2, <3>1
    <2>4. (cen.next - Len(toDev))' = b /\ b - b = 0 /\ b >= b
      BY <1>2, <2>3
    <2>5. BatchAt(b, 0)'
      <3>1. fs_store_point' = b * PacketBytes
        BY <1>2, <1>8, <2>1
      <3> QED BY <1>1, <2>1, <3>1 DEF BatchAt, Buffered
    <2>6. Streaming'
      BY <1>1, <2>1, <2>2, <2>4, <2>5 DEF Streaming
    <2>7. Sending'
      BY <1>1, <1>9, <2>6 DEF Sending, Announced
    <2>8. Talk'
      BY <1>7, <2>7 DEF Talk
    <2> QED BY <1>3, <1>4, <1>5, <2>8, WriteStep
  <1>10. CASE Ending
    <2>1. /\ toDev = <<Cp("commit"), Cp("end")>> /\ toCen = <<>> /\ sequency \in 1 .. P
          /\ m_flags = "DOING" /\ fs_store_point = (P - sequency) * PacketBytes
          /\ Announced(cen.pic) /\ cen.pc = "ending"
      BY <1>10 DEF Ending, BatchAt, Cp
    <2>2. toDev' = <<Cp("end")>>
      BY <2>1
    <2>3. fs_store_point' = P * PacketBytes
      BY <1>2, <1>8, <2>1
    <2>4. Ending'
      BY <1>1, <2>1, <2>2, <2>3 DEF Ending, Stored, Announced, Cp
    <2>5. Talk'
      BY <1>7, <2>4 DEF Talk
    <2> QED BY <1>3, <1>4, <1>5, <2>5, WriteStep
  <1> QED BY <1>7, <1>9, <1>10

LEMMA RetryLink ==
    ASSUME LinkInv, toDev # <<>>, toDev' = Tail(toDev), UNCHANGED <<failure, flash, link, cen>>,
           NEW w \in Writes, w = toDev[1], w.t = "retry", cp_batch(w)
    PROVE  LinkInv'
  <1> DEFINE n == cen.next
             b == cen.base
  <1>1. /\ UNCHANGED <<fq, fs_store_point>> /\ sequency' = 0
        /\ UNCHANGED <<m_flags, esl_data_info, aligned_data, notify, toCen, shown>>
    BY DEF cp_batch
  <1>2. /\ b \in Nat /\ n \in Nat /\ fs_store_point \in Nat /\ BufPackets \in Nat \ {0}
    BY LinkParts
  <1>3. /\ m_flags' \in {"0", "START", "DOING", "DONE"} /\ sequency' \in 0 .. BufPackets
        /\ esl_data_info' \in InfoType /\ aligned_data' \in BufferType /\ fs_store_point' \in Nat
        /\ shown' \in {"nothing", "whole", "other"} /\ notify' \in BOOLEAN /\ QueueOK(fq')
    BY <1>1, <1>2 DEF LinkInv, TypeOK, InfoType, BufferType
  <1>5. link /\ Sending /\ AfterRetry
    BY WritePhase
  <1>6. /\ PacketsFrom(1) /\ n = b + Len(toDev) - 1 /\ toCen = <<>>
        /\ \/ m_flags = "START" /\ b = 0
           \/ m_flags = "DOING" /\ fs_store_point = b * PacketBytes
    BY <1>5 DEF AfterRetry
  <1>7. PacketsFrom(0)' /\ Len(toDev') = Len(toDev) - 1
    BY <1>6, RestOfStream
  <1>8. n - Len(toDev') = b
    <2>1. Len(toDev) \in Nat
      BY DEF LinkInv
    <2> HIDE DEF n, b
    <2> QED BY <1>2, <1>6, <1>7, <2>1
  <1>9. (cen.next - Len(toDev))' = b /\ b - b = 0 /\ b >= b
    BY <1>2, <1>8
  <1>10. m_flags = "DOING" => BatchAt(b, 0)'
    BY <1>1, <1>6 DEF BatchAt, Buffered
  <1>11. Streaming'
    BY <1>1, <1>6, <1>7, <1>9, <1>10 DEF Streaming
  <1>12. Sending'
    BY <1>1, <1>5, <1>11 DEF Sending, Announced
  <1>13. Talk'
    BY <1>5, <1>12 DEF Talk
  <1> QED BY <1>3, <1>13, WriteStep

LEMMA PacketLink ==
    ASSUME LinkInv, toDev # <<>>, toDev' = Tail(toDev), UNCHANGED <<failure, flash, link, cen>>,
           NEW w \in Writes, w = toDev[1], esl_packet_handle(w)
    PROVE  LinkInv'
  <1>1. w.t = "packet" /\ UNCHANGED <<fq, notify, shown>>
    BY DEF esl_packet_handle
  <1>2. PICK p \in Pictures, b \in Nat, n \in Nat, L \in Nat :
           p = cen.pic /\ b = cen.base /\ n = cen.next /\ L = Len(toDev)
    BY LinkParts
  <1> DEFINE j == n - L
             P == Packets(p)
             B == Batch[p]
  <1>3. /\ P \in Nat /\ sequency \in Nat /\ fs_store_point \in Nat /\ aligned_data \in BufferType
        /\ PacketBytes \in Nat \ {0} /\ BufPackets \in Nat \ {0} /\ B \in 1 .. BufPackets
        /\ L # 0
    BY <1>2, LinkParts DEF BufferType
  <1>4. link /\ Sending /\ Streaming
    BY <1>1, WritePhase
  <1>5. /\ toCen = <<>> /\ j >= b /\ Announced(p) /\ PacketsFrom(0)
        /\ b <= n /\ n <= P /\ n - b <= B
        /\ \/ m_flags = "START" /\ b = 0 /\ j = 0
           \/ BatchAt(b, j - b)
    BY <1>2, <1>4 DEF Sending, Streaming
  <1>6. w.index = j /\ w.data = <<p, j>>
    BY <1>2, <1>4, StreamHead DEF PacketOf
  <1>7. PICK s \in Nat : s = IF m_flags = "START" THEN 0 ELSE sequency
    BY <1>3
  <1>8. m_flags \in {"START", "DOING"} /\ s = j - b /\ j - b \in Int
    <2>1. j - b \in Int
      BY <1>2
    <2>2. CASE m_flags = "START" /\ b = 0 /\ j = 0
      <3> HIDE DEF j
      <3> QED BY <1>7, <2>2
    <2>3. CASE BatchAt(b, j - b)
      <3> HIDE DEF j
      <3> QED BY <1>7, <2>1, <2>3 DEF BatchAt
    <2> QED BY <1>5, <2>2, <2>3
  <1>9. /\ m_flags' = "DOING"
        /\ fs_store_point' = IF m_flags = "START" THEN 0 ELSE fs_store_point
        /\ aligned_data' = [k \in DOMAIN aligned_data |-> IF k = s THEN w.data ELSE aligned_data[k]]
        /\ sequency' = s + 1
        /\ UNCHANGED esl_data_info
    BY <1>7, <1>8 DEF esl_packet_handle
  <1>10. /\ j \in Nat /\ s + 1 <= BufPackets /\ j + 1 <= n /\ j = b + s
         /\ s + 1 = (j + 1) - b /\ s + 1 <= B /\ n - (L - 1) = j + 1
    <2>1. /\ n - L >= b /\ b <= n /\ n - b <= B /\ s = n - L - b
          /\ L # 0 /\ B \in 1 .. BufPackets /\ BufPackets \in Nat
      BY <1>3, <1>5, <1>8
    <2> HIDE DEF B
    <2> QED BY <2>1
  <1>11. PacketsFrom(0)' /\ Len(toDev') = L - 1
    BY <1>2, <1>5, RestOfStream
  <1>12. ASSUME NEW k \in 0 .. s PROVE aligned_data'[k] = <<p, b + k>>
    <2>1. k \in DOMAIN aligned_data
      <3> HIDE DEF j
      <3> QED BY <1>3, <1>10 DEF BufferType
    <2>2. CASE k = s
      BY <1>6, <1>9, <1>10, <2>1, <2>2
    <2>3. CASE k # s
      <3>1. k \in 0 .. s - 1 /\ s > 0
        BY <2>3
      <3>2. aligned_data[k] = <<p, b + k>>
        <4>1. s = sequency /\ BatchAt(b, s)
          BY <1>5, <1>7, <1>8, <3>1
        <4> QED BY <1>2, <3>1, <4>1 DEF BatchAt, Buffered
      <3> QED BY <1>9, <2>1, <2>3, <3>2
    <2> QED BY <2>2, <2>3
  <1>13. BatchAt(b, s + 1)'
    <2>1. fs_store_point' = b * PacketBytes
      BY <1>3, <1>5, <1>9 DEF BatchAt
    <2>2. \A k \in 0 .. (s + 1) - 1 : aligned_data'[k] = <<cen'.pic, b + k>>
      BY <1>2, <1>12
    <2> QED BY <1>9, <2>1, <2>2 DEF BatchAt, Buffered
  <1>14. aligned_data' \in BufferType
    <2>1. w.data \in AllData
      BY <1>1, WriteKinds
    <2> QED BY <1>3, <1>9, <2>1 DEF BufferType
  <1>15. /\ m_flags' \in {"0", "START", "DOING", "DONE"} /\ sequency' \in 0 .. BufPackets
         /\ esl_data_info' \in InfoType /\ fs_store_point' \in Nat
         /\ shown' \in {"nothing", "whole", "other"} /\ notify' \in BOOLEAN /\ QueueOK(fq')
    <2>1. sequency' \in 0 .. BufPackets /\ fs_store_point' \in Nat
      <3> HIDE DEF j
      <3> QED BY <1>3, <1>9, <1>10
    <2> QED BY <1>1, <1>9, <2>1 DEF LinkInv, TypeOK, InfoType
  <1>16. toCen' # <<>> => /\ toDev' = <<>> /\ BatchSent' /\ toCen' = <<toCen'[1]>>
                          /\ toCen'[1].t = "verify"
                          /\ toCen'[1].crc = Part(p, b, n)
    <2>1. SUFFICES ASSUME toCen' # <<>>
                   PROVE  /\ toDev' = <<>> /\ BatchSent' /\ toCen' = <<toCen'[1]>>
                          /\ toCen'[1].t = "verify"
                          /\ toCen'[1].crc = Part(p, b, n)
      OBVIOUS
    <2>2. PICK r : r = [t |-> "verify", index |-> w.index, sequency |-> s + 1,
                        crc |-> [k \in 1 .. s + 1 |-> aligned_data'[k - 1]]]
      OBVIOUS
    <2>3. /\ esl_cp_resp(r)
          /\ s + 1 = esl_data_info.verify_number
             \/ w.index = esl_data_info.length \div PacketBytes
      BY <1>5, <1>7, <1>8, <2>1, <2>2 DEF esl_packet_handle
    <2>4. toCen' = <<r>>
      BY <1>5, <2>1, <2>3, RespSent
    <2>5. s + 1 = B \/ j = Length[p] \div PacketBytes
      BY <1>5, <1>6, <2>3 DEF Announced
    <2>6. n = j + 1 /\ (n - b = B \/ n = P)
      <3>1. CASE s + 1 = B
        <4>1. /\ n - b <= B /\ j = b + s /\ j + 1 <= n /\ B \in Nat /\ j \in Nat
          BY <1>3, <1>5, <1>10
        <4> HIDE DEF j, B
        <4> QED BY <3>1, <4>1
      <3>2. CASE j = Length[p] \div PacketBytes
        <4>1. j \in 0 .. P - 1
          <5>1. n <= P /\ j + 1 <= n /\ j \in Nat /\ P \in Nat
            BY <1>3, <1>5, <1>10
          <5> HIDE DEF j, P
          <5> QED BY <5>1
        <4>2. j = P - 1
          <5> HIDE DEF j
          <5> QED BY <3>2, <4>1, LastIndex
        <4>3. n <= P /\ j + 1 <= n /\ j \in Nat /\ P \in Nat
          BY <1>3, <1>5, <1>10
        <4> HIDE DEF j, P
        <4> QED BY <4>2, <4>3
      <3> QED BY <2>5, <3>1, <3>2
    <2>7. toDev' = <<>>
      <3>1. L - 1 = 0
        <4>1. n = j + 1 /\ n - (L - 1) = j + 1 /\ L \in Nat /\ j \in Nat
          BY <1>10, <2>6
        <4> HIDE DEF j
        <4> QED BY <4>1
      <3> QED BY <1>11, <3>1 DEF LinkInv
    <2>8. BatchSent'
      BY <1>2, <2>6 DEF BatchSent
    <2>9. r.crc = Part(p, b, n)
      <3>1. n - b = s + 1
        <4>1. n = j + 1 /\ s + 1 = (j + 1) - b
          BY <1>10, <2>6
        <4> HIDE DEF j
        <4> QED BY <4>1
      <3>2. ASSUME NEW k \in 1 .. s + 1 PROVE aligned_data'[k - 1] = <<p, b + k - 1>>
        <4>1. k - 1 \in 0 .. s /\ b + (k - 1) = b + k - 1
          OBVIOUS
        <4>2. aligned_data'[k - 1] = <<p, b + (k - 1)>>
          BY <1>12, <4>1
        <4> QED BY <4>1, <4>2
      <3> QED BY <2>2, <3>1, <3>2 DEF Part
    <2> QED BY <2>2, <2>4, <2>7, <2>8, <2>9
  <1>17. Streaming'
    <2>1. (cen.next - Len(toDev))' = j + 1 /\ (j + 1) - b = s + 1 /\ j + 1 >= b
      BY <1>2, <1>10, <1>11
    <2>2. BatchAt(cen.base, cen.next - Len(toDev) - cen.base)'
      BY <1>2, <1>13, <2>1 DEF BatchAt, Buffered
    <2>3. toCen' # <<>> => sequency' > 0 /\ m_flags' = "DOING"
      BY <1>9
    <2> QED BY <1>2, <1>11, <1>16, <2>1, <2>2, <2>3 DEF Streaming
  <1>18. Sending'
    BY <1>2, <1>4, <1>9, <1>17 DEF Sending, Announced
  <1>19. Talk'
    BY <1>4, <1>18 DEF Talk
  <1> QED BY <1>14, <1>15, <1>19, WriteStep

LEMMA WriteLink ==
    ASSUME LinkInv, on_write
    PROVE  LinkInv'
  <1>1. toDev # <<>> /\ toDev' = Tail(toDev) /\ UNCHANGED <<failure, flash, link, cen>>
    BY DEF on_write
  <1>2. PICK w \in Writes : w = toDev[1] /\ w = Head(toDev)
    BY <1>1 DEF LinkInv
  <1>3. on_cccd_write(w) \/ esl_packet_handle(w) \/ cp_start(w) \/ cp_end(w) \/ cp_batch(w)
    BY <1>2 DEF on_write
  <1>4. CASE cp_batch(w)
    <2>1. w.t = "commit" \/ w.t = "retry"
      BY <1>4 DEF cp_batch
    <2> QED BY <1>1, <1>2, <1>4, <2>1, CommitLink, RetryLink
  <1> QED BY <1>1, <1>2, <1>3, <1>4, CccdLink, PacketLink, StartLink, EndLink

LEMMA NextLink == LinkInv /\ [Next]_vars => LinkInv'
  <1> SUFFICES ASSUME LinkInv, [Next]_vars PROVE LinkInv'
    OBVIOUS
  <1>1. CASE UNCHANGED vars
    <2>1. Talk'
      BY <1>1, SameTalk DEF vars, devVars, LinkInv
    <2> QED BY <1>1, <2>1 DEF vars, devVars, flashVars, history, LinkInv, TypeOK, NoOverrun, QueueOK
  <1>2. CASE FlashWork
    BY <1>2, FlashWorkLink
  <1>3. CASE FlashSuccess \/ FlashTimeout
    BY <1>3, FlashAnswerLink
  <1>4. CASE on_write
    BY <1>4, WriteLink
  <1>5. ASSUME NEW p \in Pictures, Connect(p) \/ NextPicture(p)
        PROVE  LinkInv'
    BY <1>5, ConnectLink, NextPictureLink
  <1>6. CASE SendPacket
    BY <1>6, SendPacketLink
  <1>7. CASE Receive
    BY <1>7, ReceiveLink
  <1>8. CASE Timeout
    BY <1>8, TimeoutLink
  <1>9. CASE Disconnect
    BY <1>9, DisconnectLink
  <1>10. CASE Reset
    BY <1>10, ResetLink
  <1> QED BY <1>1, <1>2, <1>3, <1>4, <1>5, <1>6, <1>7, <1>8, <1>9, <1>10 DEF Next

-----------------------------------------------------------------------------
(* The theorems about the link.                                            *)

\* What is on its way between the central and the label fits to the state of
\* either, whatever answers are lost and however often the link is.
THEOREM LinkInvariant == Spec => []LinkInv
  <1>1. Init => LinkInv
    BY InitLink
  <1>2. LinkInv /\ [Next]_vars => LinkInv'
    BY NextLink
  <1> QED BY <1>1, <1>2, PTL DEF Spec

\* The label's variables, its flash and the central keep their types.
THEOREM TypeCorrect == Spec => []TypeOK
  <1>1. LinkInv => TypeOK
    BY DEF LinkInv
  <1> QED BY <1>1, LinkInvariant, PTL

\* esl_packet_handle has no check of its own, and yet no packet is written
\* behind aligned_data: a batch that is sent again, a lost link, a new picture
\* and a late answer always begin at the start of the buffer (lable_data.c).
THEOREM BufferCorrect == Spec => []NoOverrun
  <1>1. LinkInv => NoOverrun
    BY DEF LinkInv
  <1> QED BY <1>1, LinkInvariant, PTL
-----------------------------------------------------------------------------
(* The invariant of the flash.                                             *)

LEMMA OneOp ==
    ASSUME NEW q \in Seq(Op), q # <<>>, Len(q) <= 1
    PROVE  Len(q) = 1 /\ Head(q) = q[1]
  <1>1. Head(q) = q[1] /\ Len(q) \in Nat \ {0}
    OBVIOUS
  <1>2. Len(q) = 1
    BY <1>1
  <1> QED BY <1>1, <1>2

LEMMA InitFlash == Init => FlashInv
  <1>1. SUFFICES ASSUME Init PROVE FlashInv
    OBVIOUS
  <1>2. NoOverwrite
    BY <1>1, ContentAssumption DEF Init, NoOverwrite
  <1>3. m_flags = "0" /\ fq = <<>> /\ failure = FALSE /\ failed = FALSE /\ shown = "nothing"
    BY <1>1 DEF Init
  <1>4. failed = failure /\ Len(fq) <= 1
    <2>1. failed = failure
      BY <1>3
    <2>2. Len(fq) <= 1
      BY <1>3
    <2> QED BY <2>1, <2>2
  <1>5. EndMeansWhole /\ m_flags # "START" /\ m_flags \notin {"DOING", "DONE"}
    BY <1>3 DEF EndMeansWhole
  <1> QED BY <1>2, <1>3, <1>4, <1>5 DEF FlashInv

\* A predicate of the label's variables and its flash.
LEMMA SameFlash ==
    ASSUME FlashInv, UNCHANGED <<m_flags, fs_store_point, esl_data_info, failure, fq, flash>>,
           UNCHANGED <<shown, failed>>, UNCHANGED aligned_data \/ fq = <<>>
    PROVE  FlashInv'
  <1>1. Erasing(esl_data_info.crc16) => Erasing(esl_data_info.crc16)'
    BY DEF Erasing
  <1>2. Storing(esl_data_info.crc16) => Storing(esl_data_info.crc16)'
    BY DEF Storing, Top
  <1> QED BY <1>1, <1>2 DEF FlashInv, Announced, NoOverwrite, EndMeansWhole

LEMMA FlashParts ==
    ASSUME LinkInv, FlashInv
    PROVE  /\ esl_data_info.crc16 \in Pictures /\ fq \in Seq(Op) /\ Len(fq) \in Nat
           /\ fs_store_point \in Nat /\ Top \in Nat
           /\ Packets(esl_data_info.crc16) \in Nat /\ Pages(esl_data_info.crc16) \in Nat
           /\ m_flags \in {"0", "START", "DOING", "DONE"}
           /\ failure \in BOOLEAN
           /\ flash \in [Units -> AllData \cup {Erased, Garbage, Blank}]
  <1>1. esl_data_info.crc16 \in Pictures /\ fs_store_point \in Nat
    BY DEF LinkInv, TypeOK
  <1>2. Top \in Nat
    <2>1. PacketBytes \in Nat \ {0}
      BY Sizes
    <2> QED BY <1>1, <2>1, DivMod DEF Top
  <1>3. fq \in Seq(Op) /\ Len(fq) \in Nat
    BY DEF LinkInv, QueueOK
  <1>4. Packets(esl_data_info.crc16) \in Nat /\ Pages(esl_data_info.crc16) \in Nat
    BY <1>1, PictureSizes, Sizes
  <1> QED BY <1>1, <1>2, <1>3, <1>4 DEF LinkInv, TypeOK

LEMMA FlashWorkStored ==
    ASSUME LinkInv, FlashInv, FlashWork
    PROVE  FlashInv'
  <1>1. PICK p \in Pictures, op \in Op : p = esl_data_info.crc16 /\ op = fq[1] /\ op = Head(fq)
    <2>1. fq # <<>> /\ fq \in Seq(Op)
      BY FlashParts DEF FlashWork
    <2>2. Head(fq) = fq[1] /\ fq[1] \in Op
      BY <2>1
    <2> QED BY <2>2, FlashParts
  <1>2. /\ fq # <<>> /\ fq \in Seq(Op) /\ Len(fq) = 1 /\ op.left > 0
        /\ op.at \in Nat /\ op.left \in Nat
        /\ m_flags \in {"START", "DOING", "DONE"} /\ failure = FALSE /\ failed = FALSE
        /\ flash \in [Units -> AllData \cup {Erased, Garbage, Blank}]
        /\ NoOverwrite /\ EndMeansWhole /\ Announced(p) /\ Top \in Nat
        /\ UNCHANGED <<devVars, failure, shown, failed>>
    <2>1. /\ fq # <<>> /\ op.left > 0 /\ UNCHANGED <<devVars, failure, shown, failed>>
      BY <1>1 DEF FlashWork, history
    <2>2. /\ fq \in Seq(Op) /\ op.at \in Nat /\ op.left \in Nat
          /\ flash \in [Units -> AllData \cup {Erased, Garbage, Blank}] /\ Top \in Nat
      BY FlashParts DEF Op
    <2>5. Len(fq) = 1
      <3>1. Len(fq) <= 1
        BY DEF FlashInv
      <3> QED BY <2>1, <2>2, <3>1, OneOp
    <2>3. failure = FALSE /\ failed = FALSE
      BY <2>1, FlashParts DEF FlashInv
    <2>4. m_flags \in {"START", "DOING", "DONE"} /\ NoOverwrite /\ EndMeansWhole /\ Announced(p)
      BY <1>1, <2>1, FlashParts DEF FlashInv
    <2> QED BY <2>1, <2>2, <2>3, <2>4, <2>5
  <1>3. UNCHANGED <<m_flags, fs_store_point, esl_data_info, aligned_data>>
    BY <1>2 DEF devVars
  <1>4. Announced(esl_data_info.crc16)' /\ EndMeansWhole'
    BY <1>1, <1>2, <1>3 DEF Announced, EndMeansWhole
  <1>5. Units \subseteq Nat /\ PagePackets \in Nat \ {0}
    BY Sizes
  <1>6. CASE m_flags = "START"
    <2>1. /\ op.kind = "erase" /\ op.at + op.left = Pages(p)
          /\ \A u \in Units : u \div PagePackets < op.at => flash[u] = Erased
      BY <1>1, <1>2, <1>6 DEF FlashInv, Erasing
    <2>2. /\ flash' = [u \in Units |-> IF u \div PagePackets = op.at THEN Erased ELSE flash[u]]
          /\ fq' = [fq EXCEPT ![1].at = @ + 1, ![1].left = @ - 1]
      BY <1>1, <2>1 DEF FlashWork
    <2>3. /\ fq' # <<>> /\ Len(fq') = 1 /\ fq'[1].kind = "erase"
          /\ fq'[1].at = op.at + 1 /\ fq'[1].left = op.left - 1
      <3>1. fq' = [fq EXCEPT ![1] = [op EXCEPT !.at = @ + 1, !.left = @ - 1]]
        BY <1>1, <1>2, <2>2, Zenon
      <3>2. PICK e : e = [op EXCEPT !.at = @ + 1, !.left = @ - 1]
        OBVIOUS
      <3>3. e.kind = "erase" /\ e.at = op.at + 1 /\ e.left = op.left - 1
        BY <2>1, <3>2 DEF Op
      <3>4. fq' = [fq EXCEPT ![1] = e]
        BY <3>1, <3>2
      <3>5. fq' # <<>> /\ Len(fq') = 1 /\ fq'[1] = e
        BY <1>2, <3>4
      <3> QED BY <3>3, <3>5
    <2>4. \A u \in Units : u \div PagePackets < op.at + 1 => flash'[u] = Erased
      <3>1. ASSUME NEW u \in Units, u \div PagePackets < op.at + 1
            PROVE  u \div PagePackets < op.at \/ u \div PagePackets = op.at
        <4>1. u \div PagePackets \in Nat
          BY <1>5, DivMod
        <4> QED BY <1>2, <3>1, <4>1
      <3> QED BY <2>1, <2>2, <3>1
    <2>5. Erasing(esl_data_info.crc16)'
      <3>1. fq'[1].at + fq'[1].left = Pages(p)
        BY <1>2, <2>1, <2>3
      <3> QED BY <1>1, <1>3, <2>3, <2>4, <3>1 DEF Erasing
    <2>6. NoOverwrite'
      BY <1>2, <2>2, ContentAssumption DEF NoOverwrite
    <2> QED BY <1>2, <1>3, <1>4, <1>6, <2>3, <2>5, <2>6 DEF FlashInv
  <1>7. CASE m_flags \in {"DOING", "DONE"}
    <2>1. /\ fs_store_point = Top * PacketBytes
          /\ \A u \in Units : u < Packets(p) /\ u >= Top => flash[u] = Erased
          /\ op.kind = "store"
          /\ op.at + op.left = Top
          /\ \A k \in 0 .. op.left - 1 :
                aligned_data[k] = <<p, op.at + k>> /\ flash[op.at + k] = Erased
          /\ \A u \in Units : u < Top => flash[u] = <<p, u>> \/ u >= op.at
      BY <1>1, <1>2, <1>7 DEF FlashInv, Storing
    <2>2. /\ flash' = [u \in Units |-> IF u - op.at \in 0 .. op.left - 1
                                       THEN Written(flash[u], aligned_data[u - op.at])
                                       ELSE flash[u]]
          /\ fq' = [fq EXCEPT ![1].left = 0]
      BY <1>1, <2>1 DEF FlashWork
    <2>3. fq' # <<>> /\ Len(fq') = 1 /\ fq'[1].kind = "store" /\ fq'[1].left = 0
      <3>1. fq' = [fq EXCEPT ![1] = [op EXCEPT !.left = 0]]
        BY <1>1, <1>2, <2>2, Zenon
      <3>2. PICK e : e = [op EXCEPT !.left = 0]
        OBVIOUS
      <3>3. e.kind = "store" /\ e.left = 0
        BY <2>1, <3>2 DEF Op
      <3>4. fq' = [fq EXCEPT ![1] = e]
        BY <3>1, <3>2
      <3>5. fq' # <<>> /\ Len(fq') = 1 /\ fq'[1] = e
        BY <1>2, <3>4
      <3> QED BY <3>3, <3>5
    <2>4. ASSUME NEW u \in Units, u - op.at \in 0 .. op.left - 1
          PROVE  flash'[u] = <<p, u>> /\ u < Top /\ u >= op.at
      <3>1. u \in Nat /\ op.at + (u - op.at) = u
        BY <1>2, <1>5
      <3>2. aligned_data[u - op.at] = <<p, u>> /\ flash[u] = Erased
        BY <2>1, <2>4, <3>1
      <3>3. u < Top /\ u >= op.at
        <4>1. op.at \in Nat /\ op.left \in Nat /\ op.at + op.left = Top /\ u \in Nat
          BY <1>2, <2>1, <3>1
        <4> QED BY <2>4, <4>1
      <3> QED BY <2>2, <2>4, <3>2, <3>3 DEF Written
    <2>5. ASSUME NEW u \in Units, u - op.at \notin 0 .. op.left - 1
          PROVE  flash'[u] = flash[u] /\ ~(u < Top /\ u >= op.at)
      <3>1. u \in Nat
        BY <1>5
      <3> QED BY <1>2, <2>1, <2>2, <2>5, <3>1
    <2>6. \A u \in Units : u < Packets(p) /\ u >= Top => flash'[u] = Erased
      <3>1. ASSUME NEW u \in Units, u < Packets(p), u >= Top PROVE flash'[u] = Erased
        <4>1. ~(u < Top)
          BY <1>2, <1>5, <3>1
        <4> QED BY <2>1, <2>4, <2>5, <3>1, <4>1
      <3> QED BY <3>1
    <2>7. \A u \in Units : u < Top => flash'[u] = <<p, u>>
      BY <2>1, <2>4, <2>5
    <2>8. Storing(esl_data_info.crc16)'
      BY <1>1, <1>3, <2>1, <2>3, <2>6, <2>7 DEF Storing, Top
    <2>9. NoOverwrite'
      <3>1. ASSUME NEW u \in Units PROVE flash'[u] # Garbage
        <4>1. CASE u - op.at \in 0 .. op.left - 1
          <5>1. op.left <= BufPackets /\ BufPackets \in Nat
            BY <1>1, <1>2, <2>1, Sizes DEF LinkInv, QueueOK
          <5>2. u - op.at \in 0 .. BufPackets - 1
            BY <1>2, <4>1, <5>1
          <5>3. aligned_data[u - op.at] \in AllData \cup {Blank}
            BY <5>2 DEF LinkInv, TypeOK
          <5>4. flash'[u] = Written(flash[u], aligned_data[u - op.at])
            BY <2>2, <4>1
          <5>5. op.at + (u - op.at) = u
            BY <1>2, <1>5
          <5>6. flash[u] = Erased
            BY <2>1, <4>1, <5>5
          <5> QED BY <5>3, <5>4, <5>6, ContentAssumption DEF Written
        <4>2. CASE u - op.at \notin 0 .. op.left - 1
          BY <1>2, <2>5, <4>2 DEF NoOverwrite
        <4> QED BY <4>1, <4>2
      <3> QED BY <3>1 DEF NoOverwrite
    <2> QED BY <1>2, <1>3, <1>4, <1>7, <2>3, <2>8, <2>9 DEF FlashInv
  <1> QED BY <1>2, <1>6, <1>7

LEMMA FlashAnswerStored ==
    ASSUME LinkInv, FlashInv, FlashSuccess \/ FlashTimeout
    PROVE  FlashInv'
  <1>1. /\ fq # <<>> /\ fq' = Tail(fq) /\ Head(fq) = fq[1] /\ Len(fq) = 1
        /\ failure = FALSE /\ failed = FALSE
        /\ UNCHANGED <<devVars, flash, shown>>
    <2>1. fq # <<>> /\ fq' = Tail(fq) /\ UNCHANGED <<devVars, flash, shown>>
      BY DEF FlashSuccess, FlashTimeout, history
    <2>2. Head(fq) = fq[1] /\ Len(fq) = 1
      <3>1. fq \in Seq(Op)
        BY FlashParts
      <3>2. Len(fq) <= 1
        BY DEF FlashInv
      <3> QED BY <2>1, <3>1, <3>2, OneOp
    <2>3. failure = FALSE /\ failed = FALSE
      BY <2>1, FlashParts DEF FlashInv
    <2> QED BY <2>1, <2>2, <2>3
  <1>2. fq' = <<>>
    BY <1>1, FlashParts
  <1>3. UNCHANGED <<m_flags, fs_store_point, esl_data_info, aligned_data>>
    BY <1>1 DEF devVars
  <1>4. NoOverwrite' /\ (m_flags' # "0" => Announced(esl_data_info.crc16)')
    BY <1>1, <1>3 DEF FlashInv, NoOverwrite, Announced
  <1>5. CASE FlashTimeout
    <2>1. failure' = TRUE /\ failed' = TRUE
      BY <1>5 DEF FlashTimeout
    <2>2. failed' = failure' /\ Len(fq') <= 1 /\ EndMeansWhole'
      BY <1>2, <2>1 DEF EndMeansWhole
    <2> QED BY <1>2, <1>4, <2>1, <2>2 DEF FlashInv
  <1>6. CASE FlashSuccess
    <2>1. failure' = FALSE /\ failed' = FALSE /\ fq[1].left = 0
      BY <1>1, <1>6 DEF FlashSuccess, history
    <2>2. m_flags = "START" => Erasing(esl_data_info.crc16)'
      <3>1. SUFFICES ASSUME m_flags = "START" PROVE Erasing(esl_data_info.crc16)'
        OBVIOUS
      <3>2. Erasing(esl_data_info.crc16)
        BY <1>1, <3>1 DEF FlashInv
      <3>3. fq[1].at = Pages(esl_data_info.crc16)
        <4>1. fq[1].at \in Nat
          <5>1. fq[1] \in Op
            BY <1>1, FlashParts
          <5> QED BY <5>1 DEF Op
        <4> QED BY <1>1, <2>1, <3>2, <4>1 DEF Erasing
      <3> QED BY <1>1, <1>2, <1>3, <3>2, <3>3 DEF Erasing
    <2>3. m_flags \in {"DOING", "DONE"} => Storing(esl_data_info.crc16)'
      BY <1>1, <1>2, <1>3, <2>1 DEF FlashInv, Storing, Top
    <2>4. failed' = failure' /\ Len(fq') <= 1 /\ m_flags' = m_flags
      <3>1. failed' = failure'
        BY <2>1
      <3>2. Len(fq') <= 1
        BY <1>2
      <3> QED BY <1>3, <3>1, <3>2
    <2>5. EndMeansWhole'
      BY <1>1 DEF FlashInv, EndMeansWhole
    <2> QED BY <1>2, <1>4, <2>1, <2>2, <2>3, <2>4, <2>5 DEF FlashInv
  <1> QED BY <1>5, <1>6

LEMMA ResetFlash ==
    ASSUME FlashInv, Reset
    PROVE  FlashInv'
  <1>1. /\ m_flags' = "0" /\ fq' = <<>> /\ failure' = FALSE /\ failed' = FALSE
        /\ shown' = "nothing" /\ flash' = flash
    BY DEF Reset
  <1>2. failed' = failure' /\ Len(fq') <= 1
    <2>1. failed' = failure'
      BY <1>1
    <2>2. Len(fq') <= 1
      BY <1>1
    <2> QED BY <2>1, <2>2
  <1>3. /\ EndMeansWhole' /\ NoOverwrite'
        /\ m_flags' # "START" /\ m_flags' \notin {"DOING", "DONE"}
    BY <1>1 DEF FlashInv, EndMeansWhole, NoOverwrite
  <1> QED BY <1>1, <1>2, <1>3 DEF FlashInv

\* A handler that starts nothing on the flash, with the queue empty.
LEMMA WriteOnIdle ==
    ASSUME LinkInv, FlashInv, fq = <<>>,
           UNCHANGED <<m_flags, fs_store_point, esl_data_info, failure, fq, flash, shown, failed>>
    PROVE  FlashInv'
  BY SameFlash

LEMMA StartStored ==
    ASSUME LinkInv, FlashInv, fq = <<>>, toDev # <<>>,
           UNCHANGED <<failure, flash, failed>>,
           NEW w \in Writes, w = toDev[1], cp_start(w)
    PROVE  FlashInv'
  <1>1. PICK p \in Pictures : p = cen.pic
    BY LinkParts
  <1>2. w = StartOf(p)
    <2>1. w.t = "start"
      BY DEF cp_start
    <2> QED BY <1>1, <2>1, WritePhase
  <1>3. /\ m_flags' = "START" /\ shown' = shown
        /\ esl_data_info' = [length |-> Length[p], crc16 |-> p, verify_number |-> Batch[p]]
        /\ esl_flash_erase(0, Pages(p))
    BY <1>2 DEF cp_start, StartOf, Pages
  <1>4. esl_data_info'.crc16 = p /\ Announced(esl_data_info.crc16)'
    BY <1>3 DEF Announced
  <1>5. /\ Pages(p) \in Nat /\ Pages(p) <= RegionPages /\ QueueSize \in Nat \ {0}
        /\ PagePackets \in Nat \ {0} /\ Units \subseteq Nat
    BY PictureSizes, Sizes
  <1>6. failure => fq' = <<>>
    BY <1>3 DEF esl_flash_erase, Room
  <1>7. Len(fq') <= 1 /\ (~failure => Erasing(p)')
    <2>1. CASE fq' = <<>> /\ (failure \/ Pages(p) = 0)
      <3>1. Len(fq') <= 1
        BY <2>1
      <3>2. CASE Pages(p) = 0
        <4>1. ASSUME NEW u \in Units PROVE ~(u \div PagePackets < Pages(p))
          <5>1. u \div PagePackets \in Nat
            BY <1>5, DivMod
          <5> QED BY <3>2, <5>1
        <4> QED BY <2>1, <3>1, <4>1 DEF Erasing
      <3> QED BY <2>1, <3>1, <3>2
    <2>2. CASE fq' = <<[kind |-> "erase", at |-> 0, left |-> Pages(p)]>>
      <3>1. /\ Len(fq') <= 1 /\ fq' # <<>> /\ fq'[1].kind = "erase"
            /\ fq'[1].at = 0 /\ fq'[1].left = Pages(p)
        BY <2>2
      <3>2. ASSUME NEW u \in Units PROVE ~(u \div PagePackets < 0)
        <4>1. u \div PagePackets \in Nat
          BY <1>5, DivMod
        <4> QED BY <4>1
      <3>3. fq'[1].at + fq'[1].left = Pages(p)
        BY <1>5, <3>1
      <3> QED BY <3>1, <3>2, <3>3 DEF Erasing
    <2>3. CASE fq' = <<>> /\ ~failure /\ Pages(p) # 0
      <3>1. Len(fq) < QueueSize /\ Pages(p) > 0 /\ 0 + Pages(p) <= RegionPages
        <4>1. Len(<<>>) = 0
          OBVIOUS
        <4>2. RegionPages \in Nat
          BY Sizes
        <4> QED BY <1>5, <2>3, <4>1, <4>2
      <3>2. fq' = Append(fq, [kind |-> "erase", at |-> 0, left |-> Pages(p)])
        BY <1>3, <2>3, <3>1 DEF esl_flash_erase, Room
      <3>3. fq' # <<>>
        BY <3>2
      <3> QED BY <2>3, <3>3
    <2>4. fq' = <<>> \/ fq' = <<[kind |-> "erase", at |-> 0, left |-> Pages(p)]>>
      <3>1. Append(<<>>, [kind |-> "erase", at |-> 0, left |-> Pages(p)])
            = <<[kind |-> "erase", at |-> 0, left |-> Pages(p)]>>
        OBVIOUS
      <3> QED BY <1>3, <3>1 DEF esl_flash_erase
    <2> QED BY <2>1, <2>2, <2>3, <2>4
  <1>8. NoOverwrite' /\ EndMeansWhole'
    BY <1>3 DEF FlashInv, NoOverwrite, EndMeansWhole
  <1>9. ~failure' => Erasing(esl_data_info.crc16)'
    BY <1>4, <1>7 DEF Erasing
  <1>10. failed' = failure'
    BY DEF FlashInv
  <1>11. m_flags' # "0" /\ m_flags' \notin {"DOING", "DONE"}
    BY <1>3
  <1>12. failure' => fq' = <<>>
    BY <1>6
  <1> QED BY <1>4, <1>7, <1>8, <1>9, <1>10, <1>11, <1>12 DEF FlashInv

LEMMA EndStored ==
    ASSUME LinkInv, FlashInv, fq = <<>>, toDev # <<>>,
           UNCHANGED <<failure, flash, failed>>,
           NEW w \in Writes, w = toDev[1], cp_end(w)
    PROVE  FlashInv'
  <1>1. PICK p \in Pictures : p = cen.pic
    BY LinkParts
  <1>2. /\ m_flags' = "DONE"
        /\ shown' = (IF Holds(flash, esl_data_info.crc16) THEN "whole" ELSE "other")
        /\ UNCHANGED <<fs_store_point, esl_data_info, aligned_data, fq>> /\ w.t = "end"
    BY DEF cp_end
  <1>3. /\ Announced(p) /\ m_flags \in {"DOING", "DONE"}
        /\ fs_store_point = Packets(p) * PacketBytes
    BY <1>1, <1>2, WritePhase DEF Ending, Cp, Stored
  <1>4. esl_data_info.crc16 = p
    BY <1>3 DEF Announced
  <1>5. ~failure => Storing(p) /\ Storing(esl_data_info.crc16)'
    BY <1>2, <1>3, <1>4 DEF FlashInv, Storing, Top
  <1>6. ~failure => Holds(flash, p)
    <2>1. SUFFICES ASSUME ~failure, NEW i \in 0 .. Packets(p) - 1
                   PROVE  flash[i] = <<p, i>>
      BY DEF Holds
    <2>2. /\ Packets(p) \in Nat /\ Packets(p) <= RegionPages * PagePackets
          /\ Units = 0 .. RegionPages * PagePackets - 1 /\ PacketBytes \in Nat \ {0}
      BY PictureSizes, PicturesFit, Sizes
    <2>3. RegionPages * PagePackets \in Nat
      BY Sizes
    <2>4. i \in Units
      <3> DEFINE N == RegionPages * PagePackets
      <3>1. N \in Nat /\ Packets(p) <= N /\ Units = 0 .. N - 1 /\ Packets(p) \in Nat
        BY <2>2, <2>3
      <3> HIDE DEF N
      <3> QED BY <3>1
    <2>5. Top = Packets(p)
      <3> DEFINE a == Packets(p) * PacketBytes
      <3>1. a \in Nat /\ a = PacketBytes * Packets(p) + 0 /\ 0 \in 0 .. PacketBytes - 1
        BY <2>2
      <3>2. fs_store_point = a
        BY <1>3
      <3> HIDE DEF a
      <3>3. a \div PacketBytes = Packets(p)
        BY <2>2, <3>1, DivUnique
      <3> QED BY <3>2, <3>3 DEF Top
    <2>6. i < Top
      BY <2>2, <2>5
    <2> QED BY <1>5, <2>1, <2>4, <2>6 DEF Storing
  <1>7. EndMeansWhole'
    <2>1. failed' = failure
      BY DEF FlashInv
    <2> QED BY <1>2, <1>4, <1>6, <2>1 DEF EndMeansWhole
  <1>8. NoOverwrite' /\ Len(fq') <= 1 /\ (failure' => fq' = <<>>)
    BY <1>2 DEF FlashInv, NoOverwrite
  <1>9. failed' = failure'
    BY DEF FlashInv
  <1>10. m_flags' # "0" /\ m_flags' # "START" /\ Announced(esl_data_info.crc16)'
    BY <1>2, <1>3, <1>4 DEF Announced
  <1> QED BY <1>5, <1>7, <1>8, <1>9, <1>10 DEF FlashInv

LEMMA PacketStored ==
    ASSUME LinkInv, FlashInv, fq = <<>>,
           UNCHANGED <<failure, flash, failed>>,
           NEW w \in Writes, esl_packet_handle(w)
    PROVE  FlashInv'
  <1>1. CASE m_flags \notin {"START", "DOING"}
    BY <1>1, WriteOnIdle DEF esl_packet_handle, devVars
  <1>2. CASE m_flags = "DOING"
    BY <1>2, WriteOnIdle DEF esl_packet_handle
  <1>3. CASE m_flags = "START"
    <2>1. m_flags' = "DOING" /\ fs_store_point' = 0 /\ UNCHANGED <<esl_data_info, fq, shown>>
      BY <1>3 DEF esl_packet_handle
    <2>2. PICK p \in Pictures : p = esl_data_info.crc16
      BY FlashParts
    <2>3. /\ PacketBytes \in Nat \ {0} /\ PagePackets \in Nat \ {0} /\ Units \subseteq Nat
          /\ Packets(p) \in Nat /\ Pages(p) \in Nat
          /\ Packets(p) <= Pages(p) * PagePackets
      BY Sizes, PictureSizes, PicturesFit
    <2>4. Top' = 0
      <3>1. 0 = PacketBytes * 0 + 0 /\ 0 \in 0 .. PacketBytes - 1
        BY <2>3
      <3>2. 0 \div PacketBytes = 0
        BY <2>3, <3>1, DivUnique
      <3> QED BY <2>1, <3>2 DEF Top
    <2>5. ASSUME ~failure PROVE Storing(esl_data_info.crc16)'
      <3>1. \A u \in Units : u \div PagePackets < Pages(p) => flash[u] = Erased
        BY <1>3, <2>2, <2>5 DEF FlashInv, Erasing
      <3>2. ASSUME NEW u \in Units, u < Packets(p) PROVE flash[u] = Erased
        <4>1. u < PagePackets * Pages(p)
          <5> DEFINE a == Pages(p) * PagePackets
          <5>1. a \in Nat /\ a = PagePackets * Pages(p) /\ Packets(p) <= a
            BY <2>3
          <5> HIDE DEF a
          <5>2. u < a
            BY <2>3, <3>2, <5>1
          <5> QED BY <5>1, <5>2
        <4>2. u \div PagePackets < Pages(p)
          BY <2>3, <4>1, DivBelow
        <4> QED BY <3>1, <4>2
      <3>3. \A u \in Units : ~(u < 0)
        BY <2>3
      <3>4. 0 = 0 * PacketBytes
        BY <2>3
      <3> QED BY <2>1, <2>2, <2>4, <3>2, <3>3, <3>4 DEF Storing
    <2>6. NoOverwrite' /\ EndMeansWhole' /\ Announced(esl_data_info.crc16)'
      BY <1>3, <2>1 DEF FlashInv, NoOverwrite, EndMeansWhole, Announced
    <2>7. failed' = failure'
      BY DEF FlashInv
    <2>8. Len(fq') <= 1 /\ fq' = <<>>
      BY <2>1 DEF FlashInv
    <2> QED BY <2>1, <2>5, <2>6, <2>7, <2>8 DEF FlashInv
  <1> QED BY <1>1, <1>2, <1>3

LEMMA CommitStored ==
    ASSUME LinkInv, FlashInv, fq = <<>>, toDev # <<>>,
           UNCHANGED <<failure, flash, failed>>,
           NEW w \in Writes, w = toDev[1], w.t = "commit", cp_batch(w)
    PROVE  FlashInv'
  <1>1. PICK p \in Pictures : p = cen.pic
    BY LinkParts
  <1>2. /\ esl_flash_store(fs_store_point, sequency)
        /\ fs_store_point' = fs_store_point + sequency * PacketBytes
        /\ UNCHANGED <<m_flags, esl_data_info, aligned_data, shown>>
    BY DEF cp_batch
  <1>3. PICK e \in Nat : /\ e <= Packets(p) /\ sequency \in 1 .. e
                         /\ BatchAt(e - sequency, sequency)
                         /\ Announced(p)
    <2>1. CASE Sending /\ AfterCommit
      <3>1. cen.base <= Packets(p)
        BY <1>1, <2>1, LinkParts DEF Sending
      <3> QED BY <1>1, <2>1, <3>1, LinkParts DEF Sending, AfterCommit
    <2>2. CASE Ending
      <3>1. Packets(p) <= Packets(p)
        BY PictureSizes
      <3>2. sequency \in 1 .. Packets(p) /\ BatchAt(Packets(p) - sequency, sequency)
            /\ Announced(p)
        BY <1>1, <2>2 DEF Ending, Cp
      <3> QED BY <3>1, <3>2, PictureSizes
    <2> QED BY <2>1, <2>2, WritePhase
  <1>4. PICK q \in 1 .. e : q = sequency
    BY <1>3
  <1>5. PICK a \in Nat : a = e - q
    BY <1>4
  <1>6. /\ a + q = e /\ m_flags = "DOING" /\ fs_store_point = a * PacketBytes
        /\ \A k \in 0 .. q - 1 : aligned_data[k] = <<p, a + k>>
        /\ esl_data_info.crc16 = p
    BY <1>1, <1>3, <1>4, <1>5 DEF BatchAt, Buffered, Announced
  <1>7. /\ PacketBytes \in Nat \ {0} /\ Packets(p) \in Nat /\ QueueSize \in Nat \ {0}
        /\ Packets(p) <= RegionPages * PagePackets /\ RegionPages * PagePackets \in Nat
        /\ Units = 0 .. RegionPages * PagePackets - 1
    <2>1. RegionPages * PagePackets \in Nat
      BY Sizes
    <2> QED BY <2>1, Sizes, PictureSizes, PicturesFit
  <1>8. (a * PacketBytes) \div PacketBytes = a /\ (e * PacketBytes) \div PacketBytes = e
        /\ fs_store_point' = e * PacketBytes
    <2>1. ASSUME NEW n \in Nat PROVE (n * PacketBytes) \div PacketBytes = n
      <3> DEFINE m == n * PacketBytes
      <3>1. m \in Nat /\ m = PacketBytes * n + 0 /\ 0 \in 0 .. PacketBytes - 1
        BY <1>7
      <3> HIDE DEF m
      <3>2. m \div PacketBytes = n
        BY <1>7, <3>1, DivUnique
      <3> QED BY <3>2 DEF m
    <2>2. a * PacketBytes + q * PacketBytes = e * PacketBytes
      BY <1>6, <1>7
    <2> QED BY <1>2, <1>4, <1>6, <2>1, <2>2
  <1>9. Top = a /\ Top' = e
    BY <1>6, <1>8 DEF Top
  <1>10. /\ EndMeansWhole' /\ NoOverwrite' /\ Announced(esl_data_info.crc16)'
         /\ m_flags' = "DOING"
    BY <1>2, <1>3, <1>6 DEF FlashInv, EndMeansWhole, NoOverwrite, Announced
  <1>11. failed' = failure' /\ failure' = failure
    BY DEF FlashInv
  <1>12. CASE failure
    <2>1. fq' = <<>>
      BY <1>2, <1>12 DEF esl_flash_store, Room
    <2>2. Len(fq') <= 1
      BY <2>1
    <2> QED BY <1>10, <1>11, <1>12, <2>1, <2>2 DEF FlashInv
  <1>13. CASE ~failure
    <2>1. /\ \A u \in Units : u < Packets(p) /\ u >= a => flash[u] = Erased
          /\ \A u \in Units : u < a => flash[u] = <<p, u>>
      BY <1>6, <1>9, <1>13 DEF FlashInv, Storing
    <2> DEFINE op == [kind |-> "store", at |-> a, left |-> q]
    <2>2. fq' = <<op>>
      <3>1. a + q - 1 \in Units
        <4> DEFINE N == RegionPages * PagePackets
        <4>1. N \in Nat /\ Packets(p) <= N /\ Units = 0 .. N - 1 /\ Packets(p) \in Nat
          BY <1>7
        <4> HIDE DEF N
        <4> QED BY <1>3, <1>6, <4>1
      <3>2. Len(fq) < QueueSize /\ q > 0
        <4>1. Len(<<>>) = 0
          OBVIOUS
        <4> QED BY <1>7, <4>1
      <3>3. fq' = Append(fq, op)
        BY <1>2, <1>4, <1>6, <1>8, <1>13, <3>1, <3>2 DEF esl_flash_store, Room
      <3>4. Append(<<>>, op) = <<op>>
        OBVIOUS
      <3> QED BY <3>3, <3>4
    <2>3. /\ fq' # <<>> /\ Len(fq') <= 1 /\ fq'[1].kind = "store"
          /\ fq'[1].at = a /\ fq'[1].left = q
      BY <2>2
    <2>4. ASSUME NEW k \in 0 .. q - 1
          PROVE  aligned_data'[k] = <<p, a + k>> /\ flash'[a + k] = Erased
      <3>1. a + k < Packets(p) /\ a + k >= a /\ a + k \in Nat
        BY <1>3, <1>6, <1>7
      <3>2. a + k \in Units
        <4> DEFINE N == RegionPages * PagePackets
        <4>1. N \in Nat /\ Packets(p) <= N /\ Units = 0 .. N - 1 /\ Packets(p) \in Nat
          BY <1>7
        <4> HIDE DEF N
        <4> QED BY <3>1, <4>1
      <3> QED BY <1>2, <1>6, <2>1, <3>1, <3>2
    <2>5. ASSUME NEW u \in Units
          PROVE  /\ u < Packets(p) /\ u >= e => flash'[u] = Erased
                 /\ u < e => flash'[u] = <<p, u>> \/ u >= a
      <3>1. u \in Nat
        BY <1>7
      <3>2. u >= e => u >= a
        BY <1>4, <1>6, <3>1
      <3>3. u < a \/ u >= a
        BY <3>1
      <3> QED BY <2>1, <3>2, <3>3
    <2>6. Storing(esl_data_info.crc16)'
      <3>1. esl_data_info'.crc16 = p /\ q > 0
        BY <1>2, <1>6
      <3> QED BY <1>6, <1>8, <1>9, <2>3, <2>4, <2>5, <3>1 DEF Storing
    <2> QED BY <1>10, <1>11, <1>13, <2>3, <2>6 DEF FlashInv
  <1> QED BY <1>12, <1>13

\* A central that leaves the flash its time writes only to an idle queue.
LEMMA WriteStored ==
    ASSUME PacedWrites, LinkInv, FlashInv, on_write
    PROVE  FlashInv'
  <1>1. fq = <<>> /\ toDev # <<>> /\ UNCHANGED <<failure, flash, failed>>
    BY DEF on_write
  <1>2. PICK w \in Writes : w = toDev[1] /\ w = Head(toDev)
    BY <1>1 DEF LinkInv
  <1>3. on_cccd_write(w) \/ esl_packet_handle(w) \/ cp_start(w) \/ cp_end(w) \/ cp_batch(w)
    BY <1>2 DEF on_write
  <1>4. CASE on_cccd_write(w)
    BY <1>1, <1>4, WriteOnIdle DEF on_cccd_write, devVars
  <1>5. CASE cp_batch(w) /\ w.t = "retry"
    BY <1>1, <1>5, WriteOnIdle DEF cp_batch
  <1>6. CASE cp_batch(w) /\ w.t # "retry"
    <2>1. w.t = "commit"
      BY <1>6 DEF cp_batch
    <2> QED BY <1>1, <1>2, <1>6, <2>1, CommitStored
  <1> QED BY <1>1, <1>2, <1>3, <1>4, <1>5, <1>6, PacketStored, StartStored, EndStored

LEMMA NextFlash ==
    ASSUME PacedWrites
    PROVE  LinkInv /\ FlashInv /\ [Next]_vars => FlashInv'
  <1> SUFFICES ASSUME LinkInv, FlashInv, [Next]_vars PROVE FlashInv'
    OBVIOUS
  <1>1. CASE UNCHANGED vars
    BY <1>1, SameFlash DEF vars, devVars, flashVars, history
  <1>2. CASE FlashWork
    BY <1>2, FlashWorkStored
  <1>3. CASE FlashSuccess \/ FlashTimeout
    BY <1>3, FlashAnswerStored
  <1>4. CASE on_write
    BY <1>4, WriteStored
  <1>5. ASSUME NEW p \in Pictures, Connect(p) \/ NextPicture(p)
        PROVE  FlashInv'
    BY <1>5, SameFlash DEF Connect, NextPicture, devVars, flashVars, history
  <1>6. CASE SendPacket \/ Receive \/ Timeout \/ Disconnect
    BY <1>6, SameFlash DEF SendPacket, Receive, Timeout, Disconnect, devVars, flashVars, history
  <1>7. CASE Reset
    BY <1>7, ResetFlash
  <1> QED BY <1>1, <1>2, <1>3, <1>4, <1>5, <1>6, <1>7 DEF Next

-----------------------------------------------------------------------------
(* The theorems about the flash.                                           *)

\* The picture is erased, stored and complete as far as the store point says,
\* whatever answers and links are lost and whenever the label is reset, until
\* an operation of the flash fails.
THEOREM FlashInvariant ==
    ASSUME PacedWrites
    PROVE  Spec => [](LinkInv /\ FlashInv)
  <1>1. Init => FlashInv
    BY InitFlash
  <1>2. LinkInv /\ FlashInv /\ [Next]_vars => FlashInv'
    BY NextFlash
  <1> QED BY <1>1, <1>2, LinkInvariant, PTL DEF Spec

\* The flag of fs_esl_data.c refuses everything after a failure, and so no
\* packet is ever stored where the flash was not erased.
THEOREM OverwriteNever ==
    ASSUME PacedWrites
    PROVE  Spec => []NoOverwrite
  <1>1. FlashInv => NoOverwrite
    BY DEF FlashInv
  <1> QED BY <1>1, FlashInvariant, PTL

\* fs_store_point never runs ahead of what is in flash or in a queued store:
\* no hole, no shift and no packet of another picture (cp_batch, lable_data.c).
THEOREM PrefixCorrect ==
    ASSUME PacedWrites
    PROVE  Spec => []StoredPrefix
  <1>1. LinkInv /\ FlashInv => StoredPrefix
    <2>1. SUFFICES ASSUME LinkInv, FlashInv, m_flags \in {"DOING", "DONE"}, ~failed,
                          NEW u \in Units, u * PacketBytes < fs_store_point
                   PROVE  flash[u] = <<esl_data_info.crc16, u>> \/ Waiting(u)
      BY DEF StoredPrefix
    <2>2. PICK p \in Pictures : p = esl_data_info.crc16
      BY <2>1, FlashParts
    <2>3. Storing(p) /\ fq \in Seq(Op) /\ Len(fq) <= 1
      BY <2>1, <2>2, FlashParts DEF FlashInv
    <2>4. Top \in Nat /\ u \in Nat /\ PacketBytes \in Nat \ {0}
      BY <2>1, FlashParts, Sizes
    <2>5. u < Top
      <3>1. PICK n \in Nat : n = Top
        BY <2>4
      <3>2. u * PacketBytes < n * PacketBytes
        BY <2>1, <2>3, <3>1 DEF Storing
      <3>3. u < n
        BY <2>4, <3>2
      <3> QED BY <3>1, <3>3
    <2>6. flash[u] = <<p, u>> \/ (fq # <<>> /\ fq[1].left > 0 /\ u >= fq[1].at)
      BY <2>1, <2>3, <2>5 DEF Storing
    <2>7. CASE fq # <<>> /\ fq[1].left > 0 /\ u >= fq[1].at
      <3>1. PICK op \in Op : op = fq[1]
        BY <2>3, <2>7, OneOp
      <3>2. op.at \in Nat /\ op.left \in Nat
        BY DEF Op
      <3>3. /\ op.kind = "store" /\ op.left > 0 /\ op.at + op.left = Top /\ u >= op.at
            /\ \A k \in 0 .. op.left - 1 : aligned_data[k] = <<p, op.at + k>>
        BY <2>3, <2>7, <3>1 DEF Storing
      <3>4. u - op.at \in 0 .. op.left - 1 /\ op.at + (u - op.at) = u
        BY <2>4, <2>5, <3>2, <3>3
      <3>5. aligned_data[u - op.at] = <<p, u>>
        BY <3>3, <3>4
      <3>6. 1 \in 1 .. Len(fq)
        <4>1. Len(fq) = 1
          BY <2>3, <2>7, OneOp
        <4> QED BY <4>1
      <3> QED BY <2>2, <3>1, <3>3, <3>4, <3>5, <3>6 DEF Waiting
    <2> QED BY <2>2, <2>6, <2>7
  <1> QED BY <1>1, FlashInvariant, PTL

\* Control point 0x01 is followed by a redraw of a whole picture, as long as
\* the flash has not failed (esl_data_verify, which never says no).
THEOREM ShownCorrect ==
    ASSUME PacedWrites
    PROVE  Spec => []EndMeansWhole
  <1>1. FlashInv => EndMeansWhole
    BY DEF FlashInv
  <1> QED BY <1>1, FlashInvariant, PTL

=============================================================================
