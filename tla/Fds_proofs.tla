----------------------------- MODULE Fds_proofs -----------------------------
(***************************************************************************)
(* Proofs about Fds, for every number and size of pages, every record      *)
(* length and every number of calls and failures: a store never goes over  *)
(* words that are written, the space that is promised is there, and        *)
(* fds_init knows every combination of pages that a power failure leaves.  *)
(***************************************************************************)
EXTENDS Fds, Arithmetic

-----------------------------------------------------------------------------
(* The invariant: types.                                                   *)

Tags == {"erased", "swap", "data"}

Page == [tag : Tags, recs : Seq(Slots)]

PageInfo == [type : {"data", "erased"}, addr : Addrs \cup {NoAddr}, woff : Nat,
             rsv : Int, open : Nat, canGc : BOOLEAN]

InitSteps == {"tagSwap", "tagData", "eraseSwap", "promote"}

GcStates == {"begin", "copy", "erasePage", "discardSwap", "promote", "tagSwap"}

GcInfo == [state : GcStates, cur : Idx, src : Nat, run : Nat, doGc : SUBSET Idx,
           resume : BOOLEAN]

OpSteps == InitSteps \cup {"none", "begun", "begin", "find", "id", "chunks", "final",
                           "dirty", "done", "flagRecord", "flagFile"}

OpInfo == [code : {"init", "write", "update", "delete", "deleteFile", "gc"},
           step : OpSteps, page : Idx, id : Nat, file : Files \cup {NoFile},
           len : Nat, left : Int, old : Nat, desc : Idx \X Nat]

WriteKinds == {"begin", "id", "chunk", "final"}

WriteInfo == [id : Nat, file : Files \cup {NoFile}, len : Nat, own : BOOLEAN]

FlTyped ==
    /\ fl.kind \in {"none", "erase", "swap", "data", "copy", "dirty"} \cup WriteKinds
    /\ fl.kind # "none" => fl.addr \in Addrs
    /\ fl.kind \in WriteKinds => fl.off \in Nat /\ fl.rec \in WriteInfo
    /\ fl.kind = "copy" => fl.off \in Nat /\ fl.rec \in Slots

Typed ==
    /\ flash \in [Addrs -> Page]
    /\ pages \in [Idx -> PageInfo]
    /\ swap \in [addr : Addrs \cup {NoAddr}, woff : Nat]
    /\ gc \in GcInfo
    /\ opq \in Seq(OpInfo) /\ Len(opq) <= OpQueueSize
    /\ FlTyped
    /\ ev \in {"none", "ok", "timeout"}
    /\ answer \in {"none", "ok", "busy", "timeout", "notfound", "internal"}
    /\ phase \in {"off", "initializing", "ready", "failed"}
    /\ processing \in BOOLEAN /\ latest \in Nat
    /\ tail \in [step : InitSteps \cup {"none"}, page : Idx]
    /\ token \in [page : Idx, chunks : ChunkCounts] \cup {NoToken}

-----------------------------------------------------------------------------
(* What is where in the queue of operations.                               *)

Busy == fl.kind # "none"

\* One of three holds what is to be done next: the flash operation, its event,
\* or the answer to the client.
Turns ==
    /\ processing = (Busy \/ ev # "none" \/ answer # "none")
    /\ Busy => ev = "none" /\ answer = "none"
    /\ ev # "none" => answer = "none"
    /\ processing => opq # <<>>

\* An operation of which no step has been executed.
Fresh(op) ==
    /\ op.code # "init"
    /\ op.code = "gc" => op.step = "none"
    /\ op.code = "write" => op.step = "begin"
    /\ op.code = "update" => op.step = "find"
    /\ op.code = "delete" => op.step = "flagRecord"
    /\ op.code = "deleteFile" => op.step = "flagFile"

Executes(codes) == opq # <<>> /\ Current.code \in codes

Alone == Len(opq) = 1 /\ Current.code = "init"

Behind == \A k \in DOMAIN opq : k > 1 \/ (phase = "ready" /\ ~processing) => Fresh(opq[k])

OffPhase ==
    phase = "off" =>
        /\ opq = <<>> /\ ~processing /\ tail.step = "none" /\ token = NoToken
        /\ pages = [i \in Idx |-> BlankPage] /\ swap = [addr |-> NoAddr, woff |-> 0]
        /\ gc = BlankGc

FailedPhase ==
    phase = "failed" =>
        /\ ~Busy /\ ev = "none"
        /\ opq = <<>> \/ (Alone /\ answer # "none")

-----------------------------------------------------------------------------
(* Tags and records in flash.                                              *)

Tag(a) == flash[a].tag
Recs(a) == flash[a].recs

OneSwap == \A a, b \in Addrs : Tag(a) = "swap" /\ Tag(b) = "swap" => a = b

NotAllData == \E a \in Addrs : Tag(a) # "data"

\* Records lie one behind the other, without holes.
Chain(recs) ==
    \A k \in DOMAIN recs :
        /\ recs[k].len >= HeaderSize /\ recs[k].st # "hole"
        /\ recs[k].off = IF k = 1 THEN TagSize ELSE recs[k - 1].off + recs[k - 1].len

FlashOK ==
    \A a \in Addrs : /\ Tag(a) = "erased" => Recs(a) = <<>>
                     /\ Chain(Recs(a))
                     /\ EndOf(Recs(a)) < PageSize

\* Where the virtual pages are found: the swap, and each of the others once.
Mapped ==
    /\ swap.addr \in Addrs
    /\ \A i \in Idx : pages[i].addr \in Addrs \ {swap.addr}
    /\ \A i, j \in Idx : pages[i].addr = pages[j].addr => i = j

-----------------------------------------------------------------------------
(* While fds_init goes on.  What the main thread has yet to assign (tail)   *)
(* may be behind what the events have already done.                        *)

InitControl ==
    /\ Alone /\ answer = "none" /\ token = NoToken
    /\ gc.state = "begin" /\ ~gc.resume
    /\ Current.step \in InitSteps
    /\ tail.step # "none" => processing

\* Which tags the flash operations will find.
InitTags ==
    Current.step # "promote" =>
        /\ \A a \in Addrs \ {swap.addr} :
              Tag(a) = "swap" => ev = "timeout" \/ (fl.kind = "data" /\ fl.addr = a)
        /\ Tag(swap.addr) # "data"
        /\ fl.kind \in {"none", "swap", "data", "erase"}
        /\ fl.kind = "data" => fl.addr # swap.addr
        /\ fl.kind \in {"swap", "erase"} => fl.addr = swap.addr
        /\ tail.step = "promote" => pages[gc.cur].type = "data"
        /\ Current.step = "tagData" \/ tail.step = "tagSwap" =>
              /\ Tag(swap.addr) = "swap" \/ ev = "timeout" \/ fl.kind = "swap"
              /\ fl.kind # "erase" /\ Current.step # "eraseSwap"

InitPromotes ==
    Current.step = "promote" =>
        /\ \A a \in Addrs \ {swap.addr} : Tag(a) # "swap"
        /\ \E a \in Addrs \ {swap.addr} : Tag(a) = "erased"
        /\ fl.kind \in {"none", "data"}
        /\ fl.kind = "data" => fl.addr = swap.addr
        /\ \A i \in Idx : pages[i].type = "erased" => Tag(pages[i].addr) = "erased"
        /\ swap.woff = EndOf(Recs(swap.addr))
        /\ processing => tail.step = "promote" /\ (ev = "ok" => Tag(swap.addr) = "data")

\* The pages that are taken for data pages, or will be, have a tag.
InitData ==
    \A i \in Idx : pages[i].type = "data" \/ tail = [step |-> "tagData", page |-> i] =>
        \/ Tag(pages[i].addr) # "erased" \/ ev = "timeout"
        \/ fl.kind = "data" /\ fl.addr = pages[i].addr

InitOffsets ==
    /\ \A i \in Idx : /\ pages[i].type = "erased" => Recs(pages[i].addr) = <<>>
                      /\ pages[i].woff = EndOf(Recs(pages[i].addr))
                      /\ pages[i].rsv = 0
    /\ Current.step \in {"tagSwap", "tagData"} =>
          /\ swap.woff = TagSize
          /\ Recs(swap.addr) = <<>> \/ fl.kind = "erase" \/ ev = "timeout"
    /\ Current.step = "eraseSwap" /\ processing =>
          /\ tail.step = "eraseSwap"
          /\ Recs(swap.addr) = <<>> \/ fl.kind = "erase" \/ ev = "timeout"
    /\ tail.step = "eraseSwap" => Current.step # "promote"

InitPhase ==
    phase = "initializing" =>
        Mapped /\ InitControl /\ InitTags /\ InitPromotes /\ InitData /\ InitOffsets

-----------------------------------------------------------------------------
(* When the store is ready.                                                *)

ReadyControl ==
    /\ Executes({"init"}) => answer # "none"
    /\ tail.step # "none" =>
          /\ opq = <<>> \/ Alone
          /\ gc.state = "begin" /\ ~gc.resume
    /\ Executes({"gc"}) => Current.step \in {"none", "begun"}
    /\ \A i \in Idx : pages[i].type = "data"

\* The collection has been told that its flash operation was carried out.
GcDone == Executes({"gc"}) /\ Current.step = "begun" /\ ev = "ok"

ReadyTags ==
    /\ \A a \in Addrs \ {swap.addr} :
          Tag(a) = "swap" => gc.state = "promote" /\ a = pages[gc.cur].addr
    /\ Tag(swap.addr) # "data"
    /\ gc.state = "promote" => Tag(swap.addr) = "erased"
    /\ GcDone /\ gc.state = "erasePage" => Tag(pages[gc.cur].addr) = "erased"
    /\ GcDone /\ gc.state = "promote" => Tag(pages[gc.cur].addr) = "data"
    /\ GcDone /\ gc.state = "tagSwap" => Tag(swap.addr) = "swap"
    /\ \A i \in Idx : Tag(pages[i].addr) = "erased" =>
          gc.state = "erasePage" /\ i = gc.cur
    /\ Tag(swap.addr) = "erased" => gc.state \in {"promote", "tagSwap", "discardSwap"}

\* Which flash operations are under way in which step.
ReadyFlash ==
    /\ fl.kind \in {"data", "swap", "erase", "copy"} =>
          Executes({"gc"}) /\ Current.step = "begun"
    /\ fl.kind = "data" => gc.state = "promote" /\ fl.addr = pages[gc.cur].addr
    /\ fl.kind = "swap" => gc.state = "tagSwap" /\ fl.addr = swap.addr
    /\ fl.kind = "erase" => \/ gc.state = "erasePage" /\ fl.addr = pages[gc.cur].addr
                            \/ gc.state = "discardSwap" /\ fl.addr = swap.addr
    /\ fl.kind = "copy" =>
          /\ gc.state = "copy" /\ fl.addr = swap.addr /\ fl.off = swap.woff
          /\ fl.rec = [Recs(pages[gc.cur].addr)[gc.src] EXCEPT !.off = swap.woff]
    /\ fl.kind \in WriteKinds =>
          /\ Executes({"write", "update"})
          /\ fl.addr = pages[Current.page].addr /\ fl.off = pages[Current.page].woff
          /\ Current.step \notin {"begin", "find"}
          /\ fl.kind = "begin" <=> Current.step = "id"
          /\ fl.kind = "begin" => fl.rec.len = Current.len
    /\ fl.kind = "dirty" => /\ Executes({"write", "update", "delete", "deleteFile"})
                            /\ fl.addr # swap.addr /\ Current.step # "id"

\* The record that is being written on page i has its header.
Wrote(i) ==
    /\ Executes({"write", "update"}) /\ Current.page = i
    /\ answer = "none" /\ fl.kind # "begin" /\ Current.step \notin {"begin", "find"}
    /\ ~(Current.step = "id" /\ ev = "timeout")

\* Page i has been erased but is still taken for what it was.
Swapped(i) == gc.state = "erasePage" /\ i = gc.cur /\ Tag(pages[i].addr) = "erased"

\* A page that is erased has no open records.
Closed ==
    \A i \in Idx : Swapped(i) \/ (fl.kind = "erase" /\ fl.addr = pages[i].addr) =>
        pages[i].open = 0

\* The write offset of a page is where its records end, up to the record that
\* is being written.
Offsets ==
    \A i \in Idx :
        /\ Wrote(i) => LET r == Recs(pages[i].addr) IN
              r # <<>> /\ Last(r).off = pages[i].woff /\ Last(r).len = Current.len
        /\ ~Wrote(i) /\ ~Swapped(i) => EndOf(Recs(pages[i].addr)) = pages[i].woff
        /\ pages[i].woff >= TagSize

\* So is that of the swap.  A copy that is to be done again may have been done.
SwapOffsets ==
    /\ gc.state \in {"begin", "tagSwap", "promote"} =>
          Recs(swap.addr) = <<>> /\ swap.woff = TagSize
    /\ gc.state = "erasePage" =>
          EndOf(Recs(swap.addr)) = swap.woff /\ swap.woff <= pages[gc.cur].woff
    /\ gc.state = "discardSwap" => swap.woff = TagSize
    /\ gc.state = "discardSwap" /\ GcDone => Recs(swap.addr) = <<>>

Copying ==
    gc.state = "copy" =>
        LET p == Recs(pages[gc.cur].addr)
            s == Recs(swap.addr)
        IN /\ gc.src \in DOMAIN p /\ p[gc.src].st = "valid"
           /\ p[gc.src].off + p[gc.src].len <= pages[gc.cur].woff
           /\ TagSize <= swap.woff /\ swap.woff <= p[gc.src].off
           /\ \/ EndOf(s) = swap.woff /\ ~GcDone
              \/ s # <<>> /\ Last(s) = [p[gc.src] EXCEPT !.off = swap.woff]

\* What an operation of the queue still has to write on page i.
Space ==
    /\ \A k \in DOMAIN opq : opq[k].code \in {"write", "update"} => opq[k].len >= HeaderSize
    /\ \A i \in Idx : /\ pages[i].rsv >= ReservedOn(i) - SpaceDone(i)
                      /\ pages[i].woff + pages[i].rsv < PageSize

ReadyPhase ==
    phase = "ready" =>
        /\ Mapped /\ ReadyControl /\ ReadyTags /\ ReadyFlash
        /\ Closed /\ Offsets /\ SwapOffsets /\ Copying /\ Space

IInv ==
    /\ Typed /\ Turns /\ Behind /\ OffPhase /\ FailedPhase
    /\ OneSwap /\ NotAllData /\ FlashOK
    /\ InitPhase /\ ReadyPhase

Safe == upset = {} => IInv

-----------------------------------------------------------------------------
(* Numbers and sets.                                                       *)

LEMMA Sizes ==
    /\ MaxPages \in Nat \ {0} /\ VirtualPages \in Nat /\ VirtualPages = MaxPages + 1
    /\ 0 \in Idx /\ Idx \subseteq Nat /\ 0 \in Addrs /\ Addrs \subseteq Nat
    /\ NoAddr \notin Addrs /\ NoAddr \in Int
    /\ PageSize \in Nat /\ PageSize > TagSize /\ TagSize \in Nat
    /\ HeaderSize \in Nat /\ HeaderSize > 0
    /\ OpQueueSize \in Nat \ {0}
  BY FdsAssumption DEF MaxPages, Idx, Addrs, NoAddr, TagSize, HeaderSize

\* The records of a client have a header and whole chunks.
LEMMA RecordLens ==
    ASSUME NEW n \in ChunkCounts
    PROVE  RecordLen(n) \in Nat /\ RecordLen(n) >= HeaderSize
  <1>1. n \in Nat /\ ChunkWords \in Nat \ {0}
    BY FdsAssumption
  <1>2. n * ChunkWords \in Nat
    BY <1>1
  <1> QED BY <1>2 DEF RecordLen, HeaderSize

LEMMA LeastOf ==
    ASSUME NEW S \in SUBSET Nat, S # {}
    PROVE  Min(S) \in S /\ \A y \in S : Min(S) <= y
  <1>1. \E x \in S : \A y \in S : x <= y
    BY LeastElement
  <1> QED BY <1>1 DEF Min

\* A bounded set of naturals has a greatest element.
LEMMA GreatestOf ==
    ASSUME NEW S \in SUBSET Nat, S # {}, NEW n \in Nat, \A y \in S : y <= n
    PROVE  Max(S) \in S /\ \A y \in S : Max(S) >= y
  <1> DEFINE B == {m \in Nat : \A y \in S : y <= m}
  <1>1. B \in SUBSET Nat /\ B # {}
    OBVIOUS
  <1>2. PICK u \in B : \A m \in B : u <= m
    BY <1>1, LeastElement
  <1>3. u \in S
    <2>1. SUFFICES ASSUME u \notin S PROVE FALSE
      OBVIOUS
    <2>2. PICK z \in S : TRUE
      OBVIOUS
    <2>3. z < u /\ u - 1 \in Nat
      BY <2>1, <2>2
    <2>4. \A y \in S : y <= u - 1
      BY <2>1
    <2>5. u - 1 \in B
      BY <2>3, <2>4
    <2> QED BY <2>5, <1>2
  <1>4. \E x \in S : \A y \in S : x >= y
    BY <1>3
  <1> QED BY <1>4 DEF Max

\* The values of a function on a finite set are bounded.
LEMMA Bounded ==
    ASSUME NEW T, IsFiniteSet(T), NEW f \in [T -> Nat]
    PROVE  \E n \in Nat : \A t \in T : f[t] <= n
  <1>1. PICK s \in Seq(T) : \A t \in T : \E k \in 1 .. Len(s) : s[k] = t
    BY DEF IsFiniteSet
  <1> DEFINE Upto(m) == \E n \in Nat : \A k \in 1 .. m : f[s[k]] <= n
             S == {m \in Nat : m <= Len(s) => Upto(m)}
  <1>2. 0 \in S
    <2>1. \A k \in 1 .. 0 : f[s[k]] <= 0
      OBVIOUS
    <2> QED BY <2>1
  <1>3. ASSUME NEW m \in Nat, m \in S PROVE m + 1 \in S
    <2>1. CASE ~ (m + 1 <= Len(s))
      BY <2>1
    <2>2. CASE m + 1 <= Len(s)
      <3>1. PICK n \in Nat : \A k \in 1 .. m : f[s[k]] <= n
        BY <2>2, <1>3
      <3>2. s[m + 1] \in T /\ f[s[m + 1]] \in Nat
        BY <2>2
      <3>3. PICK w \in Nat : w >= n /\ w >= f[s[m + 1]]
        BY <3>2, n + f[s[m + 1]] \in Nat
      <3>4. \A k \in 1 .. m : s[k] \in T /\ f[s[k]] \in Nat
        BY <2>2
      <3>5. ASSUME NEW k \in 1 .. m + 1 PROVE f[s[k]] <= w
        <4>1. CASE k = m + 1
          BY <4>1, <3>3
        <4>2. CASE k # m + 1
          <5>1. k \in 1 .. m
            BY <4>2
          <5>2. f[s[k]] <= n /\ f[s[k]] \in Nat
            BY <5>1, <3>1, <3>4
          <5> QED BY <5>2, <3>3
        <4> QED BY <4>1, <4>2
      <3>6. \A k \in 1 .. m + 1 : f[s[k]] <= w
        BY <3>5
      <3>7. Upto(m + 1)
        BY <3>3, <3>6
      <3> HIDE DEF Upto
      <3> QED BY <3>7
    <2> QED BY <2>1, <2>2
  <1>4. Nat \subseteq S
    <2> HIDE DEF S
    <2> QED BY <1>2, <1>3, Induction
  <1>5. Len(s) \in Nat /\ Len(s) \in S
    <2>1. Len(s) \in Nat
      BY <1>1
    <2> HIDE DEF S
    <2> QED BY <2>1, <1>4
  <1>6. PICK n \in Nat : \A k \in 1 .. Len(s) : f[s[k]] <= n
    BY <1>5
  <1> QED BY <1>1, <1>6

LEMMA PositionsFinite == IsFiniteSet(Positions) /\ Positions \subseteq Nat
  <1>1. (PageSize - TagSize) \div HeaderSize \in Int
    BY Sizes DEF HeaderSize, TagSize
  <1> DEFINE n == (PageSize - TagSize) \div HeaderSize
  <1>2. IsFiniteSet(1 .. n)
    <2> HIDE DEF n
    <2>1. n \in Int
      BY <1>1 DEF n
    <2> QED BY <2>1, FS_Interval
  <1> QED BY <1>1, <1>2 DEF Positions

LEMMA AddrsFinite == IsFiniteSet(Addrs)
  <1>1. VirtualPages - 1 \in Int
    BY Sizes
  <1> QED BY <1>1, FS_Interval DEF Addrs

\* A place of a nonempty set comes first.
LEMMA FirstFound ==
    ASSUME NEW P, P # {}, P \subseteq Idx \X Positions
    PROVE  FirstOf(P) \in P
  <1>1. Idx \subseteq Nat /\ Positions \subseteq Nat
    BY Sizes, PositionsFinite
  <1> DEFINE I == {p[1] : p \in P}
  <1>2. I \in SUBSET Nat /\ I # {}
    BY <1>1
  <1>3. PICK i \in I : \A j \in I : i <= j
    BY <1>2, LeastElement
  <1> DEFINE K == {p[2] : p \in {q \in P : q[1] = i}}
  <1>4. K \in SUBSET Nat /\ K # {}
    BY <1>1, <1>3
  <1>5. PICK k \in K : \A l \in K : k <= l
    BY <1>4, LeastElement
  <1>6. PICK p \in P : p[1] = i /\ p[2] = k
    BY <1>5
  <1>7. ASSUME NEW q \in P PROVE p = q \/ Before(p, q)
    <2>1. q[1] \in Nat /\ q[2] \in Nat /\ q = <<q[1], q[2]>> /\ p = <<p[1], p[2]>> /\ i <= q[1]
      <3>1. q \in Idx \X Positions /\ p \in Idx \X Positions
        OBVIOUS
      <3>2. q[1] \in I
        OBVIOUS
      <3>3. i <= q[1]
        BY <3>2, <1>3
      <3>4. q[1] \in Nat /\ q[2] \in Nat
        BY <3>1, <1>1
      <3>5. q = <<q[1], q[2]>> /\ p = <<p[1], p[2]>>
        BY <3>1
      <3> QED BY <3>3, <3>4, <3>5
    <2>2. CASE q[1] = i
      <3>1. q[2] \in K
        BY <2>2
      <3>2. k <= q[2] /\ k \in Nat /\ i \in Nat
        BY <3>1, <1>5, <1>4, <1>1, <1>3
      <3> QED BY <3>2, <2>1, <2>2, <1>6 DEF Before
    <2>3. CASE q[1] # i
      <3>1. i \in Nat /\ i < q[1]
        BY <2>1, <2>3, <1>2, <1>3
      <3> QED BY <3>1, <1>6 DEF Before
    <2> QED BY <2>2, <2>3
  <1>8. \E p0 \in P : \A q \in P : p0 = q \/ Before(p0, q)
    BY <1>7
  <1> QED BY <1>8 DEF FirstOf

-----------------------------------------------------------------------------
(* The records of a page.                                                  *)

\* Where the records of a page begin and end.
LEMMA ChainEnds ==
    ASSUME NEW recs \in Seq(Slots), Chain(recs)
    PROVE  /\ EndOf(<<>>) = TagSize
           /\ recs # <<>> => EndOf(recs) = recs[Len(recs)].off + recs[Len(recs)].len
           /\ EndOf(recs) \in Nat /\ EndOf(recs) >= TagSize
           /\ recs # <<>> => EndOf(recs) > TagSize
  <1>1. EndOf(<<>>) = TagSize
    BY DEF EndOf
  <1>2. CASE recs = <<>>
    BY <1>1, <1>2, Sizes
  <1>3. CASE recs # <<>>
    <2>1. Len(recs) \in DOMAIN recs /\ recs[Len(recs)] \in Slots
      BY <1>3
    <2>2. recs[Len(recs)].off \in Nat /\ recs[Len(recs)].len \in Nat
      BY <2>1 DEF Slots
    <2>3. recs[Len(recs)].len >= HeaderSize
      BY <2>1 DEF Chain
    <2>4. recs[Len(recs)].off >= TagSize
      <3> DEFINE S == {k \in Nat : k + 1 \in DOMAIN recs => recs[k + 1].off >= TagSize}
      <3>1. 0 \in S
        BY Sizes DEF Chain
      <3>2. ASSUME NEW k \in Nat, k \in S PROVE k + 1 \in S
        <4>1. SUFFICES ASSUME k + 2 \in DOMAIN recs PROVE recs[k + 2].off >= TagSize
          BY (k + 1) + 1 = k + 2
        <4>2. k + 1 \in DOMAIN recs
          BY <4>1
        <4>3. recs[k + 1].off >= TagSize /\ recs[k + 1].len >= HeaderSize
          BY <4>2, <3>2 DEF Chain
        <4>4. recs[k + 2].off = recs[k + 1].off + recs[k + 1].len
          <5>1. k + 2 # 1 /\ (k + 2) - 1 = k + 1
            OBVIOUS
          <5> QED BY <4>1, <5>1 DEF Chain
        <4>5. recs[k + 1] \in Slots
          BY <4>2
        <4>6. recs[k + 1].off \in Nat /\ recs[k + 1].len \in Nat
          BY <4>5 DEF Slots
        <4> QED BY <4>3, <4>4, <4>6, Sizes
      <3>3. Nat \subseteq S
        <4> HIDE DEF S
        <4> QED BY <3>1, <3>2, Induction
      <3>4. Len(recs) - 1 \in Nat
        BY <1>3
      <3>5. Len(recs) - 1 \in S
        <4> HIDE DEF S
        <4> QED BY <3>3, <3>4
      <3> QED BY <3>5, <2>1, <3>4
    <2>5. EndOf(recs) = recs[Len(recs)].off + recs[Len(recs)].len
      BY <1>3 DEF EndOf, Last
    <2> QED BY <1>1, <2>2, <2>3, <2>4, <2>5, <1>3, Sizes
  <1> QED BY <1>2, <1>3

\* A record ends before the next one begins, and before the end of them all.
LEMMA ChainOrder ==
    ASSUME NEW recs \in Seq(Slots), Chain(recs), NEW j \in DOMAIN recs
    PROVE  /\ \A k \in DOMAIN recs : k > j => recs[j].off + recs[j].len <= recs[k].off
           /\ recs[j].off + recs[j].len <= EndOf(recs)
           /\ recs[j].off >= TagSize /\ recs[j].len >= HeaderSize
           /\ recs[j].off \in Nat /\ recs[j].len \in Nat
  <1> DEFINE S == {n \in Nat : j + n + 1 \in DOMAIN recs =>
                      recs[j].off + recs[j].len <= recs[j + n + 1].off}
             R == {n \in Nat : n + 1 \in DOMAIN recs => recs[n + 1].off >= TagSize}
  <1>0. \A k \in DOMAIN recs : recs[k].off \in Nat /\ recs[k].len \in Nat
    <2>1. \A k \in DOMAIN recs : recs[k] \in Slots
      OBVIOUS
    <2> QED BY <2>1 DEF Slots
  <1>1. \A k \in DOMAIN recs : recs[k].len >= HeaderSize
    BY DEF Chain
  <1>2. ASSUME NEW k \in DOMAIN recs, k + 1 \in DOMAIN recs
        PROVE  recs[k + 1].off = recs[k].off + recs[k].len
    <2>1. k + 1 # 1 /\ (k + 1) - 1 = k /\ k \in Nat
      OBVIOUS
    <2> QED BY <1>2, <2>1 DEF Chain
  <1>3. 0 \in S
    BY <1>2, <1>0
  <1>4. ASSUME NEW n \in Nat, n \in S PROVE n + 1 \in S
    <2>1. SUFFICES ASSUME j + (n + 1) + 1 \in DOMAIN recs
                   PROVE  recs[j].off + recs[j].len <= recs[j + (n + 1) + 1].off
      OBVIOUS
    <2>2. j + n + 1 \in DOMAIN recs /\ j + (n + 1) + 1 = (j + n + 1) + 1
      <3>1. j \in Nat /\ j + (n + 1) + 1 = (j + n + 1) + 1
        OBVIOUS
      <3>2. j + n + 1 \in Nat \ {0} /\ j + n + 1 <= Len(recs)
        BY <2>1, <3>1
      <3> QED BY <3>1, <3>2
    <2>3. recs[(j + n + 1) + 1].off = recs[j + n + 1].off + recs[j + n + 1].len
      BY <2>1, <2>2, <1>2
    <2>4. recs[j].off + recs[j].len <= recs[j + n + 1].off
      BY <2>2, <1>4
    <2>5. recs[j + n + 1].off \in Nat /\ recs[j + n + 1].len \in Nat /\ recs[j].off \in Nat
          /\ recs[j].len \in Nat
      BY <2>2, <1>0
    <2>6. recs[j + (n + 1) + 1].off = recs[j + n + 1].off + recs[j + n + 1].len
      BY <2>2, <2>3
    <2> DEFINE a == recs[j].off + recs[j].len
               b == recs[j + n + 1].off
               c == recs[j + n + 1].len
               d == recs[j + (n + 1) + 1].off
    <2>7. a \in Nat /\ b \in Nat /\ c \in Nat
      BY <2>5
    <2>8. a <= b /\ d = b + c
      BY <2>4, <2>6
    <2>9. a <= d
      <3> HIDE DEF a, b, c, d
      <3> QED BY <2>7, <2>8
    <2> QED BY <2>9
  <1>5. Nat \subseteq S
    <2> HIDE DEF S
    <2> QED BY <1>3, <1>4, Induction
  <1>6. ASSUME NEW k \in DOMAIN recs, k > j
        PROVE  recs[j].off + recs[j].len <= recs[k].off
    <2>1. k - j - 1 \in Nat /\ j + (k - j - 1) + 1 = k
      BY <1>6
    <2>2. k - j - 1 \in S
      <3> HIDE DEF S
      <3> QED BY <2>1, <1>5
    <2> QED BY <2>1, <2>2
  <1>7. recs[j].off + recs[j].len <= EndOf(recs)
    <2>1. recs # <<>> /\ Len(recs) \in DOMAIN recs
      OBVIOUS
    <2>2. EndOf(recs) = recs[Len(recs)].off + recs[Len(recs)].len
      BY <2>1, ChainEnds
    <2>3. recs[j].off \in Nat /\ recs[j].len \in Nat /\ recs[Len(recs)].off \in Nat
          /\ recs[Len(recs)].len \in Nat
      BY <2>1, <1>0
    <2>4. CASE j = Len(recs)
      BY <2>2, <2>3, <2>4
    <2>5. CASE j # Len(recs)
      <3>1. Len(recs) > j
        BY <2>5, <2>1
      <3>2. recs[j].off + recs[j].len <= recs[Len(recs)].off
        BY <3>1, <2>1, <1>6
      <3> QED BY <3>2, <2>2, <2>3
    <2> QED BY <2>4, <2>5
  <1>8. 0 \in R
    BY Sizes DEF Chain
  <1>9. ASSUME NEW n \in Nat, n \in R PROVE n + 1 \in R
    <2>1. SUFFICES ASSUME (n + 1) + 1 \in DOMAIN recs PROVE recs[(n + 1) + 1].off >= TagSize
      OBVIOUS
    <2>2. n + 1 \in DOMAIN recs
      BY <2>1
    <2>3. recs[n + 1].off >= TagSize /\ recs[n + 1].off \in Nat /\ recs[n + 1].len \in Nat
      BY <2>2, <1>9, <1>0
    <2>4. recs[(n + 1) + 1].off = recs[n + 1].off + recs[n + 1].len
      BY <2>1, <2>2, <1>2
    <2> QED BY <2>3, <2>4, Sizes
  <1>10. recs[j].off >= TagSize
    <2>1. Nat \subseteq R
      <3> HIDE DEF R
      <3> QED BY <1>8, <1>9, Induction
    <2>2. j - 1 \in Nat /\ (j - 1) + 1 = j
      OBVIOUS
    <2>3. j - 1 \in R
      <3> HIDE DEF R
      <3> QED BY <2>1, <2>2
    <2> QED BY <2>2, <2>3
  <1> QED BY <1>0, <1>1, <1>6, <1>7, <1>10

\* One record more, behind the others.
LEMMA ChainAppend ==
    ASSUME NEW recs \in Seq(Slots), Chain(recs), NEW r \in Slots,
           r.off = EndOf(recs), r.len >= HeaderSize, r.st # "hole"
    PROVE  /\ Append(recs, r) \in Seq(Slots) /\ Chain(Append(recs, r))
           /\ Append(recs, r) # <<>> /\ Last(Append(recs, r)) = r
           /\ EndOf(Append(recs, r)) = r.off + r.len
  <1> DEFINE new == Append(recs, r)
  <1>1. new \in Seq(Slots) /\ Len(new) = Len(recs) + 1 /\ new # <<>> /\ new[Len(new)] = r
        /\ \A k \in 1 .. Len(recs) : new[k] = recs[k]
    OBVIOUS
  <1>2. ASSUME NEW k \in DOMAIN new
        PROVE  /\ new[k].len >= HeaderSize /\ new[k].st # "hole"
               /\ new[k].off = IF k = 1 THEN TagSize ELSE new[k - 1].off + new[k - 1].len
    <2>1. CASE k \in 1 .. Len(recs)
      <3>1. new[k] = recs[k] /\ k \in DOMAIN recs
        BY <2>1, <1>1
      <3>2. k # 1 => k - 1 \in 1 .. Len(recs) /\ new[k - 1] = recs[k - 1]
        BY <2>1, <1>1
      <3> HIDE DEF new
      <3> QED BY <3>1, <3>2 DEF Chain
    <2>2. CASE k = Len(recs) + 1
      <3>1. new[k] = r
        BY <2>2, <1>1
      <3>2. CASE recs = <<>>
        <4>1. k = 1 /\ EndOf(recs) = TagSize
          BY <3>2, <2>2 DEF EndOf
        <4> HIDE DEF new
        <4> QED BY <3>1, <4>1
      <3>3. CASE recs # <<>>
        <4>1. EndOf(recs) = recs[Len(recs)].off + recs[Len(recs)].len
          BY <3>3, ChainEnds
        <4>2. k - 1 = Len(recs) /\ k # 1 /\ Len(recs) \in 1 .. Len(recs)
          BY <3>3, <2>2
        <4>3. new[k - 1] = recs[Len(recs)]
          BY <4>2, <1>1
        <4> HIDE DEF new
        <4> QED BY <3>1, <4>1, <4>2, <4>3
      <3> QED BY <3>2, <3>3
    <2>3. k \in 1 .. Len(recs) \/ k = Len(recs) + 1
      BY <1>1
    <2> QED BY <2>1, <2>2, <2>3
  <1>3. Chain(new)
    <2> HIDE DEF new
    <2> QED BY <1>2 DEF Chain
  <1>4. EndOf(new) = r.off + r.len /\ Last(new) = r
    <2> HIDE DEF new
    <2> QED BY <1>1 DEF EndOf, Last
  <1> QED BY <1>1, <1>3, <1>4

\* The same records, with other contents.
LEMMA ChainSame ==
    ASSUME NEW recs \in Seq(Slots), Chain(recs), NEW new \in Seq(Slots),
           Len(new) = Len(recs),
           \A k \in DOMAIN recs : /\ new[k].off = recs[k].off /\ new[k].len = recs[k].len
                                  /\ new[k].st # "hole"
    PROVE  /\ Chain(new) /\ EndOf(new) = EndOf(recs) /\ (new = <<>> <=> recs = <<>>)
           /\ recs # <<>> => Last(new).off = Last(recs).off /\ Last(new).len = Last(recs).len
  <1>1. /\ Len(new) = Len(recs) /\ (new = <<>> <=> recs = <<>>)
        /\ DOMAIN new = DOMAIN recs /\ DOMAIN recs = 1 .. Len(recs)
    OBVIOUS
  <1>2. Chain(new)
    <2>1. SUFFICES ASSUME NEW k \in DOMAIN new
                   PROVE /\ new[k].len >= HeaderSize /\ new[k].st # "hole"
                         /\ new[k].off = IF k = 1 THEN TagSize ELSE new[k - 1].off + new[k - 1].len
      BY DEF Chain
    <2>2. k \in DOMAIN recs /\ (k # 1 => k - 1 \in DOMAIN recs)
      BY <1>1
    <2> QED BY <2>2 DEF Chain
  <1>3. recs # <<>> => Last(new).off = Last(recs).off /\ Last(new).len = Last(recs).len
    <2>1. recs # <<>> => Len(recs) \in DOMAIN recs
      OBVIOUS
    <2> QED BY <2>1, <1>1 DEF Last
  <1>4. EndOf(new) = EndOf(recs)
    BY <1>1, <1>3 DEF EndOf
  <1> QED BY <1>1, <1>2, <1>3, <1>4

-----------------------------------------------------------------------------
(* What the flash operations do to a page.                                 *)

LEMMA SlotChanged ==
    ASSUME NEW recs \in Seq(Slots), NEW k, NEW v,
           k \in DOMAIN recs => v \in Slots /\ v.off = recs[k].off /\ v.len = recs[k].len
                                /\ v.st # "hole",
           \A j \in DOMAIN recs : recs[j].st # "hole"
    PROVE  LET new == [recs EXCEPT ![k] = v] IN
           /\ new \in Seq(Slots) /\ Len(new) = Len(recs)
           /\ \A j \in DOMAIN recs :
                 /\ new[j].off = recs[j].off /\ new[j].len = recs[j].len /\ new[j].st # "hole"
                 /\ j # k => new[j] = recs[j]
  <1>1. CASE k \in DOMAIN recs
    BY <1>1
  <1>2. CASE k \notin DOMAIN recs
    <2>1. [recs EXCEPT ![k] = v] = recs
      BY <1>2
    <2> QED BY <2>1, <1>2
  <1> QED BY <1>1, <1>2

\* Those that change contents of a record, or a tag, leave the records where
\* they are, and change no other record.
InPlace(page, new, off) ==
    /\ new \in Page /\ Len(new.recs) = Len(page.recs)
    /\ \A k \in DOMAIN page.recs :
          /\ new.recs[k].off = page.recs[k].off /\ new.recs[k].len = page.recs[k].len
          /\ new.recs[k].st # "hole"
          /\ (\E j \in DOMAIN page.recs : page.recs[j].off = off)
                /\ page.recs[k].off # off => new.recs[k] = page.recs[k]

LEMMA WritesInPlace ==
    ASSUME NEW page \in Page, NEW o, Chain(page.recs),
           o.kind \in {"id", "chunk", "final", "dirty"},
           o.kind \in WriteKinds => o.rec \in WriteInfo
    PROVE  InPlace(page, Written(page, o), o.off) /\ Written(page, o).tag = page.tag
  <1> DEFINE k == At(page.recs, o.off)
             recs == page.recs
             new == Written(page, o)
  <1>0. /\ recs \in Seq(Slots) /\ page.tag \in Tags /\ page = [tag |-> page.tag, recs |-> recs]
        /\ \A j \in DOMAIN recs : recs[j] \in Slots /\ recs[j].st # "hole"
    <2>1. recs \in Seq(Slots) /\ page.tag \in Tags /\ page = [tag |-> page.tag, recs |-> recs]
      BY DEF Page
    <2>2. \A j \in DOMAIN recs : recs[j].st # "hole"
      BY DEF Chain
    <2> QED BY <2>1, <2>2
  <1>1. (\E j \in DOMAIN recs : recs[j].off = o.off) => k \in DOMAIN recs /\ recs[k].off = o.off
    BY DEF At
  <1>2. \E v : /\ k \in DOMAIN recs => /\ v \in Slots /\ v.off = recs[k].off
                                       /\ v.len = recs[k].len /\ v.st # "hole"
               /\ new = [tag |-> page.tag, recs |-> [recs EXCEPT ![k] = v]]
    <2>1. CASE o.kind = "id"
      <3> DEFINE v == [recs[k] EXCEPT !.id = o.rec.id]
      <3>1. new = [tag |-> page.tag, recs |-> [recs EXCEPT ![k] = v]]
        BY <2>1, <1>0 DEF Written
      <3>2. o.rec.id \in Nat
        BY <2>1 DEF WriteKinds, WriteInfo
      <3>3. k \in DOMAIN recs => v \in Slots /\ v.off = recs[k].off
                                       /\ v.len = recs[k].len /\ v.st # "hole"
        BY <1>0, <3>2 DEF Slots
      <3> HIDE DEF v, new, k, recs
      <3> QED BY <3>1, <3>3
    <2>2. CASE o.kind = "chunk"
      <3> DEFINE v == [recs[k] EXCEPT !.own = recs[k].own /\ o.rec.own]
      <3>1. new = [tag |-> page.tag, recs |-> [recs EXCEPT ![k] = v]]
        BY <2>2, <1>0 DEF Written
      <3>2. o.rec.own \in BOOLEAN
        BY <2>2 DEF WriteKinds, WriteInfo
      <3>3. k \in DOMAIN recs => v \in Slots /\ v.off = recs[k].off
                                       /\ v.len = recs[k].len /\ v.st # "hole"
        BY <1>0, <3>2 DEF Slots
      <3> HIDE DEF v, new, k, recs
      <3> QED BY <3>1, <3>3
    <2>3. CASE o.kind = "final"
      <3> DEFINE v == [recs[k] EXCEPT !.file = o.rec.file, !.st = "valid"]
      <3>1. new = [tag |-> page.tag, recs |-> [recs EXCEPT ![k] = v]]
        BY <2>3, <1>0 DEF Written
      <3>2. o.rec.file \in Files \cup {NoFile}
        BY <2>3 DEF WriteKinds, WriteInfo
      <3>3. k \in DOMAIN recs => v \in Slots /\ v.off = recs[k].off
                                       /\ v.len = recs[k].len /\ v.st # "hole"
        BY <1>0, <3>2 DEF Slots
      <3> HIDE DEF v, new, k, recs
      <3> QED BY <3>1, <3>3
    <2>4. CASE o.kind = "dirty"
      <3> DEFINE v == [recs[k] EXCEPT !.st = "dirty"]
      <3>1. new = [tag |-> page.tag, recs |-> [recs EXCEPT ![k] = v]]
        BY <2>4, <1>0 DEF Written
      <3>3. k \in DOMAIN recs => v \in Slots /\ v.off = recs[k].off
                                       /\ v.len = recs[k].len /\ v.st # "hole"
        BY <1>0 DEF Slots
      <3> HIDE DEF v, new, k, recs
      <3> QED BY <3>1, <3>3
    <2> QED BY <2>1, <2>2, <2>3, <2>4
  <1>3. PICK v : /\ k \in DOMAIN recs => /\ v \in Slots /\ v.off = recs[k].off
                                         /\ v.len = recs[k].len /\ v.st # "hole"
                 /\ new = [tag |-> page.tag, recs |-> [recs EXCEPT ![k] = v]]
    BY <1>2
  <1> DEFINE r == [recs EXCEPT ![k] = v]
  <1>4. /\ r \in Seq(Slots) /\ Len(r) = Len(recs)
        /\ \A j \in DOMAIN recs :
              /\ r[j].off = recs[j].off /\ r[j].len = recs[j].len /\ r[j].st # "hole"
              /\ j # k => r[j] = recs[j]
    <2> HIDE DEF k, recs
    <2> QED BY <1>0, <1>3, SlotChanged
  <1>5. new.recs = r /\ new.tag = page.tag /\ new \in Page
    <2> HIDE DEF r, new, k, recs
    <2>1. new = [tag |-> page.tag, recs |-> r]
      BY <1>3 DEF r
    <2> QED BY <2>1, <1>0, <1>4 DEF Page
  <1>6. ASSUME NEW j \in DOMAIN recs,
               \E i \in DOMAIN recs : recs[i].off = o.off, recs[j].off # o.off
        PROVE  r[j] = recs[j]
    <2> HIDE DEF r, new, k, recs
    <2> QED BY <1>1, <1>4, <1>6
  <1> HIDE DEF r, new, k
  <1> QED BY <1>4, <1>5, <1>6 DEF InPlace, new

LEMMA WritesTag ==
    ASSUME NEW page \in Page, NEW o, o.kind \in {"swap", "data"}
    PROVE  LET new == Written(page, o) IN
           new \in Page /\ new.recs = page.recs /\ new.tag = Tagged(page.tag, o.kind)
  <1>1. page = [tag |-> page.tag, recs |-> page.recs] /\ page.recs \in Seq(Slots) /\ page.tag \in Tags
    BY DEF Page
  <1>2. Written(page, o) = [tag |-> Tagged(page.tag, o.kind), recs |-> page.recs]
    BY <1>1 DEF Written
  <1>3. Tagged(page.tag, o.kind) \in Tags
    BY <1>1 DEF Tagged, Tags
  <1> QED BY <1>1, <1>2, <1>3 DEF Page

\* Those that append a record.
LEMMA WritesBehind ==
    ASSUME NEW page \in Page, Chain(page.recs), NEW o, o.off = EndOf(page.recs),
           \/ o.kind = "begin" /\ o.rec \in WriteInfo /\ o.rec.len >= HeaderSize
           \/ o.kind = "copy" /\ o.rec \in Slots /\ o.rec.off = o.off
              /\ o.rec.len >= HeaderSize /\ o.rec.st # "hole"
    PROVE  \E r \in Slots :
              /\ r.off = o.off /\ r.len = o.rec.len
              /\ o.kind = "begin" => r.st = "begun"
              /\ o.kind = "copy" => r = o.rec
              /\ Written(page, o) = [tag |-> page.tag, recs |-> Append(page.recs, r)]
              /\ Written(page, o) \in Page /\ Chain(Append(page.recs, r))
              /\ Append(page.recs, r) # <<>> /\ Last(Append(page.recs, r)) = r
              /\ EndOf(Append(page.recs, r)) = r.off + r.len
  <1>1. page = [tag |-> page.tag, recs |-> page.recs] /\ page.recs \in Seq(Slots) /\ page.tag \in Tags
    BY DEF Page
  <1>2. o.off \in Nat
    BY <1>1, ChainEnds
  <1>3. PICK r \in Slots : /\ r.off = o.off /\ r.len = o.rec.len /\ r.st # "hole"
                           /\ o.kind = "begin" => r.st = "begun"
                           /\ o.kind = "copy" => r = o.rec
                           /\ Written(page, o) = [tag |-> page.tag, recs |-> Append(page.recs, r)]
    <2>1. CASE o.kind = "begin"
      <3> DEFINE r == [id |-> 0, file |-> NoFile, off |-> o.off, len |-> o.rec.len,
                       st |-> "begun", own |-> TRUE]
      <3>1. r \in Slots
        BY <2>1, <1>2 DEF Slots, WriteInfo
      <3>2. Begun(page.recs, o.off, o.rec) = Append(page.recs, r)
        BY <1>2 DEF Begun
      <3>3. Written(page, o) = [tag |-> page.tag, recs |-> Append(page.recs, r)]
        <4> HIDE DEF r
        <4> QED BY <3>2, <2>1, <1>1 DEF Written
      <3> QED BY <3>1, <3>3, <2>1
    <2>2. CASE o.kind = "copy"
      <3>1. Written(page, o) = [tag |-> page.tag, recs |-> Append(page.recs, o.rec)]
        BY <2>2, <1>1 DEF Written
      <3> QED BY <3>1, <2>2
    <2> QED BY <2>1, <2>2
  <1>4. /\ Append(page.recs, r) \in Seq(Slots) /\ Chain(Append(page.recs, r))
        /\ Append(page.recs, r) # <<>> /\ Last(Append(page.recs, r)) = r
        /\ EndOf(Append(page.recs, r)) = r.off + r.len
    BY <1>1, <1>3, ChainAppend
  <1>5. Written(page, o) \in Page
    BY <1>3, <1>4, <1>1 DEF Page
  <1> QED BY <1>3, <1>4, <1>5

-----------------------------------------------------------------------------
(* Sums of sequences.                                                      *)

IsSum(f, s) == f = [k \in 0 .. Len(s) |-> IF k = 0 THEN 0 ELSE s[k] + f[k - 1]]

LEMMA SumAt ==
    ASSUME NEW s \in Seq(Nat), NEW f, IsSum(f, s)
    PROVE  f[0] = 0 /\ \A k \in 1 .. Len(s) : f[k] = s[k] + f[k - 1]
  <1>1. f = [k \in 0 .. Len(s) |-> IF k = 0 THEN 0 ELSE s[k] + f[k - 1]]
    BY DEF IsSum
  <1>2. 0 \in 0 .. Len(s) /\ \A k \in 1 .. Len(s) : k \in 0 .. Len(s) /\ k # 0
    OBVIOUS
  <1>3. f[0] = 0
    BY <1>1, <1>2
  <1>4. ASSUME NEW k \in 1 .. Len(s) PROVE f[k] = s[k] + f[k - 1]
    BY <1>1, <1>2
  <1> QED BY <1>3, <1>4

LEMMA SumExists ==
    ASSUME NEW s \in Seq(Nat)
    PROVE  \E f : IsSum(f, s)
  <1> DEFINE a == [n \in Nat |-> IF n + 1 \in DOMAIN s THEN s[n + 1] ELSE 0]
  <1>1. a \in [Nat -> Nat]
    OBVIOUS
  <1>2. PICK f \in [Nat -> Nat] : f = [n \in Nat |-> IF n = 0 THEN 0 ELSE a[n - 1] + f[n - 1]]
    <2> HIDE DEF a
    <2> QED BY <1>1, Sums
  <1> DEFINE g == [k \in 0 .. Len(s) |-> f[k]]
  <1>3. ASSUME NEW k \in 0 .. Len(s)
        PROVE  g[k] = IF k = 0 THEN 0 ELSE s[k] + g[k - 1]
    <2>1. k \in Nat /\ g[k] = f[k]
      OBVIOUS
    <2>2. CASE k = 0
      <3> HIDE DEF a
      <3> QED BY <2>1, <2>2, <1>2
    <2>3. CASE k # 0
      <3>1. k - 1 \in 0 .. Len(s) /\ k - 1 \in Nat /\ (k - 1) + 1 = k /\ k \in DOMAIN s
        <4>1. DOMAIN s = 1 .. Len(s) /\ Len(s) \in Nat
          OBVIOUS
        <4>2. k \in 1 .. Len(s)
          BY <2>3, <4>1
        <4> HIDE DEF a, g
        <4> QED BY <4>1, <4>2
      <3>2. a[k - 1] = s[k] /\ g[k - 1] = f[k - 1]
        BY <3>1
      <3>3. f[k] = a[k - 1] + f[k - 1]
        <4> HIDE DEF a
        <4> QED BY <1>2, <2>1, <2>3
      <3> HIDE DEF a, g
      <3> QED BY <2>1, <2>3, <3>2, <3>3
    <2> QED BY <2>2, <2>3
  <1>4. g = [k \in 0 .. Len(s) |-> IF k = 0 THEN 0 ELSE s[k] + g[k - 1]]
    BY <1>3
  <1> HIDE DEF g
  <1> QED BY <1>4 DEF IsSum

\* There is one sum.
LEMMA SumUnique ==
    ASSUME NEW s \in Seq(Nat), NEW f, IsSum(f, s), NEW g, IsSum(g, s)
    PROVE  f[Len(s)] = g[Len(s)] /\ f[Len(s)] \in Nat
  <1> DEFINE S == {k \in Nat : k <= Len(s) => f[k] = g[k] /\ f[k] \in Nat}
  <1>1. /\ f[0] = 0 /\ \A k \in 1 .. Len(s) : f[k] = s[k] + f[k - 1]
        /\ g[0] = 0 /\ \A k \in 1 .. Len(s) : g[k] = s[k] + g[k - 1]
    BY SumAt
  <1>2. 0 \in S
    BY <1>1
  <1>3. ASSUME NEW k \in Nat, k \in S PROVE k + 1 \in S
    <2>1. SUFFICES ASSUME k + 1 <= Len(s) PROVE f[k + 1] = g[k + 1] /\ f[k + 1] \in Nat
      OBVIOUS
    <2>2. k + 1 \in 1 .. Len(s) /\ (k + 1) - 1 = k /\ s[k + 1] \in Nat
      BY <2>1
    <2>3. f[k + 1] = s[k + 1] + f[k] /\ g[k + 1] = s[k + 1] + g[k]
      BY <2>2, <1>1
    <2>4. f[k] = g[k] /\ f[k] \in Nat
      BY <2>1, <1>3
    <2> QED BY <2>2, <2>3, <2>4
  <1>4. Nat \subseteq S
    <2> HIDE DEF S
    <2> QED BY <1>2, <1>3, Induction
  <1>5. Len(s) \in Nat
    OBVIOUS
  <1>6. Len(s) \in S
    <2> HIDE DEF S
    <2> QED BY <1>4, <1>5
  <1> QED BY <1>6

LEMMA TotalIs ==
    ASSUME NEW s \in Seq(Nat), NEW f, IsSum(f, s)
    PROVE  Total(s) = f[Len(s)] /\ Total(s) \in Nat
  <1> DEFINE g == CHOOSE h : h = [k \in 0 .. Len(s) |-> IF k = 0 THEN 0 ELSE s[k] + h[k - 1]]
  <1>1. Total(s) = g[Len(s)]
    BY DEF Total
  <1>2. IsSum(g, s)
    BY DEF IsSum
  <1>3. g[Len(s)] = f[Len(s)] /\ g[Len(s)] \in Nat
    <2> HIDE DEF g
    <2> QED BY <1>2, SumUnique
  <1> QED BY <1>1, <1>3

LEMMA TotalEmpty == Total(<<>>) = 0
  <1>1. <<>> \in Seq(Nat) /\ Len(<<>>) = 0
    OBVIOUS
  <1>2. PICK f : IsSum(f, <<>>)
    BY <1>1, SumExists
  <1>3. f[0] = 0
    BY <1>1, <1>2, SumAt
  <1>4. Total(<<>>) = f[Len(<<>>)]
    BY <1>1, <1>2, TotalIs
  <1> QED BY <1>1, <1>3, <1>4

LEMMA TotalAppend ==
    ASSUME NEW s \in Seq(Nat), NEW x \in Nat
    PROVE  Total(Append(s, x)) = Total(s) + x
  <1> DEFINE t == Append(s, x)
  <1>1. /\ t \in Seq(Nat) /\ Len(t) = Len(s) + 1 /\ t[Len(s) + 1] = x
        /\ \A k \in 1 .. Len(s) : t[k] = s[k]
    OBVIOUS
  <1>2. PICK f : IsSum(f, s)
    BY SumExists
  <1>3. f[0] = 0 /\ \A k \in 1 .. Len(s) : f[k] = s[k] + f[k - 1]
    BY <1>2, SumAt
  <1>4. Total(s) = f[Len(s)] /\ Total(s) \in Nat
    BY <1>2, TotalIs
  <1> DEFINE g == [k \in 0 .. Len(s) + 1 |-> IF k <= Len(s) THEN f[k] ELSE x + f[Len(s)]]
  <1>5. ASSUME NEW k \in 0 .. Len(s) + 1
        PROVE  g[k] = IF k = 0 THEN 0 ELSE t[k] + g[k - 1]
    <2>1. CASE k = 0
      BY <2>1, <1>3
    <2>2. CASE k \in 1 .. Len(s)
      <3>1. k - 1 \in 0 .. Len(s) + 1 /\ k - 1 <= Len(s) /\ k # 0
        BY <2>2
      <3>2. g[k] = f[k] /\ g[k - 1] = f[k - 1]
        BY <2>2, <3>1
      <3>3. t[k] = s[k] /\ f[k] = s[k] + f[k - 1]
        BY <2>2, <1>1, <1>3
      <3> HIDE DEF g, t
      <3> QED BY <3>1, <3>2, <3>3
    <2>3. CASE k = Len(s) + 1
      <3>1. g[k] = x + f[Len(s)] /\ g[k - 1] = f[Len(s)] /\ k # 0
        BY <2>3
      <3>2. t[k] = x
        BY <2>3, <1>1
      <3> HIDE DEF g, t
      <3> QED BY <3>1, <3>2
    <2> QED BY <2>1, <2>2, <2>3
  <1>6. IsSum(g, t)
    <2>1. Len(t) = Len(s) + 1
      BY <1>1
    <2>2. g = [k \in 0 .. Len(s) + 1 |-> IF k = 0 THEN 0 ELSE t[k] + g[k - 1]]
      <3> HIDE DEF t
      <3> QED BY <1>5
    <2> HIDE DEF g, t
    <2> QED BY <2>1, <2>2 DEF IsSum
  <1>7. Total(t) = g[Len(t)]
    <2> HIDE DEF g, t
    <2> QED BY <1>1, <1>6, TotalIs
  <1>8. g[Len(s) + 1] = x + f[Len(s)]
    OBVIOUS
  <1> HIDE DEF g, t
  <1>9. Total(t) = x + Total(s)
    BY <1>1, <1>4, <1>7, <1>8
  <1> QED BY <1>9, <1>4 DEF t

LEMMA TotalTail ==
    ASSUME NEW s \in Seq(Nat), s # <<>>
    PROVE  Total(s) = s[1] + Total(Tail(s)) /\ Total(Tail(s)) \in Nat
  <1> DEFINE t == Tail(s)
  <1>1. /\ t \in Seq(Nat) /\ Len(t) = Len(s) - 1 /\ Len(s) \in Nat \ {0}
        /\ \A k \in 1 .. Len(s) - 1 : t[k] = s[k + 1]
    OBVIOUS
  <1>2. PICK f : IsSum(f, t)
    <2> HIDE DEF t
    <2> QED BY <1>1, SumExists
  <1>3. f[0] = 0 /\ \A k \in 1 .. Len(s) - 1 : f[k] = t[k] + f[k - 1]
    <2> HIDE DEF t
    <2> QED BY <1>1, <1>2, SumAt
  <1>4. Total(t) = f[Len(s) - 1] /\ Total(t) \in Nat
    <2> HIDE DEF t
    <2> QED BY <1>1, <1>2, TotalIs
  <1>4a. \A k \in 0 .. Len(s) - 1 : f[k] \in Nat
    <2> DEFINE S == {k \in Nat : k <= Len(s) - 1 => f[k] \in Nat}
    <2>1. 0 \in S
      BY <1>3
    <2>2. ASSUME NEW k \in Nat, k \in S PROVE k + 1 \in S
      <3>1. SUFFICES ASSUME k + 1 <= Len(s) - 1 PROVE f[k + 1] \in Nat
        OBVIOUS
      <3>2. k + 1 \in 1 .. Len(s) - 1 /\ (k + 1) - 1 = k /\ f[k] \in Nat
        BY <3>1, <2>2, <1>1
      <3>3. t[k + 1] \in Nat
        <4>1. k + 1 \in 1 .. Len(t)
          BY <3>2, <1>1
        <4> HIDE DEF t
        <4> QED BY <4>1, <1>1
      <3> HIDE DEF t
      <3> QED BY <3>2, <3>3, <1>3
    <2>3. Nat \subseteq S
      <3> HIDE DEF S
      <3> QED BY <2>1, <2>2, Induction
    <2> QED BY <2>3
  <1> DEFINE g == [k \in 0 .. Len(s) |-> IF k = 0 THEN 0 ELSE s[1] + f[k - 1]]
  <1>5. ASSUME NEW k \in 0 .. Len(s)
        PROVE  g[k] = IF k = 0 THEN 0 ELSE s[k] + g[k - 1]
    <2>1. CASE k = 0
      BY <2>1
    <2>2. CASE k = 1
      <3>1. g[k] = s[1] + f[0] /\ g[k - 1] = 0 /\ s[1] \in Nat
        BY <2>2, <1>1
      <3> HIDE DEF g
      <3> QED BY <3>1, <2>2, <1>3
    <2>3. CASE k > 1
      <3>1. k - 1 \in 1 .. Len(s) - 1 /\ k - 1 # 0 /\ k # 0 /\ (k - 1) + 1 = k
            /\ k - 1 \in 0 .. Len(s) /\ (k - 1) - 1 \in 0 .. Len(s) - 1
        BY <2>3, <1>1
      <3>2. g[k] = s[1] + f[k - 1] /\ g[k - 1] = s[1] + f[(k - 1) - 1]
        BY <3>1
      <3>3. f[k - 1] = t[k - 1] + f[(k - 1) - 1] /\ t[k - 1] = s[k]
        <4> HIDE DEF g, t
        <4> QED BY <3>1, <1>1, <1>3
      <3>4. s[1] \in Nat /\ s[k] \in Nat /\ f[(k - 1) - 1] \in Nat
        BY <3>1, <1>1, <1>4a
      <3> HIDE DEF g, t
      <3> QED BY <3>1, <3>2, <3>3, <3>4
    <2> QED BY <2>1, <2>2, <2>3
  <1>6. IsSum(g, s)
    <2>1. g = [k \in 0 .. Len(s) |-> IF k = 0 THEN 0 ELSE s[k] + g[k - 1]]
      <3> HIDE DEF t
      <3> QED BY <1>5
    <2> HIDE DEF g, t
    <2> QED BY <2>1 DEF IsSum
  <1>7. Total(s) = g[Len(s)]
    <2> HIDE DEF g
    <2> QED BY <1>6, TotalIs
  <1>8. g[Len(s)] = s[1] + f[Len(s) - 1]
    BY <1>1
  <1> HIDE DEF g, t
  <1>9. Total(s) = s[1] + Total(t)
    BY <1>4, <1>7, <1>8
  <1> QED BY <1>9, <1>4 DEF t

-----------------------------------------------------------------------------
(* The words that the queue and the token have reserved.                   *)

Words(i, q) == [k \in DOMAIN q |-> WordsOn(i, q[k])]

TokenOn(i) == IF token.page = i THEN RecordLen(token.chunks) ELSE 0

LEMMA WordsOnTyped ==
    ASSUME NEW i \in Idx, NEW op \in OpInfo
    PROVE  WordsOn(i, op) \in Nat
  BY DEF WordsOn, OpInfo

LEMMA WordsTyped ==
    ASSUME NEW i \in Idx, NEW q \in Seq(OpInfo)
    PROVE  /\ Words(i, q) \in Seq(Nat) /\ Len(Words(i, q)) = Len(q)
           /\ DOMAIN Words(i, q) = DOMAIN q
           /\ \A k \in DOMAIN q : Words(i, q)[k] = WordsOn(i, q[k])
  <1>1. \A k \in DOMAIN q : q[k] \in OpInfo
    OBVIOUS
  <1>2. \A k \in DOMAIN q : WordsOn(i, q[k]) \in Nat
    BY <1>1, WordsOnTyped
  <1>3. DOMAIN q = 1 .. Len(q) /\ Len(q) \in Nat
    OBVIOUS
  <1> QED BY <1>2, <1>3 DEF Words

LEMMA WordsAppend ==
    ASSUME NEW i \in Idx, NEW q \in Seq(OpInfo), NEW op \in OpInfo
    PROVE  Total(Words(i, Append(q, op))) = Total(Words(i, q)) + WordsOn(i, op)
  <1> DEFINE w == Words(i, q)
             v == Words(i, Append(q, op))
  <1>0. Append(q, op) \in Seq(OpInfo) /\ Len(Append(q, op)) = Len(q) + 1
        /\ Append(q, op)[Len(q) + 1] = op
        /\ \A k \in 1 .. Len(q) : Append(q, op)[k] = q[k]
    OBVIOUS
  <1>1. w \in Seq(Nat) /\ Len(w) = Len(q) /\ WordsOn(i, op) \in Nat
        /\ \A k \in 1 .. Len(q) : w[k] = WordsOn(i, q[k])
    BY WordsTyped, WordsOnTyped
  <1>2. v \in Seq(Nat) /\ Len(v) = Len(q) + 1 /\ v[Len(q) + 1] = WordsOn(i, op)
        /\ \A k \in 1 .. Len(q) : v[k] = WordsOn(i, q[k])
    <2> DEFINE a == Append(q, op)
    <2>1. DOMAIN a = 1 .. Len(q) + 1
      OBVIOUS
    <2> HIDE DEF a
    <2>2. Words(i, a) \in Seq(Nat) /\ Len(Words(i, a)) = Len(a)
          /\ \A k \in DOMAIN a : Words(i, a)[k] = WordsOn(i, a[k])
      BY <1>0, WordsTyped DEF a
    <2>3. Len(a) = Len(q) + 1 /\ a[Len(q) + 1] = op /\ \A k \in 1 .. Len(q) : a[k] = q[k]
      BY <1>0 DEF a
    <2>4. Len(q) + 1 \in 1 .. Len(q) + 1 /\ \A k \in 1 .. Len(q) : k \in 1 .. Len(q) + 1
      OBVIOUS
    <2>5. Words(i, a)[Len(q) + 1] = WordsOn(i, op)
          /\ \A k \in 1 .. Len(q) : Words(i, a)[k] = WordsOn(i, q[k])
      BY <2>1, <2>2, <2>3, <2>4
    <2> QED BY <2>2, <2>3, <2>5 DEF a
  <1>3. v = Append(w, WordsOn(i, op))
    <2> HIDE DEF v, w
    <2> QED BY <1>1, <1>2
  <1> HIDE DEF v, w
  <1>4. Total(v) = Total(w) + WordsOn(i, op)
    BY <1>1, <1>3, TotalAppend
  <1> QED BY <1>4 DEF v, w

LEMMA WordsTail ==
    ASSUME NEW i \in Idx, NEW q \in Seq(OpInfo), q # <<>>
    PROVE  /\ Total(Words(i, q)) = WordsOn(i, q[1]) + Total(Words(i, Tail(q)))
           /\ Total(Words(i, Tail(q))) \in Nat /\ WordsOn(i, q[1]) \in Nat
  <1> DEFINE w == Words(i, q)
             t == Tail(q)
             v == Words(i, t)
  <1>1. w \in Seq(Nat) /\ Len(w) = Len(q) /\ Len(q) \in Nat \ {0}
        /\ \A k \in 1 .. Len(q) : w[k] = WordsOn(i, q[k])
    BY WordsTyped
  <1>2. t \in Seq(OpInfo) /\ Len(t) = Len(q) - 1 /\ DOMAIN t = 1 .. Len(q) - 1
        /\ \A k \in 1 .. Len(q) - 1 : t[k] = q[k + 1]
    OBVIOUS
  <1>3. v \in Seq(Nat) /\ Len(v) = Len(t)
        /\ \A k \in DOMAIN t : v[k] = WordsOn(i, t[k])
    <2> HIDE DEF t
    <2> QED BY <1>2, WordsTyped
  <1>4. v = Tail(w)
    <2> HIDE DEF v, w, t
    <2>1. ASSUME NEW k \in 1 .. Len(q) - 1 PROVE v[k] = w[k + 1]
      <3>1. k \in DOMAIN t /\ k + 1 \in 1 .. Len(q)
        BY <1>1, <1>2
      <3>2. v[k] = WordsOn(i, t[k]) /\ t[k] = q[k + 1]
        BY <3>1, <1>2, <1>3
      <3>3. w[k + 1] = WordsOn(i, q[k + 1])
        BY <3>1, <1>1
      <3> QED BY <3>2, <3>3
    <2>2. w # <<>> /\ Tail(w) \in Seq(Nat) /\ Len(Tail(w)) = Len(q) - 1
          /\ \A k \in 1 .. Len(q) - 1 : Tail(w)[k] = w[k + 1]
      BY <1>1
    <2>3. v \in Seq(Nat) /\ Len(v) = Len(q) - 1
      BY <1>2, <1>3
    <2>4. \A k \in 1 .. Len(q) - 1 : v[k] = Tail(w)[k]
      BY <2>1, <2>2
    <2>5. v = Tail(w)
      <3> DEFINE x == Tail(w)
      <3> HIDE DEF x
      <3>1. x \in Seq(Nat) /\ Len(x) = Len(q) - 1 /\ \A k \in 1 .. Len(q) - 1 : v[k] = x[k]
        BY <2>2, <2>4 DEF x
      <3>2. Len(v) = Len(x) /\ \A k \in 1 .. Len(v) : v[k] = x[k]
        BY <2>3, <3>1
      <3>3. v \in [1 .. Len(v) -> Nat] /\ x \in [1 .. Len(v) -> Nat]
        BY <2>3, <3>1, <3>2
      <3>4. v = x
        BY <3>2, <3>3
      <3> QED BY <3>4 DEF x
    <2> QED BY <2>5
  <1>5. w # <<>> /\ w[1] = WordsOn(i, q[1]) /\ w[1] \in Nat
    <2> HIDE DEF w
    <2> QED BY <1>1
  <1>6. Total(w) = w[1] + Total(Tail(w)) /\ Total(Tail(w)) \in Nat
    <2> HIDE DEF w
    <2> QED BY <1>1, <1>5, TotalTail
  <1> HIDE DEF v, w
  <1> QED BY <1>4, <1>5, <1>6 DEF v, w

LEMMA WordsNone ==
    ASSUME NEW i \in Idx
    PROVE  Total(Words(i, <<>>)) = 0
  <1>1. Words(i, <<>>) = <<>>
    BY DEF Words
  <1> QED BY <1>1, TotalEmpty

LEMMA Reserved ==
    ASSUME Typed, NEW i \in Idx
    PROVE  /\ ReservedOn(i) = TokenOn(i) + Total(Words(i, opq))
           /\ TokenOn(i) \in Nat /\ Total(Words(i, opq)) \in Nat
           /\ opq # <<>> => ReservedOn(i) >= WordsOn(i, Current) /\ WordsOn(i, Current) \in Nat
  <1>1. ReservedOn(i) = TokenOn(i) + Total(Words(i, opq))
    BY DEF ReservedOn, TokenOn, Words
  <1>2. TokenOn(i) \in Nat
    <2>1. CASE token \in [page : Idx, chunks : ChunkCounts]
      BY <2>1, RecordLens DEF TokenOn
    <2>2. CASE token = NoToken
      <3>1. token.page # i
        BY <2>2, Sizes DEF NoToken, NoAddr
      <3> QED BY <3>1 DEF TokenOn
    <2> QED BY <2>1, <2>2 DEF Typed
  <1>3. opq \in Seq(OpInfo)
    BY DEF Typed
  <1>4. Total(Words(i, opq)) \in Nat
    <2>1. Words(i, opq) \in Seq(Nat)
      BY <1>3, WordsTyped
    <2>2. PICK f : IsSum(f, Words(i, opq))
      BY <2>1, SumExists
    <2> QED BY <2>1, <2>2, TotalIs
  <1>5. opq # <<>> => /\ Total(Words(i, opq)) >= WordsOn(i, Current)
                      /\ WordsOn(i, Current) \in Nat
    BY <1>3, WordsTail DEF Current
  <1> QED BY <1>1, <1>2, <1>4, <1>5

-----------------------------------------------------------------------------
(* Flash operations fit the pages they are meant for.                      *)

\* Only while fds_init goes on, or behind it, is there a flash operation.
LEMMA BusyPhase ==
    ASSUME IInv, processing, answer = "none"
    PROVE  phase \in {"initializing", "ready"} /\ opq # <<>>
  <1>1. phase # "off"
    BY DEF IInv, OffPhase
  <1>2. phase # "failed"
    <2>1. SUFFICES ASSUME phase = "failed" PROVE FALSE
      OBVIOUS
    <2>2. ~Busy /\ ev = "none"
      BY <2>1 DEF IInv, FailedPhase
    <2> QED BY <2>2 DEF IInv, Turns
  <1> QED BY <1>1, <1>2 DEF IInv, Typed, Turns

LEMMA BusyTurn ==
    ASSUME IInv, Busy
    PROVE  /\ processing /\ answer = "none" /\ ev = "none"
           /\ phase \in {"initializing", "ready"} /\ opq # <<>>
           /\ fl.addr \in Addrs
  <1>1. processing /\ answer = "none" /\ ev = "none"
    BY DEF IInv, Turns
  <1>2. phase \in {"initializing", "ready"} /\ opq # <<>>
    BY <1>1, BusyPhase
  <1>3. fl.addr \in Addrs
    BY DEF IInv, Typed, FlTyped, Busy
  <1> QED BY <1>1, <1>2, <1>3

\* What the pages are, and where their records end.
LEMMA PagesTyped ==
    ASSUME Typed, FlashOK, NEW a \in Addrs
    PROVE  /\ flash[a] \in Page /\ Recs(a) \in Seq(Slots) /\ Chain(Recs(a))
           /\ Tag(a) \in Tags
           /\ flash[a] = [tag |-> Tag(a), recs |-> Recs(a)]
           /\ EndOf(Recs(a)) \in Nat /\ EndOf(Recs(a)) >= TagSize
           /\ EndOf(Recs(a)) < PageSize
           /\ Tag(a) = "erased" => Recs(a) = <<>> /\ EndOf(Recs(a)) = TagSize
           /\ Recs(a) = <<>> <=> EndOf(Recs(a)) = TagSize
  <1>1. flash[a] \in Page
    BY DEF Typed
  <1>2. Recs(a) \in Seq(Slots) /\ Tag(a) \in Tags /\ flash[a] = [tag |-> Tag(a), recs |-> Recs(a)]
    BY <1>1 DEF Page, Recs, Tag
  <1>3. Chain(Recs(a)) /\ EndOf(Recs(a)) < PageSize /\ (Tag(a) = "erased" => Recs(a) = <<>>)
    BY DEF FlashOK
  <1>4. /\ EndOf(<<>>) = TagSize
        /\ EndOf(Recs(a)) \in Nat /\ EndOf(Recs(a)) >= TagSize
        /\ Recs(a) # <<>> => EndOf(Recs(a)) > TagSize
    BY <1>2, <1>3, ChainEnds
  <1>5. Recs(a) = <<>> <=> EndOf(Recs(a)) = TagSize
    BY <1>4, Sizes
  <1> QED BY <1>1, <1>2, <1>3, <1>4, <1>5

\* The page of an operation, as m_pages has it.
LEMMA PageOf ==
    ASSUME Typed, Mapped, NEW i \in Idx
    PROVE  /\ pages[i] \in PageInfo /\ pages[i].addr \in Addrs /\ pages[i].addr # swap.addr
           /\ pages[i].woff \in Nat /\ pages[i].rsv \in Int
  <1>1. pages[i] \in PageInfo
    BY DEF Typed
  <1>2. pages[i].addr \in Addrs \ {swap.addr}
    BY DEF Mapped
  <1> QED BY <1>1, <1>2 DEF PageInfo

LEMMA HeadTyped ==
    ASSUME Typed, opq # <<>>
    PROVE  /\ Current \in OpInfo /\ 1 \in DOMAIN opq /\ opq \in Seq(OpInfo)
           /\ Current.page \in Idx /\ Current.len \in Nat /\ Current.id \in Nat
           /\ Current.file \in Files \cup {NoFile}
           /\ Len(opq) \in Nat \ {0}
  <1>1. opq \in Seq(OpInfo)
    BY DEF Typed
  <1>2. 1 \in DOMAIN opq /\ Len(opq) \in Nat \ {0}
    BY <1>1
  <1>3. Current \in OpInfo
    BY <1>1, <1>2 DEF Current
  <1>4. /\ Current.page \in Idx /\ Current.len \in Nat /\ Current.id \in Nat
        /\ Current.file \in Files \cup {NoFile}
    BY <1>3 DEF OpInfo
  <1> QED BY <1>1, <1>2, <1>3, <1>4

\* A record that is begun begins behind the last one, unless its page has
\* been erased meanwhile, and there is space for it.
LEMMA BeginFits ==
    ASSUME IInv, fl.kind = "begin"
    PROVE  /\ fl.off >= EndOf(Recs(fl.addr))
           /\ ~GcStale(fl) => fl.off = EndOf(Recs(fl.addr))
           /\ fl.off + fl.rec.len < PageSize
           /\ fl.rec \in WriteInfo /\ fl.rec.len >= HeaderSize /\ fl.off \in Nat
           /\ phase = "ready" /\ fl.addr = pages[Current.page].addr
           /\ fl.off = pages[Current.page].woff /\ fl.rec.len = Current.len
           /\ Current.page \in Idx /\ Executes({"write", "update"})
           /\ Current.step = "id" /\ fl.addr \in Addrs
  <1> DEFINE i == Current.page
  <1>1. /\ phase \in {"initializing", "ready"} /\ opq # <<>> /\ answer = "none"
        /\ fl.addr \in Addrs
    BY BusyTurn DEF Busy
  <1>2. phase = "ready"
    <2>1. SUFFICES ASSUME phase = "initializing" PROVE FALSE
      BY <1>1
    <2>2. InitTags /\ InitPromotes
      BY <2>1 DEF IInv, InitPhase
    <2> QED BY <2>2 DEF InitTags, InitPromotes
  <1>3. Mapped /\ ReadyFlash /\ Offsets /\ Space /\ Typed /\ FlashOK
    BY <1>2 DEF IInv, ReadyPhase
  <1>4. /\ Executes({"write", "update"})
        /\ fl.addr = pages[i].addr /\ fl.off = pages[i].woff
        /\ fl.rec.len = Current.len /\ Current.step = "id"
    BY <1>3 DEF ReadyFlash, WriteKinds
  <1>5. i \in Idx /\ Current.len \in Nat
    BY <1>1, <1>3, HeadTyped
  <1>6. fl.rec \in WriteInfo /\ fl.off \in Nat
    BY <1>3 DEF Typed, FlTyped, WriteKinds
  <1>7. ~Wrote(i)
    BY DEF Wrote
  <1>8. /\ ~Swapped(i) => EndOf(Recs(fl.addr)) = fl.off
        /\ fl.off >= TagSize
    BY <1>3, <1>4, <1>5, <1>7 DEF Offsets
  <1>9. Swapped(i) => EndOf(Recs(fl.addr)) = TagSize /\ GcStale(fl)
    <2>1. SUFFICES ASSUME Swapped(i) PROVE EndOf(Recs(fl.addr)) = TagSize /\ GcStale(fl)
      OBVIOUS
    <2>2. gc.state = "erasePage" /\ i = gc.cur /\ Tag(fl.addr) = "erased"
      BY <2>1, <1>4 DEF Swapped
    <2>3. EndOf(Recs(fl.addr)) = TagSize
      BY <2>2, <1>1, <1>3, PagesTyped
    <2> QED BY <2>2, <2>3, <1>4 DEF GcStale
  <1>10. EndOf(Recs(fl.addr)) \in Nat
    BY <1>1, <1>3, PagesTyped
  <1>11. Current.len >= HeaderSize
    <2>1. 1 \in DOMAIN opq
      BY <1>1, <1>3, HeadTyped
    <2> QED BY <2>1, <1>3, <1>4 DEF Space, Executes, Current
  <1>12. fl.off + fl.rec.len < PageSize
    <2>1. ReservedOn(i) >= Current.len
      <3>1. WordsOn(i, Current) = Current.len
        BY <1>4 DEF WordsOn, Executes
      <3> QED BY <3>1, <1>1, <1>3, <1>5, Reserved
    <2>2. SpaceDone(i) = 0
      BY <1>1 DEF SpaceDone
    <2>3. pages[i].rsv >= ReservedOn(i) - SpaceDone(i)
          /\ pages[i].woff + pages[i].rsv < PageSize
      BY <1>3, <1>5 DEF Space
    <2>4. pages[i].rsv \in Int /\ pages[i].woff \in Nat
      BY <1>3, <1>5, PageOf
    <2>5. ReservedOn(i) \in Int
      BY <1>3, <1>5, Reserved
    <2> DEFINE v == pages[i].rsv
               w == pages[i].woff
               x == ReservedOn(i)
               len == Current.len
    <2>6. v \in Int /\ w \in Nat /\ x \in Int /\ x >= len /\ v >= x /\ w + v < PageSize
          /\ len \in Nat
      BY <2>1, <2>2, <2>3, <2>4, <2>5, <1>5
    <2>7. w + len < PageSize
      <3> HIDE DEF v, w, x, len
      <3> QED BY <2>6, Sizes
    <2> QED BY <2>7, <1>4
  <1>13. fl.off >= EndOf(Recs(fl.addr)) /\ (~GcStale(fl) => fl.off = EndOf(Recs(fl.addr)))
    BY <1>6, <1>8, <1>9, <1>10
  <1> QED BY <1>1, <1>2, <1>4, <1>5, <1>6, <1>11, <1>12, <1>13

\* A record that is copied goes behind the last one of the swap, or is there
\* already, and there is space for it.
LEMMA CopyFits ==
    ASSUME IInv, fl.kind = "copy"
    PROVE  /\ \/ fl.off = EndOf(Recs(fl.addr))
              \/ Recs(fl.addr) # <<>> /\ Last(Recs(fl.addr)) = fl.rec
                 /\ fl.off # EndOf(Recs(fl.addr))
           /\ fl.off + fl.rec.len < PageSize
           /\ fl.rec \in Slots /\ fl.rec.len >= HeaderSize /\ fl.rec.off = fl.off
           /\ fl.off \in Nat
           /\ fl.rec.st = "valid"
           /\ phase = "ready" /\ fl.addr = swap.addr /\ gc.state = "copy"
           /\ fl.addr \in Addrs
  <1>1. /\ phase \in {"initializing", "ready"} /\ opq # <<>> /\ answer = "none"
        /\ fl.addr \in Addrs
    BY BusyTurn DEF Busy
  <1>2. phase = "ready"
    <2>1. SUFFICES ASSUME phase = "initializing" PROVE FALSE
      BY <1>1
    <2>2. InitTags /\ InitPromotes
      BY <2>1 DEF IInv, InitPhase
    <2> QED BY <2>2 DEF InitTags, InitPromotes
  <1>3. Mapped /\ ReadyFlash /\ Copying /\ Typed /\ FlashOK /\ Space
    BY <1>2 DEF IInv, ReadyPhase
  <1> DEFINE p == Recs(pages[gc.cur].addr)
             s == Recs(swap.addr)
             r == p[gc.src]
  <1>4. /\ gc.state = "copy" /\ fl.addr = swap.addr /\ fl.off = swap.woff
        /\ fl.rec = [r EXCEPT !.off = swap.woff]
    BY <1>3 DEF ReadyFlash
  <1>5. /\ gc.src \in DOMAIN p /\ r.st = "valid"
        /\ r.off + r.len <= pages[gc.cur].woff
        /\ TagSize <= swap.woff /\ swap.woff <= r.off
        /\ \/ EndOf(s) = swap.woff
           \/ s # <<>> /\ Last(s) = fl.rec
    BY <1>3, <1>4 DEF Copying
  <1>6. gc.cur \in Idx
    BY <1>3 DEF Typed, GcInfo
  <1>7. p \in Seq(Slots) /\ Chain(p)
    BY <1>3, <1>6, PageOf, PagesTyped
  <1>8. r \in Slots /\ r.len >= HeaderSize /\ r.off \in Nat /\ r.len \in Nat
    BY <1>5, <1>7, ChainOrder
  <1>9. swap.woff \in Nat
    BY <1>3 DEF Typed
  <1>10. /\ fl.rec \in Slots /\ fl.rec.len = r.len /\ fl.rec.off = fl.off
         /\ fl.rec.st = "valid"
    BY <1>4, <1>5, <1>8, <1>9 DEF Slots
  <1>11. pages[gc.cur].woff + pages[gc.cur].rsv < PageSize
    BY <1>3, <1>6 DEF Space
  <1>12. pages[gc.cur].woff \in Nat /\ pages[gc.cur].rsv \in Int
    BY <1>3, <1>6, PageOf
  <1>13. pages[gc.cur].woff < PageSize
    <2>1. pages[gc.cur].rsv >= 0
      <3>1. ReservedOn(gc.cur) >= 0
        BY <1>3, <1>6, Reserved
      <3>2. SpaceDone(gc.cur) = 0
        BY <1>1 DEF SpaceDone
      <3>3. pages[gc.cur].rsv >= ReservedOn(gc.cur) - SpaceDone(gc.cur)
        BY <1>3, <1>6 DEF Space
      <3>4. ReservedOn(gc.cur) \in Int
        BY <1>3, <1>6, Reserved
      <3> QED BY <3>1, <3>2, <3>3, <3>4, <1>12
    <2> QED BY <2>1, <1>11, <1>12, Sizes
  <1>14. fl.off + fl.rec.len < PageSize
    <2> DEFINE w == swap.woff
               o == r.off
               n == r.len
               e == pages[gc.cur].woff
    <2>1. w \in Nat /\ o \in Nat /\ n \in Nat /\ e \in Nat /\ w <= o /\ o + n <= e /\ e < PageSize
      BY <1>5, <1>8, <1>9, <1>12, <1>13
    <2>2. w + n < PageSize
      <3> HIDE DEF w, o, n, e
      <3> QED BY <2>1, Sizes
    <2> QED BY <2>2, <1>4, <1>10
  <1>15. \/ fl.off = EndOf(Recs(fl.addr))
         \/ Recs(fl.addr) # <<>> /\ Last(Recs(fl.addr)) = fl.rec
            /\ fl.off # EndOf(Recs(fl.addr))
    BY <1>4, <1>5
  <1>16. fl.rec.len >= HeaderSize /\ fl.off \in Nat
    BY <1>4, <1>8, <1>9, <1>10
  <1> HIDE DEF p, s, r
  <1> QED BY <1>1, <1>2, <1>4, <1>10, <1>14, <1>15, <1>16

-----------------------------------------------------------------------------
(* What a flash operation does.                                            *)

Done ==
    LET a == fl.addr IN
    /\ flash' \in [Addrs -> Page]
    /\ \A b \in Addrs \ {a} : flash'[b] = flash[b]
    /\ fl.kind = "erase" => flash'[a].tag = "erased" /\ flash'[a].recs = <<>>
    /\ fl.kind # "erase" => flash'[a].tag = IF fl.kind \in {"swap", "data"}
                                            THEN Tagged(flash[a].tag, fl.kind)
                                            ELSE flash[a].tag
    /\ fl.kind \in {"swap", "data"} => flash'[a].recs = flash[a].recs
    /\ fl.kind \in {"id", "chunk", "final", "dirty"} => InPlace(flash[a], flash'[a], fl.off)
    /\ fl.kind \in {"begin", "copy"} =>
          \/ /\ fl.kind = "copy" /\ flash'[a].recs = flash[a].recs
             /\ flash[a].recs # <<>> /\ Last(flash[a].recs) = fl.rec
          \/ /\ fl.off = EndOf(flash[a].recs)
             /\ \E r \in Slots : /\ flash'[a].recs = Append(flash[a].recs, r)
                                 /\ r.off = fl.off /\ r.len = fl.rec.len
                                 /\ fl.kind = "copy" => r = fl.rec

LEMMA DoneEffect ==
    ASSUME IInv, Busy, flash' = Applied(fl),
           fl.kind = "begin" => fl.off = EndOf(Recs(fl.addr))
    PROVE  /\ Done
           /\ \A a \in Addrs : /\ Chain(flash'[a].recs)
                               /\ EndOf(flash'[a].recs) < PageSize
  <1> DEFINE a == fl.addr
             page == flash[a]
             new == Written(page, fl)
  <1>1. a \in Addrs /\ Typed /\ FlashOK
    BY BusyTurn DEF IInv
  <1>2. /\ page \in Page /\ page.recs \in Seq(Slots) /\ Chain(page.recs)
        /\ page = [tag |-> page.tag, recs |-> page.recs] /\ EndOf(page.recs) < PageSize
    BY <1>1, PagesTyped DEF Recs, Tag
  <1>3. flash' = [flash EXCEPT ![a] = new] /\ flash \in [Addrs -> Page]
    BY <1>1 DEF Applied, Busy, Typed
  <1>4. fl.kind \in {"erase", "swap", "data", "copy", "dirty", "begin", "id", "chunk", "final"}
    BY <1>1 DEF Busy, Typed, FlTyped, WriteKinds
  <1>5. \A b \in Addrs \ {a} : flash'[b] = flash[b]
    BY <1>3
  <1>6. flash'[a] = new
    BY <1>1, <1>3
  <1> HIDE DEF new
  <1>7. ASSUME NEW b \in Addrs \ {a}
        PROVE  Chain(flash'[b].recs) /\ EndOf(flash'[b].recs) < PageSize
    BY <1>5, <1>1 DEF FlashOK, Recs
  <1> DEFINE Fine == new \in Page /\ Chain(new.recs) /\ EndOf(new.recs) < PageSize
  <1>8. Fine => /\ flash' \in [Addrs -> Page]
                /\ \A b \in Addrs : /\ Chain(flash'[b].recs)
                                    /\ EndOf(flash'[b].recs) < PageSize
    BY <1>3, <1>6, <1>7
  <1>9. CASE fl.kind = "erase"
    <2>1. new = ErasedPage
      BY <1>9 DEF new, Written
    <2>2. new.tag = "erased" /\ new.recs = <<>> /\ new \in Page
      BY <2>1 DEF ErasedPage, Page, Tags
    <2>3. Chain(new.recs) /\ EndOf(new.recs) < PageSize
      <3>1. Chain(<<>>)
        BY DEF Chain
      <3>2. EndOf(<<>>) < PageSize
        BY Sizes DEF EndOf
      <3> QED BY <2>2, <3>1, <3>2
    <2>4. Fine
      BY <2>2, <2>3
    <2> HIDE DEF Fine
    <2> QED BY <2>2, <2>4, <1>5, <1>6, <1>8, <1>9 DEF Done
  <1>10. CASE fl.kind \in {"swap", "data"}
    <2>1. new \in Page /\ new.recs = page.recs /\ new.tag = Tagged(page.tag, fl.kind)
      BY <1>10, <1>2, WritesTag DEF new
    <2>2. Fine
      BY <2>1, <1>2
    <2> HIDE DEF Fine
    <2> QED BY <2>1, <2>2, <1>5, <1>6, <1>8, <1>10 DEF Done
  <1>11. CASE fl.kind \in {"id", "chunk", "final", "dirty"}
    <2>1. fl.kind \in WriteKinds => fl.rec \in WriteInfo
      BY <1>1 DEF Typed, FlTyped
    <2>2. InPlace(page, new, fl.off) /\ new.tag = page.tag
      BY <2>1, <1>2, <1>11, WritesInPlace DEF new
    <2>3. new \in Page /\ new.recs \in Seq(Slots) /\ Len(new.recs) = Len(page.recs)
          /\ \A k \in DOMAIN page.recs : /\ new.recs[k].off = page.recs[k].off
                                         /\ new.recs[k].len = page.recs[k].len
                                         /\ new.recs[k].st # "hole"
      BY <2>2 DEF InPlace, Page
    <2>4. Chain(new.recs) /\ EndOf(new.recs) = EndOf(page.recs)
      BY <2>3, <1>2, ChainSame
    <2>5. Fine
      BY <2>3, <2>4, <1>2
    <2> HIDE DEF Fine
    <2> QED BY <2>2, <2>5, <1>5, <1>6, <1>8, <1>11 DEF Done
  <1>12. CASE fl.kind \in {"begin", "copy"} /\ fl.off = EndOf(page.recs)
    <2>1. /\ fl.off + fl.rec.len < PageSize /\ fl.off \in Nat
          /\ fl.rec.len >= HeaderSize
          /\ fl.kind = "begin" => fl.rec \in WriteInfo
          /\ fl.kind = "copy" => fl.rec \in Slots /\ fl.rec.off = fl.off /\ fl.rec.st = "valid"
      BY <1>12, BeginFits, CopyFits
    <2>2. PICK r \in Slots :
              /\ r.off = fl.off /\ r.len = fl.rec.len
              /\ fl.kind = "copy" => r = fl.rec
              /\ new = [tag |-> page.tag, recs |-> Append(page.recs, r)]
              /\ new \in Page /\ Chain(Append(page.recs, r))
              /\ EndOf(Append(page.recs, r)) = r.off + r.len
      BY <2>1, <1>2, <1>12, WritesBehind DEF new
    <2>3. new.tag = page.tag /\ new.recs = Append(page.recs, r)
      BY <2>2
    <2>4. Fine
      BY <2>1, <2>2, <2>3
    <2> HIDE DEF Fine
    <2> QED BY <2>2, <2>3, <2>4, <1>5, <1>6, <1>8, <1>12 DEF Done
  <1>13. CASE fl.kind = "copy" /\ fl.off # EndOf(page.recs)
    <2>1. page.recs # <<>> /\ Last(page.recs) = fl.rec
      BY <1>13, CopyFits DEF Recs
    <2>2. new = page
      BY <1>13, <1>2 DEF new, Written
    <2>3. Fine
      BY <2>2, <1>2
    <2> HIDE DEF Fine
    <2> QED BY <2>1, <2>2, <2>3, <1>5, <1>6, <1>8, <1>13 DEF Done
  <1> QED BY <1>4, <1>9, <1>10, <1>11, <1>12, <1>13 DEF Recs

-----------------------------------------------------------------------------
(* A flash operation has been carried out, or has failed.                  *)

\* The parts of the invariant that do not depend on the phase.
Common == Typed /\ Turns /\ Behind /\ OffPhase /\ FailedPhase

LEMMA FlashDoneCommon ==
    ASSUME IInv, Busy, fl' = NoFl, ev' \in {"ok", "timeout"}, flash' \in [Addrs -> Page],
           UNCHANGED <<ram, answer, clients>>
    PROVE  Common'
  <1>1. Typed /\ Turns /\ Behind /\ OffPhase /\ FailedPhase
    BY DEF IInv
  <1>2. /\ processing /\ answer = "none" /\ ev = "none"
        /\ phase \in {"initializing", "ready"} /\ opq # <<>>
    BY BusyTurn
  <1>3. Typed'
    <2>1. FlTyped'
      BY DEF FlTyped, NoFl, WriteKinds
    <2> QED BY <1>1, <2>1 DEF Typed, ram, clients
  <1>4. Turns'
    BY <1>1, <1>2 DEF Turns, Busy, NoFl, ram
  <1>5. Behind'
    BY <1>1 DEF Behind, ram, Fresh
  <1>6. OffPhase' /\ FailedPhase'
    BY <1>2 DEF OffPhase, FailedPhase, ram
  <1> QED BY <1>3, <1>4, <1>5, <1>6 DEF Common

LEMMA FlashTimeoutInit ==
    ASSUME IInv, phase = "initializing", Busy, fl' = NoFl, ev' = "timeout",
           flash' = flash, UNCHANGED <<ram, answer, clients>>
    PROVE  InitPhase' /\ ReadyPhase'
  <1>1. Mapped /\ InitControl /\ InitTags /\ InitPromotes /\ InitData /\ InitOffsets
    BY DEF IInv, InitPhase
  <1>2. Mapped' /\ InitControl'
    BY <1>1 DEF Mapped, InitControl, ram, clients, Alone, Current
  <1>3. InitTags'
    BY <1>1 DEF InitTags, ram, clients, Current, Tag, NoFl
  <1>4. InitPromotes'
    BY <1>1 DEF InitPromotes, ram, clients, Current, Tag, Recs, NoFl
  <1>5. InitOffsets'
    BY <1>1 DEF InitOffsets, ram, clients, Current, Tag, Recs, NoFl
  <1>6. InitData'
    BY DEF InitData
  <1> QED BY <1>2, <1>3, <1>4, <1>5, <1>6 DEF InitPhase, ReadyPhase, ram

LEMMA FlashDoneInit ==
    ASSUME IInv, phase = "initializing", Busy, Done, fl' = NoFl, ev' = "ok",
           UNCHANGED <<ram, answer, clients>>
    PROVE  InitPhase' /\ ReadyPhase' /\ OneSwap' /\ NotAllData'
  <1>1. Mapped /\ InitControl /\ InitTags /\ InitPromotes /\ InitData /\ InitOffsets
        /\ OneSwap /\ NotAllData /\ Typed
    BY DEF IInv, InitPhase
  <1>2. /\ processing /\ ev = "none" /\ fl.addr \in Addrs
    BY BusyTurn
  <1>3. Mapped' /\ InitControl'
    BY <1>1 DEF Mapped, InitControl, ram, clients, Alone, Current
  <1>4. /\ swap' = swap /\ pages' = pages /\ gc' = gc /\ opq' = opq /\ tail' = tail
        /\ processing' = processing /\ phase' = phase /\ Current' = Current
    BY DEF ram, Current
  <1>5. CASE Current.step # "promote"
    <2>1. /\ \A a \in Addrs \ {swap.addr} : Tag(a) = "swap" => fl.kind = "data" /\ fl.addr = a
          /\ Tag(swap.addr) # "data"
          /\ fl.kind \in {"swap", "data", "erase"}
          /\ fl.kind = "data" => fl.addr # swap.addr
          /\ fl.kind \in {"swap", "erase"} => fl.addr = swap.addr
          /\ tail.step = "promote" => pages[gc.cur].type = "data"
      BY <1>1, <1>2, <1>5 DEF InitTags, Busy
    <2>2. swap.addr \in Addrs
      BY <1>1 DEF Mapped
    <2>3. \A a \in Addrs \ {swap.addr} : flash'[a].tag # "swap" /\ flash'[a].recs = flash[a].recs
      BY <2>1, <2>2, <1>2 DEF Done, Tag, Tagged
    <2>4. /\ flash'[swap.addr].tag # "data"
          /\ flash'[swap.addr].recs = IF fl.kind = "erase" THEN <<>> ELSE flash[swap.addr].recs
      BY <2>1, <2>2, <1>2 DEF Done, Tag, Tagged
    <2>5. InitTags'
      <3>1. Current.step = "tagData" \/ tail.step = "tagSwap" =>
              /\ Tag(swap.addr) = "swap" \/ fl.kind = "swap"
              /\ fl.kind # "erase" /\ Current.step # "eraseSwap"
        BY <1>1, <1>2, <1>5 DEF InitTags
      <3>2. Tag(swap.addr) \in Tags
        BY <1>1, <2>2 DEF Typed, Tag, Page
      <3>3. fl.kind \in {"swap", "data"} /\ (Tag(swap.addr) = "swap" \/ fl.kind = "swap") =>
              flash'[swap.addr].tag = "swap"
        BY <2>1, <2>2, <3>2, <1>2 DEF Done, Tag, Tagged, Tags
      <3>4. Current.step = "tagData" \/ tail.step = "tagSwap" =>
              flash'[swap.addr].tag = "swap" /\ Current.step # "eraseSwap"
        BY <3>1, <3>3, <2>1
      <3> QED BY <2>1, <2>3, <2>4, <3>4, <1>4 DEF InitTags, Tag, NoFl
    <2>5a. InitData'
      <3>1. ASSUME NEW i \in Idx,
                   pages[i].type = "data" \/ tail = [step |-> "tagData", page |-> i]
            PROVE  flash'[pages[i].addr].tag # "erased"
        <4>1. pages[i].addr \in Addrs /\ pages[i].addr # swap.addr
          BY <1>1 DEF Mapped
        <4>2. Tag(pages[i].addr) # "erased" \/ (fl.kind = "data" /\ fl.addr = pages[i].addr)
          BY <1>1, <1>2, <3>1 DEF InitData
        <4>3. Tag(pages[i].addr) \in Tags
          BY <1>1, <4>1 DEF Typed, Tag, Page
        <4> QED BY <2>1, <4>1, <4>2, <4>3 DEF Done, Tag, Tagged, Tags
      <3> QED BY <3>1, <1>4 DEF InitData, Tag
    <2>6. InitPromotes'
      BY <1>4, <1>5 DEF InitPromotes
    <2>7. InitOffsets'
      <3>1. \A i \in Idx : Recs(pages[i].addr)' = Recs(pages[i].addr)
        BY <1>1, <1>4, <2>3 DEF Mapped, Recs
      <3>2. Recs(swap.addr)' = <<>> \/ (Recs(swap.addr)' = Recs(swap.addr) /\ fl.kind # "erase")
        BY <1>4, <2>4 DEF Recs
      <3> QED BY <3>1, <3>2, <1>1, <1>2, <1>4 DEF InitOffsets
    <2>8. OneSwap' /\ NotAllData'
      BY <2>2, <2>3, <2>4 DEF OneSwap, NotAllData, Tag
    <2> QED BY <2>5, <2>5a, <2>6, <2>7, <2>8, <1>3, <1>4 DEF InitPhase, ReadyPhase
  <1>6. CASE Current.step = "promote"
    <2>1. /\ \A a \in Addrs \ {swap.addr} : Tag(a) # "swap"
          /\ \E a \in Addrs \ {swap.addr} : Tag(a) = "erased"
          /\ fl.kind = "data" /\ fl.addr = swap.addr
          /\ \A i \in Idx : pages[i].type = "erased" => Tag(pages[i].addr) = "erased"
          /\ swap.woff = EndOf(Recs(swap.addr))
          /\ tail.step = "promote"
      BY <1>1, <1>2, <1>6 DEF InitPromotes, Busy
    <2>2. swap.addr \in Addrs
      BY <1>1 DEF Mapped
    <2>3. /\ \A a \in Addrs \ {swap.addr} : flash'[a] = flash[a]
          /\ flash'[swap.addr].tag = "data" /\ flash'[swap.addr].recs = flash[swap.addr].recs
      <3>1. Tag(swap.addr) \in Tags
        BY <1>1, <2>2 DEF IInv, Typed, Tag, Page
      <3>2. Tagged(Tag(swap.addr), "data") = "data"
        BY <3>1 DEF Tagged, Tags
      <3> QED BY <2>1, <3>2 DEF Done, Tag
    <2>4. InitTags'
      BY <1>4, <1>6 DEF InitTags
    <2>5. \A i \in Idx : /\ Recs(pages[i].addr)' = Recs(pages[i].addr)
                         /\ Tag(pages[i].addr)' = Tag(pages[i].addr)
      BY <1>1, <1>4, <2>3 DEF Mapped, Recs, Tag
    <2>6. Recs(swap.addr)' = Recs(swap.addr) /\ Tag(swap.addr)' = "data"
      BY <1>4, <2>3 DEF Recs, Tag
    <2>7. InitPromotes'
      <3>1. \A a \in Addrs \ {swap.addr} : Tag(a)' = Tag(a)
        BY <2>3 DEF Tag
      <3> QED BY <2>1, <2>5, <2>6, <3>1, <1>4 DEF InitPromotes, NoFl
    <2>8. InitOffsets'
      BY <2>1, <2>5, <2>6, <1>1, <1>2, <1>4, <1>6 DEF InitOffsets
    <2>9. OneSwap' /\ NotAllData'
      BY <2>1, <2>2, <2>3 DEF OneSwap, NotAllData, Tag
    <2>10. InitData'
      <3>1. \A i \in Idx : pages[i].addr # swap.addr
        BY <1>1 DEF Mapped
      <3> QED BY <2>1, <2>5, <3>1, <1>1, <1>2, <1>4 DEF InitData
    <2> QED BY <2>4, <2>7, <2>8, <2>9, <2>10, <1>3, <1>4 DEF InitPhase, ReadyPhase
  <1> QED BY <1>5, <1>6

\* Which step of a collection the flash carries out, and where.
LEMMA GcBusy ==
    ASSUME ReadyFlash, Busy, Executes({"gc"}), FlTyped
    PROVE  /\ fl.kind \in {"erase", "swap", "data", "copy"}
           /\ gc.state = "erasePage" => fl.kind = "erase" /\ fl.addr = pages[gc.cur].addr
           /\ gc.state = "discardSwap" => fl.kind = "erase" /\ fl.addr = swap.addr
           /\ gc.state = "promote" => fl.kind = "data" /\ fl.addr = pages[gc.cur].addr
           /\ gc.state = "tagSwap" => fl.kind = "swap" /\ fl.addr = swap.addr
           /\ gc.state = "copy" => fl.kind = "copy" /\ fl.addr = swap.addr
  <1>1. fl.kind \in {"erase", "swap", "data", "copy", "dirty"} \cup WriteKinds
    BY DEF FlTyped, Busy
  <1>2. fl.kind # "dirty" /\ fl.kind \notin WriteKinds
    BY DEF ReadyFlash, Executes
  <1> QED BY <1>1, <1>2 DEF ReadyFlash

LEMMA SpaceSame ==
    ASSUME Space, opq' = opq, pages' = pages, token' = token,
           answer' = answer
    PROVE  Space'
  <1>1. \A i \in Idx : ReservedOn(i)' = ReservedOn(i)
    BY DEF ReservedOn, Total, WordsOn, RecordLen
  <1>2. \A i \in Idx : SpaceDone(i)' = SpaceDone(i)
    BY DEF SpaceDone, Current
  <1> QED BY <1>1, <1>2 DEF Space

\* What the pages, the swap and the collection are is not touched.
Kept ==
    /\ flash' = flash /\ swap' = swap
    /\ \A i \in Idx : /\ pages'[i].addr = pages[i].addr /\ pages'[i].woff = pages[i].woff
                      /\ pages'[i].type = pages[i].type
    /\ gc'.state = gc.state /\ gc'.cur = gc.cur
    /\ gc.state = "copy" => gc'.src = gc.src
    /\ GcDone' => GcDone
    /\ \A i \in Idx : Wrote(i)' = Wrote(i) /\ (Wrote(i) => Current'.len = Current.len)

LEMMA ReadyKept ==
    ASSUME Typed, Mapped, ReadyTags, Offsets, SwapOffsets, Copying, Kept
    PROVE  Mapped' /\ ReadyTags' /\ Offsets' /\ SwapOffsets' /\ Copying'
  <1>1. /\ \A a \in Addrs : Tag(a)' = Tag(a) /\ Recs(a)' = Recs(a)
        /\ swap' = swap /\ gc'.state = gc.state /\ gc'.cur = gc.cur
        /\ gc.state = "copy" => gc'.src = gc.src
        /\ gc.cur \in Idx /\ swap.addr \in Addrs
        /\ GcDone' => GcDone
    BY DEF Kept, Tag, Recs, Typed, GcInfo, Mapped
  <1>2. \A i \in Idx : /\ pages'[i].addr = pages[i].addr /\ pages'[i].woff = pages[i].woff
                       /\ pages'[i].type = pages[i].type
                       /\ pages[i].addr \in Addrs
                       /\ Tag(pages[i].addr)' = Tag(pages[i].addr)
                       /\ Recs(pages[i].addr)' = Recs(pages[i].addr)
    BY <1>1 DEF Kept, Mapped, Tag, Recs
  <1>3. Recs(swap.addr)' = Recs(swap.addr) /\ Tag(swap.addr)' = Tag(swap.addr)
        /\ Recs(pages[gc.cur].addr)' = Recs(pages[gc.cur].addr)
        /\ Tag(pages[gc.cur].addr)' = Tag(pages[gc.cur].addr)
        /\ pages'[gc.cur].addr = pages[gc.cur].addr
        /\ pages'[gc.cur].woff = pages[gc.cur].woff
    BY <1>1, <1>2 DEF Recs, Tag
  <1>4. Mapped'
    BY <1>1, <1>2 DEF Mapped
  <1>5. ReadyTags'
    BY <1>1, <1>2, <1>3 DEF ReadyTags
  <1>6. Offsets'
    <2>1. SUFFICES ASSUME NEW i \in Idx
                   PROVE /\ Wrote(i)' => LET r == Recs(pages[i].addr)' IN
                              r # <<>> /\ Last(r).off = pages'[i].woff /\ Last(r).len = Current'.len
                         /\ ~Wrote(i)' /\ ~Swapped(i)' => EndOf(Recs(pages[i].addr)') = pages'[i].woff
                         /\ pages'[i].woff >= TagSize
      BY DEF Offsets
    <2>2. Wrote(i)' = Wrote(i) /\ (Wrote(i) => Current'.len = Current.len)
      BY DEF Kept
    <2>3. Swapped(i)' = Swapped(i)
      BY <1>1, <1>2 DEF Swapped
    <2> QED BY <2>2, <2>3, <1>2 DEF Offsets
  <1>7. SwapOffsets'
    BY <1>1, <1>3 DEF SwapOffsets
  <1>8. Copying'
    BY <1>1, <1>3 DEF Copying
  <1> QED BY <1>4, <1>5, <1>6, <1>7, <1>8

LEMMA FlashTimeoutReady ==
    ASSUME IInv, phase = "ready", Busy, fl' = NoFl, ev' = "timeout",
           flash' = flash, UNCHANGED <<ram, answer, clients>>
    PROVE  InitPhase' /\ ReadyPhase'
  <1>1. /\ Mapped /\ ReadyControl /\ ReadyTags /\ ReadyFlash
        /\ Closed /\ Offsets /\ SwapOffsets /\ Copying /\ Space /\ Typed
    BY DEF IInv, ReadyPhase
  <1>2. /\ answer = "none" /\ ev = "none" /\ opq # <<>>
    BY BusyTurn
  <1>3. /\ swap' = swap /\ pages' = pages /\ gc' = gc /\ opq' = opq /\ tail' = tail
        /\ processing' = processing /\ phase' = phase /\ Current' = Current
        /\ token' = token /\ answer' = answer
    BY DEF ram, Current, clients
  <1>4. Mapped' /\ ReadyControl'
    BY <1>1, <1>3 DEF Mapped, ReadyControl, Alone, Executes
  <1>5. ReadyTags'
    BY <1>1, <1>3 DEF ReadyTags, GcDone, Tag
  <1>6. ReadyFlash'
    BY DEF ReadyFlash, NoFl, WriteKinds
  <1>7. Offsets'
    <2>1. SUFFICES ASSUME NEW i \in Idx
                   PROVE /\ Wrote(i)' => LET r == Recs(pages[i].addr)' IN
                              r # <<>> /\ Last(r).off = pages[i].woff /\ Last(r).len = Current.len
                         /\ ~Wrote(i)' /\ ~Swapped(i)' => EndOf(Recs(pages[i].addr)') = pages[i].woff
                         /\ pages[i].woff >= TagSize
      BY <1>3 DEF Offsets
    <2>2. Recs(pages[i].addr)' = Recs(pages[i].addr) /\ Swapped(i)' = Swapped(i)
      BY <1>3 DEF Recs, Swapped, Tag
    <2>3. Wrote(i)' => Wrote(i)
      <3>1. fl.kind = "begin" => Current.step = "id"
        BY <1>1 DEF ReadyFlash, WriteKinds
      <3> QED BY <3>1, <1>2, <1>3 DEF Wrote, Executes
    <2>4. Wrote(i) /\ ~Wrote(i)' => FALSE
      <3>1. SUFFICES ASSUME Wrote(i), ~Wrote(i)' PROVE FALSE
        OBVIOUS
      <3>2. Current.step = "id"
        BY <3>1, <1>2, <1>3 DEF Wrote, Executes, NoFl
      <3>3. Wrote(i) => fl.kind # "begin" /\ Executes({"write", "update"})
        BY DEF Wrote
      <3>4. fl.kind \notin WriteKinds \cup {"dirty"}
        BY <1>1, <3>1, <3>2, <3>3 DEF ReadyFlash
      <3>5. fl.kind \in {"erase", "swap", "data", "copy"}
        BY <1>1, <3>4 DEF Typed, FlTyped, Busy
      <3>6. Executes({"gc"})
        BY <3>5, <1>1 DEF ReadyFlash
      <3> QED BY <3>1, <3>3, <3>6 DEF Executes
    <2> QED BY <2>2, <2>3, <2>4, <1>1 DEF Offsets
  <1>8. SwapOffsets'
    BY Zenon, <1>1, <1>2, <1>3 DEF SwapOffsets, GcDone, Recs
  <1>9. Copying'
    BY Zenon, <1>1, <1>2, <1>3 DEF Copying, GcDone, Recs
  <1>10. Space'
    BY <1>1, <1>3, SpaceSame
  <1>11. Closed'
    BY <1>1, <1>3 DEF Closed, Swapped, Tag, NoFl
  <1> QED BY <1>3, <1>4, <1>5, <1>6, <1>7, <1>8, <1>9, <1>10, <1>11 DEF InitPhase, ReadyPhase

\* Writes in place leave the ends of a page's records.
LEMMA InPlaceEnds ==
    ASSUME NEW page \in Page, Chain(page.recs), NEW new, NEW off, InPlace(page, new, off)
    PROVE  /\ new \in Page /\ EndOf(new.recs) = EndOf(page.recs)
           /\ new.recs = <<>> <=> page.recs = <<>>
           /\ DOMAIN new.recs = DOMAIN page.recs
           /\ page.recs # <<>> => Last(new.recs).off = Last(page.recs).off
                                  /\ Last(new.recs).len = Last(page.recs).len
  <1>1. page.recs \in Seq(Slots)
    BY DEF Page
  <1>2. new \in Page /\ new.recs \in Seq(Slots) /\ Len(new.recs) = Len(page.recs)
        /\ \A k \in DOMAIN page.recs : /\ new.recs[k].off = page.recs[k].off
                                       /\ new.recs[k].len = page.recs[k].len
                                       /\ new.recs[k].st # "hole"
    BY DEF InPlace, Page
  <1>3. /\ EndOf(new.recs) = EndOf(page.recs)
        /\ new.recs = <<>> <=> page.recs = <<>>
        /\ page.recs # <<>> => Last(new.recs).off = Last(page.recs).off
                               /\ Last(new.recs).len = Last(page.recs).len
    BY <1>1, <1>2, ChainSame
  <1>4. DOMAIN new.recs = DOMAIN page.recs
    BY <1>1, <1>2
  <1> QED BY <1>2, <1>3, <1>4

LEMMA AppendLast ==
    ASSUME NEW recs \in Seq(Slots), NEW r \in Slots
    PROVE  /\ Append(recs, r) # <<>> /\ Last(Append(recs, r)) = r
           /\ \A k \in DOMAIN recs : k \in DOMAIN Append(recs, r)
                                      /\ Append(recs, r)[k] = recs[k]
  BY DEF Last

\* The flash has carried out a step of an operation.
LEMMA FlashDoneReady ==
    ASSUME IInv, phase = "ready", Busy, ~GcStale(fl), Done, fl' = NoFl, ev' = "ok",
           UNCHANGED <<ram, answer, clients>>
    PROVE  InitPhase' /\ ReadyPhase'
  <1>1. /\ Mapped /\ ReadyControl /\ ReadyTags /\ ReadyFlash
        /\ Closed /\ Offsets /\ SwapOffsets /\ Copying /\ Space /\ Typed /\ FlashOK /\ FlTyped
    BY DEF IInv, ReadyPhase, Typed
  <1>2. /\ answer = "none" /\ ev = "none" /\ opq # <<>> /\ fl.addr \in Addrs
    BY BusyTurn
  <1>3. /\ swap' = swap /\ pages' = pages /\ gc' = gc /\ opq' = opq /\ tail' = tail
        /\ processing' = processing /\ phase' = phase /\ Current' = Current
        /\ token' = token /\ answer' = answer
    BY DEF ram, Current, clients
  <1>4. Mapped' /\ ReadyControl'
    BY <1>1, <1>3 DEF Mapped, ReadyControl, Alone, Executes
  <1>5. /\ swap.addr \in Addrs /\ gc.cur \in Idx /\ swap.woff \in Nat
        /\ \A i \in Idx : pages[i].addr \in Addrs /\ pages[i].addr # swap.addr
    BY <1>1, PageOf DEF Mapped, Typed, GcInfo
  <1>6. \A a \in Addrs : /\ Tag(a) \in Tags /\ flash[a] \in Page /\ Recs(a) \in Seq(Slots)
                         /\ Chain(Recs(a))
    BY <1>1, PagesTyped
  <1>7. /\ Executes({"gc"}) <=> fl.kind \in {"erase", "swap", "data", "copy"}
        /\ fl.kind \in WriteKinds \cup {"dirty"} => ~Executes({"gc"})
        /\ fl.kind \in {"erase", "swap", "data", "copy", "dirty"} \cup WriteKinds
    <2>1. fl.kind \in {"erase", "swap", "data", "copy", "dirty"} \cup WriteKinds
      BY <1>1 DEF FlTyped, Busy
    <2>2. fl.kind \in WriteKinds \cup {"dirty"} => ~Executes({"gc"})
      BY <1>1 DEF ReadyFlash, Executes
    <2>3. fl.kind \in {"erase", "swap", "data", "copy"} => Executes({"gc"})
      BY <1>1 DEF ReadyFlash
    <2> QED BY <2>1, <2>2, <2>3
  <1>8. /\ fl.kind = "erase" => \/ gc.state = "erasePage" /\ fl.addr = pages[gc.cur].addr
                                \/ gc.state = "discardSwap" /\ fl.addr = swap.addr
        /\ fl.kind = "data" => gc.state = "promote" /\ fl.addr = pages[gc.cur].addr
        /\ fl.kind = "swap" => gc.state = "tagSwap" /\ fl.addr = swap.addr
        /\ fl.kind = "copy" => gc.state = "copy" /\ fl.addr = swap.addr
        /\ fl.kind \in WriteKinds \cup {"dirty"} => fl.addr # swap.addr
        /\ fl.kind \in WriteKinds =>
              fl.addr = pages[Current.page].addr /\ Executes({"write", "update"})
    <2>1. Executes({"write", "update"}) => Current.page \in Idx
      BY <1>1, HeadTyped DEF Executes
    <2> QED BY <1>1, <1>5, <2>1 DEF ReadyFlash
  <1>9. ReadyTags'
    <2>1. ASSUME NEW a \in Addrs
          PROVE  /\ flash'[a].tag = IF a = fl.addr /\ fl.kind = "erase" THEN "erased"
                                    ELSE IF a = fl.addr /\ fl.kind = "data" THEN "data"
                                    ELSE IF a = fl.addr /\ fl.kind = "swap" /\ Tag(a) # "data"
                                    THEN "swap"
                                    ELSE Tag(a)
      BY <1>6 DEF Done, Tag, Tagged, Tags
    <2> DEFINE newTag(a) == flash'[a].tag
    <2>2. \A a \in Addrs \ {swap.addr} :
            newTag(a) = "swap" => gc.state = "promote" /\ a = pages[gc.cur].addr
      BY <2>1, <1>1, <1>8 DEF ReadyTags
    <2>3. newTag(swap.addr) # "data"
      BY <2>1, <1>1, <1>5, <1>8 DEF ReadyTags
    <2>4. gc.state = "promote" => newTag(swap.addr) = "erased"
      BY <2>1, <1>1, <1>5, <1>8 DEF ReadyTags
    <2>5. Executes({"gc"}) =>
              /\ gc.state = "erasePage" => newTag(pages[gc.cur].addr) = "erased"
              /\ gc.state = "promote" => newTag(pages[gc.cur].addr) = "data"
              /\ gc.state = "tagSwap" => newTag(swap.addr) = "swap"
      <3>1. SUFFICES ASSUME Executes({"gc"})
                     PROVE /\ gc.state = "erasePage" => newTag(pages[gc.cur].addr) = "erased"
                           /\ gc.state = "promote" => newTag(pages[gc.cur].addr) = "data"
                           /\ gc.state = "tagSwap" => newTag(swap.addr) = "swap"
        OBVIOUS
      <3>2. /\ gc.state = "erasePage" => fl.kind = "erase" /\ fl.addr = pages[gc.cur].addr
            /\ gc.state = "promote" => fl.kind = "data" /\ fl.addr = pages[gc.cur].addr
            /\ gc.state = "tagSwap" => fl.kind = "swap" /\ fl.addr = swap.addr
        BY <3>1, <1>1, GcBusy
      <3>3. pages[gc.cur].addr \in Addrs /\ Tag(swap.addr) # "data"
        BY <1>1, <1>5 DEF ReadyTags
      <3> QED BY <3>2, <3>3, <2>1, <1>5
    <2>6. \A i \in Idx : newTag(pages[i].addr) = "erased" => gc.state = "erasePage" /\ i = gc.cur
      <3>1. SUFFICES ASSUME NEW i \in Idx, newTag(pages[i].addr) = "erased"
                     PROVE gc.state = "erasePage" /\ i = gc.cur
        OBVIOUS
      <3>2. pages[i].addr \in Addrs /\ pages[i].addr # swap.addr
        BY <1>5
      <3>3. Tag(pages[i].addr) = "erased" \/ (fl.kind = "erase" /\ fl.addr = pages[i].addr)
        BY <2>1, <3>1, <3>2
      <3>4. CASE Tag(pages[i].addr) = "erased"
        BY <3>4, <1>1 DEF ReadyTags
      <3>5. CASE fl.kind = "erase" /\ fl.addr = pages[i].addr
        <4>1. gc.state = "erasePage" /\ pages[i].addr = pages[gc.cur].addr
          BY <3>2, <3>5, <1>8
        <4> QED BY <4>1, <1>1, <1>5 DEF Mapped
      <3> QED BY <3>3, <3>4, <3>5
    <2>7. newTag(swap.addr) = "erased" => gc.state \in {"promote", "tagSwap", "discardSwap"}
      BY <2>1, <1>1, <1>5, <1>8 DEF ReadyTags
    <2>8. GcDone' = (Executes({"gc"}) /\ Current.step = "begun")
      BY <1>3 DEF GcDone, Executes
    <2>9. \A a \in Addrs : Tag(a)' = newTag(a)
      BY DEF Tag
    <2> HIDE DEF newTag
    <2> QED BY <2>2, <2>3, <2>4, <2>5, <2>6, <2>7, <2>8, <2>9, <1>3, <1>5 DEF ReadyTags, Tag, newTag
  <1>10. ReadyFlash'
    BY DEF ReadyFlash, NoFl, WriteKinds
  <1>11. \A a \in Addrs : a # fl.addr => Tag(a)' = Tag(a) /\ Recs(a)' = Recs(a)
    BY DEF Done, Tag, Recs
  <1>12. Offsets'
    <2>1. SUFFICES ASSUME NEW i \in Idx
                   PROVE /\ Wrote(i)' => LET r == flash'[pages[i].addr].recs IN
                              r # <<>> /\ Last(r).off = pages[i].woff /\ Last(r).len = Current.len
                         /\ ~Wrote(i)' /\ ~Swapped(i)' =>
                              EndOf(flash'[pages[i].addr].recs) = pages[i].woff
                         /\ pages[i].woff >= TagSize
      BY <1>3 DEF Offsets, Recs
    <2> DEFINE a == pages[i].addr
               old == Recs(a)
               new == flash'[a].recs
    <2>2. a \in Addrs /\ a # swap.addr /\ old \in Seq(Slots) /\ Chain(old) /\ flash[a] \in Page
          /\ old = flash[a].recs
      BY <1>5, <1>6 DEF Recs
    <2>3. /\ Wrote(i) => old # <<>> /\ Last(old).off = pages[i].woff
                         /\ Last(old).len = Current.len
          /\ ~Wrote(i) /\ ~Swapped(i) => EndOf(old) = pages[i].woff
          /\ pages[i].woff >= TagSize
      BY <1>1 DEF Offsets
    <2>4. Wrote(i)' = (Wrote(i) \/ (fl.kind = "begin" /\ Current.page = i))
      <3>1. fl.kind = "begin" => Current.step = "id" /\ Executes({"write", "update"})
        BY <1>1 DEF ReadyFlash, WriteKinds
      <3>2. Wrote(i)' = (/\ Executes({"write", "update"}) /\ Current.page = i
                         /\ Current.step \notin {"begin", "find"})
        BY <1>2, <1>3 DEF Wrote, Executes, NoFl
      <3>3. Wrote(i) = (/\ Executes({"write", "update"}) /\ Current.page = i
                        /\ Current.step \notin {"begin", "find"} /\ fl.kind # "begin")
        BY <1>2 DEF Wrote
      <3> QED BY <3>1, <3>2, <3>3
    <2>5. ~Swapped(i)' => ~Swapped(i) /\ ~(fl.kind = "erase" /\ fl.addr = a)
      <3>1. SUFFICES ASSUME ~Swapped(i)' PROVE ~Swapped(i) /\ ~(fl.kind = "erase" /\ fl.addr = a)
        OBVIOUS
      <3>2. ~(gc.state = "erasePage" /\ i = gc.cur /\ flash'[a].tag = "erased")
        BY <3>1, <1>3 DEF Swapped, Tag
      <3>3. fl.kind = "erase" /\ fl.addr = a => FALSE
        <4>1. SUFFICES ASSUME fl.kind = "erase", fl.addr = a PROVE FALSE
          OBVIOUS
        <4>2. gc.state = "erasePage" /\ a = pages[gc.cur].addr
          BY <4>1, <2>2, <1>8
        <4>3. i = gc.cur
          BY <4>2, <1>1, <1>5 DEF Mapped
        <4>4. flash'[a].tag = "erased"
          BY <4>1 DEF Done
        <4> QED BY <3>2, <4>2, <4>3, <4>4
      <3>4. Swapped(i) => FALSE
        <4>1. SUFFICES ASSUME Swapped(i) PROVE FALSE
          OBVIOUS
        <4>2. gc.state = "erasePage" /\ i = gc.cur /\ Tag(a) = "erased"
          BY <4>1 DEF Swapped
        <4>3. flash'[a].tag = "erased"
          <5>1. CASE a # fl.addr
            BY <5>1, <1>11, <2>2, <4>2 DEF Tag
          <5>2. CASE a = fl.addr
            <6>1. fl.kind \notin {"swap", "data"}
              BY <1>8, <4>2
            <6> QED BY <5>2, <6>1, <4>2 DEF Done, Tag
          <5> QED BY <5>1, <5>2
        <4> QED BY <3>2, <4>2, <4>3
      <3> QED BY <3>3, <3>4
    <2>6. CASE a # fl.addr
      <3>1. new = old
        BY <2>2, <2>6, <1>11 DEF Recs
      <3>2. ~(fl.kind = "begin" /\ Current.page = i)
        BY <2>6, <1>8 DEF WriteKinds
      <3> QED BY <3>1, <3>2, <2>3, <2>4, <2>5
    <2>7. CASE a = fl.addr /\ fl.kind \in {"id", "chunk", "final", "dirty"}
      <3>1. InPlace(flash[a], flash'[a], fl.off)
        BY <2>7 DEF Done
      <3>2. /\ EndOf(new) = EndOf(old) /\ (new = <<>> <=> old = <<>>)
            /\ old # <<>> => Last(new).off = Last(old).off /\ Last(new).len = Last(old).len
        BY <3>1, <2>2, InPlaceEnds
      <3> QED BY <3>2, <2>3, <2>4, <2>5, <2>7
    <2>8. CASE a = fl.addr /\ fl.kind = "begin"
      <3>1. PICK r \in Slots : new = Append(old, r) /\ r.off = fl.off /\ r.len = fl.rec.len
        BY <2>2, <2>8 DEF Done
      <3>2. fl.off = pages[Current.page].woff /\ fl.rec.len = Current.len
            /\ Current.page \in Idx /\ fl.addr = pages[Current.page].addr
        BY <2>8, BeginFits
      <3>3. Current.page = i
        BY <3>2, <2>8, <1>1 DEF Mapped
      <3>4. new # <<>> /\ Last(new) = r
        BY <3>1, <2>2, AppendLast
      <3> QED BY <3>1, <3>2, <3>3, <3>4, <2>3, <2>4, <2>8
    <2>9. CASE a = fl.addr /\ fl.kind \in {"data", "swap", "copy"}
      <3>1. fl.kind = "data"
        BY <2>2, <2>9, <1>8
      <3>2. new = old
        BY <3>1, <2>2, <2>9 DEF Done
      <3>3. ~(fl.kind = "begin" /\ Current.page = i)
        BY <3>1
      <3> QED BY <3>2, <3>3, <2>3, <2>4, <2>5
    <2>10. CASE a = fl.addr /\ fl.kind = "erase"
      <3>1. Swapped(i)' /\ ~Wrote(i)'
        <4>1. Executes({"gc"})
          BY <2>10, <1>7
        <4>2. ~Wrote(i) /\ fl.kind # "begin"
          BY <4>1, <2>10 DEF Wrote, Executes
        <4> QED BY <4>2, <2>4, <2>5, <2>10
      <3> QED BY <3>1, <2>3
    <2> QED BY <2>6, <2>7, <2>8, <2>9, <2>10, <1>7 DEF WriteKinds
  <1>13. Space'
    BY <1>1, <1>3, SpaceSame
  <1>14. SwapOffsets'
    <2> DEFINE old == Recs(swap.addr)
               new == flash'[swap.addr].recs
    <2>1. old \in Seq(Slots) /\ Chain(old) /\ flash[swap.addr] \in Page /\ old = flash[swap.addr].recs
      BY <1>5, <1>6 DEF Recs
    <2>2. \/ new = old
          \/ fl.kind = "erase" /\ new = <<>> /\ gc.state = "discardSwap"
          \/ fl.kind = "copy" /\ gc.state = "copy"
      <3>1. CASE fl.addr # swap.addr
        BY <3>1, <1>5, <1>11 DEF Recs
      <3>2. CASE fl.addr = swap.addr
        <4>1. fl.kind \notin WriteKinds \cup {"dirty"}
          BY <3>2, <1>8
        <4>2. CASE fl.kind = "erase"
          BY <3>2, <4>2, <1>5, <1>8 DEF Done
        <4>3. CASE fl.kind \in {"swap", "data"}
          BY <3>2, <4>3 DEF Done, Recs
        <4>4. CASE fl.kind = "copy"
          BY <4>4, <1>8
        <4> QED BY <4>1, <4>2, <4>3, <4>4, <1>7
      <3> QED BY <3>1, <3>2
    <2>3. gc.state = "discardSwap" /\ Executes({"gc"}) => new = <<>>
      <3>1. gc.state = "discardSwap" /\ Executes({"gc"}) => fl.kind = "erase" /\ fl.addr = swap.addr
        BY <1>1, GcBusy
      <3> QED BY <3>1 DEF Done
    <2>4. /\ gc.state \in {"begin", "tagSwap", "promote"} => new = <<>>
          /\ gc.state = "erasePage" => EndOf(new) = swap.woff
      BY <2>2, <1>1 DEF SwapOffsets
    <2>5. Recs(swap.addr)' = new
      BY <1>3 DEF Recs
    <2>6. GcDone' => Executes({"gc"})
      BY <1>3 DEF GcDone, Executes
    <2> HIDE DEF new, old
    <2> QED BY <2>3, <2>4, <2>5, <2>6, <1>1, <1>3 DEF SwapOffsets
  <1>15. Copying'
    <2>1. SUFFICES ASSUME gc.state = "copy" PROVE Copying'
      BY <1>3 DEF Copying
    <2> DEFINE a == pages[gc.cur].addr
               p == Recs(a)
               s == Recs(swap.addr)
               np == flash'[a].recs
               ns == flash'[swap.addr].recs
    <2>2. /\ gc.src \in DOMAIN p /\ p[gc.src].st = "valid"
          /\ p[gc.src].off + p[gc.src].len <= pages[gc.cur].woff
          /\ TagSize <= swap.woff /\ swap.woff <= p[gc.src].off
          /\ \/ EndOf(s) = swap.woff /\ ~GcDone
             \/ s # <<>> /\ Last(s) = [p[gc.src] EXCEPT !.off = swap.woff]
      BY <2>1, <1>1 DEF Copying
    <2>3. /\ a \in Addrs /\ a # swap.addr /\ p \in Seq(Slots) /\ Chain(p) /\ flash[a] \in Page
          /\ p = flash[a].recs /\ s = flash[swap.addr].recs
      BY <1>5, <1>6 DEF Recs
    <2>4. fl.kind \notin {"erase", "data", "swap"}
      BY <2>1, <1>8
    <2>5. gc.src \in DOMAIN np /\ np[gc.src] = p[gc.src]
      <3>1. CASE a # fl.addr
        <4>1. np = p
          BY <3>1, <2>3, <1>11 DEF Recs
        <4> QED BY <4>1, <2>2
      <3>2. CASE a = fl.addr /\ fl.kind = "dirty"
        BY <3>2, <2>1 DEF GcStale
      <3>3. CASE a = fl.addr /\ fl.kind = "copy"
        BY Zenon, <3>3, <2>3, <1>8
      <3>4. CASE a = fl.addr /\ fl.kind = "begin"
        <4>1. PICK r \in Slots : np = Append(p, r)
          BY <3>4, <2>3 DEF Done
        <4> HIDE DEF np, p
        <4> QED BY ZenonT(20), <4>1, <2>2, <2>3, AppendLast
      <3>5. CASE a = fl.addr /\ fl.kind \in {"id", "chunk", "final"}
        <4>1. InPlace(flash[a], flash'[a], fl.off)
          BY <3>5 DEF Done
        <4>2. Executes({"write", "update"}) /\ fl.addr = pages[Current.page].addr
              /\ fl.off = pages[Current.page].woff /\ Current.page \in Idx
              /\ Current.step \notin {"begin", "find"}
          BY <3>5, <1>1, <1>2, HeadTyped DEF ReadyFlash, WriteKinds
        <4>3. Current.page = gc.cur
          BY <4>2, <3>5, <1>1, <1>5 DEF Mapped
        <4>4. Wrote(gc.cur)
          BY <4>2, <4>3, <3>5, <1>2 DEF Wrote
        <4>5. p # <<>> /\ Last(p).off = fl.off
          BY <4>2, <4>3, <4>4, <1>1, <1>5 DEF Offsets
        <4>6. Len(p) \in DOMAIN p /\ p[Len(p)].off = fl.off
          BY <4>5, <2>3 DEF Last
        <4>7. p[gc.src].off # fl.off
          <5>1. p[gc.src].off \in Nat /\ p[gc.src].len \in Nat /\ p[gc.src].len >= HeaderSize
            BY Zenon, <2>2, <2>3, ChainOrder
          <5>2. p[gc.src].off + p[gc.src].len <= fl.off
            BY <2>2, <4>2, <4>3
          <5>3. fl.off \in Nat
            BY <4>2, <1>1, PageOf
          <5> DEFINE x == p[gc.src].off
                     y == p[gc.src].len
          <5> HIDE DEF x, y
          <5>4. x # fl.off
            BY <5>1, <5>2, <5>3, Sizes DEF x, y
          <5> QED BY Zenon, <5>4 DEF x
        <4>8. np[gc.src] = p[gc.src] /\ DOMAIN np = DOMAIN p
          <5>1. np[gc.src] = p[gc.src]
            <6>1. \E j \in DOMAIN flash[a].recs : flash[a].recs[j].off = fl.off
              BY Zenon, <4>6, <2>3
            <6>2. gc.src \in DOMAIN flash[a].recs /\ flash[a].recs[gc.src].off # fl.off
              BY Zenon, <4>7, <2>2, <2>3
            <6>3. flash'[a].recs[gc.src] = flash[a].recs[gc.src]
              <7> HIDE DEF a, np, p, ns, s
              <7> QED BY <6>1, <6>2, <4>1 DEF InPlace
            <6> QED BY Zenon, <6>3, <2>3
          <5> QED BY <5>1, <4>1, <2>3, InPlaceEnds
        <4> QED BY <4>8, <2>2
      <3> QED BY <3>1, <3>2, <3>3, <3>4, <3>5, <2>4, <1>7 DEF WriteKinds
    <2>6. \/ EndOf(ns) = swap.woff /\ ~GcDone'
          \/ ns # <<>> /\ Last(ns) = [p[gc.src] EXCEPT !.off = swap.woff]
      <3>1. CASE fl.kind # "copy"
        <4>1. ns = s
          <5>1. fl.addr # swap.addr
            BY <3>1, <2>4, <1>7, <1>8
          <5> QED BY <5>1, <2>3, <1>5, <1>11 DEF Recs
        <4>2. ~GcDone'
          <5>1. ~Executes({"gc"})
            BY <3>1, <2>4, <1>7
          <5> QED BY <5>1, <1>3 DEF GcDone, Executes
        <4> QED BY <4>1, <4>2, <2>2
      <3>2. CASE fl.kind = "copy"
        <4>1. fl.rec = [p[gc.src] EXCEPT !.off = swap.woff] /\ fl.addr = swap.addr
          BY <3>2, <1>1 DEF ReadyFlash
        <4>2. ns # <<>> /\ Last(ns) = fl.rec
          <5>1. CASE ns = s /\ s # <<>> /\ Last(s) = fl.rec
            BY <5>1
          <5>2. CASE \E r \in Slots : ns = Append(s, r) /\ r = fl.rec
            <6>1. PICK r \in Slots : ns = Append(s, r) /\ r = fl.rec
              BY <5>2
            <6>2. s \in Seq(Slots)
              BY Zenon, <1>5, <1>6
            <6> HIDE DEF ns, s
            <6> QED BY <6>1, <6>2, AppendLast
          <5>3. \/ ns = flash[fl.addr].recs /\ flash[fl.addr].recs # <<>>
                   /\ Last(flash[fl.addr].recs) = fl.rec
                \/ \E r \in Slots : ns = Append(flash[fl.addr].recs, r) /\ r = fl.rec
            BY Zenon, <4>1, <3>2 DEF Done
          <5>4. flash[fl.addr].recs = s
            BY Zenon, <4>1, <2>3
          <5> HIDE DEF ns, s
          <5> QED BY <5>1, <5>2, <5>3, <5>4
        <4> QED BY <4>1, <4>2
      <3> QED BY <3>1, <3>2
    <2>7. Recs(swap.addr)' = ns /\ Recs(pages[gc.cur].addr)' = np
      BY <1>3 DEF Recs
    <2> HIDE DEF np, ns, p, s
    <2> QED BY <2>2, <2>5, <2>6, <2>7, <1>3 DEF Copying
  <1>16. Closed'
    <2>1. SUFFICES ASSUME NEW i \in Idx, Swapped(i)' PROVE pages[i].open = 0
      BY <1>3 DEF Closed, NoFl
    <2>2. gc.state = "erasePage" /\ i = gc.cur /\ flash'[pages[i].addr].tag = "erased"
      BY <2>1, <1>3 DEF Swapped, Tag
    <2>3. pages[i].addr \in Addrs
      BY <1>5
    <2>4. CASE pages[i].addr # fl.addr
      <3>1. Swapped(i)
        BY <2>2, <2>3, <2>4, <1>11 DEF Swapped, Tag
      <3> QED BY <3>1, <1>1 DEF Closed
    <2>5. CASE pages[i].addr = fl.addr
      <3>1. fl.kind = "erase" \/ (fl.kind \notin {"erase", "swap", "data"})
        BY <2>2, <2>5, <1>5, <1>8
      <3>2. fl.kind = "erase" \/ Swapped(i)
        BY <3>1, <2>2, <2>5 DEF Done, Swapped, Tag
      <3> QED BY <3>2, <2>5, <1>1 DEF Closed
    <2> QED BY <2>4, <2>5
  <1> QED BY <1>3, <1>4, <1>9, <1>10, <1>12, <1>13, <1>14, <1>15, <1>16 DEF InitPhase, ReadyPhase

\* Records are put on pages that have a tag.
LEMMA TaggedFirst ==
    ASSUME IInv, fl.kind \in {"begin", "copy"}, fl.kind = "begin" => ~GcStale(fl)
    PROVE  Tag(fl.addr) # "erased"
  <1>1. CASE fl.kind = "begin"
    <2>1. phase = "ready" /\ fl.addr = pages[Current.page].addr /\ Current.page \in Idx
      BY <1>1, BeginFits
    <2>2. ReadyTags
      BY <2>1 DEF IInv, ReadyPhase
    <2>3. ~(gc.state = "erasePage" /\ Current.page = gc.cur)
      BY <1>1, <2>1 DEF GcStale
    <2> QED BY <2>1, <2>2, <2>3 DEF ReadyTags
  <1>2. CASE fl.kind = "copy"
    <2>1. phase = "ready" /\ fl.addr = swap.addr /\ gc.state = "copy"
      BY <1>2, CopyFits
    <2> QED BY <2>1 DEF IInv, ReadyPhase, ReadyTags
  <1> QED BY <1>1, <1>2

LEMMA AppliedOK ==
    ASSUME IInv, Busy, flash' = Applied(fl), fl.kind = "begin" => ~GcStale(fl)
    PROVE  Done /\ FlashOK'
  <1>1. fl.kind = "begin" => fl.off = EndOf(Recs(fl.addr))
    BY BeginFits
  <1>2. /\ Done
        /\ \A a \in Addrs : Chain(flash'[a].recs) /\ EndOf(flash'[a].recs) < PageSize
    BY <1>1, DoneEffect
  <1>3. FlashOK /\ Typed
    BY DEF IInv
  <1>4. ASSUME NEW a \in Addrs, flash'[a].tag = "erased" PROVE flash'[a].recs = <<>>
    <2>1. CASE a # fl.addr
      BY <2>1, <1>2, <1>3, <1>4 DEF Done, FlashOK, Tag, Recs
    <2>2. CASE a = fl.addr
      <3>1. flash[a] \in Page /\ Tag(a) \in Tags /\ Chain(flash[a].recs)
            /\ (Tag(a) = "erased" => flash[a].recs = <<>>)
        BY <1>3, PagesTyped DEF Recs
      <3>2. fl.kind \in {"erase", "swap", "data", "copy", "dirty"} \cup WriteKinds
        BY <1>3 DEF Typed, FlTyped, Busy
      <3>3. CASE fl.kind = "erase"
        BY <2>2, <3>3, <1>2 DEF Done
      <3>4. CASE fl.kind \in {"swap", "data"}
        BY <2>2, <3>1, <3>4, <1>2, <1>4 DEF Done, Tagged, Tags
      <3>5. CASE fl.kind \in {"id", "chunk", "final", "dirty"}
        <4>1. InPlace(flash[a], flash'[a], fl.off) /\ flash'[a].tag = Tag(a)
          BY <2>2, <3>5, <1>2 DEF Done, Tag
        <4>2. flash'[a].recs = <<>> <=> flash[a].recs = <<>>
          BY <3>1, <4>1, InPlaceEnds
        <4> QED BY <3>1, <4>1, <4>2, <1>4
      <3>6. CASE fl.kind \in {"begin", "copy"}
        <4>1. flash'[a].tag = Tag(a)
          BY <2>2, <3>6, <1>2 DEF Done, Tag
        <4>2. Tag(a) # "erased"
          BY <2>2, <3>6, TaggedFirst
        <4> QED BY <4>1, <4>2, <1>4
      <3> QED BY <3>2, <3>3, <3>4, <3>5, <3>6 DEF WriteKinds
    <2> QED BY <2>1, <2>2
  <1>5. FlashOK'
    BY <1>2, <1>4 DEF FlashOK, Tag, Recs
  <1> QED BY <1>2, <1>5

LEMMA FlashDoneStep ==
    ASSUME IInv, FlashDone, upset' = {}
    PROVE  IInv'
  <1>1. /\ Busy /\ flash' = Applied(fl) /\ fl' = NoFl /\ ev' = "ok"
        /\ UNCHANGED <<ram, answer, clients>>
    BY DEF FlashDone, Busy
  <1>2. ~GcStale(fl)
    BY DEF FlashDone
  <1>3. Done /\ FlashOK'
    BY <1>1, <1>2, AppliedOK
  <1>4. flash' \in [Addrs -> Page]
    BY <1>3 DEF Done
  <1>5. Common'
    BY <1>1, <1>4, FlashDoneCommon
  <1>6. CASE phase = "initializing"
    <2>1. InitPhase' /\ ReadyPhase' /\ OneSwap' /\ NotAllData'
      BY <1>1, <1>3, <1>6, FlashDoneInit
    <2> QED BY <2>1, <1>3, <1>5 DEF IInv, Common
  <1>7. CASE phase = "ready"
    <2>1. InitPhase' /\ ReadyPhase'
      BY <1>1, <1>2, <1>3, <1>7, FlashDoneReady
    <2>2. phase' = "ready"
      BY <1>1, <1>7 DEF ram
    <2>3. Mapped' /\ ReadyTags'
      BY <2>1, <2>2 DEF ReadyPhase
    <2>4. OneSwap' /\ NotAllData'
      BY <2>3 DEF Mapped, ReadyTags, OneSwap, NotAllData
    <2> QED BY <2>1, <2>4, <1>3, <1>5 DEF IInv, Common
  <1> QED BY <1>1, <1>6, <1>7, BusyTurn

LEMMA FlashTimeoutStep ==
    ASSUME IInv, FlashTimeout, upset' = {}
    PROVE  IInv'
  <1>1. /\ Busy /\ flash' = flash /\ fl' = NoFl /\ ev' = "timeout"
        /\ UNCHANGED <<ram, answer, clients>>
    BY DEF FlashTimeout, Busy
  <1>2. flash' \in [Addrs -> Page]
    BY <1>1 DEF IInv, Typed
  <1>3. Common'
    BY <1>1, <1>2, FlashDoneCommon
  <1>4. OneSwap' /\ NotAllData' /\ FlashOK'
    BY <1>1 DEF IInv, OneSwap, NotAllData, FlashOK, Tag, Recs
  <1>5. InitPhase' /\ ReadyPhase'
    BY <1>1, BusyTurn, FlashTimeoutInit, FlashTimeoutReady
  <1> QED BY <1>3, <1>4, <1>5 DEF IInv, Common

-----------------------------------------------------------------------------
(* A step of the operation at the head of the queue.                       *)

\* The event of a flash operation, or the beginning of an operation.
Takes(result) ==
    /\ opq # <<>> /\ ~Busy /\ answer = "none" /\ result \in {"ok", "timeout"}
    /\ \/ ~processing /\ ev = "none" /\ result = "ok"
       \/ processing /\ ev = result
    /\ processing' = TRUE /\ ev' = "none" /\ flash' = flash /\ token' = token

\* How a step ends: with a flash operation or with an answer.
Ends ==
    \/ fl'.kind # "none" /\ answer' = "none"
    \/ fl'.kind = "none" /\ answer' # "none"

LEMMA HeadSet ==
    ASSUME opq \in Seq(OpInfo), opq # <<>>, NEW op \in OpInfo, SetHead(op)
    PROVE  /\ opq' \in Seq(OpInfo) /\ Len(opq') = Len(opq) /\ opq' # <<>>
           /\ Current' = op /\ DOMAIN opq' = DOMAIN opq
           /\ \A k \in DOMAIN opq : k > 1 => opq'[k] = opq[k]
  BY DEF SetHead, Current

LEMMA FlashSame ==
    ASSUME IInv, flash' = flash
    PROVE  OneSwap' /\ NotAllData' /\ FlashOK'
  BY DEF IInv, OneSwap, NotAllData, FlashOK, Tag, Recs

\* The head's step may have changed, the operations behind it have not.
LEMMA StepCommon ==
    ASSUME IInv, NEW result, Takes(result), Ends, FlTyped',
           pages' \in [Idx -> PageInfo],
           swap' \in [addr : Addrs \cup {NoAddr}, woff : Nat],
           gc' \in GcInfo, latest' = latest,
           opq' \in Seq(OpInfo), Len(opq') = Len(opq),
           \A k \in DOMAIN opq : k > 1 => opq'[k] = opq[k],
           answer' \in {"none", "ok", "busy", "timeout", "notfound", "internal"},
           tail' \in [step : InitSteps \cup {"none"}, page : Idx],
           phase' \in {"initializing", "ready", "failed"},
           phase' = "failed" => Alone' /\ answer' # "none"
    PROVE  Common' /\ OneSwap' /\ NotAllData' /\ FlashOK'
  <1>1. Typed /\ Turns /\ Behind
    BY DEF IInv
  <1>2. DOMAIN opq' = DOMAIN opq /\ opq' # <<>>
    BY <1>1 DEF Typed, Takes
  <1>3. Typed'
    BY <1>1 DEF Typed, Takes
  <1>4. Turns'
    BY <1>2 DEF Turns, Takes, Ends, Busy
  <1>5. Behind'
    <2>1. \A k \in DOMAIN opq : k > 1 => Fresh(opq[k])
      BY <1>1 DEF Behind
    <2>2. \A k \in DOMAIN opq : k > 1 => Fresh(opq'[k])
      BY <2>1
    <2> QED BY <2>2, <1>2 DEF Behind, Takes
  <1>6. OffPhase' /\ FailedPhase'
    BY DEF OffPhase, FailedPhase, Takes, Ends, Busy
  <1>7. OneSwap' /\ NotAllData' /\ FlashOK'
    BY FlashSame DEF Takes
  <1> QED BY <1>3, <1>4, <1>5, <1>6, <1>7 DEF Common

\* Only an initialization is executed before the store is ready.
LEMMA TakesPhase ==
    ASSUME IInv, NEW result, Takes(result)
    PROVE  /\ \/ phase = "initializing" /\ Alone /\ Current.code = "init"
              \/ phase = "ready" /\ Current.code # "init" /\ tail.step = "none"
           /\ Current \in OpInfo
  <1>1. phase # "off"
    BY DEF IInv, OffPhase, Takes
  <1>2. phase # "failed"
    BY DEF IInv, FailedPhase, Takes
  <1>3. CASE phase = "initializing"
    <2>1. Alone /\ Typed /\ opq # <<>>
      BY <1>3 DEF IInv, InitPhase, InitControl, Takes
    <2>2. Current \in OpInfo
      BY <2>1, HeadTyped
    <2> QED BY <1>3, <2>1, <2>2 DEF Alone
  <1>4. CASE phase = "ready"
    <2>1. ReadyControl
      BY <1>4 DEF IInv, ReadyPhase
    <2>2. Current.code # "init"
      BY <2>1 DEF ReadyControl, Executes, Takes
    <2>3. tail.step = "none"
      BY <2>1, <2>2 DEF ReadyControl, Alone, Takes
    <2> QED BY <1>4, <2>2, <2>3, HeadTyped DEF IInv, Takes
  <1> QED BY <1>1, <1>2, <1>3, <1>4 DEF IInv, Typed

-----------------------------------------------------------------------------
(* fds_init goes on.                                                       *)

\* What is known when init_execute is called.
LEMMA InitTakes ==
    ASSUME IInv, NEW result, Takes(result), phase = "initializing"
    PROVE  /\ Typed /\ Mapped /\ InitControl /\ InitTags /\ InitPromotes /\ InitData /\ InitOffsets
           /\ Alone /\ Current \in OpInfo /\ opq \in Seq(OpInfo) /\ opq # <<>> /\ Len(opq) = 1
           /\ Current.code = "init" /\ Current.step \in InitSteps
           /\ fl.kind = "none" /\ ~(ev = "timeout" /\ result = "ok")
           /\ swap.addr \in Addrs /\ gc.cur \in Idx /\ token = NoToken
           /\ tail.step # "none" => processing
  <1>1. Typed /\ Mapped /\ InitControl /\ InitTags /\ InitPromotes /\ InitData /\ InitOffsets
    BY DEF IInv, InitPhase
  <1>2. opq \in Seq(OpInfo) /\ opq # <<>> /\ Current \in OpInfo
    BY <1>1, HeadTyped DEF Takes
  <1>3. gc.cur \in Idx
    BY <1>1 DEF Typed, GcInfo
  <1> QED BY <1>1, <1>2, <1>3 DEF InitControl, Alone, Mapped, Takes, Busy

LEMMA ReservedNothing ==
    ASSUME Typed, Alone, token = NoToken, NEW i \in Idx
    PROVE  ReservedOn(i) = 0
  <1>1. opq \in Seq(OpInfo) /\ opq # <<>> /\ Tail(opq) = <<>>
    <2>1. opq \in Seq(OpInfo) /\ Len(opq) = 1
      BY DEF Typed, Alone
    <2> DEFINE t == Tail(opq)
    <2>2. opq # <<>> /\ t \in Seq(OpInfo) /\ Len(t) = 0
      BY <2>1
    <2> HIDE DEF t
    <2>3. t = <<>>
      BY <2>2
    <2> QED BY <2>1, <2>2, <2>3 DEF t
  <1>2. ReservedOn(i) = TokenOn(i) + Total(Words(i, opq))
    BY Reserved
  <1>3. TokenOn(i) = 0
    BY Sizes DEF TokenOn, NoToken, NoAddr, Idx
  <1>4. Total(Words(i, opq)) = WordsOn(i, opq[1]) + Total(Words(i, Tail(opq)))
    BY <1>1, WordsTail
  <1>5. WordsOn(i, opq[1]) = 0
    BY DEF WordsOn, Alone, Current
  <1>6. Total(Words(i, Tail(opq))) = 0
    BY <1>1, WordsNone
  <1> QED BY <1>2, <1>3, <1>4, <1>5, <1>6

\* The last step: the store is ready.
LEMMA InitReady ==
    ASSUME IInv, Takes("ok"), phase = "initializing",
           Current.step = "tagData", ErasedPages = {},
           phase' = "ready", answer' = "ok", fl' = fl,
           UNCHANGED <<pages, swap, gc, opq, tail>>
    PROVE  InitPhase' /\ ReadyPhase'
  <1>1. /\ Typed /\ Mapped /\ InitControl /\ InitTags /\ InitPromotes /\ InitData /\ InitOffsets
        /\ Alone /\ Current \in OpInfo /\ opq \in Seq(OpInfo) /\ opq # <<>> /\ Len(opq) = 1
        /\ Current.code = "init"
        /\ fl.kind = "none" /\ ev # "timeout"
        /\ swap.addr \in Addrs /\ gc.cur \in Idx /\ token = NoToken
        /\ FlashOK
    BY InitTakes DEF IInv
  <1>2. \A i \in Idx : pages[i].type = "data"
    <2>1. \A i \in Idx : pages[i] \in PageInfo
      BY <1>1 DEF Typed
    <2> QED BY <2>1 DEF ErasedPages, PageInfo
  <1>3. /\ Current' = Current /\ swap' = swap /\ pages' = pages /\ gc' = gc /\ opq' = opq
        /\ tail' = tail /\ token' = token /\ flash' = flash /\ fl' = fl
        /\ \A a \in Addrs : Tag(a)' = Tag(a) /\ Recs(a)' = Recs(a)
    BY DEF Current, Takes, Tag, Recs
  <1>4. gc.state = "begin" /\ ~gc.resume
    BY <1>1 DEF InitControl
  <1>5. ~Executes({"gc"})' /\ ~Executes({"write", "update"})'
    BY <1>1, <1>3 DEF Executes
  <1>6. Mapped' /\ ReadyControl'
    <2>1. Alone'
      BY <1>1, <1>3 DEF Alone
    <2> QED BY <1>1, <1>2, <1>3, <1>4, <1>5, <2>1 DEF Mapped, ReadyControl
  <1>7. ReadyTags'
    <2>1. \A a \in Addrs \ {swap.addr} : Tag(a) # "swap"
      BY <1>1 DEF InitTags
    <2>2. Tag(swap.addr) = "swap"
      BY <1>1 DEF InitTags
    <2>3. \A i \in Idx : Tag(pages[i].addr) # "erased" /\ pages[i].addr \in Addrs
      BY <1>1, <1>2 DEF InitData, Mapped
    <2>4. ~GcDone'
      BY <1>5 DEF GcDone
    <2>5. /\ \A a \in Addrs \ {swap.addr} : Tag(a)' # "swap"
          /\ Tag(swap.addr)' = "swap"
          /\ \A i \in Idx : Tag(pages[i].addr)' # "erased"
      BY <1>3, <2>1, <2>2, <2>3 DEF Tag
    <2> QED BY <1>3, <1>4, <2>4, <2>5 DEF ReadyTags
  <1>8. ReadyFlash'
    BY <1>1, <1>3 DEF ReadyFlash, WriteKinds
  <1>9. \A i \in Idx : /\ EndOf(Recs(pages[i].addr)) = pages[i].woff /\ pages[i].rsv = 0
                       /\ pages[i].woff >= TagSize /\ pages[i].woff < PageSize
                       /\ pages[i].addr \in Addrs /\ pages[i].woff \in Nat
    BY <1>1, PagesTyped DEF InitOffsets, Mapped
  <1>10. Offsets'
    <2>1. \A i \in Idx : ~Wrote(i)'
      BY <1>5 DEF Wrote
    <2>2. \A i \in Idx : EndOf(Recs(pages[i].addr))' = pages[i].woff
      BY <1>3, <1>9 DEF Recs
    <2> QED BY <2>1, <2>2, <1>3, <1>9 DEF Offsets
  <1>11. SwapOffsets' /\ Copying'
    <2>1. Recs(swap.addr) = <<>> /\ swap.woff = TagSize
      BY <1>1 DEF InitOffsets
    <2>2. Recs(swap.addr)' = <<>>
      BY <2>1, <1>3 DEF Recs
    <2> QED BY <2>1, <2>2, <1>3, <1>4 DEF SwapOffsets, Copying
  <1>12. Space'
    <2>1. \A i \in Idx : ReservedOn(i)' = 0
      <3>1. \A i \in Idx : ReservedOn(i)' = ReservedOn(i)
        BY <1>3 DEF ReservedOn, Total, WordsOn, RecordLen
      <3> QED BY <3>1, <1>1, ReservedNothing
    <2>2. \A i \in Idx : SpaceDone(i)' = 0
      BY <1>1, <1>3 DEF SpaceDone
    <2>3. \A k \in DOMAIN opq : opq[k].code \notin {"write", "update"}
      BY <1>1 DEF Current
    <2>4. \A i \in Idx : pages[i].woff + pages[i].rsv < PageSize /\ pages[i].rsv >= 0 - 0
      BY <1>9
    <2> QED BY <2>1, <2>2, <2>3, <2>4, <1>3 DEF Space
  <1>13. Closed'
    BY <1>1, <1>3, <1>4 DEF Closed, Swapped
  <1> QED BY <1>6, <1>7, <1>8, <1>10, <1>11, <1>12, <1>13 DEF InitPhase, ReadyPhase

\* The flash operation of a step, begun by the main thread, which assigns
\* later (tail), or in an event.
LEMMA InitStarts ==
    ASSUME IInv, NEW result, Takes(result), phase = "initializing",
           NEW i, i = IF Current.step = "tagData" THEN Min(ErasedPages) ELSE 0,
           Current.step = "tagData" => ErasedPages # {}
    PROVE  LET o == InitTarget(Current.step, i) IN
           /\ i \in Idx
           /\ Current.step = "tagData" => pages[i].type = "erased"
           /\ o.addr \in Addrs /\ o.kind \in {"swap", "data", "erase"}
           /\ Current.step = "tagSwap" => o.kind = "swap" /\ o.addr = swap.addr
           /\ Current.step = "tagData" => o.kind = "data" /\ o.addr = pages[i].addr
           /\ Current.step = "eraseSwap" => o.kind = "erase" /\ o.addr = swap.addr
           /\ Current.step = "promote" => o.kind = "data" /\ o.addr = swap.addr
  <1>1. Current.step \in InitSteps /\ Mapped /\ swap.addr \in Addrs
    BY InitTakes
  <1>2. i \in Idx /\ (Current.step = "tagData" => pages[i].type = "erased")
    <2>1. CASE Current.step = "tagData"
      <3>1. ErasedPages \in SUBSET Nat /\ ErasedPages # {}
        BY <2>1, Sizes DEF ErasedPages
      <3>2. Min(ErasedPages) \in ErasedPages
        BY <3>1, LeastOf
      <3> QED BY <2>1, <3>2 DEF ErasedPages
    <2>2. CASE Current.step # "tagData"
      BY <2>2, Sizes
    <2> QED BY <2>1, <2>2
  <1>3. pages[i].addr \in Addrs
    BY <1>1, <1>2 DEF Mapped
  <1> QED BY <1>1, <1>2, <1>3 DEF InitTarget, SwapTarget, OnPage, InitSteps

LEMMA InitInMain ==
    ASSUME IInv, Takes("ok"), phase = "initializing",
           NEW i, i = IF Current.step = "tagData" THEN Min(ErasedPages) ELSE 0,
           Current.step = "tagData" => ErasedPages # {},
           fl' = InitTarget(Current.step, i), answer' = "none", phase' = phase,
           tail' = [step |-> Current.step, page |-> i],
           UNCHANGED <<pages, swap, gc, opq>>
    PROVE  InitPhase' /\ ReadyPhase'
  <1>1. /\ Typed /\ Mapped /\ InitControl /\ InitTags /\ InitPromotes /\ InitData /\ InitOffsets
        /\ Alone /\ Current.step \in InitSteps
        /\ fl.kind = "none" /\ ev # "timeout"
        /\ swap.addr \in Addrs /\ gc.cur \in Idx
    BY InitTakes
  <1>2. /\ Current' = Current /\ swap' = swap /\ pages' = pages /\ gc' = gc /\ opq' = opq
        /\ token' = token /\ flash' = flash /\ processing' = TRUE /\ ev' = "none"
        /\ answer' = answer
        /\ \A a \in Addrs : Tag(a)' = Tag(a) /\ Recs(a)' = Recs(a)
        /\ Tag(swap.addr)' = Tag(swap.addr) /\ Recs(swap.addr)' = Recs(swap.addr)
        /\ \A j \in Idx : /\ Tag(pages[j].addr)' = Tag(pages[j].addr)
                          /\ Recs(pages[j].addr)' = Recs(pages[j].addr)
    BY DEF Current, Takes, Tag, Recs
  <1>3. /\ i \in Idx
        /\ fl'.kind \in {"swap", "data", "erase"}
        /\ Current.step = "tagSwap" => fl'.kind = "swap" /\ fl'.addr = swap.addr
        /\ Current.step = "tagData" => fl'.kind = "data" /\ fl'.addr = pages[i].addr
        /\ Current.step = "eraseSwap" => fl'.kind = "erase" /\ fl'.addr = swap.addr
        /\ Current.step = "promote" => fl'.kind = "data" /\ fl'.addr = swap.addr
    BY InitStarts
  <1>4. tail'.step = Current.step /\ tail'.page = i
    OBVIOUS
  <1>5. Mapped' /\ InitControl'
    BY <1>1, <1>2, <1>4 DEF Mapped, InitControl, Alone
  <1>6. InitTags'
    <2>1. Current.step # "promote" =>
            /\ \A a \in Addrs \ {swap.addr} : Tag(a) # "swap"
            /\ Tag(swap.addr) # "data"
            /\ Current.step = "tagData" => Tag(swap.addr) = "swap"
      BY <1>1 DEF InitTags
    <2>2. Current.step = "tagData" => fl'.addr # swap.addr
      BY <1>1, <1>3 DEF Mapped
    <2>3. Current.step = "tagSwap" \/ Current.step = "tagData" \/ Current.step = "eraseSwap"
          \/ Current.step = "promote"
      BY <1>1 DEF InitSteps
    <2> QED BY <2>1, <2>2, <2>3, <1>2, <1>3, <1>4 DEF InitTags
  <1>7. InitPromotes'
    BY <1>1, <1>2, <1>3, <1>4 DEF InitPromotes
  <1>8. InitData'
    <2>1. \A j \in Idx : pages[j].type = "data" => Tag(pages[j].addr) # "erased"
      BY <1>1 DEF InitData
    <2>2. ASSUME NEW j \in Idx, tail' = [step |-> "tagData", page |-> j]
          PROVE  fl'.kind = "data" /\ fl'.addr = pages[j].addr
      BY <2>2, <1>3, <1>4
    <2> QED BY <2>1, <2>2, <1>2 DEF InitData
  <1>9. InitOffsets'
    BY <1>1, <1>2, <1>3, <1>4 DEF InitOffsets
  <1> QED BY <1>2, <1>5, <1>6, <1>7, <1>8, <1>9 DEF InitPhase, ReadyPhase

LEMMA InitHead ==
    ASSUME Typed, Alone, NEW s \in InitSteps, SetInitStep(s) \/ (UNCHANGED opq /\ s = Current.step)
    PROVE  /\ opq' \in Seq(OpInfo) /\ Len(opq') = 1 /\ Alone' /\ Current'.step = s
           /\ opq' # <<>> /\ Current'.code = "init"
  <1>1. opq \in Seq(OpInfo) /\ Len(opq) = 1 /\ Current.code = "init"
    BY DEF Typed, Alone
  <1>2. opq # <<>> /\ Current \in OpInfo
    <2>1. opq # <<>>
      <3>1. Len(opq) # Len(<<>>)
        BY <1>1
      <3> QED BY <3>1
    <2> QED BY <2>1, HeadTyped
  <1>3. CASE UNCHANGED opq /\ s = Current.step
    BY <1>1, <1>2, <1>3 DEF Alone, Current
  <1>4. CASE SetInitStep(s)
    <2> DEFINE op == [Current EXCEPT !.step = s]
    <2>1. op \in OpInfo /\ op.step = s /\ op.code = "init"
      BY <1>1, <1>2 DEF OpInfo, OpSteps
    <2>2. SetHead(op)
      BY <1>1, <1>2, <1>4 DEF SetInitStep
    <2> HIDE DEF op
    <2>3. opq' \in Seq(OpInfo) /\ Len(opq') = Len(opq) /\ opq' # <<>> /\ Current' = op
      BY <1>1, <1>2, <2>1, <2>2, HeadSet
    <2> QED BY <1>1, <2>1, <2>3 DEF Alone
  <1> QED BY <1>3, <1>4

\* The wrong page is not promoted: the pages' addresses are exchanged with
\* that of the swap.
LEMMA PromoteAssigns ==
    ASSUME Typed, Mapped, Alone, Current.step = "promote",
           InitAssign("promote", 0), upset' = {},
           phase = "initializing", phase' = phase, flash' = flash,
           gc.state = "begin", ~gc.resume, gc' = gc, token = NoToken, token' = token,
           answer' = "none", processing' = TRUE,
           tail'.step \in {"none", "promote"},
           \A a \in Addrs \ {swap.addr} : Tag(a) # "swap",
           \A i \in Idx : pages[i].type = "erased" => Tag(pages[i].addr) = "erased",
           swap.woff = EndOf(Recs(swap.addr)),
           \A i \in Idx : pages[i].type = "data" =>
               Tag(pages[i].addr) # "erased" \/ ev' = "timeout",
           Tag(swap.addr) = "data" \/ ev' = "timeout"
               \/ (fl'.kind = "data" /\ fl'.addr = swap.addr),
           fl'.kind \in {"none", "data"}, fl'.kind = "data" => fl'.addr = swap.addr,
           \A i \in Idx : /\ pages[i].type = "erased" => Recs(pages[i].addr) = <<>>
                          /\ pages[i].woff = EndOf(Recs(pages[i].addr))
                          /\ pages[i].rsv = 0
    PROVE  /\ InitPhase' /\ ReadyPhase' /\ Alone' /\ opq' \in Seq(OpInfo) /\ Len(opq') = 1
           /\ pages' \in [Idx -> PageInfo]
           /\ swap' \in [addr : Addrs \cup {NoAddr}, woff : Nat]
  <1> DEFINE c == gc.cur
  <1>1. /\ c \in Idx /\ pages \in [Idx -> PageInfo] /\ swap.woff \in Nat /\ TagSize \in Nat
        /\ swap.addr \in Addrs /\ gc'.cur = c
        /\ \A i \in Idx : /\ pages[i].addr \in Addrs /\ pages[i].addr # swap.addr
                          /\ pages[i] \in PageInfo
    BY Sizes, PageOf DEF Typed, GcInfo, Mapped
  <1>2. /\ swap' = [addr |-> pages[c].addr, woff |-> TagSize]
        /\ pages' = [pages EXCEPT ![c].addr = swap.addr, ![c].woff = swap.woff, ![c].type = "data"]
        /\ pages[c].type = "erased"
        /\ SetInitStep("tagSwap")
    BY DEF InitAssign
  <1>3. swap'.addr = pages[c].addr /\ swap'.woff = TagSize
    BY <1>2
  <1>4. /\ pages'[c].addr = swap.addr /\ pages'[c].woff = swap.woff /\ pages'[c].type = "data"
        /\ pages'[c].rsv = pages[c].rsv /\ pages'[c] \in PageInfo
        /\ \A i \in Idx \ {c} : pages'[i] = pages[i]
        /\ pages' \in [Idx -> PageInfo]
    <2>1. pages' = [pages EXCEPT ![c] = [pages[c] EXCEPT !.addr = swap.addr, !.woff = swap.woff,
                                                         !.type = "data"]]
      BY <1>1, <1>2
    <2>2. [pages[c] EXCEPT !.addr = swap.addr, !.woff = swap.woff, !.type = "data"] \in PageInfo
      BY <1>1 DEF PageInfo
    <2>3. LET q == [pages[c] EXCEPT !.addr = swap.addr, !.woff = swap.woff, !.type = "data"] IN
          q.addr = swap.addr /\ q.woff = swap.woff /\ q.type = "data" /\ q.rsv = pages[c].rsv
      BY <1>1 DEF PageInfo
    <2> QED BY <1>1, <2>1, <2>2, <2>3
  <1>5. /\ opq' \in Seq(OpInfo) /\ Len(opq') = 1 /\ Alone' /\ Current'.step = "tagSwap"
        /\ opq' # <<>>
    BY <1>2, InitHead DEF InitSteps
  <1>6. Mapped'
    <2>1. \A i \in Idx : pages'[i].addr \in Addrs \ {swap'.addr}
      BY <1>1, <1>3, <1>4 DEF Mapped
    <2>2. \A i, j \in Idx : pages'[i].addr = pages'[j].addr => i = j
      BY <1>1, <1>4 DEF Mapped
    <2> QED BY <1>1, <1>3, <2>1, <2>2 DEF Mapped
  <1>7. InitControl'
    BY <1>5 DEF InitControl, InitSteps
  <1>8. \A a \in Addrs : Tag(a)' = Tag(a) /\ Recs(a)' = Recs(a)
    BY DEF Tag, Recs
  <1>9. Tag(pages[c].addr) = "erased" /\ Recs(pages[c].addr) = <<>>
    BY <1>1, <1>2
  <1>10. InitTags'
    <2>1. Tag(swap'.addr) = "erased"
      BY <1>3, <1>9
    <2>2. \A a \in Addrs \ {swap'.addr} :
             Tag(a) = "swap" => ev' = "timeout" \/ (fl'.kind = "data" /\ fl'.addr = a)
      BY <1>1
    <2>3. fl'.kind = "data" => fl'.addr # swap'.addr
      BY <1>1, <1>3
    <2>4. Tag(swap.addr)' = Tag(swap'.addr)
      BY DEF Tag
    <2> QED BY <2>1, <2>2, <2>3, <2>4, <1>1, <1>4, <1>5, <1>8 DEF InitTags
  <1>11. InitPromotes'
    BY <1>5 DEF InitPromotes
  <1>12. InitData'
    <2>1. ASSUME NEW i \in Idx, pages'[i].type = "data"
          PROVE  \/ Tag(pages'[i].addr) # "erased" \/ ev' = "timeout"
                 \/ fl'.kind = "data" /\ fl'.addr = pages'[i].addr
      <3>1. CASE i = c
        BY <3>1, <1>4
      <3>2. CASE i # c
        BY <3>2, <2>1, <1>4
      <3> QED BY <3>1, <3>2
    <2>2. \A i \in Idx : tail' # [step |-> "tagData", page |-> i]
      OBVIOUS
    <2>3. \A i \in Idx : Tag(pages[i].addr)' = Tag(pages'[i].addr)
      BY DEF Tag
    <2> QED BY <2>1, <2>2, <2>3 DEF InitData
  <1>13. InitOffsets'
    <2>1. ASSUME NEW i \in Idx
          PROVE  /\ pages'[i].type = "erased" => Recs(pages'[i].addr) = <<>>
                 /\ pages'[i].woff = EndOf(Recs(pages'[i].addr))
                 /\ pages'[i].rsv = 0
      <3>1. CASE i = c
        BY <3>1, <1>1, <1>4
      <3>2. CASE i # c
        BY <3>2, <1>4
      <3> QED BY <3>1, <3>2
    <2>2. \A i \in Idx : Recs(pages[i].addr)' = Recs(pages'[i].addr)
      BY DEF Recs
    <2>3. Recs(swap.addr)' = <<>>
      BY <1>3, <1>9 DEF Recs
    <2> QED BY <2>1, <2>2, <2>3, <1>3, <1>5 DEF InitOffsets
  <1>14. swap' \in [addr : Addrs \cup {NoAddr}, woff : Nat]
    BY <1>1, <1>2
  <1> QED BY <1>4, <1>5, <1>6, <1>7, <1>10, <1>11, <1>12, <1>13, <1>14 DEF InitPhase, ReadyPhase

\* The other assignments.
LEMMA InitAssigns ==
    ASSUME Typed, Mapped, Alone, Current.step \in InitSteps \ {"promote"},
           NEW step \in InitSteps \ {"promote"}, NEW i \in Idx, InitAssign(step, i),
           phase = "initializing", phase' = phase, flash' = flash,
           gc.state = "begin", ~gc.resume, gc' = gc, token = NoToken, token' = token,
           answer' = "none", processing' = TRUE, gc.cur \in Idx,
           \A a \in Addrs \ {swap.addr} :
               Tag(a) = "swap" => ev' = "timeout" \/ (fl'.kind = "data" /\ fl'.addr = a),
           Tag(swap.addr) # "data", fl'.kind \in {"none", "swap", "data", "erase"},
           fl'.kind = "data" => fl'.addr # swap.addr,
           fl'.kind \in {"swap", "erase"} => fl'.addr = swap.addr,
           tail'.step = "promote" => pages[gc.cur].type = "data",
           Current.step = "tagData" \/ tail'.step = "tagSwap" \/ step = "tagSwap" =>
               /\ Tag(swap.addr) = "swap" \/ ev' = "timeout" \/ fl'.kind = "swap"
               /\ fl'.kind # "erase" /\ Current.step # "eraseSwap",
           step = "eraseSwap" => tail'.step # "tagSwap",
           \A j \in Idx : pages[j].type = "data" \/ (step = "tagData" /\ j = i)
                             \/ tail' = [step |-> "tagData", page |-> j] =>
               \/ Tag(pages[j].addr) # "erased" \/ ev' = "timeout"
               \/ fl'.kind = "data" /\ fl'.addr = pages[j].addr,
           \A j \in Idx : /\ pages[j].type = "erased" => Recs(pages[j].addr) = <<>>
                          /\ pages[j].woff = EndOf(Recs(pages[j].addr))
                          /\ pages[j].rsv = 0,
           Recs(swap.addr) = <<>> \/ fl'.kind = "erase" \/ ev' = "timeout",
           step # "eraseSwap" => swap.woff = TagSize /\ Current.step # "eraseSwap"
    PROVE  /\ InitPhase' /\ ReadyPhase' /\ Alone' /\ opq' \in Seq(OpInfo) /\ Len(opq') = 1
           /\ pages' \in [Idx -> PageInfo]
           /\ swap' \in [addr : Addrs \cup {NoAddr}, woff : Nat]
  <1>1. /\ pages \in [Idx -> PageInfo] /\ swap \in [addr : Addrs \cup {NoAddr}, woff : Nat]
        /\ TagSize \in Nat /\ swap.addr \in Addrs
    BY Sizes DEF Typed, Mapped
  <1>2. /\ swap'.addr = swap.addr /\ swap' \in [addr : Addrs \cup {NoAddr}, woff : Nat]
        /\ swap'.woff = TagSize
    BY <1>1 DEF InitAssign
  <1>3. /\ pages' \in [Idx -> PageInfo]
        /\ \A j \in Idx : /\ pages'[j].addr = pages[j].addr /\ pages'[j].woff = pages[j].woff
                          /\ pages'[j].rsv = pages[j].rsv
                          /\ pages'[j].type = IF step = "tagData" /\ j = i THEN "data"
                                              ELSE pages[j].type
    <2>1. CASE step = "tagData"
      <3>1. pages' = [pages EXCEPT ![i] = [pages[i] EXCEPT !.type = "data"]]
        BY <2>1, <1>1 DEF InitAssign
      <3>2. pages[i] \in PageInfo
        BY <1>1
      <3>3. LET q == [pages[i] EXCEPT !.type = "data"] IN
            /\ q \in PageInfo /\ q.addr = pages[i].addr /\ q.woff = pages[i].woff
            /\ q.rsv = pages[i].rsv /\ q.type = "data"
        BY <3>2 DEF PageInfo
      <3> QED BY <2>1, <3>1, <3>3, <1>1
    <2>2. CASE step # "tagData"
      <3>1. pages' = pages
        BY <2>2 DEF InitAssign
      <3> QED BY <2>2, <3>1, <1>1
    <2> QED BY <2>1, <2>2
  <1> DEFINE next == IF step = "tagSwap" THEN "tagData"
                     ELSE IF step = "eraseSwap" THEN "tagSwap" ELSE Current.step
  <1>4. SetInitStep(next) \/ (UNCHANGED opq /\ next = Current.step)
    BY DEF InitAssign, InitSteps
  <1>5. next \in InitSteps /\ next # "promote" /\ next # "eraseSwap"
        /\ (next = "tagData" => step = "tagSwap" \/ Current.step = "tagData")
    BY DEF InitSteps
  <1> HIDE DEF next
  <1>6. /\ opq' \in Seq(OpInfo) /\ Len(opq') = 1 /\ Alone' /\ Current'.step = next
    BY <1>4, <1>5, InitHead
  <1>7. Mapped'
    BY <1>2, <1>3 DEF Mapped
  <1>8. InitControl'
    BY <1>5, <1>6 DEF InitControl
  <1>9. /\ \A a \in Addrs : Tag(a)' = Tag(a) /\ Recs(a)' = Recs(a)
        /\ Tag(swap.addr)' = Tag(swap.addr) /\ Recs(swap.addr)' = Recs(swap.addr)
        /\ \A j \in Idx : /\ Tag(pages[j].addr)' = Tag(pages[j].addr)
                          /\ Recs(pages[j].addr)' = Recs(pages[j].addr)
    BY <1>2, <1>3 DEF Tag, Recs
  <1>10. InitTags'
    <2>1. tail'.step = "promote" => pages'[gc.cur].type = "data"
      BY <1>3
    <2>2. next = "tagData" \/ tail'.step = "tagSwap" =>
               /\ Tag(swap.addr) = "swap" \/ ev' = "timeout" \/ fl'.kind = "swap"
               /\ fl'.kind # "erase" /\ next # "eraseSwap"
      BY <1>5
    <2> QED BY <2>1, <2>2, <1>2, <1>6, <1>9 DEF InitTags
  <1>11. InitPromotes'
    BY <1>5, <1>6 DEF InitPromotes
  <1>12. InitData'
    BY <1>3, <1>9 DEF InitData
  <1>13. InitOffsets'
    BY <1>2, <1>3, <1>5, <1>6, <1>9 DEF InitOffsets
  <1> QED BY <1>2, <1>3, <1>6, <1>7, <1>8, <1>10, <1>11, <1>12, <1>13 DEF InitPhase, ReadyPhase

LEMMA AssignPages ==
    ASSUME Typed, NEW step \in InitSteps, NEW i \in Idx, InitAssign(step, i)
    PROVE  /\ pages' \in [Idx -> PageInfo]
           /\ swap' \in [addr : Addrs \cup {NoAddr}, woff : Nat]
  <1>1. /\ pages \in [Idx -> PageInfo] /\ swap \in [addr : Addrs \cup {NoAddr}, woff : Nat]
        /\ TagSize \in Nat /\ gc.cur \in Idx
        /\ \A j \in Idx : pages[j] \in PageInfo
    BY Sizes DEF Typed, GcInfo
  <1>2. pages[gc.cur].addr \in Addrs \cup {NoAddr}
    BY <1>1 DEF PageInfo
  <1>3. swap' \in [addr : Addrs \cup {NoAddr}, woff : Nat]
    BY <1>1, <1>2 DEF InitAssign, InitSteps
  <1>4. pages' \in [Idx -> PageInfo]
    <2>1. CASE step = "tagData"
      <3>1. pages' = [pages EXCEPT ![i] = [pages[i] EXCEPT !.type = "data"]]
        BY <2>1, <1>1 DEF InitAssign
      <3>2. [pages[i] EXCEPT !.type = "data"] \in PageInfo
        BY <1>1 DEF PageInfo
      <3> QED BY <3>1, <3>2, <1>1
    <2>2. CASE step = "promote"
      <3> DEFINE q == [pages[gc.cur] EXCEPT !.addr = swap.addr, !.woff = swap.woff,
                                            !.type = "data"]
      <3>1. pages' = [pages EXCEPT ![gc.cur] = q]
        BY <2>2, <1>1 DEF InitAssign
      <3>2. q \in PageInfo
        <4>1. pages[gc.cur] \in PageInfo /\ swap.addr \in Addrs \cup {NoAddr} /\ swap.woff \in Nat
          BY <1>1
        <4> QED BY <4>1 DEF PageInfo
      <3> HIDE DEF q
      <3> QED BY <3>1, <3>2, <1>1
    <2>3. CASE step \in {"tagSwap", "eraseSwap"}
      BY <2>3, <1>1 DEF InitAssign
    <2> QED BY <2>1, <2>2, <2>3 DEF InitSteps
  <1> QED BY <1>3, <1>4

LEMMA AssignTyped ==
    ASSUME Typed, Alone, Current.step \in InitSteps, NEW step \in InitSteps, NEW i \in Idx,
           InitAssign(step, i)
    PROVE  /\ Alone' /\ opq' \in Seq(OpInfo) /\ Len(opq') = 1
           /\ pages' \in [Idx -> PageInfo]
           /\ swap' \in [addr : Addrs \cup {NoAddr}, woff : Nat]
  <1>1. /\ pages' \in [Idx -> PageInfo]
        /\ swap' \in [addr : Addrs \cup {NoAddr}, woff : Nat]
    BY AssignPages
  <1> DEFINE next == IF step = "tagSwap" THEN "tagData"
                     ELSE IF step \in {"eraseSwap", "promote"} THEN "tagSwap" ELSE Current.step
  <1>5. SetInitStep(next) \/ (UNCHANGED opq /\ next = Current.step)
    BY DEF InitAssign, InitSteps
  <1>6. next \in InitSteps
    BY DEF InitSteps
  <1> HIDE DEF next
  <1>7. Alone' /\ opq' \in Seq(OpInfo) /\ Len(opq') = 1
    BY <1>5, <1>6, InitHead
  <1> QED BY <1>1, <1>7

\* In an event the assignments are made at once.
LEMMA InitInEvent ==
    ASSUME IInv, Takes("ok"), phase = "initializing", upset' = {},
           NEW i, i = IF Current.step = "tagData" THEN Min(ErasedPages) ELSE 0,
           Current.step = "tagData" => ErasedPages # {},
           fl' = InitTarget(Current.step, i), answer' = "none", phase' = phase,
           InitAssign(Current.step, i),
           UNCHANGED <<tail, gc>>
    PROVE  /\ InitPhase' /\ ReadyPhase' /\ Alone' /\ opq' \in Seq(OpInfo) /\ Len(opq') = 1
           /\ pages' \in [Idx -> PageInfo]
           /\ swap' \in [addr : Addrs \cup {NoAddr}, woff : Nat]
  <1>1. /\ Typed /\ Mapped /\ InitControl /\ InitTags /\ InitPromotes /\ InitData /\ InitOffsets
        /\ Alone /\ Current.step \in InitSteps
        /\ fl.kind = "none" /\ ev # "timeout"
        /\ swap.addr \in Addrs /\ gc.cur \in Idx /\ token = NoToken
        /\ tail.step # "none" => processing
    BY InitTakes
  <1>2. /\ i \in Idx
        /\ fl'.kind \in {"swap", "data", "erase"}
        /\ Current.step = "tagSwap" => fl'.kind = "swap" /\ fl'.addr = swap.addr
        /\ Current.step = "tagData" => fl'.kind = "data" /\ fl'.addr = pages[i].addr
        /\ Current.step = "eraseSwap" => fl'.kind = "erase" /\ fl'.addr = swap.addr
        /\ Current.step = "promote" => fl'.kind = "data" /\ fl'.addr = swap.addr
    BY InitStarts
  <1>3. gc.state = "begin" /\ ~gc.resume
    BY <1>1 DEF InitControl
  <1>4. flash' = flash /\ token' = token /\ processing' = TRUE /\ tail' = tail
    BY DEF Takes
  <1>5. CASE Current.step = "promote"
    <2>1. /\ \A a \in Addrs \ {swap.addr} : Tag(a) # "swap"
          /\ \A j \in Idx : pages[j].type = "erased" => Tag(pages[j].addr) = "erased"
          /\ swap.woff = EndOf(Recs(swap.addr))
          /\ tail.step \in {"none", "promote"}
      BY <1>1, <1>5 DEF InitPromotes
    <2>2. \A j \in Idx : pages[j].type = "data" => Tag(pages[j].addr) # "erased"
      BY <1>1 DEF InitData
    <2>3. \A j \in Idx : /\ pages[j].type = "erased" => Recs(pages[j].addr) = <<>>
                         /\ pages[j].woff = EndOf(Recs(pages[j].addr))
                         /\ pages[j].rsv = 0
      BY <1>1 DEF InitOffsets
    <2>4. InitAssign("promote", 0)
      BY <1>5
    <2> QED BY <2>1, <2>2, <2>3, <2>4, <1>1, <1>2, <1>3, <1>4, <1>5, PromoteAssigns
  <1>6. CASE Current.step # "promote"
    <2>1. /\ \A a \in Addrs \ {swap.addr} : Tag(a) # "swap"
          /\ Tag(swap.addr) # "data"
          /\ tail.step = "promote" => pages[gc.cur].type = "data"
          /\ Current.step = "tagData" \/ tail.step = "tagSwap" =>
                Tag(swap.addr) = "swap" /\ Current.step # "eraseSwap"
      BY <1>1, <1>6 DEF InitTags
    <2>2. /\ fl'.kind = "data" => fl'.addr # swap.addr
          /\ fl'.kind \in {"swap", "erase"} => fl'.addr = swap.addr
      BY <1>1, <1>2, <1>6 DEF Mapped, InitSteps
    <2>3. Current.step = "tagData" \/ tail.step = "tagSwap" \/ Current.step = "tagSwap" =>
               /\ Tag(swap.addr) = "swap" \/ ev' = "timeout" \/ fl'.kind = "swap"
               /\ fl'.kind # "erase" /\ Current.step # "eraseSwap"
      BY <2>1, <1>1, <1>2, <1>6 DEF InitSteps
    <2>4. Current.step = "eraseSwap" => tail.step # "tagSwap"
      BY <2>1
    <2>5. \A j \in Idx : pages[j].type = "data" \/ (Current.step = "tagData" /\ j = i)
                             \/ tail = [step |-> "tagData", page |-> j] =>
               \/ Tag(pages[j].addr) # "erased" \/ ev' = "timeout"
               \/ fl'.kind = "data" /\ fl'.addr = pages[j].addr
      BY <1>1, <1>2 DEF InitData
    <2>6. \A j \in Idx : /\ pages[j].type = "erased" => Recs(pages[j].addr) = <<>>
                         /\ pages[j].woff = EndOf(Recs(pages[j].addr))
                         /\ pages[j].rsv = 0
      BY <1>1 DEF InitOffsets
    <2>7. Recs(swap.addr) = <<>> \/ fl'.kind = "erase"
      BY <1>1, <1>2, <1>6 DEF InitOffsets, InitSteps
    <2>8. Current.step # "eraseSwap" => swap.woff = TagSize
      BY <1>1, <1>6 DEF InitOffsets, InitSteps
    <2>9. Current.step \in InitSteps \ {"promote"}
      BY <1>1, <1>6
    <2>10. fl'.kind \in {"none", "swap", "data", "erase"} /\ gc' = gc /\ answer' = "none"
      BY <1>2
    <2>11. \A a \in Addrs \ {swap.addr} :
               Tag(a) = "swap" => ev' = "timeout" \/ (fl'.kind = "data" /\ fl'.addr = a)
      BY <2>1
    <2> DEFINE step == Current.step
    <2>12. step \in InitSteps \ {"promote"} /\ InitAssign(step, i)
      BY <2>9
    <2>13. /\ Current.step = "tagData" \/ tail'.step = "tagSwap" \/ step = "tagSwap" =>
               /\ Tag(swap.addr) = "swap" \/ ev' = "timeout" \/ fl'.kind = "swap"
               /\ fl'.kind # "erase" /\ Current.step # "eraseSwap"
           /\ step = "eraseSwap" => tail'.step # "tagSwap"
           /\ \A j \in Idx : pages[j].type = "data" \/ (step = "tagData" /\ j = i)
                             \/ tail' = [step |-> "tagData", page |-> j] =>
               \/ Tag(pages[j].addr) # "erased" \/ ev' = "timeout"
               \/ fl'.kind = "data" /\ fl'.addr = pages[j].addr
           /\ step # "eraseSwap" => swap.woff = TagSize /\ Current.step # "eraseSwap"
           /\ tail'.step = "promote" => pages[gc.cur].type = "data"
      BY <2>1, <2>3, <2>4, <2>5, <2>8, <1>4
    <2> HIDE DEF step
    <2> QED BY <2>1, <2>2, <2>6, <2>7, <2>9, <2>10, <2>11, <2>12, <2>13, <1>1, <1>2,
               <1>3, <1>4, InitAssigns
  <1> QED BY <1>5, <1>6

LEMMA InitStepStep ==
    ASSUME IInv, NEW result, Takes(result), phase = "initializing",
           NEW refused \in BOOLEAN, NEW inMain \in BOOLEAN,
           InitStep(result, refused, inMain), upset' = {}
    PROVE  IInv'
  <1>1. /\ Typed /\ Alone /\ Current \in OpInfo /\ opq \in Seq(OpInfo) /\ Len(opq) = 1
        /\ Current.step \in InitSteps /\ fl.kind = "none" /\ answer = "none"
        /\ DOMAIN opq = 1 .. 1
    BY InitTakes DEF Takes
  <1>2. gc' = gc /\ latest' = latest /\ gc' \in GcInfo
    BY <1>1 DEF InitStep, Typed
  <1>3. \A k \in DOMAIN opq : ~(k > 1)
    BY <1>1
  <1>4. tail \in [step : InitSteps \cup {"none"}, page : Idx] /\ pages \in [Idx -> PageInfo]
        /\ swap \in [addr : Addrs \cup {NoAddr}, woff : Nat]
    BY <1>1 DEF Typed
  <1>5. CASE result = "timeout"
    <2>1. /\ phase' = "failed" /\ answer' = "timeout" /\ fl' = fl
          /\ UNCHANGED <<pages, swap, opq, tail>>
      BY <1>5 DEF InitStep, Finish
    <2>2. Alone' /\ Ends /\ FlTyped'
      BY <2>1, <1>1 DEF Alone, Current, Ends, FlTyped, Typed, WriteKinds
    <2>3. Common' /\ OneSwap' /\ NotAllData' /\ FlashOK'
      BY <2>1, <2>2, <1>1, <1>2, <1>3, <1>4, StepCommon
    <2>4. InitPhase' /\ ReadyPhase'
      BY <2>1 DEF InitPhase, ReadyPhase
    <2> QED BY <2>3, <2>4 DEF IInv, Common
  <1>6. CASE result = "ok" /\ Current.step = "tagData" /\ ErasedPages = {}
    <2>1. /\ phase' = "ready" /\ answer' = "ok" /\ fl' = fl
          /\ UNCHANGED <<pages, swap, opq, tail>>
      BY <1>6 DEF InitStep, Finish
    <2>2. Ends /\ FlTyped'
      BY <2>1, <1>1 DEF Ends, FlTyped, Typed, WriteKinds
    <2>3. Common' /\ OneSwap' /\ NotAllData' /\ FlashOK'
      BY <2>1, <2>2, <1>1, <1>2, <1>3, <1>4, StepCommon
    <2>4. InitPhase' /\ ReadyPhase'
      BY <2>1, <1>2, <1>6, InitReady
    <2> QED BY <2>3, <2>4 DEF IInv, Common
  <1>7. CASE result = "ok" /\ (Current.step = "tagData" => ErasedPages # {})
    <2> DEFINE i == IF Current.step = "tagData" THEN Min(ErasedPages) ELSE 0
               o == InitTarget(Current.step, i)
    <2>1. /\ Issue(o, refused)
          /\ phase' = IF refused THEN "failed" ELSE phase
          /\ IF inMain /\ ~refused
             THEN /\ tail' = [step |-> Current.step, page |-> i]
                  /\ UNCHANGED <<pages, swap, opq>>
             ELSE /\ InitAssign(Current.step, i)
                  /\ UNCHANGED tail
      BY <1>7 DEF InitStep
    <2>2. i \in Idx /\ o.addr \in Addrs /\ o.kind \in {"swap", "data", "erase"}
      BY <1>7, InitStarts
    <2> HIDE DEF i, o
    <2>3. /\ fl' = IF refused THEN fl ELSE o
          /\ answer' = IF refused THEN "busy" ELSE "none"
      BY <2>1, <1>1 DEF Issue
    <2>4. Ends /\ FlTyped'
      BY <2>2, <2>3, <1>1 DEF Ends, FlTyped, Typed, WriteKinds
    <2>5. CASE ~refused /\ inMain
      <3>1. /\ fl' = InitTarget(Current.step, i) /\ answer' = "none" /\ phase' = phase
            /\ tail' = [step |-> Current.step, page |-> i]
            /\ UNCHANGED <<pages, swap, gc, opq>>
        BY <2>1, <2>3, <2>5, <1>2 DEF o
      <3>2. InitPhase' /\ ReadyPhase'
        BY <3>1, <1>7, InitInMain DEF i
      <3>3. Common' /\ OneSwap' /\ NotAllData' /\ FlashOK'
        BY <3>1, <2>2, <2>4, <1>1, <1>2, <1>3, <1>4, StepCommon
      <3> QED BY <3>2, <3>3 DEF IInv, Common
    <2>6. CASE ~refused /\ ~inMain
      <3>1. /\ fl' = InitTarget(Current.step, i) /\ answer' = "none" /\ phase' = phase
            /\ InitAssign(Current.step, i) /\ UNCHANGED <<tail, gc>>
        BY <2>1, <2>3, <2>6, <1>2 DEF o
      <3>2. /\ InitPhase' /\ ReadyPhase' /\ opq' \in Seq(OpInfo) /\ Len(opq') = 1
            /\ pages' \in [Idx -> PageInfo]
            /\ swap' \in [addr : Addrs \cup {NoAddr}, woff : Nat]
        BY <3>1, <1>7, InitInEvent DEF i
      <3>3. Common' /\ OneSwap' /\ NotAllData' /\ FlashOK'
        BY <3>1, <3>2, <2>4, <1>1, <1>2, <1>3, <1>4, StepCommon
      <3> QED BY <3>2, <3>3 DEF IInv, Common
    <2>7. CASE refused
      <3>1. phase' = "failed" /\ answer' = "busy" /\ InitAssign(Current.step, i) /\ UNCHANGED tail
        BY <2>1, <2>3, <2>7
      <3>2. /\ Alone' /\ opq' \in Seq(OpInfo) /\ Len(opq') = 1
            /\ pages' \in [Idx -> PageInfo]
            /\ swap' \in [addr : Addrs \cup {NoAddr}, woff : Nat]
        BY <3>1, <2>2, <1>1, AssignTyped
      <3>3. Common' /\ OneSwap' /\ NotAllData' /\ FlashOK'
        BY <3>1, <3>2, <2>4, <1>1, <1>2, <1>3, <1>4, StepCommon
      <3>4. InitPhase' /\ ReadyPhase'
        BY <3>1 DEF InitPhase, ReadyPhase
      <3> QED BY <3>3, <3>4 DEF IInv, Common
    <2> QED BY <2>5, <2>6, <2>7
  <1> QED BY <1>5, <1>6, <1>7 DEF Takes

-----------------------------------------------------------------------------
(* The main thread goes on behind its fs_store.                            *)

LEMMA TailCommon ==
    ASSUME IInv, tail.step # "none", answer = "none",
           tail' = [step |-> "none", page |-> 0],
           UNCHANGED <<flash, fl, ev, gc, phase, processing, latest, answer, clients>>,
           opq' \in Seq(OpInfo),
           opq' = opq \/ (phase = "initializing" /\ Alone' /\ Len(opq') = 1),
           pages' \in [Idx -> PageInfo],
           swap' \in [addr : Addrs \cup {NoAddr}, woff : Nat]
    PROVE  Common' /\ OneSwap' /\ NotAllData' /\ FlashOK'
  <1>1. Typed /\ Turns /\ Behind /\ OffPhase /\ FailedPhase
    BY DEF IInv
  <1>2. phase # "off"
    BY <1>1 DEF OffPhase
  <1>3. Len(opq') <= OpQueueSize /\ (processing => opq' # <<>>)
    <2>1. CASE opq' = opq
      BY <2>1, <1>1 DEF Typed, Turns
    <2>2. CASE Len(opq') = 1
      <3>1. Len(opq') # Len(<<>>)
        BY <2>2
      <3>2. OpQueueSize >= 1
        BY Sizes
      <3> QED BY <2>2, <3>1, <3>2
    <2> QED BY <2>1, <2>2
  <1>4. Typed'
    <2>1. tail' \in [step : InitSteps \cup {"none"}, page : Idx]
      BY Sizes
    <2>2. FlTyped'
      BY <1>1 DEF Typed, FlTyped
    <2> QED BY <2>1, <2>2, <1>1, <1>3 DEF Typed, clients
  <1>5. Turns'
    BY <1>1, <1>3 DEF Turns, Busy
  <1>6. Behind'
    <2>1. CASE opq' = opq
      BY <2>1, <1>1 DEF Behind, Fresh
    <2>2. CASE phase = "initializing" /\ Len(opq') = 1
      BY <2>2 DEF Behind
    <2> QED BY <2>1, <2>2
  <1>7. OffPhase' /\ FailedPhase'
    BY <1>1, <1>2 DEF OffPhase, FailedPhase, Busy, Alone, Current
  <1>8. OneSwap' /\ NotAllData' /\ FlashOK'
    BY FlashSame
  <1> QED BY <1>4, <1>5, <1>6, <1>7, <1>8 DEF Common

LEMMA InitTailInit ==
    ASSUME IInv, InitTail, upset' = {}, phase = "initializing"
    PROVE  IInv'
  <1>1. /\ Typed /\ Mapped /\ InitControl /\ InitTags /\ InitPromotes /\ InitData /\ InitOffsets
        /\ Turns
    BY DEF IInv, InitPhase
  <1>2. /\ tail.step # "none" /\ answer = "none" /\ InitAssign(tail.step, tail.page)
        /\ tail' = [step |-> "none", page |-> 0]
        /\ UNCHANGED <<flash, fl, ev, gc, phase, processing, latest, answer, clients>>
    BY DEF InitTail
  <1>3. /\ tail.step \in InitSteps /\ tail.page \in Idx /\ gc.cur \in Idx
        /\ tail = [step |-> tail.step, page |-> tail.page]
    BY <1>1, <1>2 DEF Typed, GcInfo
  <1>4. /\ Alone /\ Current.step \in InitSteps /\ token = NoToken /\ processing
        /\ gc.state = "begin" /\ ~gc.resume /\ swap.addr \in Addrs
    BY <1>1, <1>2 DEF InitControl, Mapped
  <1>5. Busy \/ ev = "ok" \/ ev = "timeout"
    BY <1>1, <1>2, <1>4 DEF Turns, Typed
  <1>6. /\ \A j \in Idx : /\ pages[j].type = "erased" => Recs(pages[j].addr) = <<>>
                          /\ pages[j].woff = EndOf(Recs(pages[j].addr))
                          /\ pages[j].rsv = 0
        /\ fl' = fl /\ ev' = ev /\ phase' = phase /\ flash' = flash /\ token' = token
        /\ gc' = gc /\ answer' = "none" /\ processing' = TRUE /\ tail'.step = "none"
        /\ \A j \in Idx : tail' # [step |-> "tagData", page |-> j]
    BY <1>1, <1>2, <1>4 DEF InitOffsets, clients
  <1> DEFINE Assigned == /\ InitPhase' /\ ReadyPhase' /\ Alone' /\ opq' \in Seq(OpInfo)
                         /\ Len(opq') = 1 /\ pages' \in [Idx -> PageInfo]
                         /\ swap' \in [addr : Addrs \cup {NoAddr}, woff : Nat]
  <1>7. CASE tail.step = "promote"
    <2>1. pages[gc.cur].type = "erased"
      BY <1>2, <1>7 DEF InitAssign, InitTail
    <2>2. Current.step = "promote"
      BY <1>1, <1>7, <2>1 DEF InitTags
    <2>3. /\ \A a \in Addrs \ {swap.addr} : Tag(a) # "swap"
          /\ fl.kind \in {"none", "data"}
          /\ fl.kind = "data" => fl.addr = swap.addr
          /\ \A j \in Idx : pages[j].type = "erased" => Tag(pages[j].addr) = "erased"
          /\ swap.woff = EndOf(Recs(swap.addr))
          /\ ev = "ok" => Tag(swap.addr) = "data"
      BY <1>1, <1>4, <2>2 DEF InitPromotes
    <2>4. \A j \in Idx : pages[j].type = "data" => Tag(pages[j].addr) # "erased" \/ ev = "timeout"
      BY <1>1, <2>3 DEF InitData, Mapped
    <2>5. Tag(swap.addr) = "data" \/ ev = "timeout" \/ (fl.kind = "data" /\ fl.addr = swap.addr)
      BY <1>5, <2>3 DEF Busy
    <2>6. InitAssign("promote", 0)
      BY <1>2, <1>7 DEF InitAssign
    <2>7. Assigned
      BY <2>2, <2>3, <2>4, <2>5, <2>6, <1>1, <1>4, <1>6, PromoteAssigns
    <2>8. Common' /\ OneSwap' /\ NotAllData' /\ FlashOK'
      BY <2>7, <1>2, TailCommon
    <2> QED BY <2>7, <2>8 DEF IInv, Common
  <1>8. CASE tail.step # "promote"
    <2>1. Current.step # "promote"
      BY <1>1, <1>4, <1>8 DEF InitPromotes
    <2>2. /\ \A a \in Addrs \ {swap.addr} :
                Tag(a) = "swap" => ev = "timeout" \/ (fl.kind = "data" /\ fl.addr = a)
          /\ Tag(swap.addr) # "data"
          /\ fl.kind \in {"none", "swap", "data", "erase"}
          /\ fl.kind = "data" => fl.addr # swap.addr
          /\ fl.kind \in {"swap", "erase"} => fl.addr = swap.addr
          /\ Current.step = "tagData" \/ tail.step = "tagSwap" =>
                /\ Tag(swap.addr) = "swap" \/ ev = "timeout" \/ fl.kind = "swap"
                /\ fl.kind # "erase" /\ Current.step # "eraseSwap"
      BY <1>1, <2>1 DEF InitTags
    <2>3. /\ Current.step = "eraseSwap" => tail.step = "eraseSwap"
          /\ Recs(swap.addr) = <<>> \/ fl.kind = "erase" \/ ev = "timeout"
          /\ Current.step # "eraseSwap" => swap.woff = TagSize
      BY <1>1, <1>4, <2>1 DEF InitOffsets, InitSteps
    <2>4. \A j \in Idx : pages[j].type = "data" \/ (tail.step = "tagData" /\ j = tail.page) =>
               \/ Tag(pages[j].addr) # "erased" \/ ev = "timeout"
               \/ fl.kind = "data" /\ fl.addr = pages[j].addr
      BY <1>1, <1>3 DEF InitData
    <2> DEFINE step == tail.step
               i == tail.page
    <2>5. /\ Current.step \in InitSteps \ {"promote"} /\ step \in InitSteps \ {"promote"}
          /\ i \in Idx /\ InitAssign(step, i)
          /\ fl'.kind \in {"none", "swap", "data", "erase"}
          /\ fl'.kind = "data" => fl'.addr # swap.addr
          /\ fl'.kind \in {"swap", "erase"} => fl'.addr = swap.addr
          /\ \A a \in Addrs \ {swap.addr} :
                Tag(a) = "swap" => ev' = "timeout" \/ (fl'.kind = "data" /\ fl'.addr = a)
          /\ Recs(swap.addr) = <<>> \/ fl'.kind = "erase" \/ ev' = "timeout"
      BY <1>2, <1>3, <1>4, <1>6, <1>8, <2>1, <2>2, <2>3
    <2>6. /\ Current.step = "tagData" \/ tail'.step = "tagSwap" \/ step = "tagSwap" =>
               /\ Tag(swap.addr) = "swap" \/ ev' = "timeout" \/ fl'.kind = "swap"
               /\ fl'.kind # "erase" /\ Current.step # "eraseSwap"
          /\ step = "eraseSwap" => tail'.step # "tagSwap"
          /\ \A j \in Idx : pages[j].type = "data" \/ (step = "tagData" /\ j = i)
                             \/ tail' = [step |-> "tagData", page |-> j] =>
               \/ Tag(pages[j].addr) # "erased" \/ ev' = "timeout"
               \/ fl'.kind = "data" /\ fl'.addr = pages[j].addr
          /\ step # "eraseSwap" => swap.woff = TagSize /\ Current.step # "eraseSwap"
          /\ tail'.step = "promote" => pages[gc.cur].type = "data"
      BY <1>6, <2>2, <2>3, <2>4
    <2> HIDE DEF step, i
    <2>7. Assigned
      BY <2>2, <2>5, <2>6, <1>1, <1>3, <1>4, <1>6, InitAssigns
    <2>8. Common' /\ OneSwap' /\ NotAllData' /\ FlashOK'
      BY <2>7, <1>2, TailCommon
    <2> QED BY <2>7, <2>8 DEF IInv, Common
  <1> QED BY <1>7, <1>8

\* Behind fds_init the assignments of the main thread change nothing more.
LEMMA InitTailReady ==
    ASSUME IInv, InitTail, upset' = {}, phase = "ready"
    PROVE  IInv'
  <1>1. /\ Typed /\ Mapped /\ ReadyControl /\ ReadyTags /\ ReadyFlash
        /\ Closed /\ Offsets /\ SwapOffsets /\ Copying /\ Space
    BY DEF IInv, ReadyPhase
  <1>2. /\ tail.step # "none" /\ answer = "none" /\ InitAssign(tail.step, tail.page)
        /\ tail' = [step |-> "none", page |-> 0]
        /\ UNCHANGED <<flash, fl, ev, gc, phase, processing, latest, answer, clients>>
    BY DEF InitTail
  <1>3. /\ tail.step \in InitSteps /\ tail.page \in Idx /\ gc.cur \in Idx
        /\ pages \in [Idx -> PageInfo] /\ opq \in Seq(OpInfo)
        /\ swap \in [addr : Addrs \cup {NoAddr}, woff : Nat]
    BY <1>1, <1>2 DEF Typed, GcInfo
  <1>4. opq = <<>> /\ gc.state = "begin"
    BY <1>1, <1>2 DEF ReadyControl, Alone, Executes
  <1>5. \A i \in Idx : pages[i].type = "data" /\ pages[i] \in PageInfo
    BY <1>1, <1>3 DEF ReadyControl
  <1>6. tail.step # "promote"
    BY <1>2, <1>3, <1>5 DEF InitAssign, InitTail
  <1>7. opq' = opq
    BY <1>2, <1>4, <1>6 DEF InitAssign, SetInitStep
  <1>8. pages' = pages
    <2>1. CASE tail.step = "tagData"
      <3> DEFINE i == tail.page
      <3>1. pages' = [pages EXCEPT ![i].type = "data"]
        BY <2>1, <1>2 DEF InitAssign
      <3>2. i \in Idx /\ pages[i].type = "data" /\ pages[i] \in PageInfo
        BY <1>3, <1>5
      <3>3. [pages[i] EXCEPT !.type = "data"] = pages[i]
        BY <3>2 DEF PageInfo
      <3>4. pages' = [pages EXCEPT ![i] = pages[i]]
        <4> HIDE DEF i
        <4>1. pages' = [pages EXCEPT ![i] = [pages[i] EXCEPT !.type = "data"]]
          BY <3>1, <3>2, <1>3
        <4> QED BY <4>1, <3>3
      <3> QED BY <3>2, <3>4, <1>3
    <2>2. CASE tail.step # "tagData"
      BY <2>2, <1>2, <1>6 DEF InitAssign
    <2> QED BY <2>1, <2>2
  <1>9. swap' = swap
    <2>1. swap.woff = TagSize
      BY <1>1, <1>4 DEF SwapOffsets
    <2>2. [swap EXCEPT !.woff = TagSize] = swap
      BY <2>1, <1>3
    <2> QED BY <2>2, <1>2, <1>6 DEF InitAssign
  <1>10. Common' /\ OneSwap' /\ NotAllData' /\ FlashOK'
    BY <1>2, <1>3, <1>7, <1>8, <1>9, TailCommon
  <1>11. /\ swap' = swap /\ pages' = pages /\ gc' = gc /\ opq' = opq /\ fl' = fl /\ ev' = ev
         /\ flash' = flash /\ token' = token /\ answer' = answer /\ phase' = phase
    BY <1>2, <1>7, <1>8, <1>9 DEF clients
  <1>12. /\ Current' = Current /\ GcDone' = GcDone
         /\ \A i \in Idx : Wrote(i)' = Wrote(i) /\ Swapped(i)' = Swapped(i)
    BY <1>11 DEF Current, GcDone, Executes, Wrote, Swapped, Tag
  <1>13. Kept
    BY <1>11, <1>12 DEF Kept
  <1>14. Mapped' /\ ReadyTags' /\ Offsets' /\ SwapOffsets' /\ Copying'
    BY <1>1, <1>13, ReadyKept
  <1>15. ReadyControl'
    BY <1>1, <1>2, <1>4, <1>11 DEF ReadyControl, Executes
  <1>16. ReadyFlash' /\ Closed'
    <2>1. fl.kind \in {"none"}
      BY <1>4 DEF IInv, Turns, Busy
    <2>2. ReadyFlash'
      BY <2>1, <1>11 DEF ReadyFlash, WriteKinds
    <2>3. Closed'
      BY <1>1, <1>11, <1>12 DEF Closed
    <2> QED BY <2>2, <2>3
  <1>17. Space'
    BY <1>1, <1>11, SpaceSame
  <1>18. InitPhase' /\ ReadyPhase'
    BY <1>11, <1>14, <1>15, <1>16, <1>17 DEF InitPhase, ReadyPhase
  <1> QED BY <1>10, <1>18 DEF IInv, Common

LEMMA InitTailStep ==
    ASSUME IInv, InitTail, upset' = {}
    PROVE  IInv'
  <1>1. Typed /\ FailedPhase /\ OffPhase
    BY DEF IInv
  <1>2. CASE phase = "failed"
    <2>1. /\ tail.step # "none" /\ answer = "none" /\ InitAssign(tail.step, tail.page)
          /\ tail' = [step |-> "none", page |-> 0]
          /\ UNCHANGED <<flash, fl, ev, gc, phase, processing, latest, answer, clients>>
      BY DEF InitTail
    <2>2. opq = <<>>
      BY <1>1, <1>2, <2>1 DEF FailedPhase
    <2>3. opq' = opq
      BY <2>1, <2>2 DEF InitAssign, SetInitStep
    <2>4. tail.step \in InitSteps /\ tail.page \in Idx
      BY <1>1, <2>1 DEF Typed
    <2>5. /\ pages' \in [Idx -> PageInfo]
          /\ swap' \in [addr : Addrs \cup {NoAddr}, woff : Nat]
      BY <2>1, <2>4, <1>1, AssignPages
    <2>6. Common' /\ OneSwap' /\ NotAllData' /\ FlashOK'
      BY <2>1, <2>3, <2>5, <1>1, TailCommon DEF Typed
    <2>7. InitPhase' /\ ReadyPhase'
      BY <1>2, <2>1 DEF InitPhase, ReadyPhase
    <2> QED BY <2>6, <2>7 DEF IInv, Common
  <1>3. CASE phase = "off"
    BY <1>1, <1>3 DEF OffPhase, InitTail
  <1> QED BY <1>1, <1>2, <1>3, InitTailInit, InitTailReady DEF Typed

-----------------------------------------------------------------------------
(* A step of an operation of the clients.                                  *)

LEMMA HeadKept ==
    ASSUME opq \in Seq(OpInfo), opq # <<>>, opq' = opq
    PROVE  SetHead(Current)
  BY DEF SetHead, Current

\* What holds behind every step: only the head of the queue changes, and it
\* keeps what it has reserved.
LEMMA ReadyStep ==
    ASSUME IInv, NEW result, Takes(result), phase = "ready",
           NEW op \in OpInfo, SetHead(op),
           op.code = Current.code, op.page = Current.page, op.len = Current.len,
           op.code = "gc" => op.step \in {"none", "begun"},
           Ends, FlTyped', pages' \in [Idx -> PageInfo],
           \A i \in Idx : pages'[i].type = pages[i].type,
           swap' \in [addr : Addrs \cup {NoAddr}, woff : Nat], gc' \in GcInfo,
           answer' \in {"none", "ok", "busy", "timeout", "notfound", "internal"},
           UNCHANGED <<phase, latest, tail>>
    PROVE  /\ Common' /\ OneSwap' /\ NotAllData' /\ FlashOK' /\ ReadyControl' /\ InitPhase'
           /\ Current' = op /\ opq' # <<>>
           /\ \A i \in Idx :
                /\ ReservedOn(i)' = ReservedOn(i) /\ SpaceDone(i) = 0
                /\ SpaceDone(i)' = IF answer' \notin {"none", "notfound"}
                                      /\ Current.code \in {"write", "update"}
                                      /\ Current.page = i
                                   THEN Current.len ELSE 0
           /\ \A k \in DOMAIN opq' :
                opq'[k].code \in {"write", "update"} => opq'[k].len >= HeaderSize
  <1>1. /\ opq \in Seq(OpInfo) /\ opq # <<>> /\ answer = "none"
        /\ Current.code # "init" /\ tail.step = "none"
        /\ tail \in [step : InitSteps \cup {"none"}, page : Idx]
    BY TakesPhase DEF IInv, Typed, Takes
  <1>2. /\ opq' \in Seq(OpInfo) /\ Len(opq') = Len(opq) /\ opq' # <<>>
        /\ Current' = op /\ DOMAIN opq' = DOMAIN opq
        /\ \A k \in DOMAIN opq : k > 1 => opq'[k] = opq[k]
    BY <1>1, HeadSet
  <1>3. Common' /\ OneSwap' /\ NotAllData' /\ FlashOK'
    BY <1>1, <1>2, StepCommon
  <1>4. ReadyControl'
    <2>1. \A i \in Idx : pages[i].type = "data"
      BY DEF IInv, ReadyPhase, ReadyControl
    <2> QED BY <2>1, <1>1, <1>2 DEF ReadyControl, Executes
  <1>5. InitPhase'
    BY DEF InitPhase
  <1>6. \A k \in DOMAIN opq : /\ opq'[k].code = opq[k].code /\ opq'[k].page = opq[k].page
                              /\ opq'[k].len = opq[k].len
    <2>1. opq'[1] = op /\ opq[1] = Current
      BY <1>2 DEF Current
    <2>2. \A k \in DOMAIN opq : k = 1 \/ k > 1
      BY <1>1
    <2> QED BY <2>1, <2>2, <1>2
  <1>7. \A i \in Idx : ReservedOn(i)' = ReservedOn(i)
    <2>1. SUFFICES ASSUME NEW i \in Idx PROVE ReservedOn(i)' = ReservedOn(i)
      OBVIOUS
    <2> DEFINE v == [k \in DOMAIN opq |-> WordsOn(i, opq[k])]
               w == [k \in DOMAIN opq' |-> WordsOn(i, opq'[k])]
    <2>2. w = v
      BY <1>2, <1>6 DEF WordsOn
    <2>3. ReservedOn(i) = TokenOn(i) + Total(v)
      BY DEF ReservedOn, TokenOn
    <2>4. ReservedOn(i)' = TokenOn(i) + Total(w)
      BY DEF ReservedOn, TokenOn, Takes, Total, WordsOn, RecordLen
    <2> QED BY <2>2, <2>3, <2>4
  <1>8. \A i \in Idx : /\ SpaceDone(i) = 0
                       /\ SpaceDone(i)' = IF answer' \notin {"none", "notfound"}
                                      /\ Current.code \in {"write", "update"}
                                      /\ Current.page = i
                                   THEN Current.len ELSE 0
    BY <1>1, <1>2 DEF SpaceDone
  <1>9. \A k \in DOMAIN opq' :
                opq'[k].code \in {"write", "update"} => opq'[k].len >= HeaderSize
    BY <1>2, <1>6 DEF IInv, ReadyPhase, Space
  <1> QED BY <1>2, <1>3, <1>4, <1>5, <1>7, <1>8, <1>9

LEMMA ReadyTakes ==
    ASSUME IInv, NEW result, Takes(result), phase = "ready"
    PROVE  /\ Typed /\ FlashOK /\ Mapped /\ ReadyControl /\ ReadyTags /\ ReadyFlash
           /\ Closed /\ Offsets /\ SwapOffsets /\ Copying /\ Space
           /\ opq \in Seq(OpInfo) /\ opq # <<>> /\ Current \in OpInfo
           /\ Current.page \in Idx /\ Current.len \in Nat
           /\ fl.kind = "none" /\ answer = "none" /\ flash' = flash /\ ~GcDone'
           /\ ~processing => Fresh(Current)
           /\ \A i \in Idx : Wrote(i) <=>
                /\ Current.code \in {"write", "update"} /\ Current.page = i
                /\ Current.step \notin {"begin", "find"}
                /\ ~(Current.step = "id" /\ result = "timeout")
           /\ pages \in [Idx -> PageInfo] /\ swap \in [addr : Addrs \cup {NoAddr}, woff : Nat]
           /\ gc \in GcInfo /\ gc.cur \in Idx /\ swap.addr \in Addrs /\ swap.woff \in Nat
           /\ processing => ev = result
  <1>1. /\ Typed /\ FlashOK /\ Mapped /\ ReadyControl /\ ReadyTags /\ ReadyFlash
        /\ Closed /\ Offsets /\ SwapOffsets /\ Copying /\ Space
    BY DEF IInv, ReadyPhase
  <1>2. /\ opq \in Seq(OpInfo) /\ opq # <<>> /\ Current \in OpInfo
        /\ Current.page \in Idx /\ Current.len \in Nat /\ 1 \in DOMAIN opq
    BY <1>1, HeadTyped DEF Takes
  <1>3. fl.kind = "none" /\ answer = "none" /\ flash' = flash /\ ~GcDone'
    BY DEF Takes, Busy, GcDone
  <1>4. ~processing => Fresh(Current)
    BY <1>2 DEF IInv, Behind, Current
  <1>5. ev = "timeout" <=> result = "timeout"
    BY DEF Takes
  <1>6. \A i \in Idx : Wrote(i) <=>
                /\ Current.code \in {"write", "update"} /\ Current.page = i
                /\ Current.step \notin {"begin", "find"}
                /\ ~(Current.step = "id" /\ result = "timeout")
    BY <1>2, <1>3, <1>5 DEF Wrote, Executes
  <1>7. /\ pages \in [Idx -> PageInfo] /\ swap \in [addr : Addrs \cup {NoAddr}, woff : Nat]
        /\ gc \in GcInfo /\ gc.cur \in Idx /\ swap.addr \in Addrs /\ swap.woff \in Nat
    BY <1>1 DEF Typed, GcInfo, Mapped
  <1> QED BY <1>1, <1>2, <1>3, <1>4, <1>6, <1>7 DEF Takes

\* A write is over: its words are behind the write offset from now on.
LEMMA WriteOver ==
    ASSUME IInv, NEW result, Takes(result), phase = "ready",
           Current.code \in {"write", "update"},
           NEW op \in OpInfo, SetHead(op),
           op.code = Current.code, op.page = Current.page, op.len = Current.len,
           OffsetsUpdate(op), upset' = {}, answer' \in {"ok", "busy", "timeout"},
           fl' = fl, UNCHANGED <<swap, gc, phase, latest, tail>>
    PROVE  IInv'
  <1>1. /\ Typed /\ FlashOK /\ Mapped /\ ReadyControl /\ ReadyTags /\ ReadyFlash
        /\ Closed /\ Offsets /\ SwapOffsets /\ Copying /\ Space
        /\ Current \in OpInfo /\ Current.page \in Idx /\ Current.len \in Nat
        /\ fl.kind = "none" /\ flash' = flash /\ ~GcDone' /\ opq # <<>>
        /\ pages \in [Idx -> PageInfo] /\ swap \in [addr : Addrs \cup {NoAddr}, woff : Nat]
        /\ gc \in GcInfo /\ gc.cur \in Idx /\ swap.addr \in Addrs
    BY ReadyTakes
  <1> DEFINE i == Current.page
             n == Current.len
             p == pages[i]
             q == [p EXCEPT !.woff = p.woff + n, !.rsv = p.rsv - n]
             end == EndOf(Recs(p.addr))
  <1>2. p \in PageInfo /\ p.woff \in Nat /\ p.rsv \in Int /\ p.addr \in Addrs /\ n \in Nat
    BY <1>1, PageOf
  <1>3. pages' = [pages EXCEPT ![i] = q]
    BY <1>1, <1>2 DEF OffsetsUpdate
  <1>4. q \in PageInfo /\ q.woff = p.woff + n /\ q.rsv = p.rsv - n /\ q.addr = p.addr
        /\ q.type = p.type /\ q.open = p.open
    <2>1. p.woff + n \in Nat /\ p.rsv - n \in Int
      BY <1>2
    <2> HIDE DEF p, n
    <2> QED BY <1>2, <2>1 DEF PageInfo
  <1>5. n >= HeaderSize /\ n > 0
    BY <1>1, HeadTyped, Sizes DEF Space, Current
  <1>6. Wrote(i) /\ end = p.woff + n /\ end \in Nat
    <2>1. ~(p.woff + n > end)
      BY <1>1 DEF OffsetsUpdate, Recs
    <2>2. end \in Nat /\ (Tag(p.addr) = "erased" => end = TagSize) /\ p.woff >= TagSize
      BY <1>1, <1>2, PagesTyped DEF Offsets
    <2>3. ~Swapped(i)
      <3>1. SUFFICES ASSUME Swapped(i) PROVE FALSE
        OBVIOUS
      <3>2. end = TagSize
        BY <3>1, <2>2 DEF Swapped
      <3> HIDE DEF end, p, n
      <3> QED BY <3>2, <2>1, <2>2, <1>2, <1>5, Sizes
    <2>4. Wrote(i)
      <3>1. SUFFICES ASSUME ~Wrote(i) PROVE FALSE
        OBVIOUS
      <3>2. end = p.woff
        BY <3>1, <2>3, <1>1 DEF Offsets
      <3> HIDE DEF end, p, n
      <3> QED BY <3>2, <2>1, <2>2, <1>2, <1>5, Sizes
    <2>5. Recs(p.addr) # <<>> /\ Last(Recs(p.addr)).off = p.woff /\ Last(Recs(p.addr)).len = n
      BY <2>4, <1>1 DEF Offsets
    <2> QED BY <2>2, <2>4, <2>5 DEF EndOf
  <1>7. \A j \in Idx : /\ pages'[j] = IF j = i THEN q ELSE pages[j]
                       /\ pages'[j].type = pages[j].type /\ pages'[j].addr = pages[j].addr
                       /\ pages'[j].open = pages[j].open
    BY <1>1, <1>3, <1>4
  <1>8. pages' \in [Idx -> PageInfo]
    BY <1>1, <1>3, <1>4
  <1> HIDE DEF q
  <1>9. Ends /\ FlTyped'
    BY <1>1 DEF Ends, FlTyped, WriteKinds
  <1>10. swap' \in [addr : Addrs \cup {NoAddr}, woff : Nat] /\ gc' \in GcInfo
         /\ (op.code = "gc" => op.step \in {"none", "begun"})
    BY <1>1
  <1>11. /\ Common' /\ OneSwap' /\ NotAllData' /\ FlashOK' /\ ReadyControl' /\ InitPhase'
         /\ Current' = op /\ opq' # <<>>
         /\ \A j \in Idx :
                /\ ReservedOn(j)' = ReservedOn(j) /\ SpaceDone(j) = 0
                /\ SpaceDone(j)' = IF Current.page = j THEN Current.len ELSE 0
         /\ \A k \in DOMAIN opq' :
                opq'[k].code \in {"write", "update"} => opq'[k].len >= HeaderSize
    BY <1>7, <1>8, <1>9, <1>10, ReadyStep
  <1>12. /\ \A a \in Addrs : Tag(a)' = Tag(a) /\ Recs(a)' = Recs(a)
         /\ swap' = swap /\ gc' = gc /\ fl' = fl
         /\ \A j \in Idx : ~Wrote(j)' /\ Swapped(j)' = Swapped(j)
         /\ \A j \in Idx : /\ Tag(pages[j].addr)' = Tag(pages[j].addr)
                           /\ Recs(pages[j].addr)' = Recs(pages[j].addr)
         /\ \A j \in Idx : pages[j].addr \in Addrs
         /\ Recs(swap.addr)' = Recs(swap.addr) /\ Tag(swap.addr)' = Tag(swap.addr)
    BY <1>1, <1>7, PageOf DEF Tag, Recs, Wrote, Swapped
  <1>13. Mapped'
    BY <1>1, <1>7, <1>12 DEF Mapped
  <1>14. ReadyTags'
    BY <1>1, <1>7, <1>12 DEF ReadyTags
  <1>15. ReadyFlash'
    BY <1>1 DEF ReadyFlash, WriteKinds
  <1>16. Closed'
    BY <1>1, <1>7, <1>12 DEF Closed
  <1>17. Offsets'
    <2>1. SUFFICES ASSUME NEW j \in Idx
                   PROVE /\ ~Swapped(j) => EndOf(Recs(pages[j].addr)) = pages'[j].woff
                         /\ pages'[j].woff >= TagSize
      BY <1>7, <1>12 DEF Offsets
    <2>2. CASE j = i
      <3>1. pages'[j].woff = p.woff + n /\ p.woff >= TagSize
        BY <2>2, <1>1, <1>4, <1>7 DEF Offsets
      <3>2. EndOf(Recs(pages[j].addr)) = pages'[j].woff
        BY <3>1, <2>2, <1>6
      <3> HIDE DEF p, n
      <3> QED BY <3>1, <3>2, <1>2, Sizes
    <2>3. CASE j # i
      <3>1. ~Wrote(j)
        BY <2>3 DEF Wrote
      <3> QED BY <2>3, <3>1, <1>1, <1>7 DEF Offsets
    <2> QED BY <2>2, <2>3
  <1>18. gc.cur \in Idx /\ pages[gc.cur].woff \in Nat /\ pages'[gc.cur].woff \in Nat
         /\ pages'[gc.cur].woff >= pages[gc.cur].woff
    <2>1. pages[gc.cur].woff \in Nat /\ gc.cur \in Idx
      BY <1>1, PageOf
    <2>2. CASE gc.cur = i
      <3>1. pages'[gc.cur].woff = p.woff + n /\ pages[gc.cur].woff = p.woff
        BY <2>2, <2>1, <1>4, <1>7
      <3> HIDE DEF p, n
      <3> QED BY <3>1, <2>1, <1>2
    <2>3. CASE gc.cur # i
      BY <2>1, <2>3, <1>7
    <2> QED BY <2>1, <2>2, <2>3
  <1>19. swap.woff \in Nat
    BY <1>1
  <1>20. SwapOffsets'
    <2>1. gc.state = "erasePage" => swap.woff <= pages'[gc.cur].woff
      BY <1>1, <1>18, <1>19 DEF SwapOffsets
    <2> QED BY <2>1, <1>1, <1>12 DEF SwapOffsets
  <1>21. Copying'
    <2>1. SUFFICES ASSUME gc.state = "copy" PROVE Copying'
      BY <1>12 DEF Copying
    <2> DEFINE r == Recs(pages[gc.cur].addr)[gc.src]
    <2>2. r.off \in Nat /\ r.len \in Nat /\ r.off + r.len <= pages[gc.cur].woff
      <3>1. pages[gc.cur].addr \in Addrs /\ gc.src \in DOMAIN Recs(pages[gc.cur].addr)
        BY <2>1, <1>1, <1>12 DEF Copying
      <3>2. r \in Slots
        <4> DEFINE recs == Recs(pages[gc.cur].addr)
        <4>1. recs \in Seq(Slots) /\ gc.src \in DOMAIN recs
          BY <3>1, <1>1, PagesTyped
        <4>2. recs[gc.src] \in Slots
          <5> HIDE DEF recs
          <5> QED BY <4>1
        <4> QED BY <4>2
      <3>3. r.off + r.len <= pages[gc.cur].woff
        BY <2>1, <1>1 DEF Copying
      <3> QED BY <3>2, <3>3 DEF Slots
    <2>3. r.off + r.len <= pages'[gc.cur].woff
      <3> HIDE DEF r
      <3> QED BY <2>2, <1>18
    <2>4. Recs(pages[gc.cur].addr)' = Recs(pages[gc.cur].addr)
          /\ pages'[gc.cur].addr = pages[gc.cur].addr
      BY <1>1, <1>7, <1>12 DEF Recs
    <2> QED BY <2>1, <2>3, <2>4, <1>1, <1>12 DEF Copying
  <1>22. Space'
    <2>1. SUFFICES ASSUME NEW j \in Idx
                   PROVE /\ pages'[j].rsv >= ReservedOn(j) - SpaceDone(j)'
                         /\ pages'[j].woff + pages'[j].rsv < PageSize
      BY <1>11 DEF Space
    <2>2. pages[j].rsv >= ReservedOn(j) /\ pages[j].woff + pages[j].rsv < PageSize
          /\ ReservedOn(j) \in Nat /\ pages[j].rsv \in Int /\ pages[j].woff \in Nat
      <3>1. ReservedOn(j) \in Nat
        BY <1>1, Reserved
      <3> QED BY <3>1, <1>1, <1>11, PageOf DEF Space
    <2>3. CASE j = i
      <3>1. pages'[j].rsv = p.rsv - n /\ pages'[j].woff = p.woff + n /\ SpaceDone(j)' = n
            /\ p.rsv = pages[j].rsv /\ p.woff = pages[j].woff
        BY <2>3, <1>4, <1>7, <1>11
      <3> HIDE DEF p, n
      <3> QED BY <3>1, <2>2, <1>2, Sizes
    <2>4. CASE j # i
      BY <2>2, <2>4, <1>7, <1>11
    <2> QED BY <2>3, <2>4
  <1>23. ReadyPhase'
    BY <1>11, <1>13, <1>14, <1>15, <1>16, <1>17, <1>20, <1>21, <1>22 DEF ReadyPhase
  <1> QED BY <1>11, <1>23 DEF IInv, Common

\* A step that only asks for a flash operation, or ends its operation.
LEMMA HeadStep ==
    ASSUME IInv, NEW result, Takes(result), phase = "ready",
           NEW op \in OpInfo, SetHead(op),
           op.code = Current.code, op.page = Current.page, op.len = Current.len,
           op.code = "gc" => op.step \in {"none", "begun"},
           Ends, FlTyped', ReadyFlash', pages' \in [Idx -> PageInfo],
           \A i \in Idx : /\ pages'[i].type = pages[i].type /\ pages'[i].addr = pages[i].addr
                          /\ pages'[i].woff = pages[i].woff /\ pages'[i].rsv = pages[i].rsv
                          /\ pages'[i].open = pages[i].open,
           gc' \in GcInfo, gc'.state = gc.state, gc'.cur = gc.cur,
           gc.state = "copy" => gc'.src = gc.src,
           \A i \in Idx : Wrote(i)' = Wrote(i),
           \A i \in Idx : fl'.kind = "erase" /\ fl'.addr = pages[i].addr => pages[i].open = 0,
           answer' \in {"none", "ok", "busy", "timeout", "notfound", "internal"},
           UNCHANGED <<swap, phase, latest, tail>>
    PROVE  IInv'
  <1>1. /\ Typed /\ Mapped /\ ReadyTags /\ Closed /\ Offsets /\ SwapOffsets /\ Copying /\ Space
        /\ Current \in OpInfo /\ Current.len \in Nat /\ flash' = flash /\ ~GcDone'
        /\ swap \in [addr : Addrs \cup {NoAddr}, woff : Nat]
    BY ReadyTakes
  <1>2. swap' \in [addr : Addrs \cup {NoAddr}, woff : Nat]
    BY <1>1
  <1>3. /\ Common' /\ OneSwap' /\ NotAllData' /\ FlashOK' /\ ReadyControl' /\ InitPhase'
        /\ Current' = op
        /\ \A i \in Idx :
             /\ ReservedOn(i)' = ReservedOn(i) /\ SpaceDone(i) = 0
             /\ SpaceDone(i)' = IF answer' \notin {"none", "notfound"}
                                   /\ Current.code \in {"write", "update"}
                                   /\ Current.page = i
                                THEN Current.len ELSE 0
        /\ \A k \in DOMAIN opq' :
             opq'[k].code \in {"write", "update"} => opq'[k].len >= HeaderSize
    BY <1>2, ReadyStep
  <1>4. Kept
    BY <1>1, <1>3 DEF Kept
  <1>5. Mapped' /\ ReadyTags' /\ Offsets' /\ SwapOffsets' /\ Copying'
    BY <1>1, <1>4, ReadyKept
  <1>6. Closed'
    <2>1. \A i \in Idx : Swapped(i)' = Swapped(i)
      BY <1>1 DEF Swapped, Tag
    <2> QED BY <2>1, <1>1 DEF Closed
  <1>7. Space'
    <2>1. \A i \in Idx : SpaceDone(i)' \in Nat
      BY <1>1, <1>3
    <2>2. SUFFICES ASSUME NEW i \in Idx
                   PROVE /\ pages[i].rsv >= ReservedOn(i) - SpaceDone(i)'
                         /\ pages[i].woff + pages[i].rsv < PageSize
      BY <1>3 DEF Space
    <2>3. ReservedOn(i) \in Nat /\ pages[i].rsv \in Int
          /\ pages[i].rsv >= ReservedOn(i) /\ pages[i].woff + pages[i].rsv < PageSize
      BY <1>1, <1>3, Reserved, PageOf DEF Space
    <2> QED BY <2>1, <2>3
  <1> QED BY <1>3, <1>5, <1>6, <1>7 DEF IInv, Common, ReadyPhase

\* A step of a write that asks for its next flash operation.
LEMMA WriteIssued ==
    ASSUME IInv, Takes("ok"), phase = "ready",
           Current.code \in {"write", "update"},
           NEW op \in OpInfo, SetHead(op),
           op.code = Current.code, op.page = Current.page, op.len = Current.len,
           \/ fl'.kind = "begin" /\ Current.step \in {"begin", "find"} /\ op.step = "id"
           \/ /\ fl'.kind \in {"id", "chunk", "final", "dirty"}
              /\ Current.step \notin {"begin", "find"}
              /\ op.step \notin {"begin", "find", "id"},
           fl'.kind \in WriteKinds => fl' = WriteTarget(fl'.kind, Current),
           fl'.kind = "dirty" => fl'.addr \in Addrs \ {swap.addr},
           answer' = "none",
           UNCHANGED <<pages, swap, gc, phase, latest, tail>>
    PROVE  IInv'
  <1>1. /\ Typed /\ Mapped /\ Current \in OpInfo /\ Current.page \in Idx /\ Current.len \in Nat
        /\ opq \in Seq(OpInfo) /\ opq # <<>> /\ pages \in [Idx -> PageInfo] /\ gc \in GcInfo
        /\ \A i \in Idx : Wrote(i) <=>
                /\ Current.code \in {"write", "update"} /\ Current.page = i
                /\ Current.step \notin {"begin", "find"}
                /\ ~(Current.step = "id" /\ "ok" = "timeout")
    BY ReadyTakes
  <1>2. Current' = op /\ opq' # <<>>
    BY <1>1, HeadSet
  <1>3. ev' = "none"
    BY DEF Takes
  <1>4. fl'.kind \in WriteKinds =>
            /\ fl'.addr = pages[Current.page].addr /\ fl'.off = pages[Current.page].woff
            /\ fl'.rec = [id |-> Current.id, file |-> Current.file, len |-> Current.len,
                          own |-> crp < ChunkSlots]
    BY DEF WriteTarget, OnRecord
  <1>5. fl'.kind \in {"dirty"} \cup WriteKinds
    BY DEF WriteKinds
  <1>6. FlTyped'
    <2>1. pages[Current.page].addr \in Addrs /\ pages[Current.page].woff \in Nat
      BY <1>1, PageOf
    <2>2. Current.id \in Nat /\ Current.file \in Files \cup {NoFile} /\ Current.len \in Nat
      BY <1>1, HeadTyped
    <2>3. [id |-> Current.id, file |-> Current.file, len |-> Current.len,
           own |-> crp < ChunkSlots] \in WriteInfo
      BY <2>2 DEF WriteInfo
    <2> QED BY <2>1, <2>3, <1>4, <1>5 DEF FlTyped, WriteKinds
  <1>7. ReadyFlash'
    <2>1. fl'.kind = "begin" => fl'.rec.len = Current.len
      BY <1>4 DEF WriteKinds
    <2>2. fl'.kind \in WriteKinds => (fl'.kind = "begin" <=> op.step = "id")
      OBVIOUS
    <2>3. op.step \notin {"begin", "find"}
      OBVIOUS
    <2>4. fl'.kind = "dirty" => op.step # "id"
      OBVIOUS
    <2> QED BY <2>1, <2>2, <2>3, <2>4, <1>2, <1>4, <1>5 DEF ReadyFlash, Executes, WriteKinds
  <1>8. \A i \in Idx : Wrote(i)' = Wrote(i)
    <2>1. \A i \in Idx : Wrote(i)' = (Current.page = i /\ fl'.kind # "begin")
      BY <1>2, <1>3 DEF Wrote, Executes
    <2>2. \A i \in Idx : Wrote(i) \in BOOLEAN
      BY DEF Wrote
    <2>3. \A i \in Idx : Wrote(i) <=> (Current.page = i /\ fl'.kind # "begin")
      BY <1>1
    <2> QED BY <2>1, <2>2, <2>3
  <1>9. Ends
    BY DEF Ends
  <1>10. fl'.kind # "erase"
    OBVIOUS
  <1>11. pages' \in [Idx -> PageInfo] /\ gc' \in GcInfo /\ op.code # "gc"
         /\ answer' \in {"none", "ok", "busy", "timeout", "notfound", "internal"}
    BY <1>1
  <1> QED BY <1>6, <1>7, <1>8, <1>9, <1>10, <1>11, HeadStep

\* The step's flash operation may be refused, which ends the write.
LEMMA WriteIssues ==
    ASSUME IInv, Takes("ok"), phase = "ready",
           Current.code \in {"write", "update"}, NEW refused \in BOOLEAN,
           NEW op \in OpInfo, SetHead(op), NEW o, Issue(o, refused),
           op.code = Current.code, op.page = Current.page, op.len = Current.len,
           \/ o.kind = "begin" /\ Current.step \in {"begin", "find"} /\ op.step = "id"
           \/ /\ o.kind \in {"id", "chunk", "final", "dirty"}
              /\ Current.step \notin {"begin", "find"}
              /\ op.step \notin {"begin", "find", "id"},
           o.kind \in WriteKinds => o = WriteTarget(o.kind, Current),
           o.kind = "dirty" => o.addr \in Addrs \ {swap.addr},
           refused => OffsetsUpdate(op), ~refused => UNCHANGED pages, upset' = {},
           UNCHANGED <<swap, gc, phase, latest, tail>>
    PROVE  IInv'
  <1>1. fl.kind = "none" /\ answer = "none"
    BY ReadyTakes
  <1>2. CASE refused
    <2>1. fl' = fl /\ answer' = "busy"
      BY <1>2 DEF Issue
    <2> QED BY <2>1, <1>2, WriteOver
  <1>3. CASE ~refused
    <2>1. fl' = o /\ answer' = "none"
      BY <1>1, <1>3 DEF Issue
    <2> QED BY <2>1, <1>3, WriteIssued
  <1> QED BY <1>2, <1>3

\* A write or an update is one step further.
LEMMA WriteStepStep ==
    ASSUME IInv, NEW result, Takes(result), phase = "ready",
           NEW refused \in BOOLEAN, WriteStep(result, refused), upset' = {}
    PROVE  IInv'
  <1>1. /\ Typed /\ Mapped /\ Current \in OpInfo /\ opq \in Seq(OpInfo) /\ opq # <<>>
        /\ fl.kind = "none" /\ pages \in [Idx -> PageInfo] /\ gc \in GcInfo
        /\ Current.code \in {"write", "update"}
        /\ UNCHANGED <<swap, gc, phase, latest, tail>>
    BY ReadyTakes DEF WriteStep
  <1>2. opq' = opq => SetHead(Current) /\ Current' = Current /\ opq' # <<>>
    BY <1>1, HeadKept DEF Current
  <1>3. CASE result = "timeout"
    <2>1. answer' = "timeout" /\ fl' = fl /\ OffsetsUpdate(Current) /\ opq' = opq
      BY <1>3 DEF WriteStep, Finish
    <2>2. SetHead(Current)
      BY <2>1, <1>2
    <2> QED BY <2>1, <2>2, <1>1, WriteOver
  <1>4. CASE result = "ok" /\ Current.step = "find" /\ Finish("notfound")
              /\ UNCHANGED <<pages, opq>>
    <2>1. /\ answer' = "notfound" /\ fl' = fl /\ opq' = opq /\ pages' = pages
          /\ SetHead(Current) /\ Current' = Current /\ opq' # <<>>
      BY <1>2, <1>4 DEF Finish
    <2>2. Ends /\ FlTyped' /\ ReadyFlash'
      BY <2>1, <1>1 DEF Ends, FlTyped, ReadyFlash, WriteKinds
    <2>3. \A i \in Idx : Wrote(i)' = Wrote(i)
      BY <2>1, <1>4 DEF Wrote
    <2>4. gc' \in GcInfo /\ gc' = gc /\ fl'.kind # "erase" /\ Current.code # "gc"
      BY <2>1, <1>1
    <2> QED BY <2>1, <2>2, <2>3, <2>4, <1>1, HeadStep
  <1>5. CASE result = "ok" /\ \/ Current.step = "begin"
                              \/ Current.step = "find" /\ Places(Current.old) # {}
    <2> DEFINE desc == IF Current.step = "find" THEN FirstOf(Places(Current.old))
                       ELSE Current.desc
               op == [Current EXCEPT !.step = "id", !.desc = desc]
               o == WriteTarget("begin", Current)
    <2>1. WriteIssue(o, op, refused)
      BY <1>5 DEF WriteStep
    <2>2. desc \in Idx \X Nat
      <3>1. CASE Current.step = "find"
        <4>1. Places(Current.old) # {} /\ Places(Current.old) \subseteq Idx \X Positions
          BY <3>1, <1>5 DEF Places
        <4>2. FirstOf(Places(Current.old)) \in Idx \X Positions
          BY <4>1, FirstFound
        <4> QED BY <3>1, <4>2, PositionsFinite
      <3>2. CASE Current.step # "find"
        BY <3>2, <1>1 DEF OpInfo
      <3> QED BY <3>1, <3>2
    <2> HIDE DEF desc
    <2>3. op \in OpInfo /\ op.code = Current.code /\ op.page = Current.page
          /\ op.len = Current.len /\ op.step = "id"
      BY <1>1, <2>2 DEF OpInfo, OpSteps
    <2>4. o.kind = "begin" /\ o = WriteTarget(o.kind, Current)
      BY DEF WriteTarget, OnRecord
    <2> HIDE DEF op, o
    <2> QED BY <2>1, <2>3, <2>4, <1>1, <1>5, WriteIssues DEF WriteIssue
  <1>6. CASE result = "ok" /\ Current.step = "id"
    <2> DEFINE op == [Current EXCEPT !.step = AfterId(Current)]
               o == WriteTarget("id", Current)
    <2>1. WriteIssue(o, op, refused)
      BY <1>6 DEF WriteStep
    <2>2. op \in OpInfo /\ op.code = Current.code /\ op.page = Current.page
          /\ op.len = Current.len /\ op.step \in {"chunks", "final"}
      BY <1>1 DEF OpInfo, OpSteps, AfterId
    <2>3. o.kind = "id" /\ o = WriteTarget(o.kind, Current)
      BY DEF WriteTarget, OnRecord
    <2> HIDE DEF op, o
    <2> QED BY <2>1, <2>2, <2>3, <1>1, <1>6, WriteIssues DEF WriteIssue
  <1>7. CASE result = "ok" /\ Current.step = "chunks"
    <2> DEFINE op == [Current EXCEPT !.left = @ - 1,
                            !.step = IF Current.left = 1 THEN "final" ELSE @]
               o == WriteTarget("chunk", Current)
    <2>1. /\ Issue(o, refused) /\ SetHead(op)
          /\ refused => OffsetsUpdate(op)
          /\ ~refused => UNCHANGED pages
      BY <1>7 DEF WriteStep
    <2>2. op \in OpInfo /\ op.code = Current.code /\ op.page = Current.page
          /\ op.len = Current.len /\ op.step \in {"chunks", "final"}
      <3> DEFINE left == Current.left - 1
                 step == IF Current.left = 1 THEN "final" ELSE "chunks"
      <3>1. left \in Int
        BY <1>1 DEF OpInfo
      <3>2. step \in {"chunks", "final"}
        OBVIOUS
      <3>3. op = [Current EXCEPT !.left = left, !.step = step]
        BY <1>7
      <3> HIDE DEF left, step
      <3> QED BY <3>1, <3>2, <3>3, <1>1 DEF OpInfo, OpSteps
    <2>3. o.kind = "chunk" /\ o = WriteTarget(o.kind, Current)
      BY DEF WriteTarget, OnRecord
    <2> HIDE DEF op, o
    <2> QED BY <2>1, <2>2, <2>3, <1>1, <1>7, WriteIssues
  <1>8. CASE result = "ok" /\ Current.step = "final"
    <2> DEFINE op == [Current EXCEPT !.step = AfterFinal(Current)]
               o == WriteTarget("final", Current)
    <2>1. WriteIssue(o, op, refused)
      BY <1>8 DEF WriteStep
    <2>2. op \in OpInfo /\ op.code = Current.code /\ op.page = Current.page
          /\ op.len = Current.len /\ op.step \in {"dirty", "done"}
      BY <1>1 DEF OpInfo, OpSteps, AfterFinal
    <2>3. o.kind = "final" /\ o = WriteTarget(o.kind, Current)
      BY DEF WriteTarget, OnRecord
    <2> HIDE DEF op, o
    <2> QED BY <2>1, <2>2, <2>3, <1>1, <1>8, WriteIssues DEF WriteIssue
  <1>9. CASE result = "ok" /\ Current.step = "dirty"
    <2> DEFINE op == [Current EXCEPT !.step = "done"]
               a == pages[Current.desc[1]].addr
               o == OnRecord("dirty", a, flash[a].recs[Current.desc[2]].off, <<>>)
    <2>1. WriteIssue(o, op, refused)
      BY Zenon, <1>9 DEF WriteStep
    <2>2. op \in OpInfo /\ op.code = Current.code /\ op.page = Current.page
          /\ op.len = Current.len /\ op.step = "done"
      BY <1>1 DEF OpInfo, OpSteps
    <2>3. o.kind = "dirty" /\ o.addr \in Addrs \ {swap.addr}
      <3>1. Current.desc[1] \in Idx
        BY <1>1 DEF OpInfo
      <3>2. a \in Addrs \ {swap.addr}
        BY <3>1, <1>1, PageOf
      <3> QED BY <3>2 DEF OnRecord
    <2> HIDE DEF op, o
    <2> QED BY <2>1, <2>2, <2>3, <1>1, <1>9, WriteIssues DEF WriteIssue, WriteKinds
  <1>10. CASE result = "ok" /\ Current.step = "done" /\ Finish("ok") /\ OffsetsUpdate(Current)
               /\ UNCHANGED opq
    <2>1. answer' = "ok" /\ fl' = fl /\ SetHead(Current)
      BY <1>2, <1>10 DEF Finish
    <2> QED BY <2>1, <1>1, <1>10, WriteOver
  <1> QED BY ZenonT(20), <1>3, <1>4, <1>5, <1>6, <1>7, <1>8, <1>9, <1>10 DEF WriteStep

\* A delete asks for a record's key to be overwritten, or ends.
LEMMA DeleteIssued ==
    ASSUME IInv, NEW result, Takes(result), phase = "ready",
           Current.code \in {"delete", "deleteFile"},
           NEW op \in OpInfo, SetHead(op),
           op.code = Current.code, op.page = Current.page, op.len = Current.len,
           pages' = pages \/ \E i \in Idx : pages' = [pages EXCEPT ![i].canGc = TRUE],
           \/ fl' = fl /\ answer' \in {"ok", "busy", "timeout", "notfound"}
           \/ /\ fl'.kind = "dirty" /\ fl'.addr \in Addrs \ {swap.addr}
              /\ answer' = "none" /\ op.step # "id",
           UNCHANGED <<swap, gc, phase, latest, tail>>
    PROVE  IInv'
  <1>1. /\ Typed /\ Current \in OpInfo /\ opq \in Seq(OpInfo) /\ opq # <<>>
        /\ fl.kind = "none" /\ pages \in [Idx -> PageInfo] /\ gc \in GcInfo
    BY ReadyTakes
  <1>2. Current' = op /\ opq' # <<>>
    BY <1>1, HeadSet
  <1>3. /\ pages' \in [Idx -> PageInfo]
        /\ \A i \in Idx : /\ pages'[i].type = pages[i].type /\ pages'[i].addr = pages[i].addr
                          /\ pages'[i].woff = pages[i].woff /\ pages'[i].rsv = pages[i].rsv
                          /\ pages'[i].open = pages[i].open
    <2>1. CASE pages' = pages
      BY <2>1, <1>1
    <2>2. CASE \E i \in Idx : pages' = [pages EXCEPT ![i].canGc = TRUE]
      <3>1. PICK i \in Idx : pages' = [pages EXCEPT ![i].canGc = TRUE]
        BY <2>2
      <3> DEFINE q == [pages[i] EXCEPT !.canGc = TRUE]
      <3>2. pages' = [pages EXCEPT ![i] = q] /\ pages[i] \in PageInfo
        BY <3>1, <1>1
      <3>3. /\ q \in PageInfo /\ q.type = pages[i].type /\ q.addr = pages[i].addr
            /\ q.woff = pages[i].woff /\ q.rsv = pages[i].rsv /\ q.open = pages[i].open
        BY <3>2 DEF PageInfo
      <3> HIDE DEF q
      <3> QED BY <3>2, <3>3, <1>1
    <2> QED BY <2>1, <2>2
  <1>4. Ends /\ FlTyped'
    BY <1>1 DEF Ends, FlTyped, WriteKinds
  <1>5. ReadyFlash'
    <2>1. CASE fl' = fl
      BY <2>1, <1>1 DEF ReadyFlash, WriteKinds
    <2>2. CASE fl'.kind = "dirty" /\ fl'.addr \in Addrs \ {swap.addr} /\ op.step # "id"
      <3>1. Executes({"write", "update", "delete", "deleteFile"})'
        BY <1>2 DEF Executes
      <3> QED BY <2>2, <3>1, <1>2 DEF ReadyFlash, WriteKinds
    <2> QED BY <2>1, <2>2
  <1>6. \A i \in Idx : Wrote(i)' = Wrote(i)
    BY <1>2 DEF Wrote, Executes
  <1>7. gc' \in GcInfo /\ op.code # "gc" /\ fl'.kind # "erase"
        /\ answer' \in {"none", "ok", "busy", "timeout", "notfound", "internal"}
    BY <1>1
  <1> QED BY <1>3, <1>4, <1>5, <1>6, <1>7, HeadStep

LEMMA DeleteStepStep ==
    ASSUME IInv, NEW result, Takes(result), phase = "ready",
           NEW refused \in BOOLEAN, DeleteStep(result, refused), upset' = {}
    PROVE  IInv'
  <1>1. /\ Typed /\ Mapped /\ Current \in OpInfo /\ opq \in Seq(OpInfo) /\ opq # <<>>
        /\ fl.kind = "none" /\ answer = "none"
        /\ Current.code \in {"delete", "deleteFile"}
        /\ UNCHANGED <<swap, gc, phase, latest, tail>>
    BY ReadyTakes DEF DeleteStep
  <1>2. opq' = opq => SetHead(Current)
    BY <1>1, HeadKept
  <1> DEFINE done == [Current EXCEPT !.step = "done"]
  <1>3. done \in OpInfo /\ done.code = Current.code /\ done.page = Current.page
        /\ done.len = Current.len /\ done.step = "done"
    BY <1>1 DEF OpInfo, OpSteps
  <1>4. ASSUME NEW P, P # {}, P \subseteq Idx \X Positions,
               Issue(DirtyTarget(FirstOf(P)[1], FirstOf(P)[2]), refused),
               pages' = [pages EXCEPT ![FirstOf(P)[1]].canGc = TRUE]
        PROVE  /\ \E i \in Idx : pages' = [pages EXCEPT ![i].canGc = TRUE]
               /\ \/ fl' = fl /\ answer' = "busy"
                  \/ fl'.kind = "dirty" /\ fl'.addr \in Addrs \ {swap.addr} /\ answer' = "none"
    <2>1. FirstOf(P)[1] \in Idx
      BY <1>4, FirstFound
    <2>2. pages[FirstOf(P)[1]].addr \in Addrs \ {swap.addr}
      BY <2>1, <1>1, PageOf
    <2> QED BY <2>1, <2>2, <1>1, <1>4 DEF Issue, DirtyTarget, OnRecord
  <1>5. CASE result = "timeout"
    <2>1. answer' = "timeout" /\ fl' = fl /\ pages' = pages /\ SetHead(Current)
      BY <1>2, <1>5 DEF DeleteStep, Finish
    <2> QED BY <2>1, <1>1, DeleteIssued
  <1>6. CASE result = "ok" /\ Current.step = "flagRecord"
    <2>1. SetHead(done)
      BY <1>6 DEF DeleteStep
    <2>2. CASE Places(Current.id) = {}
      <3>1. answer' = "notfound" /\ fl' = fl /\ pages' = pages
        BY <1>6, <2>2 DEF DeleteStep, Finish
      <3> HIDE DEF done
      <3> QED BY <3>1, <2>1, <1>1, <1>3, DeleteIssued
    <2>3. CASE Places(Current.id) # {}
      <3> DEFINE P == Places(Current.id)
      <3>1. /\ P # {} /\ P \subseteq Idx \X Positions
            /\ Issue(DirtyTarget(FirstOf(P)[1], FirstOf(P)[2]), refused)
            /\ pages' = [pages EXCEPT ![FirstOf(P)[1]].canGc = TRUE]
        BY Zenon, <1>6, <2>3 DEF DeleteStep, Places
      <3> HIDE DEF P
      <3>2. /\ \E i \in Idx : pages' = [pages EXCEPT ![i].canGc = TRUE]
            /\ \/ fl' = fl /\ answer' = "busy"
               \/ fl'.kind = "dirty" /\ fl'.addr \in Addrs \ {swap.addr} /\ answer' = "none"
        BY <3>1, <1>4
      <3> HIDE DEF done
      <3> QED BY Zenon, <3>2, <2>1, <1>1, <1>3, DeleteIssued
    <2> QED BY <2>2, <2>3
  <1>7. CASE result = "ok" /\ Current.step = "flagFile"
    <2>1. SetHead(Current)
      BY <1>2, <1>7 DEF DeleteStep
    <2>2. CASE PlacesInFile(Current.file, tok) = {}
      <3>1. answer' = "ok" /\ fl' = fl /\ pages' = pages
        BY <1>7, <2>2 DEF DeleteStep, Finish
      <3> QED BY <3>1, <2>1, <1>1, DeleteIssued
    <2>3. CASE PlacesInFile(Current.file, tok) # {}
      <3> DEFINE P == PlacesInFile(Current.file, tok)
      <3>1. /\ P # {} /\ P \subseteq Idx \X Positions
            /\ Issue(DirtyTarget(FirstOf(P)[1], FirstOf(P)[2]), refused)
            /\ pages' = [pages EXCEPT ![FirstOf(P)[1]].canGc = TRUE]
        BY Zenon, <1>7, <2>3 DEF DeleteStep, PlacesInFile
      <3> HIDE DEF P
      <3>2. /\ \E i \in Idx : pages' = [pages EXCEPT ![i].canGc = TRUE]
            /\ \/ fl' = fl /\ answer' = "busy"
               \/ fl'.kind = "dirty" /\ fl'.addr \in Addrs \ {swap.addr} /\ answer' = "none"
        BY <3>1, <1>4
      <3>3. Current.step # "id"
        BY <1>7
      <3> QED BY Zenon, <3>2, <3>3, <2>1, <1>1, DeleteIssued
    <2> QED BY <2>2, <2>3
  <1>8. CASE result = "ok" /\ Current.step = "done"
    <2>1. answer' = "ok" /\ fl' = fl /\ pages' = pages /\ SetHead(Current)
      BY <1>2, <1>8 DEF DeleteStep, Finish
    <2> QED BY <2>1, <1>1, DeleteIssued
  <1> QED BY <1>5, <1>6, <1>7, <1>8 DEF DeleteStep

-----------------------------------------------------------------------------
(* A step of a garbage collection.                                         *)

GcGoes(result) ==
    /\ Takes(result) /\ phase = "ready" /\ Current.code = "gc"
    /\ SetHead([Current EXCEPT !.step = "begun"])
    /\ UNCHANGED <<phase, latest, tail>>

\* While it goes on the state may also be that the next page, or the next
\* record, is looked for.
GcNow == [state : GcStates \cup {"nextPage", "findNext"}, cur : Idx, src : Nat, run : Nat,
          doGc : SUBSET Idx, resume : BOOLEAN]

LEMMA GcHead ==
    ASSUME IInv, NEW result, GcGoes(result)
    PROVE  /\ [Current EXCEPT !.step = "begun"] \in OpInfo
           /\ Current' = [Current EXCEPT !.step = "begun"]
           /\ Current'.code = "gc" /\ Current'.step = "begun" /\ opq' # <<>>
           /\ Current'.page = Current.page /\ Current'.len = Current.len
           /\ Executes({"gc"})'
           /\ \A i \in Idx : ~Wrote(i) /\ ~Wrote(i)'
           /\ ~GcDone'
  <1>1. Current \in OpInfo /\ opq \in Seq(OpInfo) /\ opq # <<>> /\ Current.code = "gc"
        /\ ~GcDone'
    BY ReadyTakes DEF GcGoes
  <1> DEFINE op == [Current EXCEPT !.step = "begun"]
  <1>2. op \in OpInfo /\ op.code = "gc" /\ op.step = "begun" /\ op.page = Current.page
        /\ op.len = Current.len
    BY <1>1 DEF OpInfo, OpSteps
  <1>3. SetHead(op)
    BY DEF GcGoes
  <1> HIDE DEF op
  <1>4. Current' = op /\ opq' # <<>>
    BY <1>1, <1>2, <1>3, HeadSet
  <1>5. Executes({"gc"})' /\ \A i \in Idx : ~Wrote(i) /\ ~Wrote(i)'
    BY <1>1, <1>2, <1>4 DEF Executes, Wrote
  <1> QED BY <1>1, <1>2, <1>4, <1>5 DEF op

\* Garbage collection does not touch what is reserved, and no page gets more
\* words than it had.
LEMMA GcEnds ==
    ASSUME IInv, NEW result, GcGoes(result), Ends, FlTyped',
           pages' \in [Idx -> PageInfo],
           \A i \in Idx : /\ pages'[i].type = pages[i].type /\ pages'[i].rsv = pages[i].rsv
                          /\ pages'[i].woff <= pages[i].woff,
           swap' \in [addr : Addrs \cup {NoAddr}, woff : Nat], gc' \in GcInfo,
           answer' \in {"none", "ok", "busy", "timeout", "notfound", "internal"},
           Mapped', ReadyTags', ReadyFlash', Closed', Offsets', SwapOffsets', Copying'
    PROVE  IInv'
  <1> DEFINE op == [Current EXCEPT !.step = "begun"]
  <1>1. /\ Typed /\ Mapped /\ Space /\ Current \in OpInfo /\ Current.len \in Nat
    BY ReadyTakes DEF GcGoes
  <1>2. /\ op \in OpInfo /\ SetHead(op) /\ op.code = Current.code /\ op.page = Current.page
        /\ op.len = Current.len /\ op.step \in {"none", "begun"}
    BY GcHead DEF GcGoes
  <1> HIDE DEF op
  <1>3. /\ Common' /\ OneSwap' /\ NotAllData' /\ FlashOK' /\ ReadyControl' /\ InitPhase'
        /\ \A i \in Idx :
             /\ ReservedOn(i)' = ReservedOn(i) /\ SpaceDone(i) = 0
             /\ SpaceDone(i)' = IF answer' \notin {"none", "notfound"}
                                   /\ Current.code \in {"write", "update"}
                                   /\ Current.page = i
                                THEN Current.len ELSE 0
        /\ \A k \in DOMAIN opq' :
             opq'[k].code \in {"write", "update"} => opq'[k].len >= HeaderSize
    BY <1>2, ReadyStep DEF GcGoes
  <1>4. Space'
    <2>1. \A i \in Idx : SpaceDone(i)' = 0
      BY <1>3 DEF GcGoes
    <2>2. SUFFICES ASSUME NEW i \in Idx
                   PROVE /\ pages'[i].rsv >= ReservedOn(i) - 0
                         /\ pages'[i].woff + pages'[i].rsv < PageSize
      BY <1>3, <2>1 DEF Space
    <2>3. ReservedOn(i) \in Nat /\ pages[i].rsv \in Int /\ pages[i].woff \in Nat
          /\ pages[i].rsv >= ReservedOn(i) /\ pages[i].woff + pages[i].rsv < PageSize
      BY <1>1, <1>3, Reserved, PageOf DEF Space
    <2>4. pages'[i].woff \in Nat /\ pages'[i].rsv = pages[i].rsv
          /\ pages'[i].woff <= pages[i].woff
      BY DEF PageInfo
    <2> QED BY <2>3, <2>4, Sizes
  <1> QED BY <1>3, <1>4 DEF IInv, Common, ReadyPhase

\* Once all that was valid on a page is in the swap the page is erased, or
\* the swap if a record of the page is open.
LEMMA GcErases ==
    ASSUME IInv, NEW result, GcGoes(result), NEW refused \in BOOLEAN,
           NEW g \in GcNow, NEW s, s.pages = pages,
           s.swap \in [addr : Addrs \cup {NoAddr}, woff : Nat], s.swap.addr = swap.addr,
           GcErase(g, s, refused), pages' = pages,
           \A a \in Addrs \ {swap.addr} : Tag(a) # "swap",
           Tag(swap.addr) = "swap", EndOf(Recs(swap.addr)) = s.swap.woff,
           s.swap.woff <= pages[g.cur].woff,
           \A i \in Idx : /\ Tag(pages[i].addr) = "erased" => i = g.cur /\ pages[i].open = 0
                          /\ Tag(pages[i].addr) # "erased" =>
                                EndOf(Recs(pages[i].addr)) = pages[i].woff
    PROVE  IInv'
  <1>1. /\ Typed /\ Mapped /\ Offsets /\ fl.kind = "none" /\ flash' = flash /\ answer = "none"
        /\ pages \in [Idx -> PageInfo] /\ swap.addr \in Addrs /\ g.cur \in Idx
    BY ReadyTakes DEF GcGoes, GcNow
  <1>2. /\ Current'.code = "gc" /\ Current'.step = "begun" /\ Executes({"gc"})' /\ ~GcDone'
        /\ \A i \in Idx : ~Wrote(i) /\ ~Wrote(i)'
    BY GcHead
  <1> DEFINE discard == pages[g.cur].open # 0
  <1>3. /\ gc' = [g EXCEPT !.state = IF discard THEN "discardSwap" ELSE "erasePage"]
        /\ swap'.addr = swap.addr
        /\ swap'.woff = IF discard THEN TagSize ELSE s.swap.woff
        /\ swap' \in [addr : Addrs \cup {NoAddr}, woff : Nat]
        /\ Issue(OnPage("erase", IF discard THEN swap.addr ELSE pages[g.cur].addr), refused)
    <2>1. CASE discard
      BY <2>1, Sizes DEF GcErase
    <2>2. CASE ~discard
      BY <2>2 DEF GcErase
    <2> QED BY <2>1, <2>2
  <1>4. /\ gc' \in GcInfo /\ gc'.cur = g.cur
        /\ gc'.state = IF discard THEN "discardSwap" ELSE "erasePage"
    BY <1>3 DEF GcNow, GcInfo, GcStates
  <1>5. /\ \/ fl' = fl /\ answer' = "busy"
           \/ /\ fl'.kind = "erase" /\ answer' = "none"
              /\ fl'.addr = IF discard THEN swap.addr ELSE pages[g.cur].addr
    BY <1>1, <1>3 DEF Issue, OnPage
  <1>6. \A i \in Idx : pages[i].addr \in Addrs \ {swap.addr}
    BY <1>1, PageOf
  <1>7. Ends /\ FlTyped'
    BY <1>1, <1>5, <1>6 DEF Ends, FlTyped, WriteKinds
  <1>8. /\ \A a \in Addrs : Tag(a)' = Tag(a) /\ Recs(a)' = Recs(a)
        /\ Tag(swap.addr)' = Tag(swap.addr) /\ Recs(swap.addr)' = Recs(swap.addr)
        /\ \A i \in Idx : /\ Tag(pages[i].addr)' = Tag(pages[i].addr)
                          /\ Recs(pages[i].addr)' = Recs(pages[i].addr)
    BY <1>1, <1>3 DEF Tag, Recs
  <1> HIDE DEF discard
  <1>9. Mapped'
    BY <1>1, <1>3 DEF Mapped
  <1>10. discard => \A i \in Idx : Tag(pages[i].addr) # "erased"
    BY DEF discard
  <1>11. ReadyTags'
    BY <1>2, <1>3, <1>4, <1>8, <1>10 DEF ReadyTags
  <1>12. ReadyFlash'
    BY <1>1, <1>2, <1>3, <1>4, <1>5 DEF ReadyFlash, WriteKinds
  <1>13. Closed'
    <2>1. SUFFICES ASSUME NEW i \in Idx,
                          Swapped(i)' \/ (fl'.kind = "erase" /\ fl'.addr = pages[i].addr)
                   PROVE  pages[i].open = 0
      BY DEF Closed
    <2>2. CASE Swapped(i)'
      BY <2>2, <1>4, <1>8 DEF Swapped
    <2>3. CASE fl'.kind = "erase" /\ fl'.addr = pages[i].addr
      <3>1. ~discard /\ pages[i].addr = pages[g.cur].addr
        BY <2>3, <1>1, <1>5, <1>6
      <3> QED BY <3>1, <1>1 DEF discard, Mapped
    <2> QED BY <2>1, <2>2, <2>3
  <1>14. Offsets'
    <2>1. SUFFICES ASSUME NEW i \in Idx
                   PROVE /\ ~Swapped(i)' => EndOf(Recs(pages[i].addr)) = pages[i].woff
                         /\ pages[i].woff >= TagSize
      BY <1>2, <1>8 DEF Offsets
    <2>2. ~Swapped(i)' => Tag(pages[i].addr) # "erased"
      BY <1>4, <1>8, <1>10 DEF Swapped
    <2> QED BY <2>2, <1>1 DEF Offsets
  <1>15. SwapOffsets'
    BY <1>2, <1>3, <1>4, <1>8 DEF SwapOffsets
  <1>16. Copying'
    BY <1>4 DEF Copying
  <1>17. \A i \in Idx : pages[i].woff \in Nat
    BY <1>1, PageOf
  <1>18. \A i \in Idx : pages'[i].woff <= pages[i].woff
    BY <1>17
  <1> QED BY <1>1, <1>3, <1>4, <1>5, <1>7, <1>9, <1>11, <1>12, <1>13, <1>14, <1>15, <1>16,
             <1>18, GcEnds

\* A valid record is copied to where the swap's records end.
LEMMA GcCopies ==
    ASSUME IInv, NEW result, GcGoes(result), NEW refused \in BOOLEAN,
           NEW g \in GcNow, NEW s, s.pages = pages,
           s.swap \in [addr : Addrs \cup {NoAddr}, woff : Nat], s.swap.addr = swap.addr,
           GcCopy(g, s, refused), pages' = pages,
           \A a \in Addrs \ {swap.addr} : Tag(a) # "swap", Tag(swap.addr) = "swap",
           \A i \in Idx : /\ Tag(pages[i].addr) # "erased"
                          /\ EndOf(Recs(pages[i].addr)) = pages[i].woff,
           NEW p, p = Recs(pages[g.cur].addr), g.src \in DOMAIN p, p[g.src].st = "valid",
           p[g.src].off + p[g.src].len <= pages[g.cur].woff,
           TagSize <= s.swap.woff, s.swap.woff <= p[g.src].off,
           \/ EndOf(Recs(swap.addr)) = s.swap.woff
           \/ /\ Recs(swap.addr) # <<>>
              /\ Last(Recs(swap.addr)) = [p[g.src] EXCEPT !.off = s.swap.woff]
    PROVE  IInv'
  <1>1. /\ Typed /\ FlashOK /\ Mapped /\ Offsets /\ fl.kind = "none" /\ flash' = flash
        /\ answer = "none" /\ pages \in [Idx -> PageInfo] /\ swap.addr \in Addrs /\ g.cur \in Idx
    BY ReadyTakes DEF GcGoes, GcNow
  <1>2. /\ Current'.code = "gc" /\ Current'.step = "begun" /\ Executes({"gc"})' /\ ~GcDone'
        /\ \A i \in Idx : ~Wrote(i) /\ ~Wrote(i)'
    BY Zenon, GcHead
  <1> DEFINE rec == [p[g.src] EXCEPT !.off = s.swap.woff]
             o == OnRecord("copy", swap.addr, s.swap.woff, rec)
  <1>3. gc' = [g EXCEPT !.state = "copy"] /\ swap' = s.swap /\ Issue(o, refused)
    BY Zenon DEF GcCopy, Recs
  <1>4. rec \in Slots
    <2>1. p \in Seq(Slots)
      BY <1>1, PageOf, PagesTyped
    <2>2. p[g.src] \in Slots
      BY <2>1
    <2> QED BY <2>2 DEF Slots
  <1>5. o.kind = "copy" /\ o.addr = swap.addr /\ o.off = s.swap.woff /\ o.rec = rec
    BY DEF OnRecord
  <1> HIDE DEF o, rec
  <1>6. gc' \in GcInfo /\ gc'.cur = g.cur /\ gc'.state = "copy" /\ gc'.src = g.src
    BY <1>3 DEF GcNow, GcInfo, GcStates
  <1>7. (fl' = fl /\ answer' = "busy") \/ (fl' = o /\ answer' = "none")
    BY <1>1, <1>3 DEF Issue
  <1>8. Ends /\ FlTyped'
    BY <1>1, <1>4, <1>5, <1>7 DEF Ends, FlTyped, WriteKinds
  <1>9. \A i \in Idx : pages[i].addr \in Addrs \ {swap.addr} /\ pages[i].woff \in Nat
    BY Zenon, <1>1, PageOf
  <1>10. /\ \A a \in Addrs : Tag(a)' = Tag(a) /\ Recs(a)' = Recs(a)
         /\ Tag(swap.addr)' = Tag(swap.addr) /\ Recs(swap.addr)' = Recs(swap.addr)
         /\ \A i \in Idx : /\ Tag(pages[i].addr)' = Tag(pages[i].addr)
                           /\ Recs(pages[i].addr)' = Recs(pages[i].addr)
         /\ Recs(pages[gc.cur].addr)' = p
         /\ swap'.addr = swap.addr /\ swap'.woff = s.swap.woff
    BY Zenon, <1>1, <1>3, <1>6, <1>9 DEF Tag, Recs
  <1>11. Mapped'
    BY <1>1, <1>10 DEF Mapped
  <1>12. ReadyTags'
    BY <1>2, <1>6, <1>10 DEF ReadyTags
  <1>13. ReadyFlash'
    <2>1. CASE fl' = fl
      BY ZenonT(20), <2>1, <1>1 DEF ReadyFlash, WriteKinds
    <2>2. CASE fl' = o
      <3>1. fl'.kind = "copy" /\ fl'.addr = swap'.addr /\ fl'.off = swap'.woff /\ fl'.rec = rec
        BY <2>2, <1>5, <1>10
      <3>2. rec = [(Recs(pages[gc.cur].addr)')[gc'.src] EXCEPT !.off = swap'.woff]
        BY <1>6, <1>10 DEF rec
      <3> QED BY <3>1, <3>2, <1>2, <1>6 DEF ReadyFlash, WriteKinds
    <2> QED BY <2>1, <2>2, <1>7
  <1>14. Closed'
    <2>1. fl'.kind # "erase"
      BY <1>1, <1>5, <1>7
    <2> QED BY <2>1, <1>6 DEF Closed, Swapped
  <1>15. Offsets'
    BY <1>1, <1>2, <1>10 DEF Offsets
  <1>16. SwapOffsets'
    BY <1>6 DEF SwapOffsets
  <1>17. Copying'
    <2>1. /\ g.src \in DOMAIN p /\ p[g.src].st = "valid"
          /\ p[g.src].off + p[g.src].len <= pages[g.cur].woff
          /\ TagSize <= s.swap.woff /\ s.swap.woff <= p[g.src].off
          /\ \/ EndOf(Recs(swap.addr)) = s.swap.woff
             \/ /\ Recs(swap.addr) # <<>>
                /\ Last(Recs(swap.addr)) = [p[g.src] EXCEPT !.off = s.swap.woff]
      OBVIOUS
    <2> QED BY <2>1, <1>2, <1>6, <1>10 DEF Copying
  <1>18. answer' \in {"none", "ok", "busy", "timeout", "notfound", "internal"}
         /\ swap' \in [addr : Addrs \cup {NoAddr}, woff : Nat]
         /\ pages' \in [Idx -> PageInfo]
         /\ \A i \in Idx : pages'[i].woff <= pages[i].woff
    BY <1>1, <1>3, <1>7, <1>9
  <1> QED BY <1>6, <1>8, <1>11, <1>12, <1>13, <1>14, <1>15, <1>16, <1>17, <1>18, GcEnds

\* The next valid record of the page is copied, or the page is done with.
LEMMA GcFinds ==
    ASSUME IInv, NEW result, GcGoes(result), NEW refused \in BOOLEAN,
           NEW g \in GcNow, NEW s, s.pages = pages,
           s.swap \in [addr : Addrs \cup {NoAddr}, woff : Nat], s.swap.addr = swap.addr,
           GcFindNext(g, s, refused), pages' = pages,
           \A a \in Addrs \ {swap.addr} : Tag(a) # "swap", Tag(swap.addr) = "swap",
           \A i \in Idx : /\ Tag(pages[i].addr) # "erased"
                          /\ EndOf(Recs(pages[i].addr)) = pages[i].woff,
           EndOf(Recs(swap.addr)) = s.swap.woff, s.swap.woff <= pages[g.cur].woff,
           \A k \in DOMAIN Recs(pages[g.cur].addr) :
              k > g.src => s.swap.woff <= Recs(pages[g.cur].addr)[k].off
    PROVE  IInv'
  <1>1. /\ Typed /\ FlashOK /\ Mapped /\ g.cur \in Idx /\ swap.addr \in Addrs
    BY ReadyTakes DEF GcGoes, GcNow
  <1> DEFINE a == pages[g.cur].addr
             p == Recs(a)
             next == NextValid(a, g.src)
  <1>2. a \in Addrs /\ p \in Seq(Slots) /\ Chain(p)
    BY <1>1, PageOf, PagesTyped
  <1>3. CASE next # {}
    <2> DEFINE k == Min(next)
               h == [g EXCEPT !.src = k]
    <2>1. next \in SUBSET Nat
      BY <1>2 DEF NextValid, Walked, Recs
    <2>2. k \in next
      BY ZenonT(20), <2>1, <1>3, LeastOf
    <2>3. k \in DOMAIN p /\ k > g.src /\ p[k].st = "valid" /\ k \in Nat
      <3> HIDE DEF k
      <3> QED BY Zenon, <2>1, <2>2 DEF NextValid, ValidAt, Walked, Recs
    <2>4. GcCopy(h, s, refused)
      BY <1>3 DEF GcFindNext
    <2> HIDE DEF k
    <2>5. h \in GcNow /\ h.cur = g.cur /\ h.src = k
      BY <2>3 DEF GcNow
    <2>6. p[k].off + p[k].len <= pages[g.cur].woff
      <3>1. p[k].off + p[k].len <= EndOf(p)
        <4> HIDE DEF p
        <4> QED BY <2>3, <1>2, ChainOrder
      <3> QED BY <3>1, <1>1
    <2>7. s.swap.woff <= p[k].off
      BY <2>3
    <2>8. TagSize <= s.swap.woff
      BY <1>1, PagesTyped
    <2> HIDE DEF h, next
    <2>9. p = Recs(pages[h.cur].addr)
      BY <2>5
    <2> HIDE DEF p, a
    <2> QED BY <2>3, <2>4, <2>5, <2>6, <2>7, <2>8, <2>9, GcCopies
  <1>4. CASE next = {}
    <2>1. GcErase(g, s, refused)
      BY <1>4 DEF GcFindNext
    <2> QED BY <2>1, GcErases
  <1> QED BY <1>3, <1>4

\* The next page that may be collected, or the end of the collection.
LEMMA GcNexts ==
    ASSUME IInv, NEW result, GcGoes(result), NEW refused \in BOOLEAN,
           NEW g \in GcNow, NEW s, s.pages = pages,
           s.swap \in [addr : Addrs \cup {NoAddr}, woff : Nat], s.swap.addr = swap.addr,
           GcNextPage(g, s, refused), pages' = pages,
           \A a \in Addrs \ {swap.addr} : Tag(a) # "swap", Tag(swap.addr) = "swap",
           \A i \in Idx : /\ Tag(pages[i].addr) # "erased"
                          /\ EndOf(Recs(pages[i].addr)) = pages[i].woff,
           Recs(swap.addr) = <<>>, s.swap.woff = TagSize
    PROVE  IInv'
  <1>1. /\ Typed /\ FlashOK /\ Mapped /\ Offsets /\ swap.addr \in Addrs /\ answer = "none"
        /\ fl.kind = "none" /\ flash' = flash /\ pages \in [Idx -> PageInfo]
    BY ReadyTakes DEF GcGoes
  <1>2. /\ Current'.code = "gc" /\ Current'.step = "begun" /\ Executes({"gc"})' /\ ~GcDone'
        /\ \A i \in Idx : ~Wrote(i) /\ ~Wrote(i)'
    BY GcHead
  <1> DEFINE able == {i \in g.doGc : s.pages[i].open = 0 /\ s.pages[i].canGc}
  <1>3. able \in SUBSET Idx
    BY DEF GcNow
  <1>4. CASE able # {}
    <2> DEFINE i == Min(able)
               rest == {j \in g.doGc : j > i}
               h == [g EXCEPT !.cur = i, !.doGc = rest]
    <2>1. i \in Idx /\ rest \in SUBSET Idx
      <3>1. able \in SUBSET Nat
        BY <1>3, Sizes
      <3>2. i \in able
        BY <3>1, <1>4, LeastOf
      <3>3. g.doGc \subseteq Idx
        BY DEF GcNow
      <3> QED BY <3>2, <3>3, <1>3
    <2>2. GcFindNext(h, s, refused)
      BY <1>4 DEF GcNextPage
    <2> HIDE DEF i, rest
    <2>3. h \in GcNow /\ h.cur = i
      BY <2>1 DEF GcNow
    <2> HIDE DEF h
    <2>4. EndOf(Recs(swap.addr)) = s.swap.woff
      BY DEF EndOf
    <2>5. s.swap.woff <= pages[h.cur].woff
      BY <2>1, <2>3, <1>1, PageOf, Sizes DEF Offsets
    <2>6. \A k \in DOMAIN Recs(pages[h.cur].addr) :
              k > h.src => s.swap.woff <= Recs(pages[h.cur].addr)[k].off
      <3> DEFINE p == Recs(pages[h.cur].addr)
      <3>1. p \in Seq(Slots) /\ Chain(p)
        BY <2>1, <2>3, <1>1, PageOf, PagesTyped
      <3> HIDE DEF p
      <3>2. \A k \in DOMAIN p : p[k].off >= TagSize /\ p[k].off \in Nat
        BY <3>1, ChainOrder
      <3>3. \A k \in DOMAIN p : s.swap.woff <= p[k].off
        BY <3>2, Sizes
      <3> QED BY <3>3 DEF p
    <2> QED BY <2>2, <2>3, <2>4, <2>5, <2>6, GcFinds
  <1>5. CASE able = {}
    <2>1. /\ gc' = [g EXCEPT !.state = "begin", !.cur = 0, !.src = 0, !.doGc = {}]
          /\ swap' = s.swap /\ answer' = "ok" /\ fl' = fl
      BY <1>5 DEF GcNextPage, Finish
    <2>2. gc' \in GcInfo /\ gc'.state = "begin"
      BY <2>1, Sizes DEF GcNow, GcInfo, GcStates
    <2>3. swap'.addr = swap.addr /\ swap'.woff = TagSize
      BY <2>1
    <2>4. /\ \A a \in Addrs : Tag(a)' = Tag(a) /\ Recs(a)' = Recs(a)
          /\ Tag(swap.addr)' = Tag(swap.addr) /\ Recs(swap.addr)' = Recs(swap.addr)
          /\ \A i \in Idx : /\ Tag(pages[i].addr)' = Tag(pages[i].addr)
                            /\ Recs(pages[i].addr)' = Recs(pages[i].addr)
                            /\ pages[i].woff \in Nat
      BY <2>3, <1>1, PageOf DEF Tag, Recs
    <2>5. Ends /\ FlTyped'
      BY <2>1, <1>1 DEF Ends, FlTyped, WriteKinds
    <2>6. Mapped'
      BY <2>3, <1>1 DEF Mapped
    <2>7. ReadyTags'
      BY <2>2, <2>3, <2>4, <1>2 DEF ReadyTags
    <2>8. ReadyFlash'
      BY <2>1, <1>1 DEF ReadyFlash, WriteKinds
    <2>9. Closed'
      BY <2>1, <2>2, <1>1 DEF Closed, Swapped
    <2>10. Offsets'
      BY <2>4, <1>1, <1>2 DEF Offsets
    <2>11. SwapOffsets'
      BY <2>2, <2>3, <2>4 DEF SwapOffsets
    <2>12. Copying'
      BY <2>2 DEF Copying
    <2>13. answer' \in {"none", "ok", "busy", "timeout", "notfound", "internal"}
           /\ swap' \in [addr : Addrs \cup {NoAddr}, woff : Nat]
           /\ pages' \in [Idx -> PageInfo]
           /\ \A i \in Idx : pages'[i].woff <= pages[i].woff
      BY <2>1, <2>4, <1>1
    <2> QED BY <2>2, <2>5, <2>6, <2>7, <2>8, <2>9, <2>10, <2>11, <2>12, <2>13, GcEnds
  <1> QED BY <1>4, <1>5

\* The page that was erased is to become the swap, once it has its tag.
LEMMA GcTags ==
    ASSUME IInv, NEW result, GcGoes(result), NEW refused \in BOOLEAN,
           gc' \in GcInfo, gc'.state = "tagSwap", swap' = swap, pages' = pages,
           Issue(OnPage("swap", swap.addr), refused),
           \A a \in Addrs \ {swap.addr} : Tag(a) # "swap",
           \A i \in Idx : /\ Tag(pages[i].addr) # "erased"
                          /\ EndOf(Recs(pages[i].addr)) = pages[i].woff,
           Recs(swap.addr) = <<>>, swap.woff = TagSize
    PROVE  IInv'
  <1>1. /\ Typed /\ Mapped /\ ReadyTags /\ Offsets /\ swap.addr \in Addrs /\ answer = "none"
        /\ fl.kind = "none" /\ flash' = flash /\ pages \in [Idx -> PageInfo]
        /\ swap \in [addr : Addrs \cup {NoAddr}, woff : Nat]
    BY ReadyTakes DEF GcGoes
  <1>2. /\ Current'.code = "gc" /\ Current'.step = "begun" /\ Executes({"gc"})' /\ ~GcDone'
        /\ \A i \in Idx : ~Wrote(i) /\ ~Wrote(i)'
    BY GcHead
  <1>3. \/ fl' = fl /\ answer' = "busy"
        \/ fl'.kind = "swap" /\ fl'.addr = swap.addr /\ answer' = "none"
    BY <1>1 DEF Issue, OnPage
  <1>4. Ends /\ FlTyped'
    BY <1>1, <1>3 DEF Ends, FlTyped, WriteKinds
  <1>5. /\ \A a \in Addrs : Tag(a)' = Tag(a) /\ Recs(a)' = Recs(a)
        /\ Tag(swap.addr)' = Tag(swap.addr) /\ Recs(swap.addr)' = Recs(swap.addr)
        /\ \A i \in Idx : /\ Tag(pages[i].addr)' = Tag(pages[i].addr)
                          /\ Recs(pages[i].addr)' = Recs(pages[i].addr)
                          /\ pages[i].woff \in Nat
    BY <1>1, PageOf DEF Tag, Recs
  <1>6. Mapped'
    BY <1>1 DEF Mapped
  <1>7. ReadyTags'
    <2>1. Tag(swap.addr) # "data"
      BY <1>1 DEF ReadyTags
    <2> QED BY <2>1, <1>2, <1>5 DEF ReadyTags
  <1>8. ReadyFlash'
    BY <1>1, <1>2, <1>3 DEF ReadyFlash, WriteKinds
  <1>9. Closed'
    BY <1>1, <1>3 DEF Closed, Swapped
  <1>10. Offsets'
    BY <1>1, <1>2, <1>5 DEF Offsets
  <1>11. SwapOffsets'
    BY <1>2, <1>5 DEF SwapOffsets
  <1>12. Copying'
    BY DEF Copying
  <1>13. answer' \in {"none", "ok", "busy", "timeout", "notfound", "internal"}
         /\ swap' \in [addr : Addrs \cup {NoAddr}, woff : Nat]
         /\ pages' \in [Idx -> PageInfo]
         /\ \A i \in Idx : pages'[i].woff <= pages[i].woff
    BY <1>1, <1>3, <1>5
  <1> QED BY <1>4, <1>6, <1>7, <1>8, <1>9, <1>10, <1>11, <1>12, <1>13, GcEnds

\* The page has been erased: it and the swap change places, and the old swap
\* is to become a data page.
LEMMA GcSwaps ==
    ASSUME IInv, NEW result, GcGoes(result), NEW refused \in BOOLEAN,
           gc.state = "erasePage", GcDone,
           gc' \in GcInfo, gc'.state = "promote", gc'.cur = gc.cur,
           swap' = [addr |-> pages[gc.cur].addr, woff |-> TagSize],
           pages' = [pages EXCEPT ![gc.cur] = [pages[gc.cur] EXCEPT !.addr = swap.addr,
                                                                   !.woff = swap.woff]],
           Issue(OnPage("data", swap.addr), refused)
    PROVE  IInv'
  <1>1. /\ Typed /\ FlashOK /\ Mapped /\ ReadyTags /\ Offsets /\ SwapOffsets
        /\ swap.addr \in Addrs /\ answer = "none" /\ swap.woff \in Nat
        /\ fl.kind = "none" /\ flash' = flash /\ pages \in [Idx -> PageInfo] /\ gc.cur \in Idx
    BY ReadyTakes DEF GcGoes
  <1>2. /\ Current'.code = "gc" /\ Current'.step = "begun" /\ Executes({"gc"})' /\ ~GcDone'
        /\ \A i \in Idx : ~Wrote(i) /\ ~Wrote(i)'
    BY GcHead
  <1> DEFINE c == gc.cur
             old == pages[c].addr
             q == [pages[c] EXCEPT !.addr = swap.addr, !.woff = swap.woff]
  <1>3. /\ q \in PageInfo /\ q.type = pages[c].type /\ q.addr = swap.addr /\ q.woff = swap.woff
        /\ q.rsv = pages[c].rsv /\ q.open = pages[c].open
    <2>1. pages[c] \in PageInfo /\ swap.addr \in Addrs \cup {NoAddr} /\ swap.woff \in Nat
      BY <1>1
    <2> QED BY <2>1 DEF PageInfo
  <1>4. pages' = [pages EXCEPT ![c] = q]
    OBVIOUS
  <1> HIDE DEF q
  <1>5. /\ pages' \in [Idx -> PageInfo]
        /\ \A i \in Idx : pages'[i] = IF i = c THEN q ELSE pages[i]
        /\ c \in Idx
    BY <1>1, <1>3, <1>4
  <1>6. old \in Addrs /\ old # swap.addr
        /\ \A i \in Idx : pages[i].addr \in Addrs \ {swap.addr} /\ pages[i].woff \in Nat
    BY <1>1, PageOf
  <1>7. /\ swap'.addr = old /\ swap'.woff = TagSize
        /\ swap' \in [addr : Addrs \cup {NoAddr}, woff : Nat]
    BY <1>6, Sizes
  <1>8. /\ Tag(old) = "erased" /\ Recs(old) = <<>>
        /\ \A a \in Addrs \ {swap.addr} : Tag(a) # "swap"
        /\ Tag(swap.addr) = "swap"
        /\ \A i \in Idx : i # c => Tag(pages[i].addr) # "erased"
    <2>1. Tag(old) = "erased" /\ \A a \in Addrs \ {swap.addr} : Tag(a) # "swap"
      BY <1>1 DEF ReadyTags
    <2>2. Tag(swap.addr) \notin {"data", "erased"} /\ Tag(swap.addr) \in Tags
      BY <1>1, PagesTyped DEF ReadyTags
    <2>3. \A i \in Idx : i # c => Tag(pages[i].addr) # "erased"
      BY <1>1 DEF ReadyTags
    <2> QED BY <2>1, <2>2, <2>3, <1>1, <1>6, PagesTyped DEF Tags
  <1>9. EndOf(Recs(swap.addr)) = swap.woff /\ swap.woff <= pages[c].woff /\ swap.woff >= TagSize
    BY <1>1, PagesTyped DEF SwapOffsets
  <1>10. \/ fl' = fl /\ answer' = "busy"
         \/ fl'.kind = "data" /\ fl'.addr = swap.addr /\ answer' = "none"
    BY <1>1 DEF Issue, OnPage
  <1>11. Ends /\ FlTyped'
    BY <1>1, <1>10 DEF Ends, FlTyped, WriteKinds
  <1>12. /\ \A a \in Addrs : Tag(a)' = Tag(a) /\ Recs(a)' = Recs(a)
         /\ Tag(swap.addr)' = Tag(old) /\ Recs(swap.addr)' = Recs(old)
         /\ \A i \in Idx : /\ pages'[i].addr = IF i = c THEN swap.addr ELSE pages[i].addr
                           /\ pages'[i].woff = IF i = c THEN swap.woff ELSE pages[i].woff
                           /\ Tag(pages[i].addr)' = IF i = c THEN Tag(swap.addr)
                                                    ELSE Tag(pages[i].addr)
                           /\ Recs(pages[i].addr)' = IF i = c THEN Recs(swap.addr)
                                                     ELSE Recs(pages[i].addr)
    BY <1>1, <1>3, <1>5, <1>7 DEF Tag, Recs
  <1> HIDE DEF old
  <1>13. Mapped'
    <2>1. \A i, j \in Idx : pages[i].addr = pages[j].addr => i = j
      BY <1>1 DEF Mapped
    <2>2. \A i \in Idx : i # c => pages[i].addr # old
      BY <2>1, <1>5 DEF old
    <2>3. \A i \in Idx : pages'[i].addr \in Addrs \ {old}
      BY <2>2, <1>1, <1>6, <1>12
    <2>4. \A i, j \in Idx : pages'[i].addr = pages'[j].addr => i = j
      BY <2>1, <1>6, <1>12
    <2> QED BY <2>3, <2>4, <1>6, <1>7 DEF Mapped
  <1>14. ReadyTags'
    <2>1. \A a \in Addrs \ {old} : Tag(a)' = "swap" => a = pages'[gc'.cur].addr
      BY <1>5, <1>8, <1>12
    <2>2. \A i \in Idx : Tag(pages[i].addr)' # "erased"
      BY <1>8, <1>12
    <2> QED BY <2>1, <2>2, <1>2, <1>7, <1>8, <1>12 DEF ReadyTags
  <1>15. ReadyFlash'
    <2>1. pages'[gc'.cur].addr = swap.addr
      BY <1>5, <1>12
    <2> QED BY <2>1, <1>1, <1>2, <1>10 DEF ReadyFlash, WriteKinds
  <1>16. Closed'
    BY <1>1, <1>10 DEF Closed, Swapped
  <1>17. Offsets'
    <2>1. \A i \in Idx : i # c => EndOf(Recs(pages[i].addr)) = pages[i].woff
                                  /\ pages[i].woff >= TagSize
      BY <1>1, <1>2 DEF Offsets, Swapped
    <2> QED BY <2>1, <1>2, <1>9, <1>12 DEF Offsets
  <1>18. SwapOffsets'
    BY <1>2, <1>7, <1>8, <1>12 DEF SwapOffsets
  <1>19. Copying'
    BY DEF Copying
  <1>20. /\ answer' \in {"none", "ok", "busy", "timeout", "notfound", "internal"}
         /\ \A i \in Idx : /\ pages'[i].type = pages[i].type /\ pages'[i].rsv = pages[i].rsv
                           /\ pages'[i].woff <= pages[i].woff
    BY <1>1, <1>3, <1>5, <1>6, <1>9, <1>10, <1>12
  <1> QED BY <1>5, <1>7, <1>11, <1>13, <1>14, <1>15, <1>16, <1>17, <1>18, <1>19, <1>20, GcEnds

\* What gc_state_advance makes of the collection.
LEMMA GcAdvances ==
    ASSUME Typed, NEW s, s = GcAdvanced
    PROVE  /\ gc.resume => /\ s.gc = [gc EXCEPT !.resume = FALSE]
                           /\ s.swap = swap /\ s.pages = pages
           /\ ~gc.resume => s.gc.state \in GcStates \cup {"nextPage", "findNext"}
           /\ ~gc.resume /\ gc.state = "begin" =>
                /\ s.gc = [gc EXCEPT !.resume = FALSE, !.run = gc.run + 1, !.cur = 0,
                                     !.state = "nextPage",
                                     !.doGc = {i \in Idx : pages[i].type = "data"}]
                /\ s.swap = swap /\ s.pages = pages
           /\ ~gc.resume /\ gc.state = "copy" =>
                /\ s.gc = [gc EXCEPT !.resume = FALSE, !.state = "findNext"]
                /\ s.swap = [swap EXCEPT !.woff = swap.woff +
                                            flash[pages[gc.cur].addr].recs[gc.src].len]
                /\ s.pages = pages
           /\ ~gc.resume /\ gc.state = "erasePage" =>
                /\ s.gc = [gc EXCEPT !.resume = FALSE, !.state = "promote"]
                /\ s.swap = [addr |-> pages[gc.cur].addr, woff |-> TagSize]
                /\ s.pages = [pages EXCEPT ![gc.cur] =
                                [pages[gc.cur] EXCEPT !.addr = swap.addr, !.woff = swap.woff]]
           /\ ~gc.resume /\ gc.state \in {"discardSwap", "promote"} =>
                /\ s.gc = [gc EXCEPT !.resume = FALSE, !.state = "tagSwap"]
                /\ s.swap = swap /\ s.pages = pages
           /\ ~gc.resume /\ gc.state = "tagSwap" =>
                /\ s.gc = [gc EXCEPT !.resume = FALSE, !.state = "nextPage"]
                /\ s.swap = swap /\ s.pages = pages
  <1>1. /\ gc \in GcInfo /\ gc.resume \in BOOLEAN /\ gc.state \in GcStates /\ gc.cur \in Idx
        /\ pages \in [Idx -> PageInfo] /\ pages[gc.cur] \in PageInfo
        /\ swap \in [addr : Addrs \cup {NoAddr}, woff : Nat]
    BY DEF Typed, GcInfo
  <1>2. CASE gc.resume
    BY <1>2, <1>1 DEF GcAdvanced
  <1>3. CASE ~gc.resume /\ gc.state = "begin"
    BY Zenon, <1>3, <1>1 DEF GcAdvanced, GcInfo
  <1>4. CASE ~gc.resume /\ gc.state = "copy"
    BY Zenon, <1>4, <1>1 DEF GcAdvanced, GcInfo
  <1>5. CASE ~gc.resume /\ gc.state = "erasePage"
    <2> DEFINE g0 == [gc EXCEPT !.resume = FALSE]
               new == [addr |-> pages[gc.cur].addr, woff |-> TagSize]
    <2>1. s = [[gc |-> g0, swap |-> swap, pages |-> pages]
                 EXCEPT !.gc.state = "promote", !.swap = new,
                        !.pages[gc.cur].addr = swap.addr, !.pages[gc.cur].woff = swap.woff]
      BY <1>5 DEF GcAdvanced
    <2>2. s.gc = [gc EXCEPT !.resume = FALSE, !.state = "promote"] /\ s.swap = new
      BY <2>1, <1>1 DEF GcInfo
    <2>3. s.pages = [pages EXCEPT ![gc.cur].addr = swap.addr, ![gc.cur].woff = swap.woff]
      BY <2>1
    <2>4. s.pages = [pages EXCEPT ![gc.cur] =
                       [pages[gc.cur] EXCEPT !.addr = swap.addr, !.woff = swap.woff]]
      <3> DEFINE c == gc.cur
                 p == pages[c]
                 q == [p EXCEPT !.addr = swap.addr]
                 r == [pages EXCEPT ![c] = q]
      <3>1. s.pages = [r EXCEPT ![c] = [r[c] EXCEPT !.woff = swap.woff]]
        BY <2>3, <1>1
      <3>2. r[c] = q
        BY <1>1
      <3>3. s.pages = [pages EXCEPT ![c] = [q EXCEPT !.woff = swap.woff]]
        <4> HIDE DEF q
        <4> QED BY <3>1, <3>2, <1>1
      <3>4. [q EXCEPT !.woff = swap.woff] = [p EXCEPT !.addr = swap.addr, !.woff = swap.woff]
        OBVIOUS
      <3> QED BY <3>3, <3>4
    <2>5. s.gc.state = "promote"
      BY <2>2, <1>1 DEF GcInfo
    <2> HIDE DEF new
    <2> QED BY <2>2, <2>4, <2>5, <1>5 DEF GcStates, new
  <1>6. CASE ~gc.resume /\ gc.state \in {"discardSwap", "promote"}
    <2> DEFINE g0 == [gc EXCEPT !.resume = FALSE]
    <2>1. s = [[gc |-> g0, swap |-> swap, pages |-> pages] EXCEPT !.gc.state = "tagSwap"]
      BY <1>6 DEF GcAdvanced
    <2>2. s.gc = [gc EXCEPT !.resume = FALSE, !.state = "tagSwap"]
          /\ s.swap = swap /\ s.pages = pages
      BY <2>1, <1>1 DEF GcInfo
    <2>3. s.gc.state = "tagSwap"
      BY <2>2, <1>1 DEF GcInfo
    <2> QED BY <2>2, <2>3, <1>6 DEF GcStates
  <1>7. CASE ~gc.resume /\ gc.state = "tagSwap"
    BY <1>7, <1>1 DEF GcAdvanced, GcInfo
  <1>8. gc.state \in {"begin", "copy", "erasePage", "discardSwap", "promote", "tagSwap"}
    BY <1>1 DEF GcStates
  <1> QED BY <1>2, <1>3, <1>4, <1>5, <1>6, <1>7, <1>8

\* What the pages are like when the next step of a collection is taken.
LEMMA GcTakes ==
    ASSUME IInv, NEW result, GcGoes(result), result = "ok"
    PROVE  /\ gc.state # "promote" => \A a \in Addrs \ {swap.addr} : Tag(a) # "swap"
           /\ gc.state \in {"begin", "copy", "erasePage"} => Tag(swap.addr) = "swap"
           /\ gc.state # "erasePage" => \A i \in Idx : Tag(pages[i].addr) # "erased"
           /\ \A i \in Idx : /\ Tag(pages[i].addr) = "erased" => i = gc.cur /\ pages[i].open = 0
                             /\ Tag(pages[i].addr) # "erased" =>
                                   EndOf(Recs(pages[i].addr)) = pages[i].woff
           /\ ~gc.resume /\ gc.state # "begin" /\ ~GcSkips => GcDone
  <1>1. /\ Typed /\ FlashOK /\ Mapped /\ ReadyTags /\ ReadyControl /\ Offsets /\ Closed
        /\ swap.addr \in Addrs /\ opq # <<>> /\ Current.code = "gc"
        /\ ~processing => Fresh(Current)
        /\ processing => ev = result
    BY ReadyTakes DEF GcGoes
  <1>2. \A i \in Idx : ~Wrote(i)
    BY GcHead
  <1>3. Tag(swap.addr) \in Tags
    BY <1>1, PagesTyped
  <1>4. /\ gc.state # "promote" => \A a \in Addrs \ {swap.addr} : Tag(a) # "swap"
        /\ gc.state \in {"begin", "copy", "erasePage"} => Tag(swap.addr) = "swap"
        /\ gc.state # "erasePage" => \A i \in Idx : Tag(pages[i].addr) # "erased"
    BY <1>1, <1>3 DEF ReadyTags, Tags
  <1>5. \A i \in Idx : /\ Tag(pages[i].addr) = "erased" => i = gc.cur /\ pages[i].open = 0
                       /\ Tag(pages[i].addr) # "erased" =>
                             EndOf(Recs(pages[i].addr)) = pages[i].woff
    <2>1. SUFFICES ASSUME NEW i \in Idx
                   PROVE /\ Tag(pages[i].addr) = "erased" => i = gc.cur /\ pages[i].open = 0
                         /\ Tag(pages[i].addr) # "erased" =>
                               EndOf(Recs(pages[i].addr)) = pages[i].woff
      OBVIOUS
    <2>2. Tag(pages[i].addr) = "erased" <=> Swapped(i)
      BY <1>1 DEF ReadyTags, Swapped
    <2> QED BY <2>2, <1>1, <1>2 DEF Closed, Offsets, Swapped
  <1>6. ASSUME ~gc.resume, gc.state # "begin", ~GcSkips PROVE GcDone
    <2>1. Executes({"gc"})
      BY <1>1 DEF Executes
    <2>2. Current.step = "begun"
      BY <2>1, <1>1, <1>6 DEF GcSkips, ReadyControl
    <2>3. processing /\ ev # "timeout"
      BY <2>2, <1>1 DEF Fresh
    <2> QED BY <2>1, <2>2, <2>3, <1>1 DEF GcDone
  <1> QED BY <1>4, <1>5, <1>6

\* The operation of a collection failed: its step is to be done again.
LEMMA GcFails ==
    ASSUME IInv, NEW result, GcGoes(result), result = "timeout", Finish("timeout"),
           UNCHANGED <<pages, swap, gc>>
    PROVE  IInv'
  <1> DEFINE op == [Current EXCEPT !.step = "begun"]
  <1>1. /\ Typed /\ fl.kind = "none" /\ answer = "none" /\ pages \in [Idx -> PageInfo]
        /\ gc \in GcInfo
    BY ReadyTakes DEF GcGoes
  <1>2. /\ op \in OpInfo /\ SetHead(op) /\ op.code = Current.code /\ op.page = Current.page
        /\ op.len = Current.len /\ op.step \in {"none", "begun"}
        /\ \A i \in Idx : Wrote(i)' = Wrote(i)
    <2>1. \A i \in Idx : Wrote(i) \in BOOLEAN /\ Wrote(i)' \in BOOLEAN
      BY DEF Wrote
    <2> QED BY <2>1, GcHead DEF GcGoes
  <1> HIDE DEF op
  <1>3. Ends /\ FlTyped' /\ answer' = "timeout" /\ fl' = fl
    BY <1>1 DEF Ends, FlTyped, WriteKinds, Finish
  <1>4. ReadyFlash'
    BY <1>1, <1>3 DEF ReadyFlash, WriteKinds
  <1> QED BY <1>1, <1>2, <1>3, <1>4, HeadStep DEF GcGoes

\* The step is done again.
LEMMA GcAgain ==
    ASSUME IInv, NEW result, GcGoes(result), result = "ok", NEW refused \in BOOLEAN, gc.resume,
           NEW s, s.gc = [gc EXCEPT !.resume = FALSE], s.swap = swap, s.pages = pages,
           pages' = pages,
           s.gc.state \notin {"begin", "discardSwap", "nextPage", "findNext"},
           s.gc.state = "copy" => GcCopy(s.gc, s, refused),
           s.gc.state = "erasePage" => GcErase(s.gc, s, refused),
           s.gc.state = "promote" =>
             /\ gc' = s.gc /\ swap' = s.swap
             /\ Issue(OnPage("data", s.pages[s.gc.cur].addr), refused),
           s.gc.state = "tagSwap" =>
             /\ gc' = [s.gc EXCEPT !.src = 0] /\ swap' = s.swap
             /\ Issue(OnPage("swap", s.swap.addr), refused)
    PROVE  IInv'
  <1>1. /\ Typed /\ FlashOK /\ Mapped /\ ReadyFlash /\ SwapOffsets /\ Copying
        /\ gc \in GcInfo /\ gc.cur \in Idx /\ swap.addr \in Addrs
        /\ pages \in [Idx -> PageInfo] /\ swap \in [addr : Addrs \cup {NoAddr}, woff : Nat]
        /\ fl.kind = "none" /\ answer = "none"
    BY ReadyTakes DEF GcGoes
  <1> DEFINE g == s.gc
  <1>2. /\ g \in GcInfo /\ g \in GcNow /\ g.state = gc.state /\ g.cur = gc.cur /\ g.src = gc.src
    <2>1. g = [gc EXCEPT !.resume = FALSE]
      OBVIOUS
    <2> HIDE DEF g
    <2> QED BY <2>1, <1>1 DEF GcInfo, GcNow, GcStates
  <1>3. gc.state \in {"copy", "erasePage", "promote", "tagSwap"}
    BY <1>1, <1>2 DEF GcInfo, GcStates
  <1>4. /\ gc.state # "promote" => \A a \in Addrs \ {swap.addr} : Tag(a) # "swap"
        /\ gc.state \in {"begin", "copy", "erasePage"} => Tag(swap.addr) = "swap"
        /\ gc.state # "erasePage" => \A i \in Idx : Tag(pages[i].addr) # "erased"
        /\ \A i \in Idx : /\ Tag(pages[i].addr) = "erased" => i = gc.cur /\ pages[i].open = 0
                          /\ Tag(pages[i].addr) # "erased" =>
                                EndOf(Recs(pages[i].addr)) = pages[i].woff
    BY GcTakes
  <1>5. CASE gc.state = "copy"
    <2> DEFINE p == Recs(pages[g.cur].addr)
    <2>1. /\ g.src \in DOMAIN p /\ p[g.src].st = "valid"
          /\ p[g.src].off + p[g.src].len <= pages[g.cur].woff
          /\ TagSize <= s.swap.woff /\ s.swap.woff <= p[g.src].off
          /\ \/ EndOf(Recs(swap.addr)) = s.swap.woff
             \/ /\ Recs(swap.addr) # <<>>
                /\ Last(Recs(swap.addr)) = [p[g.src] EXCEPT !.off = s.swap.woff]
      BY <1>1, <1>2, <1>5 DEF Copying
    <2>2. GcCopy(g, s, refused)
      BY <1>2, <1>5
    <2>3. /\ \A a \in Addrs \ {swap.addr} : Tag(a) # "swap"
          /\ Tag(swap.addr) = "swap"
          /\ \A i \in Idx : /\ Tag(pages[i].addr) # "erased"
                            /\ EndOf(Recs(pages[i].addr)) = pages[i].woff
      BY <1>4, <1>5
    <2>4. s.swap \in [addr : Addrs \cup {NoAddr}, woff : Nat] /\ s.swap.addr = swap.addr
      BY <1>1
    <2> HIDE DEF g
    <2>5. p = Recs(pages[g.cur].addr)
      OBVIOUS
    <2> HIDE DEF p
    <2> QED BY <2>1, <2>2, <2>3, <2>4, <2>5, <1>2, GcCopies
  <1>6. CASE gc.state = "erasePage"
    <2>1. GcErase(g, s, refused)
      BY <1>2, <1>6
    <2>2. /\ \A a \in Addrs \ {swap.addr} : Tag(a) # "swap"
          /\ Tag(swap.addr) = "swap"
          /\ \A i \in Idx : /\ Tag(pages[i].addr) = "erased" => i = g.cur /\ pages[i].open = 0
                            /\ Tag(pages[i].addr) # "erased" =>
                                  EndOf(Recs(pages[i].addr)) = pages[i].woff
      BY <1>2, <1>4, <1>6
    <2>3. EndOf(Recs(swap.addr)) = s.swap.woff /\ s.swap.woff <= pages[g.cur].woff
      BY <1>1, <1>2, <1>6 DEF SwapOffsets
    <2>4. s.swap \in [addr : Addrs \cup {NoAddr}, woff : Nat] /\ s.swap.addr = swap.addr
      BY <1>1
    <2> HIDE DEF g
    <2> QED BY <2>1, <2>2, <2>3, <2>4, <1>2, GcErases
  <1>7. CASE gc.state = "promote"
    <2> DEFINE op == [Current EXCEPT !.step = "begun"]
    <2>1. /\ op \in OpInfo /\ SetHead(op) /\ op.code = Current.code /\ op.page = Current.page
          /\ op.len = Current.len /\ op.step \in {"none", "begun"}
          /\ Executes({"gc"})' /\ Current'.step = "begun"
          /\ \A i \in Idx : Wrote(i)' = Wrote(i)
      <3>1. \A i \in Idx : Wrote(i) \in BOOLEAN /\ Wrote(i)' \in BOOLEAN
        BY DEF Wrote
      <3> QED BY <3>1, GcHead DEF GcGoes
    <2> HIDE DEF op
    <2>2. /\ gc' = g /\ swap' = swap
          /\ Issue(OnPage("data", pages[gc.cur].addr), refused)
      BY <1>2, <1>7
    <2>3. \/ fl' = fl /\ answer' = "busy"
          \/ fl'.kind = "data" /\ fl'.addr = pages[gc.cur].addr /\ answer' = "none"
      BY <2>2, <1>1 DEF Issue, OnPage
    <2>4. Ends /\ FlTyped'
      BY <2>3, <1>1, PageOf DEF Ends, FlTyped, WriteKinds
    <2> HIDE DEF g
    <2>5. ReadyFlash'
      BY <2>1, <2>2, <2>3, <1>1, <1>2, <1>7 DEF ReadyFlash, WriteKinds
    <2>6. /\ gc' \in GcInfo /\ gc'.state = gc.state /\ gc'.cur = gc.cur
          /\ (gc.state = "copy" => gc'.src = gc.src)
          /\ \A i \in Idx : fl'.kind = "erase" /\ fl'.addr = pages[i].addr => pages[i].open = 0
          /\ answer' \in {"none", "ok", "busy", "timeout", "notfound", "internal"}
          /\ pages' \in [Idx -> PageInfo]
      BY <2>2, <2>3, <1>1, <1>2
    <2> QED BY <2>1, <2>2, <2>4, <2>5, <2>6, HeadStep DEF GcGoes
  <1>8. CASE gc.state = "tagSwap"
    <2>1. /\ gc' = [g EXCEPT !.src = 0] /\ swap' = swap
          /\ Issue(OnPage("swap", swap.addr), refused)
      BY <1>2, <1>8
    <2> HIDE DEF g
    <2>2. gc' \in GcInfo /\ gc'.state = "tagSwap"
      BY <2>1, <1>2, <1>8 DEF GcInfo
    <2>3. Recs(swap.addr) = <<>> /\ swap.woff = TagSize
      BY Zenon, <1>1, <1>8 DEF SwapOffsets
    <2> QED BY <2>1, <2>2, <2>3, <1>4, <1>8, GcTags
  <1> QED BY <1>3, <1>5, <1>6, <1>7, <1>8

\* The record has been copied: the next one is looked for.
LEMMA GcCopied ==
    ASSUME IInv, NEW result, GcGoes(result), result = "ok", NEW refused \in BOOLEAN,
           gc.state = "copy", GcDone,
           NEW s, s.gc = [gc EXCEPT !.resume = FALSE, !.state = "findNext"],
           s.swap = [swap EXCEPT !.woff = swap.woff +
                                            flash[pages[gc.cur].addr].recs[gc.src].len],
           s.pages = pages, pages' = pages, GcFindNext(s.gc, s, refused)
    PROVE  IInv'
  <1>1. /\ Typed /\ FlashOK /\ Mapped /\ ReadyFlash /\ Copying
        /\ gc \in GcInfo /\ gc.cur \in Idx /\ swap.addr \in Addrs
        /\ pages \in [Idx -> PageInfo] /\ swap \in [addr : Addrs \cup {NoAddr}, woff : Nat]
        /\ swap.woff \in Nat
    BY ReadyTakes DEF GcGoes
  <1> DEFINE g == s.gc
  <1>2. g \in GcNow /\ g.cur = gc.cur /\ g.src = gc.src
    <2>1. g = [gc EXCEPT !.resume = FALSE, !.state = "findNext"]
      OBVIOUS
    <2> HIDE DEF g
    <2> QED BY <2>1, <1>1 DEF GcInfo, GcNow, GcStates
  <1> DEFINE p == Recs(pages[gc.cur].addr)
             t == Recs(swap.addr)
  <1>3. /\ gc.src \in DOMAIN p /\ p[gc.src].off + p[gc.src].len <= pages[gc.cur].woff
        /\ swap.woff <= p[gc.src].off
        /\ t # <<>> /\ Last(t) = [p[gc.src] EXCEPT !.off = swap.woff]
    BY <1>1 DEF Copying
  <1>4. /\ p \in Seq(Slots) /\ Chain(p) /\ pages[gc.cur].woff \in Nat
    BY <1>1, PageOf, PagesTyped
  <1>5. s.swap = [swap EXCEPT !.woff = swap.woff + p[gc.src].len]
    BY DEF Recs
  <1> HIDE DEF p, t
  <1> DEFINE r == p[gc.src]
  <1>6. r \in Slots
    BY <1>3, <1>4
  <1>7. r.off \in Nat /\ r.len \in Nat /\ Last(t).off = swap.woff /\ Last(t).len = r.len
    BY ZenonT(20), <1>3, <1>6 DEF Slots
  <1>8. /\ s.swap \in [addr : Addrs \cup {NoAddr}, woff : Nat] /\ s.swap.addr = swap.addr
        /\ s.swap.woff = swap.woff + r.len
    <2>1. swap.woff + r.len \in Nat
      <3> HIDE DEF r
      <3> QED BY <1>1, <1>7
    <2> QED BY <2>1, <1>1, <1>5
  <1>9. EndOf(t) = s.swap.woff
    BY <1>3, <1>7, <1>8 DEF EndOf
  <1>10. s.swap.woff <= pages[g.cur].woff
    <2> DEFINE w == swap.woff
               o == r.off
               n == r.len
               e == pages[gc.cur].woff
    <2>1. w \in Nat /\ o \in Nat /\ n \in Nat /\ e \in Nat /\ o + n <= e /\ w <= o
      BY Zenon, <1>1, <1>3, <1>4, <1>7
    <2>2. s.swap.woff = w + n /\ pages[g.cur].woff = e
      BY <1>2, <1>8
    <2> HIDE DEF w, o, n, e, r, g, p
    <2>3. w + n <= e
      BY <2>1
    <2> QED BY <2>2, <2>3
  <1>11. \A k \in DOMAIN p : k > g.src => s.swap.woff <= p[k].off
    <2>1. SUFFICES ASSUME NEW k \in DOMAIN p, k > g.src PROVE s.swap.woff <= p[k].off
      BY Zenon
    <2> DEFINE w == swap.woff
               o == r.off
               n == r.len
               e == p[k].off
    <2>2. o + n <= e /\ e \in Nat
      BY <2>1, <1>2, <1>3, <1>4, ChainOrder
    <2>3. w \in Nat /\ o \in Nat /\ n \in Nat /\ w <= o
      BY ZenonT(20), <1>1, <1>3, <1>7
    <2>4. s.swap.woff = w + n
      BY <1>8
    <2> HIDE DEF w, o, n, e, r, g, p
    <2>5. w + n <= e
      BY <2>2, <2>3
    <2> QED BY Zenon, <2>4, <2>5 DEF e
  <1>12. /\ \A a \in Addrs \ {swap.addr} : Tag(a) # "swap"
         /\ Tag(swap.addr) = "swap"
         /\ \A i \in Idx : /\ Tag(pages[i].addr) # "erased"
                           /\ EndOf(Recs(pages[i].addr)) = pages[i].woff
    BY Zenon, GcTakes
  <1>13. EndOf(Recs(swap.addr)) = s.swap.woff
         /\ \A k \in DOMAIN Recs(pages[g.cur].addr) :
              k > g.src => s.swap.woff <= Recs(pages[g.cur].addr)[k].off
    BY Zenon, <1>2, <1>9, <1>11 DEF p, t
  <1>14. GcFindNext(g, s, refused)
    OBVIOUS
  <1> HIDE DEF g
  <1> QED BY Zenon, <1>2, <1>8, <1>10, <1>12, <1>13, <1>14, GcFinds

\* The step is done, and the collection goes on.
LEMMA GcGoesOn ==
    ASSUME IInv, NEW result, GcGoes(result), result = "ok", NEW refused \in BOOLEAN,
           ~gc.resume, ~GcSkips, NEW s, s = GcAdvanced, pages' = s.pages,
           s.gc.state = "nextPage" => GcNextPage(s.gc, s, refused),
           s.gc.state = "findNext" => GcFindNext(s.gc, s, refused),
           s.gc.state = "promote" =>
             /\ gc' = s.gc /\ swap' = s.swap
             /\ Issue(OnPage("data", s.pages[s.gc.cur].addr), refused),
           s.gc.state = "tagSwap" =>
             /\ gc' = [s.gc EXCEPT !.src = 0] /\ swap' = s.swap
             /\ Issue(OnPage("swap", s.swap.addr), refused)
    PROVE  IInv'
  <1>1. /\ Typed /\ FlashOK /\ Mapped /\ ReadyTags /\ SwapOffsets
        /\ gc \in GcInfo /\ gc.cur \in Idx /\ swap.addr \in Addrs
        /\ pages \in [Idx -> PageInfo] /\ swap \in [addr : Addrs \cup {NoAddr}, woff : Nat]
    BY ReadyTakes DEF GcGoes
  <1>2. gc.state \in {"begin", "copy", "erasePage", "discardSwap", "promote", "tagSwap"}
    BY <1>1 DEF GcInfo, GcStates
  <1>3. /\ gc.state # "promote" => \A a \in Addrs \ {swap.addr} : Tag(a) # "swap"
        /\ gc.state \in {"begin", "copy", "erasePage"} => Tag(swap.addr) = "swap"
        /\ gc.state # "erasePage" =>
             \A i \in Idx : /\ Tag(pages[i].addr) # "erased"
                            /\ EndOf(Recs(pages[i].addr)) = pages[i].woff
        /\ gc.state # "begin" => GcDone
    BY GcTakes
  <1> DEFINE g == s.gc
  <1>4. CASE gc.state = "begin"
    <2>1. /\ g = [gc EXCEPT !.resume = FALSE, !.run = gc.run + 1, !.cur = 0,
                            !.state = "nextPage",
                            !.doGc = {i \in Idx : pages[i].type = "data"}]
          /\ s.swap = swap /\ s.pages = pages
      BY <1>1, <1>4, GcAdvances
    <2> HIDE DEF g
    <2> DEFINE all == {i \in Idx : pages[i].type = "data"}
               run == gc.run + 1
    <2>2. g \in GcNow /\ g.state = "nextPage"
      <3>1. g = [gc EXCEPT !.resume = FALSE, !.run = run, !.cur = 0, !.state = "nextPage",
                           !.doGc = all]
        BY <2>1
      <3>2. all \in SUBSET Idx /\ run \in Nat /\ 0 \in Idx
        BY <1>1, Sizes DEF GcInfo
      <3> HIDE DEF all, run
      <3> QED BY <3>1, <3>2, <1>1 DEF GcInfo, GcNow
    <2>3. GcNextPage(g, s, refused)
      BY <2>2 DEF g
    <2>4. Recs(swap.addr) = <<>> /\ swap.woff = TagSize
      BY Zenon, <1>1, <1>4 DEF SwapOffsets
    <2> QED BY <2>1, <2>2, <2>3, <2>4, <1>1, <1>3, <1>4, GcNexts
  <1>5. CASE gc.state = "copy"
    <2>1. /\ g = [gc EXCEPT !.resume = FALSE, !.state = "findNext"]
          /\ s.swap = [swap EXCEPT !.woff = swap.woff +
                                            flash[pages[gc.cur].addr].recs[gc.src].len]
          /\ s.pages = pages
      BY <1>1, <1>5, GcAdvances
    <2>2. GcFindNext(s.gc, s, refused)
      <3> HIDE DEF g
      <3>1. g.state = "findNext"
        BY <2>1, <1>1 DEF GcInfo
      <3> QED BY <3>1 DEF g
    <2> QED BY Zenon, <2>1, <2>2, <1>3, <1>5, GcCopied
  <1>6. CASE gc.state = "erasePage"
    <2>1. /\ g = [gc EXCEPT !.resume = FALSE, !.state = "promote"]
          /\ s.swap = [addr |-> pages[gc.cur].addr, woff |-> TagSize]
          /\ s.pages = [pages EXCEPT ![gc.cur] =
                          [pages[gc.cur] EXCEPT !.addr = swap.addr, !.woff = swap.woff]]
      BY <1>1, <1>6, GcAdvances
    <2>2. g \in GcInfo /\ g.state = "promote" /\ g.cur = gc.cur
      <3> HIDE DEF g
      <3> QED BY <2>1, <1>1 DEF GcInfo, GcStates
    <2>3. s.pages[gc.cur].addr = swap.addr
      <3> DEFINE q == [pages[gc.cur] EXCEPT !.addr = swap.addr, !.woff = swap.woff]
      <3>1. q.addr = swap.addr
        BY <1>1 DEF PageInfo
      <3> HIDE DEF q
      <3> QED BY <3>1, <2>1, <1>1 DEF q
    <2>4. /\ gc' = g /\ swap' = s.swap /\ Issue(OnPage("data", swap.addr), refused)
      BY <2>2, <2>3
    <2> HIDE DEF g
    <2> QED BY <2>1, <2>2, <2>4, <1>3, <1>6, GcSwaps
  <1>7. CASE gc.state \in {"discardSwap", "promote"}
    <2>1. /\ g = [gc EXCEPT !.resume = FALSE, !.state = "tagSwap"]
          /\ s.swap = swap /\ s.pages = pages
      BY <1>1, <1>7, GcAdvances
    <2>2. g \in GcInfo /\ g.state = "tagSwap"
      <3> HIDE DEF g
      <3> QED BY <2>1, <1>1 DEF GcInfo, GcStates
    <2>3. /\ gc' = [g EXCEPT !.src = 0] /\ swap' = swap
          /\ Issue(OnPage("swap", swap.addr), refused)
      BY <2>1, <2>2
    <2> HIDE DEF g
    <2>4. gc' \in GcInfo /\ gc'.state = "tagSwap"
      BY <2>2, <2>3 DEF GcInfo
    <2>5. Recs(swap.addr) = <<>> /\ swap.woff = TagSize
      BY <1>1, <1>3, <1>7 DEF SwapOffsets
    <2>6. \A a \in Addrs \ {swap.addr} : Tag(a) # "swap"
      BY <1>1, <1>3, <1>7 DEF ReadyTags
    <2>7. pages' = pages
      BY <2>1
    <2> QED BY <2>3, <2>4, <2>5, <2>6, <2>7, <1>3, <1>7, GcTags
  <1>8. CASE gc.state = "tagSwap"
    <2>1. /\ g = [gc EXCEPT !.resume = FALSE, !.state = "nextPage"]
          /\ s.swap = swap /\ s.pages = pages
      BY <1>1, <1>8, GcAdvances
    <2> HIDE DEF g
    <2>2. g \in GcNow /\ g.state = "nextPage"
      BY <2>1, <1>1 DEF GcInfo, GcNow, GcStates
    <2>3. GcNextPage(g, s, refused)
      BY <2>2 DEF g
    <2>4. Recs(swap.addr) = <<>> /\ swap.woff = TagSize
      BY <1>1, <1>8 DEF SwapOffsets
    <2>5. Tag(swap.addr) = "swap"
      BY <1>1, <1>3, <1>8 DEF ReadyTags
    <2> QED BY <2>1, <2>2, <2>3, <2>4, <2>5, <1>1, <1>3, <1>8, GcNexts
  <1> QED BY <1>2, <1>4, <1>5, <1>6, <1>7, <1>8

LEMMA GcStepStep ==
    ASSUME IInv, NEW result, Takes(result), phase = "ready", NEW refused \in BOOLEAN,
           GcStep(result, refused), upset' = {}
    PROVE  IInv'
  <1>1. GcGoes(result) /\ Typed /\ gc.resume \in BOOLEAN
    BY ReadyTakes DEF GcStep, GcGoes, GcInfo
  <1>2. CASE result = "timeout"
    <2>1. Finish("timeout") /\ UNCHANGED <<pages, swap, gc>>
      BY <1>2 DEF GcStep
    <2> QED BY <2>1, <1>1, <1>2, GcFails
  <1>3. CASE result = "ok"
    <2>1. PICK s \in {GcAdvanced} :
             /\ pages' = s.pages
             /\ upset' =
                  upset \cup (IF GcSkips THEN {"gcSkipped"} ELSE {})
                        \cup (IF s.gc.state = "discardSwap" THEN {"gcStuck"} ELSE {})
             /\ \/ s.gc.state = "nextPage" /\ GcNextPage(s.gc, s, refused)
                \/ s.gc.state = "findNext" /\ GcFindNext(s.gc, s, refused)
                \/ s.gc.state = "copy" /\ GcCopy(s.gc, s, refused)
                \/ s.gc.state = "erasePage" /\ GcErase(s.gc, s, refused)
                \/ /\ s.gc.state = "promote"
                   /\ gc' = s.gc /\ swap' = s.swap
                   /\ Issue(OnPage("data", s.pages[s.gc.cur].addr), refused)
                \/ /\ s.gc.state = "tagSwap"
                   /\ gc' = [s.gc EXCEPT !.src = 0] /\ swap' = s.swap
                   /\ Issue(OnPage("swap", s.swap.addr), refused)
                \/ /\ s.gc.state = "discardSwap"
                   /\ gc' = s.gc /\ swap' = s.swap
                   /\ Finish("internal")
      BY <1>3 DEF GcStep
    <2>2. s = GcAdvanced /\ ~GcSkips /\ s.gc.state # "discardSwap"
      BY <2>1
    <2>3. /\ s.gc.state # "begin"
          /\ s.gc.state = "nextPage" => GcNextPage(s.gc, s, refused)
          /\ s.gc.state = "findNext" => GcFindNext(s.gc, s, refused)
          /\ s.gc.state = "copy" => GcCopy(s.gc, s, refused)
          /\ s.gc.state = "erasePage" => GcErase(s.gc, s, refused)
          /\ s.gc.state = "promote" =>
               /\ gc' = s.gc /\ swap' = s.swap
               /\ Issue(OnPage("data", s.pages[s.gc.cur].addr), refused)
          /\ s.gc.state = "tagSwap" =>
               /\ gc' = [s.gc EXCEPT !.src = 0] /\ swap' = s.swap
               /\ Issue(OnPage("swap", s.swap.addr), refused)
      BY <2>1, <2>2
    <2>4. CASE gc.resume
      <3>1. s.gc = [gc EXCEPT !.resume = FALSE] /\ s.swap = swap /\ s.pages = pages
        BY <2>2, <2>4, <1>1, GcAdvances
      <3>2. s.gc.state \notin {"nextPage", "findNext"}
        BY <3>1, <1>1 DEF Typed, GcInfo, GcStates
      <3> QED BY <3>1, <3>2, <2>1, <2>2, <2>3, <2>4, <1>1, <1>3, GcAgain
    <2>5. CASE ~gc.resume
      BY <2>1, <2>2, <2>3, <2>5, <1>1, <1>3, GcGoesOn
    <2> QED BY <2>4, <2>5, <1>1
  <1> QED BY <1>2, <1>3 DEF Takes

-----------------------------------------------------------------------------
(* queue_process and its callers.                                          *)

LEMMA StepStep ==
    ASSUME IInv, NEW result, Takes(result), NEW refused \in BOOLEAN,
           NEW inMain \in BOOLEAN, Step(result, refused, inMain), upset' = {}
    PROVE  IInv'
  <1>1. /\ \/ phase = "initializing" /\ Current.code = "init"
           \/ phase = "ready" /\ Current.code # "init"
    BY TakesPhase
  <1>2. CASE InitStep(result, refused, inMain)
    <2>1. phase = "initializing"
      BY <1>1, <1>2 DEF InitStep
    <2> QED BY <2>1, <1>2, InitStepStep
  <1>3. CASE WriteStep(result, refused)
    <2>1. phase = "ready"
      BY <1>1, <1>3 DEF WriteStep
    <2> QED BY <2>1, <1>3, WriteStepStep
  <1>4. CASE DeleteStep(result, refused)
    <2>1. phase = "ready"
      BY <1>1, <1>4 DEF DeleteStep
    <2> QED BY <2>1, <1>4, DeleteStepStep
  <1>5. CASE GcStep(result, refused)
    <2>1. phase = "ready"
      BY <1>1, <1>5 DEF GcStep
    <2> QED BY <2>1, <1>5, GcStepStep
  <1> QED BY <1>2, <1>3, <1>4, <1>5 DEF Step

LEMMA QueueStartStep ==
    ASSUME IInv, QueueStart, upset' = {}
    PROVE  IInv'
  <1>1. Takes("ok")
    BY DEF QueueStart, Takes, IInv, Turns, clients
  <1>2. PICK refused \in Refusals : Step("ok", refused, InitPreempted)
    BY DEF QueueStart
  <1>3. refused \in BOOLEAN /\ InitPreempted \in BOOLEAN
    BY FdsAssumption DEF Refusals
  <1> QED BY <1>1, <1>2, <1>3, StepStep

LEMMA EventHandlerStep ==
    ASSUME IInv, EventHandler, upset' = {}
    PROVE  IInv'
  <1>1. Takes(ev)
    BY DEF EventHandler, Takes, IInv, Turns, Typed, clients
  <1>2. PICK refused \in Refusals : Step(ev, refused, FALSE)
    BY DEF EventHandler
  <1>3. refused \in BOOLEAN
    BY DEF Refusals
  <1> QED BY <1>1, <1>2, <1>3, StepStep

\* What is left of the queue when the oldest operation is answered.
LEMMA QueueRest ==
    ASSUME IInv, QueueAdvance
    PROVE  /\ opq \in Seq(OpInfo) /\ opq # <<>> /\ opq' \in Seq(OpInfo)
           /\ Len(opq') = Len(opq) - 1
           /\ \A k \in DOMAIN opq' : opq'[k] \in OpInfo /\ Fresh(opq'[k]) /\ k + 1 \in DOMAIN opq
                                     /\ opq'[k] = opq[k + 1]
           /\ opq' # <<>> => 1 \in DOMAIN opq' /\ Current' = opq'[1]
           /\ Len(opq) > 1 <=> opq' # <<>>
           /\ answer # "none" /\ ~Busy /\ ev = "none" /\ processing
           /\ phase \in {"ready", "failed"}
  <1>1. /\ opq \in Seq(OpInfo) /\ Typed /\ Turns /\ Behind /\ answer # "none" /\ processing
        /\ opq # <<>> /\ ~Busy /\ ev = "none"
    BY DEF IInv, Typed, Turns, QueueAdvance
  <1>2. phase \in {"ready", "failed"}
    BY <1>1 DEF IInv, Typed, OffPhase, InitPhase, InitControl
  <1> DEFINE t == Tail(opq)
  <1>3. /\ t \in Seq(OpInfo) /\ Len(t) = Len(opq) - 1 /\ DOMAIN t = 1 .. Len(opq) - 1
        /\ \A k \in 1 .. Len(opq) - 1 : t[k] = opq[k + 1]
        /\ DOMAIN opq = 1 .. Len(opq) /\ Len(opq) \in Nat \ {0}
    BY <1>1
  <1> HIDE DEF t
  <1>4. opq' = t
    BY DEF QueueAdvance, t
  <1>5. \A k \in DOMAIN t : k + 1 \in DOMAIN opq /\ k + 1 > 1 /\ t[k] = opq[k + 1]
    BY <1>3
  <1>6. \A k \in DOMAIN t : t[k] \in OpInfo /\ Fresh(t[k]) /\ k + 1 \in DOMAIN opq
                            /\ t[k] = opq[k + 1]
    <2>1. \A k \in DOMAIN opq : k > 1 => Fresh(opq[k])
      BY <1>1 DEF Behind
    <2> QED BY <2>1, <1>3, <1>5
  <1>7. t # <<>> => 1 \in DOMAIN t
    BY <1>3
  <1>8. Len(opq) > 1 <=> t # <<>>
    <2>1. t = <<>> <=> Len(t) = 0
      BY <1>3
    <2> QED BY <2>1, <1>3
  <1>9. Current' = opq'[1]
    BY DEF Current
  <1> QED BY <1>1, <1>2, <1>3, <1>4, <1>6, <1>7, <1>8, <1>9

LEMMA QueueAdvanceStep ==
    ASSUME IInv, QueueAdvance, upset' = {}
    PROVE  IInv'
  <1>1. /\ opq \in Seq(OpInfo) /\ opq # <<>> /\ opq' \in Seq(OpInfo)
        /\ Len(opq') = Len(opq) - 1
        /\ \A k \in DOMAIN opq' : opq'[k] \in OpInfo /\ Fresh(opq'[k]) /\ k + 1 \in DOMAIN opq
                                  /\ opq'[k] = opq[k + 1]
        /\ opq' # <<>> => 1 \in DOMAIN opq' /\ Current' = opq'[1]
        /\ Len(opq) > 1 <=> opq' # <<>>
        /\ answer # "none" /\ ~Busy /\ ev = "none" /\ processing
        /\ phase \in {"ready", "failed"}
    BY QueueRest
  <1>2. /\ UNCHANGED <<flash, fl, pages, swap, gc, phase, latest, tail, token, reader>>
        /\ answer' = "none" /\ opq' = Tail(opq)
        /\ IF Len(opq) > 1 THEN ev' = "ok" /\ UNCHANGED processing
           ELSE processing' = FALSE /\ UNCHANGED ev
    BY DEF QueueAdvance, clients
  <1>3. Typed'
    <2>1. Len(opq') <= OpQueueSize
      BY <1>1, Sizes DEF IInv, Typed
    <2> QED BY <2>1, <1>1, <1>2 DEF IInv, Typed, FlTyped
  <1>4. Turns'
    BY <1>1, <1>2 DEF Turns, Busy
  <1>5. Behind'
    BY <1>1 DEF Behind
  <1>6. OffPhase'
    BY <1>1, <1>2 DEF OffPhase
  <1>7. FailedPhase'
    <2>1. phase = "failed" => opq' = <<>> /\ Len(opq) = 1
      BY <1>1 DEF IInv, FailedPhase, Alone
    <2> QED BY <2>1, <1>1, <1>2 DEF FailedPhase, Busy
  <1>8. OneSwap' /\ NotAllData' /\ FlashOK'
    BY <1>2, FlashSame
  <1>9. InitPhase'
    BY <1>1, <1>2 DEF InitPhase
  <1>10. CASE phase = "failed"
    BY <1>3, <1>4, <1>5, <1>6, <1>7, <1>8, <1>9, <1>10, <1>2 DEF IInv, ReadyPhase
  <1>11. CASE phase = "ready"
    <2>1. /\ Typed /\ Mapped /\ ReadyControl /\ ReadyTags /\ ReadyFlash
          /\ Closed /\ Offsets /\ SwapOffsets /\ Copying /\ Space
      BY <1>11 DEF IInv, ReadyPhase
    <2>2. opq' # <<>> => Fresh(Current') /\ Current' \in OpInfo
      BY <1>1
    <2>3. ReadyControl'
      <3>1. tail.step # "none" => opq' = <<>>
        BY <2>1, <1>1 DEF ReadyControl, Alone
      <3> QED BY <3>1, <2>1, <2>2, <1>2 DEF ReadyControl, Executes, Fresh
    <2>4. /\ ~GcDone'
          /\ \A i \in Idx : ~Wrote(i) /\ ~Wrote(i)'
      BY <2>2, <1>1 DEF GcDone, Wrote, Executes, Fresh
    <2>5. Kept
      <3>1. \A i \in Idx : Wrote(i) \in BOOLEAN /\ Wrote(i)' \in BOOLEAN
        BY DEF Wrote
      <3> QED BY <3>1, <2>4, <1>2 DEF Kept
    <2>6. Mapped' /\ ReadyTags' /\ Offsets' /\ SwapOffsets' /\ Copying'
      BY <2>1, <2>5, ReadyKept
    <2>7. ReadyFlash'
      BY <1>1, <1>2 DEF ReadyFlash, Busy, WriteKinds
    <2>8. Closed'
      <3>1. \A i \in Idx : Swapped(i)' = Swapped(i)
        BY <1>2 DEF Swapped, Tag
      <3> QED BY <3>1, <2>1, <1>2 DEF Closed
    <2>9. Space'
      <3> DEFINE t == Tail(opq)
      <3>1. \A k \in DOMAIN opq' :
               opq'[k].code \in {"write", "update"} => opq'[k].len >= HeaderSize
        BY <1>1, <2>1 DEF Space
      <3>2. SUFFICES ASSUME NEW i \in Idx
                     PROVE /\ pages[i].rsv >= ReservedOn(i)' - SpaceDone(i)'
                           /\ pages[i].woff + pages[i].rsv < PageSize
        BY <3>1, <1>2 DEF Space
      <3>3. /\ pages[i].rsv >= ReservedOn(i) - SpaceDone(i)
            /\ pages[i].woff + pages[i].rsv < PageSize
            /\ pages[i].rsv \in Int /\ pages[i].woff \in Nat
        BY <2>1, PageOf DEF Space
      <3>4. ReservedOn(i) = TokenOn(i) + Total(Words(i, opq)) /\ TokenOn(i) \in Nat
        BY <2>1, Reserved
      <3>5. /\ Total(Words(i, opq)) = WordsOn(i, Current) + Total(Words(i, t))
            /\ Total(Words(i, t)) \in Nat /\ WordsOn(i, Current) \in Nat
        BY <1>1, WordsTail DEF Current
      <3>6. ReservedOn(i)' = TokenOn(i) + Total(Words(i, t))
        <4> DEFINE w == [k \in DOMAIN opq' |-> WordsOn(i, opq'[k])]
        <4>1. w = Words(i, t)
          BY <1>2 DEF Words
        <4>2. ReservedOn(i)' = TokenOn(i) + Total(w)
          BY <1>2 DEF ReservedOn, TokenOn, Total, WordsOn, RecordLen
        <4> QED BY <4>1, <4>2
      <3>7. SpaceDone(i)' = 0
        BY <1>2 DEF SpaceDone
      <3>8. SpaceDone(i) \in {0, WordsOn(i, Current)}
        BY DEF SpaceDone, WordsOn
      <3> HIDE DEF t
      <3> QED BY <3>3, <3>4, <3>5, <3>6, <3>7, <3>8
    <2> QED BY <1>3, <1>4, <1>5, <1>6, <1>7, <1>8, <1>9, <2>3, <2>6, <2>7, <2>8, <2>9
            DEF IInv, ReadyPhase
  <1> QED BY <1>1, <1>10, <1>11

-----------------------------------------------------------------------------
(* The calls.                                                              *)

\* A call puts at most one operation behind the others.
Queues(op) ==
    /\ opq' = Append(opq, op) /\ Len(opq) < OpQueueSize /\ op \in OpInfo /\ Fresh(op)
    /\ op.code \in {"write", "update"} => op.len >= HeaderSize

Grows == opq' = opq \/ \E op \in OpInfo : Queues(op)

LEMMA QueueGrown ==
    ASSUME Typed, Grows
    PROVE  /\ opq \in Seq(OpInfo) /\ opq' \in Seq(OpInfo) /\ Len(opq') <= OpQueueSize
           /\ opq # <<>> => opq' # <<>> /\ Current' = Current
           /\ opq = <<>> /\ opq' # <<>> => Fresh(Current')
           /\ \A k \in DOMAIN opq' : \/ k \in DOMAIN opq /\ opq'[k] = opq[k]
                                     \/ /\ Fresh(opq'[k])
                                        /\ opq'[k].code \in {"write", "update"} =>
                                              opq'[k].len >= HeaderSize
  <1>1. opq \in Seq(OpInfo) /\ Len(opq) <= OpQueueSize
    BY DEF Typed
  <1>2. CASE opq' = opq
    BY <1>1, <1>2 DEF Current
  <1>3. CASE \E op \in OpInfo : Queues(op)
    <2>1. PICK op \in OpInfo : Queues(op)
      BY <1>3
    <2> DEFINE a == Append(opq, op)
    <2>2. /\ a \in Seq(OpInfo) /\ Len(a) = Len(opq) + 1 /\ DOMAIN a = 1 .. Len(opq) + 1
          /\ a[Len(opq) + 1] = op /\ a # <<>>
          /\ \A k \in 1 .. Len(opq) : a[k] = opq[k]
          /\ DOMAIN opq = 1 .. Len(opq) /\ Len(opq) \in Nat
      BY <1>1
    <2> HIDE DEF a
    <2>3. opq' = a /\ Len(opq) < OpQueueSize /\ Fresh(op)
          /\ (op.code \in {"write", "update"} => op.len >= HeaderSize)
      BY <2>1 DEF Queues, a
    <2>4. Len(a) <= OpQueueSize
      BY <2>2, <2>3, Sizes
    <2>5. Current' = a[1]
      BY <2>3 DEF Current
    <2>6. opq # <<>> => Current' = Current
      <3>1. opq # <<>> => 1 \in 1 .. Len(opq)
        BY <1>1
      <3> QED BY <3>1, <2>2, <2>5 DEF Current
    <2>7. opq = <<>> => Fresh(Current')
      BY <2>2, <2>3, <2>5
    <2>8. \A k \in DOMAIN a : k \in DOMAIN opq \/ k = Len(opq) + 1
      BY <2>2
    <2> QED BY <1>1, <2>2, <2>3, <2>4, <2>6, <2>7, <2>8
  <1> QED BY <1>2, <1>3 DEF Grows

\* What a call may do once the store is ready.
CallFrame ==
    /\ phase = "ready" /\ tail.step = "none"
    /\ UNCHANGED <<flash, fl, ev, swap, phase, processing, tail, answer>>
    /\ Grows
    /\ pages' \in [Idx -> PageInfo]
    /\ \A i \in Idx : /\ pages'[i].type = pages[i].type /\ pages'[i].addr = pages[i].addr
                      /\ pages'[i].woff = pages[i].woff
    /\ gc' \in GcInfo /\ gc'.state = gc.state /\ gc'.cur = gc.cur /\ gc'.src = gc.src
    /\ latest' \in Nat
    /\ token' \in [page : Idx, chunks : ChunkCounts] \cup {NoToken}

LEMMA CallStep ==
    ASSUME IInv, CallFrame,
           \A i \in Idx : Swapped(i) \/ (fl.kind = "erase" /\ fl.addr = pages[i].addr) =>
              pages'[i].open = 0,
           \A i \in Idx : /\ ReservedOn(i)' \in Nat
                          /\ ReservedOn(i)' - ReservedOn(i) <= pages'[i].rsv - pages[i].rsv
                          /\ pages'[i].woff + pages'[i].rsv < PageSize
    PROVE  IInv'
  <1>1. /\ Typed /\ Turns /\ Behind /\ Mapped /\ ReadyControl /\ ReadyTags /\ ReadyFlash
        /\ Closed /\ Offsets /\ SwapOffsets /\ Copying /\ Space
    BY DEF IInv, ReadyPhase, CallFrame
  <1>2. /\ opq \in Seq(OpInfo) /\ opq' \in Seq(OpInfo) /\ Len(opq') <= OpQueueSize
        /\ opq # <<>> => opq' # <<>> /\ Current' = Current
        /\ opq = <<>> /\ opq' # <<>> => Fresh(Current')
        /\ \A k \in DOMAIN opq' : \/ k \in DOMAIN opq /\ opq'[k] = opq[k]
                                  \/ /\ Fresh(opq'[k])
                                     /\ opq'[k].code \in {"write", "update"} =>
                                           opq'[k].len >= HeaderSize
    BY <1>1, QueueGrown DEF CallFrame
  <1>3. opq = <<>> => ~processing /\ ~Busy /\ ev = "none" /\ answer = "none"
    BY <1>1 DEF Turns, Typed
  <1>4. Typed'
    BY <1>1, <1>2 DEF Typed, FlTyped, CallFrame
  <1>5. Turns'
    BY <1>1, <1>2 DEF Turns, Busy, CallFrame
  <1>6. Behind'
    BY <1>1, <1>2 DEF Behind, CallFrame
  <1>7. OffPhase' /\ FailedPhase' /\ InitPhase'
    BY DEF OffPhase, FailedPhase, InitPhase, CallFrame
  <1>8. OneSwap' /\ NotAllData' /\ FlashOK'
    BY FlashSame DEF CallFrame
  <1>9. ReadyControl'
    BY <1>1, <1>2 DEF ReadyControl, Executes, Fresh, CallFrame
  <1>10. Kept
    <2>1. GcDone' => GcDone
      BY <1>2, <1>3 DEF GcDone, Executes, CallFrame
    <2>2. ASSUME NEW i \in Idx PROVE Wrote(i)' = Wrote(i) /\ (Wrote(i) => Current'.len = Current.len)
      <3>1. CASE opq = <<>>
        <4>1. ~Wrote(i) /\ ~Wrote(i)'
          BY <3>1, <1>2 DEF Wrote, Executes, Fresh
        <4>2. Wrote(i) \in BOOLEAN /\ Wrote(i)' \in BOOLEAN
          BY DEF Wrote
        <4> QED BY <4>1, <4>2
      <3>2. CASE opq # <<>>
        BY <3>2, <1>2 DEF Wrote, Executes, CallFrame
      <3> QED BY <3>1, <3>2
    <2> QED BY <2>1, <2>2 DEF Kept, CallFrame
  <1>11. Mapped' /\ ReadyTags' /\ Offsets' /\ SwapOffsets' /\ Copying'
    BY <1>1, <1>10, ReadyKept
  <1>12. ReadyFlash'
    <2>1. CASE opq = <<>>
      BY <2>1, <1>3 DEF ReadyFlash, Busy, CallFrame, WriteKinds
    <2>2. CASE opq # <<>>
      <3>1. /\ Current' = Current /\ opq' # <<>> /\ fl' = fl /\ swap' = swap
            /\ Executes({"gc"})' = Executes({"gc"})
            /\ Executes({"write", "update"})' = Executes({"write", "update"})
            /\ Executes({"write", "update", "delete", "deleteFile"})'
                  = Executes({"write", "update", "delete", "deleteFile"})
            /\ gc'.state = gc.state /\ gc'.cur = gc.cur /\ gc'.src = gc.src
        BY <2>2, <1>2 DEF Executes, CallFrame
      <3>2. /\ gc.cur \in Idx
            /\ \A i \in Idx : /\ pages'[i].addr = pages[i].addr /\ pages'[i].woff = pages[i].woff
                              /\ Recs(pages[i].addr)' = Recs(pages[i].addr)
        BY <1>1 DEF CallFrame, Recs, Typed, GcInfo
      <3>3. Current.page \in Idx
        BY <2>2, <1>1, HeadTyped
      <3> QED BY <3>1, <3>2, <3>3, <1>1 DEF ReadyFlash
    <2> QED BY <2>1, <2>2
  <1>13. Closed'
    <2>1. \A i \in Idx : Swapped(i)' = Swapped(i)
      BY DEF Swapped, Tag, CallFrame
    <2> QED BY <2>1 DEF Closed, CallFrame
  <1>14. Space'
    <2>1. \A k \in DOMAIN opq' :
             opq'[k].code \in {"write", "update"} => opq'[k].len >= HeaderSize
      BY <1>1, <1>2 DEF Space
    <2>2. SUFFICES ASSUME NEW i \in Idx
                   PROVE /\ pages'[i].rsv >= ReservedOn(i)' - SpaceDone(i)'
                         /\ pages'[i].woff + pages'[i].rsv < PageSize
      BY <2>1 DEF Space
    <2>3. /\ pages[i].rsv >= ReservedOn(i) - SpaceDone(i) /\ pages[i].rsv \in Int
          /\ ReservedOn(i) \in Nat
      <3>1. /\ ReservedOn(i) = TokenOn(i) + Total(Words(i, opq))
            /\ TokenOn(i) \in Nat /\ Total(Words(i, opq)) \in Nat
        BY <1>1, Reserved
      <3>2. ReservedOn(i) \in Nat
        BY <3>1
      <3> QED BY <3>2, <1>1, PageOf DEF Space
    <2>4. SpaceDone(i)' = SpaceDone(i) /\ SpaceDone(i) \in Nat
      <3>1. CASE answer = "none"
        BY <3>1 DEF SpaceDone, CallFrame
      <3>2. CASE answer # "none"
        <4>1. opq # <<>>
          BY <3>2, <1>3
        <4>2. Current' = Current /\ Current.len \in Nat
          BY <4>1, <1>1, <1>2, HeadTyped
        <4> QED BY <4>2 DEF SpaceDone, CallFrame
      <3> QED BY <3>1, <3>2
    <2>5. pages'[i].rsv \in Int
      BY DEF CallFrame, PageInfo
    <2> QED BY <2>3, <2>4, <2>5
  <1> QED BY <1>4, <1>5, <1>6, <1>7, <1>8, <1>9, <1>11, <1>12, <1>13, <1>14
          DEF IInv, ReadyPhase

\* What is reserved on a page when an operation is queued ...
LEMMA ReservedMore ==
    ASSUME Typed, NEW i \in Idx, NEW op \in OpInfo, opq' = Append(opq, op), TokenOn(i)' \in Nat
    PROVE  /\ ReservedOn(i)' - ReservedOn(i) = (TokenOn(i)' - TokenOn(i)) + WordsOn(i, op)
           /\ ReservedOn(i)' \in Nat
  <1>1. /\ ReservedOn(i) = TokenOn(i) + Total(Words(i, opq))
        /\ TokenOn(i) \in Nat /\ Total(Words(i, opq)) \in Nat /\ WordsOn(i, op) \in Nat
    BY Reserved, WordsOnTyped
  <1>2. Total(Words(i, Append(opq, op))) = Total(Words(i, opq)) + WordsOn(i, op)
    BY WordsAppend DEF Typed
  <1> DEFINE a == Append(opq, op)
             w == [k \in DOMAIN opq' |-> WordsOn(i, opq'[k])]
  <1>3. w = Words(i, a)
    BY DEF Words
  <1>4. ReservedOn(i)' = TokenOn(i)' + Total(w)
    BY DEF ReservedOn, TokenOn, Total, WordsOn, RecordLen
  <1> HIDE DEF w
  <1>5. ReservedOn(i)' = TokenOn(i)' + (Total(Words(i, opq)) + WordsOn(i, op))
    BY <1>2, <1>3, <1>4
  <1> QED BY <1>1, <1>5

\* ... and when none is.
LEMMA ReservedSame ==
    ASSUME Typed, NEW i \in Idx, opq' = opq, TokenOn(i)' \in Nat
    PROVE  /\ ReservedOn(i)' - ReservedOn(i) = TokenOn(i)' - TokenOn(i)
           /\ ReservedOn(i)' \in Nat
  <1>1. /\ ReservedOn(i) = TokenOn(i) + Total(Words(i, opq))
        /\ TokenOn(i) \in Nat /\ Total(Words(i, opq)) \in Nat
    BY Reserved
  <1> DEFINE w == [k \in DOMAIN opq' |-> WordsOn(i, opq'[k])]
  <1>2. w = Words(i, opq)
    BY DEF Words
  <1>3. ReservedOn(i)' = TokenOn(i)' + Total(w)
    BY DEF ReservedOn, TokenOn, Total, WordsOn, RecordLen
  <1> HIDE DEF w
  <1>4. ReservedOn(i)' = TokenOn(i)' + Total(Words(i, opq))
    BY <1>2, <1>3
  <1> QED BY <1>1, <1>4

\* A reservation changes on one page.
LEMMA RsvChanged ==
    ASSUME pages \in [Idx -> PageInfo], NEW p \in Idx, NEW x \in Int,
           pages' = [pages EXCEPT ![p].rsv = x]
    PROVE  /\ pages' \in [Idx -> PageInfo]
           /\ \A i \in Idx : /\ pages'[i].type = pages[i].type /\ pages'[i].addr = pages[i].addr
                             /\ pages'[i].woff = pages[i].woff /\ pages'[i].open = pages[i].open
                             /\ pages'[i].rsv = IF i = p THEN x ELSE pages[i].rsv
  <1> DEFINE q == [pages[p] EXCEPT !.rsv = x]
  <1>1. pages[p] \in PageInfo
    OBVIOUS
  <1>2. /\ q \in PageInfo /\ q.type = pages[p].type /\ q.addr = pages[p].addr
        /\ q.woff = pages[p].woff /\ q.open = pages[p].open /\ q.rsv = x
    BY <1>1 DEF PageInfo
  <1>3. pages' = [pages EXCEPT ![p] = q]
    OBVIOUS
  <1> HIDE DEF q
  <1>4. pages' \in [Idx -> PageInfo] /\ \A i \in Idx : pages'[i] = IF i = p THEN q ELSE pages[i]
    BY <1>2, <1>3
  <1> QED BY <1>2, <1>4

\* So does the number of open records.
LEMMA OpenChanged ==
    ASSUME pages \in [Idx -> PageInfo], NEW p \in Idx, NEW x \in Nat,
           pages' = [pages EXCEPT ![p].open = x]
    PROVE  /\ pages' \in [Idx -> PageInfo]
           /\ \A i \in Idx : /\ pages'[i].type = pages[i].type /\ pages'[i].addr = pages[i].addr
                             /\ pages'[i].woff = pages[i].woff /\ pages'[i].rsv = pages[i].rsv
                             /\ pages'[i].open = IF i = p THEN x ELSE pages[i].open
  <1> DEFINE q == [pages[p] EXCEPT !.open = x]
  <1>1. pages[p] \in PageInfo
    OBVIOUS
  <1>2. /\ q \in PageInfo /\ q.type = pages[p].type /\ q.addr = pages[p].addr
        /\ q.woff = pages[p].woff /\ q.open = x /\ q.rsv = pages[p].rsv
    BY <1>1 DEF PageInfo
  <1>3. pages' = [pages EXCEPT ![p] = q]
    OBVIOUS
  <1> HIDE DEF q
  <1>4. pages' \in [Idx -> PageInfo] /\ \A i \in Idx : pages'[i] = IF i = p THEN q ELSE pages[i]
    BY <1>2, <1>3
  <1> QED BY <1>2, <1>4

LEMMA WriteOpTyped ==
    ASSUME Typed, NEW code \in {"write", "update"}, NEW page \in Idx, NEW f \in Files,
           NEW n \in ChunkCounts, NEW old \in Nat
    PROVE  /\ WriteOp(code, page, f, n, old) \in OpInfo
           /\ Fresh(WriteOp(code, page, f, n, old))
           /\ WriteOp(code, page, f, n, old).len >= HeaderSize
           /\ RecordLen(n) \in Nat
           /\ \A i \in Idx : WordsOn(i, WriteOp(code, page, f, n, old)) =
                                IF i = page THEN RecordLen(n) ELSE 0
  <1> DEFINE len == RecordLen(n)
             op == WriteOp(code, page, f, n, old)
             step == IF code = "update" THEN "find" ELSE "begin"
             id == latest + 1
  <1>1. len \in Nat /\ len >= HeaderSize /\ n \in Nat /\ id \in Nat
    BY RecordLens, FdsAssumption DEF Typed
  <1>2. op = [Op(code, step) EXCEPT !.page = page, !.id = id, !.file = f, !.len = len,
                                    !.left = n, !.old = old]
    BY DEF WriteOp
  <1> HIDE DEF len, op, id
  <1>3. op = [code |-> code, step |-> step, page |-> page, id |-> id, file |-> f, len |-> len,
              left |-> n, old |-> old, desc |-> <<0, 0>>]
    BY <1>2 DEF Op
  <1>4. op \in OpInfo
    <2>1. step \in OpSteps /\ <<0, 0>> \in Idx \X Nat
      BY Sizes DEF OpSteps
    <2>2. n \in Int /\ code \in {"init", "write", "update", "delete", "deleteFile", "gc"}
          /\ f \in Files \cup {NoFile}
      BY <1>1
    <2> HIDE DEF step
    <2> QED BY <1>1, <1>3, <2>1, <2>2 DEF OpInfo
  <1>5. op.code = code /\ op.step = step /\ op.page = page /\ op.len = len
    BY <1>2 DEF Op
  <1>6. Fresh(op)
    BY <1>5 DEF Fresh
  <1>7. \A i \in Idx : WordsOn(i, op) = IF i = page THEN len ELSE 0
    BY <1>5 DEF WordsOn
  <1> QED BY <1>1, <1>4, <1>5, <1>6, <1>7 DEF op, len

\* There is space on the page that write_space_reserve finds.
LEMMA PageFits ==
    ASSUME IInv, phase = "ready", NEW len \in Nat, CanReserve(len)
    PROVE  LET p == Min(PagesWithSpace(len)) IN
           p \in Idx /\ len + pages[p].woff + pages[p].rsv < PageSize
  <1> DEFINE P == PagesWithSpace(len)
             p == Min(P)
  <1>1. P \in SUBSET Nat /\ P # {}
    BY Sizes DEF PagesWithSpace, CanReserve
  <1>2. p \in P
    <2> HIDE DEF P
    <2> QED BY <1>1, LeastOf
  <1> HIDE DEF p
  <1> QED BY <1>2 DEF PagesWithSpace, p

\* Every page has the words that are reserved.
LEMMA SpaceReady ==
    ASSUME IInv, phase = "ready", NEW i \in Idx
    PROVE  /\ pages[i] \in PageInfo /\ pages[i].woff \in Nat /\ pages[i].rsv \in Int
           /\ pages[i].woff + pages[i].rsv < PageSize
           /\ TokenOn(i) \in Nat
  <1>1. Typed /\ Mapped /\ Space
    BY DEF IInv, ReadyPhase
  <1>2. /\ pages[i] \in PageInfo /\ pages[i].woff \in Nat /\ pages[i].rsv \in Int
    BY <1>1, PageOf
  <1>3. TokenOn(i) \in Nat
    BY <1>1, Reserved
  <1> QED BY <1>1, <1>2, <1>3 DEF Space

LEMMA WriteEnqueueStep ==
    ASSUME IInv, tail.step = "none", NEW code \in {"write", "update"}, NEW f \in Files,
           NEW n \in ChunkCounts, NEW old \in Nat, WriteEnqueue(code, f, n, old)
    PROVE  IInv'
  <1>1. /\ Typed /\ Closed /\ phase = "ready" /\ pages \in [Idx -> PageInfo] /\ latest \in Nat
        /\ gc \in GcInfo
    BY DEF IInv, Typed, ReadyPhase, WriteEnqueue
  <1> DEFINE len == RecordLen(n)
             p == Min(PagesWithSpace(len))
             op == WriteOp(code, p, f, n, old)
  <1>2. CanReserve(len) /\ len \in Nat
    BY RecordLens DEF WriteEnqueue
  <1>3. p \in Idx /\ len + pages[p].woff + pages[p].rsv < PageSize
    <2> HIDE DEF len
    <2> QED BY <1>1, <1>2, PageFits
  <1>4. /\ UNCHANGED <<flash, fl, ev, swap, gc, phase, processing, tail, answer, token>>
        /\ latest' = latest + 1
        /\ IF Room(n) THEN /\ pages' = [pages EXCEPT ![p].rsv = @ + len]
                           /\ opq' = Append(opq, op)
           ELSE UNCHANGED <<pages, opq>>
    BY DEF WriteEnqueue, Enqueue, clients
  <1> HIDE DEF len, p
  <1>5. \A i \in Idx : TokenOn(i)' = TokenOn(i) /\ TokenOn(i) \in Nat
    <2>1. \A i \in Idx : TokenOn(i)' = TokenOn(i)
      BY <1>4 DEF TokenOn, RecordLen
    <2> QED BY <2>1, <1>1, SpaceReady
  <1>6. CASE Room(n)
    <2>1. /\ op \in OpInfo /\ Fresh(op) /\ op.len >= HeaderSize
          /\ \A i \in Idx : WordsOn(i, op) = IF i = p THEN len ELSE 0
      BY <1>1, <1>3, WriteOpTyped DEF len
    <2> HIDE DEF op
    <2> DEFINE x == pages[p].rsv + len
    <2>2. pages[p].rsv \in Int /\ pages[p].woff \in Nat
      BY <1>1, <1>3, SpaceReady
    <2>3. x \in Int
      BY <2>2, <1>2
    <2>4. pages' = [pages EXCEPT ![p].rsv = x] /\ opq' = Append(opq, op)
      BY <1>3, <1>4, <1>6
    <2> HIDE DEF x
    <2>5. /\ pages' \in [Idx -> PageInfo]
          /\ \A i \in Idx : /\ pages'[i].type = pages[i].type /\ pages'[i].addr = pages[i].addr
                            /\ pages'[i].woff = pages[i].woff /\ pages'[i].open = pages[i].open
                            /\ pages'[i].rsv = IF i = p THEN x ELSE pages[i].rsv
      BY <2>3, <2>4, <1>1, <1>3, RsvChanged
    <2>6. Queues(op)
      BY <2>1, <2>4, <1>6 DEF Queues, Room
    <2>7. CallFrame
      BY <2>1, <2>5, <2>6, <1>1, <1>4 DEF CallFrame, Grows, Typed
    <2>8. \A i \in Idx : Swapped(i) \/ (fl.kind = "erase" /\ fl.addr = pages[i].addr) =>
              pages'[i].open = 0
      BY <2>5, <1>1 DEF Closed
    <2>9. ASSUME NEW i \in Idx
          PROVE  /\ ReservedOn(i)' \in Nat
                 /\ ReservedOn(i)' - ReservedOn(i) <= pages'[i].rsv - pages[i].rsv
                 /\ pages'[i].woff + pages'[i].rsv < PageSize
      <3>1. /\ ReservedOn(i)' - ReservedOn(i) = (TokenOn(i)' - TokenOn(i)) + WordsOn(i, op)
            /\ ReservedOn(i)' \in Nat
        BY <2>1, <2>4, <1>1, <1>5, ReservedMore
      <3>2. /\ pages[i].woff \in Nat /\ pages[i].rsv \in Int
            /\ pages[i].woff + pages[i].rsv < PageSize
        BY <1>1, SpaceReady
      <3>3. pages'[i].rsv - pages[i].rsv = IF i = p THEN len ELSE 0
        BY <3>2, <2>2, <2>5, <1>2 DEF x
      <3>4. ReservedOn(i)' - ReservedOn(i) = IF i = p THEN len ELSE 0
        BY <3>1, <2>1, <1>2, <1>5
      <3>5. pages'[i].woff + pages'[i].rsv < PageSize
        <4>1. pages'[i].woff = pages[i].woff /\ pages'[i].rsv = IF i = p THEN x ELSE pages[i].rsv
          BY <2>5
        <4>2. len + pages[p].woff + pages[p].rsv = pages[p].woff + x
          BY <2>2, <1>2 DEF x
        <4> QED BY <4>1, <4>2, <3>2, <1>3
      <3> QED BY <3>1, <3>3, <3>4, <3>5, <1>2
    <2> QED BY <2>7, <2>8, <2>9, CallStep
  <1>7. CASE ~Room(n)
    <2>1. pages' = pages /\ opq' = opq
      BY <1>4, <1>7
    <2>2. CallFrame
      BY <2>1, <1>1, <1>4 DEF CallFrame, Grows, Typed
    <2>3. \A i \in Idx : Swapped(i) \/ (fl.kind = "erase" /\ fl.addr = pages[i].addr) =>
              pages'[i].open = 0
      BY <2>1, <1>1 DEF Closed
    <2>4. ASSUME NEW i \in Idx
          PROVE  /\ ReservedOn(i)' \in Nat
                 /\ ReservedOn(i)' - ReservedOn(i) <= pages'[i].rsv - pages[i].rsv
                 /\ pages'[i].woff + pages'[i].rsv < PageSize
      <3>1. /\ ReservedOn(i)' - ReservedOn(i) = TokenOn(i)' - TokenOn(i)
            /\ ReservedOn(i)' \in Nat
        BY <2>1, <1>1, <1>5, ReservedSame
      <3>2. /\ pages[i].woff + pages[i].rsv < PageSize /\ pages[i].rsv \in Int
        BY <1>1, SpaceReady
      <3> QED BY <3>1, <3>2, <2>1, <1>5
    <2> QED BY <2>2, <2>3, <2>4, CallStep
  <1> QED BY <1>6, <1>7

LEMMA ReserveStep ==
    ASSUME IInv, tail.step = "none", Reserve
    PROVE  IInv'
  <1>1. /\ Typed /\ Closed /\ phase = "ready" /\ pages \in [Idx -> PageInfo] /\ latest \in Nat
        /\ gc \in GcInfo /\ token = NoToken
    BY DEF IInv, Typed, ReadyPhase, Reserve
  <1>2. PICK n \in ChunkCounts :
           LET page == Min(PagesWithSpace(RecordLen(n))) IN
           /\ CanReserve(RecordLen(n))
           /\ pages' = [pages EXCEPT ![page].rsv = @ + RecordLen(n)]
           /\ token' = [page |-> page, chunks |-> n]
    BY DEF Reserve
  <1> DEFINE len == RecordLen(n)
             p == Min(PagesWithSpace(len))
             x == pages[p].rsv + len
  <1>3. CanReserve(len) /\ len \in Nat
    BY <1>2, RecordLens
  <1>4. p \in Idx /\ len + pages[p].woff + pages[p].rsv < PageSize
    <2> HIDE DEF len
    <2> QED BY <1>1, <1>3, PageFits
  <1>5. pages' = [pages EXCEPT ![p].rsv = x] /\ token' = [page |-> p, chunks |-> n]
    BY <1>2
  <1>6. UNCHANGED <<flash, fl, ev, swap, gc, opq, phase, processing, latest, tail, answer>>
    BY DEF Reserve
  <1>7. \A i \in Idx : /\ TokenOn(i) = 0 /\ TokenOn(i)' = IF i = p THEN len ELSE 0
                       /\ TokenOn(i)' \in Nat
    <2>1. \A i \in Idx : TokenOn(i) = 0
      BY <1>1, Sizes DEF TokenOn, NoToken, NoAddr, Idx
    <2>2. \A i \in Idx : TokenOn(i)' = IF i = p THEN len ELSE 0
      <3>1. token'.page = p /\ token'.chunks = n
        <4> HIDE DEF p
        <4> QED BY <1>5
      <3> HIDE DEF p
      <3> QED BY <3>1 DEF TokenOn, RecordLen
    <2> QED BY <2>1, <2>2, <1>3
  <1> HIDE DEF len, p
  <1>8. pages[p].rsv \in Int /\ pages[p].woff \in Nat
    BY <1>1, <1>4, SpaceReady
  <1>9. x \in Int
    BY <1>3, <1>8
  <1> HIDE DEF x
  <1>10. /\ pages' \in [Idx -> PageInfo]
         /\ \A i \in Idx : /\ pages'[i].type = pages[i].type /\ pages'[i].addr = pages[i].addr
                           /\ pages'[i].woff = pages[i].woff /\ pages'[i].open = pages[i].open
                           /\ pages'[i].rsv = IF i = p THEN x ELSE pages[i].rsv
    BY <1>1, <1>4, <1>5, <1>9, RsvChanged
  <1>11. CallFrame
    <2>1. token' \in [page : Idx, chunks : ChunkCounts]
      BY <1>4, <1>5
    <2> QED BY <2>1, <1>1, <1>6, <1>10 DEF CallFrame, Grows
  <1>12. \A i \in Idx : Swapped(i) \/ (fl.kind = "erase" /\ fl.addr = pages[i].addr) =>
              pages'[i].open = 0
    BY <1>1, <1>10 DEF Closed
  <1>13. ASSUME NEW i \in Idx
         PROVE  /\ ReservedOn(i)' \in Nat
                /\ ReservedOn(i)' - ReservedOn(i) <= pages'[i].rsv - pages[i].rsv
                /\ pages'[i].woff + pages'[i].rsv < PageSize
    <2>1. /\ ReservedOn(i)' - ReservedOn(i) = TokenOn(i)' - TokenOn(i)
          /\ ReservedOn(i)' \in Nat
      BY <1>1, <1>6, <1>7, ReservedSame
    <2>2. /\ pages[i].woff \in Nat /\ pages[i].rsv \in Int
          /\ pages[i].woff + pages[i].rsv < PageSize
      BY <1>1, SpaceReady
    <2>3. pages'[i].rsv - pages[i].rsv = IF i = p THEN len ELSE 0
      BY <2>2, <1>3, <1>8, <1>10 DEF x
    <2>4. pages'[i].woff + pages'[i].rsv < PageSize
      <3>1. pages'[i].woff = pages[i].woff /\ pages'[i].rsv = IF i = p THEN x ELSE pages[i].rsv
        BY <1>10
      <3>2. len + pages[p].woff + pages[p].rsv = pages[p].woff + x
        BY <1>3, <1>8 DEF x
      <3> QED BY <3>1, <3>2, <2>2, <1>4
    <2> QED BY <2>1, <2>3, <2>4, <1>3, <1>7
  <1> QED BY <1>11, <1>12, <1>13, CallStep

LEMMA ReserveCancelStep ==
    ASSUME IInv, tail.step = "none", ReserveCancel
    PROVE  IInv'
  <1>1. /\ Typed /\ Closed /\ phase = "ready" /\ pages \in [Idx -> PageInfo] /\ latest \in Nat
        /\ gc \in GcInfo /\ token \in [page : Idx, chunks : ChunkCounts]
    BY DEF IInv, Typed, ReadyPhase, ReserveCancel
  <1> DEFINE p == token.page
             len == RecordLen(token.chunks)
             x == pages[p].rsv - len
  <1>2. p \in Idx /\ len \in Nat
    BY <1>1, RecordLens
  <1>3. pages' = [pages EXCEPT ![p].rsv = x] /\ token' = NoToken
    BY DEF ReserveCancel
  <1>4. UNCHANGED <<flash, fl, ev, swap, gc, opq, phase, processing, latest, tail, answer>>
    BY DEF ReserveCancel
  <1>5. \A i \in Idx : /\ TokenOn(i) = IF i = p THEN len ELSE 0
                       /\ TokenOn(i)' = 0
    BY <1>3, Sizes DEF TokenOn, NoToken, NoAddr, Idx
  <1> HIDE DEF len, p
  <1>6. pages[p].rsv \in Int
    BY <1>1, <1>2, SpaceReady
  <1>7. x \in Int
    BY <1>2, <1>6
  <1> HIDE DEF x
  <1>8. /\ pages' \in [Idx -> PageInfo]
        /\ \A i \in Idx : /\ pages'[i].type = pages[i].type /\ pages'[i].addr = pages[i].addr
                          /\ pages'[i].woff = pages[i].woff /\ pages'[i].open = pages[i].open
                          /\ pages'[i].rsv = IF i = p THEN x ELSE pages[i].rsv
    BY <1>1, <1>2, <1>3, <1>7, RsvChanged
  <1>9. CallFrame
    BY <1>1, <1>3, <1>4, <1>8 DEF CallFrame, Grows
  <1>10. \A i \in Idx : Swapped(i) \/ (fl.kind = "erase" /\ fl.addr = pages[i].addr) =>
              pages'[i].open = 0
    BY <1>1, <1>8 DEF Closed
  <1>11. ASSUME NEW i \in Idx
         PROVE  /\ ReservedOn(i)' \in Nat
                /\ ReservedOn(i)' - ReservedOn(i) <= pages'[i].rsv - pages[i].rsv
                /\ pages'[i].woff + pages'[i].rsv < PageSize
    <2>1. /\ ReservedOn(i)' - ReservedOn(i) = TokenOn(i)' - TokenOn(i)
          /\ ReservedOn(i)' \in Nat
      BY <1>1, <1>4, <1>5, ReservedSame
    <2>2. /\ pages[i].woff \in Nat /\ pages[i].rsv \in Int
          /\ pages[i].woff + pages[i].rsv < PageSize
      BY <1>1, SpaceReady
    <2>3. pages'[i].rsv = IF i = p THEN pages[i].rsv - len ELSE pages[i].rsv
      BY <1>8 DEF x
    <2>4. pages'[i].woff = pages[i].woff
      BY <1>8
    <2>5. CASE i = p
      <3>1. TokenOn(i) = len /\ TokenOn(i)' = 0 /\ pages'[i].rsv = pages[i].rsv - len
        BY <2>3, <2>5, <1>5
      <3>2. pages'[i].rsv - pages[i].rsv = 0 - len
        BY <3>1, <2>2, <1>2
      <3>3. ReservedOn(i)' - ReservedOn(i) = 0 - len
        BY <3>1, <2>1
      <3>4. pages'[i].woff + pages'[i].rsv < PageSize
        BY <3>1, <2>2, <2>4, <1>2, Sizes
      <3> QED BY <3>2, <3>3, <3>4, <2>1, <1>2
    <2>6. CASE i # p
      <3>1. TokenOn(i) = 0 /\ TokenOn(i)' = 0 /\ pages'[i].rsv = pages[i].rsv
        BY <2>3, <2>6, <1>5
      <3> QED BY <3>1, <2>1, <2>2, <2>4
    <2> QED BY <2>5, <2>6
  <1> QED BY <1>9, <1>10, <1>11, CallStep

\* The space of the token becomes that of the operation.
LEMMA RecordWriteReservedStep ==
    ASSUME IInv, tail.step = "none", RecordWriteReserved, upset' = {}
    PROVE  IInv'
  <1>1. /\ Typed /\ Closed /\ phase = "ready" /\ pages \in [Idx -> PageInfo] /\ latest \in Nat
        /\ gc \in GcInfo /\ token \in [page : Idx, chunks : ChunkCounts]
    BY DEF IInv, Typed, ReadyPhase, RecordWriteReserved
  <1> DEFINE p == token.page
             n == token.chunks
             len == RecordLen(n)
  <1>2. PICK f \in Files : /\ Room(n) /\ Enqueue(WriteOp("write", p, f, n, 0))
                           /\ token' = NoToken /\ UNCHANGED pages
    BY DEF RecordWriteReserved
  <1> DEFINE op == WriteOp("write", p, f, n, 0)
  <1>3. p \in Idx /\ n \in ChunkCounts
    BY <1>1
  <1>4. opq' = Append(opq, op) /\ Len(opq) < OpQueueSize
    BY <1>2 DEF Enqueue, Room
  <1>5. /\ UNCHANGED <<flash, fl, ev, swap, gc, phase, processing, tail, answer, pages>>
        /\ latest' = latest + 1 /\ token' = NoToken
    BY <1>2 DEF RecordWriteReserved
  <1>6. \A i \in Idx : /\ TokenOn(i) = IF i = p THEN len ELSE 0
                       /\ TokenOn(i)' = 0
    BY <1>5, Sizes DEF TokenOn, NoToken, NoAddr, Idx
  <1> HIDE DEF p, n
  <1>7. /\ op \in OpInfo /\ Fresh(op) /\ op.len >= HeaderSize /\ len \in Nat
        /\ \A i \in Idx : WordsOn(i, op) = IF i = p THEN len ELSE 0
    BY <1>1, <1>3, WriteOpTyped
  <1> HIDE DEF op, len
  <1>8. CallFrame
    <2>1. Queues(op)
      BY <1>4, <1>7 DEF Queues
    <2> QED BY <2>1, <1>1, <1>5, <1>7 DEF CallFrame, Grows
  <1>9. \A i \in Idx : Swapped(i) \/ (fl.kind = "erase" /\ fl.addr = pages[i].addr) =>
              pages'[i].open = 0
    BY <1>1, <1>5 DEF Closed
  <1>10. ASSUME NEW i \in Idx
         PROVE  /\ ReservedOn(i)' \in Nat
                /\ ReservedOn(i)' - ReservedOn(i) <= pages'[i].rsv - pages[i].rsv
                /\ pages'[i].woff + pages'[i].rsv < PageSize
    <2>1. /\ ReservedOn(i)' - ReservedOn(i) = (TokenOn(i)' - TokenOn(i)) + WordsOn(i, op)
          /\ ReservedOn(i)' \in Nat
      BY <1>1, <1>4, <1>6, <1>7, ReservedMore
    <2>2. /\ pages[i].woff \in Nat /\ pages[i].rsv \in Int
          /\ pages[i].woff + pages[i].rsv < PageSize
      BY <1>1, SpaceReady
    <2> QED BY <2>1, <2>2, <1>5, <1>6, <1>7
  <1> QED BY <1>8, <1>9, <1>10, CallStep

\* An operation that writes nothing.
LEMMA QueuedStep ==
    ASSUME IInv, tail.step = "none", phase = "ready", NEW op \in OpInfo, Fresh(op),
           op.code \notin {"write", "update"}, Room(0), Enqueue(op),
           UNCHANGED <<flash, fl, ev, pages, swap, phase, processing, latest, tail, answer,
                       clients>>,
           gc' \in GcInfo, gc'.state = gc.state, gc'.cur = gc.cur, gc'.src = gc.src
    PROVE  IInv'
  <1>1. Typed /\ Closed /\ pages \in [Idx -> PageInfo]
    BY DEF IInv, Typed, ReadyPhase
  <1>2. opq' = Append(opq, op) /\ Len(opq) < OpQueueSize
    BY DEF Enqueue, Room
  <1>3. CallFrame
    <2>1. Queues(op)
      BY <1>2 DEF Queues
    <2> QED BY <2>1, <1>1 DEF CallFrame, Grows, Typed, clients
  <1>4. \A i \in Idx : Swapped(i) \/ (fl.kind = "erase" /\ fl.addr = pages[i].addr) =>
              pages'[i].open = 0
    BY <1>1 DEF Closed
  <1>5. ASSUME NEW i \in Idx
        PROVE  /\ ReservedOn(i)' \in Nat
               /\ ReservedOn(i)' - ReservedOn(i) <= pages'[i].rsv - pages[i].rsv
               /\ pages'[i].woff + pages'[i].rsv < PageSize
    <2>1. TokenOn(i)' = TokenOn(i) /\ TokenOn(i) \in Nat
      BY SpaceReady DEF TokenOn, clients, RecordLen
    <2>2. /\ ReservedOn(i)' - ReservedOn(i) = (TokenOn(i)' - TokenOn(i)) + WordsOn(i, op)
          /\ ReservedOn(i)' \in Nat
      BY <2>1, <1>1, <1>2, ReservedMore
    <2>3. WordsOn(i, op) = 0
      BY DEF WordsOn
    <2>4. /\ pages[i].woff \in Nat /\ pages[i].rsv \in Int
          /\ pages[i].woff + pages[i].rsv < PageSize
      BY SpaceReady
    <2> QED BY <2>1, <2>2, <2>3, <2>4
  <1> QED BY <1>3, <1>4, <1>5, CallStep

LEMMA DeleteStarts ==
    ASSUME IInv, tail.step = "none", RecordDelete \/ FileDelete
    PROVE  IInv'
  <1>1. gc \in GcInfo
    BY DEF IInv, Typed
  <1>2. CASE RecordDelete
    <2>1. PICK id \in 1 .. latest :
             DeleteEnqueue([Op("delete", "flagRecord") EXCEPT !.id = id])
      BY <1>2 DEF RecordDelete
    <2> DEFINE op == [Op("delete", "flagRecord") EXCEPT !.id = id]
    <2>2. op.code = "delete" /\ op.step = "flagRecord"
      BY DEF Op
    <2>3. op \in OpInfo
      <3>1. id \in Nat
        BY DEF IInv, Typed
      <3>2. op = [code |-> "delete", step |-> "flagRecord", page |-> 0, id |-> id,
                  file |-> NoFile, len |-> 0, left |-> 0, old |-> 0, desc |-> <<0, 0>>]
        BY DEF Op
      <3> HIDE DEF op
      <3> QED BY <3>1, <3>2, Sizes DEF OpInfo, OpSteps
    <2> HIDE DEF op
    <2>4. DeleteEnqueue(op)
      BY <2>1 DEF op
    <2> QED BY <2>2, <2>3, <2>4, <1>1, QueuedStep DEF DeleteEnqueue, Fresh
  <1>3. CASE FileDelete
    <2>1. PICK f \in Files :
             DeleteEnqueue([Op("deleteFile", "flagFile") EXCEPT !.file = f])
      BY <1>3 DEF FileDelete
    <2> DEFINE op == [Op("deleteFile", "flagFile") EXCEPT !.file = f]
    <2>2. op.code = "deleteFile" /\ op.step = "flagFile"
      BY DEF Op
    <2>3. op \in OpInfo
      <3>1. op = [code |-> "deleteFile", step |-> "flagFile", page |-> 0, id |-> 0,
                  file |-> f, len |-> 0, left |-> 0, old |-> 0, desc |-> <<0, 0>>]
        BY DEF Op
      <3> HIDE DEF op
      <3> QED BY <3>1, Sizes DEF OpInfo, OpSteps
    <2> HIDE DEF op
    <2>4. DeleteEnqueue(op)
      BY <2>1 DEF op
    <2> QED BY <2>2, <2>3, <2>4, <1>1, QueuedStep DEF DeleteEnqueue, Fresh
  <1> QED BY <1>2, <1>3

LEMMA GcCallStep ==
    ASSUME IInv, tail.step = "none", GcCall
    PROVE  IInv'
  <1> DEFINE op == Op("gc", "none")
             on == gc.resume \/ gc.state # "begin"
  <1>1. gc \in GcInfo
    BY DEF IInv, Typed
  <1>2. op.code = "gc" /\ op.step = "none" /\ op \in OpInfo
    BY Sizes DEF Op, OpInfo, OpSteps
  <1>3. gc' = [gc EXCEPT !.resume = on] /\ on \in BOOLEAN
    BY <1>1 DEF GcCall, GcInfo
  <1>4. Enqueue(op)
    BY DEF GcCall
  <1> HIDE DEF op, on
  <1>5. gc' \in GcInfo /\ gc'.state = gc.state /\ gc'.cur = gc.cur /\ gc'.src = gc.src
    BY <1>1, <1>3 DEF GcInfo
  <1> QED BY <1>2, <1>4, <1>5, QueuedStep DEF GcCall, Fresh

\* A record is opened only where there are records: not on a page that is
\* being erased, unless upset says so.
LEMMA RecordOpenStep ==
    ASSUME IInv, tail.step = "none", RecordOpen, upset' = {}
    PROVE  IInv'
  <1>1. /\ Typed /\ Mapped /\ FlashOK /\ Closed /\ phase = "ready"
        /\ pages \in [Idx -> PageInfo] /\ gc \in GcInfo
    BY Zenon DEF IInv, Typed, ReadyPhase, RecordOpen
  <1>2. PICK f \in Files :
          /\ PlacesInFile(f, <<0, 0>>) # {}
          /\ LET p == FirstOf(PlacesInFile(f, <<0, 0>>))
                 a == pages[p[1]].addr
                 r == flash[a].recs[p[2]]
             IN /\ pages' = [pages EXCEPT ![p[1]].open = @ + 1]
                /\ reader' = [id |-> r.id, addr |-> a, off |-> r.off, run |-> gc.run]
                /\ upset' = IF fl.kind = "erase" /\ fl.addr = a
                            THEN upset \cup {"lateOpen"} ELSE upset
    BY Zenon DEF RecordOpen
  <1> DEFINE P == PlacesInFile(f, <<0, 0>>)
             q == FirstOf(P)
             p == q[1]
             x == pages[p].open + 1
  <1>3. P \subseteq Idx \X Positions /\ P # {}
    BY Zenon, <1>2 DEF PlacesInFile
  <1>4. q \in P
    <2> HIDE DEF P
    <2> QED BY <1>3, FirstFound
  <1>5. p \in Idx /\ ValidAt(pages[p].addr, q[2])
    <2> HIDE DEF q
    <2> QED BY <1>4 DEF PlacesInFile
  <1>6. pages' = [pages EXCEPT ![p].open = x] /\ ~(fl.kind = "erase" /\ fl.addr = pages[p].addr)
    <2>1. pages' = [pages EXCEPT ![p].open = x]
      BY <1>2
    <2>2. upset' = IF fl.kind = "erase" /\ fl.addr = pages[p].addr
                   THEN upset \cup {"lateOpen"} ELSE upset
      BY <1>2
    <2> QED BY <2>1, <2>2
  <1> HIDE DEF q, p
  <1>7. x \in Nat
    BY <1>1, <1>5 DEF PageInfo
  <1> HIDE DEF x
  <1>8. /\ pages' \in [Idx -> PageInfo]
        /\ \A i \in Idx : /\ pages'[i].type = pages[i].type /\ pages'[i].addr = pages[i].addr
                          /\ pages'[i].woff = pages[i].woff /\ pages'[i].rsv = pages[i].rsv
                          /\ pages'[i].open = IF i = p THEN x ELSE pages[i].open
    BY <1>1, <1>5, <1>6, <1>7, OpenChanged
  <1>9. UNCHANGED <<flash, fl, ev, swap, gc, opq, phase, processing, latest, tail, answer, token>>
    BY DEF RecordOpen
  <1>10. ~Swapped(p)
    <2>1. q[2] \in DOMAIN Recs(pages[p].addr)
      BY <1>5 DEF ValidAt, Walked, Recs
    <2>2. Recs(pages[p].addr) # <<>>
      BY <2>1
    <2>3. pages[p].addr \in Addrs
      BY <1>1, <1>5, PageOf
    <2> QED BY <2>2, <2>3, <1>1 DEF Swapped, FlashOK
  <1>11. CallFrame
    BY <1>1, <1>8, <1>9 DEF CallFrame, Grows, Typed
  <1>12. \A i \in Idx : Swapped(i) \/ (fl.kind = "erase" /\ fl.addr = pages[i].addr) =>
              pages'[i].open = 0
    BY <1>1, <1>6, <1>8, <1>10 DEF Closed
  <1>13. ASSUME NEW i \in Idx
         PROVE  /\ ReservedOn(i)' \in Nat
                /\ ReservedOn(i)' - ReservedOn(i) <= pages'[i].rsv - pages[i].rsv
                /\ pages'[i].woff + pages'[i].rsv < PageSize
    <2>1. TokenOn(i)' = TokenOn(i) /\ TokenOn(i) \in Nat
      BY <1>1, <1>9, SpaceReady DEF TokenOn, RecordLen
    <2>2. /\ ReservedOn(i)' - ReservedOn(i) = TokenOn(i)' - TokenOn(i)
          /\ ReservedOn(i)' \in Nat
      BY <2>1, <1>1, <1>9, ReservedSame
    <2>3. /\ pages[i].woff + pages[i].rsv < PageSize /\ pages[i].rsv \in Int
      BY <1>1, SpaceReady
    <2> QED BY <2>1, <2>2, <2>3, <1>8
  <1> QED BY <1>11, <1>12, <1>13, CallStep

LEMMA RecordCloseStep ==
    ASSUME IInv, tail.step = "none", RecordClose, upset' = {}
    PROVE  IInv'
  <1>1. /\ Typed /\ Mapped /\ Closed /\ phase = "ready"
        /\ pages \in [Idx -> PageInfo] /\ gc \in GcInfo
    BY DEF IInv, Typed, ReadyPhase, RecordClose
  <1> DEFINE found == {i \in ReaderPages : pages[i].open > 0}
             p == Min(found)
             x == pages[p].open - 1
  <1>2. found # {} /\ pages' = [pages EXCEPT ![p].open = x]
    BY DEF RecordClose
  <1>3. ReaderPages \subseteq Idx
    <2>1. \A ik \in Places(reader.id) : ik[1] \in Idx
      BY DEF Places
    <2> QED BY <2>1 DEF ReaderPages
  <1>4. found \in SUBSET Nat
    BY <1>3, Sizes
  <1>5. p \in found
    <2> HIDE DEF found
    <2> QED BY <1>2, <1>4, LeastOf
  <1> HIDE DEF p
  <1>6. p \in Idx /\ pages[p].open > 0
    BY <1>3, <1>5
  <1>7. x \in Nat
    BY <1>1, <1>6 DEF PageInfo
  <1> HIDE DEF x, found
  <1>8. /\ pages' \in [Idx -> PageInfo]
        /\ \A i \in Idx : /\ pages'[i].type = pages[i].type /\ pages'[i].addr = pages[i].addr
                          /\ pages'[i].woff = pages[i].woff /\ pages'[i].rsv = pages[i].rsv
                          /\ pages'[i].open = IF i = p THEN x ELSE pages[i].open
    BY <1>1, <1>2, <1>6, <1>7, OpenChanged
  <1>9. UNCHANGED <<flash, fl, ev, swap, gc, opq, phase, processing, latest, tail, answer, token>>
    BY DEF RecordClose
  <1>10. CallFrame
    BY <1>1, <1>8, <1>9 DEF CallFrame, Grows, Typed
  <1>11. \A i \in Idx : Swapped(i) \/ (fl.kind = "erase" /\ fl.addr = pages[i].addr) =>
              pages'[i].open = 0
    BY <1>1, <1>6, <1>8 DEF Closed
  <1>12. ASSUME NEW i \in Idx
         PROVE  /\ ReservedOn(i)' \in Nat
                /\ ReservedOn(i)' - ReservedOn(i) <= pages'[i].rsv - pages[i].rsv
                /\ pages'[i].woff + pages'[i].rsv < PageSize
    <2>1. TokenOn(i)' = TokenOn(i) /\ TokenOn(i) \in Nat
      BY <1>1, <1>9, SpaceReady DEF TokenOn, RecordLen
    <2>2. /\ ReservedOn(i)' - ReservedOn(i) = TokenOn(i)' - TokenOn(i)
          /\ ReservedOn(i)' \in Nat
      BY <2>1, <1>1, <1>9, ReservedSame
    <2>3. /\ pages[i].woff + pages[i].rsv < PageSize /\ pages[i].rsv \in Int
      BY <1>1, SpaceReady
    <2> QED BY <2>1, <2>2, <2>3, <1>8
  <1> QED BY <1>10, <1>11, <1>12, CallStep

LEMMA CallsStep ==
    ASSUME IInv, tail.step = "none", Calls, upset' = {}
    PROVE  IInv'
  <1>1. CASE RecordWrite
    <2>1. PICK f \in Files, n \in ChunkCounts : WriteEnqueue("write", f, n, 0)
      BY <1>1 DEF RecordWrite
    <2> QED BY <2>1, WriteEnqueueStep
  <1>2. CASE RecordUpdate
    <2>1. PICK f \in Files, n \in ChunkCounts, id \in 1 .. latest :
             WriteEnqueue("update", f, n, id)
      BY <1>2 DEF RecordUpdate
    <2>2. id \in Nat
      BY DEF IInv, Typed
    <2> QED BY <2>1, <2>2, WriteEnqueueStep
  <1>3. CASE RecordDelete \/ FileDelete
    BY <1>3, DeleteStarts
  <1>4. CASE GcCall
    BY <1>4, GcCallStep
  <1>5. CASE Reserve
    BY <1>5, ReserveStep
  <1>6. CASE ReserveCancel
    BY <1>6, ReserveCancelStep
  <1>7. CASE RecordWriteReserved
    BY <1>7, RecordWriteReservedStep
  <1>8. CASE ZeroTokenCancel
    BY <1>8 DEF ZeroTokenCancel
  <1>9. CASE RecordOpen
    BY <1>9, RecordOpenStep
  <1>10. CASE RecordClose
    BY <1>10, RecordCloseStep
  <1> QED BY <1>1, <1>2, <1>3, <1>4, <1>5, <1>6, <1>7, <1>8, <1>9, <1>10 DEF Calls

-----------------------------------------------------------------------------
(* The power fails.                                                        *)

\* Also if the event of the flash operation is lost, there is one swap at
\* most, and a page that is no data page.
LEMMA TagsApplied ==
    ASSUME IInv, Busy, Done
    PROVE  OneSwap' /\ NotAllData'
  <1>1. /\ OneSwap /\ NotAllData /\ Typed /\ FlashOK
        /\ fl.addr \in Addrs /\ phase \in {"initializing", "ready"} /\ ev = "none"
    BY BusyTurn DEF IInv
  <1>2. \A a \in Addrs : Tag(a) \in Tags
    BY <1>1, PagesTyped
  <1>3. \A a \in Addrs :
          /\ a # fl.addr => Tag(a)' = Tag(a)
          /\ a = fl.addr =>
                /\ fl.kind = "erase" => Tag(a)' = "erased"
                /\ fl.kind \in {"swap", "data"} => Tag(a)' = Tagged(Tag(a), fl.kind)
                /\ fl.kind \notin {"erase", "swap", "data"} => Tag(a)' = Tag(a)
    BY DEF Done, Tag
  <1>4. \A a \in Addrs : /\ Tagged(Tag(a), "data") = "data"
                         /\ Tag(a) # "data" => Tagged(Tag(a), "swap") = "swap"
    BY <1>2 DEF Tagged, Tags
  <1>5. ASSUME NEW o \in Addrs, o = swap.addr, phase = "initializing", Current.step # "promote"
        PROVE  OneSwap' /\ NotAllData'
    <2>1. /\ \A a \in Addrs \ {o} : Tag(a) = "swap" => fl.kind = "data" /\ fl.addr = a
          /\ Tag(o) # "data"
          /\ fl.kind \in {"swap", "data", "erase"}
          /\ fl.kind = "data" => fl.addr # o
          /\ fl.kind \in {"swap", "erase"} => fl.addr = o
      BY <1>1, <1>5 DEF IInv, InitPhase, InitTags, Busy
    <2>2. (\A a \in Addrs \ {o} : Tag(a)' # "swap") /\ Tag(o)' # "data"
      BY <2>1, <1>3, <1>4
    <2> QED BY <2>2 DEF OneSwap, NotAllData
  <1>6. ASSUME NEW o \in Addrs, o = swap.addr, phase = "initializing", Current.step = "promote"
        PROVE  OneSwap' /\ NotAllData'
    <2>1. /\ \A a \in Addrs \ {o} : Tag(a) # "swap"
          /\ \E a \in Addrs \ {o} : Tag(a) = "erased"
          /\ fl.kind = "data" /\ fl.addr = o
      BY <1>6 DEF IInv, InitPhase, InitPromotes, Busy
    <2>2. /\ \A a \in Addrs \ {o} : Tag(a)' # "swap"
          /\ \E a \in Addrs \ {o} : Tag(a)' = "erased"
      BY <2>1, <1>3
    <2> QED BY <2>2 DEF OneSwap, NotAllData
  <1>7. ASSUME NEW o \in Addrs, o = swap.addr, phase = "ready"
        PROVE  OneSwap' /\ NotAllData'
    <2>1. /\ Tag(o) # "data"
          /\ fl.kind = "data" => fl.addr # o /\ Tag(o) = "erased"
          /\ fl.kind = "swap" => fl.addr = o /\ \A a \in Addrs \ {o} : Tag(a) # "swap"
      <3>1. ReadyTags /\ ReadyFlash /\ Mapped /\ gc.cur \in Idx
        BY <1>1, <1>7 DEF IInv, ReadyPhase, Typed, GcInfo
      <3> QED BY <3>1, <1>7 DEF ReadyTags, ReadyFlash, Mapped
    <2>2. CASE fl.kind = "swap"
      <3>1. (\A a \in Addrs \ {o} : Tag(a)' # "swap") /\ Tag(o)' # "data"
        BY <2>1, <2>2, <1>3, <1>4
      <3> QED BY <3>1 DEF OneSwap, NotAllData
    <2>3. CASE fl.kind # "swap"
      <3>1. \A a \in Addrs : Tag(a)' = "swap" => Tag(a) = "swap"
        BY <2>3, <1>3, <1>4
      <3>2. Tag(o)' # "data"
        BY <2>1, <2>3, <1>3
      <3> QED BY <3>1, <3>2, <1>1 DEF OneSwap, NotAllData
    <2> QED BY <2>2, <2>3
  <1>8. swap.addr \in Addrs
    BY <1>1 DEF IInv, InitPhase, ReadyPhase, Mapped
  <1> QED BY <1>1, <1>5, <1>6, <1>7, <1>8

LEMMA PowerFailStep ==
    ASSUME IInv, upset = {}, PowerFail, upset' = {}
    PROVE  IInv'
  <1>1. OneSwap' /\ NotAllData' /\ FlashOK' /\ flash' \in [Addrs -> Page]
    <2>1. CASE flash' = flash
      BY <2>1, FlashSame DEF IInv, Typed
    <2>2. CASE /\ flash' = Applied(fl)
               /\ upset' = IF fl.kind = "begin" /\ GcStale(fl) THEN upset \cup {"gcStale"}
                           ELSE upset
      <3>1. CASE Busy
        <4>1. fl.kind = "begin" => ~GcStale(fl)
          BY <2>2
        <4>2. Done /\ FlashOK'
          BY <2>2, <3>1, <4>1, AppliedOK
        <4>3. OneSwap' /\ NotAllData'
          BY <3>1, <4>2, TagsApplied
        <4> QED BY <4>2, <4>3 DEF Done
      <3>2. CASE ~Busy
        <4>1. flash' = flash
          BY <2>2, <3>2 DEF Applied, Busy
        <4> QED BY <4>1, FlashSame DEF IInv, Typed
      <3> QED BY <3>1, <3>2
    <2> QED BY <2>1, <2>2 DEF PowerFail
  <1>2. RamAtReset
    BY DEF PowerFail
  <1>3. Typed'
    <2>1. BlankPage \in PageInfo
      BY Sizes DEF BlankPage, PageInfo
    <2>2. pages' \in [Idx -> PageInfo]
      BY <2>1, <1>2 DEF RamAtReset
    <2>3. gc' \in GcInfo
      BY <1>2, Sizes DEF RamAtReset, BlankGc, GcInfo, GcStates
    <2>4. swap' \in [addr : Addrs \cup {NoAddr}, woff : Nat]
      BY <1>2 DEF RamAtReset
    <2>5. tail' \in [step : InitSteps \cup {"none"}, page : Idx]
      BY <1>2, Sizes DEF RamAtReset
    <2>6. opq' \in Seq(OpInfo) /\ Len(opq') <= OpQueueSize
      BY <1>2, Sizes DEF RamAtReset
    <2>7. FlTyped'
      BY <1>2 DEF RamAtReset, FlTyped, NoFl, WriteKinds
    <2> QED BY <2>2, <2>3, <2>4, <2>5, <2>6, <2>7, <1>1, <1>2 DEF Typed, RamAtReset
  <1>4. Turns'
    BY <1>2 DEF RamAtReset, Turns, Busy, NoFl
  <1>5. Behind'
    BY <1>2 DEF RamAtReset, Behind
  <1>6. OffPhase' /\ FailedPhase' /\ InitPhase' /\ ReadyPhase'
    BY <1>2 DEF RamAtReset, OffPhase, FailedPhase, InitPhase, ReadyPhase
  <1> QED BY <1>1, <1>3, <1>4, <1>5, <1>6 DEF IInv

-----------------------------------------------------------------------------
(* The power comes back: what fds_init finds.                              *)

\* page_scan ends where the records end: there are no holes.
LEMMA ScannedTo ==
    ASSUME Typed, FlashOK, NEW a \in Addrs
    PROVE  WordsWritten(a) = EndOf(Recs(a)) /\ WordsWritten(a) \in Nat
  <1> DEFINE p == Recs(a)
  <1> SUFFICES WordsWritten(a) = EndOf(p) /\ WordsWritten(a) \in Nat
    OBVIOUS
  <1>1. p \in Seq(Slots) /\ Chain(p) /\ EndOf(p) \in Nat
    BY PagesTyped
  <1>2. Walked(a) = DOMAIN p
    BY <1>1 DEF Walked, Chain, Recs
  <1>3. WordsWritten(a) = IF DOMAIN p = {} THEN TagSize
                          ELSE p[Max(DOMAIN p)].off + p[Max(DOMAIN p)].len
    BY <1>2 DEF WordsWritten, Recs
  <1> HIDE DEF p
  <1>4. CASE p = <<>>
    <2>1. DOMAIN p = {}
      BY <1>4
    <2>2. WordsWritten(a) = TagSize
      BY <1>3, <2>1
    <2> QED BY <1>1, <2>2, <1>4 DEF EndOf
  <1>5. CASE p # <<>>
    <2>1. Len(p) \in Nat \ {0} /\ DOMAIN p = 1 .. Len(p)
      BY <1>1, <1>5
    <2> DEFINE D == DOMAIN p
               m == Max(D)
    <2>2. D \in SUBSET Nat /\ Len(p) \in D /\ \A k \in D : k <= Len(p)
      BY <2>1
    <2> HIDE DEF D
    <2>3. m \in D /\ \A k \in D : m >= k
      BY <2>1, <2>2, GreatestOf
    <2>4. m = Len(p)
      <3>1. m \in Nat /\ Len(p) \in Nat /\ m >= Len(p) /\ m <= Len(p)
        <4> HIDE DEF m
        <4> QED BY <2>1, <2>2, <2>3
      <3> HIDE DEF m
      <3> QED BY <3>1
    <2>5. WordsWritten(a) = p[Len(p)].off + p[Len(p)].len
      <3>1. D # {}
        BY <2>2
      <3> QED BY <3>1, <2>4, <1>3 DEF D
    <2>6. EndOf(p) = p[Len(p)].off + p[Len(p)].len
      BY <1>1, <1>5 DEF EndOf, Last
    <2> QED BY <2>5, <2>6, <1>1
  <1> QED BY <1>4, <1>5

Kinds == {"erased", "data", "swapEmpty", "swapDirty"}

\* What pages_init knows of the pages it has looked at.
Scans == [pages : [Idx -> PageInfo], n : Nat, swap : [addr : Addrs \cup {NoAddr}, woff : Nat],
          assumed : BOOLEAN, cur : Nat, scanned : SUBSET Addrs, seen : SUBSET Kinds]

\* A page of m_pages as pages_init sets it.
IsPage(q, type, b, woff) ==
    /\ q \in PageInfo /\ q.type = type /\ q.addr = b /\ q.woff = woff /\ q.rsv = 0 /\ q.open = 0

\* The page at address b is put behind the others.
Puts(s, t, type, b, woff) ==
    /\ \E q : /\ IsPage(q, type, b, woff)
              /\ t.pages = IF s.n < MaxPages THEN [s.pages EXCEPT ![s.n] = q] ELSE s.pages
    /\ t.n = s.n + 1

PutsNone(s, t) == t.pages = s.pages /\ t.n = s.n

SwapKind(a) == IF WordsWritten(a) = TagSize THEN "swapEmpty" ELSE "swapDirty"

\* One more page, by its tag.
FoundErased(s, a, t) ==
    /\ Tag(a) = "erased" /\ s.swap.addr # NoAddr
    /\ Puts(s, t, "erased", a, TagSize)
    /\ t.swap = s.swap /\ t.assumed = s.assumed /\ t.cur = s.n
    /\ t.scanned = s.scanned /\ t.seen = s.seen \cup {"erased"}

FoundFirst(s, a, t) ==
    /\ Tag(a) = "erased" /\ s.swap.addr = NoAddr
    /\ PutsNone(s, t)
    /\ t.swap = [addr |-> a, woff |-> TagSize] /\ t.assumed = TRUE /\ t.cur = s.cur
    /\ t.scanned = s.scanned /\ t.seen = s.seen \cup {"erased"}

FoundData(s, a, t) ==
    /\ Tag(a) = "data"
    /\ Puts(s, t, "data", a, WordsWritten(a))
    /\ t.swap = s.swap /\ t.assumed = s.assumed /\ t.cur = s.cur
    /\ t.scanned = s.scanned \cup {a} /\ t.seen = s.seen \cup {"data"}

FoundSwap(s, a, t) ==
    /\ Tag(a) = "swap"
    /\ IF s.assumed THEN Puts(s, t, "erased", s.swap.addr, TagSize) ELSE PutsNone(s, t)
    /\ t.swap = [addr |-> a, woff |-> WordsWritten(a)]
    /\ t.assumed = s.assumed /\ t.cur = s.cur
    /\ t.scanned = s.scanned \cup {a} /\ t.seen = s.seen \cup {SwapKind(a)}

LEMMA BlankTyped == BlankPage \in PageInfo /\ BlankPage.rsv = 0 /\ BlankPage.open = 0
  BY Sizes DEF BlankPage, PageInfo

LEMMA PageSet ==
    ASSUME NEW type \in {"data", "erased"}, NEW b \in Addrs \cup {NoAddr}, NEW woff \in Nat
    PROVE  IsPage([BlankPage EXCEPT !.type = type, !.addr = b, !.woff = woff], type, b, woff)
  <1> DEFINE q == [BlankPage EXCEPT !.type = type, !.addr = b, !.woff = woff]
  <1>1. q \in PageInfo
    BY BlankTyped DEF PageInfo
  <1>2. q.type = type /\ q.addr = b /\ q.woff = woff /\ q.rsv = 0 /\ q.open = 0
    BY BlankTyped DEF PageInfo
  <1> QED BY <1>1, <1>2 DEF IsPage

LEMMA PageSetGc ==
    ASSUME NEW q, NEW type, NEW b, NEW woff, IsPage(q, type, b, woff), NEW can \in BOOLEAN
    PROVE  IsPage([q EXCEPT !.canGc = can], type, b, woff)
  <1> DEFINE r == [q EXCEPT !.canGc = can]
  <1>1. q \in PageInfo /\ q.type = type /\ q.addr = b /\ q.woff = woff /\ q.rsv = 0 /\ q.open = 0
    BY DEF IsPage
  <1>2. r \in PageInfo
    BY <1>1 DEF PageInfo
  <1>3. r.type = type /\ r.addr = b /\ r.woff = woff /\ r.rsv = 0 /\ r.open = 0
    BY <1>1 DEF PageInfo
  <1> QED BY <1>2, <1>3 DEF IsPage

LEMMA PageFoundIs ==
    ASSUME Typed, FlashOK, NEW s \in Scans, NEW a \in Addrs, NEW t, t = PageFound(s, a)
    PROVE  /\ t \in Scans
           /\ \/ FoundErased(s, a, t) \/ FoundFirst(s, a, t)
              \/ FoundData(s, a, t) \/ FoundSwap(s, a, t)
  <1>1. /\ Tag(a) \in {"erased", "swap", "data"} /\ WordsWritten(a) \in Nat /\ TagSize \in Nat
        /\ Tag(a) = flash[a].tag
    BY PagesTyped, ScannedTo, Sizes DEF Tags, Tag
  <1>2. /\ s.pages \in [Idx -> PageInfo] /\ s.n \in Nat /\ s.swap.addr \in Addrs \cup {NoAddr}
        /\ s.assumed \in BOOLEAN
        /\ s = [pages |-> s.pages, n |-> s.n, swap |-> s.swap, assumed |-> s.assumed,
                cur |-> s.cur, scanned |-> s.scanned, seen |-> s.seen]
    BY DEF Scans
  <1>0. /\ \A k \in Kinds : s.seen \cup {k} \in SUBSET Kinds
        /\ {"erased", "data", SwapKind(a)} \subseteq Kinds
        /\ s.scanned \cup {a} \in SUBSET Addrs /\ s.n + 1 \in Nat
        /\ \A w \in Nat : [addr |-> a, woff |-> w] \in [addr : Addrs \cup {NoAddr}, woff : Nat]
    BY DEF Scans, Kinds, SwapKind
  <1> DEFINE put(q) == IF s.n < MaxPages THEN [s.pages EXCEPT ![s.n] = q] ELSE s.pages
  <1>3. CASE Tag(a) = "erased" /\ s.swap.addr # NoAddr
    <2> DEFINE q == [BlankPage EXCEPT !.type = "erased", !.addr = a, !.woff = TagSize]
    <2>1. IsPage(q, "erased", a, TagSize)
      BY <1>1, PageSet
    <2>2. t = [s EXCEPT !.pages = put(q), !.n = s.n + 1, !.cur = s.n,
                        !.seen = s.seen \cup {"erased"}]
      BY <1>1, <1>3 DEF PageFound
    <2> HIDE DEF q
    <2> DEFINE new == put(q)
    <2>3. new = IF s.n < MaxPages THEN [s.pages EXCEPT ![s.n] = q] ELSE s.pages
      OBVIOUS
    <2> HIDE DEF new
    <2>4. /\ t.pages = new /\ t.n = s.n + 1 /\ t.cur = s.n /\ t.seen = s.seen \cup {"erased"}
          /\ t.swap = s.swap /\ t.assumed = s.assumed /\ t.scanned = s.scanned
      BY <2>2, <1>2 DEF new
    <2>5. new \in [Idx -> PageInfo]
      BY <2>1, <2>3, <1>2 DEF IsPage
    <2>6. t \in Scans
      BY <2>2, <2>5, <1>0 DEF Scans, new
    <2> QED BY <2>1, <2>3, <2>4, <2>6, <1>3 DEF FoundErased, Puts
  <1>4. CASE Tag(a) = "erased" /\ s.swap.addr = NoAddr
    <2>1. t = [s EXCEPT !.swap = [addr |-> a, woff |-> TagSize], !.assumed = TRUE,
                        !.seen = s.seen \cup {"erased"}]
      BY <1>1, <1>4 DEF PageFound
    <2>2. /\ t.pages = s.pages /\ t.n = s.n /\ t.cur = s.cur /\ t.seen = s.seen \cup {"erased"}
          /\ t.swap = [addr |-> a, woff |-> TagSize] /\ t.assumed = TRUE
          /\ t.scanned = s.scanned
      BY <2>1, <1>2
    <2>3. t \in Scans
      <3> DEFINE w == [addr |-> a, woff |-> TagSize]
                 u == s.seen \cup {"erased"}
                 yes == TRUE
      <3>1. /\ w \in [addr : Addrs \cup {NoAddr}, woff : Nat] /\ u \in SUBSET Kinds
            /\ yes \in BOOLEAN
        BY <1>0, <1>1
      <3>2. t = [s EXCEPT !.swap = w, !.assumed = yes, !.seen = u]
        BY <2>1
      <3> HIDE DEF w, u, yes
      <3> QED BY <3>1, <3>2 DEF Scans
    <2> QED BY <2>2, <2>3, <1>4 DEF FoundFirst, PutsNone
  <1>5. CASE Tag(a) = "data"
    <2> DEFINE can == DirtyFound(a)
               q == [[BlankPage EXCEPT !.type = "data", !.addr = a, !.woff = WordsWritten(a)]
                        EXCEPT !.canGc = can]
    <2>1. IsPage(q, "data", a, WordsWritten(a))
      <3>1. can \in BOOLEAN
        BY DEF DirtyFound
      <3>2. IsPage([BlankPage EXCEPT !.type = "data", !.addr = a, !.woff = WordsWritten(a)],
                   "data", a, WordsWritten(a))
        BY <1>1, PageSet
      <3> HIDE DEF can
      <3> QED BY <3>1, <3>2, PageSetGc
    <2>2. t = [s EXCEPT !.pages = put(q), !.n = s.n + 1, !.scanned = s.scanned \cup {a},
                        !.seen = s.seen \cup {"data"}]
      BY <1>1, <1>5 DEF PageFound
    <2> HIDE DEF q
    <2> DEFINE new == put(q)
    <2>3. new = IF s.n < MaxPages THEN [s.pages EXCEPT ![s.n] = q] ELSE s.pages
      OBVIOUS
    <2> HIDE DEF new
    <2>4. /\ t.pages = new /\ t.n = s.n + 1 /\ t.cur = s.cur /\ t.seen = s.seen \cup {"data"}
          /\ t.swap = s.swap /\ t.assumed = s.assumed /\ t.scanned = s.scanned \cup {a}
      BY <2>2, <1>2 DEF new
    <2>5. new \in [Idx -> PageInfo]
      BY <2>1, <2>3, <1>2 DEF IsPage
    <2>6. t \in Scans
      BY <2>2, <2>5, <1>0 DEF Scans, new
    <2> QED BY <2>1, <2>3, <2>4, <2>6, <1>5 DEF FoundData, Puts
  <1>6. CASE Tag(a) = "swap"
    <2> DEFINE q == [BlankPage EXCEPT !.type = "erased", !.addr = s.swap.addr,
                                    !.woff = TagSize]
               new == IF s.assumed THEN put(q) ELSE s.pages
               n == s.n + IF s.assumed THEN 1 ELSE 0
    <2>1. IsPage(q, "erased", s.swap.addr, TagSize)
      BY <1>1, <1>2, PageSet
    <2>2. t = [s EXCEPT !.pages = new, !.n = n,
                        !.swap = [addr |-> a, woff |-> WordsWritten(a)],
                        !.scanned = s.scanned \cup {a}, !.seen = s.seen \cup {SwapKind(a)}]
      BY <1>1, <1>6 DEF PageFound, SwapKind
    <2> HIDE DEF q
    <2>3. /\ s.assumed =>
               new = IF s.n < MaxPages THEN [s.pages EXCEPT ![s.n] = q] ELSE s.pages
          /\ ~s.assumed => new = s.pages
      OBVIOUS
    <2>4. n = IF s.assumed THEN s.n + 1 ELSE s.n
      BY <1>2
    <2> HIDE DEF new, n
    <2>5. /\ t.pages = new /\ t.n = n /\ t.cur = s.cur
          /\ t.seen = s.seen \cup {SwapKind(a)}
          /\ t.swap = [addr |-> a, woff |-> WordsWritten(a)] /\ t.assumed = s.assumed
          /\ t.scanned = s.scanned \cup {a}
      BY <2>2, <1>2 DEF new, n
    <2>6. new \in [Idx -> PageInfo] /\ n \in Nat
      BY <2>1, <2>3, <2>4, <1>2, <1>0 DEF IsPage
    <2>7. t \in Scans
      <3> DEFINE w == [addr |-> a, woff |-> WordsWritten(a)]
                 u == s.seen \cup {SwapKind(a)}
                 v == s.scanned \cup {a}
      <3>1. /\ w \in [addr : Addrs \cup {NoAddr}, woff : Nat] /\ u \in SUBSET Kinds
            /\ v \in SUBSET Addrs
        BY <1>0, <1>1
      <3>2. t = [s EXCEPT !.pages = new, !.n = n, !.swap = w, !.scanned = v, !.seen = u]
        BY <2>2
      <3> HIDE DEF w, u, v, new, n
      <3> QED BY <3>1, <3>2, <2>6 DEF Scans
    <2> QED BY <2>1, <2>3, <2>4, <2>5, <2>7, <1>6 DEF FoundSwap, Puts, PutsNone
  <1> QED BY <1>1, <1>3, <1>4, <1>5, <1>6

Below(n) == {a \in Addrs : a < n}

\* The first m elements of m_pages stand for different pages of A.
PagesKnown(p, m, A) ==
    /\ \A i \in Idx : i < m =>
          /\ p[i].addr \in A
          /\ p[i].type = Tag(p[i].addr) /\ p[i].woff = EndOf(Recs(p[i].addr))
          /\ p[i].rsv = 0 /\ p[i].open = 0
    /\ \A i, j \in Idx : i < m /\ j < m /\ p[i].addr = p[j].addr => i = j

SwapKnown(s, n) ==
    /\ s.n = IF s.swap.addr = NoAddr THEN n ELSE n - 1
    /\ s.swap.addr = NoAddr => ~s.assumed /\ \A a \in Below(n) : Tag(a) = "data"
    /\ s.swap.addr # NoAddr =>
          /\ s.swap.addr \in Below(n) /\ Tag(s.swap.addr) # "data"
          /\ s.swap.woff = EndOf(Recs(s.swap.addr))
          /\ Tag(s.swap.addr) = "erased" => s.assumed
    /\ \A a \in Below(n) : Tag(a) = "swap" => a = s.swap.addr
    /\ s.cur \in Idx

\* Which kind of page a page is for fds_init.
KindOf(a) == IF Tag(a) = "swap" THEN SwapKind(a) ELSE Tag(a)

KindsKnown(s, n) == s.seen = {KindOf(a) : a \in Below(n)}

\* What pages_init knows when it has looked at the pages below n.
ScanOK(s, n) ==
    /\ PagesKnown(s.pages, s.n, Below(n) \ {s.swap.addr})
    /\ SwapKnown(s, n) /\ KindsKnown(s, n)

LEMMA KnownPut ==
    ASSUME NEW p \in [Idx -> PageInfo], NEW m \in Idx, NEW A, NEW B, PagesKnown(p, m, A),
           NEW b, b \in B \ A, A \subseteq B, NEW q, IsPage(q, Tag(b), b, EndOf(Recs(b)))
    PROVE  PagesKnown([p EXCEPT ![m] = q], m + 1, B)
  <1> DEFINE r == [p EXCEPT ![m] = q]
  <1>1. /\ r[m] = q /\ \A i \in Idx \ {m} : r[i] = p[i]
        /\ q.addr = b /\ q.type = Tag(b) /\ q.woff = EndOf(Recs(b)) /\ q.rsv = 0 /\ q.open = 0
    BY DEF IsPage
  <1> HIDE DEF r
  <1>2. Idx \subseteq Nat
    BY Sizes
  <1>3. ASSUME NEW i \in Idx, i < m + 1, i # m
        PROVE  i < m /\ r[i] = p[i]
    BY <1>1, <1>2, <1>3
  <1>4. ASSUME NEW i \in Idx, i < m + 1
        PROVE  /\ r[i].addr \in B
               /\ r[i].type = Tag(r[i].addr) /\ r[i].woff = EndOf(Recs(r[i].addr))
               /\ r[i].rsv = 0 /\ r[i].open = 0
               /\ i # m => r[i].addr \in A
    <2>1. CASE i = m
      BY <2>1, <1>1
    <2>2. CASE i # m
      BY <2>2, <1>3, <1>4 DEF PagesKnown
    <2> QED BY <2>1, <2>2
  <1>5. ASSUME NEW i \in Idx, NEW j \in Idx, i < m + 1, j < m + 1, r[i].addr = r[j].addr
        PROVE  i = j
    <2>1. CASE i = m \/ j = m
      BY <2>1, <1>1, <1>4, <1>5
    <2>2. CASE i # m /\ j # m
      BY <2>2, <1>3, <1>5 DEF PagesKnown
    <2> QED BY <2>1, <2>2
  <1> QED BY <1>4, <1>5 DEF PagesKnown, r

LEMMA KnownMore ==
    ASSUME NEW p, NEW m, NEW A, NEW B, PagesKnown(p, m, A), A \subseteq B
    PROVE  PagesKnown(p, m, B)
  BY DEF PagesKnown

LEMMA SwapKindIs ==
    ASSUME Typed, FlashOK, NEW a \in Addrs
    PROVE  SwapKind(a) = IF Recs(a) = <<>> THEN "swapEmpty" ELSE "swapDirty"
  <1>1. /\ WordsWritten(a) = EndOf(Recs(a)) /\ Recs(a) \in Seq(Slots) /\ Chain(Recs(a))
        /\ TagSize \in Nat
    BY ScannedTo, PagesTyped, Sizes
  <1>2. EndOf(Recs(a)) = TagSize <=> Recs(a) = <<>>
    BY <1>1, ChainEnds
  <1> QED BY <1>1, <1>2 DEF SwapKind

\* One page more.
LEMMA ScanStep ==
    ASSUME Typed, FlashOK, OneSwap, NotAllData, NEW s \in Scans, NEW n \in Addrs,
           ScanOK(s, n), NEW t, t = PageFound(s, n)
    PROVE  t \in Scans /\ ScanOK(t, n + 1)
  <1>1. /\ n \in Nat /\ n < VirtualPages /\ VirtualPages \in Nat /\ VirtualPages = MaxPages + 1
        /\ MaxPages \in Nat \ {0}
        /\ Below(n + 1) = Below(n) \cup {n} /\ n \notin Below(n) /\ NoAddr \notin Addrs
        /\ Below(n) \subseteq Addrs /\ NoAddr # n
    BY Sizes DEF Below, Addrs
  <1>2. /\ s.pages \in [Idx -> PageInfo] /\ s.n \in Nat /\ s.swap.addr \in Addrs \cup {NoAddr}
        /\ s.assumed \in BOOLEAN
    BY DEF Scans
  <1>3. /\ PagesKnown(s.pages, s.n, Below(n) \ {s.swap.addr}) /\ SwapKnown(s, n)
        /\ KindsKnown(s, n)
    BY DEF ScanOK
  <1>4. /\ WordsWritten(n) = EndOf(Recs(n)) /\ (Tag(n) = "erased" => EndOf(Recs(n)) = TagSize)
        /\ \A a \in Addrs : Tag(a) = "erased" => EndOf(Recs(a)) = TagSize
    BY ScannedTo DEF FlashOK, EndOf
  <1>5. t \in Scans
    BY PageFoundIs
  <1>6. KindsKnown(t, n + 1)
    <2>1. t.seen = s.seen \cup {KindOf(n)}
      <3>1. CASE FoundErased(s, n, t) \/ FoundFirst(s, n, t)
        BY <3>1 DEF FoundErased, FoundFirst, KindOf
      <3>2. CASE FoundData(s, n, t)
        BY <3>2 DEF FoundData, KindOf
      <3>3. CASE FoundSwap(s, n, t)
        BY <3>3 DEF FoundSwap, KindOf
      <3> QED BY <3>1, <3>2, <3>3, PageFoundIs
    <2> QED BY <2>1, <1>1, <1>3 DEF KindsKnown
  <1>7. s.swap.addr # NoAddr \/ n < MaxPages => s.n \in Idx /\ s.n < MaxPages
    BY <1>1, <1>2, <1>3 DEF SwapKnown, Idx
  <1>8. CASE FoundErased(s, n, t)
    <2>1. s.n \in Idx /\ s.n < MaxPages
      BY <1>7, <1>8 DEF FoundErased
    <2>2. PICK q : IsPage(q, "erased", n, TagSize) /\ t.pages = [s.pages EXCEPT ![s.n] = q]
                   /\ t.n = s.n + 1
      BY <1>8, <2>1 DEF FoundErased, Puts
    <2>3. t.swap = s.swap /\ Tag(n) = "erased" /\ s.swap.addr # NoAddr /\ t.cur = s.n
          /\ t.assumed = s.assumed
      BY <1>8 DEF FoundErased
    <2>4. PagesKnown(t.pages, t.n, Below(n + 1) \ {t.swap.addr})
      <3>1. n \in (Below(n + 1) \ {t.swap.addr}) \ (Below(n) \ {s.swap.addr})
        BY <1>1, <1>3, <2>3 DEF SwapKnown
      <3>2. IsPage(q, Tag(n), n, EndOf(Recs(n)))
        BY <2>2, <2>3, <1>4
      <3>3. Below(n) \ {s.swap.addr} \subseteq Below(n + 1) \ {t.swap.addr}
        BY <2>3, <1>1
      <3> QED BY <3>1, <3>2, <3>3, <2>1, <2>2, <1>2, <1>3, KnownPut
    <2>5. SwapKnown(t, n + 1)
      <3>1. t.n = (n + 1) - 1
        BY <2>2, <2>3, <1>1, <1>3 DEF SwapKnown
      <3> QED BY <3>1, <2>1, <2>3, <1>1, <1>3 DEF SwapKnown
    <2> QED BY <2>4, <2>5, <1>5, <1>6 DEF ScanOK
  <1>9. CASE FoundFirst(s, n, t)
    <2>1. /\ Tag(n) = "erased" /\ s.swap.addr = NoAddr /\ t.pages = s.pages /\ t.n = s.n
          /\ t.swap.addr = n /\ t.swap.woff = TagSize /\ t.assumed /\ t.cur = s.cur
      BY <1>9 DEF FoundFirst, PutsNone
    <2>2. PagesKnown(t.pages, t.n, Below(n + 1) \ {t.swap.addr})
      <3>1. Below(n) \ {s.swap.addr} \subseteq Below(n + 1) \ {t.swap.addr}
        BY <2>1, <1>1
      <3> QED BY <3>1, <2>1, <1>3, KnownMore
    <2>3. SwapKnown(t, n + 1)
      <3>1. t.n = (n + 1) - 1
        BY <2>1, <1>1, <1>3 DEF SwapKnown
      <3> QED BY <3>1, <2>1, <1>1, <1>3, <1>4 DEF SwapKnown
    <2> QED BY <2>2, <2>3, <1>5, <1>6 DEF ScanOK
  <1>10. CASE FoundData(s, n, t)
    <2>1. /\ Tag(n) = "data" /\ t.swap = s.swap /\ t.assumed = s.assumed /\ t.cur = s.cur
      BY <1>10 DEF FoundData
    <2>2. s.n \in Idx /\ s.n < MaxPages
      <3>1. SUFFICES ASSUME s.swap.addr = NoAddr, ~(n < MaxPages) PROVE FALSE
        BY <1>7
      <3>2. n = VirtualPages - 1
        BY <3>1, <1>1
      <3>3. Addrs = Below(n + 1)
        BY <3>2, <1>1 DEF Below, Addrs
      <3> QED BY <3>1, <3>3, <2>1, <1>1, <1>3 DEF SwapKnown, NotAllData
    <2>3. PICK q : IsPage(q, "data", n, WordsWritten(n))
                   /\ t.pages = [s.pages EXCEPT ![s.n] = q] /\ t.n = s.n + 1
      BY <1>10, <2>2 DEF FoundData, Puts
    <2>4. PagesKnown(t.pages, t.n, Below(n + 1) \ {t.swap.addr})
      <3>1. n \in (Below(n + 1) \ {t.swap.addr}) \ (Below(n) \ {s.swap.addr})
        BY <1>1, <1>2, <1>3, <2>1 DEF SwapKnown
      <3>2. IsPage(q, Tag(n), n, EndOf(Recs(n)))
        BY <2>1, <2>3, <1>4
      <3>3. Below(n) \ {s.swap.addr} \subseteq Below(n + 1) \ {t.swap.addr}
        BY <2>1, <1>1
      <3> QED BY <3>1, <3>2, <3>3, <2>2, <2>3, <1>2, <1>3, KnownPut
    <2>5. SwapKnown(t, n + 1)
      <3>1. t.n = IF t.swap.addr = NoAddr THEN n + 1 ELSE (n + 1) - 1
        BY <2>1, <2>3, <1>1, <1>3 DEF SwapKnown
      <3> QED BY <3>1, <2>1, <1>1, <1>3 DEF SwapKnown
    <2> QED BY <2>4, <2>5, <1>5, <1>6 DEF ScanOK
  <1>11. CASE FoundSwap(s, n, t)
    <2>1. /\ Tag(n) = "swap" /\ t.swap.addr = n /\ t.swap.woff = EndOf(Recs(n))
          /\ t.assumed = s.assumed /\ t.cur = s.cur
          /\ IF s.assumed THEN Puts(s, t, "erased", s.swap.addr, TagSize) ELSE PutsNone(s, t)
      BY <1>11, <1>4 DEF FoundSwap
    <2>2. \A a \in Below(n) : Tag(a) # "swap"
      BY <2>1, <1>1 DEF OneSwap
    <2>3. CASE s.assumed
      <3>1. /\ s.swap.addr # NoAddr /\ s.swap.addr \in Below(n)
            /\ Tag(s.swap.addr) = "erased" /\ EndOf(Recs(s.swap.addr)) = TagSize
        <4>1. s.swap.addr # NoAddr /\ s.swap.addr \in Below(n) /\ Tag(s.swap.addr) # "data"
          BY <2>3, <1>3 DEF SwapKnown
        <4>2. Tag(s.swap.addr) \in {"erased", "swap", "data"}
          BY <4>1, <1>1, PagesTyped DEF Tags, Tag
        <4> QED BY <4>1, <4>2, <2>2, <1>1, <1>4
      <3>2. s.n \in Idx /\ s.n < MaxPages
        BY <3>1, <1>7
      <3>3. PICK q : IsPage(q, "erased", s.swap.addr, TagSize)
                     /\ t.pages = [s.pages EXCEPT ![s.n] = q] /\ t.n = s.n + 1
        BY <2>1, <2>3, <3>2 DEF Puts
      <3>4. PagesKnown(t.pages, t.n, Below(n + 1) \ {t.swap.addr})
        <4>1. /\ s.swap.addr \in (Below(n + 1) \ {t.swap.addr}) \ (Below(n) \ {s.swap.addr})
              /\ Below(n) \ {s.swap.addr} \subseteq Below(n + 1) \ {t.swap.addr}
          BY <1>1, <2>1, <3>1
        <4>2. IsPage(q, Tag(s.swap.addr), s.swap.addr, EndOf(Recs(s.swap.addr)))
          BY <3>1, <3>3
        <4> QED BY <4>1, <4>2, <3>2, <3>3, <1>2, <1>3, KnownPut
      <3>5. SwapKnown(t, n + 1)
        <4>1. t.n = (n + 1) - 1
          BY <3>1, <3>3, <1>1, <1>3 DEF SwapKnown
        <4> QED BY <4>1, <2>1, <2>2, <2>3, <1>1, <1>3 DEF SwapKnown
      <3> QED BY <3>4, <3>5, <1>5, <1>6 DEF ScanOK
    <2>4. CASE ~s.assumed
      <3>1. s.swap.addr = NoAddr
        <4>1. SUFFICES ASSUME s.swap.addr # NoAddr PROVE FALSE
          OBVIOUS
        <4>2. s.swap.addr \in Below(n) /\ Tag(s.swap.addr) \notin {"data", "erased"}
          BY <4>1, <2>4, <1>3 DEF SwapKnown
        <4>3. Tag(s.swap.addr) \in {"erased", "swap", "data"}
          BY <4>2, <1>1, PagesTyped DEF Tags, Tag
        <4> QED BY <4>2, <4>3, <2>2
      <3>2. t.pages = s.pages /\ t.n = s.n
        BY <2>1, <2>4 DEF PutsNone
      <3>3. PagesKnown(t.pages, t.n, Below(n + 1) \ {t.swap.addr})
        <4>1. Below(n) \ {s.swap.addr} \subseteq Below(n + 1) \ {t.swap.addr}
          BY <2>1, <1>1
        <4> QED BY <4>1, <3>2, <1>3, KnownMore
      <3>4. SwapKnown(t, n + 1)
        <4>1. t.n = (n + 1) - 1
          BY <3>1, <3>2, <1>1, <1>3 DEF SwapKnown
        <4> QED BY <4>1, <2>1, <2>2, <2>4, <1>1, <1>3 DEF SwapKnown
      <3> QED BY <3>3, <3>4, <1>5, <1>6 DEF ScanOK
    <2> QED BY <2>3, <2>4
  <1> QED BY <1>8, <1>9, <1>10, <1>11, PageFoundIs

FirstScan == [pages |-> pages, n |-> 0, swap |-> swap, assumed |-> FALSE, cur |-> gc.cur,
              scanned |-> {}, seen |-> {}]

IsScan(f) == f = [n \in 0 .. VirtualPages |-> IF n = 0 THEN FirstScan ELSE PageFound(f[n - 1], n - 1)]

LEMMA ScanExists ==
    ASSUME Typed, FlashOK, FirstScan \in Scans
    PROVE  \E f : IsScan(f)
  <1> DEFINE R == Nat \X Scans
             first == <<0, FirstScan>>
             step == [r \in R |-> IF r[1] \in Addrs THEN <<r[1] + 1, PageFound(r[2], r[1])>>
                                  ELSE r]
  <1>1. first \in R
    OBVIOUS
  <1>2. step \in [R -> R]
    <2>1. ASSUME NEW r \in R
          PROVE  (IF r[1] \in Addrs THEN <<r[1] + 1, PageFound(r[2], r[1])>> ELSE r) \in R
      <3>1. r[1] \in Nat /\ r[2] \in Scans
        OBVIOUS
      <3>2. r[1] \in Addrs => PageFound(r[2], r[1]) \in Scans
        BY <3>1, PageFoundIs
      <3> QED BY <3>1, <3>2
    <2> QED BY <2>1
  <1>3. \A r \in R : r[1] \in Addrs => step[r] = <<r[1] + 1, PageFound(r[2], r[1])>>
    OBVIOUS
  <1>4. PICK h \in [Nat -> R] : h[0] = first /\ Iterates(h, step)
    <2> HIDE DEF R, first, step
    <2> QED BY <1>1, <1>2, Iteration
  <1>5. VirtualPages \in Nat /\ \A n \in Nat : n < VirtualPages => n \in Addrs
    BY Sizes DEF Addrs
  <1> DEFINE S == {n \in Nat : n <= VirtualPages => h[n][1] = n}
  <1>6. 0 \in S
    BY <1>4
  <1>7. ASSUME NEW n \in Nat, n \in S PROVE n + 1 \in S
    <2>1. SUFFICES ASSUME n + 1 <= VirtualPages PROVE h[n + 1][1] = n + 1
      OBVIOUS
    <2>2. h[n] \in R /\ h[n][1] = n /\ n \in Addrs /\ h[n + 1] = step[h[n]]
      <3>1. n <= VirtualPages /\ n \in Addrs
        BY <2>1, <1>5
      <3>2. h[n][1] = n
        BY <3>1, <1>7
      <3> HIDE DEF R, step
      <3> QED BY <3>1, <3>2, <1>4 DEF Iterates
    <2>3. h[n + 1] = <<n + 1, PageFound(h[n][2], n)>>
      <3> HIDE DEF step, R
      <3> QED BY <2>2, <1>3
    <2> QED BY <2>3
  <1>8. Nat \subseteq S
    <2> HIDE DEF S
    <2> QED BY <1>6, <1>7, Induction
  <1>9. ASSUME NEW n \in Nat, n < VirtualPages
        PROVE  h[n + 1][2] = PageFound(h[n][2], n)
    <2>1. h[n] \in R /\ h[n][1] = n /\ n \in Addrs /\ h[n + 1] = step[h[n]]
      <3>1. n <= VirtualPages /\ n \in Addrs
        BY <1>5, <1>9
      <3>2. h[n][1] = n
        BY <3>1, <1>8
      <3> HIDE DEF R, step
      <3> QED BY <3>1, <3>2, <1>4 DEF Iterates
    <2>2. h[n + 1] = <<n + 1, PageFound(h[n][2], n)>>
      <3> HIDE DEF step, R
      <3> QED BY <2>1, <1>3
    <2> QED BY <2>2
  <1> DEFINE g == [n \in 0 .. VirtualPages |-> h[n][2]]
  <1>10. ASSUME NEW n \in 0 .. VirtualPages
         PROVE  g[n] = IF n = 0 THEN FirstScan ELSE PageFound(g[n - 1], n - 1)
    <2>1. g[n] = h[n][2] /\ n \in Nat
      OBVIOUS
    <2>2. CASE n = 0
      BY <2>1, <2>2, <1>4
    <2>3. CASE n # 0
      <3>1. n - 1 \in 0 .. VirtualPages /\ n - 1 \in Nat /\ n - 1 < VirtualPages
            /\ (n - 1) + 1 = n
        <4> HIDE DEF g
        <4> QED BY <2>1, <2>3, <1>5
      <3>2. g[n - 1] = h[n - 1][2]
        BY <3>1
      <3>3. h[n][2] = PageFound(h[n - 1][2], n - 1)
        <4> HIDE DEF g, step, R
        <4> QED BY <3>1, <1>9
      <3> HIDE DEF g
      <3> QED BY <2>1, <2>3, <3>2, <3>3
    <2> QED BY <2>2, <2>3
  <1>11. g = [n \in 0 .. VirtualPages |->
                 IF n = 0 THEN FirstScan ELSE PageFound(g[n - 1], n - 1)]
    BY <1>10
  <1> HIDE DEF g
  <1> QED BY <1>11 DEF IsScan

\* What fds_init knows when it has looked at all pages.
LEMMA PagesInitKnows ==
    ASSUME Typed, FlashOK, OneSwap, NotAllData, OffPhase, phase = "off"
    PROVE  PagesInit \in Scans /\ ScanOK(PagesInit, VirtualPages)
  <1>1. /\ pages = [i \in Idx |-> BlankPage] /\ swap = [addr |-> NoAddr, woff |-> 0]
        /\ gc.cur = 0 /\ 0 \in Idx /\ Idx \subseteq Nat /\ Below(0) = {}
    <2>1. /\ pages = [i \in Idx |-> BlankPage] /\ swap = [addr |-> NoAddr, woff |-> 0]
          /\ gc = BlankGc
      BY DEF OffPhase
    <2>2. BlankGc.cur = 0
      BY DEF BlankGc
    <2>3. Below(0) = {}
      <3>1. \A a \in Addrs : ~(a < 0)
        BY Sizes
      <3> QED BY <3>1 DEF Below
    <2> QED BY <2>1, <2>2, <2>3, Sizes
  <1>2. FirstScan \in Scans
    <2> DEFINE none == FALSE
    <2>1. /\ none \in BOOLEAN /\ {} \in SUBSET Addrs /\ {} \in SUBSET Kinds /\ gc.cur \in Nat
          /\ pages \in [Idx -> PageInfo] /\ swap \in [addr : Addrs \cup {NoAddr}, woff : Nat]
      BY <1>1 DEF Typed
    <2>2. FirstScan = [pages |-> pages, n |-> 0, swap |-> swap, assumed |-> none,
                       cur |-> gc.cur, scanned |-> {}, seen |-> {}]
      BY DEF FirstScan
    <2> HIDE DEF none
    <2> QED BY <2>1, <2>2 DEF Scans
  <1>3. ScanOK(FirstScan, 0)
    <2>1. /\ FirstScan.n = 0 /\ FirstScan.seen = {} /\ FirstScan.swap.addr = NoAddr
          /\ FirstScan.cur = 0 /\ FirstScan.assumed = FALSE
      BY <1>1 DEF FirstScan
    <2>2. PagesKnown(FirstScan.pages, FirstScan.n, Below(0) \ {FirstScan.swap.addr})
      BY <2>1, <1>1 DEF PagesKnown
    <2>3. SwapKnown(FirstScan, 0)
      BY <2>1, <1>1 DEF SwapKnown
    <2>4. KindsKnown(FirstScan, 0)
      BY <2>1, <1>1 DEF KindsKnown
    <2> QED BY <2>2, <2>3, <2>4 DEF ScanOK
  <1>4. IsScan(Known)
    <2>1. PICK f : IsScan(f)
      BY <1>2, ScanExists
    <2> DEFINE k == CHOOSE h : h = [n \in 0 .. VirtualPages |->
                                      IF n = 0 THEN FirstScan ELSE PageFound(h[n - 1], n - 1)]
    <2>2. Known = k
      BY DEF Known, FirstScan
    <2>3. k = [n \in 0 .. VirtualPages |->
                  IF n = 0 THEN FirstScan ELSE PageFound(k[n - 1], n - 1)]
      BY <2>1 DEF IsScan
    <2> HIDE DEF k
    <2> QED BY <2>2, <2>3 DEF IsScan
  <1>5. VirtualPages \in Nat /\ \A n \in Nat : n < VirtualPages => n \in Addrs
    BY Sizes DEF Addrs
  <1> DEFINE S == {n \in Nat : n <= VirtualPages => Known[n] \in Scans /\ ScanOK(Known[n], n)}
  <1>6. 0 \in S
    <2>1. 0 \in 0 .. VirtualPages
      BY <1>5
    <2>2. Known[0] = FirstScan
      BY <2>1, <1>4 DEF IsScan
    <2> QED BY <2>2, <1>2, <1>3
  <1>7. ASSUME NEW n \in Nat, n \in S PROVE n + 1 \in S
    <2>1. SUFFICES ASSUME n + 1 <= VirtualPages
                   PROVE  Known[n + 1] \in Scans /\ ScanOK(Known[n + 1], n + 1)
      OBVIOUS
    <2>2. /\ n + 1 \in 0 .. VirtualPages /\ n + 1 # 0 /\ (n + 1) - 1 = n /\ n \in Addrs
          /\ n <= VirtualPages
      BY <2>1, <1>5
    <2>3. Known[n + 1] = PageFound(Known[n], n)
      BY <2>2, <1>4 DEF IsScan
    <2> QED BY <2>2, <2>3, <1>7, ScanStep
  <1>8. Nat \subseteq S
    <2> HIDE DEF S
    <2> QED BY <1>6, <1>7, Induction
  <1>9. VirtualPages \in S
    <2> HIDE DEF S
    <2> QED BY <1>5, <1>8
  <1> QED BY <1>9, <1>5 DEF PagesInit

\* Which step fds_init begins with.
LEMMA OptionIs ==
    ASSUME NEW K \in SUBSET Kinds, ~("swapEmpty" \in K /\ "swapDirty" \in K),
           \/ "erased" \in K
           \/ "data" \in K /\ ("swapEmpty" \in K \/ "swapDirty" \in K)
    PROVE  InitOption(K) = IF "erased" \in K
                           THEN IF "swapEmpty" \in K THEN "tagData"
                                ELSE IF "swapDirty" \in K THEN "promote" ELSE "tagSwap"
                           ELSE IF "swapDirty" \in K THEN "eraseSwap" ELSE "installed"
  <1>1. CASE "erased" \in K /\ "swapEmpty" \in K
    <2>1. K \in {{"erased", "swapEmpty"}, {"erased", "data", "swapEmpty"}}
      BY <1>1 DEF Kinds
    <2> QED BY <1>1, <2>1 DEF InitOption
  <1>2. CASE "erased" \in K /\ "swapDirty" \in K
    <2>1. K \in {{"erased", "swapDirty"}, {"erased", "data", "swapDirty"}}
      BY <1>2 DEF Kinds
    <2> QED BY <1>2, <2>1 DEF InitOption
  <1>3. CASE "erased" \in K /\ "swapEmpty" \notin K /\ "swapDirty" \notin K
    <2>1. K \in {{"erased"}, {"erased", "data"}}
      BY <1>3 DEF Kinds
    <2> QED BY <1>3, <2>1 DEF InitOption
  <1>4. CASE "erased" \notin K /\ "swapDirty" \in K
    <2>1. K = {"data", "swapDirty"}
      BY <1>4 DEF Kinds
    <2> QED BY <1>4, <2>1 DEF InitOption
  <1>5. CASE "erased" \notin K /\ "swapEmpty" \in K
    <2>1. K = {"data", "swapEmpty"}
      BY <1>5 DEF Kinds
    <2> QED BY <1>5, <2>1 DEF InitOption
  <1> QED BY <1>1, <1>2, <1>3, <1>4, <1>5

\* What fds_init knows is how the pages are, and is one of the combinations it
\* provides for.
Provided(s) ==
    /\ s.n = MaxPages /\ s.swap.addr \in Addrs /\ s.cur \in Idx
    /\ \A i \in Idx : /\ s.pages[i].addr \in Addrs \ {s.swap.addr}
                      /\ s.pages[i].type = Tag(s.pages[i].addr)
                      /\ s.pages[i].woff = EndOf(Recs(s.pages[i].addr))
                      /\ s.pages[i].rsv = 0 /\ s.pages[i].open = 0
    /\ \A i, j \in Idx : s.pages[i].addr = s.pages[j].addr => i = j
    /\ s.swap.woff = EndOf(Recs(s.swap.addr))
    /\ \A a \in Addrs \ {s.swap.addr} : Tag(a) # "swap"
    /\ Tag(s.swap.addr) # "data"
    /\ InitOption(s.seen) \in InitSteps \cup {"installed"}
    /\ InitOption(s.seen) = "tagSwap" => Recs(s.swap.addr) = <<>>
    /\ InitOption(s.seen) \in {"tagData", "installed"} =>
          Tag(s.swap.addr) = "swap" /\ Recs(s.swap.addr) = <<>>
    /\ InitOption(s.seen) = "promote" => \E a \in Addrs \ {s.swap.addr} : Tag(a) = "erased"
    /\ InitOption(s.seen) = "installed" => \A a \in Addrs : Tag(a) # "erased"

LEMMA PowerOnKnows ==
    ASSUME Typed, FlashOK, OneSwap, NotAllData, OffPhase, phase = "off", NEW s, s = PagesInit
    PROVE  s \in Scans /\ Provided(s)
  <1>1. s \in Scans /\ ScanOK(s, VirtualPages)
    BY PagesInitKnows
  <1>2. /\ VirtualPages \in Nat /\ VirtualPages >= 2 /\ VirtualPages = MaxPages + 1
        /\ MaxPages \in Nat /\ \A i \in Idx : i < MaxPages
        /\ 0 \in Addrs /\ 1 \in Addrs /\ NoAddr \notin Addrs
    BY Sizes, FdsAssumption DEF Idx, Addrs
  <1>3. Below(VirtualPages) = Addrs
    BY <1>2 DEF Below, Addrs
  <1>4. /\ PagesKnown(s.pages, s.n, Addrs \ {s.swap.addr}) /\ SwapKnown(s, VirtualPages)
        /\ s.seen = {KindOf(a) : a \in Addrs}
    BY <1>1, <1>3 DEF ScanOK, KindsKnown
  <1>5. s.swap.addr # NoAddr
    BY <1>3, <1>4 DEF SwapKnown, NotAllData
  <1>6. /\ s.n = MaxPages /\ s.swap.addr \in Addrs /\ s.cur \in Idx
        /\ s.swap.woff = EndOf(Recs(s.swap.addr)) /\ Tag(s.swap.addr) # "data"
        /\ \A a \in Addrs \ {s.swap.addr} : Tag(a) # "swap"
    BY <1>2, <1>3, <1>4, <1>5 DEF SwapKnown
  <1>7. /\ \A i \in Idx : /\ s.pages[i].addr \in Addrs \ {s.swap.addr}
                          /\ s.pages[i].type = Tag(s.pages[i].addr)
                          /\ s.pages[i].woff = EndOf(Recs(s.pages[i].addr))
                          /\ s.pages[i].rsv = 0 /\ s.pages[i].open = 0
        /\ \A i, j \in Idx : s.pages[i].addr = s.pages[j].addr => i = j
    BY <1>2, <1>4, <1>6 DEF PagesKnown
  <1>8. \A a \in Addrs : /\ Tag(a) \in {"erased", "swap", "data"}
                         /\ KindOf(a) = IF Tag(a) = "swap"
                                        THEN IF Recs(a) = <<>> THEN "swapEmpty" ELSE "swapDirty"
                                        ELSE Tag(a)
    BY PagesTyped, SwapKindIs DEF KindOf, Tags
  <1> DEFINE K == s.seen
  <1>9. K \in SUBSET Kinds
    BY <1>1 DEF Scans
  <1>10. /\ \A a \in Addrs : Tag(a) = "erased" => "erased" \in K
         /\ "erased" \in K => \E a \in Addrs : Tag(a) = "erased"
         /\ "data" \in K <=> \E a \in Addrs : Tag(a) = "data"
         /\ "swapEmpty" \in K <=> Tag(s.swap.addr) = "swap" /\ Recs(s.swap.addr) = <<>>
         /\ "swapDirty" \in K <=> Tag(s.swap.addr) = "swap" /\ Recs(s.swap.addr) # <<>>
    BY <1>4, <1>6, <1>8
  <1>11. \/ "erased" \in K
         \/ "data" \in K /\ ("swapEmpty" \in K \/ "swapDirty" \in K)
    <2>1. PICK a \in Addrs : a # s.swap.addr
      BY <1>2
    <2> QED BY <2>1, <1>6, <1>8, <1>10
  <1>12. InitOption(K) = IF "erased" \in K
                         THEN IF "swapEmpty" \in K THEN "tagData"
                              ELSE IF "swapDirty" \in K THEN "promote" ELSE "tagSwap"
                         ELSE IF "swapDirty" \in K THEN "eraseSwap" ELSE "installed"
    BY <1>9, <1>10, <1>11, OptionIs
  <1>13. Tag(s.swap.addr) = "erased" => Recs(s.swap.addr) = <<>>
    BY <1>6 DEF FlashOK
  <1> HIDE DEF K
  <1>14. /\ InitOption(K) \in InitSteps \cup {"installed"}
         /\ InitOption(K) = "tagSwap" => Recs(s.swap.addr) = <<>>
         /\ InitOption(K) \in {"tagData", "installed"} =>
               Tag(s.swap.addr) = "swap" /\ Recs(s.swap.addr) = <<>>
         /\ InitOption(K) = "promote" => \E a \in Addrs \ {s.swap.addr} : Tag(a) = "erased"
         /\ InitOption(K) = "installed" => \A a \in Addrs : Tag(a) # "erased"
    <2>1. Tag(s.swap.addr) \in {"erased", "swap"}
      BY <1>6, <1>8
    <2> QED BY <2>1, <1>10, <1>11, <1>12, <1>13 DEF InitSteps
  <1> QED BY <1>1, <1>6, <1>7, <1>14 DEF Provided, K

\* The largest record ID on the pages.
LEMMA LatestTyped ==
    ASSUME Typed, FlashOK, NEW A \in SUBSET Addrs
    PROVE  LatestOn(A) \in Nat
  <1> DEFINE T == Addrs \X Positions
             id(t) == flash[t[1]].recs[t[2]].id
             f == [t \in T |-> IF ValidAt(t[1], t[2]) THEN id(t) ELSE 0]
             S == {0} \cup {flash[ak[1]].recs[ak[2]].id :
                              ak \in {bk \in A \X Positions : ValidAt(bk[1], bk[2])}}
  <1>1. ASSUME NEW t \in T, ValidAt(t[1], t[2]) PROVE id(t) \in Nat
    <2>1. t[1] \in Addrs /\ t[2] \in DOMAIN Recs(t[1]) /\ Recs(t[1]) \in Seq(Slots)
      BY <1>1, PagesTyped DEF ValidAt, Walked, Recs
    <2>2. Recs(t[1])[t[2]] \in Slots
      BY <2>1
    <2> QED BY <2>2 DEF Slots, Recs
  <1>2. f \in [T -> Nat] /\ \A t \in T : ValidAt(t[1], t[2]) => f[t] = id(t)
    BY <1>1
  <1>3. IsFiniteSet(T)
    BY AddrsFinite, PositionsFinite, FS_Product
  <1>4. PICK n \in Nat : \A t \in T : f[t] <= n
    <2> HIDE DEF T, f
    <2> QED BY <1>2, <1>3, Bounded
  <1>5. ASSUME NEW x \in S PROVE x \in Nat /\ x <= n
    <2>1. CASE x = 0
      BY <2>1, <1>4
    <2>2. CASE x # 0
      <3>1. PICK ak \in {bk \in A \X Positions : ValidAt(bk[1], bk[2])} : x = id(ak)
        BY Zenon, <2>2
      <3>2. ak \in T /\ ValidAt(ak[1], ak[2])
        BY Zenon, <3>1
      <3>3. f[ak] = x /\ f[ak] \in Nat /\ f[ak] <= n
        <4> HIDE DEF T, f
        <4> QED BY Zenon, <3>1, <3>2, <1>2, <1>4
      <3> QED BY <3>3
    <2> QED BY <2>1, <2>2
  <1>6. S \in SUBSET Nat /\ S # {} /\ \A x \in S : x <= n
    BY Zenon, <1>5
  <1>7. Max(S) \in S
    <2> HIDE DEF S
    <2> QED BY <1>6, GreatestOf
  <1>8. Max(S) \in Nat
    BY Zenon, <1>6, <1>7
  <1> QED BY <1>8 DEF LatestOn

\* Nothing is reserved when nothing is queued.
LEMMA ReservedEmpty ==
    ASSUME opq = <<>>, token = NoToken, NEW i \in Idx
    PROVE  ReservedOn(i) = 0
  <1>1. ReservedOn(i) = TokenOn(i) + Total(Words(i, opq))
    BY DEF ReservedOn, TokenOn, Words
  <1>2. TokenOn(i) = 0
    BY Sizes DEF TokenOn, NoToken, NoAddr, Idx
  <1>3. Total(Words(i, opq)) = 0
    BY WordsNone
  <1> QED BY <1>1, <1>2, <1>3

\* fds_init begins, or finds the store as it should be.
LEMMA PowerOnStep ==
    ASSUME IInv, upset = {}, PowerOn, upset' = {}
    PROVE  IInv'
  <1> DEFINE s == PagesInit
             option == InitOption(s.seen)
  <1>1. /\ Typed /\ FlashOK /\ OneSwap /\ NotAllData /\ OffPhase /\ phase = "off"
        /\ opq = <<>> /\ ~processing /\ tail.step = "none" /\ token = NoToken /\ gc = BlankGc
    BY DEF IInv, PowerOn, OffPhase
  <1>2. fl.kind = "none" /\ ev = "none" /\ answer = "none"
    BY <1>1 DEF IInv, Turns, Busy
  <1>3. s \in Scans /\ Provided(s)
    BY <1>1, PowerOnKnows
  <1>4. /\ pages' = s.pages /\ swap' = s.swap /\ gc' = [gc EXCEPT !.cur = s.cur]
        /\ latest' = LatestOn(s.scanned)
        /\ flash' = flash /\ fl' = fl /\ ev' = ev /\ processing' = processing /\ tail' = tail
        /\ answer' = answer /\ token' = token
    BY DEF PowerOn, clients
  <1>5. IF option = "installed" THEN phase' = "ready" /\ opq' = opq
        ELSE phase' = "initializing" /\ opq' = Append(opq, Op("init", option))
    BY DEF PowerOn, Enqueue
  <1>6. /\ s.pages \in [Idx -> PageInfo] /\ s.swap \in [addr : Addrs \cup {NoAddr}, woff : Nat]
        /\ s.scanned \in SUBSET Addrs /\ s.cur \in Idx /\ option \in InitSteps \cup {"installed"}
    BY <1>3 DEF Scans, Provided
  <1> DEFINE op == Op("init", option)
  <1>7. option # "installed" => op \in OpInfo /\ op.code = "init" /\ op.step = option
    <2>1. op = [code |-> "init", step |-> option, page |-> 0, id |-> 0, file |-> NoFile,
                len |-> 0, left |-> 0, old |-> 0, desc |-> <<0, 0>>]
      BY DEF Op
    <2>2. <<0, 0>> \in Idx \X Nat /\ 0 \in Idx /\ 0 \in Nat /\ 0 \in Int
      BY Sizes
    <2>3. option # "installed" => option \in OpSteps
      BY <1>6 DEF OpSteps
    <2> HIDE DEF op, option
    <2> QED BY <2>1, <2>2, <2>3 DEF OpInfo
  <1> HIDE DEF op
  <1>8. option # "installed" => /\ opq' = <<op>> /\ opq' \in Seq(OpInfo) /\ Len(opq') = 1
                                /\ opq'[1] = op /\ opq' # <<>>
    <2>1. option # "installed" => opq' = <<op>> /\ op \in OpInfo
      BY <1>1, <1>5, <1>7 DEF op
    <2> HIDE DEF option
    <2> QED BY <2>1
  <1> HIDE DEF s, option
  <1>9. Typed'
    <2>1. gc' \in GcInfo
      BY <1>1, <1>4, <1>6 DEF Typed, GcInfo
    <2>2. latest' \in Nat
      BY <1>1, <1>4, <1>6, LatestTyped
    <2>3. opq' \in Seq(OpInfo) /\ Len(opq') <= OpQueueSize
      BY <1>1, <1>5, <1>8, Sizes DEF Typed
    <2>4. FlTyped'
      BY <1>1, <1>4 DEF Typed, FlTyped
    <2>5. phase' \in {"off", "initializing", "ready", "failed"}
      BY <1>5
    <2> QED BY <2>1, <2>2, <2>3, <2>4, <2>5, <1>1, <1>4, <1>6 DEF Typed
  <1>10. \A a \in Addrs : Tag(a)' = Tag(a) /\ Recs(a)' = Recs(a)
    BY <1>4 DEF Tag, Recs
  <1>11. Turns' /\ OneSwap' /\ NotAllData' /\ FlashOK'
    <2>1. Turns'
      <3>1. processing' = FALSE /\ fl'.kind = "none" /\ ev' = "none" /\ answer' = "none"
        BY <1>1, <1>2, <1>4
      <3> QED BY <3>1 DEF Turns, Busy
    <2>2. OneSwap' /\ NotAllData'
      BY <1>1, <1>4 DEF OneSwap, NotAllData, Tag
    <2>3. FlashOK'
      BY <1>1, <1>4 DEF FlashOK, Tag, Recs, Chain, EndOf
    <2> QED BY <2>1, <2>2, <2>3
  <1>12. Behind'
    <2>1. CASE option = "installed"
      BY <2>1, <1>1, <1>5 DEF Behind
    <2>2. CASE option # "installed"
      <3>1. \A k \in DOMAIN opq' : k = 1
        BY <2>2, <1>8
      <3> QED BY <2>2, <3>1, <1>5 DEF Behind
    <2> QED BY <2>1, <2>2
  <1>13. OffPhase' /\ FailedPhase'
    BY <1>5 DEF OffPhase, FailedPhase
  <1>14. /\ gc'.state = "begin" /\ ~gc'.resume /\ gc'.cur = s.cur
         /\ tail'.step = "none" /\ fl'.kind = "none" /\ ev' = "none" /\ ~processing'
         /\ answer' = "none" /\ token' = NoToken
    BY <1>1, <1>2, <1>4 DEF BlankGc
  <1>15. Mapped'
    BY <1>3, <1>4 DEF Mapped, Provided
  <1>16. ASSUME option # "installed" PROVE InitPhase'
    <2>1. Current' = op /\ opq' # <<>> /\ Len(opq') = 1 /\ op.code = "init" /\ op.step = option
          /\ option \in InitSteps
      BY <1>6, <1>7, <1>8, <1>16 DEF Current
    <2>2. InitControl'
      BY <2>1, <1>14 DEF InitControl, Alone
    <2>3. InitTags'
      <3>1. /\ \A a \in Addrs \ {s.swap.addr} : Tag(a)' # "swap"
            /\ (Tag(swap.addr))' = Tag(s.swap.addr)
        BY <1>3, <1>4, <1>10 DEF Provided, Tag
      <3>2. /\ Tag(s.swap.addr) # "data"
            /\ option = "tagData" => Tag(s.swap.addr) = "swap"
        BY <1>3 DEF Provided, option
      <3> QED BY <3>1, <3>2, <2>1, <1>4, <1>14 DEF InitTags
    <2>4. InitPromotes'
      <3>1. /\ \A a \in Addrs \ {s.swap.addr} : Tag(a)' # "swap"
            /\ option = "promote" => \E a \in Addrs \ {s.swap.addr} : Tag(a)' = "erased"
        BY <1>3, <1>10 DEF Provided, option
      <3>2. /\ \A i \in Idx : pages[i].type' = "erased" => (Tag(pages[i].addr))' = "erased"
            /\ swap'.woff = (EndOf(Recs(swap.addr)))'
        BY <1>3, <1>4 DEF Provided, Tag, Recs, EndOf
      <3> QED BY <3>1, <3>2, <2>1, <1>4, <1>14 DEF InitPromotes
    <2>5. InitData'
      BY <1>3, <1>4, <1>10, <1>14 DEF InitData, Provided, Tag
    <2>6. InitOffsets'
      <3>1. \A i \in Idx : s.pages[i].type = "erased" => Recs(s.pages[i].addr) = <<>>
        BY <1>1, <1>3 DEF Provided, FlashOK
      <3>2. option \in {"tagSwap", "tagData"} =>
                Recs(s.swap.addr) = <<>> /\ s.swap.woff = TagSize
        BY <1>1, <1>3, PagesTyped DEF Provided, option
      <3> QED BY <2>1, <3>1, <3>2, <1>3, <1>4, <1>10, <1>14 DEF InitOffsets, Provided, Recs
    <2> QED BY <2>2, <2>3, <2>4, <2>5, <2>6, <1>15 DEF InitPhase
  <1>17. ASSUME option = "installed" PROVE ReadyPhase'
    <2>1. opq' = <<>> /\ \A codes : ~Executes(codes)'
      BY <1>1, <1>5, <1>17 DEF Executes
    <2>2. /\ \A i \in Idx : /\ s.pages[i].addr \in Addrs /\ s.pages[i].type = "data"
                            /\ Tag(s.pages[i].addr) = "data"
          /\ Tag(s.swap.addr) = "swap" /\ Recs(s.swap.addr) = <<>> /\ s.swap.addr \in Addrs
          /\ s.swap.woff = TagSize
      <3>1. /\ \A a \in Addrs : Tag(a) # "erased"
            /\ Tag(s.swap.addr) = "swap" /\ Recs(s.swap.addr) = <<>>
        BY <1>3, <1>17 DEF Provided, option
      <3>2. s.swap.addr \in Addrs /\ s.swap.woff = EndOf(Recs(s.swap.addr))
        BY <1>3 DEF Provided
      <3>3. s.swap.woff = TagSize
        BY <3>1, <3>2 DEF EndOf
      <3>4. \A i \in Idx : s.pages[i].addr \in Addrs /\ s.pages[i].type = Tag(s.pages[i].addr)
        BY <1>3 DEF Provided
      <3>5. \A i \in Idx : s.pages[i].type \in {"data", "erased"}
        BY <1>6 DEF PageInfo
      <3> QED BY <3>1, <3>2, <3>3, <3>4, <3>5
    <2>3. ReadyControl'
      BY <2>1, <2>2, <1>4, <1>14 DEF ReadyControl
    <2>4. ReadyTags'
      <3>1. ~GcDone'
        BY <2>1 DEF GcDone
      <3> QED BY <3>1, <2>2, <1>3, <1>4, <1>10, <1>14 DEF ReadyTags, Provided, Tag
    <2>5. ReadyFlash'
      BY <1>14 DEF ReadyFlash, WriteKinds
    <2>6. Closed'
      BY <1>14 DEF Closed, Swapped
    <2>7. \A i \in Idx : /\ EndOf(Recs(s.pages[i].addr)) = s.pages[i].woff
                         /\ s.pages[i].woff >= TagSize /\ s.pages[i].woff < PageSize
                         /\ s.pages[i].rsv = 0 /\ s.pages[i].woff \in Nat
      BY <2>2, <1>1, <1>3, PagesTyped DEF Provided
    <2>8. Offsets'
      <3>1. \A i \in Idx : ~Wrote(i)'
        BY Zenon, <2>1 DEF Wrote
      <3> QED BY <3>1, <2>2, <2>7, <1>4, <1>10 DEF Offsets, Recs
    <2>9. SwapOffsets' /\ Copying'
      BY Zenon, <2>2, <1>4, <1>10, <1>14 DEF SwapOffsets, Copying, Recs
    <2>10. Space'
      <3>1. \A i \in Idx : ReservedOn(i)' = 0
        <4>1. opq' = opq /\ token' = token
          BY <2>1, <1>1, <1>4
        <4>2. \A i \in Idx : ReservedOn(i)' = ReservedOn(i)
          BY <4>1 DEF ReservedOn, Total, WordsOn, RecordLen
        <4> QED BY <4>2, <1>1, ReservedEmpty
      <3>2. \A i \in Idx : SpaceDone(i)' = 0
        BY <1>14 DEF SpaceDone
      <3>3. \A i \in Idx : s.pages[i].woff + s.pages[i].rsv < PageSize
                           /\ s.pages[i].rsv >= 0 - 0
        BY <2>7, Sizes
      <3> QED BY <3>1, <3>2, <3>3, <2>1, <1>4 DEF Space
    <2> QED BY <2>3, <2>4, <2>5, <2>6, <2>8, <2>9, <2>10, <1>15 DEF ReadyPhase
  <1>18. InitPhase' /\ ReadyPhase'
    BY <1>5, <1>16, <1>17 DEF InitPhase, ReadyPhase
  <1> QED BY <1>9, <1>11, <1>12, <1>13, <1>18 DEF IInv

-----------------------------------------------------------------------------
(* Every step keeps the invariant.                                         *)

\* Upsets are not forgotten, and the pages are judged by fds_init only.
Adds ==
    /\ upset \subseteq upset'
    /\ "unknown" \in upset' => "unknown" \in upset

LEMMA InitAssignAdds ==
    ASSUME NEW step, NEW i, InitAssign(step, i)
    PROVE  Adds
  BY DEF InitAssign, Adds

LEMMA OffsetsAdds ==
    ASSUME NEW op, OffsetsUpdate(op)
    PROVE  Adds
  BY DEF OffsetsUpdate, Adds

LEMMA StepAdds ==
    ASSUME NEW result, NEW refused, NEW inMain, Step(result, refused, inMain)
    PROVE  Adds
  <1>1. CASE InitStep(result, refused, inMain)
    <2>1. upset' = upset \/ \E i : InitAssign(Current.step, i)
      BY <1>1 DEF InitStep
    <2> QED BY <2>1, InitAssignAdds DEF Adds
  <1>2. CASE WriteStep(result, refused)
    <2>1. ASSUME NEW o, NEW op, WriteIssue(o, op, refused) PROVE Adds
      <3>1. upset' = upset \/ OffsetsUpdate(op)
        BY <2>1 DEF WriteIssue
      <3> QED BY <3>1, OffsetsAdds DEF Adds
    <2>2. \/ upset' = upset \/ upset' = upset \cup {"ranPast"}
          \/ \E op : OffsetsUpdate(op)
          \/ \E o, op : WriteIssue(o, op, refused)
      BY <1>2 DEF WriteStep
    <2> QED BY <2>1, <2>2, OffsetsAdds DEF Adds
  <1>3. CASE DeleteStep(result, refused)
    <2>1. upset' = upset \/ upset' = upset \cup {"staleToken"}
      BY <1>3 DEF DeleteStep
    <2> QED BY <2>1 DEF Adds
  <1>4. CASE GcStep(result, refused)
    <2>1. \/ upset' = upset
          \/ \E S, T : /\ S \in SUBSET {"gcSkipped"} /\ T \in SUBSET {"gcStuck"}
                       /\ upset' = upset \cup S \cup T
      <3>1. CASE result = "timeout" /\ UNCHANGED <<pages, swap, gc, upset>>
        BY <3>1
      <3>2. CASE \E s \in {GcAdvanced} :
                    upset' = upset \cup (IF GcSkips THEN {"gcSkipped"} ELSE {})
                                   \cup (IF s.gc.state = "discardSwap" THEN {"gcStuck"} ELSE {})
        BY <3>2
      <3> QED BY <3>1, <3>2, <1>4 DEF GcStep
    <2> QED BY <2>1 DEF Adds
  <1> QED BY <1>1, <1>2, <1>3, <1>4 DEF Step

LEMMA CallsAdd ==
    ASSUME Calls
    PROVE  Adds
  <1>1. CASE RecordWrite \/ RecordUpdate
    <2>1. upset' = upset
      BY <1>1 DEF RecordWrite, RecordUpdate, WriteEnqueue
    <2> QED BY <2>1 DEF Adds
  <1>2. CASE RecordDelete \/ FileDelete \/ GcCall \/ Reserve \/ ReserveCancel
    <2>1. upset' = upset
      BY <1>2 DEF RecordDelete, FileDelete, DeleteEnqueue, GcCall, Reserve, ReserveCancel
    <2> QED BY <2>1 DEF Adds
  <1>3. CASE RecordWriteReserved \/ ZeroTokenCancel
    <2>1. upset' = upset \/ upset' = upset \cup {"reservation"}
      BY <1>3 DEF RecordWriteReserved, ZeroTokenCancel
    <2> QED BY <2>1 DEF Adds
  <1>4. CASE RecordOpen
    <2>1. upset' = upset \/ upset' = upset \cup {"lateOpen"}
      BY <1>4 DEF RecordOpen
    <2> QED BY <2>1 DEF Adds
  <1>5. CASE RecordClose
    <2>1. upset' = upset \/ upset' = upset \cup {"openLeaked"}
      BY <1>5 DEF RecordClose
    <2> QED BY <2>1 DEF Adds
  <1> QED BY <1>1, <1>2, <1>3, <1>4, <1>5 DEF Calls

LEMMA OthersAdd ==
    ASSUME Internal \/ PowerFail
    PROVE  Adds
  <1>1. CASE FlashDone \/ PowerFail
    <2>1. upset' = upset \/ upset' = upset \cup {"gcStale"}
      BY <1>1 DEF FlashDone, PowerFail
    <2> QED BY <2>1 DEF Adds
  <1>2. CASE FlashTimeout \/ QueueAdvance
    <2>1. upset' = upset
      BY <1>2 DEF FlashTimeout, QueueAdvance
    <2> QED BY <2>1 DEF Adds
  <1>3. CASE QueueStart \/ EventHandler
    <2>1. \E result, refused, inMain : Step(result, refused, inMain)
      BY <1>3 DEF QueueStart, EventHandler
    <2> QED BY <2>1, StepAdds
  <1>4. CASE InitTail
    BY <1>4, InitAssignAdds DEF InitTail
  <1> QED BY <1>1, <1>2, <1>3, <1>4 DEF Internal

LEMMA PowerOnAdds ==
    ASSUME IInv, PowerOn
    PROVE  upset' = upset
  <1>1. Provided(PagesInit)
    BY PowerOnKnows DEF IInv, PowerOn
  <1>2. PagesInit.n = MaxPages /\ InitOption(PagesInit.seen) # "unknown"
    BY <1>1 DEF Provided, InitSteps
  <1>3. ~(PagesInit.n > MaxPages)
    BY <1>2, Sizes
  <1> QED BY <1>2, <1>3 DEF PowerOn

LEMMA InitHolds == Init => IInv
  <1> SUFFICES ASSUME Init PROVE IInv
    OBVIOUS
  <1>1. /\ \A a \in Addrs : Tag(a) = "erased" /\ Recs(a) = <<>>
        /\ flash \in [Addrs -> Page]
    BY DEF Init, ErasedPage, Tag, Recs, Page, Tags
  <1>2. OneSwap /\ NotAllData /\ FlashOK
    <2>1. NotAllData
      BY <1>1, Sizes DEF NotAllData
    <2>2. FlashOK
      BY <1>1, Sizes DEF FlashOK, Chain, EndOf
    <2> QED BY <1>1, <2>1, <2>2 DEF OneSwap
  <1>3. Typed
    <2>1. pages \in [Idx -> PageInfo]
      BY BlankTyped DEF Init
    <2>2. gc \in GcInfo
      BY Sizes DEF Init, BlankGc, GcInfo, GcStates
    <2>3. swap \in [addr : Addrs \cup {NoAddr}, woff : Nat]
      BY DEF Init
    <2>4. tail \in [step : InitSteps \cup {"none"}, page : Idx]
      BY Sizes DEF Init
    <2>5. opq \in Seq(OpInfo) /\ Len(opq) <= OpQueueSize
      BY Sizes DEF Init
    <2>6. FlTyped
      BY DEF Init, FlTyped, NoFl, WriteKinds
    <2> QED BY <2>1, <2>2, <2>3, <2>4, <2>5, <2>6, <1>1 DEF Typed, Init
  <1>4. Turns
    BY DEF Init, Turns, Busy, NoFl
  <1>5. Behind
    BY DEF Init, Behind
  <1>6. OffPhase /\ FailedPhase /\ InitPhase /\ ReadyPhase
    BY DEF Init, OffPhase, FailedPhase, InitPhase, ReadyPhase
  <1> QED BY <1>2, <1>3, <1>4, <1>5, <1>6 DEF IInv

LEMMA StutterKeeps ==
    ASSUME IInv, UNCHANGED vars
    PROVE  IInv'
  <1>1. /\ UNCHANGED <<flash, fl, ev, pages, swap, gc, opq, phase, processing, latest, tail>>
        /\ UNCHANGED <<answer, token>>
    BY DEF vars, ram, clients
  <1>2. Typed'
    BY <1>1 DEF IInv, Typed, FlTyped
  <1>3. Turns' /\ Behind' /\ OffPhase' /\ FailedPhase'
    BY <1>1 DEF IInv, Turns, Busy, Behind, Fresh, OffPhase, FailedPhase, Alone, Current
  <1>4. OneSwap' /\ NotAllData' /\ FlashOK'
    BY <1>1 DEF IInv, OneSwap, NotAllData, FlashOK, Tag, Recs, Chain, EndOf
  <1>5. InitPhase'
    <2>1. SUFFICES ASSUME phase = "initializing"
                   PROVE  (Mapped /\ InitControl /\ InitTags /\ InitPromotes /\ InitData
                           /\ InitOffsets)'
      BY <1>1 DEF InitPhase
    <2>2. Mapped /\ InitControl /\ InitTags /\ InitPromotes /\ InitData /\ InitOffsets
      BY <2>1 DEF IInv, InitPhase
    <2>3. Mapped' /\ InitControl'
      BY <1>1, <2>2 DEF Mapped, InitControl, Alone, Current
    <2>4. InitTags'
      BY <1>1, <2>2 DEF InitTags, Current, Tag
    <2>5. InitPromotes'
      BY <1>1, <2>2 DEF InitPromotes, Current, Tag, Recs, EndOf
    <2>6. InitData' /\ InitOffsets'
      BY <1>1, <2>2 DEF InitData, InitOffsets, Current, Tag, Recs, EndOf
    <2> QED BY <2>3, <2>4, <2>5, <2>6
  <1>6. ReadyPhase'
    <2>1. SUFFICES ASSUME phase = "ready"
                   PROVE  (Mapped /\ ReadyControl /\ ReadyTags /\ ReadyFlash
                           /\ Closed /\ Offsets /\ SwapOffsets /\ Copying /\ Space)'
      BY <1>1 DEF ReadyPhase
    <2>2. /\ Mapped /\ ReadyControl /\ ReadyTags /\ ReadyFlash
          /\ Closed /\ Offsets /\ SwapOffsets /\ Copying /\ Space
      BY <2>1 DEF IInv, ReadyPhase
    <2>3. Mapped' /\ ReadyControl'
      BY <1>1, <2>2 DEF Mapped, ReadyControl, Executes, Alone, Current
    <2>4. GcDone' = GcDone
      BY <1>1 DEF GcDone, Executes, Current
    <2>5. ReadyTags'
      BY ZenonT(20), <1>1, <2>2, <2>4 DEF ReadyTags, Tag
    <2>6. ReadyFlash'
      BY <1>1, <2>2 DEF ReadyFlash, Executes, Current, Recs, WriteKinds
    <2>7. Closed'
      BY <1>1, <2>2 DEF Closed, Swapped, Tag
    <2>8. Offsets'
      BY ZenonT(20), <1>1, <2>2 DEF Offsets, Wrote, Swapped, Executes, Current, Recs, Tag, EndOf
    <2>9. SwapOffsets' /\ Copying'
      BY Zenon, <1>1, <2>2, <2>4 DEF SwapOffsets, Copying, Recs, EndOf
    <2>10. Space'
      <3>1. \A i \in Idx : ReservedOn(i)' = ReservedOn(i)
        BY <1>1 DEF ReservedOn, Total, WordsOn, RecordLen
      <3>2. \A i \in Idx : SpaceDone(i)' = SpaceDone(i)
        BY <1>1 DEF SpaceDone, Current
      <3> QED BY <3>1, <3>2, <1>1, <2>2 DEF Space
    <2> QED BY <2>3, <2>5, <2>6, <2>7, <2>8, <2>9, <2>10
  <1> QED BY <1>2, <1>3, <1>4, <1>5, <1>6 DEF IInv

LEMMA NextAdds ==
    ASSUME Safe, [Next]_vars
    PROVE  upset \subseteq upset'
  <1>1. CASE Calls \/ Internal \/ PowerFail
    BY <1>1, CallsAdd, OthersAdd DEF Adds
  <1>2. CASE PowerOn
    BY <1>2 DEF PowerOn
  <1>3. CASE UNCHANGED vars
    BY <1>3 DEF vars
  <1> QED BY <1>1, <1>2, <1>3 DEF Next

LEMMA NextKeeps ==
    ASSUME Safe, [Next]_vars
    PROVE  Safe'
  <1> SUFFICES ASSUME upset' = {} PROVE IInv'
    BY DEF Safe
  <1>1. upset = {} /\ IInv
    BY NextAdds DEF Safe
  <1>2. CASE tail.step = "none" /\ Calls
    BY <1>1, <1>2, CallsStep
  <1>3. CASE FlashDone
    BY <1>1, <1>3, FlashDoneStep
  <1>4. CASE FlashTimeout
    BY <1>1, <1>4, FlashTimeoutStep
  <1>5. CASE QueueStart
    BY <1>1, <1>5, QueueStartStep
  <1>6. CASE EventHandler
    BY <1>1, <1>6, EventHandlerStep
  <1>7. CASE QueueAdvance
    BY <1>1, <1>7, QueueAdvanceStep
  <1>8. CASE InitTail
    BY <1>1, <1>8, InitTailStep
  <1>9. CASE PowerFail
    BY <1>1, <1>9, PowerFailStep
  <1>10. CASE PowerOn
    BY <1>1, <1>10, PowerOnStep
  <1>11. CASE UNCHANGED vars
    BY <1>1, <1>11, StutterKeeps
  <1> QED BY <1>2, <1>3, <1>4, <1>5, <1>6, <1>7, <1>8, <1>9, <1>10, <1>11 DEF Next, Internal

\* As long as nothing has happened that fds.c does not survive, the flash, the
\* pages in RAM, the queue and the flash operation under way agree as IInv says.
THEOREM FdsSafe == Spec => []Safe
  <1>1. Init => Safe
    BY InitHolds DEF Safe
  <1>2. Safe /\ [Next]_vars => Safe'
    BY NextKeeps
  <1> QED BY <1>1, <1>2, PTL DEF Spec

-----------------------------------------------------------------------------
(* What it means for the properties.                                       *)

LEMMA FitsWhenSafe == Safe => NoOverlay
  <1> SUFFICES ASSUME IInv, upset = {}, fl.kind # "none" PROVE FitsFlash(fl)
    BY DEF Safe, NoOverlay
  <1>1. phase \in {"initializing", "ready"} /\ ev = "none" /\ processing
    BY BusyTurn DEF Busy
  <1>2. CASE fl.kind = "begin"
    <2>1. fl.off >= EndOf(Recs(fl.addr))
      BY <1>2, BeginFits
    <2> QED BY <1>2, <2>1 DEF FitsFlash, Recs
  <1>3. CASE fl.kind = "copy"
    <2> DEFINE s == Recs(fl.addr)
    <2>1. fl.off = EndOf(s) \/ (s # <<>> /\ Last(s) = fl.rec)
      BY <1>3, CopyFits
    <2>2. s \in Seq(Slots)
      BY <1>3, CopyFits, PagesTyped DEF IInv
    <2>3. fl.off = EndOf(s) \/ \E k \in DOMAIN s : s[k] = fl.rec
      <3>1. s # <<>> => Len(s) \in DOMAIN s /\ Last(s) = s[Len(s)]
        <4> HIDE DEF s
        <4> QED BY <2>2 DEF Last
      <3> HIDE DEF s
      <3> QED BY <2>1, <3>1
    <2> QED BY <1>3, <2>3 DEF FitsFlash, Recs
  <1>4. CASE fl.kind = "swap"
    <2>1. Recs(fl.addr) = <<>>
      <3>1. CASE phase = "initializing"
        <4>1. InitControl /\ InitTags /\ InitPromotes /\ InitOffsets
          BY <3>1 DEF IInv, InitPhase
        <4>2. Current.step \in InitSteps /\ Current.step # "promote" /\ fl.addr = swap.addr
          BY <1>4, <4>1 DEF InitControl, InitTags, InitPromotes
        <4> QED BY <1>1, <1>4, <4>1, <4>2 DEF InitOffsets, InitSteps
      <3>2. CASE phase = "ready"
        <4>1. ReadyFlash /\ SwapOffsets
          BY <3>2 DEF IInv, ReadyPhase
        <4> QED BY <1>4, <4>1 DEF ReadyFlash, SwapOffsets
      <3> QED BY <1>1, <3>1, <3>2
    <2> QED BY <1>4, <2>1 DEF FitsFlash, Recs
  <1>5. CASE fl.kind \notin {"begin", "copy", "swap"}
    BY <1>5 DEF FitsFlash
  <1> QED BY <1>2, <1>3, <1>4, <1>5

LEMMA SpaceWhenSafe == Safe => SpaceHeld
  BY DEF Safe, SpaceHeld, IInv, ReadyPhase, Space

\* The pages that a power failure leaves are of a combination that fds_init
\* provides for.
LEMMA KnownWhenSafe ==
    ASSUME Safe, [Next]_vars, upset = {}
    PROVE  InitKnowsFlash'
  <1>1. CASE Calls \/ Internal \/ PowerFail
    BY <1>1, CallsAdd, OthersAdd DEF Adds, InitKnowsFlash
  <1>2. CASE PowerOn
    BY <1>2, PowerOnAdds DEF Safe, InitKnowsFlash
  <1>3. CASE UNCHANGED vars
    BY <1>3 DEF vars, InitKnowsFlash
  <1> QED BY <1>1, <1>2, <1>3 DEF Next

-----------------------------------------------------------------------------
(* Open records.                                                           *)

OpenRecord ==
    \E k \in DOMAIN Recs(reader.addr) :
        /\ Recs(reader.addr)[k].off = reader.off /\ Recs(reader.addr)[k].id = reader.id
        /\ Recs(reader.addr)[k].st \in {"valid", "dirty"}

OpenPage == \E i \in Idx : pages[i].addr = reader.addr /\ pages[i].open > 0

\* Records are opened behind fds_init, and stay on a page that counts them.
Reading == reader # NoReader => phase = "ready" /\ tail.step = "none" /\ OpenRecord /\ OpenPage

\* The ID of a record is written when there is nothing of it but its header.
Headed ==
    /\ fl.kind = "id" => Last(Recs(fl.addr)).st = "begun"
    /\ ev = "ok" /\ Executes({"write", "update"}) /\ Current.step = "id" =>
          Last(Recs(pages[Current.page].addr)).st = "begun"

\* What a write to a page does to a record that is complete.
LEMMA RecordStays ==
    ASSUME NEW page \in Page, Chain(page.recs), NEW o,
           o.kind \in {"id", "chunk", "final", "dirty"},
           o.kind \in WriteKinds => o.rec \in WriteInfo,
           o.kind = "id" => /\ page.recs # <<>> /\ Last(page.recs).off = o.off
                            /\ Last(page.recs).st = "begun",
           NEW k \in DOMAIN page.recs, page.recs[k].st \in {"valid", "dirty"}
    PROVE  LET new == Written(page, o) IN
           /\ k \in DOMAIN new.recs /\ new.recs[k].off = page.recs[k].off
           /\ new.recs[k].id = page.recs[k].id /\ new.recs[k].st \in {"valid", "dirty"}
  <1> DEFINE recs == page.recs
             new == Written(page, o)
             m == At(recs, o.off)
  <1> SUFFICES /\ k \in DOMAIN new.recs /\ new.recs[k].off = recs[k].off
               /\ new.recs[k].id = recs[k].id /\ new.recs[k].st \in {"valid", "dirty"}
    OBVIOUS
  <1>1. /\ recs \in Seq(Slots) /\ page = [tag |-> page.tag, recs |-> recs]
        /\ recs[k] \in Slots
    BY DEF Page
  <1>2. InPlace(page, new, o.off)
    BY WritesInPlace
  <1>3. k \in DOMAIN new.recs /\ new.recs[k].off = page.recs[k].off
    <2> HIDE DEF new
    <2> QED BY <1>1, <1>2 DEF InPlace, Page
  <1>4. CASE o.kind = "id"
    <2> DEFINE n == Len(recs)
    <2>1. n \in DOMAIN recs /\ recs[n].off = o.off /\ recs[n].st = "begun"
      BY <1>1, <1>4 DEF Last
    <2>2. k < n
      <3> HIDE DEF recs
      <3>1. k # n
        BY <2>1 DEF recs
      <3> QED BY <3>1, <1>1 DEF recs
    <2>3. recs[k].off # o.off
      <3>1. /\ recs[k].off + recs[k].len <= recs[n].off
            /\ recs[k].len \in Nat /\ recs[k].len > 0 /\ recs[k].off \in Nat
        <4>1. recs[k].len >= HeaderSize
          BY DEF Chain
        <4>2. recs[k].off + recs[k].len <= recs[n].off
          BY <1>1, <2>1, <2>2, ChainOrder
        <4> QED BY <4>1, <4>2, <1>1, Sizes DEF Slots
      <3> DEFINE x == recs[k].off
                 l == recs[k].len
                 y == recs[n].off
      <3>2. x + l <= y /\ l \in Nat /\ l > 0 /\ x \in Nat /\ y = o.off
        BY <3>1, <2>1
      <3> HIDE DEF x, l, y
      <3>3. x # y
        BY <3>2
      <3> QED BY <3>2, <3>3 DEF x
    <2>4. new.recs[k] = recs[k]
      <3> HIDE DEF new
      <3> QED BY <2>1, <2>3, <1>2 DEF InPlace
    <2> HIDE DEF new
    <2> QED BY <2>4, <1>3
  <1>5. CASE o.kind = "chunk"
    <2> DEFINE v == [recs[m] EXCEPT !.own = recs[m].own /\ o.rec.own]
    <2>1. new.recs = [recs EXCEPT ![m] = v]
      BY <1>5, <1>1 DEF Written
    <2>2. k = m => v.id = recs[k].id /\ v.st = recs[k].st
      BY <1>1 DEF Slots
    <2> HIDE DEF v, new, m
    <2> QED BY <2>1, <2>2, <1>3, <1>1
  <1>6. CASE o.kind = "final"
    <2> DEFINE v == [recs[m] EXCEPT !.file = o.rec.file, !.st = "valid"]
    <2>1. new.recs = [recs EXCEPT ![m] = v]
      BY <1>6, <1>1 DEF Written
    <2>2. k = m => v.id = recs[k].id /\ v.st = "valid"
      BY <1>1 DEF Slots
    <2> HIDE DEF v, new, m
    <2> QED BY <2>1, <2>2, <1>3, <1>1
  <1>7. CASE o.kind = "dirty"
    <2> DEFINE v == [recs[m] EXCEPT !.st = "dirty"]
    <2>1. new.recs = [recs EXCEPT ![m] = v]
      BY <1>7, <1>1 DEF Written
    <2>2. k = m => v.id = recs[k].id /\ v.st = "dirty"
      BY <1>1 DEF Slots
    <2> HIDE DEF v, new, m
    <2> QED BY <2>1, <2>2, <1>3, <1>1
  <1> QED BY <1>4, <1>5, <1>6, <1>7

\* A page with an open record is neither erased nor the swap.
LEMMA OpenWrites ==
    ASSUME IInv, phase = "ready", Busy, NEW i \in Idx, pages[i].open > 0,
           fl.addr = pages[i].addr
    PROVE  fl.kind \in {"data", "dirty"} \cup WriteKinds
  <1>1. Mapped /\ ReadyFlash /\ Closed /\ Typed
    BY DEF IInv, ReadyPhase
  <1>2. pages[i].addr # swap.addr
    BY <1>1, PageOf
  <1>3. fl.kind # "erase"
    BY <1>1, <1>2 DEF Closed
  <1>4. fl.kind \notin {"swap", "copy"}
    BY <1>1, <1>2 DEF ReadyFlash
  <1> QED BY <1>1, <1>3, <1>4 DEF Typed, FlTyped, Busy

\* The header, and the ID, are those of the last record of their page.
LEMMA IdLast ==
    ASSUME IInv, phase = "ready", fl.kind = "id"
    PROVE  Recs(fl.addr) # <<>> /\ Last(Recs(fl.addr)).off = fl.off
  <1>1. ReadyFlash /\ Offsets /\ Typed /\ opq # <<>> /\ answer = "none"
    BY BusyTurn DEF IInv, ReadyPhase, Busy
  <1>2. /\ Executes({"write", "update"}) /\ Current.step \notin {"begin", "find", "id"}
        /\ fl.addr = pages[Current.page].addr /\ fl.off = pages[Current.page].woff
    BY <1>1 DEF ReadyFlash, WriteKinds
  <1>3. Wrote(Current.page) /\ Current.page \in Idx
    BY <1>1, <1>2, HeadTyped DEF Wrote
  <1> QED BY <1>1, <1>2, <1>3 DEF Offsets

LEMMA FlashDoneOpen ==
    ASSUME IInv, Headed, Reading, FlashDone, upset' = {}
    PROVE  Headed' /\ Reading'
  <1>1. /\ Busy /\ flash' = Applied(fl) /\ fl' = NoFl /\ ev' = "ok" /\ ~GcStale(fl)
        /\ UNCHANGED <<pages, opq, phase, tail, reader>>
    BY DEF FlashDone, Busy, ram, clients
  <1>2. /\ fl.addr \in Addrs /\ phase \in {"initializing", "ready"} /\ opq # <<>>
        /\ answer = "none" /\ Typed /\ FlashOK
    BY <1>1, BusyTurn DEF IInv
  <1> DEFINE a == fl.addr
  <1>3. /\ flash' \in [Addrs -> Page] /\ \A b \in Addrs \ {a} : flash'[b] = flash[b]
        /\ flash'[a] = Written(flash[a], fl)
        /\ Done
    <2>1. Done
      BY <1>1, AppliedOK
    <2>2. flash'[a] = Written(flash[a], fl)
      BY <1>1, <1>2 DEF Applied, Busy, Typed
    <2> QED BY <2>1, <2>2 DEF Done
  <1>4. /\ flash[a] \in Page /\ Recs(a) \in Seq(Slots) /\ Chain(Recs(a))
    BY <1>2, PagesTyped
  <1>5. Headed'
    <2>1. SUFFICES ASSUME Executes({"write", "update"}), Current.step = "id"
                   PROVE  Last(flash'[pages[Current.page].addr].recs).st = "begun"
      BY <1>1 DEF Headed, Executes, Current, NoFl, Recs
    <2>2. phase = "ready"
      BY <2>1, <1>2 DEF IInv, InitPhase, InitControl, Alone, Executes
    <2>3. fl.kind = "begin"
      <3>1. ReadyFlash
        BY <2>2 DEF IInv, ReadyPhase
      <3> QED BY <3>1, <2>1, <1>1, <1>2 DEF ReadyFlash, Typed, FlTyped, Busy, WriteKinds, Executes
    <2>4. /\ fl.off = EndOf(Recs(a)) /\ fl.rec \in WriteInfo /\ fl.rec.len >= HeaderSize
          /\ a = pages[Current.page].addr
      BY ZenonT(20), <2>3, <1>1, BeginFits
    <2>5. PICK r \in Slots : /\ r.st = "begun"
                             /\ Written(flash[a], fl) = [tag |-> flash[a].tag,
                                                         recs |-> Append(Recs(a), r)]
                             /\ Last(Append(Recs(a), r)) = r
      BY <2>3, <2>4, <1>4, WritesBehind DEF Recs
    <2> QED BY <2>4, <2>5, <1>3
  <1>6. Reading'
    <2>1. SUFFICES ASSUME reader # NoReader
                   PROVE  OpenRecord' /\ OpenPage' /\ phase = "ready" /\ tail.step = "none"
      BY <1>1 DEF Reading
    <2>2. phase = "ready" /\ tail.step = "none" /\ OpenRecord /\ OpenPage
      BY <2>1 DEF Reading
    <2>3. PICK k \in DOMAIN Recs(reader.addr) :
             /\ Recs(reader.addr)[k].off = reader.off /\ Recs(reader.addr)[k].id = reader.id
             /\ Recs(reader.addr)[k].st \in {"valid", "dirty"}
      BY <2>2 DEF OpenRecord
    <2>4. PICK i \in Idx : pages[i].addr = reader.addr /\ pages[i].open > 0
      BY <2>2 DEF OpenPage
    <2>5. OpenPage'
      BY <2>4, <1>1 DEF OpenPage
    <2>6. reader.addr \in Addrs
      BY <2>2, <2>4, PageOf DEF IInv, ReadyPhase
    <2> DEFINE new == flash'[reader.addr].recs
    <2>7. SUFFICES /\ k \in DOMAIN new /\ new[k].off = Recs(reader.addr)[k].off
                   /\ new[k].id = Recs(reader.addr)[k].id /\ new[k].st \in {"valid", "dirty"}
      BY <2>2, <2>3, <2>5, <1>1 DEF OpenRecord, Recs
    <2>8. CASE reader.addr # a
      BY <2>8, <2>3, <2>6, <1>3 DEF Recs
    <2>9. CASE reader.addr = a
      <3>1. fl.kind \in {"data", "dirty"} \cup WriteKinds
        BY <2>2, <2>4, <2>9, <1>1, OpenWrites
      <3>2. CASE fl.kind = "data"
        BY <3>2, <2>3, <2>9, <1>3 DEF Done, Recs
      <3>3. CASE fl.kind = "begin"
        <4>1. PICK r \in Slots : new = Append(Recs(a), r)
          BY <3>3, <2>9, <1>3 DEF Done, Recs
        <4> HIDE DEF new
        <4>2. k \in DOMAIN new /\ new[k] = Recs(a)[k]
          BY <4>1, <2>3, <2>9, <1>4
        <4> QED BY <4>2, <2>3, <2>9
      <3>4. CASE fl.kind \in {"id", "chunk", "final", "dirty"}
        <4>1. fl.kind \in WriteKinds => fl.rec \in WriteInfo
          BY <1>2 DEF Typed, FlTyped
        <4>2. fl.kind = "id" => /\ Recs(a) # <<>> /\ Last(Recs(a)).off = fl.off
                                /\ Last(Recs(a)).st = "begun"
          BY <2>2, IdLast DEF Headed
        <4>3. k \in DOMAIN flash[a].recs /\ flash[a].recs[k].st \in {"valid", "dirty"}
          BY <2>3, <2>9 DEF Recs
        <4> DEFINE w == Written(flash[a], fl)
        <4>4. /\ k \in DOMAIN w.recs /\ w.recs[k].off = flash[a].recs[k].off
              /\ w.recs[k].id = flash[a].recs[k].id /\ w.recs[k].st \in {"valid", "dirty"}
          BY <4>1, <4>2, <4>3, <3>4, <1>4, RecordStays DEF Recs
        <4> HIDE DEF w
        <4> QED BY <4>4, <2>9, <1>3 DEF Recs, w
      <3> QED BY <3>1, <3>2, <3>3, <3>4 DEF WriteKinds
    <2> QED BY <2>8, <2>9
  <1> QED BY <1>5, <1>6

\* Nothing but a flash operation changes an open record.
LEMMA OpenKeeps ==
    ASSUME Reading, UNCHANGED <<flash, reader>>,
           reader # NoReader => phase' = "ready" /\ tail'.step = "none",
           \A i \in Idx : pages[i].open > 0 /\ reader # NoReader =>
              pages'[i].addr = pages[i].addr /\ pages'[i].open > 0
    PROVE  Reading'
  <1>1. SUFFICES ASSUME reader # NoReader PROVE OpenRecord' /\ OpenPage'
    BY DEF Reading
  <1>2. OpenRecord /\ OpenPage
    BY <1>1 DEF Reading
  <1>3. OpenRecord'
    BY <1>2 DEF OpenRecord, Recs
  <1>4. OpenPage'
    BY <1>1, <1>2 DEF OpenPage
  <1> QED BY <1>3, <1>4

LEMMA FlashTimeoutOpen ==
    ASSUME IInv, Headed, Reading, FlashTimeout
    PROVE  Headed' /\ Reading'
  <1>1. /\ fl' = NoFl /\ ev' = "timeout"
        /\ UNCHANGED <<flash, pages, opq, phase, tail, reader>>
    BY DEF FlashTimeout, ram, clients
  <1>2. Headed'
    BY <1>1 DEF Headed, NoFl
  <1>3. Reading'
    BY <1>1, OpenKeeps DEF Reading
  <1> QED BY <1>2, <1>3

LEMMA QueueAdvanceOpen ==
    ASSUME IInv, Headed, Reading, QueueAdvance
    PROVE  Headed' /\ Reading'
  <1>1. UNCHANGED <<flash, fl, pages, phase, tail, reader>>
    BY DEF QueueAdvance, clients
  <1>2. Headed'
    <2>1. fl.kind = "none"
      BY QueueRest DEF Busy
    <2>2. opq' # <<>> => Fresh(Current')
      BY QueueRest
    <2>3. Executes({"write", "update"})' => Current'.step # "id"
      BY <2>2 DEF Executes, Fresh
    <2> QED BY <2>1, <2>3, <1>1 DEF Headed
  <1>3. Reading'
    BY <1>1, OpenKeeps DEF Reading
  <1> QED BY <1>2, <1>3

LEMMA InitTailOpen ==
    ASSUME IInv, Headed, Reading, InitTail
    PROVE  Headed' /\ Reading'
  <1>1. UNCHANGED <<flash, fl, ev, phase, answer, reader>> /\ tail.step # "none"
    BY DEF InitTail, clients
  <1>2. Typed
    BY DEF IInv
  <1>3. opq = <<>> \/ Alone
    <2>1. phase # "off"
      BY <1>1 DEF IInv, OffPhase
    <2> QED BY <2>1, <1>1, <1>2 DEF Typed, IInv, InitPhase, InitControl, ReadyPhase, ReadyControl,
                                FailedPhase
  <1>4. ~Executes({"write", "update"})'
    <2>1. InitAssign(tail.step, tail.page)
      BY DEF InitTail
    <2>2. opq' = opq \/ \E step \in InitSteps : SetInitStep(step)
      BY <2>1 DEF InitAssign, InitSteps
    <2>3. CASE opq' = opq
      BY <2>3, <1>3 DEF Executes, Current, Alone
    <2>4. CASE \E step \in InitSteps : SetInitStep(step)
      <3>1. PICK step \in InitSteps : SetInitStep(step)
        BY <2>4
      <3>2. CASE opq # <<>> /\ Current.code = "init"
        <4> DEFINE op == [Current EXCEPT !.step = step]
        <4>1. SetHead(op)
          BY <3>1, <3>2 DEF SetInitStep
        <4>2. op.code = "init" /\ opq \in Seq(OpInfo) /\ op \in OpInfo
          BY <3>2, <1>2, HeadTyped DEF Typed, OpInfo, OpSteps
        <4> HIDE DEF op
        <4>3. Current' = op
          BY <4>1, <4>2, <3>2, HeadSet
        <4> QED BY <4>2, <4>3 DEF Executes
      <3>3. CASE ~(opq # <<>> /\ Current.code = "init")
        <4>1. opq' = opq
          BY <3>1, <3>3 DEF SetInitStep
        <4> QED BY <4>1, <1>3 DEF Executes, Current, Alone
      <3> QED BY <3>2, <3>3
    <2> QED BY <2>2, <2>3, <2>4
  <1>5. Headed'
    BY <1>1, <1>4 DEF Headed, Recs
  <1>6. Reading'
    BY <1>1 DEF Reading
  <1> QED BY <1>5, <1>6

LEMMA PowerOpen ==
    ASSUME IInv, Headed, Reading, PowerFail \/ PowerOn
    PROVE  Headed' /\ Reading'
  <1>1. CASE PowerFail
    <2>1. fl' = NoFl /\ ev' = "none" /\ reader' = NoReader
      BY <1>1 DEF PowerFail, RamAtReset
    <2>2. NoReader' = NoReader
      BY DEF NoReader
    <2> QED BY <2>1, <2>2 DEF Headed, Reading, NoFl
  <1>2. CASE PowerOn
    <2>1. phase = "off" /\ UNCHANGED <<fl, ev, reader>>
      BY <1>2 DEF PowerOn, clients
    <2>2. fl.kind = "none" /\ ev = "none"
      BY <2>1 DEF IInv, OffPhase, Turns, Busy
    <2>3. reader = NoReader
      BY <2>1 DEF Reading
    <2> QED BY <2>1, <2>2, <2>3 DEF Headed, Reading
  <1> QED BY <1>1, <1>2

-----------------------------------------------------------------------------
(* The steps of the queue leave open records alone.                        *)

\* A page keeps its address and its open records.
PagesOpen ==
    \A i \in Idx : pages[i].open > 0 => pages'[i].addr = pages[i].addr /\ pages'[i].open > 0

\* One of its other fields changes.
LEMMA PageOther ==
    ASSUME pages \in [Idx -> PageInfo], NEW p, NEW q,
           pages' = [pages EXCEPT ![p] = q],
           p \in Idx => q.addr = pages[p].addr /\ q.open = pages[p].open
    PROVE  PagesOpen
  BY DEF PagesOpen

LEMMA OffsetsOpen ==
    ASSUME pages \in [Idx -> PageInfo], NEW op, OffsetsUpdate(op)
    PROVE  PagesOpen
  <1> DEFINE p == op.page
             q == [pages[p] EXCEPT !.woff = @ + op.len, !.rsv = @ - op.len]
  <1>1. pages' = [pages EXCEPT ![p] = q]
    BY DEF OffsetsUpdate
  <1>2. p \in Idx => q.addr = pages[p].addr /\ q.open = pages[p].open
    BY DEF PageInfo
  <1> HIDE DEF p, q
  <1> QED BY <1>1, <1>2, PageOther

LEMMA WriteOpen ==
    ASSUME IInv, Headed, NEW result, Takes(result), phase = "ready",
           NEW refused \in BOOLEAN, WriteStep(result, refused)
    PROVE  PagesOpen /\ (fl'.kind = "id" => Last(Recs(fl'.addr)).st = "begun")
  <1>1. /\ pages \in [Idx -> PageInfo] /\ fl.kind = "none"
        /\ Current.code \in {"write", "update"} /\ opq # <<>> /\ Current.page \in Idx
        /\ ~processing => Fresh(Current)
        /\ processing => ev = result
    BY ReadyTakes DEF WriteStep
  <1>2. UNCHANGED pages => PagesOpen
    BY DEF PagesOpen
  <1> DEFINE C == Current
  <1>3. CASE result = "timeout"
    BY <1>1, <1>3, OffsetsOpen DEF WriteStep, Finish
  <1>4. CASE result = "ok" /\ C.step = "find" /\ Places(C.old) = {}
    BY <1>1, <1>2, <1>4 DEF WriteStep, Finish
  <1>5. CASE result = "ok" /\ \/ C.step = "begin"
                              \/ C.step = "find" /\ Places(C.old) # {}
    <2>1. \E op : WriteIssue(WriteTarget("begin", C), op, refused)
      BY <1>5 DEF WriteStep
    <2>2. WriteTarget("begin", C).kind # "id"
      BY DEF WriteTarget, OnRecord
    <2> QED BY <2>1, <2>2, <1>1, <1>2, OffsetsOpen DEF WriteIssue, Issue
  <1>6. CASE result = "ok" /\ C.step = "id"
    <2>1. \E op : WriteIssue(WriteTarget("id", C), op, refused)
      BY <1>6 DEF WriteStep
    <2>2. PagesOpen
      BY <2>1, <1>1, <1>2, OffsetsOpen DEF WriteIssue
    <2>3. processing /\ ev = "ok"
      BY <1>1, <1>6 DEF Fresh
    <2>4. Last(Recs(pages[C.page].addr)).st = "begun"
      BY <2>3, <1>1, <1>6 DEF Headed, Executes
    <2>5. fl' = fl \/ fl'.addr = pages[C.page].addr
      BY <2>1 DEF WriteIssue, Issue, WriteTarget, OnRecord
    <2> QED BY <2>2, <2>4, <2>5, <1>1
  <1>7. CASE result = "ok" /\ C.step = "chunks"
    <2>1. /\ Issue(WriteTarget("chunk", C), refused)
          /\ UNCHANGED pages \/ \E op : OffsetsUpdate(op)
      BY <1>7 DEF WriteStep
    <2>2. PagesOpen
      BY <2>1, <1>1, <1>2, OffsetsOpen
    <2> QED BY <2>1, <2>2, <1>1 DEF Issue, WriteTarget, OnRecord
  <1>8. CASE result = "ok" /\ C.step = "final"
    <2>1. \E op : WriteIssue(WriteTarget("final", C), op, refused)
      BY <1>8 DEF WriteStep
    <2>2. PagesOpen
      BY <2>1, <1>1, <1>2, OffsetsOpen DEF WriteIssue
    <2> QED BY <2>1, <2>2, <1>1 DEF WriteIssue, Issue, WriteTarget, OnRecord
  <1>9. CASE result = "ok" /\ C.step = "dirty"
    <2>1. \E o, op : WriteIssue(o, op, refused) /\ o.kind = "dirty"
      <3> DEFINE o == OnRecord("dirty", pages[C.desc[1]].addr,
                               flash[pages[C.desc[1]].addr].recs[C.desc[2]].off, <<>>)
                 op == [C EXCEPT !.step = "done"]
      <3>1. WriteIssue(o, op, refused)
        BY Zenon, <1>9 DEF WriteStep
      <3>2. o.kind = "dirty"
        BY DEF OnRecord
      <3> HIDE DEF o, op
      <3> QED BY Zenon, <3>1, <3>2
    <2>2. PagesOpen
      BY <2>1, <1>1, <1>2, OffsetsOpen DEF WriteIssue
    <2> QED BY <2>1, <2>2, <1>1 DEF WriteIssue, Issue
  <1>10. CASE result = "ok" /\ C.step = "done"
    BY <1>1, <1>10, OffsetsOpen DEF WriteStep, Finish
  <1> QED BY <1>3, <1>4, <1>5, <1>6, <1>7, <1>8, <1>9, <1>10 DEF WriteStep

LEMMA DeleteOpen ==
    ASSUME IInv, NEW result, Takes(result), phase = "ready", NEW refused \in BOOLEAN,
           DeleteStep(result, refused)
    PROVE  PagesOpen /\ fl'.kind # "id"
  <1>1. pages \in [Idx -> PageInfo] /\ fl.kind = "none"
    BY ReadyTakes
  <1>2. \/ UNCHANGED pages
        \/ \E i : pages' = [pages EXCEPT ![i].canGc = TRUE]
    BY DEF DeleteStep
  <1>3. PagesOpen
    <2>1. CASE UNCHANGED pages
      BY <2>1 DEF PagesOpen
    <2>2. CASE \E i : pages' = [pages EXCEPT ![i].canGc = TRUE]
      <3>1. PICK i : pages' = [pages EXCEPT ![i].canGc = TRUE]
        BY <2>2
      <3> DEFINE q == [pages[i] EXCEPT !.canGc = TRUE]
      <3>2. pages' = [pages EXCEPT ![i] = q]
        BY <3>1
      <3>3. i \in Idx => q.addr = pages[i].addr /\ q.open = pages[i].open
        BY <1>1 DEF PageInfo
      <3> HIDE DEF q
      <3> QED BY <3>2, <3>3, <1>1, PageOther
    <2> QED BY <1>2, <2>1, <2>2
  <1>4. fl' = fl \/ \E i, k : fl' = DirtyTarget(i, k)
    BY DEF DeleteStep, Finish, Issue
  <1>5. \A i, k : DirtyTarget(i, k).kind = "dirty"
    BY DEF DirtyTarget, OnRecord
  <1> QED BY <1>1, <1>3, <1>4, <1>5

\* The page that is exchanged for the swap has been erased, so nothing on it
\* is open.
LEMMA GcOpen ==
    ASSUME IInv, NEW result, Takes(result), phase = "ready", NEW refused \in BOOLEAN,
           GcStep(result, refused), upset' = {}
    PROVE  PagesOpen /\ fl'.kind # "id"
  <1>1. /\ GcGoes(result) /\ Typed /\ fl.kind = "none" /\ pages \in [Idx -> PageInfo]
        /\ gc.cur \in Idx /\ gc.state \in GcStates /\ gc.resume \in BOOLEAN /\ ReadyTags
    BY ReadyTakes DEF GcStep, GcGoes, GcInfo, Typed
  <1>2. CASE result = "timeout"
    BY <1>1, <1>2 DEF GcStep, Finish, PagesOpen
  <1>3. CASE result = "ok"
    <2>1. PICK s \in {GcAdvanced} :
             /\ pages' = s.pages
             /\ upset' =
                  upset \cup (IF GcSkips THEN {"gcSkipped"} ELSE {})
                        \cup (IF s.gc.state = "discardSwap" THEN {"gcStuck"} ELSE {})
             /\ \/ s.gc.state = "nextPage" /\ GcNextPage(s.gc, s, refused)
                \/ s.gc.state = "findNext" /\ GcFindNext(s.gc, s, refused)
                \/ s.gc.state = "copy" /\ GcCopy(s.gc, s, refused)
                \/ s.gc.state = "erasePage" /\ GcErase(s.gc, s, refused)
                \/ /\ s.gc.state = "promote"
                   /\ gc' = s.gc /\ swap' = s.swap
                   /\ Issue(OnPage("data", s.pages[s.gc.cur].addr), refused)
                \/ /\ s.gc.state = "tagSwap"
                   /\ gc' = [s.gc EXCEPT !.src = 0] /\ swap' = s.swap
                   /\ Issue(OnPage("swap", s.swap.addr), refused)
                \/ /\ s.gc.state = "discardSwap"
                   /\ gc' = s.gc /\ swap' = s.swap
                   /\ Finish("internal")
      BY <1>3 DEF GcStep
    <2>2. s = GcAdvanced /\ ~GcSkips
      BY <2>1
    <2>3. \A g : GcCopy(g, s, refused) => fl'.kind # "id"
      BY <1>1 DEF GcCopy, Issue, OnRecord
    <2>4. \A g : GcErase(g, s, refused) => fl'.kind # "id"
      BY <1>1 DEF GcErase, Issue, OnPage
    <2>5. \A g : GcFindNext(g, s, refused) => fl'.kind # "id"
      BY <2>3, <2>4 DEF GcFindNext
    <2>6. \A g : GcNextPage(g, s, refused) => fl'.kind # "id"
      BY <2>5, <1>1 DEF GcNextPage, Finish
    <2>7. fl'.kind # "id"
      BY <2>1, <2>3, <2>4, <2>5, <2>6, <1>1 DEF Issue, OnPage, Finish
    <2>8. CASE ~gc.resume /\ gc.state = "erasePage"
      <3> DEFINE q == [pages[gc.cur] EXCEPT !.addr = swap.addr, !.woff = swap.woff]
      <3>1. pages' = [pages EXCEPT ![gc.cur] = q]
        BY <2>1, <2>2, <2>8, <1>1, GcAdvances
      <3>2. GcDone
        BY <2>2, <2>8, <1>1, <1>3, GcTakes
      <3>3. Tag(pages[gc.cur].addr) = "erased"
        BY <3>2, <2>8, <1>1 DEF ReadyTags
      <3>4. pages[gc.cur].open = 0
        BY <3>3, <1>1, <1>3, GcTakes
      <3> HIDE DEF q
      <3>5. PagesOpen
        BY <3>1, <3>4, <1>1 DEF PagesOpen
      <3> QED BY <3>5, <2>7
    <2>9. CASE gc.resume \/ gc.state # "erasePage"
      <3>1. s.pages = pages
        BY <2>2, <2>9, <1>1, GcAdvances DEF GcStates
      <3> QED BY <3>1, <2>1, <2>7 DEF PagesOpen
    <2> QED BY <2>8, <2>9, <1>1
  <1> QED BY <1>2, <1>3 DEF Takes

LEMMA StepOpen ==
    ASSUME IInv, Headed, Reading, NEW result, Takes(result), NEW refused \in BOOLEAN,
           NEW inMain \in BOOLEAN, Step(result, refused, inMain), reader' = reader, upset' = {}
    PROVE  Headed' /\ Reading'
  <1>1. \/ phase = "initializing" /\ Current.code = "init"
        \/ phase = "ready" /\ Current.code # "init"
    BY TakesPhase
  <1>2. flash' = flash /\ ev' = "none" /\ fl.kind = "none"
    BY DEF Takes, Busy
  <1>3. CASE phase = "initializing"
    <2>1. InitStep(result, refused, inMain)
      BY Zenon, <1>1, <1>3 DEF Step, WriteStep, DeleteStep, GcStep
    <2>2. fl' = fl \/ \E step \in InitSteps : \E i : fl' = InitTarget(step, i)
      <3>1. Current.step \in InitSteps
        BY <1>3, InitTakes
      <3> QED BY <2>1, <3>1 DEF InitStep, Finish, Issue
    <2>3. \A step \in InitSteps : \A i : InitTarget(step, i).kind # "id"
      BY DEF InitTarget, InitSteps, SwapTarget, OnPage
    <2>4. fl'.kind # "id"
      BY <2>2, <2>3, <1>2
    <2>5. reader = NoReader
      BY <1>3 DEF Reading
    <2> QED BY Zenon, <2>4, <2>5, <1>2 DEF Headed, Reading
  <1>4. CASE phase = "ready"
    <2>1. \/ WriteStep(result, refused) \/ DeleteStep(result, refused)
          \/ GcStep(result, refused)
      BY Zenon, <1>1, <1>4 DEF Step, InitStep
    <2>2. phase' = "ready" /\ tail' = tail
      BY Zenon, <2>1, <1>4 DEF WriteStep, DeleteStep, GcStep
    <2>3. PagesOpen /\ (fl'.kind = "id" => Last(Recs(fl'.addr)).st = "begun")
      BY <2>1, <1>4, WriteOpen, DeleteOpen, GcOpen
    <2>4. Headed'
      BY <2>3, <1>2 DEF Headed, Recs
    <2>5. Reading'
      BY <2>2, <2>3, <1>2, OpenKeeps DEF Reading, PagesOpen
    <2> QED BY <2>4, <2>5
  <1> QED BY <1>1, <1>3, <1>4

LEMMA EventsOpen ==
    ASSUME IInv, Headed, Reading, QueueStart \/ EventHandler, upset' = {}
    PROVE  Headed' /\ Reading'
  <1>1. CASE QueueStart
    <2>1. Takes("ok")
      BY <1>1 DEF QueueStart, Takes, IInv, Turns, clients
    <2>2. PICK refused \in Refusals : Step("ok", refused, InitPreempted)
      BY <1>1 DEF QueueStart
    <2>3. refused \in BOOLEAN /\ InitPreempted \in BOOLEAN /\ reader' = reader
      BY <1>1, FdsAssumption DEF Refusals, QueueStart, clients
    <2> QED BY <2>1, <2>2, <2>3, StepOpen
  <1>2. CASE EventHandler
    <2>1. Takes(ev)
      BY <1>2 DEF EventHandler, Takes, IInv, Turns, Typed, clients
    <2>2. PICK refused \in Refusals : Step(ev, refused, FALSE)
      BY <1>2 DEF EventHandler
    <2>3. refused \in BOOLEAN /\ reader' = reader
      BY <1>2 DEF Refusals, EventHandler, clients
    <2> QED BY <2>1, <2>2, <2>3, StepOpen
  <1> QED BY <1>1, <1>2

-----------------------------------------------------------------------------
(* Calls, and all steps.                                                   *)

\* What a call leaves alone, if it opens and closes no record.
LEMMA CallOpen ==
    ASSUME IInv, Headed, Reading,
           UNCHANGED <<flash, fl, ev, phase, tail, reader>>,
           opq' = opq \/ \E op : opq' = Append(opq, op),
           \A i \in Idx : pages'[i].addr = pages[i].addr /\ pages'[i].open = pages[i].open
    PROVE  Headed' /\ Reading'
  <1>1. Headed'
    <2>1. Typed /\ Turns
      BY DEF IInv
    <2>2. ev = "ok" => opq # <<>>
      BY <2>1 DEF Turns
    <2>3. opq # <<>> => Current' = Current
      <3>1. opq \in Seq(OpInfo)
        BY <2>1 DEF Typed
      <3> QED BY <3>1 DEF Current
    <2>4. opq # <<>> => Current.page \in Idx
      BY <2>1, HeadTyped
    <2> QED BY <2>2, <2>3, <2>4 DEF Headed, Executes, Recs
  <1>2. Reading'
    BY OpenKeeps DEF Reading
  <1> QED BY <1>1, <1>2

LEMMA ReservesOpen ==
    ASSUME IInv, Headed, Reading, UNCHANGED <<flash, fl, ev, phase, tail, reader>>,
           opq' = opq \/ \E op : opq' = Append(opq, op),
           \/ UNCHANGED pages
           \/ \E p, x : pages' = [pages EXCEPT ![p].rsv = x]
    PROVE  Headed' /\ Reading'
  <1>1. pages \in [Idx -> PageInfo]
    BY DEF IInv, Typed
  <1>2. \A i \in Idx : pages'[i].addr = pages[i].addr /\ pages'[i].open = pages[i].open
    <2>1. CASE \E p, x : pages' = [pages EXCEPT ![p].rsv = x]
      <3>1. PICK p, x : pages' = [pages EXCEPT ![p].rsv = x]
        BY <2>1
      <3> DEFINE q == [pages[p] EXCEPT !.rsv = x]
      <3>2. pages' = [pages EXCEPT ![p] = q]
        BY <3>1
      <3>3. p \in Idx => q.addr = pages[p].addr /\ q.open = pages[p].open
        BY <1>1 DEF PageInfo
      <3> HIDE DEF q
      <3> QED BY <3>2, <3>3, <1>1
    <2> QED BY <2>1
  <1> QED BY <1>2, CallOpen

LEMMA RecordOpenOpen ==
    ASSUME IInv, Headed, Reading, tail.step = "none", RecordOpen
    PROVE  Headed' /\ Reading'
  <1>1. /\ Typed /\ Mapped /\ FlashOK /\ Turns /\ phase = "ready"
        /\ pages \in [Idx -> PageInfo]
    BY Zenon DEF IInv, Typed, ReadyPhase, RecordOpen
  <1>2. PICK f \in Files :
          /\ PlacesInFile(f, <<0, 0>>) # {}
          /\ LET p == FirstOf(PlacesInFile(f, <<0, 0>>))
                 a == pages[p[1]].addr
                 r == flash[a].recs[p[2]]
             IN /\ pages' = [pages EXCEPT ![p[1]].open = @ + 1]
                /\ reader' = [id |-> r.id, addr |-> a, off |-> r.off, run |-> gc.run]
    BY Zenon DEF RecordOpen
  <1> DEFINE P == PlacesInFile(f, <<0, 0>>)
             q == FirstOf(P)
             p == q[1]
             k == q[2]
             a == pages[p].addr
             r == flash[a].recs[k]
             x == pages[p].open + 1
  <1>3. P \subseteq Idx \X Positions /\ P # {}
    BY Zenon, <1>2 DEF PlacesInFile
  <1>4. q \in P
    <2> HIDE DEF P
    <2> QED BY <1>3, FirstFound
  <1>5. p \in Idx /\ ValidAt(a, k)
    <2> HIDE DEF q
    <2> QED BY <1>4 DEF PlacesInFile
  <1>6. /\ pages' = [pages EXCEPT ![p].open = x]
        /\ reader' = [id |-> r.id, addr |-> a, off |-> r.off, run |-> gc.run]
    BY <1>2
  <1>7. UNCHANGED <<flash, fl, ev, phase, tail, opq>>
    BY DEF RecordOpen
  <1> HIDE DEF q, p, k
  <1>8. x \in Nat /\ x > 0
    BY <1>1, <1>5 DEF PageInfo
  <1> HIDE DEF x
  <1>9. \A i \in Idx : /\ pages'[i].addr = pages[i].addr
                       /\ pages'[i].open = IF i = p THEN x ELSE pages[i].open
    BY <1>1, <1>5, <1>6, <1>8, OpenChanged
  <1>10. Headed'
    <2>1. opq # <<>> => Current.page \in Idx
      BY <1>1, HeadTyped
    <2> QED BY <2>1, <1>7, <1>9 DEF Headed, Executes, Current, Recs
  <1>11. OpenPage'
    BY <1>5, <1>6, <1>8, <1>9 DEF OpenPage
  <1>12. OpenRecord'
    <2>1. k \in DOMAIN flash[a].recs /\ r.st = "valid"
      BY <1>5 DEF ValidAt, Walked
    <2>2. reader'.addr = a /\ reader'.off = r.off /\ reader'.id = r.id
      BY <1>6
    <2> HIDE DEF a
    <2> QED BY <2>1, <2>2, <1>7 DEF OpenRecord, Recs
  <1> QED BY <1>1, <1>7, <1>10, <1>11, <1>12 DEF Reading

LEMMA RecordCloseOpen ==
    ASSUME IInv, Headed, Reading, tail.step = "none", RecordClose, upset' = {}
    PROVE  Headed' /\ Reading'
  <1>1. Typed /\ Turns /\ pages \in [Idx -> PageInfo]
    BY DEF IInv, Typed
  <1>2. UNCHANGED <<flash, fl, ev, phase, tail, opq>> /\ reader' = NoReader
    BY DEF RecordClose
  <1>3. Reading'
    <2>1. NoReader' = NoReader
      BY DEF NoReader
    <2> QED BY <2>1, <1>2 DEF Reading
  <1>4. PICK p : pages' = [pages EXCEPT ![p].open = @ - 1]
    BY DEF RecordClose
  <1> DEFINE q == [pages[p] EXCEPT !.open = @ - 1]
  <1>5. pages' = [pages EXCEPT ![p] = q] /\ (p \in Idx => q.addr = pages[p].addr)
    BY <1>1, <1>4 DEF PageInfo
  <1> HIDE DEF q
  <1>6. \A i \in Idx : pages'[i].addr = pages[i].addr
    BY <1>1, <1>5
  <1>7. Headed'
    <2>1. opq # <<>> => Current.page \in Idx
      BY <1>1, HeadTyped
    <2> QED BY <2>1, <1>2, <1>6 DEF Headed, Executes, Current, Recs
  <1> QED BY <1>3, <1>7

LEMMA CallsOpen ==
    ASSUME IInv, Headed, Reading, tail.step = "none", Calls, upset' = {}
    PROVE  Headed' /\ Reading'
  <1>1. CASE RecordWrite \/ RecordUpdate
    <2>1. \E code, f, n, old : WriteEnqueue(code, f, n, old)
      BY <1>1 DEF RecordWrite, RecordUpdate
    <2>2. /\ UNCHANGED <<flash, fl, ev, phase, tail, reader>>
          /\ opq' = opq \/ \E op : opq' = Append(opq, op)
          /\ UNCHANGED pages \/ \E p, x : pages' = [pages EXCEPT ![p].rsv = x]
      BY <2>1 DEF WriteEnqueue, Enqueue, clients
    <2> QED BY <2>2, ReservesOpen
  <1>2. CASE RecordDelete \/ FileDelete \/ GcCall
    <2>1. /\ UNCHANGED <<flash, fl, ev, pages, phase, tail, reader>>
          /\ \E op : opq' = Append(opq, op)
      BY <1>2 DEF RecordDelete, FileDelete, GcCall, DeleteEnqueue, Enqueue, clients
    <2> QED BY <2>1, ReservesOpen
  <1>3. CASE Reserve \/ ReserveCancel
    <2>1. /\ UNCHANGED <<flash, fl, ev, opq, phase, tail, reader>>
          /\ \E p, x : pages' = [pages EXCEPT ![p].rsv = x]
      BY <1>3 DEF Reserve, ReserveCancel
    <2> QED BY <2>1, ReservesOpen
  <1>4. CASE RecordWriteReserved
    <2>1. /\ UNCHANGED <<flash, fl, ev, phase, tail, reader>>
          /\ opq' = opq \/ \E op : opq' = Append(opq, op)
          /\ UNCHANGED pages \/ \E p, x : pages' = [pages EXCEPT ![p].rsv = x]
      BY <1>4 DEF RecordWriteReserved, Enqueue
    <2> QED BY <2>1, ReservesOpen
  <1>5. CASE ZeroTokenCancel
    BY <1>5 DEF ZeroTokenCancel
  <1>6. CASE RecordOpen
    BY <1>6, RecordOpenOpen
  <1>7. CASE RecordClose
    BY <1>7, RecordCloseOpen
  <1> QED BY <1>1, <1>2, <1>3, <1>4, <1>5, <1>6, <1>7 DEF Calls

ReadSafe == upset = {} => Headed /\ Reading

LEMMA NextOpen ==
    ASSUME Safe, ReadSafe, [Next]_vars
    PROVE  ReadSafe'
  <1> SUFFICES ASSUME upset' = {} PROVE Headed' /\ Reading'
    BY DEF ReadSafe
  <1>1. upset = {} /\ IInv /\ Headed /\ Reading
    BY NextAdds DEF Safe, ReadSafe
  <1>2. CASE tail.step = "none" /\ Calls
    BY <1>1, <1>2, CallsOpen
  <1>3. CASE FlashDone
    BY <1>1, <1>3, FlashDoneOpen
  <1>4. CASE FlashTimeout
    BY <1>1, <1>4, FlashTimeoutOpen
  <1>5. CASE QueueStart \/ EventHandler
    BY <1>1, <1>5, EventsOpen
  <1>6. CASE QueueAdvance
    BY <1>1, <1>6, QueueAdvanceOpen
  <1>7. CASE InitTail
    BY <1>1, <1>7, InitTailOpen
  <1>8. CASE PowerFail \/ PowerOn
    BY <1>1, <1>8, PowerOpen
  <1>9. CASE UNCHANGED vars
    <2>1. UNCHANGED <<flash, fl, ev, pages, opq, phase, tail, reader>>
      BY <1>9 DEF vars, ram, clients
    <2> QED BY <2>1, <1>1, CallOpen
  <1> QED BY <1>2, <1>3, <1>4, <1>5, <1>6, <1>7, <1>8, <1>9 DEF Next, Internal

-----------------------------------------------------------------------------
(* The theorems.                                                           *)

\* The variables keep their types: no write offset and no count of open records
\* becomes negative, and every operation in the queue is of a known kind.
THEOREM FdsTypes == Spec => [](upset = {} => Typed)
  <1>1. Safe => (upset = {} => Typed)
    BY DEF Safe, IInv
  <1> QED BY <1>1, FdsSafe, PTL

\* Records are begun and copied to erased words only, and the swap is tagged
\* while it is empty: what the write offsets of m_pages and m_swap_page say is
\* where the records in flash end, whatever was collected, refused or cut off.
THEOREM StoresFit == Spec => []NoOverlay
  BY FitsWhenSafe, FdsSafe, PTL

\* Every queued write and every reservation has its words on its page.
THEOREM SpaceIsHeld == Spec => []SpaceHeld
  BY SpaceWhenSafe, FdsSafe, PTL

\* As long as a record is open its page is neither erased nor exchanged for the
\* swap, and the record is where the reader's pointers point: a collection
\* that comes to the page while it is open gives up the copies that it made.
THEOREM OpenStays == Spec => []OpenKept
  <1>1. Init => ReadSafe
    BY DEF Init, ReadSafe, Headed, Reading, NoFl
  <1>2. Safe /\ ReadSafe /\ [Next]_vars => ReadSafe'
    BY NextOpen
  <1>3. ReadSafe => OpenKept
    BY DEF ReadSafe, Reading, OpenRecord, OpenPage, OpenKept, Recs
  <1> QED BY <1>1, <1>2, <1>3, FdsSafe, PTL DEF Spec

\* No step that the code survives leads to pages that fds_init does not know,
\* or that are too many for m_pages.
THEOREM InitKnows == Spec => [][upset = {} => InitKnowsFlash']_vars
  <1>1. Safe /\ [Next]_vars => [upset = {} => InitKnowsFlash']_vars
    BY KnownWhenSafe
  <1> QED BY <1>1, FdsSafe, PTL DEF Spec

\* When the first upset ends the run, fds_init knows the pages every time.
THEOREM InitKnowsAlways ==
    ASSUME Upsets = {}
    PROVE  Spec => []InitKnowsFlash
  <1>1. Init => InitKnowsFlash
    BY DEF Init, InitKnowsFlash
  <1>2. InitKnowsFlash /\ Safe /\ [Next]_vars => InitKnowsFlash'
    <2> SUFFICES ASSUME InitKnowsFlash, Safe, [Next]_vars PROVE InitKnowsFlash'
      OBVIOUS
    <2>1. CASE Next
      <3>1. upset = {}
        BY <2>1 DEF Next
      <3> QED BY <3>1, KnownWhenSafe
    <2>2. CASE UNCHANGED vars
      BY <2>2 DEF vars, InitKnowsFlash
    <2> QED BY <2>1, <2>2
  <1> QED BY <1>1, <1>2, FdsSafe, PTL DEF Spec

=============================================================================
