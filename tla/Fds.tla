-------------------------------- MODULE Fds --------------------------------
(***************************************************************************)
(* The record store of libraries/fds/fds.c, which keeps the bonds of the   *)
(* peer manager.  One virtual page is the swap, the others hold records    *)
(* behind a tag.  Calls queue operations; each operation is a sequence of  *)
(* flash operations, and the event of one starts the next.  Power fails at *)
(* any time: the statics are lost and fds_init finds out from the pages    *)
(* where the store was.                                                    *)
(*                                                                         *)
(* A page is its tag and its records, in the order of their addresses, as  *)
(* record_find_next walks them.  A flash operation that is under way when  *)
(* the power fails has either happened or not.                             *)
(***************************************************************************)
EXTENDS Integers, Sequences, SequencesExt, FiniteSets, FiniteSetsExt

CONSTANTS
    VirtualPages,  \* FDS_VIRTUAL_PAGES
    PageSize,      \* FDS_PAGE_SIZE, in words
    OpQueueSize,   \* FDS_OP_QUEUE_SIZE
    ChunkSlots,    \* FDS_CHUNK_QUEUE_SIZE
    ChunkWords,    \* words in a chunk
    ChunkCounts,   \* how many chunks a record may have
    Files,         \* file IDs the clients use
    NoFile,        \* no file
    MaxIds,        \* bound: records written or updated since power-up
    MaxDeletes,    \* bound: fds_record_delete and fds_file_delete calls
    MaxGcs,        \* bound: fds_gc calls
    MaxReserves,   \* bound: fds_reserve calls
    MaxOpens,      \* bound: fds_record_open calls
    MaxCrashes,    \* bound: power failures
    MaxFails,      \* bound: flash operations refused or timed out
    MaxSpecials,   \* bound: reservations, openings and failures together
    InitPreempted, \* TRUE when events interrupt fds_init
    Upsets         \* the upsets after which the model goes on

MaxPages == VirtualPages - 1
HeaderSize == 3
TagSize == 2

ASSUME FdsAssumption ==
    /\ VirtualPages \in Nat /\ VirtualPages >= 2
    /\ PageSize \in Nat /\ PageSize > TagSize
    /\ {OpQueueSize, ChunkSlots, ChunkWords} \subseteq Nat \ {0}
    /\ ChunkCounts \subseteq 0 .. ChunkSlots
    /\ NoFile \notin Files
    /\ {MaxIds, MaxDeletes, MaxGcs, MaxReserves, MaxOpens, MaxCrashes, MaxFails,
        MaxSpecials} \subseteq Nat
    /\ InitPreempted \in BOOLEAN

Addrs == 0 .. VirtualPages - 1   \* where the virtual pages are
Idx == 0 .. MaxPages - 1         \* the elements of m_pages
NoAddr == -1                     \* NULL

VARIABLES
    flash,     \* the virtual pages
    fl,        \* the flash operation fstorage works on
    ev,        \* its result, while the event waits for fs_event_handler
    pages,     \* m_pages
    swap,      \* m_swap_page
    gc,        \* m_gc
    opq,       \* m_op_queue, oldest operation first
    crp,       \* m_chunk_queue.rp
    phase,     \* the flags INITIALIZING and INITIALIZED
    processing,\* the flag PROCESSING
    latest,    \* m_latest_rec_id
    tok,       \* the static token of file_find_and_delete
    tail,      \* what the main thread has yet to do after its fs_store
    answer,    \* the event being sent for the oldest operation
    token,     \* a client's reservation
    reader,    \* a client's descriptor of a record it opened
    used,      \* history: how often each bounded thing has happened
    upset      \* history: what has happened that the code does not survive

ram == <<pages, swap, gc, opq, crp, phase, processing, latest, tok, tail>>
clients == <<token, reader>>
vars == <<flash, fl, ev, ram, answer, clients, used, upset>>

-----------------------------------------------------------------------------
(* Pages and records in flash.                                             *)

\* Positions a record may have on its page.
Positions == 1 .. (PageSize - TagSize) \div HeaderSize

RecordLen(chunks) == HeaderSize + chunks * ChunkWords

ErasedPage == [tag |-> "erased", recs |-> <<>>]

EndOf(recs) == IF recs = <<>> THEN TagSize ELSE Last(recs).off + Last(recs).len

\* The records a walk over the page meets: it ends at the first erased word.
Walked(a) == {k \in DOMAIN flash[a].recs :
                 \A j \in 1 .. k : flash[a].recs[j].st # "hole"}

\* header_is_valid: the key is not dirty and the file ID has been written.
ValidAt(a, k) == k \in Walked(a) /\ flash[a].recs[k].st = "valid"

\* Slip: only the valid records count, not what a power failure left.
WordsWritten_ValidOnly(a) ==
    LET V == {k \in Walked(a) : ValidAt(a, k)} IN
    IF V = {} THEN TagSize ELSE flash[a].recs[Max(V)].off + flash[a].recs[Max(V)].len

\* page_scan: where the walk ends ...
WordsWritten(a) ==
    IF Walked(a) = {} THEN TagSize
    ELSE LET r == flash[a].recs[Max(Walked(a))] IN r.off + r.len

\* ... and whether it met an invalid header.
DirtyFound(a) == \E k \in Walked(a) : ~ValidAt(a, k)

\* The largest ID of a valid record on the pages A.
LatestOn(A) ==
    Max({0} \cup {flash[ak[1]].recs[ak[2]].id : ak \in
            {bk \in A \X Positions : ValidAt(bk[1], bk[2])}})

\* Slip: the search goes on one record too far.
NextValid_SkipsOne(a, k) == {j \in Walked(a) : j > k + 1 /\ ValidAt(a, j)}

\* record_find_next: the valid records of a page after position k.
NextValid(a, k) == {j \in Walked(a) : j > k /\ ValidAt(a, j)}

\* record_find_by_desc without a usable address: index of the page and
\* position, of the first record with that ID.
Places(id) == {ik \in Idx \X Positions :
                  /\ pages[ik[1]].addr # NoAddr
                  /\ ValidAt(pages[ik[1]].addr, ik[2])
                  /\ flash[pages[ik[1]].addr].recs[ik[2]].id = id}

Before(p, q) == p[1] < q[1] \/ (p[1] = q[1] /\ p[2] < q[2])

FirstOf(P) == CHOOSE p \in P : \A q \in P : p = q \/ Before(p, q)

\* record_find for a file, resumed at the token t.
PlacesInFile(f, t) ==
    {ik \in Idx \X Positions :
        /\ pages[ik[1]].type = "data"
        /\ ValidAt(pages[ik[1]].addr, ik[2])
        /\ flash[pages[ik[1]].addr].recs[ik[2]].file = f
        /\ Before(t, ik)}

-----------------------------------------------------------------------------
(* Flash operations.                                                       *)

NoFl == [kind |-> "none"]

\* A tag written over another one: bits can only be cleared, and the data
\* tag is the swap tag with one bit less.
Tagged(old, new) ==
    IF old = "erased" THEN new ELSE IF old = "swap" THEN new ELSE old

\* A record header begun at offset off, behind erased words if there are any.
Begun(recs, off, r) ==
    LET gap == [id |-> 0, file |-> NoFile, off |-> EndOf(recs),
                len |-> off - EndOf(recs), st |-> "hole", own |-> TRUE]
        new == [id |-> 0, file |-> NoFile, off |-> off, len |-> r.len,
                st |-> "begun", own |-> TRUE]
    IN IF off > EndOf(recs) THEN recs \o <<gap, new>> ELSE Append(recs, new)

At(recs, off) == CHOOSE k \in DOMAIN recs : recs[k].off = off

\* The page after the flash operation o.
Written(page, o) ==
    LET k == At(page.recs, o.off) IN
    CASE o.kind = "erase" -> ErasedPage
      [] o.kind \in {"swap", "data"} -> [page EXCEPT !.tag = Tagged(@, o.kind)]
      [] o.kind = "begin" -> [page EXCEPT !.recs = Begun(@, o.off, o.rec)]
      [] o.kind = "id"    -> [page EXCEPT !.recs[k].id = o.rec.id]
      [] o.kind = "chunk" -> [page EXCEPT !.recs[k].own = @ /\ o.rec.own]
      [] o.kind = "final" -> [page EXCEPT !.recs[k].file = o.rec.file,
                                          !.recs[k].st = "valid"]
      [] o.kind = "dirty" -> [page EXCEPT !.recs[k].st = "dirty"]
      [] o.kind = "copy"  -> [page EXCEPT !.recs =
                                IF o.off = EndOf(@) THEN Append(@, o.rec) ELSE @]

Applied(o) ==
    IF o.kind = "none" THEN flash
    ELSE [flash EXCEPT ![o.addr] = Written(@, o)]

\* The words a store touches are erased, or hold what it writes already.
FitsFlash(o) ==
    LET recs == flash[o.addr].recs IN
    CASE o.kind = "begin" -> o.off >= EndOf(recs)
      [] o.kind = "copy" ->
            \/ o.off = EndOf(recs)
            \/ \E k \in DOMAIN recs : recs[k] = o.rec
      [] o.kind = "swap" -> recs = <<>>
      [] OTHER -> TRUE

OnPage(kind, a) == [kind |-> kind, addr |-> a, off |-> 0, rec |-> <<>>]
OnRecord(kind, a, off, rec) == [kind |-> kind, addr |-> a, off |-> off, rec |-> rec]

\* One more of the bounded things that are not everyday calls.
May(what, max) ==
    /\ used[what] < max
    /\ used.reserves + used.opens + used.crashes + used.fails < MaxSpecials

\* What fs_store and fs_erase may answer: the queue they share with the
\* label's pictures may be full.
Refusals == IF May("fails", MaxFails) THEN BOOLEAN ELSE {FALSE}

\* The operation changes a page whose collection failed half-way: its new
\* record is not in the swap when the erase is done again, or the swap has
\* the record that it deletes.
GcStale(o) ==
    /\ \/ o.kind = "begin" /\ gc.state = "erasePage"
       \/ o.kind = "dirty" /\ gc.state \in {"copy", "erasePage"}
    /\ o.addr = pages[gc.cur].addr

\* fstorage has carried out the operation and its event is pending.
FlashDone ==
    /\ fl.kind # "none" /\ ev = "none"
    /\ flash' = Applied(fl)
    /\ fl' = NoFl
    /\ ev' = "ok"
    /\ upset' = IF GcStale(fl) THEN upset \cup {"gcStale"} ELSE upset
    /\ UNCHANGED <<ram, answer, clients, used>>

\* The SoftDevice failed FS_OP_MAX_RETRIES times.
FlashTimeout ==
    /\ fl.kind # "none" /\ ev = "none"
    /\ May("fails", MaxFails)
    /\ used' = [used EXCEPT !.fails = @ + 1]
    /\ fl' = NoFl
    /\ ev' = "timeout"
    /\ UNCHANGED <<flash, ram, answer, clients, upset>>

-----------------------------------------------------------------------------
(* The operation at the head of the queue: one step of it is executed by   *)
(* queue_process, which gets the result of the flash operation before.     *)

Current == opq[1]

SetHead(op) == opq' = [opq EXCEPT ![1] = op]

\* The step asks for the flash operation o; a refusal ends the operation.
Issue(o, refused) ==
    /\ fl' = IF refused THEN fl ELSE o
    /\ answer' = IF refused THEN "busy" ELSE answer
    /\ used' = [used EXCEPT !.fails = @ + IF refused THEN 1 ELSE 0]

\* The operation is over; its event is being sent.
Finish(result) ==
    /\ answer' = result
    /\ UNCHANGED <<fl, used>>

(* fds_init.                                                               *)

SwapTarget == OnPage("swap", swap.addr)

ErasedPages == {i \in Idx : pages[i].type = "erased"}

\* The flash operation of an initialization step, and the page it is about.
InitTarget(step, i) ==
    CASE step = "tagSwap"   -> SwapTarget
      [] step = "tagData"   -> OnPage("data", pages[i].addr)
      [] step = "eraseSwap" -> OnPage("erase", swap.addr)
      [] step = "promote"   -> OnPage("data", swap.addr)

\* Slip: the step is done again and again.
SetInitStep_Stays(step) == UNCHANGED opq

\* p_op is written even if another context has finished the operation since.
SetInitStep(step) ==
    IF opq # <<>> /\ Current.code = "init"
    THEN SetHead([Current EXCEPT !.step = step]) ELSE UNCHANGED opq

\* What the step assigns behind the call of fs_store or fs_erase.
InitAssign(step, i) ==
    \/ /\ step = "tagSwap"
       /\ SetInitStep("tagData")
       /\ UNCHANGED <<pages, swap, upset>>
    \/ /\ step = "tagData"
       /\ pages' = [pages EXCEPT ![i].type = "data"]
       /\ UNCHANGED <<opq, swap, upset>>
    \/ /\ step = "eraseSwap"
       /\ swap' = [swap EXCEPT !.woff = TagSize]
       /\ SetInitStep("tagSwap")
       /\ UNCHANGED <<pages, upset>>
    \/ /\ step = "promote"
       /\ swap' = [addr |-> pages[gc.cur].addr, woff |-> TagSize]
       /\ pages' = [pages EXCEPT ![gc.cur].addr = swap.addr,
                                 ![gc.cur].woff = swap.woff,
                                 ![gc.cur].type = "data"]
       /\ upset' = IF pages[gc.cur].type = "erased" THEN upset
                   ELSE upset \cup {"promoted"}
       /\ SetInitStep("tagSwap")

\* init_execute.  In the main thread, which called fds_init, the event of the
\* flash operation may be handled before the assignments are made.
InitStep(result, refused, inMain) ==
    /\ Current.code = "init"
    /\ UNCHANGED <<gc, crp, latest, tok>>
    /\ \/ /\ result = "timeout"
          /\ phase' = "failed"
          /\ Finish("timeout")
          /\ UNCHANGED <<pages, swap, opq, tail, upset>>
       \/ /\ result = "ok"
          /\ Current.step = "tagData" /\ ErasedPages = {}
          /\ phase' = "ready"
          /\ Finish("ok")
          /\ UNCHANGED <<pages, swap, opq, tail, upset>>
       \/ /\ result = "ok"
          /\ Current.step = "tagData" => ErasedPages # {}
          /\ LET i == IF Current.step = "tagData" THEN Min(ErasedPages) ELSE 0 IN
             /\ Issue(InitTarget(Current.step, i), refused)
             /\ phase' = IF refused THEN "failed" ELSE phase
             /\ IF inMain /\ ~refused
                THEN /\ tail' = [step |-> Current.step, page |-> i]
                     /\ UNCHANGED <<pages, swap, opq, upset>>
                ELSE /\ InitAssign(Current.step, i)
                     /\ UNCHANGED tail

\* The main thread goes on behind its fs_store.
InitTail ==
    /\ tail.step # "none"
    /\ answer = "none"
    /\ InitAssign(tail.step, tail.page)
    /\ tail' = [step |-> "none", page |-> 0]
    /\ UNCHANGED <<flash, fl, ev, gc, crp, phase, processing, latest, tok, answer,
                   clients, used>>

(* Writes and updates.                                                     *)

\* page_offsets_update, and the gap it leaves if the header was not begun.
OffsetsUpdate(op) ==
    /\ pages' = [pages EXCEPT ![op.page].woff = @ + op.len,
                              ![op.page].rsv = @ - op.len]
    /\ upset' = IF pages[op.page].woff + op.len > EndOf(flash[pages[op.page].addr].recs)
                THEN upset \cup {"hole"} ELSE upset

\* chunk_queue_skip: the index is moved without wrapping.
SkipChunks(op) == crp' = crp + op.left

\* A step that stores: refused, it ends the operation.
WriteIssue(o, op, refused) ==
    /\ Issue(o, refused)
    /\ SetHead(op)
    /\ IF refused THEN OffsetsUpdate(op) ELSE UNCHANGED <<pages, upset>>

WriteTarget(kind, op) ==
    OnRecord(kind, pages[op.page].addr, pages[op.page].woff,
             [id |-> op.id, file |-> op.file, len |-> op.len,
              own |-> crp < ChunkSlots])

AfterId(op) == IF op.left # 0 THEN "chunks" ELSE "final"

\* Slip: the old copy of an updated record is left.
AfterFinal_KeepsOld(op) == "done"

AfterFinal(op) == IF op.code = "update" THEN "dirty" ELSE "done"

WriteStep(result, refused) ==
    /\ Current.code \in {"write", "update"}
    /\ UNCHANGED <<swap, gc, phase, latest, tok, tail>>
    /\ \/ /\ result = "timeout"
          /\ Finish("timeout")
          /\ OffsetsUpdate(Current)
          /\ SkipChunks(Current)
          /\ UNCHANGED opq
       \/ /\ result = "ok" /\ Current.step = "find" /\ Places(Current.old) = {}
          /\ Finish("notfound")
          /\ SkipChunks(Current)
          /\ UNCHANGED <<pages, opq, upset>>
       \/ /\ result = "ok"
          /\ \/ Current.step = "begin"
             \/ Current.step = "find" /\ Places(Current.old) # {}
          /\ WriteIssue(WriteTarget("begin", Current),
                        [Current EXCEPT !.step = "id",
                             !.desc = IF Current.step = "find"
                                      THEN FirstOf(Places(Current.old)) ELSE @],
                        refused)
          /\ IF refused THEN SkipChunks(Current) ELSE UNCHANGED crp
       \/ /\ result = "ok" /\ Current.step = "id"
          /\ WriteIssue(WriteTarget("id", Current),
                        [Current EXCEPT !.step = AfterId(Current)], refused)
          /\ IF refused THEN SkipChunks(Current) ELSE UNCHANGED crp
       \/ /\ result = "ok" /\ Current.step = "chunks"
          /\ LET op == [Current EXCEPT !.left = @ - 1,
                            !.step = IF Current.left = 1 THEN "final" ELSE @]
                 next == (crp + 1) % ChunkSlots
             IN /\ Issue(WriteTarget("chunk", Current), refused)
                /\ SetHead(op)
                /\ crp' = next + IF refused THEN op.left ELSE 0
                /\ IF refused THEN OffsetsUpdate(op)
                   ELSE /\ upset' = IF crp < ChunkSlots THEN upset
                                    ELSE upset \cup {"ranPast"}
                        /\ UNCHANGED pages
       \/ /\ result = "ok" /\ Current.step = "final"
          /\ WriteIssue(WriteTarget("final", Current),
                        [Current EXCEPT !.step = AfterFinal(Current)], refused)
          /\ UNCHANGED crp
       \/ /\ result = "ok" /\ Current.step = "dirty"
          /\ LET a == pages[Current.desc[1]].addr IN
             WriteIssue(OnRecord("dirty", a, flash[a].recs[Current.desc[2]].off, <<>>),
                        [Current EXCEPT !.step = "done"], refused)
          /\ UNCHANGED crp
       \/ /\ result = "ok" /\ Current.step = "done"
          /\ Finish("ok")
          /\ OffsetsUpdate(Current)
          /\ UNCHANGED <<opq, crp>>

(* Deletes.                                                                *)

DirtyTarget(i, k) ==
    LET a == pages[i].addr IN OnRecord("dirty", a, flash[a].recs[k].off, <<>>)

DeleteStep(result, refused) ==
    /\ Current.code \in {"delete", "deleteFile"}
    /\ UNCHANGED <<swap, crp, gc, phase, latest, tail>>
    /\ \/ /\ result = "timeout"
          /\ Finish("timeout")
          /\ upset' = IF Current.code = "deleteFile" THEN upset \cup {"staleToken"}
                      ELSE upset
          /\ UNCHANGED <<pages, opq, tok>>
       \/ /\ result = "ok" /\ Current.step = "flagRecord"
          /\ IF Places(Current.id) = {}
             THEN /\ Finish("notfound")
                  /\ UNCHANGED pages
             ELSE LET p == FirstOf(Places(Current.id)) IN
                  /\ Issue(DirtyTarget(p[1], p[2]), refused)
                  /\ pages' = [pages EXCEPT ![p[1]].canGc = TRUE]
          /\ SetHead([Current EXCEPT !.step = "done"])
          /\ UNCHANGED <<tok, upset>>
       \/ /\ result = "ok" /\ Current.step = "flagFile"
          /\ IF PlacesInFile(Current.file, tok) = {}
             THEN /\ Finish("ok")
                  /\ tok' = <<0, 0>>
                  /\ UNCHANGED <<pages, upset>>
             ELSE LET p == FirstOf(PlacesInFile(Current.file, tok)) IN
                  /\ Issue(DirtyTarget(p[1], p[2]), refused)
                  /\ pages' = [pages EXCEPT ![p[1]].canGc = TRUE]
                  /\ tok' = p
                  /\ upset' = IF refused THEN upset \cup {"staleToken"} ELSE upset
          /\ UNCHANGED opq
       \/ /\ result = "ok" /\ Current.step = "done"
          /\ Finish("ok")
          /\ UNCHANGED <<pages, opq, tok, upset>>

(* Garbage collection.                                                     *)

\* Slip: the page that was collected becomes the swap before the old swap is
\* promoted.
GcAdvanced_TagsSwapFirst ==
    LET s == [gc |-> [gc EXCEPT !.resume = FALSE], swap |-> swap, pages |-> pages]
        old == swap.addr
    IN CASE gc.resume -> s
         [] ~gc.resume /\ gc.state = "begin" ->
              [s EXCEPT !.gc.run = @ + 1, !.gc.cur = 0, !.gc.state = "nextPage",
                        !.gc.doGc = {i \in Idx : pages[i].type = "data"}]
         [] ~gc.resume /\ gc.state = "copy" ->
              [s EXCEPT !.gc.state = "findNext",
                        !.swap.woff = @ + flash[pages[gc.cur].addr].recs[gc.src].len]
         [] ~gc.resume /\ gc.state = "erasePage" ->
              [s EXCEPT !.gc.state = "tagSwap",
                        !.swap = [addr |-> pages[gc.cur].addr, woff |-> TagSize],
                        !.pages[gc.cur].addr = old,
                        !.pages[gc.cur].woff = swap.woff]
         [] ~gc.resume /\ gc.state \in {"discardSwap", "tagSwap"} ->
              [s EXCEPT !.gc.state = "promote"]
         [] ~gc.resume /\ gc.state = "promote" ->
              [s EXCEPT !.gc.state = "nextPage"]

\* gc_state_advance, unless the last step is to be done once more.
GcAdvanced ==
    LET s == [gc |-> [gc EXCEPT !.resume = FALSE], swap |-> swap, pages |-> pages]
        old == swap.addr
    IN CASE gc.resume -> s
         [] ~gc.resume /\ gc.state = "begin" ->
              [s EXCEPT !.gc.run = @ + 1, !.gc.cur = 0, !.gc.state = "nextPage",
                        !.gc.doGc = {i \in Idx : pages[i].type = "data"}]
         [] ~gc.resume /\ gc.state = "copy" ->
              [s EXCEPT !.gc.state = "findNext",
                        !.swap.woff = @ + flash[pages[gc.cur].addr].recs[gc.src].len]
         [] ~gc.resume /\ gc.state = "erasePage" ->
              [s EXCEPT !.gc.state = "promote",
                        !.swap = [addr |-> pages[gc.cur].addr, woff |-> TagSize],
                        !.pages[gc.cur].addr = old,
                        !.pages[gc.cur].woff = swap.woff]
         [] ~gc.resume /\ gc.state \in {"discardSwap", "promote"} ->
              [s EXCEPT !.gc.state = "tagSwap"]
         [] ~gc.resume /\ gc.state = "tagSwap" ->
              [s EXCEPT !.gc.state = "nextPage"]

\* gc_record_copy, of the record g.src.
GcCopy(g, s, refused) ==
    LET r == flash[s.pages[g.cur].addr].recs[g.src] IN
    /\ gc' = [g EXCEPT !.state = "copy"]
    /\ swap' = s.swap
    /\ Issue(OnRecord("copy", s.swap.addr, s.swap.woff,
                      [r EXCEPT !.off = s.swap.woff]), refused)

\* Slip: a record opened since the collection of the page began is not looked
\* for.
GcErase_IgnoresOpen(g, s, refused) ==
    /\ gc' = [g EXCEPT !.state = "erasePage"]
    /\ swap' = s.swap
    /\ Issue(OnPage("erase", s.pages[g.cur].addr), refused)

\* gc_page_erase: the page, or the swap if a record on the page is open.
GcErase(g, s, refused) ==
    IF s.pages[g.cur].open = 0
    THEN /\ gc' = [g EXCEPT !.state = "erasePage"]
         /\ swap' = s.swap
         /\ Issue(OnPage("erase", s.pages[g.cur].addr), refused)
    ELSE /\ gc' = [g EXCEPT !.state = "discardSwap"]
         /\ swap' = [s.swap EXCEPT !.woff = TagSize]
         /\ Issue(OnPage("erase", s.swap.addr), refused)

GcFindNext(g, s, refused) ==
    LET next == NextValid(s.pages[g.cur].addr, g.src) IN
    IF next # {} THEN GcCopy([g EXCEPT !.src = Min(next)], s, refused)
    ELSE GcErase(g, s, refused)

\* gc_next_page: pages with open records, or without deleted ones, are passed.
GcNextPage(g, s, refused) ==
    LET able == {i \in g.doGc : s.pages[i].open = 0 /\ s.pages[i].canGc} IN
    IF able # {}
    THEN GcFindNext([g EXCEPT !.cur = Min(able),
                              !.doGc = {i \in g.doGc : i > Min(able)}], s, refused)
    ELSE /\ gc' = [g EXCEPT !.state = "begin", !.cur = 0, !.src = 0, !.doGc = {}]
         /\ swap' = s.swap
         /\ Finish("ok")

\* An operation that was queued before the last one failed takes the step
\* that failed for done: fds_gc saw nothing to resume when it was called.
GcSkips == Current.step = "none" /\ gc.state # "begin" /\ ~gc.resume

\* gc_execute.  The step of a collection in the queue is history.
GcStep(result, refused) ==
    /\ Current.code = "gc"
    /\ SetHead([Current EXCEPT !.step = "begun"])
    /\ UNCHANGED <<crp, phase, latest, tok, tail>>
    /\ \/ /\ result = "timeout"
          /\ Finish("timeout")
          /\ UNCHANGED <<pages, swap, gc, upset>>
       \/ /\ result = "ok"
          /\ \E s \in {GcAdvanced} :
             /\ pages' = s.pages
             /\ upset' =
                  upset \cup (IF GcSkips THEN {"gcSkipped"} ELSE {})
                        \cup (IF s.gc.state = "discardSwap" THEN {"gcStuck"} ELSE {})
             /\ \/ s.gc.state = "nextPage" /\ GcNextPage(s.gc, s, refused)
                \/ s.gc.state = "findNext" /\ GcFindNext(s.gc, s, refused)
                \/ s.gc.state = "copy" /\ GcCopy(s.gc, s, refused)
                \/ s.gc.state = "erasePage" /\ GcErase(s.gc, s, refused)
                \/ /\ s.gc.state = "promote"
                   /\ gc' = s.gc /\ swap' = s.swap
                   /\ Issue(OnPage("data", s.pages[s.gc.cur].addr), refused)
                \/ /\ s.gc.state = "tagSwap"
                   /\ gc' = [s.gc EXCEPT !.src = 0] /\ swap' = s.swap
                   /\ Issue(OnPage("swap", s.swap.addr), refused)
                \/ /\ s.gc.state = "discardSwap"
                   /\ gc' = s.gc /\ swap' = s.swap
                   /\ Finish("internal")

-----------------------------------------------------------------------------
(* queue_process and its callers.                                          *)

Step(result, refused, inMain) ==
    \/ InitStep(result, refused, inMain)
    \/ WriteStep(result, refused)
    \/ DeleteStep(result, refused)
    \/ GcStep(result, refused)

\* queue_start, the end of every call that queues an operation.  Without
\* FDS_THREADS nothing keeps another context out between the two.
QueueStart ==
    /\ opq # <<>> /\ ~processing
    /\ processing' = TRUE
    /\ \E refused \in Refusals : Step("ok", refused, InitPreempted)
    /\ UNCHANGED <<flash, ev, clients>>

\* fs_event_handler, or queue_process for the next operation.
EventHandler ==
    /\ ev # "none"
    /\ ev' = "none"
    /\ \E refused \in Refusals : Step(ev, refused, FALSE)
    /\ UNCHANGED <<flash, processing, clients>>

\* Slip: the operations behind the answered one are not processed.
QueueAdvance_NoNext ==
    /\ answer # "none"
    /\ answer' = "none"
    /\ opq' = Tail(opq)
    /\ processing' = (Len(opq) > 1)
    /\ UNCHANGED <<flash, fl, ev, pages, swap, gc, crp, phase, latest, tok, tail,
                   clients, used, upset>>

\* Behind event_send, in whose callbacks the clients may have called.
QueueAdvance ==
    /\ answer # "none"
    /\ answer' = "none"
    /\ opq' = Tail(opq)
    /\ IF Len(opq) > 1 THEN ev' = "ok" /\ UNCHANGED processing
       ELSE processing' = FALSE /\ UNCHANGED ev
    /\ UNCHANGED <<flash, fl, pages, swap, gc, crp, phase, latest, tok, tail,
                   clients, used, upset>>

-----------------------------------------------------------------------------
(* The calls.                                                              *)

Op(code, step) == [code |-> code, step |-> step, page |-> 0, id |-> 0,
                   file |-> NoFile, len |-> 0, left |-> 0, old |-> 0,
                   desc |-> <<0, 0>>]

ChunksQueued == FoldLeft(LAMBDA sum, op : sum + op.left, 0, opq)

\* Slip: one operation more than the queue has places for.
Room_OneMore(chunks) ==
    Len(opq) <= OpQueueSize /\ ChunksQueued + chunks <= ChunkSlots

\* op_enqueue has room.
Room(chunks) == Len(opq) < OpQueueSize /\ ChunksQueued + chunks <= ChunkSlots

Enqueue(op) == opq' = Append(opq, op)

\* Slip: what is reserved already is not counted.
PagesWithSpace_IgnoresReserved(len) ==
    {i \in Idx : pages[i].type = "data" /\ len + pages[i].woff < PageSize}

\* write_space_reserve: the first data page with space, if there is one.
PagesWithSpace(len) ==
    {i \in Idx : /\ pages[i].type = "data"
                 /\ len + pages[i].woff + pages[i].rsv < PageSize}

CanReserve(len) == len < PageSize - TagSize /\ PagesWithSpace(len) # {}

WriteOp(code, page, f, n, old) ==
    [Op(code, IF code = "update" THEN "find" ELSE "begin")
       EXCEPT !.page = page, !.id = latest + 1, !.file = f,
              !.len = RecordLen(n), !.left = n, !.old = old]

\* write_enqueue without a reservation: fds_record_write, fds_record_update.
WriteEnqueue(code, f, n, old) ==
    /\ phase = "ready"
    /\ used.writes < MaxIds
    /\ CanReserve(RecordLen(n))
    /\ LET page == Min(PagesWithSpace(RecordLen(n))) IN
       IF Room(n)
       THEN /\ pages' = [pages EXCEPT ![page].rsv = @ + RecordLen(n)]
            /\ Enqueue(WriteOp(code, page, f, n, old))
       ELSE UNCHANGED <<pages, opq>>
    /\ latest' = latest + 1
    /\ used' = [used EXCEPT !.writes = @ + 1]
    /\ UNCHANGED <<flash, fl, ev, swap, gc, crp, phase, processing, tok, tail,
                   answer, clients, upset>>

RecordWrite == \E f \in Files, n \in ChunkCounts : WriteEnqueue("write", f, n, 0)

RecordUpdate ==
    \E f \in Files, n \in ChunkCounts, id \in 1 .. latest :
        WriteEnqueue("update", f, n, id)

NoToken == [page |-> NoAddr, chunks |-> 0]

Reserve ==
    /\ phase = "ready" /\ token = NoToken
    /\ May("reserves", MaxReserves)
    /\ \E n \in ChunkCounts :
        LET page == Min(PagesWithSpace(RecordLen(n))) IN
        /\ CanReserve(RecordLen(n))
        /\ pages' = [pages EXCEPT ![page].rsv = @ + RecordLen(n)]
        /\ token' = [page |-> page, chunks |-> n]
    /\ used' = [used EXCEPT !.reserves = @ + 1]
    /\ UNCHANGED <<flash, fl, ev, swap, gc, opq, crp, phase, processing, latest,
                   tok, tail, answer, reader, upset>>

ReserveCancel ==
    /\ phase = "ready" /\ token # NoToken
    /\ pages[token.page].rsv >= RecordLen(token.chunks)
    /\ pages' = [pages EXCEPT ![token.page].rsv = @ - RecordLen(token.chunks)]
    /\ token' = NoToken
    /\ UNCHANGED <<flash, fl, ev, swap, gc, opq, crp, phase, processing, latest,
                   tok, tail, answer, reader, used, upset>>

\* fds_record_write_reserved.  If the queue is full the reservation is given
\* up, although the client still holds its token.
RecordWriteReserved ==
    /\ phase = "ready" /\ token # NoToken
    /\ used.writes < MaxIds
    /\ \E f \in Files :
        IF Room(token.chunks)
        THEN /\ Enqueue(WriteOp("write", token.page, f, token.chunks, 0))
             /\ token' = NoToken
             /\ UNCHANGED <<pages, upset>>
        ELSE /\ pages' = [pages EXCEPT ![token.page].rsv =
                                           @ - RecordLen(token.chunks)]
             /\ upset' = upset \cup {"reservation"}
             /\ UNCHANGED <<opq, token>>
    /\ latest' = latest + 1
    /\ used' = [used EXCEPT !.writes = @ + 1]
    /\ UNCHANGED <<flash, fl, ev, swap, gc, crp, phase, processing, tok, tail,
                   answer, reader>>

\* Calls that queue an operation without data.
DeleteEnqueue(op) ==
    /\ phase = "ready"
    /\ used.deletes < MaxDeletes
    /\ Room(0)
    /\ Enqueue(op)
    /\ used' = [used EXCEPT !.deletes = @ + 1]
    /\ UNCHANGED <<flash, fl, ev, pages, swap, gc, crp, phase, processing, latest,
                   tok, tail, answer, clients, upset>>

RecordDelete ==
    \E id \in 1 .. latest :
        DeleteEnqueue([Op("delete", "flagRecord") EXCEPT !.id = id])

FileDelete ==
    \E f \in Files : DeleteEnqueue([Op("deleteFile", "flagFile") EXCEPT !.file = f])

GcCall ==
    /\ phase = "ready"
    /\ used.gcs < MaxGcs
    /\ Room(0)
    /\ Enqueue(Op("gc", "none"))
    /\ gc' = [gc EXCEPT !.resume = @ \/ gc.state # "begin"]
    /\ used' = [used EXCEPT !.gcs = @ + 1]
    /\ UNCHANGED <<flash, fl, ev, pages, swap, crp, phase, processing, latest, tok,
                   tail, answer, clients, upset>>

NoReader == [id |-> 0, addr |-> NoAddr, off |-> 0, run |-> 0]

\* fds_record_find and fds_record_open, one behind the other as
\* pds_peer_data_read_ptr_get calls them.
RecordOpen ==
    /\ phase = "ready" /\ reader = NoReader
    /\ May("opens", MaxOpens)
    /\ \E f \in Files :
        /\ PlacesInFile(f, <<0, 0>>) # {}
        /\ LET p == FirstOf(PlacesInFile(f, <<0, 0>>))
               a == pages[p[1]].addr
               r == flash[a].recs[p[2]]
           IN /\ pages' = [pages EXCEPT ![p[1]].open = @ + 1]
              /\ reader' = [id |-> r.id, addr |-> a, off |-> r.off, run |-> gc.run]
              /\ upset' = IF fl.kind = "erase" /\ fl.addr = a
                          THEN upset \cup {"lateOpen"} ELSE upset
    /\ used' = [used EXCEPT !.opens = @ + 1]
    /\ UNCHANGED <<flash, fl, ev, swap, gc, opq, crp, phase, processing, latest,
                   tok, tail, answer, token>>

\* Where record_find_by_desc finds the reader's record: at the address it
\* remembers if no collection has begun since, even when it is deleted.
ReaderPages ==
    IF reader.run = gc.run /\ \E k \in DOMAIN flash[reader.addr].recs :
           /\ flash[reader.addr].recs[k].off = reader.off
           /\ flash[reader.addr].recs[k].id = reader.id
    THEN {i \in Idx : pages[i].addr = reader.addr}
    ELSE {ik[1] : ik \in Places(reader.id)}

RecordClose ==
    /\ phase = "ready" /\ reader # NoReader
    /\ LET found == {i \in ReaderPages : pages[i].open > 0} IN
       IF found = {}
       THEN /\ upset' = upset \cup {"openLeaked"}
            /\ UNCHANGED pages
       ELSE /\ pages' = [pages EXCEPT ![Min(found)].open = @ - 1]
            /\ UNCHANGED upset
    /\ reader' = NoReader
    /\ UNCHANGED <<flash, fl, ev, swap, gc, opq, crp, phase, processing, latest,
                   tok, tail, answer, token, used>>

\* pds_peer_data_store cancels the token it was given before an update, also
\* when that is the zero token of a caller that reserved nothing.
ZeroTokenCancel ==
    /\ phase = "ready"
    /\ \E id \in 1 .. latest : Places(id) # {}
    /\ pages[0].rsv >= HeaderSize
    /\ pages' = [pages EXCEPT ![0].rsv = @ - HeaderSize]
    /\ upset' = upset \cup {"reservation"}
    /\ UNCHANGED <<flash, fl, ev, swap, gc, opq, crp, phase, processing, latest,
                   tok, tail, answer, clients, used>>

-----------------------------------------------------------------------------
(* Power.                                                                  *)

BlankPage == [type |-> "data", addr |-> NoAddr, woff |-> 0, rsv |-> 0,
              open |-> 0, canGc |-> FALSE]

BlankGc == [state |-> "begin", cur |-> 0, src |-> 0, run |-> 0, doGc |-> {},
            resume |-> FALSE]

\* Everything in RAM, as it is before fds_init.
RamAtReset ==
    /\ fl' = NoFl /\ ev' = "none" /\ answer' = "none"
    /\ pages' = [i \in Idx |-> BlankPage]
    /\ swap' = [addr |-> NoAddr, woff |-> 0]
    /\ gc' = BlankGc
    /\ opq' = <<>> /\ crp' = 0
    /\ phase' = "off" /\ processing' = FALSE
    /\ latest' = 0 /\ tok' = <<0, 0>>
    /\ tail' = [step |-> "none", page |-> 0]
    /\ token' = NoToken /\ reader' = NoReader

Init ==
    /\ flash = [a \in Addrs |-> ErasedPage]
    /\ fl = NoFl /\ ev = "none" /\ answer = "none"
    /\ pages = [i \in Idx |-> BlankPage]
    /\ swap = [addr |-> NoAddr, woff |-> 0]
    /\ gc = BlankGc
    /\ opq = <<>> /\ crp = 0
    /\ phase = "off" /\ processing = FALSE
    /\ latest = 0 /\ tok = <<0, 0>>
    /\ tail = [step |-> "none", page |-> 0]
    /\ token = NoToken /\ reader = NoReader
    /\ used = [writes |-> 0, deletes |-> 0, gcs |-> 0, reserves |-> 0,
               opens |-> 0, crashes |-> 0, fails |-> 0]
    /\ upset = {}

\* The power fails, and with it what the flash was doing.
PowerFail ==
    /\ phase # "off"
    /\ May("crashes", MaxCrashes)
    /\ \/ UNCHANGED <<flash, upset>>
       \/ /\ flash' = Applied(fl)
          /\ upset' = IF fl.kind = "begin" /\ GcStale(fl) THEN upset \cup {"gcStale"}
                      ELSE upset
    /\ used' = [used EXCEPT !.crashes = @ + 1]
    /\ RamAtReset

\* pages_init: what one page adds to what is known of the ones before it.
PageFound(s, a) ==
    LET at(type, addr, woff) ==
            [BlankPage EXCEPT !.type = type, !.addr = addr, !.woff = woff]
        put(page) == IF s.n < MaxPages THEN [s.pages EXCEPT ![s.n] = page]
                     ELSE s.pages
    IN
    CASE flash[a].tag = "erased" /\ s.swap.addr # NoAddr ->
           [s EXCEPT !.pages = put(at("erased", a, TagSize)), !.n = @ + 1,
                     !.cur = s.n, !.seen = @ \cup {"erased"}]
      [] flash[a].tag = "erased" /\ s.swap.addr = NoAddr ->
           [s EXCEPT !.swap = [addr |-> a, woff |-> TagSize],
                     !.assumed = TRUE, !.seen = @ \cup {"erased"}]
      [] flash[a].tag = "data" ->
           [s EXCEPT !.pages = put([at("data", a, WordsWritten(a))
                                      EXCEPT !.canGc = DirtyFound(a)]),
                     !.n = @ + 1, !.scanned = @ \cup {a}, !.seen = @ \cup {"data"}]
      [] flash[a].tag = "swap" ->
           [s EXCEPT !.pages = IF s.assumed THEN put(at("erased", s.swap.addr, TagSize))
                               ELSE @,
                     !.n = @ + IF s.assumed THEN 1 ELSE 0,
                     !.swap = [addr |-> a, woff |-> WordsWritten(a)],
                     !.scanned = @ \cup {a},
                     !.seen = @ \cup {IF WordsWritten(a) = TagSize THEN "swapEmpty"
                                      ELSE "swapDirty"}]

\* What is known when the pages below n have been looked at.
Known[n \in 0 .. VirtualPages] ==
    IF n = 0 THEN [pages |-> pages, n |-> 0, swap |-> swap, assumed |-> FALSE,
                   cur |-> gc.cur, scanned |-> {}, seen |-> {}]
    ELSE PageFound(Known[n - 1], n - 1)

PagesInit == Known[VirtualPages]

\* Slip: what an interrupted collection left in the swap is kept.
InitOption_KeepsSwap(seen) ==
    CASE seen \in {{"erased"}, {"erased", "data"}} -> "tagSwap"
      [] seen \in {{"erased", "swapEmpty"}, {"erased", "data", "swapEmpty"}} ->
            "tagData"
      [] seen \in {{"erased", "swapDirty"}, {"erased", "data", "swapDirty"}} ->
            "promote"
      [] seen \in {{"data", "swapDirty"}, {"data", "swapEmpty"}} -> "installed"
      [] OTHER -> "unknown"

\* The first step of the initialization, from the kinds of pages found.
InitOption(seen) ==
    CASE seen \in {{"erased"}, {"erased", "data"}} -> "tagSwap"
      [] seen \in {{"erased", "swapEmpty"}, {"erased", "data", "swapEmpty"}} ->
            "tagData"
      [] seen \in {{"erased", "swapDirty"}, {"erased", "data", "swapDirty"}} ->
            "promote"
      [] seen = {"data", "swapDirty"} -> "eraseSwap"
      [] seen = {"data", "swapEmpty"} -> "installed"
      [] OTHER -> "unknown"

\* fds_init.
PowerOn ==
    /\ phase = "off"
    /\ \E s \in {PagesInit} :
       /\ pages' = s.pages
       /\ swap' = s.swap
       /\ gc' = [gc EXCEPT !.cur = s.cur]
       /\ latest' = LatestOn(s.scanned)
       /\ upset' = IF s.n > MaxPages \/ InitOption(s.seen) = "unknown"
                   THEN upset \cup {"unknown"} ELSE upset
       /\ IF InitOption(s.seen) = "installed"
          THEN /\ phase' = "ready"
               /\ UNCHANGED opq
          ELSE /\ phase' = "initializing"
               /\ Enqueue(Op("init", InitOption(s.seen)))
    /\ UNCHANGED <<flash, fl, ev, crp, processing, tok, tail, answer, clients, used>>

-----------------------------------------------------------------------------
Calls ==
    \/ RecordWrite \/ RecordUpdate \/ RecordDelete \/ FileDelete \/ GcCall
    \/ Reserve \/ ReserveCancel \/ RecordWriteReserved \/ ZeroTokenCancel
    \/ RecordOpen \/ RecordClose

Internal ==
    \/ FlashDone \/ FlashTimeout \/ QueueStart \/ EventHandler \/ QueueAdvance
    \/ InitTail

\* The clients are set up by the main thread, behind its call of fds_init.
\* Behind an upset that is not in Upsets nothing is modelled any more.
Next ==
    /\ upset \subseteq Upsets
    /\ \/ tail.step = "none" /\ Calls
       \/ Internal \/ PowerFail \/ PowerOn

Spec == Init /\ [][Next]_vars

-----------------------------------------------------------------------------
(* Properties.                                                             *)

Slots == [id : Nat, file : Files \cup {NoFile}, off : Nat, len : Nat,
          st : {"begun", "valid", "dirty", "hole"}, own : BOOLEAN]

TypeOK ==
    /\ \A a \in Addrs : /\ flash[a].tag \in {"erased", "swap", "data"}
                        /\ \A k \in DOMAIN flash[a].recs : flash[a].recs[k] \in Slots
    /\ ev \in {"none", "ok", "timeout"}
    /\ pages \in [Idx -> [type : {"data", "erased"}, addr : Addrs \cup {NoAddr},
                          woff : 0 .. PageSize, rsv : 0 .. PageSize,
                          open : Nat, canGc : BOOLEAN]]
    /\ swap \in [addr : Addrs \cup {NoAddr}, woff : 0 .. PageSize]
    /\ gc.cur \in Idx /\ gc.doGc \subseteq Idx
    /\ Len(opq) <= OpQueueSize
    /\ phase \in {"off", "initializing", "ready", "failed"}
    /\ processing <=> fl.kind # "none" \/ ev # "none" \/ answer # "none"

\* The records that can be told from the pages alone: those on data pages,
\* and those on the swap once the page they were copied from is erased.
Recoverable ==
    LET pagesWith(tag) == {a \in Addrs : flash[a].tag = tag}
        read == pagesWith("data") \cup
                IF \E a \in pagesWith("erased") : TRUE THEN pagesWith("swap") ELSE {}
    IN {[id |-> flash[ak[1]].recs[ak[2]].id, file |-> flash[ak[1]].recs[ak[2]].file] :
           ak \in {bk \in read \X Positions : ValidAt(bk[1], bk[2])}}

Executing ==
    IF opq = <<>> THEN [code |-> "none", id |-> 0, file |-> NoFile, old |-> 0]
    ELSE [code |-> Current.code, id |-> Current.id, file |-> Current.file, old |-> Current.old]

Store == INSTANCE RecordStore
    WITH Ids <- 1 .. MaxIds, live <- Recoverable, executing <- Executing

\* The flash implements the record store: garbage collection, power failures
\* and initialization neither lose a record nor bring one back.
StoreSpec == Store!Spec

\* What record_find can find, and where.
FoundAt == {ik \in Idx \X Positions :
               pages[ik[1]].addr # NoAddr /\ ValidAt(pages[ik[1]].addr, ik[2])}

RecordAt(ik) ==
    LET r == flash[pages[ik[1]].addr].recs[ik[2]] IN [id |-> r.id, file |-> r.file]

\* Between the erase of a collected page and its event m_pages still points
\* to it, and its records are in the swap.
Swapping == \E i \in Idx : pages[i].type = "data" /\ flash[pages[i].addr].tag = "erased"

\* Once the store is initialized a search finds each record that is in flash,
\* and finds it once.
RecordsSurvive ==
    phase = "ready" /\ ~Swapping =>
        /\ {RecordAt(ik) : ik \in FoundAt} = Recoverable
        /\ Cardinality(FoundAt) = Cardinality(Recoverable)

\* The same as long as nothing has happened that the code does not survive:
\* a wrong page promoted, a gap left on a page.
RecordsFound == upset = {} => RecordsSurvive

\* A store goes to erased words, or repeats what they hold: what the pages'
\* write offsets say is where the records in flash end.
NoOverlay == upset = {} /\ fl.kind # "none" => FitsFlash(fl)

\* The sum of a sequence of numbers.
Total(s) ==
    LET sum[k \in 0 .. Len(s)] == IF k = 0 THEN 0 ELSE s[k] + sum[k - 1] IN sum[Len(s)]

\* What an operation writes on page i.
WordsOn(i, op) == IF op.code \in {"write", "update"} /\ op.page = i THEN op.len ELSE 0

ReservedOn(i) ==
    (IF token.page = i THEN RecordLen(token.chunks) ELSE 0)
        + Total([k \in DOMAIN opq |-> WordsOn(i, opq[k])])

\* The operation that is being answered has been taken off the reservation.
SpaceDone(i) ==
    IF answer # "none" /\ answer # "notfound"
       /\ Current.code \in {"write", "update"} /\ Current.page = i
    THEN Current.len ELSE 0

\* Every queued write and every reservation has its words on its page,
\* whatever was collected, deleted or given up in between.
SpaceHeld ==
    upset = {} /\ phase = "ready" =>
        \A i \in Idx : /\ pages[i].rsv >= ReservedOn(i) - SpaceDone(i)
                       /\ pages[i].woff + pages[i].rsv < PageSize

\* A success event tells the truth: a written record is found, with its own
\* data, a deleted one is not, nor is any of a deleted file.
AnswerTrue ==
    answer = "ok" /\ upset = {} =>
        CASE Current.code \in {"write", "update"} ->
                /\ \E ik \in FoundAt :
                     /\ RecordAt(ik) = [id |-> Current.id, file |-> Current.file]
                     /\ flash[pages[ik[1]].addr].recs[ik[2]].own
                /\ Current.code = "update" => Places(Current.old) = {}
          [] Current.code = "delete" -> Places(Current.id) = {}
          [] Current.code = "deleteFile" -> PlacesInFile(Current.file, <<0, 0>>) = {}
          [] OTHER -> TRUE

\* An open record stays where the reader's pointers point: its page is
\* neither erased nor written over until it is closed.
OpenKept ==
    reader # NoReader /\ upset = {} =>
        /\ \E k \in DOMAIN flash[reader.addr].recs :
              LET r == flash[reader.addr].recs[k] IN
              r.off = reader.off /\ r.id = reader.id /\ r.st \in {"valid", "dirty"}
        /\ \E i \in Idx : pages[i].addr = reader.addr /\ pages[i].open > 0

\* Whenever the power failed, the pages are of a combination that fds_init
\* knows, and fit the array it puts them in.
InitKnowsFlash == "unknown" \notin upset

-----------------------------------------------------------------------------
(* Liveness.  The SoftDevice carries out flash operations, and raises their *)
(* events; handlers run; the device is switched on again.                  *)

FairSpec == Spec /\ WF_vars(Internal) /\ WF_vars(PowerOn)

\* The queue drains: every accepted operation, garbage collection included,
\* is answered or goes with the power.
QueueDrains == (opq # <<>>) ~> (opq = <<>> \/ upset # {})
=============================================================================
