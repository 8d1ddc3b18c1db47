---------------------------- MODULE HPatchLite ----------------------------
(* HPatchLite: create_inplace_lite_diff and its patch, for devices that     *)
(* write the new version over the old one.  A cover may only read old bytes *)
(* that the output has not reached; a ring of extraSafeSize bytes, and a    *)
(* page, hold the output back.  Positions are small enough that a packed    *)
(* integer is one byte (below 32, the room beside the tag of an oldPos).    *)
EXTENDS Integers, Sequences, SequencesExt

CONSTANTS LiteOldSize, LiteNewSize,
          LiteSpare,    \* temp_cache above the least that is allowed
          LitePages,    \* page sizes; 0 is the build that does not write by pages
          LiteCuts      \* bytes that the diff may lack at its end

ASSUME LiteAssumption == /\ LiteOldSize \in 0..31 /\ LiteNewSize \in 0..31
                         /\ LiteSpare \subseteq Nat /\ LitePages \subseteq Nat /\ LiteCuts \subseteq Nat

hpi_kMinCacheSize == 2
hpi_kMinInplaceCacheSize == 3

VARIABLES liteIn,      \* the covers, the spare cache, the page and the cut
          diffStream,  \* the diff that read_diff reads
          litePc,      \* where hpatchi_inplaceB is
          mem,         \* the memory that holds the old data and becomes the new
          outPos,      \* bytes that write_new has put there
          diffCache,   \* _TInputCache: position in the diff, bytes left, cache_end
          coverCount, oldPosBack, newPosBack,
          cover,       \* the cover at work: oldPos, newPos, length, isNotNeedSubDiff
          copyLength,  \* bytes of the diff that are still to be copied
          write_extra, cached_data_pos, cached_data_len,  \* the ring
          page,        \* data of the current page
          liteResult

liteVars == <<liteIn, diffStream, litePc, mem, outPos, diffCache, coverCount, oldPosBack, newPosBack,
              cover, copyLength, write_extra, cached_data_pos, cached_data_len, page, liteResult>>

least(a, b) == IF a < b THEN a ELSE b
most(a, b) == IF a > b THEN a ELSE b

---------------------------------------------------------------------------
(* The diff *)

LiteCover == [oldPos : 0..LiteOldSize, newPos : 0..LiteNewSize, length : 1..LiteNewSize, same : BOOLEAN]

(* The covers of the search: in the order of the new data, apart.  `same`  *)
(* says that the new bytes equal the old ones.                             *)
LiteCovers ==
    {<<>>} \cup
    {s \in {<<c>> : c \in LiteCover} \cup {<<c, d>> : c \in LiteCover, d \in LiteCover} :
        /\ \A i \in 1..Len(s) : /\ s[i].oldPos + s[i].length <= LiteOldSize
                                /\ s[i].newPos + s[i].length <= LiteNewSize
        /\ Len(s) = 2 => s[1].newPos + s[1].length <= s[2].newPos}

(* _search_cover_finish: the extraSafeSize that the covers really need.    *)
minExtraSafeSize(covers) ==
    FoldSeq(LAMBDA c, m : IF c.oldPos < c.newPos THEN most(m, c.newPos - c.oldPos) ELSE m, 0, covers)

Old(p) == p + 1
New(covers, p) ==
    LET in == SelectSeq(covers, LAMBDA c : c.same /\ p \in c.newPos..(c.newPos + c.length - 1))
    IN  IF in = <<>> THEN 100 + p ELSE Old(in[1].oldPos + p - in[1].newPos)

bytes(from, to, B(_)) == [i \in 1..(to - from) |-> B(from + i - 1)]

(* The end of the new data is covered by an empty cover. *)
withTail(covers) ==
    LET lastc == IF covers = <<>> THEN [oldPos |-> 0, newPos |-> 0, length |-> 0] ELSE Last(covers)
    IN  IF lastc.newPos + lastc.length < LiteNewSize
        THEN Append(covers, [oldPos |-> lastc.oldPos + lastc.length, newPos |-> LiteNewSize,
                             length |-> 0, same |-> FALSE])
        ELSE covers

(* serialize_lite_diff: per cover its length, the tag with the step of     *)
(* oldPos, the step of newPos, the new data before it, the sub diff.       *)
serialize_lite_diff(found) ==
    LET covers == withTail(found)
        endOf(i, f) == IF i = 0 THEN 0 ELSE covers[i][f] + covers[i].length
        item(i) ==
            LET c == covers[i]
                sub == bytes(c.newPos, c.newPos + c.length,
                             LAMBDA p : (New(found, p) - Old(c.oldPos + p - c.newPos)) % 256)
                isNull == \A k \in 1..Len(sub) : sub[k] = 0
                step == c.oldPos - endOf(i - 1, "oldPos")
                tag == (IF step < 0 THEN 1 ELSE 0) + (IF isNull THEN 2 ELSE 0)
            IN  <<c.length, 64 * tag + most(step, 0 - step), c.newPos - endOf(i - 1, "newPos")>>
                \o bytes(endOf(i - 1, "newPos"), c.newPos, LAMBDA p : New(found, p))
                \o (IF isNull THEN <<>> ELSE sub)
    IN  <<Len(covers)>> \o FlattenSeq([i \in 1..Len(covers) |-> item(i)])

---------------------------------------------------------------------------
(* _TInputCache *)

_cache_update(c) == LET len == least(c.end, Len(diffStream) - c.pos) IN [c EXCEPT !.left = len, !.end = len]

filled(c) == IF c.left = 0 THEN _cache_update(c) ELSE c

(* The next byte, 0 behind the end, and the cache after it. *)
_cache_byte(c) == IF filled(c).left = 0 THEN 0 ELSE diffStream[c.pos + 1]
_cache_next(c) == LET f == filled(c) IN IF f.left = 0 THEN f ELSE [f EXCEPT !.pos = @ + 1, !.left = @ - 1]

_cache_skip(c, n) == [c EXCEPT !.pos = @ + n, !.left = @ - n]

---------------------------------------------------------------------------
(* hpatchi_inplaceB and hpatchi_inplaceB_by_page *)

extraSafeSize == minExtraSafeSize(liteIn.covers)
needExtra == extraSafeSize + liteIn.page
temp_cache_size == hpi_kMinInplaceCacheSize + needExtra + liteIn.spare

(* For small extraSafeSize the ring takes half of what is left. *)
kWriteExtraSize == IF needExtra > 0 THEN most(extraSafeSize, (temp_cache_size - needExtra) \div 2)
                   ELSE extraSafeSize

patchCacheSize == temp_cache_size - kWriteExtraSize - liteIn.page

LiteInputs ==
    {[covers |-> c, spare |-> s, page |-> p, cut |-> k] :
        c \in LiteCovers, s \in LiteSpare, p \in LitePages, k \in LiteCuts}

LiteInit(inputs) ==
    /\ liteIn \in inputs
    /\ LET d == serialize_lite_diff(liteIn.covers)
       IN  liteIn.cut <= Len(d) /\ diffStream = SubSeq(d, 1, Len(d) - liteIn.cut)
    /\ litePc = "open" /\ liteResult = FALSE
    /\ mem = bytes(0, most(LiteOldSize, LiteNewSize), LAMBDA p : IF p < LiteOldSize THEN Old(p) ELSE 0) /\ outPos = 0
    /\ diffCache = [pos |-> 0, left |-> 0, end |-> 0]
    /\ coverCount = 0 /\ oldPosBack = 0 /\ newPosBack = 0
    /\ cover = [oldPos |-> 0, newPos |-> 0, length |-> 0, same |-> FALSE, empty |-> TRUE] /\ copyLength = 0
    /\ write_extra = <<>> /\ cached_data_pos = 0 /\ cached_data_len = 0 /\ page = <<>>

LiteReturn(ok) == litePc' = "flush" /\ liteResult' = ok

ringVars == <<mem, outPos, write_extra, cached_data_pos, cached_data_len, page>>

(* hpatch_lite_patch: the cache is halved, then the number of covers. *)
LiteOpen ==
    /\ litePc = "open"
    /\ LET half == patchCacheSize \div 2
           c == [pos |-> 0, left |-> 0, end |-> half]
       IN  IF patchCacheSize < hpi_kMinCacheSize
           THEN LiteReturn(FALSE) /\ UNCHANGED <<diffCache, coverCount>>
           ELSE /\ coverCount' = _cache_byte(c) /\ diffCache' = _cache_next(c)
                /\ litePc' = "cover" /\ UNCHANGED liteResult
    /\ write_extra' = [i \in 1..kWriteExtraSize |-> 0]
    /\ UNCHANGED <<liteIn, diffStream, mem, outPos, oldPosBack, newPosBack, cover, copyLength,
                   cached_data_pos, cached_data_len, page>>

ReadCover ==
    /\ litePc = "cover" /\ coverCount > 0
    /\ LET c1 == _cache_next(diffCache)
           c2 == _cache_next(c1)
           length == _cache_byte(diffCache)
           tag == _cache_byte(c1)
           oldPos == IF (tag \div 64) % 2 = 1 THEN oldPosBack - (tag % 32) ELSE oldPosBack + (tag % 32)
           newPos == newPosBack + _cache_byte(c2)
       IN  /\ cover' = [oldPos |-> oldPos, newPos |-> newPos, length |-> length,
                       same |-> tag \div 128 = 1, empty |-> length = 0]
           /\ copyLength' = newPos - newPosBack
           /\ diffCache' = _cache_next(c2)
    /\ coverCount' = coverCount - 1 /\ litePc' = "copy"
    /\ UNCHANGED <<liteIn, diffStream, oldPosBack, newPosBack, liteResult, ringVars>>

put(m, at, data) == [i \in 1..Len(m) |-> IF i - at \in 1..Len(data) THEN data[i - at] ELSE m[i]]

(* What leaves the ring is kept in the page until the page is full and     *)
(* more comes.                                                             *)
Emit(data) ==
    LET all == page \o data
        n == IF liteIn.page = 0 THEN Len(all)
             ELSE IF all = <<>> THEN 0 ELSE ((Len(all) - 1) \div liteIn.page) * liteIn.page
    IN  /\ mem' = put(mem, outPos, SubSeq(all, 1, n)) /\ outPos' = outPos + n
        /\ page' = SubSeq(all, n + 1, Len(all))

ringData(n) == [i \in 1..n |-> write_extra[((cached_data_pos + i - 1) % kWriteExtraSize) + 1]]

(* _hpatchi_listener_extra_write_new: what no longer fits comes out first. *)
WriteNew(data) ==
    IF needExtra = 0
    THEN Emit(data) /\ UNCHANGED <<write_extra, cached_data_pos, cached_data_len>>
    ELSE LET over == most(cached_data_len + Len(data) - kWriteExtraSize, 0)
             out == least(over, cached_data_len)   \* from the ring
             through == over - out                 \* of the data: it passes the ring
             posi == cached_data_pos + out
             kept == SubSeq(data, through + 1, Len(data))
             len == cached_data_len - out
         IN  /\ Emit(ringData(out) \o SubSeq(data, 1, through))
             /\ cached_data_pos' = (posi + through) % kWriteExtraSize
             /\ cached_data_len' = len + Len(kept)
             /\ write_extra' = [i \in 1..kWriteExtraSize |->
                  LET k == ((i - 1 - (posi + through + len)) % kWriteExtraSize) + 1
                  IN  IF k <= Len(kept) THEN kept[k] ELSE write_extra[i]]

(* A round of _patch_copy_diff: as much as the cache holds. *)
CopyDiff ==
    /\ litePc = "copy" /\ copyLength > 0
    /\ LET c == filled(diffCache)
           n == least(c.left, copyLength)
       IN  IF n = 0 THEN LiteReturn(FALSE) /\ UNCHANGED <<diffCache, copyLength, ringVars>>
           ELSE /\ WriteNew(SubSeq(diffStream, c.pos + 1, c.pos + n))
                /\ diffCache' = _cache_skip(c, n) /\ copyLength' = copyLength - n
                /\ UNCHANGED <<litePc, liteResult>>
    /\ UNCHANGED <<liteIn, diffStream, coverCount, oldPosBack, newPosBack, cover>>

CopyDone == /\ litePc = "copy" /\ copyLength = 0 /\ litePc' = "add"
            /\ UNCHANGED <<liteIn, diffStream, diffCache, coverCount, oldPosBack, newPosBack, cover, copyLength, liteResult, ringVars>>

(* A round of _patch_add_old_withClip: old bytes are read, the sub diff is *)
(* added, the sum is written.  The cover moves on.                         *)
AddOld ==
    /\ litePc = "add" /\ cover.length > 0
    /\ LET c == IF cover.same THEN diffCache ELSE filled(diffCache)
           n == least(IF cover.same THEN c.end ELSE c.left, cover.length)
           read == SubSeq(mem, cover.oldPos + 1, cover.oldPos + n)
           data == IF cover.same THEN read
                   ELSE [i \in 1..n |-> (read[i] + diffStream[c.pos + i]) % 256]
       IN  IF n = 0 \/ cover.oldPos < 0 \/ cover.oldPos + n > LiteOldSize
           THEN LiteReturn(FALSE) /\ UNCHANGED <<diffCache, cover, ringVars>>
           ELSE /\ WriteNew(data)
                /\ diffCache' = IF cover.same THEN c ELSE _cache_skip(c, n)
                /\ cover' = [cover EXCEPT !.oldPos = @ + n, !.newPos = @ + n, !.length = @ - n]
                /\ UNCHANGED <<litePc, liteResult>>
    /\ UNCHANGED <<liteIn, diffStream, coverCount, oldPosBack, newPosBack, copyLength>>

(* The cover is done; only the last one may be empty. *)
CoverDone ==
    /\ litePc = "add" /\ cover.length = 0
    /\ newPosBack' = cover.newPos /\ oldPosBack' = cover.oldPos
    /\ IF cover.empty /\ coverCount > 0
       THEN LiteReturn(FALSE)
       ELSE litePc' = "cover" /\ UNCHANGED liteResult
    /\ UNCHANGED <<liteIn, diffStream, diffCache, coverCount, cover, copyLength, ringVars>>

CoversDone ==
    /\ litePc = "cover" /\ coverCount = 0
    /\ LiteReturn(newPosBack = LiteNewSize /\ diffCache.end # 0)
    /\ UNCHANGED <<liteIn, diffStream, diffCache, coverCount, oldPosBack, newPosBack, cover, copyLength, ringVars>>

(* Fault: the last page is not written. *)
LiteFlushNoPage ==
    /\ litePc = "flush" /\ litePc' = "end"
    /\ IF liteResult
       THEN /\ Emit(ringData(cached_data_len)) /\ cached_data_len' = 0
       ELSE UNCHANGED <<mem, outPos, cached_data_len, page>>
    /\ UNCHANGED <<liteIn, diffStream, diffCache, coverCount, oldPosBack, newPosBack, cover, copyLength,
                   write_extra, cached_data_pos, liteResult>>

(* _hpatchi_listener_extra_flush: the ring, then the page. *)
LiteFlush ==
    /\ litePc = "flush" /\ litePc' = "end"
    /\ IF liteResult
       THEN LET rest == page \o ringData(cached_data_len)
            IN  /\ mem' = put(mem, outPos, rest) /\ outPos' = outPos + Len(rest)
                /\ page' = <<>> /\ cached_data_len' = 0
       ELSE UNCHANGED <<mem, outPos, cached_data_len, page>>
    /\ UNCHANGED <<liteIn, diffStream, diffCache, coverCount, oldPosBack, newPosBack, cover, copyLength,
                   write_extra, cached_data_pos, liteResult>>

LiteNext == LiteOpen \/ ReadCover \/ CopyDiff \/ CopyDone \/ AddOld \/ CoverDone \/ CoversDone \/ LiteFlush

LiteSpec == LiteInit(LiteInputs) /\ [][LiteNext]_liteVars

---------------------------------------------------------------------------
(* Properties *)

(* The in-place patch with the extraSafeSize that the diff stores, and no  *)
(* more cache than the header of hpatchi_inplaceB asks for, turns the old  *)
(* data into the new data in the same memory; a diff that lacks bytes at   *)
(* its end is always refused.                                              *)
LiteInplaceWorks ==
    litePc = "end" =>
        /\ liteResult <=> liteIn.cut = 0
        /\ liteResult => /\ outPos = LiteNewSize
                          /\ \A p \in 0..(LiteNewSize - 1) : mem[p + 1] = New(liteIn.covers, p)
=============================================================================
