---------------------------- MODULE HPatchStream ----------------------------
(* create_diff and patch_stream_with_cache: the diff is one stream of      *)
(* covers, new data and run length codes, which the patch reads through    *)
(* clips with small caches.  With enough memory the old data of the        *)
(* shortest covers is read beforehand, in one pass over the old file.  A   *)
(* packed integer is one byte, as numbers are below 32.                    *)
EXTENDS OutStreamCache, TLC

CONSTANTS StreamOldSize, StreamNewSize,
          StreamInputs,      \* covers, sub diff, cache sizes and how much the diff lacks
          kMaxBytesRleLen,   \* longest run of a code
          kAccessPageSize, kMinSpaceLen

ASSUME StreamAssumption == /\ StreamOldSize \in 1..31 /\ StreamNewSize \in 1..31 /\ kMaxBytesRleLen \in 1..32
                           /\ kAccessPageSize \in 1..kMinSpaceLen

VARIABLES strmIn, strmPc,
          clips,           \* the caches over the six parts of the diff
          coverLeft,       \* _TCovers: covers that are still to be read,
          coverOldBack, coverNewBack,
          arrayCovers,     \* _TArrayCovers: the covers that were read beforehand
          maxCachedLen, oldCache, loadPos, cur_i,             \* _cache_old_load
          oldIndex, oldReadPos, oldReadEnd, isInHitCache, caches, \* _cache_old_TStreamInput
          strmCover, strmNewBack, strmCopy,                   \* patchByClip
          memSetLength, memSetValue, memCopyLength,           \* _TBytesRle_load_stream
          decodeData,      \* the old bytes to which the decoder adds, <<>> when it skips
          decodeSize,      \* bytes that are still to be decoded
          strmBuf, strmOut, strmResult

coverVars == <<coverLeft, coverOldBack, coverNewBack>>
loadVars == <<maxCachedLen, oldCache, loadPos, cur_i>>
oldReadVars == <<oldIndex, oldReadPos, oldReadEnd, isInHitCache, caches>>
rleVars == <<memSetLength, memSetValue, memCopyLength>>
decodeVars == <<decodeData, decodeSize>>
outVars == <<strmBuf, strmOut>>
strmVars == <<strmIn, strmPc, clips, coverVars, arrayCovers, loadVars, oldReadVars,
              strmCover, strmNewBack, strmCopy, rleVars, decodeVars, outVars, strmResult>>

---------------------------------------------------------------------------
(* bytesRLE_save *)

kRleMinSameSize == 2
rleType(cur) == CASE cur = 0 -> 0 [] cur = 255 -> 1 [] OTHER -> 2
kByteRleType_unrle == 3

rle_pushSame(s, cur, count) ==
    LET full == (count - 1) \div kMaxBytesRleLen
        ctrl(n) == 64 * rleType(cur) + n - 1
    IN  [s EXCEPT !.ctrl = @ \o [i \in 1..full |-> ctrl(kMaxBytesRleLen)] \o <<ctrl(count - full * kMaxBytesRleLen)>>,
                  !.code = IF rleType(cur) = 2 THEN @ \o [i \in 1..(full + 1) |-> cur] ELSE @]

endNoSame(s) ==
    CASE s.notSame > 1 -> [s EXCEPT !.ctrl = Append(@, 64 * kByteRleType_unrle + s.notSame - 1), !.notSame = 0]
      [] s.notSame = 1 -> rle_pushSame([s EXCEPT !.code = Front(@), !.notSame = 0], Last(s.code), 1)
      [] OTHER -> s

(* A run is coded when it is long enough; one of 0 or 255 costs less. *)
endSame(s) ==
    LET sign == IF rleType(s.cur) = 2 THEN 0 ELSE 1
    IN  IF s.same + sign > kRleMinSameSize THEN rle_pushSame(endNoSame(s), s.cur, s.same)
        ELSE [s EXCEPT !.notSame = @ + s.same, !.code = @ \o [i \in 1..s.same |-> s.cur]]

rleAppend(s, b) ==
    IF s.same > 0 /\ b = s.cur THEN [s EXCEPT !.same = @ + 1]
    ELSE [(IF s.same > 0 THEN endSame(s) ELSE s) EXCEPT !.cur = b, !.same = 1]

bytesRLE_save(data) ==
    LET s == endNoSame(endSame(FoldLeft(rleAppend, [ctrl |-> <<>>, code |-> <<>>, cur |-> 0, same |-> 0, notSame |-> 0], data)))
    IN  <<Len(s.ctrl)>> \o s.ctrl \o s.code

---------------------------------------------------------------------------
(* serialize_diff *)

oldByte(p) == p + 1
span(from, n) == from..(from + n - 1)
coverAt(in, p) == {i \in 1..Len(in.covers) : p \in span(in.covers[i].newPos, in.covers[i].length)}
newByte(in, p) ==
    IF coverAt(in, p) = {} THEN 100 + p
    ELSE LET c == in.covers[CHOOSE i \in coverAt(in, p) : TRUE]
         IN  (oldByte(c.oldPos + p - c.newPos) + in.sub[p + 1]) % 256
newBytes(in) == [p \in 1..StreamNewSize |-> newByte(in, p - 1)]

(* TNewDataDiffStream and TNewDataSubDiffStream *)
newDataDiff(in) == SelectSeq([p \in 1..StreamNewSize |-> IF coverAt(in, p - 1) = {} THEN newByte(in, p - 1) ELSE -1],
                             LAMBDA b : b >= 0)
newDataSubDiff(in) == [p \in 1..StreamNewSize |-> IF coverAt(in, p - 1) = {} THEN 0 ELSE in.sub[p]]

serialize_diff(in) ==
    LET n == Len(in.covers)
        lastEnd(i) == IF i = 1 THEN 0 ELSE in.covers[i - 1].newPos + in.covers[i - 1].length
        inc_old(i) == in.covers[i].oldPos - (IF i = 1 THEN 0 ELSE in.covers[i - 1].oldPos)
    IN  <<n, n, n, n, Len(newDataDiff(in))>>
        \o [i \in 1..n |-> in.covers[i].length]
        \o [i \in 1..n |-> in.covers[i].newPos - lastEnd(i)]
        \o [i \in 1..n |-> IF inc_old(i) >= 0 THEN inc_old(i) ELSE 128 - inc_old(i)]
        \o newDataDiff(in) \o bytesRLE_save(newDataSubDiff(in))

serializedDiff == SubSeq(strmIn.diff, 1, Len(strmIn.diff) - strmIn.cut)

---------------------------------------------------------------------------
(* TStreamCacheClip *)

clipOf(from, to) == [pos |-> from, end |-> to, buf |-> <<>>]

updateCache(c) ==
    LET n == lesser(strmIn.cache - Len(c.buf), c.end - c.pos)
    IN  [c EXCEPT !.buf = @ \o SubSeq(serializedDiff, c.pos + 1, c.pos + n), !.pos = @ + n]

accessed(c, n) == IF n > Len(c.buf) THEN updateCache(c) ELSE c
canRead(c, n) == n <= Len(accessed(c, n).buf)
dataOf(c, n) == SubSeq(accessed(c, n).buf, 1, n)
skipData(c, n) == [accessed(c, n) EXCEPT !.buf = SubSeq(@, n + 1, Len(@))]
isFinish(c) == c.buf = <<>> /\ c.pos = c.end

---------------------------------------------------------------------------
(* Open *)

NoCover == [oldPos |-> 0, newPos |-> 0, length |-> 0]

StreamInit(inputs) ==
    /\ \E i \in inputs :
         strmIn = [covers |-> i.covers, sub |-> i.sub, cache |-> i.cache, cut |-> i.cut,
                   oldCache |-> i.oldCache, buf |-> i.buf, diff |-> serialize_diff(i)]
    /\ strmPc = "open" /\ strmResult = FALSE
    /\ clips = [k \in {"length", "newPos", "oldPos", "data", "ctrl", "code"} |-> clipOf(0, 0)]
    /\ coverLeft = 0 /\ coverOldBack = 0 /\ coverNewBack = 0 /\ arrayCovers = <<>>
    /\ maxCachedLen = 0 /\ oldCache = <<>> /\ loadPos = 0 /\ cur_i = 1
    /\ oldIndex = 1 /\ oldReadPos = 0 /\ oldReadEnd = 0 /\ isInHitCache = FALSE /\ caches = 0
    /\ strmCover = NoCover /\ strmNewBack = 0 /\ strmCopy = 0
    /\ memSetLength = 0 /\ memSetValue = 0 /\ memCopyLength = 0 /\ decodeData = <<>> /\ decodeSize = 0
    /\ strmBuf = <<>> /\ strmOut = <<>>

StreamReturns(ok) == strmPc' = "end" /\ strmResult' = ok
GoOn(pc) == strmPc' = pc /\ UNCHANGED strmResult

withArray == strmIn.oldCache > 0

(* read_diff_head and _patch_stream_with_cache: every part lies within the *)
(* diff; the codes go to its end.                                          *)
StreamOpen ==
    /\ strmPc = "open"
    /\ LET d == serializedDiff
           endOf == [k \in 0..4 |-> IF Len(d) < 5 THEN 0 ELSE 5 + FoldLeft(LAMBDA a, b : a + b, 0, SubSeq(d, 2, k + 1))]
           rlePos == endOf[4] + 1
       IN  IF Len(d) < 5 \/ endOf[4] >= Len(d)
           THEN StreamReturns(FALSE) /\ UNCHANGED <<clips, coverLeft>>
           ELSE LET ctrlEnd == rlePos + d[rlePos]
                IN  IF ctrlEnd > Len(d)
                    THEN StreamReturns(FALSE) /\ UNCHANGED <<clips, coverLeft>>
                    ELSE /\ clips' = [length |-> clipOf(endOf[0], endOf[1]), newPos |-> clipOf(endOf[1], endOf[2]),
                                      oldPos |-> clipOf(endOf[2], endOf[3]), data |-> clipOf(endOf[3], endOf[4]),
                                      ctrl |-> clipOf(rlePos, ctrlEnd), code |-> clipOf(ctrlEnd, Len(d))]
                         /\ coverLeft' = d[1]
                         /\ GoOn(IF withArray THEN "array" ELSE "cover")
    /\ UNCHANGED <<strmIn, coverOldBack, coverNewBack, arrayCovers, loadVars, oldReadVars,
                   strmCover, strmNewBack, strmCopy, rleVars, decodeVars, outVars>>

(* _covers_read_cover *)
coverCanRead == \A k \in {"oldPos", "newPos", "length"} : canRead(clips[k], 1)
coverRead ==
    LET one(k) == dataOf(clips[k], 1)[1]
    IN  [oldPos |-> IF one("oldPos") < 128 THEN coverOldBack + one("oldPos") ELSE coverOldBack - (one("oldPos") - 128),
         newPos |-> coverNewBack + one("newPos"), length |-> one("length")]
CoverIsRead ==
    /\ clips' = [k \in DOMAIN clips |-> IF k \in {"oldPos", "newPos", "length"} THEN skipData(clips[k], 1) ELSE clips[k]]
    /\ coverLeft' = coverLeft - 1 /\ coverOldBack' = coverRead.oldPos
    /\ coverNewBack' = coverRead.newPos + coverRead.length

coversFinished == IF withArray THEN coverLeft = 0 ELSE \A k \in {"oldPos", "newPos", "length"} : isFinish(clips[k])

---------------------------------------------------------------------------
(* _patch_cache: the covers, and old data of the short ones, beforehand *)

patchVarsOfClip == <<strmCover, strmNewBack, strmCopy, rleVars, decodeVars, outVars>>

(* _arrayCovers_load *)
ArrayLoad ==
    /\ strmPc = "array" /\ coverLeft > 0
    /\ IF coverCanRead
       THEN CoverIsRead /\ arrayCovers' = Append(arrayCovers, coverRead) /\ UNCHANGED <<strmPc, strmResult>>
       ELSE StreamReturns(FALSE) /\ UNCHANGED <<clips, coverVars, arrayCovers>>
    /\ UNCHANGED <<strmIn, loadVars, oldReadVars, patchVarsOfClip>>

lengthSum(s) == FoldLeft(LAMBDA a, c : a + c.length, 0, s)
byLength == SortSeq(arrayCovers, LAMBDA a, b : a.length < b.length)
byOld == SortSeq(arrayCovers, LAMBDA a, b : a.oldPos < b.oldPos)

(* _getMaxCachedLen: one less than the first length that does not fit. *)
getMaxCachedLen ==
    LET over == {i \in 1..Len(byLength) : lengthSum(SubSeq(byLength, 1, i)) > strmIn.oldCache}
    IN  IF byLength = <<>> THEN 0
        ELSE IF over = {} THEN Last(byLength).length
        ELSE byLength[Min(over)].length - 1

(* _set_cache_pos: in the order of the new data. *)
isShort(c, max) == c.length <= max
shortCovers(max) == SelectSeq(arrayCovers, LAMBDA c : isShort(c, max))
cachePos(c) == lengthSum(SelectSeq(arrayCovers, LAMBDA o : isShort(o, maxCachedLen) /\ o.newPos < c.newPos))

alignLower(p) == p - (p % kAccessPageSize)

(* _cache_old: caching has to be worth it; then the pass over the old file *)
(* begins at a page, or at 0 when that is near.                            *)
CacheOld ==
    /\ strmPc = "array" /\ coverLeft = 0
    /\ LET max == getMaxCachedLen
           short == shortCovers(max)
           begin == alignLower(Min({short[i].oldPos : i \in 1..Len(short)}))
       IN  IF \E k \in {"oldPos", "newPos", "length"} : ~isFinish(clips[k])
           THEN StreamReturns(FALSE) /\ UNCHANGED loadVars
           ELSE IF max = 0 \/ Len(short) < Len(arrayCovers) \div 8 + 1
           THEN GoOn("cover") /\ UNCHANGED loadVars
           ELSE /\ maxCachedLen' = max /\ oldCache' = [i \in 1..lengthSum(short) |-> 0]
                /\ loadPos' = (IF begin < kMinSpaceLen THEN 0 ELSE begin) /\ cur_i' = 1
                /\ GoOn("load")
    /\ coverLeft' = Len(arrayCovers)
    /\ UNCHANGED <<strmIn, clips, coverOldBack, coverNewBack, arrayCovers, oldReadVars, patchVarsOfClip>>

oldPosAllEnd == LET short == shortCovers(maxCachedLen)
                IN  Max({short[i].oldPos + short[i].length : i \in 1..Len(short)})

(* Fault: the next block begins at the page behind the cover's. *)
nextBlockBehind(ioldPos) == alignLower(ioldPos) + kAccessPageSize

nextBlock(ioldPos) == alignLower(ioldPos)

(* A block of _cache_old_load: every short cover that meets the block gets *)
(* its part; cur_i passes the covers that are done.  When the next cover   *)
(* is far away the pass jumps to its page.                                 *)
LoadBlock ==
    /\ strmPc = "load" /\ loadPos < oldPosAllEnd /\ cur_i <= Len(byOld)
    /\ LET end == loadPos + lesser(strmIn.buf, oldPosAllEnd - loadPos)
           isDone(c) == ~isShort(c, maxCachedLen) \/ c.oldPos + c.length <= end
           ahead == {i \in cur_i..Len(byOld) : ~isDone(byOld[i])}
           next == IF ahead = {} THEN Len(byOld) + 1 ELSE Min(ahead)
           isFar == next <= Len(byOld) /\ byOld[next].oldPos - end >= kMinSpaceLen
           bytesFor(k) == {p \in loadPos..(end - 1) :
                             \E i \in cur_i..Len(byOld) :
                                LET c == byOld[i]
                                IN  /\ isShort(c, maxCachedLen) /\ p \in span(c.oldPos, c.length)
                                    /\ k = cachePos(c) + p - c.oldPos + 1}
       IN  /\ oldCache' = [k \in DOMAIN oldCache |->
                             IF bytesFor(k) = {} THEN oldCache[k] ELSE oldByte(CHOOSE p \in bytesFor(k) : TRUE)]
           /\ cur_i' = next
           /\ loadPos' = IF isFar THEN nextBlock(byOld[next].oldPos) ELSE end
    /\ UNCHANGED <<strmIn, strmPc, clips, coverVars, arrayCovers, maxCachedLen, oldReadVars, patchVarsOfClip, strmResult>>

LoadDone ==
    /\ strmPc = "load" /\ (loadPos >= oldPosAllEnd \/ cur_i > Len(byOld)) /\ GoOn("cover")
    /\ UNCHANGED <<strmIn, clips, coverVars, arrayCovers, loadVars, oldReadVars, patchVarsOfClip>>

---------------------------------------------------------------------------
(* patchByClip *)

(* The next cover, checked against both sizes. *)
PatchCover ==
    /\ strmPc = "cover" /\ coverLeft > 0
    /\ LET c == IF withArray THEN arrayCovers[Len(arrayCovers) - coverLeft + 1] ELSE coverRead
           isSafe == /\ c.newPos >= strmNewBack /\ c.length <= StreamNewSize - c.newPos
                     /\ c.oldPos \in 0..StreamOldSize /\ c.length <= StreamOldSize - c.oldPos
       IN  IF (withArray \/ coverCanRead) /\ isSafe
           THEN /\ strmCover' = c /\ strmCopy' = c.newPos - strmNewBack /\ GoOn("copy")
                /\ IF withArray THEN coverLeft' = coverLeft - 1 /\ UNCHANGED <<clips, coverOldBack, coverNewBack>>
                   ELSE CoverIsRead
           ELSE StreamReturns(FALSE) /\ UNCHANGED <<strmCover, strmCopy, clips, coverVars>>
    /\ UNCHANGED <<strmIn, arrayCovers, loadVars, oldReadVars, strmNewBack, rleVars, decodeVars, outVars>>

(* The new data behind the last cover. *)
PatchTail ==
    /\ strmPc = "cover" /\ coverLeft = 0
    /\ strmCover' = [NoCover EXCEPT !.newPos = StreamNewSize] /\ strmCopy' = StreamNewSize - strmNewBack /\ GoOn("copy")
    /\ UNCHANGED <<strmIn, clips, coverVars, arrayCovers, loadVars, oldReadVars, strmNewBack, rleVars, decodeVars, outVars>>

OutputWritten(data) ==
    LET passed == passedBy(strmBuf, strmIn.cache, data)
    IN  /\ strmOut' = strmOut \o passed
        /\ strmBuf' = SubSeq(strmBuf \o data, Len(passed) + 1, Len(strmBuf) + Len(data))

(* A round of _TOutStreamCache_copyFromClip. *)
CopyClip ==
    /\ strmPc = "copy" /\ strmCopy > 0
    /\ LET n == lesser(strmIn.cache, strmCopy)
       IN  IF canRead(clips["data"], n)
           THEN /\ OutputWritten(dataOf(clips["data"], n)) /\ clips' = [clips EXCEPT !["data"] = skipData(@, n)]
                /\ strmCopy' = strmCopy - n /\ UNCHANGED <<strmPc, strmResult>>
           ELSE StreamReturns(FALSE) /\ UNCHANGED <<outVars, clips, strmCopy>>
    /\ UNCHANGED <<strmIn, coverVars, arrayCovers, loadVars, oldReadVars, strmCover, strmNewBack, rleVars, decodeVars>>

(* _rle_decode_skip: the decoder passes the copied bytes. *)
CopyClipDone ==
    /\ strmPc = "copy" /\ strmCopy = 0 /\ GoOn("skip")
    /\ decodeSize' = strmCover.newPos - strmNewBack /\ strmNewBack' = strmCover.newPos /\ decodeData' = <<>>
    /\ UNCHANGED <<strmIn, clips, coverVars, arrayCovers, loadVars, oldReadVars, strmCover, strmCopy, rleVars, outVars>>

(* _cache_old_StreamInput_read: a cover that has all been read is followed *)
(* by the next one; the positions have to be those of the covers.          *)
isCached == oldCache # <<>>
atNext == oldReadPos = oldReadEnd
readCover == arrayCovers[oldIndex]
readsHit == IF atNext THEN readCover.length <= maxCachedLen ELSE isInHitCache
cachedReadOK(pos, n) ==
    /\ atNext => oldIndex <= Len(arrayCovers)
    /\ pos = IF atNext THEN readCover.oldPos ELSE oldReadPos
    /\ n <= IF atNext THEN readCover.length ELSE oldReadEnd - oldReadPos
OldIsRead(pos, n) ==
    /\ oldIndex' = IF atNext THEN oldIndex + 1 ELSE oldIndex
    /\ oldReadEnd' = IF atNext THEN readCover.oldPos + readCover.length ELSE oldReadEnd
    /\ oldReadPos' = pos + n /\ isInHitCache' = readsHit
    /\ caches' = IF readsHit THEN caches + n ELSE caches

(* A round of _patch_add_old_with_rle begins: old bytes are read. *)
AddOldRead ==
    /\ strmPc = "old" /\ strmCover.length > 0
    /\ LET n == lesser(strmIn.cache, strmCover.length)
           pos == strmCover.oldPos
       IN  IF isCached /\ ~cachedReadOK(pos, n)
           THEN StreamReturns(FALSE) /\ UNCHANGED <<oldReadVars, decodeVars>>
           ELSE /\ decodeData' = IF isCached /\ readsHit THEN SubSeq(oldCache, caches + 1, caches + n)
                                 ELSE [i \in 1..n |-> oldByte(pos + i - 1)]
                /\ decodeSize' = n /\ GoOn("add")
                /\ IF isCached THEN OldIsRead(pos, n) ELSE UNCHANGED oldReadVars
    /\ UNCHANGED <<strmIn, clips, coverVars, arrayCovers, loadVars, strmCover, strmNewBack, strmCopy, rleVars, outVars>>

AddOldDone ==
    /\ strmPc = "old" /\ strmCover.length = 0
    /\ GoOn(IF strmCover = [NoCover EXCEPT !.newPos = StreamNewSize] THEN "flush" ELSE "cover")
    /\ strmNewBack' = strmCover.newPos
    /\ UNCHANGED <<strmIn, clips, coverVars, arrayCovers, loadVars, oldReadVars, strmCover, strmCopy, rleVars, decodeVars, outVars>>

(* _TBytesRle_load_stream_decode_add, here and in skip: *)
decoding == strmPc \in {"skip", "add"} /\ decodeSize > 0
isAdd == strmPc = "add"

(* The bytes of the code are added behind those that were decoded. *)
added(code) ==
    LET at == Len(decodeData) - decodeSize
    IN  [i \in 1..Len(decodeData) |->
            IF i - at \in 1..Len(code) THEN (decodeData[i] + code[i - at]) % 256 ELSE decodeData[i]]

DecodeSet ==
    /\ decoding /\ memSetLength > 0
    /\ LET n == lesser(memSetLength, decodeSize)
       IN  /\ decodeData' = IF isAdd THEN added([i \in 1..n |-> memSetValue]) ELSE decodeData
           /\ decodeSize' = decodeSize - n /\ memSetLength' = memSetLength - n
    /\ UNCHANGED <<strmIn, strmPc, clips, coverVars, arrayCovers, loadVars, oldReadVars, strmCover, strmNewBack, strmCopy,
                   memSetValue, memCopyLength, outVars, strmResult>>

DecodeCopy ==
    /\ decoding /\ memSetLength = 0 /\ memCopyLength > 0
    /\ LET n == lesser(strmIn.cache, lesser(memCopyLength, decodeSize))
       IN  IF canRead(clips["code"], n)
           THEN /\ decodeData' = IF isAdd THEN added(dataOf(clips["code"], n)) ELSE decodeData
                /\ decodeSize' = decodeSize - n /\ memCopyLength' = memCopyLength - n
                /\ clips' = [clips EXCEPT !["code"] = skipData(@, n)] /\ UNCHANGED <<strmPc, strmResult>>
           ELSE StreamReturns(FALSE) /\ UNCHANGED <<clips, decodeVars, memCopyLength>>
    /\ UNCHANGED <<strmIn, coverVars, arrayCovers, loadVars, oldReadVars, strmCover, strmNewBack, strmCopy,
                   memSetLength, memSetValue, outVars>>

(* Fault: the length of a control byte is not one more than is stored. *)
ctrlLengthStored(ctrl) == ctrl % 64

ctrlLength(ctrl) == (ctrl % 64) + 1

DecodeCtrl ==
    /\ decoding /\ memSetLength = 0 /\ memCopyLength = 0
    /\ LET ctrl == dataOf(clips["ctrl"], 1)[1]
           type == ctrl \div 64
           length == ctrlLength(ctrl)
       IN  IF ~canRead(clips["ctrl"], 1) \/ (type = 2 /\ ~canRead(clips["code"], 1))
           THEN StreamReturns(FALSE) /\ UNCHANGED <<clips, rleVars>>
           ELSE /\ clips' = [clips EXCEPT !["ctrl"] = skipData(@, 1), !["code"] = IF type = 2 THEN skipData(@, 1) ELSE @]
                /\ memCopyLength' = IF type = kByteRleType_unrle THEN length ELSE 0
                /\ memSetLength' = IF type = kByteRleType_unrle THEN 0 ELSE length
                /\ memSetValue' = CASE type = 0 -> 0 [] type = 1 -> 255 [] type = 2 -> dataOf(clips["code"], 1)[1]
                                    [] OTHER -> memSetValue
                /\ UNCHANGED <<strmPc, strmResult>>
    /\ UNCHANGED <<strmIn, coverVars, arrayCovers, loadVars, oldReadVars, strmCover, strmNewBack, strmCopy, decodeVars, outVars>>

SkipDone ==
    /\ strmPc = "skip" /\ decodeSize = 0 /\ GoOn("old")
    /\ UNCHANGED <<strmIn, clips, coverVars, arrayCovers, loadVars, oldReadVars, strmCover, strmNewBack, strmCopy,
                   rleVars, decodeVars, outVars>>

(* The round of _patch_add_old_with_rle ends: the sum is written. *)
AddDone ==
    /\ strmPc = "add" /\ decodeSize = 0 /\ OutputWritten(decodeData) /\ GoOn("old")
    /\ LET n == Len(decodeData)
       IN  strmCover' = [strmCover EXCEPT !.oldPos = @ + n, !.newPos = @ + n, !.length = @ - n]
    /\ UNCHANGED <<strmIn, clips, coverVars, arrayCovers, loadVars, oldReadVars, strmNewBack, strmCopy, rleVars, decodeVars>>

(* The end: everything is flushed, and all parts of the diff are used up. *)
StreamFlush ==
    /\ strmPc = "flush"
    /\ strmOut' = strmOut \o strmBuf /\ strmBuf' = <<>>
    /\ StreamReturns(/\ memSetLength = 0 /\ memCopyLength = 0 /\ coversFinished
                     /\ \A k \in {"ctrl", "code", "data"} : isFinish(clips[k])
                     /\ Len(strmOut') = StreamNewSize)
    /\ UNCHANGED <<strmIn, clips, coverVars, arrayCovers, loadVars, oldReadVars, strmCover, strmNewBack, strmCopy, rleVars, decodeVars>>

StreamNext ==
    \/ StreamOpen \/ ArrayLoad \/ CacheOld \/ LoadBlock \/ LoadDone \/ PatchCover \/ PatchTail \/ CopyClip \/ CopyClipDone
    \/ AddOldRead \/ AddOldDone \/ DecodeSet \/ DecodeCopy \/ DecodeCtrl \/ SkipDone \/ AddDone \/ StreamFlush

(* The machine of OutStreamCache stands still. *)
StreamSpec ==
    /\ StreamInit(StreamInputs) /\ OutInit(OutCacheSizes)
    /\ [][StreamNext /\ UNCHANGED outCacheVars]_<<strmVars, outCacheVars>>

---------------------------------------------------------------------------
(* Properties *)

(* The patch returns TRUE exactly for a whole diff, and then it has put    *)
(* out the new data, whatever the covers, the runs in the sub diff, the    *)
(* sizes of the caches, and whether old data was read beforehand.          *)
StreamPatchWorks ==
    strmPc = "end" => /\ strmResult <=> strmIn.cut = 0
                      /\ strmResult => strmOut = newBytes(strmIn)

(* assert(sumCacheLen==0): the one pass over the old file has found every  *)
(* byte of every short cover, also of covers that overlap, that lie in two *)
(* blocks or behind a gap that was jumped; and it all fits the memory.     *)
StreamCacheLoaded ==
    (isCached /\ strmPc \notin {"open", "array", "load"}) =>
        /\ Len(oldCache) <= strmIn.oldCache
        /\ \A i \in 1..Len(arrayCovers) :
              LET c == arrayCovers[i]
              IN  c.length <= maxCachedLen =>
                     \A k \in 1..c.length : oldCache[cachePos(c) + k] = oldByte(c.oldPos + k - 1)
=============================================================================
