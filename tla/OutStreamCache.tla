--------------------------- MODULE OutStreamCache ---------------------------
(* _TOutStreamCache: the output of a patch goes through a cache of          *)
(* cacheEnd bytes.  The vcdiff patch also copies from what it has put out   *)
(* itself, which may lie in the stream, in the cache or in both, and which  *)
(* may overlap the place it is copied to.                                   *)
EXTENDS Integers, Sequences, SequencesExt

CONSTANTS OutCacheSizes,   \* sizes of the cache
          MaxOutput        \* bytes put out, a bound of the model

ASSUME OutAssumption == OutCacheSizes \subseteq Nat \ {0} /\ MaxOutput \in Nat

VARIABLES cacheEnd, outPc,
          outStream,       \* what dstStream has; its length is writeToPos
          outCacheBuf,     \* the memory of the cache
          cacheCur,        \* bytes of it in use
          outAhead, outSrcPos, outCopyLength,
          outWanted        \* all that was to be put out

outCacheVars == <<cacheEnd, outPc, outStream, outCacheBuf, cacheCur, outAhead, outSrcPos, outCopyLength, outWanted>>

lesser(a, b) == IF a < b THEN a ELSE b

(* data at `at` of a memory *)
placed(memory, at, data) ==
    [i \in 1..Len(memory) |-> IF i - at \in 1..Len(data) THEN data[i - at] ELSE memory[i]]

(* _TOutStreamCache_write: what goes to the stream; the rest stays in the  *)
(* cache.  Long data passes an empty cache.                                *)
passedBy(buf, size, data) ==
    LET all == buf \o data
        room == size - Len(buf)
    IN  IF Len(all) < size THEN <<>>
        ELSE IF buf = <<>> \/ Len(data) - room >= size THEN all
        ELSE SubSeq(all, 1, size)

inCache == SubSeq(outCacheBuf, 1, cacheCur)

OutInit(sizes) ==
    /\ cacheEnd \in sizes /\ outPc = "idle" /\ outStream = <<>> /\ outCacheBuf = [i \in 1..cacheEnd |-> 0]
    /\ cacheCur = 0 /\ outAhead = 0 /\ outSrcPos = 0 /\ outCopyLength = 0 /\ outWanted = <<>>

copyVars == <<outAhead, outSrcPos, outCopyLength>>

(* The rounds of the cache end with a flush when it is full. *)
Cached(data) ==
    LET memory == placed(outCacheBuf, cacheCur, data)
        full == cacheCur + Len(data) = cacheEnd
    IN  /\ outCacheBuf' = memory
        /\ outStream' = IF full THEN outStream \o memory ELSE outStream
        /\ cacheCur' = IF full THEN 0 ELSE cacheCur + Len(data)

OutWrite ==
    /\ outPc = "idle"
    /\ \E n \in 1..(MaxOutput - Len(outWanted)) :
         LET data == [i \in 1..n |-> Len(outWanted) + i]
             passed == passedBy(inCache, cacheEnd, data)
             rest == SubSeq(inCache \o data, Len(passed) + 1, cacheCur + n)
         IN  /\ outStream' = outStream \o passed /\ outWanted' = outWanted \o data
             /\ outCacheBuf' = placed(IF cacheCur = 0 THEN outCacheBuf ELSE placed(outCacheBuf, cacheCur, data), 0, rest)
             /\ cacheCur' = Len(rest)
    /\ UNCHANGED <<cacheEnd, outPc, copyVars>>

(* _TOutStreamCache_fill *)
OutFill ==
    /\ outPc = "idle"
    /\ \E n \in 1..(MaxOutput - Len(outWanted)) : outCopyLength' = n /\ outWanted' = outWanted \o [i \in 1..n |-> 100]
    /\ outPc' = "fill" /\ UNCHANGED <<cacheEnd, outStream, outCacheBuf, cacheCur, outAhead, outSrcPos>>

FillRound ==
    /\ outPc = "fill" /\ outCopyLength > 0
    /\ LET n == lesser(cacheEnd - cacheCur, outCopyLength)
       IN  Cached([i \in 1..n |-> 100]) /\ outCopyLength' = outCopyLength - n
    /\ UNCHANGED <<cacheEnd, outPc, outAhead, outSrcPos, outWanted>>

(* What a copy from `ahead` bytes before the end has to put out. *)
repeated(s, ahead, n) ==
    LET byte[i \in 1..n] == IF i <= ahead THEN s[Len(s) - ahead + i] ELSE byte[i - ahead]
    IN  byte

(* The branches of _TOutStreamCache_copyFromSelf: all in the stream; all   *)
(* in the cache; begun in the stream, near enough or not.                  *)
copyWay(srcPos, n) ==
    IF srcPos + n <= Len(outStream) THEN "stream"
    ELSE IF srcPos >= Len(outStream) THEN "mem"
    ELSE IF Len(outStream) + cacheCur <= srcPos + cacheEnd THEN "small"
    ELSE "stream"

OutCopyFromSelf ==
    /\ outPc = "idle"
    /\ \E ahead \in 1..Len(outWanted), n \in 1..(MaxOutput - Len(outWanted)) :
         LET srcPos == Len(outStream) + cacheCur - ahead
         IN  /\ outAhead' = ahead /\ outSrcPos' = srcPos /\ outCopyLength' = n
             /\ outPc' = copyWay(srcPos, n)
             /\ outWanted' = outWanted \o repeated(outWanted, ahead, n)
    /\ UNCHANGED <<cacheEnd, outStream, outCacheBuf, cacheCur>>

(* A round of _TOutStreamCache_copyFromStream from the output itself. *)
CopyStreamRound ==
    /\ outPc = "stream" /\ outCopyLength > 0
    /\ LET n == lesser(cacheEnd - cacheCur, outCopyLength)
       IN  /\ Cached(SubSeq(outStream, outSrcPos + 1, outSrcPos + n))
           /\ outSrcPos' = outSrcPos + n /\ outCopyLength' = outCopyLength - n
    /\ UNCHANGED <<cacheEnd, outPc, outAhead, outWanted>>

(* Fault: after a flush nothing is moved to the front of the cache. *)
carriedNone(memory, run) == memory

carried(memory, run) == placed(memory, 0, SubSeq(memory, cacheEnd - outAhead + 1, cacheEnd - outAhead + run))

(* __copy_in_mem: byte by byte up to the end of the cache; after a flush   *)
(* the last outAhead bytes are moved to its front.                         *)
CopyMemRound ==
    /\ outPc = "mem" /\ outCopyLength > 0
    /\ LET n == lesser(outCopyLength, cacheEnd - cacheCur)
           memory == placed(outCacheBuf, cacheCur, repeated(inCache, outAhead, n))
           rest == outCopyLength - n
           run == lesser(outAhead, rest)
       IN  IF cacheCur + n = cacheEnd
           THEN /\ outStream' = outStream \o memory /\ cacheCur' = run /\ outCopyLength' = rest - run
                /\ outCacheBuf' = carried(memory, run)
           ELSE /\ outCacheBuf' = memory /\ cacheCur' = cacheCur + n /\ outCopyLength' = rest
                /\ UNCHANGED outStream
    /\ UNCHANGED <<cacheEnd, outPc, outAhead, outSrcPos, outWanted>>

(* The part in the stream is read behind the cached data; then the cache   *)
(* goes on alone.  If that filled it, its memory already holds what comes. *)
CopySmall ==
    /\ outPc = "small"
    /\ LET n == Len(outStream) - outSrcPos
       IN  /\ outCacheBuf' = placed(outCacheBuf, cacheCur, SubSeq(outStream, outSrcPos + 1, outSrcPos + n))
           /\ cacheCur' = cacheCur + n /\ outCopyLength' = outCopyLength - n
           /\ outPc' = IF cacheCur + n = cacheEnd THEN "again" ELSE "mem"
    /\ UNCHANGED <<cacheEnd, outStream, outAhead, outSrcPos, outWanted>>

CopyAgain ==
    /\ outPc = "again"
    /\ LET full == cacheCur = cacheEnd
           run == lesser(cacheEnd, outCopyLength)
       IN  /\ outStream' = IF full THEN outStream \o outCacheBuf ELSE outStream
           /\ cacheCur' = IF outCopyLength > 0 THEN run ELSE IF full THEN 0 ELSE cacheCur
           /\ outCopyLength' = outCopyLength - run
           /\ outPc' = IF outCopyLength > 0 THEN "again" ELSE "idle"
    /\ UNCHANGED <<cacheEnd, outCacheBuf, outAhead, outSrcPos, outWanted>>

CopyEnd == /\ outPc \in {"fill", "stream", "mem"} /\ outCopyLength = 0 /\ outPc' = "idle"
           /\ UNCHANGED <<cacheEnd, outStream, outCacheBuf, cacheCur, copyVars, outWanted>>

OutNext == \/ OutWrite \/ OutFill \/ FillRound \/ OutCopyFromSelf \/ CopyStreamRound
           \/ CopyMemRound \/ CopySmall \/ CopyAgain \/ CopyEnd

OutSpec == OutInit(OutCacheSizes) /\ [][OutNext]_outCacheVars

---------------------------------------------------------------------------
(* Properties *)

(* After any sequence of writes, fills and copies from the output itself   *)
(* the stream and the cache together hold what was to be put out, repeated *)
(* where the copy overlaps its source; the cache is never left full.       *)
OutCacheRepeats ==
    outPc = "idle" => outStream \o inCache = outWanted /\ cacheCur < cacheEnd
=============================================================================
