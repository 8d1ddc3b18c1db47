------------------------------ MODULE HPatchMT ----------------------------
(***************************************************************************)
(* The multi-thread patcher as a whole: _patch_single_compressed_diff_mt,  *)
(* patch_single_stream_diff (patch.c) and hpatch_mt_manager_t              *)
(* (hpatch_mt.c), with whatever subset of the four components the manager  *)
(* opened: "diff" (read ahead), "dec" (decompress ahead, itself a reader   *)
(* of "diff"), "old" (old data by covers) and "new" (write behind).  What  *)
(* is not opened is done by the main thread itself.                        *)
(*                                                                         *)
(* The uncompressed diff holds, per step, one byte of step info, one byte  *)
(* of covers and rle, then the new bytes between the covers.               *)
(***************************************************************************)
EXTENDS HInputMT, HOutputMT, HCacheOldMT

CONSTANTS Compressed,  \* compressedSize # 0
          HasReset,    \* the old cache listens to onStepCoversReset: debug
                       \* builds, or a next listener that wants it
          CacheSize    \* cache_size of the main thread's caches

Diff == "diff"
Dec  == "dec"
Old  == "old"
New  == "new"

(* The sums of the first numbers of a sequence, and of all of them. *)
sums(s) == LET sum[n \in 0..Len(s)] == IF n = 0 THEN 0 ELSE sum[n - 1] + s[n] IN sum
sumOf(s) == sums(s)[Len(s)]
stepGaps(st) == sumOf([i \in 1..Len(st) |-> st[i].gap])
stepLens(st) == sumOf([i \in 1..Len(st) |-> st[i].length])
DiffSize(d) == sumOf([s \in 1..Len(d) |-> 2 + stepGaps(d[s])])
NewSize(d)  == sumOf([s \in 1..Len(d) |-> stepGaps(d[s]) + stepLens(d[s])])
DiffBytes == DiffSize(Steps)
NewBytes  == NewSize(Steps)
coversLeft(s) == sumOf([i \in 1..(Len(Steps) - s + 1) |-> Len(Steps[s + i - 1])])

ASSUME HPatchAssumption ==
  /\ Comp \subseteq {Diff, Dec, Old, New} /\ Comp # {}
  /\ HInputs = Comp \intersect {Diff, Dec}
  /\ HCaches = Comp \intersect {Old} /\ HOutputs = Comp \intersect {New}
  /\ Dec \in Comp => Compressed /\ \A d \in Diffs : StreamSize[Dec] = DiffSize(d)
  /\ Diff \in Comp => (Compressed <=> Dec \in Comp)  \* the end of _hpatch_getMTSets
  /\ (Diff \in Comp /\ ~Compressed) => \A d \in Diffs : StreamSize[Diff] = DiffSize(d)
  /\ New \in Comp => \A d \in Diffs : OutSize[New] = NewSize(d)
  /\ CacheSize \in Nat \ {0} /\ HasReset \in BOOLEAN

VARIABLES
  mpc,            \* the main thread
  nextOpen,       \* the component hpatch_mt_manager_open is at
  step, cover,    \* the step and the cover being patched
  gapLeft, oldLeft,
  clip, clipPos,  \* inClip: bytes cached, streamPos
  pend, back,     \* bytes being written, and where to go on after that
  newPos,         \* outCache: what has been written
  stepMem,        \* the step whose covers are in step_cache
  result,         \* what patch_single_stream_diff returns
  ret             \* what _patch_single_compressed_diff_mt returns

mainVars == <<mpc, nextOpen, step, cover, gapLeft, oldLeft, clip, clipPos,
              pend, back, newPos, stepMem, result, ret>>
compVars == <<baseVars, readerVars, hinputVars, houtputVars, hcacheVars>>
patchVars == <<compVars, mainVars>>

ClipSource == IF Dec \in Comp THEN Dec ELSE Diff
least(a, b) == IF a < b THEN a ELSE b

PatchInit ==
  /\ BaseInit(0, "none") /\ ReaderInit /\ HOutputInit /\ HCacheInit
  /\ curReadPos = [c \in HInputs |-> 0] /\ curOutedPos = [c \in HInputs |-> 0]
  /\ mpc = "open" /\ nextOpen = 1
  /\ step = 0 /\ cover = 0 /\ gapLeft = 0 /\ oldLeft = 0
  /\ clip = 0 /\ clipPos = 0 /\ pend = 0 /\ back = "gap" /\ newPos = 0
  /\ stepMem = 0 /\ result = FALSE /\ ret = "none"

---------------------------------------------------------------------------
(* hpatch_mt_manager_open *)

openOrder == <<Diff, Dec, Old, New>>

(* A component's open: its buffers and condition variable are there, then  *)
(* hpatch_mt_base_aThreadBegin_ starts its worker.                         *)
OpenComp ==
  /\ mpc = "open" /\ nextOpen <= 4
  /\ LET c == openOrder[nextOpen]
     IN \/ c \notin Comp /\ UNCHANGED <<pc, runningThreads>>
        \/ /\ c \in Comp /\ ~isOnError
           /\ c = Dec /\ Diff \in Comp => rpc[Diff] = "idle"
           /\ pc' = [pc EXCEPT ![c] = "loop"]
           /\ runningThreads' = runningThreads + 1
  /\ nextOpen' = nextOpen + 1
  /\ UNCHANGED <<isOnFinish, isOnError, closing, listVars, wbuf, tErr, bufData, readerVars,
                 hinputVars, houtputVars, hcacheVars, mpc, step, cover, gapLeft, oldLeft,
                 clip, clipPos, pend, back, newPos, stepMem, result, ret>>

(* decompressPlugin->open of the component "dec" may read the head of the  *)
(* compressed data, in the main thread and through "diff".                 *)
OpenDecReads ==
  /\ mpc = "open" /\ nextOpen = 2
  /\ {Diff, Dec} \subseteq Comp
  /\ curOutedPos[Diff] = 0 /\ StreamSize[Diff] > 0
  /\ InputRead(Diff, 0, 1)
  /\ UNCHANGED <<houtputVars, hcacheVars, mainVars>>

OpenDecRead ==
  /\ mpc = "open" /\ nextOpen = 2 /\ Diff \in Comp
  /\ rpc[Diff] = "ok" /\ ReadReturned(Diff)
  /\ UNCHANGED <<baseVars, hinputVars, houtputVars, hcacheVars, mainVars>>

(* No memory, no thread, a plugin that refuses, or an error that another   *)
(* worker has already reported: hpatch_mt_manager_close(self,TRUE).        *)
OpenFails ==
  /\ mpc = "open" /\ nextOpen <= 4
  /\ LET c == openOrder[nextOpen]
     IN /\ c \in Comp
        /\ Fails \/ isOnError
        /\ c = Dec /\ Diff \in Comp => ~readCalling(Diff)
  /\ mpc' = "finish" /\ result' = FALSE
  /\ UNCHANGED <<compVars, nextOpen, step, cover, gapLeft, oldLeft, clip, clipPos, pend, back,
                 newPos, stepMem, ret>>

Opened ==
  /\ mpc = "open" /\ nextOpen = 5
  /\ mpc' = "decOpen"
  /\ UNCHANGED <<compVars, nextOpen, step, cover, gapLeft, oldLeft, clip, clipPos, pend, back,
                 newPos, stepMem, result, ret>>

(* The main thread decompresses itself when there is no "dec": if the      *)
(* plugin's open fails it returns at once.                                 *)
DecOpen ==
  /\ mpc = "decOpen"
  /\ \/ mpc' = "step" /\ UNCHANGED ret
     \/ /\ Fails /\ Compressed /\ Dec \notin Comp
        /\ mpc' = "returned" /\ ret' = "false"
  /\ UNCHANGED <<compVars, nextOpen, step, cover, gapLeft, oldLeft, clip, clipPos, pend, back,
                 newPos, stepMem, result>>

---------------------------------------------------------------------------
(* patch_single_stream_diff *)

(* Any "return _hpatch_FALSE" of it. *)
MainFails == mpc' = "finish" /\ result' = FALSE

(* What the current point of the main thread needs in inClip, and whether  *)
(* the cache has to be filled for it.                                      *)
clipNeed == IF mpc = "gap" THEN least(CacheSize, gapLeft) ELSE 1
clipWants == mpc \in {"info", "data", "gap"} /\ clip < clipNeed

(* _TStreamCacheClip_updateCache: fill the cache, as far as the stream     *)
(* goes, by one read of the source.                                        *)
clipRead == least(CacheSize - clip, DiffBytes - clipPos)

ClipReads ==
  /\ clipWants /\ clipRead > 0
  /\ ClipSource \in Comp
  /\ InputRead(ClipSource, clipPos, clipRead)
  /\ UNCHANGED <<houtputVars, hcacheVars, mainVars>>

ClipGot ==
  /\ clipWants
  /\ \/ /\ ClipSource \in Comp
        /\ rpc[ClipSource] \in {"ok", "fail"}
        /\ ReadReturned(ClipSource)
        /\ IF rpc[ClipSource] = "ok"
           THEN /\ clip' = clip + clipRead /\ clipPos' = clipPos + clipRead
                /\ UNCHANGED <<mpc, result>>
           ELSE MainFails /\ UNCHANGED <<clip, clipPos>>
     \/ /\ ClipSource \notin Comp
        /\ \/ /\ clip' = clip + clipRead /\ clipPos' = clipPos + clipRead
              /\ UNCHANGED <<mpc, result>>
           \/ Fails /\ MainFails /\ UNCHANGED <<clip, clipPos>>
        /\ UNCHANGED readerVars
  /\ UNCHANGED <<baseVars, hinputVars, houtputVars, hcacheVars, nextOpen, step, cover, gapLeft,
                 oldLeft, pend, back, newPos, stepMem, ret>>

(* while (coverCount): the next step, or the end of the diff. *)
StepLoop ==
  /\ mpc = "step"
  /\ \/ step < Len(Steps) /\ step' = step + 1 /\ mpc' = "info"
     \/ step = Len(Steps) /\ mpc' = "last" /\ UNCHANGED step
  /\ cover' = 0
  /\ UNCHANGED <<compVars, nextOpen, gapLeft, oldLeft, clip, clipPos, pend, back, newPos,
                 stepMem, result, ret>>

StepInfo ==
  /\ mpc = "info" /\ clip >= clipNeed
  /\ clip' = clip - 1
  /\ mpc' = "reset"
  /\ UNCHANGED <<compVars, nextOpen, step, cover, gapLeft, oldLeft, clipPos, pend, back, newPos,
                 stepMem, result, ret>>

(* onStepCoversReset: "data(in covers_cache) will invalid".  From here on  *)
(* step_cache is overwritten with the covers of this step.                 *)
StepReset ==
  /\ mpc = "reset"
  /\ IF Old \in Comp /\ HasReset
     THEN OnStepCoversReset(Old, coversLeft(step))
     ELSE UNCHANGED <<baseVars, readerVars, hcacheVars>>
  /\ stepMem' = step
  /\ mpc' = "data"
  /\ UNCHANGED <<hinputVars, houtputVars, nextOpen, step, cover, gapLeft, oldLeft, clip, clipPos,
                 pend, back, newPos, result, ret>>

StepData ==
  /\ mpc = "data" /\ clip >= clipNeed
  /\ clip' = clip - 1
  /\ mpc' = "post"
  /\ UNCHANGED <<compVars, nextOpen, step, cover, gapLeft, oldLeft, clipPos, pend, back, newPos,
                 stepMem, result, ret>>

StepPost ==
  /\ mpc = "post"
  /\ IF Old \in Comp THEN OnStepCovers(Old, step)
                     ELSE UNCHANGED <<baseVars, readerVars, hcacheVars>>
  /\ mpc' = "cover"
  /\ UNCHANGED <<hinputVars, houtputVars, nextOpen, step, cover, gapLeft, oldLeft, clip, clipPos,
                 pend, back, newPos, stepMem, result, ret>>

NextCover ==
  /\ mpc = "cover"
  /\ \/ /\ cover = Len(Steps[step])
        /\ mpc' = "step" /\ UNCHANGED <<cover, gapLeft, oldLeft>>
     \/ /\ cover < Len(Steps[step])
        /\ cover' = cover + 1
        /\ gapLeft' = Steps[step][cover + 1].gap
        /\ oldLeft' = Steps[step][cover + 1].length
        /\ mpc' = "gap"
  /\ UNCHANGED <<compVars, nextOpen, step, clip, clipPos, pend, back, newPos, stepMem,
                 result, ret>>

curCover == Steps[step][cover]
(* The last cover, and only that one, may be empty. *)
coverOK ==
  IF curCover.length = 0 THEN step = Len(Steps) /\ cover = Len(Steps[step])
                         ELSE curCover.oldPos + curCover.length <= OldSize

(* _TOutStreamCache_copyFromClip, a cacheful at a time; then the check of  *)
(* the cover.                                                              *)
CopyGap ==
  /\ mpc = "gap" /\ clip >= clipNeed
  /\ \/ /\ gapLeft > 0
        /\ clip' = clip - clipNeed /\ gapLeft' = gapLeft - clipNeed
        /\ pend' = clipNeed /\ back' = "gap" /\ mpc' = "write"
        /\ UNCHANGED result
     \/ /\ gapLeft = 0
        /\ IF coverOK THEN mpc' = "old" /\ UNCHANGED result ELSE MainFails
        /\ UNCHANGED <<clip, gapLeft, pend, back>>
  /\ UNCHANGED <<compVars, nextOpen, step, cover, oldLeft, clipPos, newPos, stepMem, ret>>

(* _patch_add_old_with_rle0, a cacheful at a time *)
oldRead == least(CacheSize, oldLeft)
oldReadPos == curCover.oldPos + curCover.length - oldLeft

OldReads ==
  /\ mpc = "old" /\ oldLeft > 0
  /\ Old \in Comp
  /\ CacheRead(Old, oldRead)
  /\ UNCHANGED <<hinputVars, houtputVars, mainVars>>

(* old->read returned, and so did _rle0_decoder_add on what it read. *)
OldGot ==
  /\ mpc = "old" /\ oldLeft > 0
  /\ IF Old \in Comp
     THEN rpc[Old] \in {"ok", "fail"} /\ ReadReturned(Old)
     ELSE UNCHANGED readerVars
  /\ \/ /\ Old \in Comp => rpc[Old] = "ok"
        /\ oldLeft' = oldLeft - oldRead
        /\ pend' = oldRead /\ back' = "old" /\ mpc' = "write"
        /\ UNCHANGED result
     \/ /\ Fails \/ (Old \in Comp /\ rpc[Old] = "fail")
        /\ MainFails
        /\ UNCHANGED <<oldLeft, pend, back>>
  /\ UNCHANGED <<baseVars, hinputVars, houtputVars, hcacheVars, nextOpen, step, cover, gapLeft,
                 clip, clipPos, newPos, stepMem, ret>>

OldDone ==
  /\ mpc = "old" /\ oldLeft = 0
  /\ mpc' = "cover"
  /\ UNCHANGED <<compVars, nextOpen, step, cover, gapLeft, oldLeft, clip, clipPos, pend, back,
                 newPos, stepMem, result, ret>>

(* _TOutStreamCache_write: through "new" there is no cache in between. *)
NewWrites ==
  /\ mpc = "write"
  /\ New \in Comp
  /\ OutputWrite(New, newPos, pend)
  /\ UNCHANGED <<readerVars, hinputVars, hcacheVars, mainVars>>

NewWritten ==
  /\ mpc = "write"
  /\ IF New \in Comp
     THEN wpc[New] \in {"ok", "fail"} /\ WriteReturned(New)
     ELSE UNCHANGED houtputVars
  /\ \/ /\ New \in Comp => wpc[New] = "ok"
        /\ newPos' = newPos + pend /\ mpc' = back
        /\ UNCHANGED result
     \/ /\ IF New \in Comp THEN wpc[New] = "fail" ELSE Fails
        /\ MainFails
        /\ UNCHANGED newPos
  /\ UNCHANGED <<baseVars, readerVars, hinputVars, hcacheVars, nextOpen, step, cover, gapLeft,
                 oldLeft, clip, clipPos, pend, back, stepMem, ret>>

(* The end of the diff is posted to the old cache, and the flush. *)
LastReset ==
  /\ mpc = "last"
  /\ IF Old \in Comp /\ HasReset
     THEN OnStepCoversReset(Old, 0)
     ELSE UNCHANGED <<baseVars, readerVars, hcacheVars>>
  /\ mpc' = "lastPost"
  /\ UNCHANGED <<hinputVars, houtputVars, nextOpen, step, cover, gapLeft, oldLeft, clip, clipPos,
                 pend, back, newPos, stepMem, result, ret>>

LastPost ==
  /\ mpc = "lastPost"
  /\ IF Old \in Comp THEN OnStepCovers(Old, 0)
                     ELSE UNCHANGED <<baseVars, readerVars, hcacheVars>>
  /\ \/ /\ mpc' = "finish"
        /\ result' = (clip = 0 /\ clipPos = DiffBytes /\ newPos = NewBytes)
     \/ Fails /\ New \notin Comp /\ MainFails
  /\ UNCHANGED <<hinputVars, houtputVars, nextOpen, step, cover, gapLeft, oldLeft, clip, clipPos,
                 pend, back, newPos, stepMem, ret>>

---------------------------------------------------------------------------
(* hpatch_mt_manager_close *)

ManagerClose ==
  /\ mpc = "finish"
  /\ WaitAllThreadEnd(~result)
  /\ mpc' = "closing"
  /\ UNCHANGED <<readerVars, hinputVars, houtputVars, hcacheVars, nextOpen, step, cover, gapLeft,
                 oldLeft, clip, clipPos, pend, back, newPos, stepMem, result, ret>>

closeResult(c) == CASE c \in HInputs  -> inputCloseResult(c)
                    [] c \in HCaches  -> cacheCloseResult(c)
                    [] c \in HOutputs -> outputCloseResult(c)

(* Fault: the results of the components' closes are dropped. *)
ManagerClosedByResult ==
  /\ mpc = "closing"
  /\ AllThreadsEnded
  /\ mpc' = "returned"
  /\ ret' = IF result THEN "true" ELSE "false"
  /\ UNCHANGED <<readerVars, hinputVars, houtputVars, hcacheVars, nextOpen, step, cover, gapLeft,
                 oldLeft, clip, clipPos, pend, back, newPos, stepMem, result>>

ManagerClosed ==
  /\ mpc = "closing"
  /\ AllThreadsEnded
  /\ mpc' = "returned"
  /\ ret' = IF result /\ ~isOnError /\ \A c \in Comp : pc[c] # "none" => closeResult(c)
            THEN "true" ELSE "false"
  /\ UNCHANGED <<readerVars, hinputVars, houtputVars, hcacheVars, nextOpen, step, cover, gapLeft,
                 oldLeft, clip, clipPos, pend, back, newPos, stepMem, result>>

---------------------------------------------------------------------------
(* The threads together *)

(* decompress_part in the worker of "dec", which takes compressed bytes    *)
(* from "diff" as it likes (the plugin is external): it has taken all of   *)
(* them by the time that it has produced the last byte.                    *)
DecReads ==
  /\ {Diff, Dec} \subseteq Comp /\ pc[Dec] = "filling"
  /\ \/ /\ \E n \in 1..least(MaxRead, StreamSize[Diff] - curOutedPos[Diff]) :
             InputRead(Diff, curOutedPos[Diff], n)
     \/ /\ rpc[Diff] = "ok" /\ ReadReturned(Diff)
        /\ UNCHANGED <<baseVars, hinputVars>>
  /\ UNCHANGED <<houtputVars, hcacheVars, mainVars>>

(* Who calls read() of component c, other than the main thread's start and *)
(* end of the call: all the steps within the call.                         *)
ReadCall(c) == ReadStep(c) /\ UNCHANGED <<hinputVars, houtputVars, hcacheVars, mainVars>>
WriteCall(c) == WriteStep(c) /\ UNCHANGED <<readerVars, hinputVars, hcacheVars, mainVars>>

nested(c) == c = Dec /\ Diff \in Comp
FillDone(c, ok) ==
  /\ ok \/ Fails \/ (nested(c) /\ rpc[Diff] = "fail")
  /\ nested(c) => /\ ~readCalling(Diff) /\ rpc[Diff] # "ok"
                  /\ ok => /\ rpc[Diff] = "idle"
                           /\ curReadPos[Dec] = StreamSize[Dec] =>
                                curOutedPos[Diff] = StreamSize[Diff]
  /\ InputReadDone(c, ok)
  /\ UNCHANGED <<houtputVars, hcacheVars, mainVars>>

WorkerThread(c) ==
  \/ /\ c \in HInputs
     /\ \/ InputWorker(c) /\ UNCHANGED <<houtputVars, hcacheVars, mainVars>>
        \/ \E ok \in BOOLEAN : FillDone(c, ok)
        \/ c = Dec /\ DecReads
        \/ c = Dec /\ pc[Dec] = "filling" /\ Diff \in Comp /\ ReadCall(Diff)
  \/ c \in HCaches /\ CacheWorker(c) /\ UNCHANGED <<hinputVars, houtputVars, mainVars>>
  \/ c \in HOutputs /\ OutputWorker(c) /\ UNCHANGED <<readerVars, hinputVars, hcacheVars, mainVars>>

(* The components whose read() the main thread is the caller of. *)
MainReads == {c \in Comp \ {New} : c = Diff => Dec \notin Comp \/ (mpc = "open" /\ nextOpen = 2)}

MainThread ==
  \/ OpenComp \/ OpenDecReads \/ OpenDecRead \/ OpenFails \/ Opened \/ DecOpen
  \/ ClipReads \/ ClipGot \/ StepLoop \/ StepInfo \/ StepReset \/ StepData \/ StepPost
  \/ NextCover \/ CopyGap \/ OldReads \/ OldGot \/ OldDone \/ NewWrites \/ NewWritten
  \/ LastReset \/ LastPost \/ ManagerClose \/ ManagerClosed
  \/ \E c \in MainReads : ReadCall(c)
  \/ \E c \in HOutputs : WriteCall(c)

PatchSpurious ==
  /\ \E c \in Comp : SpuriousWake(c)
  /\ UNCHANGED <<readerVars, hinputVars, houtputVars, hcacheVars, mainVars>>

(* Everything has been closed: nothing is left to do. *)
PatchDone == mpc = "returned" /\ UNCHANGED patchVars

PatchNext == (\E c \in Comp : WorkerThread(c)) \/ MainThread \/ PatchSpurious \/ PatchDone
PatchSpec == PatchInit /\ [][PatchNext]_patchVars

(* Every thread that can take a step eventually takes one. *)
PatchFairness == (\A c \in Comp : WF_patchVars(WorkerThread(c))) /\ WF_patchVars(MainThread)
PatchFairSpec == PatchSpec /\ PatchFairness

---------------------------------------------------------------------------
(* Properties *)

liveWorkers == {c \in Comp : pc[c] \notin {"none", "done"}}

(* Worker and patcher decode the covers independently and read() names no  *)
(* position: still every read of the old data returns exactly the bytes of *)
(* the cover being patched.                                                *)
OldBytesAreTheCovers ==
  (Old \in Comp /\ mpc = "old" /\ oldLeft > 0 /\ rpc[Old] = "ok") =>
    outData[Old] = Run(oldReadPos, oldRead)

(* The worker decodes covers in the patcher's step_cache without a lock:   *)
(* that memory is never overwritten with the next step while the worker    *)
(* still has a cover of the last one to decode or to report.               *)
StepMemStable ==
  \A c \in HCaches :
    /\ covers_cache[c] # 0 => stepMem = covers_cache[c]
    /\ (stepNo[c] # 0 /\ (pc[c] = "hear" \/ coverNo[c] < Len(coversOf(c)))) => 
         pc[c] \in {"end", "done"} \/ stepMem = stepNo[c]

(* Every cover lies within the old data. *)
validDiff == \A s \in 1..Len(Steps) : \A i \in 1..Len(Steps[s]) :
               Steps[s][i].oldPos + Steps[s][i].length <= OldSize

(* _patch_single_compressed_diff_mt reports success only for a valid diff, *)
(* and when the base stream of "new" holds the whole output in order and   *)
(* everything that the components promised has been consumed.              *)
TrueMeansWritten ==
  ret = "true" =>
    /\ validDiff
    /\ newPos = NewBytes /\ clipPos = DiffBytes
    /\ \A c \in HOutputs : file[c] = Run(0, NewBytes)
    /\ \A c \in HInputs \union HCaches : dataBufList[c] = <<>> /\ curDataBuf[c] = NoBuf

(* One condition variable serves three waits of the old cache (covers,     *)
(* free buffers, data) and is signalled, not broadcast: nobody sleeps      *)
(* while what it sleeps for is there, and worker and patcher never both    *)
(* sleep.                                                                  *)
CacheNoSleepOverWork ==
  \A c \in HCaches :
    /\ Worker \in waiters[c] => IF pc[c] = "waitBuf" THEN freeBufList[c] = <<>>
                                                     ELSE covers_cache[c] = 0
    /\ Caller \in waiters[c] => dataBufList[c] = <<>>
    /\ waiters[c] # {Worker, Caller}

(* Only a read of old data makes the patcher wait for the worker.  The     *)
(* last step may do without: that of a diff cut before its empty cover.    *)
readsOld(s) == \E i \in 1..Len(Steps[s]) : Steps[s][i].length > 0

(* The asserts of _hcache_old_mt_onStepCovers and of                       *)
(* _hcache_old_mt_onStepCoversReset: when a step is posted the worker has  *)
(* taken the step before it, and the patcher has used up its data.  The    *)
(* one exception is the end of the diff, if the last step reads no old     *)
(* data: then the worker may not have taken that step.                     *)
PostFindsCacheEmpty ==
  \A c \in HCaches :
    (mpc \in {"post", "lastPost"} \/ (HasReset /\ mpc \in {"reset", "last"})) =>
      /\ curDataBuf[c] = NoBuf
      /\ covers_cache[c] = 0 \/ (mpc \in {"last", "lastPost"} /\ ~readsOld(step))

(* The listener behind the old cache hears the steps once and in order,    *)
(* null only after them, and it has heard them when the patch succeeds.    *)
(* None is left out but, for the reason above, a last step that reads no   *)
(* old data.                                                               *)
allHeard(n) == n = Len(Steps) \/ (n = Len(Steps) - 1 /\ ~readsOld(Len(Steps)))
ListenerHearsSteps ==
  \A c \in HCaches : \E n \in 0..Len(Steps) :
    /\ heard[c] = Run(1, n) \/ (allHeard(n) /\ heard[c] = Append(Run(1, n), 0))
    /\ ret = "true" => allHeard(n)

(* hpatch_mt_close: "finish & wait all threads end & free self".  No       *)
(* thread of the manager is left when the patch function has returned and  *)
(* its caller frees temp_cache.                                            *)
NoThreadAfterReturn == mpc = "returned" => liveWorkers = {}

(* Without failures the patch of a diff whose covers lie within the old    *)
(* data returns, and reports success.                                      *)
PatchSucceeds == validDiff => <>(ret = "true")

(* hpatch_mt_registeCondvar: "when onError or onFinish, got broadcast".  A *)
(* worker that was woken while it waited for a buffer and finds that the   *)
(* patch has failed leaves its thread function.                            *)
WokenWorkersEnd ==
  \A c \in Comp : (isOnError /\ pc[c] = "waitBuf" /\ Worker \notin waiters[c]) ~> pc[c] = "done"
===========================================================================
