---------------------------- MODULE HCacheOldMT ---------------------------
(***************************************************************************)
(* hcache_old_mt_t (_hcache_old_mt.c): the patcher posts the covers of     *)
(* each step of the diff; a worker thread decodes them a second time and   *)
(* reads the old data they refer to ahead of the patcher, which consumes   *)
(* it through read() without ever naming a position.                       *)
(*                                                                         *)
(* A byte of the old data is represented by its position.  The covers of   *)
(* step s are the bytes that the patcher keeps in its step_cache; the      *)
(* worker reads them there, in the patcher's memory.                       *)
(***************************************************************************)
EXTENDS MTReader

CONSTANTS HCaches,   \* the hcache_old_mt_t components among Comp
          OldSize,   \* old_stream->streamSize
          MaxPos,    \* ~(hpatch_StreamPos_t)0, larger than any count of covers
          Diffs      \* the diffs, one of which is patched: per step a
                     \* sequence of covers; a cover is [gap |-> new bytes
                     \* before it, oldPos, length]; one that cannot be decoded
                     \* stands as one beyond the old data

ASSUME HCacheAssumption ==
  /\ HCaches \subseteq Comp
  /\ OldSize \in Nat /\ MaxPos \in Nat \ {0}
  /\ Diffs \subseteq Seq(Seq([gap : Nat, oldPos : Nat, length : Nat]))
  /\ \A d \in Diffs : \A s \in 1..Len(d) : d[s] # <<>>  \* TStepStream flushes no step without a cover

VARIABLES
  Steps,             \* the diff being patched; it never changes
  covers_cache,      \* the step posted and not yet taken, 0 for null
  leaveCoverCount,
  stepNo, coverNo,   \* the worker's `covers': its step, covers decoded of it
  coverPos, coverLen,
  heard              \* what nextCoverlistener->onStepCovers was called with

hcacheVars == <<Steps, covers_cache, leaveCoverCount, stepNo, coverNo, coverPos, coverLen, heard>>

HCacheInit ==
  /\ Steps \in Diffs
  /\ covers_cache = [c \in HCaches |-> 0]
  /\ leaveCoverCount = [c \in HCaches |-> MaxPos]
  /\ stepNo = [c \in HCaches |-> 0]
  /\ coverNo = [c \in HCaches |-> 0]
  /\ coverPos = [c \in HCaches |-> 0]
  /\ coverLen = [c \in HCaches |-> 0]
  /\ heard = [c \in HCaches |-> <<>>]

gotCovers(c) == covers_cache[c] # 0 \/ leaveCoverCount[c] = 0
coversOf(c) == IF stepNo[c] = 0 THEN <<>> ELSE Steps[stepNo[c]]

---------------------------------------------------------------------------
(* hcache_old_thread_: the outer loop *)

CacheLoop(c) ==
  /\ pc[c] = "loop"
  /\ pc' = [pc EXCEPT ![c] = IF isOnFinish THEN "end" ELSE "getCovers"]
  /\ UNCHANGED <<mtVars, listVars, wbuf, tErr, bufData, readerVars, hcacheVars>>

(* Fault: the posted step is not cleared when it is taken. *)
TakeCoversKeeps(c) ==
  /\ stepNo' = [stepNo EXCEPT ![c] = covers_cache[c]]
  /\ coverNo' = [coverNo EXCEPT ![c] = 0]
  /\ pc' = [pc EXCEPT ![c] = "hear"]
  /\ UNCHANGED <<mtVars, listVars, wbuf, tErr, bufData, readerVars,
                 Steps, covers_cache, leaveCoverCount, coverPos, coverLen, heard>>

(* The critical section leaves with the posted step, if there is one. *)
TakeCovers(c) ==
  /\ covers_cache' = [covers_cache EXCEPT ![c] = 0]
  /\ stepNo' = [stepNo EXCEPT ![c] = covers_cache[c]]
  /\ coverNo' = [coverNo EXCEPT ![c] = 0]
  /\ pc' = [pc EXCEPT ![c] = "hear"]
  /\ UNCHANGED <<mtVars, listVars, wbuf, tErr, bufData, readerVars,
                 Steps, leaveCoverCount, coverPos, coverLen, heard>>

CacheGetCovers(c) == pc[c] = "getCovers" /\ ~baseOnError[c] /\ gotCovers(c) /\ TakeCovers(c)

(* Nothing is posted: wait once.  An error of the component ends it. *)
CacheNoCovers(c) ==
  /\ pc[c] = "getCovers"
  /\ \/ /\ baseOnError[c]
        /\ pc' = [pc EXCEPT ![c] = "end"]
        /\ UNCHANGED waiters
     \/ /\ ~baseOnError[c] /\ ~gotCovers(c)
        /\ WaitOn(c, Worker)
        /\ pc' = [pc EXCEPT ![c] = "waitCovers"]
  /\ UNCHANGED <<mtVars, freeBufList, dataBufList, baseOnError, wbuf, tErr, bufData,
                 readerVars, hcacheVars>>

CacheWakeCovers(c) ==
  /\ pc[c] = "waitCovers"
  /\ Worker \notin waiters[c]
  /\ \/ gotCovers(c) /\ TakeCovers(c)
     \/ /\ ~gotCovers(c)
        /\ pc' = [pc EXCEPT ![c] = "loop"]
        /\ UNCHANGED <<mtVars, listVars, wbuf, tErr, bufData, readerVars, hcacheVars>>

(* nextCoverlistener->onStepCovers in the thread (the manager passes       *)
(* isOnStepCoversInThread); then a null step ends the thread.              *)
CacheHear(c) ==
  /\ pc[c] = "hear"
  /\ heard' = [heard EXCEPT ![c] = Append(@, stepNo[c])]
  /\ tErr' = [tErr EXCEPT ![c] = FALSE]
  /\ pc' = [pc EXCEPT ![c] = IF stepNo[c] = 0 THEN "end" ELSE "cover"]
  /\ UNCHANGED <<mtVars, listVars, wbuf, bufData, readerVars, covers_cache,
                 leaveCoverCount, Steps, stepNo, coverNo, coverPos, coverLen>>

(* The cover loop: decode the next cover and check it against the old data. *)
CacheNextCover(c) ==
  /\ pc[c] = "cover"
  /\ \/ /\ coverNo[c] = Len(coversOf(c))
        /\ pc' = [pc EXCEPT ![c] = "stepEnd"]
        /\ UNCHANGED <<coverNo, coverPos, coverLen>>
     \/ /\ coverNo[c] < Len(coversOf(c))
        /\ LET cover == coversOf(c)[coverNo[c] + 1]
           IN /\ coverPos' = [coverPos EXCEPT ![c] = cover.oldPos]
              /\ coverLen' = [coverLen EXCEPT ![c] = cover.length]
              /\ pc' = [pc EXCEPT ![c] = IF cover.oldPos + cover.length <= OldSize
                                         THEN "buf" ELSE "setErr"]
        /\ coverNo' = [coverNo EXCEPT ![c] = @ + 1]
  /\ UNCHANGED <<mtVars, listVars, wbuf, tErr, bufData, readerVars, covers_cache,
                 leaveCoverCount, Steps, stepNo, heard>>

(* The buf loop.  Unlike hinput_thread_ it does not look at hpatch_mt_t's  *)
(* flags.                                                                  *)
CacheBufLoop(c) ==
  /\ pc[c] = "buf"
  /\ pc' = [pc EXCEPT ![c] =
              IF coverLen[c] = 0 THEN IF tErr[c] THEN "stepEnd" ELSE "cover"
              ELSE IF wbuf[c] = NoBuf THEN "getBuf" ELSE "read"]
  /\ UNCHANGED <<mtVars, listVars, wbuf, tErr, bufData, readerVars, hcacheVars>>

noBufNext(c) == IF baseOnError[c] THEN "stepEnd" ELSE "buf"
CacheGetBuf(c) == WorkerGetFree(c, "fresh", noBufNext(c)) /\ UNCHANGED <<readerVars, hcacheVars>>
CacheWaitBuf(c) == WorkerWaitFree(c) /\ UNCHANGED <<readerVars, hcacheVars>>
CacheWakeBuf(c) == WorkerWakeFree(c, "fresh", noBufNext(c)) /\ UNCHANGED <<readerVars, hcacheVars>>

CacheFreshBuf(c) ==
  /\ pc[c] = "fresh"
  /\ bufData' = [bufData EXCEPT ![c][wbuf[c]] = <<>>]
  /\ pc' = [pc EXCEPT ![c] = "read"]
  /\ UNCHANGED <<mtVars, listVars, wbuf, tErr, readerVars, hcacheVars>>

(* Fault: the old position does not move with the data. *)
CacheReadOldStill(c, ok) ==
  LET room == WorkBufSize - Len(bufData[c][wbuf[c]])
      n    == IF room > coverLen[c] THEN coverLen[c] ELSE room
  IN /\ pc[c] = "read"
     /\ bufData' = [bufData EXCEPT ![c][wbuf[c]] = @ \o Run(coverPos[c], n)]
     /\ coverLen' = [coverLen EXCEPT ![c] = @ - n]
     /\ pc' = [pc EXCEPT ![c] = IF n = room THEN "push" ELSE "buf"]
     /\ UNCHANGED <<mtVars, listVars, wbuf, tErr, readerVars, covers_cache, leaveCoverCount,
                    Steps, stepNo, coverNo, coverPos, heard>>

(* Append old data to the buffer, which may hold that of several covers. *)
CacheReadOld(c, ok) ==
  LET room == WorkBufSize - Len(bufData[c][wbuf[c]])
      n    == IF room > coverLen[c] THEN coverLen[c] ELSE room
  IN /\ pc[c] = "read"
     /\ IF ok
        THEN /\ bufData' = [bufData EXCEPT ![c][wbuf[c]] = @ \o Run(coverPos[c], n)]
             /\ coverPos' = [coverPos EXCEPT ![c] = @ + n]
             /\ coverLen' = [coverLen EXCEPT ![c] = @ - n]
             /\ pc' = [pc EXCEPT ![c] = IF n = room THEN "push" ELSE "buf"]
        ELSE /\ pc' = [pc EXCEPT ![c] = "setErr"]
             /\ UNCHANGED <<bufData, coverPos, coverLen>>
     /\ UNCHANGED <<mtVars, listVars, wbuf, tErr, readerVars, covers_cache, leaveCoverCount,
                    Steps, stepNo, coverNo, heard>>

CachePush(c) ==
  /\ pc[c] = "push"
  /\ WorkerPushData(c, "buf")
  /\ UNCHANGED <<readerVars, hcacheVars>>

(* The end of a step passes on a buffer that is not full; an error ends    *)
(* the thread.                                                             *)
CacheStepEnd(c) ==
  /\ pc[c] = "stepEnd"
  /\ \/ wbuf[c] # NoBuf /\ WorkerPushData(c, IF baseOnError[c] THEN "end" ELSE "loop")
     \/ /\ wbuf[c] = NoBuf
        /\ pc' = [pc EXCEPT ![c] = IF tErr[c] THEN "end" ELSE "loop"]
        /\ UNCHANGED <<mtVars, listVars, wbuf, tErr, bufData>>
  /\ UNCHANGED <<readerVars, hcacheVars>>

CacheError(c) ==
  /\ SetBaseOnError(c) \/ SetMtOnError(c, "stepEnd")
  /\ UNCHANGED <<readerVars, hcacheVars>>

CacheEnd(c) == ThreadEnd(c) /\ UNCHANGED <<readerVars, hcacheVars>>

CacheWorker(c) ==
  \/ CacheLoop(c) \/ CacheGetCovers(c) \/ CacheNoCovers(c) \/ CacheWakeCovers(c)
  \/ CacheHear(c) \/ CacheNextCover(c) \/ CacheBufLoop(c)
  \/ CacheGetBuf(c) \/ CacheWaitBuf(c) \/ CacheWakeBuf(c) \/ CacheFreshBuf(c)
  \/ \E ok \in {TRUE, ~Fails} : CacheReadOld(c, ok)
  \/ CachePush(c) \/ CacheStepEnd(c) \/ CacheError(c) \/ CacheEnd(c)

---------------------------------------------------------------------------
(* The patcher's side *)

(* Fault: the step is posted without a signal. *)
OnStepCoversSilent(c, s) ==
  /\ covers_cache' = [covers_cache EXCEPT ![c] = s]
  /\ leaveCoverCount' = [leaveCoverCount EXCEPT ![c] = IF s = 0 THEN 0 ELSE @]
  /\ UNCHANGED <<mtVars, freeBufList, dataBufList, baseOnError, waiters, workerVars, bufData,
                 readerVars, Steps, stepNo, coverNo, coverPos, coverLen, heard>>

(* _hcache_old_mt_onStepCovers; s = 0 is the null step that ends it all. *)
OnStepCovers(c, s) ==
  /\ covers_cache' = [covers_cache EXCEPT ![c] = s]
  /\ leaveCoverCount' = [leaveCoverCount EXCEPT ![c] = IF s = 0 THEN 0 ELSE @]
  /\ Signal(c)
  /\ UNCHANGED <<mtVars, freeBufList, dataBufList, baseOnError, workerVars, bufData,
                 readerVars, Steps, stepNo, coverNo, coverPos, coverLen, heard>>

(* _hcache_old_mt_onStepCoversReset *)
OnStepCoversReset(c, n) ==
  /\ leaveCoverCount' = [leaveCoverCount EXCEPT ![c] = n]
  /\ UNCHANGED <<baseVars, readerVars, Steps, covers_cache, stepNo, coverNo, coverPos,
                 coverLen, heard>>

(* _hcache_old_mt_read: no position is checked. *)
CacheRead(c, n) == rpc[c] = "idle" /\ EnterRead(c, n) /\ UNCHANGED hcacheVars

(* hcache_old_mt_close's result *)
cacheCloseResult(c) ==
  /\ ~baseOnError[c] /\ curDataBuf[c] = NoBuf /\ covers_cache[c] = 0
  /\ leaveCoverCount[c] \in {0, MaxPos}

===========================================================================
