-------------------------- MODULE HPatchMT_proofs -------------------------
(***************************************************************************)
(* Proofs about the multi-thread patcher as a whole (HPatchMT): that no    *)
(* thread is left when it returns, and that patcher and old cache          *)
(* (HCacheOldMT) stay in step.                                             *)
(***************************************************************************)
EXTENDS HPatchMT, MTBase_proofs

---------------------------------------------------------------------------
(* The components *)

(* The four components are different ones. *)
LEMMA Names ==
  /\ Old # Diff /\ Old # Dec /\ Old # New
  /\ Diff # Dec /\ Diff # New /\ Dec # New
BY DEF Old, Diff, Dec, New

(* Which components are of which kind. *)
LEMMA Kinds ==
  /\ \A c \in HInputs : c \in Comp /\ c # Old /\ c # New
  /\ \A c \in HOutputs : c \in Comp /\ c = New
  /\ \A c \in HCaches : c \in Comp /\ c = Old
  /\ Old \in Comp => HCaches = {Old}
  /\ Old \notin Comp => HCaches = {}
BY HPatchAssumption, Names, Zenon DEF HPatchAssumption

(* hpatch_mt_manager_open comes to each component once. *)
LEMMA OpenOrder ==
  /\ openOrder[1] = Diff /\ openOrder[2] = Dec /\ openOrder[3] = Old /\ openOrder[4] = New
  /\ \A c \in Comp : \E i \in 1..4 : openOrder[i] = c
  /\ \A i, j \in 1..4 : openOrder[i] = openOrder[j] => i = j
<1>1. openOrder[1] = Diff /\ openOrder[2] = Dec /\ openOrder[3] = Old /\ openOrder[4] = New
  BY DEF openOrder
<1>2. Comp \subseteq {Diff, Dec, Old, New}
  BY HPatchAssumption, Zenon DEF HPatchAssumption
<1>3. ASSUME NEW c \in Comp PROVE \E i \in 1..4 : openOrder[i] = c
  <2>1. c = Diff \/ c = Dec \/ c = Old \/ c = New
    BY <1>2
  <2>2. 1 \in 1..4 /\ 2 \in 1..4 /\ 3 \in 1..4 /\ 4 \in 1..4
    OBVIOUS
  <2> QED
    BY <1>1, <2>1, <2>2, Zenon
<1>4. \A i, j \in 1..4 : openOrder[i] = openOrder[j] => i = j
  <2>1. ASSUME NEW i \in 1..4 PROVE i = 1 \/ i = 2 \/ i = 3 \/ i = 4
    OBVIOUS
  <2> QED
    BY <1>1, <2>1, Names, Zenon
<1> QED
  BY <1>1, <1>3, <1>4

---------------------------------------------------------------------------
(* The count of threads *)

(* The patch function opens its own decompressor, if it needs one.         *)
DecoderOpens == mpc = "decOpen" => mpc' # "returned"

(* Components that hpatch_mt_manager_open has not come to have no thread,  *)
(* the counter counts the workers that run, and the closer has passed its  *)
(* wait only when there is none; the patch function may have returned      *)
(* early, and FALSE, without the closer.                                   *)
CountInv(early) ==
  /\ DOMAIN pc = Comp
  /\ nextOpen \in 1..5
  /\ runningThreads = Cardinality(liveWorkers)
  /\ mpc = "open" => \A i \in 1..4 : i >= nextOpen /\ openOrder[i] \in Comp => pc[openOrder[i]] = "none"
  /\ mpc = "closing" => closing = "waitAll"
  /\ mpc = "returned" => closing = "ended" \/ (early /\ ret = "false")
  /\ mpc \notin {"closing", "returned"} => closing = "no"
  /\ closing = "ended" => liveWorkers = {}
ThreadsInv == CountInv(TRUE)

LEMMA LiveWorkersFinite == IsFiniteSet(liveWorkers) /\ Cardinality(liveWorkers) \in Nat
<1>1. IsFiniteSet(liveWorkers)
  BY BaseAssumption, FS_Subset DEF liveWorkers, BaseAssumption
<1> QED
  BY <1>1, FS_CardinalityType

(* What a step of the worker of d does to the count. *)
WorkerMoves(d) ==
  /\ pc[d] \notin {"none", "done"}
  /\ pc' = [pc EXCEPT ![d] = pc'[d]] /\ pc'[d] # "none"
  /\ runningThreads' = IF pc'[d] = "done" THEN runningThreads - 1 ELSE runningThreads
  /\ UNCHANGED closing

LEMMA InputWorkerMoves ==
  ASSUME NEW d \in Comp, DOMAIN pc = Comp, InputWorker(d)
  PROVE  WorkerMoves(d)
<1>1. CASE InputLoop(d)
  BY <1>1 DEF InputLoop, WorkerMoves, mtVars
<1>2. CASE InputGetBuf(d)
  BY <1>2 DEF InputGetBuf, WorkerGetFree, TakeFree, WorkerMoves, mtVars
<1>3. CASE InputWaitBuf(d)
  BY <1>3 DEF InputWaitBuf, WorkerWaitFree, WorkerMoves, mtVars
<1>4. CASE InputWakeBuf(d)
  BY <1>4 DEF InputWakeBuf, WorkerWakeFree, TakeFree, WorkerMoves, mtVars
<1>5. CASE InputReadAData(d)
  BY <1>5 DEF InputReadAData, WorkerMoves, mtVars
<1>6. CASE InputPush(d)
  BY <1>6 DEF InputPush, WorkerPushData, WorkerMoves, mtVars
<1>7. CASE InputError(d)
  BY <1>7 DEF InputError, SetBaseOnError, SetMtOnError, WorkerMoves, mtVars
<1>8. CASE InputEnd(d)
  BY <1>8 DEF InputEnd, ThreadEnd, WorkerMoves
<1> QED
  BY <1>1, <1>2, <1>3, <1>4, <1>5, <1>6, <1>7, <1>8 DEF InputWorker

LEMMA OutputWorkerMoves ==
  ASSUME NEW d \in Comp, DOMAIN pc = Comp, OutputWorker(d)
  PROVE  WorkerMoves(d)
<1>1. CASE OutputLoop(d)
  BY <1>1 DEF OutputLoop, WorkerMoves, mtVars
<1>2. CASE OutputGetBufs(d)
  BY <1>2 DEF OutputGetBufs, TakeAllData, WorkerMoves, mtVars
<1>3. CASE OutputWaitBufs(d)
  BY <1>3 DEF OutputWaitBufs, WorkerMoves, mtVars
<1>4. CASE OutputWakeBufs(d)
  BY <1>4 DEF OutputWakeBufs, TakeAllData, WorkerMoves, mtVars
<1>5. ASSUME NEW ok \in {TRUE, ~Fails}, OutputWriteAData(d, ok) PROVE WorkerMoves(d)
  BY <1>5 DEF OutputWriteAData, WorkerMoves, mtVars
<1>6. CASE OutputPushFree(d)
  BY <1>6 DEF OutputPushFree, WorkerMoves, mtVars
<1>7. CASE OutputError(d)
  BY <1>7 DEF OutputError, SetBaseOnError, SetMtOnError, WorkerMoves, mtVars
<1>8. CASE OutputEnd(d)
  BY <1>8 DEF OutputEnd, ThreadEnd, WorkerMoves
<1> QED
  BY <1>1, <1>2, <1>3, <1>4, <1>5, <1>6, <1>7, <1>8 DEF OutputWorker

LEMMA CacheWorkerMoves ==
  ASSUME NEW d \in Comp, DOMAIN pc = Comp, CacheWorker(d)
  PROVE  WorkerMoves(d)
<1>1. CASE CacheLoop(d)
  BY <1>1 DEF CacheLoop, WorkerMoves, mtVars
<1>2. CASE CacheGetCovers(d)
  BY <1>2 DEF CacheGetCovers, TakeCovers, WorkerMoves, mtVars
<1>3. CASE CacheNoCovers(d)
  BY <1>3 DEF CacheNoCovers, WorkerMoves, mtVars
<1>4. CASE CacheWakeCovers(d)
  BY <1>4 DEF CacheWakeCovers, TakeCovers, WorkerMoves, mtVars
<1>5. CASE CacheHear(d)
  BY <1>5 DEF CacheHear, WorkerMoves, mtVars
<1>6. CASE CacheNextCover(d)
  BY <1>6 DEF CacheNextCover, WorkerMoves, mtVars
<1>7. CASE CacheBufLoop(d)
  BY <1>7 DEF CacheBufLoop, WorkerMoves, mtVars
<1>8. CASE CacheGetBuf(d)
  BY <1>8 DEF CacheGetBuf, WorkerGetFree, TakeFree, WorkerMoves, mtVars, noBufNext
<1>9. CASE CacheWaitBuf(d)
  BY <1>9 DEF CacheWaitBuf, WorkerWaitFree, WorkerMoves, mtVars
<1>10. CASE CacheWakeBuf(d)
  BY <1>10 DEF CacheWakeBuf, WorkerWakeFree, TakeFree, WorkerMoves, mtVars, noBufNext
<1>11. CASE CacheFreshBuf(d)
  BY <1>11 DEF CacheFreshBuf, WorkerMoves, mtVars
<1>12. ASSUME NEW ok \in {TRUE, ~Fails}, CacheReadOld(d, ok) PROVE WorkerMoves(d)
  BY <1>12 DEF CacheReadOld, WorkerMoves, mtVars
<1>13. CASE CachePush(d)
  BY <1>13 DEF CachePush, WorkerPushData, WorkerMoves, mtVars
<1>14. CASE CacheStepEnd(d)
  BY <1>14 DEF CacheStepEnd, WorkerPushData, WorkerMoves, mtVars
<1>15. CASE CacheError(d)
  BY <1>15 DEF CacheError, SetBaseOnError, SetMtOnError, WorkerMoves, mtVars
<1>16. CASE CacheEnd(d)
  BY <1>16 DEF CacheEnd, ThreadEnd, WorkerMoves
<1> QED
  BY <1>1, <1>2, <1>3, <1>4, <1>5, <1>6, <1>7, <1>8, <1>9, <1>10, <1>11, <1>12, <1>13, <1>14,
     <1>15, <1>16 DEF CacheWorker

(* A worker that goes on or leaves keeps the count right.                  *)
LEMMA MovesKeepCount ==
  ASSUME NEW early \in BOOLEAN, CountInv(early), NEW d \in Comp, WorkerMoves(d),
         UNCHANGED <<mpc, nextOpen, ret>>
  PROVE  CountInv(early)'
<1>1. /\ DOMAIN pc = Comp /\ pc' = [pc EXCEPT ![d] = pc'[d]] /\ pc[d] \notin {"none", "done"}
      /\ d \in liveWorkers /\ liveWorkers # {}
  BY DEF CountInv, WorkerMoves, liveWorkers
<1>2. /\ pc'[d] = "done" => liveWorkers' = liveWorkers \ {d}
      /\ pc'[d] # "done" => liveWorkers' = liveWorkers
  BY <1>1 DEF liveWorkers, WorkerMoves
<1>3. runningThreads' = Cardinality(liveWorkers')
  <2>1. CASE pc'[d] = "done"
    <3>1. Cardinality(liveWorkers') = Cardinality(liveWorkers) - 1
      BY <1>1, <1>2, <2>1, LiveWorkersFinite, FS_RemoveElement
    <3> QED
      BY <2>1, <3>1 DEF CountInv, WorkerMoves
  <2>2. CASE pc'[d] # "done"
    BY <1>2, <2>2 DEF CountInv, WorkerMoves
  <2> QED
    BY <2>1, <2>2
<1>4. mpc = "open" => \A i \in 1..4 : i >= nextOpen /\ openOrder[i] \in Comp => pc'[openOrder[i]] = "none"
  <2>1. ASSUME NEW i \in 1..4, mpc = "open", i >= nextOpen, openOrder[i] \in Comp
        PROVE  pc'[openOrder[i]] = "none"
    <3>1. pc[openOrder[i]] = "none"
      BY <2>1 DEF CountInv
    <3> QED
      BY <1>1, <2>1, <3>1
  <2> QED
    BY <2>1
<1>5. closing # "ended" /\ UNCHANGED <<closing, mpc, nextOpen>>
  BY <1>1 DEF CountInv, WorkerMoves
<1>6. DOMAIN pc' = Comp
  BY <1>1
<1> QED
  BY <1>3, <1>4, <1>5, <1>6 DEF CountInv

(* Nothing but the steps of workers, hpatch_mt_manager_open and            *)
(* hpatch_mt_manager_close moves a thread.                                 *)
LEMMA OthersKeepCount ==
  ASSUME NEW early \in BOOLEAN, CountInv(early), UNCHANGED <<pc, runningThreads, closing, nextOpen>>,
         \/ UNCHANGED <<mpc, ret>>
         \/ {mpc, mpc'} \cap {"open", "closing", "returned"} = {}
         \/ mpc = "open" /\ mpc' \notin {"closing", "returned"}
         \/ mpc = "decOpen" /\ mpc' = "returned" /\ ret' = "false" /\ early
  PROVE  CountInv(early)'
BY DEF CountInv, liveWorkers

(* A read of any component moves no thread.                                *)
LEMMA ReadMovesNone ==
  ASSUME NEW c, ReadStep(c)
  PROVE  UNCHANGED <<mtVars, workerVars>>
<1>1. CASE ReadLoop(c)
  BY <1>1 DEF ReadLoop, baseVars
<1>2. CASE ReadGetBuf(c)
  BY <1>2 DEF ReadGetBuf, TakeData
<1>3. CASE ReadWait(c)
  BY <1>3 DEF ReadWait
<1>4. CASE ReadWake(c)
  BY <1>4 DEF ReadWake, TakeData
<1>5. CASE ReadCopy(c)
  BY <1>5 DEF ReadCopy, baseVars
<1>6. CASE ReadRelease(c)
  BY <1>6 DEF ReadRelease
<1> QED
  BY <1>1, <1>2, <1>3, <1>4, <1>5, <1>6 DEF ReadStep

(* Nor does a write.                                                       *)
LEMMA WriteMovesNone ==
  ASSUME NEW c, WriteStep(c)
  PROVE  UNCHANGED <<mtVars, workerVars>>
<1>1. CASE WriteLoop(c)
  BY <1>1 DEF WriteLoop, baseVars
<1>2. CASE WriteGetBuf(c)
  BY <1>2 DEF WriteGetBuf, CallerTakesFree
<1>3. CASE WriteWait(c)
  BY <1>3 DEF WriteWait
<1>4. CASE WriteWake(c)
  BY <1>4 DEF WriteWake, CallerTakesFree
<1>5. CASE WriteCopy(c)
  BY <1>5 DEF WriteCopy
<1>6. CASE WritePush(c)
  BY <1>6 DEF WritePush
<1> QED
  BY <1>1, <1>2, <1>3, <1>4, <1>5, <1>6 DEF WriteStep

(* hpatch_mt_base_aThreadBegin_ counts the thread before it runs.          *)
LEMMA OpenCounts ==
  ASSUME NEW early \in BOOLEAN, CountInv(early), OpenComp
  PROVE  CountInv(early)'
<1> DEFINE c == openOrder[nextOpen]
<1>1. /\ mpc = "open" /\ mpc' = "open" /\ nextOpen \in 1..4 /\ nextOpen' = nextOpen + 1 /\ UNCHANGED closing
      /\ closing = "no"
  BY DEF OpenComp, CountInv
<1>2. \A i \in 1..4 : i >= nextOpen' => i >= nextOpen /\ openOrder[i] # c
  BY <1>1, OpenOrder
<1>3. CASE c \notin Comp
  <2>1. UNCHANGED <<pc, runningThreads>>
    BY <1>3 DEF OpenComp
  <2> HIDE DEF c
  <2> QED
    BY <1>1, <1>2, <2>1 DEF CountInv, liveWorkers
<1>4. CASE c \in Comp
  <2>1. pc[c] = "none" /\ pc' = [pc EXCEPT ![c] = "loop"] /\ runningThreads' = runningThreads + 1
    BY <1>1, <1>4 DEF OpenComp, CountInv
  <2> HIDE DEF c
  <2>2. DOMAIN pc = Comp /\ DOMAIN pc' = Comp
    BY <2>1 DEF CountInv
  <2>3. liveWorkers' = liveWorkers \union {c} /\ c \notin liveWorkers
    BY <1>4, <2>1, <2>2 DEF liveWorkers
  <2>4. runningThreads' = Cardinality(liveWorkers')
    BY <2>1, <2>3, LiveWorkersFinite, FS_AddElement DEF CountInv
  <2>5. ASSUME NEW i \in 1..4, i >= nextOpen', openOrder[i] \in Comp
        PROVE  pc'[openOrder[i]] = "none"
    <3>1. i >= nextOpen /\ openOrder[i] # c
      BY <1>2, <2>5
    <3>2. pc[openOrder[i]] = "none"
      BY <1>1, <2>5, <3>1 DEF CountInv
    <3> QED
      BY <2>1, <2>2, <2>5, <3>1, <3>2
  <2>6. nextOpen' \in 1..5
    BY <1>1
  <2> QED
    BY <1>1, <2>2, <2>4, <2>5, <2>6 DEF CountInv
<1> QED
  BY <1>3, <1>4

(* hpatch_mt_waitAllThreadEnd returns when the counter is zero.            *)
LEMMA CloseWaits ==
  ASSUME NEW early \in BOOLEAN, CountInv(early), ManagerClose \/ ManagerClosed
  PROVE  CountInv(early)'
<1>1. CASE ManagerClose
  BY <1>1 DEF ManagerClose, WaitAllThreadEnd, CountInv, liveWorkers, workerVars
<1>2. CASE ManagerClosed
  <2>1. /\ mpc = "closing" /\ mpc' = "returned" /\ closing' = "ended" /\ runningThreads = 0
        /\ UNCHANGED <<pc, runningThreads, nextOpen>>
    BY <1>2 DEF ManagerClosed, AllThreadsEnded, workerVars
  <2>2. liveWorkers = {} /\ liveWorkers' = liveWorkers
    BY <1>2, <2>1, LiveWorkersFinite, FS_EmptySet DEF CountInv, liveWorkers
  <2> QED
    BY <1>2, <2>1, <2>2 DEF CountInv
<1> QED
  BY <1>1, <1>2

(* The rest of the main thread's own steps.                                *)
MainSteps ==
  \/ OpenDecReads \/ OpenDecRead \/ OpenFails \/ Opened \/ DecOpen
  \/ ClipReads \/ ClipGot \/ StepLoop \/ StepInfo \/ StepReset \/ StepData \/ StepPost
  \/ NextCover \/ CopyGap \/ OldReads \/ OldGot \/ OldDone \/ NewWrites \/ NewWritten
  \/ LastReset \/ LastPost

LEMMA MainKeepsCount ==
  ASSUME NEW early \in BOOLEAN, CountInv(early), MainSteps, DecoderOpens \/ early
  PROVE  CountInv(early)'
<1> USE DEF baseVars, mtVars, workerVars, compVars, mainVars
<1>1. CASE OpenDecReads
  BY <1>1, OthersKeepCount DEF OpenDecReads, InputRead, EnterRead
<1>2. CASE OpenDecRead
  BY <1>2, OthersKeepCount DEF OpenDecRead
<1>3. CASE OpenFails
  BY <1>3, OthersKeepCount DEF OpenFails
<1>4. CASE Opened
  BY <1>4, OthersKeepCount DEF Opened
<1>5. CASE DecOpen
  BY <1>5, OthersKeepCount DEF DecOpen, DecoderOpens
<1>6. CASE ClipReads
  BY <1>6, OthersKeepCount DEF ClipReads, InputRead, EnterRead
<1>7. CASE ClipGot
  <2>1. mpc \notin {"open", "closing", "returned"}
    BY <1>7 DEF ClipGot, clipWants
  <2> QED
    BY <1>7, <2>1, OthersKeepCount DEF ClipGot, MainFails
<1>8. CASE StepLoop
  BY <1>8, OthersKeepCount DEF StepLoop
<1>9. CASE StepInfo
  BY <1>9, OthersKeepCount DEF StepInfo
<1>10. CASE StepReset
  BY <1>10, OthersKeepCount DEF StepReset, OnStepCoversReset
<1>11. CASE StepData
  BY <1>11, OthersKeepCount DEF StepData
<1>12. CASE StepPost
  BY <1>12, OthersKeepCount DEF StepPost, OnStepCovers
<1>13. CASE NextCover
  BY <1>13, OthersKeepCount DEF NextCover
<1>14. CASE CopyGap
  BY <1>14, OthersKeepCount DEF CopyGap, MainFails
<1>15. CASE OldReads
  BY <1>15, OthersKeepCount DEF OldReads, CacheRead, EnterRead
<1>16. CASE OldGot
  BY <1>16, OthersKeepCount DEF OldGot, MainFails
<1>17. CASE OldDone
  BY <1>17, OthersKeepCount DEF OldDone
<1>18. CASE NewWrites
  BY <1>18, OthersKeepCount DEF NewWrites, OutputWrite
<1>19. CASE NewWritten
  BY <1>19, OthersKeepCount DEF NewWritten, MainFails
<1>20. CASE LastReset
  BY <1>20, OthersKeepCount DEF LastReset, OnStepCoversReset
<1>21. CASE LastPost
  BY <1>21, OthersKeepCount DEF LastPost, OnStepCovers, MainFails
<1> QED
  BY <1>1, <1>2, <1>3, <1>4, <1>5, <1>6, <1>7, <1>8, <1>9, <1>10, <1>11, <1>12, <1>13, <1>14,
     <1>15, <1>16, <1>17, <1>18, <1>19, <1>20, <1>21 DEF MainSteps

(* A step of a component's thread, with the calls it makes.                *)
LEMMA ThreadKeepsCount ==
  ASSUME NEW early \in BOOLEAN, CountInv(early), NEW c \in Comp, WorkerThread(c)
  PROVE  CountInv(early)'
<1> USE DEF mtVars, workerVars, mainVars
<1>1. DOMAIN pc = Comp
  BY DEF CountInv
<1>2. ASSUME InputWorker(c), UNCHANGED mainVars PROVE CountInv(early)'
  BY <1>1, <1>2, InputWorkerMoves, MovesKeepCount
<1>3. ASSUME NEW ok \in BOOLEAN, FillDone(c, ok) PROVE CountInv(early)'
  <2>1. WorkerMoves(c)
    BY <1>1, <1>3 DEF FillDone, InputReadDone, WorkerMoves
  <2> QED
    BY <1>3, <2>1, MovesKeepCount DEF FillDone
<1>4. ASSUME DecReads PROVE CountInv(early)'
  <2>1. UNCHANGED <<mtVars, workerVars, mainVars>>
    BY <1>4 DEF DecReads, InputRead, EnterRead, baseVars
  <2> QED
    BY <2>1, OthersKeepCount
<1>5. ASSUME ReadCall(Diff) PROVE CountInv(early)'
  BY <1>5, ReadMovesNone, OthersKeepCount DEF ReadCall
<1>6. ASSUME CacheWorker(c), UNCHANGED mainVars PROVE CountInv(early)'
  BY <1>1, <1>6, CacheWorkerMoves, MovesKeepCount
<1>7. ASSUME OutputWorker(c), UNCHANGED mainVars PROVE CountInv(early)'
  BY <1>1, <1>7, OutputWorkerMoves, MovesKeepCount
<1> QED
  BY <1>2, <1>3, <1>4, <1>5, <1>6, <1>7 DEF WorkerThread

(* Every step of the patcher keeps the count.                              *)
LEMMA NextKeepsCount ==
  ASSUME NEW early \in BOOLEAN, CountInv(early), [PatchNext]_patchVars, DecoderOpens \/ early
  PROVE  CountInv(early)'
<1> USE DEF mtVars, workerVars, mainVars
<1>1. ASSUME NEW c \in Comp, WorkerThread(c) PROVE CountInv(early)'
  BY <1>1, ThreadKeepsCount
<1>2. CASE MainThread
  <2>1. CASE OpenComp
    BY <2>1, OpenCounts
  <2>2. CASE ManagerClose \/ ManagerClosed
    BY <2>2, CloseWaits
  <2>3. CASE MainSteps
    BY <2>3, MainKeepsCount
  <2>4. ASSUME NEW c, ReadCall(c) PROVE CountInv(early)'
    BY <2>4, ReadMovesNone, OthersKeepCount DEF ReadCall
  <2>5. ASSUME NEW c, WriteCall(c) PROVE CountInv(early)'
    BY <2>5, WriteMovesNone, OthersKeepCount DEF WriteCall
  <2> QED
    BY <1>2, <2>1, <2>2, <2>3, <2>4, <2>5 DEF MainThread, MainSteps
<1>3. CASE PatchSpurious
  <2>1. UNCHANGED <<mtVars, workerVars, mainVars>>
    BY <1>3 DEF PatchSpurious, SpuriousWake
  <2> QED
    BY <2>1, OthersKeepCount
<1>4. CASE UNCHANGED patchVars
  BY <1>4, OthersKeepCount DEF patchVars, compVars, baseVars
<1> QED
  BY <1>1, <1>2, <1>3, <1>4 DEF PatchNext, PatchDone

(* When the manager starts to open there is no thread.                     *)
LEMMA InitCount ==
  ASSUME NEW early \in BOOLEAN, PatchInit
  PROVE  CountInv(early)
<1>1. /\ pc = [c \in Comp |-> "none"] /\ nextOpen = 1 /\ runningThreads = 0
      /\ mpc = "open" /\ closing = "no"
  BY DEF PatchInit, BaseInit
<1>2. liveWorkers = {}
  BY <1>1 DEF liveWorkers
<1>3. runningThreads = Cardinality(liveWorkers)
  BY <1>1, <1>2, FS_EmptySet
<1> QED
  BY <1>1, <1>2, <1>3 DEF CountInv

(* NoThreadAfterReturn for every set of opened components and every diff:  *)
(* when _patch_single_compressed_diff_mt returns no worker of the manager  *)
(* is left.  The hypothesis is about the one step that it is not true of:  *)
(* if the decompressor that the function opens itself fails to open, it    *)
(* returns at once and leaves the manager's threads behind.  Every other   *)
(* failure is among the behaviours of the theorem.                         *)
THEOREM PatchReturnsAlone ==
  PatchSpec /\ [][DecoderOpens]_patchVars => []NoThreadAfterReturn
<1>1. PatchInit => CountInv(FALSE)
  BY InitCount
<1>2. CountInv(FALSE) /\ [PatchNext]_patchVars /\ [DecoderOpens]_patchVars => CountInv(FALSE)'
  <2>1. UNCHANGED patchVars => DecoderOpens
    BY DEF DecoderOpens, patchVars, mainVars
  <2> QED
    BY <2>1, NextKeepsCount
<1>3. CountInv(FALSE) => NoThreadAfterReturn
  BY DEF CountInv, NoThreadAfterReturn
<1> QED
  BY <1>1, <1>2, <1>3, PTL DEF PatchSpec

---------------------------------------------------------------------------
(* The covers of a step *)

Covers == Seq([gap : Nat, oldPos : Nat, length : Nat])

(* How many bytes of old data the first covers of a step refer to, and all *)
(* of them.                                                                *)
ends(covers) == sums([i \in 1..Len(covers) |-> covers[i].length])
total(covers) == ends(covers)[Len(covers)]

(* The k-th of these bytes, and n of them from the one after the k-th on.  *)
oldByte(covers, k) ==
  LET i == CHOOSE i \in 1..Len(covers) : ends(covers)[i - 1] < k /\ k <= ends(covers)[i]
  IN covers[i].oldPos + (k - ends(covers)[i - 1]) - 1
Part(covers, k, n) == [j \in 1..n |-> oldByte(covers, k + j)]

(* The buffers of a list hold the bytes of the covers from p to e, in the  *)
(* list's order, without a gap and none of them empty.                     *)
CoverChain(covers, data, list, p, e) ==
  \E cut \in [1..(Len(list) + 1) -> Nat] :
    /\ cut[1] = p /\ cut[Len(list) + 1] = e
    /\ \A i \in 1..Len(list) :
         /\ cut[i] < cut[i + 1] /\ cut[i + 1] <= e
         /\ data[list[i]] = Part(covers, cut[i], cut[i + 1] - cut[i])

(* A cover of a step.                                                      *)
LEMMA CoverIs ==
  ASSUME NEW covers \in Covers
  PROVE  /\ Len(covers) \in Nat
         /\ \A i \in 1..Len(covers) : covers[i].oldPos \in Nat /\ covers[i].length \in Nat
<1>1. \A i \in 1..Len(covers) : covers[i] \in [gap : Nat, oldPos : Nat, length : Nat]
  BY ElementOfSeq DEF Covers
<1>2. \A x \in [gap : Nat, oldPos : Nat, length : Nat] : x.oldPos \in Nat /\ x.length \in Nat
  OBVIOUS
<1> QED
  BY <1>1, <1>2, SMTT(30) DEF Covers

(* The sums of the covers' lengths.                                        *)
LEMMA Ends ==
  ASSUME NEW covers \in Covers
  PROVE  /\ ends(covers)[0] = 0
         /\ \A i \in 0..Len(covers) : ends(covers)[i] \in Nat
         /\ \A i \in 1..Len(covers) : ends(covers)[i] = ends(covers)[i - 1] + covers[i].length
         /\ \A i, j \in 0..Len(covers) : i <= j => ends(covers)[i] <= ends(covers)[j]
<1> DEFINE s == [i \in 1..Len(covers) |-> covers[i].length]
<1>1. /\ s \in Seq(Nat) /\ Len(s) = Len(covers) /\ Len(covers) \in Nat
      /\ \A i \in 1..Len(covers) : s[i] = covers[i].length
  BY CoverIs
<1>2. ends(covers) = sums(s)
  BY DEF ends
<1> HIDE DEF s
<1>3. sums(s) = CHOOSE f : f = [i \in 0..Len(s) |-> IF i = 0 THEN 0 ELSE f[i - 1] + s[i]]
  BY Zenon DEF sums
<1>4. IsSums(sums(s), s)
  BY <1>1, <1>3, SumsUnique, Zenon
<1>5. \A i, j \in 0..Len(s) : i <= j => sums(s)[i] <= sums(s)[j]
  BY <1>1, <1>4, SumsGrow
<1>6. /\ sums(s) \in [0..Len(s) -> Nat] /\ sums(s)[0] = 0
      /\ \A i \in 1..Len(s) : sums(s)[i] = sums(s)[i - 1] + s[i]
  BY <1>4 DEF IsSums
<1> QED
  BY <1>1, <1>2, <1>5, <1>6

(* The byte at an offset of a cover.                                       *)
LEMMA OldByteIs ==
  ASSUME NEW covers \in Covers, NEW i \in 1..Len(covers), NEW k \in Nat,
         ends(covers)[i - 1] < k, k <= ends(covers)[i]
  PROVE  oldByte(covers, k) = covers[i].oldPos + (k - ends(covers)[i - 1]) - 1
<1> DEFINE At(j) == ends(covers)[j - 1] < k /\ k <= ends(covers)[j]
           c == CHOOSE j \in 1..Len(covers) : At(j)
<1>1. c \in 1..Len(covers) /\ At(c)
  <2>1. At(i)
    OBVIOUS
  <2> QED
    BY <2>1, Zenon
<1>2. oldByte(covers, k) = covers[c].oldPos + (k - ends(covers)[c - 1]) - 1
  BY DEF oldByte
<1> HIDE DEF c
<1>3. c = i
  <2>1. ASSUME NEW x \in 1..Len(covers), NEW y \in 1..Len(covers), At(x), At(y), x < y PROVE FALSE
    <3>1. x \in 0..Len(covers) /\ y - 1 \in 0..Len(covers) /\ x <= y - 1
      BY <2>1
    <3>2. ends(covers)[x] <= ends(covers)[y - 1]
      BY <3>1, Ends
    <3>3. ends(covers)[x] \in Nat /\ ends(covers)[y - 1] \in Nat
      BY <3>1, Ends
    <3> QED
      BY <2>1, <3>2, <3>3
  <2>2. ~(c < i) /\ ~(i < c)
    BY <1>1, <2>1
  <2> QED
    BY <1>1, <2>2
<1> QED
  BY <1>2, <1>3

(* n bytes within the c-th cover are n neighbours of the old data.         *)
LEMMA CoverPart ==
  ASSUME NEW covers \in Covers, NEW i \in 1..Len(covers), NEW k \in Nat, NEW n \in Nat,
         ends(covers)[i - 1] <= k, k + n <= ends(covers)[i]
  PROVE  Part(covers, k, n) = Run(covers[i].oldPos + (k - ends(covers)[i - 1]), n)
<1>0. ends(covers)[i - 1] \in Nat /\ ends(covers)[i] \in Nat /\ covers[i].oldPos \in Nat
  <2>1. i \in 0..Len(covers) /\ i - 1 \in 0..Len(covers)
    OBVIOUS
  <2> QED
    BY <2>1, Ends, CoverIs
<1>1. ASSUME NEW j \in 1..n
      PROVE  oldByte(covers, k + j) = (covers[i].oldPos + (k - ends(covers)[i - 1])) + j - 1
  <2>1. k + j \in Nat /\ ends(covers)[i - 1] < k + j /\ k + j <= ends(covers)[i]
    BY <1>0, SMTT(30)
  <2>2. oldByte(covers, k + j) = covers[i].oldPos + ((k + j) - ends(covers)[i - 1]) - 1
    BY <2>1, OldByteIs
  <2> QED
    BY <1>0, <2>2, SMTT(30)
<1> QED
  BY <1>1 DEF Part, Run

(* What is taken together is taken one after the other.                    *)
LEMMA PartCat ==
  ASSUME NEW covers \in Covers, NEW k \in Nat, NEW m \in Nat, NEW n \in Nat
  PROVE  Part(covers, k, m) \o Part(covers, k + m, n) = Part(covers, k, m + n)
<1> DEFINE p == Part(covers, k, m)
           q == Part(covers, k + m, n)
<1>1. /\ Len(p) = m /\ Len(q) = n
      /\ \A j \in 1..m : p[j] = oldByte(covers, k + j)
      /\ \A j \in 1..n : q[j] = oldByte(covers, (k + m) + j)
  BY DEF Part
<1>2. p \o q = [j \in 1..(Len(p) + Len(q)) |-> IF j <= Len(p) THEN p[j] ELSE q[j - Len(p)]]
  BY DEF Part
<1> HIDE DEF p, q
<1>3. ASSUME NEW j \in 1..(m + n)
      PROVE  (IF j <= m THEN p[j] ELSE q[j - m]) = oldByte(covers, k + j)
  <2>1. CASE j <= m
    BY <1>1, <2>1
  <2>2. CASE ~(j <= m)
    <3>1. j - m \in 1..n /\ (k + m) + (j - m) = k + j
      BY <2>2
    <3> QED
      BY <1>1, <2>2, <3>1
  <2> QED
    BY <2>1, <2>2
<1>4. p \o q = [j \in 1..(m + n) |-> oldByte(covers, k + j)]
  BY <1>1, <1>2, <1>3, Zenon
<1> QED
  BY <1>4 DEF Part, p, q

(* Its length, and none of nothing.                                        *)
LEMMA PartBytes ==
  ASSUME NEW covers, NEW k \in Nat, NEW n \in Nat
  PROVE  /\ Len(Part(covers, k, n)) = n
         /\ \A j \in 1..n : Part(covers, k, n)[j] = oldByte(covers, k + j)
         /\ Part(covers, k, 0) = <<>>
BY DEF Part

(* An empty list is a chain from where it ends, and only there.            *)
LEMMA CoverChainEmpty ==
  ASSUME NEW covers, NEW data, NEW p \in Nat
  PROVE  CoverChain(covers, data, <<>>, p, p)
<1> DEFINE cut == [i \in 1..(Len(<<>>) + 1) |-> p]
<1>1. cut \in [1..(Len(<<>>) + 1) -> Nat] /\ cut[1] = p /\ cut[Len(<<>>) + 1] = p
  OBVIOUS
<1>2. \A i \in 1..Len(<<>>) : FALSE
  OBVIOUS
<1> QED
  BY <1>1, <1>2 DEF CoverChain

(* A chain does not run backwards, and is empty when it does not run.      *)
LEMMA CoverChainEnds ==
  ASSUME NEW covers, NEW data, NEW S, NEW list \in Seq(S), NEW p, NEW e,
         CoverChain(covers, data, list, p, e)
  PROVE  p \in Nat /\ e \in Nat /\ p <= e /\ (p = e <=> list = <<>>)
<1>1. PICK cut \in [1..(Len(list) + 1) -> Nat] :
        /\ cut[1] = p /\ cut[Len(list) + 1] = e
        /\ \A i \in 1..Len(list) : cut[i] < cut[i + 1] /\ cut[i + 1] <= e
  BY DEF CoverChain
<1>2. Len(list) \in Nat
  OBVIOUS
<1>3. p \in Nat /\ e \in Nat
  BY <1>1, <1>2
<1>4. CASE Len(list) = 0
  <2>1. list = <<>>
    BY <1>4
  <2> QED
    BY <1>1, <1>3, <1>4, <2>1
<1>5. CASE Len(list) # 0
  <2>1. 1 \in 1..Len(list) /\ list # <<>> /\ cut[2] \in Nat
    BY <1>2, <1>5
  <2>2. cut[1] < cut[1 + 1] /\ cut[1 + 1] <= e
    BY <1>1, <2>1
  <2> QED
    BY <1>1, <1>3, <2>1, <2>2
<1> QED
  BY <1>2, <1>4, <1>5

(* Pushing the buffer that holds the next bytes makes the chain longer.    *)
LEMMA CoverChainPush ==
  ASSUME NEW covers, NEW data, NEW S, NEW list \in Seq(S), NEW b \in S, NEW p, NEW e,
         NEW n \in Nat \ {0}, CoverChain(covers, data, list, p, e), data[b] = Part(covers, e, n)
  PROVE  CoverChain(covers, data, pushABufAtEnd(list, b), p, e + n)
<1> DEFINE r == pushABufAtEnd(list, b)
           k == Len(list)
<1>1. PICK cut \in [1..(k + 1) -> Nat] :
        /\ cut[1] = p /\ cut[k + 1] = e
        /\ \A i \in 1..k : /\ cut[i] < cut[i + 1] /\ cut[i + 1] <= e
                           /\ data[list[i]] = Part(covers, cut[i], cut[i + 1] - cut[i])
  BY DEF CoverChain
<1>2. k \in Nat /\ e \in Nat /\ Len(r) = k + 1 /\ r[k + 1] = b /\ \A i \in 1..k : r[i] = list[i]
  BY <1>1 DEF pushABufAtEnd
<1> HIDE DEF k, r
<1> DEFINE new == [i \in 1..(k + 2) |-> IF i = k + 2 THEN e + n ELSE cut[i]]
<1>3. /\ new \in [1..(k + 2) -> Nat] /\ new[1] = p /\ new[k + 2] = e + n /\ new[k + 1] = e
      /\ \A i \in 1..(k + 1) : new[i] = cut[i]
  BY <1>1, <1>2
<1> HIDE DEF new
<1>4. ASSUME NEW i \in 1..(k + 1)
      PROVE  /\ new[i] < new[i + 1] /\ new[i + 1] <= e + n
             /\ data[r[i]] = Part(covers, new[i], new[i + 1] - new[i])
  <2>1. CASE i = k + 1
    <3>1. new[i] = e /\ new[i + 1] = e + n /\ (e + n) - e = n
      BY <1>2, <1>3, <2>1
    <3> QED
      BY <1>2, <2>1, <3>1
  <2>2. CASE i \in 1..k
    <3>1. i \in 1..(k + 1) /\ i + 1 \in 1..(k + 1)
      BY <1>2, <2>2
    <3>2. new[i] = cut[i] /\ new[i + 1] = cut[i + 1] /\ cut[i] \in Nat /\ cut[i + 1] \in Nat
      BY <1>3, <3>1
    <3>3. /\ cut[i] < cut[i + 1] /\ cut[i + 1] <= e
          /\ data[list[i]] = Part(covers, cut[i], cut[i + 1] - cut[i])
      BY <1>1, <2>2
    <3>4. cut[i + 1] <= e + n
      BY <1>2, <3>2, <3>3
    <3> QED
      BY <1>2, <2>2, <3>2, <3>3, <3>4
  <2> QED
    BY <1>2, <2>1, <2>2
<1>5. /\ Len(r) + 1 = k + 2 /\ new \in [1..(Len(r) + 1) -> Nat]
  BY <1>2, <1>3
<1> QED
  BY <1>2, <1>3, <1>4, <1>5, ZenonT(60) DEF CoverChain, r

(* Its first buffer holds the first bytes, and the rest is a chain.        *)
LEMMA CoverChainPop ==
  ASSUME NEW covers, NEW data, NEW S, NEW list \in Seq(S), NEW p, NEW e,
         CoverChain(covers, data, list, p, e), list # <<>>
  PROVE  \E n \in Nat \ {0} : /\ data[Head(list)] = Part(covers, p, n) /\ p + n <= e
                             /\ CoverChain(covers, data, Tail(list), p + n, e)
<1> DEFINE k == Len(list)
           r == Tail(list)
<1>1. PICK cut \in [1..(k + 1) -> Nat] :
        /\ cut[1] = p /\ cut[k + 1] = e
        /\ \A i \in 1..k : /\ cut[i] < cut[i + 1] /\ cut[i + 1] <= e
                           /\ data[list[i]] = Part(covers, cut[i], cut[i + 1] - cut[i])
  BY DEF CoverChain
<1>2. /\ k \in Nat \ {0} /\ Len(r) = k - 1 /\ Head(list) = list[1]
      /\ \A i \in 1..(k - 1) : r[i] = list[i + 1]
  OBVIOUS
<1> HIDE DEF k, r
<1>3. /\ 1 \in 1..k /\ cut[1] \in Nat /\ cut[2] \in Nat /\ e \in Nat
  BY <1>1, <1>2
<1>4. /\ cut[1] < cut[1 + 1] /\ cut[1 + 1] <= e
      /\ data[list[1]] = Part(covers, cut[1], cut[1 + 1] - cut[1])
  BY <1>1, <1>3
<1>a. 1 + 1 = 2
  OBVIOUS
<1> DEFINE n == cut[2] - cut[1]
           new == [i \in 1..k |-> cut[i + 1]]
<1>5. /\ n \in Nat \ {0} /\ p + n = cut[2] /\ p + n <= e /\ data[Head(list)] = Part(covers, p, n)
  <2>1. cut[1] < cut[2] /\ cut[2] <= e /\ data[list[1]] = Part(covers, cut[1], n)
    BY <1>4, <1>a
  <2>2. n \in Nat \ {0} /\ p + n = cut[2] /\ p + n <= e
    BY <1>1, <1>3, <2>1, SMTT(30)
  <2> QED
    BY <1>1, <1>2, <2>1, <2>2
<1>6. /\ new \in [1..k -> Nat] /\ new[1] = p + n /\ new[k] = e
      /\ \A i \in 1..k : new[i] = cut[i + 1]
  BY <1>1, <1>2, <1>5, SMTT(30)
<1> HIDE DEF n, new
<1>7. ASSUME NEW i \in 1..(k - 1)
      PROVE  /\ new[i] < new[i + 1] /\ new[i + 1] <= e
             /\ data[r[i]] = Part(covers, new[i], new[i + 1] - new[i])
  <2>1. i + 1 \in 1..k /\ new[i] = cut[i + 1] /\ new[i + 1] = cut[(i + 1) + 1] /\ r[i] = list[i + 1]
    BY <1>2, <1>6
  <2> QED
    BY <1>1, <2>1
<1>8. Len(r) + 1 = k /\ Len(r) = k - 1
  BY <1>2
<1>9. CoverChain(covers, data, r, p + n, e)
  BY <1>6, <1>7, <1>8 DEF CoverChain
<1> QED
  BY <1>5, <1>9 DEF r

(* A chain is about the bytes of its own buffers only.                     *)
LEMMA CoverChainFrame ==
  ASSUME NEW covers, NEW data, NEW new, NEW S, NEW list \in Seq(S), NEW p, NEW e,
         CoverChain(covers, data, list, p, e), \A b : InList(b, list) => new[b] = data[b]
  PROVE  CoverChain(covers, new, list, p, e)
<1>1. \A i \in 1..Len(list) : new[list[i]] = data[list[i]]
  BY DEF InList
<1> QED
  BY <1>1, SMTT(30) DEF CoverChain

---------------------------------------------------------------------------
(* The state of the old cache *)

(* Its variables, under one name each.                                     *)
hFree == freeBufList[Old]
hData == dataBufList[Old]
hErr == baseOnError[Old]
hWaiters == waiters[Old]
hPc == pc[Old]
hBuf == wbuf[Old]
hTErr == tErr[Old]
hBytes == bufData[Old]
hCur == curDataBuf[Old]
hPos == curDataBuf_pos[Old]
hRpc == rpc[Old]
hLeft == left[Old]
hRErr == rErr[Old]
hOut == outData[Old]
hPosted == covers_cache[Old]
hLeave == leaveCoverCount[Old]
hStep == stepNo[Old]
hNo == coverNo[Old]
hAt == coverPos[Old]
hLen == coverLen[Old]
hHeard == heard[Old]

(* The covers that the worker decodes, and those that the patcher is at.   *)
coversIn(d, s) == IF s = 0 THEN <<>> ELSE d[s]
hCovers == coversIn(Steps, hStep)
CoversNow == coversIn(Steps, step)

(* Where the main thread is.                                               *)
inStep == mpc \in {"cover", "gap", "old", "write"}
atStep == mpc \in {"info", "reset", "data", "post"}
atEnd  == mpc \in {"finish", "closing", "returned"}
on     == ~(atEnd /\ ~result)

(* How much of the covers of its step the worker has put into buffers, and *)
(* how much of those the patcher has taken out.                            *)
made == ends(hCovers)[hNo] - hLen
used == ends(CoversNow)[cover] - oldLeft + (IF hRpc = "idle" THEN 0 ELSE Len(hOut))
taken == IF inStep /\ hStep = step THEN used ELSE total(hCovers)

(* Types                                                                   *)
OldTypes ==
  /\ hFree \in Seq(Bufs) /\ hData \in Seq(Bufs) /\ hWaiters \subseteq {Worker, Caller}
  /\ hErr \in BOOLEAN /\ hTErr \in BOOLEAN /\ hRErr \in BOOLEAN
  /\ hBuf \in Bufs \union {NoBuf} /\ hCur \in Bufs \union {NoBuf}
  /\ hBytes \in [Bufs -> Seq(Nat)] /\ \A b \in Bufs : Len(hBytes[b]) <= WorkBufSize
  /\ hPos \in Nat /\ hLeft \in Nat /\ hOut \in Seq(Nat)
  /\ hCur # NoBuf => hPos <= Len(hBytes[hCur])
  /\ hPosted \in 0..Len(Steps) /\ hLeave \in Nat /\ hStep \in 0..Len(Steps)
  /\ hNo \in 0..Len(hCovers) /\ hAt \in Nat /\ hLen \in Nat

(* The main thread, and the covers that it has found good.                 *)
GoodCover(s, i) == Steps[s][i].length = 0 => s = Len(Steps) /\ i = Len(Steps[s])
MainInv ==
  /\ Steps \in Diffs
  /\ step \in 0..Len(Steps) /\ cover \in Nat /\ oldLeft \in Nat /\ result \in BOOLEAN
  /\ mpc \in {"open", "decOpen"} => step = 0
  /\ atStep => step # 0 /\ cover = 0
  /\ inStep => step # 0 /\ cover <= Len(Steps[step])
  /\ mpc \in {"gap", "old", "write"} => cover # 0 /\ oldLeft <= curCover.length
  /\ mpc = "gap" \/ (mpc = "write" /\ back = "gap") => oldLeft = curCover.length
  /\ mpc = "write" => back \in {"gap", "old"}
  /\ mpc \notin {"gap", "old", "write"} /\ ~atEnd => oldLeft = 0 /\ ~result
  /\ mpc \in {"gap", "old", "write"} => ~result
  /\ mpc \in {"last", "lastPost"} \/ (atEnd /\ result) => step = Len(Steps)
  /\ hRpc # "idle" => mpc = "old" /\ oldLeft > 0
GoodInv ==
  ~atEnd =>
    \A s \in 1..step : \A i \in 1..Len(Steps[s]) :
      \/ GoodCover(s, i)
      \/ s = step /\ (atStep \/ (inStep /\ i > cover))
      \/ s = step /\ i = cover /\ (mpc = "gap" \/ (mpc = "write" /\ back = "gap"))

(* What the program counters say about the rest.                           *)
Resting == hPc \in {"none", "loop", "getCovers", "waitCovers"}
OldPhases ==
  /\ hPc \in {"fresh", "read", "push"} => hBuf # NoBuf
  /\ Resting \/ hPc \in {"hear", "getBuf", "waitBuf"} => hBuf = NoBuf
  /\ Resting \/ hPc \in {"hear", "cover"} \/ (hPc = "stepEnd" /\ ~hErr) => hLen = 0
  /\ Resting \/ (hPc = "stepEnd" /\ ~hErr) => hNo = Len(hCovers)
  /\ hPc = "hear" => hNo = 0
  /\ hPc \in {"getBuf", "waitBuf", "fresh", "read"} => hLen > 0
  /\ hErr => hPc \in {"setMtErr", "stepEnd", "end", "done"}
  /\ hPc = "setMtErr" => hErr
  /\ hTErr = hErr
  /\ hRpc \in {"getBuf", "waitBuf"} => hCur = NoBuf /\ hLeft > 0 /\ ~hRErr
  /\ hRpc = "release" => hCur # NoBuf
  /\ hCur = NoBuf => hPos = 0
  /\ on /\ hRErr => hRpc \in {"loop", "fail"}
  /\ Worker \in hWaiters => hPc \in {"waitBuf", "waitCovers"}
  /\ Caller \in hWaiters => hRpc = "waitBuf"

(* Nobody sleeps over what it waits for.                                   *)
SleepInv ==
  /\ Worker \in hWaiters => IF hPc = "waitBuf" THEN hFree = <<>> ELSE hPosted = 0
  /\ Caller \in hWaiters => hData = <<>>
  /\ hWaiters # {Worker, Caller}

(* The step that the worker is at, and the one that is posted.  A last     *)
(* step that reads no old data (Bare) may still be posted when the patcher *)
(* is through with it, and be overwritten by null then (Missed).           *)
NullTaken == hStep = 0 /\ hLeave = 0 /\ hPc \in {"hear", "end", "done"}
Bare == Len(Steps) # 0 /\ ~readsOld(Len(Steps)) /\ total(Steps[Len(Steps)]) = 0
Untaken == Bare /\ hPosted = Len(Steps) /\ hStep = Len(Steps) - 1
Missed == Bare /\ hPosted = 0 /\ hStep = Len(Steps) - 1 /\ hLeave = 0 /\ atEnd
SyncInv ==
  /\ hLeave = 0 => /\ mpc = "lastPost" \/ atEnd
                   /\ \/ hPosted = 0 /\ (hStep = Len(Steps) \/ NullTaken)
                      \/ Untaken \/ Missed
  /\ hPosted # 0 => hPosted = hStep + 1
  /\ atEnd /\ result => hLeave = 0
  /\ on => \/ hPosted = 0 /\ hStep = IF atStep THEN step - 1 ELSE step
           \/ hPosted = step /\ inStep /\ hStep = step - 1 /\ used = 0
           \/ Untaken /\ step = Len(Steps) /\ mpc \in {"step", "last", "lastPost"}
           \/ Missed
           \/ hPosted = 0 /\ NullTaken

(* The bytes on their way from the worker to the patcher.                  *)
InCur(a) ==
  /\ taken <= a /\ a <= made
  /\ hCur = NoBuf => a = taken
  /\ hCur # NoBuf => /\ Len(hBytes[hCur]) = hPos + (a - taken)
                     /\ \A k \in 1..(a - taken) : hBytes[hCur][hPos + k] = oldByte(hCovers, taken + k)
                     /\ (a = taken) <=> (hRpc = "release")
InData(a, b) == CoverChain(hCovers, hBytes, hData, a, b)
InBuf(b) ==
  /\ b <= made
  /\ hBuf = NoBuf \/ hPc = "fresh" => b = made
  /\ hBuf # NoBuf /\ hPc # "fresh" => hBytes[hBuf] = Part(hCovers, b, made - b)
  /\ hBuf # NoBuf /\ hPc \in {"cover", "buf", "push", "stepEnd"} => b < made
  /\ hPc \in {"read", "buf", "cover"} /\ hBuf # NoBuf => made - b < WorkBufSize
DataInv ==
  on /\ ~hRErr => \E a \in Nat : /\ InCur(a)
                                 /\ ~hErr => \E b \in Nat : InData(a, b) /\ InBuf(b)
CoverInv ==
  IF hNo = 0 THEN hLen = 0
  ELSE /\ hLen <= hCovers[hNo].length
       /\ hAt = hCovers[hNo].oldPos + (hCovers[hNo].length - hLen)
ReadInv ==
  hRpc # "idle" => /\ Len(hOut) + hLeft = oldRead
                   /\ hOut = Run(oldReadPos, Len(hOut))
                   /\ hRpc = "ok" => hLeft = 0
                   /\ hRpc = "release" => Len(hOut) > 0

(* The covers that are still to be decoded or reported are in step_cache.  *)
MemInv ==
  /\ hPosted # 0 => stepMem = hPosted
  /\ hStep # 0 /\ (hPc = "hear" \/ hNo < Len(hCovers)) => hPc \in {"end", "done"} \/ stepMem = hStep
  /\ mpc \in {"data", "post"} => stepMem = step

(* What the listener has heard.                                            *)
HeardInv ==
  IF NullTaken
  THEN \E n \in 0..Len(Steps) :
         /\ allHeard(n)
         /\ \/ hHeard = Run(1, n)
            \/ hHeard = Append(Run(1, n), 0) /\ hPc \in {"end", "done"}
  ELSE IF hPc = "hear" THEN hStep # 0 /\ hHeard = Run(1, hStep - 1)
       ELSE hHeard = Run(1, hStep)

(* Every buffer has one owner.                                             *)
OwnInv ==
  /\ NoRepeat(hFree) /\ NoRepeat(hData)
  /\ \A b \in Bufs :
       /\ ~(InList(b, hFree) /\ InList(b, hData))
       /\ b = hBuf => ~InList(b, hFree) /\ ~InList(b, hData) /\ b # hCur
       /\ b = hCur => ~InList(b, hFree) /\ ~InList(b, hData)
       /\ InList(b, hFree) \/ InList(b, hData) \/ b = hBuf \/ b = hCur

OldInv == /\ OldTypes /\ MainInv /\ GoodInv /\ OldPhases /\ SleepInv /\ SyncInv /\ DataInv
          /\ CoverInv /\ ReadInv /\ MemInv /\ HeardInv /\ OwnInv

---------------------------------------------------------------------------
(* The steps, as far as the old cache is concerned *)

callView == <<hCur, hPos, hRpc, hLeft, hRErr, hOut>>
listView == <<hFree, hData, hBuf, hBytes>>
postView == <<hPosted, hLeave>>
coverView == <<hStep, hNo, hAt, hLen>>
errView == <<hErr, hTErr>>
workerView == <<listView, postView, coverView, errView, hPc, hHeard>>
mainView == <<mpc, step, cover, oldLeft, back, stepMem, result>>

Signalled ==
  \/ hWaiters = {} /\ UNCHANGED hWaiters
  \/ \E t \in hWaiters : hWaiters' = hWaiters \ {t}

(* What the worker reads into its buffer, and the caller copies out of its *)
(* own, in one go.                                                         *)
hRoom == WorkBufSize - Len(hBytes[hBuf])
hReads == IF hRoom > hLen THEN hLen ELSE hRoom
hHas == Len(hBytes[hCur]) - hPos
hCopies == IF hHas < hLeft THEN hHas ELSE hLeft

(* The worker.                                                             *)
WorkerGoesOn ==
  /\ \/ hPc = "loop" /\ hPc' \in {"end", "getCovers"}
     \/ hPc = "getCovers" /\ hErr /\ hPc' = "end"
     \/ hPc = "waitCovers" /\ Worker \notin hWaiters /\ hPc' = "loop"
     \/ hPc = "cover" /\ hNo = Len(hCovers) /\ hPc' = "stepEnd"
     \/ hPc = "buf" /\ hLen = 0 /\ hPc' = IF hTErr THEN "stepEnd" ELSE "cover"
     \/ hPc = "buf" /\ hLen # 0 /\ hPc' = IF hBuf = NoBuf THEN "getBuf" ELSE "read"
     \/ hPc = "read" /\ hPc' = "setErr"
     \/ hPc = "stepEnd" /\ hBuf = NoBuf /\ hPc' = IF hTErr THEN "end" ELSE "loop"
     \/ hPc = "end" /\ hPc' = "done"
  /\ UNCHANGED <<listView, postView, coverView, errView, hWaiters, hHeard>>
WorkerTakesCovers ==
  /\ hPc = "getCovers" \/ (hPc = "waitCovers" /\ Worker \notin hWaiters)
  /\ hPosted # 0 \/ hLeave = 0
  /\ hPosted' = 0 /\ hStep' = hPosted /\ hNo' = 0 /\ hPc' = "hear"
  /\ UNCHANGED <<listView, errView, hLeave, hAt, hLen, hWaiters, hHeard>>
WorkerWaits ==
  /\ \/ hPc = "getCovers" /\ hPosted = 0 /\ hPc' = "waitCovers"
     \/ hPc = "getBuf" /\ hFree = <<>> /\ hPc' = "waitBuf"
  /\ ~hErr
  /\ hWaiters' = hWaiters \union {Worker}
  /\ UNCHANGED <<listView, postView, coverView, errView, hHeard>>
WorkerHears ==
  /\ hPc = "hear"
  /\ hHeard' = Append(hHeard, hStep) /\ hTErr' = FALSE
  /\ hPc' = IF hStep = 0 THEN "end" ELSE "cover"
  /\ UNCHANGED <<listView, postView, coverView, hErr, hWaiters>>
WorkerDecodes ==
  /\ hPc = "cover" /\ hNo < Len(hCovers)
  /\ hNo' = hNo + 1 /\ hAt' = hCovers[hNo + 1].oldPos /\ hLen' = hCovers[hNo + 1].length
  /\ hPc' \in {"buf", "setErr"}
  /\ UNCHANGED <<listView, postView, hStep, errView, hWaiters, hHeard>>
WorkerTakesBuf ==
  /\ hPc = "getBuf" \/ (hPc = "waitBuf" /\ Worker \notin hWaiters)
  /\ hBuf' = firstBuf(hFree) /\ hFree' = restBufs(hFree) /\ hTErr' = hErr
  /\ hPc' = IF hBuf' # NoBuf /\ ~hErr THEN "fresh" ELSE IF hErr THEN "stepEnd" ELSE "buf"
  /\ UNCHANGED <<hData, hBytes, postView, coverView, hErr, hWaiters, hHeard>>
WorkerEmpties ==
  /\ hPc = "fresh" /\ hPc' = "read"
  /\ hBytes' = [hBytes EXCEPT ![hBuf] = <<>>]
  /\ UNCHANGED <<hFree, hData, hBuf, postView, coverView, errView, hWaiters, hHeard>>
WorkerReadsOld ==
  /\ hPc = "read"
  /\ hBytes' = [hBytes EXCEPT ![hBuf] = @ \o Run(hAt, hReads)]
  /\ hAt' = hAt + hReads /\ hLen' = hLen - hReads
  /\ hPc' = IF hReads = hRoom THEN "push" ELSE "buf"
  /\ UNCHANGED <<hFree, hData, hBuf, postView, hStep, hNo, errView, hWaiters, hHeard>>
WorkerPushes ==
  /\ hPc = "push" \/ (hPc = "stepEnd" /\ hBuf # NoBuf)
  /\ hData' = pushABufAtEnd(hData, hBuf) /\ hBuf' = NoBuf /\ hTErr' = hErr
  /\ Signalled
  /\ hPc' = IF hPc = "push" THEN "buf" ELSE IF hErr THEN "end" ELSE "loop"
  /\ UNCHANGED <<hFree, hBytes, postView, coverView, hErr, hHeard>>
WorkerFails ==
  /\ \/ hPc = "setErr" /\ hPc' = "setMtErr" /\ hErr' = TRUE /\ hTErr' = TRUE /\ hWaiters' = {}
     \/ hPc = "setMtErr" /\ hPc' = "stepEnd" /\ UNCHANGED errView /\ hWaiters' \subseteq hWaiters
  /\ UNCHANGED <<listView, postView, coverView, hHeard>>
OldWorks ==
  \/ WorkerGoesOn \/ WorkerTakesCovers \/ WorkerWaits \/ WorkerHears \/ WorkerDecodes
  \/ WorkerTakesBuf \/ WorkerEmpties \/ WorkerReadsOld \/ WorkerPushes \/ WorkerFails

(* The patcher within read().                                              *)
CallGoesOn ==
  /\ hRpc = "loop"
  /\ \/ hRErr /\ hRpc' = "fail" /\ UNCHANGED hRErr
     \/ ~hRErr /\ hLeft = 0 /\ hRpc' = "ok" /\ UNCHANGED hRErr
     \/ ~hRErr /\ hLeft > 0 /\ hCur = NoBuf /\ hRpc' = "fail" /\ hRErr' = TRUE
     \/ ~hRErr /\ hLeft > 0 /\ hCur = NoBuf /\ hRpc' = "getBuf" /\ hRErr' = FALSE
  /\ UNCHANGED <<workerView, hWaiters, hCur, hPos, hLeft, hOut>>
CallTakes ==
  /\ hRpc = "getBuf" \/ (hRpc = "waitBuf" /\ Caller \notin hWaiters)
  /\ hCur' = firstBuf(hData) /\ hData' = restBufs(hData) /\ hRErr' = hErr /\ hRpc' = "loop"
  /\ UNCHANGED <<hFree, hBuf, hBytes, postView, coverView, errView, hPc, hHeard, hWaiters,
                 hPos, hLeft, hOut>>
CallWaits ==
  /\ hRpc = "getBuf" /\ hRpc' = "waitBuf"
  /\ hData = <<>> /\ ~hErr
  /\ hWaiters' = hWaiters \union {Caller}
  /\ UNCHANGED <<workerView, hCur, hPos, hLeft, hRErr, hOut>>
CallCopies ==
  /\ hRpc = "loop" /\ ~hRErr /\ hLeft > 0 /\ hCur # NoBuf
  /\ hOut' = hOut \o SubSeq(hBytes[hCur], hPos + 1, hPos + hCopies)
  /\ hPos' = hPos + hCopies /\ hLeft' = hLeft - hCopies
  /\ hRpc' = IF hCopies = hHas THEN "release" ELSE "loop"
  /\ UNCHANGED <<workerView, hWaiters, hCur, hRErr>>
CallReleases ==
  /\ hRpc = "release" /\ hRpc' = "loop"
  /\ hFree' = pushABufAtHead(hFree, hCur)
  /\ Signalled
  /\ hRErr' = hErr /\ hCur' = NoBuf /\ hPos' = 0
  /\ UNCHANGED <<hData, hBuf, hBytes, postView, coverView, errView, hPc, hHeard, hLeft, hOut>>
OldIsRead == CallGoesOn \/ CallTakes \/ CallWaits \/ CallCopies \/ CallReleases

(* The main thread, where it touches the old cache.                        *)
MainOpens ==
  /\ hPc = "none" /\ hPc' = "loop"
  /\ UNCHANGED <<mainView, listView, postView, coverView, errView, hHeard, hWaiters, callView>>
MainAsks ==
  /\ mpc = "old" /\ oldLeft > 0 /\ hRpc = "idle"
  /\ hRpc' = "loop" /\ hLeft' = oldRead /\ hRErr' = FALSE /\ hOut' = <<>>
  /\ UNCHANGED <<mainView, workerView, hWaiters, hCur, hPos>>
MainGets ==
  /\ mpc = "old" /\ oldLeft > 0 /\ hRpc \in {"ok", "fail"} /\ hRpc' = "idle"
  /\ \/ /\ hRpc = "ok" /\ mpc' = "write" /\ back' = "old" /\ oldLeft' = oldLeft - oldRead
        /\ UNCHANGED result
     \/ mpc' = "finish" /\ result' = FALSE /\ UNCHANGED <<oldLeft, back>>
  /\ UNCHANGED <<step, cover, stepMem, workerView, hWaiters, hCur, hPos, hLeft, hRErr, hOut>>
MainResets ==
  /\ mpc = "reset" /\ mpc' = "data" /\ stepMem' = step
  /\ hLeave' \in {hLeave, coversLeft(step)}
  /\ UNCHANGED <<step, cover, oldLeft, back, result, listView, hPosted, coverView, errView, hPc,
                 hHeard, hWaiters, callView>>
MainPosts ==
  /\ mpc = "post" /\ mpc' = "cover"
  /\ hPosted' = step /\ hLeave' = IF step = 0 THEN 0 ELSE hLeave
  /\ Signalled
  /\ UNCHANGED <<step, cover, oldLeft, back, stepMem, result, listView, coverView, errView, hPc,
                 hHeard, callView>>
MainEnds ==
  /\ \/ mpc = "last" /\ mpc' = "lastPost" /\ hLeave' \in {hLeave, 0}
        /\ UNCHANGED <<result, hPosted, hWaiters>>
     \/ mpc = "lastPost" /\ mpc' = "finish" /\ result' \in BOOLEAN
        /\ hPosted' = 0 /\ hLeave' = 0 /\ Signalled
  /\ UNCHANGED <<step, cover, oldLeft, back, stepMem, listView, coverView, errView, hPc,
                 hHeard, callView>>
MainUsesOld == MainOpens \/ MainAsks \/ MainGets \/ MainResets \/ MainPosts \/ MainEnds

(* The main thread, where it does not.                                     *)
MainFailsAnywhere ==
  /\ mpc # "old" /\ ~atEnd /\ mpc' = "finish" /\ result' = FALSE
  /\ UNCHANGED <<step, cover, oldLeft, back, stepMem>>
MainStarts ==
  /\ \/ mpc = "open" /\ mpc' = "decOpen"
     \/ mpc = "decOpen" /\ mpc' \in {"step", "returned"}
  /\ UNCHANGED <<step, cover, oldLeft, back, stepMem, result>>
MainGoesToStep ==
  /\ mpc = "step" /\ cover' = 0
  /\ \/ step < Len(Steps) /\ step' = step + 1 /\ mpc' = "info"
     \/ step = Len(Steps) /\ mpc' = "last" /\ UNCHANGED step
  /\ UNCHANGED <<oldLeft, back, stepMem, result>>
MainDecodes ==
  /\ (mpc = "info" /\ mpc' = "reset") \/ (mpc = "data" /\ mpc' = "post")
  /\ UNCHANGED <<step, cover, oldLeft, back, stepMem, result>>
MainNextCover ==
  /\ mpc = "cover"
  /\ \/ cover = Len(Steps[step]) /\ mpc' = "step" /\ UNCHANGED <<cover, oldLeft>>
     \/ /\ cover < Len(Steps[step]) /\ cover' = cover + 1
        /\ oldLeft' = Steps[step][cover + 1].length /\ mpc' = "gap"
  /\ UNCHANGED <<step, back, stepMem, result>>
MainCopies ==
  /\ \/ mpc = "gap" /\ mpc' = "write" /\ back' = "gap"
     \/ mpc = "gap" /\ coverOK /\ mpc' = "old" /\ UNCHANGED back
     \/ mpc = "old" /\ oldLeft = 0 /\ mpc' = "cover" /\ UNCHANGED back
     \/ mpc = "write" /\ mpc' = back /\ UNCHANGED back
  /\ UNCHANGED <<step, cover, oldLeft, stepMem, result>>
MainCloses ==
  /\ (mpc = "finish" /\ mpc' = "closing") \/ (mpc = "closing" /\ mpc' = "returned")
  /\ UNCHANGED <<step, cover, oldLeft, back, stepMem, result>>
MainAlone ==
  \/ MainFailsAnywhere \/ MainStarts \/ MainGoesToStep \/ MainDecodes \/ MainNextCover
  \/ MainCopies \/ MainCloses

(* A step that leaves the old cache alone, but for a broadcast.            *)
OldStill == UNCHANGED <<workerView, callView>> /\ hWaiters' \subseteq hWaiters

OldStep ==
  \/ OldWorks /\ UNCHANGED <<callView, mainView>>
  \/ OldIsRead /\ UNCHANGED mainView
  \/ MainUsesOld
  \/ OldStill /\ (MainAlone \/ UNCHANGED mainView)

---------------------------------------------------------------------------
(* Every step is one of these *)

(* The arrays of hpatch_mt_base_t and of the readers are by component.     *)
Shape ==
  /\ isOnError \in BOOLEAN
  /\ DOMAIN freeBufList = Comp /\ DOMAIN dataBufList = Comp /\ DOMAIN baseOnError = Comp
  /\ DOMAIN waiters = Comp /\ DOMAIN pc = Comp /\ DOMAIN wbuf = Comp /\ DOMAIN tErr = Comp
  /\ DOMAIN bufData = Comp /\ DOMAIN curDataBuf = Comp /\ DOMAIN curDataBuf_pos = Comp
  /\ DOMAIN rpc = Comp /\ DOMAIN left = Comp /\ DOMAIN rErr = Comp /\ DOMAIN outData = Comp
  /\ DOMAIN covers_cache = HCaches /\ DOMAIN leaveCoverCount = HCaches
  /\ DOMAIN stepNo = HCaches /\ DOMAIN coverNo = HCaches /\ DOMAIN coverPos = HCaches
  /\ DOMAIN coverLen = HCaches /\ DOMAIN heard = HCaches

(* The signal of the old cache's own condition variable.                   *)
LEMMA OldSignal ==
  ASSUME Old \in Comp, DOMAIN waiters = Comp, Signal(Old)
  PROVE  Signalled /\ DOMAIN waiters' = Comp
BY DEF Signal, Signalled, hWaiters

(* hcache_old_thread_ makes the worker's steps.                            *)
LEMMA CacheWorkerIsOld ==
  ASSUME Old \in Comp, Shape, CacheWorker(Old)
  PROVE  Shape' /\ OldWorks /\ UNCHANGED <<Steps, callView>>
<1> USE DEF hFree, hData, hErr, hWaiters, hPc, hBuf, hTErr, hBytes, hCur, hPos, hRpc, hLeft, hRErr,
            hOut, hPosted, hLeave, hStep, hNo, hAt, hLen, hHeard, listView, postView, coverView,
            errView, callView, mtVars, listVars, readerVars, hcacheVars
<1>0. Old \in HCaches
  BY Kinds
<1>1. CASE CacheLoop(Old)
  <2>1. WorkerGoesOn /\ UNCHANGED <<Steps, callView>>
    BY <1>1 DEF CacheLoop, WorkerGoesOn, Shape
  <2>2. Shape'
    BY <1>1 DEF CacheLoop, Shape
  <2> QED
    BY <2>1, <2>2 DEF OldWorks
<1>2. CASE CacheGetCovers(Old)
  <2>1. WorkerTakesCovers /\ UNCHANGED <<Steps, callView>>
    BY <1>0, <1>2 DEF CacheGetCovers, TakeCovers, gotCovers, WorkerTakesCovers, Shape
  <2>2. Shape'
    BY <1>2 DEF CacheGetCovers, TakeCovers, Shape
  <2> QED
    BY <2>1, <2>2 DEF OldWorks
<1>3. CASE CacheNoCovers(Old)
  <2>1. WorkerGoesOn \/ WorkerWaits
    BY <1>0, <1>3 DEF CacheNoCovers, gotCovers, WaitOn, WorkerGoesOn, WorkerWaits, Shape
  <2>2. Shape' /\ UNCHANGED <<Steps, callView>>
    BY <1>3 DEF CacheNoCovers, WaitOn, Shape
  <2> QED
    BY <2>1, <2>2 DEF OldWorks
<1>4. CASE CacheWakeCovers(Old)
  <2>1. CASE gotCovers(Old) /\ TakeCovers(Old)
    <3>1. WorkerTakesCovers /\ UNCHANGED <<Steps, callView>>
      BY <1>0, <1>4, <2>1 DEF CacheWakeCovers, TakeCovers, gotCovers, WorkerTakesCovers, Shape
    <3>2. Shape'
      BY <2>1 DEF TakeCovers, Shape
    <3> QED
      BY <3>1, <3>2 DEF OldWorks
  <2>2. CASE ~gotCovers(Old)
    <3>1. WorkerGoesOn /\ UNCHANGED <<Steps, callView>>
      BY <1>4, <2>2 DEF CacheWakeCovers, WorkerGoesOn, Shape
    <3>2. Shape'
      BY <1>4, <2>2 DEF CacheWakeCovers, Shape
    <3> QED
      BY <3>1, <3>2 DEF OldWorks
  <2> QED
    BY <1>4, <2>1, <2>2 DEF CacheWakeCovers
<1>5. CASE CacheHear(Old)
  <2>1. WorkerHears /\ UNCHANGED <<Steps, callView>>
    BY <1>0, <1>5 DEF CacheHear, WorkerHears, Shape
  <2>2. Shape'
    BY <1>5 DEF CacheHear, Shape
  <2> QED
    BY <2>1, <2>2 DEF OldWorks
<1>6. CASE CacheNextCover(Old)
  <2>0. coversOf(Old) = hCovers
    BY DEF coversOf, hCovers, coversIn
  <2>1. WorkerGoesOn \/ WorkerDecodes
    BY <1>0, <1>6, <2>0 DEF CacheNextCover, WorkerGoesOn, WorkerDecodes, Shape
  <2>2. Shape' /\ UNCHANGED <<Steps, callView>>
    BY <1>6 DEF CacheNextCover, Shape
  <2> QED
    BY <2>1, <2>2 DEF OldWorks
<1>7. CASE CacheBufLoop(Old)
  <2>1. WorkerGoesOn /\ UNCHANGED <<Steps, callView>>
    BY <1>7 DEF CacheBufLoop, WorkerGoesOn, Shape
  <2>2. Shape'
    BY <1>7 DEF CacheBufLoop, Shape
  <2> QED
    BY <2>1, <2>2 DEF OldWorks
<1>8. CASE CacheGetBuf(Old) \/ CacheWakeBuf(Old)
  <2>1. /\ hPc = "getBuf" \/ (hPc = "waitBuf" /\ Worker \notin hWaiters)
        /\ TakeFree(Old, "fresh", noBufNext(Old)) /\ UNCHANGED <<readerVars, hcacheVars>>
    BY <1>8 DEF CacheGetBuf, CacheWakeBuf, WorkerGetFree, WorkerWakeFree
  <2>2. WorkerTakesBuf /\ UNCHANGED <<Steps, callView>>
    BY <2>1 DEF TakeFree, WorkerTakesBuf, noBufNext, Shape
  <2>3. Shape'
    BY <2>1 DEF TakeFree, Shape
  <2> QED
    BY <2>2, <2>3 DEF OldWorks
<1>9. CASE CacheWaitBuf(Old)
  <2>1. WorkerWaits /\ UNCHANGED <<Steps, callView>>
    BY <1>9 DEF CacheWaitBuf, WorkerWaitFree, mustWait, WaitOn, WorkerWaits, Shape
  <2>2. Shape'
    BY <1>9 DEF CacheWaitBuf, WorkerWaitFree, WaitOn, Shape
  <2> QED
    BY <2>1, <2>2 DEF OldWorks
<1>10. CASE CacheFreshBuf(Old)
  <2>1. WorkerEmpties /\ UNCHANGED <<Steps, callView>>
    BY <1>10 DEF CacheFreshBuf, WorkerEmpties, Shape
  <2>2. Shape'
    BY <1>10 DEF CacheFreshBuf, Shape
  <2> QED
    BY <2>1, <2>2 DEF OldWorks
<1>11. ASSUME NEW ok \in {TRUE, ~Fails}, CacheReadOld(Old, ok)
       PROVE  Shape' /\ OldWorks /\ UNCHANGED <<Steps, callView>>
  <2>1. CASE ok
    <3>1. WorkerReadsOld /\ UNCHANGED <<Steps, callView>>
      BY <1>0, <1>11, <2>1, ZenonT(60) DEF CacheReadOld, WorkerReadsOld, hReads, hRoom, Shape
    <3>2. Shape'
      BY <1>11, <2>1 DEF CacheReadOld, Shape
    <3> QED
      BY <3>1, <3>2 DEF OldWorks
  <2>2. CASE ~ok
    <3>1. WorkerGoesOn /\ UNCHANGED <<Steps, callView>>
      BY <1>11, <2>2 DEF CacheReadOld, WorkerGoesOn, Shape
    <3>2. Shape'
      BY <1>11, <2>2 DEF CacheReadOld, Shape
    <3> QED
      BY <3>1, <3>2 DEF OldWorks
  <2> QED
    BY <2>1, <2>2
<1>12. ASSUME WorkerPushData(Old, IF hPc = "push" THEN "buf" ELSE IF hErr THEN "end" ELSE "loop"),
              hPc = "push" \/ (hPc = "stepEnd" /\ hBuf # NoBuf), UNCHANGED <<readerVars, hcacheVars>>
       PROVE  Shape' /\ OldWorks /\ UNCHANGED <<Steps, callView>>
  <2>1. Signalled /\ DOMAIN waiters' = Comp
    BY <1>12, OldSignal DEF WorkerPushData, Shape
  <2>2. WorkerPushes /\ UNCHANGED <<Steps, callView>>
    BY <1>12, <2>1 DEF WorkerPushData, WorkerPushes, Shape
  <2>3. Shape'
    BY <1>12, <2>1 DEF WorkerPushData, Shape
  <2> QED
    BY <2>2, <2>3 DEF OldWorks
<1>13. CASE CachePush(Old)
  BY <1>12, <1>13 DEF CachePush
<1>14. CASE CacheStepEnd(Old)
  <2>1. CASE wbuf[Old] # NoBuf
    BY <1>12, <1>14, <2>1 DEF CacheStepEnd
  <2>2. CASE wbuf[Old] = NoBuf
    <3>1. WorkerGoesOn /\ UNCHANGED <<Steps, callView>>
      BY <1>14, <2>2 DEF CacheStepEnd, WorkerGoesOn, Shape
    <3>2. Shape'
      BY <1>14, <2>2 DEF CacheStepEnd, Shape
    <3> QED
      BY <3>1, <3>2 DEF OldWorks
  <2> QED
    BY <2>1, <2>2
<1>15. CASE CacheError(Old)
  <2>1. WorkerFails /\ UNCHANGED <<Steps, callView>>
    BY <1>15 DEF CacheError, SetBaseOnError, SetMtOnError, setOnError, WorkerFails, Shape
  <2>2. Shape'
    BY <1>15 DEF CacheError, SetBaseOnError, SetMtOnError, setOnError, Shape
  <2> QED
    BY <2>1, <2>2 DEF OldWorks
<1>16. CASE CacheEnd(Old)
  <2>1. WorkerGoesOn /\ UNCHANGED <<Steps, callView>>
    BY <1>16 DEF CacheEnd, ThreadEnd, WorkerGoesOn, Shape
  <2>2. Shape'
    BY <1>16 DEF CacheEnd, ThreadEnd, Shape
  <2> QED
    BY <2>1, <2>2 DEF OldWorks
<1> QED
  BY <1>1, <1>2, <1>3, <1>4, <1>5, <1>6, <1>7, <1>8, <1>9, <1>10, <1>11, <1>13, <1>14, <1>15,
     <1>16 DEF CacheWorker

(* A call of read() of the old cache makes the caller's steps.             *)
LEMMA ReadStepIsOld ==
  ASSUME Old \in Comp, Shape, ReadStep(Old), UNCHANGED hcacheVars
  PROVE  Shape' /\ OldIsRead /\ UNCHANGED Steps
<1> USE DEF hFree, hData, hErr, hWaiters, hPc, hBuf, hTErr, hBytes, hCur, hPos, hRpc, hLeft, hRErr,
            hOut, hPosted, hLeave, hStep, hNo, hAt, hLen, hHeard, listView, postView, coverView,
            errView, workerView, mtVars, listVars, workerVars, baseVars, hcacheVars
<1>1. CASE ReadLoop(Old)
  <2>1. CallGoesOn
    BY <1>1 DEF ReadLoop, CallGoesOn, Shape
  <2>2. Shape' /\ UNCHANGED Steps
    BY <1>1 DEF ReadLoop, Shape
  <2> QED
    BY <2>1, <2>2 DEF OldIsRead
<1>2. CASE ReadGetBuf(Old) \/ ReadWake(Old)
  <2>1. TakeData(Old) /\ (hRpc = "getBuf" \/ (hRpc = "waitBuf" /\ Caller \notin hWaiters))
    BY <1>2 DEF ReadGetBuf, ReadWake
  <2>2. CallTakes
    BY <2>1 DEF TakeData, CallTakes, Shape
  <2>3. Shape' /\ UNCHANGED Steps
    BY <2>1 DEF TakeData, Shape
  <2> QED
    BY <2>2, <2>3 DEF OldIsRead
<1>3. CASE ReadWait(Old)
  <2>1. CallWaits
    BY <1>3 DEF ReadWait, mustWait, WaitOn, CallWaits, Shape
  <2>2. Shape' /\ UNCHANGED Steps
    BY <1>3 DEF ReadWait, WaitOn, Shape
  <2> QED
    BY <2>1, <2>2 DEF OldIsRead
<1>4. CASE ReadCopy(Old)
  <2>1. CallCopies
    BY <1>4 DEF ReadCopy, CallCopies, hCopies, hHas, Shape
  <2>2. Shape' /\ UNCHANGED Steps
    BY <1>4 DEF ReadCopy, Shape
  <2> QED
    BY <2>1, <2>2, SMTT(30) DEF OldIsRead
<1>5. CASE ReadRelease(Old)
  <2>1. Signalled /\ DOMAIN waiters' = Comp
    BY <1>5, OldSignal DEF ReadRelease, Shape
  <2>2. CallReleases
    BY <1>5, <2>1 DEF ReadRelease, CallReleases, Shape
  <2>3. Shape' /\ UNCHANGED Steps
    BY <1>5, <2>1 DEF ReadRelease, Shape
  <2> QED
    BY <2>2, <2>3 DEF OldIsRead
<1> QED
  BY <1>1, <1>2, <1>3, <1>4, <1>5 DEF ReadStep

(* What the other components do moves nothing of the old cache.            *)
Elsewhere == Shape' /\ OldStill /\ UNCHANGED Steps

(* A signal of another component.                                          *)
LEMMA OtherSignal ==
  ASSUME Old \in Comp, Shape, NEW d, d # Old, Signal(d)
  PROVE  hWaiters' = hWaiters /\ DOMAIN waiters' = Comp
BY DEF Signal, hWaiters, Shape

(* The worker of "diff" or "dec".                                          *)
LEMMA InputIsElsewhere ==
  ASSUME Old \in Comp, Shape, NEW d \in Comp, d # Old, UNCHANGED hcacheVars,
         InputWorker(d) \/ \E ok \in BOOLEAN : InputReadDone(d, ok)
  PROVE  Elsewhere
<1> USE DEF hFree, hData, hErr, hWaiters, hPc, hBuf, hTErr, hBytes, hCur, hPos, hRpc, hLeft, hRErr,
            hOut, hPosted, hLeave, hStep, hNo, hAt, hLen, hHeard, listView, postView, coverView,
            errView, workerView, callView, mtVars, listVars, readerVars, hcacheVars,
            Elsewhere, OldStill, Shape
<1>1. CASE InputLoop(d)
  BY <1>1 DEF InputLoop
<1>2. CASE InputGetBuf(d)
  BY <1>2 DEF InputGetBuf, WorkerGetFree, TakeFree
<1>3. CASE InputWaitBuf(d)
  BY <1>3 DEF InputWaitBuf, WorkerWaitFree, WaitOn
<1>4. CASE InputWakeBuf(d)
  BY <1>4 DEF InputWakeBuf, WorkerWakeFree, TakeFree
<1>5. CASE InputReadAData(d)
  BY <1>5 DEF InputReadAData
<1>6. CASE InputPush(d)
  <2>1. hWaiters' = hWaiters /\ DOMAIN waiters' = Comp
    BY <1>6, OtherSignal DEF InputPush, WorkerPushData
  <2> QED
    BY <1>6, <2>1 DEF InputPush, WorkerPushData
<1>7. CASE InputError(d)
  BY <1>7, ZenonT(60) DEF InputError, SetBaseOnError, SetMtOnError, setOnError
<1>8. CASE InputEnd(d)
  BY <1>8 DEF InputEnd, ThreadEnd
<1>9. ASSUME NEW ok \in BOOLEAN, InputReadDone(d, ok) PROVE Elsewhere
  BY <1>9 DEF InputReadDone
<1> QED
  BY <1>1, <1>2, <1>3, <1>4, <1>5, <1>6, <1>7, <1>8, <1>9 DEF InputWorker

(* The worker of "new".                                                    *)
LEMMA OutputIsElsewhere ==
  ASSUME Old \in Comp, Shape, NEW d \in Comp, d # Old, UNCHANGED <<readerVars, hcacheVars>>,
         OutputWorker(d)
  PROVE  Elsewhere
<1> USE DEF hFree, hData, hErr, hWaiters, hPc, hBuf, hTErr, hBytes, hCur, hPos, hRpc, hLeft, hRErr,
            hOut, hPosted, hLeave, hStep, hNo, hAt, hLen, hHeard, listView, postView, coverView,
            errView, workerView, callView, mtVars, listVars, readerVars, hcacheVars,
            Elsewhere, OldStill, Shape
<1>1. CASE OutputLoop(d)
  BY <1>1 DEF OutputLoop
<1>2. CASE OutputGetBufs(d)
  BY <1>2 DEF OutputGetBufs, TakeAllData
<1>3. CASE OutputWaitBufs(d)
  BY <1>3 DEF OutputWaitBufs, WaitOn
<1>4. CASE OutputWakeBufs(d)
  BY <1>4 DEF OutputWakeBufs, TakeAllData
<1>5. ASSUME NEW ok \in {TRUE, ~Fails}, OutputWriteAData(d, ok) PROVE Elsewhere
  BY <1>5 DEF OutputWriteAData
<1>6. CASE OutputPushFree(d)
  <2>1. hWaiters' = hWaiters /\ DOMAIN waiters' = Comp
    BY <1>6, OtherSignal DEF OutputPushFree
  <2> QED
    BY <1>6, <2>1 DEF OutputPushFree
<1>7. CASE OutputError(d)
  BY <1>7, ZenonT(60) DEF OutputError, SetBaseOnError, SetMtOnError, setOnError
<1>8. CASE OutputEnd(d)
  BY <1>8 DEF OutputEnd, ThreadEnd
<1> QED
  BY <1>1, <1>2, <1>3, <1>4, <1>5, <1>6, <1>7, <1>8 DEF OutputWorker

(* A read of "diff" or "dec", a write of "new", and their ends.            *)
LEMMA CallIsElsewhere ==
  ASSUME Old \in Comp, Shape, NEW d \in Comp, d # Old, UNCHANGED hcacheVars,
         \/ ReadStep(d)
         \/ WriteStep(d) /\ UNCHANGED readerVars
         \/ \E p, n : InputRead(d, p, n)
         \/ ReadReturned(d) /\ UNCHANGED baseVars
         \/ SpuriousWake(d) /\ UNCHANGED readerVars
  PROVE  Elsewhere
<1> USE DEF hFree, hData, hErr, hWaiters, hPc, hBuf, hTErr, hBytes, hCur, hPos, hRpc, hLeft, hRErr,
            hOut, hPosted, hLeave, hStep, hNo, hAt, hLen, hHeard, listView, postView, coverView,
            errView, workerView, callView, mtVars, listVars, workerVars, baseVars, readerVars,
            hcacheVars, Elsewhere, OldStill, Shape
<1>1. CASE ReadLoop(d)
  BY <1>1 DEF ReadLoop
<1>2. CASE ReadGetBuf(d)
  BY <1>2 DEF ReadGetBuf, TakeData
<1>3. CASE ReadWait(d)
  BY <1>3 DEF ReadWait, WaitOn
<1>4. CASE ReadWake(d)
  BY <1>4, SMTT(30) DEF ReadWake, TakeData
<1>5. CASE ReadCopy(d)
  BY <1>5 DEF ReadCopy
<1>6. CASE ReadRelease(d)
  <2>1. hWaiters' = hWaiters /\ DOMAIN waiters' = Comp
    BY <1>6, OtherSignal DEF ReadRelease
  <2> QED
    BY <1>6, <2>1 DEF ReadRelease
<1>7. CASE WriteStep(d) /\ UNCHANGED readerVars
  <2>1. CASE WriteLoop(d)
    BY <1>7, <2>1 DEF WriteLoop
  <2>2. CASE WriteGetBuf(d)
    BY <1>7, <2>2 DEF WriteGetBuf, CallerTakesFree
  <2>3. CASE WriteWait(d)
    BY <1>7, <2>3 DEF WriteWait, WaitOn
  <2>4. CASE WriteWake(d)
    BY <1>7, <2>4, SMTT(30) DEF WriteWake, CallerTakesFree
  <2>5. CASE WriteCopy(d)
    BY <1>7, <2>5 DEF WriteCopy
  <2>6. CASE WritePush(d)
    <3>1. hWaiters' = hWaiters /\ DOMAIN waiters' = Comp
      BY <2>6, OtherSignal DEF WritePush
    <3> QED
      BY <1>7, <2>6, <3>1 DEF WritePush
  <2> QED
    BY <1>7, <2>1, <2>2, <2>3, <2>4, <2>5, <2>6 DEF WriteStep
<1>8. ASSUME NEW p, NEW n, InputRead(d, p, n) PROVE Elsewhere
  BY <1>8 DEF InputRead, EnterRead
<1>9. CASE ReadReturned(d) /\ UNCHANGED baseVars
  BY <1>9 DEF ReadReturned
<1>10. CASE SpuriousWake(d) /\ UNCHANGED readerVars
  BY <1>10 DEF SpuriousWake
<1> QED
  BY <1>1, <1>2, <1>3, <1>4, <1>5, <1>6, <1>7, <1>8, <1>9, <1>10 DEF ReadStep

(* A step in which the old cache's variables do not change.                *)
LEMMA NothingOfOld ==
  ASSUME Shape, UNCHANGED <<baseVars, readerVars, hcacheVars>>
  PROVE  Elsewhere
BY DEF hFree, hData, hErr, hWaiters, hPc, hBuf, hTErr, hBytes, hCur, hPos, hRpc, hLeft, hRErr,
       hOut, hPosted, hLeave, hStep, hNo, hAt, hLen, hHeard, listView, postView, coverView,
       errView, workerView, callView, mtVars, listVars, workerVars, baseVars, readerVars,
       hcacheVars, Elsewhere, OldStill, Shape

(* The main thread while it opens the components and closes them.          *)
LEMMA OpenIsOld ==
  ASSUME Old \in Comp, Shape, ThreadsInv,
         \/ OpenComp \/ OpenDecReads \/ OpenDecRead \/ OpenFails \/ Opened \/ DecOpen
         \/ ManagerClose \/ ManagerClosed
  PROVE  Shape' /\ UNCHANGED Steps /\ OldStep
<1> USE DEF Elsewhere
<1>a. UNCHANGED mainVars => UNCHANGED mainView
  BY DEF mainVars, mainView
<1>1. CASE OpenComp
  <2> DEFINE c == openOrder[nextOpen]
  <2>1. UNCHANGED mainView /\ UNCHANGED Steps
    BY <1>1 DEF OpenComp, mainView, hcacheVars
  <2>2. CASE c = Old
    <3>1. mpc = "open" /\ nextOpen \in 1..4 /\ c \in Comp
      BY <1>1, <2>2 DEF OpenComp, ThreadsInv, CountInv
    <3>2. pc[Old] = "none"
      BY <2>2, <3>1 DEF ThreadsInv, CountInv
    <3>3. /\ pc' = [pc EXCEPT ![Old] = "loop"]
          /\ UNCHANGED <<isOnError, listVars, wbuf, tErr, bufData, readerVars, hcacheVars>>
      BY <1>1, <2>2 DEF OpenComp
    <3>4. Shape' /\ MainOpens
      BY <2>1, <3>2, <3>3
         DEF MainOpens, Shape, hFree, hData, hErr, hWaiters, hPc, hBuf, hTErr, hBytes, hCur, hPos,
             hRpc, hLeft, hRErr, hOut, hPosted, hLeave, hStep, hNo, hAt, hLen, hHeard, listView,
             postView, coverView, errView, callView, listVars, readerVars, hcacheVars
    <3> QED
      BY <2>1, <3>4 DEF OldStep, MainUsesOld
  <2>3. CASE c # Old
    <3>1. /\ pc'[Old] = pc[Old] /\ DOMAIN pc' = Comp
          /\ UNCHANGED <<isOnError, listVars, wbuf, tErr, bufData, readerVars, hcacheVars>>
      BY <1>1, <2>3 DEF OpenComp, Shape
    <3>2. Shape' /\ OldStill
      BY <3>1
         DEF OldStill, Shape, hFree, hData, hErr, hWaiters, hPc, hBuf, hTErr, hBytes, hCur, hPos,
             hRpc, hLeft, hRErr, hOut, hPosted, hLeave, hStep, hNo, hAt, hLen, hHeard, listView,
             postView, coverView, errView, callView, workerView, listVars, readerVars, hcacheVars
    <3> QED
      BY <2>1, <3>2 DEF OldStep
  <2> QED
    BY <2>2, <2>3
<1>2. CASE OpenDecReads
  <2>1. Elsewhere
    BY <1>2, CallIsElsewhere, Names DEF OpenDecReads
  <2> QED
    BY <1>a, <1>2, <2>1 DEF OpenDecReads, OldStep
<1>3. CASE OpenDecRead
  <2>1. Elsewhere
    BY <1>3, CallIsElsewhere, Names DEF OpenDecRead
  <2> QED
    BY <1>a, <1>3, <2>1 DEF OpenDecRead, OldStep
<1>4. CASE OpenFails \/ Opened \/ DecOpen
  <2>1. Elsewhere
    BY <1>4, NothingOfOld DEF OpenFails, Opened, DecOpen, compVars
  <2>2. MainAlone
    BY <1>4 DEF OpenFails, Opened, DecOpen, MainAlone, MainFailsAnywhere, MainStarts, atEnd
  <2> QED
    BY <2>1, <2>2 DEF OldStep
<1>5. CASE ManagerClose \/ ManagerClosed
  <2>1. Elsewhere
    BY <1>5 DEF ManagerClose, ManagerClosed, WaitAllThreadEnd, AllThreadsEnded, setOnError,
             setOnFinish, OldStill, Shape, hFree, hData, hErr, hWaiters, hPc, hBuf, hTErr, hBytes,
             hCur, hPos, hRpc, hLeft, hRErr, hOut, hPosted, hLeave, hStep, hNo, hAt, hLen, hHeard,
             listView, postView, coverView, errView, callView, workerView, listVars, workerVars,
             readerVars, hcacheVars
  <2>2. MainAlone
    BY <1>5 DEF ManagerClose, ManagerClosed, MainAlone, MainCloses
  <2> QED
    BY <2>1, <2>2 DEF OldStep
<1> QED
  BY <1>1, <1>2, <1>3, <1>4, <1>5

(* The main thread where it calls the old cache.                           *)
LEMMA UseIsOld ==
  ASSUME Old \in Comp, Shape, StepReset \/ StepPost \/ OldReads \/ OldGot \/ LastReset \/ LastPost
  PROVE  Shape' /\ UNCHANGED Steps /\ OldStep
<1>0. Old \in HCaches
  BY Kinds
<1> USE DEF hFree, hData, hErr, hWaiters, hPc, hBuf, hTErr, hBytes, hCur, hPos, hRpc, hLeft, hRErr,
            hOut, hPosted, hLeave, hStep, hNo, hAt, hLen, hHeard, listView, postView, coverView,
            errView, callView, workerView, mtVars, listVars, workerVars, baseVars, readerVars,
            hcacheVars
<1>1. CASE StepReset
  <2>1. MainResets /\ UNCHANGED Steps
    BY <1>0, <1>1 DEF StepReset, OnStepCoversReset, MainResets, Shape
  <2>2. Shape'
    BY <1>1 DEF StepReset, OnStepCoversReset, Shape
  <2> QED
    BY <2>1, <2>2 DEF OldStep, MainUsesOld
<1>2. CASE StepPost
  <2>1. Signalled /\ DOMAIN waiters' = Comp
    BY <1>2, OldSignal DEF StepPost, OnStepCovers, Shape
  <2>2. MainPosts /\ UNCHANGED Steps
    BY <1>0, <1>2, <2>1 DEF StepPost, OnStepCovers, MainPosts, Shape
  <2>3. Shape'
    BY <1>2, <2>1 DEF StepPost, OnStepCovers, Shape
  <2> QED
    BY <2>2, <2>3 DEF OldStep, MainUsesOld
<1>3. CASE OldReads
  <2>1. MainAsks /\ UNCHANGED Steps
    BY <1>3 DEF OldReads, CacheRead, EnterRead, MainAsks, Shape, mainVars, mainView
  <2>2. Shape'
    BY <1>3 DEF OldReads, CacheRead, EnterRead, Shape
  <2> QED
    BY <2>1, <2>2 DEF OldStep, MainUsesOld
<1>4. CASE OldGot
  <2>1. MainGets /\ UNCHANGED Steps
    BY <1>4 DEF OldGot, ReadReturned, MainFails, MainGets, Shape
  <2>2. Shape'
    BY <1>4 DEF OldGot, ReadReturned, Shape
  <2> QED
    BY <2>1, <2>2 DEF OldStep, MainUsesOld
<1>5. CASE LastReset
  <2>1. MainEnds /\ UNCHANGED Steps
    BY <1>0, <1>5 DEF LastReset, OnStepCoversReset, MainEnds, Shape
  <2>2. Shape'
    BY <1>5 DEF LastReset, OnStepCoversReset, Shape
  <2> QED
    BY <2>1, <2>2 DEF OldStep, MainUsesOld
<1>6. CASE LastPost
  <2>1. Signalled /\ DOMAIN waiters' = Comp
    BY <1>6, OldSignal DEF LastPost, OnStepCovers, Shape
  <2>2. mpc' = "finish" /\ result' \in BOOLEAN
    BY <1>6 DEF LastPost, MainFails
  <2>3. MainEnds /\ UNCHANGED Steps
    BY <1>0, <1>6, <2>1, <2>2 DEF LastPost, OnStepCovers, MainEnds, Shape
  <2>4. Shape'
    BY <1>6, <2>1 DEF LastPost, OnStepCovers, Shape
  <2> QED
    BY <2>3, <2>4 DEF OldStep, MainUsesOld
<1> QED
  BY <1>1, <1>2, <1>3, <1>4, <1>5, <1>6

(* The main thread where it does not.                                      *)
LEMMA AloneIsOld ==
  ASSUME Old \in Comp, Shape,
         \/ ClipReads \/ ClipGot \/ StepLoop \/ StepInfo \/ StepData \/ NextCover \/ CopyGap
         \/ OldDone \/ NewWrites \/ NewWritten
  PROVE  Shape' /\ UNCHANGED Steps /\ OldStep
<1> USE DEF Elsewhere, OldStep
<1>a. UNCHANGED mainVars => UNCHANGED mainView
  BY DEF mainVars, mainView
<1>b. ClipSource \in Comp => ClipSource # Old
  BY Names DEF ClipSource
<1>1. CASE ClipReads
  <2>1. Elsewhere
    BY <1>b, <1>1, CallIsElsewhere DEF ClipReads
  <2> QED
    BY <1>a, <1>1, <2>1 DEF ClipReads
<1>2. CASE ClipGot
  <2>1. Elsewhere
    <3>1. CASE UNCHANGED readerVars
      BY <1>2, <3>1, NothingOfOld DEF ClipGot
    <3>2. CASE ClipSource \in Comp /\ ReadReturned(ClipSource)
      BY <1>b, <1>2, <3>2, CallIsElsewhere DEF ClipGot
    <3> QED
      BY <1>2, <3>1, <3>2 DEF ClipGot
  <2>2. MainAlone \/ UNCHANGED mainView
    BY <1>2 DEF ClipGot, clipWants, MainFails, MainAlone, MainFailsAnywhere, mainView, atEnd
  <2> QED
    BY <2>1, <2>2
<1>3. CASE StepLoop \/ StepInfo \/ StepData \/ NextCover \/ CopyGap \/ OldDone
  <2>1. Elsewhere
    BY <1>3, NothingOfOld DEF StepLoop, StepInfo, StepData, NextCover, CopyGap, OldDone, compVars
  <2>2. MainAlone
    <3>1. StepLoop => MainGoesToStep
      BY DEF StepLoop, MainGoesToStep
    <3>2. StepInfo \/ StepData => MainDecodes
      BY DEF StepInfo, StepData, MainDecodes
    <3>3. NextCover => MainNextCover
      BY DEF NextCover, MainNextCover
    <3>4. CopyGap => MainCopies \/ MainFailsAnywhere
      BY DEF CopyGap, MainFails, MainCopies, MainFailsAnywhere, atEnd
    <3>5. OldDone => MainCopies
      BY DEF OldDone, MainCopies
    <3> QED
      BY <1>3, <3>1, <3>2, <3>3, <3>4, <3>5 DEF MainAlone
  <2> QED
    BY <2>1, <2>2
<1>4. CASE NewWrites
  <2>1. Elsewhere
    BY <1>4, NothingOfOld DEF NewWrites, OutputWrite
  <2> QED
    BY <1>a, <1>4, <2>1 DEF NewWrites
<1>5. CASE NewWritten
  <2>1. Elsewhere
    BY <1>5, NothingOfOld DEF NewWritten
  <2>2. MainAlone
    BY <1>5 DEF NewWritten, MainFails, MainAlone, MainCopies, MainFailsAnywhere, atEnd
  <2> QED
    BY <2>1, <2>2
<1> QED
  BY <1>1, <1>2, <1>3, <1>4, <1>5

(* Every step of the patcher is a step of the old cache as told above.     *)
LEMMA NextIsOld ==
  ASSUME Old \in Comp, Shape, ThreadsInv, [PatchNext]_patchVars
  PROVE  Shape' /\ UNCHANGED Steps /\ OldStep
<1> USE DEF Elsewhere
<1>a. UNCHANGED mainVars => UNCHANGED mainView
  BY DEF mainVars, mainView
<1>b. Elsewhere /\ UNCHANGED mainVars => Shape' /\ UNCHANGED Steps /\ OldStep
  BY <1>a DEF OldStep
<1>c. ASSUME NEW c \in Comp, ReadCall(c) PROVE Shape' /\ UNCHANGED Steps /\ OldStep
  <2>1. CASE c = Old
    BY <1>a, <1>c, <2>1, ReadStepIsOld DEF ReadCall, OldStep
  <2>2. CASE c # Old
    BY <1>b, <1>c, <2>2, CallIsElsewhere DEF ReadCall
  <2> QED
    BY <2>1, <2>2
<1>1. ASSUME NEW c \in Comp, WorkerThread(c) PROVE Shape' /\ UNCHANGED Steps /\ OldStep
  <2>1. CASE c \in HInputs
    <3>0. c # Old /\ c \notin HCaches /\ c \notin HOutputs
      BY <2>1, Kinds
    <3>1. CASE InputWorker(c) /\ UNCHANGED <<houtputVars, hcacheVars, mainVars>>
      BY <1>b, <3>0, <3>1, InputIsElsewhere
    <3>2. ASSUME NEW ok \in BOOLEAN, FillDone(c, ok) PROVE Shape' /\ UNCHANGED Steps /\ OldStep
      BY <1>b, <3>0, <3>2, InputIsElsewhere DEF FillDone
    <3>3. CASE DecReads
      <4>1. Elsewhere
        BY <3>3, CallIsElsewhere, Names DEF DecReads
      <4> QED
        BY <1>b, <3>3, <4>1 DEF DecReads
    <3>4. CASE Diff \in Comp /\ ReadCall(Diff)
      BY <1>c, <3>4
    <3> QED
      BY <1>1, <3>0, <3>1, <3>2, <3>3, <3>4 DEF WorkerThread
  <2>2. CASE c \in HCaches /\ CacheWorker(c) /\ UNCHANGED <<hinputVars, houtputVars, mainVars>>
    <3>1. CacheWorker(Old)
      BY <2>2, Kinds
    <3> QED
      BY <1>a, <2>2, <3>1, CacheWorkerIsOld DEF OldStep
  <2>3. CASE c \in HOutputs /\ OutputWorker(c) /\ UNCHANGED <<readerVars, hinputVars, hcacheVars, mainVars>>
    <3>1. c # Old
      BY <2>3, Kinds, Names
    <3> QED
      BY <1>b, <2>3, <3>1, OutputIsElsewhere
  <2> QED
    BY <1>1, <2>1, <2>2, <2>3 DEF WorkerThread
<1>2. CASE MainThread
  <2>1. ASSUME NEW c \in MainReads, ReadCall(c) PROVE Shape' /\ UNCHANGED Steps /\ OldStep
    BY <1>c, <2>1 DEF MainReads
  <2>2. ASSUME NEW c \in HOutputs, WriteCall(c) PROVE Shape' /\ UNCHANGED Steps /\ OldStep
    <3>1. c \in Comp /\ c # Old
      BY Kinds, Names
    <3> QED
      BY <1>b, <2>2, <3>1, CallIsElsewhere DEF WriteCall
  <2> QED
    BY <1>2, <2>1, <2>2, OpenIsOld, UseIsOld, AloneIsOld DEF MainThread
<1>3. CASE PatchSpurious
  <2>1. PICK c \in Comp : SpuriousWake(c)
    BY <1>3 DEF PatchSpurious
  <2>2. CASE c # Old
    BY <1>b, <1>3, <2>1, <2>2, CallIsElsewhere DEF PatchSpurious
  <2>3. CASE c = Old
    <3>1. Elsewhere
      BY <1>3, <2>1, <2>3
         DEF PatchSpurious, SpuriousWake, OldStill, Shape, hFree, hData, hErr, hWaiters, hPc, hBuf,
             hTErr, hBytes, hCur, hPos, hRpc, hLeft, hRErr, hOut, hPosted, hLeave, hStep, hNo, hAt,
             hLen, hHeard, listView, postView, coverView, errView, callView, workerView, mtVars,
             workerVars, readerVars, hcacheVars
    <3> QED
      BY <1>b, <1>3, <3>1 DEF PatchSpurious
  <2> QED
    BY <2>2, <2>3
<1>4. CASE UNCHANGED patchVars
  BY <1>b, <1>4, NothingOfOld DEF patchVars, compVars
<1> QED
  BY <1>1, <1>2, <1>3, <1>4 DEF PatchNext, PatchDone

---------------------------------------------------------------------------
(* The steps of the diff *)

(* The covers of a step, or of none.                                       *)
LEMMA StepCovers ==
  ASSUME NEW d \in Diffs
  PROVE  /\ Len(d) \in Nat
         /\ \A s \in 0..Len(d) : coversIn(d, s) \in Covers
         /\ \A s \in 1..Len(d) : coversIn(d, s) = d[s] /\ d[s] \in Covers
         /\ coversIn(d, 0) = <<>>
<1>1. d \in Seq(Covers)
  BY HCacheAssumption DEF HCacheAssumption, Covers
<1>2. \A s \in 1..Len(d) : d[s] \in Covers
  BY <1>1, ElementOfSeq
<1>3. <<>> \in Covers
  BY DEF Covers
<1> QED
  BY <1>1, <1>2, <1>3 DEF coversIn

(* A step that refers to old data has bytes to read.                       *)
LEMMA StepReads ==
  ASSUME NEW d \in Diffs, NEW s \in 1..Len(d), NEW i \in 1..Len(d[s]), d[s][i].length > 0
  PROVE  total(d[s]) \in Nat \ {0}
<1>1. d[s] \in Covers /\ Len(d[s]) \in Nat
  BY StepCovers, CoverIs
<1>3. i \in 0..Len(d[s]) /\ i - 1 \in 0..Len(d[s]) /\ Len(d[s]) \in 0..Len(d[s]) /\ i <= Len(d[s])
  BY <1>1
<1>4. /\ ends(d[s])[i - 1] \in Nat /\ ends(d[s])[i] = ends(d[s])[i - 1] + d[s][i].length
      /\ d[s][i].length \in Nat
  BY <1>1, <1>3, Ends, CoverIs
<1>5. ends(d[s])[i] \in Nat /\ ends(d[s])[Len(d[s])] \in Nat /\ ends(d[s])[i] <= ends(d[s])[Len(d[s])]
  BY <1>1, <1>3, Ends
<1>6. ends(d[s])[i] > 0
  BY <1>4, <1>5
<1> QED
  BY <1>5, <1>6 DEF total

(* A step has covers, so that one whose covers have all been found good    *)
(* refers to old data, unless it is the last.                              *)
LEMMA PassedReads ==
  ASSUME MainInv, GoodInv, ~atEnd, NEW s \in 1..Len(Steps), s # Len(Steps), s <= step,
         s # step \/ (mpc = "cover" /\ cover = Len(Steps[s]))
  PROVE  total(Steps[s]) \in Nat \ {0}
<1>1. Steps \in Diffs /\ Len(Steps) \in Nat /\ step \in 0..Len(Steps)
  BY StepCovers DEF MainInv
<1>2. Steps[s] \in Covers /\ Len(Steps[s]) \in Nat /\ Steps[s] # <<>>
  BY <1>1, StepCovers, CoverIs, HCacheAssumption DEF HCacheAssumption
<1>3. 1 \in 1..Len(Steps[s]) /\ ~(1 > Len(Steps[s]))
  BY <1>2 DEF Covers
<1>4. s \in 1..step
  BY <1>1
<1>5. GoodCover(s, 1)
  BY <1>3, <1>4 DEF GoodInv, atStep
<1>6. Steps[s][1].length \in Nat
  BY <1>2, <1>3, CoverIs
<1>7. Steps[s][1].length > 0
  BY <1>5, <1>6 DEF GoodCover
<1> QED
  BY <1>1, <1>3, <1>7, StepReads

(* coverCount, what is left of it when a step begins, is not zero.         *)
LEMMA CoversAreLeft ==
  ASSUME Steps \in Diffs, NEW s \in 1..Len(Steps)
  PROVE  coversLeft(s) \in Nat \ {0}
<1> DEFINE m == Len(Steps) - s + 1
           q == [i \in 1..m |-> Len(Steps[s + i - 1])]
<1>0. Len(Steps) \in Nat /\ m \in Nat \ {0}
  BY StepCovers
<1>1. \A i \in 1..m : s + i - 1 \in 1..Len(Steps)
  BY <1>0
<1>2. \A i \in 1..m : Len(Steps[s + i - 1]) \in Nat \ {0}
  <2> SUFFICES ASSUME NEW j \in 1..Len(Steps) PROVE Len(Steps[j]) \in Nat \ {0}
    BY <1>1
  <2>1. Steps[j] \in Covers /\ Len(Steps[j]) \in Nat /\ Steps[j] # <<>>
    BY StepCovers, CoverIs, HCacheAssumption DEF HCacheAssumption
  <2> QED
    BY <2>1 DEF Covers
<1>3. q \in Seq(Nat) /\ Len(q) = m /\ q[1] \in Nat \ {0}
  BY <1>0, <1>2, SMTT(30)
<1>4. coversLeft(s) = sums(q)[Len(q)]
  BY DEF coversLeft, sumOf
<1> HIDE DEF q
<1>5. sums(q) = CHOOSE f : f = [i \in 0..Len(q) |-> IF i = 0 THEN 0 ELSE f[i - 1] + q[i]]
  BY Zenon DEF sums
<1>6. IsSums(sums(q), q)
  BY <1>3, <1>5, SumsUnique, Zenon
<1>7. 1 \in 0..Len(q) /\ m \in 0..Len(q) /\ 1 <= m /\ 1 \in 1..Len(q) /\ 1 - 1 = 0
  BY <1>0, <1>3
<1>8. sums(q)[1] <= sums(q)[m]
  BY <1>3, <1>6, <1>7, SumsGrow
<1>9. sums(q) \in [0..Len(q) -> Nat] /\ sums(q)[0] = 0 /\ sums(q)[1] = sums(q)[1 - 1] + q[1]
  BY <1>6, <1>7 DEF IsSums
<1>10. sums(q)[m] \in Nat /\ sums(q)[1] = q[1]
  BY <1>3, <1>7, <1>9, SMTT(30)
<1> QED
  BY <1>3, <1>4, <1>8, <1>10

---------------------------------------------------------------------------
(* Types *)

(* What can be read or copied in one go.                                   *)
LEMMA Portions ==
  ASSUME OldTypes
  PROVE  /\ hBuf # NoBuf => hRoom \in Nat /\ hReads \in Nat /\ hReads <= hLen /\ hReads <= hRoom
         /\ hCur # NoBuf => hHas \in Nat /\ hCopies \in Nat /\ hCopies <= hLeft /\ hCopies <= hHas
<1>1. WorkBufSize \in Nat
  BY BaseAssumption DEF BaseAssumption
<1>2. ASSUME hBuf # NoBuf
      PROVE  hRoom \in Nat /\ hReads \in Nat /\ hReads <= hLen /\ hReads <= hRoom
  <2>1. hBuf \in Bufs /\ hLen \in Nat
    BY <1>2 DEF OldTypes
  <2>2. hBytes[hBuf] \in Seq(Nat) /\ Len(hBytes[hBuf]) <= WorkBufSize
    BY <2>1 DEF OldTypes
  <2>3. Len(hBytes[hBuf]) \in Nat
    BY <2>2
  <2>4. hRoom \in Nat
    BY <1>1, <2>2, <2>3 DEF hRoom
  <2> QED
    BY <2>1, <2>4 DEF hReads
<1>3. ASSUME hCur # NoBuf
      PROVE  hHas \in Nat /\ hCopies \in Nat /\ hCopies <= hLeft /\ hCopies <= hHas
  <2>1. hCur \in Bufs /\ hLeft \in Nat /\ hPos \in Nat
    BY <1>3 DEF OldTypes
  <2>2. hBytes[hCur] \in Seq(Nat) /\ hPos <= Len(hBytes[hCur])
    BY <1>3, <2>1 DEF OldTypes
  <2>3. Len(hBytes[hCur]) \in Nat
    BY <2>2
  <2>4. hHas \in Nat
    BY <2>1, <2>2, <2>3 DEF hHas
  <2> QED
    BY <2>1, <2>4 DEF hCopies
<1> QED
  BY <1>2, <1>3

(* The main thread asks for what is left, a cacheful at most.              *)
LEMMA AsksForSome ==
  ASSUME oldLeft \in Nat
  PROVE  oldRead \in Nat /\ oldRead <= oldLeft /\ (oldLeft > 0 => oldRead > 0)
BY HPatchAssumption DEF HPatchAssumption, oldRead, least

(* Popping from a list.                                                    *)
LEMMA Popped ==
  ASSUME NEW list \in Seq(Bufs)
  PROVE  /\ restBufs(list) \in Seq(Bufs) /\ firstBuf(list) \in Bufs \union {NoBuf}
         /\ firstBuf(list) = NoBuf <=> list = <<>>
<1>1. CASE list = <<>>
  BY <1>1 DEF restBufs, firstBuf
<1>2. CASE list # <<>>
  <2>1. Tail(list) \in Seq(Bufs) /\ Head(list) \in Bufs
    BY <1>2, ListTail
  <2> QED
    BY <1>2, <2>1, BaseAssumption DEF restBufs, firstBuf, BaseAssumption
<1> QED
  BY <1>1, <1>2

(* The worker keeps the types.                                             *)
LEMMA WorkKeepsTypes ==
  ASSUME Steps \in Diffs, UNCHANGED Steps, OldTypes, OldPhases, OwnInv, OldWorks, UNCHANGED callView
  PROVE  OldTypes'
<1> USE DEF OldTypes, listView, postView, coverView, errView, callView, hCovers
<1>0. \A s \in 0..Len(Steps) : coversIn(Steps, s) \in Covers /\ Len(coversIn(Steps, s)) \in Nat
  BY StepCovers, CoverIs
<1>1. CASE WorkerGoesOn
  BY <1>1 DEF WorkerGoesOn
<1>2. CASE WorkerTakesCovers
  <2>1. 0 \in 0..Len(hCovers')
    BY <1>0, <1>2 DEF WorkerTakesCovers
  <2> QED
    BY <1>2, <2>1 DEF WorkerTakesCovers
<1>3. CASE WorkerWaits
  BY <1>3 DEF WorkerWaits
<1>4. CASE WorkerHears
  BY <1>4 DEF WorkerHears
<1>5. CASE WorkerDecodes
  <2>1. hCovers \in Covers
    BY StepCovers
  <2>2. hNo + 1 \in 1..Len(hCovers)
    BY <1>5, <2>1, CoverIs DEF WorkerDecodes
  <2>3. hCovers[hNo + 1].oldPos \in Nat /\ hCovers[hNo + 1].length \in Nat
    BY <2>1, <2>2, CoverIs
  <2> QED
    BY <1>5, <2>2, <2>3 DEF WorkerDecodes
<1>6. CASE WorkerTakesBuf
  BY <1>6, Popped DEF WorkerTakesBuf
<1>7. CASE WorkerEmpties
  <2>1. hBuf \in Bufs /\ hBuf # hCur
    BY <1>7 DEF WorkerEmpties, OldPhases, OwnInv
  <2>2. /\ hBytes' \in [Bufs -> Seq(Nat)] /\ \A b \in Bufs : Len(hBytes'[b]) <= WorkBufSize
        /\ hCur \in Bufs => hBytes'[hCur] = hBytes[hCur]
    BY <1>7, <2>1, BaseAssumption DEF WorkerEmpties, BaseAssumption
  <2> QED
    BY <1>7, <2>2 DEF WorkerEmpties
<1>8. CASE WorkerReadsOld
  <2>1. hBuf \in Bufs /\ hBuf # NoBuf /\ hBuf # hCur
    BY <1>8, BaseAssumption DEF WorkerReadsOld, OldPhases, OwnInv, BaseAssumption
  <2>2. hReads \in Nat /\ hReads <= hLen /\ hReads <= hRoom
    BY <2>1, Portions
  <2>3. Run(hAt, hReads) \in Seq(Nat) /\ Len(Run(hAt, hReads)) = hReads
    BY <2>2, RunBytes
  <2>4. hBytes[hBuf] \in Seq(Nat)
    BY <2>1
  <2>5. /\ hBytes[hBuf] \o Run(hAt, hReads) \in Seq(Nat)
        /\ Len(hBytes[hBuf] \o Run(hAt, hReads)) = Len(hBytes[hBuf]) + hReads
    <3>1. ASSUME NEW s \in Seq(Nat), NEW t \in Seq(Nat), NEW n, Len(t) = n
          PROVE  s \o t \in Seq(Nat) /\ Len(s \o t) = Len(s) + n
      BY <3>1, ConcatProperties, ZenonT(60)
    <3> QED
      BY <2>3, <2>4, <3>1, Zenon
  <2>6. Len(hBytes[hBuf]) + hReads <= WorkBufSize
    BY <2>2, <2>4, BaseAssumption DEF hRoom, BaseAssumption
  <2>7. hBytes' = [hBytes EXCEPT ![hBuf] = hBytes[hBuf] \o Run(hAt, hReads)]
    BY <1>8 DEF WorkerReadsOld
  <2>8. /\ hBytes' \in [Bufs -> Seq(Nat)] /\ \A b \in Bufs : Len(hBytes'[b]) <= WorkBufSize
        /\ hCur \in Bufs => hBytes'[hCur] = hBytes[hCur]
    BY <2>1, <2>5, <2>6, <2>7
  <2>9. hAt + hReads \in Nat /\ hLen - hReads \in Nat
    BY <2>2
  <2> QED
    BY <1>8, <2>8, <2>9 DEF WorkerReadsOld
<1>9. CASE WorkerPushes
  <2>1. hBuf \in Bufs
    BY <1>9 DEF WorkerPushes, OldPhases
  <2>2. hData' \in Seq(Bufs)
    BY <1>9, <2>1, ListAppend DEF WorkerPushes, pushABufAtEnd
  <2>3. hWaiters' \subseteq hWaiters
    BY <1>9 DEF WorkerPushes, Signalled
  <2> QED
    BY <1>9, <2>2, <2>3 DEF WorkerPushes
<1>10. CASE WorkerFails
  BY <1>10 DEF WorkerFails
<1> QED
  BY <1>1, <1>2, <1>3, <1>4, <1>5, <1>6, <1>7, <1>8, <1>9, <1>10 DEF OldWorks

(* So does the caller.                                                     *)
LEMMA ReadKeepsTypes ==
  ASSUME UNCHANGED Steps, OldTypes, OldPhases, OldIsRead
  PROVE  OldTypes'
<1> USE DEF OldTypes, listView, postView, coverView, errView, callView, workerView, hCovers
<1>1. CASE CallGoesOn
  BY <1>1 DEF CallGoesOn
<1>2. CASE CallTakes
  <2>1. hPos = 0
    BY <1>2 DEF CallTakes, OldPhases
  <2>2. hCur' # NoBuf => hPos <= Len(hBytes[hCur'])
    <3>1. hCur' \in Bufs \union {NoBuf}
      BY <1>2, Popped DEF CallTakes
    <3> QED
      BY <2>1, <3>1
  <2> QED
    BY <1>2, <2>2, Popped DEF CallTakes
<1>3. CASE CallWaits
  BY <1>3 DEF CallWaits
<1>4. CASE CallCopies
  <2>1. hCur \in Bufs /\ hCur # NoBuf
    BY <1>4 DEF CallCopies
  <2>2. hCopies \in Nat /\ hCopies <= hLeft /\ hCopies <= hHas
    BY <2>1, Portions
  <2>3. hBytes[hCur] \in Seq(Nat) /\ Len(hBytes[hCur]) \in Nat
    BY <2>1
  <2>4. /\ hPos + hCopies \in Nat /\ hPos + hCopies \in Int /\ hPos + 1 \in Nat \ {0}
        /\ hPos + hCopies <= Len(hBytes[hCur])
    BY <2>2, <2>3 DEF hHas
  <2>5. SubSeq(hBytes[hCur], hPos + 1, hPos + hCopies) \in Seq(Nat)
    BY <2>3, <2>4, SubSeqType, Zenon
  <2>6. hOut' \in Seq(Nat) /\ hPos' \in Nat /\ hPos' <= Len(hBytes[hCur]) /\ hLeft' \in Nat
    BY <1>4, <2>2, <2>4, <2>5 DEF CallCopies
  <2> QED
    BY <1>4, <2>6 DEF CallCopies
<1>5. CASE CallReleases
  <2>1. hCur \in Bufs
    BY <1>5 DEF CallReleases, OldPhases
  <2>2. hFree' \in Seq(Bufs)
    BY <1>5, <2>1, ListPush DEF CallReleases, pushABufAtHead
  <2>3. hWaiters' \subseteq hWaiters
    BY <1>5 DEF CallReleases, Signalled
  <2> QED
    BY <1>5, <2>2, <2>3 DEF CallReleases
<1> QED
  BY <1>1, <1>2, <1>3, <1>4, <1>5 DEF OldIsRead

(* So does the rest.                                                       *)
LEMMA MainKeepsTypes ==
  ASSUME UNCHANGED Steps, OldTypes, MainInv, MainUsesOld \/ OldStill
  PROVE  OldTypes'
<1> USE DEF OldTypes, listView, postView, coverView, errView, callView, workerView, mainView, hCovers
<1>1. CASE MainOpens
  BY <1>1 DEF MainOpens
<1>2. CASE MainAsks
  <2>1. oldRead \in Nat
    BY AsksForSome DEF MainInv
  <2>2. <<>> \in Seq(Nat)
    BY EmptySeq
  <2> QED
    BY <1>2, <2>1, <2>2 DEF MainAsks
<1>3. CASE MainGets
  BY <1>3 DEF MainGets
<1>4. CASE MainResets
  <2>1. step \in 1..Len(Steps)
    BY <1>4 DEF MainResets, MainInv, atStep
  <2>2. coversLeft(step) \in Nat
    BY <2>1, CoversAreLeft DEF MainInv
  <2> QED
    BY <1>4, <2>2 DEF MainResets
<1>5. CASE MainPosts
  <2>1. hWaiters' \subseteq hWaiters
    BY <1>5 DEF MainPosts, Signalled
  <2> QED
    BY <1>5, <2>1 DEF MainPosts, MainInv
<1>6. CASE MainEnds
  <2>1. hWaiters' \subseteq hWaiters
    BY <1>6 DEF MainEnds, Signalled
  <2>2. 0 \in 0..Len(Steps)
    BY StepCovers DEF MainInv
  <2> QED
    BY <1>6, <2>1, <2>2, SMTT(30) DEF MainEnds
<1>7. CASE OldStill
  BY <1>7 DEF OldStill
<1> QED
  BY <1>1, <1>2, <1>3, <1>4, <1>5, <1>6, <1>7 DEF MainUsesOld

---------------------------------------------------------------------------
(* The main thread *)

(* The main thread's own variables.                                        *)
LEMMA MainKept ==
  ASSUME UNCHANGED Steps, MainInv, OldStep
  PROVE  MainInv'
<1> USE DEF mainView, inStep, atStep, atEnd
<1>1. CASE OldWorks /\ UNCHANGED <<callView, mainView>>
  BY <1>1 DEF MainInv, callView, curCover
<1>2. CASE OldIsRead /\ UNCHANGED mainView
  <2>1. hRpc # "idle" /\ hRpc' # "idle"
    BY <1>2 DEF OldIsRead, CallGoesOn, CallTakes, CallWaits, CallCopies, CallReleases
  <2> QED
    BY <1>2, <2>1 DEF MainInv, curCover
<1>3. CASE MainUsesOld
  <2>1. CASE MainOpens
    BY <2>1 DEF MainOpens, MainInv, callView, curCover
  <2>2. CASE MainAsks
    BY <2>2 DEF MainAsks, MainInv, curCover
  <2>3. CASE MainGets
    <3>1. oldRead \in Nat /\ oldRead <= oldLeft /\ oldLeft \in Nat
      BY AsksForSome DEF MainInv
    <3>2. /\ step \in 0..Len(Steps) /\ cover \in Nat /\ step # 0 /\ cover <= Len(Steps[step])
          /\ cover # 0 /\ oldLeft <= curCover.length /\ ~result
      BY <2>3 DEF MainGets, MainInv
    <3>3. curCover.length \in Nat
      <4>1. step \in 1..Len(Steps) /\ Steps \in Diffs
        BY <3>2, StepCovers DEF MainInv
      <4>2. Steps[step] \in Covers
        BY <4>1, StepCovers
      <4>3. cover \in 1..Len(Steps[step])
        BY <3>2, <4>2, CoverIs
      <4> QED
        BY <4>2, <4>3, CoverIs DEF curCover
    <3>4. oldLeft - oldRead \in Nat /\ oldLeft - oldRead <= curCover.length
      BY <3>1, <3>2, <3>3
    <3>5. curCover' = curCover
      BY <2>3 DEF MainGets, curCover
    <3>6. CASE mpc' = "write" /\ back' = "old" /\ oldLeft' = oldLeft - oldRead /\ UNCHANGED result
      BY <2>3, <3>2, <3>4, <3>5, <3>6 DEF MainGets, MainInv
    <3>7. CASE mpc' = "finish" /\ result' = FALSE /\ UNCHANGED <<oldLeft, back>>
      BY <2>3, <3>2, <3>7 DEF MainGets, MainInv
    <3> QED
      BY <2>3, <3>6, <3>7 DEF MainGets
  <2>4. CASE MainResets
    BY <2>4 DEF MainResets, MainInv, callView
  <2>5. CASE MainPosts
    BY <2>5, StepCovers, CoverIs DEF MainPosts, MainInv, callView
  <2>6. CASE MainEnds
    BY <2>6 DEF MainEnds, MainInv, callView
  <2> QED
    BY <1>3, <2>1, <2>2, <2>3, <2>4, <2>5, <2>6 DEF MainUsesOld
<1>4. CASE OldStill /\ UNCHANGED mainView
  BY <1>4 DEF OldStill, MainInv, callView, curCover
<1>5. CASE OldStill /\ MainAlone
  <2>0. hRpc' = hRpc
    BY <1>5 DEF OldStill, callView
  <2>1. CASE MainFailsAnywhere
    BY <2>0, <2>1 DEF MainFailsAnywhere, MainInv
  <2>2. CASE MainStarts
    BY <2>0, <2>2 DEF MainStarts, MainInv
  <2>3. CASE MainGoesToStep
    BY <2>0, <2>3, StepCovers DEF MainGoesToStep, MainInv
  <2>4. CASE MainDecodes
    BY <2>0, <2>4 DEF MainDecodes, MainInv
  <2>5. CASE MainNextCover
    <3>1. step \in 1..Len(Steps) /\ Steps \in Diffs /\ cover \in Nat /\ cover <= Len(Steps[step])
      BY <2>5, StepCovers DEF MainNextCover, MainInv
    <3>2. Steps[step] \in Covers
      BY <3>1, StepCovers
    <3>3. CASE mpc' = "step" /\ UNCHANGED <<cover, oldLeft>>
      BY <2>0, <2>5, <3>1, <3>3 DEF MainNextCover, MainInv
    <3>4. CASE /\ cover < Len(Steps[step]) /\ cover' = cover + 1
               /\ oldLeft' = Steps[step][cover + 1].length /\ mpc' = "gap"
      <4>1. cover + 1 \in 1..Len(Steps[step]) /\ Len(Steps[step]) \in Nat
        BY <3>1, <3>2, <3>4, CoverIs
      <4>2. oldLeft' \in Nat /\ oldLeft' = curCover'.length
        BY <2>5, <3>2, <3>4, <4>1, CoverIs DEF MainNextCover, curCover
      <4> QED
        BY <2>0, <2>5, <3>1, <3>4, <4>1, <4>2 DEF MainNextCover, MainInv
    <3> QED
      BY <2>5, <3>3, <3>4 DEF MainNextCover
  <2>6. CASE MainCopies
    <3>1. curCover' = curCover
      BY <2>6 DEF MainCopies, curCover
    <3> QED
      BY <2>0, <2>6, <3>1 DEF MainCopies, MainInv
  <2>7. CASE MainCloses
    BY <2>0, <2>7 DEF MainCloses, MainInv
  <2> QED
    BY <1>5, <2>1, <2>2, <2>3, <2>4, <2>5, <2>6, <2>7 DEF MainAlone
<1> QED
  BY <1>1, <1>2, <1>3, <1>4, <1>5 DEF OldStep

(* The covers that it has been through are good.                           *)
LEMMA GoodKept ==
  ASSUME UNCHANGED Steps, MainInv, GoodInv, OldStep
  PROVE  GoodInv'
<1> USE DEF mainView, inStep, atStep, atEnd, GoodCover
<1>0. Steps \in Diffs /\ step \in 0..Len(Steps) /\ Len(Steps) \in Nat /\ cover \in Nat
  BY StepCovers DEF MainInv
<1>1. CASE UNCHANGED mainView
  BY <1>1 DEF GoodInv
<1>2. CASE mpc' \in {"finish", "closing", "returned"}
  BY <1>2 DEF GoodInv
<1>3. CASE MainGets \/ MainResets \/ MainPosts \/ MainEnds
  <2>1. MainGets \/ MainResets \/ MainEnds => GoodInv'
    BY DEF GoodInv, MainGets, MainResets, MainEnds
  <2>2. CASE MainPosts
    <3>1. cover = 0 /\ \A i \in 1..Len(Steps[step]) : i > cover
      BY <1>0, <2>2 DEF MainPosts, MainInv
    <3> QED
      BY <2>2, <3>1 DEF MainPosts, GoodInv
  <2> QED
    BY <1>3, <2>1, <2>2
<1>4. CASE MainFailsAnywhere \/ MainStarts \/ MainDecodes \/ MainCloses
  BY <1>4 DEF GoodInv, MainFailsAnywhere, MainStarts, MainDecodes, MainCloses
<1>5. CASE MainGoesToStep
  BY <1>0, <1>5 DEF GoodInv, MainGoesToStep
<1>6. CASE MainNextCover
  <2>1. step \in 1..Len(Steps)
    BY <1>0, <1>6 DEF MainNextCover, MainInv
  <2>2. Len(Steps[step]) \in Nat
    BY <1>0, <2>1, StepCovers, CoverIs
  <2> QED
    BY <1>0, <1>6, <2>2 DEF GoodInv, MainNextCover
<1>7. CASE MainCopies
  <2>1. CASE mpc = "gap" /\ mpc' = "old"
    <3>1. GoodCover(step, cover)
      BY <1>7, <2>1 DEF MainCopies, coverOK, curCover
    <3> QED
      BY <1>7, <2>1, <3>1 DEF GoodInv, MainCopies
  <2>2. CASE ~(mpc = "gap" /\ mpc' = "old")
    BY <1>7, <2>2 DEF GoodInv, MainCopies, MainInv
  <2> QED
    BY <2>1, <2>2
<1> QED
  BY <1>1, <1>2, <1>3, <1>4, <1>5, <1>6, <1>7 DEF OldStep, MainUsesOld, MainAlone, MainOpens, MainAsks

(* What the main thread has left, it has left: a patch that has failed     *)
(* stays so.                                                               *)
LEMMA FailedForGood ==
  ASSUME OldStep, on'
  PROVE  on
BY DEF on, atEnd, OldStep, MainUsesOld, MainOpens, MainAsks, MainGets, MainResets, MainPosts, MainEnds,
       MainAlone, MainFailsAnywhere, MainStarts, MainGoesToStep, MainDecodes, MainNextCover,
       MainCopies, MainCloses, mainView

---------------------------------------------------------------------------
(* Program counters *)

(* The worker's steps.                                                     *)
LEMMA WorkKeepsPhases ==
  ASSUME Steps \in Diffs, UNCHANGED Steps, OldTypes, OldPhases, OldWorks,
         UNCHANGED <<callView, mainView>>
  PROVE  OldPhases'
<1> USE DEF OldPhases, Resting, listView, postView, coverView, errView, callView
<1>0. hErr \in BOOLEAN /\ hTErr \in BOOLEAN /\ hLen \in Nat /\ (on' <=> on)
  BY DEF OldTypes, on, atEnd, mainView
<1>a. hStep' = hStep => hCovers' = hCovers
  BY DEF hCovers
<1> HIDE DEF hCovers, on
<1>1. CASE WorkerGoesOn
  BY <1>0, <1>1, <1>a DEF WorkerGoesOn
<1>2. CASE WorkerTakesCovers
  BY <1>0, <1>2 DEF WorkerTakesCovers
<1>3. CASE WorkerWaits
  BY <1>0, <1>3, <1>a DEF WorkerWaits, Worker, Caller
<1>4. CASE WorkerHears
  BY <1>0, <1>4, <1>a DEF WorkerHears
<1>5. CASE WorkerDecodes
  BY <1>0, <1>5, <1>a DEF WorkerDecodes
<1>6. CASE WorkerTakesBuf
  BY <1>0, <1>6, <1>a DEF WorkerTakesBuf
<1>7. CASE WorkerEmpties
  BY <1>0, <1>7, <1>a DEF WorkerEmpties
<1>8. CASE WorkerReadsOld
  BY <1>0, <1>8, <1>a DEF WorkerReadsOld
<1>9. CASE WorkerPushes
  BY <1>0, <1>9, <1>a DEF WorkerPushes, Signalled
<1>10. CASE WorkerFails
  BY <1>0, <1>10, <1>a DEF WorkerFails
<1> QED
  BY <1>1, <1>2, <1>3, <1>4, <1>5, <1>6, <1>7, <1>8, <1>9, <1>10 DEF OldWorks

(* The caller's.                                                           *)
LEMMA ReadKeepsPhases ==
  ASSUME UNCHANGED Steps, OldTypes, OldPhases, OldIsRead, UNCHANGED mainView
  PROVE  OldPhases'
<1> USE DEF OldPhases, Resting, listView, postView, coverView, errView, workerView
<1>0. hErr \in BOOLEAN /\ hRErr \in BOOLEAN /\ hLeft \in Nat /\ (on' <=> on)
  BY DEF OldTypes, on, atEnd, mainView
<1>a. hStep' = hStep => hCovers' = hCovers
  BY DEF hCovers
<1>1. CASE CallGoesOn
  BY <1>0, <1>1, <1>a DEF CallGoesOn
<1>2. CASE CallTakes
  BY <1>0, <1>2, <1>a DEF CallTakes
<1>3. CASE CallWaits
  BY <1>0, <1>3, <1>a DEF CallWaits, Worker, Caller
<1>4. CASE CallCopies
  BY <1>0, <1>4, <1>a DEF CallCopies
<1>5. CASE CallReleases
  BY <1>0, <1>5, <1>a DEF CallReleases, Signalled
<1> QED
  BY <1>1, <1>2, <1>3, <1>4, <1>5 DEF OldIsRead

(* The main thread's, and those of others.                                 *)
LEMMA MainKeepsPhases ==
  ASSUME UNCHANGED Steps, OldPhases, MainInv, OldStep, MainUsesOld \/ OldStill
  PROVE  OldPhases'
<1> USE DEF OldPhases, Resting, listView, postView, coverView, errView, workerView, callView
<1>0. on' => on
  BY FailedForGood
<1>a. hStep' = hStep => hCovers' = hCovers
  BY DEF hCovers
<1>1. CASE MainOpens
  BY <1>0, <1>1, <1>a DEF MainOpens
<1>2. CASE MainAsks
  BY <1>0, <1>2, <1>a DEF MainAsks
<1>3. CASE MainGets
  <2>1. hRpc \in {"ok", "fail"} /\ hRpc' = "idle" /\ on
    BY <1>3 DEF MainGets, on, atEnd
  <2>2. hRpc = "fail" => ~on'
    BY <1>3 DEF MainGets, on, atEnd
  <2>3. ~(on' /\ hRErr)
    BY <2>1, <2>2
  <2> QED
    BY <1>3, <1>a, <2>1, <2>3 DEF MainGets
<1>4. CASE MainResets
  BY <1>0, <1>4, <1>a DEF MainResets
<1>5. CASE MainPosts
  BY <1>0, <1>5, <1>a DEF MainPosts, Signalled
<1>6. CASE MainEnds
  BY <1>0, <1>6, <1>a DEF MainEnds, Signalled
<1>7. CASE OldStill
  BY <1>0, <1>7, <1>a DEF OldStill
<1> QED
  BY <1>1, <1>2, <1>3, <1>4, <1>5, <1>6, <1>7 DEF MainUsesOld

---------------------------------------------------------------------------
(* The buffers *)

(* A buffer that is popped leaves the list.                                *)
LEMMA PoppedOnce ==
  ASSUME NEW list \in Seq(Bufs), NoRepeat(list)
  PROVE  /\ NoRepeat(restBufs(list))
         /\ \A b \in Bufs : InList(b, list) <=> b = firstBuf(list) \/ InList(b, restBufs(list))
         /\ \A b \in Bufs : b = firstBuf(list) => ~InList(b, restBufs(list))
<1>1. CASE list = <<>>
  <2>1. firstBuf(list) = NoBuf /\ restBufs(list) = <<>>
    BY <1>1 DEF restBufs, firstBuf
  <2> QED
    BY <1>1, <2>1, EmptyList, BaseAssumption DEF BaseAssumption
<1>2. CASE list # <<>>
  BY <1>2, ListTail DEF restBufs, firstBuf
<1> QED
  BY <1>1, <1>2

(* Every buffer keeps one owner.                                           *)
LEMMA OwnKept ==
  ASSUME OldTypes, OldPhases, OwnInv, OldStep
  PROVE  OwnInv'
<1> USE DEF OwnInv, listView
<1>0. /\ hFree \in Seq(Bufs) /\ hData \in Seq(Bufs) /\ NoBuf \notin Bufs
      /\ hBuf \in Bufs \union {NoBuf} /\ hCur \in Bufs \union {NoBuf}
  BY BaseAssumption DEF OldTypes, BaseAssumption
<1>1. CASE UNCHANGED <<hFree, hData, hBuf, hCur>>
  BY <1>1
<1>2. CASE WorkerTakesBuf /\ UNCHANGED callView
  <2>1. /\ hBuf = NoBuf /\ hBuf' = firstBuf(hFree) /\ hFree' = restBufs(hFree)
        /\ UNCHANGED <<hData, hCur>>
    BY <1>2 DEF WorkerTakesBuf, OldPhases, callView
  <2>2. /\ NoRepeat(hFree')
        /\ \A b \in Bufs : InList(b, hFree) <=> b = hBuf' \/ InList(b, hFree')
        /\ \A b \in Bufs : b = hBuf' => ~InList(b, hFree')
    BY <1>0, <2>1, PoppedOnce
  <2> QED
    BY <1>0, <2>1, <2>2
<1>3. CASE WorkerPushes /\ UNCHANGED callView
  <2>1. /\ hBuf \in Bufs /\ hBuf' = NoBuf /\ hData' = pushABufAtEnd(hData, hBuf)
        /\ UNCHANGED <<hFree, hCur>>
    BY <1>0, <1>3 DEF WorkerPushes, OldPhases, callView
  <2>2. /\ NoRepeat(hData')
        /\ \A b \in Bufs : InList(b, hData') <=> InList(b, hData) \/ b = hBuf
    BY <1>0, <2>1, ListAppend DEF pushABufAtEnd
  <2> QED
    BY <1>0, <2>1, <2>2
<1>4. CASE CallTakes
  <2>1. /\ hCur = NoBuf /\ hCur' = firstBuf(hData) /\ hData' = restBufs(hData)
        /\ UNCHANGED <<hFree, hBuf>>
    BY <1>4 DEF CallTakes, OldPhases
  <2>2. /\ NoRepeat(hData')
        /\ \A b \in Bufs : InList(b, hData) <=> b = hCur' \/ InList(b, hData')
        /\ \A b \in Bufs : b = hCur' => ~InList(b, hData')
    BY <1>0, <2>1, PoppedOnce
  <2> QED
    BY <1>0, <2>1, <2>2
<1>5. CASE CallReleases
  <2>1. /\ hCur \in Bufs /\ hCur' = NoBuf /\ hFree' = pushABufAtHead(hFree, hCur)
        /\ UNCHANGED <<hData, hBuf>>
    BY <1>0, <1>5 DEF CallReleases, OldPhases
  <2>2. /\ NoRepeat(hFree')
        /\ \A b \in Bufs : InList(b, hFree') <=> InList(b, hFree) \/ b = hCur
    BY <1>0, <2>1, ListPush DEF pushABufAtHead
  <2> QED
    BY <1>0, <2>1, <2>2
<1>6. CASE OldWorks /\ UNCHANGED callView
  <2>1. WorkerPushes \/ WorkerTakesBuf \/ UNCHANGED <<hFree, hData, hBuf, hCur>>
    BY <1>6 DEF OldWorks, WorkerGoesOn, WorkerTakesCovers, WorkerWaits, WorkerHears, WorkerDecodes,
                WorkerEmpties, WorkerReadsOld, WorkerFails, callView
  <2> QED
    BY <1>1, <1>2, <1>3, <1>6, <2>1
<1>7. CASE OldIsRead
  <2>1. CallTakes \/ CallReleases \/ UNCHANGED <<hFree, hData, hBuf, hCur>>
    BY <1>7 DEF OldIsRead, CallGoesOn, CallWaits, CallCopies, workerView
  <2> QED
    BY <1>1, <1>4, <1>5, <2>1
<1>8. CASE MainUsesOld \/ OldStill
  <2>1. UNCHANGED <<hFree, hData, hBuf, hCur>>
    BY <1>8 DEF MainUsesOld, MainOpens, MainAsks, MainGets, MainResets, MainPosts, MainEnds, OldStill,
                workerView, callView
  <2> QED
    BY <1>1, <2>1
<1> QED
  BY <1>6, <1>7, <1>8 DEF OldStep

---------------------------------------------------------------------------
(* How far worker and patcher are *)

(* The worker is within the cover that it decoded last.                    *)
LEMMA MadeIs ==
  ASSUME Steps \in Diffs, OldTypes, CoverInv
  PROVE  /\ hCovers \in Covers /\ Len(hCovers) \in Nat /\ hNo \in 0..Len(hCovers)
         /\ ends(hCovers)[hNo] \in Nat /\ total(hCovers) \in Nat
         /\ ends(hCovers)[hNo] <= total(hCovers)
         /\ hLen \in Nat /\ made \in Nat /\ made + hLen = ends(hCovers)[hNo]
         /\ hNo # 0 => ends(hCovers)[hNo - 1] \in Nat /\ ends(hCovers)[hNo - 1] <= made
<1>1. hCovers \in Covers /\ Len(hCovers) \in Nat /\ hNo \in 0..Len(hCovers) /\ hLen \in Nat
  BY StepCovers, CoverIs DEF OldTypes, hCovers
<1> HIDE DEF hCovers
<1>2. Len(hCovers) \in 0..Len(hCovers) /\ hNo <= Len(hCovers)
  BY <1>1
<1>3. /\ ends(hCovers)[hNo] \in Nat /\ ends(hCovers)[Len(hCovers)] \in Nat
      /\ ends(hCovers)[hNo] <= ends(hCovers)[Len(hCovers)]
  BY <1>1, <1>2, Ends
<1>4. CASE hNo = 0
  <2>1. hLen = 0
    BY <1>4 DEF CoverInv
  <2> QED
    BY <1>1, <1>3, <1>4, <2>1 DEF made, total
<1>5. CASE hNo # 0
  <2>1. hNo \in 1..Len(hCovers) /\ hNo - 1 \in 0..Len(hCovers)
    BY <1>1, <1>5
  <2>2. /\ ends(hCovers)[hNo] = ends(hCovers)[hNo - 1] + hCovers[hNo].length
        /\ ends(hCovers)[hNo - 1] \in Nat
    BY <1>1, <2>1, Ends
  <2>3. hLen <= hCovers[hNo].length /\ hCovers[hNo].length \in Nat
    BY <1>1, <1>5, <2>1, CoverIs DEF CoverInv
  <2> QED
    BY <1>1, <1>3, <2>2, <2>3, SMTT(30) DEF made, total
<1> QED
  BY <1>4, <1>5

(* The patcher is within the cover that it is patching.                    *)
LEMMA UsedIs ==
  ASSUME OldTypes, MainInv, ReadInv, inStep
  PROVE  /\ step \in 1..Len(Steps) /\ CoversNow = Steps[step] /\ CoversNow \in Covers
         /\ Len(CoversNow) \in Nat /\ cover \in 0..Len(CoversNow)
         /\ ends(CoversNow)[cover] \in Nat /\ total(CoversNow) \in Nat
         /\ ends(CoversNow)[cover] <= total(CoversNow)
         /\ used \in Nat /\ used <= ends(CoversNow)[cover]
         /\ cover # 0 => /\ ends(CoversNow)[cover - 1] \in Nat
                         /\ ends(CoversNow)[cover - 1] <= used
         /\ used = ends(CoversNow)[cover] - oldLeft + (IF hRpc = "idle" THEN 0 ELSE Len(hOut))
         /\ oldLeft \in Nat /\ Len(hOut) \in Nat /\ (hRpc # "idle" => Len(hOut) + hLeft <= oldLeft)
<1>1. step \in 1..Len(Steps) /\ Steps \in Diffs /\ cover \in Nat /\ cover <= Len(Steps[step])
  BY StepCovers DEF MainInv
<1>2. CoversNow = Steps[step] /\ CoversNow \in Covers
  BY <1>1, StepCovers DEF CoversNow
<1>3. Len(CoversNow) \in Nat /\ cover \in 0..Len(CoversNow) /\ Len(CoversNow) \in 0..Len(CoversNow)
  BY <1>1, <1>2, CoverIs
<1>4. /\ ends(CoversNow)[cover] \in Nat /\ ends(CoversNow)[Len(CoversNow)] \in Nat
      /\ ends(CoversNow)[cover] <= ends(CoversNow)[Len(CoversNow)] /\ ends(CoversNow)[0] = 0
  BY <1>2, <1>3, Ends
<1>5. oldLeft \in Nat /\ Len(hOut) \in Nat /\ hLeft \in Nat
  BY DEF MainInv, OldTypes
<1>6. ASSUME hRpc # "idle" PROVE Len(hOut) + hLeft <= oldLeft
  <2>1. Len(hOut) + hLeft = oldRead
    BY <1>6 DEF ReadInv
  <2> QED
    BY <1>5, <2>1, AsksForSome
<1>7. used = ends(CoversNow)[cover] - oldLeft + (IF hRpc = "idle" THEN 0 ELSE Len(hOut))
  BY DEF used
<1>8. CASE cover = 0
  <2>1. oldLeft = 0 /\ hRpc = "idle"
    BY <1>8 DEF MainInv, inStep, atEnd
  <2> QED
    BY <1>1, <1>2, <1>3, <1>4, <1>5, <1>6, <1>7, <1>8, <2>1 DEF total
<1>9. CASE cover # 0
  <2>1. cover \in 1..Len(CoversNow) /\ cover - 1 \in 0..Len(CoversNow)
    BY <1>3, <1>9
  <2>2. /\ ends(CoversNow)[cover] = ends(CoversNow)[cover - 1] + CoversNow[cover].length
        /\ ends(CoversNow)[cover - 1] \in Nat /\ CoversNow[cover].length \in Nat
    BY <1>2, <2>1, Ends, CoverIs
  <2>3. oldLeft <= CoversNow[cover].length
    <3>1. CASE mpc = "cover"
      BY <2>2, <3>1 DEF MainInv, atEnd
    <3>2. CASE mpc # "cover"
      BY <1>2, <3>2 DEF MainInv, inStep, curCover
    <3> QED
      BY <3>1, <3>2
  <2>4. used \in Nat /\ used <= ends(CoversNow)[cover] /\ ends(CoversNow)[cover - 1] <= used
    <3>1. CASE hRpc = "idle"
      BY <1>4, <1>7, <2>2, <2>3, <1>5, <3>1, SMTT(30)
    <3>2. CASE hRpc # "idle"
      <4>1. used = ends(CoversNow)[cover] - oldLeft + Len(hOut) /\ Len(hOut) <= oldLeft
        BY <1>5, <1>6, <1>7, <3>2
      <4>2. PICK e \in Nat : e = ends(CoversNow)[cover]
        BY <1>4
      <4>3. PICK b \in Nat : b = ends(CoversNow)[cover - 1]
        BY <2>2
      <4>4. PICK n \in Nat : n = CoversNow[cover].length
        BY <2>2
      <4>5. used = e - oldLeft + Len(hOut) /\ e = b + n /\ oldLeft <= n
        BY <2>2, <2>3, <4>1, <4>2, <4>3, <4>4, Zenon
      <4>6. used \in Nat /\ used <= e /\ b <= used
        BY <1>5, <4>1, <4>5
      <4> QED
        BY <4>2, <4>3, <4>6, Zenon
    <3> QED
      BY <3>1, <3>2
  <2> QED
    BY <1>1, <1>2, <1>3, <1>4, <1>5, <1>6, <1>7, <2>2, <2>4 DEF total
<1> QED
  BY <1>8, <1>9

(* What the patcher has taken it cannot have taken before it was made.     *)
LEMMA TakenIs ==
  ASSUME OldTypes, MainInv, CoverInv, ReadInv
  PROVE  taken \in Nat /\ taken <= total(hCovers)
<1>1. CASE inStep /\ hStep = step
  <2>1. hCovers = CoversNow
    BY <1>1 DEF hCovers, CoversNow
  <2> QED
    BY <1>1, <2>1, UsedIs DEF taken
<1>2. CASE ~(inStep /\ hStep = step)
  BY <1>2, MadeIs DEF taken, MainInv
<1> QED
  BY <1>1, <1>2

(* When the patcher is inside read() and has bytes to copy, the worker is  *)
(* at its step.                                                            *)
LEMMA CopiesInStep ==
  ASSUME OldTypes, MainInv, CoverInv, ReadInv, OldPhases, SyncInv, DataInv, CallCopies
  PROVE  inStep /\ hStep = step /\ hPosted = 0 /\ taken = used /\ hHas > 0
<1>1. hRpc = "loop" /\ ~hRErr /\ hCur # NoBuf
  BY DEF CallCopies
<1>2. mpc = "old" /\ inStep /\ on /\ ~atStep /\ ~atEnd
  BY <1>1 DEF MainInv, inStep, on, atEnd, atStep
<1>3. PICK a \in Nat : InCur(a)
  BY <1>1, <1>2 DEF DataInv
<1>4. taken < a /\ a <= made /\ Len(hBytes[hCur]) = hPos + (a - taken)
  BY <1>1, <1>3, TakenIs DEF InCur
<1>5. taken < total(hCovers)
  BY <1>4, TakenIs, MadeIs DEF MainInv
<1>6. hStep = step /\ taken = used
  <2>1. taken # total(hCovers)
    BY <1>5, TakenIs, MadeIs DEF MainInv
  <2> QED
    BY <2>1 DEF taken
<1>7. hPosted = 0
  <2>1. step \in Nat \ {0}
    BY <1>2, UsedIs
  <2>2. step # step - 1
    BY <2>1
  <2> QED
    BY <1>2, <1>6, <2>2 DEF SyncInv, Untaken, Missed
<1>8. hHas > 0
  <2>1. hPos \in Nat /\ taken \in Nat
    BY TakenIs DEF OldTypes
  <2> QED
    BY <1>3, <1>4, <2>1 DEF hHas
<1> QED
  BY <1>2, <1>6, <1>7, <1>8

---------------------------------------------------------------------------
(* The step of the worker and the step of the patcher *)

(* The worker takes a step only when it is posted.                         *)
LEMMA WorkKeepsSync ==
  ASSUME MainInv, OldTypes, OldPhases, SyncInv, OldWorks, UNCHANGED <<Steps, callView, mainView>>
  PROVE  SyncInv'
<1> USE DEF NullTaken, Untaken, Missed
<1>0. /\ UNCHANGED <<mpc, step, cover, oldLeft, result, hRpc, hOut>>
      /\ (on' <=> on) /\ (atEnd' <=> atEnd) /\ (atStep' <=> atStep) /\ (inStep' <=> inStep)
      /\ used' = used /\ (Bare' <=> Bare)
  BY DEF Bare, readsOld, mainView, callView, on, atEnd, atStep, inStep, used, CoversNow
<1>1. CASE WorkerTakesCovers
  <2>1. hPosted' = 0 /\ hStep' = hPosted /\ hPc' = "hear" /\ hLeave' = hLeave
    BY <1>1 DEF WorkerTakesCovers
  <2>2. CASE hPosted # 0
    <3>1. hLeave = 0 => hPosted = Len(Steps)
      BY <2>2 DEF SyncInv
    <3>2. on => hPosted = step /\ ~atStep
      BY <2>2 DEF SyncInv, inStep, atStep
    <3> QED
      BY <1>0, <2>1, <3>1, <3>2 DEF SyncInv
  <2>3. CASE hPosted = 0
    <3>1. hLeave = 0
      BY <1>1, <2>3 DEF WorkerTakesCovers
    <3> QED
      BY <1>0, <2>1, <2>3, <3>1 DEF SyncInv
  <2> QED
    BY <2>2, <2>3
<1>2. CASE ~WorkerTakesCovers
  <2>1. UNCHANGED <<hPosted, hLeave, hStep>>
    BY <1>2 DEF OldWorks, WorkerGoesOn, WorkerWaits, WorkerHears, WorkerDecodes,
                WorkerTakesBuf, WorkerEmpties, WorkerReadsOld, WorkerPushes, WorkerFails, postView,
                coverView
  <2>2. hStep = 0 /\ hPc \in {"hear", "end", "done"} => hPc' \in {"hear", "end", "done"}
    BY <1>2 DEF OldWorks, WorkerGoesOn, WorkerWaits, WorkerHears, WorkerDecodes,
                WorkerTakesBuf, WorkerEmpties, WorkerReadsOld, WorkerPushes, WorkerFails
  <2> QED
    BY <1>0, <2>1, <2>2 DEF SyncInv
<1> QED
  BY <1>1, <1>2

(* The patcher takes no byte before the worker has taken the step.         *)
LEMMA ReadKeepsSync ==
  ASSUME MainInv, OldTypes, CoverInv, ReadInv, OldPhases, SyncInv, DataInv, OldIsRead,
         UNCHANGED <<Steps, mainView>>
  PROVE  SyncInv'
<1> USE DEF NullTaken, Untaken, Missed
<1>0. /\ UNCHANGED <<mpc, step, cover, oldLeft, result, hPosted, hLeave, hStep, hPc>>
      /\ (on' <=> on) /\ (atEnd' <=> atEnd) /\ (atStep' <=> atStep) /\ (inStep' <=> inStep)
      /\ hRpc # "idle" /\ hRpc' # "idle" /\ (Bare' <=> Bare)
  BY DEF Bare, readsOld, mainView, workerView, postView, coverView, on, atEnd, atStep, inStep, OldIsRead,
         CallGoesOn, CallTakes, CallWaits, CallCopies, CallReleases
<1>1. CASE CallCopies
  BY <1>0, <1>1, CopiesInStep DEF SyncInv, atStep, inStep
<1>2. CASE ~CallCopies
  <2>1. hOut' = hOut
    BY <1>2 DEF OldIsRead, CallGoesOn, CallTakes, CallWaits, CallReleases
  <2>2. used' = used
    BY <1>0, <2>1 DEF used, CoversNow
  <2> QED
    BY <1>0, <2>2 DEF SyncInv
<1> QED
  BY <1>1, <1>2

(* How much the patcher has taken does not change when it asks for more,   *)
(* when it has got it, or when it goes on to its next cover.               *)
LEMMA UsedOnAsking ==
  ASSUME UNCHANGED Steps, MainInv, OldTypes, ReadInv, MainAsks
  PROVE  used' = used
<1>1. ends(CoversNow)[cover] \in Nat /\ oldLeft \in Nat
  BY UsedIs DEF MainAsks, inStep
<1>2. Len(<<>>) = 0
  OBVIOUS
<1> QED
  BY <1>1, <1>2 DEF MainAsks, used, CoversNow, mainView

LEMMA UsedOnGetting ==
  ASSUME UNCHANGED Steps, MainInv, OldTypes, ReadInv, MainGets, mpc' = "write"
  PROVE  used' = used
<1>1. /\ mpc = "old" /\ hRpc = "ok" /\ hRpc' = "idle" /\ oldLeft' = oldLeft - oldRead
      /\ UNCHANGED <<step, cover, hOut>>
  BY DEF MainGets
<1>2. Len(hOut) + hLeft = oldRead /\ hLeft = 0
  BY <1>1 DEF ReadInv
<1>3. ends(CoversNow)[cover] \in Nat /\ oldLeft \in Nat /\ Len(hOut) \in Nat
  BY <1>1, UsedIs DEF inStep
<1>4. oldRead = Len(hOut)
  BY <1>2, <1>3
<1>5. CoversNow' = CoversNow
  BY <1>1 DEF CoversNow
<1> QED
  BY <1>1, <1>3, <1>4, <1>5 DEF used

LEMMA UsedOnNextCover ==
  ASSUME UNCHANGED <<Steps, hRpc, hOut>>, MainInv, OldTypes, ReadInv, MainNextCover
  PROVE  /\ used = ends(CoversNow)[cover]
         /\ mpc' = "gap" => used' = used
<1>1. /\ step \in 1..Len(Steps) /\ CoversNow = Steps[step] /\ CoversNow \in Covers
      /\ used = ends(CoversNow)[cover] - oldLeft + (IF hRpc = "idle" THEN 0 ELSE Len(hOut))
      /\ ends(CoversNow)[cover] \in Nat /\ cover \in 0..Len(CoversNow) /\ Len(CoversNow) \in Nat
  BY UsedIs DEF MainNextCover, inStep
<1>2. oldLeft = 0 /\ hRpc = "idle"
  BY DEF MainNextCover, MainInv, atEnd
<1>3. used = ends(CoversNow)[cover]
  BY <1>1, <1>2
<1>4. ASSUME mpc' = "gap" PROVE used' = used
  <2>0. cover < Len(Steps[step]) /\ cover' = cover + 1 /\ oldLeft' = Steps[step][cover + 1].length
    BY <1>4 DEF MainNextCover
  <2>1. cover + 1 \in 1..Len(CoversNow) /\ (cover + 1) - 1 = cover
    BY <1>1, <2>0
  <2>2. /\ ends(CoversNow)[cover + 1] = ends(CoversNow)[(cover + 1) - 1] + CoversNow[cover + 1].length
        /\ CoversNow[cover + 1].length \in Nat
    <3>1. \A i \in 1..Len(CoversNow) :
            /\ ends(CoversNow)[i] = ends(CoversNow)[i - 1] + CoversNow[i].length
            /\ CoversNow[i].length \in Nat
      BY <1>1, Ends, CoverIs
    <3> QED
      BY <2>1, <3>1, Zenon
  <2>3. CoversNow' = CoversNow
    BY DEF MainNextCover, CoversNow
  <2>4. used' = ends(CoversNow)[cover + 1] - CoversNow[cover + 1].length + 0
    BY <1>1, <1>2, <2>0, <2>3 DEF used
  <2> QED
    BY <1>1, <1>3, <2>1, <2>2, <2>4
<1> QED
  BY <1>3, <1>4

(* The main thread posts a step only when the last one has been taken.     *)
LEMMA MainKeepsSync ==
  ASSUME UNCHANGED Steps, MainInv, GoodInv, OldTypes, ReadInv, OldPhases, SyncInv,
         OldStep, MainUsesOld \/ (OldStill /\ MainAlone)
  PROVE  SyncInv'
<1> USE DEF NullTaken, Untaken, Missed, atStep, inStep, atEnd, on
<1>0. /\ Steps \in Diffs /\ Len(Steps) \in Nat /\ step \in 0..Len(Steps)
      /\ hStep \in 0..Len(Steps) /\ hLeave \in Nat /\ hPosted \in 0..Len(Steps)
      /\ (Bare' <=> Bare)
  BY StepCovers DEF Bare, readsOld, MainInv, OldTypes
<1>1. CASE MainOpens
  <2>1. used' = used
    BY <1>1 DEF MainOpens, used, CoversNow, mainView, callView
  <2> QED
    BY <1>0, <1>1, <2>1 DEF MainOpens, SyncInv, mainView, postView, coverView
<1>2. CASE MainAsks
  <2>1. used' = used
    BY <1>2, UsedOnAsking
  <2> QED
    BY <1>2, <2>1 DEF MainAsks, SyncInv, mainView, postView, coverView, workerView
<1>3. CASE MainGets
  <2>1. UNCHANGED <<step, cover, hPosted, hLeave, hStep, hPc>>
    BY <1>3 DEF MainGets, workerView, postView, coverView
  <2>2. mpc = "old" /\ hLeave # 0
    BY <1>3 DEF MainGets, SyncInv
  <2>3. CASE result' = FALSE /\ mpc' = "finish"
    BY <2>1, <2>2, <2>3 DEF SyncInv
  <2>4. CASE hRpc = "ok" /\ mpc' = "write" /\ oldLeft' = oldLeft - oldRead /\ UNCHANGED result
    <3>5. used' = used
      BY <1>3, <2>4, UsedOnGetting
    <3> QED
      BY <2>1, <2>2, <2>4, <3>5 DEF SyncInv
  <2> QED
    BY <1>3, <2>3, <2>4 DEF MainGets
<1>4. CASE MainResets
  <2>1. step \in 1..Len(Steps) /\ hLeave # 0
    BY <1>0, <1>4 DEF MainResets, MainInv, SyncInv
  <2>2. hLeave' # 0
    BY <1>4, <2>1, CoversAreLeft DEF MainResets, MainInv
  <2> QED
    BY <1>4, <2>1, <2>2 DEF MainResets, SyncInv, coverView
<1>5. CASE MainPosts
  <2>1. step \in 1..Len(Steps) /\ hLeave # 0 /\ cover = 0 /\ oldLeft = 0 /\ hRpc = "idle"
    BY <1>0, <1>5 DEF MainPosts, MainInv, SyncInv
  <2>2. hPosted = 0 /\ hStep = step - 1
    BY <1>5, <2>1 DEF MainPosts, SyncInv
  <2>3. ends(CoversNow)[0] = 0
    BY <1>0, <2>1, StepCovers, Ends DEF CoversNow
  <2>4. CoversNow' = CoversNow
    BY <1>5 DEF MainPosts, CoversNow
  <2>5. used' = 0
    BY <1>5, <2>1, <2>3, <2>4 DEF MainPosts, used, callView
  <2>6. hPosted' = step /\ hLeave' = hLeave /\ mpc' = "cover" /\ UNCHANGED <<step, result, hStep>>
    BY <1>5, <2>1 DEF MainPosts, coverView
  <2>7. step' = hStep' + 1 /\ step' - 1 = hStep' /\ hPosted' # 0
    BY <1>0, <2>1, <2>2, <2>6
  <2> QED
    BY <2>1, <2>5, <2>6, <2>7 DEF SyncInv
<1>6. CASE MainEnds
  <2>1. step = Len(Steps)
    BY <1>6 DEF MainEnds, MainInv
  <2>2. UNCHANGED <<step, hStep, hPc>>
    BY <1>6 DEF MainEnds, coverView
  <2>3. CASE mpc = "last"
    <3>1. hLeave # 0 /\ ((hPosted = 0 /\ hStep = step) \/ Untaken)
      BY <2>3 DEF SyncInv
    <3>2. mpc' = "lastPost" /\ hPosted' = hPosted
      BY <1>6, <2>3 DEF MainEnds
    <3> QED
      BY <1>0, <2>1, <2>2, <3>1, <3>2 DEF SyncInv
  <2>4. CASE mpc = "lastPost"
    <3>1. (hPosted = 0 /\ (hStep = step \/ NullTaken)) \/ Untaken
      BY <2>4 DEF SyncInv
    <3>2. mpc' = "finish" /\ hPosted' = 0 /\ hLeave' = 0
      BY <1>6, <2>4 DEF MainEnds
    <3> QED
      BY <1>0, <2>1, <2>2, <3>1, <3>2 DEF SyncInv
  <2> QED
    BY <1>6, <2>3, <2>4 DEF MainEnds
<1>7. CASE OldStill /\ MainAlone
  <2>0. UNCHANGED <<hPosted, hLeave, hStep, hPc, hRpc, hOut>>
    BY <1>7 DEF OldStill, workerView, callView, postView, coverView
  <2>1. CASE MainFailsAnywhere
    BY <1>0, <2>0, <2>1 DEF MainFailsAnywhere, SyncInv
  <2>2. CASE MainStarts \/ MainDecodes
    BY <2>0, <2>2 DEF MainStarts, MainDecodes, SyncInv, MainInv
  <2>3. CASE MainGoesToStep
    <3>1. /\ hLeave # 0 /\ ~result
          /\ (hPosted = 0 /\ hStep = step) \/ (Untaken /\ step = Len(Steps))
      BY <2>3 DEF MainGoesToStep, SyncInv, MainInv
    <3>2. (step + 1) - 1 = step
      BY <1>0
    <3> QED
      BY <1>0, <2>0, <2>3, <3>1, <3>2 DEF MainGoesToStep, SyncInv
  <2>4. CASE MainNextCover
    <3>1. step \in 1..Len(Steps) /\ CoversNow = Steps[step]
      BY <2>4, UsedIs DEF MainNextCover
    <3>2. oldLeft = 0 /\ hRpc = "idle" /\ hLeave # 0
      BY <2>4 DEF MainNextCover, MainInv, SyncInv
    <3>3. used = ends(CoversNow)[cover] /\ (mpc' = "gap" => used' = used)
      BY <2>0, <2>4, UsedOnNextCover
    <3>4. CASE cover = Len(Steps[step]) /\ mpc' = "step"
      <4>1. used = total(Steps[step])
        BY <3>1, <3>3, <3>4 DEF total
      <4>2. CASE hPosted = 0
        BY <1>0, <2>0, <2>4, <3>2, <3>4, <4>2 DEF MainNextCover, SyncInv
      <4>3. CASE hPosted # 0
        <5>1. hPosted = step /\ hStep = step - 1 /\ used = 0
          BY <2>4, <4>3 DEF MainNextCover, SyncInv
        <5>2. step = Len(Steps)
          <6> SUFFICES ASSUME step # Len(Steps) PROVE FALSE
            OBVIOUS
          <6>1. mpc = "cover" /\ ~atEnd
            BY <2>4 DEF MainNextCover
          <6>2. step <= step
            BY <1>0
          <6>3. total(Steps[step]) \in Nat \ {0}
            BY <3>1, <3>4, <6>1, <6>2, PassedReads
          <6> QED
            BY <4>1, <5>1, <6>3
        <5>3. ASSUME NEW i \in 1..Len(Steps[step]), Steps[step][i].length > 0 PROVE FALSE
          <6>1. total(Steps[step]) \in Nat \ {0}
            BY <1>0, <3>1, <5>3, StepReads
          <6> QED
            BY <4>1, <5>1, <6>1
        <5>4. Bare
          <6>1. Len(Steps) # 0
            BY <1>0, <3>1
          <6>2. total(Steps[Len(Steps)]) = 0
            BY <4>1, <5>1, <5>2
          <6> QED
            BY <5>2, <5>3, <6>1, <6>2 DEF Bare, readsOld
        <5> QED
          BY <1>0, <2>0, <2>4, <3>2, <3>4, <5>1, <5>2, <5>4 DEF MainNextCover, SyncInv
      <4> QED
        BY <4>2, <4>3
    <3>5. CASE /\ cover < Len(Steps[step]) /\ cover' = cover + 1
               /\ oldLeft' = Steps[step][cover + 1].length /\ mpc' = "gap"
      <4>5. used' = used
        BY <3>3, <3>5
      <4> QED
        BY <2>0, <2>4, <3>2, <3>5, <4>5 DEF MainNextCover, SyncInv
    <3> QED
      BY <2>4, <3>4, <3>5 DEF MainNextCover
  <2>5. CASE MainCopies
    <3>1. used' = used
      BY <2>0, <2>5 DEF MainCopies, used, CoversNow
    <3> QED
      BY <2>0, <2>5, <3>1 DEF MainCopies, SyncInv, MainInv
  <2>6. CASE MainCloses
    BY <1>0, <2>0, <2>6 DEF MainCloses, SyncInv
  <2> QED
    BY <1>7, <2>1, <2>2, <2>3, <2>4, <2>5, <2>6 DEF MainAlone
<1> QED
  BY <1>1, <1>2, <1>3, <1>4, <1>5, <1>6, <1>7 DEF MainUsesOld

---------------------------------------------------------------------------
(* The cover of the worker and the call of the patcher *)

(* The worker stays within its cover.                                      *)
LEMMA CoverKept ==
  ASSUME Steps \in Diffs, UNCHANGED Steps, OldTypes, OldPhases, CoverInv, OldStep
  PROVE  CoverInv'
<1>1. CASE UNCHANGED coverView
  BY <1>1 DEF coverView, CoverInv, hCovers
<1>2. CASE WorkerTakesCovers
  <2>1. hNo' = 0 /\ hLen' = 0
    BY <1>2 DEF WorkerTakesCovers, OldPhases, Resting
  <2> QED
    BY <2>1 DEF CoverInv
<1>3. CASE WorkerDecodes
  <2>1. hCovers \in Covers /\ hCovers' = hCovers
    BY <1>3, StepCovers DEF WorkerDecodes, OldTypes, hCovers
  <2>2. hNo + 1 \in 1..Len(hCovers)
    BY <1>3, <2>1, CoverIs, SMTT(30) DEF WorkerDecodes, OldTypes
  <2>3. PICK p \in Nat : p = hCovers[hNo + 1].oldPos
    BY <2>1, <2>2, CoverIs
  <2>4. PICK n \in Nat : n = hCovers[hNo + 1].length
    BY <2>1, <2>2, CoverIs
  <2>5. hNo' = hNo + 1 /\ hAt' = p /\ hLen' = n
    BY <1>3, <2>3, <2>4 DEF WorkerDecodes
  <2>6. hNo' # 0 /\ p = p + (n - n)
    BY <2>2, <2>5
  <2> QED
    BY <2>1, <2>3, <2>4, <2>5, <2>6 DEF CoverInv
<1>4. CASE WorkerReadsOld
  <2>1. hCovers \in Covers /\ hCovers' = hCovers /\ hNo' = hNo /\ hNo \in 0..Len(hCovers)
    BY <1>4, StepCovers DEF WorkerReadsOld, OldTypes, hCovers
  <2>2. hBuf # NoBuf /\ hLen > 0 /\ hLen \in Nat
    BY <1>4 DEF WorkerReadsOld, OldPhases, OldTypes
  <2>3. hReads \in Nat /\ hReads <= hLen /\ hAt' = hAt + hReads /\ hLen' = hLen - hReads
    BY <1>4, <2>2, Portions DEF WorkerReadsOld
  <2>4. hNo \in 1..Len(hCovers)
    BY <2>1, <2>2, CoverIs DEF CoverInv
  <2>5. PICK p \in Nat : p = hCovers[hNo].oldPos
    BY <2>1, <2>4, CoverIs
  <2>6. PICK n \in Nat : n = hCovers[hNo].length
    BY <2>1, <2>4, CoverIs
  <2>7. hLen <= n /\ hAt = p + (n - hLen)
    BY <2>4, <2>5, <2>6 DEF CoverInv
  <2>8. hLen' <= n /\ hAt' = p + (n - hLen')
    BY <2>2, <2>3, <2>7
  <2> QED
    BY <2>1, <2>4, <2>5, <2>6, <2>8 DEF CoverInv
<1>5. UNCHANGED coverView \/ WorkerTakesCovers \/ WorkerDecodes \/ WorkerReadsOld
  BY DEF OldStep, OldWorks, WorkerGoesOn, WorkerWaits, WorkerHears, WorkerTakesBuf, WorkerEmpties,
         WorkerPushes, WorkerFails, OldIsRead, CallGoesOn, CallTakes, CallWaits, CallCopies,
         CallReleases, MainUsesOld, MainOpens, MainAsks, MainGets, MainResets, MainPosts, MainEnds,
         OldStill, workerView
<1> QED
  BY <1>1, <1>2, <1>3, <1>4, <1>5

(* A part of a sequence, element by element.                               *)
LEMMA PieceIs ==
  ASSUME NEW s \in Seq(Nat), NEW p \in Nat, NEW n \in Nat \ {0}, p + n <= Len(s)
  PROVE  SubSeq(s, p + 1, p + n) = [k \in 1..n |-> s[p + k]]
<1> DEFINE t == SubSeq(s, p + 1, p + n)
<1>1. p + 1 \in 1..Len(s) /\ p + n \in 1..Len(s) /\ (p + n) - (p + 1) + 1 = n
  OBVIOUS
<1>2. t \in Seq(Nat) /\ Len(t) = n /\ \A k \in 1..n : t[k] = s[p + k]
  BY <1>1, SubSeqProperties
<1> HIDE DEF t
<1>3. t = [k \in 1..n |-> t[k]]
  BY <1>2
<1> QED
  BY <1>2, <1>3 DEF t

(* The bytes in hand are those of the covers.                              *)
LEMMA CopiedBytes ==
  ASSUME OldTypes, MainInv, CoverInv, ReadInv, OldPhases, SyncInv, DataInv, CallCopies
  PROVE  SubSeq(hBytes[hCur], hPos + 1, hPos + hCopies) = Part(hCovers, taken, hCopies)
<1>1. hRpc = "loop" /\ ~hRErr /\ hCur # NoBuf /\ mpc = "old" /\ on
  BY DEF CallCopies, MainInv, on, atEnd
<1>2. PICK a \in Nat : InCur(a)
  BY <1>1 DEF DataInv
<1>3. PICK t \in Nat : t = taken
  BY TakenIs
<1>4. PICK p \in Nat : p = hPos
  BY DEF OldTypes
<1>5. PICK s \in Seq(Nat) : s = hBytes[hCur]
  BY <1>1 DEF OldTypes
<1>6. /\ t <= a /\ Len(s) = p + (a - t)
      /\ \A k \in 1..(a - t) : s[p + k] = oldByte(hCovers, t + k)
  BY <1>1, <1>2, <1>3, <1>4, <1>5 DEF InCur
<1>7. PICK n \in Nat : n = hCopies
  BY <1>1, Portions
<1>8. p + n <= Len(s) /\ p + 1 \in Nat \ {0} /\ p + n \in Nat
  <2>1. hCopies <= hHas
    BY <1>1, Portions
  <2>2. Len(s) \in Nat
    OBVIOUS
  <2> QED
    BY <1>4, <1>5, <1>7, <2>1, <2>2 DEF hHas
<1>9. n <= a - t
  BY <1>6, <1>8
<1>10. n # 0
  <2>1. hHas \in Nat /\ hHas > 0 /\ hLeft > 0 /\ hLeft \in Nat
    BY <1>1, CopiesInStep, Portions DEF CallCopies, OldTypes
  <2> QED
    BY <1>7, <2>1 DEF hCopies
<1>11. SubSeq(s, p + 1, p + n) = [k \in 1..n |-> s[p + k]]
  BY <1>8, <1>10, PieceIs
<1>12. \A k \in 1..n : k \in 1..(a - t) /\ s[p + k] = oldByte(hCovers, t + k)
  <2>1. \A k \in 1..n : k \in 1..(a - t)
    BY <1>9
  <2> QED
    BY <1>6, <2>1
<1>13. SubSeq(s, p + 1, p + n) = [k \in 1..n |-> oldByte(hCovers, t + k)]
  BY <1>11, <1>12, Zenon
<1> QED
  BY <1>3, <1>4, <1>5, <1>7, <1>13, Zenon DEF Part

(* A call gets the bytes of the cover being patched, from where the last   *)
(* call stopped.                                                           *)
LEMMA ReadKept ==
  ASSUME UNCHANGED Steps, OldTypes, MainInv, CoverInv, ReadInv, OldPhases, SyncInv, DataInv, OldStep
  PROVE  ReadInv'
<1>0. mainView' = mainView => oldRead' = oldRead /\ oldReadPos' = oldReadPos
  BY DEF mainView, oldRead, oldReadPos, curCover
<1>1. CASE UNCHANGED <<mainView, hOut, hLeft>> /\ hRpc # "idle" /\ hRpc' \notin {"ok", "release"}
  BY <1>0, <1>1 DEF ReadInv
<1>2. CASE UNCHANGED <<hRpc, hOut, hLeft>> /\ (hRpc = "idle" \/ UNCHANGED mainView)
  BY <1>0, <1>2 DEF ReadInv
<1>3. CASE hRpc' = "idle"
  BY <1>3 DEF ReadInv
<1>4. CASE MainAsks
  <2>1. oldRead \in Nat /\ oldRead' = oldRead /\ oldReadPos' = oldReadPos
    BY <1>0, <1>4, AsksForSome DEF MainAsks, MainInv
  <2>2. hLeft' = oldRead /\ hOut' = <<>> /\ hRpc' = "loop"
    BY <1>4 DEF MainAsks
  <2>3. Len(<<>>) = 0 /\ Run(oldReadPos, 0) = <<>>
    BY DEF Run
  <2>4. Len(hOut') + hLeft' = oldRead'
    BY <2>1, <2>2, <2>3
  <2>5. hOut' = Run(oldReadPos', Len(hOut'))
    BY <2>1, <2>2, <2>3, Zenon
  <2> QED
    BY <2>2, <2>4, <2>5 DEF ReadInv
<1>5. CASE CallGoesOn /\ UNCHANGED mainView
  BY <1>0, <1>5 DEF CallGoesOn, ReadInv
<1>6. CASE CallCopies /\ UNCHANGED mainView
  <2>1. inStep /\ hStep = step /\ taken = used /\ hHas > 0
    BY <1>6, CopiesInStep
  <2>2. hRpc = "loop" /\ hCur # NoBuf /\ mpc = "old" /\ hLeft > 0 /\ hLeft \in Nat
    BY <1>6 DEF CallCopies, MainInv, OldTypes
  <2>3. /\ step \in 1..Len(Steps) /\ CoversNow = Steps[step] /\ CoversNow \in Covers
        /\ Len(CoversNow) \in Nat /\ cover \in 0..Len(CoversNow)
        /\ oldLeft \in Nat /\ Len(hOut) \in Nat /\ Len(hOut) + hLeft <= oldLeft
        /\ used = ends(CoversNow)[cover] - oldLeft + Len(hOut) /\ used \in Nat
    BY <2>1, <2>2, UsedIs
  <2>4. cover # 0 /\ hCovers = CoversNow
    BY <2>1, <2>2 DEF MainInv, hCovers, CoversNow
  <2>5. cover \in 1..Len(CoversNow)
    BY <2>3, <2>4
  <2>6. PICK b \in Nat : b = ends(CoversNow)[cover - 1] /\ b <= used
    BY <2>1, <2>4, UsedIs
  <2>7. PICK len \in Nat : len = CoversNow[cover].length
    BY <2>3, <2>5, CoverIs
  <2>8. PICK pos \in Nat : pos = CoversNow[cover].oldPos
    BY <2>3, <2>5, CoverIs
  <2>9. ends(CoversNow)[cover] = b + len
    BY <2>3, <2>5, <2>6, <2>7, Ends
  <2>10. PICK n \in Nat : n = hCopies
    BY <2>2, Portions
  <2>11. n <= hLeft /\ n > 0
    <3>1. hHas \in Nat /\ hCopies <= hLeft
      BY <2>2, Portions
    <3> QED
      BY <2>1, <2>2, <2>10, <3>1 DEF hCopies
  <2>12. PICK u \in Nat : u = used
    BY <2>3
  <2>a. PICK l \in Nat : l = oldLeft
    BY <2>3
  <2>b. PICK o \in Nat : o = Len(hOut)
    BY <2>3
  <2>c. PICK h \in Nat : h = hLeft
    BY <2>2
  <2>d. u = (b + len) - l + o
    BY <2>3, <2>9, <2>12, <2>a, <2>b
  <2>e. l <= len /\ o + h <= l /\ n <= h /\ b <= u
    <3>1. oldLeft <= len
      BY <2>2, <2>3, <2>7 DEF MainInv, curCover
    <3> QED
      BY <2>3, <2>6, <2>11, <2>12, <2>a, <2>b, <2>c, <3>1
  <2>f. CoversNow \in Covers
    BY <2>3
  <2>13. b <= u /\ u + n <= b + len
    BY <2>d, <2>e
  <2>14. Part(CoversNow, u, n) = Run(pos + (u - b), n)
    <3>1. ends(CoversNow)[cover - 1] <= u /\ u + n <= ends(CoversNow)[cover]
      BY <2>6, <2>9, <2>13
    <3>2. Part(CoversNow, u, n)
            = Run(CoversNow[cover].oldPos + (u - ends(CoversNow)[cover - 1]), n)
      BY <2>f, <2>5, <3>1, CoverPart, ZenonT(60)
    <3> QED
      BY <2>6, <2>8, <3>2
  <2>15. PICK r \in Nat : r = oldReadPos /\ r + o = pos + (u - b)
    <3>1. oldReadPos = (pos + len) - l
      BY <2>3, <2>7, <2>8, <2>a, SMTT(30) DEF oldReadPos, curCover
    <3>2. (pos + len) - l \in Nat /\ ((pos + len) - l) + o = pos + (u - b)
      BY <2>d, <2>e
    <3> QED
      BY <3>1, <3>2
  <2>17. hOut = Run(oldReadPos, Len(hOut)) /\ Len(hOut) + hLeft = oldRead
    BY <2>2 DEF ReadInv
  <2>18. hOut' = Run(r, o) \o Run(r + o, n)
    <3>1. hOut' = hOut \o Part(hCovers, taken, n)
      BY <1>6, <2>10, CopiedBytes DEF CallCopies
    <3> QED
      BY <2>1, <2>4, <2>12, <2>14, <2>15, <2>17, <2>b, <3>1
  <2>19. hOut' = Run(r, o + n)
    BY <2>18, RunCat, ZenonT(60)
  <2>20. Len(hOut') = o + n
    BY <2>19, RunBytes
  <2>21. hLeft' = hLeft - n /\ hRpc' \in {"release", "loop"}
    BY <1>6, <2>10 DEF CallCopies
  <2>22. Len(hOut') + hLeft' = oldRead /\ Len(hOut') > 0
    BY <2>11, <2>17, <2>20, <2>21, <2>b, <2>c
  <2>23. oldRead' = oldRead /\ oldReadPos' = oldReadPos
    BY <1>0, <1>6
  <2>24. hOut' = Run(oldReadPos', Len(hOut'))
    BY <2>15, <2>19, <2>20, <2>23
  <2> QED
    BY <2>21, <2>22, <2>23, <2>24 DEF ReadInv
<1>7. OldWorks /\ UNCHANGED <<callView, mainView>> => UNCHANGED <<hRpc, hOut, hLeft, mainView>>
  BY DEF callView
<1>8. OldIsRead /\ UNCHANGED mainView =>
        \/ (CallGoesOn \/ CallCopies) /\ UNCHANGED mainView
        \/ UNCHANGED <<mainView, hOut, hLeft>> /\ hRpc # "idle" /\ hRpc' \notin {"ok", "release"}
  BY DEF OldIsRead, CallTakes, CallWaits, CallReleases
<1>9. MainUsesOld => \/ MainAsks \/ hRpc' = "idle"
                     \/ UNCHANGED <<hRpc, hOut, hLeft>> /\ (hRpc = "idle" \/ UNCHANGED mainView)
  BY DEF MainUsesOld, MainOpens, MainGets, MainResets, MainPosts, MainEnds, callView, MainInv
<1>10. OldStill /\ (MainAlone \/ UNCHANGED mainView) =>
         UNCHANGED <<hRpc, hOut, hLeft>> /\ (hRpc = "idle" \/ UNCHANGED mainView)
  BY DEF OldStill, callView, MainInv, MainAlone, MainFailsAnywhere, MainStarts, MainGoesToStep,
         MainDecodes, MainNextCover, MainCopies, MainCloses
<1> QED
  BY <1>1, <1>2, <1>3, <1>4, <1>5, <1>6, <1>7, <1>8, <1>9, <1>10 DEF OldStep

---------------------------------------------------------------------------
(* Sleeping, and the memory of the steps *)

(* When the patcher sleeps for bytes the worker has a buffer to fill, and  *)
(* covers to fill it from.                                                 *)
LEMMA NotBothSleep ==
  ASSUME OldTypes, MainInv, CoverInv, ReadInv, OldPhases, SyncInv, DataInv, OwnInv,
         ~hErr, hData = <<>>, hRpc \in {"getBuf", "waitBuf"},
         \/ hPc \in {"getBuf", "waitBuf"} /\ hFree = <<>>
         \/ hPc \in {"getCovers", "waitCovers"} /\ hPosted = 0
  PROVE  FALSE
<1>1. hCur = NoBuf /\ hBuf = NoBuf /\ hLeft > 0 /\ ~hRErr
  BY DEF OldPhases, Resting
<1>2. mpc = "old" /\ inStep /\ on /\ ~atStep /\ step # 0
  BY DEF MainInv, inStep, on, atEnd, atStep
<1>3. CASE hPc \in {"getBuf", "waitBuf"} /\ hFree = <<>>
  <2>1. PICK b \in Bufs : TRUE
    BY BaseAssumption DEF BaseAssumption
  <2>2. ~InList(b, hFree) /\ ~InList(b, hData) /\ b # hBuf /\ b # hCur
    BY <1>1, <1>3, <2>1, EmptyList, BaseAssumption DEF BaseAssumption
  <2> QED
    BY <2>2 DEF OwnInv
<1>4. CASE hPc \in {"getCovers", "waitCovers"} /\ hPosted = 0
  <2>1. hNo = Len(hCovers) /\ hLen = 0
    BY <1>4 DEF OldPhases, Resting
  <2>2. hStep = step /\ taken = used
    BY <1>2, <1>4 DEF SyncInv, taken, NullTaken, Untaken, Missed, inStep, atEnd
  <2>3. PICK a \in Nat : InCur(a) /\ \E b \in Nat : InData(a, b) /\ InBuf(b)
    BY <1>1, <1>2 DEF DataInv
  <2>4. PICK b \in Nat : InData(a, b) /\ InBuf(b)
    BY <2>3
  <2>5. a = taken /\ b = made
    BY <1>1, <2>3, <2>4 DEF InCur, InBuf
  <2>6. a = b
    <3>1. <<>> \in Seq(Bufs)
      OBVIOUS
    <3> QED
      BY <2>4, <3>1, CoverChainEnds DEF InData
  <2>7. made = total(hCovers)
    BY <2>1, MadeIs DEF MainInv, total
  <2>8. hCovers = CoversNow
    BY <2>2 DEF hCovers, CoversNow
  <2>9. /\ ends(CoversNow)[cover] \in Nat /\ total(CoversNow) \in Nat
        /\ ends(CoversNow)[cover] <= total(CoversNow)
        /\ used = ends(CoversNow)[cover] - oldLeft + Len(hOut)
        /\ oldLeft \in Nat /\ Len(hOut) \in Nat /\ Len(hOut) + hLeft <= oldLeft
    BY <1>2, UsedIs
  <2>10. used = total(CoversNow)
    BY <2>2, <2>5, <2>6, <2>7, <2>8
  <2>11. hLeft \in Nat
    BY DEF OldTypes
  <2>12. PICK e \in Nat : e = ends(CoversNow)[cover]
    BY <2>9
  <2>13. PICK t \in Nat : t = total(CoversNow)
    BY <2>9
  <2>14. e <= t /\ t = e - oldLeft + Len(hOut)
    BY <2>9, <2>10, <2>12, <2>13
  <2> QED
    BY <1>1, <2>9, <2>11, <2>14
<1> QED
  BY <1>3, <1>4

(* Only one of the two sleeps, and whoever brings what it waits for wakes  *)
(* it.                                                                     *)
LEMMA SleepKept ==
  ASSUME UNCHANGED Steps, OldTypes, MainInv, CoverInv, ReadInv, OldPhases, SleepInv,
         SyncInv, DataInv, OwnInv, OldStep
  PROVE  SleepInv'
<1> USE DEF SleepInv, listView, postView, coverView, errView
<1>0. hWaiters \subseteq {Worker, Caller} /\ Worker # Caller
  BY DEF OldTypes, Worker, Caller
<1>1. CASE Signalled /\ (Worker \notin hWaiters \/ Caller \notin hWaiters)
  <2>1. hWaiters' = {}
    BY <1>0, <1>1 DEF Signalled
  <2> QED
    BY <2>1
<1>2. CASE WorkerWaits
  <2>1. Caller \notin hWaiters
    BY <1>2, NotBothSleep DEF WorkerWaits, OldPhases
  <2> QED
    BY <1>0, <1>2, <2>1 DEF WorkerWaits
<1>3. CASE CallWaits
  <2>1. Worker \notin hWaiters
    BY <1>3, NotBothSleep DEF CallWaits, OldPhases
  <2> QED
    BY <1>0, <1>3, <2>1 DEF CallWaits, workerView
<1>4. CASE OldWorks /\ UNCHANGED <<callView, mainView>>
  <2>1. CASE WorkerGoesOn \/ WorkerTakesCovers \/ WorkerHears \/ WorkerDecodes \/ WorkerTakesBuf
             \/ WorkerEmpties \/ WorkerReadsOld
    <3>1. Worker \notin hWaiters /\ UNCHANGED <<hWaiters, hData>>
      BY <2>1 DEF OldPhases, WorkerGoesOn, WorkerTakesCovers, WorkerHears, WorkerDecodes,
                  WorkerTakesBuf, WorkerEmpties, WorkerReadsOld
    <3> QED
      BY <1>0, <3>1
  <2>2. CASE WorkerPushes
    <3>1. Worker \notin hWaiters /\ Signalled
      BY <2>2 DEF OldPhases, WorkerPushes
    <3> QED
      BY <1>1, <3>1
  <2>3. CASE WorkerFails
    <3>1. Worker \notin hWaiters /\ hWaiters' \subseteq hWaiters /\ UNCHANGED hData
      BY <2>3 DEF OldPhases, WorkerFails
    <3> QED
      BY <1>0, <3>1
  <2> QED
    BY <1>2, <1>4, <2>1, <2>2, <2>3 DEF OldWorks
<1>5. CASE OldIsRead /\ UNCHANGED mainView
  <2>1. CASE CallGoesOn \/ CallCopies
    <3>1. Caller \notin hWaiters /\ UNCHANGED <<hWaiters, hFree, hPosted, hPc>>
      BY <2>1 DEF CallGoesOn, CallCopies, workerView, OldPhases
    <3> QED
      BY <1>0, <3>1
  <2>2. CASE CallTakes
    <3>1. Caller \notin hWaiters /\ UNCHANGED <<hWaiters, hFree, hPosted, hPc>>
      BY <2>2 DEF OldPhases, CallTakes
    <3> QED
      BY <1>0, <3>1
  <2>3. CASE CallReleases
    <3>1. Caller \notin hWaiters /\ Signalled
      BY <2>3 DEF OldPhases, CallReleases
    <3> QED
      BY <1>1, <3>1
  <2> QED
    BY <1>3, <1>5, <2>1, <2>2, <2>3 DEF OldIsRead
<1>6. CASE MainUsesOld
  <2>1. CASE MainAsks \/ MainGets \/ MainResets
    BY <2>1 DEF MainAsks, MainGets, MainResets, workerView
  <2>2. CASE MainOpens
    BY <2>2 DEF MainOpens, OldPhases
  <2>3. CASE MainPosts \/ (MainEnds /\ mpc = "lastPost")
    <3>1. Caller \notin hWaiters /\ Signalled
      BY <2>3 DEF OldPhases, MainPosts, MainEnds, MainInv
    <3> QED
      BY <1>1, <3>1
  <2>4. CASE MainEnds /\ mpc # "lastPost"
    BY <2>4 DEF MainEnds
  <2> QED
    BY <1>6, <2>1, <2>2, <2>3, <2>4 DEF MainUsesOld
<1>7. CASE OldStill
  BY <1>0, <1>7 DEF OldStill, workerView
<1> QED
  BY <1>4, <1>5, <1>6, <1>7 DEF OldStep

(* When the main thread resets the step's memory the worker has decoded    *)
(* every cover of the step before.                                         *)
LEMMA ResetFindsDone ==
  ASSUME OldTypes, MainInv, GoodInv, CoverInv, ReadInv, OldPhases, SyncInv, DataInv,
         mpc = "reset"
  PROVE  /\ hPosted = 0
         /\ hStep # 0 => hPc # "hear" /\ hNo = Len(hCovers)
<1>1. atStep /\ ~inStep /\ ~atEnd /\ on /\ hRpc = "idle"
  BY DEF atStep, inStep, atEnd, on, MainInv
<1>2. hPosted = 0 /\ (hStep = step - 1 \/ hStep = 0)
  BY <1>1 DEF SyncInv, NullTaken, Untaken, Missed
<1>3. ASSUME hStep # 0
      PROVE  hPc # "hear" /\ hNo = Len(hCovers)
  <2>1. hStep = step - 1 /\ step \in 1..Len(Steps) /\ Len(Steps) \in Nat
    BY <1>1, <1>2, <1>3, StepCovers DEF MainInv
  <2>2. /\ hStep \in 1..Len(Steps) /\ hStep \in 1..step /\ hStep # step /\ hStep # Len(Steps)
        /\ Steps \in Diffs
    BY <1>3, <2>1 DEF MainInv
  <2>3. hCovers = Steps[hStep]
    BY <2>2, StepCovers DEF hCovers
  <2>4. taken = total(hCovers)
    BY <1>1 DEF taken
  <2>5. PICK a \in Nat : InCur(a)
    BY <1>1 DEF DataInv, OldPhases
  <2>6. total(hCovers) <= made
    BY <2>4, <2>5, TakenIs, MadeIs DEF InCur, MainInv
  <2>7. /\ hCovers \in Covers /\ Len(hCovers) \in Nat /\ hNo \in 0..Len(hCovers)
        /\ ends(hCovers)[hNo] \in Nat /\ total(hCovers) \in Nat
        /\ ends(hCovers)[hNo] <= total(hCovers) /\ made + hLen = ends(hCovers)[hNo]
        /\ hLen \in Nat /\ made \in Nat
    BY <2>2, MadeIs
  <2>8. ends(hCovers)[hNo] = total(hCovers)
    BY <2>6, <2>7
  <2>9. total(hCovers) # 0
    BY <1>1, <2>1, <2>2, <2>3, PassedReads
  <2>10. hPc # "hear"
    <3>1. ends(hCovers)[0] = 0
      BY <2>7, Ends
    <3> QED
      BY <2>8, <2>9, <3>1 DEF OldPhases
  <2>11. ASSUME hNo # Len(hCovers) PROVE FALSE
    <3>1. hNo + 1 \in 1..Len(hCovers) /\ hNo + 1 \in 0..Len(hCovers) /\ (hNo + 1) - 1 = hNo
          /\ Len(hCovers) \in 0..Len(hCovers) /\ hNo + 1 <= Len(hCovers)
      BY <2>7, <2>11
    <3>2. GoodCover(hStep, hNo + 1)
      BY <1>1, <2>2, <2>3, <3>1 DEF GoodInv
    <3>3. hCovers[hNo + 1].length \in Nat /\ hCovers[hNo + 1].length # 0
      BY <2>2, <2>3, <2>7, <3>1, <3>2, CoverIs DEF GoodCover
    <3>4. ends(hCovers)[hNo + 1] = ends(hCovers)[hNo] + hCovers[hNo + 1].length
      <4>1. \A i \in 1..Len(hCovers) : ends(hCovers)[i] = ends(hCovers)[i - 1] + hCovers[i].length
        BY <2>7, Ends
      <4>2. ends(hCovers)[hNo + 1] = ends(hCovers)[(hNo + 1) - 1] + hCovers[hNo + 1].length
        BY <3>1, <4>1, Zenon
      <4> QED
        BY <3>1, <4>2
    <3>5. ends(hCovers)[hNo + 1] <= ends(hCovers)[Len(hCovers)]
      BY <2>7, <3>1, Ends
    <3> QED
      BY <2>7, <2>8, <3>3, <3>4, <3>5 DEF total
  <2> QED
    BY <2>10, <2>11
<1> QED
  BY <1>2, <1>3

(* The covers of a step stay in memory until they are decoded.             *)
LEMMA MemKept ==
  ASSUME UNCHANGED Steps, OldTypes, MainInv, GoodInv, CoverInv, ReadInv, OldPhases,
         SyncInv, DataInv, MemInv, OldStep
  PROVE  MemInv'
<1> USE DEF MemInv, listView, postView, coverView, errView, workerView, mainView
<1>a. hStep' = hStep => hCovers' = hCovers
  BY DEF hCovers
<1>0. Len(hCovers) \in Nat /\ hNo \in 0..Len(hCovers)
  BY StepCovers, CoverIs DEF OldTypes, hCovers, MainInv
<1> HIDE DEF hCovers
<1>1. CASE OldWorks /\ UNCHANGED <<callView, mainView>>
  <2>1. CASE WorkerTakesCovers
    BY <1>1, <2>1 DEF WorkerTakesCovers
  <2>2. CASE WorkerDecodes
    BY <1>0, <1>1, <1>a, <2>2 DEF WorkerDecodes
  <2>3. CASE ~WorkerTakesCovers /\ ~WorkerDecodes
    <3>1. /\ UNCHANGED <<hPosted, hStep, hNo>> /\ hPc' # "hear"
          /\ hPc \in {"end", "done"} => hPc' \in {"end", "done"}
      BY <1>1, <2>3 DEF OldWorks, WorkerGoesOn, WorkerWaits, WorkerHears,
                WorkerTakesBuf, WorkerEmpties, WorkerReadsOld, WorkerPushes, WorkerFails
    <3> QED
      BY <1>1, <1>a, <3>1
  <2> QED
    BY <2>1, <2>2, <2>3
<1>2. CASE OldIsRead /\ UNCHANGED mainView
  BY <1>2, <1>a DEF OldIsRead, CallGoesOn, CallTakes, CallWaits, CallCopies, CallReleases
<1>3. CASE MainOpens
  BY <1>3, <1>a DEF MainOpens
<1>4. CASE MainAsks
  BY <1>4, <1>a DEF MainAsks
<1>5. CASE MainGets
  BY <1>5, <1>a DEF MainGets
<1>6. CASE MainResets
  BY <1>6, <1>a, <1>0, ResetFindsDone DEF MainResets
<1>7. CASE MainPosts
  BY <1>7, <1>a DEF MainPosts
<1>8. CASE MainEnds
  BY <1>8, <1>a DEF MainEnds
<1>9. CASE OldStill /\ UNCHANGED mainView
  BY <1>9, <1>a DEF OldStill
<1>10. CASE OldStill /\ MainAlone
  <2>1. stepMem' = stepMem /\ (mpc' \in {"data", "post"} => mpc \in {"data", "post"} /\ UNCHANGED step)
    BY <1>10 DEF MainAlone, MainFailsAnywhere, MainStarts, MainGoesToStep, MainDecodes,
                 MainNextCover, MainCopies, MainCloses, MainInv
  <2> QED
    BY <1>10, <1>a, <2>1 DEF OldStill
<1> QED
  BY <1>1, <1>2, <1>3, <1>4, <1>5, <1>6, <1>7, <1>8, <1>9, <1>10 DEF OldStep, MainUsesOld

---------------------------------------------------------------------------
(* The listener *)

(* One more.                                                               *)
LEMMA RunNext ==
  ASSUME NEW k \in Nat
  PROVE  Append(Run(1, k), k + 1) = Run(1, k + 1)
BY DEF Run

(* It hears of every step once, in order.                                  *)
LEMMA HeardKept ==
  ASSUME UNCHANGED Steps, OldTypes, MainInv, OldPhases, SyncInv, HeardInv, OldStep
  PROVE  HeardInv'
<1> USE DEF NullTaken, Untaken, Missed, Bare, listView, postView, coverView, errView, workerView, mainView
<1>0. /\ Len(Steps) \in Nat /\ Len(Steps') = Len(Steps) /\ hStep \in 0..Len(Steps)
      /\ hPosted \in 0..Len(Steps) /\ hLeave \in Nat
      /\ \A n \in 0..Len(Steps) : allHeard(n)' <=> allHeard(n)
  BY StepCovers DEF OldTypes, MainInv, allHeard, readsOld
<1>a. hLeave = 0 /\ ~NullTaken => allHeard(hStep)
  BY <1>0 DEF SyncInv, allHeard
<1>1. CASE WorkerTakesCovers
  <2>1. hStep' = hPosted /\ hLeave' = hLeave /\ hHeard' = hHeard /\ hPc' = "hear" /\ hPc # "hear"
        /\ hPc \notin {"end", "done"}
    BY <1>1 DEF WorkerTakesCovers
  <2>2. CASE hPosted # 0
    <3>1. hPosted - 1 = hStep
      BY <1>0, <2>2 DEF SyncInv
    <3> QED
      BY <2>1, <2>2, <3>1 DEF HeardInv
  <2>3. CASE hPosted = 0
    <3>1. hLeave = 0 /\ allHeard(hStep)
      BY <1>1, <1>a, <2>1, <2>3 DEF WorkerTakesCovers
    <3>2. hHeard = Run(1, hStep)
      BY <2>1 DEF HeardInv
    <3> QED
      BY <1>0, <2>1, <2>3, <3>1, <3>2 DEF HeardInv
  <2> QED
    BY <2>2, <2>3
<1>2. CASE WorkerHears
  <2>1. /\ hPc = "hear" /\ hHeard' = Append(hHeard, hStep) /\ UNCHANGED <<hStep, hLeave>>
        /\ hPc' = IF hStep = 0 THEN "end" ELSE "cover"
    BY <1>2 DEF WorkerHears
  <2>2. CASE NullTaken
    BY <1>0, <2>1, <2>2 DEF HeardInv
  <2>3. CASE ~NullTaken
    <3>1. hStep # 0 /\ hHeard = Run(1, hStep - 1)
      BY <2>1, <2>3 DEF HeardInv
    <3>2. hStep - 1 \in Nat /\ (hStep - 1) + 1 = hStep
      BY <1>0, <3>1
    <3>3. PICK k \in Nat : k = hStep - 1 /\ k + 1 = hStep
      BY <3>2
    <3>4. Append(Run(1, k), k + 1) = Run(1, k + 1)
      BY RunNext
    <3>5. hHeard' = Run(1, hStep')
      BY <2>1, <3>1, <3>3, <3>4
    <3> QED
      BY <2>1, <2>3, <3>1, <3>5 DEF HeardInv
  <2> QED
    BY <2>2, <2>3
<1>3. CASE OldWorks /\ ~WorkerTakesCovers /\ ~WorkerHears
  <2>1. /\ UNCHANGED <<hStep, hLeave, hHeard>> /\ hPc # "hear" /\ hPc' # "hear"
        /\ hPc \in {"end", "done"} => hPc' \in {"end", "done"}
    BY <1>3 DEF OldWorks, WorkerGoesOn, WorkerWaits, WorkerDecodes, WorkerTakesBuf, WorkerEmpties,
                WorkerReadsOld, WorkerPushes, WorkerFails
  <2>2. CASE NullTaken
    BY <1>0, <2>1, <2>2 DEF HeardInv
  <2>3. CASE ~NullTaken
    <3>1. hHeard = Run(1, hStep)
      BY <2>1, <2>3 DEF HeardInv
    <3> QED
      BY <1>0, <1>a, <2>1, <2>3, <3>1 DEF HeardInv
  <2> QED
    BY <2>2, <2>3
<1>4. CASE UNCHANGED <<hStep, hLeave, hHeard, hPc>>
  BY <1>0, <1>4 DEF HeardInv
<1>5. CASE MainOpens
  BY <1>0, <1>5 DEF MainOpens, HeardInv
<1>6. CASE MainResets
  <2>1. step \in 1..Len(Steps) /\ hLeave # 0
    BY <1>0, <1>6 DEF MainResets, MainInv, SyncInv, atStep, inStep, atEnd
  <2>2. hLeave' # 0
    BY <1>6, <2>1, CoversAreLeft DEF MainResets, MainInv
  <2> QED
    BY <1>0, <1>6, <2>1, <2>2 DEF MainResets, HeardInv
<1>7. CASE MainPosts
  <2>1. hLeave' = hLeave
    BY <1>7 DEF MainPosts, MainInv, atStep
  <2> QED
    BY <1>0, <1>7, <2>1 DEF MainPosts, HeardInv
<1>8. CASE MainEnds
  <2>1. UNCHANGED <<hStep, hPc, hHeard>> /\ hLeave' \in {hLeave, 0}
    BY <1>8 DEF MainEnds
  <2>2. CASE NullTaken
    BY <1>0, <2>1, <2>2 DEF HeardInv
  <2>3. CASE ~NullTaken
    <3>1. allHeard(hStep)
      BY <1>0, <1>8, <2>3 DEF MainEnds, MainInv, SyncInv, on, atEnd, atStep, inStep, allHeard
    <3>2. hPc = "hear" => hStep # 0 /\ hHeard = Run(1, hStep - 1)
      BY <2>3 DEF HeardInv
    <3>3. hPc # "hear" => hHeard = Run(1, hStep)
      BY <2>3 DEF HeardInv
    <3> QED
      BY <1>0, <2>1, <3>1, <3>2, <3>3 DEF HeardInv
  <2> QED
    BY <2>2, <2>3
<1>9. \/ WorkerTakesCovers \/ WorkerHears \/ (OldWorks /\ ~WorkerTakesCovers /\ ~WorkerHears)
      \/ UNCHANGED <<hStep, hLeave, hHeard, hPc>> \/ MainOpens \/ MainResets \/ MainPosts
      \/ MainEnds
  BY DEF OldStep, OldIsRead, CallGoesOn, CallTakes, CallWaits, CallCopies, CallReleases,
         MainUsesOld, MainAsks, MainGets, OldStill
<1> QED
  BY <1>1, <1>2, <1>3, <1>4, <1>5, <1>6, <1>7, <1>8, <1>9

---------------------------------------------------------------------------
(* The bytes between the worker and the patcher *)

(* From the buffers to DataInv.                                            *)
LEMMA DataIs ==
  ASSUME NEW a \in Nat, InCur(a)', ~hErr' => \E b \in Nat : InData(a, b)' /\ InBuf(b)'
  PROVE  DataInv'
BY DEF DataInv

(* Where the worker is in its covers decides what it has made.             *)
LEMMA MadeKept ==
  ASSUME UNCHANGED <<Steps, hStep>>
  PROVE  hCovers' = hCovers /\ (UNCHANGED <<hNo, hLen>> => made' = made)
BY DEF hCovers, made

(* The worker takes nothing from the patcher.                              *)
LEMMA WorkKeepsTaken ==
  ASSUME UNCHANGED <<Steps, hStep, callView, mainView>>
  PROVE  taken' = taken
BY DEF taken, inStep, used, hCovers, CoversNow, callView, mainView

(* The patcher's buffer stays as it is while nobody writes to it.          *)
LEMMA CurKept ==
  ASSUME NEW a \in Nat, InCur(a), UNCHANGED <<hCur, hPos>>, hCovers' = hCovers, taken' = taken,
         made \in Nat, made' \in Nat, made <= made',
         hCur # NoBuf => hBytes'[hCur] = hBytes[hCur],
         hRpc' = "release" <=> hRpc = "release"
  PROVE  InCur(a)'
<1>1. a <= made'
  BY DEF InCur
<1> QED
  BY <1>1, Zenon DEF InCur

(* The worker has taken out all of its step when it takes the next.        *)
LEMMA TakesWhenDone ==
  ASSUME Steps \in Diffs, MainInv, OldTypes, CoverInv, ReadInv, OldPhases, SyncInv, on,
         WorkerTakesCovers, UNCHANGED <<Steps, callView, mainView>>
  PROVE  /\ taken = total(hCovers) /\ hBuf = NoBuf /\ ~hErr
         /\ taken' = 0 /\ made' = 0
<1>0. /\ UNCHANGED <<mpc, step, cover, oldLeft, hRpc, hOut>> /\ (inStep' <=> inStep)
      /\ used' = used
  BY DEF mainView, callView, inStep, used, CoversNow
<1>1. hStep' = hPosted /\ hNo' = 0 /\ hLen' = 0 /\ hBuf = NoBuf /\ ~hErr
      /\ hPc \notin {"hear", "end", "done"}
  BY DEF WorkerTakesCovers, OldPhases, Resting
<1>2. hStep' \in 0..Len(Steps)
  BY <1>1 DEF OldTypes
<1>3. hCovers' \in Covers
  BY <1>2, StepCovers DEF hCovers
<1>4. made' = 0
  BY <1>1, <1>3, Ends DEF made
<1>5. CASE hPosted # 0 /\ inStep
  <2>1. hPosted = step /\ hStep = step - 1 /\ used = 0
    BY <1>5 DEF SyncInv, Missed, inStep
  <2>2. hStep # step
    BY <2>1 DEF OldTypes
  <2> QED
    BY <1>0, <1>1, <1>4, <1>5, <2>1, <2>2 DEF taken
<1>6. CASE hPosted # 0 /\ ~inStep
  <2>1. Untaken
    BY <1>6 DEF SyncInv, Missed
  <2>2. hCovers' = Steps[Len(Steps)]
    BY <1>1, <2>1 DEF hCovers, coversIn, Untaken, Bare
  <2>3. total(hCovers') = 0
    BY <2>1, <2>2 DEF Untaken, Bare
  <2>4. taken = total(hCovers)
    BY <1>6 DEF taken
  <2>5. taken' = 0
    BY <1>0, <1>6, <2>3, Zenon DEF taken
  <2> QED
    BY <1>1, <1>4, <2>4, <2>5
<1>7. CASE hPosted = 0
  <2>1. ~inStep
    BY <1>7 DEF WorkerTakesCovers, SyncInv, inStep, atEnd
  <2>2. hCovers' = <<>>
    BY <1>1, <1>7 DEF hCovers, coversIn
  <2>3. total(hCovers') = 0
    <3>1. ends(<<>>)[0] = 0 /\ Len(<<>>) = 0
      BY <1>3, <2>2, Ends
    <3> QED
      BY <2>2, <3>1 DEF total
  <2> QED
    BY <1>0, <1>1, <1>4, <2>1, <2>3 DEF taken
<1> QED
  BY <1>5, <1>6, <1>7

(* The bytes that the worker reads are the next ones of the covers.        *)
LEMMA ReadsPart ==
  ASSUME Steps \in Diffs, UNCHANGED Steps, OldTypes, CoverInv, OldPhases, WorkerReadsOld
  PROVE  /\ hReads \in Nat /\ made \in Nat /\ made' = made + hReads /\ hCovers' = hCovers
         /\ Run(hAt, hReads) = Part(hCovers, made, hReads)
<1>1. hLen > 0 /\ hBuf # NoBuf
  BY DEF WorkerReadsOld, OldPhases
<1>2. /\ hCovers \in Covers /\ Len(hCovers) \in Nat /\ hNo \in 0..Len(hCovers)
      /\ ends(hCovers)[hNo] \in Nat /\ hLen \in Nat /\ made \in Nat
      /\ made + hLen = ends(hCovers)[hNo]
  BY MadeIs
<1>3. hNo \in 1..Len(hCovers) /\ hNo # 0
  BY <1>1, <1>2 DEF CoverInv
<1>4. PICK e \in Nat : e = ends(hCovers)[hNo]
  BY <1>2
<1>5. PICK p \in Nat : p = ends(hCovers)[hNo - 1] /\ p <= made
  BY <1>3, MadeIs
<1>6. PICK len \in Nat : len = hCovers[hNo].length
  BY <1>2, <1>3, CoverIs
<1>7. PICK pos \in Nat : pos = hCovers[hNo].oldPos
  BY <1>2, <1>3, CoverIs
<1>8. e = p + len
  BY <1>2, <1>3, <1>4, <1>5, <1>6, Ends
<1>9. PICK m \in Nat : m = made
  BY <1>2
<1>10. PICK l \in Nat : l = hLen
  BY <1>2
<1>11. PICK n \in Nat : n = hReads /\ n <= l
  BY <1>1, <1>10, Portions
<1>12. m + l = e /\ l <= len /\ hAt = pos + (len - l)
  BY <1>2, <1>3, <1>4, <1>6, <1>7, <1>9, <1>10 DEF CoverInv
<1>13. hAt = pos + (m - p) /\ p <= m /\ m + n <= e
  BY <1>5, <1>8, <1>9, <1>11, <1>12
<1>14. Part(hCovers, m, n) = Run(pos + (m - p), n)
  <2>1. ends(hCovers)[hNo - 1] <= m /\ m + n <= ends(hCovers)[hNo]
    BY <1>4, <1>5, <1>13
  <2>2. hCovers \in Covers
    BY <1>2
  <2>3. Part(hCovers, m, n) = Run(hCovers[hNo].oldPos + (m - ends(hCovers)[hNo - 1]), n)
    BY <1>3, <2>1, <2>2, CoverPart, ZenonT(60)
  <2> QED
    BY <1>5, <1>7, <2>3
<1>15. Run(hAt, hReads) = Part(hCovers, made, hReads)
  BY <1>9, <1>11, <1>13, <1>14
<1>16. hCovers' = hCovers /\ hNo' = hNo /\ hLen' = l - n
  BY <1>10, <1>11 DEF WorkerReadsOld, hCovers
<1>17. made' = m + n
  <2>1. made' = e - (l - n)
    BY <1>4, <1>16 DEF made
  <2>2. e - (l - n) = m + n
    BY <1>12
  <2> QED
    BY <2>1, <2>2
<1> QED
  BY <1>9, <1>11, <1>15, <1>16, <1>17

(* The worker's steps.                                                     *)
LEMMA WorkKeepsData ==
  ASSUME Steps \in Diffs, UNCHANGED Steps, OldTypes, MainInv, CoverInv, ReadInv, OldPhases,
         SyncInv, DataInv, OwnInv, OldWorks, UNCHANGED <<callView, mainView>>
  PROVE  DataInv'
<1>0. /\ (on' <=> on) /\ hRErr' = hRErr /\ UNCHANGED <<hCur, hPos, hRpc>>
  BY DEF on, atEnd, callView, mainView
<1>a. SUFFICES ASSUME on, ~hRErr PROVE DataInv'
  BY <1>0 DEF DataInv
<1>1. PICK a \in Nat : InCur(a) /\ (~hErr => \E b \in Nat : InData(a, b) /\ InBuf(b))
  BY <1>a DEF DataInv
<1>b. /\ hCovers \in Covers /\ made \in Nat /\ hErr \in BOOLEAN /\ hTErr \in BOOLEAN
      /\ hBuf \in Bufs \union {NoBuf} /\ hCur \in Bufs \union {NoBuf} /\ NoBuf \notin Bufs
      /\ hData \in Seq(Bufs) /\ hBytes \in [Bufs -> Seq(Nat)] /\ WorkBufSize \in Nat \ {0}
  BY MadeIs, BaseAssumption DEF OldTypes, BaseAssumption
<1>2. ASSUME WorkerGoesOn \/ WorkerWaits \/ WorkerHears \/ WorkerTakesBuf \/ WorkerFails
      PROVE  DataInv'
  <2>1. UNCHANGED <<hStep, hNo, hLen, hData, hBytes>>
    BY <1>2 DEF WorkerGoesOn, WorkerWaits, WorkerHears, WorkerTakesBuf, WorkerFails, listView,
                coverView
  <2>2. hCovers' = hCovers /\ made' = made /\ taken' = taken
    BY <2>1, MadeKept, WorkKeepsTaken
  <2>3. InCur(a)'
    BY <1>0, <1>1, <1>b, <2>1, <2>2, CurKept
  <2>4. ASSUME NEW b \in Nat, InData(a, b), InBuf(b), ~hErr, ~hErr'
        PROVE  InData(a, b)' /\ InBuf(b)'
    <3>1. InData(a, b)'
      BY <2>1, <2>2, <2>4 DEF InData
    <3>2. InBuf(b)'
      <4>1. CASE WorkerGoesOn
        BY <2>1, <2>2, <2>4, <4>1 DEF WorkerGoesOn, InBuf, listView, OldPhases
      <4>2. CASE WorkerWaits \/ WorkerHears
        BY <2>1, <2>2, <2>4, <4>2, <1>b
        DEF WorkerWaits, WorkerHears, InBuf, listView, OldPhases, Resting
      <4>3. CASE WorkerTakesBuf
        BY <2>1, <2>2, <2>4, <4>3, <1>b DEF WorkerTakesBuf, InBuf, OldPhases, Resting
      <4>4. CASE WorkerFails
        BY <2>4, <4>4 DEF WorkerFails, OldPhases
      <4> QED
        BY <1>2, <4>1, <4>2, <4>3, <4>4
    <3> QED
      BY <3>1, <3>2
  <2>5. ~hErr' => ~hErr
    BY <1>2, <1>b DEF WorkerGoesOn, WorkerWaits, WorkerHears, WorkerTakesBuf, WorkerFails, errView
  <2>6. ~hErr' => \E b \in Nat : InData(a, b)' /\ InBuf(b)'
    BY <1>1, <2>4, <2>5, Zenon
  <2> QED
    BY <2>3, <2>6, DataIs
<1>3. CASE WorkerTakesCovers
  <2>1. /\ taken = total(hCovers) /\ hBuf = NoBuf /\ ~hErr
        /\ taken' = 0 /\ made' = 0
    BY <1>3, <1>a, TakesWhenDone
  <2>2. PICK b \in Nat : InData(a, b) /\ InBuf(b)
    BY <1>1, <2>1
  <2>3. a = taken /\ b = made
    <3>1. taken <= a /\ a <= made /\ b = made /\ made <= total(hCovers) /\ total(hCovers) \in Nat
      BY <1>1, <2>1, <2>2, MadeIs DEF InCur, InBuf
    <3> QED
      BY <1>b, <2>1, <3>1
  <2>4. hData = <<>>
    <3>1. made = total(hCovers)
      BY <1>1, <1>b, <2>1, MadeIs, SMTT(30) DEF InCur
    <3>2. InData(a, a)
      BY <2>1, <2>2, <2>3, <3>1
    <3> QED
      BY <1>b, <3>2, CoverChainEnds DEF InData
  <2>5. UNCHANGED <<hData, hBytes, hBuf>>
    BY <1>3 DEF WorkerTakesCovers, listView
  <2>6. InCur(0)'
    <3>1. hCur = NoBuf \/ (hRpc = "release" /\ Len(hBytes[hCur]) = hPos + (a - taken))
      BY <1>1, <2>3 DEF InCur
    <3>2. a - taken = 0 /\ hPos + 0 = hPos
      BY <2>3, TakenIs DEF OldTypes
    <3>3. hCur' = NoBuf \/ (hRpc' = "release" /\ Len(hBytes'[hCur']) = hPos' + (0 - 0))
      BY <1>0, <2>5, <3>1, <3>2
    <3> QED
      BY <2>1, <3>3 DEF InCur
  <2>7. InData(0, 0)' /\ InBuf(0)'
    BY <2>1, <2>4, <2>5, CoverChainEmpty DEF InData, InBuf
  <2> QED
    BY <2>6, <2>7, DataIs
<1>4. CASE WorkerDecodes
  <2>1. UNCHANGED <<hData, hBytes, hBuf, hStep, hErr>>
    BY <1>4 DEF WorkerDecodes, listView, errView
  <2>2. hCovers' = hCovers /\ taken' = taken
    BY <2>1, MadeKept, WorkKeepsTaken
  <2>3. made' = made
    <3>1. Len(hCovers) \in Nat /\ hNo \in 0..Len(hCovers) /\ ends(hCovers)[hNo] \in Nat
          /\ made + hLen = ends(hCovers)[hNo] /\ hNo < Len(hCovers) /\ hLen = 0
      BY <1>4, MadeIs DEF WorkerDecodes, OldPhases, Resting
    <3>2. hNo + 1 \in 1..Len(hCovers) /\ (hNo + 1) - 1 = hNo
      BY <3>1
    <3>3. /\ ends(hCovers)[hNo + 1] = ends(hCovers)[(hNo + 1) - 1] + hCovers[hNo + 1].length
          /\ hCovers[hNo + 1].length \in Nat
      <4>1. \A i \in 1..Len(hCovers) : /\ ends(hCovers)[i] = ends(hCovers)[i - 1] + hCovers[i].length
                                        /\ hCovers[i].length \in Nat
        BY <1>b, Ends, CoverIs
      <4> QED
        BY <3>2, <4>1, Zenon
    <3>4. hNo' = hNo + 1 /\ hLen' = hCovers[hNo + 1].length
      BY <1>4 DEF WorkerDecodes
    <3>5. made' = ends(hCovers)[hNo + 1] - hCovers[hNo + 1].length
      BY <2>2, <3>4 DEF made
    <3> QED
      BY <1>b, <3>1, <3>2, <3>3, <3>5
  <2>4. InCur(a)'
    BY <1>0, <1>1, <1>b, <2>1, <2>2, <2>3, CurKept
  <2>5. ASSUME NEW b \in Nat, InData(a, b), InBuf(b)
        PROVE  InData(a, b)' /\ InBuf(b)'
    <3>1. InData(a, b)'
      BY <2>1, <2>2, <2>5 DEF InData
    <3>2. InBuf(b)'
      BY <1>4, <2>1, <2>2, <2>3, <2>5 DEF WorkerDecodes, InBuf
    <3> QED
      BY <3>1, <3>2
  <2>6. ~hErr' => \E b \in Nat : InData(a, b)' /\ InBuf(b)'
    BY <1>1, <2>1, <2>5, Zenon
  <2> QED
    BY <2>4, <2>6, DataIs
<1>5. CASE WorkerEmpties
  <2>1. UNCHANGED <<hData, hBuf, hStep, hNo, hLen, hErr>> /\ hBuf \in Bufs
    BY <1>5, <1>b DEF WorkerEmpties, coverView, errView, OldPhases
  <2>2. hCovers' = hCovers /\ made' = made /\ taken' = taken
    BY <2>1, MadeKept, WorkKeepsTaken
  <2>3. hBytes' = [hBytes EXCEPT ![hBuf] = <<>>] /\ hPc = "fresh" /\ hPc' = "read"
    BY <1>5 DEF WorkerEmpties
  <2>4. /\ hCur # NoBuf => hBytes'[hCur] = hBytes[hCur]
        /\ \A b \in Bufs : b # hBuf => hBytes'[b] = hBytes[b]
        /\ hBytes'[hBuf] = <<>>
    <3>1. \A b \in Bufs : b # hBuf => hBytes'[b] = hBytes[b]
      BY <1>b, <2>1, <2>3
    <3>2. hCur # hBuf
      BY <2>1 DEF OwnInv
    <3> QED
      BY <1>b, <2>1, <2>3, <3>1, <3>2
  <2>5. InCur(a)'
    BY <1>0, <1>1, <1>b, <2>2, <2>4, CurKept
  <2>6. ASSUME NEW b \in Nat, InData(a, b), InBuf(b)
        PROVE  InData(a, b)' /\ InBuf(b)'
    <3>1. \A x : InList(x, hData) => hBytes'[x] = hBytes[x]
      <4>1. ASSUME NEW x, InList(x, hData) PROVE hBytes'[x] = hBytes[x]
        <5>1. x \in Bufs
          BY <1>b, <4>1 DEF InList
        <5>2. x # hBuf
          BY <2>1, <4>1 DEF OwnInv
        <5> QED
          BY <2>4, <5>1, <5>2
      <4> QED
        BY <4>1
    <3>2. InData(a, b)'
      <4>1. CoverChain(hCovers, hBytes', hData, a, b)
        BY <1>b, <2>6, <3>1, CoverChainFrame DEF InData
      <4> QED
        BY <2>1, <2>2, <4>1 DEF InData
    <3>3. b = made
      BY <2>3, <2>6 DEF InBuf
    <3>4. Part(hCovers, b, 0) = <<>> /\ b - b = 0
      BY PartBytes
    <3>5. hBytes'[hBuf'] = Part(hCovers', b, made' - b)
      BY <2>1, <2>2, <2>4, <3>3, <3>4
    <3>6. made' = b /\ b - b < WorkBufSize
      BY <1>b, <2>2, <3>3, <3>4
    <3>7. InBuf(b)'
      BY <2>3, <3>5, <3>6 DEF InBuf
    <3> QED
      BY <3>2, <3>7
  <2>7. ~hErr' => \E b \in Nat : InData(a, b)' /\ InBuf(b)'
    BY <1>1, <2>1, <2>6, Zenon
  <2> QED
    BY <2>5, <2>7, DataIs
<1>6. CASE WorkerReadsOld
  <2>1. UNCHANGED <<hData, hBuf, hStep, hNo, hErr>> /\ hBuf \in Bufs /\ hPc = "read" /\ hLen > 0
        /\ hLen \in Nat
    BY <1>6, <1>b DEF WorkerReadsOld, coverView, errView, OldPhases, OldTypes
  <2>2. /\ hReads \in Nat /\ made' = made + hReads /\ hCovers' = hCovers
        /\ Run(hAt, hReads) = Part(hCovers, made, hReads)
    BY <1>6, ReadsPart
  <2>3. taken' = taken
    BY <2>1, WorkKeepsTaken
  <2>4. /\ hCur # NoBuf => hBytes'[hCur] = hBytes[hCur]
        /\ \A b \in Bufs : b # hBuf => hBytes'[b] = hBytes[b]
        /\ hBytes'[hBuf] = hBytes[hBuf] \o Run(hAt, hReads)
    <3>0. hBytes' = [hBytes EXCEPT ![hBuf] = @ \o Run(hAt, hReads)]
      BY <1>6 DEF WorkerReadsOld
    <3>1. \A b \in Bufs : b # hBuf => hBytes'[b] = hBytes[b]
      BY <1>b, <2>1, <3>0
    <3>2. hCur # hBuf
      BY <2>1 DEF OwnInv
    <3>3. hBytes'[hBuf] = hBytes[hBuf] \o Run(hAt, hReads)
      BY <1>b, <2>1, <3>0
    <3> QED
      BY <1>b, <3>1, <3>2, <3>3
  <2>5. InCur(a)'
    <3>1. made' \in Nat /\ made <= made'
      BY <1>b, <2>2
    <3> QED
      BY <1>0, <1>1, <1>b, <2>2, <2>3, <2>4, <3>1, CurKept
  <2>6. ASSUME NEW b \in Nat, InData(a, b), InBuf(b)
        PROVE  InData(a, b)' /\ InBuf(b)'
    <3>1. \A x : InList(x, hData) => hBytes'[x] = hBytes[x]
      <4>1. ASSUME NEW x, InList(x, hData) PROVE hBytes'[x] = hBytes[x]
        <5>1. x \in Bufs
          BY <1>b, <4>1 DEF InList
        <5>2. x # hBuf
          BY <2>1, <4>1 DEF OwnInv
        <5> QED
          BY <2>4, <5>1, <5>2
      <4> QED
        BY <4>1
    <3>2. InData(a, b)'
      <4>1. CoverChain(hCovers, hBytes', hData, a, b)
        BY <1>b, <2>6, <3>1, CoverChainFrame DEF InData
      <4> QED
        BY <2>1, <2>2, <4>1 DEF InData
    <3>3. PICK m \in Nat : m = made
      BY <1>b
    <3>4. PICK n \in Nat : n = hReads
      BY <2>2
    <3>5. PICK d \in Nat : d = m - b /\ b + d = m
      BY <2>6, <3>3 DEF InBuf
    <3>6. hBytes[hBuf] = Part(hCovers, b, d) /\ d < WorkBufSize
      BY <1>b, <2>1, <2>6, <3>3, <3>5 DEF InBuf
    <3>7. hBytes'[hBuf] = Part(hCovers, b, d) \o Part(hCovers, b + d, n)
      BY <2>2, <2>4, <3>3, <3>4, <3>5, <3>6
    <3>8. hBytes'[hBuf] = Part(hCovers, b, d + n)
      <4>1. hCovers \in Covers
        BY <1>b
      <4>2. Part(hCovers, b, d) \o Part(hCovers, b + d, n) = Part(hCovers, b, d + n)
        BY <4>1, PartCat, ZenonT(60)
      <4> QED
        BY <3>7, <4>2
    <3>9. made' = b + (d + n) /\ made' - b = d + n
      BY <2>2, <3>3, <3>4, <3>5
    <3>10. hRoom = WorkBufSize - d
      <4>1. Len(Part(hCovers, b, d)) = d
        BY PartBytes
      <4> QED
        BY <3>6, <4>1 DEF hRoom
    <3>11. \/ n = WorkBufSize - d /\ hPc' = "push"
           \/ n < WorkBufSize - d /\ n = hLen /\ hPc' = "buf"
      BY <1>6, <1>b, <2>1, <3>4, <3>6, <3>10 DEF WorkerReadsOld, hReads
    <3>12. b < made' /\ (hPc' = "buf" => made' - b < WorkBufSize) /\ hPc' \in {"push", "buf"}
      BY <1>b, <2>1, <3>6, <3>9, <3>11
    <3>13. b <= made'
      BY <3>9
    <3>14. hBytes'[hBuf'] = Part(hCovers', b, made' - b)
      BY <2>1, <2>2, <3>8, <3>9
    <3>15. InBuf(b)'
      BY <1>b, <2>1, <3>12, <3>13, <3>14 DEF InBuf
    <3> QED
      BY <3>2, <3>15
  <2>7. ~hErr' => \E b \in Nat : InData(a, b)' /\ InBuf(b)'
    BY <1>1, <2>1, <2>6, Zenon
  <2> QED
    BY <2>5, <2>7, DataIs
<1>7. CASE WorkerPushes
  <2>1. /\ UNCHANGED <<hBytes, hStep, hNo, hLen, hErr>> /\ hBuf \in Bufs
        /\ hPc \in {"push", "stepEnd"} /\ hBuf' = NoBuf /\ hData' = pushABufAtEnd(hData, hBuf)
    BY <1>7, <1>b DEF WorkerPushes, coverView, errView, OldPhases
  <2>2. hCovers' = hCovers /\ made' = made /\ taken' = taken
    BY <2>1, MadeKept, WorkKeepsTaken
  <2>3. InCur(a)'
    BY <1>0, <1>1, <1>b, <2>1, <2>2, CurKept
  <2>4. ASSUME NEW b \in Nat, InData(a, b), InBuf(b)
        PROVE  InData(a, made)' /\ InBuf(made)'
    <3>1. b < made /\ hBytes[hBuf] = Part(hCovers, b, made - b)
      BY <1>b, <2>1, <2>4 DEF InBuf
    <3>2. PICK n \in Nat \ {0} : n = made - b /\ b + n = made
      BY <1>b, <3>1
    <3>3. CoverChain(hCovers, hBytes, pushABufAtEnd(hData, hBuf), a, b + n)
      <4>1. hBytes[hBuf] = Part(hCovers, b, n) /\ CoverChain(hCovers, hBytes, hData, a, b)
        BY <2>4, <3>1, <3>2 DEF InData
      <4> QED
        BY <1>b, <2>1, <4>1, CoverChainPush
    <3>4. InData(a, made)'
      BY <2>1, <2>2, <3>2, <3>3 DEF InData
    <3>5. InBuf(made)'
      BY <1>b, <2>1, <2>2 DEF InBuf
    <3> QED
      BY <3>4, <3>5
  <2>5. ~hErr' => \E b \in Nat : InData(a, b)' /\ InBuf(b)'
    <3>1. PICK m \in Nat : m = made
      BY <1>b
    <3>2. ASSUME NEW b \in Nat, InData(a, b), InBuf(b)
          PROVE  InData(a, m)' /\ InBuf(m)'
      BY <2>2, <2>4, <3>1, <3>2 DEF InData, InBuf
    <3> QED
      BY <1>1, <2>1, <3>2, Zenon
  <2> QED
    BY <2>3, <2>5, DataIs
<1> QED
  BY <1>2, <1>3, <1>4, <1>5, <1>6, <1>7 DEF OldWorks

(* A copy makes the bytes in hand longer by its length.                    *)
LEMMA CopiedLength ==
  ASSUME OldTypes, MainInv, CoverInv, ReadInv, OldPhases, SyncInv, DataInv, CallCopies
  PROVE  Len(hOut') = Len(hOut) + hCopies
<1>1. hCur # NoBuf /\ hLeft > 0 /\ hLeft \in Nat /\ hPos \in Nat
  BY DEF CallCopies, OldTypes
<1>2. hCur \in Bufs
  BY <1>1 DEF OldTypes
<1>3. PICK s \in Seq(Nat) : s = hBytes[hCur]
  BY <1>2 DEF OldTypes
<1>4. PICK n \in Nat : n = hCopies
  BY <1>1, Portions
<1>5. PICK p \in Nat : p = hPos
  BY <1>1
<1>6. n # 0 /\ p + n <= Len(s)
  <2>1. hHas \in Nat /\ hHas > 0 /\ hCopies <= hHas
    BY <1>1, CopiesInStep, Portions
  <2>2. hHas = Len(s) - p /\ Len(s) \in Nat
    BY <1>3, <1>5 DEF hHas
  <2>3. n # 0
    BY <1>1, <1>4, <2>1 DEF hCopies
  <2> QED
    BY <1>4, <2>1, <2>2, <2>3
<1>7. p + 1 \in 1..Len(s) /\ p + n \in 1..Len(s) /\ (p + n) - (p + 1) + 1 = n
  BY <1>6
<1>8. SubSeq(s, p + 1, p + n) \in Seq(Nat) /\ Len(SubSeq(s, p + 1, p + n)) = n
  BY <1>7, SubSeqProperties
<1>9. PICK q \in Seq(Nat) : q = SubSeq(s, p + 1, p + n) /\ Len(q) = n
  BY <1>8
<1>10. hOut' = hOut \o q
  BY <1>3, <1>4, <1>5, <1>9 DEF CallCopies
<1>11. hOut \in Seq(Nat)
  BY DEF OldTypes
<1>12. Len(hOut') = Len(hOut) + n
  BY <1>9, <1>10, <1>11, ConcatProperties
<1> QED
  BY <1>4, <1>12

(* The patcher's.                                                          *)
LEMMA ReadKeepsData ==
  ASSUME Steps \in Diffs, OldTypes, MainInv, CoverInv, ReadInv, OldPhases,
         SyncInv, DataInv, OldIsRead, UNCHANGED <<Steps, mainView>>
  PROVE  DataInv'
<1>0. (on' <=> on) /\ (inStep' <=> inStep) /\ UNCHANGED <<mpc, step, cover, oldLeft>>
  BY DEF on, atEnd, inStep, mainView
<1>1. /\ UNCHANGED <<hErr, hBytes, hBuf, hPc, hStep, hNo, hLen>>
      /\ hRpc # "idle" /\ hRpc' # "idle"
  BY DEF OldIsRead, CallGoesOn, CallTakes, CallWaits, CallCopies, CallReleases, workerView, listView,
         coverView, errView
<1>2. hCovers' = hCovers /\ made' = made
  BY <1>1, MadeKept
<1>a. SUFFICES ASSUME on, ~hRErr' PROVE DataInv'
  BY <1>0 DEF DataInv
<1>b. /\ hCovers \in Covers /\ made \in Nat /\ hErr \in BOOLEAN
      /\ hCur \in Bufs \union {NoBuf} /\ NoBuf \notin Bufs
      /\ hData \in Seq(Bufs) /\ hBytes \in [Bufs -> Seq(Nat)] /\ hPos \in Nat
  BY MadeIs, BaseAssumption DEF OldTypes, BaseAssumption
<1>c. taken \in Nat
  BY TakenIs
<1>3. ~hRErr
  BY <1>a DEF OldIsRead, CallGoesOn, CallTakes, CallWaits, CallCopies, CallReleases, OldPhases
<1>4. PICK a \in Nat : InCur(a) /\ (~hErr => \E b \in Nat : InData(a, b) /\ InBuf(b))
  BY <1>a, <1>3 DEF DataInv
<1>d. ASSUME NEW b \in Nat, InBuf(b) PROVE InBuf(b)'
  BY <1>1, <1>2, <1>d DEF InBuf
<1>5. ASSUME hOut' = hOut PROVE taken' = taken
  <2>1. used' = used
    BY <1>0, <1>1, <1>5 DEF used, CoversNow
  <2> QED
    BY <1>0, <1>1, <1>2, <2>1 DEF taken
<1>6. ASSUME CallGoesOn \/ CallWaits PROVE DataInv'
  <2>1. /\ UNCHANGED <<hOut, hCur, hPos, hData>> /\ hRpc # "release" /\ hRpc' # "release"
    BY <1>6, <1>a DEF CallGoesOn, CallWaits, workerView, listView
  <2>2. InCur(a)'
    BY <1>1, <1>2, <1>4, <1>5, <1>b, <2>1, CurKept
  <2>3. ASSUME NEW b \in Nat, InData(a, b) PROVE InData(a, b)'
    BY <1>1, <1>2, <2>1, <2>3 DEF InData
  <2>4. ~hErr' => \E b \in Nat : InData(a, b)' /\ InBuf(b)'
    BY <1>1, <1>4, <1>d, <2>3, Zenon
  <2> QED
    BY <2>2, <2>4, DataIs
<1>7. CASE CallTakes
  <2>1. /\ hCur = NoBuf /\ hPos = 0 /\ hCur' = firstBuf(hData) /\ hData' = restBufs(hData) /\ ~hErr
        /\ hRpc' = "loop" /\ hOut' = hOut /\ hPos' = hPos
    BY <1>7, <1>a DEF CallTakes, OldPhases
  <2>2. a = taken /\ taken' = taken /\ a <= made
    BY <1>4, <1>5, <2>1 DEF InCur
  <2>3. PICK b \in Nat : InData(a, b) /\ InBuf(b)
    BY <1>4, <2>1
  <2>4. CASE hData = <<>>
    <3>1. hCur' = NoBuf /\ hData' = hData
      BY <2>1, <2>4 DEF firstBuf, restBufs
    <3>2. InCur(a)'
      BY <1>2, <1>b, <2>1, <2>2, <3>1 DEF InCur
    <3>3. InData(a, b)'
      BY <1>1, <1>2, <2>3, <3>1 DEF InData
    <3> QED
      BY <1>d, <2>3, <3>2, <3>3, DataIs
  <2>5. CASE hData # <<>>
    <3>1. hCur' = Head(hData) /\ hData' = Tail(hData) /\ Head(hData) \in Bufs /\ hCur' # NoBuf
      BY <1>b, <2>1, <2>5 DEF firstBuf, restBufs
    <3>2. PICK n \in Nat \ {0} : /\ hBytes[Head(hData)] = Part(hCovers, a, n) /\ a + n <= b
                                 /\ CoverChain(hCovers, hBytes, Tail(hData), a + n, b)
      BY <1>b, <2>3, <2>5, CoverChainPop DEF InData
    <3>3. PICK e \in Nat : e = a + n /\ e - a = n /\ e # a /\ a <= e
      BY <3>2
    <3>4. e <= made
      BY <1>b, <2>3, <3>2, <3>3 DEF InBuf
    <3>5. InData(e, b)'
      BY <1>1, <1>2, <3>1, <3>2, <3>3 DEF InData
    <3>6. /\ Len(hBytes[Head(hData)]) = n
          /\ \A k \in 1..n : hBytes[Head(hData)][k] = oldByte(hCovers, a + k)
      <4>1. PICK q : q = hBytes[Head(hData)] /\ q = Part(hCovers, a, n)
        BY <3>2
      <4>2. /\ Len(Part(hCovers, a, n)) = n
            /\ \A k \in 1..n : Part(hCovers, a, n)[k] = oldByte(hCovers, a + k)
        BY PartBytes
      <4> QED
        BY <4>1, <4>2, Zenon
    <3>7. \A k \in 1..n : 0 + k = k
      OBVIOUS
    <3>8. InCur(e)'
      <4>1. taken' = a /\ made' = made /\ hCovers' = hCovers /\ hBytes'[hCur'] = hBytes[Head(hData)]
            /\ hPos' = 0 /\ hRpc' # "release"
        BY <1>1, <1>2, <2>1, <2>2, <3>1
      <4>2. Len(hBytes'[hCur']) = hPos' + (e - taken')
        BY <3>3, <3>6, <4>1
      <4>3. \A k \in 1..(e - taken') : hBytes'[hCur'][hPos' + k] = oldByte(hCovers', taken' + k)
        BY <3>3, <3>6, <3>7, <4>1
      <4> QED
        BY <3>1, <3>3, <3>4, <4>1, <4>2, <4>3 DEF InCur
    <3> QED
      BY <1>d, <2>3, <3>5, <3>8, DataIs
  <2> QED
    BY <2>4, <2>5
<1>8. CASE CallCopies
  <2>1. inStep /\ hStep = step /\ taken = used /\ hHas > 0 /\ hCur # NoBuf /\ hRpc = "loop"
    BY <1>8, CopiesInStep DEF CallCopies
  <2>2. /\ UNCHANGED <<hCur, hData>> /\ hPos' = hPos + hCopies
        /\ hRpc' = IF hCopies = hHas THEN "release" ELSE "loop"
    BY <1>8 DEF CallCopies, workerView, listView
  <2>3. PICK n \in Nat : n = hCopies /\ n <= hHas
    BY <2>1, Portions
  <2>4. PICK t \in Nat : t = taken
    BY <1>c
  <2>5. PICK p \in Nat : p = hPos
    BY <1>b
  <2>6. PICK s \in Seq(Nat) : s = hBytes[hCur]
    BY <1>b, <2>1
  <2>7. /\ t <= a /\ a <= made /\ Len(s) = p + (a - t)
        /\ \A k \in 1..(a - t) : s[p + k] = oldByte(hCovers, t + k)
    BY <1>4, <2>1, <2>4, <2>5, <2>6 DEF InCur
  <2>8. hHas = a - t
    BY <2>5, <2>6, <2>7 DEF hHas
  <2>9. taken' = t + n
    <3>5. Len(hOut') = Len(hOut) + n
      BY <1>8, <2>3, CopiedLength
    <3>6. /\ ends(CoversNow)[cover] \in Nat /\ oldLeft \in Nat /\ Len(hOut) \in Nat
          /\ used = ends(CoversNow)[cover] - oldLeft + Len(hOut)
      BY <1>1, <2>1, UsedIs
    <3>7. used' = ends(CoversNow)[cover] - oldLeft + Len(hOut')
      BY <1>0, <1>1 DEF used, CoversNow
    <3>8. used' = used + n
      BY <3>5, <3>6, <3>7, SMTT(30)
    <3>9. taken' = used'
      BY <1>0, <1>1, <2>1 DEF taken
    <3> QED
      BY <2>1, <2>4, <3>8, <3>9
  <2>10. InCur(a)'
    <3>1. n <= a - t /\ t + n <= a
      BY <2>3, <2>7, <2>8
    <3>2. Len(s) = (p + n) + (a - (t + n))
      BY <2>7, <3>1
    <3>3. ASSUME NEW k \in 1..(a - (t + n))
          PROVE  s[(p + n) + k] = oldByte(hCovers, (t + n) + k)
      <4>1. n + k \in 1..(a - t) /\ p + (n + k) = (p + n) + k /\ t + (n + k) = (t + n) + k
        BY <2>7, <3>1
      <4>2. s[p + (n + k)] = oldByte(hCovers, t + (n + k))
        BY <2>7, <4>1, Zenon
      <4> QED
        BY <4>1, <4>2
    <3>4. a = t + n <=> n = a - t
      BY <2>7, <3>1
    <3>5. hRpc' = "release" <=> n = a - t
      BY <2>2, <2>3, <2>8
    <3>6. hBytes'[hCur'] = s /\ hPos' = p + n /\ hCovers' = hCovers /\ hCur' # NoBuf
      BY <1>1, <1>2, <2>1, <2>2, <2>3, <2>5, <2>6
    <3>7. a <= made'
      BY <1>2, <2>7
    <3>8. /\ Len(hBytes'[hCur']) = hPos' + (a - taken')
          /\ \A k \in 1..(a - taken') : hBytes'[hCur'][hPos' + k] = oldByte(hCovers', taken' + k)
      BY <2>9, <3>2, <3>3, <3>6
    <3>9. taken' <= a /\ (a = taken' <=> hRpc' = "release")
      BY <2>9, <3>1, <3>4, <3>5
    <3> QED
      BY <3>6, <3>7, <3>8, <3>9 DEF InCur
  <2>11. ASSUME NEW b \in Nat, InData(a, b) PROVE InData(a, b)'
    BY <1>1, <1>2, <2>2, <2>11 DEF InData
  <2>12. ~hErr' => \E b \in Nat : InData(a, b)' /\ InBuf(b)'
    BY <1>1, <1>4, <1>d, <2>11, Zenon
  <2> QED
    BY <2>10, <2>12, DataIs
<1>9. CASE CallReleases
  <2>1. /\ hRpc = "release" /\ hCur # NoBuf /\ hRpc' = "loop" /\ hCur' = NoBuf
        /\ UNCHANGED <<hOut, hData>>
    BY <1>9 DEF CallReleases, OldPhases
  <2>2. a = taken /\ taken' = taken /\ a <= made
    BY <1>4, <1>5, <2>1 DEF InCur
  <2>3. InCur(a)'
    BY <1>2, <1>c, <2>1, <2>2 DEF InCur
  <2>4. ASSUME NEW b \in Nat, InData(a, b) PROVE InData(a, b)'
    BY <1>1, <1>2, <2>1, <2>4 DEF InData
  <2>5. ~hErr' => \E b \in Nat : InData(a, b)' /\ InBuf(b)'
    BY <1>1, <1>4, <1>d, <2>4, Zenon
  <2> QED
    BY <2>3, <2>5, DataIs
<1> QED
  BY <1>6, <1>7, <1>8, <1>9 DEF OldIsRead

(* What the patcher has taken does not change between its reads.           *)
LEMMA MainKeepsTaken ==
  ASSUME UNCHANGED Steps, OldTypes, MainInv, ReadInv, SyncInv, on',
         MainUsesOld \/ (OldStill /\ (MainAlone \/ UNCHANGED mainView))
  PROVE  taken' = taken
<1>0. UNCHANGED hStep /\ hCovers' = hCovers
  BY DEF MainUsesOld, MainOpens, MainAsks, MainGets, MainResets, MainPosts, MainEnds, OldStill,
         workerView, coverView, hCovers
<1>1. ASSUME inStep' <=> inStep, UNCHANGED step, inStep => used' = used
      PROVE  taken' = taken
  BY <1>0, <1>1 DEF taken
<1>2. ASSUME UNCHANGED <<mainView, hRpc, hOut>>
      PROVE  taken' = taken
  <2>1. used' = used /\ (inStep' <=> inStep) /\ UNCHANGED step
    BY <1>2 DEF used, CoversNow, inStep, mainView
  <2> QED
    BY <1>1, <2>1
<1>3. CASE MainOpens
  BY <1>2, <1>3 DEF MainOpens, callView
<1>4. CASE MainAsks
  <2>1. used' = used
    BY <1>4, UsedOnAsking
  <2> QED
    BY <1>1, <1>4, <2>1 DEF MainAsks, mainView, inStep
<1>5. CASE MainGets
  <2>1. mpc' = "write"
    BY <1>5 DEF MainGets, on, atEnd
  <2>2. used' = used
    BY <1>5, <2>1, UsedOnGetting
  <2> QED
    BY <1>1, <1>5, <2>1, <2>2 DEF MainGets, inStep
<1>6. CASE MainResets \/ MainEnds
  BY <1>1, <1>6 DEF MainResets, MainEnds, inStep
<1>7. CASE MainPosts
  <2>1. atStep /\ ~inStep /\ ~atEnd /\ on /\ step # 0
    BY <1>7 DEF MainPosts, atStep, inStep, atEnd, on, MainInv
  <2>2. hStep # step
    BY <2>1 DEF SyncInv, NullTaken, Untaken, Missed, MainInv
  <2> QED
    BY <1>0, <1>7, <2>1, <2>2 DEF MainPosts, taken
<1>8. CASE OldStill /\ UNCHANGED mainView
  BY <1>2, <1>8 DEF OldStill, callView
<1>9. CASE OldStill /\ MainAlone
  <2>0. UNCHANGED <<hRpc, hOut>>
    BY <1>9 DEF OldStill, callView
  <2>1. CASE MainFailsAnywhere
    BY <2>1 DEF MainFailsAnywhere, on, atEnd
  <2>2. CASE MainStarts \/ MainDecodes \/ MainCloses
    BY <1>1, <2>2 DEF MainStarts, MainDecodes, MainCloses, inStep
  <2>3. CASE MainGoesToStep
    BY <1>0, <2>3 DEF MainGoesToStep, inStep, taken
  <2>4. CASE MainNextCover
    <3>1. inStep /\ used = ends(CoversNow)[cover] /\ (mpc' = "gap" => used' = used)
      BY <2>0, <2>4, UsedOnNextCover DEF MainNextCover, inStep
    <3>2. CASE mpc' = "gap"
      BY <1>1, <2>4, <3>1, <3>2 DEF MainNextCover, inStep
    <3>3. CASE mpc' # "gap"
      <4>1. ~inStep' /\ cover = Len(Steps[step])
        BY <2>4, <3>3 DEF MainNextCover, inStep
      <4>2. CASE hStep = step
        <5>1. hCovers = Steps[step] /\ CoversNow = hCovers
          BY <3>1, <4>2, UsedIs DEF hCovers, CoversNow
        <5>2. used = total(hCovers)
          BY <3>1, <4>1, <5>1 DEF total
        <5> QED
          BY <1>0, <3>1, <4>1, <4>2, <5>2 DEF taken
      <4>3. CASE hStep # step
        BY <1>0, <4>1, <4>3 DEF taken
      <4> QED
        BY <4>2, <4>3
    <3> QED
      BY <3>2, <3>3
  <2>5. CASE MainCopies
    <3>1. used' = used
      BY <2>0, <2>5 DEF MainCopies, used, CoversNow
    <3> QED
      BY <1>1, <2>5, <3>1 DEF MainCopies, inStep, MainInv
  <2> QED
    BY <1>9, <2>1, <2>2, <2>3, <2>4, <2>5 DEF MainAlone
<1> QED
  BY <1>3, <1>4, <1>5, <1>6, <1>7, <1>8, <1>9 DEF MainUsesOld

(* The main thread's steps, and those of others.                           *)
LEMMA MainKeepsData ==
  ASSUME UNCHANGED Steps, OldTypes, MainInv, CoverInv, ReadInv, OldPhases, SyncInv, DataInv, OldStep,
         MainUsesOld \/ (OldStill /\ (MainAlone \/ UNCHANGED mainView))
  PROVE  DataInv'
<1>a. SUFFICES ASSUME on', ~hRErr' PROVE DataInv'
  BY DEF DataInv
<1>0. on
  BY <1>a, FailedForGood
<1>1. /\ UNCHANGED <<hCur, hPos, hData, hBytes, hBuf, hStep, hNo, hLen, hErr>>
      /\ hRpc' = "release" <=> hRpc = "release"
      /\ hPc' = hPc \/ (hPc = "none" /\ hPc' = "loop")
  BY DEF MainUsesOld, MainOpens, MainAsks, MainGets, MainResets, MainPosts, MainEnds, OldStill,
         workerView, coverView, callView, listView, errView
<1>2. ~hRErr
  BY <1>0, <1>a DEF MainUsesOld, MainOpens, MainAsks, MainGets, MainResets, MainPosts, MainEnds,
                    OldStill, callView, OldPhases
<1>3. taken' = taken
  BY <1>a, MainKeepsTaken
<1>4. hCovers' = hCovers /\ made' = made
  BY <1>1, MadeKept
<1>5. PICK a \in Nat : InCur(a) /\ (~hErr => \E b \in Nat : InData(a, b) /\ InBuf(b))
  BY <1>0, <1>2 DEF DataInv
<1>6. InCur(a)'
  <2>1. made \in Nat /\ made <= made'
    BY <1>4, MadeIs DEF MainInv
  <2> QED
    BY <1>1, <1>3, <1>4, <1>5, <2>1, CurKept
<1>7. ASSUME NEW b \in Nat, InData(a, b), InBuf(b) PROVE InData(a, b)' /\ InBuf(b)'
  <2>1. InData(a, b)'
    BY <1>1, <1>4, <1>7 DEF InData
  <2>2. InBuf(b)'
    BY <1>1, <1>4, <1>7 DEF InBuf
  <2> QED
    BY <2>1, <2>2
<1>8. ~hErr' => \E b \in Nat : InData(a, b)' /\ InBuf(b)'
  BY <1>1, <1>5, <1>7, Zenon
<1> QED
  BY <1>6, <1>8, DataIs

---------------------------------------------------------------------------
(* The invariant *)

(* What the last of the main thread's moves says of the result.            *)
RetInv == ret = "true" => mpc = "returned" /\ result
PatchInv == ThreadsInv /\ RetInv /\ (Old \in Comp => Shape /\ OldInv)

(* The old cache's part holds when the manager starts to open.             *)
LEMMA InitOld ==
  ASSUME PatchInit, Old \in Comp
  PROVE  Shape /\ OldInv
<1>0. HCaches = {Old} /\ Old \in HCaches
  BY Kinds
<1>1. PICK list \in freeLists : freeBufList = [c \in Comp |-> list]
  BY DEF PatchInit, BaseInit
<1>2. /\ hFree = list /\ hData = <<>> /\ hErr = FALSE /\ hWaiters = {} /\ hPc = "none" /\ hBuf = NoBuf
      /\ hTErr = FALSE /\ hBytes = [b \in Bufs |-> <<>>]
  BY <1>1 DEF PatchInit, BaseInit, hFree, hData, hErr, hWaiters, hPc, hBuf, hTErr, hBytes
<1>3. hCur = NoBuf /\ hPos = 0 /\ hRpc = "idle" /\ hLeft = 0 /\ hRErr = FALSE /\ hOut = <<>>
  BY DEF PatchInit, ReaderInit, hCur, hPos, hRpc, hLeft, hRErr, hOut
<1>4. /\ hPosted = 0 /\ hLeave = MaxPos /\ hStep = 0 /\ hNo = 0 /\ hAt = 0 /\ hLen = 0 /\ hHeard = <<>>
      /\ Steps \in Diffs
  BY <1>0 DEF PatchInit, HCacheInit, hPosted, hLeave, hStep, hNo, hAt, hLen, hHeard
<1>5. mpc = "open" /\ step = 0 /\ cover = 0 /\ oldLeft = 0 /\ stepMem = 0 /\ result = FALSE
  BY DEF PatchInit
<1>6. Shape
  BY <1>0, <1>1 DEF PatchInit, BaseInit, ReaderInit, HCacheInit, Shape
<1>7. hCovers = <<>> /\ hCovers \in Covers /\ Len(hCovers) = 0 /\ ends(hCovers)[0] = 0
  <2>1. hCovers = <<>> /\ hCovers \in Covers
    BY <1>4, StepCovers DEF hCovers
  <2>2. Len(<<>>) = 0
    OBVIOUS
  <2> QED
    BY <2>1, <2>2, Ends
<1>8. Len(Steps) \in Nat /\ MaxPos \in Nat \ {0} /\ WorkBufSize \in Nat
  BY <1>4, StepCovers, HCacheAssumption, BaseAssumption DEF HCacheAssumption, BaseAssumption
<1>a. ~inStep /\ ~atStep /\ ~atEnd /\ on
  BY <1>5 DEF inStep, atStep, atEnd, on
<1>9. hFree \in Seq(Bufs) /\ NoRepeat(hFree) /\ \A b \in Bufs : InList(b, hFree)
  BY <1>2, FreeListsAll
<1>10. OldTypes
  <2>1. <<>> \in Seq(Bufs) /\ <<>> \in Seq(Nat) /\ Len(<<>>) = 0
    BY EmptySeq
  <2>2. hBytes \in [Bufs -> Seq(Nat)] /\ \A b \in Bufs : Len(hBytes[b]) <= WorkBufSize
    BY <1>2, <1>8, <2>1
  <2>3. 0 \in 0..Len(Steps) /\ 0 \in 0..Len(hCovers) /\ MaxPos \in Nat /\ 0 \in Nat
    BY <1>7, <1>8
  <2>4. /\ hFree \in Seq(Bufs) /\ hData \in Seq(Bufs) /\ hWaiters \subseteq {Worker, Caller}
        /\ hErr \in BOOLEAN /\ hTErr \in BOOLEAN /\ hRErr \in BOOLEAN
        /\ hBuf \in Bufs \union {NoBuf} /\ hCur \in Bufs \union {NoBuf}
    BY <1>2, <1>3, <1>9, <2>1
  <2>5. hPos \in Nat /\ hLeft \in Nat /\ hOut \in Seq(Nat) /\ hCur = NoBuf
    BY <1>3, <2>1
  <2>6. /\ hPosted \in 0..Len(Steps) /\ hLeave \in Nat /\ hStep \in 0..Len(Steps)
        /\ hNo \in 0..Len(hCovers) /\ hAt \in Nat /\ hLen \in Nat
    BY <1>4, <2>3
  <2> QED
    BY <2>2, <2>4, <2>5, <2>6 DEF OldTypes
<1>11. MainInv
  <2>0. 0 \in 0..Len(Steps) /\ 0 \in Nat
    BY <1>8
  <2>1. step \in 0..Len(Steps) /\ cover \in Nat /\ oldLeft \in Nat
    BY <1>5, <2>0
  <2>3. result \in BOOLEAN
    BY <1>5
  <2>2. mpc \notin {"gap", "old", "write", "last", "lastPost"}
    BY <1>5
  <2> QED
    BY <1>3, <1>4, <1>5, <1>a, <2>1, <2>2, <2>3 DEF MainInv
<1>12. GoodInv
  BY <1>5 DEF GoodInv
<1>13. OldPhases
  BY <1>2, <1>3, <1>4, <1>7 DEF OldPhases, Resting
<1>14. SleepInv
  BY <1>2 DEF SleepInv
<1>15. SyncInv
  BY <1>4, <1>5, <1>8, <1>a DEF SyncInv
<1>16. DataInv
  <2>1. made = 0 /\ taken = 0
    BY <1>4, <1>7, <1>a DEF made, taken, total
  <2>2. InCur(0)
    BY <1>3, <2>1 DEF InCur
  <2>3. InData(0, 0) /\ InBuf(0)
    BY <1>2, <2>1, CoverChainEmpty DEF InData, InBuf
  <2> QED
    BY <2>2, <2>3 DEF DataInv
<1>17. CoverInv /\ ReadInv
  BY <1>3, <1>4 DEF CoverInv, ReadInv
<1>18. MemInv
  BY <1>4, <1>5 DEF MemInv
<1>19. HeardInv
  <2>1. Run(1, 0) = <<>>
    BY DEF Run
  <2> QED
    BY <1>2, <1>4, <1>8, <2>1 DEF HeardInv, NullTaken
<1>20. OwnInv
  <2>1. NoBuf \notin Bufs
    BY BaseAssumption DEF BaseAssumption
  <2> QED
    BY <1>2, <1>3, <1>9, <2>1, EmptyList DEF OwnInv
<1> QED
  BY <1>6, <1>10, <1>11, <1>12, <1>13, <1>14, <1>15, <1>16, <1>17, <1>18, <1>19, <1>20 DEF OldInv

(* Every step of the patch keeps it.                                       *)
LEMMA OldKept ==
  ASSUME Old \in Comp, Shape, ThreadsInv, OldInv, [PatchNext]_patchVars
  PROVE  Shape' /\ OldInv'
<1> USE DEF OldInv
<1>1. Shape' /\ UNCHANGED Steps /\ OldStep
  BY NextIsOld
<1>2. Steps \in Diffs
  BY DEF MainInv
<1>3. MainInv' /\ GoodInv' /\ CoverInv' /\ ReadInv' /\ OwnInv'
  BY <1>1, <1>2, MainKept, GoodKept, CoverKept, ReadKept, OwnKept
<1>4. SleepInv' /\ MemInv' /\ HeardInv'
  BY <1>1, SleepKept, MemKept, HeardKept
<1>5. CASE OldWorks /\ UNCHANGED <<callView, mainView>>
  <2>1. OldTypes' /\ OldPhases' /\ SyncInv' /\ DataInv'
    BY <1>1, <1>2, <1>5, WorkKeepsTypes, WorkKeepsPhases, WorkKeepsSync, WorkKeepsData
  <2> QED
    BY <1>1, <1>3, <1>4, <2>1
<1>6. CASE OldIsRead /\ UNCHANGED mainView
  <2>1. OldTypes' /\ OldPhases' /\ SyncInv' /\ DataInv'
    BY <1>1, <1>2, <1>6, ReadKeepsTypes, ReadKeepsPhases, ReadKeepsSync, ReadKeepsData
  <2> QED
    BY <1>1, <1>3, <1>4, <2>1
<1>7. CASE MainUsesOld \/ (OldStill /\ MainAlone)
  <2>1. OldTypes' /\ OldPhases' /\ SyncInv' /\ DataInv'
    BY <1>1, <1>7, MainKeepsTypes, MainKeepsPhases, MainKeepsSync, MainKeepsData
  <2> QED
    BY <1>1, <1>3, <1>4, <2>1
<1>8. CASE OldStill /\ UNCHANGED mainView
  <2>1. OldTypes' /\ OldPhases' /\ DataInv'
    BY <1>1, <1>8, MainKeepsTypes, MainKeepsPhases, MainKeepsData
  <2>2. SyncInv'
    <3>1. /\ UNCHANGED <<mpc, step, cover, oldLeft, result, hPosted, hLeave, hStep, hPc, hRpc, hOut>>
          /\ UNCHANGED Steps
      BY <1>1, <1>8 DEF OldStill, mainView, workerView, callView, postView, coverView
    <3>2. used' = used
      BY <3>1 DEF used, CoversNow
    <3> QED
      BY <3>1, <3>2 DEF SyncInv, on, atEnd, atStep, inStep, NullTaken, Untaken, Missed, Bare, readsOld
  <2> QED
    BY <1>1, <1>3, <1>4, <2>1, <2>2
<1> QED
  BY <1>1, <1>5, <1>6, <1>7, <1>8 DEF OldStep

(* Success is reported in one place, and stays.                            *)
LEMMA RetKept ==
  ASSUME RetInv, [PatchNext]_patchVars
  PROVE  RetInv'
<1> USE DEF RetInv, mainVars
<1>1. CASE UNCHANGED mainVars
  BY <1>1
<1>2. CASE MainSteps \/ OpenComp \/ ManagerClose
  <2>1. \/ mpc # "returned" /\ UNCHANGED ret
        \/ UNCHANGED <<mpc, ret, result>>
        \/ ret' = "false"
    BY <1>2 DEF MainSteps, OpenComp, OpenDecReads, OpenDecRead, OpenFails, Opened, DecOpen,
                ClipReads, ClipGot, clipWants, StepLoop, StepInfo, StepReset, StepData, StepPost,
                NextCover, CopyGap, OldReads, OldGot, OldDone, NewWrites, NewWritten, LastReset,
                LastPost, ManagerClose
  <2> QED
    BY <2>1
<1>3. CASE ManagerClosed
  BY <1>3 DEF ManagerClosed
<1>4. ASSUME NEW c \in Comp, WorkerThread(c)
      PROVE  UNCHANGED mainVars
  BY <1>4 DEF WorkerThread, FillDone, DecReads, ReadCall
<1>5. MainThread => \/ MainSteps \/ OpenComp \/ ManagerClose \/ ManagerClosed
                    \/ UNCHANGED mainVars
  BY DEF MainThread, MainSteps, ReadCall, WriteCall
<1> QED
  BY <1>1, <1>2, <1>3, <1>4, <1>5 DEF PatchNext, PatchSpurious, PatchDone, patchVars

(* The whole invariant, in the first state and from each to the next.      *)
LEMMA InitPatch == PatchInit => PatchInv
<1> SUFFICES ASSUME PatchInit PROVE PatchInv
  OBVIOUS
<1>1. RetInv
  BY DEF PatchInit, RetInv
<1> QED
  BY <1>1, InitCount, InitOld DEF PatchInv, ThreadsInv

LEMMA PatchStays ==
  ASSUME PatchInv, [PatchNext]_patchVars
  PROVE  PatchInv'
<1>1. ThreadsInv'
  BY NextKeepsCount DEF PatchInv, ThreadsInv
<1>2. RetInv'
  BY RetKept DEF PatchInv
<1>3. Old \in Comp => Shape' /\ OldInv'
  BY OldKept DEF PatchInv
<1> QED
  BY <1>1, <1>2, <1>3 DEF PatchInv

---------------------------------------------------------------------------
(* Theorems *)

(* The facts that the properties of the old cache say something about.     *)
LEMMA OldNames ==
  ASSUME NEW c \in HCaches
  PROVE  c = Old /\ Old \in Comp
BY Kinds

(* CacheNoSleepOverWork for every diff, every number and size of buffers:  *)
(* the worker never sleeps while there is what it waits for, nor does the  *)
(* patcher, and they never both sleep, so that the single signals of the   *)
(* shared condition variable always reach the one they are meant for.      *)
THEOREM CacheSleepSound == PatchSpec => []CacheNoSleepOverWork
<1>1. PatchInv => CacheNoSleepOverWork
  <2> SUFFICES ASSUME PatchInv, NEW c \in HCaches
               PROVE  /\ Worker \in waiters[c] => IF pc[c] = "waitBuf" THEN freeBufList[c] = <<>>
                                                                       ELSE covers_cache[c] = 0
                      /\ Caller \in waiters[c] => dataBufList[c] = <<>>
                      /\ waiters[c] # {Worker, Caller}
    BY DEF CacheNoSleepOverWork
  <2> QED
    BY OldNames DEF PatchInv, OldInv, SleepInv, hWaiters, hPc, hFree, hPosted, hData
<1>2. PatchInv /\ [PatchNext]_patchVars => PatchInv'
  BY PatchStays
<1> QED
  BY <1>1, <1>2, InitPatch, PTL DEF PatchSpec

(* PostFindsCacheEmpty likewise: the asserts of the old cache's listener   *)
(* hold, whatever the worker has got done when the patcher posts, but at   *)
(* the end after a last step that reads no old data.                       *)
THEOREM PostFindsEmpty == PatchSpec => []PostFindsCacheEmpty
<1>1. PatchInv => PostFindsCacheEmpty
  <2> SUFFICES ASSUME PatchInv, NEW c \in HCaches, mpc \in {"post", "lastPost", "reset", "last"}
               PROVE  /\ curDataBuf[c] = NoBuf
                      /\ covers_cache[c] = 0 \/ (mpc \in {"last", "lastPost"} /\ ~readsOld(step))
    BY DEF PostFindsCacheEmpty
  <2>1. c = Old /\ OldInv
    BY OldNames DEF PatchInv
  <2>2. ~inStep /\ on /\ hRpc = "idle"
    BY <2>1 DEF inStep, on, atEnd, OldInv, MainInv
  <2>3. hPosted = 0 \/ (mpc \in {"last", "lastPost"} /\ ~readsOld(step))
    BY <2>1, <2>2 DEF OldInv, SyncInv, Untaken, Missed, Bare
  <2>4. PICK a \in Nat : InCur(a)
    BY <2>1, <2>2 DEF OldInv, DataInv, OldPhases
  <2>5. taken = total(hCovers)
    BY <2>2 DEF taken
  <2>6. a = taken
    <3>1. made \in Nat /\ total(hCovers) \in Nat /\ made <= total(hCovers)
      BY <2>1, MadeIs DEF OldInv, MainInv
    <3> QED
      BY <2>4, <2>5, <3>1 DEF InCur
  <2>7. hCur = NoBuf
    BY <2>2, <2>4, <2>6 DEF InCur
  <2> QED
    BY <2>1, <2>3, <2>7 DEF hPosted, hCur
<1>2. PatchInv /\ [PatchNext]_patchVars => PatchInv'
  BY PatchStays
<1> QED
  BY <1>1, <1>2, InitPatch, PTL DEF PatchSpec

(* StepMemStable likewise: the patcher never loads a step over the covers  *)
(* that the worker, which holds no lock on them, is still to decode.       *)
THEOREM StepMemSound == PatchSpec => []StepMemStable
<1>1. PatchInv => StepMemStable
  <2> SUFFICES ASSUME PatchInv, NEW c \in HCaches
               PROVE  /\ covers_cache[c] # 0 => stepMem = covers_cache[c]
                      /\ (stepNo[c] # 0 /\ (pc[c] = "hear" \/ coverNo[c] < Len(coversOf(c)))) =>
                           pc[c] \in {"end", "done"} \/ stepMem = stepNo[c]
    BY DEF StepMemStable
  <2>1. c = Old /\ MemInv
    BY OldNames DEF PatchInv, OldInv
  <2>2. coversOf(c) = hCovers
    BY <2>1 DEF coversOf, hCovers, coversIn, hStep
  <2> QED
    BY <2>1, <2>2 DEF MemInv, hPosted, hStep, hPc, hNo
<1>2. PatchInv /\ [PatchNext]_patchVars => PatchInv'
  BY PatchStays
<1> QED
  BY <1>1, <1>2, InitPatch, PTL DEF PatchSpec

(* OldBytesAreTheCovers likewise: a read of the old data that succeeds has *)
(* exactly the bytes of the cover being patched, though worker and patcher *)
(* decode the covers apart and the bytes change hands in whole buffers.    *)
THEOREM OldBytesSound == PatchSpec => []OldBytesAreTheCovers
<1>1. PatchInv => OldBytesAreTheCovers
  <2> SUFFICES ASSUME PatchInv, Old \in Comp, mpc = "old", oldLeft > 0, rpc[Old] = "ok"
               PROVE  outData[Old] = Run(oldReadPos, oldRead)
    BY DEF OldBytesAreTheCovers
  <2>1. OldInv /\ hRpc = "ok"
    BY DEF PatchInv, hRpc
  <2>2. Len(hOut) + hLeft = oldRead /\ hOut = Run(oldReadPos, Len(hOut)) /\ hLeft = 0
    BY <2>1 DEF OldInv, ReadInv
  <2>3. Len(hOut) \in Nat
    BY <2>1 DEF OldInv, OldTypes
  <2>4. Len(hOut) = oldRead
    BY <2>2, <2>3
  <2> QED
    BY <2>2, <2>4 DEF hOut
<1>2. PatchInv /\ [PatchNext]_patchVars => PatchInv'
  BY PatchStays
<1> QED
  BY <1>1, <1>2, InitPatch, PTL DEF PatchSpec

(* ListenerHearsSteps likewise: the listener hears the steps in order, the *)
(* null covers after the last one only, and all steps when the patch       *)
(* succeeds, since the worker is then gone.  Only a last step that reads   *)
(* no old data may be left out.                                            *)
THEOREM ListenerSound == PatchSpec => []ListenerHearsSteps
<1>1. PatchInv => ListenerHearsSteps
  <2> SUFFICES ASSUME PatchInv, NEW c \in HCaches
               PROVE  \E n \in 0..Len(Steps) :
                        /\ heard[c] = Run(1, n) \/ (allHeard(n) /\ heard[c] = Append(Run(1, n), 0))
                        /\ ret = "true" => allHeard(n)
    BY DEF ListenerHearsSteps
  <2>1. c = Old /\ Old \in Comp /\ OldInv /\ ThreadsInv /\ RetInv
    BY OldNames DEF PatchInv
  <2>2. Len(Steps) \in Nat /\ Len(Steps) \in 0..Len(Steps) /\ hStep \in 0..Len(Steps)
    BY <2>1, StepCovers DEF OldInv, OldTypes, MainInv
  <2>3. ret = "true" => hLeave = 0 /\ hPc \in {"none", "done"}
    <3>1. ret = "true" => mpc = "returned" /\ result
      BY <2>1 DEF RetInv
    <3>2. ret = "true" => closing = "ended" /\ hLeave = 0
      BY <2>1, <3>1 DEF ThreadsInv, CountInv, OldInv, SyncInv, atEnd
    <3>3. liveWorkers = {} => hPc \in {"none", "done"}
      BY <2>1 DEF liveWorkers, hPc
    <3> QED
      BY <2>1, <3>2, <3>3 DEF ThreadsInv, CountInv
  <2>4. heard[c] = hHeard
    BY <2>1 DEF hHeard
  <2>5. CASE NullTaken
    BY <2>1, <2>2, <2>4, <2>5 DEF OldInv, HeardInv
  <2>6. CASE ~NullTaken /\ hPc = "hear"
    <3>1. hHeard = Run(1, hStep - 1) /\ hStep # 0 /\ ret # "true"
      BY <2>1, <2>3, <2>6 DEF OldInv, HeardInv
    <3>2. PICK n \in 0..Len(Steps) : n = hStep - 1
      BY <2>2, <3>1
    <3> QED
      BY <2>4, <3>1, <3>2
  <2>7. CASE ~NullTaken /\ hPc # "hear"
    <3>1. hHeard = Run(1, hStep)
      BY <2>1, <2>7 DEF OldInv, HeardInv
    <3>2. ret = "true" => allHeard(hStep)
      BY <2>1, <2>3, <2>7 DEF OldInv, SyncInv, Untaken, Missed, Bare, allHeard
    <3> QED
      BY <2>2, <2>4, <3>1, <3>2
  <2> QED
    BY <2>5, <2>6, <2>7
<1>2. PatchInv /\ [PatchNext]_patchVars => PatchInv'
  BY PatchStays
<1> QED
  BY <1>1, <1>2, InitPatch, PTL DEF PatchSpec
===========================================================================
