-------------------------- MODULE HInputMT_proofs -------------------------
(***************************************************************************)
(* Proofs about hinput_mt_t for any number of components, any number of    *)
(* work buffers, any sizes, with failures and spurious wakeups.            *)
(***************************************************************************)
EXTENDS HInputMT, MTBase_proofs

---------------------------------------------------------------------------
(* Types and the count of threads *)

(* Who is about to use or to pass on a buffer has one. *)
HoldsBuf ==
  \A c \in Comp : /\ pc[c] \in {"fill", "filling", "push"} => wbuf[c] \in Bufs
                  /\ rpc[c] = "release" => curDataBuf[c] \in Bufs

(* TypeInv is inductive: the types need the count, since a counter of      *)
(* threads that went below zero would not be a Nat, and HoldsBuf, since    *)
(* the null buffer must not get into a list.                               *)
TypeInv == InputTypeOK /\ ThreadCount /\ HoldsBuf

(* _hpatch_mt_base_init and hinput_mt_open establish the type invariant.  *)
LEMMA InitTypeInv == InputInit => TypeInv
<1> SUFFICES ASSUME InputInit PROVE TypeInv
  OBVIOUS
<1>1. PICK list \in freeLists : freeBufList = [c \in Comp |-> list]
  BY DEF InputInit, BaseInit
<1>2. list \in [1..Cardinality(Bufs) -> Bufs]
  BY DEF freeLists
<1>3. Cardinality(Bufs) \in Nat
  BY BaseAssumption, FS_CardinalityType DEF BaseAssumption
<1>4. list \in Seq(Bufs)
  BY <1>2, <1>3
<1>5. freeBufList \in [Comp -> Seq(Bufs)]
  BY <1>1, <1>4
<1>6. liveThreads = Comp
  BY DEF InputInit, BaseInit, liveThreads
<1>7. runningThreads \in Nat /\ ThreadCount
  BY <1>6, BaseAssumption, FS_CardinalityType
  DEF InputInit, BaseInit, ThreadCount, BaseAssumption
<1>8. \A c \in HInputs : curReadPos[c] <= StreamSize[c]
  BY HInputAssumption DEF InputInit, HInputAssumption
<1>9. bufData \in [Comp -> [Bufs -> Seq(Nat)]]
  BY DEF InputInit, BaseInit
<1>10. HoldsBuf
  BY DEF InputInit, BaseInit, ReaderInit, HoldsBuf
<1>11. isOnFinish \in BOOLEAN /\ isOnError \in BOOLEAN /\ closing = "no"
  BY DEF InputInit, BaseInit
<1>12. dataBufList \in [Comp -> Seq(Bufs)]
  BY DEF InputInit, BaseInit
<1>13. waiters \in [Comp -> SUBSET {Worker, Caller}]
  BY DEF InputInit, BaseInit
<1>14. /\ baseOnError \in [Comp -> BOOLEAN] /\ pc \in [Comp -> InputWorkerPC]
       /\ wbuf \in [Comp -> Bufs \union {NoBuf}] /\ tErr \in [Comp -> BOOLEAN]
  BY DEF InputInit, BaseInit, InputWorkerPC
<1>15. /\ curDataBuf \in [Comp -> Bufs \union {NoBuf}] /\ curDataBuf_pos \in [Comp -> Nat]
       /\ rpc \in [Comp -> InputReaderPC] /\ left \in [Comp -> Nat]
       /\ rErr \in [Comp -> BOOLEAN] /\ outData \in [Comp -> Seq(Nat)]
       /\ curReadPos \in [HInputs -> Nat] /\ curOutedPos \in [HInputs -> Nat]
  BY DEF InputInit, ReaderInit, InputReaderPC
<1> QED
  BY <1>5, <1>7, <1>8, <1>9, <1>10, <1>11, <1>12, <1>13, <1>14, <1>15 DEF TypeInv, InputTypeOK

(* The steps of the worker, one by one. *)
LEMMA WorkerTypeInv ==
  ASSUME TypeInv, NEW c \in HInputs, InputWorkerNext(c)
  PROVE  TypeInv'
<1> USE DEF InputTypeOK, InputWorkerPC, InputReaderPC
<1>0. /\ InputTypeOK /\ ThreadCount /\ HoldsBuf /\ c \in Comp /\ StreamSize[c] \in Nat
      /\ WorkBufSize \in Nat /\ NoBuf \notin Bufs
  BY HInputAssumption, BaseAssumption DEF TypeInv, HInputAssumption, BaseAssumption
<1>1. CASE InputLoop(c)
  <2>1. InputTypeOK'
    BY <1>0, <1>1 DEF InputLoop, mtVars, listVars, readerVars, hinputVars
  <2>2. liveThreads' = liveThreads /\ runningThreads' = runningThreads
    BY <1>0, <1>1 DEF InputLoop, liveThreads, mtVars
  <2>3. HoldsBuf'
    BY <1>0, <1>1 DEF InputLoop, HoldsBuf, readerVars
  <2> QED
    BY <1>0, <2>1, <2>2, <2>3 DEF TypeInv, ThreadCount
<1>2. CASE InputGetBuf(c) \/ InputWakeBuf(c)
  <2>1. /\ TakeFree(c, "fill", "loop") /\ pc[c] # "done"
        /\ UNCHANGED <<readerVars, hinputVars>>
    BY <1>2 DEF InputGetBuf, InputWakeBuf, WorkerGetFree, WorkerWakeFree
  <2>2. /\ restBufs(freeBufList[c]) \in Seq(Bufs)
        /\ firstBuf(freeBufList[c]) \in Bufs \union {NoBuf}
    BY <1>0, Pop
  <2>3. InputTypeOK'
    BY <1>0, <2>1, <2>2 DEF TakeFree, mtVars, readerVars, hinputVars
  <2>4. liveThreads' = liveThreads /\ runningThreads' = runningThreads
    BY <1>0, <2>1 DEF TakeFree, liveThreads, mtVars
  <2>5. HoldsBuf'
    BY <1>0, <2>1, <2>2 DEF TakeFree, HoldsBuf, readerVars
  <2> QED
    BY <1>0, <2>3, <2>4, <2>5 DEF TypeInv, ThreadCount
<1>3. CASE InputWaitBuf(c)
  <2>1. InputTypeOK'
    BY <1>0, <1>3 DEF InputWaitBuf, WorkerWaitFree, WaitOn, mtVars, readerVars, hinputVars
  <2>2. liveThreads' = liveThreads /\ runningThreads' = runningThreads
    BY <1>0, <1>3 DEF InputWaitBuf, WorkerWaitFree, liveThreads, mtVars
  <2>3. HoldsBuf'
    BY <1>0, <1>3 DEF InputWaitBuf, WorkerWaitFree, HoldsBuf, readerVars
  <2> QED
    BY <1>0, <2>1, <2>2, <2>3 DEF TypeInv, ThreadCount
<1>4. CASE InputReadAData(c)
  <2> DEFINE rest == StreamSize[c] - curReadPos[c]
             n == IF WorkBufSize > rest THEN rest ELSE WorkBufSize
  <2>1. n \in Nat /\ curReadPos[c] + n <= StreamSize[c] /\ curReadPos[c] \in Nat
    BY <1>0, SMTT(30)
  <2>2. Run(curReadPos[c], n) \in Seq(Nat)
    BY <2>1, RunType
  <2>3. /\ curReadPos' = [curReadPos EXCEPT ![c] = @ + n]
        /\ bufData' = [bufData EXCEPT ![c][wbuf[c]] = Run(curReadPos[c], n)]
        /\ pc' = [pc EXCEPT ![c] = "filling"] /\ pc[c] = "fill"
        /\ UNCHANGED <<mtVars, listVars, wbuf, tErr, readerVars, curOutedPos>>
    BY <1>4 DEF InputReadAData
  <2> HIDE DEF n
  <2>4. bufData' \in [Comp -> [Bufs -> Seq(Nat)]]
    BY <1>0, <2>2, <2>3
  <2>5. /\ curReadPos' \in [HInputs -> Nat]
        /\ \A d \in HInputs : curReadPos'[d] <= StreamSize[d]
    BY <1>0, <2>1, <2>3, SMTT(30)
  <2>6. InputTypeOK'
    BY <1>0, <2>3, <2>4, <2>5 DEF mtVars, listVars, readerVars
  <2>7. liveThreads' = liveThreads /\ runningThreads' = runningThreads
    BY <1>0, <2>3 DEF liveThreads, mtVars
  <2>8. HoldsBuf'
    BY <1>0, <2>3 DEF HoldsBuf, readerVars
  <2> QED
    BY <1>0, <2>6, <2>7, <2>8 DEF TypeInv, ThreadCount
<1>5. ASSUME NEW ok \in BOOLEAN, InputReadDone(c, ok) PROVE TypeInv'
  <2>1. InputTypeOK'
    BY <1>0, <1>5 DEF InputReadDone, mtVars, listVars, readerVars, hinputVars
  <2>2. liveThreads' = liveThreads /\ runningThreads' = runningThreads
    BY <1>0, <1>5 DEF InputReadDone, liveThreads, mtVars
  <2>3. HoldsBuf'
    BY <1>0, <1>5 DEF InputReadDone, HoldsBuf, readerVars
  <2> QED
    BY <1>0, <2>1, <2>2, <2>3 DEF TypeInv, ThreadCount
<1>6. CASE InputPush(c)
  <2> DEFINE list == pushABufAtEnd(dataBufList[c], wbuf[c])
  <2>1. /\ dataBufList' = [dataBufList EXCEPT ![c] = list]
        /\ Signal(c) /\ wbuf' = [wbuf EXCEPT ![c] = NoBuf]
        /\ tErr' = [tErr EXCEPT ![c] = baseOnError[c]]
        /\ pc' = [pc EXCEPT ![c] = "loop"] /\ pc[c] = "push"
        /\ UNCHANGED <<mtVars, freeBufList, baseOnError, bufData, readerVars, hinputVars>>
    BY <1>0, <1>6 DEF InputPush, WorkerPushData
  <2>2. list \in Seq(Bufs)
    BY <1>0, <2>1, PushAtEnd DEF HoldsBuf
  <2> HIDE DEF list
  <2>3. waiters' \in [Comp -> SUBSET {Worker, Caller}]
    BY <1>0, <2>1, SignalType
  <2>4. InputTypeOK'
    BY <1>0, <2>1, <2>2, <2>3 DEF mtVars, readerVars, hinputVars
  <2>5. liveThreads' = liveThreads /\ runningThreads' = runningThreads
    BY <1>0, <2>1 DEF liveThreads, mtVars
  <2>6. HoldsBuf'
    BY <1>0, <2>1 DEF HoldsBuf, readerVars
  <2> QED
    BY <1>0, <2>4, <2>5, <2>6 DEF TypeInv, ThreadCount
<1>7. CASE InputError(c)
  <2>1. InputTypeOK'
    BY <1>0, <1>7 DEF InputError, SetBaseOnError, SetMtOnError, setOnError, mtVars, readerVars,
                      hinputVars
  <2>2. liveThreads' = liveThreads /\ runningThreads' = runningThreads
    BY <1>0, <1>7 DEF InputError, SetBaseOnError, SetMtOnError, liveThreads, mtVars
  <2>3. HoldsBuf'
    BY <1>0, <1>7, SMTT(30) DEF InputError, SetBaseOnError, SetMtOnError, HoldsBuf, readerVars
  <2> QED
    BY <1>0, <2>1, <2>2, <2>3 DEF TypeInv, ThreadCount
<1>8. CASE InputEnd(c)
  <2>1. /\ pc[c] = "end" /\ runningThreads' = runningThreads - 1
        /\ pc' = [pc EXCEPT ![c] = "done"]
        /\ UNCHANGED <<isOnFinish, isOnError, closing, listVars, wbuf, tErr, bufData,
                       readerVars, hinputVars>>
    BY <1>8 DEF InputEnd, ThreadEnd
  <2>2. liveThreads' = liveThreads \ {c} /\ c \in liveThreads
    BY <1>0, <2>1 DEF liveThreads
  <2>3. Cardinality(liveThreads') = Cardinality(liveThreads) - 1
    BY <2>2, LiveThreadsFinite, FS_RemoveElement
  <2>4. Cardinality(liveThreads') \in Nat
    BY <2>2, LiveThreadsFinite, FS_Subset, FS_CardinalityType
  <2>5. runningThreads' \in Nat /\ ThreadCount'
    BY <1>0, <2>1, <2>3, <2>4 DEF ThreadCount
  <2>6. InputTypeOK'
    BY <1>0, <2>1, <2>5 DEF listVars, readerVars, hinputVars
  <2>7. HoldsBuf'
    BY <1>0, <2>1 DEF HoldsBuf, readerVars
  <2> QED
    BY <2>5, <2>6, <2>7 DEF TypeInv
<1> QED
  BY <1>1, <1>2, <1>3, <1>4, <1>5, <1>6, <1>7, <1>8 DEF InputWorkerNext, InputWorker

(* Each step of _DEF_hinput_mt_base_read keeps the type invariant.  *)
LEMMA ReadTypeInv ==
  ASSUME TypeInv, NEW c \in HInputs, ReadStep(c), UNCHANGED hinputVars
  PROVE  TypeInv'
<1> USE DEF InputTypeOK, InputWorkerPC, InputReaderPC, hinputVars
<1>0. /\ InputTypeOK /\ ThreadCount /\ HoldsBuf /\ c \in Comp /\ NoBuf \notin Bufs
  BY HInputAssumption, BaseAssumption DEF TypeInv, HInputAssumption, BaseAssumption
<1>1. CASE ReadLoop(c)
  <2>a. /\ rErr' = rErr \/ rErr' = [rErr EXCEPT ![c] = isOnError]
        /\ \E x \in {"fail", "ok", "getBuf"} : rpc' = [rpc EXCEPT ![c] = x]
        /\ UNCHANGED <<curDataBuf, curDataBuf_pos, left, outData, baseVars>>
    <3> HIDE DEF InputTypeOK
    <3> QED
      BY <1>1 DEF ReadLoop
  <2>b. rErr' \in [Comp -> BOOLEAN] /\ rpc' \in [Comp -> InputReaderPC]
    BY <1>0, <2>a, ZenonT(60)
  <2>1. InputTypeOK'
    BY <1>0, <2>a, <2>b DEF baseVars, mtVars, listVars, workerVars
  <2>2. ThreadCount'
    BY <1>0, <1>1, CallerKeepsThreads DEF ReadLoop, baseVars, mtVars, workerVars
  <2>3. HoldsBuf'
    BY <1>0, <1>1, SMTT(30) DEF ReadLoop, HoldsBuf, baseVars, workerVars
  <2> QED
    BY <2>1, <2>2, <2>3 DEF TypeInv
<1>2. CASE ReadGetBuf(c) \/ ReadWake(c)
  <2>1. TakeData(c)
    BY <1>2 DEF ReadGetBuf, ReadWake
  <2>2. /\ restBufs(dataBufList[c]) \in Seq(Bufs)
        /\ firstBuf(dataBufList[c]) \in Bufs \union {NoBuf}
    BY <1>0, Pop
  <2>3. InputTypeOK'
    BY <1>0, <2>1, <2>2 DEF TakeData, mtVars, workerVars
  <2>4. ThreadCount'
    BY <1>0, <2>1, CallerKeepsThreads DEF TakeData, mtVars, workerVars
  <2>5. HoldsBuf'
    BY <1>0, <2>1 DEF TakeData, HoldsBuf, workerVars
  <2> QED
    BY <2>3, <2>4, <2>5 DEF TypeInv
<1>3. CASE ReadWait(c)
  <2>1. InputTypeOK'
    BY <1>0, <1>3 DEF ReadWait, WaitOn, mtVars, workerVars
  <2>2. ThreadCount'
    BY <1>0, <1>3, CallerKeepsThreads DEF ReadWait, mtVars, workerVars
  <2>3. HoldsBuf'
    BY <1>0, <1>3, SMTT(30) DEF ReadWait, HoldsBuf, workerVars
  <2> QED
    BY <2>1, <2>2, <2>3 DEF TypeInv
<1>4. CASE ReadCopy(c)
  <2> DEFINE data == bufData[c][curDataBuf[c]]
             have == Len(data) - curDataBuf_pos[c]
             n    == IF have < left[c] THEN have ELSE left[c]
             part == SubSeq(data, curDataBuf_pos[c] + 1, curDataBuf_pos[c] + n)
  <2>1. /\ outData' = [outData EXCEPT ![c] = @ \o part]
        /\ curDataBuf_pos' = [curDataBuf_pos EXCEPT ![c] = @ + n]
        /\ left' = [left EXCEPT ![c] = @ - n]
        /\ rpc' = [rpc EXCEPT ![c] = IF n = have THEN "release" ELSE "loop"]
        /\ curDataBuf[c] # NoBuf
        /\ UNCHANGED <<curDataBuf, rErr, baseVars>>
    BY <1>4 DEF ReadCopy
  <2>2. curDataBuf[c] \in Bufs /\ data \in Seq(Nat)
    BY <1>0, <2>1
  <2>a. left[c] \in Nat /\ curDataBuf_pos[c] \in Nat
    BY <1>0
  <2>b. Len(data) \in Nat
    BY <2>2
  <2> HIDE DEF data, InputTypeOK
  <2>3. /\ n \in Int /\ left[c] - n \in Nat /\ curDataBuf_pos[c] + n \in Nat
        /\ curDataBuf_pos[c] + n <= Len(data) /\ curDataBuf_pos[c] + 1 \in Nat \ {0}
    BY <2>a, <2>b, SMTT(30)
  <2> HIDE DEF have, n
  <2>4. part \in Seq(Nat)
    BY <2>2, <2>3, SubSeqType
  <2> HIDE DEF part
  <2>5. outData[c] \o part \in Seq(Nat)
    BY <1>0, <2>4 DEF InputTypeOK
  <2>6. InputTypeOK'
    BY <1>0, <2>1, <2>3, <2>5 DEF InputTypeOK, baseVars, mtVars, listVars, workerVars
  <2>7. ThreadCount'
    BY <1>0, <2>1, CallerKeepsThreads DEF baseVars, mtVars, workerVars
  <2>8. HoldsBuf'
    BY <1>0, <2>1, <2>2 DEF HoldsBuf, baseVars, workerVars
  <2> QED
    BY <2>6, <2>7, <2>8 DEF TypeInv
<1>5. CASE ReadRelease(c)
  <2> DEFINE list == pushABufAtHead(freeBufList[c], curDataBuf[c])
  <2>1. /\ freeBufList' = [freeBufList EXCEPT ![c] = list]
        /\ Signal(c)
        /\ rErr' = [rErr EXCEPT ![c] = baseOnError[c]]
        /\ curDataBuf' = [curDataBuf EXCEPT ![c] = NoBuf]
        /\ curDataBuf_pos' = [curDataBuf_pos EXCEPT ![c] = 0]
        /\ rpc' = [rpc EXCEPT ![c] = "loop"] /\ rpc[c] = "release"
        /\ UNCHANGED <<left, outData, mtVars, dataBufList, baseOnError, workerVars, bufData>>
    BY <1>5 DEF ReadRelease
  <2>2. list \in Seq(Bufs)
    BY <1>0, <2>1, PushAtHead DEF HoldsBuf
  <2> HIDE DEF list
  <2>3. waiters' \in [Comp -> SUBSET {Worker, Caller}]
    BY <1>0, <2>1, SignalType
  <2>4. InputTypeOK'
    BY <1>0, <2>1, <2>2, <2>3 DEF mtVars, workerVars
  <2>5. ThreadCount'
    BY <1>0, <2>1, CallerKeepsThreads DEF mtVars, workerVars
  <2>6. HoldsBuf'
    BY <1>0, <2>1 DEF HoldsBuf, workerVars
  <2> QED
    BY <2>4, <2>5, <2>6 DEF TypeInv
<1> QED
  BY <1>1, <1>2, <1>3, <1>4, <1>5 DEF ReadStep

(* Every step keeps the type invariant.  *)
LEMMA NextTypeInv == TypeInv /\ [InputNext]_inputVars => TypeInv'
<1> SUFFICES ASSUME TypeInv, [InputNext]_inputVars PROVE TypeInv'
  OBVIOUS
<1> USE DEF InputTypeOK, InputWorkerPC, InputReaderPC
<1>0. /\ InputTypeOK /\ ThreadCount /\ HoldsBuf /\ HInputs \subseteq Comp
      /\ StreamSize \in [HInputs -> Nat] /\ MaxRead \in Nat
  BY HInputAssumption DEF TypeInv, HInputAssumption
<1>1. ASSUME NEW c \in HInputs, InputWorkerNext(c) PROVE TypeInv'
  BY <1>1, WorkerTypeInv
<1>2. ASSUME NEW c \in HInputs, InputCallerReads(c) PROVE TypeInv'
  <2>1. PICK n \in 1..MaxRead, pos \in {curOutedPos[c], curOutedPos[c] + 1} : InputRead(c, pos, n)
    BY <1>2 DEF InputCallerReads
  <2>2. n \in Nat /\ c \in Comp
    BY <1>0, <2>1
  <2>3. InputTypeOK'
    <3>1. /\ UNCHANGED <<curDataBuf, curDataBuf_pos, baseVars, curReadPos>>
          /\ \/ curOutedPos' = [curOutedPos EXCEPT ![c] = @ + n]
             \/ curOutedPos' = curOutedPos
          /\ \/ EnterRead(c, n)
             \/ rpc' = [rpc EXCEPT ![c] = "fail"] /\ UNCHANGED <<left, rErr, outData>>
      <4>1. CASE curOutedPos[c] = pos
        BY <1>0, <2>1, <4>1 DEF InputRead, EnterRead
      <4>2. CASE curOutedPos[c] # pos
        BY <1>0, <2>1, <4>2 DEF InputRead, EnterRead
      <4> QED
        BY <4>1, <4>2
    <3>2. curOutedPos' \in [HInputs -> Nat]
      <4>1. curOutedPos \in [HInputs -> Nat] /\ curOutedPos[c] + n \in Nat
        BY <1>0, <2>2
      <4> QED
        BY <4>1, <3>1
    <3>3. rpc' \in [Comp -> InputReaderPC]
      BY <1>0, <2>2, <3>1 DEF EnterRead
    <3>4. /\ left' \in [Comp -> Nat] /\ rErr' \in [Comp -> BOOLEAN]
          /\ outData' \in [Comp -> Seq(Nat)]
      <4>1. CASE EnterRead(c, n)
        BY <1>0, <2>2, <4>1 DEF EnterRead
      <4>2. CASE UNCHANGED <<left, rErr, outData>>
        BY <1>0, <4>2
      <4> QED
        BY <3>1, <4>1, <4>2
    <3> QED
      BY <1>0, <3>1, <3>2, <3>3, <3>4 DEF baseVars, mtVars, listVars, workerVars
  <2>4. ThreadCount'
    BY <1>0, <2>1, CallerKeepsThreads DEF InputRead, EnterRead, baseVars, mtVars, workerVars
  <2>5. HoldsBuf'
    BY <1>0, <2>1 DEF InputRead, EnterRead, HoldsBuf, baseVars, workerVars
  <2> QED
    BY <2>3, <2>4, <2>5 DEF TypeInv
<1>3. ASSUME NEW c \in HInputs, InputCallerStep(c) PROVE TypeInv'
  BY <1>3, ReadTypeInv DEF InputCallerStep
<1>4. ASSUME NEW c \in HInputs, InputCallerReturns(c) PROVE TypeInv'
  <2>1. InputTypeOK'
    BY <1>0, <1>4 DEF InputCallerReturns, ReadReturned, baseVars, mtVars, listVars, workerVars,
                      hinputVars
  <2>2. ThreadCount'
    BY <1>0, <1>4, CallerKeepsThreads DEF InputCallerReturns, baseVars, mtVars, workerVars
  <2>3. HoldsBuf'
    BY <1>0, <1>4 DEF InputCallerReturns, ReadReturned, HoldsBuf, baseVars, workerVars
  <2> QED
    BY <2>1, <2>2, <2>3 DEF TypeInv
<1>5. CASE InputClose \/ InputClosed \/ InputOtherError
  <2>1. InputTypeOK'
    BY <1>0, <1>5 DEF InputClose, InputClosed, InputOtherError, WaitAllThreadEnd, AllThreadsEnded,
                      setOnError, setOnFinish, listVars, workerVars, readerVars, hinputVars
  <2>2. ThreadCount'
    BY <1>0, <1>5, CallerKeepsThreads
    DEF InputClose, InputClosed, InputOtherError, WaitAllThreadEnd, AllThreadsEnded, workerVars
  <2>3. HoldsBuf'
    BY <1>0, <1>5 DEF InputClose, InputClosed, InputOtherError, WaitAllThreadEnd, AllThreadsEnded,
                      HoldsBuf, workerVars, readerVars
  <2> QED
    BY <2>1, <2>2, <2>3 DEF TypeInv
<1>6. CASE InputSpurious
  <2>1. InputTypeOK'
    BY <1>0, <1>6, SMTT(30) DEF InputSpurious, SpuriousWake, mtVars, workerVars, readerVars, hinputVars
  <2>2. ThreadCount'
    BY <1>0, <1>6, CallerKeepsThreads DEF InputSpurious, SpuriousWake, mtVars, workerVars
  <2>3. HoldsBuf'
    BY <1>0, <1>6 DEF InputSpurious, SpuriousWake, HoldsBuf, workerVars, readerVars
  <2> QED
    BY <2>1, <2>2, <2>3 DEF TypeInv
<1>7. CASE UNCHANGED inputVars
  <2>1. InputTypeOK'
    BY <1>0, <1>7 DEF inputVars, baseVars, mtVars, listVars, workerVars, readerVars, hinputVars
  <2>2. ThreadCount'
    BY <1>0, <1>7, CallerKeepsThreads DEF inputVars, baseVars, mtVars, workerVars
  <2>3. HoldsBuf'
    BY <1>0, <1>7 DEF inputVars, baseVars, workerVars, readerVars, HoldsBuf
  <2> QED
    BY <2>1, <2>2, <2>3 DEF TypeInv
<1> QED
  BY <1>1, <1>2, <1>3, <1>4, <1>5, <1>6, <1>7 DEF InputNext, InputCallerNext, InputDone

(* hinput_mt_t is type correct: whatever fails, the worker never asks for  *)
(* a byte beyond streamSize, no null buffer gets into a list and the       *)
(* counter of running threads never goes below zero.                       *)
THEOREM InputTypeCorrect == InputSpec => []InputTypeOK
<1>1. InputInit => TypeInv
  BY InitTypeInv
<1>2. TypeInv /\ [InputNext]_inputVars => TypeInv'
  BY NextTypeInv
<1>3. TypeInv => InputTypeOK
  BY DEF TypeInv
<1> QED
  BY <1>1, <1>2, <1>3, PTL DEF InputSpec

---------------------------------------------------------------------------
(* Freeing the components *)

ClosedInv == closing = "ended" => runningThreads = 0

(* The closer leaves hpatch_mt_waitAllThreadEnd, and so frees the          *)
(* components' memory, only after every worker has left its thread         *)
(* function.                                                               *)
THEOREM InputFreedAfterThreads == InputSpec => []FreedAfterThreads
<1> DEFINE Inv == TypeInv /\ ClosedInv
<1>1. InputInit => Inv
  BY InitTypeInv DEF InputInit, BaseInit, ClosedInv
<1>2. ASSUME Inv PROVE FreedAfterThreads
  <2>1. SUFFICES ASSUME closing = "ended" PROVE \A c \in Comp : pc[c] = "done"
    BY DEF FreedAfterThreads
  <2>2. Cardinality(liveThreads) = 0
    BY <1>2, <2>1 DEF ClosedInv, TypeInv, ThreadCount
  <2>3. liveThreads = {}
    BY <2>2, LiveThreadsFinite, FS_EmptySet
  <2> QED
    BY <2>3 DEF liveThreads
<1>3. Inv /\ [InputNext]_inputVars => Inv'
  <2> SUFFICES ASSUME Inv, [InputNext]_inputVars PROVE ClosedInv'
    BY NextTypeInv
  <2>1. ASSUME NEW c \in HInputs, InputWorkerNext(c) PROVE ClosedInv'
    <3>1. CASE InputEnd(c)
      <4>1. closing' = closing /\ pc[c] = "end" /\ c \in Comp
        BY <3>1, HInputAssumption DEF InputEnd, ThreadEnd, HInputAssumption
      <4>2. closing # "ended"
        BY <4>1, <1>2 DEF FreedAfterThreads
      <4> QED
        BY <4>1, <4>2 DEF ClosedInv
    <3>2. CASE ~InputEnd(c)
      <4>1. UNCHANGED <<closing, runningThreads>>
        BY <2>1, <3>2 DEF InputWorkerNext, InputWorker, InputLoop, InputGetBuf, InputWakeBuf,
             InputWaitBuf, InputReadAData, InputReadDone, InputPush, InputError, WorkerGetFree,
             WorkerWakeFree, WorkerWaitFree, TakeFree, WorkerPushData, SetBaseOnError,
             SetMtOnError, mtVars
      <4> QED
        BY <4>1 DEF ClosedInv
    <3> QED
      BY <3>1, <3>2
  <2>2. CASE InputClosed
    BY <2>2 DEF InputClosed, AllThreadsEnded, ClosedInv
  <2>3. CASE InputClose
    BY <2>3, SMTT(30) DEF InputClose, WaitAllThreadEnd, ClosedInv
  <2>4. ASSUME NEW c \in HInputs, InputCallerReads(c) \/ InputCallerStep(c) \/ InputCallerReturns(c)
        PROVE  ClosedInv'
    <3>1. UNCHANGED <<closing, runningThreads>>
      BY <2>4 DEF InputCallerReads, InputRead, EnterRead, InputCallerStep, InputCallerReturns,
           ReadStep, ReadLoop, ReadGetBuf, ReadWait, ReadWake, TakeData, ReadCopy, ReadRelease,
           baseVars, mtVars
    <3> QED
      BY <3>1 DEF ClosedInv
  <2>5. CASE InputOtherError \/ InputSpurious \/ UNCHANGED inputVars
    <3>1. UNCHANGED <<closing, runningThreads>>
      BY <2>5 DEF InputOtherError, InputSpurious, SpuriousWake, inputVars, baseVars, mtVars
    <3> QED
      BY <3>1 DEF ClosedInv
  <2> QED
    BY <2>1, <2>2, <2>3, <2>4, <2>5 DEF InputNext, InputCallerNext, InputDone
<1> QED
  BY <1>1, <1>2, <1>3, PTL DEF InputSpec

---------------------------------------------------------------------------
(* The work buffers and the condition variable *)

(* What a thread holds and waits for at each point of its code. *)
Phases(c) ==
  /\ pc[c] \in {"getBuf", "waitBuf"} => wbuf[c] = NoBuf
  /\ pc[c] = "loop" /\ ~tErr[c] => wbuf[c] = NoBuf
  /\ pc[c] = "setMtErr" => tErr[c]
  /\ rpc[c] \in {"getBuf", "waitBuf"} => curDataBuf[c] = NoBuf
  /\ Worker \in waiters[c] => pc[c] = "waitBuf"
  /\ Caller \in waiters[c] => rpc[c] = "waitBuf"

Sleep(c) ==
  /\ Worker \in waiters[c] => freeBufList[c] = <<>>
  /\ Caller \in waiters[c] => dataBufList[c] = <<>>
  /\ waiters[c] # {Worker, Caller}

(* CompInv is inductive: that a taker overwrites no buffer it still holds  *)
(* needs Phases, and that the two never both sleep needs the ownership     *)
(* (someone must hold a buffer when both lists are empty).                 *)
CompInv(c) == Phases(c) /\ InputBufOwnership(c) /\ Sleep(c)
IInv == TypeInv /\ \A c \in HInputs : CompInv(c)

(* Opening a component establishes CompInv: all buffers free, nobody asleep.  *)
LEMMA InitComp == InputInit => \A c \in HInputs : CompInv(c)
<1> SUFFICES ASSUME InputInit, NEW c \in HInputs PROVE CompInv(c)
  OBVIOUS
<1>1. PICK list \in freeLists : freeBufList = [d \in Comp |-> list]
  BY DEF InputInit, BaseInit
<1>2. /\ c \in Comp /\ dataBufList[c] = <<>> /\ wbuf[c] = NoBuf /\ curDataBuf[c] = NoBuf
      /\ waiters[c] = {} /\ pc[c] = "loop" /\ rpc[c] = "idle"
  BY HInputAssumption DEF InputInit, BaseInit, ReaderInit, HInputAssumption
<1>3. /\ list \in [1..Cardinality(Bufs) -> Bufs] /\ freeBufList[c] = list
      /\ Cardinality(Bufs) \in Nat /\ NoBuf \notin Bufs
  BY <1>1, <1>2, BaseAssumption, FS_CardinalityType DEF freeLists, BaseAssumption
<1>4. Len(list) = Cardinality(Bufs)
  BY <1>3
<1>5. NoRepeat(list) /\ \A b \in Bufs : InList(b, list)
  BY <1>4 DEF freeLists, NoRepeat, InList
<1>6. NoRepeat(<<>>) /\ \A b : ~InList(b, <<>>)
  BY DEF NoRepeat, InList
<1>7. InputBufOwnership(c)
  BY <1>2, <1>3, <1>5, <1>6 DEF InputBufOwnership
<1>8. Phases(c) /\ Sleep(c)
  BY <1>2 DEF Phases, Sleep
<1> QED
  BY <1>7, <1>8 DEF CompInv

(* A step that at most wakes sleepers of component d leaves it as it was.  *)
LEMMA SameComp ==
  ASSUME NEW d \in HInputs, CompInv(d), waiters[d] \subseteq {Worker, Caller},
         freeBufList'[d] = freeBufList[d], dataBufList'[d] = dataBufList[d],
         waiters'[d] \subseteq waiters[d], pc'[d] = pc[d], wbuf'[d] = wbuf[d],
         tErr'[d] = tErr[d], curDataBuf'[d] = curDataBuf[d], rpc'[d] = rpc[d]
  PROVE  CompInv(d)'
<1>1. Phases(d)'
  BY DEF CompInv, Phases
<1>2. InputBufOwnership(d)'
  BY DEF CompInv, InputBufOwnership
<1>3. Sleep(d)'
  BY DEF CompInv, Sleep
<1> QED
  BY <1>1, <1>2, <1>3 DEF CompInv

(* Taking the first free buffer by a worker that holds none. *)
LEMMA TakeFreeComp ==
  ASSUME IInv, NEW c \in HInputs, pc[c] \in {"getBuf", "waitBuf"}, Worker \notin waiters[c],
         TakeFree(c, "fill", "loop"), UNCHANGED <<readerVars, hinputVars>>
  PROVE  CompInv(c)'
<1> DEFINE f == freeBufList[c]
           b == firstBuf(f)
           r == restBufs(f)
<1>1. /\ c \in Comp /\ NoBuf \notin Bufs /\ f \in Seq(Bufs) /\ InputTypeOK /\ CompInv(c)
  BY HInputAssumption, BaseAssumption
  DEF IInv, TypeInv, InputTypeOK, HInputAssumption, BaseAssumption
<1>2. /\ freeBufList'[c] = r /\ wbuf'[c] = b /\ dataBufList'[c] = dataBufList[c]
      /\ waiters'[c] = waiters[c] /\ curDataBuf'[c] = curDataBuf[c] /\ rpc'[c] = rpc[c]
      /\ tErr'[c] = baseOnError[c]
      /\ pc'[c] = IF b # NoBuf /\ ~baseOnError[c] THEN "fill" ELSE "loop"
      /\ wbuf[c] = NoBuf
  BY <1>1 DEF TakeFree, InputTypeOK, readerVars, CompInv, Phases
<1>3. Phases(c)'
  BY <1>1, <1>2 DEF CompInv, Phases
<1>4. Sleep(c)'
  BY <1>1, <1>2 DEF CompInv, Sleep
<1>5. InputBufOwnership(c)'
  <2>1. CASE f = <<>>
    <3>1. b = NoBuf /\ r = f
      BY <1>1, <2>1, Pop
    <3> QED
      BY <1>1, <1>2, <3>1 DEF CompInv, InputBufOwnership
  <2>2. CASE f # <<>>
    <3> HIDE DEF b, r
    <3>1. /\ b \in Bufs /\ \A x : InList(x, f) <=> x = b \/ InList(x, r)
          /\ NoRepeat(f) => NoRepeat(r) /\ ~InList(b, r)
      BY <1>1, <2>2, Pop DEF b, r
    <3> QED
      BY <1>1, <1>2, <3>1 DEF CompInv, InputBufOwnership
  <2> QED
    BY <2>1, <2>2
<1> QED
  BY <1>3, <1>4, <1>5 DEF CompInv

(* hpatch_mt_base_pushABufAtEnd_ of the worker's own buffer keeps CompInv.  *)
LEMMA PushComp ==
  ASSUME IInv, NEW c \in HInputs, InputPush(c)
  PROVE  CompInv(c)'
<1> DEFINE l == dataBufList[c]
           b == wbuf[c]
           r == pushABufAtEnd(l, b)
<1>1. /\ c \in Comp /\ NoBuf \notin Bufs /\ l \in Seq(Bufs) /\ InputTypeOK /\ CompInv(c)
      /\ pc[c] = "push" /\ b \in Bufs
  BY HInputAssumption, BaseAssumption
  DEF IInv, TypeInv, InputTypeOK, HInputAssumption, BaseAssumption, HoldsBuf, InputPush
<1>2. /\ dataBufList'[c] = r /\ wbuf'[c] = NoBuf /\ freeBufList'[c] = freeBufList[c]
      /\ curDataBuf'[c] = curDataBuf[c] /\ rpc'[c] = rpc[c] /\ pc'[c] = "loop" /\ Signal(c)
  BY <1>1 DEF InputPush, WorkerPushData, InputTypeOK, readerVars
<1>3. waiters[c] \subseteq {Caller}
  BY <1>1 DEF CompInv, Phases, InputTypeOK
<1>4. waiters'[c] = {}
  BY <1>1, <1>2, <1>3, SignalWakes DEF InputTypeOK
<1>5. Phases(c)' /\ Sleep(c)'
  BY <1>1, <1>2, <1>4 DEF CompInv, Phases, Sleep
<1>6. InputBufOwnership(c)'
  <2> HIDE DEF r
  <2>1. /\ \A x : InList(x, r) <=> InList(x, l) \/ x = b
        /\ NoRepeat(l) /\ ~InList(b, l) => NoRepeat(r)
    BY <1>1, PushAtEnd DEF r
  <2> QED
    BY <1>1, <1>2, <2>1 DEF CompInv, InputBufOwnership
<1> QED
  BY <1>5, <1>6 DEF CompInv

(* The worker goes to sleep: the caller cannot be asleep too, for then     *)
(* both lists are empty and nobody holds a buffer.                         *)
LEMMA WaitComp ==
  ASSUME IInv, NEW c \in HInputs, InputWaitBuf(c)
  PROVE  CompInv(c)'
<1>1. /\ c \in Comp /\ NoBuf \notin Bufs /\ Bufs # {} /\ InputTypeOK /\ CompInv(c)
      /\ pc[c] = "getBuf" /\ freeBufList[c] = <<>>
  BY HInputAssumption, BaseAssumption
  DEF IInv, TypeInv, HInputAssumption, BaseAssumption, InputWaitBuf, WorkerWaitFree, mustWait
<1>2. /\ waiters'[c] = waiters[c] \union {Worker} /\ pc'[c] = "waitBuf"
      /\ freeBufList'[c] = freeBufList[c] /\ dataBufList'[c] = dataBufList[c]
      /\ wbuf'[c] = wbuf[c] /\ tErr'[c] = tErr[c]
      /\ curDataBuf'[c] = curDataBuf[c] /\ rpc'[c] = rpc[c]
  BY <1>1 DEF InputWaitBuf, WorkerWaitFree, WaitOn, InputTypeOK, readerVars
<1>3. \A b : ~InList(b, <<>>)
  BY DEF InList
<1>4. Caller \notin waiters[c]
  BY <1>1, <1>3 DEF CompInv, Phases, Sleep, InputBufOwnership
<1>5. Phases(c)' /\ Sleep(c)'
  BY <1>1, <1>2, <1>4 DEF CompInv, Phases, Sleep, Worker, Caller
<1>6. InputBufOwnership(c)'
  BY <1>1, <1>2 DEF CompInv, InputBufOwnership
<1> QED
  BY <1>5, <1>6 DEF CompInv

(* A worker's step leaves every other component of HInputs alone, but for  *)
(* the broadcast of setOnError.                                            *)
LEMMA WorkerComp ==
  ASSUME IInv, NEW c \in HInputs, InputWorkerNext(c), NEW d \in HInputs
  PROVE  CompInv(d)'
<1>0. /\ c \in Comp /\ d \in Comp /\ InputTypeOK /\ CompInv(c) /\ CompInv(d)
      /\ waiters[d] \subseteq {Worker, Caller}
  BY HInputAssumption DEF IInv, TypeInv, InputTypeOK, HInputAssumption
<1>1. CASE InputLoop(c)
  <2>1. CASE d = c
    <3>1. /\ pc[c] = "loop" /\ pc'[c] \in {"getBuf", "end"}
          /\ pc'[c] = "getBuf" => ~tErr[c]
          /\ freeBufList'[c] = freeBufList[c] /\ dataBufList'[c] = dataBufList[c]
          /\ waiters'[c] = waiters[c] /\ wbuf'[c] = wbuf[c] /\ tErr'[c] = tErr[c]
          /\ curDataBuf'[c] = curDataBuf[c] /\ rpc'[c] = rpc[c]
      BY <1>0, <1>1 DEF InputLoop, InputTypeOK, listVars, readerVars
    <3>2. Phases(c)'
      BY <1>0, <3>1 DEF CompInv, Phases
    <3>3. InputBufOwnership(c)' /\ Sleep(c)'
      BY <1>0, <3>1 DEF CompInv, InputBufOwnership, Sleep
    <3> QED
      BY <2>1, <3>2, <3>3 DEF CompInv
  <2>2. CASE d # c
    BY <1>0, <1>1, <2>2, SameComp DEF InputLoop, InputTypeOK, listVars, readerVars
  <2> QED
    BY <2>1, <2>2
<1>2. CASE InputGetBuf(c) \/ InputWakeBuf(c)
  <2>1. /\ TakeFree(c, "fill", "loop") /\ pc[c] \in {"getBuf", "waitBuf"}
        /\ Worker \notin waiters[c] /\ UNCHANGED <<readerVars, hinputVars>>
    BY <1>0, <1>2 DEF InputGetBuf, InputWakeBuf, WorkerGetFree, WorkerWakeFree, CompInv, Phases
  <2>2. CASE d = c
    BY <2>1, <2>2, TakeFreeComp
  <2>3. CASE d # c
    BY <1>0, <2>1, <2>3, SameComp DEF TakeFree, InputTypeOK, readerVars
  <2> QED
    BY <2>2, <2>3
<1>3. CASE InputWaitBuf(c)
  <2>1. CASE d = c
    BY <1>3, <2>1, WaitComp
  <2>2. CASE d # c
    BY <1>0, <1>3, <2>2, SameComp
    DEF InputWaitBuf, WorkerWaitFree, WaitOn, InputTypeOK, readerVars
  <2> QED
    BY <2>1, <2>2
<1>4. CASE InputReadAData(c)
  <2>1. CASE d = c
    <3>1. /\ pc[c] = "fill" /\ pc'[c] = "filling"
          /\ freeBufList'[c] = freeBufList[c] /\ dataBufList'[c] = dataBufList[c]
          /\ waiters'[c] = waiters[c] /\ wbuf'[c] = wbuf[c] /\ tErr'[c] = tErr[c]
          /\ curDataBuf'[c] = curDataBuf[c] /\ rpc'[c] = rpc[c]
      BY <1>0, <1>4 DEF InputReadAData, InputTypeOK, listVars, readerVars
    <3>2. Phases(c)'
      BY <1>0, <3>1 DEF CompInv, Phases
    <3>3. InputBufOwnership(c)' /\ Sleep(c)'
      BY <1>0, <3>1 DEF CompInv, InputBufOwnership, Sleep
    <3> QED
      BY <2>1, <3>2, <3>3 DEF CompInv
  <2>2. CASE d # c
    BY <1>0, <1>4, <2>2, SameComp DEF InputReadAData, InputTypeOK, listVars, readerVars
  <2> QED
    BY <2>1, <2>2
<1>5. ASSUME NEW ok, InputReadDone(c, ok) PROVE CompInv(d)'
  <2>1. CASE d = c
    <3>1. /\ pc[c] = "filling" /\ pc'[c] \in {"push", "setErr"}
          /\ freeBufList'[c] = freeBufList[c] /\ dataBufList'[c] = dataBufList[c]
          /\ waiters'[c] = waiters[c] /\ wbuf'[c] = wbuf[c] /\ tErr'[c] = tErr[c]
          /\ curDataBuf'[c] = curDataBuf[c] /\ rpc'[c] = rpc[c]
      BY <1>0, <1>5 DEF InputReadDone, InputTypeOK, listVars, readerVars
    <3>2. Phases(c)'
      BY <1>0, <3>1 DEF CompInv, Phases
    <3>3. InputBufOwnership(c)' /\ Sleep(c)'
      BY <1>0, <3>1 DEF CompInv, InputBufOwnership, Sleep
    <3> QED
      BY <2>1, <3>2, <3>3 DEF CompInv
  <2>2. CASE d # c
    BY <1>0, <1>5, <2>2, SameComp DEF InputReadDone, InputTypeOK, listVars, readerVars
  <2> QED
    BY <2>1, <2>2
<1>6. CASE InputPush(c)
  <2>1. CASE d = c
    BY <1>6, <2>1, PushComp
  <2>2. CASE d # c
    <3>1. waiters'[d] \subseteq waiters[d]
      BY <1>0, <1>6, ZenonT(60) DEF InputPush, WorkerPushData, Signal, InputTypeOK
    <3> QED
      BY <1>0, <1>6, <2>2, <3>1, SameComp DEF InputPush, WorkerPushData, InputTypeOK, readerVars
  <2> QED
    BY <2>1, <2>2
<1>7. CASE InputError(c)
  <2>1. waiters'[d] \subseteq waiters[d]
    BY <1>0, <1>7 DEF InputError, SetBaseOnError, SetMtOnError, setOnError, InputTypeOK
  <2>2. CASE d = c
    <3>1. /\ pc[c] \in {"setErr", "setMtErr"} /\ pc'[c] \in {"setMtErr", "loop"}
          /\ freeBufList'[c] = freeBufList[c] /\ dataBufList'[c] = dataBufList[c]
          /\ wbuf'[c] = wbuf[c] /\ curDataBuf'[c] = curDataBuf[c] /\ rpc'[c] = rpc[c]
      BY <1>0, <1>7 DEF InputError, SetBaseOnError, SetMtOnError, InputTypeOK, readerVars
    <3>2. tErr'[c] = TRUE
      <4>1. CASE SetBaseOnError(c)
        BY <1>0, <4>1 DEF SetBaseOnError, InputTypeOK
      <4>2. CASE SetMtOnError(c, "loop")
        <5>1. tErr[c] /\ tErr[c] \in BOOLEAN /\ tErr' = tErr
          BY <1>0, <4>2 DEF SetMtOnError, InputTypeOK, CompInv, Phases
        <5> QED
          BY <5>1
      <4> QED
        BY <1>7, <4>1, <4>2 DEF InputError
    <3>3. Phases(c)'
      BY <1>0, <2>1, <2>2, <3>1, <3>2 DEF CompInv, Phases
    <3>4. InputBufOwnership(c)' /\ Sleep(c)'
      BY <1>0, <2>1, <2>2, <3>1 DEF CompInv, InputBufOwnership, Sleep
    <3> QED
      BY <2>2, <3>3, <3>4 DEF CompInv
  <2>3. CASE d # c
    BY <1>0, <1>7, <2>1, <2>3, SameComp
    DEF InputError, SetBaseOnError, SetMtOnError, InputTypeOK, readerVars
  <2> QED
    BY <2>2, <2>3
<1>8. CASE InputEnd(c)
  <2>1. CASE d = c
    <3>1. /\ pc[c] = "end" /\ pc'[c] = "done"
          /\ freeBufList'[c] = freeBufList[c] /\ dataBufList'[c] = dataBufList[c]
          /\ waiters'[c] = waiters[c] /\ wbuf'[c] = wbuf[c] /\ tErr'[c] = tErr[c]
          /\ curDataBuf'[c] = curDataBuf[c] /\ rpc'[c] = rpc[c]
      BY <1>0, <1>8 DEF InputEnd, ThreadEnd, InputTypeOK, listVars, readerVars
    <3>2. Phases(c)'
      BY <1>0, <3>1 DEF CompInv, Phases
    <3>3. InputBufOwnership(c)' /\ Sleep(c)'
      BY <1>0, <3>1 DEF CompInv, InputBufOwnership, Sleep
    <3> QED
      BY <2>1, <3>2, <3>3 DEF CompInv
  <2>2. CASE d # c
    BY <1>0, <1>8, <2>2, SameComp DEF InputEnd, ThreadEnd, InputTypeOK, listVars, readerVars
  <2> QED
    BY <2>1, <2>2
<1> QED
  BY <1>1, <1>2, <1>3, <1>4, <1>5, <1>6, <1>7, <1>8 DEF InputWorkerNext, InputWorker

---------------------------------------------------------------------------
(* The caller's side *)

(* Taking the first data buffer by a caller that holds none. *)
LEMMA TakeDataComp ==
  ASSUME IInv, NEW c \in HInputs, rpc[c] \in {"getBuf", "waitBuf"}, Caller \notin waiters[c],
         TakeData(c)
  PROVE  CompInv(c)'
<1> DEFINE f == dataBufList[c]
           b == firstBuf(f)
           r == restBufs(f)
<1>1. /\ c \in Comp /\ NoBuf \notin Bufs /\ f \in Seq(Bufs) /\ InputTypeOK /\ CompInv(c)
  BY HInputAssumption, BaseAssumption
  DEF IInv, TypeInv, InputTypeOK, HInputAssumption, BaseAssumption
<1>2. /\ dataBufList'[c] = r /\ curDataBuf'[c] = b /\ freeBufList'[c] = freeBufList[c]
      /\ waiters'[c] = waiters[c] /\ wbuf'[c] = wbuf[c] /\ pc'[c] = pc[c]
      /\ tErr'[c] = tErr[c] /\ rpc'[c] = "loop" /\ curDataBuf[c] = NoBuf
  BY <1>1 DEF TakeData, InputTypeOK, workerVars, CompInv, Phases
<1>3. Phases(c)'
  BY <1>1, <1>2 DEF CompInv, Phases
<1>4. Sleep(c)'
  BY <1>1, <1>2 DEF CompInv, Sleep
<1>5. InputBufOwnership(c)'
  <2>1. CASE f = <<>>
    <3>1. b = NoBuf /\ r = f
      BY <1>1, <2>1, Pop
    <3> QED
      BY <1>1, <1>2, <3>1 DEF CompInv, InputBufOwnership
  <2>2. CASE f # <<>>
    <3> HIDE DEF b, r
    <3>1. /\ b \in Bufs /\ \A x : InList(x, f) <=> x = b \/ InList(x, r)
          /\ NoRepeat(f) => NoRepeat(r) /\ ~InList(b, r)
      BY <1>1, <2>2, Pop DEF b, r
    <3> QED
      BY <1>1, <1>2, <3>1 DEF CompInv, InputBufOwnership
  <2> QED
    BY <2>1, <2>2
<1> QED
  BY <1>3, <1>4, <1>5 DEF CompInv

(* The caller goes to sleep: the worker is not asleep, for the same reason *)
(* as in WaitComp.                                                         *)
LEMMA ReadWaitComp ==
  ASSUME IInv, NEW c \in HInputs, ReadWait(c)
  PROVE  CompInv(c)'
<1>1. /\ c \in Comp /\ NoBuf \notin Bufs /\ Bufs # {} /\ InputTypeOK /\ CompInv(c)
      /\ rpc[c] = "getBuf" /\ dataBufList[c] = <<>>
  BY HInputAssumption, BaseAssumption
  DEF IInv, TypeInv, HInputAssumption, BaseAssumption, ReadWait, mustWait
<1>2. /\ waiters'[c] = waiters[c] \union {Caller} /\ rpc'[c] = "waitBuf"
      /\ freeBufList'[c] = freeBufList[c] /\ dataBufList'[c] = dataBufList[c]
      /\ wbuf'[c] = wbuf[c] /\ tErr'[c] = tErr[c] /\ pc'[c] = pc[c]
      /\ curDataBuf'[c] = curDataBuf[c]
  BY <1>1 DEF ReadWait, WaitOn, InputTypeOK, workerVars
<1>3. \A b : ~InList(b, <<>>)
  BY DEF InList
<1>4. Worker \notin waiters[c]
  BY <1>1, <1>3 DEF CompInv, Phases, Sleep, InputBufOwnership
<1>5. Phases(c)' /\ Sleep(c)'
  BY <1>1, <1>2, <1>4 DEF CompInv, Phases, Sleep, Worker, Caller
<1>6. InputBufOwnership(c)'
  BY <1>1, <1>2 DEF CompInv, InputBufOwnership
<1> QED
  BY <1>5, <1>6 DEF CompInv

(* hpatch_mt_base_pushABufAtHead_ of the used-up buffer keeps CompInv.  *)
LEMMA ReleaseComp ==
  ASSUME IInv, NEW c \in HInputs, ReadRelease(c)
  PROVE  CompInv(c)'
<1> DEFINE l == freeBufList[c]
           b == curDataBuf[c]
           r == pushABufAtHead(l, b)
<1>1. /\ c \in Comp /\ NoBuf \notin Bufs /\ l \in Seq(Bufs) /\ InputTypeOK /\ CompInv(c)
      /\ rpc[c] = "release" /\ b \in Bufs
  BY HInputAssumption, BaseAssumption
  DEF IInv, TypeInv, InputTypeOK, HInputAssumption, BaseAssumption, HoldsBuf, ReadRelease
<1>2. /\ freeBufList'[c] = r /\ curDataBuf'[c] = NoBuf /\ dataBufList'[c] = dataBufList[c]
      /\ wbuf'[c] = wbuf[c] /\ pc'[c] = pc[c] /\ tErr'[c] = tErr[c] /\ rpc'[c] = "loop"
      /\ Signal(c)
  BY <1>1 DEF ReadRelease, InputTypeOK, workerVars
<1>3. waiters[c] \subseteq {Worker}
  BY <1>1 DEF CompInv, Phases, InputTypeOK
<1>4. waiters'[c] = {}
  BY <1>1, <1>2, <1>3, SignalWakes DEF InputTypeOK
<1>5. Phases(c)' /\ Sleep(c)'
  BY <1>1, <1>2, <1>4 DEF CompInv, Phases, Sleep
<1>6. InputBufOwnership(c)'
  <2> HIDE DEF r
  <2>1. /\ \A x : InList(x, r) <=> InList(x, l) \/ x = b
        /\ NoRepeat(l) /\ ~InList(b, l) => NoRepeat(r)
    BY <1>1, PushAtHead DEF r
  <2> QED
    BY <1>1, <1>2, <2>1 DEF CompInv, InputBufOwnership
<1> QED
  BY <1>5, <1>6 DEF CompInv

(* The caller's program counter moves and nothing else that CompInv reads: *)
(* not into the wait, and into "getBuf" only without a buffer.             *)
LEMMA CallerMoves ==
  ASSUME NEW c \in HInputs, CompInv(c), waiters[c] \subseteq {Worker, Caller},
         rpc[c] # "waitBuf", rpc'[c] # "waitBuf",
         rpc'[c] = "getBuf" => curDataBuf[c] = NoBuf,
         freeBufList'[c] = freeBufList[c], dataBufList'[c] = dataBufList[c],
         waiters'[c] = waiters[c], pc'[c] = pc[c], wbuf'[c] = wbuf[c],
         tErr'[c] = tErr[c], curDataBuf'[c] = curDataBuf[c]
  PROVE  CompInv(c)'
<1>1. Phases(c)'
  BY DEF CompInv, Phases
<1>2. InputBufOwnership(c)' /\ Sleep(c)'
  BY DEF CompInv, InputBufOwnership, Sleep
<1> QED
  BY <1>1, <1>2 DEF CompInv

(* Each step of the caller inside read() keeps every CompInv.  *)
LEMMA ReadComp ==
  ASSUME IInv, NEW c \in HInputs, ReadStep(c), NEW d \in HInputs
  PROVE  CompInv(d)'
<1>0. /\ c \in Comp /\ d \in Comp /\ InputTypeOK /\ CompInv(c) /\ CompInv(d)
      /\ waiters[c] \subseteq {Worker, Caller} /\ waiters[d] \subseteq {Worker, Caller}
  BY HInputAssumption DEF IInv, TypeInv, InputTypeOK, HInputAssumption
<1>1. CASE d # c
  <2>1. waiters'[d] \subseteq waiters[d]
    BY <1>0, <1>1, SMTT(30) DEF ReadStep, ReadLoop, ReadGetBuf, ReadWait, ReadWake, TakeData, ReadCopy,
         ReadRelease, WaitOn, Signal, InputTypeOK, baseVars, listVars
  <2>2. /\ freeBufList'[d] = freeBufList[d] /\ dataBufList'[d] = dataBufList[d]
        /\ pc'[d] = pc[d] /\ wbuf'[d] = wbuf[d] /\ tErr'[d] = tErr[d]
        /\ curDataBuf'[d] = curDataBuf[d] /\ rpc'[d] = rpc[d]
    BY <1>0, <1>1, SMTT(30) DEF ReadStep, ReadLoop, ReadGetBuf, ReadWait, ReadWake, TakeData, ReadCopy,
         ReadRelease, InputTypeOK, baseVars, listVars, workerVars
  <2> QED
    BY <1>0, <2>1, <2>2, SameComp
<1>2. CASE d = c /\ (ReadLoop(c) \/ ReadCopy(c))
  <2>1. /\ rpc[c] = "loop" /\ rpc'[c] # "waitBuf"
        /\ rpc'[c] = "getBuf" => curDataBuf[c] = NoBuf
        /\ freeBufList'[c] = freeBufList[c] /\ dataBufList'[c] = dataBufList[c]
        /\ waiters'[c] = waiters[c] /\ pc'[c] = pc[c] /\ wbuf'[c] = wbuf[c]
        /\ tErr'[c] = tErr[c] /\ curDataBuf'[c] = curDataBuf[c]
    BY <1>0, <1>2 DEF ReadLoop, ReadCopy, InputTypeOK, baseVars, listVars, workerVars
  <2> QED
    BY <1>0, <1>2, <2>1, CallerMoves
<1>3. CASE d = c /\ (ReadGetBuf(c) \/ ReadWake(c))
  <2>1. TakeData(c) /\ rpc[c] \in {"getBuf", "waitBuf"} /\ Caller \notin waiters[c]
    BY <1>0, <1>3 DEF ReadGetBuf, ReadWake, CompInv, Phases
  <2> QED
    BY <1>3, <2>1, TakeDataComp
<1>4. CASE d = c /\ ReadWait(c)
  BY <1>4, ReadWaitComp
<1>5. CASE d = c /\ ReadRelease(c)
  BY <1>5, ReleaseComp
<1> QED
  BY <1>1, <1>2, <1>3, <1>4, <1>5 DEF ReadStep

(* IInv is inductive.  *)
LEMMA NextIInv == IInv /\ [InputNext]_inputVars => IInv'
<1> SUFFICES ASSUME IInv, [InputNext]_inputVars, NEW d \in HInputs PROVE CompInv(d)'
  BY NextTypeInv DEF IInv
<1>0. /\ d \in Comp /\ HInputs \subseteq Comp /\ InputTypeOK /\ CompInv(d)
      /\ waiters[d] \subseteq {Worker, Caller}
  BY HInputAssumption DEF IInv, TypeInv, InputTypeOK, HInputAssumption
<1>1. ASSUME NEW c \in HInputs, InputWorkerNext(c) PROVE CompInv(d)'
  BY <1>1, WorkerComp
<1>2. ASSUME NEW c \in HInputs, InputCallerStep(c) PROVE CompInv(d)'
  BY <1>2, ReadComp DEF InputCallerStep
<1>3. ASSUME NEW c \in HInputs, InputCallerReads(c) \/ InputCallerReturns(c) PROVE CompInv(d)'
  <2>1. /\ UNCHANGED <<curDataBuf, baseVars>>
        /\ \E p \in {"loop", "fail", "idle"} : rpc' = [rpc EXCEPT ![c] = p]
        /\ rpc[c] # "waitBuf"
    BY <1>3 DEF InputCallerReads, InputRead, EnterRead, InputCallerReturns, ReadReturned
  <2>2. UNCHANGED <<freeBufList, dataBufList, waiters, pc, wbuf, tErr, curDataBuf>>
    BY <2>1 DEF baseVars, listVars, workerVars
  <2>3. CASE d = c
    <3>1. rpc'[d] \in {"loop", "fail", "idle"} /\ rpc[d] # "waitBuf"
      BY <1>0, <2>1, <2>3 DEF InputTypeOK
    <3> QED
      BY <1>0, <2>2, <3>1, CallerMoves
  <2>4. CASE d # c
    <3>1. rpc'[d] = rpc[d]
      BY <1>0, <2>1, <2>4 DEF InputTypeOK
    <3> QED
      BY <1>0, <2>2, <3>1, SameComp
  <2> QED
    BY <2>3, <2>4
<1>4. CASE InputClose \/ InputClosed \/ InputOtherError \/ InputSpurious \/ UNCHANGED inputVars
  <2>1. waiters'[d] \subseteq waiters[d]
    BY <1>0, <1>4, SMTT(30) DEF InputClose, InputClosed, InputOtherError, WaitAllThreadEnd, AllThreadsEnded,
         setOnError, setOnFinish, InputSpurious, SpuriousWake, InputTypeOK, inputVars, baseVars, listVars
  <2>2. UNCHANGED <<freeBufList, dataBufList, pc, wbuf, tErr, curDataBuf, rpc>>
    BY <1>4 DEF InputClose, InputClosed, InputOtherError, WaitAllThreadEnd, AllThreadsEnded,
         InputSpurious, SpuriousWake, inputVars, baseVars, listVars, workerVars, readerVars
  <2> QED
    BY <1>0, <2>1, <2>2, SameComp
<1> QED
  BY <1>1, <1>2, <1>3, <1>4 DEF InputNext, InputCallerNext, InputDone

(* Every work buffer has exactly one owner in every reachable state, for   *)
(* any number of components and buffers, whatever fails and whenever.      *)
THEOREM InputBuffersOwned == InputSpec => []InputBufsOwnedOnce
<1>1. InputInit => IInv
  BY InitTypeInv, InitComp DEF IInv
<1>2. IInv /\ [InputNext]_inputVars => IInv'
  BY NextIInv
<1>3. IInv => InputBufsOwnedOnce
  BY DEF IInv, CompInv, InputBufsOwnedOnce
<1> QED
  BY <1>1, <1>2, <1>3, PTL DEF InputSpec

(* Worker and caller share one condition variable and wake each other with *)
(* c_condvar_signal: nobody ever sleeps over a buffer that is there, and   *)
(* they never both sleep, spurious wakeups and broadcasts included.        *)
THEOREM InputSleepSafe == InputSpec => []InputNoSleepOverWork
<1>1. InputInit => IInv
  BY InitTypeInv, InitComp DEF IInv
<1>2. IInv /\ [InputNext]_inputVars => IInv'
  BY NextIInv
<1>3. IInv => InputNoSleepOverWork
  BY DEF IInv, CompInv, Sleep, InputNoSleepOverWork
<1> QED
  BY <1>1, <1>2, <1>3, PTL DEF InputSpec

---------------------------------------------------------------------------
(* The bytes on their way from the base stream to the caller *)

(* The base stream has failed; the worker then only leaves. *)
failed(c) == baseOnError[c] \/ pc[c] = "setErr"

WorkerFails(c) ==
  /\ baseOnError[c] => pc[c] \in {"setMtErr", "end", "done"} \/ (pc[c] = "loop" /\ tErr[c])
  /\ pc[c] \in {"getBuf", "waitBuf", "fill"} => curReadPos[c] < StreamSize[c]

(* What the caller has copied out so far. *)
given(c) == curOutedPos[c] - left[c]

(* The caller inside read(). *)
Reading(c) ==
  /\ left[c] <= curOutedPos[c] /\ curOutedPos[c] <= StreamSize[c]
  /\ rpc[c] \in {"idle", "ok"} => left[c] = 0

(* The caller's buffer ends at position m: what it has not yet copied out  *)
(* of it are the next bytes.                                               *)
Taken(c, m) ==
  IF curDataBuf[c] = NoBuf
  THEN curDataBuf_pos[c] = 0 /\ given(c) = m
  ELSE \E k \in Nat \ {0} :
         /\ k <= m /\ bufData[c][curDataBuf[c]] = Run(m - k, k)
         /\ given(c) = m - k + curDataBuf_pos[c]
         /\ IF rpc[c] = "release" THEN curDataBuf_pos[c] = k ELSE curDataBuf_pos[c] < k

(* The data list ends at position e: the worker goes on from there. *)
Ahead(c, e) ==
  ~failed(c) => IF pc[c] \in {"filling", "push"}
                THEN e < curReadPos[c] /\ bufData[c][wbuf[c]] = Run(e, curReadPos[c] - e)
                ELSE e = curReadPos[c]

(* As long as no call has failed, the caller's buffer, the data list and   *)
(* the worker's buffer hold the bytes from where the caller is to where    *)
(* the worker is, without a gap.                                           *)
Flow(c) ==
  rpc[c] # "fail" =>
    /\ Reading(c)
    /\ \E m, e \in Nat :
         Taken(c, m) /\ Chain(bufData[c], dataBufList[c], m, e) /\ Ahead(c, e)

(* DataInv is inductive together with IInv: the ownership keeps others     *)
(* from writing to the buffers on their way.                               *)
DataInv(c) == WorkerFails(c) /\ Flow(c)
FlowInv == IInv /\ \A c \in HInputs : DataInv(c)

(* What the steps of the proofs use about a component. *)
LEMMA FlowFacts ==
  ASSUME FlowInv, NEW c \in HInputs
  PROVE  /\ c \in Comp /\ NoBuf \notin Bufs /\ WorkBufSize \in Nat \ {0} /\ StreamSize[c] \in Nat
         /\ IInv /\ InputTypeOK /\ HoldsBuf /\ CompInv(c) /\ WorkerFails(c) /\ Flow(c)
         /\ dataBufList[c] \in Seq(Bufs) /\ bufData[c] \in [Bufs -> Seq(Nat)]
         /\ left[c] \in Nat /\ curOutedPos[c] \in Nat /\ curReadPos[c] \in Nat
         /\ curDataBuf_pos[c] \in Nat /\ curDataBuf[c] \in Bufs \union {NoBuf}
<1>1. /\ c \in Comp /\ NoBuf \notin Bufs /\ WorkBufSize \in Nat \ {0} /\ StreamSize[c] \in Nat
  BY HInputAssumption, BaseAssumption DEF HInputAssumption, BaseAssumption
<1>2. IInv /\ InputTypeOK /\ HoldsBuf /\ CompInv(c) /\ WorkerFails(c) /\ Flow(c)
  BY DEF FlowInv, IInv, TypeInv, DataInv
<1> QED
  BY <1>1, <1>2 DEF InputTypeOK

(* A step that changes nothing of component d but its sleepers and the     *)
(* result of the call keeps DataInv.                                       *)
LEMMA SameFlow ==
  ASSUME NEW d \in HInputs, DataInv(d),
         dataBufList'[d] = dataBufList[d], baseOnError'[d] = baseOnError[d],
         pc'[d] = pc[d], wbuf'[d] = wbuf[d], tErr'[d] = tErr[d], bufData'[d] = bufData[d],
         curDataBuf'[d] = curDataBuf[d], curDataBuf_pos'[d] = curDataBuf_pos[d],
         rpc'[d] = rpc[d], left'[d] = left[d],
         curReadPos'[d] = curReadPos[d], curOutedPos'[d] = curOutedPos[d]
  PROVE  DataInv(d)'
<1>1. WorkerFails(d)'
  BY DEF DataInv, WorkerFails
<1>2. given(d)' = given(d) /\ failed(d)' = failed(d)
  BY DEF given, failed
<1>3. Reading(d)' = Reading(d)
  BY DEF Reading
<1>4. \A m : Taken(d, m) => Taken(d, m)'
  BY <1>2 DEF Taken
<1>5. \A e : Ahead(d, e) => Ahead(d, e)'
  BY <1>2 DEF Ahead
<1>6. Flow(d)'
  BY <1>3, <1>4, <1>5 DEF DataInv, Flow
<1> QED
  BY <1>1, <1>6 DEF DataInv

(* A step that keeps each part of the flow where it is keeps the flow. *)
LEMMA FlowKept ==
  ASSUME FlowInv, NEW c \in HInputs, dataBufList'[c] = dataBufList[c],
         \A b : InList(b, dataBufList[c]) => bufData'[c][b] = bufData[c][b],
         rpc'[c] # "fail" => rpc[c] # "fail" /\ Reading(c)',
         \A m \in Nat : rpc'[c] # "fail" /\ Reading(c) /\ Taken(c, m) => Taken(c, m)',
         \A e \in Nat : Ahead(c, e) => Ahead(c, e)'
  PROVE  Flow(c)'
<1>1. Flow(c) /\ dataBufList[c] \in Seq(Bufs)
  BY FlowFacts
<1>2. SUFFICES ASSUME rpc'[c] # "fail"
               PROVE  \E m, e \in Nat : /\ Taken(c, m)' /\ Ahead(c, e)'
                                        /\ Chain(bufData'[c], dataBufList'[c], m, e)
  BY DEF Flow
<1>3. PICK m \in Nat, e \in Nat :
        Reading(c) /\ Taken(c, m) /\ Chain(bufData[c], dataBufList[c], m, e) /\ Ahead(c, e)
  BY <1>1, <1>2 DEF Flow
<1>4. Chain(bufData'[c], dataBufList[c], m, e)
  BY <1>1, <1>3, ChainFrame
<1> QED
  BY <1>2, <1>3, <1>4

(* The worker's program counter and error flags move, outside the read     *)
(* that fills a buffer.                                                    *)
LEMMA WorkerMoves ==
  ASSUME FlowInv, NEW c \in HInputs, WorkerFails(c)',
         dataBufList'[c] = dataBufList[c], bufData'[c] = bufData[c],
         pc[c] \notin {"filling", "push"}, pc'[c] \notin {"filling", "push"},
         ~failed(c)' => ~failed(c),
         UNCHANGED <<readerVars, hinputVars>>
  PROVE  DataInv(c)'
<1>1. /\ curDataBuf'[c] = curDataBuf[c] /\ curDataBuf_pos'[c] = curDataBuf_pos[c]
      /\ rpc'[c] = rpc[c] /\ left'[c] = left[c]
      /\ curReadPos'[c] = curReadPos[c] /\ curOutedPos'[c] = curOutedPos[c]
  BY DEF readerVars, hinputVars
<1>2. given(c)' = given(c) /\ Reading(c)' = Reading(c)
  BY <1>1 DEF given, Reading
<1>3. \A m \in Nat : Taken(c, m) => Taken(c, m)'
  BY <1>1, <1>2 DEF Taken
<1>4. \A e \in Nat : Ahead(c, e) => Ahead(c, e)'
  BY <1>1 DEF Ahead
<1>5. rpc[c] # "fail" => Reading(c)
  BY FlowFacts DEF Flow
<1>6. Flow(c)'
  BY <1>1, <1>2, <1>3, <1>4, <1>5, FlowKept
<1> QED
  BY <1>6 DEF DataInv

(* _hinput_mt_readAData puts the bytes that follow those on the data list  *)
(* into a buffer that nobody else has, at least one of them.               *)
LEMMA ReadADataFlow ==
  ASSUME FlowInv, NEW c \in HInputs, InputReadAData(c)
  PROVE  DataInv(c)'
<1> DEFINE rest == StreamSize[c] - curReadPos[c]
           n == IF WorkBufSize > rest THEN rest ELSE WorkBufSize
           b == wbuf[c]
<1>1. /\ curReadPos' = [curReadPos EXCEPT ![c] = @ + n]
      /\ bufData' = [bufData EXCEPT ![c][b] = Run(curReadPos[c], n)]
      /\ pc' = [pc EXCEPT ![c] = "filling"] /\ pc[c] = "fill"
      /\ UNCHANGED <<mtVars, listVars, wbuf, tErr, readerVars, curOutedPos>>
  BY DEF InputReadAData
<1>2. b \in Bufs /\ c \in Comp
  BY <1>1, FlowFacts DEF HoldsBuf
<1>3. n \in Nat \ {0}
  <2>1. curReadPos[c] < StreamSize[c] /\ curReadPos[c] \in Nat /\ StreamSize[c] \in Nat
        /\ WorkBufSize \in Nat \ {0}
    BY <1>1, FlowFacts DEF WorkerFails
  <2> QED
    BY <2>1
<1> HIDE DEF n
<1>4. /\ pc'[c] = "filling" /\ curReadPos'[c] = curReadPos[c] + n /\ wbuf'[c] = b
      /\ bufData'[c][b] = Run(curReadPos[c], n)
      /\ \A x : x \in Bufs \ {b} => bufData'[c][x] = bufData[c][x]
      /\ dataBufList'[c] = dataBufList[c] /\ baseOnError'[c] = baseOnError[c]
      /\ curDataBuf'[c] = curDataBuf[c] /\ curDataBuf_pos'[c] = curDataBuf_pos[c]
      /\ rpc'[c] = rpc[c] /\ left'[c] = left[c] /\ curOutedPos'[c] = curOutedPos[c]
  <2>1. InputTypeOK
    BY FlowFacts
  <2> QED
    BY <1>1, <1>2, <2>1 DEF InputTypeOK, listVars, readerVars
<1>5. WorkerFails(c)' /\ ~baseOnError[c]
  BY <1>1, <1>4, FlowFacts DEF WorkerFails
<1>6. given(c)' = given(c) /\ Reading(c)' = Reading(c)
  BY <1>4 DEF given, Reading
<1>7. InputBufOwnership(c)
  BY FlowFacts DEF CompInv
<1>8. \A m \in Nat : Taken(c, m) => Taken(c, m)'
  <2>1. curDataBuf[c] # NoBuf => bufData'[c][curDataBuf[c]] = bufData[c][curDataBuf[c]]
    <3>1. curDataBuf[c] # NoBuf => curDataBuf[c] \in Bufs \ {b}
      BY <1>2, <1>7, FlowFacts DEF InputBufOwnership
    <3> QED
      BY <1>4, <3>1
  <2> QED
    BY <1>4, <1>6, <2>1 DEF Taken
<1>9. \A e \in Nat : Ahead(c, e) => Ahead(c, e)'
  <2> TAKE e \in Nat
  <2>1. HAVE Ahead(c, e)
  <2>2. e = curReadPos[c] /\ curReadPos[c] \in Nat
    BY <1>1, <1>5, <2>1, FlowFacts DEF Ahead, failed
  <2>3. e < curReadPos'[c] /\ curReadPos'[c] - e = n
    BY <1>3, <1>4, <2>2
  <2> QED
    BY <1>4, <2>2, <2>3 DEF Ahead
<1>10. \A x : InList(x, dataBufList[c]) => bufData'[c][x] = bufData[c][x]
  <2> TAKE x
  <2>1. HAVE InList(x, dataBufList[c])
  <2>2. x \in Bufs
    BY <2>1, FlowFacts DEF InList
  <2>3. x # b
    BY <1>2, <1>7, <2>1 DEF InputBufOwnership
  <2> QED
    BY <1>4, <2>2, <2>3
<1>11. rpc[c] # "fail" => Reading(c)
  BY FlowFacts DEF Flow
<1>12. Flow(c)'
  BY <1>4, <1>6, <1>8, <1>9, <1>10, <1>11, FlowKept
<1> QED
  BY <1>5, <1>12 DEF DataInv

(* hpatch_mt_base_pushABufAtEnd_: the chain on the data list grows by the  *)
(* worker's buffer.                                                        *)
LEMMA PushFlow ==
  ASSUME FlowInv, NEW c \in HInputs, InputPush(c)
  PROVE  DataInv(c)'
<1> DEFINE b == wbuf[c]
           l == dataBufList[c]
           r == pushABufAtEnd(l, b)
<1>1. /\ c \in Comp /\ pc[c] = "push" /\ InputTypeOK /\ WorkerFails(c) /\ Flow(c)
      /\ l \in Seq(Bufs) /\ curReadPos[c] \in Nat /\ b \in Bufs
  BY FlowFacts DEF InputPush, HoldsBuf
<1>2. /\ dataBufList'[c] = r /\ pc'[c] = "loop" /\ tErr'[c] = baseOnError[c]
      /\ baseOnError'[c] = baseOnError[c] /\ bufData'[c] = bufData[c]
      /\ curDataBuf'[c] = curDataBuf[c] /\ curDataBuf_pos'[c] = curDataBuf_pos[c]
      /\ rpc'[c] = rpc[c] /\ left'[c] = left[c] /\ curOutedPos'[c] = curOutedPos[c]
      /\ curReadPos'[c] = curReadPos[c]
  BY <1>1 DEF InputPush, WorkerPushData, InputTypeOK, readerVars, hinputVars
<1>3. WorkerFails(c)' /\ ~failed(c)
  BY <1>1, <1>2 DEF WorkerFails, failed
<1>4. given(c)' = given(c) /\ Reading(c)' = Reading(c)
  BY <1>2 DEF given, Reading
<1>5. Flow(c)'
  <2> SUFFICES ASSUME rpc'[c] # "fail" PROVE Flow(c)'
    BY DEF Flow
  <2>1. PICK m \in Nat, e \in Nat :
          Reading(c) /\ Taken(c, m) /\ Chain(bufData[c], l, m, e) /\ Ahead(c, e)
    BY <1>1, <1>2 DEF Flow
  <2>2. e < curReadPos[c] /\ bufData[c][b] = Run(e, curReadPos[c] - e)
    BY <1>1, <1>3, <2>1 DEF Ahead
  <2>3. curReadPos[c] - e \in Nat \ {0} /\ e + (curReadPos[c] - e) = curReadPos[c]
    BY <1>1, <2>2
  <2>4. Chain(bufData[c], r, m, e + (curReadPos[c] - e))
    BY <1>1, <2>1, <2>2, <2>3, ChainPush
  <2> HIDE DEF r
  <2>5. \A x \in Nat : x = m => Taken(c, x)'
    BY <1>2, <1>4, <2>1 DEF Taken
  <2>6. \A x \in Nat : x = curReadPos[c] => Ahead(c, x)'
    BY <1>2 DEF Ahead
  <2>7. Chain(bufData'[c], dataBufList'[c], m, curReadPos[c])
    BY <1>2, <2>3, <2>4
  <2>8. \E m1, e1 \in Nat : /\ Taken(c, m1)' /\ Ahead(c, e1)'
                            /\ Chain(bufData'[c], dataBufList'[c], m1, e1)
    BY <1>1, <2>5, <2>6, <2>7
  <2>9. Reading(c)'
    BY <1>4, <2>1
  <2> QED
    BY <2>8, <2>9 DEF Flow
<1> QED
  BY <1>3, <1>5 DEF DataInv

(* Each step of the worker keeps every DataInv. *)
LEMMA WorkerFlow ==
  ASSUME FlowInv, NEW c \in HInputs, InputWorkerNext(c), NEW d \in HInputs
  PROVE  DataInv(d)'
<1>0. /\ c \in Comp /\ d \in Comp /\ InputTypeOK /\ WorkerFails(c) /\ Flow(c) /\ DataInv(d)
  BY FlowFacts DEF DataInv
<1>1. CASE d # c
  <2>1. /\ dataBufList'[d] = dataBufList[d] /\ baseOnError'[d] = baseOnError[d]
        /\ pc'[d] = pc[d] /\ wbuf'[d] = wbuf[d] /\ tErr'[d] = tErr[d] /\ bufData'[d] = bufData[d]
    BY <1>0, <1>1, SMTT(30) DEF InputWorkerNext, InputWorker, InputLoop, InputGetBuf, InputWaitBuf,
       InputWakeBuf, InputReadAData, InputReadDone, InputPush, InputError, InputEnd, WorkerGetFree,
       WorkerWaitFree, WorkerWakeFree, TakeFree, WorkerPushData, SetBaseOnError, SetMtOnError,
       ThreadEnd, InputTypeOK, listVars
  <2>2. curReadPos'[d] = curReadPos[d] /\ UNCHANGED <<readerVars, curOutedPos>>
    BY <1>0, <1>1, SMTT(30) DEF InputWorkerNext, InputWorker, InputLoop, InputGetBuf, InputWaitBuf,
       InputWakeBuf, InputReadAData, InputReadDone, InputPush, InputError, InputEnd, InputTypeOK,
       hinputVars
  <2> QED
    BY <1>0, <2>1, <2>2, SameFlow DEF readerVars
<1>2. CASE d = c /\ InputReadAData(c)
  BY <1>2, ReadADataFlow
<1>3. CASE d = c /\ InputPush(c)
  BY <1>3, PushFlow
<1>4. CASE d = c /\ InputLoop(c)
  <2>1. /\ pc[c] = "loop" /\ pc'[c] = IF ~isOnFinish /\ ~tErr[c] /\ curReadPos[c] < StreamSize[c]
                                    THEN "getBuf" ELSE "end"
        /\ dataBufList'[c] = dataBufList[c] /\ bufData'[c] = bufData[c] /\ tErr'[c] = tErr[c]
        /\ baseOnError'[c] = baseOnError[c] /\ UNCHANGED <<readerVars, hinputVars>>
    BY <1>0, <1>4 DEF InputLoop, InputTypeOK, listVars
  <2>2. WorkerFails(c)' /\ failed(c)' = failed(c)
    BY <1>0, <2>1 DEF WorkerFails, failed, hinputVars
  <2> QED
    BY <1>4, <2>1, <2>2, WorkerMoves
<1>5. CASE d = c /\ (InputGetBuf(c) \/ InputWakeBuf(c) \/ InputWaitBuf(c))
  <2>1. /\ pc[c] \in {"getBuf", "waitBuf"} /\ pc'[c] \in {"fill", "loop", "waitBuf"}
        /\ dataBufList'[c] = dataBufList[c] /\ bufData'[c] = bufData[c]
        /\ baseOnError'[c] = baseOnError[c] /\ UNCHANGED <<readerVars, hinputVars>>
    BY <1>0, <1>5 DEF InputGetBuf, InputWakeBuf, InputWaitBuf, WorkerGetFree, WorkerWakeFree,
       WorkerWaitFree, TakeFree, InputTypeOK
  <2>2. WorkerFails(c)' /\ failed(c)' = failed(c)
    BY <1>0, <2>1 DEF WorkerFails, failed, hinputVars
  <2> QED
    BY <1>5, <2>1, <2>2, WorkerMoves
<1>6. CASE d = c /\ \E ok \in {TRUE, ~Fails} : InputReadDone(c, ok)
  <2>1. /\ pc[c] = "filling" /\ pc'[c] \in {"push", "setErr"}
        /\ dataBufList'[c] = dataBufList[c] /\ bufData'[c] = bufData[c] /\ tErr'[c] = tErr[c]
        /\ wbuf'[c] = wbuf[c] /\ baseOnError'[c] = baseOnError[c]
        /\ UNCHANGED <<readerVars, hinputVars>>
    BY <1>0, <1>6 DEF InputReadDone, InputTypeOK, listVars
  <2>2. WorkerFails(c)'
    BY <1>0, <2>1 DEF WorkerFails, hinputVars
  <2>3. /\ given(c)' = given(c) /\ Reading(c)' = Reading(c) /\ rpc' = rpc
    BY <2>1 DEF given, Reading, readerVars, hinputVars
  <2>4. \A m \in Nat : Taken(c, m) => Taken(c, m)'
    BY <2>1, <2>3 DEF Taken, readerVars
  <2>5. \A e \in Nat : Ahead(c, e) => Ahead(c, e)'
    BY <2>1 DEF Ahead, failed, hinputVars
  <2>6. rpc[c] # "fail" => Reading(c)
    BY <1>0 DEF Flow
  <2>7. Flow(c)'
    BY <2>1, <2>3, <2>4, <2>5, <2>6, FlowKept
  <2> QED
    BY <1>6, <2>2, <2>7 DEF DataInv
<1>7. CASE d = c /\ InputError(c)
  <2>1. /\ dataBufList'[c] = dataBufList[c] /\ bufData'[c] = bufData[c]
        /\ UNCHANGED <<readerVars, hinputVars>>
    BY <1>0, <1>7 DEF InputError, SetBaseOnError, SetMtOnError
  <2>2. CASE SetBaseOnError(c)
    <3>1. pc[c] = "setErr" /\ pc'[c] = "setMtErr" /\ baseOnError'[c] = TRUE
      BY <1>0, <2>2 DEF SetBaseOnError, InputTypeOK
    <3>2. WorkerFails(c)' /\ failed(c)'
      BY <3>1 DEF WorkerFails, failed
    <3> QED
      BY <1>7, <2>1, <3>1, <3>2, WorkerMoves
  <2>3. CASE SetMtOnError(c, "loop")
    <3>1. /\ pc[c] = "setMtErr" /\ pc'[c] = "loop" /\ tErr'[c] = tErr[c] /\ tErr[c]
          /\ baseOnError'[c] = baseOnError[c]
      BY <1>0, <2>3, FlowFacts DEF SetMtOnError, InputTypeOK, CompInv, Phases
    <3>2. WorkerFails(c)' /\ failed(c)' = failed(c)
      BY <3>1 DEF WorkerFails, failed
    <3> QED
      BY <1>7, <2>1, <3>1, <3>2, WorkerMoves
  <2> QED
    BY <1>7, <2>2, <2>3 DEF InputError
<1>8. CASE d = c /\ InputEnd(c)
  <2>1. /\ pc[c] = "end" /\ pc'[c] = "done"
        /\ dataBufList'[c] = dataBufList[c] /\ bufData'[c] = bufData[c]
        /\ baseOnError'[c] = baseOnError[c] /\ UNCHANGED <<readerVars, hinputVars>>
    BY <1>0, <1>8 DEF InputEnd, ThreadEnd, InputTypeOK, listVars
  <2>2. WorkerFails(c)' /\ failed(c)' = failed(c)
    BY <2>1 DEF WorkerFails, failed
  <2> QED
    BY <1>8, <2>1, <2>2, WorkerMoves
<1> QED
  BY <1>1, <1>2, <1>3, <1>4, <1>5, <1>6, <1>7, <1>8 DEF InputWorkerNext, InputWorker

---------------------------------------------------------------------------
(* The bytes that the caller takes *)

(* A step of the caller that leaves the lists, the buffers and the worker  *)
(* alone.                                                                  *)
LEMMA CallerMovesFlow ==
  ASSUME FlowInv, NEW c \in HInputs, UNCHANGED <<baseVars, curReadPos>>,
         rpc'[c] # "fail" => rpc[c] # "fail" /\ Reading(c)',
         \A m \in Nat : rpc'[c] # "fail" /\ Reading(c) /\ Taken(c, m) => Taken(c, m)'
  PROVE  DataInv(c)'
<1>1. UNCHANGED <<dataBufList, bufData, baseOnError, pc, wbuf, tErr, curReadPos>>
  BY DEF baseVars, listVars, workerVars
<1>2. WorkerFails(c)'
  BY <1>1, FlowFacts DEF WorkerFails
<1>3. \A e \in Nat : Ahead(c, e) => Ahead(c, e)'
  BY <1>1 DEF Ahead, failed
<1>4. Flow(c)'
  BY <1>1, <1>3, FlowKept
<1> QED
  BY <1>2, <1>4 DEF DataInv

(* hinput_mt_read_ up to its loop. *)
LEMMA EnterFlow ==
  ASSUME FlowInv, NEW c \in HInputs, InputCallerReads(c)
  PROVE  DataInv(c)'
<1>1. PICK n \in 1..MaxRead, pos \in {curOutedPos[c], curOutedPos[c] + 1} : InputRead(c, pos, n)
  BY DEF InputCallerReads
<1>2. n \in Nat /\ c \in Comp /\ InputTypeOK /\ curOutedPos[c] \in Nat /\ Flow(c)
  BY FlowFacts, HInputAssumption DEF HInputAssumption
<1>3. /\ rpc[c] = "idle" /\ UNCHANGED <<baseVars, curReadPos, curDataBuf, curDataBuf_pos>>
      /\ rpc'[c] # "fail" => /\ rpc'[c] = "loop" /\ left'[c] = n
                             /\ curOutedPos'[c] = curOutedPos[c] + n
                             /\ curOutedPos[c] + n <= StreamSize[c]
  BY <1>1, <1>2 DEF InputRead, EnterRead, InputTypeOK
<1>4. left[c] = 0 /\ Reading(c)
  BY <1>2, <1>3 DEF Flow, Reading
<1>5. rpc'[c] # "fail" => Reading(c)' /\ given(c)' = given(c)
  BY <1>2, <1>3, <1>4 DEF Reading, given
<1>6. \A m \in Nat : rpc'[c] # "fail" /\ Taken(c, m) => Taken(c, m)'
  BY <1>3, <1>5 DEF Taken, baseVars
<1> QED
  BY <1>3, <1>5, <1>6, CallerMovesFlow

(* The head of the read's loop. *)
LEMMA ReadLoopFlow ==
  ASSUME FlowInv, NEW c \in HInputs, ReadLoop(c), UNCHANGED hinputVars
  PROVE  DataInv(c)'
<1>1. c \in Comp /\ InputTypeOK /\ Flow(c)
  BY FlowFacts
<1>2. /\ rpc[c] = "loop" /\ rpc'[c] \in {"fail", "ok", "getBuf"}
      /\ rpc'[c] = "ok" => left[c] = 0
      /\ UNCHANGED <<baseVars, curReadPos, curOutedPos, curDataBuf, curDataBuf_pos, left>>
  BY <1>1 DEF ReadLoop, InputTypeOK, hinputVars
<1>3. Reading(c)' /\ given(c)' = given(c)
  BY <1>1, <1>2 DEF Flow, Reading, given
<1>4. \A m \in Nat : Taken(c, m) => Taken(c, m)'
  BY <1>2, <1>3 DEF Taken, baseVars
<1> QED
  BY <1>2, <1>3, <1>4, CallerMovesFlow

(* memcpy out of the current buffer: it hands out the next bytes, at least *)
(* one and at most what is asked.                                          *)
LEMMA ReadCopyGives ==
  ASSUME FlowInv, NEW c \in HInputs, ReadCopy(c)
  PROVE  /\ Reading(c) /\ rpc[c] = "loop" /\ given(c) \in Nat
         /\ \E n \in Nat \ {0} :
              /\ n <= left[c]
              /\ outData' = [outData EXCEPT ![c] = @ \o Run(given(c), n)]
              /\ left' = [left EXCEPT ![c] = @ - n]
              /\ curDataBuf_pos' = [curDataBuf_pos EXCEPT ![c] = @ + n]
              /\ rpc' = [rpc EXCEPT ![c] =
                           IF n = Len(bufData[c][curDataBuf[c]]) - curDataBuf_pos[c]
                           THEN "release" ELSE "loop"]
              /\ n <= Len(bufData[c][curDataBuf[c]]) - curDataBuf_pos[c]
<1> DEFINE data == bufData[c][curDataBuf[c]]
           q    == curDataBuf_pos[c]
           have == Len(data) - q
           n    == IF have < left[c] THEN have ELSE left[c]
<1>1. /\ rpc[c] = "loop" /\ left[c] > 0 /\ curDataBuf[c] # NoBuf
      /\ outData' = [outData EXCEPT ![c] = @ \o SubSeq(data, q + 1, q + n)]
      /\ curDataBuf_pos' = [curDataBuf_pos EXCEPT ![c] = @ + n]
      /\ left' = [left EXCEPT ![c] = @ - n]
      /\ rpc' = [rpc EXCEPT ![c] = IF n = have THEN "release" ELSE "loop"]
  BY DEF ReadCopy
<1>2. /\ left[c] \in Nat /\ q \in Nat /\ curOutedPos[c] \in Nat /\ Flow(c)
  BY FlowFacts
<1>3. PICK m \in Nat : Reading(c) /\ Taken(c, m)
  BY <1>1, <1>2 DEF Flow
<1>4. PICK k \in Nat \ {0} : /\ k <= m /\ data = Run(m - k, k) /\ given(c) = m - k + q /\ q < k
  BY <1>1, <1>3 DEF Taken
<1>5. m - k \in Nat /\ Len(data) = k /\ given(c) \in Nat
  <2>1. m - k \in Nat
    BY <1>4
  <2>2. Len(data) = k
    BY <1>4, <2>1, RunBytes
  <2> QED
    BY <1>2, <1>4, <2>1, <2>2
<1> HIDE DEF data, q
<1>6. n \in Nat \ {0} /\ n <= left[c] /\ n <= have /\ q + n <= k
  BY <1>1, <1>2, <1>4, <1>5
<1> HIDE DEF n, have
<1>7. SubSeq(data, q + 1, q + n) = Run(given(c), n)
  <2>1. PICK p \in Nat : p = m - k
    BY <1>5
  <2>2. k \in Nat /\ q \in Nat /\ n \in Nat \ {0} /\ q + n <= k
    BY <1>2, <1>4, <1>6
  <2>3. SubSeq(Run(p, k), q + 1, q + n) = Run(p + q, n)
    BY <2>2, RunPart, ZenonT(60)
  <2>4. data = Run(p, k) /\ given(c) = p + q
    BY <1>4, <2>1
  <2> QED
    BY <2>3, <2>4
<1> QED
  BY <1>1, <1>3, <1>5, <1>6, <1>7 DEF data, have, q

(* After the copy the caller still stands in its buffer, or at its end. *)
LEMMA ReadCopyFlow ==
  ASSUME FlowInv, NEW c \in HInputs, ReadCopy(c), UNCHANGED hinputVars
  PROVE  DataInv(c)'
<1> DEFINE data == bufData[c][curDataBuf[c]]
           q    == curDataBuf_pos[c]
<1>1. /\ c \in Comp /\ InputTypeOK /\ left[c] \in Nat /\ q \in Nat /\ curOutedPos[c] \in Nat
  BY FlowFacts
<1>2. PICK n \in Nat \ {0} :
        /\ n <= left[c] /\ n <= Len(data) - q /\ left' = [left EXCEPT ![c] = @ - n]
        /\ curDataBuf_pos' = [curDataBuf_pos EXCEPT ![c] = @ + n]
        /\ rpc' = [rpc EXCEPT ![c] = IF n = Len(data) - q THEN "release" ELSE "loop"]
  BY ReadCopyGives
<1>3. /\ UNCHANGED <<baseVars, bufData, curReadPos, curOutedPos, curDataBuf>>
      /\ rpc[c] = "loop" /\ curDataBuf[c] # NoBuf /\ Reading(c)
  BY ReadCopyGives DEF ReadCopy, hinputVars, baseVars
<1>4. /\ left'[c] = left[c] - n /\ curDataBuf_pos'[c] = q + n
      /\ rpc'[c] = IF n = Len(data) - q THEN "release" ELSE "loop"
  BY <1>1, <1>2 DEF InputTypeOK
<1>5. Reading(c)' /\ given(c)' = given(c) + n
  BY <1>1, <1>2, <1>3, <1>4 DEF Reading, given
<1>6. \A m \in Nat : Taken(c, m) => Taken(c, m)'
  <2> SUFFICES ASSUME NEW m \in Nat, Taken(c, m)
               PROVE  \E k \in Nat \ {0} :
                        /\ k <= m /\ data = Run(m - k, k) /\ given(c)' = m - k + curDataBuf_pos'[c]
                        /\ IF rpc'[c] = "release" THEN curDataBuf_pos'[c] = k
                                                  ELSE curDataBuf_pos'[c] < k
    BY <1>3 DEF Taken
  <2>1. PICK k \in Nat \ {0} : /\ k <= m /\ data = Run(m - k, k) /\ given(c) = m - k + q /\ q < k
    BY <1>3 DEF Taken
  <2>2. Len(data) = k
    <3>1. m - k \in Nat
      BY <2>1
    <3> QED
      BY <2>1, <3>1, RunBytes
  <2> HIDE DEF data, q
  <2>3. given(c)' = m - k + curDataBuf_pos'[c]
    BY <1>1, <1>2, <1>4, <1>5, <2>1
  <2>4. IF rpc'[c] = "release" THEN curDataBuf_pos'[c] = k ELSE curDataBuf_pos'[c] < k
    BY <1>1, <1>2, <1>4, <2>2, SMTT(30)
  <2> QED
    BY <2>1, <2>3, <2>4
<1> QED
  BY <1>3, <1>5, <1>6, CallerMovesFlow

(* hpatch_mt_base_onceWaitABuf_ on the data list: the caller's next buffer *)
(* begins where its last one ended.                                        *)
LEMMA TakeDataFlow ==
  ASSUME FlowInv, NEW c \in HInputs, rpc[c] \in {"getBuf", "waitBuf"}, TakeData(c),
         UNCHANGED hinputVars
  PROVE  DataInv(c)'
<1> DEFINE l == dataBufList[c]
<1>1. /\ c \in Comp /\ NoBuf \notin Bufs /\ InputTypeOK /\ CompInv(c) /\ WorkerFails(c) /\ Flow(c)
      /\ l \in Seq(Bufs)
  BY FlowFacts
<1>2. /\ dataBufList'[c] = restBufs(l) /\ curDataBuf'[c] = firstBuf(l) /\ rpc'[c] = "loop"
      /\ curDataBuf[c] = NoBuf
      /\ UNCHANGED <<bufData, baseOnError, pc, wbuf, tErr, left, curDataBuf_pos>>
      /\ UNCHANGED <<curReadPos, curOutedPos>>
  BY <1>1 DEF TakeData, InputTypeOK, workerVars, CompInv, Phases, hinputVars
<1>3. WorkerFails(c)'
  BY <1>1, <1>2 DEF WorkerFails
<1>4. PICK m \in Nat, e \in Nat :
        Reading(c) /\ Taken(c, m) /\ Chain(bufData[c], l, m, e) /\ Ahead(c, e)
  BY <1>1 DEF Flow
<1>5. given(c)' = given(c) /\ Reading(c)'
  BY <1>2, <1>4 DEF given, Reading
<1>6. \A x \in Nat : x = e => Ahead(c, x)'
  BY <1>2, <1>4 DEF Ahead, failed
<1>7. given(c) = m /\ curDataBuf_pos[c] = 0
  BY <1>2, <1>4 DEF Taken
<1>8. \E m1, e1 \in Nat : /\ Taken(c, m1)' /\ Ahead(c, e1)'
                          /\ Chain(bufData'[c], dataBufList'[c], m1, e1)
  <2>1. CASE l = <<>>
    <3>1. firstBuf(l) = NoBuf /\ restBufs(l) = l
      BY <1>1, <2>1, Pop
    <3>2. \A x \in Nat : x = m => Taken(c, x)'
      BY <1>2, <1>5, <1>7, <3>1 DEF Taken
    <3>3. Chain(bufData'[c], dataBufList'[c], m, e)
      BY <1>2, <1>4, <3>1
    <3> QED
      BY <1>6, <3>2, <3>3
  <2>2. CASE l # <<>>
    <3>1. firstBuf(l) = Head(l) /\ restBufs(l) = Tail(l) /\ firstBuf(l) \in Bufs
      BY <1>1, <2>2, Pop DEF firstBuf, restBufs
    <3>2. PICK n \in Nat \ {0} : /\ bufData[c][Head(l)] = Run(m, n)
                                 /\ Chain(bufData[c], Tail(l), m + n, e)
      BY <1>1, <1>4, <2>2, ChainPop
    <3>3. m + n \in Nat /\ n <= m + n /\ (m + n) - n = m /\ 0 < n
      OBVIOUS
    <3>4. curDataBuf'[c] = Head(l) /\ curDataBuf'[c] # NoBuf
      BY <1>1, <1>2, <3>1
    <3>5. \A x \in Nat : x = m + n => Taken(c, x)'
      BY <1>2, <1>5, <1>7, <3>2, <3>3, <3>4 DEF Taken
    <3>6. Chain(bufData'[c], dataBufList'[c], m + n, e)
      BY <1>2, <3>1, <3>2
    <3> QED
      BY <1>6, <3>3, <3>5, <3>6
  <2> QED
    BY <2>1, <2>2
<1>9. Flow(c)'
  BY <1>5, <1>8 DEF Flow
<1> QED
  BY <1>3, <1>9 DEF DataInv

(* hpatch_mt_base_pushABufAtHead_ of a buffer that is copied out. *)
LEMMA ReadReleaseFlow ==
  ASSUME FlowInv, NEW c \in HInputs, ReadRelease(c), UNCHANGED hinputVars
  PROVE  DataInv(c)'
<1>1. c \in Comp /\ NoBuf \notin Bufs /\ InputTypeOK /\ WorkerFails(c) /\ HoldsBuf /\ Flow(c)
      /\ curOutedPos[c] \in Nat /\ left[c] \in Nat
  BY FlowFacts
<1>2. /\ rpc[c] = "release" /\ rpc'[c] = "loop" /\ curDataBuf'[c] = NoBuf
      /\ curDataBuf_pos'[c] = 0
      /\ UNCHANGED <<dataBufList, bufData, baseOnError, pc, wbuf, tErr, left>>
      /\ UNCHANGED <<curReadPos, curOutedPos>>
  BY <1>1 DEF ReadRelease, InputTypeOK, workerVars, hinputVars
<1>3. WorkerFails(c)' /\ curDataBuf[c] # NoBuf
  BY <1>1, <1>2 DEF WorkerFails, HoldsBuf
<1>4. given(c)' = given(c) /\ given(c) \in Int
  BY <1>1, <1>2 DEF given
<1>5. Reading(c)'
  BY <1>1, <1>2 DEF Flow, Reading
<1>6. \A m \in Nat : Taken(c, m) => Taken(c, m)'
  <2> SUFFICES ASSUME NEW m \in Nat, Taken(c, m) PROVE given(c) = m
    BY <1>2, <1>4 DEF Taken
  <2>1. PICK k \in Nat \ {0} : given(c) = m - k + curDataBuf_pos[c] /\ curDataBuf_pos[c] = k
    BY <1>2, <1>3 DEF Taken
  <2> QED
    BY <2>1
<1>7. \A e \in Nat : Ahead(c, e) => Ahead(c, e)'
  BY <1>2 DEF Ahead, failed
<1>8. Flow(c)'
  BY <1>2, <1>5, <1>6, <1>7, FlowKept
<1> QED
  BY <1>3, <1>8 DEF DataInv

(* The caller goes to sleep, or its caller goes on after the return. *)
LEMMA ReaderPauses ==
  ASSUME FlowInv, NEW c \in HInputs, ReadWait(c) \/ InputCallerReturns(c), UNCHANGED hinputVars
  PROVE  DataInv(c)'
<1>1. /\ c \in Comp /\ InputTypeOK /\ WorkerFails(c) /\ Flow(c)
  BY FlowFacts
<1>2. /\ rpc[c] \in {"getBuf", "ok"} /\ rpc'[c] \in {"waitBuf", "idle"}
      /\ rpc[c] = "getBuf" => rpc'[c] = "waitBuf"
      /\ UNCHANGED <<dataBufList, bufData, baseOnError, pc, wbuf, tErr, left, curDataBuf,
                     curDataBuf_pos>>
      /\ UNCHANGED <<curReadPos, curOutedPos>>
  BY <1>1 DEF ReadWait, InputCallerReturns, ReadReturned, InputTypeOK, baseVars, listVars,
              workerVars, hinputVars
<1>3. WorkerFails(c)'
  BY <1>1, <1>2 DEF WorkerFails
<1>4. given(c)' = given(c)
  BY <1>2 DEF given
<1>5. Reading(c)'
  BY <1>1, <1>2 DEF Flow, Reading
<1>6. \A m \in Nat : Taken(c, m) => Taken(c, m)'
  BY <1>2, <1>4 DEF Taken
<1>7. \A e \in Nat : Ahead(c, e) => Ahead(c, e)'
  BY <1>2 DEF Ahead, failed
<1>8. Flow(c)'
  BY <1>2, <1>5, <1>6, <1>7, FlowKept
<1> QED
  BY <1>3, <1>8 DEF DataInv

(* A step of one caller concerns its own component only. *)
LEMMA CallerIsLocal ==
  ASSUME FlowInv, NEW c \in HInputs, NEW d \in HInputs \ {c},
         InputCallerReads(c) \/ InputCallerStep(c) \/ InputCallerReturns(c)
  PROVE  DataInv(d)'
<1>1. c \in Comp /\ d \in Comp /\ InputTypeOK /\ DataInv(d)
  BY FlowFacts DEF DataInv
<1>2. /\ UNCHANGED <<baseOnError, pc, wbuf, tErr, bufData, curReadPos>>
      /\ dataBufList'[d] = dataBufList[d] /\ curOutedPos'[d] = curOutedPos[d]
  BY <1>1, ZenonT(60) DEF InputCallerReads, InputRead, EnterRead, InputCallerStep, InputCallerReturns,
     ReadReturned, ReadStep, ReadLoop, ReadGetBuf, ReadWait, ReadWake, TakeData, ReadCopy,
     ReadRelease, InputTypeOK, baseVars, listVars, workerVars, hinputVars
<1>3. /\ curDataBuf'[d] = curDataBuf[d] /\ curDataBuf_pos'[d] = curDataBuf_pos[d]
      /\ rpc'[d] = rpc[d] /\ left'[d] = left[d]
  BY <1>1, ZenonT(60) DEF InputCallerReads, InputRead, EnterRead, InputCallerStep, InputCallerReturns,
     ReadReturned, ReadStep, ReadLoop, ReadGetBuf, ReadWait, ReadWake, TakeData, ReadCopy,
     ReadRelease, InputTypeOK
<1> QED
  BY <1>1, <1>2, <1>3, SameFlow

(* Opening a component: nothing is on its way. *)
LEMMA InitFlowInv == InputInit => FlowInv
<1> SUFFICES ASSUME InputInit, NEW c \in HInputs PROVE DataInv(c)
  BY InitTypeInv, InitComp DEF FlowInv, IInv
<1>1. c \in Comp /\ StreamSize[c] \in Nat
  BY HInputAssumption DEF HInputAssumption
<1>2. /\ dataBufList[c] = <<>> /\ ~baseOnError[c] /\ pc[c] = "loop" /\ curDataBuf[c] = NoBuf
      /\ curDataBuf_pos[c] = 0 /\ rpc[c] = "idle" /\ left[c] = 0
      /\ curReadPos[c] = 0 /\ curOutedPos[c] = 0
  BY <1>1 DEF InputInit, BaseInit, ReaderInit
<1>3. WorkerFails(c) /\ Reading(c)
  BY <1>1, <1>2 DEF WorkerFails, Reading
<1>4. Taken(c, 0) /\ Ahead(c, 0)
  BY <1>2 DEF Taken, given, Ahead
<1>5. Chain(bufData[c], dataBufList[c], 0, 0)
  BY <1>2, ChainEmpty
<1>6. Flow(c)
  BY <1>3, <1>4, <1>5 DEF Flow
<1> QED
  BY <1>3, <1>6 DEF DataInv

(* Each step keeps the bytes in order, in every component. *)
LEMMA NextFlowInv == FlowInv /\ [InputNext]_inputVars => FlowInv'
<1> SUFFICES ASSUME FlowInv, [InputNext]_inputVars, NEW d \in HInputs PROVE DataInv(d)'
  BY NextIInv DEF FlowInv
<1>1. ASSUME NEW c \in HInputs, InputWorkerNext(c) PROVE DataInv(d)'
  BY <1>1, WorkerFlow
<1>2. ASSUME NEW c \in HInputs,
             InputCallerReads(c) \/ InputCallerStep(c) \/ InputCallerReturns(c)
      PROVE  DataInv(d)'
  <2>1. CASE d # c
    BY <1>2, <2>1, CallerIsLocal
  <2>2. CASE d = c /\ InputCallerReads(c)
    BY <2>2, EnterFlow
  <2>3. CASE d = c /\ InputCallerReturns(c)
    BY <2>3, ReaderPauses DEF InputCallerReturns
  <2>4. CASE d = c /\ InputCallerStep(c)
    <3>1. UNCHANGED hinputVars /\ ReadStep(c)
      BY <2>4 DEF InputCallerStep
    <3>2. CASE ReadLoop(c)
      BY <2>4, <3>1, <3>2, ReadLoopFlow
    <3>3. CASE ReadGetBuf(c) \/ ReadWake(c)
      BY <2>4, <3>1, <3>3, TakeDataFlow DEF ReadGetBuf, ReadWake
    <3>4. CASE ReadWait(c)
      BY <2>4, <3>1, <3>4, ReaderPauses
    <3>5. CASE ReadCopy(c)
      BY <2>4, <3>1, <3>5, ReadCopyFlow
    <3>6. CASE ReadRelease(c)
      BY <2>4, <3>1, <3>6, ReadReleaseFlow
    <3> QED
      BY <3>1, <3>2, <3>3, <3>4, <3>5, <3>6 DEF ReadStep
  <2> QED
    BY <1>2, <2>1, <2>2, <2>3, <2>4
<1>3. CASE InputClose \/ InputClosed \/ InputOtherError \/ InputSpurious \/ UNCHANGED inputVars
  <2>1. UNCHANGED <<dataBufList, baseOnError, pc, wbuf, tErr, bufData, readerVars, hinputVars>>
    BY <1>3 DEF InputClose, InputClosed, InputOtherError, WaitAllThreadEnd, AllThreadsEnded,
       InputSpurious, SpuriousWake, inputVars, baseVars, listVars, workerVars
  <2>2. DataInv(d)
    BY DEF FlowInv
  <2> QED
    BY <2>1, <2>2, SameFlow DEF readerVars, hinputVars
<1> QED
  BY <1>1, <1>2, <1>3 DEF InputNext, InputCallerNext, InputDone

---------------------------------------------------------------------------
(* The refinement of ByteStream *)

(* What ByteStream sees of a component. *)
streamVars == <<givenPos, callState, stillWanted, givenData>>

(* hinput_mt_read_ begins a call, or refuses it. *)
LEMMA ReadBegins ==
  ASSUME FlowInv, NEW c \in HInputs, InputCallerReads(c)
  PROVE  Stream!Begin(c) \/ Stream!Refuse(c)
<1>1. PICK n \in 1..MaxRead, pos \in {curOutedPos[c], curOutedPos[c] + 1} : InputRead(c, pos, n)
  BY DEF InputCallerReads
<1>2. /\ n \in Nat /\ c \in Comp /\ InputTypeOK /\ curOutedPos[c] \in Nat /\ left[c] \in Nat
      /\ Flow(c) /\ HInputs \subseteq Comp /\ StreamSize[c] \in Nat
  BY FlowFacts, HInputAssumption DEF HInputAssumption
<1>3. rpc[c] = "idle" /\ left[c] = 0
  BY <1>1, <1>2 DEF InputRead, Flow, Reading
<1>4. callState[c] = "idle" /\ givenPos[c] = curOutedPos[c]
  BY <1>2, <1>3 DEF callState, readCalling, givenPos
<1>5. CASE curOutedPos[c] = pos /\ pos + n <= StreamSize[c]
  <2>1. /\ curOutedPos' = [curOutedPos EXCEPT ![c] = @ + n] /\ EnterRead(c, n)
    BY <1>1, <1>5, <1>2 DEF InputRead
  <2>2. stillWanted' = [stillWanted EXCEPT ![c] = n]
    BY <1>2, <2>1 DEF EnterRead, stillWanted, InputTypeOK
  <2>3. givenData' = [givenData EXCEPT ![c] = <<>>]
    BY <1>2, <2>1 DEF EnterRead, givenData, InputTypeOK
  <2>4. callState' = [callState EXCEPT ![c] = "busy"]
    BY <1>2, <2>1 DEF EnterRead, callState, readCalling, InputTypeOK
  <2>5. givenPos' = givenPos
    <3>1. curOutedPos'[c] - left'[c] = curOutedPos[c] - left[c]
      BY <1>2, <1>3, <2>1 DEF EnterRead, InputTypeOK
    <3>2. \A d \in HInputs \ {c} : curOutedPos'[d] - left'[d] = curOutedPos[d] - left[d]
      BY <1>2, <2>1 DEF EnterRead, InputTypeOK
    <3> QED
      BY <3>1, <3>2 DEF givenPos
  <2>6. n \in 0..(StreamSize[c] - givenPos[c])
    BY <1>2, <1>4, <1>5
  <2> QED
    BY <1>4, <2>2, <2>3, <2>4, <2>5, <2>6 DEF Stream!Begin
<1>6. CASE ~(curOutedPos[c] = pos /\ pos + n <= StreamSize[c])
  <2>1. /\ curOutedPos' = [curOutedPos EXCEPT ![c] = IF @ = pos THEN @ + n ELSE @]
        /\ rpc' = [rpc EXCEPT ![c] = "fail"] /\ UNCHANGED <<left, outData>>
    BY <1>1, <1>6 DEF InputRead
  <2>2. stillWanted' = stillWanted /\ givenData' = givenData
    BY <2>1 DEF stillWanted, givenData
  <2>3. callState' = [callState EXCEPT ![c] = "fail"]
    BY <1>2, <2>1 DEF callState, readCalling, InputTypeOK
  <2>4. givenPos' = [givenPos EXCEPT ![c] = givenPos'[c]]
    BY <1>2, <2>1 DEF givenPos, InputTypeOK
  <2>5. givenPos'[c] \in Nat
    BY <1>2, <1>3, <2>1 DEF givenPos, InputTypeOK
  <2> QED
    BY <1>4, <2>2, <2>3, <2>4, <2>5 DEF Stream!Refuse
<1> QED
  BY <1>5, <1>6

(* A copy out of a buffer hands out the next bytes. *)
LEMMA CopyGives ==
  ASSUME FlowInv, NEW c \in HInputs, ReadCopy(c), UNCHANGED hinputVars
  PROVE  Stream!Give(c)
<1>1. /\ c \in Comp /\ InputTypeOK /\ HInputs \subseteq Comp /\ curOutedPos[c] \in Nat
      /\ left[c] \in Nat
  BY FlowFacts, HInputAssumption DEF HInputAssumption
<1>2. PICK n \in Nat \ {0} :
        /\ n <= left[c] /\ outData' = [outData EXCEPT ![c] = @ \o Run(given(c), n)]
        /\ left' = [left EXCEPT ![c] = @ - n]
        /\ \E p \in {"release", "loop"} : rpc' = [rpc EXCEPT ![c] = p]
        /\ rpc[c] = "loop" /\ given(c) \in Nat
  BY ReadCopyGives
<1>3. n \in 1..stillWanted[c] /\ givenPos[c] = given(c) /\ callState[c] = "busy"
  BY <1>1, <1>2 DEF stillWanted, givenPos, given, callState, readCalling
<1>4. givenData' = [givenData EXCEPT ![c] = @ \o Run(givenPos[c], n)]
  BY <1>1, <1>2, <1>3 DEF givenData, InputTypeOK
<1>5. stillWanted' = [stillWanted EXCEPT ![c] = @ - n]
  BY <1>1, <1>2 DEF stillWanted, InputTypeOK
<1>6. callState' = callState
  BY <1>1, <1>2 DEF callState, readCalling, InputTypeOK
<1>7. givenPos' = [givenPos EXCEPT ![c] = @ + n]
  <2>1. curOutedPos'[c] - left'[c] = (curOutedPos[c] - left[c]) + n
    BY <1>1, <1>2 DEF hinputVars, InputTypeOK
  <2>2. \A d \in HInputs \ {c} : curOutedPos'[d] - left'[d] = curOutedPos[d] - left[d]
    BY <1>1, <1>2 DEF hinputVars, InputTypeOK
  <2> QED
    BY <2>1, <2>2 DEF givenPos
<1>8. Stream!Run(givenPos[c], n) = Run(givenPos[c], n)
  BY DEF Stream!Run, Run
<1> QED
  BY <1>3, <1>4, <1>5, <1>6, <1>7, <1>8 DEF Stream!Give

(* Only the copies move the stream; the loop may end the call. *)
LEMMA ReadStepIsStream ==
  ASSUME FlowInv, NEW c \in HInputs, InputCallerStep(c)
  PROVE  Stream!Give(c) \/ Stream!Return(c) \/ UNCHANGED streamVars
<1>1. c \in Comp /\ InputTypeOK /\ HInputs \subseteq Comp /\ UNCHANGED hinputVars
  BY FlowFacts, HInputAssumption DEF HInputAssumption, InputCallerStep
<1>2. CASE ReadCopy(c)
  BY <1>1, <1>2, CopyGives
<1>3. CASE ~ReadCopy(c)
  <2>1. UNCHANGED <<left, outData, curOutedPos>>
    BY <1>1, <1>3 DEF InputCallerStep, ReadStep, ReadLoop, ReadGetBuf, ReadWait, ReadWake,
       TakeData, ReadRelease, hinputVars
  <2>2. UNCHANGED <<givenPos, stillWanted, givenData>>
    BY <2>1 DEF givenPos, stillWanted, givenData
  <2>3. /\ rpc[c] \in {"loop", "getBuf", "waitBuf", "release"}
        /\ \E p \in {"loop", "getBuf", "waitBuf", "fail", "ok"} :
             rpc' = [rpc EXCEPT ![c] = p] /\ (p = "ok" => left[c] = 0)
    BY <1>1, <1>3 DEF InputCallerStep, ReadStep, ReadLoop, ReadGetBuf, ReadWait, ReadWake,
       TakeData, ReadRelease, InputTypeOK
  <2>4. PICK p \in {"loop", "getBuf", "waitBuf", "fail", "ok"} :
          rpc' = [rpc EXCEPT ![c] = p] /\ (p = "ok" => left[c] = 0)
    BY <2>3
  <2>5. callState[c] = "busy"
    BY <2>3 DEF callState, readCalling
  <2>6. CASE p \in {"fail", "ok"}
    <3>1. callState' = [callState EXCEPT ![c] = p]
      BY <1>1, <2>4, <2>6 DEF callState, readCalling, InputTypeOK
    <3> QED
      BY <2>2, <2>4, <2>5, <2>6, <3>1 DEF Stream!Return, stillWanted
  <2>7. CASE p \notin {"fail", "ok"}
    <3>1. callState' = callState
      BY <1>1, <2>3, <2>4, <2>7 DEF callState, readCalling, InputTypeOK
    <3> QED
      BY <2>2, <3>1 DEF streamVars
  <2> QED
    BY <2>6, <2>7
<1> QED
  BY <1>2, <1>3

(* Every step of hinput_mt_t is a step of ByteStream, or invisible there. *)
LEMMA NextIsStream == FlowInv /\ [InputNext]_inputVars => [Stream!Next]_(Stream!vars)
<1> SUFFICES ASSUME FlowInv, [InputNext]_inputVars PROVE Stream!Next \/ UNCHANGED streamVars
  BY DEF Stream!vars, streamVars
<1>1. ASSUME NEW c \in HInputs, InputWorkerNext(c) PROVE UNCHANGED streamVars
  <2>1. UNCHANGED <<readerVars, curOutedPos>>
    BY <1>1 DEF InputWorkerNext, InputWorker, InputLoop, InputGetBuf, InputWaitBuf, InputWakeBuf,
       InputReadAData, InputReadDone, InputPush, InputError, InputEnd, hinputVars
  <2> QED
    BY <2>1 DEF streamVars, givenPos, callState, stillWanted, givenData, readCalling, readerVars
<1>2. ASSUME NEW c \in HInputs, InputCallerReads(c) PROVE Stream!Next
  BY <1>2, ReadBegins DEF Stream!Next
<1>3. ASSUME NEW c \in HInputs, InputCallerStep(c) PROVE Stream!Next \/ UNCHANGED streamVars
  BY <1>3, ReadStepIsStream DEF Stream!Next
<1>4. ASSUME NEW c \in HInputs, InputCallerReturns(c) PROVE Stream!Next
  <2>1. c \in Comp /\ InputTypeOK /\ HInputs \subseteq Comp
    BY FlowFacts, HInputAssumption DEF HInputAssumption
  <2>2. /\ rpc[c] = "ok" /\ rpc' = [rpc EXCEPT ![c] = "idle"]
        /\ UNCHANGED <<left, outData, curOutedPos>>
    BY <1>4 DEF InputCallerReturns, ReadReturned, hinputVars
  <2>3. UNCHANGED <<givenPos, stillWanted, givenData>>
    BY <2>2 DEF givenPos, stillWanted, givenData
  <2>4. callState[c] = "ok" /\ callState' = [callState EXCEPT ![c] = "idle"]
    BY <2>1, <2>2 DEF callState, readCalling, InputTypeOK
  <2> QED
    BY <2>3, <2>4 DEF Stream!Again, Stream!Next
<1>5. CASE InputClose \/ InputClosed \/ InputOtherError \/ InputSpurious \/ UNCHANGED inputVars
  <2>1. UNCHANGED <<readerVars, curOutedPos>>
    BY <1>5 DEF InputClose, InputClosed, InputOtherError, InputSpurious, inputVars, hinputVars
  <2> QED
    BY <2>1 DEF streamVars, givenPos, callState, stillWanted, givenData, readCalling, readerVars
<1> QED
  BY <1>1, <1>2, <1>3, <1>4, <1>5 DEF InputNext, InputCallerNext, InputDone

(* What the callers of the hinput_mt_t components see are sequential       *)
(* streams: the bytes of the base stream, each once and in order, however  *)
(* reads and work buffers cut it, and success only with all that was       *)
(* asked, whatever the threads do and whichever of them fails.             *)
THEOREM InputImplementsByteStream == InputSpec => InputIsByteStream
<1>1. InputInit => Stream!Init
  <2> SUFFICES ASSUME InputInit PROVE Stream!Init
    OBVIOUS
  <2>1. \A c \in HInputs : /\ left[c] = 0 /\ curOutedPos[c] = 0 /\ rpc[c] = "idle"
                           /\ outData[c] = <<>>
    BY HInputAssumption DEF InputInit, ReaderInit, HInputAssumption
  <2>2. givenPos = [c \in HInputs |-> 0] /\ stillWanted = [c \in HInputs |-> 0]
    BY <2>1 DEF givenPos, stillWanted
  <2>3. callState = [c \in HInputs |-> "idle"] /\ givenData = [c \in HInputs |-> <<>>]
    BY <2>1 DEF callState, givenData, readCalling
  <2> QED
    BY <2>2, <2>3 DEF Stream!Init
<1>2. FlowInv /\ [InputNext]_inputVars => [Stream!Next]_(Stream!vars)
  BY NextIsStream
<1> QED
  BY <1>1, <1>2, InitFlowInv, NextFlowInv, PTL DEF InputSpec, InputIsByteStream, Stream!Spec
===========================================================================
