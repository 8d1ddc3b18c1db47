-------------------------- MODULE HOutputMT_proofs ------------------------
(***************************************************************************)
(* Proofs about houtput_mt_t for any number of components, any number of   *)
(* work buffers, any sizes, with failures and spurious wakeups.            *)
(***************************************************************************)
EXTENDS HOutputMT, MTBase_proofs

---------------------------------------------------------------------------
(* The inductive invariant *)

OutputWorkerPC == {"loop", "getBuf", "waitBuf", "write", "push",
                   "setErr", "setMtErr", "end", "done"}
OutputCallerPC == {"idle", "loop", "getBuf", "waitBuf", "copy", "push", "ok", "fail"}

(* The types of the variables that houtput_mt_t works with. *)
OutputTypeOK ==
  /\ isOnFinish \in BOOLEAN /\ isOnError \in BOOLEAN
  /\ runningThreads \in Nat /\ closing \in {"no", "waitAll", "ended"}
  /\ freeBufList \in [Comp -> Seq(Bufs)] /\ dataBufList \in [Comp -> Seq(Bufs)]
  /\ baseOnError \in [Comp -> BOOLEAN]
  /\ waiters \in [Comp -> SUBSET {Worker, Caller}]
  /\ pc \in [Comp -> OutputWorkerPC] /\ tErr \in [Comp -> BOOLEAN]
  /\ bufData \in [Comp -> [Bufs -> Seq(Nat)]]
  /\ outBuf \in [HOutputs -> Bufs \union {NoBuf}] /\ outedPos \in [HOutputs -> Nat]
  /\ curWritePos \in [HOutputs -> Nat] /\ datas \in [HOutputs -> Seq(Bufs)]
  /\ file \in [HOutputs -> Seq(Nat)] /\ wpc \in [HOutputs -> OutputCallerPC]
  /\ wleft \in [HOutputs -> Nat] /\ wErr \in [HOutputs -> BOOLEAN]
  /\ isNeedFlush \in [HOutputs -> BOOLEAN]

(* What the two threads hold, wait for and know at each point of their     *)
(* code.                                                                   *)
Phases(c) ==
  /\ pc[c] \in {"write", "push"} => datas[c] # <<>>
  /\ pc[c] \in {"getBuf", "waitBuf"} => datas[c] = <<>>
  /\ pc[c] = "loop" /\ ~tErr[c] => datas[c] = <<>>
  /\ pc[c] = "setMtErr" => tErr[c]
  /\ baseOnError[c] => pc[c] \in {"setMtErr", "end", "done"} \/ (pc[c] = "loop" /\ tErr[c])
  /\ wpc[c] \in {"getBuf", "waitBuf"} => outBuf[c] = NoBuf
  /\ wpc[c] \in {"copy", "push"} => outBuf[c] \in Bufs
  /\ Worker \in waiters[c] => pc[c] = "waitBuf"
  /\ Caller \in waiters[c] => wpc[c] = "waitBuf"

Sleep(c) ==
  /\ Worker \in waiters[c] => dataBufList[c] = <<>>
  /\ Caller \in waiters[c] => freeBufList[c] = <<>>
  /\ waiters[c] # {Worker, Caller}

(* What the caller has copied so far, and how much of it is still in the   *)
(* buffer that it is filling.                                              *)
copied(c) == outedPos[c] - wleft[c]
filled(c) == IF outBuf[c] = NoBuf THEN 0 ELSE Len(bufData[c][outBuf[c]])

(* The caller inside write(), as long as no call has failed. *)
Filling(c) ==
  wpc[c] # "fail" =>
    /\ wleft[c] <= outedPos[c] /\ outedPos[c] <= OutSize[c]
    /\ wpc[c] \in {"idle", "ok"} => wleft[c] = 0
    /\ wpc[c] \in {"getBuf", "waitBuf", "copy"} => wleft[c] > 0
    /\ filled(c) <= copied(c) /\ filled(c) <= WorkBufSize
    /\ wpc[c] # "push" => filled(c) < WorkBufSize
    /\ wpc[c] = "push" => filled(c) > 0
    /\ outBuf[c] # NoBuf => bufData[c][outBuf[c]] = Run(copied(c) - filled(c), filled(c))

(* The base stream has refused a write. *)
failed(c) == baseOnError[c] \/ pc[c] = "setErr"

(* The buffers that the worker still has to write. *)
pending(c) == IF pc[c] = "push" THEN Tail(datas[c]) ELSE datas[c]

(* What is written, what is on its way and what is in the caller's buffer  *)
(* follow each other without a gap: the buffers of the worker's list and   *)
(* of the data list hold the bytes from the end of the file on.            *)
Flow(c) ==
  /\ file[c] = Run(0, Len(file[c]))
  /\ ~failed(c) =>
       /\ curWritePos[c] = Len(file[c])
       /\ \E m, e \in Nat :
            /\ Chain(bufData[c], pending(c), Len(file[c]), m)
            /\ Chain(bufData[c], dataBufList[c], m, e)
            /\ e <= accepted[c]
            /\ wpc[c] # "fail" => e = copied(c) - filled(c)

(* CompInv is inductive together with the types: the ownership needs       *)
(* Phases, the chains need the ownership (nobody else writes to the        *)
(* buffers on their way) and Filling.                                      *)
CompInv(c) == Phases(c) /\ OutputBufOwnership(c) /\ Sleep(c) /\ Filling(c) /\ Flow(c)
TypeInv == OutputTypeOK /\ ThreadCount
ClosedInv == closing = "ended" => runningThreads = 0
IInv == TypeInv /\ ClosedInv /\ \A c \in HOutputs : CompInv(c)

(* What the steps of the proofs use about a component. *)
LEMMA CompFacts ==
  ASSUME IInv, NEW c \in HOutputs
  PROVE  /\ c \in Comp /\ NoBuf \notin Bufs /\ Bufs # {} /\ WorkBufSize \in Nat \ {0}
         /\ OutSize[c] \in Nat /\ OutputTypeOK /\ ThreadCount /\ CompInv(c)
BY HOutputAssumption, BaseAssumption DEF IInv, TypeInv, HOutputAssumption, BaseAssumption

---------------------------------------------------------------------------
(* Types *)

(* _hpatch_mt_base_init and houtput_mt_open establish the types. *)
LEMMA InitTypeInv == OutputInit => TypeInv
<1> SUFFICES ASSUME OutputInit PROVE TypeInv
  OBVIOUS
<1>1. PICK list \in freeLists : freeBufList = [c \in Comp |-> list]
  BY DEF OutputInit, BaseInit
<1>2. freeBufList \in [Comp -> Seq(Bufs)]
  BY <1>1, FreeListsAll
<1>3. liveThreads = Comp
  BY DEF OutputInit, BaseInit, liveThreads
<1>4. runningThreads \in Nat /\ ThreadCount
  BY <1>3, BaseAssumption, FS_CardinalityType
  DEF OutputInit, BaseInit, ThreadCount, BaseAssumption
<1>5. isOnFinish \in BOOLEAN /\ isOnError \in BOOLEAN /\ closing = "no"
  BY DEF OutputInit, BaseInit
<1>9. dataBufList \in [Comp -> Seq(Bufs)] /\ waiters \in [Comp -> SUBSET {Worker, Caller}]
  BY DEF OutputInit, BaseInit
<1>7. /\ baseOnError \in [Comp -> BOOLEAN] /\ pc \in [Comp -> OutputWorkerPC]
      /\ tErr \in [Comp -> BOOLEAN]
  BY DEF OutputInit, BaseInit, OutputWorkerPC
<1>8. bufData \in [Comp -> [Bufs -> Seq(Nat)]]
  BY DEF OutputInit, BaseInit
<1>6. /\ outBuf \in [HOutputs -> Bufs \union {NoBuf}] /\ outedPos \in [HOutputs -> Nat]
      /\ curWritePos \in [HOutputs -> Nat] /\ datas \in [HOutputs -> Seq(Bufs)]
      /\ file \in [HOutputs -> Seq(Nat)] /\ wpc \in [HOutputs -> OutputCallerPC]
      /\ wleft \in [HOutputs -> Nat] /\ wErr \in [HOutputs -> BOOLEAN]
      /\ isNeedFlush \in [HOutputs -> BOOLEAN]
  BY DEF OutputInit, HOutputInit, OutputCallerPC
<1> QED
  BY <1>2, <1>4, <1>5, <1>6, <1>7, <1>8, <1>9 DEF TypeInv, OutputTypeOK

(* The steps of the worker keep the types. *)
LEMMA WorkerTypeInv ==
  ASSUME IInv, NEW c \in HOutputs, OutputWorker(c)
  PROVE  TypeInv'
<1>0. /\ c \in Comp /\ OutputTypeOK /\ ThreadCount /\ CompInv(c)
  BY CompFacts
<1> USE DEF OutputTypeOK, OutputWorkerPC, houtputVars
<1>1. CASE OutputLoop(c)
  <2>1. OutputTypeOK'
    BY <1>0, <1>1 DEF OutputLoop, mtVars, listVars
  <2>2. ThreadCount'
    BY <1>0, <1>1 DEF OutputLoop, ThreadCount, liveThreads, mtVars
  <2> QED
    BY <2>1, <2>2 DEF TypeInv
<1>2. CASE OutputGetBufs(c) \/ OutputWakeBufs(c)
  <2>1. TakeAllData(c) /\ pc[c] # "done"
    BY <1>2 DEF OutputGetBufs, OutputWakeBufs
  <2>2. OutputTypeOK'
    BY <1>0, <2>1 DEF TakeAllData, mtVars
  <2>3. ThreadCount'
    BY <1>0, <2>1 DEF TakeAllData, ThreadCount, liveThreads, mtVars
  <2> QED
    BY <2>2, <2>3 DEF TypeInv
<1>3. CASE OutputWaitBufs(c)
  <2>1. OutputTypeOK'
    BY <1>0, <1>3 DEF OutputWaitBufs, WaitOn, mtVars
  <2>2. ThreadCount'
    BY <1>0, <1>3 DEF OutputWaitBufs, ThreadCount, liveThreads, mtVars
  <2> QED
    BY <2>1, <2>2 DEF TypeInv
<1>4. ASSUME NEW ok, OutputWriteAData(c, ok) PROVE TypeInv'
  <2>1. datas[c] # <<>> /\ pc[c] = "write"
    BY <1>0, <1>4 DEF OutputWriteAData, CompInv, Phases
  <2> DEFINE data == bufData[c][Head(datas[c])]
  <2>2. data \in Seq(Nat) /\ Len(data) \in Nat /\ file[c] \o data \in Seq(Nat)
    BY <1>0, <2>1
  <2>a. /\ curWritePos' = [curWritePos EXCEPT ![c] = @ + Len(data)]
        /\ file' = [file EXCEPT ![c] = IF ok THEN @ \o data ELSE @]
        /\ pc' = [pc EXCEPT ![c] = IF ok THEN "push" ELSE "setErr"]
        /\ UNCHANGED <<mtVars, listVars, wbuf, tErr, bufData,
                       outBuf, outedPos, datas, wpc, wleft, wErr, isNeedFlush>>
    BY <1>4 DEF OutputWriteAData
  <2> HIDE DEF data
  <2>b. curWritePos' \in [HOutputs -> Nat] /\ file' \in [HOutputs -> Seq(Nat)]
        /\ pc' \in [Comp -> OutputWorkerPC]
    BY <1>0, <2>a, <2>2
  <2>3. OutputTypeOK'
    BY <1>0, <2>a, <2>b DEF mtVars, listVars
  <2>4. ThreadCount'
    BY <1>0, <1>4 DEF OutputWriteAData, ThreadCount, liveThreads, mtVars
  <2> QED
    BY <2>3, <2>4 DEF TypeInv
<1>5. CASE OutputPushFree(c)
  <2>1. datas[c] # <<>> /\ pc[c] = "push"
    BY <1>0, <1>5 DEF OutputPushFree, CompInv, Phases
  <2>a. Head(datas[c]) \in Bufs /\ Tail(datas[c]) \in Seq(Bufs) /\ freeBufList[c] \in Seq(Bufs)
    BY <1>0, <2>1
  <2>2. pushABufAtHead(freeBufList[c], Head(datas[c])) \in Seq(Bufs)
    BY <2>a, PushAtHead
  <2>3. waiters' \in [Comp -> SUBSET {Worker, Caller}]
    BY <1>0, <1>5, SignalType DEF OutputPushFree
  <2>4. OutputTypeOK'
    BY <1>0, <1>5, <2>a, <2>2, <2>3 DEF OutputPushFree, mtVars
  <2>5. ThreadCount'
    BY <1>0, <1>5 DEF OutputPushFree, ThreadCount, liveThreads, mtVars
  <2> QED
    BY <2>4, <2>5 DEF TypeInv
<1>6. CASE OutputError(c)
  <2>1. OutputTypeOK'
    BY <1>0, <1>6, ZenonT(60) DEF OutputError, SetBaseOnError, SetMtOnError, setOnError, mtVars
  <2>2. ThreadCount'
    <3>1. liveThreads' = liveThreads /\ runningThreads' = runningThreads
      BY <1>0, <1>6 DEF OutputError, SetBaseOnError, SetMtOnError, liveThreads, mtVars
    <3> QED
      BY <1>0, <3>1 DEF ThreadCount
  <2> QED
    BY <2>1, <2>2 DEF TypeInv
<1>7. CASE OutputEnd(c)
  <2>1. ThreadCount' /\ runningThreads' \in Nat
    BY <1>0, <1>7, ThreadEndCounts DEF OutputEnd
  <2>2. OutputTypeOK'
    BY <1>0, <1>7, <2>1, SMTT(30) DEF OutputEnd, ThreadEnd, listVars
  <2> QED
    BY <2>1, <2>2 DEF TypeInv
<1> QED
  BY <1>1, <1>2, <1>3, <1>4, <1>5, <1>6, <1>7 DEF OutputWorker

(* The steps of the caller keep the types. *)
LEMMA CallerTypeInv ==
  ASSUME IInv, NEW c \in HOutputs,
         OutputCallerWrites(c) \/ WriteStep(c) \/ OutputCallerReturns(c)
  PROVE  TypeInv'
<1>0. /\ c \in Comp /\ OutputTypeOK /\ ThreadCount /\ CompInv(c)
      /\ NoBuf \notin Bufs /\ WorkBufSize \in Nat /\ MaxWrite \in Nat
  BY CompFacts, HOutputAssumption DEF HOutputAssumption
<1> USE DEF OutputTypeOK, OutputCallerPC
<1>1. ThreadCount'
  <2>1. UNCHANGED <<pc, runningThreads>>
    BY DEF OutputCallerWrites, OutputWrite, OutputCallerReturns, WriteStep, WriteLoop, WriteGetBuf,
       WriteWait, WriteWake, CallerTakesFree, WriteCopy, WritePush, baseVars, mtVars, workerVars
  <2> QED
    BY <1>0, <2>1, CallerKeepsThreads
<1>2. CASE OutputCallerWrites(c)
  <2>1. PICK n \in 1..MaxWrite, pos \in {outedPos[c], outedPos[c] + 1} : OutputWrite(c, pos, n)
    BY <1>2 DEF OutputCallerWrites
  <2>2. n \in Nat /\ outedPos[c] + n \in Nat
    BY <1>0
  <2>3. OutputTypeOK'
    BY <1>0, <2>1, <2>2 DEF OutputWrite, baseVars, mtVars, listVars, workerVars
  <2> QED
    BY <1>1, <2>3 DEF TypeInv
<1>3. CASE WriteLoop(c)
  BY <1>0, <1>1, <1>3 DEF TypeInv, WriteLoop, baseVars, mtVars, listVars, workerVars
<1>4. CASE WriteGetBuf(c) \/ WriteWake(c)
  <2>1. CallerTakesFree(c)
    BY <1>4 DEF WriteGetBuf, WriteWake
  <2>2. /\ restBufs(freeBufList[c]) \in Seq(Bufs)
        /\ firstBuf(freeBufList[c]) \in Bufs \union {NoBuf}
    BY <1>0, Pop
  <2>3. OutputTypeOK'
    BY <1>0, <2>1, <2>2, SMTT(30) DEF CallerTakesFree, mtVars, workerVars
  <2> QED
    BY <1>1, <2>3 DEF TypeInv
<1>5. CASE WriteWait(c)
  BY <1>0, <1>1, <1>5 DEF TypeInv, WriteWait, WaitOn, mtVars, workerVars
<1>6. CASE WriteCopy(c)
  <2> DEFINE b == outBuf[c]
             room == WorkBufSize - Len(bufData[c][b])
             n == IF room < wleft[c] THEN room ELSE wleft[c]
             new == bufData[c][b] \o Run(outedPos[c] - wleft[c], n)
  <2>1. /\ b \in Bufs /\ wleft[c] \in Nat /\ outedPos[c] - wleft[c] \in Nat /\ room \in Nat
    BY <1>0, <1>6, SMTT(30) DEF WriteCopy, CompInv, Phases, Filling, filled
  <2>2. n \in Nat /\ wleft[c] - n \in Nat
    BY <2>1
  <2>3. bufData' = [bufData EXCEPT ![c][b] = new] /\ wleft' = [wleft EXCEPT ![c] = @ - n]
        /\ \E p \in {"push", "loop"} : wpc' = [wpc EXCEPT ![c] = p]
        /\ UNCHANGED <<mtVars, listVars, workerVars,
                       outBuf, outedPos, curWritePos, datas, file, wErr, isNeedFlush>>
    BY <1>6 DEF WriteCopy
  <2>4. new \in Seq(Nat)
    <3>1. Run(outedPos[c] - wleft[c], n) \in Seq(Nat)
      BY <2>1, <2>2, RunType
    <3>2. bufData[c][b] \in Seq(Nat)
      BY <1>0, <2>1
    <3> QED
      BY <3>1, <3>2, ConcatProperties
  <2> HIDE DEF new, n, room
  <2>5. OutputTypeOK'
    BY <1>0, <2>1, <2>2, <2>3, <2>4 DEF mtVars, listVars, workerVars
  <2> QED
    BY <1>1, <2>5 DEF TypeInv
<1>7. CASE WritePush(c)
  <2>1. pushABufAtEnd(dataBufList[c], outBuf[c]) \in Seq(Bufs)
    BY <1>0, <1>7, PushAtEnd DEF WritePush, CompInv, Phases
  <2>2. waiters' \in [Comp -> SUBSET {Worker, Caller}]
    BY <1>0, <1>7, SignalType DEF WritePush
  <2>3. OutputTypeOK'
    BY <1>0, <1>7, <2>1, <2>2 DEF WritePush, mtVars, workerVars
  <2> QED
    BY <1>1, <2>3 DEF TypeInv
<1>8. CASE OutputCallerReturns(c)
  BY <1>0, <1>1, <1>8
  DEF TypeInv, OutputCallerReturns, WriteReturned, baseVars, mtVars, listVars, workerVars
<1> QED
  BY <1>2, <1>3, <1>4, <1>5, <1>6, <1>7, <1>8 DEF WriteStep

(* Every step keeps the types. *)
LEMMA NextTypeInv == IInv /\ [OutputNext]_outputVars => TypeInv'
<1> SUFFICES ASSUME IInv, [OutputNext]_outputVars PROVE TypeInv'
  OBVIOUS
<1>0. OutputTypeOK /\ ThreadCount
  BY DEF IInv, TypeInv
<1>1. CASE OutputClose \/ OutputClosed \/ OutputOtherError
  <2>1. OutputTypeOK'
    BY <1>0, <1>1 DEF OutputTypeOK, OutputClose, OutputClosed, OutputOtherError, WaitAllThreadEnd,
       AllThreadsEnded, setOnError, setOnFinish, listVars, workerVars, houtputVars
  <2>2. ThreadCount'
    BY <1>0, <1>1, CallerKeepsThreads
    DEF OutputClose, OutputClosed, OutputOtherError, WaitAllThreadEnd, AllThreadsEnded, workerVars
  <2> QED
    BY <2>1, <2>2 DEF TypeInv
<1>2. CASE OutputSpurious \/ UNCHANGED outputVars
  <2>1. OutputTypeOK'
    BY <1>0, <1>2, ZenonT(60) DEF OutputTypeOK, OutputSpurious, SpuriousWake, outputVars, baseVars, mtVars,
       listVars, workerVars, houtputVars
  <2>2. ThreadCount'
    BY <1>0, <1>2, CallerKeepsThreads
    DEF OutputSpurious, SpuriousWake, outputVars, baseVars, mtVars, workerVars
  <2> QED
    BY <2>1, <2>2 DEF TypeInv
<1> QED
  BY <1>1, <1>2, WorkerTypeInv, CallerTypeInv DEF OutputNext, OutputCallerNext, OutputDone

---------------------------------------------------------------------------
(* Frames *)

(* A step that at most wakes sleepers of component d leaves it as it was. *)
LEMMA SameComp ==
  ASSUME NEW d \in HOutputs, CompInv(d), waiters[d] \subseteq {Worker, Caller},
         freeBufList'[d] = freeBufList[d], dataBufList'[d] = dataBufList[d],
         baseOnError'[d] = baseOnError[d], waiters'[d] \subseteq waiters[d],
         pc'[d] = pc[d], tErr'[d] = tErr[d], bufData'[d] = bufData[d],
         outBuf'[d] = outBuf[d], outedPos'[d] = outedPos[d], curWritePos'[d] = curWritePos[d],
         datas'[d] = datas[d], file'[d] = file[d], wpc'[d] = wpc[d], wleft'[d] = wleft[d]
  PROVE  CompInv(d)'
<1>1. Phases(d)' /\ Sleep(d)'
  BY DEF CompInv, Phases, Sleep
<1>2. OutputBufOwnership(d)'
  BY DEF CompInv, OutputBufOwnership
<1>3. Filling(d)'
  BY DEF CompInv, Filling, filled, copied
<1>4. /\ copied(d)' = copied(d) /\ filled(d)' = filled(d) /\ failed(d)' = failed(d)
      /\ pending(d)' = pending(d) /\ accepted'[d] = accepted[d]
  BY DEF copied, filled, failed, pending, accepted
<1>5. Flow(d)'
  BY <1>4 DEF CompInv, Flow
<1> QED
  BY <1>1, <1>2, <1>3, <1>5 DEF CompInv

(* The tail of the worker's list holds nothing that the list does not.     *)
LEMMA PendingInDatas ==
  ASSUME IInv, NEW c \in HOutputs
  PROVE  /\ pending(c) \in Seq(Bufs)
         /\ \A b : InList(b, pending(c)) => InList(b, datas[c])
<1>1. datas[c] \in Seq(Bufs) /\ (pc[c] = "push" => datas[c] # <<>>)
  BY CompFacts DEF OutputTypeOK, CompInv, Phases
<1>2. CASE pc[c] = "push"
  <2>1. pending(c) = restBufs(datas[c]) /\ datas[c] # <<>>
    BY <1>1, <1>2 DEF pending, restBufs
  <2> QED
    BY <1>1, <2>1, Pop
<1>3. CASE pc[c] # "push"
  BY <1>1, <1>3 DEF pending
<1> QED
  BY <1>2, <1>3

(* A step that touches neither the file nor the bytes on their way keeps   *)
(* the flow, if the caller's account of what it has copied still agrees.   *)
LEMMA FlowKept ==
  ASSUME IInv, NEW c \in HOutputs,
         file'[c] = file[c], curWritePos'[c] = curWritePos[c], dataBufList'[c] = dataBufList[c],
         \A b : InList(b, datas[c]) \/ InList(b, dataBufList[c]) => bufData'[c][b] = bufData[c][b],
         ~failed(c)' => ~failed(c) /\ pending(c)' = pending(c),
         accepted'[c] \in Nat, accepted[c] <= accepted'[c],
         wpc'[c] # "fail" => wpc[c] # "fail" /\ copied(c)' - filled(c)' = copied(c) - filled(c)
  PROVE  Flow(c)'
<1>1. /\ Flow(c) /\ dataBufList[c] \in Seq(Bufs) /\ accepted[c] \in Nat
      /\ pending(c) \in Seq(Bufs) /\ \A b : InList(b, pending(c)) => InList(b, datas[c])
  BY CompFacts, PendingInDatas DEF OutputTypeOK, CompInv, accepted
<1>2. file'[c] = Run(0, Len(file'[c]))
  BY <1>1 DEF Flow
<1>3. ASSUME ~failed(c)'
      PROVE  /\ curWritePos'[c] = Len(file'[c])
             /\ \E m, e \in Nat :
                  /\ Chain(bufData'[c], pending(c)', Len(file'[c]), m)
                  /\ Chain(bufData'[c], dataBufList'[c], m, e)
                  /\ e <= accepted'[c]
                  /\ wpc'[c] # "fail" => e = copied(c)' - filled(c)'
  <2>1. ~failed(c) /\ pending(c)' = pending(c)
    BY <1>3
  <2>2. PICK m \in Nat, e \in Nat :
          /\ Chain(bufData[c], pending(c), Len(file[c]), m)
          /\ Chain(bufData[c], dataBufList[c], m, e)
          /\ e <= accepted[c]
          /\ wpc[c] # "fail" => e = copied(c) - filled(c)
    BY <1>1, <2>1 DEF Flow
  <2>3. Chain(bufData'[c], pending(c), Len(file[c]), m)
    BY <1>1, <2>2, ChainFrame
  <2>4. Chain(bufData'[c], dataBufList[c], m, e)
    BY <1>1, <2>2, ChainFrame
  <2>5. e <= accepted'[c] /\ (wpc'[c] # "fail" => e = copied(c)' - filled(c)')
    BY <1>1, <2>2
  <2>6. curWritePos'[c] = Len(file'[c])
    BY <1>1, <2>1 DEF Flow
  <2> QED
    BY <2>1, <2>3, <2>4, <2>5, <2>6
<1> QED
  BY <1>2, <1>3 DEF Flow

---------------------------------------------------------------------------
(* The worker's side *)

(* The worker's program counter moves, and with it at most the error       *)
(* flags: nothing that the ownership or the caller looks at.               *)
LEMMA WorkerMoves ==
  ASSUME IInv, NEW c \in HOutputs,
         freeBufList'[c] = freeBufList[c], dataBufList'[c] = dataBufList[c],
         waiters'[c] \subseteq waiters[c], bufData'[c] = bufData[c],
         outBuf'[c] = outBuf[c], outedPos'[c] = outedPos[c], curWritePos'[c] = curWritePos[c],
         datas'[c] = datas[c], file'[c] = file[c], wpc'[c] = wpc[c], wleft'[c] = wleft[c],
         pc[c] \notin {"waitBuf", "push"}, pc'[c] \notin {"waitBuf", "push"},
         Phases(c)', ~failed(c)' => ~failed(c)
  PROVE  CompInv(c)'
<1>1. CompInv(c) /\ waiters[c] \subseteq {Worker, Caller} /\ accepted[c] \in Nat
  BY CompFacts DEF OutputTypeOK, accepted
<1>2. OutputBufOwnership(c)' /\ Sleep(c)'
  BY <1>1 DEF CompInv, OutputBufOwnership, Sleep
<1>3. Filling(c)'
  BY <1>1 DEF CompInv, Filling, filled, copied
<1>4. /\ copied(c)' = copied(c) /\ filled(c)' = filled(c)
      /\ pending(c)' = pending(c) /\ accepted'[c] = accepted[c]
  BY DEF copied, filled, pending, accepted
<1>5. Flow(c)'
  BY <1>1, <1>4, FlowKept
<1> QED
  BY <1>2, <1>3, <1>5 DEF CompInv

(* hpatch_mt_base_onceWaitAllBufs_: the data list becomes the worker's. *)
LEMMA TakeAllComp ==
  ASSUME IInv, NEW c \in HOutputs, pc[c] \in {"getBuf", "waitBuf"}, Worker \notin waiters[c],
         TakeAllData(c)
  PROVE  CompInv(c)'
<1>1. /\ c \in Comp /\ OutputTypeOK /\ CompInv(c) /\ dataBufList[c] \in Seq(Bufs)
      /\ waiters[c] \subseteq {Worker, Caller} /\ accepted[c] \in Nat /\ Len(file[c]) \in Nat
  BY CompFacts, SMTT(30) DEF OutputTypeOK, accepted
<1>2. datas[c] = <<>> /\ ~baseOnError[c] /\ ~failed(c) /\ pending(c) = <<>>
  BY <1>1 DEF CompInv, Phases, failed, pending
<1>3. /\ datas'[c] = dataBufList[c] /\ dataBufList'[c] = <<>> /\ tErr'[c] = FALSE
      /\ pc'[c] = IF dataBufList[c] # <<>> THEN "write" ELSE "loop"
      /\ freeBufList'[c] = freeBufList[c] /\ baseOnError'[c] = baseOnError[c]
      /\ waiters'[c] = waiters[c] /\ bufData'[c] = bufData[c] /\ outBuf'[c] = outBuf[c]
      /\ outedPos'[c] = outedPos[c] /\ curWritePos'[c] = curWritePos[c] /\ file'[c] = file[c]
      /\ wpc'[c] = wpc[c] /\ wleft'[c] = wleft[c]
  BY <1>1, <1>2 DEF TakeAllData, OutputTypeOK
<1>4. Phases(c)' /\ Sleep(c)'
  BY <1>1, <1>2, <1>3 DEF CompInv, Phases, Sleep
<1>5. OutputBufOwnership(c)'
  BY <1>1, <1>2, <1>3, EmptyList DEF CompInv, OutputBufOwnership
<1>6. Filling(c)'
  BY <1>1, <1>3 DEF CompInv, Filling, filled, copied
<1>7. Flow(c)'
  <2>1. /\ copied(c)' = copied(c) /\ filled(c)' = filled(c) /\ accepted'[c] = accepted[c]
        /\ pending(c)' = dataBufList[c]
    BY <1>3 DEF copied, filled, accepted, pending
  <2>2. PICK m \in Nat, e \in Nat :
          /\ Chain(bufData[c], pending(c), Len(file[c]), m)
          /\ Chain(bufData[c], dataBufList[c], m, e)
          /\ e <= accepted[c]
          /\ wpc[c] # "fail" => e = copied(c) - filled(c)
    BY <1>1, <1>2 DEF CompInv, Flow
  <2>3. m = Len(file[c])
    BY <1>2, <2>2, ChainStill
  <2>4. Chain(bufData[c], <<>>, e, e)
    BY <2>2, ChainEmpty
  <2>5. /\ Chain(bufData'[c], pending(c)', Len(file'[c]), e)
        /\ Chain(bufData'[c], dataBufList'[c], e, e)
        /\ e <= accepted'[c]
        /\ wpc'[c] # "fail" => e = copied(c)' - filled(c)'
    BY <1>3, <2>1, <2>2, <2>3, <2>4
  <2> QED
    BY <1>1, <1>2, <1>3, <2>5 DEF CompInv, Flow
<1> QED
  BY <1>4, <1>5, <1>6, <1>7 DEF CompInv

(* The worker goes to sleep: the caller is not asleep, for with both lists *)
(* and the worker's own list empty the caller holds every buffer, and a    *)
(* sleeping caller holds none.                                             *)
LEMMA WaitBufsComp ==
  ASSUME IInv, NEW c \in HOutputs, OutputWaitBufs(c)
  PROVE  CompInv(c)'
<1>1. /\ c \in Comp /\ NoBuf \notin Bufs /\ Bufs # {} /\ OutputTypeOK /\ CompInv(c)
      /\ waiters[c] \subseteq {Worker, Caller} /\ accepted[c] \in Nat
  BY CompFacts DEF OutputTypeOK, accepted
<1>2. pc[c] = "getBuf" /\ dataBufList[c] = <<>> /\ datas[c] = <<>> /\ ~baseOnError[c]
  BY <1>1 DEF OutputWaitBufs, mustWait, CompInv, Phases
<1>3. /\ waiters'[c] = waiters[c] \union {Worker} /\ pc'[c] = "waitBuf"
      /\ freeBufList'[c] = freeBufList[c] /\ dataBufList'[c] = dataBufList[c]
      /\ baseOnError'[c] = baseOnError[c] /\ tErr'[c] = tErr[c] /\ bufData'[c] = bufData[c]
      /\ outBuf'[c] = outBuf[c] /\ outedPos'[c] = outedPos[c]
      /\ curWritePos'[c] = curWritePos[c] /\ datas'[c] = datas[c] /\ file'[c] = file[c]
      /\ wpc'[c] = wpc[c] /\ wleft'[c] = wleft[c]
  BY <1>1 DEF OutputWaitBufs, WaitOn, OutputTypeOK, houtputVars
<1>4. Caller \notin waiters[c]
  BY <1>1, <1>2, EmptyList DEF CompInv, Phases, Sleep, OutputBufOwnership
<1>5. Phases(c)' /\ Sleep(c)'
  BY <1>1, <1>2, <1>3, <1>4 DEF CompInv, Phases, Sleep, Worker, Caller
<1>6. OutputBufOwnership(c)' /\ Filling(c)'
  BY <1>1, <1>3 DEF CompInv, OutputBufOwnership, Filling, filled, copied
<1>7. /\ copied(c)' = copied(c) /\ filled(c)' = filled(c) /\ accepted'[c] = accepted[c]
      /\ pending(c)' = pending(c) /\ failed(c)' = failed(c)
  BY <1>2, <1>3 DEF copied, filled, accepted, pending, failed
<1>8. Flow(c)'
  BY <1>1, <1>3, <1>7, FlowKept
<1> QED
  BY <1>5, <1>6, <1>8 DEF CompInv

(* _houtput_mt_writeAData: the buffer at the head of the worker's list     *)
(* holds exactly the bytes that the file lacks next.                       *)
LEMMA WriteNext ==
  ASSUME IInv, NEW c \in HOutputs, pc[c] = "write"
  PROVE  /\ ~failed(c) /\ datas[c] # <<>> /\ curWritePos[c] = Len(file[c])
         /\ \E n \in Nat \ {0}, m, e \in Nat :
              /\ bufData[c][Head(datas[c])] = Run(Len(file[c]), n)
              /\ Len(file[c]) + n <= accepted[c]
              /\ Chain(bufData[c], Tail(datas[c]), Len(file[c]) + n, m)
              /\ Chain(bufData[c], dataBufList[c], m, e)
              /\ e <= accepted[c]
              /\ wpc[c] # "fail" => e = copied(c) - filled(c)
<1>1. /\ c \in Comp /\ OutputTypeOK /\ CompInv(c) /\ dataBufList[c] \in Seq(Bufs)
      /\ datas[c] \in Seq(Bufs) /\ accepted[c] \in Nat /\ Len(file[c]) \in Nat
  BY CompFacts, SMTT(30) DEF OutputTypeOK, accepted
<1>2. ~failed(c) /\ pending(c) = datas[c] /\ datas[c] # <<>>
  BY <1>1 DEF CompInv, Phases, failed, pending
<1>3. PICK m \in Nat, e \in Nat :
        /\ Chain(bufData[c], datas[c], Len(file[c]), m)
        /\ Chain(bufData[c], dataBufList[c], m, e)
        /\ e <= accepted[c]
        /\ wpc[c] # "fail" => e = copied(c) - filled(c)
  BY <1>1, <1>2 DEF CompInv, Flow
<1>4. PICK n \in Nat \ {0} : /\ bufData[c][Head(datas[c])] = Run(Len(file[c]), n)
                            /\ Len(file[c]) + n <= m
                            /\ Chain(bufData[c], Tail(datas[c]), Len(file[c]) + n, m)
  BY <1>1, <1>2, <1>3, ChainPop
<1>5. m <= e
  BY <1>1, <1>3, ChainEnds
<1>6. Len(file[c]) + n <= accepted[c]
  BY <1>1, <1>3, <1>4, <1>5
<1>7. curWritePos[c] = Len(file[c])
  BY <1>1, <1>2 DEF CompInv, Flow
<1> QED
  BY <1>2, <1>3, <1>4, <1>6, <1>7

(* A write moves those bytes to the file, or fails for good. *)
LEMMA WriteADataComp ==
  ASSUME IInv, NEW c \in HOutputs, NEW ok \in BOOLEAN, OutputWriteAData(c, ok)
  PROVE  CompInv(c)'
<1>1. /\ c \in Comp /\ OutputTypeOK /\ CompInv(c) /\ pc[c] = "write"
      /\ waiters[c] \subseteq {Worker, Caller} /\ accepted[c] \in Nat /\ Len(file[c]) \in Nat
  <2>1. pc[c] = "write"
    BY DEF OutputWriteAData
  <2> QED
    BY <2>1, CompFacts, SMTT(30) DEF OutputTypeOK, accepted
<1> DEFINE data == bufData[c][Head(datas[c])]
<1>2. /\ curWritePos'[c] = curWritePos[c] + Len(data)
      /\ file'[c] = IF ok THEN file[c] \o data ELSE file[c]
      /\ pc'[c] = IF ok THEN "push" ELSE "setErr"
      /\ freeBufList'[c] = freeBufList[c] /\ dataBufList'[c] = dataBufList[c]
      /\ baseOnError'[c] = baseOnError[c] /\ tErr'[c] = tErr[c] /\ bufData'[c] = bufData[c]
      /\ waiters'[c] = waiters[c] /\ outBuf'[c] = outBuf[c] /\ outedPos'[c] = outedPos[c]
      /\ datas'[c] = datas[c] /\ wpc'[c] = wpc[c] /\ wleft'[c] = wleft[c]
  BY <1>1 DEF OutputWriteAData, OutputTypeOK, listVars
<1>3. Phases(c)' /\ Sleep(c)'
  BY <1>1, <1>2 DEF CompInv, Phases, Sleep
<1>4. OutputBufOwnership(c)' /\ Filling(c)'
  BY <1>1, <1>2 DEF CompInv, OutputBufOwnership, Filling, filled, copied
<1>5. PICK n \in Nat \ {0}, m \in Nat, e \in Nat :
        /\ ~failed(c) /\ datas[c] # <<>> /\ curWritePos[c] = Len(file[c])
        /\ data = Run(Len(file[c]), n)
        /\ Chain(bufData[c], Tail(datas[c]), Len(file[c]) + n, m)
        /\ Chain(bufData[c], dataBufList[c], m, e)
        /\ e <= accepted[c]
        /\ wpc[c] # "fail" => e = copied(c) - filled(c)
  BY <1>1, WriteNext
<1> HIDE DEF data
<1>6. Flow(c)'
  <2>1. CASE ok
    <3>1. file[c] = Run(0, Len(file[c]))
      BY <1>1 DEF CompInv, Flow
    <3>a. ASSUME NEW k \in Nat PROVE Run(0, k) \o Run(k, n) = Run(0, k + n)
      <4>1. Run(0, k) \o Run(0 + k, n) = Run(0, k + n)
        BY RunCat
      <4> QED
        BY <4>1
    <3>b. Len(data) = n
      BY <1>1, <1>5, RunBytes
    <3>2. file'[c] = Run(0, Len(file[c]) + n) /\ Len(data) = n
      BY <1>1, <1>2, <1>5, <2>1, <3>1, <3>a, <3>b
    <3>3. Len(file'[c]) = Len(file[c]) + n
      <4>1. Len(file[c]) + n \in Nat
        BY <1>1
      <4> QED
        BY <3>2, <4>1, RunBytes
    <3>4. /\ copied(c)' = copied(c) /\ filled(c)' = filled(c) /\ accepted'[c] = accepted[c]
          /\ pending(c)' = Tail(datas[c])
      BY <1>2, <2>1 DEF copied, filled, accepted, pending
    <3>5. /\ Chain(bufData'[c], pending(c)', Len(file'[c]), m)
          /\ Chain(bufData'[c], dataBufList'[c], m, e)
          /\ e <= accepted'[c]
          /\ wpc'[c] # "fail" => e = copied(c)' - filled(c)'
      BY <1>2, <1>5, <3>3, <3>4
    <3>6. file'[c] = Run(0, Len(file'[c])) /\ curWritePos'[c] = Len(file'[c])
      BY <1>2, <1>5, <3>2, <3>3
    <3> QED
      BY <3>5, <3>6 DEF Flow
  <2>2. CASE ~ok
    BY <1>1, <1>2, <2>2 DEF CompInv, Flow, failed
  <2> QED
    BY <2>1, <2>2
<1> QED
  BY <1>3, <1>4, <1>6 DEF CompInv

(* hpatch_mt_base_pushABufAtHead_ of the written buffer to the free list. *)
LEMMA PushFreeComp ==
  ASSUME IInv, NEW c \in HOutputs, OutputPushFree(c)
  PROVE  CompInv(c)'
<1> DEFINE l == freeBufList[c]
           b == Head(datas[c])
           t == Tail(datas[c])
           r == pushABufAtHead(l, b)
<1>1. /\ c \in Comp /\ NoBuf \notin Bufs /\ OutputTypeOK /\ CompInv(c) /\ pc[c] = "push"
      /\ l \in Seq(Bufs) /\ datas[c] \in Seq(Bufs)
      /\ waiters \in [Comp -> SUBSET {Worker, Caller}] /\ accepted[c] \in Nat
  BY CompFacts DEF OutputTypeOK, accepted, OutputPushFree
<1>2. datas[c] # <<>> /\ ~baseOnError[c]
  BY <1>1 DEF CompInv, Phases
<1>3. b \in Bufs /\ t \in Seq(Bufs) /\ (Len(datas[c]) > 1 <=> t # <<>>)
  BY <1>1, <1>2, HeadTailProperties, TailEmpty, Zenon
<1>4. /\ freeBufList'[c] = r /\ Signal(c) /\ tErr'[c] = FALSE /\ datas'[c] = t
      /\ pc'[c] = IF Len(datas[c]) > 1 THEN "write" ELSE "loop"
      /\ dataBufList'[c] = dataBufList[c] /\ baseOnError'[c] = baseOnError[c]
      /\ bufData'[c] = bufData[c] /\ outBuf'[c] = outBuf[c] /\ outedPos'[c] = outedPos[c]
      /\ curWritePos'[c] = curWritePos[c] /\ file'[c] = file[c] /\ wpc'[c] = wpc[c]
      /\ wleft'[c] = wleft[c]
  BY <1>1, <1>2 DEF OutputPushFree, OutputTypeOK
<1>5. waiters[c] \subseteq {Caller}
  BY <1>1 DEF CompInv, Phases
<1>6. waiters'[c] = {}
  BY <1>1, <1>4, <1>5, SignalWakes
<1>7. Phases(c)' /\ Sleep(c)'
  BY <1>1, <1>2, <1>3, <1>4, <1>6 DEF CompInv, Phases, Sleep
<1>8. OutputBufOwnership(c)'
  <2> HIDE DEF r
  <2>1. b = firstBuf(datas[c]) /\ t = restBufs(datas[c])
    BY <1>2 DEF firstBuf, restBufs
  <2>2. /\ \A x : InList(x, r) <=> InList(x, l) \/ x = b
        /\ NoRepeat(l) /\ ~InList(b, l) => NoRepeat(r)
    BY <1>1, <1>3, PushAtHead, ZenonT(60) DEF r
  <2>3. /\ \A x : InList(x, datas[c]) <=> x = b \/ InList(x, t)
        /\ NoRepeat(datas[c]) => NoRepeat(t) /\ ~InList(b, t)
    BY <1>1, <1>2, <2>1, Pop
  <2> HIDE DEF b, t, l
  <2> QED
    BY <1>1, <1>3, <1>4, <2>2, <2>3 DEF CompInv, OutputBufOwnership, l
<1>9. Filling(c)'
  BY <1>1, <1>4 DEF CompInv, Filling, filled, copied
<1>10. /\ copied(c)' = copied(c) /\ filled(c)' = filled(c) /\ accepted'[c] = accepted[c]
       /\ pending(c)' = pending(c) /\ failed(c)' = failed(c)
  BY <1>1, <1>4 DEF copied, filled, accepted, pending, failed
<1>11. Flow(c)'
  BY <1>1, <1>4, <1>10, FlowKept
<1> QED
  BY <1>7, <1>8, <1>9, <1>11 DEF CompInv

(* Each step of the worker keeps every CompInv. *)
LEMMA WorkerComp ==
  ASSUME IInv, NEW c \in HOutputs, OutputWorker(c), NEW d \in HOutputs
  PROVE  CompInv(d)'
<1>0. /\ c \in Comp /\ d \in Comp /\ OutputTypeOK /\ CompInv(c) /\ CompInv(d)
      /\ waiters[c] \subseteq {Worker, Caller} /\ waiters[d] \subseteq {Worker, Caller}
  BY CompFacts DEF OutputTypeOK
<1>1. CASE d # c
  <2>1. waiters'[d] \subseteq waiters[d]
    BY <1>0, <1>1 DEF OutputWorker, OutputLoop, OutputGetBufs, OutputWaitBufs, OutputWakeBufs,
       TakeAllData, OutputWriteAData, OutputPushFree, OutputError, OutputEnd, SetBaseOnError,
       SetMtOnError, setOnError, ThreadEnd, WaitOn, Signal, OutputTypeOK, listVars
  <2>2. /\ freeBufList'[d] = freeBufList[d] /\ dataBufList'[d] = dataBufList[d]
        /\ baseOnError'[d] = baseOnError[d] /\ pc'[d] = pc[d] /\ tErr'[d] = tErr[d]
        /\ bufData'[d] = bufData[d]
    BY <1>0, <1>1 DEF OutputWorker, OutputLoop, OutputGetBufs, OutputWaitBufs, OutputWakeBufs,
       TakeAllData, OutputWriteAData, OutputPushFree, OutputError, OutputEnd, SetBaseOnError,
       SetMtOnError, ThreadEnd, OutputTypeOK, listVars
  <2>3. /\ outBuf'[d] = outBuf[d] /\ outedPos'[d] = outedPos[d]
        /\ curWritePos'[d] = curWritePos[d] /\ datas'[d] = datas[d] /\ file'[d] = file[d]
        /\ wpc'[d] = wpc[d] /\ wleft'[d] = wleft[d]
    BY <1>0, <1>1, SMTT(90) DEF OutputWorker, OutputLoop, OutputGetBufs, OutputWaitBufs, OutputWakeBufs,
       TakeAllData, OutputWriteAData, OutputPushFree, OutputError, OutputEnd, OutputTypeOK,
       houtputVars
  <2> QED
    BY <1>0, <2>1, <2>2, <2>3, SameComp
<1>2. CASE d = c /\ OutputLoop(c)
  <2>1. /\ pc[c] = "loop" /\ pc'[c] = IF ~isOnError /\ ~tErr[c] /\ curWritePos[c] < OutSize[c]
                                    THEN "getBuf" ELSE "end"
        /\ freeBufList'[c] = freeBufList[c] /\ dataBufList'[c] = dataBufList[c]
        /\ baseOnError'[c] = baseOnError[c] /\ waiters'[c] = waiters[c] /\ tErr'[c] = tErr[c]
        /\ bufData'[c] = bufData[c] /\ outBuf'[c] = outBuf[c] /\ outedPos'[c] = outedPos[c]
        /\ curWritePos'[c] = curWritePos[c] /\ datas'[c] = datas[c] /\ file'[c] = file[c]
        /\ wpc'[c] = wpc[c] /\ wleft'[c] = wleft[c]
    BY <1>0, <1>2 DEF OutputLoop, OutputTypeOK, listVars, houtputVars
  <2>2. Phases(c)' /\ failed(c)' = failed(c)
    BY <1>0, <2>1 DEF CompInv, Phases, failed
  <2> QED
    BY <1>2, <2>1, <2>2, WorkerMoves
<1>3. CASE d = c /\ (OutputGetBufs(c) \/ OutputWakeBufs(c))
  <2>1. TakeAllData(c) /\ pc[c] \in {"getBuf", "waitBuf"} /\ Worker \notin waiters[c]
    BY <1>0, <1>3 DEF OutputGetBufs, OutputWakeBufs, CompInv, Phases
  <2> QED
    BY <1>3, <2>1, TakeAllComp
<1>4. CASE d = c /\ OutputWaitBufs(c)
  BY <1>4, WaitBufsComp
<1>5. CASE d = c /\ \E ok \in {TRUE, ~Fails} : OutputWriteAData(c, ok)
  BY <1>5, WriteADataComp
<1>6. CASE d = c /\ OutputPushFree(c)
  BY <1>6, PushFreeComp
<1>7. CASE d = c /\ OutputError(c)
  <2>1. /\ freeBufList'[c] = freeBufList[c] /\ dataBufList'[c] = dataBufList[c]
        /\ waiters'[c] \subseteq waiters[c]
        /\ bufData'[c] = bufData[c] /\ outBuf'[c] = outBuf[c] /\ outedPos'[c] = outedPos[c]
        /\ curWritePos'[c] = curWritePos[c] /\ datas'[c] = datas[c] /\ file'[c] = file[c]
        /\ wpc'[c] = wpc[c] /\ wleft'[c] = wleft[c]
    BY <1>0, <1>7
    DEF OutputError, SetBaseOnError, SetMtOnError, setOnError, OutputTypeOK, houtputVars
  <2>2. CASE SetBaseOnError(c)
    <3>1. pc[c] = "setErr" /\ pc'[c] = "setMtErr" /\ tErr'[c] = TRUE /\ baseOnError'[c] = TRUE
      BY <1>0, <2>2 DEF SetBaseOnError, OutputTypeOK
    <3>2. Phases(c)' /\ failed(c)'
      BY <1>0, <2>1, <3>1 DEF CompInv, Phases, failed
    <3> QED
      BY <1>7, <2>1, <3>1, <3>2, WorkerMoves
  <2>3. CASE SetMtOnError(c, "loop")
    <3>1. /\ pc[c] = "setMtErr" /\ pc'[c] = "loop" /\ tErr'[c] = tErr[c]
          /\ baseOnError'[c] = baseOnError[c]
      BY <1>0, <2>3 DEF SetMtOnError, OutputTypeOK
    <3>2. Phases(c)' /\ failed(c)' = failed(c)
      BY <1>0, <2>1, <3>1 DEF CompInv, Phases, failed
    <3> QED
      BY <1>7, <2>1, <3>1, <3>2, WorkerMoves
  <2> QED
    BY <1>7, <2>2, <2>3 DEF OutputError
<1>8. CASE d = c /\ OutputEnd(c)
  <2>1. /\ pc[c] = "end" /\ pc'[c] = "done"
        /\ freeBufList'[c] = freeBufList[c] /\ dataBufList'[c] = dataBufList[c]
        /\ baseOnError'[c] = baseOnError[c] /\ waiters'[c] = waiters[c] /\ tErr'[c] = tErr[c]
        /\ bufData'[c] = bufData[c] /\ outBuf'[c] = outBuf[c] /\ outedPos'[c] = outedPos[c]
        /\ curWritePos'[c] = curWritePos[c] /\ datas'[c] = datas[c] /\ file'[c] = file[c]
        /\ wpc'[c] = wpc[c] /\ wleft'[c] = wleft[c]
    BY <1>0, <1>8 DEF OutputEnd, ThreadEnd, OutputTypeOK, listVars, houtputVars
  <2>2. Phases(c)' /\ failed(c)' = failed(c)
    BY <1>0, <2>1 DEF CompInv, Phases, failed
  <2> QED
    BY <1>8, <2>1, <2>2, WorkerMoves
<1> QED
  BY <1>1, <1>2, <1>3, <1>4, <1>5, <1>6, <1>7, <1>8 DEF OutputWorker

---------------------------------------------------------------------------
(* The caller's side *)

(* The caller's program counter and positions move, and no buffer does. *)
LEMMA CallerMoves ==
  ASSUME IInv, NEW c \in HOutputs,
         UNCHANGED <<freeBufList, dataBufList, baseOnError, waiters, pc, tErr, bufData,
                     outBuf, curWritePos, datas, file>>,
         Phases(c)', Filling(c)', accepted'[c] \in Nat, accepted[c] <= accepted'[c],
         wpc'[c] # "fail" => wpc[c] # "fail" /\ copied(c)' = copied(c)
  PROVE  CompInv(c)'
<1>1. CompInv(c)
  BY CompFacts
<1>2. OutputBufOwnership(c)' /\ Sleep(c)'
  BY <1>1 DEF CompInv, OutputBufOwnership, Sleep
<1>3. filled(c)' = filled(c) /\ failed(c)' = failed(c) /\ pending(c)' = pending(c)
  BY DEF filled, failed, pending
<1>4. Flow(c)'
  BY <1>3, FlowKept
<1> QED
  BY <1>2, <1>4 DEF CompInv

(* houtput_mt_write_ up to its loop: the bytes of a call that is not       *)
(* refused follow what has been copied.                                    *)
LEMMA WriteComp ==
  ASSUME IInv, NEW c \in HOutputs, OutputCallerWrites(c)
  PROVE  CompInv(c)'
<1>1. /\ c \in Comp /\ OutputTypeOK /\ CompInv(c) /\ OutSize[c] \in Nat /\ outedPos[c] \in Nat
      /\ wleft[c] \in Nat
  BY CompFacts DEF OutputTypeOK
<1>2. PICK n \in 1..MaxWrite, pos \in {outedPos[c], outedPos[c] + 1} : OutputWrite(c, pos, n)
  BY DEF OutputCallerWrites
<1>3. n \in Nat /\ pos \in Nat
  BY <1>1, HOutputAssumption DEF HOutputAssumption
<1>4. /\ outedPos'[c] = IF outedPos[c] = pos THEN outedPos[c] + n ELSE outedPos[c]
      /\ wleft'[c] = n /\ wpc[c] = "idle"
      /\ wpc'[c] = IF outedPos[c] # pos \/ pos + n > OutSize[c] THEN "fail" ELSE "loop"
      /\ UNCHANGED <<freeBufList, dataBufList, baseOnError, waiters, pc, tErr, bufData,
                     outBuf, curWritePos, datas, file>>
  BY <1>1, <1>2 DEF OutputWrite, OutputTypeOK, baseVars, listVars, workerVars
<1>5. Phases(c)'
  BY <1>1, <1>4 DEF CompInv, Phases
<1>6. wleft[c] = 0 /\ outedPos[c] <= OutSize[c]
  BY <1>1, <1>4 DEF CompInv, Filling
<1>7. wpc'[c] # "fail" => copied(c)' = copied(c) /\ outedPos'[c] <= OutSize[c]
                          /\ wleft'[c] <= outedPos'[c]
  BY <1>1, <1>3, <1>4, <1>6 DEF copied
<1>8. filled(c)' = filled(c)
  BY <1>4 DEF filled
<1>9. Filling(c)'
  BY <1>1, <1>4, <1>7, <1>8 DEF CompInv, Filling
<1>10. accepted'[c] \in Nat /\ accepted[c] <= accepted'[c]
  BY <1>1, <1>3, <1>4, <1>6 DEF accepted
<1> QED
  BY <1>4, <1>5, <1>7, <1>9, <1>10, CallerMoves

(* The head of the write's loop. *)
LEMMA WriteLoopComp ==
  ASSUME IInv, NEW c \in HOutputs, WriteLoop(c)
  PROVE  CompInv(c)'
<1>1. /\ c \in Comp /\ OutputTypeOK /\ CompInv(c) /\ wleft[c] \in Nat /\ accepted[c] \in Nat
      /\ outBuf[c] \in Bufs \union {NoBuf}
  BY CompFacts DEF OutputTypeOK, accepted
<1>2. /\ wpc[c] = "loop" /\ wpc'[c] \in {"fail", "ok", "getBuf", "copy"}
      /\ wpc'[c] = "ok" => wleft[c] = 0
      /\ wpc'[c] \in {"getBuf", "copy"} => wleft[c] # 0
      /\ wpc'[c] = "getBuf" => outBuf[c] = NoBuf
      /\ wpc'[c] = "copy" => outBuf[c] # NoBuf
      /\ UNCHANGED <<freeBufList, dataBufList, baseOnError, waiters, pc, tErr, bufData,
                     outBuf, curWritePos, datas, file, outedPos, wleft>>
  BY <1>1 DEF WriteLoop, OutputTypeOK, baseVars, listVars, workerVars
<1>3. Phases(c)'
  BY <1>1, <1>2 DEF CompInv, Phases
<1>4. copied(c)' = copied(c) /\ filled(c)' = filled(c) /\ accepted' = accepted
  BY <1>2 DEF copied, filled, accepted
<1>5. Filling(c)'
  BY <1>1, <1>2, <1>4 DEF CompInv, Filling
<1>6. accepted[c] <= accepted'[c] /\ accepted'[c] \in Nat
  BY <1>1, <1>4
<1>7. wpc'[c] # "fail" => wpc[c] # "fail" /\ copied(c)' = copied(c)
  BY <1>2, <1>4
<1> QED
  BY <1>2, <1>3, <1>5, <1>6, <1>7, CallerMoves

(* hpatch_mt_base_onceWaitABuf_ on the free list: the caller starts on an  *)
(* empty buffer that nobody else has.                                      *)
LEMMA TakesFreeComp ==
  ASSUME IInv, NEW c \in HOutputs, wpc[c] \in {"getBuf", "waitBuf"}, Caller \notin waiters[c],
         CallerTakesFree(c)
  PROVE  CompInv(c)'
<1> DEFINE f == freeBufList[c]
           b == firstBuf(f)
           r == restBufs(f)
<1>1. /\ c \in Comp /\ NoBuf \notin Bufs /\ f \in Seq(Bufs) /\ OutputTypeOK /\ CompInv(c)
      /\ accepted[c] \in Nat /\ WorkBufSize \in Nat \ {0} /\ bufData[c] \in [Bufs -> Seq(Nat)]
      /\ dataBufList[c] \in Seq(Bufs) /\ datas[c] \in Seq(Bufs)
      /\ outedPos[c] \in Nat /\ wleft[c] \in Nat
  BY CompFacts DEF OutputTypeOK, accepted
<1>2. /\ outBuf'[c] = b /\ freeBufList'[c] = r
      /\ bufData'[c] = [x \in Bufs |-> IF x = b THEN <<>> ELSE bufData[c][x]]
      /\ wpc'[c] = IF b # NoBuf /\ ~baseOnError[c] THEN "copy" ELSE "loop"
      /\ dataBufList'[c] = dataBufList[c] /\ baseOnError'[c] = baseOnError[c]
      /\ waiters'[c] = waiters[c] /\ pc'[c] = pc[c] /\ tErr'[c] = tErr[c]
      /\ outedPos'[c] = outedPos[c] /\ curWritePos'[c] = curWritePos[c]
      /\ datas'[c] = datas[c] /\ file'[c] = file[c] /\ wleft'[c] = wleft[c]
      /\ outBuf[c] = NoBuf
  BY <1>1 DEF CallerTakesFree, OutputTypeOK, workerVars, CompInv, Phases
<1>3. /\ b \in Bufs \union {NoBuf} /\ (f = <<>> => b = NoBuf /\ r = f)
      /\ f # <<>> => /\ b \in Bufs
                     /\ \A x : InList(x, f) <=> x = b \/ InList(x, r)
                     /\ NoRepeat(f) => NoRepeat(r) /\ ~InList(b, r)
  BY <1>1, Pop
<1> HIDE DEF b, r
<1>4. Phases(c)' /\ Sleep(c)'
  BY <1>1, <1>2, <1>3 DEF CompInv, Phases, Sleep
<1>5. OutputBufOwnership(c)'
  BY <1>1, <1>2, <1>3 DEF CompInv, OutputBufOwnership
<1>6. /\ filled(c) = 0 /\ filled(c)' = 0 /\ copied(c)' = copied(c) /\ accepted'[c] = accepted[c]
  BY <1>2, <1>3 DEF filled, copied, accepted
<1>7. Filling(c)'
  <2>1. copied(c) \in Nat /\ wleft[c] > 0 /\ wleft[c] <= outedPos[c] /\ outedPos[c] <= OutSize[c]
    BY <1>1 DEF CompInv, Filling, copied
  <2>2. b # NoBuf => bufData'[c][b] = Run(copied(c) - 0, 0)
    BY <1>2, <1>3, <2>1, RunEmpty
  <2> QED
    BY <1>1, <1>2, <1>6, <2>1, <2>2 DEF Filling
<1>8. Flow(c)'
  <2>1. ASSUME NEW x, InList(x, datas[c]) \/ InList(x, dataBufList[c])
        PROVE  bufData'[c][x] = bufData[c][x]
    <3>1. x \in Bufs
      BY <1>1, <2>1 DEF InList
    <3>2. x # b
      <4>1. CASE f = <<>>
        BY <1>1, <1>3, <3>1, <4>1
      <4>2. CASE f # <<>>
        BY <1>1, <1>3, <2>1, <4>2 DEF CompInv, OutputBufOwnership
      <4> QED
        BY <4>1, <4>2
    <3> QED
      BY <1>2, <3>1, <3>2
  <2>2. failed(c)' = failed(c) /\ pending(c)' = pending(c)
    BY <1>2 DEF failed, pending
  <2>3. wpc'[c] # "fail" => wpc[c] # "fail" /\ copied(c)' - filled(c)' = copied(c) - filled(c)
    BY <1>6
  <2>4. accepted'[c] \in Nat /\ accepted[c] <= accepted'[c]
    BY <1>1, <1>6
  <2>5. file'[c] = file[c] /\ curWritePos'[c] = curWritePos[c] /\ dataBufList'[c] = dataBufList[c]
    BY <1>2
  <2> HIDE DEF f
  <2> QED
    BY <2>1, <2>2, <2>3, <2>4, <2>5, FlowKept
<1> QED
  BY <1>4, <1>5, <1>7, <1>8 DEF CompInv

(* The caller goes to sleep: the worker is not asleep, for the same reason *)
(* as in WaitBufsComp.                                                     *)
LEMMA WriteWaitComp ==
  ASSUME IInv, NEW c \in HOutputs, WriteWait(c)
  PROVE  CompInv(c)'
<1>1. /\ c \in Comp /\ NoBuf \notin Bufs /\ Bufs # {} /\ OutputTypeOK /\ CompInv(c)
      /\ waiters[c] \subseteq {Worker, Caller} /\ accepted[c] \in Nat
  BY CompFacts DEF OutputTypeOK, accepted
<1>2. wpc[c] = "getBuf" /\ freeBufList[c] = <<>> /\ outBuf[c] = NoBuf
  BY <1>1 DEF WriteWait, mustWait, CompInv, Phases
<1>3. /\ waiters'[c] = waiters[c] \union {Caller} /\ wpc'[c] = "waitBuf"
      /\ freeBufList'[c] = freeBufList[c] /\ dataBufList'[c] = dataBufList[c]
      /\ baseOnError'[c] = baseOnError[c] /\ pc'[c] = pc[c] /\ tErr'[c] = tErr[c]
      /\ bufData'[c] = bufData[c] /\ outBuf'[c] = outBuf[c] /\ outedPos'[c] = outedPos[c]
      /\ curWritePos'[c] = curWritePos[c] /\ datas'[c] = datas[c] /\ file'[c] = file[c]
      /\ wleft'[c] = wleft[c]
  BY <1>1 DEF WriteWait, WaitOn, OutputTypeOK, workerVars
<1>4. Worker \notin waiters[c]
  BY <1>1, <1>2, EmptyList DEF CompInv, Phases, Sleep, OutputBufOwnership
<1>5. Phases(c)' /\ Sleep(c)'
  BY <1>1, <1>2, <1>3, <1>4 DEF CompInv, Phases, Sleep, Worker, Caller
<1>6. OutputBufOwnership(c)'
  BY <1>1, <1>3 DEF CompInv, OutputBufOwnership
<1>7. /\ copied(c)' = copied(c) /\ filled(c)' = filled(c) /\ accepted'[c] = accepted[c]
      /\ pending(c)' = pending(c) /\ failed(c)' = failed(c)
  BY <1>3 DEF copied, filled, accepted, pending, failed
<1>8. Filling(c)'
  BY <1>1, <1>2, <1>3, <1>7 DEF CompInv, Filling
<1>9. Flow(c)'
  BY <1>1, <1>2, <1>3, <1>7, FlowKept
<1> QED
  BY <1>5, <1>6, <1>8, <1>9 DEF CompInv

(* memcpy to the current buffer: it then holds the last bytes copied, and  *)
(* it is passed on only with bytes in it.                                  *)
LEMMA WriteCopyComp ==
  ASSUME IInv, NEW c \in HOutputs, WriteCopy(c)
  PROVE  CompInv(c)'
<1> DEFINE b    == outBuf[c]
           old  == bufData[c][b]
           room == WorkBufSize - Len(old)
           n    == IF room < wleft[c] THEN room ELSE wleft[c]
           new  == old \o Run(outedPos[c] - wleft[c], n)
<1>1. /\ c \in Comp /\ NoBuf \notin Bufs /\ OutputTypeOK /\ CompInv(c) /\ wpc[c] = "copy"
      /\ accepted[c] \in Nat /\ WorkBufSize \in Nat \ {0} /\ bufData[c] \in [Bufs -> Seq(Nat)]
      /\ dataBufList[c] \in Seq(Bufs) /\ datas[c] \in Seq(Bufs)
      /\ outedPos[c] \in Nat /\ wleft[c] \in Nat /\ b \in Bufs
  <2>1. wpc[c] = "copy"
    BY DEF WriteCopy
  <2> QED
    BY <2>1, CompFacts DEF OutputTypeOK, accepted, CompInv, Phases
<1>2. /\ old \in Seq(Nat) /\ Len(old) \in Nat /\ filled(c) = Len(old) /\ b # NoBuf
  BY <1>1 DEF filled
<1>3. /\ wleft[c] > 0 /\ wleft[c] <= outedPos[c] /\ outedPos[c] <= OutSize[c]
      /\ Len(old) <= copied(c) /\ Len(old) < WorkBufSize
      /\ old = Run(copied(c) - Len(old), Len(old))
  BY <1>1, <1>2 DEF CompInv, Filling
<1>4. /\ bufData' = [bufData EXCEPT ![c][b] = new] /\ wleft'[c] = wleft[c] - n
      /\ wpc'[c] = IF n = room \/ (n = wleft[c] /\ isNeedFlush[c]) THEN "push" ELSE "loop"
      /\ UNCHANGED <<freeBufList, dataBufList, baseOnError, waiters, pc, tErr,
                     outBuf, outedPos, curWritePos, datas, file>>
  BY <1>1, SMTT(30) DEF WriteCopy, OutputTypeOK, listVars, workerVars
<1>5. bufData'[c][b] = new /\ \A x \in Bufs \ {b} : bufData'[c][x] = bufData[c][x]
  BY <1>1, <1>4 DEF OutputTypeOK
<1>6. /\ copied(c) \in Nat /\ n \in Nat \ {0} /\ n <= wleft[c] /\ Len(old) + n <= WorkBufSize
      /\ n # room => Len(old) + n < WorkBufSize
      /\ outedPos[c] - wleft[c] = copied(c) /\ copied(c) - Len(old) \in Nat
  <2> HIDE DEF old
  <2>1. outedPos[c] - wleft[c] = copied(c) /\ copied(c) \in Nat
    BY <1>1, <1>3 DEF copied
  <2>2. copied(c) - Len(old) \in Nat
    BY <1>2, <1>3, <2>1
  <2>3. room \in Nat \ {0} /\ Len(old) + room = WorkBufSize
    BY <1>1, <1>2, <1>3
  <2> HIDE DEF room
  <2>4. n \in Nat \ {0} /\ n <= wleft[c] /\ n <= room
    BY <1>1, <1>3, <2>3
  <2> HIDE DEF n
  <2>5. Len(old) + n <= WorkBufSize /\ (n # room => Len(old) + n < WorkBufSize)
    BY <1>1, <1>2, <2>3, <2>4, SMTT(30)
  <2> QED
    BY <2>1, <2>2, <2>4, <2>5
<1> HIDE DEF old, n, room
<1>7. new = Run(copied(c) - Len(old), Len(old) + n) /\ Len(new) = Len(old) + n
  <2> DEFINE p == copied(c) - Len(old)
             k == Len(old)
  <2>1. p \in Nat /\ k \in Nat /\ p + k = copied(c) /\ n \in Nat /\ k + n \in Nat
    BY <1>2, <1>6
  <2>2. old = Run(p, k) /\ new = old \o Run(p + k, n)
    BY <1>3, <1>6, <2>1
  <2> HIDE DEF p, k
  <2>3. Run(p, k) \o Run(p + k, n) = Run(p, k + n)
    BY <2>1, RunCat
  <2>4. new = Run(p, k + n)
    BY <2>2, <2>3
  <2>5. Len(new) = k + n
    BY <2>1, <2>4, RunBytes, SMTT(30)
  <2> QED
    BY <2>4, <2>5 DEF p, k
<1> HIDE DEF new
<1>8. /\ copied(c)' = copied(c) + n /\ filled(c)' = Len(old) + n /\ accepted' = accepted
  BY <1>1, <1>2, <1>4, <1>5, <1>6, <1>7, SMTT(30) DEF copied, filled, accepted
<1>9. Phases(c)' /\ Sleep(c)'
  BY <1>1, <1>4 DEF CompInv, Phases, Sleep
<1>10. OutputBufOwnership(c)'
  BY <1>1, <1>4 DEF CompInv, OutputBufOwnership
<1>11. Filling(c)'
  <2>1. (copied(c) + n) - (Len(old) + n) = copied(c) - Len(old)
    BY <1>2, <1>6
  <2>2. bufData'[c][b] = Run(copied(c)' - filled(c)', filled(c)')
    BY <1>5, <1>7, <1>8, <2>1
  <2>3. /\ filled(c)' <= copied(c)' /\ filled(c)' <= WorkBufSize /\ filled(c)' > 0
        /\ wleft'[c] <= outedPos'[c] /\ outedPos'[c] <= OutSize[c]
    <3>1. Len(old) + n <= copied(c) + n /\ Len(old) + n > 0
      BY <1>2, <1>3, <1>6
    <3>2. outedPos'[c] = outedPos[c] /\ wleft[c] - n <= outedPos[c]
      BY <1>1, <1>3, <1>4, <1>6, SMTT(30)
    <3> QED
      BY <1>3, <1>4, <1>6, <1>8, <3>1, <3>2
  <2>4. wpc'[c] # "push" => filled(c)' < WorkBufSize
    BY <1>4, <1>6, <1>8
  <2>5. wpc'[c] \in {"push", "loop"}
    BY <1>4
  <2> QED
    BY <1>4, <2>2, <2>3, <2>4, <2>5 DEF Filling
<1>12. Flow(c)'
  <2>1. ASSUME NEW x, InList(x, datas[c]) \/ InList(x, dataBufList[c])
        PROVE  bufData'[c][x] = bufData[c][x]
    <3>1. x \in Bufs
      BY <1>1, <2>1, SMTT(30) DEF InList
    <3>2. x # b
      BY <1>1, <2>1 DEF CompInv, OutputBufOwnership
    <3> QED
      BY <1>5, <3>1, <3>2
  <2>2. failed(c)' = failed(c) /\ pending(c)' = pending(c)
    BY <1>4 DEF failed, pending
  <2>3. copied(c)' - filled(c)' = copied(c) - filled(c)
    BY <1>2, <1>6, <1>8
  <2>4. accepted'[c] \in Nat /\ accepted[c] <= accepted'[c] /\ wpc[c] # "fail"
    BY <1>1, <1>8
  <2> QED
    BY <1>4, <2>1, <2>2, <2>3, <2>4, FlowKept
<1> QED
  BY <1>9, <1>10, <1>11, <1>12 DEF CompInv

(* hpatch_mt_base_pushABufAtEnd_ of the caller's buffer: its bytes follow  *)
(* those on the data list.                                                 *)
LEMMA WritePushComp ==
  ASSUME IInv, NEW c \in HOutputs, WritePush(c)
  PROVE  CompInv(c)'
<1> DEFINE l == dataBufList[c]
           b == outBuf[c]
           r == pushABufAtEnd(l, b)
<1>1. /\ c \in Comp /\ NoBuf \notin Bufs /\ OutputTypeOK /\ CompInv(c) /\ wpc[c] = "push"
      /\ l \in Seq(Bufs) /\ datas[c] \in Seq(Bufs) /\ accepted[c] \in Nat /\ b \in Bufs
      /\ bufData[c][b] \in Seq(Nat) /\ OutSize[c] \in Nat
      /\ waiters \in [Comp -> SUBSET {Worker, Caller}] /\ outedPos[c] \in Nat /\ wleft[c] \in Nat
  <2>1. wpc[c] = "push"
    BY DEF WritePush
  <2>2. c \in Comp /\ NoBuf \notin Bufs /\ OutputTypeOK /\ CompInv(c) /\ OutSize[c] \in Nat
    BY CompFacts
  <2>3. /\ l \in Seq(Bufs) /\ datas[c] \in Seq(Bufs) /\ bufData[c] \in [Bufs -> Seq(Nat)]
        /\ waiters \in [Comp -> SUBSET {Worker, Caller}] /\ outedPos[c] \in Nat /\ wleft[c] \in Nat
    BY <2>2 DEF OutputTypeOK
  <2>4. b \in Bufs
    BY <2>1, <2>2 DEF CompInv, Phases, OutputTypeOK
  <2>5. accepted[c] \in Nat
    BY <2>1, <2>2, <2>3 DEF accepted, OutputTypeOK
  <2> QED
    BY <2>1, <2>2, <2>3, <2>4, <2>5
<1>2. /\ dataBufList'[c] = r /\ Signal(c) /\ outBuf'[c] = NoBuf /\ wpc'[c] = "loop"
      /\ freeBufList'[c] = freeBufList[c] /\ baseOnError'[c] = baseOnError[c] /\ pc'[c] = pc[c]
      /\ tErr'[c] = tErr[c] /\ bufData'[c] = bufData[c] /\ outedPos'[c] = outedPos[c]
      /\ curWritePos'[c] = curWritePos[c] /\ datas'[c] = datas[c] /\ file'[c] = file[c]
      /\ wleft'[c] = wleft[c]
  BY <1>1 DEF WritePush, OutputTypeOK, workerVars
<1>3. waiters[c] \subseteq {Worker}
  BY <1>1 DEF CompInv, Phases
<1>4. waiters'[c] = {}
  BY <1>1, <1>2, <1>3, SignalWakes
<1>5. Phases(c)' /\ Sleep(c)'
  BY <1>1, <1>2, <1>4 DEF CompInv, Phases, Sleep
<1>6. OutputBufOwnership(c)'
  <2> HIDE DEF r
  <2>1. /\ \A x : InList(x, r) <=> InList(x, l) \/ x = b
        /\ NoRepeat(l) /\ ~InList(b, l) => NoRepeat(r)
    BY <1>1, PushAtEnd DEF r
  <2> QED
    BY <1>1, <1>2, <2>1 DEF CompInv, OutputBufOwnership
<1>7. /\ wleft[c] <= outedPos[c] /\ outedPos[c] <= OutSize[c] /\ filled(c) <= copied(c)
      /\ filled(c) \in Nat \ {0} /\ copied(c) \in Nat /\ bufData[c][b] = Run(copied(c) - filled(c), filled(c))
  BY <1>1, SMTT(30) DEF CompInv, Filling, filled, copied
<1>8. copied(c)' = copied(c) /\ filled(c)' = 0 /\ accepted'[c] = accepted[c]
  BY <1>2 DEF copied, filled, accepted
<1>9. WorkBufSize \in Nat \ {0}
  BY CompFacts
<1>10. Filling(c)'
  BY <1>2, <1>7, <1>8, <1>9 DEF Filling
<1>11. Flow(c)'
  <2>1. failed(c)' = failed(c) /\ pending(c)' = pending(c)
    BY <1>2 DEF failed, pending
  <2>2. ASSUME ~failed(c)'
        PROVE  \E m, e \in Nat :
                  /\ Chain(bufData'[c], pending(c)', Len(file'[c]), m)
                  /\ Chain(bufData'[c], dataBufList'[c], m, e)
                  /\ e <= accepted'[c]
                  /\ wpc'[c] # "fail" => e = copied(c)' - filled(c)'
    <3>1. PICK m \in Nat, e \in Nat :
            /\ Chain(bufData[c], pending(c), Len(file[c]), m)
            /\ Chain(bufData[c], l, m, e)
            /\ wpc[c] # "fail" => e = copied(c) - filled(c)
      BY <1>1, <2>1, <2>2 DEF CompInv, Flow
    <3>2. e = copied(c) - filled(c) /\ e + filled(c) = copied(c)
      BY <1>1, <1>7, <3>1
    <3>3. Chain(bufData[c], r, m, e + filled(c))
      BY <1>1, <1>7, <3>1, <3>2, ChainPush
    <3>4. copied(c) <= accepted[c] /\ copied(c) = copied(c) - 0
      BY <1>1, <1>7, SMTT(30) DEF accepted, copied
    <3>5. /\ Chain(bufData'[c], pending(c)', Len(file'[c]), m)
          /\ Chain(bufData'[c], dataBufList'[c], m, copied(c))
          /\ copied(c) <= accepted'[c]
          /\ copied(c) = copied(c)' - filled(c)'
      BY <1>2, <1>8, <2>1, <3>1, <3>2, <3>3, <3>4
    <3> QED
      BY <1>7, <3>5
  <2> QED
    BY <1>1, <1>2, <2>1, <2>2 DEF CompInv, Flow
<1> QED
  BY <1>5, <1>6, <1>10, <1>11 DEF CompInv

(* Each step of the caller keeps every CompInv. *)
LEMMA CallerComp ==
  ASSUME IInv, NEW c \in HOutputs, NEW d \in HOutputs,
         OutputCallerWrites(c) \/ WriteStep(c) \/ OutputCallerReturns(c)
  PROVE  CompInv(d)'
<1>0. /\ c \in Comp /\ d \in Comp /\ OutputTypeOK /\ CompInv(c) /\ CompInv(d)
      /\ waiters[c] \subseteq {Worker, Caller} /\ waiters[d] \subseteq {Worker, Caller}
      /\ accepted[c] \in Nat
  BY CompFacts DEF OutputTypeOK, accepted
<1>1. CASE d # c
  <2>1. waiters'[d] \subseteq waiters[d]
    BY <1>0, <1>1 DEF OutputCallerWrites, OutputWrite, OutputCallerReturns, WriteStep, WriteLoop,
       WriteGetBuf, WriteWait, WriteWake, CallerTakesFree, WriteCopy, WritePush, WaitOn, Signal,
       OutputTypeOK, baseVars, listVars
  <2>2. /\ freeBufList'[d] = freeBufList[d] /\ dataBufList'[d] = dataBufList[d]
        /\ baseOnError'[d] = baseOnError[d] /\ pc'[d] = pc[d] /\ tErr'[d] = tErr[d]
        /\ bufData'[d] = bufData[d]
    BY <1>0, <1>1 DEF OutputCallerWrites, OutputWrite, OutputCallerReturns, WriteStep, WriteLoop,
       WriteGetBuf, WriteWait, WriteWake, CallerTakesFree, WriteCopy, WritePush,
       OutputTypeOK, baseVars, listVars, workerVars
  <2>3. /\ outBuf'[d] = outBuf[d] /\ outedPos'[d] = outedPos[d]
        /\ curWritePos'[d] = curWritePos[d] /\ datas'[d] = datas[d] /\ file'[d] = file[d]
        /\ wpc'[d] = wpc[d] /\ wleft'[d] = wleft[d]
    BY <1>0, <1>1, ZenonT(60) DEF OutputCallerWrites, OutputWrite, OutputCallerReturns, WriteReturned, WriteStep,
       WriteLoop, WriteGetBuf, WriteWait, WriteWake, CallerTakesFree, WriteCopy, WritePush,
       OutputTypeOK
  <2> QED
    BY <1>0, <2>1, <2>2, <2>3, SameComp
<1>2. CASE d = c /\ OutputCallerWrites(c)
  BY <1>2, WriteComp
<1>3. CASE d = c /\ WriteLoop(c)
  BY <1>3, WriteLoopComp
<1>4. CASE d = c /\ (WriteGetBuf(c) \/ WriteWake(c))
  <2>1. CallerTakesFree(c) /\ wpc[c] \in {"getBuf", "waitBuf"} /\ Caller \notin waiters[c]
    BY <1>0, <1>4 DEF WriteGetBuf, WriteWake, CompInv, Phases
  <2> QED
    BY <1>4, <2>1, TakesFreeComp
<1>5. CASE d = c /\ WriteWait(c)
  BY <1>5, WriteWaitComp
<1>6. CASE d = c /\ WriteCopy(c)
  BY <1>6, WriteCopyComp
<1>7. CASE d = c /\ WritePush(c)
  BY <1>7, WritePushComp
<1>8. CASE d = c /\ OutputCallerReturns(c)
  <2>1. /\ wpc[c] = "ok" /\ wpc'[c] = "idle"
        /\ UNCHANGED <<freeBufList, dataBufList, baseOnError, waiters, pc, tErr, bufData,
                       outBuf, curWritePos, datas, file, outedPos, wleft>>
    BY <1>0, <1>8 DEF OutputCallerReturns, WriteReturned, OutputTypeOK, baseVars, listVars, workerVars
  <2>2. Phases(c)'
    BY <1>0, <2>1 DEF CompInv, Phases
  <2>3. copied(c)' = copied(c) /\ filled(c)' = filled(c) /\ accepted' = accepted
    BY <2>1 DEF copied, filled, accepted
  <2>4. Filling(c)'
    BY <1>0, <2>1, <2>3 DEF CompInv, Filling
  <2>5. accepted'[c] \in Nat /\ accepted[c] <= accepted'[c]
    BY <1>0, <2>3
  <2>6. wpc'[c] # "fail" => wpc[c] # "fail" /\ copied(c)' = copied(c)
    BY <2>1, <2>3
  <2> QED
    BY <1>8, <2>1, <2>2, <2>4, <2>5, <2>6, CallerMoves
<1> QED
  BY <1>1, <1>2, <1>3, <1>4, <1>5, <1>6, <1>7, <1>8 DEF WriteStep

---------------------------------------------------------------------------
(* The invariant *)

(* Opening a component establishes CompInv: nothing is on its way. *)
LEMMA InitComp == OutputInit => \A c \in HOutputs : CompInv(c)
<1> SUFFICES ASSUME OutputInit, NEW c \in HOutputs PROVE CompInv(c)
  OBVIOUS
<1>1. PICK list \in freeLists : freeBufList = [d \in Comp |-> list]
  BY DEF OutputInit, BaseInit
<1>2. /\ c \in Comp /\ NoBuf \notin Bufs /\ WorkBufSize \in Nat \ {0} /\ OutSize[c] \in Nat
  BY HOutputAssumption, BaseAssumption DEF HOutputAssumption, BaseAssumption
<1>3. /\ freeBufList[c] = list /\ dataBufList[c] = <<>> /\ waiters[c] = {} /\ pc[c] = "loop"
      /\ baseOnError[c] = FALSE
  BY <1>1, <1>2 DEF OutputInit, BaseInit
<1>4. /\ outBuf[c] = NoBuf /\ outedPos[c] = 0 /\ curWritePos[c] = 0 /\ datas[c] = <<>>
      /\ file[c] = <<>> /\ wpc[c] = "idle" /\ wleft[c] = 0
  BY DEF OutputInit, HOutputInit
<1>5. Phases(c) /\ Sleep(c)
  BY <1>3, <1>4 DEF Phases, Sleep
<1>6. OutputBufOwnership(c)
  BY <1>2, <1>3, <1>4, FreeListsAll, EmptyList DEF OutputBufOwnership
<1>7. copied(c) = 0 /\ filled(c) = 0 /\ accepted[c] = 0 /\ pending(c) = <<>>
  BY <1>2, <1>3, <1>4 DEF copied, filled, accepted, pending
<1>8. Filling(c)
  BY <1>2, <1>4, <1>7 DEF Filling
<1>9. Flow(c)
  <2>1. Run(0, 0) = <<>> /\ Len(<<>>) = 0 /\ Chain(bufData[c], <<>>, 0, 0)
    BY RunEmpty, ChainEmpty
  <2> QED
    BY <1>3, <1>4, <1>7, <2>1 DEF Flow
<1> QED
  BY <1>5, <1>6, <1>8, <1>9 DEF CompInv

(* The closer goes on only when the counter is zero, and nothing counts    *)
(* down afterwards.                                                        *)
LEMMA NextClosedInv == IInv /\ [OutputNext]_outputVars => ClosedInv'
<1> SUFFICES ASSUME IInv, [OutputNext]_outputVars PROVE ClosedInv'
  OBVIOUS
<1>0. ClosedInv /\ ThreadCount
  BY DEF IInv, TypeInv
<1>1. ASSUME NEW c \in HOutputs, OutputWorker(c) PROVE ClosedInv'
  <2>1. CASE OutputEnd(c)
    <3>1. closing' = closing /\ pc[c] = "end" /\ c \in Comp
      BY <2>1, CompFacts DEF OutputEnd, ThreadEnd
    <3>2. closing # "ended"
      BY <1>0, <3>1, ZeroMeansLeft DEF ClosedInv
    <3> QED
      BY <3>1, <3>2 DEF ClosedInv
  <2>2. CASE ~OutputEnd(c)
    <3>1. UNCHANGED <<closing, runningThreads>>
      BY <1>1, <2>2 DEF OutputWorker, OutputLoop, OutputGetBufs, OutputWaitBufs, OutputWakeBufs,
         TakeAllData, OutputWriteAData, OutputPushFree, OutputError, SetBaseOnError, SetMtOnError,
         mtVars
    <3> QED
      BY <1>0, <3>1, SMTT(30) DEF ClosedInv
  <2> QED
    BY <2>1, <2>2
<1>2. ASSUME NEW c \in HOutputs, OutputCallerWrites(c) \/ WriteStep(c) \/ OutputCallerReturns(c)
      PROVE  ClosedInv'
  <2>1. UNCHANGED <<closing, runningThreads>>
    BY <1>2 DEF OutputCallerWrites, OutputWrite, OutputCallerReturns, WriteStep, WriteLoop,
       WriteGetBuf, WriteWait, WriteWake, CallerTakesFree, WriteCopy, WritePush, baseVars, mtVars
  <2> QED
    BY <1>0, <2>1, SMTT(30) DEF ClosedInv
<1>3. CASE OutputClosed
  BY <1>3 DEF OutputClosed, AllThreadsEnded, ClosedInv
<1>4. CASE OutputClose
  BY <1>4 DEF OutputClose, WaitAllThreadEnd, ClosedInv
<1>5. CASE OutputOtherError \/ OutputSpurious \/ UNCHANGED outputVars
  <2>1. UNCHANGED <<closing, runningThreads>>
    BY <1>5 DEF OutputOtherError, OutputSpurious, SpuriousWake, outputVars, baseVars, mtVars
  <2> QED
    BY <1>0, <2>1 DEF ClosedInv
<1> QED
  BY <1>1, <1>2, <1>3, <1>4, <1>5 DEF OutputNext, OutputCallerNext, OutputDone

(* IInv is inductive. *)
LEMMA NextIInv == IInv /\ [OutputNext]_outputVars => IInv'
<1> SUFFICES ASSUME IInv, [OutputNext]_outputVars, NEW d \in HOutputs PROVE CompInv(d)'
  BY NextTypeInv, NextClosedInv DEF IInv
<1>0. /\ d \in Comp /\ OutputTypeOK /\ CompInv(d) /\ waiters[d] \subseteq {Worker, Caller}
  BY CompFacts DEF OutputTypeOK
<1>1. CASE OutputClose \/ OutputClosed \/ OutputOtherError \/ OutputSpurious \/ UNCHANGED outputVars
  <2>1. waiters'[d] \subseteq waiters[d]
    BY <1>0, <1>1, SMTT(30) DEF OutputClose, OutputClosed, OutputOtherError, WaitAllThreadEnd,
       AllThreadsEnded, setOnError, setOnFinish, OutputSpurious, SpuriousWake, OutputTypeOK,
       outputVars, baseVars, listVars
  <2>2. UNCHANGED <<freeBufList, dataBufList, baseOnError, pc, tErr, bufData, houtputVars>>
    BY <1>1 DEF OutputClose, OutputClosed, OutputOtherError, WaitAllThreadEnd, AllThreadsEnded,
       OutputSpurious, SpuriousWake, outputVars, baseVars, listVars, workerVars
  <2> QED
    BY <1>0, <2>1, <2>2, SameComp DEF houtputVars
<1> QED
  BY <1>1, WorkerComp, CallerComp DEF OutputNext, OutputCallerNext, OutputDone

(* IInv holds in every reachable state. *)
LEMMA AlwaysIInv == OutputSpec => []IInv
<1>1. OutputInit => IInv
  BY InitTypeInv, InitComp DEF IInv, ClosedInv, OutputInit, BaseInit
<1>2. IInv /\ [OutputNext]_outputVars => IInv'
  BY NextIInv
<1> QED
  BY <1>1, <1>2, PTL DEF OutputSpec

---------------------------------------------------------------------------
(* The theorems *)

(* Every work buffer has exactly one owner in every reachable state, for   *)
(* any number of components and buffers, whatever fails and whenever.      *)
THEOREM OutputBuffersOwned == OutputSpec => []OutputBufsOwnedOnce
<1>1. IInv => OutputBufsOwnedOnce
  BY DEF IInv, CompInv, OutputBufsOwnedOnce
<1> QED
  BY <1>1, AlwaysIInv, PTL

(* Worker and caller share one condition variable and wake each other with *)
(* c_condvar_signal: nobody ever sleeps over a buffer that is there, and   *)
(* they never both sleep.                                                  *)
THEOREM OutputSleepSafe == OutputSpec => []OutputNoSleepOverWork
<1>1. IInv => OutputNoSleepOverWork
  BY DEF IInv, CompInv, Sleep, OutputNoSleepOverWork
<1> QED
  BY <1>1, AlwaysIInv, PTL

(* The closer frees the components' memory only after every worker has     *)
(* left its thread function.                                               *)
THEOREM OutputFreedAfterThreads == OutputSpec => []FreedAfterThreads
<1>1. IInv => FreedAfterThreads
  BY ZeroMeansLeft DEF IInv, TypeInv, ClosedInv, FreedAfterThreads
<1> QED
  BY <1>1, AlwaysIInv, PTL

(* If houtput_mt_close reports success then the base stream holds every    *)
(* byte of the output, in order, although curWritePos moves before the     *)
(* write that it counts is done.                                           *)
THEOREM OutputCloseIsSound == OutputSpec => []OutputCloseSound
<1>1. ASSUME IInv, closing = "ended", NEW c \in HOutputs, outputCloseResult(c)
      PROVE  file[c] = Run(0, OutSize[c])
  <2>1. CompInv(c) /\ pc[c] = "done"
    BY <1>1, CompFacts, ZeroMeansLeft DEF IInv, TypeInv, ClosedInv
  <2>2. ~failed(c) /\ curWritePos[c] = OutSize[c]
    BY <1>1, <2>1 DEF failed, outputCloseResult
  <2> QED
    BY <2>1, <2>2 DEF CompInv, Flow
<1>2. IInv => OutputCloseSound
  BY <1>1 DEF OutputCloseSound
<1> QED
  BY <1>2, AlwaysIInv, PTL

---------------------------------------------------------------------------
(* houtput_mt_t implements ByteSink *)

(* A write of the worker delivers bytes that were accepted, the next ones  *)
(* and all of the buffer's; a write that fails delivers nothing.           *)
LEMMA WriteDelivers ==
  ASSUME IInv, NEW c \in HOutputs, NEW ok \in BOOLEAN, OutputWriteAData(c, ok)
  PROVE  Sink!Deliver(c) \/ UNCHANGED <<accepted, file>>
<1>1. /\ file \in [HOutputs -> Seq(Nat)] /\ accepted[c] \in Nat /\ Len(file[c]) \in Nat
  BY CompFacts DEF OutputTypeOK, accepted
<1>2. /\ pc[c] = "write" /\ outedPos' = outedPos
      /\ file' = [file EXCEPT ![c] = IF ok THEN @ \o bufData[c][Head(datas[c])] ELSE @]
  BY DEF OutputWriteAData
<1>3. accepted' = accepted
  BY <1>2 DEF accepted
<1>4. CASE ok
  <2>1. PICK n \in Nat \ {0} : /\ bufData[c][Head(datas[c])] = Run(Len(file[c]), n)
                              /\ Len(file[c]) + n <= accepted[c]
    BY <1>2, WriteNext
  <2>2. n \in 1..(accepted[c] - Len(file[c]))
    BY <1>1, <2>1
  <2>3. file' = [file EXCEPT ![c] = @ \o Sink!Run(Len(@), n)]
    BY <1>2, <1>4, <2>1 DEF Run, Sink!Run
  <2> QED
    BY <1>3, <2>2, <2>3 DEF Sink!Deliver
<1>5. CASE ~ok
  BY <1>1, <1>2, <1>3, <1>5
<1> QED
  BY <1>4, <1>5

(* A call of the caller hands over more bytes, never beyond streamSize. *)
LEMMA WriteAccepts ==
  ASSUME IInv, NEW c \in HOutputs, OutputCallerWrites(c)
  PROVE  Sink!Accept(c) \/ UNCHANGED <<accepted, file>>
<1>1. /\ outedPos \in [HOutputs -> Nat] /\ OutSize[c] \in Nat /\ CompInv(c)
      /\ OutSize \in [HOutputs -> Nat]
  BY CompFacts, HOutputAssumption DEF OutputTypeOK, HOutputAssumption
<1>2. PICK n \in 1..MaxWrite, pos \in {outedPos[c], outedPos[c] + 1} : OutputWrite(c, pos, n)
  BY DEF OutputCallerWrites
<1>3. n \in Nat \ {0} /\ wpc[c] = "idle" /\ file' = file
      /\ outedPos' = [outedPos EXCEPT ![c] = IF @ = pos THEN @ + n ELSE @]
  BY <1>1, <1>2, HOutputAssumption DEF OutputWrite, HOutputAssumption
<1>4. outedPos[c] <= OutSize[c] /\ accepted[c] = outedPos[c]
  BY <1>1, <1>3 DEF CompInv, Filling, accepted
<1> DEFINE m == accepted'[c]
<1>5. accepted' = [accepted EXCEPT ![c] = m]
  BY <1>1, <1>3 DEF accepted
<1>6. m \in Nat /\ m <= OutSize[c] /\ accepted[c] <= m
  BY <1>1, <1>3, <1>4 DEF accepted
<1> HIDE DEF m
<1>7. CASE m = accepted[c]
  <2>1. accepted' = accepted
    BY <1>5, <1>7 DEF accepted
  <2> QED
    BY <1>3, <2>1
<1>8. CASE m # accepted[c]
  <2>1. m \in (accepted[c] + 1)..OutSize[c]
    BY <1>1, <1>4, <1>6, <1>8
  <2> QED
    BY <1>3, <1>5, <2>1 DEF Sink!Accept
<1> QED
  BY <1>7, <1>8

(* Every step of houtput_mt_t is a step of ByteSink, or invisible there. *)
LEMMA NextIsSink == IInv /\ [OutputNext]_outputVars => [Sink!Next]_(Sink!vars)
<1> SUFFICES ASSUME IInv, [OutputNext]_outputVars PROVE Sink!Next \/ UNCHANGED <<accepted, file>>
  BY DEF Sink!vars
<1>1. ASSUME NEW c \in HOutputs, OutputWorker(c) PROVE Sink!Next \/ UNCHANGED <<accepted, file>>
  <2>1. CASE \E ok \in {TRUE, ~Fails} : OutputWriteAData(c, ok)
    BY <2>1, WriteDelivers DEF Sink!Next
  <2>2. CASE ~\E ok \in {TRUE, ~Fails} : OutputWriteAData(c, ok)
    <3>1. UNCHANGED <<outedPos, file>>
      BY <1>1, <2>2 DEF OutputWorker, OutputLoop, OutputGetBufs, OutputWaitBufs, OutputWakeBufs,
         TakeAllData, OutputPushFree, OutputError, OutputEnd, houtputVars
    <3> QED
      BY <3>1 DEF accepted
  <2> QED
    BY <2>1, <2>2
<1>2. ASSUME NEW c \in HOutputs, OutputCallerWrites(c) PROVE Sink!Next \/ UNCHANGED <<accepted, file>>
  BY <1>2, WriteAccepts DEF Sink!Next
<1>3. ASSUME NEW c \in HOutputs, WriteStep(c) \/ OutputCallerReturns(c)
      PROVE  UNCHANGED <<accepted, file>>
  <2>1. UNCHANGED <<outedPos, file>>
    BY <1>3 DEF OutputCallerReturns, WriteReturned, WriteStep, WriteLoop, WriteGetBuf, WriteWait,
       WriteWake, CallerTakesFree, WriteCopy, WritePush
  <2> QED
    BY <2>1 DEF accepted
<1>4. CASE OutputClose \/ OutputClosed \/ OutputOtherError \/ OutputSpurious \/ UNCHANGED outputVars
  <2>1. UNCHANGED <<outedPos, file>>
    BY <1>4 DEF OutputClose, OutputClosed, OutputOtherError, OutputSpurious, outputVars, houtputVars
  <2> QED
    BY <2>1 DEF accepted
<1> QED
  BY <1>1, <1>2, <1>3, <1>4 DEF OutputNext, OutputCallerNext, OutputDone

(* What reaches the base stream of each houtput_mt_t is a sequential       *)
(* output: every byte that write() accepted, once, in order and never      *)
(* early, whatever the two threads do and wherever the writes are cut.     *)
THEOREM OutputImplementsByteSink == OutputSpec => OutputIsByteSink
<1>1. OutputInit => Sink!Init
  <2>1. OutputInit => accepted = [c \in HOutputs |-> 0]
    BY HOutputAssumption DEF OutputInit, HOutputInit, accepted, HOutputAssumption
  <2> QED
    BY <2>1 DEF OutputInit, HOutputInit, Sink!Init
<1>2. IInv /\ [OutputNext]_outputVars => [Sink!Next]_(Sink!vars)
  BY NextIsSink
<1> QED
  BY <1>1, <1>2, AlwaysIInv, PTL DEF OutputSpec, OutputIsByteSink, Sink!Spec
===========================================================================
