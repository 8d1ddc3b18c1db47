----------------------------- MODULE HOutputMT ----------------------------
(***************************************************************************)
(* houtput_mt_t (_houtput_mt.c): an output stream whose writes are copied  *)
(* to work buffers and passed to the base stream by a worker thread.  A    *)
(* byte is represented by its position in the output.                      *)
(***************************************************************************)
EXTENDS MTBase

CONSTANTS HOutputs,   \* the houtput_mt_t components among Comp
          OutSize,    \* base.streamSize of each of them
          MaxWrite    \* the largest single write of the caller

ASSUME HOutputAssumption ==
  /\ HOutputs \subseteq Comp
  /\ OutSize \in [HOutputs -> Nat]
  /\ MaxWrite \in Nat

VARIABLES
  outBuf,        \* curDataBuf: the buffer that the caller is filling
  outedPos,      \* curOutedPos: what write() has accepted
  curWritePos,   \* what the worker has passed to the base stream
  datas,         \* the worker's local list of buffers to write
  file,          \* the bytes that the base stream received
  wpc,           \* the caller inside write(): its program counter
  wleft, wErr, isNeedFlush   \* data_end - data, _isOnError, isNeedFlush

houtputVars == <<outBuf, outedPos, curWritePos, datas, file, wpc, wleft, wErr, isNeedFlush>>
outputVars == <<baseVars, houtputVars>>
writeCalling(c) == wpc[c] \notin {"idle", "ok", "fail"}

---------------------------------------------------------------------------
(* houtput_thread_: it looks at isOnError and not at isOnFinish, so it     *)
(* drains the data list after the finish.                                  *)

(* Fault: the worker leaves at isOnFinish instead of draining. *)
OutputLoopFinish(c) ==
  /\ pc[c] = "loop"
  /\ pc' = [pc EXCEPT ![c] =
              IF ~isOnFinish /\ ~tErr[c] /\ curWritePos[c] < OutSize[c]
              THEN "getBuf" ELSE "end"]
  /\ UNCHANGED <<mtVars, listVars, wbuf, tErr, bufData, houtputVars>>

OutputLoop(c) ==
  /\ pc[c] = "loop"
  /\ pc' = [pc EXCEPT ![c] =
              IF ~isOnError /\ ~tErr[c] /\ curWritePos[c] < OutSize[c]
              THEN "getBuf" ELSE "end"]
  /\ UNCHANGED <<mtVars, listVars, wbuf, tErr, bufData, houtputVars>>

(* hpatch_mt_base_onceWaitAllBufs_ on the data list *)
TakeAllData(c) ==
  /\ datas' = [datas EXCEPT ![c] = dataBufList[c]]
  /\ dataBufList' = [dataBufList EXCEPT ![c] = <<>>]
  /\ tErr' = [tErr EXCEPT ![c] = baseOnError[c]]
  /\ pc' = [pc EXCEPT ![c] = IF dataBufList[c] # <<>> THEN "write" ELSE "loop"]
  /\ UNCHANGED <<mtVars, freeBufList, baseOnError, waiters, wbuf, bufData,
                 outBuf, outedPos, curWritePos, file, wpc, wleft, wErr, isNeedFlush>>

OutputGetBufs(c) == pc[c] = "getBuf" /\ ~mustWait(c, dataBufList) /\ TakeAllData(c)

OutputWaitBufs(c) ==
  /\ pc[c] = "getBuf"
  /\ mustWait(c, dataBufList)
  /\ WaitOn(c, Worker)
  /\ pc' = [pc EXCEPT ![c] = "waitBuf"]
  /\ UNCHANGED <<mtVars, freeBufList, dataBufList, baseOnError, wbuf, tErr, bufData, houtputVars>>

OutputWakeBufs(c) == pc[c] = "waitBuf" /\ Worker \notin waiters[c] /\ TakeAllData(c)

(* _houtput_mt_writeAData: the position moves before the write is done. *)
OutputWriteAData(c, ok) ==
  LET data == bufData[c][Head(datas[c])]
  IN /\ pc[c] = "write"
     /\ curWritePos' = [curWritePos EXCEPT ![c] = @ + Len(data)]
     /\ file' = [file EXCEPT ![c] = IF ok THEN @ \o data ELSE @]
     /\ pc' = [pc EXCEPT ![c] = IF ok THEN "push" ELSE "setErr"]
     /\ UNCHANGED <<mtVars, listVars, wbuf, tErr, bufData,
                    outBuf, outedPos, datas, wpc, wleft, wErr, isNeedFlush>>

(* hpatch_mt_base_pushABufAtHead_ of the written buffer to the free list;  *)
(* the list of datas is written to its end, error or not.                  *)
OutputPushFree(c) ==
  /\ pc[c] = "push"
  /\ freeBufList' = [freeBufList EXCEPT ![c] = pushABufAtHead(@, Head(datas[c]))]
  /\ Signal(c)
  /\ tErr' = [tErr EXCEPT ![c] = baseOnError[c]]
  /\ datas' = [datas EXCEPT ![c] = Tail(@)]
  /\ pc' = [pc EXCEPT ![c] = IF Len(datas[c]) > 1 THEN "write" ELSE "loop"]
  /\ UNCHANGED <<mtVars, dataBufList, baseOnError, wbuf, bufData,
                 outBuf, outedPos, curWritePos, file, wpc, wleft, wErr, isNeedFlush>>

OutputError(c) ==
  /\ SetBaseOnError(c) \/ SetMtOnError(c, "loop")
  /\ UNCHANGED houtputVars

OutputEnd(c) == ThreadEnd(c) /\ UNCHANGED houtputVars

OutputWorker(c) ==
  \/ OutputLoop(c) \/ OutputGetBufs(c) \/ OutputWaitBufs(c) \/ OutputWakeBufs(c)
  \/ \E ok \in {TRUE, ~Fails} : OutputWriteAData(c, ok)
  \/ OutputPushFree(c) \/ OutputError(c) \/ OutputEnd(c)

---------------------------------------------------------------------------
(* houtput_mt_write_ *)
OutputWrite(c, pos, n) ==
  /\ wpc[c] = "idle"
  /\ isNeedFlush' = [isNeedFlush EXCEPT ![c] = (pos + n = OutSize[c])]
  /\ outedPos' = [outedPos EXCEPT ![c] = IF @ = pos THEN @ + n ELSE @]
  /\ wErr' = [wErr EXCEPT ![c] = FALSE]
  /\ wleft' = [wleft EXCEPT ![c] = n]
  /\ wpc' = [wpc EXCEPT ![c] =
               IF outedPos[c] # pos \/ pos + n > OutSize[c] THEN "fail" ELSE "loop"]
  /\ UNCHANGED <<baseVars, outBuf, curWritePos, datas, file>>

(* The head of the loop and its test of hpatch_mt_isOnError. *)
WriteLoop(c) ==
  /\ wpc[c] = "loop"
  /\ wpc' = [wpc EXCEPT ![c] =
               IF wErr[c] THEN "fail"
               ELSE IF wleft[c] = 0 THEN "ok"
               ELSE IF isOnError THEN "fail"
               ELSE IF outBuf[c] = NoBuf THEN "getBuf" ELSE "copy"]
  /\ UNCHANGED <<baseVars, outBuf, outedPos, curWritePos, datas, file, wleft, wErr, isNeedFlush>>

(* hpatch_mt_base_onceWaitABuf_ on the free list; the buffer is emptied. *)
CallerTakesFree(c) ==
  LET b == firstBuf(freeBufList[c])
  IN /\ outBuf' = [outBuf EXCEPT ![c] = b]
     /\ freeBufList' = [freeBufList EXCEPT ![c] = restBufs(@)]
     /\ wErr' = [wErr EXCEPT ![c] = baseOnError[c]]
     /\ bufData' = [bufData EXCEPT ![c] = [x \in Bufs |-> IF x = b THEN <<>> ELSE @[x]]]
     /\ wpc' = [wpc EXCEPT ![c] = IF b # NoBuf /\ ~baseOnError[c] THEN "copy" ELSE "loop"]
     /\ UNCHANGED <<mtVars, dataBufList, baseOnError, waiters, workerVars,
                    outedPos, curWritePos, datas, file, wleft, isNeedFlush>>

WriteGetBuf(c) == wpc[c] = "getBuf" /\ ~mustWait(c, freeBufList) /\ CallerTakesFree(c)

WriteWait(c) ==
  /\ wpc[c] = "getBuf"
  /\ mustWait(c, freeBufList)
  /\ WaitOn(c, Caller)
  /\ wpc' = [wpc EXCEPT ![c] = "waitBuf"]
  /\ UNCHANGED <<mtVars, freeBufList, dataBufList, baseOnError, workerVars, bufData,
                 outBuf, outedPos, curWritePos, datas, file, wleft, wErr, isNeedFlush>>

WriteWake(c) == wpc[c] = "waitBuf" /\ Caller \notin waiters[c] /\ CallerTakesFree(c)

(* memcpy to the current buffer; it is passed on when it is full, or at    *)
(* the end of the call that reaches streamSize.                            *)
WriteCopy(c) ==
  LET b    == outBuf[c]
      room == WorkBufSize - Len(bufData[c][b])
      n    == IF room < wleft[c] THEN room ELSE wleft[c]
  IN /\ wpc[c] = "copy"
     /\ bufData' = [bufData EXCEPT ![c][b] = @ \o Run(outedPos[c] - wleft[c], n)]
     /\ wleft' = [wleft EXCEPT ![c] = @ - n]
     /\ wpc' = [wpc EXCEPT ![c] =
                  IF n = room \/ (n = wleft[c] /\ isNeedFlush[c]) THEN "push" ELSE "loop"]
     /\ UNCHANGED <<mtVars, listVars, workerVars,
                    outBuf, outedPos, curWritePos, datas, file, wErr, isNeedFlush>>

(* Fault: the caller keeps the buffer that it has passed on. *)
WritePushKeeps(c) ==
  /\ wpc[c] = "push"
  /\ dataBufList' = [dataBufList EXCEPT ![c] = pushABufAtEnd(@, outBuf[c])]
  /\ Signal(c)
  /\ wErr' = [wErr EXCEPT ![c] = baseOnError[c]]
  /\ wpc' = [wpc EXCEPT ![c] = "loop"]
  /\ UNCHANGED <<mtVars, freeBufList, baseOnError, workerVars, bufData,
                 outBuf, outedPos, curWritePos, datas, file, wleft, isNeedFlush>>

WritePush(c) ==
  /\ wpc[c] = "push"
  /\ dataBufList' = [dataBufList EXCEPT ![c] = pushABufAtEnd(@, outBuf[c])]
  /\ Signal(c)
  /\ wErr' = [wErr EXCEPT ![c] = baseOnError[c]]
  /\ outBuf' = [outBuf EXCEPT ![c] = NoBuf]
  /\ wpc' = [wpc EXCEPT ![c] = "loop"]
  /\ UNCHANGED <<mtVars, freeBufList, baseOnError, workerVars, bufData,
                 outedPos, curWritePos, datas, file, wleft, isNeedFlush>>

WriteStep(c) ==
  \/ WriteLoop(c) \/ WriteGetBuf(c) \/ WriteWait(c) \/ WriteWake(c)
  \/ WriteCopy(c) \/ WritePush(c)

WriteReturned(c) ==
  /\ wpc[c] \in {"ok", "fail"}
  /\ wpc' = [wpc EXCEPT ![c] = "idle"]
  /\ UNCHANGED <<outBuf, outedPos, curWritePos, datas, file, wleft, wErr, isNeedFlush>>

(* Fault: the close looks at the position only. *)
outputCloseByPos(c) == curWritePos[c] = OutSize[c]

(* houtput_mt_close's result *)
outputCloseResult(c) == ~baseOnError[c] /\ curWritePos[c] = OutSize[c]

---------------------------------------------------------------------------
(* The component alone: one caller that writes on until a call fails,      *)
(* other components that may fail, and the close of hpatch_mt_t.           *)

HOutputInit ==
  /\ outBuf = [c \in HOutputs |-> NoBuf]
  /\ outedPos = [c \in HOutputs |-> 0]
  /\ curWritePos = [c \in HOutputs |-> 0]
  /\ datas = [c \in HOutputs |-> <<>>]
  /\ file = [c \in HOutputs |-> <<>>]
  /\ wpc = [c \in HOutputs |-> "idle"]
  /\ wleft = [c \in HOutputs |-> 0]
  /\ wErr = [c \in HOutputs |-> FALSE]
  /\ isNeedFlush = [c \in HOutputs |-> FALSE]

OutputInit == BaseInit(Cardinality(Comp), "loop") /\ HOutputInit

OutputCallerWrites(c) ==
  /\ closing = "no"
  /\ \E n \in 1..MaxWrite : \E pos \in {outedPos[c], outedPos[c] + 1} :
       /\ Fails \/ (pos = outedPos[c] /\ pos + n <= OutSize[c])
       /\ OutputWrite(c, pos, n)

OutputCallerReturns(c) == wpc[c] = "ok" /\ WriteReturned(c) /\ UNCHANGED baseVars

(* patch_single_stream_diff has returned: the caller closes, with success  *)
(* only when it has written everything.                                    *)
OutputClose ==
  /\ \A c \in HOutputs : ~writeCalling(c)
  /\ \/ Fails /\ WaitAllThreadEnd(TRUE)
     \/ /\ \A c \in HOutputs : wpc[c] # "fail" /\ outedPos[c] = OutSize[c]
        /\ WaitAllThreadEnd(FALSE)
  /\ UNCHANGED houtputVars

OutputClosed == AllThreadsEnded /\ UNCHANGED houtputVars

(* A component outside this module reports its error to hpatch_mt_t. *)
OutputOtherError ==
  /\ Fails /\ closing # "ended"
  /\ setOnError
  /\ UNCHANGED <<runningThreads, closing, freeBufList, dataBufList, baseOnError,
                 workerVars, bufData, houtputVars>>

OutputCallerNext ==
  \/ \E c \in HOutputs : OutputCallerWrites(c) \/ WriteStep(c) \/ OutputCallerReturns(c)
  \/ OutputClose \/ OutputClosed

OutputSpurious == \E c \in HOutputs : SpuriousWake(c) /\ UNCHANGED houtputVars

(* Everything has been closed: nothing is left to do. *)
OutputDone == closing = "ended" /\ UNCHANGED outputVars

OutputNext ==
  \/ \E c \in HOutputs : OutputWorker(c)
  \/ OutputCallerNext \/ OutputOtherError \/ OutputSpurious \/ OutputDone

OutputSpec == OutputInit /\ [][OutputNext]_outputVars

(* Every thread that can take a step eventually takes one. *)
OutputFairness == (\A c \in HOutputs : WF_outputVars(OutputWorker(c)))
                    /\ WF_outputVars(OutputCallerNext)
OutputFairSpec == OutputSpec /\ OutputFairness

---------------------------------------------------------------------------
(* Properties *)

(* Every work buffer has exactly one owner: the free list, the data list,  *)
(* the worker's list or the caller.                                        *)
OutputBufOwnership(c) ==
  /\ NoRepeat(freeBufList[c]) /\ NoRepeat(dataBufList[c]) /\ NoRepeat(datas[c])
  /\ \A b \in Bufs :
       /\ ~(InList(b, freeBufList[c]) /\ InList(b, dataBufList[c]))
       /\ InList(b, datas[c]) => ~InList(b, freeBufList[c]) /\ ~InList(b, dataBufList[c])
                                 /\ b # outBuf[c]
       /\ b = outBuf[c] => ~InList(b, freeBufList[c]) /\ ~InList(b, dataBufList[c])
       /\ \/ InList(b, freeBufList[c]) \/ InList(b, dataBufList[c])
          \/ InList(b, datas[c]) \/ b = outBuf[c]
OutputBufsOwnedOnce == \A c \in HOutputs : OutputBufOwnership(c)

(* One condition variable and c_condvar_signal are enough: no one sleeps   *)
(* while the buffers it sleeps for are there, and they never both sleep.   *)
OutputNoSleepOverWork ==
  \A c \in HOutputs :
    /\ Worker \in waiters[c] => dataBufList[c] = <<>>
    /\ Caller \in waiters[c] => freeBufList[c] = <<>>
    /\ waiters[c] # {Worker, Caller}

(* If houtput_mt_close reports success then the base stream holds every    *)
(* byte of the output, in order (curWritePos moves before the write, so    *)
(* the error flag has to make up for a failed last write).                 *)
OutputCloseSound ==
  closing = "ended" => \A c \in HOutputs :
    outputCloseResult(c) => file[c] = Run(0, OutSize[c])

(* What the base streams see are sequential sinks: houtput_mt_t implements *)
(* ByteSink, write by write of its worker.  A refused write may move       *)
(* curOutedPos beyond streamSize; nothing beyond it counts as accepted.    *)
accepted == [c \in HOutputs |-> IF outedPos[c] > OutSize[c] THEN OutSize[c] ELSE outedPos[c]]
Sink == INSTANCE ByteSink WITH Sinks <- HOutputs, Size <- OutSize
OutputIsByteSink == Sink!Spec

(* As long as hpatch_mt_t is not on error every write of the caller        *)
(* returns.                                                                *)
OutputWritesReturn == \A c \in HOutputs : writeCalling(c) ~> (~writeCalling(c) \/ isOnError)

(* The close of a patch that succeeded lets the worker drain: it returns,  *)
(* with everything written, unless a write fails after all.                *)
OutputDrains ==
  (closing = "waitAll" /\ ~isOnError) ~>
    \/ isOnError
    \/ closing = "ended" /\ \A c \in HOutputs : Len(file[c]) = OutSize[c]
===========================================================================
