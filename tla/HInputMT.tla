----------------------------- MODULE HInputMT -----------------------------
(***************************************************************************)
(* hinput_mt_t (_hinput_mt.c): a stream whose base stream is read ahead,   *)
(* or decompressed ahead, by a worker thread.  The module describes any    *)
(* number of such components (HInputs) on one hpatch_mt_t.                 *)
(*                                                                         *)
(* Positions are relative to the first byte that the component reads, and  *)
(* a byte is represented by its position, so that outData shows which      *)
(* bytes the caller really got.                                            *)
(***************************************************************************)
EXTENDS MTReader

CONSTANTS HInputs,     \* the hinput_mt_t components among Comp
          StreamSize,  \* base.streamSize of each of them
          MaxRead      \* the largest single read of the caller

ASSUME HInputAssumption ==
  /\ HInputs \subseteq Comp
  /\ StreamSize \in [HInputs -> Nat]
  /\ MaxRead \in Nat

VARIABLES curReadPos,   \* what the worker has taken from the base stream
          curOutedPos   \* what read() has accepted to hand out

hinputVars == <<curReadPos, curOutedPos>>
inputVars == <<baseVars, readerVars, hinputVars>>

---------------------------------------------------------------------------
(* hinput_thread_ *)

InputLoop(c) ==
  /\ pc[c] = "loop"
  /\ pc' = [pc EXCEPT ![c] =
              IF ~isOnFinish /\ ~tErr[c] /\ curReadPos[c] < StreamSize[c]
              THEN "getBuf" ELSE "end"]
  /\ UNCHANGED <<mtVars, listVars, wbuf, tErr, bufData, readerVars, hinputVars>>

InputGetBuf(c) == WorkerGetFree(c, "fill", "loop") /\ UNCHANGED <<readerVars, hinputVars>>
InputWaitBuf(c) == WorkerWaitFree(c) /\ UNCHANGED <<readerVars, hinputVars>>
InputWakeBuf(c) == WorkerWakeFree(c, "fill", "loop") /\ UNCHANGED <<readerVars, hinputVars>>

(* Fault: the last read is not cut at streamSize. *)
InputReadADataWhole(c) ==
  /\ pc[c] = "fill"
  /\ curReadPos' = [curReadPos EXCEPT ![c] = @ + WorkBufSize]
  /\ bufData' = [bufData EXCEPT ![c][wbuf[c]] = Run(curReadPos[c], WorkBufSize)]
  /\ pc' = [pc EXCEPT ![c] = "filling"]
  /\ UNCHANGED <<mtVars, listVars, wbuf, tErr, readerVars, curOutedPos>>

(* _hinput_mt_readAData up to the read or decompress call.  The bytes are  *)
(* in the buffer when the call returns; nobody looks at it before.         *)
InputReadAData(c) ==
  LET rest == StreamSize[c] - curReadPos[c]
      n    == IF WorkBufSize > rest THEN rest ELSE WorkBufSize
  IN /\ pc[c] = "fill"
     /\ curReadPos' = [curReadPos EXCEPT ![c] = @ + n]
     /\ bufData' = [bufData EXCEPT ![c][wbuf[c]] = Run(curReadPos[c], n)]
     /\ pc' = [pc EXCEPT ![c] = "filling"]
     /\ UNCHANGED <<mtVars, listVars, wbuf, tErr, readerVars, curOutedPos>>

(* The read or decompress call returns. *)
InputReadDone(c, ok) ==
  /\ pc[c] = "filling"
  /\ pc' = [pc EXCEPT ![c] = IF ok THEN "push" ELSE "setErr"]
  /\ UNCHANGED <<mtVars, listVars, wbuf, tErr, bufData, readerVars, hinputVars>>

InputPush(c) ==
  /\ pc[c] = "push"
  /\ WorkerPushData(c, "loop")
  /\ UNCHANGED <<readerVars, hinputVars>>

InputError(c) ==
  /\ SetBaseOnError(c) \/ SetMtOnError(c, "loop")
  /\ UNCHANGED <<readerVars, hinputVars>>

InputEnd(c) == ThreadEnd(c) /\ UNCHANGED <<readerVars, hinputVars>>

(* Every step of the worker but the return of the read it waits for. *)
InputWorker(c) ==
  \/ InputLoop(c) \/ InputGetBuf(c) \/ InputWaitBuf(c) \/ InputWakeBuf(c)
  \/ InputReadAData(c) \/ InputPush(c) \/ InputError(c) \/ InputEnd(c)

---------------------------------------------------------------------------
(* hinput_mt_read_: the position is advanced before anything is copied. *)
InputRead(c, pos, n) ==
  /\ rpc[c] = "idle"
  /\ \/ /\ curOutedPos[c] = pos /\ pos + n <= StreamSize[c]
        /\ curOutedPos' = [curOutedPos EXCEPT ![c] = @ + n]
        /\ EnterRead(c, n)
     \/ /\ curOutedPos[c] # pos \/ pos + n > StreamSize[c]
        /\ curOutedPos' = [curOutedPos EXCEPT ![c] = IF @ = pos THEN @ + n ELSE @]
        /\ rpc' = [rpc EXCEPT ![c] = "fail"]
        /\ UNCHANGED <<curDataBuf, curDataBuf_pos, left, rErr, outData, baseVars>>
  /\ UNCHANGED curReadPos

(* hinput_mt_close's result *)
inputCloseResult(c) == ~baseOnError[c] /\ curOutedPos[c] = StreamSize[c]

---------------------------------------------------------------------------
(* The component alone: one caller that reads on until a call fails, other *)
(* components that may fail, and the close of hpatch_mt_t.                 *)

InputInit ==
  /\ BaseInit(Cardinality(Comp), "loop")
  /\ ReaderInit
  /\ curReadPos = [c \in HInputs |-> 0]
  /\ curOutedPos = [c \in HInputs |-> 0]

InputCallerReads(c) ==
  /\ closing = "no"
  /\ \E n \in 1..MaxRead : \E pos \in {curOutedPos[c], curOutedPos[c] + 1} :
       (Fails \/ (pos = curOutedPos[c] /\ pos + n <= StreamSize[c])) /\ InputRead(c, pos, n)

InputCallerStep(c) == ReadStep(c) /\ UNCHANGED hinputVars

InputCallerReturns(c) == rpc[c] = "ok" /\ ReadReturned(c) /\ UNCHANGED <<baseVars, hinputVars>>

(* patch_single_stream_diff has returned: the caller closes, with success  *)
(* only when it has read everything.                                       *)
InputClose ==
  /\ \A c \in HInputs : ~readCalling(c)
  /\ \/ /\ Fails
        /\ WaitAllThreadEnd(TRUE)
     \/ /\ \A c \in HInputs : rpc[c] # "fail" /\ curOutedPos[c] = StreamSize[c]
        /\ WaitAllThreadEnd(FALSE)
  /\ UNCHANGED <<readerVars, hinputVars>>

InputClosed == AllThreadsEnded /\ UNCHANGED <<readerVars, hinputVars>>

(* A component outside this module reports its error to hpatch_mt_t. *)
InputOtherError ==
  /\ Fails /\ closing # "ended"
  /\ setOnError
  /\ UNCHANGED <<runningThreads, closing, freeBufList, dataBufList, baseOnError,
                 workerVars, bufData, readerVars, hinputVars>>

InputWorkerNext(c) ==
  \/ InputWorker(c)
  \/ \E ok \in {TRUE, ~Fails} : InputReadDone(c, ok)

InputCallerNext ==
  \/ \E c \in HInputs : InputCallerReads(c) \/ InputCallerStep(c) \/ InputCallerReturns(c)
  \/ InputClose \/ InputClosed

InputSpurious == \E c \in HInputs : SpuriousWake(c) /\ UNCHANGED <<readerVars, hinputVars>>

(* Everything has been closed: nothing is left to do. *)
InputDone == closing = "ended" /\ UNCHANGED inputVars

InputNext ==
  \/ \E c \in HInputs : InputWorkerNext(c)
  \/ InputCallerNext \/ InputOtherError \/ InputSpurious \/ InputDone

InputSpec == InputInit /\ [][InputNext]_inputVars

(* Every thread that can take a step eventually takes one. *)
InputFairness == (\A c \in HInputs : WF_inputVars(InputWorkerNext(c))) /\ WF_inputVars(InputCallerNext)
InputFairSpec == InputSpec /\ InputFairness

---------------------------------------------------------------------------
(* Properties *)

InputWorkerPC == {"loop", "getBuf", "waitBuf", "fill", "filling", "push",
                  "setErr", "setMtErr", "end", "done"}
InputReaderPC == {"idle", "loop", "getBuf", "waitBuf", "release", "ok", "fail"}

(* The variables of hpatch_mt_t, of hpatch_mt_base_t and of hinput_mt_t    *)
(* keep their types; in particular the worker never reads past streamSize. *)
InputTypeOK ==
  /\ isOnFinish \in BOOLEAN /\ isOnError \in BOOLEAN
  /\ runningThreads \in Nat /\ closing \in {"no", "waitAll", "ended"}
  /\ freeBufList \in [Comp -> Seq(Bufs)] /\ dataBufList \in [Comp -> Seq(Bufs)]
  /\ baseOnError \in [Comp -> BOOLEAN]
  /\ waiters \in [Comp -> SUBSET {Worker, Caller}]
  /\ pc \in [Comp -> InputWorkerPC]
  /\ wbuf \in [Comp -> Bufs \union {NoBuf}] /\ tErr \in [Comp -> BOOLEAN]
  /\ bufData \in [Comp -> [Bufs -> Seq(Nat)]]
  /\ curDataBuf \in [Comp -> Bufs \union {NoBuf}] /\ curDataBuf_pos \in [Comp -> Nat]
  /\ rpc \in [Comp -> InputReaderPC] /\ left \in [Comp -> Nat] /\ rErr \in [Comp -> BOOLEAN]
  /\ outData \in [Comp -> Seq(Nat)]
  /\ curReadPos \in [HInputs -> Nat] /\ curOutedPos \in [HInputs -> Nat]
  /\ \A c \in HInputs : curReadPos[c] <= StreamSize[c]

(* Every work buffer has exactly one owner, whatever fails and whenever:   *)
(* the free list, the data list, the worker or the caller.  No buffer is   *)
(* lost (the pipeline would stall) and none is in two hands (one thread    *)
(* would overwrite what the other reads).                                  *)
InputBufOwnership(c) ==
  /\ NoRepeat(freeBufList[c]) /\ NoRepeat(dataBufList[c])
  /\ \A b \in Bufs :
       /\ ~(InList(b, freeBufList[c]) /\ InList(b, dataBufList[c]))
       /\ b = wbuf[c] => ~InList(b, freeBufList[c]) /\ ~InList(b, dataBufList[c])
                          /\ b # curDataBuf[c]
       /\ b = curDataBuf[c] => ~InList(b, freeBufList[c]) /\ ~InList(b, dataBufList[c])
       /\ \/ InList(b, freeBufList[c]) \/ InList(b, dataBufList[c])
          \/ b = wbuf[c] \/ b = curDataBuf[c]
InputBufsOwnedOnce == \A c \in HInputs : InputBufOwnership(c)

(* Producer and consumer share one condition variable and wake each other  *)
(* with c_condvar_signal, not broadcast: still no one sleeps while the     *)
(* buffer it sleeps for is there, and they never both sleep.               *)
InputNoSleepOverWork ==
  \A c \in HInputs :
    /\ Worker \in waiters[c] => freeBufList[c] = <<>>
    /\ Caller \in waiters[c] => dataBufList[c] = <<>>
    /\ waiters[c] # {Worker, Caller}

(* What the callers see are sequential streams: hinput_mt_t implements     *)
(* ByteStream, whose bytes are handed out by the copies out of the data    *)
(* buffers.                                                                *)
givenPos == [c \in HInputs |-> curOutedPos[c] - left[c]]
givenData == [c \in HInputs |-> outData[c]]
stillWanted == [c \in HInputs |-> left[c]]
callState == [c \in HInputs |-> IF readCalling(c) THEN "busy" ELSE rpc[c]]
Stream == INSTANCE ByteStream WITH
            Streams <- HInputs, Size <- StreamSize,
            pos <- givenPos, call <- callState, want <- stillWanted, got <- givenData
InputIsByteStream == Stream!Spec

(* As long as hpatch_mt_t is not on error every call returns: a read,      *)
(* because worker and caller always wake each other, and the close of a    *)
(* patch that succeeded, which finds the worker anywhere on its way out of *)
(* hinput_thread_.                                                         *)
InputCallsReturn ==
  /\ \A c \in HInputs : readCalling(c) ~> (~readCalling(c) \/ isOnError)
  /\ (closing = "waitAll" /\ ~isOnError) ~> closing = "ended"

(* hpatch_mt_close: "finish & wait all threads end & free self". *)
InputCloseReturns == closing = "waitAll" ~> closing = "ended"

(* After an error of the component itself (hpatch_mt_base_setOnError_      *)
(* broadcasts under the component's locker) a read never hangs.            *)
InputOwnErrorReleases == \A c \in HInputs : baseOnError[c] ~> ~readCalling(c)
===========================================================================
