----------------------------- MODULE MTReader -----------------------------
(***************************************************************************)
(* The reading side that hinput_mt_t and hcache_old_mt_t share: the macro  *)
(* _DEF_hinput_mt_base_read of _patch_private_mt.h.  The caller takes data *)
(* buffers one at a time, copies out of the current one and gives it back  *)
(* to the free list once it is used up.                                    *)
(***************************************************************************)
EXTENDS MTBase

VARIABLES
  curDataBuf, curDataBuf_pos,
  rpc,        \* the caller inside read(): its program counter by component
  left,       \* out_data_end - out_data
  rErr,       \* the caller's local _isOnError
  outData     \* the bytes copied to the caller so far by this call

readerVars == <<curDataBuf, curDataBuf_pos, rpc, left, rErr, outData>>
readCalling(c) == rpc[c] \notin {"idle", "ok", "fail"}

ReaderInit ==
  /\ curDataBuf = [c \in Comp |-> NoBuf]
  /\ curDataBuf_pos = [c \in Comp |-> 0]
  /\ rpc = [c \in Comp |-> "idle"]
  /\ left = [c \in Comp |-> 0]
  /\ rErr = [c \in Comp |-> FALSE]
  /\ outData = [c \in Comp |-> <<>>]

(* The caller enters the loop of the macro with n bytes to read. *)
EnterRead(c, n) ==
  /\ left' = [left EXCEPT ![c] = n]
  /\ rErr' = [rErr EXCEPT ![c] = FALSE]
  /\ outData' = [outData EXCEPT ![c] = <<>>]
  /\ rpc' = [rpc EXCEPT ![c] = "loop"]
  /\ UNCHANGED <<curDataBuf, curDataBuf_pos, baseVars>>

(* Fault: an error is taken for the end of the data. *)
ReadLoopErrorIsEnd(c) ==
  /\ rpc[c] = "loop"
  /\ \/ /\ rErr[c] \/ left[c] = 0
        /\ rpc' = [rpc EXCEPT ![c] = "ok"]
        /\ UNCHANGED rErr
     \/ /\ ~rErr[c] /\ left[c] > 0
        /\ curDataBuf[c] = NoBuf
        /\ rErr' = [rErr EXCEPT ![c] = isOnError]
        /\ rpc' = [rpc EXCEPT ![c] = IF isOnError THEN "ok" ELSE "getBuf"]
  /\ UNCHANGED <<curDataBuf, curDataBuf_pos, left, outData, baseVars>>

(* while ((!_isOnError)&(out_data<out_data_end)): leave the loop, or test  *)
(* hpatch_mt_isOnError when there is no current buffer.                    *)
ReadLoop(c) ==
  /\ rpc[c] = "loop"
  /\ \/ /\ rErr[c] \/ left[c] = 0
        /\ rpc' = [rpc EXCEPT ![c] = IF rErr[c] THEN "fail" ELSE "ok"]
        /\ UNCHANGED rErr
     \/ /\ ~rErr[c] /\ left[c] > 0
        /\ curDataBuf[c] = NoBuf
        /\ rErr' = [rErr EXCEPT ![c] = isOnError]
        /\ rpc' = [rpc EXCEPT ![c] = IF isOnError THEN "fail" ELSE "getBuf"]
  /\ UNCHANGED <<curDataBuf, curDataBuf_pos, left, outData, baseVars>>

(* hpatch_mt_base_onceWaitABuf_ on the data list. *)
TakeData(c) ==
  /\ curDataBuf' = [curDataBuf EXCEPT ![c] = firstBuf(dataBufList[c])]
  /\ dataBufList' = [dataBufList EXCEPT ![c] = restBufs(@)]
  /\ rErr' = [rErr EXCEPT ![c] = baseOnError[c]]
  /\ rpc' = [rpc EXCEPT ![c] = "loop"]
  /\ UNCHANGED <<curDataBuf_pos, left, outData,
                 mtVars, freeBufList, baseOnError, waiters, workerVars, bufData>>

ReadGetBuf(c) ==
  /\ rpc[c] = "getBuf"
  /\ ~mustWait(c, dataBufList)
  /\ TakeData(c)

ReadWait(c) ==
  /\ rpc[c] = "getBuf"
  /\ mustWait(c, dataBufList)
  /\ WaitOn(c, Caller)
  /\ rpc' = [rpc EXCEPT ![c] = "waitBuf"]
  /\ UNCHANGED <<curDataBuf, curDataBuf_pos, left, rErr, outData,
                 mtVars, freeBufList, dataBufList, baseOnError, workerVars, bufData>>

ReadWake(c) ==
  /\ rpc[c] = "waitBuf"
  /\ Caller \notin waiters[c]
  /\ TakeData(c)

(* memcpy of what the current buffer still holds, at most what is asked. *)
ReadCopy(c) ==
  /\ rpc[c] = "loop"
  /\ ~rErr[c] /\ left[c] > 0
  /\ curDataBuf[c] # NoBuf
  /\ LET data == bufData[c][curDataBuf[c]]
         have == Len(data) - curDataBuf_pos[c]
         n    == IF have < left[c] THEN have ELSE left[c]
     IN /\ outData' = [outData EXCEPT ![c] =
                         @ \o SubSeq(data, curDataBuf_pos[c] + 1, curDataBuf_pos[c] + n)]
        /\ curDataBuf_pos' = [curDataBuf_pos EXCEPT ![c] = @ + n]
        /\ left' = [left EXCEPT ![c] = @ - n]
        /\ rpc' = [rpc EXCEPT ![c] = IF n = have THEN "release" ELSE "loop"]
  /\ UNCHANGED <<curDataBuf, rErr, baseVars>>

(* Fault: the caller keeps the buffer that it has given back. *)
ReadReleaseKeeps(c) ==
  /\ rpc[c] = "release"
  /\ freeBufList' = [freeBufList EXCEPT ![c] = pushABufAtHead(@, curDataBuf[c])]
  /\ Signal(c)
  /\ rErr' = [rErr EXCEPT ![c] = baseOnError[c]]
  /\ curDataBuf_pos' = [curDataBuf_pos EXCEPT ![c] = 0]
  /\ rpc' = [rpc EXCEPT ![c] = "loop"]
  /\ UNCHANGED <<curDataBuf, left, outData, mtVars, dataBufList, baseOnError, workerVars, bufData>>

(* hpatch_mt_base_pushABufAtHead_ of the used-up buffer to the free list. *)
ReadRelease(c) ==
  /\ rpc[c] = "release"
  /\ freeBufList' = [freeBufList EXCEPT ![c] = pushABufAtHead(@, curDataBuf[c])]
  /\ Signal(c)
  /\ rErr' = [rErr EXCEPT ![c] = baseOnError[c]]
  /\ curDataBuf' = [curDataBuf EXCEPT ![c] = NoBuf]
  /\ curDataBuf_pos' = [curDataBuf_pos EXCEPT ![c] = 0]
  /\ rpc' = [rpc EXCEPT ![c] = "loop"]
  /\ UNCHANGED <<left, outData, mtVars, dataBufList, baseOnError, workerVars, bufData>>

ReadStep(c) ==
  \/ ReadLoop(c) \/ ReadGetBuf(c) \/ ReadWait(c) \/ ReadWake(c)
  \/ ReadCopy(c) \/ ReadRelease(c)

(* The call returned; its caller goes on. *)
ReadReturned(c) ==
  /\ rpc[c] \in {"ok", "fail"}
  /\ rpc' = [rpc EXCEPT ![c] = "idle"]
  /\ UNCHANGED <<curDataBuf, curDataBuf_pos, left, rErr, outData>>

===========================================================================
