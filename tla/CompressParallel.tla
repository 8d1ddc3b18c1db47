-------------------------- MODULE CompressParallel ------------------------
(***************************************************************************)
(* parallel_compress_blocks (compress_parallel.cpp): the threads of a      *)
(* TMtByChannel (libParallel/parallel_channel.h) take work buffers from    *)
(* work_chan, read the next block under readLocker, compress it and write  *)
(* the compressed blocks in order under writeLocker.  The last thread of   *)
(* the pool is the main thread itself.                                     *)
(*                                                                         *)
(* Nobody tells the threads that all is done: a thread leaves with the     *)
(* buffer with which it found no block to read.                            *)
(*                                                                         *)
(* A byte of the input stands as its position.  read_chan and data_chan    *)
(* are never used here.  All channels of TMtByChannel are unbounded.       *)
(***************************************************************************)
EXTENDS Bytes, FiniteSets

CONSTANTS ThreadNum,      \* threadNum, already cut to blockCount
          BlockCount,
          BlockSize, BlockDictSize,
          InSize,         \* in_data->streamSize
          Fails,          \* what may fail: "start", "read", "compress", "write"
          Spurious        \* may condvar_wait return without a signal?

ASSUME CompressAssumption ==
  /\ ThreadNum \in Nat \ {0} /\ BlockSize \in Nat \ {0} /\ BlockDictSize \in Nat
  /\ InSize \in Nat /\ BlockCount = (InSize + BlockSize - 1) \div BlockSize
  /\ ThreadNum <= BlockCount
  /\ Fails \subseteq {"start", "read", "compress", "write"} /\ Spurious \in BOOLEAN

VARIABLES
  \* the channels
  dataList, isClosed, acceptWait,
  \* TMtByChannel
  isOnError, threadOn,
  \* TMt
  curReadBlockIndex, curWriteBlockIndex, dict, dataBufList,
  readLocker, writeLocker,   \* their owners
  out,                       \* the data of the blocks written to out_code
  \* a thread: its program counter, its buffer, where it goes after on_error
  pc, workBuf, errNext,
  \* the buffers: workIndex, the dictionary and the data
  workIndex, bufDict, bufBlock,
  \* the main thread outside of the pool
  starting, ret

chanVars   == <<dataList, isClosed, acceptWait>>
dataVars   == <<curReadBlockIndex, curWriteBlockIndex, dict, dataBufList, out>>
lockVars   == <<readLocker, writeLocker>>
bufVars    == <<workIndex, bufDict, bufBlock>>
threadVars == <<pc, workBuf, errNext>>
mainVars   == <<starting, ret>>
vars == <<chanVars, isOnError, threadOn, dataVars, lockVars, threadVars, bufVars, mainVars>>

Work == "work_chan"
End  == "_end_chan"
Chans == {Work, End}
Threads == 1..ThreadNum
Main == 0          \* the main thread outside of the pool
Nobody == ThreadNum + 1

workBufCount == ThreadNum + (ThreadNum + 2) \div 3
Bufs == 1..workBufCount
NoBuf == 0
lastOf(s, n) == SubSeq(s, Len(s) - n + 1, Len(s))

(* parallel_compress_blocks up to start_threads: every work buffer has     *)
(* been sent.                                                              *)
Init ==
  /\ dataList = [ch \in Chans |-> IF ch = Work THEN Run(1, workBufCount) ELSE <<>>]
  /\ isClosed = [ch \in Chans |-> FALSE] /\ acceptWait = [ch \in Chans |-> {}]
  /\ isOnError = FALSE /\ threadOn = 0
  /\ curReadBlockIndex = 0 /\ curWriteBlockIndex = 0
  /\ dict = <<>> /\ dataBufList = <<>> /\ out = <<>>
  /\ readLocker = Nobody /\ writeLocker = Nobody
  /\ pc = [t \in Threads \union {Main} |-> IF t = Main THEN "start" ELSE "none"]
  /\ workBuf = [t \in Threads |-> NoBuf]
  /\ errNext = [t \in Threads \union {Main} |-> "none"]
  /\ workIndex = [b \in Bufs |-> 0]
  /\ bufDict = [b \in Bufs |-> <<>>] /\ bufBlock = [b \in Bufs |-> <<>>]
  /\ starting = 1 /\ ret = "none"

goto(t, p) == pc' = [pc EXCEPT ![t] = p]

---------------------------------------------------------------------------
(* _CChannel_import, unbounded *)

(* send, when the channel is open: condvar_signal wakes one acceptor. *)
Send(ch, d) ==
  /\ ~isClosed[ch]
  /\ dataList' = [dataList EXCEPT ![ch] = Append(@, d)]
  /\ \/ acceptWait[ch] = {} /\ UNCHANGED acceptWait
     \/ \E t \in acceptWait[ch] : acceptWait' = [acceptWait EXCEPT ![ch] = @ \ {t}]
  /\ UNCHANGED isClosed

(* accept finds something; a closed channel still hands out what it has. *)
Accept(ch) ==
  /\ dataList[ch] # <<>>
  /\ dataList' = [dataList EXCEPT ![ch] = Tail(@)]
  /\ UNCHANGED <<isClosed, acceptWait>>

AcceptSleeps(ch, t) ==
  /\ dataList[ch] = <<>> /\ ~isClosed[ch] /\ t \notin acceptWait[ch]
  /\ acceptWait' = [acceptWait EXCEPT ![ch] = @ \union {t}]
  /\ UNCHANGED <<dataList, isClosed>>

(* Fault: close does not wake the acceptors. *)
CloseSilent(ch) ==
  /\ isClosed' = [isClosed EXCEPT ![ch] = TRUE]
  /\ UNCHANGED <<dataList, acceptWait>>

Close(ch) ==
  /\ isClosed' = [isClosed EXCEPT ![ch] = TRUE]
  /\ acceptWait' = [acceptWait EXCEPT ![ch] = IF isClosed[ch] THEN @ ELSE {}]
  /\ UNCHANGED dataList

---------------------------------------------------------------------------
(* TMtByChannel::on_error.  The test and the store are two steps; then     *)
(* work_chan is closed, and cleared one buffer at a time.                  *)

OnError(t) ==
  /\ pc[t] = "error"
  /\ goto(t, IF isOnError THEN "errorDone" ELSE "setError")
  /\ UNCHANGED <<chanVars, isOnError, threadOn, dataVars, lockVars, workBuf, errNext, bufVars,
                 mainVars>>

SetError(t) ==
  /\ pc[t] = "setError"
  /\ isOnError' = TRUE
  /\ goto(t, "close")
  /\ UNCHANGED <<chanVars, threadOn, dataVars, lockVars, workBuf, errNext, bufVars, mainVars>>

(* closeAndClear, also that of the destructor of TMtByChannel *)
CloseWork(t) ==
  /\ pc[t] = "close"
  /\ Close(Work)
  /\ goto(t, "clear")
  /\ UNCHANGED <<isOnError, threadOn, dataVars, lockVars, workBuf, errNext, bufVars, mainVars>>

ClearWork(t) ==
  /\ pc[t] = "clear"
  /\ \/ Accept(Work) /\ UNCHANGED pc
     \/ dataList[Work] = <<>> /\ goto(t, "errorDone") /\ UNCHANGED chanVars
  /\ UNCHANGED <<isOnError, threadOn, dataVars, lockVars, workBuf, errNext, bufVars, mainVars>>

(* on_error has returned: the break leaves the scope of the locker. *)
ErrorDone(t) ==
  /\ pc[t] = "errorDone"
  /\ goto(t, errNext[t])
  /\ readLocker' = IF readLocker = t THEN Nobody ELSE readLocker
  /\ writeLocker' = IF writeLocker = t THEN Nobody ELSE writeLocker
  /\ UNCHANGED <<chanVars, isOnError, threadOn, dataVars, workBuf, errNext, bufVars, mainVars>>

(* mt.on_error(); break; where the break leads to `next'. *)
checkFails(t, next) == goto(t, "error") /\ errNext' = [errNext EXCEPT ![t] = next]

---------------------------------------------------------------------------
(* _threadRunCallBack *)

AcceptWork(t) ==
  /\ pc[t] = "accept" /\ t \notin acceptWait[Work]
  /\ \/ /\ Accept(Work)
        /\ workBuf' = [workBuf EXCEPT ![t] = Head(dataList[Work])]
        /\ goto(t, "read")
     \/ /\ dataList[Work] = <<>> /\ isClosed[Work]
        /\ workBuf' = [workBuf EXCEPT ![t] = NoBuf]
        /\ goto(t, "end")
        /\ UNCHANGED chanVars
     \/ AcceptSleeps(Work, t) /\ UNCHANGED <<pc, workBuf>>
  /\ UNCHANGED <<isOnError, threadOn, dataVars, lockVars, errNext, bufVars, mainVars>>

(* Fault: the dictionary keeps only what the last block held. *)
nextDictOfBlock(d, block) ==
  lastOf(block, IF Len(block) >= BlockDictSize THEN BlockDictSize ELSE Len(block))

(* The dictionary for the next block: the end of dictionary and block. *)
nextDict(d, block) ==
  lastOf(d \o block, IF Len(block) + Len(d) >= BlockDictSize THEN BlockDictSize
                                                             ELSE Len(block) + Len(d))

blocksLeft == curReadBlockIndex < BlockCount

(* The critical section of readLocker. *)
ReadBlock(t) ==
  LET b      == workBuf[t]
      pos    == curReadBlockIndex * BlockSize
      size   == IF curReadBlockIndex + 1 < BlockCount THEN BlockSize ELSE InSize - pos
  IN /\ pc[t] = "read" /\ readLocker = Nobody
     /\ blocksLeft
     /\ bufDict' = [bufDict EXCEPT ![b] = dict]
     /\ bufBlock' = [bufBlock EXCEPT ![b] = Run(pos, size)]
     /\ workIndex' = [workIndex EXCEPT ![b] = curReadBlockIndex]
     /\ curReadBlockIndex' = curReadBlockIndex + 1
     /\ dict' = IF curReadBlockIndex + 1 < BlockCount THEN nextDict(dict, Run(pos, size))
                                                      ELSE dict
     /\ goto(t, "compress")
     /\ UNCHANGED <<chanVars, isOnError, threadOn, curWriteBlockIndex, dataBufList, out, lockVars,
                    workBuf, errNext, mainVars>>

(* No block is left: the thread leaves and its buffer with it. *)
ReadNothing(t) ==
  /\ pc[t] = "read" /\ readLocker = Nobody
  /\ ~blocksLeft
  /\ goto(t, "end")
  /\ UNCHANGED <<chanVars, isOnError, threadOn, dataVars, lockVars, workBuf, errNext, bufVars,
                 mainVars>>

(* in_data->read fails: on_error runs within readLocker. *)
ReadFails(t) ==
  /\ "read" \in Fails
  /\ pc[t] = "read" /\ readLocker = Nobody
  /\ blocksLeft
  /\ bufDict' = [bufDict EXCEPT ![workBuf[t]] = dict]
  /\ readLocker' = t
  /\ checkFails(t, "end")
  /\ UNCHANGED <<chanVars, isOnError, threadOn, dataVars, writeLocker, workBuf, workIndex, bufBlock,
                 mainVars>>

Compress(t) ==
  /\ pc[t] = "compress"
  /\ \/ goto(t, "write") /\ UNCHANGED errNext
     \/ "compress" \in Fails /\ checkFails(t, "end")
  /\ UNCHANGED <<chanVars, isOnError, threadOn, dataVars, lockVars, workBuf, bufVars, mainVars>>

(* Where the list of finished blocks takes one with index w. *)
insertAt(w) == Cardinality({i \in 1..Len(dataBufList) : workIndex[dataBufList[i]] < w})

(* writeLocker is entered and the block is put into the list. *)
PushBlock(t) ==
  LET n == insertAt(workIndex[workBuf[t]])
  IN /\ pc[t] = "write" /\ writeLocker = Nobody
     /\ writeLocker' = t
     /\ dataBufList' = SubSeq(dataBufList, 1, n) \o <<workBuf[t]>>
                         \o SubSeq(dataBufList, n + 1, Len(dataBufList))
     /\ workBuf' = [workBuf EXCEPT ![t] = NoBuf]
     /\ goto(t, "flush")
     /\ UNCHANGED <<chanVars, isOnError, threadOn, curReadBlockIndex, curWriteBlockIndex, dict,
                    out, readLocker, errNext, bufVars, mainVars>>

(* The first of the finished blocks is the next one to write. *)
mayWrite == dataBufList # <<>> /\ workIndex[Head(dataBufList)] = curWriteBlockIndex

(* Fault: the index moves although the write failed. *)
WriteBlockCounts(t) ==
  /\ pc[t] = "flush" /\ mayWrite
  /\ workBuf' = [workBuf EXCEPT ![t] = Head(dataBufList)]
  /\ dataBufList' = Tail(dataBufList)
  /\ curWriteBlockIndex' = curWriteBlockIndex + 1
  /\ \/ /\ out' = out \o bufBlock[Head(dataBufList)]
        /\ goto(t, "sendBack") /\ UNCHANGED errNext
     \/ /\ "write" \in Fails /\ checkFails(t, "accept") /\ UNCHANGED out
  /\ UNCHANGED <<chanVars, isOnError, threadOn, curReadBlockIndex, dict, lockVars, bufVars,
                 mainVars>>

(* The next block is taken from the list and written to out_code.  The     *)
(* break of a failed check leaves the inner loop only.                     *)
WriteBlock(t) ==
  /\ pc[t] = "flush" /\ mayWrite
  /\ workBuf' = [workBuf EXCEPT ![t] = Head(dataBufList)]
  /\ dataBufList' = Tail(dataBufList)
  /\ \/ /\ out' = out \o bufBlock[Head(dataBufList)]
        /\ curWriteBlockIndex' = curWriteBlockIndex + 1
        /\ goto(t, "sendBack") /\ UNCHANGED errNext
     \/ /\ "write" \in Fails /\ checkFails(t, "accept") /\ UNCHANGED <<out, curWriteBlockIndex>>
  /\ UNCHANGED <<chanVars, isOnError, threadOn, curReadBlockIndex, dict, lockVars, bufVars,
                 mainVars>>

(* Fault: the written buffer does not go back. *)
SendBackForgets(t) ==
  /\ pc[t] = "sendBack"
  /\ goto(t, "flush")
  /\ workBuf' = [workBuf EXCEPT ![t] = NoBuf]
  /\ UNCHANGED <<chanVars, isOnError, threadOn, dataVars, lockVars, errNext, bufVars, mainVars>>

(* The written buffer goes back to work_chan. *)
SendBack(t) ==
  /\ pc[t] = "sendBack"
  /\ \/ Send(Work, workBuf[t]) /\ goto(t, "flush") /\ UNCHANGED errNext
     \/ isClosed[Work] /\ checkFails(t, "accept") /\ UNCHANGED chanVars
  /\ workBuf' = [workBuf EXCEPT ![t] = NoBuf]
  /\ UNCHANGED <<isOnError, threadOn, dataVars, lockVars, bufVars, mainVars>>

FlushDone(t) ==
  /\ pc[t] = "flush" /\ ~mayWrite
  /\ writeLocker' = Nobody
  /\ goto(t, "accept")
  /\ UNCHANGED <<chanVars, isOnError, threadOn, dataVars, readLocker, workBuf, errNext, bufVars,
                 mainVars>>

(* ~TAutoThreadEnd; the thread of the pool's last index goes on as main. *)
ThreadEnd(t) ==
  /\ pc[t] = "end"
  /\ Send(End, t)
  /\ goto(t, "done")
  /\ UNCHANGED <<isOnError, threadOn, dataVars, lockVars, workBuf, errNext, bufVars, mainVars>>

PoolThread(t) ==
  \/ OnError(t) \/ SetError(t) \/ CloseWork(t) \/ ClearWork(t) \/ ErrorDone(t)
  \/ AcceptWork(t) \/ ReadBlock(t) \/ ReadNothing(t) \/ ReadFails(t) \/ Compress(t)
  \/ PushBlock(t) \/ WriteBlock(t) \/ SendBack(t) \/ FlushDone(t) \/ ThreadEnd(t)

---------------------------------------------------------------------------
(* The main thread: start_threads, wait_all_thread_end, the destructor *)

StartThread ==
  /\ pc[Main] = "start" /\ starting <= ThreadNum
  /\ pc' = [pc EXCEPT ![starting] = "accept",
                      ![Main] = IF starting = ThreadNum THEN "run" ELSE "start"]
  /\ threadOn' = threadOn + 1
  /\ starting' = starting + 1
  /\ UNCHANGED <<chanVars, isOnError, dataVars, lockVars, workBuf, errNext, bufVars, ret>>

(* thread_parallel throws: the counter is taken back, and on_error. *)
StartFails ==
  /\ "start" \in Fails
  /\ pc[Main] = "start" /\ starting < ThreadNum
  /\ checkFails(Main, "waitEnd")
  /\ UNCHANGED <<chanVars, isOnError, threadOn, dataVars, lockVars, workBuf, bufVars, mainVars>>

(* The thread function has returned in the main thread. *)
RunDone ==
  /\ pc[Main] = "run" /\ pc[ThreadNum] = "done"
  /\ goto(Main, "waitEnd")
  /\ UNCHANGED <<chanVars, isOnError, threadOn, dataVars, lockVars, workBuf, errNext, bufVars,
                 mainVars>>

(* wait_all_thread_end; then the result, and the destructor's              *)
(* closeAndClear.                                                          *)
WaitEnd ==
  /\ pc[Main] = "waitEnd"
  /\ \/ /\ threadOn > 0
        /\ threadOn' = threadOn - 1
        /\ goto(Main, "endAccept")
        /\ UNCHANGED <<errNext, ret>>
     \/ /\ threadOn = 0
        /\ ret' = IF isOnError THEN "0" ELSE "outCodePos"
        /\ goto(Main, "close") /\ errNext' = [errNext EXCEPT ![Main] = "returned"]
        /\ UNCHANGED threadOn
  /\ UNCHANGED <<chanVars, isOnError, dataVars, lockVars, workBuf, bufVars, starting>>

(* Fault: an end is counted when the accept only starts. *)
EndAcceptUnwaited ==
  /\ pc[Main] = "endAccept"
  /\ goto(Main, "waitEnd")
  /\ dataList' = [dataList EXCEPT ![End] = IF @ = <<>> THEN @ ELSE Tail(@)]
  /\ UNCHANGED <<isClosed, acceptWait, isOnError, threadOn, dataVars, lockVars, workBuf, errNext,
                 bufVars, mainVars>>

EndAccept ==
  /\ pc[Main] = "endAccept" /\ Main \notin acceptWait[End]
  /\ \/ Accept(End) /\ goto(Main, "waitEnd")
     \/ AcceptSleeps(End, Main) /\ UNCHANGED pc
  /\ UNCHANGED <<isOnError, threadOn, dataVars, lockVars, workBuf, errNext, bufVars, mainVars>>

MainThread ==
  \/ OnError(Main) \/ SetError(Main) \/ CloseWork(Main) \/ ClearWork(Main) \/ ErrorDone(Main)
  \/ StartThread \/ StartFails \/ RunDone \/ WaitEnd \/ EndAccept

SpuriousWake ==
  /\ Spurious
  /\ \E ch \in Chans : \E t \in acceptWait[ch] :
       acceptWait' = [acceptWait EXCEPT ![ch] = @ \ {t}]
  /\ UNCHANGED <<dataList, isClosed, isOnError, threadOn, dataVars, lockVars, threadVars, bufVars,
                 mainVars>>

Next == (\E t \in Threads : PoolThread(t)) \/ MainThread \/ SpuriousWake
Spec == Init /\ [][Next]_vars

(* Every thread that can take a step eventually takes one. *)
Fairness == (\A t \in Threads : WF_vars(PoolThread(t))) /\ WF_vars(MainThread)
FairSpec == Spec /\ Fairness

---------------------------------------------------------------------------
(* Properties *)

AtMostOneOwner ==
  /\ NoRepeat(dataList[Work]) /\ NoRepeat(dataBufList)
  /\ \A b \in Bufs :
       /\ ~(InList(b, dataList[Work]) /\ InList(b, dataBufList))
       /\ \A t \in Threads : workBuf[t] = b =>
            /\ ~InList(b, dataList[Work]) /\ ~InList(b, dataBufList)
            /\ \A u \in Threads \ {t} : workBuf[u] # b

HasOwner(b) == InList(b, dataList[Work]) \/ InList(b, dataBufList) \/ \E t \in Threads : workBuf[t] = b

(* A work buffer is in one place at a time: in work_chan, in the list of   *)
(* finished blocks, or with one thread, whatever fails; two threads would  *)
(* compress into the same memory otherwise.  And it is in one of them as   *)
(* long as on_error has not marked the pool and the function has no        *)
(* result: with a buffer gone the others would wait for it for ever.  Only *)
(* after an error may buffers go, with the cleared channel, the failed     *)
(* write or the closed channel that does not take them back.               *)
CompressBufsOwnedOnce ==
  AtMostOneOwner /\ (isOnError \/ ret # "none" \/ \A b \in Bufs : HasOwner(b))

(* The dictionary that a block is compressed with is the data just before  *)
(* it, as much of it as there is and blockDictSize allows, although the    *)
(* blocks are read by different threads.                                   *)
CompressDictIsDataBefore ==
  \A t \in Threads : pc[t] = "compress" =>
    LET b   == workBuf[t]
        pos == workIndex[b] * BlockSize
        n   == IF pos < BlockDictSize THEN pos ELSE BlockDictSize
    IN bufDict[b] = Run(pos - n, n)

(* out_code gets the blocks in order, without a gap and with the data that *)
(* was read for them, also after an error; the size is returned only when  *)
(* all of the input is written.                                            *)
CompressWritesInOrder ==
  /\ out = Run(0, IF curWriteBlockIndex < BlockCount THEN curWriteBlockIndex * BlockSize
                                                      ELSE InSize)
  /\ ret = "outCodePos" => curWriteBlockIndex = BlockCount

(* When the function returns no thread of the pool is left that could use  *)
(* its memory, and the channels are empty, as the assert of                *)
(* ~_CChannel_import demands.                                              *)
CompressQuietAtReturn ==
  pc[Main] = "returned" =>
    /\ \A t \in Threads : pc[t] \in {"none", "done"}
    /\ \A ch \in Chans : dataList[ch] = <<>> /\ acceptWait[ch] = {}

(* The function returns, whatever fails and whenever: the threads find out *)
(* that all is done by the buffers alone, and an error reaches everyone.   *)
CompressReturns == <>(pc[Main] = "returned")
===========================================================================
