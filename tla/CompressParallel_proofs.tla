---------------------- MODULE CompressParallel_proofs ---------------------
(***************************************************************************)
(* Proofs about parallel_compress_blocks for any number of threads, any    *)
(* input and any sizes of blocks and dictionary, whatever fails.           *)
(***************************************************************************)
EXTENDS CompressParallel, Bytes_proofs, FiniteSetTheorems

---------------------------------------------------------------------------
(* The inductive invariant *)

All == Threads \union {Main}
ErrorPC == {"error", "setError", "close", "clear", "errorDone"}
PoolPC == {"none", "accept", "read", "compress", "write", "flush", "sendBack", "end", "done"}
            \union ErrorPC
MainPC == {"start", "run", "waitEnd", "endAccept", "returned"} \union ErrorPC

(* The variables keep their types. *)
TypeOK ==
  /\ dataList \in [Chans -> Seq(Nat)]
  /\ dataList[Work] \in Seq(Bufs)
  /\ isClosed \in [Chans -> BOOLEAN]
  /\ acceptWait \in [Chans -> SUBSET All]
  /\ isOnError \in BOOLEAN /\ threadOn \in Nat
  /\ curReadBlockIndex \in 0..BlockCount /\ curWriteBlockIndex \in Nat
  /\ dict \in Seq(Nat) /\ dataBufList \in Seq(Bufs) /\ out \in Seq(Nat)
  /\ readLocker \in Threads \union {Nobody} /\ writeLocker \in Threads \union {Nobody}
  /\ pc \in [All -> PoolPC \union MainPC] /\ pc[Main] \in MainPC
  /\ \A t \in Threads : pc[t] \in PoolPC
  /\ workBuf \in [Threads -> Bufs \union {NoBuf}]
  /\ errNext \in [All -> {"none", "end", "accept", "waitEnd", "returned"}]
  /\ workIndex \in [Bufs -> Nat]
  /\ bufDict \in [Bufs -> Seq(Nat)] /\ bufBlock \in [Bufs -> Seq(Nat)]
  /\ starting \in 1..(ThreadNum + 1) /\ ret \in {"none", "0", "outCodePos"}

(* Where a thread has a buffer, and where on_error leads back to. *)
Phases ==
  /\ \A t \in Threads :
       /\ pc[t] \in {"read", "compress", "write", "sendBack"} => workBuf[t] \in Bufs
       /\ pc[t] \in ErrorPC => errNext[t] \in {"end", "accept"}
  /\ pc[Main] \in ErrorPC => errNext[Main] \in {"waitEnd", "returned"}

(* The threads that have started and not ended, and those that start_threads *)
(* has counted and wait_all_thread_end has not yet waited for.               *)
Live == {t \in Threads : pc[t] \notin {"none", "done"}}
Awaited == threadOn + (IF pc[Main] = "endAccept" THEN 1 ELSE 0)

PoolInv ==
  /\ Awaited = Cardinality(Live) + Len(dataList[End])
  /\ pc[Main] = "start" =>
       starting <= ThreadNum /\ \A t \in Threads : t >= starting => pc[t] = "none"
  /\ \A t \in acceptWait[Work] : t \in Threads /\ pc[t] = "accept"
  /\ \A t \in acceptWait[End] : t = Main /\ pc[t] = "endAccept"
  /\ ret # "none" <=> \/ pc[Main] = "returned"
                      \/ pc[Main] \in {"close", "clear", "errorDone"} /\ errNext[Main] = "returned"
  /\ pc[Main] \in {"error", "setError"} => errNext[Main] = "waitEnd"
  /\ ret # "none" => Live = {} /\ dataList[End] = <<>>
  /\ ret # "none" /\ pc[Main] \in {"errorDone", "returned"} => dataList[Work] = <<>>

(* Someone is on the way into on_error or has been there. *)
Erring == isOnError \/ \E t \in All : pc[t] \in {"error", "setError"}

ErrorInv ==
  /\ \A t \in Threads : pc[t] \in {"close", "clear", "errorDone"} => isOnError
  /\ pc[Main] \in {"close", "clear", "errorDone"} /\ errNext[Main] = "waitEnd" => isOnError
  /\ isClosed[Work] => isOnError \/ ret # "none"

(* The block with index k. *)
blockSize(k) == IF k + 1 < BlockCount THEN BlockSize ELSE InSize - k * BlockSize
block(k) == Run(k * BlockSize, blockSize(k))
dictBefore(k) == LET pos == k * BlockSize
                     n   == IF pos < BlockDictSize THEN pos ELSE BlockDictSize
                 IN  Run(pos - n, n)

(* A buffer with a block that is neither written nor lost by an error. *)
Carried(t) == pc[t] \in {"compress", "write"}
InFlight(b) == InList(b, dataBufList) \/ \E t \in Threads : Carried(t) /\ workBuf[t] = b

DataInv ==
  /\ curWriteBlockIndex <= curReadBlockIndex
  /\ blocksLeft => dict = dictBefore(curReadBlockIndex)
  /\ CompressDictIsDataBefore
  /\ \A b \in Bufs : InFlight(b) =>
       /\ workIndex[b] \in curWriteBlockIndex..(curReadBlockIndex - 1)
       /\ bufBlock[b] = block(workIndex[b])
  /\ \A b1, b2 \in Bufs :
       InFlight(b1) /\ InFlight(b2) /\ workIndex[b1] = workIndex[b2] => b1 = b2
  /\ out = Run(0, IF curWriteBlockIndex < BlockCount THEN curWriteBlockIndex * BlockSize
                                                      ELSE InSize)

Sorted ==
  \A i, j \in 1..Len(dataBufList) :
    i < j => workIndex[dataBufList[i]] < workIndex[dataBufList[j]]

LockInv ==
  \A t \in Threads :
    /\ pc[t] \in {"flush", "sendBack"} => writeLocker = t
    /\ writeLocker = t => pc[t] \in {"flush", "sendBack"} \union ErrorPC

(* Without an error no block is lost, a thread ends only after the last    *)
(* block is read, and who leaves writeLocker has written what can be       *)
(* written.                                                                *)
WholeInv ==
  \/ Erring
  \/ /\ \A k \in curWriteBlockIndex..(curReadBlockIndex - 1) :
          \E b \in Bufs : InFlight(b) /\ workIndex[b] = k
     /\ \A t \in Threads : pc[t] \in {"end", "done"} => ~blocksLeft
     /\ writeLocker = Nobody => ~mayWrite
     /\ pc[Main] # "start" => pc[ThreadNum] # "none"

ResultInv == ret = "outCodePos" => curWriteBlockIndex = BlockCount

IInv ==
  /\ TypeOK /\ Phases /\ AtMostOneOwner /\ PoolInv /\ ErrorInv
  /\ DataInv /\ Sorted /\ LockInv /\ WholeInv /\ ResultInv

---------------------------------------------------------------------------
(* The constants *)

(* What the steps of the proofs use about the constants. *)
LEMMA Constants ==
  /\ ThreadNum \in Nat \ {0} /\ BlockSize \in Nat \ {0} /\ BlockDictSize \in Nat /\ InSize \in Nat
  /\ Main \notin Threads /\ Nobody \notin Threads /\ ThreadNum \in Threads
  /\ Threads \subseteq Nat /\ Threads \subseteq All /\ Main \in All
  /\ Bufs \subseteq Nat /\ NoBuf \notin Bufs
  /\ Work \in Chans /\ End \in Chans /\ Work # End
<1>1. ThreadNum \in Nat \ {0} /\ BlockSize \in Nat \ {0} /\ BlockDictSize \in Nat /\ InSize \in Nat
  BY CompressAssumption DEF CompressAssumption
<1>2. /\ Main \notin Threads /\ Nobody \notin Threads /\ ThreadNum \in Threads
      /\ Threads \subseteq Nat /\ Threads \subseteq All /\ Main \in All
  BY <1>1 DEF Main, Nobody, Threads, All
<1>3. /\ Bufs \subseteq Nat /\ NoBuf \notin Bufs
  BY DEF Bufs, NoBuf
<1> QED
  BY <1>1, <1>2, <1>3 DEF Chans, Work, End

(* The last block begins within the input and ends with it. *)
LEMMA BlocksCover ==
  /\ BlockCount \in Nat \ {0}
  /\ InSize <= BlockCount * BlockSize
  /\ BlockCount * BlockSize < InSize + BlockSize
<1>1. /\ BlockCount = (InSize + BlockSize - 1) \div BlockSize /\ BlockSize \in Nat \ {0}
      /\ InSize \in Nat /\ ThreadNum \in Nat \ {0} /\ ThreadNum <= BlockCount
  BY CompressAssumption DEF CompressAssumption
<1> DEFINE s == InSize + BlockSize - 1
           r == s % BlockSize
<1>2. s \in Nat /\ s = BlockSize * (s \div BlockSize) + r /\ r \in 0..(BlockSize - 1)
      /\ s \div BlockSize \in Int
  BY <1>1
<1> QED
  BY <1>1, <1>2

(* Blocks follow one another. *)
LEMMA BlockBounds ==
  ASSUME NEW k \in 0..(BlockCount - 1)
  PROVE  /\ k * BlockSize \in Nat /\ blockSize(k) \in Nat
         /\ k + 1 < BlockCount => (k + 1) * BlockSize = k * BlockSize + blockSize(k)
         /\ k + 1 = BlockCount => InSize = k * BlockSize + blockSize(k)
<1>1. /\ BlockCount \in Nat /\ BlockSize \in Nat /\ InSize \in Nat /\ k \in Nat
      /\ BlockCount * BlockSize < InSize + BlockSize
  BY BlocksCover, Constants
<1>2. k * BlockSize \in Nat /\ (k + 1) * BlockSize = k * BlockSize + BlockSize
  BY <1>1
<1>3. k + 1 = BlockCount => k * BlockSize < InSize
  BY <1>1, <1>2
<1>4. k + 1 <= BlockCount
  BY <1>1
<1> QED
  BY <1>1, <1>2, <1>3, <1>4 DEF blockSize

(* The end of a run is a run, also when nothing of it is kept. *)
LEMMA RunLast ==
  ASSUME NEW p \in Nat, NEW k \in Nat, NEW n \in 0..k
  PROVE  lastOf(Run(p, k), n) = Run(p + (k - n), n)
<1>1. Len(Run(p, k)) = k
  BY RunBytes
<1>2. PICK q \in Nat : q = k - n
  OBVIOUS
<1>3. CASE n = 0
  <2>1. SubSeq(Run(p, k), k + 1, k) = <<>>
    BY <1>1, RunBytes, EmptySeq
  <2>2. Run(p + (k - n), 0) = <<>>
    <3>1. p + (k - n) \in Nat
      OBVIOUS
    <3> QED
      BY <3>1, RunEmpty
  <2>3. k - n + 1 = k + 1
    BY <1>3
  <2> QED
    BY <1>1, <1>3, <2>1, <2>2, <2>3 DEF lastOf
<1>4. CASE n # 0
  <2>1. SubSeq(Run(p, k), q + 1, q + n) = Run(p + q, n)
    <3>1. n \in Nat \ {0} /\ q + n <= k
      BY <1>2, <1>4
    <3> QED
      BY <3>1, RunPart
  <2>2. q + 1 = k - n + 1 /\ q + n = k
    BY <1>2
  <2> QED
    BY <1>1, <1>2, <2>1, <2>2 DEF lastOf
<1> QED
  BY <1>3, <1>4

(* The list of finished blocks when another one is put into it. *)
LEMMA InsertAt ==
  ASSUME TypeOK, NEW w \in Nat
  PROVE  insertAt(w) \in 0..Len(dataBufList)
<1> DEFINE D == {i \in 1..Len(dataBufList) : workIndex[dataBufList[i]] < w}
<1>1. Len(dataBufList) \in Nat
  BY DEF TypeOK
<1>2. IsFiniteSet(1..Len(dataBufList)) /\ Cardinality(1..Len(dataBufList)) = Len(dataBufList)
  BY <1>1, FS_Interval, SMTT(30)
<1>3. IsFiniteSet(D) /\ Cardinality(D) <= Len(dataBufList)
  BY <1>2, FS_Subset
<1>4. Cardinality(D) \in Nat
  BY <1>3, FS_CardinalityType
<1> QED
  BY <1>1, <1>3, <1>4 DEF insertAt

---------------------------------------------------------------------------
(* Types *)

TypeInv == TypeOK /\ Phases

(* parallel_compress_blocks up to start_threads. *)
LEMMA InitTypeInv == Init => TypeInv
<1> SUFFICES ASSUME Init PROVE TypeInv
  OBVIOUS
<1>1. workBufCount \in Nat /\ Run(1, workBufCount) \in Seq(Nat)
  <2>1. workBufCount \in Nat
    BY Constants DEF workBufCount
  <2> QED
    BY <2>1, RunType
<1>2. Run(1, workBufCount) \in Seq(Bufs)
  BY <1>1 DEF Run, Bufs
<1>3. /\ dataList \in [Chans -> Seq(Nat)] /\ dataList[Work] \in Seq(Bufs)
  BY <1>1, <1>2, Constants DEF Init
<1>4. isClosed \in [Chans -> BOOLEAN] /\ isOnError \in BOOLEAN
  BY DEF Init
<1>5. acceptWait \in [Chans -> SUBSET All]
  BY DEF Init
<1>6. /\ threadOn \in Nat
      /\ curReadBlockIndex \in 0..BlockCount /\ curWriteBlockIndex \in Nat
      /\ dict \in Seq(Nat) /\ dataBufList \in Seq(Bufs) /\ out \in Seq(Nat)
      /\ readLocker \in Threads \union {Nobody} /\ writeLocker \in Threads \union {Nobody}
  BY BlocksCover DEF Init
<1>7. /\ pc \in [All -> PoolPC \union MainPC] /\ pc[Main] \in MainPC
      /\ \A t \in Threads : pc[t] \in PoolPC
      /\ \A t \in Threads : pc[t] = "none"
      /\ pc[Main] = "start"
  BY Constants DEF Init, PoolPC, MainPC, All
<1>8. /\ workBuf \in [Threads -> Bufs \union {NoBuf}]
      /\ errNext \in [All -> {"none", "end", "accept", "waitEnd", "returned"}]
      /\ workIndex \in [Bufs -> Nat]
      /\ bufDict \in [Bufs -> Seq(Nat)] /\ bufBlock \in [Bufs -> Seq(Nat)]
      /\ starting \in 1..(ThreadNum + 1) /\ ret \in {"none", "0", "outCodePos"}
  BY Constants DEF Init, All
<1>9. Phases
  BY <1>7 DEF Phases, ErrorPC
<1> QED
  BY <1>3, <1>6, <1>7, <1>8, <1>9, <1>4, <1>5 DEF TypeInv, TypeOK

(* A thread of the pool goes on in its own code. *)
LEMMA PoolGoes ==
  ASSUME TypeOK, NEW t \in Threads, NEW p \in PoolPC, pc' = [pc EXCEPT ![t] = p]
  PROVE  /\ pc' \in [All -> PoolPC \union MainPC] /\ pc'[Main] \in MainPC
         /\ \A u \in Threads : pc'[u] \in PoolPC
BY Constants DEF TypeOK

(* The main thread likewise. *)
LEMMA MainGoes ==
  ASSUME TypeOK, NEW p \in MainPC, pc' = [pc EXCEPT ![Main] = p]
  PROVE  /\ pc' \in [All -> PoolPC \union MainPC] /\ pc'[Main] \in MainPC
         /\ \A u \in Threads : pc'[u] \in PoolPC
BY Constants DEF TypeOK

(* The steps that all threads share: on_error. *)
LEMMA ErrorTypeInv ==
  ASSUME TypeInv, NEW t \in All,
         OnError(t) \/ SetError(t) \/ CloseWork(t) \/ ClearWork(t) \/ ErrorDone(t)
  PROVE  TypeInv'
<1> USE DEF TypeOK
<1>0. TypeOK /\ Phases /\ (t = Main \/ t \in Threads)
  BY DEF TypeInv, All
<1>1. CASE OnError(t) \/ SetError(t)
  <2>1. \E p \in ErrorPC : pc' = [pc EXCEPT ![t] = p] /\ pc[t] \in ErrorPC
    BY <1>1 DEF OnError, SetError, goto, ErrorPC
  <2>2. UNCHANGED <<chanVars, threadOn, dataVars, lockVars, workBuf, errNext, bufVars, mainVars>>
        /\ isOnError' \in BOOLEAN
    BY <1>0, <1>1 DEF OnError, SetError
  <2>3. TypeOK'
    BY <1>0, <2>1, <2>2, Constants, SMTT(30) DEF chanVars, dataVars, lockVars, bufVars, mainVars, PoolPC, MainPC
  <2>4. Phases'
    BY <1>0, <2>1, <2>2, Constants DEF Phases, ErrorPC
  <2> QED
    BY <2>3, <2>4 DEF TypeInv
<1>2. CASE CloseWork(t) \/ ClearWork(t)
  <2>1. \/ pc' = [pc EXCEPT ![t] = "clear"] \/ pc' = [pc EXCEPT ![t] = "errorDone"] \/ pc' = pc
    BY <1>2 DEF CloseWork, ClearWork, goto
  <2>2. UNCHANGED <<isOnError, threadOn, dataVars, lockVars, workBuf, errNext, bufVars, mainVars>>
        /\ pc[t] \in ErrorPC
    BY <1>0, <1>2 DEF CloseWork, ClearWork, ErrorPC
  <2>3. /\ isClosed' \in [Chans -> BOOLEAN] /\ acceptWait' \in [Chans -> SUBSET All]
        /\ dataList' \in [Chans -> Seq(Nat)] /\ dataList'[Work] \in Seq(Bufs)
    <3>1. CASE CloseWork(t)
      BY <1>0, <3>1 DEF CloseWork, Close
    <3>2. CASE ClearWork(t) /\ Accept(Work)
      <4>1. Tail(dataList[Work]) \in Seq(Bufs) /\ Tail(dataList[Work]) \in Seq(Nat)
        BY <1>0, <3>2, ListTail, Constants DEF Accept
      <4> QED
        BY <1>0, <3>2, <4>1, Constants DEF Accept
    <3>3. CASE ClearWork(t) /\ ~Accept(Work)
      BY <1>0, <3>3 DEF ClearWork, chanVars
    <3> QED
      BY <1>2, <3>1, <3>2, <3>3
  <2>4. TypeOK'
    BY <1>0, <2>1, <2>2, <2>3, Constants, ZenonT(60) DEF dataVars, lockVars, bufVars, mainVars, PoolPC, MainPC,
       ErrorPC
  <2>5. Phases'
    BY <1>0, <2>1, <2>2, Constants, SMTT(30) DEF Phases, ErrorPC
  <2> QED
    BY <2>4, <2>5 DEF TypeInv
<1>3. CASE ErrorDone(t)
  <2>1. /\ pc' = [pc EXCEPT ![t] = errNext[t]] /\ pc[t] \in ErrorPC
        /\ UNCHANGED <<chanVars, isOnError, threadOn, dataVars, workBuf, errNext, bufVars, mainVars>>
        /\ readLocker' \in Threads \union {Nobody} /\ writeLocker' \in Threads \union {Nobody}
    BY <1>0, <1>3 DEF ErrorDone, goto, ErrorPC
  <2>2. IF t = Main THEN errNext[t] \in {"waitEnd", "returned"} ELSE errNext[t] \in {"end", "accept"}
    BY <1>0, <2>1 DEF Phases
  <2>3. TypeOK'
    BY <1>0, <2>1, <2>2, Constants DEF chanVars, dataVars, bufVars, mainVars, PoolPC, MainPC
  <2>4. Phases'
    BY <1>0, <2>1, <2>2, Constants DEF Phases, ErrorPC
  <2> QED
    BY <2>3, <2>4 DEF TypeInv
<1> QED
  BY <1>1, <1>2, <1>3

(* Who is asleep after a send. *)
LEMMA SendWakes ==
  ASSUME TypeOK, NEW ch \in Chans, NEW d, Send(ch, d)
  PROVE  /\ acceptWait' \in [Chans -> SUBSET All]
         /\ \A x \in Chans : acceptWait'[x] \subseteq acceptWait[x]
BY DEF TypeOK, Send

(* The thread function up to the compression. *)
LEMMA ReadTypeInv ==
  ASSUME TypeInv, NEW t \in Threads,
         AcceptWork(t) \/ ReadBlock(t) \/ ReadNothing(t) \/ ReadFails(t) \/ Compress(t)
  PROVE  TypeInv'
<1> USE DEF TypeOK
<1>0. TypeOK /\ Phases /\ t \in All /\ t # Main /\ workBuf[t] \in Bufs \union {NoBuf}
  BY Constants DEF TypeInv
<1>1. CASE AcceptWork(t)
  <2>1. UNCHANGED <<isOnError, threadOn, dataVars, lockVars, errNext, bufVars, mainVars>>
    BY <1>1 DEF AcceptWork
  <2>2. CASE Accept(Work) /\ workBuf' = [workBuf EXCEPT ![t] = Head(dataList[Work])]
             /\ goto(t, "read")
    <3>1. /\ Tail(dataList[Work]) \in Seq(Bufs) /\ Tail(dataList[Work]) \in Seq(Nat)
          /\ Head(dataList[Work]) \in Bufs
      BY <1>0, <2>2, ListTail, Constants DEF Accept
    <3>2. TypeOK'
      BY <1>0, <2>1, <2>2, <3>1, Constants DEF Accept, goto, dataVars, lockVars, bufVars, mainVars,
         PoolPC
    <3>3. Phases'
      BY <1>0, <2>1, <2>2, <3>1, Constants DEF goto, Phases, ErrorPC
    <3> QED
      BY <3>2, <3>3 DEF TypeInv
  <2>3. CASE UNCHANGED chanVars /\ workBuf' = [workBuf EXCEPT ![t] = NoBuf] /\ goto(t, "end")
    <3>1. TypeOK'
      BY <1>0, <2>1, <2>3, Constants DEF goto, chanVars, dataVars, lockVars, bufVars, mainVars, PoolPC
    <3>2. Phases'
      BY <1>0, <2>1, <2>3, Constants DEF goto, Phases, ErrorPC
    <3> QED
      BY <3>1, <3>2 DEF TypeInv
  <2>4. CASE AcceptSleeps(Work, t) /\ UNCHANGED <<pc, workBuf>>
    <3>1. TypeOK'
      BY <1>0, <2>1, <2>4, Constants DEF AcceptSleeps, dataVars, lockVars, bufVars, mainVars
    <3>2. Phases'
      BY <1>0, <2>1, <2>4 DEF Phases
    <3> QED
      BY <3>1, <3>2 DEF TypeInv
  <2> QED
    BY <1>1, <2>2, <2>3, <2>4 DEF AcceptWork
<1>2. CASE ReadBlock(t)
  <2> DEFINE b == workBuf[t]
             k == curReadBlockIndex
             pos == k * BlockSize
             size == IF k + 1 < BlockCount THEN BlockSize ELSE InSize - pos
  <2>1. /\ b \in Bufs /\ k \in 0..(BlockCount - 1) /\ k \in Nat /\ k + 1 \in 0..BlockCount
    BY <1>0, <1>2, BlocksCover DEF ReadBlock, Phases, blocksLeft
  <2>2. pos \in Nat /\ size \in Nat
    BY <2>1, BlockBounds DEF blockSize
  <2> HIDE DEF size, pos
  <2>3. Run(pos, size) \in Seq(Nat)
    BY <2>2, RunType
  <2>4. nextDict(dict, Run(pos, size)) \in Seq(Nat)
    <3>1. /\ dict \o Run(pos, size) \in Seq(Nat)
          /\ Len(dict \o Run(pos, size)) = Len(dict) + Len(Run(pos, size))
          /\ Len(dict) \in Nat /\ Len(Run(pos, size)) \in Nat
      BY <1>0, <2>3, ConcatProperties
    <3> DEFINE s == dict \o Run(pos, size)
               n == IF Len(Run(pos, size)) + Len(dict) >= BlockDictSize THEN BlockDictSize
                                                   ELSE Len(Run(pos, size)) + Len(dict)
    <3>2. n \in Nat /\ n <= Len(s)
      BY <3>1, Constants
    <3> HIDE DEF s, n
    <3>3. Len(s) - n + 1 \in Nat \ {0} /\ Len(s) \in Int
      BY <3>1, <3>2 DEF s
    <3>4. SubSeq(s, Len(s) - n + 1, Len(s)) \in Seq(Nat)
      BY <3>1, <3>3, SubSeqType, SMTT(30) DEF s
    <3> QED
      BY <3>4 DEF nextDict, lastOf, s, n
  <2>5. /\ bufDict' = [bufDict EXCEPT ![b] = dict]
        /\ bufBlock' = [bufBlock EXCEPT ![b] = Run(pos, size)]
        /\ workIndex' = [workIndex EXCEPT ![b] = k]
        /\ curReadBlockIndex' = k + 1
        /\ dict' = IF k + 1 < BlockCount THEN nextDict(dict, Run(pos, size)) ELSE dict
        /\ pc' = [pc EXCEPT ![t] = "compress"]
        /\ UNCHANGED <<chanVars, isOnError, threadOn, curWriteBlockIndex, dataBufList, out,
                       lockVars, workBuf, errNext, mainVars>>
    BY <1>2 DEF ReadBlock, goto, pos, size
  <2>6. dict' \in Seq(Nat) /\ curReadBlockIndex' \in 0..BlockCount
    BY <1>0, <2>1, <2>4, <2>5
  <2>7. bufDict' \in [Bufs -> Seq(Nat)] /\ bufBlock' \in [Bufs -> Seq(Nat)]
        /\ workIndex' \in [Bufs -> Nat]
    BY <1>0, <2>1, <2>3, <2>5
  <2>8. pc' \in [All -> PoolPC \union MainPC] /\ pc'[Main] \in MainPC
        /\ \A u \in Threads : pc'[u] \in PoolPC
    BY <1>0, <2>5, Constants DEF PoolPC
  <2>9. TypeOK'
    BY <1>0, <2>5, <2>6, <2>7, <2>8 DEF chanVars, lockVars, mainVars
  <2>10. Phases'
    BY <1>0, <2>1, <2>5, Constants DEF Phases, ErrorPC
  <2> QED
    BY <2>9, <2>10 DEF TypeInv
<1>3. CASE ReadNothing(t)
  <2>1. TypeOK'
    BY <1>0, <1>3, Constants DEF ReadNothing, goto, chanVars, dataVars, lockVars, bufVars, mainVars,
       PoolPC
  <2>2. Phases'
    BY <1>0, <1>3, Constants DEF ReadNothing, goto, Phases, ErrorPC
  <2> QED
    BY <2>1, <2>2 DEF TypeInv
<1>4. CASE ReadFails(t)
  <2>1. workBuf[t] \in Bufs
    BY <1>0, <1>4 DEF ReadFails, Phases
  <2>2. bufDict' \in [Bufs -> Seq(Nat)]
    BY <1>0, <1>4, <2>1 DEF ReadFails
  <2>3. /\ pc' = [pc EXCEPT ![t] = "error"] /\ errNext' = [errNext EXCEPT ![t] = "end"]
        /\ readLocker' = t
        /\ UNCHANGED <<chanVars, isOnError, threadOn, dataVars, writeLocker, workBuf, workIndex,
                       bufBlock, mainVars>>
    BY <1>4 DEF ReadFails, checkFails, goto
  <2>4. pc' \in [All -> PoolPC \union MainPC] /\ pc'[Main] \in MainPC
        /\ \A u \in Threads : pc'[u] \in PoolPC
    BY <1>0, <2>3, Constants DEF PoolPC, ErrorPC
  <2>5. TypeOK'
    BY <1>0, <2>2, <2>3, <2>4 DEF chanVars, dataVars, mainVars
  <2>6. Phases'
    BY <1>0, <2>3, Constants DEF Phases, ErrorPC
  <2> QED
    BY <2>5, <2>6 DEF TypeInv
<1>5. CASE Compress(t)
  <2>1. /\ \/ pc' = [pc EXCEPT ![t] = "write"] /\ errNext' = errNext
           \/ pc' = [pc EXCEPT ![t] = "error"] /\ errNext' = [errNext EXCEPT ![t] = "end"]
        /\ UNCHANGED <<chanVars, isOnError, threadOn, dataVars, lockVars, workBuf, bufVars, mainVars>>
        /\ workBuf[t] \in Bufs
    BY <1>0, <1>5 DEF Compress, checkFails, goto, Phases
  <2>2. pc' \in [All -> PoolPC \union MainPC] /\ pc'[Main] \in MainPC
        /\ \A u \in Threads : pc'[u] \in PoolPC
    <3>1. \E p \in PoolPC : pc' = [pc EXCEPT ![t] = p]
      BY <2>1 DEF PoolPC, ErrorPC
    <3> QED
      BY <1>0, <3>1, PoolGoes
  <2>3. TypeOK'
    BY <1>0, <2>1, <2>2 DEF chanVars, dataVars, lockVars, bufVars, mainVars
  <2>4. Phases'
    BY <1>0, <2>1, Constants, SMTT(30) DEF Phases, ErrorPC
  <2> QED
    BY <2>3, <2>4 DEF TypeInv
<1> QED
  BY <1>1, <1>2, <1>3, <1>4, <1>5

(* The thread function from the compression to its end. *)
LEMMA WriteTypeInv ==
  ASSUME TypeInv, NEW t \in Threads,
         PushBlock(t) \/ WriteBlock(t) \/ SendBack(t) \/ FlushDone(t) \/ ThreadEnd(t)
  PROVE  TypeInv'
<1> USE DEF TypeOK
<1>0. TypeOK /\ Phases /\ t \in All /\ t # Main /\ workBuf[t] \in Bufs \union {NoBuf}
  BY Constants DEF TypeInv
<1>1. CASE PushBlock(t)
  <2>1. /\ dataBufList' = SubSeq(dataBufList, 1, insertAt(workIndex[workBuf[t]])) \o <<workBuf[t]>>
             \o SubSeq(dataBufList, insertAt(workIndex[workBuf[t]]) + 1, Len(dataBufList))
        /\ workBuf[t] \in Bufs /\ workIndex[workBuf[t]] \in Nat
        /\ writeLocker' = t /\ workBuf' = [workBuf EXCEPT ![t] = NoBuf]
        /\ pc' = [pc EXCEPT ![t] = "flush"]
        /\ UNCHANGED <<chanVars, isOnError, threadOn, curReadBlockIndex, curWriteBlockIndex, dict,
                       out, readLocker, errNext, bufVars, mainVars>>
    BY <1>0, <1>1 DEF PushBlock, Phases, goto
  <2>2. insertAt(workIndex[workBuf[t]]) \in 0..Len(dataBufList)
    BY <1>0, <2>1, InsertAt, SMTT(30)
  <2>3. dataBufList' \in Seq(Bufs)
    <3>1. dataBufList' = Put(dataBufList, insertAt(workIndex[workBuf[t]]), workBuf[t])
      BY <2>1 DEF Put
    <3>2. dataBufList \in Seq(Bufs) /\ workBuf[t] \in Bufs
      BY <1>0, <2>1
    <3> QED
      BY <2>2, <3>1, <3>2, ListInsert
  <2>4. TypeOK'
    BY <1>0, <2>1, <2>3, Constants DEF chanVars, bufVars, mainVars, PoolPC
  <2>5. Phases'
    BY <1>0, <2>1, Constants DEF Phases, ErrorPC
  <2> QED
    BY <2>4, <2>5 DEF TypeInv
<1>2. CASE WriteBlock(t)
  <2> DEFINE h == Head(dataBufList)
  <2>1. h \in Bufs /\ Tail(dataBufList) \in Seq(Bufs)
    BY <1>0, <1>2, ListTail DEF WriteBlock, mayWrite
  <2>2. out \o bufBlock[h] \in Seq(Nat)
    BY <1>0, <2>1, ConcatProperties
  <2>3. /\ workBuf' = [workBuf EXCEPT ![t] = h] /\ dataBufList' = Tail(dataBufList)
        /\ out' \in {out, out \o bufBlock[h]}
        /\ curWriteBlockIndex' \in {curWriteBlockIndex, curWriteBlockIndex + 1}
        /\ \/ pc' = [pc EXCEPT ![t] = "sendBack"] /\ errNext' = errNext
           \/ pc' = [pc EXCEPT ![t] = "error"] /\ errNext' = [errNext EXCEPT ![t] = "accept"]
        /\ UNCHANGED <<chanVars, isOnError, threadOn, curReadBlockIndex, dict, lockVars, bufVars,
                       mainVars>>
    BY <1>2 DEF WriteBlock, goto, checkFails
  <2> HIDE DEF h
  <2>4. pc' \in [All -> PoolPC \union MainPC] /\ pc'[Main] \in MainPC
        /\ \A u \in Threads : pc'[u] \in PoolPC
    <3>1. \E p \in PoolPC : pc' = [pc EXCEPT ![t] = p]
      BY <2>3 DEF PoolPC, ErrorPC
    <3> QED
      BY <1>0, <3>1, PoolGoes
  <2>5. /\ errNext' \in [All -> {"none", "end", "accept", "waitEnd", "returned"}]
        /\ workBuf' \in [Threads -> Bufs \union {NoBuf}]
    BY <1>0, <2>1, <2>3
  <2>6. dataBufList' \in Seq(Bufs) /\ out' \in Seq(Nat) /\ curWriteBlockIndex' \in Nat
    <3>1. out' \in Seq(Nat)
      BY <1>0, <2>2, <2>3, Zenon
    <3>2. dataBufList' \in Seq(Bufs) /\ curWriteBlockIndex' \in Nat
      BY <1>0, <2>1, <2>3, SMTT(30)
    <3> QED
      BY <3>1, <3>2
  <2>7. TypeOK'
    BY <1>0, <2>3, <2>4, <2>5, <2>6 DEF chanVars, lockVars, bufVars, mainVars
  <2>8. Phases'
    BY <1>0, <2>1, <2>3, Constants, ZenonT(60) DEF Phases, ErrorPC
  <2> QED
    BY <2>7, <2>8 DEF TypeInv
<1>3. CASE SendBack(t)
  <2>1. /\ workBuf' = [workBuf EXCEPT ![t] = NoBuf]
        /\ \/ pc' = [pc EXCEPT ![t] = "flush"] /\ errNext' = errNext
           \/ pc' = [pc EXCEPT ![t] = "error"] /\ errNext' = [errNext EXCEPT ![t] = "accept"]
        /\ UNCHANGED <<isOnError, threadOn, dataVars, lockVars, bufVars, mainVars>>
        /\ workBuf[t] \in Bufs
    BY <1>0, <1>3 DEF SendBack, goto, checkFails, Phases
  <2>2. /\ isClosed' = isClosed /\ acceptWait' \in [Chans -> SUBSET All]
        /\ dataList' \in [Chans -> Seq(Nat)] /\ dataList'[Work] \in Seq(Bufs)
    <3>1. CASE UNCHANGED chanVars
      BY <1>0, <3>1 DEF chanVars
    <3>2. CASE Send(Work, workBuf[t])
      <4>1. Append(dataList[Work], workBuf[t]) \in Seq(Bufs)
            /\ Append(dataList[Work], workBuf[t]) \in Seq(Nat)
        BY <1>0, <2>1, ListAppend, Constants
      <4>2. dataList' = [dataList EXCEPT ![Work] = Append(@, workBuf[t])] /\ isClosed' = isClosed
        BY <3>2 DEF Send
      <4> QED
        BY <1>0, <3>2, <4>1, <4>2, SendWakes, Constants
    <3> QED
      BY <1>3, <3>1, <3>2 DEF SendBack
  <2>3. pc' \in [All -> PoolPC \union MainPC] /\ pc'[Main] \in MainPC
        /\ \A u \in Threads : pc'[u] \in PoolPC
    <3>1. \E p \in PoolPC : pc' = [pc EXCEPT ![t] = p]
      BY <2>1 DEF PoolPC, ErrorPC
    <3> QED
      BY <1>0, <3>1, PoolGoes
  <2>4. /\ errNext' \in [All -> {"none", "end", "accept", "waitEnd", "returned"}]
        /\ workBuf' \in [Threads -> Bufs \union {NoBuf}]
    BY <1>0, <2>1
  <2>5. TypeOK'
    BY <1>0, <2>1, <2>2, <2>3, <2>4 DEF dataVars, lockVars, bufVars, mainVars
  <2>6. Phases'
    BY <1>0, <2>1, Constants, SMTT(30) DEF Phases, ErrorPC
  <2> QED
    BY <2>5, <2>6 DEF TypeInv
<1>4. CASE FlushDone(t)
  <2>1. TypeOK'
    BY <1>0, <1>4, Constants DEF FlushDone, goto, chanVars, dataVars, bufVars, mainVars, PoolPC
  <2>2. Phases'
    BY <1>0, <1>4, Constants DEF FlushDone, goto, Phases, ErrorPC
  <2> QED
    BY <2>1, <2>2 DEF TypeInv
<1>5. CASE ThreadEnd(t)
  <2>1. Append(dataList[End], t) \in Seq(Nat)
    BY <1>0, ListAppend, Constants
  <2>2. /\ dataList' = [dataList EXCEPT ![End] = Append(@, t)] /\ isClosed' = isClosed
        /\ acceptWait' \in [Chans -> SUBSET All]
        /\ pc' = [pc EXCEPT ![t] = "done"]
        /\ UNCHANGED <<isOnError, threadOn, dataVars, lockVars, workBuf, errNext, bufVars, mainVars>>
    <3>1. Send(End, t)
      BY <1>5 DEF ThreadEnd
    <3> QED
      BY <1>0, <1>5, <3>1, SendWakes, Constants DEF ThreadEnd, Send, goto
  <2>3. TypeOK'
    BY <1>0, <2>1, <2>2, Constants DEF dataVars, lockVars, bufVars, mainVars, PoolPC
  <2>4. Phases'
    BY <1>0, <2>2, Constants DEF Phases, ErrorPC
  <2> QED
    BY <2>3, <2>4 DEF TypeInv
<1> QED
  BY <1>1, <1>2, <1>3, <1>4, <1>5

(* start_threads, wait_all_thread_end and the return. *)
LEMMA MainTypeInv ==
  ASSUME TypeInv, StartThread \/ StartFails \/ RunDone \/ WaitEnd \/ EndAccept
  PROVE  TypeInv'
<1> USE DEF TypeOK
<1>0. TypeOK /\ Phases
  BY DEF TypeInv
<1>1. CASE StartThread
  <2>1. /\ starting \in Threads /\ starting # Main /\ starting + 1 \in 1..(ThreadNum + 1)
        /\ threadOn + 1 \in Nat
    BY <1>0, <1>1, Constants DEF StartThread, Threads
  <2>2. /\ \E p \in {"run", "start"} :
             pc' = [pc EXCEPT ![starting] = "accept", ![Main] = p]
        /\ threadOn' = threadOn + 1 /\ starting' = starting + 1
        /\ UNCHANGED <<chanVars, isOnError, dataVars, lockVars, workBuf, errNext, bufVars, ret>>
    BY <1>1 DEF StartThread
  <2>3. pc' \in [All -> PoolPC \union MainPC] /\ pc'[Main] \in MainPC
        /\ \A u \in Threads : pc'[u] \in PoolPC
    BY <1>0, <2>1, <2>2, Constants, ZenonT(60) DEF PoolPC, MainPC
  <2>4. TypeOK'
    BY <1>0, <2>1, <2>2, <2>3 DEF chanVars, dataVars, lockVars, bufVars
  <2>5. Phases'
    BY <1>0, <2>1, <2>2, Constants, SMTT(30) DEF Phases, ErrorPC
  <2> QED
    BY <2>4, <2>5 DEF TypeInv
<1>2. CASE StartFails \/ RunDone
  <2>1. /\ \/ pc' = [pc EXCEPT ![Main] = "error"] /\ errNext' = [errNext EXCEPT ![Main] = "waitEnd"]
           \/ pc' = [pc EXCEPT ![Main] = "waitEnd"] /\ errNext' = errNext
        /\ UNCHANGED <<chanVars, isOnError, threadOn, dataVars, lockVars, workBuf, bufVars, mainVars>>
    BY <1>2 DEF StartFails, RunDone, checkFails, goto
  <2>2. pc' \in [All -> PoolPC \union MainPC] /\ pc'[Main] \in MainPC
        /\ \A u \in Threads : pc'[u] \in PoolPC
    <3>1. \E p \in MainPC : pc' = [pc EXCEPT ![Main] = p]
      BY <2>1 DEF MainPC, ErrorPC
    <3> QED
      BY <1>0, <3>1, MainGoes
  <2>3. TypeOK'
    BY <1>0, <2>1, <2>2 DEF chanVars, dataVars, lockVars, bufVars, mainVars
  <2>4. Phases'
    BY <1>0, <2>1, Constants, SMTT(30) DEF Phases, ErrorPC
  <2> QED
    BY <2>3, <2>4 DEF TypeInv
<1>3. CASE WaitEnd
  <2>1. /\ \/ pc' = [pc EXCEPT ![Main] = "endAccept"] /\ errNext' = errNext
           \/ pc' = [pc EXCEPT ![Main] = "close"] /\ errNext' = [errNext EXCEPT ![Main] = "returned"]
        /\ threadOn' \in Nat /\ ret' \in {"none", "0", "outCodePos"}
        /\ UNCHANGED <<chanVars, isOnError, dataVars, lockVars, workBuf, bufVars, starting>>
    BY <1>0, <1>3, SMTT(30) DEF WaitEnd, goto
  <2>2. pc' \in [All -> PoolPC \union MainPC] /\ pc'[Main] \in MainPC
        /\ \A u \in Threads : pc'[u] \in PoolPC
    <3>1. \E p \in MainPC : pc' = [pc EXCEPT ![Main] = p]
      BY <2>1 DEF MainPC, ErrorPC
    <3> QED
      BY <1>0, <3>1, MainGoes
  <2>3. TypeOK'
    BY <1>0, <2>1, <2>2 DEF chanVars, dataVars, lockVars, bufVars
  <2>4. Phases'
    BY <1>0, <2>1, Constants, SMTT(30) DEF Phases, ErrorPC
  <2> QED
    BY <2>3, <2>4 DEF TypeInv
<1>4. CASE EndAccept
  <2>1. /\ pc' = [pc EXCEPT ![Main] = "waitEnd"] \/ pc' = pc
        /\ UNCHANGED <<isOnError, threadOn, dataVars, lockVars, workBuf, errNext, bufVars, mainVars>>
    BY <1>4 DEF EndAccept, goto
  <2>2. /\ isClosed' = isClosed /\ acceptWait' \in [Chans -> SUBSET All]
        /\ dataList' \in [Chans -> Seq(Nat)] /\ dataList'[Work] = dataList[Work]
    <3>1. CASE Accept(End)
      <4>1. Tail(dataList[End]) \in Seq(Nat)
        BY <1>0, <3>1, ListTail, Constants DEF Accept
      <4> QED
        BY <1>0, <3>1, <4>1, Constants DEF Accept
    <3>2. CASE AcceptSleeps(End, Main)
      BY <1>0, <3>2, Constants DEF AcceptSleeps
    <3> QED
      BY <1>4, <3>1, <3>2 DEF EndAccept
  <2>3. TypeOK'
    BY <1>0, <2>1, <2>2, Constants DEF dataVars, lockVars, bufVars, mainVars, MainPC
  <2>4. Phases'
    BY <1>0, <2>1, Constants, SMTT(30) DEF Phases, ErrorPC
  <2> QED
    BY <2>3, <2>4 DEF TypeInv
<1> QED
  BY <1>1, <1>2, <1>3, <1>4

(* Each step keeps the types. *)
LEMMA NextTypeInv == TypeInv /\ [Next]_vars => TypeInv'
<1> SUFFICES ASSUME TypeInv, [Next]_vars PROVE TypeInv'
  OBVIOUS
<1>1. ASSUME NEW t \in Threads, PoolThread(t) PROVE TypeInv'
  <2>1. t \in All
    BY Constants
  <2> QED
    BY <1>1, <2>1, ErrorTypeInv, ReadTypeInv, WriteTypeInv DEF PoolThread
<1>2. CASE MainThread
  <2>1. Main \in All
    BY Constants
  <2> QED
    BY <1>2, <2>1, ErrorTypeInv, MainTypeInv DEF MainThread
<1>3. CASE SpuriousWake \/ UNCHANGED vars
  <2>1. UNCHANGED <<dataList, isClosed, isOnError, threadOn, dataVars, lockVars, threadVars, bufVars,
                    mainVars>> /\ acceptWait' \in [Chans -> SUBSET All]
    BY <1>3 DEF SpuriousWake, TypeInv, TypeOK, vars, chanVars
  <2>2. TypeOK'
    BY <2>1 DEF TypeInv, TypeOK, dataVars, lockVars, threadVars, bufVars, mainVars
  <2>3. Phases'
    BY <2>1 DEF TypeInv, Phases, threadVars
  <2> QED
    BY <2>2, <2>3 DEF TypeInv
<1> QED
  BY <1>1, <1>2, <1>3 DEF Next

---------------------------------------------------------------------------
(* The owners of the work buffers *)

(* Nothing about the owners changes. *)
LEMMA SameOwners ==
  ASSUME AtMostOneOwner, dataList'[Work] = dataList[Work],
         UNCHANGED <<dataBufList, workBuf>>
  PROVE  AtMostOneOwner'
BY DEF AtMostOneOwner

(* A buffer leaves work_chan: for a thread, or for nobody. *)
LEMMA AcceptOwners ==
  ASSUME TypeInv, AtMostOneOwner, Accept(Work), UNCHANGED dataBufList,
         \/ UNCHANGED workBuf
         \/ \E t \in Threads : workBuf' = [workBuf EXCEPT ![t] = Head(dataList[Work])]
  PROVE  AtMostOneOwner'
<1> DEFINE f == dataList[Work]
           h == Head(f)
           r == Tail(f)
<1>1. /\ f \in Seq(Bufs) /\ f # <<>> /\ dataList'[Work] = r
      /\ workBuf \in [Threads -> Bufs \union {NoBuf}]
  BY Constants DEF TypeInv, TypeOK, Accept
<1>2. /\ h \in Bufs /\ \A x : InList(x, f) <=> x = h \/ InList(x, r)
      /\ NoRepeat(r) /\ ~InList(h, r)
  BY <1>1, ListTail DEF AtMostOneOwner
<1> HIDE DEF f, h, r
<1>3. CASE UNCHANGED workBuf
  BY <1>1, <1>2, <1>3 DEF AtMostOneOwner, f
<1>4. ASSUME NEW t \in Threads, workBuf' = [workBuf EXCEPT ![t] = h] PROVE AtMostOneOwner'
  <2>1. workBuf'[t] = h /\ \A u \in Threads \ {t} : workBuf'[u] = workBuf[u]
    BY <1>1, <1>4
  <2> QED
    BY <1>1, <1>2, <2>1 DEF AtMostOneOwner, f
<1> QED
  BY <1>3, <1>4 DEF h, f

(* A thread lets go of its buffer. *)
LEMMA DropOwners ==
  ASSUME TypeInv, AtMostOneOwner, dataList'[Work] = dataList[Work], UNCHANGED dataBufList,
         NEW t \in Threads, workBuf' = [workBuf EXCEPT ![t] = NoBuf]
  PROVE  AtMostOneOwner'
<1>1. workBuf'[t] = NoBuf /\ \A u \in Threads \ {t} : workBuf'[u] = workBuf[u]
  BY DEF TypeInv, TypeOK
<1> QED
  BY <1>1, Constants DEF AtMostOneOwner

(* The push of a compressed block into the list of finished blocks. *)
LEMMA PushOwners ==
  ASSUME TypeInv, AtMostOneOwner, NEW t \in Threads, PushBlock(t)
  PROVE  /\ AtMostOneOwner'
         /\ \A x : InList(x, dataBufList') <=> InList(x, dataBufList) \/ x = workBuf[t]
<1> DEFINE b == workBuf[t]
<1>1. /\ dataBufList' = SubSeq(dataBufList, 1, insertAt(workIndex[b])) \o <<b>>
             \o SubSeq(dataBufList, insertAt(workIndex[b]) + 1, Len(dataBufList))
      /\ workBuf' = [workBuf EXCEPT ![t] = NoBuf] /\ dataList' = dataList
  BY DEF PushBlock, chanVars
<1>2. /\ TypeOK /\ b \in Bufs /\ workIndex[b] \in Nat /\ dataBufList \in Seq(Bufs)
      /\ workBuf \in [Threads -> Bufs \union {NoBuf}]
  BY DEF TypeInv, TypeOK, Phases, PushBlock
<1>3. PICK n \in 0..Len(dataBufList) : n = insertAt(workIndex[b])
  BY <1>2, InsertAt
<1>4. ~InList(b, dataBufList) /\ NoRepeat(dataBufList)
  BY <1>2 DEF AtMostOneOwner
<1>5. NoRepeat(dataBufList') /\ \A x : InList(x, dataBufList') <=> InList(x, dataBufList) \/ x = b
  <2>1. dataBufList' = Put(dataBufList, n, b)
    BY <1>1, <1>3 DEF Put
  <2> QED
    BY <1>2, <1>4, <2>1, ListInsert, SMTT(30)
<1>6. workBuf'[t] = NoBuf /\ \A u \in Threads \ {t} : workBuf'[u] = workBuf[u]
  BY <1>1, <1>2
<1> QED
  BY <1>1, <1>2, <1>5, <1>6, Constants, ZenonT(60) DEF AtMostOneOwner

(* The first of the finished blocks goes to the thread that writes it. *)
LEMMA WriteOwners ==
  ASSUME TypeInv, AtMostOneOwner, NEW t \in Threads, WriteBlock(t)
  PROVE  /\ AtMostOneOwner'
         /\ Head(dataBufList) \in Bufs /\ ~InList(Head(dataBufList), dataBufList')
         /\ \A x : InList(x, dataBufList) <=> x = Head(dataBufList) \/ InList(x, dataBufList')
<1> DEFINE h == Head(dataBufList)
           r == Tail(dataBufList)
<1>1. /\ dataBufList \in Seq(Bufs) /\ dataBufList # <<>> /\ dataBufList' = r
      /\ workBuf' = [workBuf EXCEPT ![t] = h] /\ dataList' = dataList
      /\ workBuf \in [Threads -> Bufs \union {NoBuf}]
  BY DEF TypeInv, TypeOK, WriteBlock, mayWrite, chanVars
<1>2. /\ h \in Bufs /\ \A x : InList(x, dataBufList) <=> x = h \/ InList(x, r)
      /\ NoRepeat(r) /\ ~InList(h, r)
  BY <1>1, ListTail DEF AtMostOneOwner
<1> HIDE DEF h, r
<1>3. workBuf'[t] = h /\ \A u \in Threads \ {t} : workBuf'[u] = workBuf[u]
  BY <1>1
<1>4. AtMostOneOwner'
  BY <1>1, <1>2, <1>3 DEF AtMostOneOwner
<1> QED
  BY <1>1, <1>2, <1>4 DEF h

(* The buffer of a written block goes back to work_chan, or is lost. *)
LEMMA SendOwners ==
  ASSUME TypeInv, AtMostOneOwner, NEW t \in Threads, SendBack(t)
  PROVE  AtMostOneOwner'
<1> DEFINE f == dataList[Work]
           b == workBuf[t]
           r == Append(f, b)
<1>1. /\ workBuf' = [workBuf EXCEPT ![t] = NoBuf] /\ UNCHANGED dataBufList
      /\ b \in Bufs /\ f \in Seq(Bufs) /\ workBuf \in [Threads -> Bufs \union {NoBuf}]
      /\ dataList \in [Chans -> Seq(Nat)]
  BY DEF TypeInv, TypeOK, Phases, SendBack, dataVars
<1>2. CASE UNCHANGED chanVars
  BY <1>1, <1>2, DropOwners DEF chanVars
<1>3. CASE Send(Work, b)
  <2>1. dataList'[Work] = r
    BY <1>1, <1>3, Constants DEF Send
  <2>2. ~InList(b, f) /\ NoRepeat(f)
    BY <1>1 DEF AtMostOneOwner
  <2>3. NoRepeat(r) /\ \A x : InList(x, r) <=> InList(x, f) \/ x = b
    BY <1>1, <2>2, ListAppend
  <2> HIDE DEF r, f
  <2>4. workBuf'[t] = NoBuf /\ \A u \in Threads \ {t} : workBuf'[u] = workBuf[u]
    BY <1>1
  <2> QED
    BY <1>1, <2>1, <2>3, <2>4, Constants DEF AtMostOneOwner, f
<1> QED
  BY <1>2, <1>3 DEF SendBack

(* Each step keeps every buffer in one place. *)
LEMMA NextOwners ==
  ASSUME TypeInv, AtMostOneOwner, [Next]_vars
  PROVE  AtMostOneOwner'
<1>0. dataList \in [Chans -> Seq(Nat)] /\ Work \in Chans /\ End \in Chans /\ Work # End
  BY Constants DEF TypeInv, TypeOK
<1>1. ASSUME NEW t \in All, OnError(t) \/ SetError(t) \/ CloseWork(t) \/ ErrorDone(t)
      PROVE  AtMostOneOwner'
  BY <1>1, SameOwners DEF OnError, SetError, CloseWork, Close, ErrorDone, chanVars, dataVars
<1>2. ASSUME NEW t \in All, ClearWork(t) PROVE AtMostOneOwner'
  <2>1. UNCHANGED <<dataBufList, workBuf>> /\ (Accept(Work) \/ UNCHANGED chanVars)
    BY <1>2 DEF ClearWork, dataVars
  <2> QED
    BY <2>1, AcceptOwners, SameOwners DEF chanVars
<1>3. ASSUME NEW t \in Threads, AcceptWork(t) PROVE AtMostOneOwner'
  <2>1. UNCHANGED dataBufList
    BY <1>3 DEF AcceptWork, dataVars
  <2>2. CASE Accept(Work) /\ workBuf' = [workBuf EXCEPT ![t] = Head(dataList[Work])]
    BY <2>1, <2>2, AcceptOwners
  <2>3. CASE UNCHANGED chanVars /\ workBuf' = [workBuf EXCEPT ![t] = NoBuf]
    BY <2>1, <2>3, DropOwners DEF chanVars
  <2>4. CASE AcceptSleeps(Work, t) /\ UNCHANGED workBuf
    BY <2>1, <2>4, SameOwners DEF AcceptSleeps
  <2> QED
    BY <1>3, <2>2, <2>3, <2>4 DEF AcceptWork
<1>4. ASSUME NEW t \in Threads,
             ReadBlock(t) \/ ReadNothing(t) \/ ReadFails(t) \/ Compress(t) \/ FlushDone(t)
      PROVE  AtMostOneOwner'
  BY <1>4, SameOwners DEF ReadBlock, ReadNothing, ReadFails, Compress, FlushDone, chanVars, dataVars
<1>5. ASSUME NEW t \in Threads, PushBlock(t) \/ WriteBlock(t) \/ SendBack(t)
      PROVE  AtMostOneOwner'
  BY <1>5, PushOwners, WriteOwners, SendOwners
<1>6. ASSUME NEW t \in Threads, ThreadEnd(t) PROVE AtMostOneOwner'
  <2>1. dataList'[Work] = dataList[Work] /\ UNCHANGED <<dataBufList, workBuf>>
    BY <1>0, <1>6 DEF ThreadEnd, Send, dataVars
  <2> QED
    BY <2>1, SameOwners
<1>7. CASE StartThread \/ StartFails \/ RunDone \/ WaitEnd
  BY <1>7, SameOwners DEF StartThread, StartFails, RunDone, WaitEnd, chanVars, dataVars
<1>8. CASE EndAccept \/ SpuriousWake \/ UNCHANGED vars
  <2>1. dataList'[Work] = dataList[Work] /\ UNCHANGED <<dataBufList, workBuf>>
    BY <1>0, <1>8 DEF EndAccept, Accept, AcceptSleeps, SpuriousWake, vars, chanVars, dataVars,
       threadVars
  <2> QED
    BY <2>1, SameOwners
<1> QED
  BY <1>1, <1>2, <1>3, <1>4, <1>5, <1>6, <1>7, <1>8, Constants DEF Next, PoolThread, MainThread

(* All buffers are in work_chan at first. *)
LEMMA InitOwners == Init => AtMostOneOwner
<1> SUFFICES ASSUME Init PROVE AtMostOneOwner
  OBVIOUS
<1>1. workBufCount \in Nat
  BY Constants DEF workBufCount
<1>2. Len(Run(1, workBufCount)) = workBufCount
      /\ \A i \in 1..workBufCount : Run(1, workBufCount)[i] = i
  BY <1>1 DEF Run
<1>3. NoRepeat(Run(1, workBufCount))
  BY <1>2 DEF NoRepeat
<1> QED
  BY <1>3, EmptyList, Constants DEF Init, AtMostOneOwner

(* No buffer ever has two owners, whatever fails and whenever. *)
LEMMA OneOwner == Spec => []AtMostOneOwner
<1> DEFINE I == TypeInv /\ AtMostOneOwner
<1>1. Init => I
  BY InitTypeInv, InitOwners
<1>2. I /\ [Next]_vars => I'
  BY NextTypeInv, NextOwners
<1> QED
  BY <1>1, <1>2, PTL DEF Spec

---------------------------------------------------------------------------
(* The count of threads and the end *)

(* There are finitely many threads. *)
LEMMA LiveFinite == IsFiniteSet(Live) /\ Cardinality(Live) \in Nat
<1>1. IsFiniteSet(Threads)
  BY FS_Interval, Constants DEF Threads
<1>2. IsFiniteSet(Live)
  BY <1>1, FS_Subset DEF Live
<1> QED
  BY <1>2, FS_CardinalityType

(* A step of a thread that is alive and stays alive.  It shows that the    *)
(* function has not returned.                                              *)
LEMMA PoolMoves ==
  ASSUME TypeInv, PoolInv, NEW t \in Live, NEW p, p \notin {"none", "done"},
         pc' = [pc EXCEPT ![t] = p], dataList'[End] = dataList[End],
         \A u \in acceptWait'[Work] : u \in acceptWait[Work] \/ u = t,
         t \in acceptWait'[Work] => p = "accept",
         acceptWait'[End] = acceptWait[End], errNext'[Main] = errNext[Main],
         UNCHANGED <<threadOn, ret, starting>>
  PROVE  PoolInv'
<1>1. t \in Threads /\ t # Main /\ t \in All /\ pc[t] \notin {"none", "done"}
  BY Constants DEF Live
<1>2. /\ pc'[Main] = pc[Main] /\ pc'[t] = p /\ \A u \in Threads \ {t} : pc'[u] = pc[u]
  BY <1>1, Constants DEF TypeInv, TypeOK
<1>3. Live' = Live
  BY <1>1, <1>2 DEF Live
<1>4. ret = "none"
  BY DEF PoolInv
<1>5. Awaited' = Awaited
  BY <1>2 DEF Awaited
<1>6. pc[Main] = "start" => \A u \in Threads : u >= starting => pc'[u] = "none"
  BY <1>1, <1>2 DEF PoolInv
<1>7. \A u \in acceptWait'[Work] : u \in Threads /\ pc'[u] = "accept"
  BY <1>1, <1>2 DEF PoolInv
<1>8. \A u \in acceptWait'[End] : u = Main /\ pc'[u] = "endAccept"
  BY <1>2 DEF PoolInv
<1> QED
  BY <1>2, <1>3, <1>4, <1>5, <1>6, <1>7, <1>8 DEF PoolInv

(* The steps of the pool's threads. *)
LEMMA PoolCounts ==
  ASSUME TypeInv, PoolInv, NEW t \in Threads, PoolThread(t)
  PROVE  PoolInv'
<1>0. /\ t # Main /\ t \in All /\ Main \in All /\ Work \in Chans /\ End \in Chans /\ Work # End
      /\ TypeOK
  BY Constants DEF TypeInv
<1>1. CASE ThreadEnd(t)
  <2>1. /\ Send(End, t) /\ pc[t] = "end" /\ pc' = [pc EXCEPT ![t] = "done"]
        /\ UNCHANGED <<threadOn, errNext, ret, starting>>
    BY <1>1 DEF ThreadEnd, goto, mainVars
  <2>2. /\ pc'[Main] = pc[Main] /\ pc'[t] = "done" /\ \A u \in Threads \ {t} : pc'[u] = pc[u]
    BY <1>0, <2>1 DEF TypeOK
  <2>3. Live' = Live \ {t} /\ t \in Live
    BY <2>1, <2>2 DEF Live
  <2>4. Cardinality(Live') = Cardinality(Live) - 1
    BY <2>3, LiveFinite, FS_RemoveElement
  <2>5. Len(dataList'[End]) = Len(dataList[End]) + 1 /\ Len(dataList[End]) \in Nat
    <3>1. dataList[End] \in Seq(Nat) /\ dataList'[End] = Append(dataList[End], t)
      BY <1>0, <2>1 DEF TypeOK, Send
    <3> QED
      BY <3>1
  <2>6. Awaited' = Awaited
    BY <2>1, <2>2 DEF Awaited
  <2>7. Awaited' = Cardinality(Live') + Len(dataList'[End])
    BY <2>4, <2>5, <2>6, LiveFinite DEF PoolInv
  <2>8. \A ch \in Chans : acceptWait'[ch] \subseteq acceptWait[ch]
    BY <1>0, <2>1, SendWakes
  <2>9. /\ \A u \in acceptWait'[Work] : u \in Threads /\ pc'[u] = "accept"
        /\ \A u \in acceptWait'[End] : u = Main /\ pc'[u] = "endAccept"
    BY <1>0, <2>1, <2>2, <2>8 DEF PoolInv
  <2>10. ret = "none"
    BY <2>3 DEF PoolInv
  <2>11. pc[Main] = "start" => \A u \in Threads : u >= starting => pc'[u] = "none"
    BY <2>1, <2>2 DEF PoolInv
  <2> QED
    BY <2>1, <2>2, <2>7, <2>9, <2>10, <2>11 DEF PoolInv
<1>2. CASE ~ThreadEnd(t)
  <2>1. t \in Live
    BY <1>2 DEF Live, PoolThread, OnError, SetError, CloseWork, ClearWork, ErrorDone, AcceptWork,
       ReadBlock, ReadNothing, ReadFails, Compress, PushBlock, WriteBlock, SendBack, FlushDone
  <2>2. \E p : p \notin {"none", "done"} /\ pc' = [pc EXCEPT ![t] = p]
                /\ (p = "accept" \/ pc[t] # "accept" \/ t \notin acceptWait[Work])
    <3>1. pc = [pc EXCEPT ![t] = pc[t]]
      BY <1>0 DEF TypeOK
    <3>2. CASE AcceptWork(t) \/ ClearWork(t)
      BY <2>1, <3>1, <3>2 DEF AcceptWork, ClearWork, goto, Live
    <3>3. CASE ErrorDone(t)
      BY <3>3 DEF ErrorDone, goto, TypeInv, Phases, ErrorPC
    <3>4. CASE ~AcceptWork(t) /\ ~ClearWork(t) /\ ~ErrorDone(t)
      BY <1>2, <3>4 DEF PoolThread, OnError, SetError, CloseWork, ReadBlock, ReadNothing, ReadFails,
         Compress, PushBlock, WriteBlock, SendBack, FlushDone, goto, checkFails
    <3> QED
      BY <3>2, <3>3, <3>4
  <2>3. UNCHANGED <<threadOn, ret, starting>> /\ errNext'[Main] = errNext[Main]
    BY <1>0, <1>2, SMTT(30) DEF PoolThread, OnError, SetError, CloseWork, ClearWork, ErrorDone, AcceptWork,
       ReadBlock, ReadNothing, ReadFails, Compress, PushBlock, WriteBlock, SendBack, FlushDone,
       checkFails, mainVars, TypeOK
  <2>4. /\ dataList'[End] = dataList[End] /\ acceptWait'[End] = acceptWait[End]
        /\ \A u \in acceptWait'[Work] : u \in acceptWait[Work] \/ (u = t /\ AcceptWork(t) /\ pc' = pc)
    <3>1. CASE UNCHANGED chanVars
      BY <3>1 DEF chanVars
    <3>2. CASE Accept(Work)
      BY <1>0, <3>2 DEF Accept, TypeOK
    <3>3. CASE AcceptSleeps(Work, t) /\ AcceptWork(t) /\ pc' = pc
      BY <1>0, <3>3 DEF AcceptSleeps, TypeOK
    <3>4. CASE Close(Work)
      BY <1>0, <3>4 DEF Close, TypeOK
    <3>5. CASE Send(Work, workBuf[t])
      BY <1>0, <3>5 DEF Send, TypeOK
    <3> QED
      BY <1>2, <3>1, <3>2, <3>3, <3>4, <3>5 DEF PoolThread, OnError, SetError, CloseWork, ClearWork,
         ErrorDone, AcceptWork, ReadBlock, ReadNothing, ReadFails, Compress, PushBlock, WriteBlock,
         SendBack, FlushDone
  <2>5. PICK p : /\ p \notin {"none", "done"} /\ pc' = [pc EXCEPT ![t] = p]
                 /\ (p = "accept" \/ pc[t] # "accept" \/ t \notin acceptWait[Work])
    BY <2>2
  <2>6. t \in acceptWait'[Work] => p = "accept"
    <3>1. pc'[t] = p
      BY <1>0, <2>5 DEF TypeOK
    <3>2. t \in acceptWait[Work] => pc[t] = "accept"
      BY DEF PoolInv
    <3>3. AcceptWork(t) => pc[t] = "accept"
      BY DEF AcceptWork
    <3> QED
      BY <2>4, <2>5, <3>1, <3>2, <3>3
  <2> QED
    BY <2>1, <2>3, <2>4, <2>5, <2>6, PoolMoves
<1> QED
  BY <1>1, <1>2

(* The main thread within on_error, or within the destructor. *)
LEMMA MainErrorCounts ==
  ASSUME TypeInv, PoolInv,
         OnError(Main) \/ SetError(Main) \/ CloseWork(Main) \/ ClearWork(Main) \/ ErrorDone(Main)
  PROVE  PoolInv'
<1>0. /\ Main \notin Threads /\ Main \in All /\ Work \in Chans /\ End \in Chans /\ Work # End
      /\ TypeOK
  BY Constants DEF TypeInv
<1>1. UNCHANGED <<threadOn, errNext, ret, starting>>
  BY DEF OnError, SetError, CloseWork, ClearWork, ErrorDone, mainVars
<1>2. /\ \A u \in Threads : pc'[u] = pc[u]
      /\ pc[Main] \in ErrorPC
      /\ pc'[Main] \in ErrorPC \/ (pc[Main] = "errorDone" /\ pc'[Main] = errNext[Main])
      /\ pc'[Main] \in {"error", "setError"} => pc[Main] = "error"
      /\ pc'[Main] \in {"close", "clear", "errorDone"} =>
           pc[Main] \in {"close", "clear"} \/ errNext[Main] = "waitEnd"
  <2>1. CASE OnError(Main) \/ SetError(Main)
    <3>1. PICK q \in {"setError", "close", "errorDone"} :
            /\ pc' = [pc EXCEPT ![Main] = q] /\ pc[Main] \in {"error", "setError"}
            /\ q = "setError" => pc[Main] = "error"
      BY <2>1 DEF OnError, SetError, goto
    <3>2. pc'[Main] = q /\ \A u \in Threads : pc'[u] = pc[u]
      BY <1>0, <3>1 DEF TypeOK
    <3>3. errNext[Main] = "waitEnd"
      BY <3>1 DEF PoolInv
    <3> QED
      BY <3>1, <3>2, <3>3 DEF ErrorPC
  <2>2. CASE CloseWork(Main) \/ ClearWork(Main)
    <3>1. /\ pc[Main] \in {"close", "clear"}
          /\ pc' = pc \/ \E q \in {"clear", "errorDone"} : pc' = [pc EXCEPT ![Main] = q]
      BY <2>2 DEF CloseWork, ClearWork, goto
    <3>2. /\ pc'[Main] \in {"close", "clear", "errorDone"}
          /\ \A u \in Threads : pc'[u] = pc[u]
      <4>1. CASE pc' = pc
        BY <3>1, <4>1
      <4>2. ASSUME NEW q \in {"clear", "errorDone"}, pc' = [pc EXCEPT ![Main] = q]
            PROVE  pc'[Main] = q /\ \A u \in Threads : pc'[u] = pc[u]
        BY <1>0, <4>2 DEF TypeOK
      <4> QED
        BY <3>1, <4>1, <4>2
    <3> QED
      BY <3>1, <3>2 DEF ErrorPC
  <2>3. CASE ErrorDone(Main)
    BY <1>0, <2>3 DEF ErrorDone, goto, TypeOK, TypeInv, Phases, ErrorPC
  <2> QED
    BY <2>1, <2>2, <2>3
<1>3. /\ dataList'[End] = dataList[End] /\ \A ch \in Chans : acceptWait'[ch] \subseteq acceptWait[ch]
      /\ dataList[Work] = <<>> => dataList'[Work] = <<>>
      /\ ~(pc[Main] = "errorDone") /\ pc'[Main] = "errorDone" =>
           dataList'[Work] = <<>> \/ errNext[Main] = "waitEnd"
  <2>1. CASE OnError(Main) \/ SetError(Main) \/ ErrorDone(Main)
    BY <1>0, <2>1 DEF OnError, SetError, ErrorDone, goto, chanVars, TypeOK, PoolInv, TypeInv, Phases
  <2>2. CASE CloseWork(Main)
    BY <1>0, <2>2 DEF CloseWork, Close, goto, TypeOK
  <2>3. CASE ClearWork(Main)
    BY <1>0, <2>3 DEF ClearWork, Accept, goto, chanVars, TypeOK
  <2> QED
    BY <2>1, <2>2, <2>3
<1>4. Live' = Live
  BY <1>2 DEF Live
<1>5. errNext[Main] \in {"waitEnd", "returned"}
  BY <1>2 DEF TypeInv, Phases
<1>6. pc[Main] # "endAccept" /\ pc'[Main] # "endAccept" /\ pc'[Main] # "start"
  BY <1>2, <1>5 DEF ErrorPC
<1>7. Awaited' = Awaited
  BY <1>1, <1>6 DEF Awaited
<1>8. /\ \A u \in acceptWait'[Work] : u \in Threads /\ pc'[u] = "accept"
      /\ \A u \in acceptWait'[End] : u = Main /\ pc'[u] = "endAccept"
  BY <1>0, <1>2, <1>3, <1>6 DEF PoolInv
<1>9. ret # "none" <=> \/ pc'[Main] = "returned"
                       \/ pc'[Main] \in {"close", "clear", "errorDone"} /\ errNext[Main] = "returned"
  BY <1>2, <1>5 DEF PoolInv, ErrorPC
<1>10. pc'[Main] \in {"error", "setError"} => errNext[Main] = "waitEnd"
  BY <1>2 DEF PoolInv
<1>11. ret # "none" /\ pc'[Main] \in {"errorDone", "returned"} => dataList'[Work] = <<>>
  <2>1. ret # "none" => errNext[Main] = "returned"
    BY <1>2 DEF PoolInv, ErrorPC
  <2>2. pc'[Main] = "returned" => pc[Main] = "errorDone"
    BY <1>2 DEF ErrorPC
  <2>3. ret # "none" /\ pc[Main] = "errorDone" => dataList[Work] = <<>>
    BY DEF PoolInv
  <2> QED
    BY <1>3, <2>1, <2>2, <2>3
<1> QED
  BY <1>1, <1>3, <1>4, <1>6, <1>7, <1>8, <1>9, <1>10, <1>11 DEF PoolInv

(* start_threads and wait_all_thread_end. *)
LEMMA MainCounts ==
  ASSUME TypeInv, PoolInv, StartThread \/ StartFails \/ RunDone \/ WaitEnd \/ EndAccept
  PROVE  PoolInv'
<1>0. /\ Main \notin Threads /\ Main \in All /\ Work \in Chans /\ End \in Chans /\ Work # End
      /\ TypeOK /\ threadOn \in Nat /\ Len(dataList[End]) \in Nat /\ Threads \subseteq All
      /\ ThreadNum \in Nat
  BY Constants, SMTT(30) DEF TypeInv, TypeOK
<1>1. CASE StartThread
  <2>1. /\ starting \in Threads /\ starting \in Nat
    BY <1>0, <1>1 DEF StartThread, TypeOK, Threads
  <2>2. /\ pc[Main] = "start" /\ starting' = starting + 1 /\ threadOn' = threadOn + 1
        /\ pc'[starting] = "accept" /\ \A u \in Threads \ {starting} : pc'[u] = pc[u]
        /\ pc'[Main] = IF starting = ThreadNum THEN "run" ELSE "start"
        /\ UNCHANGED <<dataList, acceptWait, errNext, ret>>
    BY <1>0, <1>1, <2>1 DEF StartThread, TypeOK, chanVars
  <2>3. pc[starting] = "none" /\ ret = "none"
    BY <2>1, <2>2 DEF PoolInv
  <2>4. Live' = Live \union {starting} /\ starting \notin Live
    BY <2>1, <2>2, <2>3 DEF Live
  <2>5. Cardinality(Live') = Cardinality(Live) + 1
    BY <2>4, LiveFinite, FS_AddElement
  <2>6. Awaited' = Awaited + 1
    BY <1>0, <2>2 DEF Awaited
  <2>7. Awaited' = Cardinality(Live') + Len(dataList'[End])
    BY <1>0, <2>2, <2>5, <2>6, LiveFinite, SMTT(30) DEF PoolInv
  <2>8. pc'[Main] = "start" =>
          starting' <= ThreadNum /\ \A u \in Threads : u >= starting' => pc'[u] = "none"
    <3>1. Threads \subseteq Nat
      BY Constants
    <3> QED
      BY <1>0, <2>1, <2>2, <3>1 DEF PoolInv, Threads
  <2>9. /\ \A u \in acceptWait'[Work] : u \in Threads /\ pc'[u] = "accept"
        /\ \A u \in acceptWait'[End] : u = Main /\ pc'[u] = "endAccept"
    BY <2>1, <2>2 DEF PoolInv
  <2> QED
    BY <2>2, <2>3, <2>7, <2>8, <2>9 DEF PoolInv
<1>2. CASE StartFails \/ RunDone
  <2>1. /\ pc[Main] \in {"start", "run"} /\ \A u \in Threads : pc'[u] = pc[u]
        /\ pc'[Main] = "waitEnd" \/ (pc'[Main] = "error" /\ errNext'[Main] = "waitEnd")
        /\ UNCHANGED <<dataList, acceptWait, threadOn, ret>>
    BY <1>0, <1>2 DEF StartFails, RunDone, checkFails, goto, TypeOK, chanVars, mainVars
  <2>2. Live' = Live /\ Awaited' = Awaited /\ ret = "none"
    BY <2>1 DEF Live, Awaited, PoolInv
  <2> QED
    BY <2>1, <2>2 DEF PoolInv
<1>3. CASE WaitEnd
  <2>1. /\ pc[Main] = "waitEnd" /\ \A u \in Threads : pc'[u] = pc[u]
        /\ UNCHANGED <<dataList, acceptWait>>
    BY <1>0, <1>3 DEF WaitEnd, goto, TypeOK, chanVars
  <2>2. Live' = Live /\ ret = "none" /\ Awaited = threadOn
    BY <1>0, <2>1 DEF Live, Awaited, PoolInv
  <2>3. CASE threadOn > 0
    <3>1. pc'[Main] = "endAccept" /\ threadOn' = threadOn - 1 /\ UNCHANGED <<errNext, ret>>
      BY <1>0, <1>3, <2>3 DEF WaitEnd, goto, TypeOK
    <3>2. Awaited' = Awaited
      BY <1>0, <2>2, <2>3, <3>1 DEF Awaited
    <3> QED
      BY <2>1, <2>2, <3>1, <3>2 DEF PoolInv
  <2>4. CASE threadOn = 0
    <3>1. /\ pc'[Main] = "close" /\ errNext'[Main] = "returned" /\ ret' # "none" /\ threadOn' = threadOn
      BY <1>0, <1>3, <2>4 DEF WaitEnd, goto, TypeOK
    <3>2. Cardinality(Live) = 0 /\ Len(dataList[End]) = 0
      BY <1>0, <2>2, <2>4, LiveFinite DEF PoolInv
    <3>3. Live = {} /\ dataList[End] = <<>>
      BY <1>0, <3>2, LiveFinite, FS_EmptySet, EmptySeq DEF TypeOK
    <3>4. Awaited' = Awaited
      BY <1>0, <2>1, <3>1 DEF Awaited
    <3> QED
      BY <2>1, <2>2, <3>1, <3>3, <3>4 DEF PoolInv
  <2> QED
    BY <1>0, <2>3, <2>4
<1>4. CASE EndAccept
  <2>1. /\ pc[Main] = "endAccept" /\ \A u \in Threads : pc'[u] = pc[u]
        /\ UNCHANGED <<threadOn, errNext, ret, starting>>
    BY <1>0, <1>4 DEF EndAccept, goto, TypeOK, mainVars
  <2>2. Live' = Live /\ ret = "none"
    BY <2>1 DEF Live, PoolInv
  <2>3. CASE Accept(End) /\ goto(Main, "waitEnd")
    <3>1. /\ pc'[Main] = "waitEnd" /\ dataList'[End] = Tail(dataList[End]) /\ dataList[End] # <<>>
          /\ dataList[End] \in Seq(Nat) /\ acceptWait' = acceptWait /\ Main \notin acceptWait[End]
      BY <1>0, <1>4, <2>3 DEF Accept, goto, TypeOK, EndAccept
    <3>2. Len(dataList'[End]) = Len(dataList[End]) - 1
      BY <3>1
    <3>3. Awaited' = Awaited - 1
      BY <1>0, <2>1, <3>1 DEF Awaited
    <3>4. Awaited' = Cardinality(Live') + Len(dataList'[End])
      BY <1>0, <2>2, <3>2, <3>3, LiveFinite DEF PoolInv
    <3> QED
      BY <2>1, <2>2, <3>1, <3>4 DEF PoolInv
  <2>4. CASE AcceptSleeps(End, Main) /\ UNCHANGED pc
    <3>1. /\ UNCHANGED <<dataList, pc>> /\ acceptWait'[Work] = acceptWait[Work]
          /\ acceptWait'[End] = acceptWait[End] \union {Main}
      BY <1>0, <2>4 DEF AcceptSleeps, TypeOK
    <3>2. Awaited' = Awaited
      BY <2>1, <3>1 DEF Awaited
    <3> QED
      BY <2>1, <2>2, <3>1, <3>2 DEF PoolInv
  <2> QED
    BY <1>4, <2>3, <2>4 DEF EndAccept
<1> QED
  BY <1>1, <1>2, <1>3, <1>4

(* Each step keeps the count. *)
LEMMA NextPoolInv ==
  ASSUME TypeInv, PoolInv, [Next]_vars
  PROVE  PoolInv'
<1>1. CASE SpuriousWake \/ UNCHANGED vars
  <2>1. /\ UNCHANGED <<dataList, threadOn, pc, errNext, starting, ret>>
        /\ \A ch \in Chans : acceptWait'[ch] \subseteq acceptWait[ch]
    BY <1>1 DEF SpuriousWake, TypeInv, TypeOK, vars, chanVars, threadVars, mainVars
  <2>2. Live' = Live /\ Awaited' = Awaited
    BY <2>1 DEF Live, Awaited
  <2>3. acceptWait'[Work] \subseteq acceptWait[Work] /\ acceptWait'[End] \subseteq acceptWait[End]
    BY <2>1, Constants
  <2> QED
    BY <2>1, <2>2, <2>3 DEF PoolInv
<1> QED
  BY <1>1, PoolCounts, MainErrorCounts, MainCounts DEF Next, MainThread

(* When nothing has started nothing is counted. *)
LEMMA InitPoolInv == Init => PoolInv
<1> SUFFICES ASSUME Init PROVE PoolInv
  OBVIOUS
<1>1. /\ pc[Main] = "start" /\ \A t \in Threads : pc[t] = "none"
      /\ dataList[End] = <<>> /\ acceptWait[Work] = {} /\ acceptWait[End] = {}
      /\ threadOn = 0 /\ starting = 1 /\ ret = "none"
  BY Constants DEF Init
<1>2. Live = {} /\ Awaited = 0
  BY <1>1 DEF Live, Awaited
<1>3. Cardinality(Live) = 0
  BY <1>2, FS_EmptySet
<1>4. starting <= ThreadNum
  BY <1>1, Constants
<1> QED
  BY <1>1, <1>2, <1>3, <1>4 DEF PoolInv

(* When parallel_compress_blocks returns, no thread is left that could use *)
(* its memory and its channels are empty and unused, as the assert of      *)
(* ~_CChannel_import demands, whatever has failed.                         *)
THEOREM CompressReturnsQuiet == Spec => []CompressQuietAtReturn
<1> DEFINE I == TypeInv /\ PoolInv
<1>1. Init => I
  BY InitTypeInv, InitPoolInv
<1>2. I /\ [Next]_vars => I'
  BY NextTypeInv, NextPoolInv
<1>3. I => CompressQuietAtReturn
  <2> SUFFICES ASSUME TypeInv, PoolInv, pc[Main] = "returned"
               PROVE  /\ \A t \in Threads : pc[t] \in {"none", "done"}
                      /\ \A ch \in Chans : dataList[ch] = <<>> /\ acceptWait[ch] = {}
    BY DEF CompressQuietAtReturn
  <2>1. Live = {} /\ dataList[End] = <<>> /\ dataList[Work] = <<>>
    BY DEF PoolInv
  <2>2. \A t \in Threads : pc[t] \in {"none", "done"}
    BY <2>1 DEF Live
  <2>3. acceptWait[Work] = {} /\ acceptWait[End] = {}
    BY <2>2 DEF PoolInv
  <2> QED
    BY <2>1, <2>2, <2>3 DEF Chans
<1> QED
  BY <1>1, <1>2, <1>3, PTL DEF Spec

---------------------------------------------------------------------------
(* on_error *)

(* A thread of the pool moves only itself. *)
LEMMA OthersStay ==
  ASSUME TypeInv, NEW t \in Threads, PoolThread(t)
  PROVE  /\ \A u \in Threads \ {t} : pc'[u] = pc[u] /\ workBuf'[u] = workBuf[u]
         /\ pc'[Main] = pc[Main] /\ errNext'[Main] = errNext[Main] /\ UNCHANGED <<starting, ret>>
<1>0. /\ t # Main /\ t \in All /\ Main \in All /\ Threads \subseteq All
      /\ pc \in [All -> PoolPC \union MainPC] /\ workBuf \in [Threads -> Bufs \union {NoBuf}]
      /\ errNext \in [All -> {"none", "end", "accept", "waitEnd", "returned"}]
  BY Constants, SMTT(30) DEF TypeInv, TypeOK
<1> DEFINE OnlyMe == /\ \A u \in All \ {t} : pc'[u] = pc[u] /\ errNext'[u] = errNext[u]
                     /\ \A u \in Threads \ {t} : workBuf'[u] = workBuf[u]
<1>1. OnError(t) => OnlyMe
  BY <1>0 DEF OnError, goto, checkFails
<1>2. SetError(t) => OnlyMe
  BY <1>0 DEF SetError, goto, checkFails
<1>3. CloseWork(t) => OnlyMe
  BY <1>0 DEF CloseWork, goto, checkFails
<1>4. ClearWork(t) => OnlyMe
  BY <1>0 DEF ClearWork, goto, checkFails
<1>5. ErrorDone(t) => OnlyMe
  BY <1>0 DEF ErrorDone, goto, checkFails
<1>6. AcceptWork(t) => OnlyMe
  BY <1>0 DEF AcceptWork, goto, checkFails
<1>7. ReadBlock(t) => OnlyMe
  BY <1>0 DEF ReadBlock, goto, checkFails
<1>8. ReadNothing(t) => OnlyMe
  BY <1>0 DEF ReadNothing, goto, checkFails
<1>9. ReadFails(t) => OnlyMe
  BY <1>0 DEF ReadFails, goto, checkFails
<1>10. Compress(t) => OnlyMe
  BY <1>0 DEF Compress, goto, checkFails
<1>11. PushBlock(t) => OnlyMe
  BY <1>0 DEF PushBlock, goto, checkFails
<1>12. WriteBlock(t) => OnlyMe
  BY <1>0 DEF WriteBlock, goto, checkFails
<1>13. SendBack(t) => OnlyMe
  BY <1>0 DEF SendBack, goto, checkFails
<1>14. FlushDone(t) => OnlyMe
  BY <1>0 DEF FlushDone, goto, checkFails
<1>15. ThreadEnd(t) => OnlyMe
  BY <1>0 DEF ThreadEnd, goto, checkFails
<1>16. OnlyMe
  BY <1>1, <1>2, <1>3, <1>4, <1>5, <1>6, <1>7, <1>8, <1>9, <1>10, <1>11, <1>12, <1>13, <1>14, <1>15
  DEF PoolThread
<1>17. UNCHANGED <<starting, ret>>
  BY DEF PoolThread, OnError, SetError, CloseWork, ClearWork, ErrorDone, AcceptWork, ReadBlock,
     ReadNothing, ReadFails, Compress, PushBlock, WriteBlock, SendBack, FlushDone, ThreadEnd,
     mainVars
<1> QED
  BY <1>0, <1>16, <1>17

(* The main thread moves no other but the ones that it starts. *)
LEMMA MainStays ==
  ASSUME TypeInv, PoolInv, MainThread
  PROVE  /\ \A u \in Threads : pc'[u] = pc[u] \/ (pc[u] = "none" /\ pc'[u] = "accept")
         /\ UNCHANGED <<workBuf, dataVars, bufVars, readLocker, writeLocker>>
<1>0. /\ Main \notin Threads /\ Main \in All /\ Threads \subseteq All
      /\ pc \in [All -> PoolPC \union MainPC] /\ Main \in Nat /\ Threads \subseteq Nat
      /\ readLocker # Main /\ writeLocker # Main
  BY Constants, SMTT(30) DEF TypeInv, TypeOK, Main, Nobody
<1>1. UNCHANGED <<workBuf, dataVars, bufVars, readLocker, writeLocker>>
  BY <1>0 DEF MainThread, OnError, SetError, CloseWork, ClearWork, ErrorDone, StartThread,
     StartFails, RunDone, WaitEnd, EndAccept, lockVars
<1>2. CASE StartThread
  <2>1. /\ pc[Main] = "start" /\ starting \in Threads
        /\ pc' = [pc EXCEPT ![starting] = "accept",
                            ![Main] = IF starting = ThreadNum THEN "run" ELSE "start"]
    BY <1>2, Constants DEF StartThread, TypeInv, TypeOK, Threads
  <2>2. pc[starting] = "none"
    BY <1>0, <2>1 DEF PoolInv
  <2> QED
    BY <1>0, <1>1, <2>1, <2>2
<1>3. CASE ~StartThread
  <2>1. pc' = pc \/ \E p : pc' = [pc EXCEPT ![Main] = p]
    BY <1>3 DEF MainThread, OnError, SetError, CloseWork, ClearWork, ErrorDone, StartFails,
       RunDone, WaitEnd, EndAccept, goto, checkFails
  <2> QED
    BY <1>0, <1>1, <2>1
<1> QED
  BY <1>2, <1>3

(* Who has set isOnError goes through on_error, and only who is in there   *)
(* closes work_chan before the function returns.                           *)
LEMMA NextErrorInv ==
  ASSUME TypeInv, PoolInv, ErrorInv, [Next]_vars
  PROVE  ErrorInv'
<1>0. /\ Main \notin Threads /\ Main \in All /\ Threads \subseteq All /\ Work \in Chans
      /\ End \in Chans /\ Work # End
      /\ pc \in [All -> PoolPC \union MainPC] /\ isClosed \in [Chans -> BOOLEAN]
      /\ errNext \in [All -> {"none", "end", "accept", "waitEnd", "returned"}]
  BY Constants, SMTT(30) DEF TypeInv, TypeOK
<1>1. CASE \E t \in Threads : PoolThread(t)
  <2>1. PICK t \in Threads : PoolThread(t)
    BY <1>1
  <2>2. /\ \A u \in Threads \ {t} : pc'[u] = pc[u]
        /\ pc'[Main] = pc[Main] /\ errNext'[Main] = errNext[Main] /\ ret' = ret
    BY <2>1, OthersStay
  <2>3. isOnError => isOnError'
    BY <2>1 DEF PoolThread, OnError, SetError, CloseWork, ClearWork, ErrorDone, AcceptWork,
       ReadBlock, ReadNothing, ReadFails, Compress, PushBlock, WriteBlock, SendBack, FlushDone,
       ThreadEnd
  <2>4. pc'[t] \in {"close", "clear", "errorDone"} => isOnError'
    <3>1. CASE OnError(t) \/ SetError(t) \/ CloseWork(t) \/ ClearWork(t)
      BY <1>0, <3>1 DEF OnError, SetError, CloseWork, ClearWork, goto, ErrorInv
    <3>2. CASE ErrorDone(t)
      BY <1>0, <3>2 DEF ErrorDone, goto, TypeInv, Phases, ErrorPC
    <3>3. CASE AcceptWork(t)
      BY <1>0, <3>3 DEF AcceptWork, goto
    <3>4. CASE ~(OnError(t) \/ SetError(t) \/ CloseWork(t) \/ ClearWork(t) \/ ErrorDone(t)
                 \/ AcceptWork(t))
      <4>1. PICK p : /\ p \notin {"close", "clear", "errorDone"}
                     /\ pc' = [pc EXCEPT ![t] = p]
        BY <2>1, <3>4 DEF PoolThread, ReadBlock, ReadNothing, ReadFails, Compress, PushBlock,
           WriteBlock, SendBack, FlushDone, ThreadEnd, goto, checkFails
      <4> QED
        BY <1>0, <4>1, SMTT(30)
    <3> QED
      BY <3>1, <3>2, <3>3, <3>4
  <2>5. isClosed'[Work] => isClosed[Work] \/ (CloseWork(t) /\ pc[t] = "close")
    BY <1>0, <2>1 DEF PoolThread, OnError, SetError, CloseWork, ClearWork, ErrorDone, AcceptWork,
       ReadBlock, ReadNothing, ReadFails, Compress, PushBlock, WriteBlock, SendBack, FlushDone,
       ThreadEnd, chanVars, Accept, AcceptSleeps, Send
  <2>6. isClosed'[Work] => isOnError' \/ ret' # "none"
    BY <2>2, <2>3, <2>5 DEF ErrorInv
  <2>7. \A u \in Threads : pc'[u] \in {"close", "clear", "errorDone"} => isOnError'
    BY <2>2, <2>3, <2>4 DEF ErrorInv
  <2> QED
    BY <2>2, <2>3, <2>6, <2>7 DEF ErrorInv
<1>2. CASE MainThread
  <2>1. \A u \in Threads : pc'[u] = pc[u] \/ pc'[u] = "accept"
    BY <1>2, MainStays
  <2>2. isOnError => isOnError'
    BY <1>2 DEF MainThread, OnError, SetError, CloseWork, ClearWork, ErrorDone, StartThread,
       StartFails, RunDone, WaitEnd, EndAccept
  <2>3. ret # "none" => ret' # "none"
    BY <1>2 DEF MainThread, OnError, SetError, CloseWork, ClearWork, ErrorDone, StartThread,
       StartFails, RunDone, WaitEnd, EndAccept, mainVars
  <2>4. pc'[Main] \in {"close", "clear", "errorDone"} /\ errNext'[Main] = "waitEnd" => isOnError'
    <3>1. CASE OnError(Main) \/ SetError(Main) \/ CloseWork(Main) \/ ClearWork(Main)
      BY <1>0, <3>1 DEF OnError, SetError, CloseWork, ClearWork, goto, ErrorInv
    <3>2. CASE ErrorDone(Main)
      BY <1>0, <3>2 DEF ErrorDone, goto, TypeInv, Phases, ErrorPC
    <3>3. CASE StartThread
      BY <1>0, <3>3, Constants DEF StartThread, TypeInv, TypeOK
    <3>4. CASE StartFails \/ RunDone
      BY <1>0, <3>4 DEF StartFails, RunDone, goto, checkFails
    <3>5. CASE WaitEnd \/ EndAccept
      BY <1>0, <3>5 DEF WaitEnd, EndAccept, goto
    <3> QED
      BY <1>2, <3>1, <3>2, <3>3, <3>4, <3>5 DEF MainThread
  <2>5. isClosed'[Work] => isClosed[Work] \/ (pc[Main] = "close" /\ UNCHANGED <<isOnError, ret>>)
    BY <1>0, <1>2 DEF MainThread, OnError, SetError, CloseWork, ClearWork, ErrorDone, StartThread,
       StartFails, RunDone, WaitEnd, EndAccept, chanVars, mainVars, Accept, AcceptSleeps
  <2>6. pc[Main] = "close" => isOnError \/ ret # "none"
    <3>1. pc[Main] = "close" => errNext[Main] \in {"waitEnd", "returned"}
      BY DEF TypeInv, Phases, ErrorPC
    <3> QED
      BY <3>1 DEF ErrorInv, PoolInv
  <2>7. isClosed'[Work] => isOnError' \/ ret' # "none"
    BY <2>2, <2>3, <2>5, <2>6 DEF ErrorInv
  <2>8. \A u \in Threads : pc'[u] \in {"close", "clear", "errorDone"} => isOnError'
    BY <2>1, <2>2 DEF ErrorInv
  <2> QED
    BY <2>4, <2>7, <2>8 DEF ErrorInv
<1>3. CASE SpuriousWake \/ UNCHANGED vars
  BY <1>3 DEF SpuriousWake, vars, chanVars, threadVars, mainVars, ErrorInv
<1> QED
  BY <1>1, <1>2, <1>3 DEF Next

---------------------------------------------------------------------------
(* No work buffer is lost *)

(* Until there is an error or a result every buffer has an owner, and a    *)
(* thread has none where it is about to take one.                          *)
EmptyPC == {"none", "accept", "flush"}
KeptInv ==
  \/ isOnError \/ ret # "none"
  \/ /\ \A b \in Bufs : HasOwner(b)
     /\ \A t \in Threads : pc[t] \in EmptyPC => workBuf[t] = NoBuf

(* A thread moves without a buffer, or with its own. *)
LEMMA SameKept ==
  ASSUME KeptInv, ~isOnError, ret = "none", dataList'[Work] = dataList[Work],
         UNCHANGED <<dataBufList, workBuf>>,
         \A u \in Threads : pc'[u] \in EmptyPC => pc[u] \in EmptyPC
  PROVE  KeptInv'
BY DEF KeptInv, HasOwner

(* A thread takes a buffer out of work_chan. *)
LEMMA AcceptKept ==
  ASSUME TypeInv, KeptInv, ~isOnError, ret = "none", NEW t \in Threads, AcceptWork(t)
  PROVE  KeptInv'
<1>1. /\ pc[t] = "accept" /\ pc \in [All -> PoolPC \union MainPC] /\ t \in All /\ Threads \subseteq All
      /\ workBuf \in [Threads -> Bufs \union {NoBuf}] /\ dataBufList' = dataBufList
  BY Constants DEF AcceptWork, TypeInv, TypeOK, dataVars
<1>2. workBuf[t] = NoBuf /\ NoBuf \notin Bufs
  BY <1>1, Constants DEF KeptInv, EmptyPC
<1>3. CASE /\ Accept(Work) /\ workBuf' = [workBuf EXCEPT ![t] = Head(dataList[Work])]
           /\ pc' = [pc EXCEPT ![t] = "read"]
  <2> DEFINE f == dataList[Work]
             h == Head(f)
             r == Tail(f)
  <2>1. /\ f \in Seq(Bufs) /\ f # <<>> /\ dataList'[Work] = r
    BY <1>3, Constants DEF TypeInv, TypeOK, Accept
  <2>2. \A x : InList(x, f) <=> x = h \/ InList(x, r)
    BY <2>1, ListTail
  <2> HIDE DEF f, h, r
  <2>3. workBuf'[t] = h /\ \A u \in Threads \ {t} : workBuf'[u] = workBuf[u] /\ pc'[u] = pc[u]
    BY <1>1, <1>3 DEF h, f
  <2>4. pc'[t] = "read"
    BY <1>1, <1>3
  <2>5. \A b \in Bufs : HasOwner(b)'
    BY <1>1, <1>2, <2>1, <2>2, <2>3 DEF KeptInv, HasOwner, f
  <2> QED
    BY <2>3, <2>4, <2>5 DEF KeptInv, EmptyPC
<1>4. CASE ~Accept(Work)
  <2>1. UNCHANGED <<dataList, dataBufList>>
    BY <1>1, <1>4 DEF AcceptWork, chanVars, AcceptSleeps
  <2>2. workBuf' = workBuf
    BY <1>1, <1>2, <1>4 DEF AcceptWork
  <2>3. pc'[t] \in {"accept", "end"} /\ \A u \in Threads \ {t} : pc'[u] = pc[u]
    BY <1>1, <1>4, Constants DEF AcceptWork, goto
  <2> QED
    BY <1>1, <2>1, <2>2, <2>3, SameKept DEF EmptyPC
<1> QED
  BY <1>3, <1>4 DEF AcceptWork, goto, Accept, AcceptSleeps

(* A block goes into the list of finished blocks, or out of it. *)
LEMMA ListKept ==
  ASSUME TypeInv, AtMostOneOwner, KeptInv, ~isOnError, ret = "none", NEW t \in Threads,
         PushBlock(t) \/ WriteBlock(t)
  PROVE  KeptInv'
<1>1. /\ pc \in [All -> PoolPC \union MainPC] /\ t \in All /\ Threads \subseteq All
      /\ workBuf \in [Threads -> Bufs \union {NoBuf}] /\ NoBuf \notin Bufs /\ dataList' = dataList
      /\ \A u \in Threads \ {t} : pc'[u] = pc[u]
  BY Constants DEF PushBlock, WriteBlock, TypeInv, TypeOK, chanVars, goto, checkFails
<1>2. CASE PushBlock(t)
  <2>1. \A x : InList(x, dataBufList') <=> InList(x, dataBufList) \/ x = workBuf[t]
    BY <1>2, PushOwners
  <2>2. workBuf'[t] = NoBuf /\ \A u \in Threads \ {t} : workBuf'[u] = workBuf[u]
    BY <1>1, <1>2 DEF PushBlock
  <2>3. \A b \in Bufs : HasOwner(b)'
    BY <1>1, <2>1, <2>2 DEF KeptInv, HasOwner
  <2> QED
    BY <1>1, <2>2, <2>3 DEF KeptInv
<1>3. CASE WriteBlock(t)
  <2>1. /\ Head(dataBufList) \in Bufs
        /\ \A x : InList(x, dataBufList) <=> x = Head(dataBufList) \/ InList(x, dataBufList')
    BY <1>3, WriteOwners
  <2>2. workBuf'[t] = Head(dataBufList) /\ \A u \in Threads \ {t} : workBuf'[u] = workBuf[u]
    BY <1>1, <1>3 DEF WriteBlock
  <2>3. workBuf[t] = NoBuf
    BY <1>3 DEF WriteBlock, KeptInv, EmptyPC
  <2>4. \A b \in Bufs : HasOwner(b)'
    BY <1>1, <2>1, <2>2, <2>3 DEF KeptInv, HasOwner
  <2>5. pc'[t] \in {"sendBack", "error"}
    BY <1>1, <1>3 DEF WriteBlock, goto, checkFails
  <2> QED
    BY <1>1, <2>2, <2>4, <2>5 DEF KeptInv, EmptyPC
<1> QED
  BY <1>2, <1>3

(* A written buffer goes back: work_chan is open. *)
LEMMA SendKept ==
  ASSUME TypeInv, ErrorInv, KeptInv, ~isOnError, ret = "none", NEW t \in Threads, SendBack(t)
  PROVE  KeptInv'
<1> DEFINE f == dataList[Work]
           b == workBuf[t]
           r == Append(f, b)
<1>1. /\ workBuf' = [workBuf EXCEPT ![t] = NoBuf] /\ dataBufList' = dataBufList
      /\ b \in Bufs /\ f \in Seq(Bufs) /\ workBuf \in [Threads -> Bufs \union {NoBuf}]
      /\ dataList \in [Chans -> Seq(Nat)] /\ pc \in [All -> PoolPC \union MainPC]
      /\ t \in All /\ Threads \subseteq All
  BY Constants DEF TypeInv, TypeOK, Phases, SendBack, dataVars
<1>2. Send(Work, b) /\ pc' = [pc EXCEPT ![t] = "flush"]
  BY DEF SendBack, ErrorInv, goto
<1>3. dataList'[Work] = r
  BY <1>1, <1>2, Constants DEF Send
<1>4. \A x : InList(x, r) <=> InList(x, f) \/ x = b
  BY <1>1, ListAppend
<1> HIDE DEF r, f
<1>5. workBuf'[t] = NoBuf /\ \A u \in Threads \ {t} : workBuf'[u] = workBuf[u] /\ pc'[u] = pc[u]
  BY <1>1, <1>2
<1>6. \A c \in Bufs : HasOwner(c)'
  BY <1>1, <1>3, <1>4, <1>5, Constants DEF KeptInv, HasOwner, f
<1> QED
  BY <1>5, <1>6 DEF KeptInv

(* Each step keeps every buffer, unless an error or the result was there. *)
LEMMA NextKept ==
  ASSUME TypeInv, AtMostOneOwner, PoolInv, ErrorInv, KeptInv, [Next]_vars
  PROVE  KeptInv'
<1> SUFFICES ASSUME ~isOnError', ret' = "none" PROVE KeptInv'
  BY DEF KeptInv
<1>0. /\ dataList \in [Chans -> Seq(Nat)] /\ Work \in Chans /\ End \in Chans /\ Work # End
      /\ pc \in [All -> PoolPC \union MainPC] /\ Threads \subseteq All /\ Main \in All /\ Main \notin Threads
  BY Constants DEF TypeInv, TypeOK
<1>1. CASE \E t \in Threads : PoolThread(t)
  <2>1. PICK t \in Threads : PoolThread(t)
    BY <1>1
  <2>2. (\A u \in Threads \ {t} : pc'[u] = pc[u]) /\ ret = "none"
    BY <2>1, OthersStay
  <2>3. ~isOnError
    BY <2>1 DEF PoolThread, OnError, SetError, CloseWork, ClearWork, ErrorDone, AcceptWork,
       ReadBlock, ReadNothing, ReadFails, Compress, PushBlock, WriteBlock, SendBack, FlushDone,
       ThreadEnd
  <2>4. CASE OnError(t) \/ ReadBlock(t) \/ ReadNothing(t) \/ ReadFails(t) \/ Compress(t)
    <3>1. /\ UNCHANGED <<dataList, dataBufList, workBuf>>
          /\ pc'[t] \notin EmptyPC
      BY <1>0, <2>4 DEF OnError, ReadBlock, ReadNothing, ReadFails, Compress, chanVars, dataVars,
         EmptyPC, goto, checkFails
    <3> QED
      BY <2>2, <2>3, <3>1, SameKept
  <2>5. CASE FlushDone(t) \/ ThreadEnd(t)
    <3>1. /\ dataList'[Work] = dataList[Work] /\ UNCHANGED <<dataBufList, workBuf>>
          /\ pc'[t] \in EmptyPC => pc[t] \in EmptyPC
      BY <1>0, <2>5 DEF FlushDone, ThreadEnd, Send, chanVars, dataVars, EmptyPC, goto
    <3> QED
      BY <2>2, <2>3, <3>1, SameKept
  <2>6. ~(SetError(t) \/ CloseWork(t) \/ ClearWork(t) \/ ErrorDone(t))
    BY <2>3 DEF SetError, CloseWork, ClearWork, ErrorDone, ErrorInv
  <2> QED
    BY <2>1, <2>2, <2>3, <2>4, <2>5, <2>6, AcceptKept, ListKept, SendKept DEF PoolThread
<1>2. CASE MainThread
  <2>1. /\ \A u \in Threads : pc'[u] = pc[u] \/ (pc[u] = "none" /\ pc'[u] = "accept")
        /\ UNCHANGED <<workBuf, dataBufList>>
    BY <1>2, MainStays DEF dataVars
  <2>2. ~isOnError /\ ret = "none"
    BY <1>2 DEF MainThread, OnError, SetError, CloseWork, ClearWork, ErrorDone, StartThread,
       StartFails, RunDone, WaitEnd, EndAccept, mainVars
  <2>3. pc[Main] \notin {"close", "clear", "errorDone"}
    <3>1. pc[Main] \in {"close", "clear", "errorDone"} => errNext[Main] \in {"waitEnd", "returned"}
      BY DEF TypeInv, Phases, ErrorPC
    <3> QED
      BY <2>2, <3>1 DEF ErrorInv, PoolInv
  <2>4. dataList'[Work] = dataList[Work]
    BY <1>0, <1>2, <2>3 DEF MainThread, OnError, SetError, CloseWork, ClearWork, ErrorDone, StartThread,
       StartFails, RunDone, WaitEnd, EndAccept, chanVars, Accept, AcceptSleeps
  <2> QED
    BY <2>1, <2>2, <2>4, SameKept DEF EmptyPC
<1>3. CASE SpuriousWake \/ UNCHANGED vars
  BY <1>3, SameKept DEF SpuriousWake, vars, chanVars, dataVars, threadVars, mainVars
<1> QED
  BY <1>1, <1>2, <1>3 DEF Next

(* All buffers are in work_chan at first. *)
LEMMA InitKept == Init => KeptInv /\ ErrorInv
<1> SUFFICES ASSUME Init PROVE KeptInv /\ ErrorInv
  OBVIOUS
<1>1. workBufCount \in Nat
  BY Constants DEF workBufCount
<1>2. Len(Run(1, workBufCount)) = workBufCount
      /\ \A i \in 1..workBufCount : Run(1, workBufCount)[i] = i
  BY <1>1 DEF Run
<1>3. \A b \in Bufs : InList(b, dataList[Work])
  BY <1>1, <1>2, Constants DEF Init, InList, Bufs
<1>4. /\ pc[Main] = "start" /\ \A t \in Threads : pc[t] = "none" /\ workBuf[t] = NoBuf
      /\ ~isClosed[Work]
  BY Constants DEF Init
<1> QED
  BY <1>3, <1>4 DEF KeptInv, HasOwner, ErrorInv

(* A work buffer has at most one owner, whatever fails and whenever, and   *)
(* exactly one until there is an error or the result: for any number of    *)
(* threads and any input.                                                  *)
THEOREM CompressOwnsBuffers == Spec => []CompressBufsOwnedOnce
<1> DEFINE I == TypeInv /\ AtMostOneOwner /\ PoolInv /\ ErrorInv /\ KeptInv
<1>1. Init => I
  BY InitTypeInv, InitOwners, InitPoolInv, InitKept
<1>2. I /\ [Next]_vars => I'
  BY NextTypeInv, NextOwners, NextPoolInv, NextErrorInv, NextKept
<1>3. I => CompressBufsOwnedOnce
  BY DEF KeptInv, CompressBufsOwnedOnce
<1> QED
  BY <1>1, <1>2, <1>3, PTL DEF Spec

---------------------------------------------------------------------------
(* The blocks and their dictionaries *)

(* The dictionary grows with what is read, up to blockDictSize. *)
LEMMA DictGrows ==
  ASSUME NEW k \in Nat, k + 1 < BlockCount
  PROVE  nextDict(dictBefore(k), block(k)) = dictBefore(k + 1)
<1>1. /\ BlockSize \in Nat \ {0} /\ BlockDictSize \in Nat /\ BlockCount \in Nat
      /\ k \in 0..(BlockCount - 1)
  BY Constants, BlocksCover
<1>2. PICK pos \in Nat : pos = k * BlockSize /\ (k + 1) * BlockSize = pos + BlockSize
  BY <1>1, BlockBounds DEF blockSize
<1>3. PICK n \in Nat : n = (IF pos < BlockDictSize THEN pos ELSE BlockDictSize) /\ n <= pos
  BY <1>1
<1>4. PICK q \in Nat : q = pos - n
  BY <1>3
<1>5. dictBefore(k) = Run(q, n) /\ block(k) = Run(q + n, BlockSize)
  BY <1>2, <1>3, <1>4 DEF dictBefore, block, blockSize
<1>6. /\ Run(q, n) \o Run(q + n, BlockSize) = Run(q, n + BlockSize)
      /\ Len(Run(q, n)) = n /\ Len(Run(q + n, BlockSize)) = BlockSize
  <2>1. q + n \in Nat /\ BlockSize \in Nat
    BY <1>1
  <2>2. Run(q, n) \o Run(q + n, BlockSize) = Run(q, n + BlockSize)
    BY <2>1, RunCat
  <2>3. Len(Run(q, n)) = n /\ Len(Run(q + n, BlockSize)) = BlockSize
    BY <2>1, RunBytes
  <2> QED
    BY <2>2, <2>3
<1>7. PICK m \in 0..(n + BlockSize) :
        /\ m = IF BlockSize + n >= BlockDictSize THEN BlockDictSize ELSE BlockSize + n
        /\ m = IF pos + BlockSize < BlockDictSize THEN pos + BlockSize ELSE BlockDictSize
  BY <1>1, <1>3
<1>8. lastOf(Run(q, n + BlockSize), m) = Run(q + ((n + BlockSize) - m), m)
  <2>1. n + BlockSize \in Nat
    BY <1>1
  <2> QED
    BY <2>1, RunLast
<1>9. q + ((n + BlockSize) - m) = (pos + BlockSize) - m
  BY <1>1, <1>4
<1>10. nextDict(dictBefore(k), block(k)) = lastOf(Run(q, n + BlockSize), m)
  BY <1>5, <1>6, <1>7 DEF nextDict
<1>11. dictBefore(k + 1) = Run((pos + BlockSize) - m, m)
  BY <1>2, <1>7 DEF dictBefore
<1> QED
  BY <1>8, <1>9, <1>10, <1>11

(* What a block adds to out_code. *)
LEMMA OutGrows ==
  ASSUME NEW k \in Nat, k < BlockCount
  PROVE  Run(0, k * BlockSize) \o block(k)
           = Run(0, IF k + 1 < BlockCount THEN (k + 1) * BlockSize ELSE InSize)
<1>1. /\ BlockCount \in Nat /\ k \in 0..(BlockCount - 1)
  BY BlocksCover
<1>2. PICK pos \in Nat, size \in Nat : pos = k * BlockSize /\ size = blockSize(k)
  BY <1>1, BlockBounds
<1>3. pos + size = IF k + 1 < BlockCount THEN (k + 1) * BlockSize ELSE InSize
  <2>1. /\ k + 1 < BlockCount => (k + 1) * BlockSize = pos + size
        /\ k + 1 = BlockCount => InSize = pos + size
    BY <1>1, <1>2, BlockBounds
  <2>2. k + 1 < BlockCount \/ k + 1 = BlockCount
    BY <1>1
  <2> QED
    BY <1>1, <2>1, <2>2
<1>4. Run(0, pos) \o Run(0 + pos, size) = Run(0, pos + size)
  BY RunCat
<1>5. 0 + pos = pos
  OBVIOUS
<1> QED
  BY <1>2, <1>3, <1>4, <1>5 DEF block

(* A buffer that is in flight is not touched by a thread that reads. *)
LEMMA FlightRead ==
  ASSUME TypeInv, AtMostOneOwner, NEW t \in Threads, ReadBlock(t)
  PROVE  /\ workBuf[t] \in Bufs
         /\ \A c \in Bufs : InFlight(c)' <=> InFlight(c) \/ c = workBuf[t]
         /\ ~InFlight(workBuf[t])
<1>1. /\ workBuf[t] \in Bufs /\ pc[t] = "read" /\ UNCHANGED <<workBuf, dataBufList>>
      /\ pc' = [pc EXCEPT ![t] = "compress"]
  BY DEF TypeInv, Phases, ReadBlock, goto
<1>2. pc'[t] = "compress" /\ \A u \in Threads \ {t} : pc'[u] = pc[u]
  BY <1>1, Constants DEF TypeInv, TypeOK
<1>3. ~InFlight(workBuf[t])
  BY <1>1 DEF InFlight, Carried, AtMostOneOwner
<1>4. \A c \in Bufs : InFlight(c)' <=> InFlight(c) \/ c = workBuf[t]
  BY <1>1, <1>2 DEF InFlight, Carried
<1> QED
  BY <1>1, <1>3, <1>4

(* The push keeps what is in flight. *)
LEMMA FlightPush ==
  ASSUME TypeInv, AtMostOneOwner, NEW t \in Threads, PushBlock(t)
  PROVE  \A c \in Bufs : InFlight(c)' <=> InFlight(c)
<1>1. /\ workBuf[t] \in Bufs /\ pc[t] = "write" /\ workBuf' = [workBuf EXCEPT ![t] = NoBuf]
      /\ pc' = [pc EXCEPT ![t] = "flush"]
  BY DEF TypeInv, Phases, PushBlock, goto
<1>2. /\ pc'[t] = "flush"
      /\ \A u \in Threads \ {t} : pc'[u] = pc[u] /\ workBuf'[u] = workBuf[u]
  BY <1>1, Constants DEF TypeInv, TypeOK
<1>3. \A x : InList(x, dataBufList') <=> InList(x, dataBufList) \/ x = workBuf[t]
  BY PushOwners
<1> QED
  BY <1>1, <1>2, <1>3 DEF InFlight, Carried

(* The block that is written is in flight no more. *)
LEMMA FlightWrite ==
  ASSUME TypeInv, AtMostOneOwner, NEW t \in Threads, WriteBlock(t)
  PROVE  /\ Head(dataBufList) \in Bufs /\ InFlight(Head(dataBufList))
         /\ \A c \in Bufs : InFlight(c)' <=> InFlight(c) /\ c # Head(dataBufList)
<1> DEFINE h == Head(dataBufList)
<1>1. /\ h \in Bufs /\ ~InList(h, dataBufList')
      /\ \A x : InList(x, dataBufList) <=> x = h \/ InList(x, dataBufList')
  BY WriteOwners
<1>2. /\ workBuf' = [workBuf EXCEPT ![t] = h] /\ pc[t] = "flush"
      /\ \E p \in {"sendBack", "error"} : pc' = [pc EXCEPT ![t] = p]
  BY DEF WriteBlock, goto, checkFails
<1> HIDE DEF h
<1>3. /\ pc'[t] \in {"sendBack", "error"} /\ workBuf'[t] = h
      /\ \A u \in Threads \ {t} : pc'[u] = pc[u] /\ workBuf'[u] = workBuf[u]
  BY <1>2, Constants DEF TypeInv, TypeOK
<1>4. \A u \in Threads : workBuf[u] # h
  BY <1>1 DEF AtMostOneOwner
<1>5. \A c \in Bufs : InFlight(c)' <=> InFlight(c) /\ c # h
  BY <1>1, <1>2, <1>3, <1>4 DEF InFlight, Carried
<1>6. InFlight(h)
  BY <1>1 DEF InFlight
<1> QED
  BY <1>1, <1>5, <1>6 DEF h

(* A step that reads and writes no block and touches no buffer in flight. *)
LEMMA SameData ==
  ASSUME DataInv,
         UNCHANGED <<curReadBlockIndex, curWriteBlockIndex, dict, out, workIndex, bufBlock>>,
         \A c \in Bufs : InFlight(c)' => InFlight(c),
         \A u \in Threads : pc'[u] = "compress" =>
           /\ pc[u] = "compress" /\ workBuf'[u] = workBuf[u]
           /\ bufDict'[workBuf[u]] = bufDict[workBuf[u]]
  PROVE  DataInv'
<1>1. CompressDictIsDataBefore'
  BY DEF DataInv, CompressDictIsDataBefore
<1> QED
  BY <1>1 DEF DataInv, blocksLeft

(* The read of a block. *)
LEMMA ReadData ==
  ASSUME TypeInv, AtMostOneOwner, DataInv, NEW t \in Threads, ReadBlock(t)
  PROVE  DataInv'
<1> DEFINE b == workBuf[t]
           k == curReadBlockIndex
<1>1. /\ b \in Bufs /\ (\A c \in Bufs : InFlight(c)' <=> InFlight(c) \/ c = b) /\ ~InFlight(b)
  BY FlightRead
<1>2. /\ k \in Nat /\ k < BlockCount /\ curReadBlockIndex' = k + 1 /\ BlockCount \in Nat
      /\ curWriteBlockIndex \in Nat
      /\ UNCHANGED <<curWriteBlockIndex, out, workBuf>>
  BY BlocksCover DEF TypeInv, TypeOK, ReadBlock, blocksLeft
<1>3. dict = dictBefore(k)
  BY <1>2 DEF DataInv, blocksLeft
<1>4. /\ workIndex'[b] = k /\ bufBlock'[b] = block(k) /\ bufDict'[b] = dictBefore(k)
      /\ \A c \in Bufs \ {b} : /\ workIndex'[c] = workIndex[c] /\ bufBlock'[c] = bufBlock[c]
                               /\ bufDict'[c] = bufDict[c]
  BY <1>1, <1>3 DEF ReadBlock, TypeInv, TypeOK, block, blockSize
<1>5. pc'[t] = "compress" /\ \A u \in Threads \ {t} : pc'[u] = pc[u]
  BY Constants DEF ReadBlock, goto, TypeInv, TypeOK
<1>6. blocksLeft' => dict' = dictBefore(k + 1)
  <2>1. SUFFICES ASSUME k + 1 < BlockCount PROVE dict' = dictBefore(k + 1)
    BY <1>2 DEF blocksLeft
  <2>2. dict' = nextDict(dictBefore(k), block(k))
    BY <1>3, <2>1 DEF ReadBlock, block, blockSize
  <2> QED
    BY <1>2, <2>1, <2>2, DictGrows
<1>7. CompressDictIsDataBefore'
  <2> SUFFICES ASSUME NEW u \in Threads, pc'[u] = "compress"
               PROVE  bufDict'[workBuf[u]] = dictBefore(workIndex'[workBuf[u]])
    BY <1>2 DEF CompressDictIsDataBefore, dictBefore
  <2>1. CASE u = t
    BY <1>4, <2>1
  <2>2. CASE u # t
    <3>1. pc[u] = "compress" /\ workBuf[u] \in Bufs /\ workBuf[u] # b
      BY <1>1, <1>5, <2>2 DEF TypeInv, Phases, AtMostOneOwner
    <3>2. bufDict[workBuf[u]] = dictBefore(workIndex[workBuf[u]])
      BY <3>1 DEF DataInv, CompressDictIsDataBefore, dictBefore
    <3> QED
      BY <1>4, <3>1, <3>2
  <2> QED
    BY <2>1, <2>2
<1> HIDE DEF b, k
<1>8. \A c \in Bufs : InFlight(c) =>
        /\ workIndex[c] \in curWriteBlockIndex..(k - 1)
        /\ bufBlock[c] = block(workIndex[c])
  BY DEF DataInv, k
<1>9. curWriteBlockIndex <= k
  BY DEF DataInv, k
<1>10. \A c \in Bufs : InFlight(c)' =>
        /\ workIndex'[c] \in curWriteBlockIndex..k
        /\ bufBlock'[c] = block(workIndex'[c])
        /\ workIndex'[c] = k => c = b
  BY <1>1, <1>2, <1>4, <1>8, <1>9
<1>11. \A c1, c2 \in Bufs :
         InFlight(c1)' /\ InFlight(c2)' /\ workIndex'[c1] = workIndex'[c2] => c1 = c2
  <2>1. \A c1, c2 \in Bufs :
          InFlight(c1) /\ InFlight(c2) /\ workIndex[c1] = workIndex[c2] => c1 = c2
    BY DEF DataInv
  <2> QED
    BY <1>1, <1>4, <1>10, <2>1
<1>12. (k + 1) - 1 = k /\ curWriteBlockIndex <= k + 1
  BY <1>2, <1>9
<1> QED
  BY <1>2, <1>6, <1>7, <1>10, <1>11, <1>12 DEF DataInv

(* The write of a block. *)
LEMMA WriteData ==
  ASSUME TypeInv, AtMostOneOwner, DataInv, NEW t \in Threads, WriteBlock(t)
  PROVE  DataInv'
<1> DEFINE h == Head(dataBufList)
           k == curWriteBlockIndex
<1>1. /\ h \in Bufs /\ InFlight(h) /\ (\A c \in Bufs : InFlight(c)' <=> InFlight(c) /\ c # h)
  BY FlightWrite
<1>2. /\ workIndex[h] = k /\ UNCHANGED <<curReadBlockIndex, dict, bufVars>>
  BY DEF WriteBlock, mayWrite
<1>3. \A u \in Threads : pc'[u] = "compress" => pc[u] = "compress" /\ workBuf'[u] = workBuf[u]
  <2>1. PoolThread(t)
    BY DEF PoolThread
  <2>2. \A u \in Threads \ {t} : pc'[u] = pc[u] /\ workBuf'[u] = workBuf[u]
    BY <2>1, OthersStay
  <2>3. pc'[t] # "compress"
    BY Constants DEF WriteBlock, goto, checkFails, TypeInv, TypeOK
  <2> QED
    BY <2>2, <2>3
<1>4. CASE UNCHANGED <<out, curWriteBlockIndex>>
  <2>1. /\ \A c \in Bufs : InFlight(c)' => InFlight(c)
        /\ UNCHANGED <<workIndex, bufBlock, bufDict>>
    BY <1>1, <1>2 DEF bufVars
  <2> QED
    BY <1>2, <1>3, <1>4, <2>1, SameData
<1>5. CASE out' = out \o bufBlock[h] /\ curWriteBlockIndex' = k + 1
  <2>1. /\ k \in Nat /\ curReadBlockIndex \in Nat /\ curReadBlockIndex <= BlockCount
        /\ BlockCount \in Nat
    BY BlocksCover DEF TypeInv, TypeOK
  <2>2. /\ k < curReadBlockIndex /\ k < BlockCount /\ bufBlock[h] = block(k)
    BY <1>1, <1>2, <2>1 DEF DataInv
  <2>3. out' = Run(0, k * BlockSize) \o block(k)
    BY <1>5, <2>2 DEF DataInv
  <2>4. out' = Run(0, IF k + 1 < BlockCount THEN (k + 1) * BlockSize ELSE InSize)
    BY <2>1, <2>2, <2>3, OutGrows
  <2>5. CompressDictIsDataBefore'
    BY <1>2, <1>3 DEF DataInv, CompressDictIsDataBefore, bufVars
  <2> HIDE DEF h, k
  <2>6. \A c \in Bufs : InFlight(c)' =>
          workIndex[c] \in (k + 1)..(curReadBlockIndex - 1) /\ bufBlock[c] = block(workIndex[c])
    <3>1. \A c \in Bufs : InFlight(c) /\ c # h => workIndex[c] # k
      BY <1>1, <1>2 DEF DataInv
    <3>2. \A c \in Bufs : InFlight(c) =>
            workIndex[c] \in k..(curReadBlockIndex - 1) /\ bufBlock[c] = block(workIndex[c])
      BY DEF DataInv, k
    <3> QED
      BY <1>1, <2>1, <3>1, <3>2
  <2>7. \A c1, c2 \in Bufs :
          InFlight(c1)' /\ InFlight(c2)' /\ workIndex[c1] = workIndex[c2] => c1 = c2
    BY <1>1 DEF DataInv
  <2>8. k + 1 <= curReadBlockIndex
    BY <2>1, <2>2
  <2>9. blocksLeft' => dict' = dictBefore(curReadBlockIndex)
    BY <1>2 DEF DataInv, blocksLeft
  <2> QED
    BY <1>2, <1>5, <2>4, <2>5, <2>6, <2>7, <2>8, <2>9 DEF DataInv, bufVars
<1> QED
  BY <1>4, <1>5 DEF WriteBlock, h, k

(* A thread begins to carry a block only when it has read one. *)
LEMMA CarriedStays ==
  ASSUME TypeInv, PoolInv, [Next]_vars, ~\E t \in Threads : ReadBlock(t)
  PROVE  \A u \in Threads : pc'[u] \in {"compress", "write"} =>
           /\ pc[u] \in {"compress", "write"} /\ workBuf'[u] = workBuf[u]
           /\ pc'[u] = "compress" => pc[u] = "compress"
<1>0. Threads \subseteq All /\ pc \in [All -> PoolPC \union MainPC]
  BY Constants DEF TypeInv, TypeOK
<1>1. CASE \E t \in Threads : PoolThread(t)
  <2>1. PICK t \in Threads : PoolThread(t)
    BY <1>1
  <2>2. \A u \in Threads \ {t} : pc'[u] = pc[u] /\ workBuf'[u] = workBuf[u]
    BY <2>1, OthersStay
  <2>3. pc'[t] \in {"compress", "write"} =>
          pc[t] = "compress" /\ pc'[t] = "write" /\ workBuf'[t] = workBuf[t]
    <3>1. CASE Compress(t)
      BY <1>0, <3>1 DEF Compress, goto, checkFails
    <3>2. CASE ErrorDone(t)
      BY <1>0, <3>2 DEF ErrorDone, goto, TypeInv, Phases, ErrorPC
    <3>3. CASE AcceptWork(t) \/ ClearWork(t)
      BY <1>0, <3>3 DEF AcceptWork, ClearWork, goto
    <3>4. CASE ~Compress(t) /\ ~ErrorDone(t) /\ ~AcceptWork(t) /\ ~ClearWork(t)
      <4>1. PICK p : p \notin {"compress", "write"} /\ pc' = [pc EXCEPT ![t] = p]
        BY <2>1, <3>4 DEF PoolThread, OnError, SetError, CloseWork, ReadNothing, ReadFails,
           PushBlock, WriteBlock, SendBack, FlushDone, ThreadEnd, goto, checkFails
      <4> QED
        BY <1>0, <4>1, SMTT(30)
    <3> QED
      BY <3>1, <3>2, <3>3, <3>4
  <2> QED
    BY <2>2, <2>3
<1>2. CASE MainThread
  <2>1. /\ \A u \in Threads : pc'[u] = pc[u] \/ pc'[u] = "accept"
        /\ UNCHANGED workBuf
    BY <1>2, MainStays
  <2> QED
    BY <2>1
<1>3. CASE SpuriousWake \/ UNCHANGED vars
  BY <1>3 DEF SpuriousWake, vars, threadVars
<1> QED
  BY <1>1, <1>2, <1>3 DEF Next

(* The steps that neither read nor push nor write a block. *)
NoBlock == \A t \in Threads : ~ReadBlock(t) /\ ~PushBlock(t) /\ ~WriteBlock(t)

(* They leave the blocks and the list of finished blocks alone. *)
LEMMA NoBlockStays ==
  ASSUME TypeInv, PoolInv, [Next]_vars, NoBlock
  PROVE  /\ UNCHANGED <<dataVars, workIndex, bufBlock>>
         /\ UNCHANGED bufDict \/ \E t \in Threads : ReadFails(t)
         /\ \A c \in Bufs : InFlight(c)' => InFlight(c)
<1>1. /\ UNCHANGED <<dataVars, workIndex, bufBlock>>
      /\ UNCHANGED bufDict \/ \E t \in Threads : ReadFails(t)
  <2>1. CASE \E t \in Threads : PoolThread(t)
    BY <2>1 DEF NoBlock, PoolThread, OnError, SetError, CloseWork, ClearWork, ErrorDone, AcceptWork,
       ReadNothing, ReadFails, Compress, SendBack, FlushDone, ThreadEnd, bufVars
  <2>2. CASE MainThread
    BY <2>2, MainStays DEF bufVars
  <2>3. CASE SpuriousWake \/ UNCHANGED vars
    BY <2>3 DEF SpuriousWake, vars, bufVars
  <2> QED
    BY <2>1, <2>2, <2>3 DEF Next
<1>2. \A u \in Threads : pc'[u] \in {"compress", "write"} =>
        pc[u] \in {"compress", "write"} /\ workBuf'[u] = workBuf[u]
  BY CarriedStays DEF NoBlock
<1>3. dataBufList' = dataBufList
  BY <1>1 DEF dataVars
<1>4. \A c \in Bufs : InFlight(c)' => InFlight(c)
  BY <1>2, <1>3 DEF InFlight, Carried
<1> QED
  BY <1>1, <1>4

(* Each step keeps the blocks in order and their data in place. *)
LEMMA NextDataInv ==
  ASSUME TypeInv, AtMostOneOwner, PoolInv, DataInv, [Next]_vars
  PROVE  DataInv'
<1>1. CASE \E t \in Threads : ReadBlock(t) \/ WriteBlock(t)
  BY <1>1, ReadData, WriteData
<1>2. ASSUME NEW t \in Threads, PushBlock(t), ~\E u \in Threads : ReadBlock(u)
      PROVE  DataInv'
  <2>1. \A c \in Bufs : InFlight(c)' => InFlight(c)
    BY <1>2, FlightPush
  <2>2. UNCHANGED <<curReadBlockIndex, curWriteBlockIndex, dict, out, bufVars>>
    BY <1>2 DEF PushBlock
  <2>3. \A u \in Threads : pc'[u] = "compress" => pc[u] = "compress" /\ workBuf'[u] = workBuf[u]
    BY <1>2, CarriedStays
  <2> QED
    BY <2>1, <2>2, <2>3, SameData DEF bufVars
<1>3. CASE NoBlock
  <2>1. /\ UNCHANGED <<dataVars, workIndex, bufBlock>>
        /\ UNCHANGED bufDict \/ \E t \in Threads : ReadFails(t)
        /\ \A c \in Bufs : InFlight(c)' => InFlight(c)
    BY <1>3, NoBlockStays
  <2>2. \A u \in Threads : pc'[u] = "compress" => pc[u] = "compress" /\ workBuf'[u] = workBuf[u]
    BY <1>3, CarriedStays DEF NoBlock
  <2>3. \A u \in Threads : pc'[u] = "compress" => bufDict'[workBuf[u]] = bufDict[workBuf[u]]
    <3>1. CASE UNCHANGED bufDict
      BY <3>1
    <3>2. ASSUME NEW t \in Threads, ReadFails(t), NEW u \in Threads, pc'[u] = "compress"
          PROVE  bufDict'[workBuf[u]] = bufDict[workBuf[u]]
      <4>1. pc[u] = "compress" /\ pc[t] = "read" /\ workBuf[u] \in Bufs /\ workBuf[t] \in Bufs
        BY <2>2, <3>2 DEF ReadFails, TypeInv, Phases
      <4>2. workBuf[u] # workBuf[t]
        BY <4>1 DEF AtMostOneOwner
      <4> QED
        BY <3>2, <4>1, <4>2 DEF ReadFails, TypeInv, TypeOK
    <3> QED
      BY <2>1, <3>1, <3>2
  <2> QED
    BY <2>1, <2>2, <2>3, SameData DEF dataVars
<1> QED
  BY <1>1, <1>2, <1>3 DEF NoBlock

(* Nothing is read yet and the first dictionary is empty. *)
LEMMA InitDataInv == Init => DataInv
<1> SUFFICES ASSUME Init PROVE DataInv
  OBVIOUS
<1>1. /\ curReadBlockIndex = 0 /\ curWriteBlockIndex = 0 /\ dict = <<>> /\ out = <<>>
      /\ dataBufList = <<>> /\ \A t \in Threads : pc[t] = "none"
  BY Constants DEF Init
<1>2. \A b \in Bufs : ~InFlight(b)
  BY <1>1, EmptyList DEF InFlight, Carried
<1>3. 0 * BlockSize = 0 /\ 0 < BlockCount /\ BlockDictSize \in Nat
  BY Constants, BlocksCover
<1>4. dictBefore(0) = <<>>
  <2>1. dictBefore(0) = Run(0, 0)
    BY <1>3 DEF dictBefore
  <2> QED
    BY <2>1, RunEmpty
<1>5. out = Run(0, IF 0 < BlockCount THEN 0 * BlockSize ELSE InSize)
  BY <1>1, <1>3, RunEmpty
<1>6. CompressDictIsDataBefore
  BY <1>1 DEF CompressDictIsDataBefore
<1> QED
  BY <1>1, <1>2, <1>4, <1>5, <1>6 DEF DataInv

(* The dictionary that a block is compressed with is the data just before  *)
(* it, for any number of threads and any sizes: the dictionary is carried  *)
(* from one thread's read to the next, under readLocker.                   *)
THEOREM CompressDictionaries == Spec => []CompressDictIsDataBefore
<1>1. Init => TypeInv /\ PoolInv /\ DataInv
  BY InitTypeInv, InitPoolInv, InitDataInv
<1>2. TypeInv /\ AtMostOneOwner /\ PoolInv /\ DataInv /\ [Next]_vars
        => TypeInv' /\ PoolInv' /\ DataInv'
  BY NextTypeInv, NextPoolInv, NextDataInv
<1>3. DataInv => CompressDictIsDataBefore
  BY DEF DataInv
<1> QED
  BY <1>1, <1>2, <1>3, OneOwner, PTL DEF Spec

---------------------------------------------------------------------------
(* The list of finished blocks *)

(* The blocks with a smaller index are the first ones of the list. *)
LEMMA SmallerFirst ==
  ASSUME TypeOK, Sorted, NEW w \in Nat
  PROVE  \A i \in 1..Len(dataBufList) : workIndex[dataBufList[i]] < w <=> i <= insertAt(w)
<1> DEFINE L == Len(dataBufList)
           D == {i \in 1..L : workIndex[dataBufList[i]] < w}
<1>1. L \in Nat /\ \A i \in 1..L : workIndex[dataBufList[i]] \in Nat
  BY DEF TypeOK
<1>2. PICK n \in 0..L : n = insertAt(w)
  BY InsertAt
<1>3. n = Cardinality(D)
  BY <1>2 DEF insertAt
<1>4. IsFiniteSet(D)
  <2>1. IsFiniteSet(1..L)
    BY <1>1, FS_Interval
  <2> QED
    BY <2>1, FS_Subset
<1>5. D \subseteq 1..n
  <2> SUFFICES ASSUME NEW i \in D PROVE i <= n
    BY <1>1
  <2>1. i \in 1..L /\ workIndex[dataBufList[i]] < w
    OBVIOUS
  <2>2. \A j \in 1..i : j \in D
    BY <1>1, <2>1 DEF Sorted
  <2>3. Cardinality(1..i) <= Cardinality(D)
    BY <1>4, <2>2, FS_Subset
  <2>4. Cardinality(1..i) = i
    BY <1>1, <2>1, FS_Interval
  <2> QED
    BY <1>3, <2>3, <2>4
<1>6. D = 1..n
  <2>1. IsFiniteSet(1..n) /\ Cardinality(1..n) = n
    BY FS_Interval
  <2> QED
    BY <1>3, <1>5, <2>1, FS_Subset
<1>7. \A i \in 1..L : workIndex[dataBufList[i]] < w <=> i \in D
  OBVIOUS
<1> QED
  BY <1>2, <1>6, <1>7

(* The push keeps the list sorted. *)
LEMMA PushSorts ==
  ASSUME TypeInv, AtMostOneOwner, DataInv, Sorted, NEW t \in Threads, PushBlock(t)
  PROVE  Sorted'
<1> DEFINE b == workBuf[t]
           L == Len(dataBufList)
           w == workIndex[b]
           r == dataBufList'
<1>1. /\ TypeOK /\ b \in Bufs /\ w \in Nat /\ dataBufList \in Seq(Bufs) /\ L \in Nat
      /\ \A i \in 1..L : dataBufList[i] \in Bufs /\ workIndex[dataBufList[i]] \in Nat
      /\ pc[t] = "write"
  <2>1. TypeOK /\ dataBufList \in Seq(Bufs) /\ workIndex \in [Bufs -> Nat] /\ pc[t] = "write"
    BY DEF TypeInv, TypeOK, PushBlock
  <2>2. b \in Bufs
    BY <2>1 DEF TypeInv, Phases
  <2> QED
    BY <2>1, <2>2
<1>2. PICK n \in 0..L : n = insertAt(w)
  BY <1>1, InsertAt
<1>3. /\ r = Put(dataBufList, n, b) /\ workIndex' = workIndex
  BY <1>2 DEF PushBlock, Put, bufVars
<1>4. /\ Len(r) = L + 1 /\ (\A i \in 1..n : r[i] = dataBufList[i]) /\ r[n + 1] = b
      /\ \A i \in (n + 1)..L : r[i + 1] = dataBufList[i]
  <2> DEFINE q == Put(dataBufList, n, b)
  <2>1. /\ Len(q) = L + 1 /\ (\A i \in 1..n : q[i] = dataBufList[i]) /\ q[n + 1] = b
        /\ \A i \in (n + 1)..L : q[i + 1] = dataBufList[i]
    <3>1. ASSUME NEW l \in Seq(Bufs), NEW c \in Bufs, NEW m \in 0..Len(l)
          PROVE  /\ Len(Put(l, m, c)) = Len(l) + 1
                 /\ \A i \in 1..m : Put(l, m, c)[i] = l[i]
                 /\ Put(l, m, c)[m + 1] = c
                 /\ \A i \in (m + 1)..Len(l) : Put(l, m, c)[i + 1] = l[i]
      BY ListInsert, SMTT(30)
    <3> QED
      BY <1>1, <3>1
  <2> QED
    BY <1>3, <2>1
<1>5. \A i \in 1..L : workIndex[dataBufList[i]] < w <=> i <= n
  BY <1>1, <1>2, SmallerFirst
<1>6. \A i \in 1..L : workIndex[dataBufList[i]] # w
  <2>1. InFlight(b) /\ ~InList(b, dataBufList)
    BY <1>1 DEF InFlight, Carried, AtMostOneOwner
  <2>2. \A i \in 1..L : InFlight(dataBufList[i]) /\ dataBufList[i] # b
    BY <2>1 DEF InFlight, InList
  <2> QED
    BY <1>1, <2>1, <2>2 DEF DataInv
<1>7. \A i \in 1..L : i > n => w < workIndex[dataBufList[i]]
  BY <1>1, <1>5, <1>6
<1>8. \A i, j \in 1..L : i < j => workIndex[dataBufList[i]] < workIndex[dataBufList[j]]
  BY DEF Sorted
<1> HIDE DEF b, L, w, r
<1> DEFINE at(i) == IF i <= n THEN i ELSE i - 1
<1>9. \A i \in 1..(L + 1) : i # n + 1 =>
        at(i) \in 1..L /\ r[i] = dataBufList[at(i)] /\ (at(i) <= n <=> i <= n)
  <2> SUFFICES ASSUME NEW i \in 1..(L + 1), i # n + 1
               PROVE  at(i) \in 1..L /\ r[i] = dataBufList[at(i)] /\ (at(i) <= n <=> i <= n)
    OBVIOUS
  <2>1. CASE i <= n
    BY <1>1, <1>4, <2>1
  <2>2. CASE i > n
    <3>1. PICK q \in (n + 1)..L : q + 1 = i
      BY <1>1, <2>2
    <3>2. r[i] = dataBufList[q]
      BY <1>4, <3>1
    <3> QED
      BY <1>1, <2>2, <3>1, <3>2, SMTT(30)
  <2> QED
    BY <1>1, <2>1, <2>2
<1>10. ASSUME NEW i \in 1..(L + 1), NEW j \in 1..(L + 1), i < j
       PROVE  workIndex[r[i]] < workIndex[r[j]]
  <2>1. CASE i = n + 1
    BY <1>1, <1>4, <1>7, <1>9, <1>10, <2>1, SMTT(30) DEF w
  <2>2. CASE j = n + 1
    BY <1>1, <1>4, <1>5, <1>9, <1>10, <2>2 DEF w
  <2>3. CASE i # n + 1 /\ j # n + 1
    <3>1. at(i) < at(j)
      BY <1>1, <1>10, <2>3
    <3> QED
      BY <1>8, <1>9, <2>3, <3>1
  <2> QED
    BY <2>1, <2>2, <2>3
<1> QED
  BY <1>3, <1>4, <1>10 DEF Sorted, r

(* Each step keeps it sorted. *)
LEMMA NextSorted ==
  ASSUME TypeInv, AtMostOneOwner, PoolInv, DataInv, Sorted, [Next]_vars
  PROVE  Sorted'
<1>1. ASSUME NEW t \in Threads, ReadBlock(t) PROVE Sorted'
  <2>1. /\ workBuf[t] \in Bufs /\ dataBufList' = dataBufList
        /\ workIndex' = [workIndex EXCEPT ![workBuf[t]] = curReadBlockIndex]
        /\ workIndex \in [Bufs -> Nat] /\ dataBufList \in Seq(Bufs)
    BY <1>1, FlightRead DEF ReadBlock, TypeInv, TypeOK
  <2>2. ~InList(workBuf[t], dataBufList)
    BY <2>1 DEF AtMostOneOwner
  <2>3. \A i \in 1..Len(dataBufList) : workIndex'[dataBufList[i]] = workIndex[dataBufList[i]]
    BY <2>1, <2>2 DEF InList
  <2> QED
    BY <2>1, <2>3 DEF Sorted
<1>2. ASSUME NEW t \in Threads, WriteBlock(t) PROVE Sorted'
  <2>1. /\ dataBufList' = Tail(dataBufList) /\ workIndex' = workIndex
        /\ dataBufList \in Seq(Bufs) /\ dataBufList # <<>>
    BY <1>2 DEF WriteBlock, mayWrite, bufVars, TypeInv, TypeOK
  <2>2. /\ Len(dataBufList') = Len(dataBufList) - 1 /\ Len(dataBufList) \in Nat
        /\ \A i \in 1..Len(dataBufList') : dataBufList'[i] = dataBufList[i + 1]
    BY <2>1
  <2> QED
    BY <2>1, <2>2 DEF Sorted
<1>3. CASE NoBlock
  BY <1>3, NoBlockStays DEF dataVars, Sorted
<1> QED
  BY <1>1, <1>2, <1>3, PushSorts DEF NoBlock

---------------------------------------------------------------------------
(* writeLocker, and the blocks that none may lose *)

(* Who writes has writeLocker. *)
LEMMA NextLockInv ==
  ASSUME TypeInv, PoolInv, LockInv, [Next]_vars
  PROVE  LockInv'
<1>0. /\ Threads \subseteq All /\ Nobody \notin Threads /\ pc \in [All -> PoolPC \union MainPC]
  BY Constants DEF TypeInv, TypeOK
<1>1. CASE \E t \in Threads : PoolThread(t)
  <2>1. PICK t \in Threads : PoolThread(t)
    BY <1>1
  <2>2. \A u \in Threads \ {t} : pc'[u] = pc[u]
    BY <2>1, OthersStay
  <2>3. /\ \/ writeLocker' = writeLocker
           \/ writeLocker = Nobody /\ writeLocker' = t
           \/ writeLocker = t /\ writeLocker' = Nobody
        /\ pc'[t] \in {"flush", "sendBack"} => writeLocker' = t
        /\ writeLocker' = t => pc'[t] \in {"flush", "sendBack"} \union ErrorPC
    <3>1. CASE OnError(t) \/ SetError(t) \/ CloseWork(t)
      <4>1. \E p \in ErrorPC : pc' = [pc EXCEPT ![t] = p] /\ writeLocker' = writeLocker
        BY <3>1 DEF OnError, SetError, CloseWork, goto, ErrorPC, lockVars
      <4> QED
        BY <1>0, <4>1 DEF ErrorPC
    <3>2. CASE ClearWork(t)
      BY <1>0, <3>2 DEF ClearWork, goto, ErrorPC, lockVars
    <3>3. CASE ErrorDone(t)
      BY <1>0, <3>3 DEF ErrorDone, goto, TypeInv, Phases, ErrorPC
    <3>4. CASE AcceptWork(t)
      BY <1>0, <3>4 DEF AcceptWork, goto, LockInv, lockVars, ErrorPC
    <3>5. CASE ReadBlock(t) \/ ReadNothing(t) \/ ReadFails(t) \/ Compress(t) \/ ThreadEnd(t)
      <4>1. /\ pc[t] \in {"read", "compress", "end"} /\ writeLocker' = writeLocker
            /\ \E p \in {"compress", "end", "error", "write", "done"} : pc' = [pc EXCEPT ![t] = p]
        BY <3>5 DEF ReadBlock, ReadNothing, ReadFails, Compress, ThreadEnd, goto, checkFails, lockVars
      <4>2. writeLocker # t
        BY <4>1 DEF LockInv, ErrorPC
      <4> QED
        BY <1>0, <4>1, <4>2
    <3>6. CASE PushBlock(t)
      BY <1>0, <3>6 DEF PushBlock, goto
    <3>7. CASE WriteBlock(t) \/ SendBack(t)
      <4>1. /\ pc[t] \in {"flush", "sendBack"} /\ writeLocker' = writeLocker
            /\ \E p \in {"flush", "sendBack", "error"} : pc' = [pc EXCEPT ![t] = p]
        BY <3>7 DEF WriteBlock, SendBack, goto, checkFails, lockVars
      <4>2. writeLocker = t
        BY <4>1 DEF LockInv
      <4> QED
        BY <1>0, <4>1, <4>2 DEF ErrorPC
    <3>8. CASE FlushDone(t)
      BY <1>0, <3>8 DEF FlushDone, goto, LockInv
    <3> QED
      BY <2>1, <3>1, <3>2, <3>3, <3>4, <3>5, <3>6, <3>7, <3>8 DEF PoolThread
  <2> QED
    BY <1>0, <2>2, <2>3 DEF LockInv
<1>2. CASE MainThread
  <2>1. /\ \A u \in Threads : pc'[u] = pc[u] \/ (pc[u] = "none" /\ pc'[u] = "accept")
        /\ writeLocker' = writeLocker
    BY <1>2, MainStays
  <2> QED
    BY <2>1 DEF LockInv, ErrorPC
<1>3. CASE SpuriousWake \/ UNCHANGED vars
  BY <1>3 DEF SpuriousWake, vars, threadVars, lockVars, LockInv
<1> QED
  BY <1>1, <1>2, <1>3 DEF Next

(* An error is not forgotten. *)
LEMMA ErringStays ==
  ASSUME TypeInv, PoolInv, Erring, [Next]_vars
  PROVE  Erring'
<1>0. /\ Threads \subseteq All /\ Main \in All /\ All = Threads \union {Main}
      /\ pc \in [All -> PoolPC \union MainPC]
  BY Constants, SMTT(30) DEF TypeInv, TypeOK, All
<1>1. isOnError => isOnError'
  BY ZenonT(60) DEF Next, PoolThread, MainThread, OnError, SetError, CloseWork, ClearWork, ErrorDone,
     AcceptWork, ReadBlock, ReadNothing, ReadFails, Compress, PushBlock, WriteBlock, SendBack,
     FlushDone, ThreadEnd, StartThread, StartFails, RunDone, WaitEnd, EndAccept, SpuriousWake, vars
<1>2. ASSUME NEW t \in All, pc[t] \in {"error", "setError"}
      PROVE  isOnError' \/ pc'[t] \in {"error", "setError"}
  <2>1. CASE OnError(t) \/ SetError(t)
    BY <1>0, <2>1 DEF OnError, SetError, goto
  <2>2. ASSUME NEW u \in Threads, PoolThread(u), ~OnError(t), ~SetError(t) PROVE pc'[t] = pc[t]
    <3>1. u # t
      BY <1>2, <2>2 DEF PoolThread, CloseWork, ClearWork, ErrorDone, AcceptWork, ReadBlock,
         ReadNothing, ReadFails, Compress, PushBlock, WriteBlock, SendBack, FlushDone, ThreadEnd
    <3> QED
      BY <1>0, <2>2, <3>1, OthersStay
  <2>3. CASE MainThread /\ ~OnError(t) /\ ~SetError(t)
    <3>1. t # Main
      BY <1>2, <2>3 DEF MainThread, CloseWork, ClearWork, ErrorDone, StartThread, StartFails,
         RunDone, WaitEnd, EndAccept
    <3> QED
      BY <1>0, <1>2, <2>3, <3>1, MainStays
  <2>4. CASE SpuriousWake \/ UNCHANGED vars
    BY <1>2, <2>4 DEF SpuriousWake, vars, threadVars
  <2> QED
    BY <1>2, <2>1, <2>2, <2>3, <2>4 DEF Next
<1> QED
  BY <1>1, <1>2 DEF Erring

(* Without an error a block that is in flight stays there until it is      *)
(* written.                                                                *)
LEMMA FlightStays ==
  ASSUME TypeInv, PoolInv, [Next]_vars, NoBlock, ~Erring'
  PROVE  \A c \in Bufs : InFlight(c) => InFlight(c)'
<1>0. Threads \subseteq All /\ pc \in [All -> PoolPC \union MainPC]
  BY Constants DEF TypeInv, TypeOK
<1>1. \A u \in Threads : Carried(u) => Carried(u)' /\ workBuf'[u] = workBuf[u]
  <2>1. ASSUME NEW t \in Threads, PoolThread(t), NEW u \in Threads, Carried(u)
        PROVE  Carried(u)' /\ workBuf'[u] = workBuf[u]
    <3>1. CASE u # t
      BY <2>1, <3>1, OthersStay DEF Carried
    <3>2. CASE u = t
      <4>1. Compress(t)
        BY <2>1, <3>2 DEF NoBlock, Carried, PoolThread, OnError, SetError, CloseWork, ClearWork,
           ErrorDone, AcceptWork, ReadNothing, ReadFails, SendBack, FlushDone, ThreadEnd
      <4>2. pc'[t] \in {"write", "error"} /\ workBuf' = workBuf
        BY <1>0, <4>1 DEF Compress, goto, checkFails
      <4> QED
        BY <1>0, <3>2, <4>2 DEF Erring, Carried
    <3> QED
      BY <3>1, <3>2
  <2>2. CASE MainThread
    BY <2>2, MainStays DEF Carried
  <2>3. CASE SpuriousWake \/ UNCHANGED vars
    BY <2>3 DEF SpuriousWake, vars, threadVars, Carried
  <2> QED
    BY <2>1, <2>2, <2>3 DEF Next
<1>2. dataBufList' = dataBufList
  BY NoBlockStays DEF dataVars
<1> QED
  BY <1>1, <1>2 DEF InFlight

(* Without an error every block that is read and not yet written is in     *)
(* flight.                                                                 *)
LEMMA NoBlockLost ==
  ASSUME TypeInv, AtMostOneOwner, PoolInv, DataInv, WholeInv, [Next]_vars, ~Erring'
  PROVE  \A k \in curWriteBlockIndex'..(curReadBlockIndex' - 1) :
           \E b \in Bufs : InFlight(b)' /\ workIndex'[b] = k
<1>0. /\ curReadBlockIndex \in Nat /\ curWriteBlockIndex \in Nat /\ workIndex \in [Bufs -> Nat]
      /\ Threads \subseteq All /\ pc \in [All -> PoolPC \union MainPC]
  BY BlocksCover, Constants DEF TypeInv, TypeOK
<1>1. \A k \in curWriteBlockIndex..(curReadBlockIndex - 1) :
        \E b \in Bufs : InFlight(b) /\ workIndex[b] = k
  BY ErringStays DEF WholeInv
<1>2. ASSUME NEW t \in Threads, ReadBlock(t),
             NEW k \in curWriteBlockIndex'..(curReadBlockIndex' - 1)
      PROVE  \E b \in Bufs : InFlight(b)' /\ workIndex'[b] = k
  <2>1. /\ workBuf[t] \in Bufs /\ ~InFlight(workBuf[t])
        /\ \A c \in Bufs : InFlight(c)' <=> InFlight(c) \/ c = workBuf[t]
    BY <1>2, FlightRead
  <2>2. /\ curReadBlockIndex' = curReadBlockIndex + 1 /\ curWriteBlockIndex' = curWriteBlockIndex
        /\ workIndex' = [workIndex EXCEPT ![workBuf[t]] = curReadBlockIndex]
    BY <1>2 DEF ReadBlock
  <2>3. k = curReadBlockIndex \/ k \in curWriteBlockIndex..(curReadBlockIndex - 1)
    BY <1>0, <2>2
  <2>4. CASE k = curReadBlockIndex
    BY <1>0, <2>1, <2>2, <2>4
  <2>5. CASE k \in curWriteBlockIndex..(curReadBlockIndex - 1)
    <3>1. PICK b \in Bufs : InFlight(b) /\ workIndex[b] = k
      BY <1>1, <2>5
    <3>2. b # workBuf[t] /\ InFlight(b)' /\ workIndex'[b] = k
      BY <1>0, <2>1, <2>2, <3>1
    <3> QED
      BY <3>2
  <2> QED
    BY <2>3, <2>4, <2>5
<1>3. ASSUME NEW t \in Threads, WriteBlock(t),
             NEW k \in curWriteBlockIndex'..(curReadBlockIndex' - 1)
      PROVE  \E b \in Bufs : InFlight(b)' /\ workIndex'[b] = k
  <2>1. \A c \in Bufs : InFlight(c)' <=> InFlight(c) /\ c # Head(dataBufList)
    BY <1>3, FlightWrite
  <2>2. checkFails(t, "accept") => Erring'
    BY <1>0 DEF checkFails, goto, Erring
  <2>3. /\ curWriteBlockIndex' = curWriteBlockIndex + 1 /\ curReadBlockIndex' = curReadBlockIndex
        /\ workIndex' = workIndex /\ workIndex[Head(dataBufList)] = curWriteBlockIndex
    BY <1>3, <2>2 DEF WriteBlock, mayWrite, bufVars
  <2>4. k \in curWriteBlockIndex..(curReadBlockIndex - 1) /\ k # curWriteBlockIndex
    BY <1>0, <2>3
  <2>5. PICK b \in Bufs : InFlight(b) /\ workIndex[b] = k
    BY <1>1, <2>4
  <2> QED
    BY <2>1, <2>3, <2>4, <2>5
<1>4. ASSUME NEW t \in Threads, PushBlock(t)
      PROVE  \A k \in curWriteBlockIndex'..(curReadBlockIndex' - 1) :
               \E b \in Bufs : InFlight(b)' /\ workIndex'[b] = k
  <2>1. \A c \in Bufs : InFlight(c)' <=> InFlight(c)
    BY <1>4, FlightPush
  <2>2. UNCHANGED <<curWriteBlockIndex, curReadBlockIndex, workIndex>>
    BY <1>4 DEF PushBlock, bufVars
  <2> QED
    BY <1>1, <2>1, <2>2
<1>5. CASE NoBlock
  BY <1>1, <1>5, NoBlockStays, FlightStays DEF dataVars
<1> QED
  BY <1>2, <1>3, <1>4, <1>5 DEF NoBlock

(* Without an error a thread ends only when the last block is read. *)
LEMMA EndsAfterLast ==
  ASSUME TypeInv, PoolInv, ErrorInv, WholeInv, [Next]_vars, ~Erring'
  PROVE  \A u \in Threads : pc'[u] \in {"end", "done"} => ~blocksLeft'
<1>0. /\ Threads \subseteq All /\ pc \in [All -> PoolPC \union MainPC]
      /\ curReadBlockIndex \in Nat /\ BlockCount \in Nat
  BY BlocksCover, Constants DEF TypeInv, TypeOK
<1>1. /\ \A u \in Threads : pc[u] \in {"end", "done"} => ~blocksLeft
      /\ ~isOnError
  BY ErringStays DEF WholeInv, Erring
<1>2. ~blocksLeft => ~blocksLeft'
  <2>1. curReadBlockIndex' = curReadBlockIndex \/ blocksLeft
    BY NoBlockStays DEF NoBlock, ReadBlock, PushBlock, WriteBlock, dataVars
  <2> QED
    BY <2>1 DEF blocksLeft
<1>3. ASSUME NEW t \in Threads, PoolThread(t)
      PROVE  \A u \in Threads : pc'[u] \in {"end", "done"} => ~blocksLeft'
  <2>1. \A u \in Threads \ {t} : pc'[u] = pc[u]
    BY <1>3, OthersStay
  <2>2. pc'[t] \in {"end", "done"} => ~blocksLeft
    <3>1. CASE ErrorDone(t)
      BY <1>1, <3>1 DEF ErrorDone, ErrorInv
    <3>2. CASE AcceptWork(t)
      <4>1. pc[t] = "accept"
        BY <3>2 DEF AcceptWork
      <4>2. ret = "none"
        BY <4>1 DEF PoolInv, Live
      <4>3. ~isClosed[Work]
        BY <1>1, <4>2 DEF ErrorInv
      <4> QED
        BY <1>0, <3>2, <4>3 DEF AcceptWork, goto
    <3>3. CASE ReadNothing(t)
      BY <3>3 DEF ReadNothing
    <3>4. CASE ThreadEnd(t)
      BY <1>1, <3>4 DEF ThreadEnd
    <3>5. CASE ClearWork(t)
      BY <1>0, <3>5 DEF ClearWork, goto
    <3>6. CASE ~ErrorDone(t) /\ ~AcceptWork(t) /\ ~ReadNothing(t) /\ ~ThreadEnd(t) /\ ~ClearWork(t)
      <4>1. PICK p : p \notin {"end", "done"} /\ pc' = [pc EXCEPT ![t] = p]
        BY <1>3, <3>6 DEF PoolThread, OnError, SetError, CloseWork, ReadBlock, ReadFails, Compress,
           PushBlock, WriteBlock, SendBack, FlushDone, goto, checkFails
      <4> QED
        BY <1>0, <4>1, SMTT(30)
    <3> QED
      BY <3>1, <3>2, <3>3, <3>4, <3>5, <3>6
  <2> QED
    BY <1>1, <1>2, <2>1, <2>2
<1>4. CASE MainThread
  <2>1. \A u \in Threads : pc'[u] = pc[u] \/ pc'[u] = "accept"
    BY <1>4, MainStays
  <2> QED
    BY <1>1, <1>2, <2>1
<1>5. CASE SpuriousWake \/ UNCHANGED vars
  BY <1>1, <1>2, <1>5 DEF SpuriousWake, vars, threadVars
<1> QED
  BY <1>3, <1>4, <1>5 DEF Next

(* Without an error who leaves writeLocker has written what can be written. *)
LEMMA FlushedWhenFree ==
  ASSUME TypeInv, AtMostOneOwner, PoolInv, ErrorInv, LockInv, WholeInv, [Next]_vars, ~Erring'
  PROVE  writeLocker' = Nobody => ~mayWrite'
<1>0. Nobody \notin Threads
  BY Constants
<1>1. (writeLocker = Nobody => ~mayWrite) /\ ~isOnError
  BY ErringStays DEF WholeInv, Erring
<1>2. ASSUME NEW t \in Threads, ReadBlock(t) PROVE writeLocker' = Nobody => ~mayWrite'
  <2>1. /\ workBuf[t] \in Bufs /\ UNCHANGED <<writeLocker, dataBufList, curWriteBlockIndex>>
        /\ workIndex' = [workIndex EXCEPT ![workBuf[t]] = curReadBlockIndex]
        /\ workIndex \in [Bufs -> Nat] /\ dataBufList \in Seq(Bufs)
    BY <1>2, FlightRead DEF ReadBlock, lockVars, TypeInv, TypeOK
  <2>2. ~InList(workBuf[t], dataBufList)
    BY <2>1 DEF AtMostOneOwner
  <2>3. dataBufList # <<>> => Head(dataBufList) \in Bufs /\ Head(dataBufList) # workBuf[t]
    BY <2>1, <2>2, ListTail
  <2> QED
    BY <1>1, <2>1, <2>3 DEF mayWrite
<1>3. ASSUME NEW t \in Threads, WriteBlock(t) \/ PushBlock(t) PROVE writeLocker' # Nobody
  <2>1. writeLocker' = t
    BY <1>3 DEF WriteBlock, PushBlock, LockInv, lockVars
  <2> QED
    BY <1>0, <2>1
<1>4. CASE NoBlock
  <2>1. mayWrite' = mayWrite
    BY <1>4, NoBlockStays DEF mayWrite, dataVars
  <2>2. writeLocker' = writeLocker \/ ~mayWrite
    <3>1. ASSUME NEW t \in Threads, PoolThread(t) PROVE writeLocker' = writeLocker \/ ~mayWrite
      BY <1>1, <1>4, <3>1 DEF NoBlock, PoolThread, OnError, SetError, CloseWork, ClearWork,
         ErrorDone, AcceptWork, ReadNothing, ReadFails, Compress, SendBack, FlushDone, ThreadEnd,
         lockVars, ErrorInv
    <3>2. CASE MainThread
      BY <3>2, MainStays
    <3>3. CASE SpuriousWake \/ UNCHANGED vars
      BY <3>3 DEF SpuriousWake, vars, lockVars
    <3> QED
      BY <3>1, <3>2, <3>3 DEF Next
  <2> QED
    BY <1>1, <2>1, <2>2
<1> QED
  BY <1>2, <1>3, <1>4 DEF NoBlock

(* Without an error all threads are started. *)
LEMMA LastStarted ==
  ASSUME TypeInv, PoolInv, WholeInv, [Next]_vars, ~Erring'
  PROVE  pc'[Main] # "start" => pc'[ThreadNum] # "none"
<1>0. /\ Threads \subseteq All /\ Main \in All /\ Main \notin Threads /\ ThreadNum \in Threads
      /\ pc \in [All -> PoolPC \union MainPC]
  BY Constants DEF TypeInv, TypeOK
<1>1. pc[Main] # "start" => pc[ThreadNum] # "none"
  BY ErringStays DEF WholeInv
<1>2. ASSUME NEW t \in Threads, PoolThread(t)
      PROVE  pc'[Main] # "start" => pc'[ThreadNum] # "none"
  <2>1. /\ \A u \in Threads \ {t} : pc'[u] = pc[u]
        /\ pc'[Main] = pc[Main]
    BY <1>2, OthersStay
  <2>2. pc'[t] # "none"
    <3>1. CASE ThreadEnd(t)
      BY <1>0, <3>1 DEF ThreadEnd, goto
    <3>2. CASE AcceptWork(t) \/ ClearWork(t)
      BY <1>0, <3>2 DEF AcceptWork, ClearWork, goto
    <3>3. CASE ErrorDone(t)
      BY <1>0, <3>3 DEF ErrorDone, goto, TypeInv, Phases, ErrorPC
    <3>4. CASE ~ThreadEnd(t) /\ ~AcceptWork(t) /\ ~ClearWork(t) /\ ~ErrorDone(t)
      <4>1. PICK p : p # "none" /\ pc' = [pc EXCEPT ![t] = p]
        BY <1>2, <3>4 DEF PoolThread, OnError, SetError, CloseWork, ReadBlock, ReadNothing,
           ReadFails, Compress, PushBlock, WriteBlock, SendBack, FlushDone, goto, checkFails
      <4> QED
        BY <1>0, <4>1, SMTT(30)
    <3> QED
      BY <3>1, <3>2, <3>3, <3>4
  <2> QED
    BY <1>0, <1>1, <2>1, <2>2
<1>3. CASE StartThread
  <2>1. starting \in Threads /\ starting # Main
    BY <1>0, <1>3, Constants DEF StartThread, TypeInv, TypeOK, Threads
  <2> QED
    BY <1>0, <1>3, <2>1 DEF StartThread
<1>4. CASE StartFails
  BY <1>0, <1>4 DEF StartFails, checkFails, goto, Erring
<1>5. CASE MainThread /\ ~StartThread /\ ~StartFails
  <2>1. pc[Main] # "start"
    BY <1>5 DEF MainThread, OnError, SetError, CloseWork, ClearWork, ErrorDone, RunDone, WaitEnd,
       EndAccept
  <2> QED
    BY <1>0, <1>1, <1>5, <2>1, MainStays
<1>6. CASE SpuriousWake \/ UNCHANGED vars
  BY <1>1, <1>6 DEF SpuriousWake, vars, threadVars
<1> QED
  BY <1>2, <1>3, <1>4, <1>5, <1>6 DEF Next

(* Each step keeps what holds without an error. *)
LEMMA NextWholeInv ==
  ASSUME TypeInv, AtMostOneOwner, PoolInv, ErrorInv, DataInv, LockInv, WholeInv, [Next]_vars
  PROVE  WholeInv'
<1>1. CASE Erring'
  BY <1>1 DEF WholeInv
<1>2. CASE ~Erring'
  <2>1. \A k \in curWriteBlockIndex'..(curReadBlockIndex' - 1) :
          \E b \in Bufs : InFlight(b)' /\ workIndex'[b] = k
    BY <1>2, NoBlockLost
  <2>2. \A u \in Threads : pc'[u] \in {"end", "done"} => ~blocksLeft'
    BY <1>2, EndsAfterLast
  <2>3. writeLocker' = Nobody => ~mayWrite'
    BY <1>2, FlushedWhenFree
  <2>4. pc'[Main] # "start" => pc'[ThreadNum] # "none"
    BY <1>2, LastStarted
  <2> QED
    BY <2>1, <2>2, <2>3, <2>4 DEF WholeInv
<1> QED
  BY <1>1, <1>2

(* When all threads have ended without an error, every block is written:   *)
(* the last of the blocks in flight would be the first of the sorted list, *)
(* and who left writeLocker would have written it.                         *)
LEMMA AllWritten ==
  ASSUME TypeInv, PoolInv, DataInv, Sorted, LockInv, WholeInv,
         pc[Main] = "waitEnd", threadOn = 0, ~isOnError
  PROVE  curWriteBlockIndex = BlockCount
<1>0. /\ Main \notin Threads /\ ThreadNum \in Threads /\ Nobody \notin Threads
      /\ curReadBlockIndex \in 0..BlockCount /\ curWriteBlockIndex \in Nat /\ BlockCount \in Nat
      /\ workIndex \in [Bufs -> Nat] /\ dataBufList \in Seq(Bufs)
      /\ writeLocker \in Threads \union {Nobody} /\ dataList[End] \in Seq(Nat)
  BY Constants, BlocksCover DEF TypeInv, TypeOK
<1>1. Cardinality(Live) = 0
  <2>1. Awaited = 0 /\ Len(dataList[End]) \in Nat
    BY <1>0 DEF Awaited
  <2> QED
    BY <2>1, LiveFinite DEF PoolInv
<1>2. \A t \in Threads : pc[t] \in {"none", "done"}
  BY <1>1, LiveFinite, FS_EmptySet DEF Live
<1>3. ~Erring
  BY <1>2 DEF Erring, All
<1>4. curReadBlockIndex = BlockCount
  <2>1. pc[ThreadNum] = "done"
    BY <1>0, <1>2, <1>3 DEF WholeInv
  <2> QED
    BY <1>0, <1>3, <2>1 DEF WholeInv, blocksLeft
<1>5. ~mayWrite
  <2>1. writeLocker = Nobody
    BY <1>0, <1>2 DEF LockInv, ErrorPC
  <2> QED
    BY <1>3, <2>1 DEF WholeInv
<1>6. curWriteBlockIndex <= BlockCount
  BY <1>4 DEF DataInv
<1>7. ASSUME curWriteBlockIndex < BlockCount PROVE FALSE
  <2>1. PICK b \in Bufs : InFlight(b) /\ workIndex[b] = curWriteBlockIndex
    <3>1. curWriteBlockIndex \in curWriteBlockIndex..(curReadBlockIndex - 1)
      BY <1>0, <1>4, <1>7
    <3> QED
      BY <1>3, <3>1 DEF WholeInv
  <2>2. InList(b, dataBufList)
    BY <1>2, <2>1 DEF InFlight, Carried
  <2>3. PICK i \in 1..Len(dataBufList) : dataBufList[i] = b
    BY <2>2 DEF InList
  <2>4. /\ 1 \in 1..Len(dataBufList) /\ dataBufList # <<>> /\ Head(dataBufList) = dataBufList[1]
        /\ Len(dataBufList) \in Nat /\ dataBufList[1] \in Bufs
    BY <1>0, <2>3
  <2>5. workIndex[dataBufList[1]] >= curWriteBlockIndex
    <3>1. InFlight(dataBufList[1])
      BY <2>4 DEF InFlight, InList
    <3> QED
      BY <1>0, <2>4, <3>1 DEF DataInv
  <2>6. i = 1
    <3>1. 1 < i => workIndex[dataBufList[1]] < workIndex[dataBufList[i]]
      BY <2>4 DEF Sorted
    <3> QED
      BY <1>0, <2>1, <2>3, <2>4, <2>5, <3>1
  <2> QED
    BY <1>5, <2>1, <2>3, <2>4, <2>6 DEF mayWrite
<1> QED
  BY <1>0, <1>6, <1>7

(* The size is returned only when all is written. *)
LEMMA NextResultInv ==
  ASSUME TypeInv, PoolInv, DataInv, Sorted, LockInv, WholeInv, ResultInv, [Next]_vars
  PROVE  ResultInv'
<1>1. CASE WaitEnd
  <2>1. curWriteBlockIndex' = curWriteBlockIndex /\ pc[Main] = "waitEnd"
    BY <1>1 DEF WaitEnd, dataVars
  <2>2. \/ ret' = ret
        \/ threadOn = 0 /\ ret' = IF isOnError THEN "0" ELSE "outCodePos"
    BY <1>1 DEF WaitEnd
  <2> QED
    BY <2>1, <2>2, AllWritten DEF ResultInv
<1>2. ASSUME NEW t \in Threads, PoolThread(t) PROVE ret' = "none"
  <2>1. ret' = ret
    BY <1>2, OthersStay, SMTT(30)
  <2>2. t \in Live
    BY <1>2 DEF Live, PoolThread, OnError, SetError, CloseWork, ClearWork, ErrorDone, AcceptWork,
       ReadBlock, ReadNothing, ReadFails, Compress, PushBlock, WriteBlock, SendBack, FlushDone,
       ThreadEnd
  <2> QED
    BY <2>1, <2>2 DEF PoolInv
<1>3. CASE MainThread /\ ~WaitEnd
  <2>1. ret' = ret
    BY <1>3 DEF MainThread, OnError, SetError, CloseWork, ClearWork, ErrorDone, StartThread,
       StartFails, RunDone, EndAccept, mainVars
  <2>2. curWriteBlockIndex' = curWriteBlockIndex
    BY <1>3, MainStays DEF dataVars
  <2> QED
    BY <2>1, <2>2 DEF ResultInv
<1>4. CASE SpuriousWake \/ UNCHANGED vars
  BY <1>4 DEF SpuriousWake, vars, mainVars, dataVars, ResultInv
<1> QED
  BY <1>1, <1>2, <1>3, <1>4 DEF Next, ResultInv

(* The inductive invariant as a whole. *)
LEMMA InitIInv == Init => Sorted /\ LockInv /\ WholeInv /\ ResultInv /\ ErrorInv
<1> SUFFICES ASSUME Init PROVE Sorted /\ LockInv /\ WholeInv /\ ResultInv /\ ErrorInv
  OBVIOUS
<1>1. /\ curReadBlockIndex = 0 /\ curWriteBlockIndex = 0 /\ dataBufList = <<>> /\ ret = "none"
      /\ writeLocker = Nobody /\ ~isOnError /\ pc[Main] = "start" /\ ~isClosed[Work]
      /\ \A t \in Threads : pc[t] = "none"
  BY Constants DEF Init
<1>2. Sorted /\ ResultInv /\ ErrorInv
  BY <1>1 DEF Sorted, ResultInv, ErrorInv
<1>3. LockInv
  BY <1>1, Constants DEF LockInv
<1>4. WholeInv
  <2>1. 0..(0 - 1) = {}
    OBVIOUS
  <2> QED
    BY <1>1, <2>1 DEF WholeInv, mayWrite
<1> QED
  BY <1>2, <1>3, <1>4

(* out_code gets the blocks in order, without a gap and with the data read *)
(* for them, whatever fails, and the size is returned only when all of the *)
(* input is written: for any number of threads and any input.              *)
THEOREM CompressWrites == Spec => []CompressWritesInOrder
<1>1. Init => IInv
  <2>1. Init => TypeInv /\ PoolInv /\ DataInv /\ AtMostOneOwner
    BY InitTypeInv, InitPoolInv, InitDataInv, InitOwners
  <2> QED
    BY <2>1, InitIInv DEF IInv, TypeInv
<1>2. IInv /\ [Next]_vars => IInv'
  <2> SUFFICES ASSUME TypeInv, AtMostOneOwner, PoolInv, ErrorInv, DataInv, Sorted, LockInv,
                      WholeInv, ResultInv, [Next]_vars
               PROVE  /\ TypeInv' /\ AtMostOneOwner' /\ PoolInv' /\ ErrorInv' /\ DataInv'
                      /\ Sorted' /\ LockInv' /\ WholeInv' /\ ResultInv'
    BY DEF IInv, TypeInv
  <2> QED
    BY NextTypeInv, NextOwners, NextPoolInv, NextErrorInv, NextDataInv, NextSorted, NextLockInv,
       NextWholeInv, NextResultInv
<1>3. IInv => CompressWritesInOrder
  BY DEF IInv, DataInv, ResultInv, CompressWritesInOrder
<1> QED
  BY <1>1, <1>2, <1>3, PTL DEF Spec
===========================================================================
