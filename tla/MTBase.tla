------------------------------ MODULE MTBase ------------------------------
(***************************************************************************)
(* The synchronisation core of the multi-thread patcher                    *)
(* (libHDiffPatch/HPatch/hpatch_mt): one hpatch_mt_t shared by every       *)
(* component, and one hpatch_mt_base_t in each component (a locker, a      *)
(* single condition variable, a list of free work buffers, a list of data  *)
(* work buffers and an error flag).                                        *)
(*                                                                         *)
(* A component is served by two threads: its own "worker" and the "caller" *)
(* that reads from it or writes to it.  Every critical section of the code *)
(* is one atomic action; c_condvar_wait splits its section in two.  The    *)
(* flags of hpatch_mt_t are read under hpatch_mt_t's locker and never      *)
(* under the component's: such a read is an action of its own.             *)
(***************************************************************************)
EXTENDS Bytes, FiniteSets

CONSTANTS Comp,        \* the components opened by hpatch_mt_manager_open
          Bufs,        \* the work buffers of a component (kObjNodeCount = 2)
          NoBuf,       \* the null buffer pointer
          WorkBufSize, \* workBufSize
          Fails,       \* may the streams behind the components fail?
          Spurious     \* may c_condvar_wait return without a signal?

ASSUME BaseAssumption ==
  /\ IsFiniteSet(Comp)
  /\ IsFiniteSet(Bufs) /\ Bufs # {}
  /\ NoBuf \notin Bufs
  /\ WorkBufSize \in Nat \ {0}
  /\ Fails \in BOOLEAN
  /\ Spurious \in BOOLEAN

VARIABLES
  \* hpatch_mt_t
  isOnFinish, isOnError,
  runningThreads,        \* threads_waiter.runningThreads
  closing,               \* "no" | "waitAll" | "ended": the closer's progress
  \* hpatch_mt_base_t, by component
  freeBufList, dataBufList, baseOnError,
  waiters,               \* the threads blocked on _waitCondvar
  \* the worker of a component: its program counter and its locals
  pc, wbuf, tErr,
  \* the bytes of the work buffers, by component and buffer
  bufData

mtVars     == <<isOnFinish, isOnError, runningThreads, closing>>
listVars   == <<freeBufList, dataBufList, baseOnError, waiters>>
workerVars == <<pc, wbuf, tErr>>
baseVars   == <<mtVars, listVars, workerVars, bufData>>

Worker == "worker"
Caller == "caller"

(* TWorkBuf_popABuf: the first buffer of a list, or null, and the rest. *)
firstBuf(list) == IF list = <<>> THEN NoBuf ELSE Head(list)
restBufs(list) == IF list = <<>> THEN <<>> ELSE Tail(list)

(* Fault: the buffer is pushed at the wrong end of the list. *)
pushABufAtWrongEnd(list, b) == <<b>> \o list

(* TWorkBuf_pushABufAtEnd and TWorkBuf_pushABufAtHead. *)
pushABufAtEnd(list, b)  == Append(list, b)
pushABufAtHead(list, b) == <<b>> \o list

(* Fault: the signal after a push is forgotten. *)
SignalForgotten(c) == UNCHANGED waiters

(* The two ways a critical section leaves the condition variable. *)
Signal(c) ==
  \/ waiters[c] = {} /\ UNCHANGED waiters
  \/ \E t \in waiters[c] : waiters' = [waiters EXCEPT ![c] = @ \ {t}]

WaitOn(c, t) == waiters' = [waiters EXCEPT ![c] = @ \union {t}]

(* A wait may return without a signal (POSIX); the code waits "once" and   *)
(* looks again.                                                            *)
SpuriousWake(c) ==
  /\ Spurious
  /\ \E t \in waiters[c] : waiters' = [waiters EXCEPT ![c] = @ \ {t}]
  /\ UNCHANGED <<mtVars, freeBufList, dataBufList, baseOnError, workerVars, bufData>>

(* hpatch_mt_base_onceWaitABuf_ and onceWaitAllBufs_ block only when the   *)
(* list is empty and the component has no error.                           *)
mustWait(c, list) == list[c] = <<>> /\ ~baseOnError[c]

(* TWorkBuf_createFreeListAt: all the buffers of a component, each once. *)
freeLists == {list \in [1..Cardinality(Bufs) -> Bufs] :
                /\ \A b \in Bufs : \E i \in 1..Cardinality(Bufs) : list[i] = b
                /\ \A i, j \in 1..Cardinality(Bufs) : list[i] = list[j] => i = j}

(* _hpatch_mt_init and _hpatch_mt_base_init; n workers already started,    *)
(* all at program counter p.                                               *)
BaseInit(n, p) ==
  /\ isOnFinish = FALSE /\ isOnError = FALSE
  /\ runningThreads = n /\ closing = "no"
  /\ \E list \in freeLists : freeBufList = [c \in Comp |-> list]
  /\ dataBufList = [c \in Comp |-> <<>>]
  /\ baseOnError = [c \in Comp |-> FALSE]
  /\ waiters = [c \in Comp |-> {}]
  /\ pc = [c \in Comp |-> p]
  /\ wbuf = [c \in Comp |-> NoBuf]
  /\ tErr = [c \in Comp |-> FALSE]
  /\ bufData = [c \in Comp |-> [b \in Bufs |-> <<>>]]

---------------------------------------------------------------------------
(* hpatch_mt_t *)

(* __hpatch_mt_setOnError: the flags, then a broadcast on every registered *)
(* condition variable, holding hpatch_mt_t's locker only.                  *)
setOnError ==
  IF isOnError
  THEN UNCHANGED <<isOnFinish, isOnError, waiters>>
  ELSE /\ isOnFinish' = TRUE
       /\ isOnError' = TRUE
       /\ waiters' = [c \in Comp |-> {}]

(* __hpatch_mt_setOnFinish *)
setOnFinish ==
  /\ IF isOnFinish
     THEN UNCHANGED <<isOnFinish, waiters>>
     ELSE /\ isOnFinish' = TRUE
          /\ waiters' = [c \in Comp |-> {}]
  /\ UNCHANGED isOnError

(* hpatch_mt_waitAllThreadEnd, called by the thread that closes. *)
WaitAllThreadEnd(onError) ==
  /\ closing = "no"
  /\ IF onError THEN setOnError ELSE setOnFinish
  /\ closing' = "waitAll"
  /\ UNCHANGED <<runningThreads, freeBufList, dataBufList, baseOnError, workerVars, bufData>>

(* Fault: the closer does not wait for the counter. *)
AllThreadsEndedUnwaited ==
  /\ closing = "waitAll"
  /\ closing' = "ended"
  /\ UNCHANGED <<isOnFinish, isOnError, runningThreads, listVars, workerVars, bufData>>

(* _hthreads_waiter_waitAllThreadEnd returns.  The counter and its         *)
(* condition variable share one locker and the wait is a loop, so the wait *)
(* is exactly this guard.                                                  *)
AllThreadsEnded ==
  /\ closing = "waitAll"
  /\ runningThreads = 0
  /\ closing' = "ended"
  /\ UNCHANGED <<isOnFinish, isOnError, runningThreads, listVars, workerVars, bufData>>

---------------------------------------------------------------------------
(* The parts that the worker threads of all components share. *)

(* Fault: the error flag is set without the broadcast. *)
SetBaseOnErrorSilent(c) ==
  /\ pc[c] = "setErr"
  /\ baseOnError' = [baseOnError EXCEPT ![c] = TRUE]
  /\ tErr' = [tErr EXCEPT ![c] = TRUE]
  /\ pc' = [pc EXCEPT ![c] = "setMtErr"]
  /\ UNCHANGED <<mtVars, freeBufList, dataBufList, waiters, wbuf, bufData>>

(* hpatch_mt_base_setOnError_, its first critical section: the component's *)
(* flag and a broadcast under the component's own locker.                  *)
SetBaseOnError(c) ==
  /\ pc[c] = "setErr"
  /\ baseOnError' = [baseOnError EXCEPT ![c] = TRUE]
  /\ waiters' = [waiters EXCEPT ![c] = {}]
  /\ tErr' = [tErr EXCEPT ![c] = TRUE]
  /\ pc' = [pc EXCEPT ![c] = "setMtErr"]
  /\ UNCHANGED <<mtVars, freeBufList, dataBufList, wbuf, bufData>>

(* hpatch_mt_base_setOnError_, its second critical section, after which    *)
(* the worker goes on at `next'.                                           *)
SetMtOnError(c, next) ==
  /\ pc[c] = "setMtErr"
  /\ setOnError
  /\ pc' = [pc EXCEPT ![c] = next]
  /\ UNCHANGED <<runningThreads, closing, freeBufList, dataBufList, baseOnError,
                 wbuf, tErr, bufData>>

(* Fault: a thread leaves without hpatch_mt_onThreadEnd. *)
ThreadEndUncounted(c) ==
  /\ pc[c] = "end"
  /\ pc' = [pc EXCEPT ![c] = "done"]
  /\ UNCHANGED <<mtVars, listVars, wbuf, tErr, bufData>>

(* hpatch_mt_base_aThreadEnd_ -> hpatch_mt_onThreadEnd *)
ThreadEnd(c) ==
  /\ pc[c] = "end"
  /\ runningThreads' = runningThreads - 1
  /\ pc' = [pc EXCEPT ![c] = "done"]
  /\ UNCHANGED <<isOnFinish, isOnError, closing, listVars, wbuf, tErr, bufData>>

(* hpatch_mt_base_onceWaitABuf_ on the free list by a worker: leave for    *)
(* the wait, or take what there is and go to `got' (a buffer and no error) *)
(* or to `none'.                                                           *)
TakeFree(c, got, none) ==
  LET b == firstBuf(freeBufList[c])
  IN /\ wbuf' = [wbuf EXCEPT ![c] = b]
     /\ freeBufList' = [freeBufList EXCEPT ![c] = restBufs(@)]
     /\ tErr' = [tErr EXCEPT ![c] = baseOnError[c]]
     /\ pc' = [pc EXCEPT ![c] = IF b # NoBuf /\ ~baseOnError[c] THEN got ELSE none]
     /\ UNCHANGED <<mtVars, dataBufList, baseOnError, waiters, bufData>>

WorkerGetFree(c, got, none) ==
  /\ pc[c] = "getBuf"
  /\ ~mustWait(c, freeBufList)
  /\ TakeFree(c, got, none)

WorkerWaitFree(c) ==
  /\ pc[c] = "getBuf"
  /\ mustWait(c, freeBufList)
  /\ WaitOn(c, Worker)
  /\ pc' = [pc EXCEPT ![c] = "waitBuf"]
  /\ UNCHANGED <<mtVars, freeBufList, dataBufList, baseOnError, wbuf, tErr, bufData>>

WorkerWakeFree(c, got, none) ==
  /\ pc[c] = "waitBuf"
  /\ Worker \notin waiters[c]
  /\ TakeFree(c, got, none)

(* hpatch_mt_base_pushABufAtEnd_ of the worker's buffer to the data list. *)
WorkerPushData(c, next) ==
  /\ dataBufList' = [dataBufList EXCEPT ![c] = pushABufAtEnd(@, wbuf[c])]
  /\ Signal(c)
  /\ wbuf' = [wbuf EXCEPT ![c] = NoBuf]
  /\ tErr' = [tErr EXCEPT ![c] = baseOnError[c]]
  /\ pc' = [pc EXCEPT ![c] = next]
  /\ UNCHANGED <<mtVars, freeBufList, baseOnError, bufData>>

---------------------------------------------------------------------------
(* What the properties of the components are stated with. *)

(* The closer leaves hpatch_mt_waitAllThreadEnd, and so frees the          *)
(* components, only after every worker has left its thread function.       *)
FreedAfterThreads == closing = "ended" => \A c \in Comp : pc[c] \in {"none", "done"}
===========================================================================
