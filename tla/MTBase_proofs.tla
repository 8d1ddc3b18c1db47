--------------------------- MODULE MTBase_proofs --------------------------
(***************************************************************************)
(* What the proofs about the components share: facts about the lists of    *)
(* work buffers, about the bytes in them, about the condition variable and *)
(* about the count of running threads.                                     *)
(***************************************************************************)
EXTENDS MTBase, Bytes_proofs, FiniteSetTheorems

---------------------------------------------------------------------------
(* Facts about the lists of work buffers *)

(* pushABufAtEnd adds one buffer and keeps the list free of repeats.       *)
LEMMA PushAtEnd ==
  ASSUME NEW S, NEW list \in Seq(S), NEW b \in S
  PROVE  /\ pushABufAtEnd(list, b) \in Seq(S)
         /\ pushABufAtEnd(list, b) # <<>>
         /\ \A x : InList(x, pushABufAtEnd(list, b)) <=> InList(x, list) \/ x = b
         /\ NoRepeat(list) /\ ~InList(b, list) => NoRepeat(pushABufAtEnd(list, b))
BY ListAppend DEF pushABufAtEnd

(* pushABufAtHead likewise.                                                *)
LEMMA PushAtHead ==
  ASSUME NEW S, NEW list \in Seq(S), NEW b \in S
  PROVE  /\ pushABufAtHead(list, b) \in Seq(S)
         /\ pushABufAtHead(list, b) # <<>>
         /\ \A x : InList(x, pushABufAtHead(list, b)) <=> InList(x, list) \/ x = b
         /\ NoRepeat(list) /\ ~InList(b, list) => NoRepeat(pushABufAtHead(list, b))
BY ListPush DEF pushABufAtHead

(* TWorkBuf_popABuf takes the first buffer, or null, and nothing else.     *)
LEMMA Pop ==
  ASSUME NEW S, NEW list \in Seq(S)
  PROVE  /\ restBufs(list) \in Seq(S)
         /\ list = <<>> => firstBuf(list) = NoBuf /\ restBufs(list) = <<>>
         /\ list # <<>> => /\ firstBuf(list) \in S
                           /\ \A x : InList(x, list) <=> x = firstBuf(list) \/ InList(x, restBufs(list))
                           /\ NoRepeat(list) => NoRepeat(restBufs(list))
                                                /\ ~InList(firstBuf(list), restBufs(list))
<1>1. CASE list = <<>>
  BY <1>1 DEF firstBuf, restBufs
<1>2. CASE list # <<>>
  <2>1. firstBuf(list) = Head(list) /\ restBufs(list) = Tail(list)
    BY <1>2 DEF firstBuf, restBufs
  <2> QED
    BY <1>2, <2>1, ListTail
<1> QED
  BY <1>1, <1>2

(* TWorkBuf_createFreeListAt: a list of every buffer, each once.           *)
LEMMA FreeListsAll ==
  ASSUME NEW list \in freeLists
  PROVE  list \in Seq(Bufs) /\ NoRepeat(list) /\ \A b \in Bufs : InList(b, list)
<1>1. list \in [1..Cardinality(Bufs) -> Bufs] /\ Cardinality(Bufs) \in Nat
  BY BaseAssumption, FS_CardinalityType DEF freeLists, BaseAssumption
<1>2. list \in Seq(Bufs) /\ Len(list) = Cardinality(Bufs)
  BY <1>1
<1> QED
  BY <1>2 DEF freeLists, NoRepeat, InList

---------------------------------------------------------------------------
(* The bytes in the work buffers *)

(* The buffers of a list hold the bytes from p to e, in the list's order   *)
(* and without a gap: `cut' are the positions where one buffer ends and    *)
(* the next begins.                                                        *)
Chain(data, list, p, e) ==
  \E cut \in [1..(Len(list) + 1) -> Nat] :
    /\ cut[1] = p /\ cut[Len(list) + 1] = e
    /\ \A i \in 1..Len(list) :
         /\ cut[i] < cut[i + 1] /\ cut[i + 1] <= e
         /\ data[list[i]] = Run(cut[i], cut[i + 1] - cut[i])

(* An empty list is a chain from where it ends.                            *)
LEMMA ChainEmpty ==
  ASSUME NEW data, NEW p \in Nat
  PROVE  Chain(data, <<>>, p, p)
<1> DEFINE cut == [i \in 1..(Len(<<>>) + 1) |-> p]
<1>1. cut \in [1..(Len(<<>>) + 1) -> Nat] /\ cut[1] = p /\ cut[Len(<<>>) + 1] = p
  OBVIOUS
<1>2. \A i \in 1..Len(<<>>) : FALSE
  OBVIOUS
<1> QED
  BY <1>1, <1>2 DEF Chain

(* An empty list ends where it begins.                                     *)
LEMMA ChainStill ==
  ASSUME NEW data, NEW p, NEW e, Chain(data, <<>>, p, e)
  PROVE  p = e
<1>1. Len(<<>>) + 1 = 1
  OBVIOUS
<1> QED
  BY <1>1 DEF Chain

(* A chain does not run backwards.                                         *)
LEMMA ChainEnds ==
  ASSUME NEW data, NEW S, NEW list \in Seq(S), NEW p, NEW e, Chain(data, list, p, e)
  PROVE  p \in Nat /\ e \in Nat /\ p <= e
<1>1. PICK cut \in [1..(Len(list) + 1) -> Nat] :
        /\ cut[1] = p /\ cut[Len(list) + 1] = e
        /\ \A i \in 1..Len(list) : cut[i] < cut[i + 1] /\ cut[i + 1] <= e
  BY DEF Chain
<1>2. Len(list) \in Nat
  OBVIOUS
<1>3. p \in Nat /\ e \in Nat
  BY <1>1, <1>2
<1>4. CASE Len(list) = 0
  BY <1>1, <1>3, <1>4
<1>5. CASE Len(list) # 0
  <2>1. 1 \in 1..Len(list) /\ list # <<>> /\ cut[2] \in Nat
    BY <1>2, <1>5
  <2>2. cut[1] < cut[1 + 1] /\ cut[1 + 1] <= e
    BY <1>1, <2>1
  <2> QED
    BY <1>1, <1>3, <2>1, <2>2
<1> QED
  BY <1>2, <1>4, <1>5

(* Pushing the buffer that holds the next bytes makes the chain longer.    *)
LEMMA ChainPush ==
  ASSUME NEW data, NEW S, NEW list \in Seq(S), NEW b \in S, NEW p, NEW e, NEW n \in Nat \ {0},
         Chain(data, list, p, e), data[b] = Run(e, n)
  PROVE  Chain(data, pushABufAtEnd(list, b), p, e + n)
<1> DEFINE r == pushABufAtEnd(list, b)
           k == Len(list)
<1>1. PICK cut \in [1..(k + 1) -> Nat] :
        /\ cut[1] = p /\ cut[k + 1] = e
        /\ \A i \in 1..k : /\ cut[i] < cut[i + 1] /\ cut[i + 1] <= e
                           /\ data[list[i]] = Run(cut[i], cut[i + 1] - cut[i])
  BY DEF Chain
<1>2. k \in Nat /\ e \in Nat /\ Len(r) = k + 1 /\ r[k + 1] = b /\ \A i \in 1..k : r[i] = list[i]
  BY <1>1 DEF pushABufAtEnd
<1> HIDE DEF k, r
<1> DEFINE new == [i \in 1..(k + 2) |-> IF i = k + 2 THEN e + n ELSE cut[i]]
<1>3. /\ new \in [1..(k + 2) -> Nat] /\ new[1] = p /\ new[k + 2] = e + n /\ new[k + 1] = e
      /\ \A i \in 1..(k + 1) : new[i] = cut[i]
  BY <1>1, <1>2
<1> HIDE DEF new
<1>4. ASSUME NEW i \in 1..(k + 1)
      PROVE  /\ new[i] < new[i + 1] /\ new[i + 1] <= e + n
             /\ data[r[i]] = Run(new[i], new[i + 1] - new[i])
  <2>1. CASE i = k + 1
    <3>1. new[i] = e /\ new[i + 1] = e + n /\ (e + n) - e = n
      BY <1>2, <1>3, <2>1
    <3> QED
      BY <1>2, <2>1, <3>1
  <2>2. CASE i \in 1..k
    <3>1. i \in 1..(k + 1) /\ i + 1 \in 1..(k + 1)
      BY <1>2, <2>2
    <3>2. new[i] = cut[i] /\ new[i + 1] = cut[i + 1] /\ cut[i] \in Nat /\ cut[i + 1] \in Nat
      BY <1>3, <3>1
    <3>3. cut[i] < cut[i + 1] /\ cut[i + 1] <= e /\ data[list[i]] = Run(cut[i], cut[i + 1] - cut[i])
      BY <1>1, <2>2
    <3>4. cut[i + 1] <= e + n
      BY <1>2, <3>2, <3>3
    <3> QED
      BY <1>2, <2>2, <3>2, <3>3, <3>4
  <2> QED
    BY <1>2, <2>1, <2>2
<1>5. /\ Len(r) + 1 = k + 2 /\ new \in [1..(Len(r) + 1) -> Nat]
  BY <1>2, <1>3
<1> QED
  BY <1>2, <1>3, <1>4, <1>5, ZenonT(60) DEF Chain, r

(* Its first buffer holds the first bytes, and the rest is a chain.        *)
LEMMA ChainPop ==
  ASSUME NEW data, NEW S, NEW list \in Seq(S), NEW p, NEW e, Chain(data, list, p, e), list # <<>>
  PROVE  \E n \in Nat \ {0} : /\ data[Head(list)] = Run(p, n) /\ p + n <= e
                             /\ Chain(data, Tail(list), p + n, e)
<1> DEFINE k == Len(list)
           r == Tail(list)
<1>1. PICK cut \in [1..(k + 1) -> Nat] :
        /\ cut[1] = p /\ cut[k + 1] = e
        /\ \A i \in 1..k : /\ cut[i] < cut[i + 1] /\ cut[i + 1] <= e
                           /\ data[list[i]] = Run(cut[i], cut[i + 1] - cut[i])
  BY DEF Chain
<1>2. /\ k \in Nat \ {0} /\ Len(r) = k - 1 /\ Head(list) = list[1]
      /\ \A i \in 1..(k - 1) : r[i] = list[i + 1]
  OBVIOUS
<1> HIDE DEF k, r
<1>3. /\ 1 \in 1..k /\ cut[1] \in Nat /\ cut[2] \in Nat /\ e \in Nat
  BY <1>1, <1>2
<1>4. /\ cut[1] < cut[1 + 1] /\ cut[1 + 1] <= e
      /\ data[list[1]] = Run(cut[1], cut[1 + 1] - cut[1])
  BY <1>1, <1>3
<1>a. 1 + 1 = 2
  OBVIOUS
<1> DEFINE n == cut[2] - cut[1]
           new == [i \in 1..k |-> cut[i + 1]]
<1>5. /\ n \in Nat \ {0} /\ p + n = cut[2] /\ p + n <= e /\ data[Head(list)] = Run(p, n)
  <2>1. cut[1] < cut[2] /\ cut[2] <= e /\ data[list[1]] = Run(cut[1], n)
    BY <1>4, <1>a
  <2>2. n \in Nat \ {0} /\ p + n = cut[2] /\ p + n <= e
    BY <1>1, <1>3, <2>1, SMTT(30)
  <2> QED
    BY <1>1, <1>2, <2>1, <2>2
<1>6. /\ new \in [1..k -> Nat] /\ new[1] = p + n /\ new[k] = e
      /\ \A i \in 1..k : new[i] = cut[i + 1]
  BY <1>1, <1>2, <1>5, SMTT(30)
<1> HIDE DEF n, new
<1>7. ASSUME NEW i \in 1..(k - 1)
      PROVE  /\ new[i] < new[i + 1] /\ new[i + 1] <= e
             /\ data[r[i]] = Run(new[i], new[i + 1] - new[i])
  <2>1. i + 1 \in 1..k /\ new[i] = cut[i + 1] /\ new[i + 1] = cut[(i + 1) + 1] /\ r[i] = list[i + 1]
    BY <1>2, <1>6
  <2> QED
    BY <1>1, <2>1
<1>8. Len(r) + 1 = k /\ Len(r) = k - 1
  BY <1>2
<1>9. Chain(data, r, p + n, e)
  BY <1>6, <1>7, <1>8 DEF Chain
<1> QED
  BY <1>5, <1>9 DEF r

(* A chain is about the bytes of its own buffers only.                     *)
LEMMA ChainFrame ==
  ASSUME NEW data, NEW new, NEW S, NEW list \in Seq(S), NEW p, NEW e, Chain(data, list, p, e),
         \A b : InList(b, list) => new[b] = data[b]
  PROVE  Chain(new, list, p, e)
<1>1. \A i \in 1..Len(list) : new[list[i]] = data[list[i]]
  BY DEF InList
<1> QED
  BY <1>1 DEF Chain

---------------------------------------------------------------------------
(* The condition variable *)

(* c_condvar_signal keeps the type of waiters.  *)
LEMMA SignalType ==
  ASSUME NEW c \in Comp, waiters \in [Comp -> SUBSET {Worker, Caller}], Signal(c)
  PROVE  waiters' \in [Comp -> SUBSET {Worker, Caller}]
BY DEF Signal

(* c_condvar_signal wakes the one thread that can be waiting. *)
LEMMA SignalWakes ==
  ASSUME NEW c \in Comp, waiters \in [Comp -> SUBSET {Worker, Caller}], Signal(c),
         NEW t \in {Worker, Caller}, waiters[c] \subseteq {t}
  PROVE  waiters'[c] = {} /\ \A d \in Comp \ {c} : waiters'[d] = waiters[d]
BY DEF Signal

---------------------------------------------------------------------------
(* The count of threads *)

(* The workers that have not left their thread function. *)
liveThreads == {c \in Comp : pc[c] # "done"}
ThreadCount == runningThreads = Cardinality(liveThreads)

(* There are finitely many running workers, so their number is a natural.  *)
LEMMA LiveThreadsFinite == IsFiniteSet(liveThreads) /\ Cardinality(liveThreads) \in Nat
<1>1. IsFiniteSet(liveThreads)
  BY BaseAssumption, FS_Subset DEF liveThreads, BaseAssumption
<1> QED
  BY <1>1, FS_CardinalityType

(* No step of the caller moves a worker. *)
LEMMA CallerKeepsThreads ==
  ASSUME ThreadCount, UNCHANGED <<pc, runningThreads>>
  PROVE  ThreadCount'
BY DEF ThreadCount, liveThreads

(* hpatch_mt_onThreadEnd counts the thread that leaves, once. *)
LEMMA ThreadEndCounts ==
  ASSUME ThreadCount, NEW c \in Comp, ThreadEnd(c), DOMAIN pc = Comp
  PROVE  ThreadCount' /\ runningThreads' \in Nat
<1>1. liveThreads' = liveThreads \ {c} /\ c \in liveThreads
  BY DEF ThreadEnd, liveThreads
<1>2. Cardinality(liveThreads') = Cardinality(liveThreads) - 1
  BY <1>1, LiveThreadsFinite, FS_RemoveElement
<1>3. Cardinality(liveThreads') \in Nat
  BY <1>1, LiveThreadsFinite, FS_Subset, FS_CardinalityType
<1> QED
  BY <1>2, <1>3 DEF ThreadEnd, ThreadCount

(* A counter at zero means that every worker has left. *)
LEMMA ZeroMeansLeft ==
  ASSUME ThreadCount, runningThreads = 0
  PROVE  \A c \in Comp : pc[c] = "done"
<1>1. liveThreads = {}
  BY LiveThreadsFinite, FS_EmptySet DEF ThreadCount
<1> QED
  BY <1>1 DEF liveThreads
===========================================================================
