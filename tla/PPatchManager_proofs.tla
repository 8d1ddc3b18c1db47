------------------------ MODULE PPatchManager_proofs -----------------------
(***************************************************************************)
(* Proofs about FPPatchManager and its task runner for any chunks, any     *)
(* releases and any number of threads, faults, crashes and calls.          *)
(***************************************************************************)
EXTENDS PPatchManager, FiniteSetTheorems, TLAPS

---------------------------------------------------------------------------
(* The task runner *)

TaskState == {"none", "queued", "running", "release", "trigger", "done"}

(* The tasks that have a slot, and those whose function runs. *)
Holding == {c \in Chunk : tstate[c] \in {"queued", "running", "release"}}
AtWork == {c \in Chunk : tstate[c] = "running"}

(* The slots in use are those that the tasks hold.  In the synchronous     *)
(* mode the submitter itself runs the one task that is at work.            *)
SlotInv ==
  /\ tstate \in [Chunk -> TaskState] /\ spc \in {"submit", "inline", "sleep"} /\ threadNum \in Int
  /\ ~Sync => RunningCount = Cardinality(Holding) /\ RunningCount <= threadNum
  /\ Sync => /\ \A c \in Chunk : tstate[c] \in {"none", "running", "done"}
             /\ \A c, d \in Chunk : tstate[c] = "running" /\ tstate[d] = "running" => c = d
             /\ spc = "inline" \/ \A c \in Chunk : tstate[c] # "running"

(* Only the tasks of the call are submitted, and all of them have ended    *)
(* when it returns.                                                        *)
CallInv ==
  \A c \in Chunk : \/ tstate[c] = "none"
                   \/ running /\ c \in tasks
                   \/ ~running /\ tstate[c] = "done"

(* The chunks are finitely many. *)
LEMMA HoldingFinite == IsFiniteSet(Holding) /\ Cardinality(Holding) \in Nat
<1>1. IsFiniteSet(Chunk)
  BY RunnerAssumption DEF RunnerAssumption
<1>2. IsFiniteSet(Holding)
  BY <1>1, FS_Subset DEF Holding
<1> QED
  BY <1>2, FS_CardinalityType

(* A new runner. *)
LEMMA NewSlots == ASSUME SlotInv, NewRunner, UNCHANGED threadNum PROVE SlotInv'
<1>1. tstate' = Unused /\ RunningCount' = 0 /\ spc' = "submit"
  BY DEF NewRunner
<1>2. tstate' \in [Chunk -> TaskState] /\ \A c \in Chunk : tstate'[c] = "none"
  BY <1>1 DEF Unused, TaskState
<1>3. Cardinality(Holding') = 0
  <2>1. Holding' = {}
    BY <1>2 DEF Holding
  <2> QED
    BY <2>1, FS_EmptySet
<1>4. ~Sync' => 0 <= threadNum'
  BY DEF Sync, SlotInv
<1> QED
  BY <1>1, <1>2, <1>3, <1>4 DEF SlotInv

(* The submitting thread takes a slot, or runs the task itself. *)
LEMMA SubmitSlots ==
  ASSUME SlotInv, NEW T \in SUBSET Chunk, Submit(T), UNCHANGED threadNum
  PROVE  SlotInv' /\ \A d \in Chunk : tstate'[d] = tstate[d] \/ d \in T
<1>0. tstate \in [Chunk -> TaskState] /\ threadNum \in Int /\ Sync' = Sync
  BY DEF SlotInv, Sync
<1>1. ASSUME NEW c \in T, SubmitSync(c)
      PROVE  SlotInv' /\ \A d \in Chunk : tstate'[d] = tstate[d] \/ d \in T
  <2>1. /\ Sync /\ spc = "submit" /\ spc' = "inline" /\ tstate'[c] = "running"
        /\ tstate' \in [Chunk -> TaskState]
        /\ \A d \in Chunk \ {c} : tstate'[d] = tstate[d]
    BY <1>0, <1>1 DEF SubmitSync, TaskState
  <2> QED
    BY <1>0, <2>1 DEF SlotInv
<1>2. ASSUME NEW c \in T, SubmitAsync(c)
      PROVE  SlotInv' /\ \A d \in Chunk : tstate'[d] = tstate[d] \/ d \in T
  <2>1. /\ ~Sync /\ RunningCount < threadNum /\ RunningCount' = RunningCount + 1 /\ spc' = spc
        /\ tstate[c] = "none" /\ tstate'[c] = "queued" /\ tstate' \in [Chunk -> TaskState]
        /\ \A d \in Chunk \ {c} : tstate'[d] = tstate[d]
    BY <1>0, <1>2 DEF SubmitAsync, TaskState, hasSlot
  <2>2. Holding' = Holding \union {c} /\ c \notin Holding
    BY <2>1 DEF Holding
  <2>3. Cardinality(Holding') = Cardinality(Holding) + 1
    BY <2>2, HoldingFinite, FS_AddElement
  <2> QED
    BY <1>0, <2>1, <2>3, HoldingFinite DEF SlotInv
<1>3. CASE NoSlot(T) \/ SlotWake
  <2>1. UNCHANGED <<RunningCount, tstate>> /\ spc' \in {"submit", "sleep"} /\ spc \in {"submit", "sleep"}
    BY <1>3 DEF NoSlot, SlotWake
  <2>2. Holding' = Holding
    BY <2>1 DEF Holding
  <2> QED
    BY <1>0, <2>1, <2>2 DEF SlotInv
<1> QED
  BY <1>1, <1>2, <1>3 DEF Submit

(* The task itself: it starts, its function returns, its slot is released. *)
LEMMA TaskSlots ==
  ASSUME SlotInv, NEW c \in Chunk, UNCHANGED threadNum,
         PoolThread(c) \/ (tstate[c] = "running" /\ BodyReturned(c))
  PROVE  SlotInv' /\ tstate[c] # "none" /\ \A d \in Chunk \ {c} : tstate'[d] = tstate[d]
<1>0. tstate \in [Chunk -> TaskState] /\ threadNum \in Int /\ Sync' = Sync
  BY DEF SlotInv, Sync
<1>1. CASE TaskStart(c)
  <2>1. /\ tstate[c] = "queued" /\ tstate'[c] = "running" /\ tstate' \in [Chunk -> TaskState]
        /\ \A d \in Chunk \ {c} : tstate'[d] = tstate[d]
        /\ UNCHANGED <<RunningCount, spc>>
    BY <1>0, <1>1 DEF TaskStart, TaskState
  <2>2. Holding' = Holding /\ ~Sync
    BY <2>1 DEF Holding, SlotInv
  <2> QED
    BY <1>0, <2>1, <2>2 DEF SlotInv
<1>2. CASE SlotRelease(c)
  <2>1. /\ tstate[c] = "release" /\ tstate'[c] = "trigger" /\ tstate' \in [Chunk -> TaskState]
        /\ \A d \in Chunk \ {c} : tstate'[d] = tstate[d]
        /\ RunningCount' = RunningCount - 1 /\ spc' = spc
    BY <1>0, <1>2 DEF SlotRelease, TaskState
  <2>2. Holding' = Holding \ {c} /\ c \in Holding /\ ~Sync
    BY <2>1 DEF Holding, SlotInv
  <2>3. Cardinality(Holding') = Cardinality(Holding) - 1
    BY <2>2, HoldingFinite, FS_RemoveElement
  <2> QED
    BY <1>0, <2>1, <2>2, <2>3, HoldingFinite DEF SlotInv
<1>3. CASE SlotTrigger(c)
  <2>1. /\ tstate[c] = "trigger" /\ tstate'[c] = "done" /\ tstate' \in [Chunk -> TaskState]
        /\ \A d \in Chunk \ {c} : tstate'[d] = tstate[d]
        /\ UNCHANGED <<RunningCount, spc>>
    BY <1>0, <1>3 DEF SlotTrigger, TaskState
  <2>2. Holding' = Holding /\ ~Sync
    BY <2>1 DEF Holding, SlotInv
  <2> QED
    BY <1>0, <2>1, <2>2 DEF SlotInv
<1>4. CASE tstate[c] = "running" /\ BodyReturned(c)
  <2>1. /\ tstate'[c] = (IF Sync THEN "done" ELSE "release") /\ tstate' \in [Chunk -> TaskState]
        /\ \A d \in Chunk \ {c} : tstate'[d] = tstate[d]
        /\ UNCHANGED RunningCount /\ spc' = IF Sync THEN "submit" ELSE spc
    BY <1>0, <1>4 DEF BodyReturned, TaskState
  <2>2. ~Sync => Holding' = Holding
    BY <1>4, <2>1 DEF Holding
  <2> QED
    BY <1>0, <1>4, <2>1, <2>2 DEF SlotInv
<1> QED
  BY <1>1, <1>2, <1>3, <1>4 DEF PoolThread

(* What a step of a task does to the runner. *)
LEMMA TaskRuns ==
  ASSUME NEW c \in Chunk, Task(c)
  PROVE  /\ running /\ UNCHANGED <<envVars, mpc, manifest>>
         /\ \/ UNCHANGED runnerVars
            \/ PoolThread(c) \/ (tstate[c] = "running" /\ BodyReturned(c))
<1>1. /\ running /\ UNCHANGED <<envVars, mpc, manifest>>
  BY DEF Task, patchVars, CreateDiff
<1>2. CASE PoolThread(c)
  BY <1>1, <1>2
<1>3. CASE tstate[c] = "running" /\ CreateDiff(c)
  BY <1>1, <1>3 DEF CreateDiff
<1>4. CASE tstate[c] = "running" /\ ApplyStep(c)
  <2>1. UNCHANGED runnerVars \/ BodyReturned(c)
    BY <1>4 DEF ApplyStep, LoadPatch, PatchDiff, CleanNew, Preflight, MoveToBak, MoveFromNew, Commit,
       UndoNew, UndoBak, Return, Stay
  <2> QED
    BY <1>1, <1>4, <2>1, SMTT(30)
<1> QED
  BY <1>2, <1>3, <1>4 DEF Task

(* Each step of FPPatchManager keeps the runner as it should be. *)
LEMMA NextRunner ==
  ASSUME SlotInv, CallInv, [Next]_vars
  PROVE  SlotInv' /\ CallInv'
<1>0. tasks \subseteq Chunk /\ tstate \in [Chunk -> TaskState]
  BY DEF tasks, createTasks, applyTasks, SlotInv
<1>1. CASE Submitter
  <2>1. /\ running /\ Submit(tasks) /\ UNCHANGED <<envVars, patchVars, mpc>>
    BY <1>1 DEF Submitter
  <2>2. tasks' = tasks /\ running' = running
    BY <2>1 DEF tasks, createTasks, applyTasks, hasOld, hasNew, ItemOf, DiffType, running, envVars,
       patchVars
  <2>3. SlotInv' /\ \A d \in Chunk : tstate'[d] = tstate[d] \/ d \in tasks
    BY <1>0, <2>1, SubmitSlots DEF envVars
  <2> QED
    BY <2>1, <2>2, <2>3 DEF CallInv
<1>2. ASSUME NEW c \in Chunk, Task(c) PROVE SlotInv' /\ CallInv'
  <2>1. /\ running /\ UNCHANGED <<envVars, mpc, manifest>>
        /\ \/ UNCHANGED runnerVars
           \/ PoolThread(c) \/ (tstate[c] = "running" /\ BodyReturned(c))
    BY <1>2, TaskRuns
  <2>2. tasks' = tasks /\ running' = running
    BY <2>1 DEF tasks, createTasks, applyTasks, hasOld, hasNew, ItemOf, DiffType, running, envVars
  <2>3. CASE UNCHANGED runnerVars
    <3>1. Holding' = Holding /\ UNCHANGED <<tstate, spc, RunningCount, threadNum>>
      BY <2>1, <2>3 DEF Holding, runnerVars, envVars
    <3> QED
      BY <2>1, <2>2, <3>1 DEF SlotInv, CallInv, Sync
  <2>4. CASE PoolThread(c) \/ (tstate[c] = "running" /\ BodyReturned(c))
    <3>1. SlotInv' /\ tstate[c] # "none" /\ \A d \in Chunk \ {c} : tstate'[d] = tstate[d]
      BY <2>1, <2>4, TaskSlots DEF envVars
    <3> QED
      BY <2>1, <2>2, <3>1 DEF CallInv
  <2> QED
    BY <2>1, <2>3, <2>4
<1>3. CASE CreateCollect \/ ApplyLoop \/ Crash
  <2>1. NewRunner /\ UNCHANGED threadNum
    BY <1>3 DEF CreateCollect, ApplyLoop, Crash, envVars
  <2>2. SlotInv' /\ \A c \in Chunk : tstate'[c] = "none"
    BY <2>1, NewSlots DEF NewRunner, Unused
  <2> QED
    BY <2>2 DEF CallInv
<1>4. CASE CreateSum \/ ApplySum
  <2>1. /\ UNCHANGED <<envVars, runnerVars>> /\ ~running' /\ running /\ AllWaited(tasks)
    BY <1>4 DEF CreateSum, ApplySum, running, tasks
  <2>2. Holding' = Holding /\ UNCHANGED <<tstate, spc, RunningCount, threadNum>>
    BY <2>1 DEF Holding, runnerVars, envVars
  <2>3. SlotInv'
    BY <2>2 DEF SlotInv, Sync
  <2>4. CallInv'
    BY <2>1, <2>2 DEF CallInv, AllWaited
  <2> QED
    BY <2>3, <2>4
<1>5. CASE CreateLoadFails \/ ApplyRefused \/ UNCHANGED vars
  <2>1. running' = running /\ (running => tasks' = tasks)
    <3>1. CASE CreateLoadFails \/ ApplyRefused
      BY <3>1 DEF CreateLoadFails, ApplyRefused, running
    <3>2. CASE UNCHANGED vars
      BY <3>2 DEF running, vars, envVars, patchVars, tasks, createTasks, applyTasks, hasOld, hasNew,
         ItemOf, DiffType
    <3> QED
      BY <1>5, <3>1, <3>2
  <2>2. Holding' = Holding /\ UNCHANGED <<tstate, spc, RunningCount, threadNum>>
    BY <1>5 DEF Holding, runnerVars, envVars, CreateLoadFails, ApplyRefused, vars
  <2>3. SlotInv'
    BY <2>2 DEF SlotInv, Sync
  <2>4. CallInv'
    BY <2>1, <2>2 DEF CallInv
  <2> QED
    BY <2>3, <2>4
<1> QED
  BY <1>1, <1>2, <1>3, <1>4, <1>5 DEF Next, MainThread

(* No task has been submitted at first. *)
LEMMA InitRunner == Init => SlotInv /\ CallInv
<1> SUFFICES ASSUME Init PROVE SlotInv /\ CallInv
  OBVIOUS
<1>1. /\ threadNum \in Int /\ RunningCount = 0 /\ spc = "submit"
      /\ tstate \in [Chunk -> TaskState] /\ \A c \in Chunk : tstate[c] = "none"
  BY RunnerAssumption DEF Init, RunnerInit, RunnerAssumption, Unused, TaskState
<1>2. Cardinality(Holding) = 0
  <2>1. Holding = {}
    BY <1>1 DEF Holding
  <2> QED
    BY <2>1, FS_EmptySet
<1> QED
  BY <1>1, <1>2 DEF SlotInv, CallInv, Sync

(* Never more tasks at work than threads asked for, and none is at work,   *)
(* or still uses the runner's event, when CreatePatch or ApplyPatch has    *)
(* returned: for any chunks and any setting of the thread number.          *)
THEOREM RunnerIsBounded == Spec => []RunnerBounded
<1>1. Init => SlotInv /\ CallInv
  BY InitRunner
<1>2. SlotInv /\ CallInv /\ [Next]_vars => SlotInv' /\ CallInv'
  BY NextRunner
<1>3. SlotInv /\ CallInv => RunnerBounded
  <2> SUFFICES ASSUME SlotInv, CallInv PROVE RunnerBounded
    OBVIOUS
  <2>1. ~Sync => Cardinality(AtWork) <= threadNum
    <3>1. AtWork \subseteq Holding
      BY DEF AtWork, Holding
    <3>2. IsFiniteSet(AtWork) /\ Cardinality(AtWork) <= Cardinality(Holding)
      BY <3>1, HoldingFinite, FS_Subset
    <3>3. Cardinality(AtWork) \in Nat
      BY <3>2, FS_CardinalityType
    <3> QED
      BY <3>2, <3>3, HoldingFinite DEF SlotInv
  <2>2. Sync => Cardinality(AtWork) <= 1
    <3>1. CASE AtWork = {}
      BY <3>1, FS_EmptySet
    <3>2. ASSUME Sync, NEW c \in AtWork PROVE Cardinality(AtWork) <= 1
      <4>1. AtWork = {c}
        BY <3>2 DEF AtWork, SlotInv
      <4> QED
        BY <4>1, FS_Singleton, SMTT(30)
    <3> QED
      BY <3>1, <3>2
  <2>3. ~running => \A c \in Chunk : ~Working(c)
    BY DEF CallInv, Working
  <2> QED
    BY <2>1, <2>2, <2>3 DEF RunnerBounded, AtWork
<1> QED
  BY <1>1, <1>2, <1>3, PTL DEF Spec

---------------------------------------------------------------------------
(* The files: the inductive invariant *)

Suffix == {"file", "new", "bak"}
ApplyPC == {"load", "patch", "clean", "preflight", "toBak", "fromNew", "commit", "undoNew", "undoBak",
            "end"}

(* The files of a chunk that a patch modifies. *)
Mod(c) == {e \in Ext : manifest[c][e] = "Modify"}
isOld(c, e) == res[c][e].file = rel[c].old[e]
isNew(c, e) == res[c][e].file = rel[c].new[e]
AllOld(c) == \A e \in Mod(c) : isOld(c, e)
AllNew(c) == \A e \in Mod(c) : isNew(c, e)

(* The variables keep their types, and the manifest says what CreatePatch  *)
(* found.                                                                  *)
ResType == [Chunk -> [Ext -> [Suffix -> 0..Bad]]]

Typed ==
  /\ rel \in [Chunk -> ChunkRelease] /\ mode \in {"Binary", "PakAware"}
  /\ mpc \in {"create", "createRun", "idle", "applyRun", "stop"}
  /\ faults \in Nat /\ crashes \in Nat /\ calls \in Nat
  /\ res \in ResType
  /\ \A c \in Chunk, e \in Ext : copies[c][e] \in {0, rel[c].new[e]}
  /\ \A c \in Chunk : manifest[c] = None \/ manifest[c] = ItemOf(c)
  /\ TaskResults \in [Chunk -> BOOLEAN]
  /\ tpc \in [Chunk -> ApplyPC \union {"diff"}]
  /\ at \in [Chunk -> Nat]
  /\ toBak \in [Chunk -> SUBSET Ext] /\ fromNew \in [Chunk -> SUBSET Ext]

(* A task of ApplyPatch is at one of its files. *)
Place(c) ==
  /\ tpc[c] # "diff" /\ (tpc[c] # "end" => c \in applyTasks)
  /\ tpc[c] \in {"load", "preflight"} => at[c] = 1
  /\ tpc[c] = "patch" => at[c] \in 1..Len(seqOf(Outputs(c)))
  /\ tpc[c] \in {"toBak", "fromNew", "undoNew", "undoBak"} => at[c] \in 1..Len(Ops(c))
  /\ tpc[c] \in {"load", "patch", "preflight"} => toBak[c] = {} /\ fromNew[c] = {}
  /\ TaskResults[c] => tpc[c] = "end"

(* Before the first call ResDir is the old release. *)
FilesOK ==
  /\ Typed
  /\ mpc \in {"create", "createRun"} => calls = 0
  /\ mpc = "createRun" => \A c \in Chunk : tpc[c] \in {"diff", "end"}
  /\ mpc = "applyRun" => \A c \in Chunk : Place(c)
  /\ calls = 0 =>
       /\ mpc # "applyRun"
       /\ \A c \in Chunk : ~rel[c].renamed => \A e \in Ext : isOld(c, e)

(* A modified file exists under its name or as .bak. *)
Safe(c, e) == \E s \in {"file", "bak"} : res[c][e][s] \in {rel[c].old[e], rel[c].new[e]}

(* A file that is to be replaced, and one that is. *)
Ready(c, e) == isOld(c, e) /\ res[c][e].new = rel[c].new[e]
Replaced(c, e) == isNew(c, e) /\ res[c][e].bak = rel[c].old[e]

(* How far the task of a chunk is with its files. *)
PhaseInv(c) ==
  /\ \A e \in Mod(c) : Safe(c, e)
  /\ tpc[c] \in {"load", "patch"} /\ Unchecked => AllOld(c)
  /\ tpc[c] = "patch" =>
       \A i \in 1..(at[c] - 1) :
         seqOf(Outputs(c))[i] \in Mod(c) => Ready(c, seqOf(Outputs(c))[i])
  /\ tpc[c] = "preflight" => \A e \in Mod(c) : Ready(c, e)
  /\ tpc[c] \in {"toBak", "fromNew"} =>
       /\ \A i \in 1..Len(Ops(c)) : Ops(c)[i] \in fromNew[c] <=> i < at[c]
       /\ \A e \in Mod(c) : e \in fromNew[c] => Replaced(c, e)
  /\ tpc[c] = "toBak" =>
       /\ toBak[c] = fromNew[c]
       /\ \A e \in Mod(c) \ fromNew[c] : Ready(c, e)
  /\ tpc[c] = "fromNew" =>
       /\ toBak[c] = fromNew[c] \union {op(c)}
       /\ res[c][op(c)].new = rel[c].new[op(c)] /\ res[c][op(c)].bak = rel[c].old[op(c)]
       /\ \A e \in Mod(c) \ toBak[c] : Ready(c, e)
  /\ tpc[c] = "commit" => AllNew(c)
  /\ tpc[c] \in {"undoNew", "undoBak"} =>
       /\ fromNew[c] \subseteq toBak[c]
       /\ \A i \in 1..at[c] :
            Ops(c)[i] \in toBak[c] => res[c][Ops(c)[i]].bak = rel[c].old[Ops(c)[i]]
  /\ TaskResults[c] => AllNew(c)

FileInv ==
  firstOrChecked =>
    \A c \in Chunk : ~rel[c].renamed =>
      /\ mpc \in {"idle", "applyRun"} => \A e \in Mod(c) : Safe(c, e)
      /\ mpc = "applyRun" /\ c \in applyTasks => PhaseInv(c)

(* While at most one file operation has failed and the process never died. *)
Calm == firstOrChecked /\ crashes = 0 /\ faults >= MaxFaults - 1

CalmAt(c) ==
  /\ tpc[c] \in {"load", "patch", "clean", "preflight", "end"} => AllOld(c) \/ AllNew(c)
  /\ tpc[c] \in {"undoNew", "undoBak"} =>
       /\ faults < MaxFaults
       /\ \A i \in 1..Len(Ops(c)) :
            isOld(c, Ops(c)[i]) \/ (i <= at[c] /\ Ops(c)[i] \in toBak[c])

CalmInv ==
  Calm =>
    \A c \in Chunk : ~rel[c].renamed =>
      /\ mpc = "idle" => AllOld(c) \/ AllNew(c)
      /\ mpc = "applyRun" => CalmAt(c)

(* A task that has returned is at its end, and ApplyPatch has a result     *)
(* only between two calls.                                                 *)
EndInv ==
  /\ mpc = "applyRun" => \A c \in Chunk : tstate[c] \in {"release", "trigger", "done"} => tpc[c] = "end"
  /\ applied # "none" => mpc = "idle"
  /\ faults <= MaxFaults

---------------------------------------------------------------------------
(* The operators *)

(* The files of a set come one by one, each of them once. *)
LEMMA FilesInOrder ==
  ASSUME NEW S \in SUBSET Ext
  PROVE  /\ seqOf(S) \in Seq(Ext)
         /\ \A i \in 1..Len(seqOf(S)) : seqOf(S)[i] \in S
         /\ \A e \in S : \E i \in 1..Len(seqOf(S)) : seqOf(S)[i] = e
         /\ \A i, j \in 1..Len(seqOf(S)) : seqOf(S)[i] = seqOf(S)[j] => i = j
<1> DEFINE Good == /\ seqOf(S) \in Seq(Ext)
                   /\ \A i \in 1..Len(seqOf(S)) : seqOf(S)[i] \in S
                   /\ \A e \in S : \E i \in 1..Len(seqOf(S)) : seqOf(S)[i] = e
                   /\ \A i, j \in 1..Len(seqOf(S)) : seqOf(S)[i] = seqOf(S)[j] => i = j
<1> SUFFICES Good
  OBVIOUS
<1>1. S = {} \/ S = {"pak"} \/ S = {"utoc"} \/ S = {"ucas"} \/ S = {"pak", "utoc"}
       \/ S = {"pak", "ucas"} \/ S = {"utoc", "ucas"} \/ S = {"pak", "utoc", "ucas"}
  <2>1. \A x : x \in S => x = "pak" \/ x = "utoc" \/ x = "ucas"
    BY DEF Ext
  <2>2. CASE "pak" \in S
    BY <2>1, <2>2
  <2>3. CASE "pak" \notin S
    BY <2>1, <2>3
  <2> QED
    BY <2>2, <2>3
<1>2. CASE S = {}
  BY <1>2 DEF ifIn, seqOf, Ext
<1>3. CASE S = {"pak"}
  BY <1>3 DEF ifIn, seqOf, Ext
<1>4. CASE S = {"utoc"}
  BY <1>4 DEF ifIn, seqOf, Ext
<1>5. CASE S = {"ucas"}
  BY <1>5 DEF ifIn, seqOf, Ext
<1>6. CASE S = {"pak", "utoc"}
  BY <1>6 DEF ifIn, seqOf, Ext
<1>7. CASE S = {"pak", "ucas"}
  BY <1>7 DEF ifIn, seqOf, Ext
<1>8. CASE S = {"utoc", "ucas"}
  BY <1>8 DEF ifIn, seqOf, Ext
<1>9. CASE S = {"pak", "utoc", "ucas"}
  BY <1>9 DEF ifIn, seqOf, Ext
<1> HIDE DEF Good
<1> QED
  BY <1>2, <1>3, <1>4, <1>5, <1>6, <1>7, <1>8, <1>9, <1>1

(* Only one name of one file changes. *)
LEMMA ExceptEffect ==
  ASSUME NEW r \in ResType, NEW c \in Chunk, NEW e \in Ext, NEW s \in Suffix, NEW v \in 0..Bad,
         NEW q, q = [r EXCEPT ![c][e][s] = v]
  PROVE  /\ q \in ResType
         /\ q[c][e][s] = v
         /\ \A x \in Suffix \ {s} : q[c][e][x] = r[c][e][x]
         /\ \A f \in Ext \ {e} : q[c][f] = r[c][f]
         /\ \A d \in Chunk \ {c} : q[d] = r[d]
<1> DEFINE f1 == [r[c][e] EXCEPT ![s] = v]
           f2 == [r[c] EXCEPT ![e] = f1]
<1>0. r[c] \in [Ext -> [Suffix -> 0..Bad]] /\ r[c][e] \in [Suffix -> 0..Bad]
  BY DEF ResType
<1>1. f1 \in [Suffix -> 0..Bad] /\ f1[s] = v /\ \A x \in Suffix \ {s} : f1[x] = r[c][e][x]
  BY <1>0
<1>2. q = [r EXCEPT ![c] = f2]
  OBVIOUS
<1> HIDE DEF f1
<1>3. f2 \in [Ext -> [Suffix -> 0..Bad]] /\ f2[e] = f1 /\ \A f \in Ext \ {e} : f2[f] = r[c][f]
  BY <1>0, <1>1
<1> HIDE DEF f2
<1>4. q \in ResType /\ q[c] = f2 /\ \A d \in Chunk \ {c} : q[d] = r[d]
  BY <1>2, <1>3 DEF ResType
<1> QED
  BY <1>1, <1>3, <1>4

(* A file is written. *)
LEMMA PutEffect ==
  ASSUME res \in ResType, NEW c \in Chunk, NEW e \in Ext, NEW s \in Suffix, NEW v \in 0..Bad,
         Put(c, e, s, v)
  PROVE  /\ res' \in ResType
         /\ res'[c][e][s] = v
         /\ \A x \in Suffix \ {s} : res'[c][e][x] = res[c][e][x]
         /\ \A f \in Ext \ {e} : res'[c][f] = res[c][f]
         /\ \A d \in Chunk \ {c} : res'[d] = res[d]
<1> DEFINE f1 == [res[c][e] EXCEPT ![s] = v]
           f2 == [res[c] EXCEPT ![e] = f1]
<1>0. res[c] \in [Ext -> [Suffix -> 0..Bad]] /\ res[c][e] \in [Suffix -> 0..Bad]
  BY DEF ResType
<1>1. f1 \in [Suffix -> 0..Bad] /\ f1[s] = v /\ \A x \in Suffix \ {s} : f1[x] = res[c][e][x]
  BY <1>0
<1>2. res' = [res EXCEPT ![c] = f2]
  BY DEF Put
<1> HIDE DEF f1
<1>3. f2 \in [Ext -> [Suffix -> 0..Bad]] /\ f2[e] = f1 /\ \A f \in Ext \ {e} : f2[f] = res[c][f]
  BY <1>0, <1>1
<1> HIDE DEF f2
<1>4. res' \in ResType /\ res'[c] = f2 /\ \A d \in Chunk \ {c} : res'[d] = res[d]
  BY <1>2, <1>3 DEF ResType
<1> QED
  BY <1>1, <1>3, <1>4

(* A file changes its name. *)
LEMMA MoveEffect ==
  ASSUME res \in ResType, NEW c \in Chunk, NEW e \in Ext,
         NEW to \in Suffix, NEW from \in Suffix, to # from, Move(c, e, to, from)
  PROVE  /\ res' \in ResType
         /\ res'[c][e][to] = res[c][e][from] /\ res'[c][e][from] = 0
         /\ \A s \in Suffix \ {to, from} : res'[c][e][s] = res[c][e][s]
         /\ \A f \in Ext \ {e} : res'[c][f] = res[c][f]
         /\ \A d \in Chunk \ {c} : res'[d] = res[d]
<1> DEFINE r1 == [res EXCEPT ![c][e][to] = res[c][e][from]]
<1>0. res[c][e][from] \in 0..Bad /\ 0 \in 0..Bad
  BY DEF ResType, Bad
<1>1. /\ r1 \in ResType
      /\ r1[c][e][to] = res[c][e][from]
      /\ \A x \in Suffix \ {to} : r1[c][e][x] = res[c][e][x]
      /\ \A f \in Ext \ {e} : r1[c][f] = res[c][f]
      /\ \A d \in Chunk \ {c} : r1[d] = res[d]
  BY <1>0, ExceptEffect
<1> DEFINE r2 == [r1 EXCEPT ![c][e][from] = 0]
<1>2. res' = r2
  BY DEF Move
<1> HIDE DEF r1
<1>3. /\ r2 \in ResType
      /\ r2[c][e][from] = 0
      /\ \A x \in Suffix \ {from} : r2[c][e][x] = r1[c][e][x]
      /\ \A f \in Ext \ {e} : r2[c][f] = r1[c][f]
      /\ \A d \in Chunk \ {c} : r2[d] = r1[d]
  BY <1>0, <1>1, ExceptEffect
<1> HIDE DEF r2
<1> QED
  BY <1>1, <1>2, <1>3

(* Some files of a chunk lose one of their names. *)
LEMMA ClearEffect ==
  ASSUME res \in ResType, NEW c \in Chunk, NEW S, NEW s \in Suffix,
         res' = [res EXCEPT ![c] = [e \in Ext |->
                   IF e \in S THEN [res[c][e] EXCEPT ![s] = 0] ELSE res[c][e]]]
  PROVE  /\ res' \in ResType
         /\ \A e \in Ext : \A x \in Suffix \ {s} : res'[c][e][x] = res[c][e][x]
         /\ \A d \in Chunk \ {c} : res'[d] = res[d]
<1> DEFINE g == [e \in Ext |-> IF e \in S THEN [res[c][e] EXCEPT ![s] = 0] ELSE res[c][e]]
<1>0. res[c] \in [Ext -> [Suffix -> 0..Bad]] /\ 0 \in 0..Bad
  BY DEF ResType, Bad
<1>1. \A e \in Ext : /\ [res[c][e] EXCEPT ![s] = 0] \in [Suffix -> 0..Bad]
                     /\ \A x \in Suffix \ {s} : [res[c][e] EXCEPT ![s] = 0][x] = res[c][e][x]
  BY <1>0
<1>2. g \in [Ext -> [Suffix -> 0..Bad]]
  BY <1>0, <1>1
<1>3. \A e \in Ext : \A x \in Suffix \ {s} : g[e][x] = res[c][e][x]
  BY <1>0, <1>1
<1> HIDE DEF g
<1>4. res' \in ResType /\ res'[c] = g /\ \A d \in Chunk \ {c} : res'[d] = res[d]
  BY <1>2 DEF ResType, g
<1> QED
  BY <1>3, <1>4

DiffTypes == {"None", "Add", "Delete", "Equal", "Modify"}

(* The heaviest entry decides for the chunk. *)
LEMMA HeaviestDecides ==
  ASSUME NEW item \in [Ext -> DiffTypes]
  PROVE  /\ \E e \in Ext : GetChunkDiffType(item) = item[e]
         /\ \A e \in Ext : Priority(item[e]) <= Priority(GetChunkDiffType(item))
<1> DEFINE types == {item[e] : e \in Ext}
           Top(t) == t \in types /\ \A u \in types : Priority(u) <= Priority(t)
<1>1. types \subseteq DiffTypes /\ types # {}
  BY DEF Ext
<1>2. /\ Priority("Modify") = 4 /\ Priority("Add") = 3 /\ Priority("Delete") = 2
      /\ Priority("Equal") = 1 /\ Priority("None") = 0
  BY DEF Priority
<1>3. \E t : Top(t)
  <2> HIDE DEF types
  <2>1. CASE "Modify" \in types
    BY <1>1, <1>2, <2>1 DEF DiffTypes
  <2>2. CASE "Modify" \notin types /\ "Add" \in types
    BY <1>1, <1>2, <2>2 DEF DiffTypes
  <2>3. CASE "Modify" \notin types /\ "Add" \notin types /\ "Delete" \in types
    BY <1>1, <1>2, <2>3 DEF DiffTypes
  <2>4. CASE "Modify" \notin types /\ "Add" \notin types /\ "Delete" \notin types
    BY <1>1, <1>2, <2>4 DEF DiffTypes
  <2> QED
    BY <2>1, <2>2, <2>3, <2>4
<1>4. Top(GetChunkDiffType(item))
  BY <1>3 DEF GetChunkDiffType
<1> QED
  BY <1>4

(* A chunk is modified when one of its files is. *)
LEMMA ModifyDecides ==
  ASSUME NEW item \in [Ext -> DiffTypes]
  PROVE  GetChunkDiffType(item) = "Modify" <=> \E e \in Ext : item[e] = "Modify"
<1>1. PICK g \in DiffTypes : /\ g = GetChunkDiffType(item) /\ (\E e \in Ext : g = item[e])
                             /\ \A e \in Ext : Priority(item[e]) <= Priority(g)
  BY HeaviestDecides
<1>2. ASSUME NEW e \in Ext, item[e] = "Modify" PROVE g = "Modify"
  <2>1. Priority("Modify") <= Priority(g)
    BY <1>1, <1>2
  <2> QED
    BY <2>1 DEF Priority, DiffTypes
<1> QED
  BY <1>1, <1>2

(* What an entry of type Modify says of the file. *)
LEMMA ModifyFacts ==
  ASSUME Typed, NEW c \in Chunk
  PROVE  /\ c \in applyTasks <=> Mod(c) # {}
         /\ Mod(c) \subseteq Outputs(c) /\ Mod(c) \subseteq validFiles(c)
         /\ \A e \in Mod(c) : /\ rel[c].old[e] = 1 /\ rel[c].new[e] = 2
                              /\ isPatchData(c, e)
<1>1. \A e \in Ext : rel[c].old[e] \in {0, 1} /\ rel[c].new[e] \in {0, 1, 2}
  BY DEF Typed, ChunkRelease
<1>2. \A e \in Ext : /\ DiffType(c, e) \in DiffTypes
                     /\ DiffType(c, e) = "Modify" => rel[c].old[e] = 1 /\ rel[c].new[e] = 2
  BY <1>1 DEF DiffType, DiffTypes
<1>3. manifest[c] \in [Ext -> DiffTypes]
  <2>1. manifest[c] = None \/ manifest[c] = ItemOf(c)
    BY DEF Typed
  <2> QED
    BY <1>2, <2>1 DEF None, ItemOf, DiffTypes
<1>4. \A e \in Mod(c) : DiffType(c, e) = "Modify"
  BY DEF Typed, None, ItemOf, Mod
<1>5. c \in applyTasks <=> Mod(c) # {}
  BY <1>3, ModifyDecides DEF applyTasks, Mod
<1>6. Mod(c) \subseteq Outputs(c) /\ Mod(c) \subseteq validFiles(c)
  BY <1>2, <1>4 DEF Outputs, Mod, validFiles, Companions
<1> QED
  BY <1>2, <1>4, <1>5, <1>6 DEF isPatchData, Mod

(* The operations of ReplaceFilesAtomic are the modified files. *)
LEMMA OpsFacts ==
  ASSUME Typed, NEW c \in Chunk
  PROVE  /\ Len(Ops(c)) \in Nat /\ (c \in applyTasks => Len(Ops(c)) >= 1)
         /\ \A i \in 1..Len(Ops(c)) : Ops(c)[i] \in Mod(c) /\ Ops(c)[i] \in Ext
         /\ \A e \in Mod(c) : \E i \in 1..Len(Ops(c)) : Ops(c)[i] = e
         /\ \A i, j \in 1..Len(Ops(c)) : Ops(c)[i] = Ops(c)[j] => i = j
<1>1. Mod(c) \in SUBSET Ext /\ Ops(c) = seqOf(Mod(c))
  BY DEF Mod, Ops
<1>2. /\ Ops(c) \in Seq(Ext)
      /\ \A i \in 1..Len(Ops(c)) : Ops(c)[i] \in Mod(c) /\ Ops(c)[i] \in Ext
      /\ \A e \in Mod(c) : \E i \in 1..Len(Ops(c)) : Ops(c)[i] = e
      /\ \A i, j \in 1..Len(Ops(c)) : Ops(c)[i] = Ops(c)[j] => i = j
  BY <1>1, FilesInOrder
<1>3. Len(Ops(c)) \in Nat
  BY <1>2
<1>4. c \in applyTasks => Len(Ops(c)) >= 1
  BY <1>2, <1>3, ModifyFacts
<1> QED
  BY <1>2, <1>3, <1>4

(* The same for the files that a patch file yields. *)
LEMMA OutputFacts ==
  ASSUME Typed, NEW c \in Chunk
  PROVE  LET files == seqOf(Outputs(c))
         IN  /\ Len(files) \in Nat /\ Len(files) >= 1
             /\ \A i \in 1..Len(files) : files[i] \in Ext
             /\ \A e \in Mod(c) : \E i \in 1..Len(files) : files[i] = e
             /\ \A i, j \in 1..Len(files) : files[i] = files[j] => i = j
<1> DEFINE files == seqOf(Outputs(c))
<1>1. Outputs(c) \in SUBSET Ext /\ "pak" \in Outputs(c)
  BY DEF Outputs, Ext, Companions
<1>2. /\ files \in Seq(Ext)
      /\ \A i \in 1..Len(files) : files[i] \in Outputs(c)
      /\ \A e \in Outputs(c) : \E i \in 1..Len(files) : files[i] = e
      /\ \A i, j \in 1..Len(files) : files[i] = files[j] => i = j
  BY <1>1, FilesInOrder
<1> HIDE DEF files
<1>3. Len(files) \in Nat /\ Len(files) >= 1
  BY <1>1, <1>2
<1>4. Mod(c) \subseteq Outputs(c)
  BY ModifyFacts
<1>5. /\ \A i \in 1..Len(files) : files[i] \in Ext
      /\ \A e \in Mod(c) : \E i \in 1..Len(files) : files[i] = e
  BY <1>1, <1>2, <1>4
<1> QED
  BY <1>2, <1>3, <1>5 DEF files

---------------------------------------------------------------------------
(* The variables keep their types, and the tasks their place *)

(* A step of the task of chunk c leaves the other chunks alone. *)
Others(c) ==
  \A d \in Chunk \ {c} : /\ res'[d] = res[d] /\ tpc'[d] = tpc[d] /\ at'[d] = at[d]
                         /\ toBak'[d] = toBak[d] /\ fromNew'[d] = fromNew[d]
                         /\ TaskResults'[d] = TaskResults[d]

TaskTyped ==
  /\ res \in ResType /\ faults \in Nat /\ TaskResults \in [Chunk -> BOOLEAN]
  /\ tpc \in [Chunk -> ApplyPC \union {"diff"}] /\ at \in [Chunk -> Nat]
  /\ toBak \in [Chunk -> SUBSET Ext] /\ fromNew \in [Chunk -> SUBSET Ext]

(* What the releases, the mode and the manifest determine. *)
LEMMA SamePatch ==
  ASSUME UNCHANGED <<rel, mode, manifest>>
  PROVE  /\ applyTasks' = applyTasks /\ modified' = modified /\ Unchecked' = Unchecked
         /\ \A c : /\ ItemOf(c)' = ItemOf(c) /\ Mod(c)' = Mod(c) /\ Outputs(c)' = Outputs(c)
                   /\ Ops(c)' = Ops(c)
<1>1. applyTasks' = applyTasks /\ modified' = modified /\ Unchecked' = Unchecked
  BY DEF applyTasks, modified, Unchecked
<1>2. \A c, e : DiffType(c, e)' = DiffType(c, e)
  BY DEF DiffType
<1>3. \A c : ItemOf(c)' = ItemOf(c) /\ Mod(c)' = Mod(c) /\ Outputs(c)' = Outputs(c)
  BY <1>2 DEF ItemOf, Mod, Outputs
<1>4. \A c : Ops(c)' = Ops(c)
  BY DEF Ops
<1> QED
  BY <1>1, <1>3, <1>4

(* Each step of a task of ApplyPatch. *)
LEMMA ApplyFrame ==
  ASSUME Typed, NEW c \in Chunk, Place(c), ApplyStep(c), UNCHANGED <<rel, mode, manifest>>
  PROVE  TaskTyped' /\ Others(c) /\ Place(c)'
<1>0. /\ applyTasks' = applyTasks /\ Ops(c)' = Ops(c) /\ seqOf(Outputs(c))' = seqOf(Outputs(c))
      /\ TaskTyped
  BY SamePatch DEF Typed, TaskTyped
<1>1. /\ Len(Ops(c)) \in Nat /\ (c \in applyTasks => Len(Ops(c)) >= 1)
      /\ at[c] \in 1..Len(Ops(c)) => op(c) \in Ext
      /\ Len(seqOf(Outputs(c))) \in Nat /\ Len(seqOf(Outputs(c))) >= 1
      /\ \A i \in 1..Len(seqOf(Outputs(c))) : seqOf(Outputs(c))[i] \in Ext
  BY OpsFacts, OutputFacts DEF op
<1>2. faults' \in Nat /\ \A ok \in BOOLEAN : Return(c, ok) =>
         /\ TaskResults' \in [Chunk -> BOOLEAN] /\ tpc'[c] = "end"
         /\ \A d \in Chunk \ {c} : TaskResults'[d] = TaskResults[d]
  <2>1. Works \/ Fails
    BY DEF ApplyStep, LoadPatch, PatchDiff, CleanNew, Preflight, MoveToBak, MoveFromNew, Commit, UndoNew,
       UndoBak
  <2> QED
    BY <1>0, <2>1, SMTT(30) DEF Works, Fails, Return, Goto, TaskTyped
<1>3. \A l \in ApplyPC : Goto(c, l) => /\ tpc' \in [Chunk -> ApplyPC \union {"diff"}] /\ tpc'[c] = l
                                       /\ \A d \in Chunk \ {c} : tpc'[d] = tpc[d]
  BY <1>0 DEF Goto, TaskTyped
<1>4. \A ok \in BOOLEAN : Return(c, ok) =>
         /\ tpc' \in [Chunk -> ApplyPC \union {"diff"}]
         /\ \A d \in Chunk \ {c} : tpc'[d] = tpc[d]
  BY <1>3 DEF Return, ApplyPC
<1>5. Stay => TaskResults' = TaskResults
  BY DEF Stay
<1>6. ASSUME NEW l \in ApplyPC \ {"end", "load"}, Goto(c, l), Stay, tpc[c] # "end",
             res' \in ResType, at' \in [Chunk -> Nat],
             toBak' \in [Chunk -> SUBSET Ext], fromNew' \in [Chunk -> SUBSET Ext],
             \A d \in Chunk \ {c} : /\ res'[d] = res[d] /\ at'[d] = at[d]
                                    /\ toBak'[d] = toBak[d] /\ fromNew'[d] = fromNew[d],
             l = "preflight" => at'[c] = 1,
             l = "patch" => at'[c] \in 1..Len(seqOf(Outputs(c))),
             l \in {"toBak", "fromNew", "undoNew", "undoBak"} => at'[c] \in 1..Len(Ops(c)),
             l \in {"patch", "preflight"} => toBak'[c] = {} /\ fromNew'[c] = {}
      PROVE  TaskTyped' /\ Others(c) /\ Place(c)'
  <2>1. /\ tpc' \in [Chunk -> ApplyPC \union {"diff"}] /\ tpc'[c] = l
        /\ \A d \in Chunk \ {c} : tpc'[d] = tpc[d]
    BY <1>3, <1>6
  <2>2. TaskTyped' /\ Others(c)
    BY <1>0, <1>2, <1>5, <1>6, <2>1 DEF TaskTyped, Others
  <2>3. Place(c)'
    BY <1>0, <1>5, <1>6, <2>1 DEF Place, ApplyPC
  <2> QED
    BY <2>2, <2>3
<1>7. ASSUME NEW ok \in BOOLEAN, Return(c, ok),
             res' \in ResType, at' \in [Chunk -> Nat], UNCHANGED <<toBak, fromNew>>,
             \A d \in Chunk \ {c} : res'[d] = res[d] /\ at'[d] = at[d]
      PROVE  TaskTyped' /\ Others(c) /\ Place(c)'
  BY <1>0, <1>2, <1>4, <1>7 DEF TaskTyped, Others, Place
<1>8. /\ UNCHANGED res => res' \in ResType /\ \A d \in Chunk \ {c} : res'[d] = res[d]
      /\ UNCHANGED at => at' \in [Chunk -> Nat] /\ \A d \in Chunk \ {c} : at'[d] = at[d]
      /\ UNCHANGED <<toBak, fromNew>> =>
           /\ toBak' \in [Chunk -> SUBSET Ext] /\ fromNew' \in [Chunk -> SUBSET Ext]
           /\ \A d \in Chunk \ {c} : toBak'[d] = toBak[d] /\ fromNew'[d] = fromNew[d]
           /\ toBak'[c] = toBak[c] /\ fromNew'[c] = fromNew[c]
  BY <1>0 DEF TaskTyped
<1>9. \A e \in Ext : \A s, t \in Suffix : s # t /\ Move(c, e, s, t) =>
        res' \in ResType /\ \A d \in Chunk \ {c} : res'[d] = res[d]
  BY <1>0, MoveEffect DEF TaskTyped
<1>10. CASE LoadPatch(c)
  <2>1. UNCHANGED <<res, at, toBak, fromNew>> /\ tpc[c] = "load" /\ at[c] = 1 /\ toBak[c] = {}
        /\ fromNew[c] = {}
    BY <1>10 DEF LoadPatch, Place
  <2>2. CASE Goto(c, "patch") /\ Stay
    BY <1>1, <1>6, <1>8, <2>1, <2>2, SMTT(30) DEF ApplyPC
  <2>3. CASE Return(c, FALSE)
    BY <1>7, <1>8, <2>1, <2>3
  <2> QED
    BY <1>10, <2>2, <2>3 DEF LoadPatch
<1>11. CASE PatchDiff(c)
  <2> DEFINE files == seqOf(Outputs(c))
             e == files[at[c]]
             last == at[c] = Len(files)
  <2>1. /\ UNCHANGED <<toBak, fromNew>> /\ Stay /\ tpc[c] = "patch" /\ at[c] \in 1..Len(files)
        /\ toBak[c] = {} /\ fromNew[c] = {} /\ e \in Ext
    BY <1>1, <1>11 DEF PatchDiff, Place
  <2>2. \A v \in 0..Bad : Put(c, e, "new", v) =>
           res' \in ResType /\ \A d \in Chunk \ {c} : res'[d] = res[d]
    BY <1>0, <2>1, PutEffect DEF TaskTyped, Suffix
  <2>3. PatchedContents(c, e) \subseteq 0..Bad /\ Bad \in 0..Bad
    BY <2>1 DEF PatchedContents, Bad, Typed, ChunkRelease
  <2>4. ASSUME NEW v \in PatchedContents(c, e), Put(c, e, "new", v), checksNew(e) /\ v # rel[c].new[e],
               Goto(c, "clean"), UNCHANGED at
        PROVE  TaskTyped' /\ Others(c) /\ Place(c)'
    BY <1>6, <1>8, <2>1, <2>2, <2>3, <2>4 DEF ApplyPC
  <2>5. ASSUME NEW v \in PatchedContents(c, e), Put(c, e, "new", v),
               Goto(c, IF last THEN "preflight" ELSE "patch"),
               at' = [at EXCEPT ![c] = IF last THEN 1 ELSE @ + 1]
        PROVE  TaskTyped' /\ Others(c) /\ Place(c)'
    <3>1. /\ at' \in [Chunk -> Nat] /\ at'[c] = (IF last THEN 1 ELSE at[c] + 1)
          /\ \A d \in Chunk \ {c} : at'[d] = at[d]
      BY <1>0, <2>5 DEF TaskTyped
    <3>2. ~last => at'[c] \in 1..Len(files)
      BY <1>1, <2>1, <3>1
    <3> HIDE DEF files, e
    <3>3. CASE last
      BY <1>6, <1>8, <2>1, <2>2, <2>3, <2>5, <3>1, <3>3 DEF ApplyPC
    <3>4. CASE ~last
      BY <1>6, <1>8, <2>1, <2>2, <2>3, <2>5, <3>1, <3>2, <3>4 DEF ApplyPC, files
    <3> QED
      BY <3>3, <3>4
  <2>6. CASE Goto(c, "clean") /\ UNCHANGED <<res, at>>
    BY <1>6, <1>8, <2>1, <2>6 DEF ApplyPC
  <2>7. CASE Put(c, e, "new", Bad) /\ Goto(c, "clean") /\ UNCHANGED at
    BY <1>6, <1>8, <2>1, <2>2, <2>3, <2>7 DEF ApplyPC
  <2> QED
    BY <1>11, <2>4, <2>5, <2>6, <2>7 DEF PatchDiff
<1>12. CASE CleanNew(c)
  <2>1. PICK kept : res' = [res EXCEPT ![c] = [e \in Ext |->
              IF e \in validFiles(c) \ kept THEN [res[c][e] EXCEPT !.new = 0] ELSE res[c][e]]]
    BY <1>12 DEF CleanNew
  <2>2. res' \in ResType /\ \A d \in Chunk \ {c} : res'[d] = res[d]
    BY <1>0, <2>1, ClearEffect, ZenonT(60) DEF TaskTyped, Suffix
  <2> QED
    BY <1>7, <1>8, <1>12, <2>2 DEF CleanNew
<1>13. CASE Preflight(c)
  <2>1. PICK S : res' = [res EXCEPT ![c] = [e \in Ext |->
                   IF e \in S THEN [res[c][e] EXCEPT !.bak = 0] ELSE res[c][e]]]
    BY <1>13 DEF Preflight
  <2>2. res' \in ResType /\ \A d \in Chunk \ {c} : res'[d] = res[d]
    BY <1>0, <2>1, ClearEffect, ZenonT(60) DEF TaskTyped, Suffix
  <2>3. UNCHANGED <<at, toBak, fromNew>> /\ tpc[c] = "preflight" /\ at[c] = 1 /\ c \in applyTasks
    BY <1>13 DEF Preflight, Place
  <2>4. (Goto(c, "toBak") /\ Stay) \/ Return(c, FALSE)
    BY <1>13 DEF Preflight
  <2>5. CASE Goto(c, "toBak") /\ Stay
    BY <1>1, <1>6, <1>8, <2>2, <2>3, <2>5 DEF ApplyPC
  <2>6. CASE Return(c, FALSE)
    BY <1>7, <1>8, <2>2, <2>3, <2>6
  <2> QED
    BY <2>4, <2>5, <2>6
<1>14. ASSUME RollBack(c), Stay, tpc[c] \in {"toBak", "fromNew"}
       PROVE  TaskTyped' /\ Others(c) /\ Place(c)'
  <2>1. /\ at' \in [Chunk -> Nat] /\ at'[c] = Len(Ops(c))
        /\ \A d \in Chunk \ {c} : at'[d] = at[d]
    BY <1>0, <1>1, <1>14 DEF RollBack, TaskTyped
  <2>2. at'[c] \in 1..Len(Ops(c))
    BY <1>1, <1>14, <2>1 DEF Place
  <2> QED
    BY <1>6, <1>8, <1>14, <2>1, <2>2 DEF RollBack, ApplyPC
<1>15. CASE MoveToBak(c)
  <2>1. tpc[c] = "toBak" /\ Stay /\ at[c] \in 1..Len(Ops(c)) /\ op(c) \in Ext
    BY <1>1, <1>15 DEF MoveToBak, Place
  <2>2. CASE RollBack(c)
    BY <1>14, <2>1, <2>2
  <2>3. CASE /\ Move(c, op(c), "bak", "file") /\ toBak' = [toBak EXCEPT ![c] = @ \cup {op(c)}]
             /\ Goto(c, "fromNew") /\ UNCHANGED <<at, fromNew>>
    <3>1. /\ toBak' \in [Chunk -> SUBSET Ext] /\ fromNew' \in [Chunk -> SUBSET Ext]
          /\ \A d \in Chunk \ {c} : toBak'[d] = toBak[d] /\ fromNew'[d] = fromNew[d]
      BY <1>0, <2>1, <2>3 DEF TaskTyped
    <3> QED
      BY <1>6, <1>8, <1>9, <2>1, <2>3, <3>1 DEF ApplyPC, Suffix
  <2>4. CASE Goto(c, "fromNew") /\ UNCHANGED <<res, at, toBak, fromNew>>
    BY <1>6, <1>8, <2>1, <2>4 DEF ApplyPC
  <2> QED
    BY <1>15, <2>2, <2>3, <2>4 DEF MoveToBak
<1>16. CASE MoveFromNew(c)
  <2>1. tpc[c] = "fromNew" /\ Stay /\ at[c] \in 1..Len(Ops(c)) /\ op(c) \in Ext
    BY <1>1, <1>16 DEF MoveFromNew, Place
  <2>2. CASE RollBack(c)
    BY <1>14, <2>1, <2>2
  <2>3. CASE /\ Move(c, op(c), "file", "new") /\ fromNew' = [fromNew EXCEPT ![c] = @ \cup {op(c)}]
             /\ at' = [at EXCEPT ![c] = @ + 1]
             /\ Goto(c, IF at[c] = Len(Ops(c)) THEN "commit" ELSE "toBak")
             /\ UNCHANGED toBak
    <3>1. /\ toBak' \in [Chunk -> SUBSET Ext] /\ fromNew' \in [Chunk -> SUBSET Ext]
          /\ \A d \in Chunk \ {c} : toBak'[d] = toBak[d] /\ fromNew'[d] = fromNew[d]
      BY <1>0, <2>1, <2>3 DEF TaskTyped
    <3>2. /\ at' \in [Chunk -> Nat] /\ at'[c] = at[c] + 1
          /\ \A d \in Chunk \ {c} : at'[d] = at[d]
      BY <1>0, <2>3 DEF TaskTyped
    <3>3. at[c] # Len(Ops(c)) => at'[c] \in 1..Len(Ops(c))
      BY <1>1, <2>1, <3>2
    <3>4. res' \in ResType /\ \A d \in Chunk \ {c} : res'[d] = res[d]
      BY <1>9, <2>1, <2>3 DEF Suffix
    <3>5. CASE at[c] = Len(Ops(c))
      BY <1>6, <2>1, <2>3, <3>1, <3>2, <3>4, <3>5 DEF ApplyPC
    <3>6. CASE at[c] # Len(Ops(c))
      BY <1>6, <2>1, <2>3, <3>1, <3>2, <3>3, <3>4, <3>6 DEF ApplyPC
    <3> QED
      BY <3>5, <3>6
  <2> QED
    BY <1>16, <2>2, <2>3 DEF MoveFromNew
<1>17. CASE Commit(c)
  <2>1. PICK S : res' = [res EXCEPT ![c] = [e \in Ext |->
                   IF e \in S THEN [res[c][e] EXCEPT !.bak = 0] ELSE res[c][e]]]
    BY <1>17 DEF Commit
  <2>2. res' \in ResType /\ \A d \in Chunk \ {c} : res'[d] = res[d]
    BY <1>0, <2>1, ClearEffect, ZenonT(60) DEF TaskTyped, Suffix
  <2> QED
    BY <1>7, <1>8, <1>17, <2>2 DEF Commit
<1>18. CASE UndoNew(c)
  <2>1. tpc[c] = "undoNew" /\ Stay /\ at[c] \in 1..Len(Ops(c)) /\ op(c) \in Ext
    BY <1>1, <1>18 DEF UndoNew, Place
  <2>2. res' \in ResType /\ \A d \in Chunk \ {c} : res'[d] = res[d]
    <3>1. Move(c, op(c), "new", "file") \/ UNCHANGED res
      BY <1>18 DEF UndoNew
    <3> QED
      BY <1>8, <1>9, <2>1, <3>1 DEF Suffix
  <2> QED
    BY <1>6, <1>8, <1>18, <2>1, <2>2 DEF UndoNew, ApplyPC
<1>19. CASE UndoBak(c)
  <2>1. tpc[c] = "undoBak" /\ at[c] \in 1..Len(Ops(c)) /\ op(c) \in Ext
    BY <1>1, <1>19 DEF UndoBak, Place
  <2>2. res' \in ResType /\ \A d \in Chunk \ {c} : res'[d] = res[d]
    <3>1. Move(c, op(c), "file", "bak") \/ UNCHANGED res
      BY <1>19 DEF UndoBak
    <3> QED
      BY <1>8, <1>9, <2>1, <3>1 DEF Suffix
  <2>3. /\ at' \in [Chunk -> Nat] /\ at'[c] = at[c] - 1
        /\ \A d \in Chunk \ {c} : at'[d] = at[d]
    <3>1. at' = [at EXCEPT ![c] = at[c] - 1] /\ at[c] - 1 \in Nat
      BY <1>1, <1>19, <2>1 DEF UndoBak
    <3> QED
      BY <1>0, <3>1 DEF TaskTyped
  <2>4. CASE at[c] = 1
    BY <1>7, <1>8, <1>19, <2>2, <2>3, <2>4 DEF UndoBak
  <2>5. CASE at[c] # 1
    <3>1. at'[c] \in 1..Len(Ops(c))
      BY <1>1, <2>1, <2>3, <2>5
    <3> QED
      BY <1>6, <1>8, <1>19, <2>1, <2>2, <2>3, <2>5, <3>1 DEF UndoBak, ApplyPC
  <2> QED
    BY <2>4, <2>5
<1> QED
  BY <1>10, <1>11, <1>12, <1>13, <1>15, <1>16, <1>17, <1>18, <1>19 DEF ApplyStep

(* The files that can be lost or kept are finitely many. *)
LEMMA PathsFinite ==
  ASSUME NEW S \in SUBSET (Chunk \X Ext)
  PROVE  IsFiniteSet(S) /\ Cardinality(S) \in Nat
<1>1. IsFiniteSet(Chunk)
  BY RunnerAssumption DEF RunnerAssumption
<1>2. IsFiniteSet(Ext)
  <2>1. IsFiniteSet({}) /\ Ext = (({} \union {"pak"}) \union {"utoc"}) \union {"ucas"}
    BY FS_EmptySet DEF Ext
  <2>2. IsFiniteSet({} \union {"pak"})
    BY <2>1, FS_AddElement
  <2>3. IsFiniteSet(({} \union {"pak"}) \union {"utoc"})
    BY <2>2, FS_AddElement
  <2> QED
    BY <2>1, <2>3, FS_AddElement
<1>3. IsFiniteSet(Chunk \X Ext)
  BY <1>1, <1>2, FS_Product
<1>4. IsFiniteSet(S)
  BY <1>3, FS_Subset
<1> QED
  BY <1>4, FS_CardinalityType

(* The loop over the items touches only the files of added and of deleted  *)
(* chunks, and no .new and no .bak.                                        *)
LEMMA LoopEffect ==
  ASSUME Typed, ApplyLoop
  PROVE  /\ res' \in ResType /\ faults' \in Nat /\ faults' <= faults
         /\ \A c \in Chunk, e \in Ext : /\ res'[c][e].new = res[c][e].new
                                        /\ res'[c][e].bak = res[c][e].bak
         /\ \A c \in applyTasks, e \in Ext : res'[c][e].file = res[c][e].file
         /\ \A c \in Chunk \ (ofType("Add") \cup ofType("Delete")), e \in Ext :
              res'[c][e].file = res[c][e].file
         /\ ~failed' => \A c \in ofType("Add") : \A e \in validFiles(c) : res'[c][e].file = rel[c].new[e]
<1>1. PICK bad \in SUBSET {p \in (ofType("Add") \cup ofType("Delete")) \X Ext : p[2] \in validFiles(p[1])} :
        LET copied(c) == {e \in validFiles(c) : \A f \in validFiles(c) \cap upTo(e) :
                                                   copies[c][f] # 0 /\ <<c, f>> \notin bad}
        IN  /\ Cardinality(bad) <= faults /\ faults' = faults - Cardinality(bad)
            /\ failed' = \E c \in ofType("Add") : copied(c) # validFiles(c)
            /\ res' = [c \in Chunk |-> [e \in Ext |-> [res[c][e] EXCEPT !.file =
                  IF c \in ofType("Add") /\ e \in copied(c) THEN copies[c][e]
                  ELSE IF c \in ofType("Delete") /\ e \in validFiles(c) /\ <<c, e>> \notin bad THEN 0
                  ELSE @]]]
  BY DEF ApplyLoop
<1> DEFINE copied(c) == {e \in validFiles(c) : \A f \in validFiles(c) \cap upTo(e) :
                                                 copies[c][f] # 0 /\ <<c, f>> \notin bad}
           v(c, e) == IF c \in ofType("Add") /\ e \in copied(c) THEN copies[c][e]
                      ELSE IF c \in ofType("Delete") /\ e \in validFiles(c) /\ <<c, e>> \notin bad THEN 0
                      ELSE res[c][e].file
<1>2. faults' \in Nat /\ faults' <= faults
  <2>1. bad \in SUBSET (Chunk \X Ext)
    BY DEF ofType
  <2>2. Cardinality(bad) \in Nat
    BY <2>1, PathsFinite
  <2> QED
    BY <1>1, <2>2 DEF Typed
<1>3. \A c \in Chunk, e \in Ext : v(c, e) \in 0..Bad /\ res[c][e] \in [Suffix -> 0..Bad]
  <2>1. \A c \in Chunk, e \in Ext : /\ copies[c][e] \in 0..Bad /\ 0 \in 0..Bad
                                    /\ res[c][e] \in [Suffix -> 0..Bad] /\ res[c][e].file \in 0..Bad
    BY DEF Typed, ChunkRelease, Bad, ResType, Suffix
  <2> QED
    BY <2>1
<1>4. \A c \in applyTasks, e \in Ext : v(c, e) = res[c][e].file
  BY DEF applyTasks, ofType
<1>5. res' = [c \in Chunk |-> [e \in Ext |-> [res[c][e] EXCEPT !.file = v(c, e)]]]
  BY <1>1
<1>10. \A c \in Chunk \ (ofType("Add") \cup ofType("Delete")), e \in Ext : v(c, e) = res[c][e].file
  OBVIOUS
<1>11. ~failed' => \A c \in ofType("Add") : \A e \in validFiles(c) : v(c, e) = rel[c].new[e]
  <2> SUFFICES ASSUME ~failed', NEW c \in ofType("Add"), NEW e \in validFiles(c)
               PROVE  v(c, e) = rel[c].new[e]
    OBVIOUS
  <2>1. copied(c) = validFiles(c) /\ c \in Chunk
    BY <1>1 DEF ofType
  <2>2. e \in copied(c) /\ e \in upTo(e) /\ e \in Ext
    BY <2>1 DEF upTo, validFiles, Ext
  <2>3. copies[c][e] # 0
    BY <2>2
  <2>4. copies[c][e] = rel[c].new[e]
    BY <2>1, <2>2, <2>3 DEF Typed
  <2> QED
    BY <2>2, <2>4
<1> HIDE DEF v
<1>6. \A c \in Chunk, e \in Ext :
        LET r == [res[c][e] EXCEPT !.file = v(c, e)]
        IN  /\ r \in [Suffix -> 0..Bad]
            /\ r.new = res[c][e].new /\ r.bak = res[c][e].bak /\ r.file = v(c, e)
  BY <1>3 DEF Suffix
<1>7. /\ res' \in ResType
      /\ \A c \in Chunk, e \in Ext : res'[c][e] = [res[c][e] EXCEPT !.file = v(c, e)]
  BY <1>5, <1>6 DEF ResType
<1>8. applyTasks \subseteq Chunk
  BY DEF applyTasks
<1>9. ASSUME NEW c \in Chunk, NEW e \in Ext
      PROVE  /\ res'[c][e].new = res[c][e].new /\ res'[c][e].bak = res[c][e].bak
             /\ res'[c][e].file = v(c, e)
  <2> DEFINE r == [res[c][e] EXCEPT !.file = v(c, e)]
  <2>1. r.new = res[c][e].new /\ r.bak = res[c][e].bak /\ r.file = v(c, e)
    BY <1>6
  <2>2. res'[c][e] = r
    BY <1>7
  <2> HIDE DEF r
  <2> QED
    BY <2>1, <2>2
<1>12. ofType("Add") \subseteq Chunk /\ \A c : validFiles(c) \subseteq Ext
  BY DEF ofType, validFiles
<1>13. ~failed' => \A c \in ofType("Add") : \A e \in validFiles(c) : res'[c][e].file = rel[c].new[e]
  BY <1>9, <1>11, <1>12
<1>14. /\ \A c \in applyTasks, e \in Ext : res'[c][e].file = res[c][e].file
       /\ \A c \in Chunk \ (ofType("Add") \cup ofType("Delete")), e \in Ext :
            res'[c][e].file = res[c][e].file
  BY <1>4, <1>8, <1>9, <1>10
<1> QED
  BY <1>2, <1>7, <1>9, <1>13, <1>14

(* Dying changes only .new files. *)
LEMMA CrashEffect ==
  ASSUME Typed, Crash
  PROVE  /\ res' \in ResType
         /\ \A c \in Chunk, e \in Ext : /\ res'[c][e].file = res[c][e].file
                                        /\ res'[c][e].bak = res[c][e].bak
<1>1. PICK torn : res' = [c \in Chunk |-> [e \in Ext |->
           IF c \in torn /\ e = seqOf(Outputs(c))[at[c]] THEN [res[c][e] EXCEPT !.new = Bad] ELSE res[c][e]]]
  BY DEF Crash
<1>2. ASSUME NEW c \in Chunk, NEW e \in Ext
      PROVE  LET r == [res[c][e] EXCEPT !.new = Bad]
             IN  /\ r \in [Suffix -> 0..Bad] /\ res[c][e] \in [Suffix -> 0..Bad]
                 /\ r.file = res[c][e].file /\ r.bak = res[c][e].bak
  <2>1. res[c][e] \in [Suffix -> 0..Bad] /\ Bad \in 0..Bad
    BY DEF Typed, ResType, Bad
  <2> QED
    BY <2>1 DEF Suffix
<1>3. \A c \in Chunk, e \in Ext :
        /\ res'[c][e] \in {res[c][e], [res[c][e] EXCEPT !.new = Bad]}
  BY <1>1
<1>4. res' \in ResType
  BY <1>1, <1>2 DEF ResType
<1>5. ASSUME NEW c \in Chunk, NEW e \in Ext
      PROVE  res'[c][e].file = res[c][e].file /\ res'[c][e].bak = res[c][e].bak
  <2> DEFINE r == [res[c][e] EXCEPT !.new = Bad]
  <2>1. r.file = res[c][e].file /\ r.bak = res[c][e].bak
    BY <1>2
  <2>2. res'[c][e] = r \/ res'[c][e] = res[c][e]
    BY <1>3
  <2> HIDE DEF r
  <2> QED
    BY <2>1, <2>2
<1> QED
  BY <1>4, <1>5

(* When a patch directory is started, and when it is used. *)
LEMMA InitFiles == Init => FilesOK
<1> SUFFICES ASSUME Init PROVE FilesOK
  OBVIOUS
<1>1. /\ rel \in [Chunk -> ChunkRelease] /\ mode \in {"Binary", "PakAware"} /\ MaxFaults \in Nat
  BY ManagerAssumption DEF Init
<1>2. \A c \in Chunk, e \in Ext :
        LET r == [file |-> IF rel[c].renamed THEN 0 ELSE rel[c].old[e], new |-> 0, bak |-> 0]
        IN  /\ r \in [Suffix -> 0..Bad]
            /\ ~rel[c].renamed => r.file = rel[c].old[e]
  BY <1>1 DEF ChunkRelease, Suffix, Bad
<1>3. /\ res \in ResType
      /\ \A c \in Chunk : ~rel[c].renamed => \A e \in Ext : isOld(c, e)
  BY <1>2 DEF Init, ResType, isOld
<1>4. \A c \in Chunk, e \in Ext : copies[c][e] \in {0, rel[c].new[e]}
  BY DEF Init, NoFiles
<1>5. \A c \in Chunk : manifest[c] = None
  BY DEF Init
<1>6. /\ mpc = "create" /\ faults \in Nat /\ crashes \in Nat /\ calls \in Nat
      /\ TaskResults \in [Chunk -> BOOLEAN]
      /\ tpc \in [Chunk -> ApplyPC \union {"diff"}]
      /\ at \in [Chunk -> Nat]
      /\ toBak \in [Chunk -> SUBSET Ext] /\ fromNew \in [Chunk -> SUBSET Ext]
  BY <1>1 DEF Init, ApplyPC
<1>7. Typed
  BY <1>1, <1>3, <1>4, <1>5, <1>6 DEF Typed
<1> QED
  BY <1>3, <1>6, <1>7 DEF FilesOK, Init

(* Every step keeps the types and the places. *)
LEMMA NextFiles == ASSUME FilesOK, [Next]_vars PROVE FilesOK'
<1>0. Typed
  BY DEF FilesOK
<1>1. CASE CreateLoadFails \/ ApplyRefused \/ Submitter \/ CreateSum \/ ApplySum \/ UNCHANGED vars
  <2>1. /\ UNCHANGED <<rel, mode, copies, res, taskVars, crashes>>
        /\ mpc' \in {"create", "createRun", "idle", "applyRun", "stop"}
        /\ faults' \in Nat /\ calls' \in Nat /\ (calls' = 0 => calls = 0)
        /\ mpc' = "createRun" => mpc = "createRun"
        /\ mpc' \in {"create", "createRun"} => mpc' = mpc /\ calls' = calls
        /\ mpc' = "applyRun" => mpc = "applyRun" /\ UNCHANGED <<manifest, calls>>
    <3>1. mpc' = mpc \/ mpc' \in {"idle", "stop"}
      BY <1>1 DEF CreateLoadFails, ApplyRefused, Submitter, CreateSum, ApplySum, vars
    <3>2. UNCHANGED <<rel, mode, copies, res, taskVars, crashes>>
      BY <1>1 DEF CreateLoadFails, ApplyRefused, Submitter, CreateSum, ApplySum, vars, envVars, patchVars,
         boundVars
    <3>3. faults' \in Nat /\ calls' \in Nat /\ (calls' = 0 => calls = 0)
      BY <1>0, <1>1 DEF CreateLoadFails, ApplyRefused, Submitter, CreateSum, ApplySum, vars, boundVars,
         Typed, Works, Fails
    <3>4. mpc' = "applyRun" => mpc = "applyRun" /\ UNCHANGED <<manifest, calls>>
      BY <1>1 DEF CreateLoadFails, ApplyRefused, Submitter, CreateSum, ApplySum, vars, patchVars,
         boundVars
    <3>5. mpc' \in {"create", "createRun"} => mpc' = mpc /\ calls' = calls
      BY <1>1 DEF CreateLoadFails, ApplyRefused, Submitter, CreateSum, ApplySum, vars, boundVars
    <3> QED
      BY <1>0, <3>1, <3>2, <3>3, <3>4, <3>5 DEF Typed
  <2>2. \A c, e : DiffType(c, e)' = DiffType(c, e)
    BY <2>1 DEF DiffType
  <2>3. \A c : ItemOf(c)' = ItemOf(c)
    BY <2>2 DEF ItemOf
  <2>4. \A c \in Chunk : manifest'[c] = None \/ manifest'[c] = ItemOf(c)
    <3>1. CASE CreateSum
      BY <1>0, <3>1 DEF CreateSum, Typed
    <3>2. CASE ~CreateSum
      <4>1. manifest' = manifest
        BY <1>1, <3>2 DEF CreateLoadFails, ApplyRefused, Submitter, ApplySum, vars, patchVars
      <4> QED
        BY <1>0, <4>1 DEF Typed
    <3> QED
      BY <3>1, <3>2
  <2>5. Typed'
    BY <1>0, <2>1, <2>3, <2>4 DEF Typed, taskVars
  <2>6. mpc' = "applyRun" => \A c \in Chunk : Place(c)'
    <3> SUFFICES ASSUME mpc' = "applyRun", NEW c \in Chunk PROVE Place(c)'
      OBVIOUS
    <3>1. /\ applyTasks' = applyTasks /\ Outputs(c)' = Outputs(c) /\ Ops(c)' = Ops(c)
      BY <2>1, SamePatch
    <3>2. Place(c) /\ seqOf(Outputs(c))' = seqOf(Outputs(c)) /\ UNCHANGED taskVars
      BY <2>1, <3>1 DEF FilesOK
    <3> QED
      BY <3>1, <3>2 DEF Place, taskVars
  <2> QED
    BY <2>1, <2>5, <2>6 DEF FilesOK, isOld, taskVars
<1>2. CASE CreateCollect
  <2>1. /\ UNCHANGED <<rel, mode, res, crashes, calls, at, toBak, fromNew>>
        /\ mpc = "create" /\ mpc' = "createRun"
        /\ TaskResults' \in [Chunk -> BOOLEAN]
        /\ tpc' \in [Chunk -> ApplyPC \union {"diff"}] /\ \A c \in Chunk : tpc'[c] \in {"diff", "end"}
    BY <1>2 DEF CreateCollect, envVars, ApplyPC
  <2>2. PICK lost \in SUBSET (Chunk \X Ext), skipped \in SUBSET Chunk :
           /\ Cardinality(lost) <= faults /\ faults' = faults - Cardinality(lost)
           /\ \A c \in Chunk, e \in Ext : copies'[c][e] \in {rel[c].new[e], 0}
           /\ \A c \in Chunk : manifest'[c] \in {ItemOf(c), None}
    <3>1. PICK lost \in SUBSET {p \in {c \in Chunk : hasNew(c) /\ ~hasOld(c)} \X Ext : p[2] \in addedFiles(p[1])} :
            LET new == {c \in Chunk : hasNew(c) /\ ~hasOld(c)}
                skipped == {c \in new : <<c, "pak">> \in lost}
            IN  /\ Cardinality(lost) <= faults /\ faults' = faults - Cardinality(lost)
                /\ copies' = [c \in Chunk |-> [e \in Ext |->
                     IF c \in new \ skipped /\ <<c, e>> \notin lost THEN rel[c].new[e] ELSE 0]]
                /\ manifest' = [c \in Chunk |->
                     IF hasNew(c) /\ c \notin createTasks \cup skipped THEN ItemOf(c) ELSE None]
      BY <1>2 DEF CreateCollect
    <3>2. \A c \in Chunk, e \in Ext : copies'[c][e] \in {rel[c].new[e], 0}
      BY <3>1
    <3>3. \A c \in Chunk : manifest'[c] \in {ItemOf(c), None}
      BY <3>1
    <3>4. lost \in SUBSET (Chunk \X Ext)
      OBVIOUS
    <3> QED
      BY <3>1, <3>2, <3>3, <3>4
  <2>3. faults' \in Nat
    BY <1>0, <2>2, PathsFinite DEF Typed
  <2>4. \A c, e : DiffType(c, e)' = DiffType(c, e)
    BY <2>1 DEF DiffType
  <2>5. \A c : ItemOf(c)' = ItemOf(c)
    BY <2>4 DEF ItemOf
  <2>6. Typed'
    BY <1>0, <2>1, <2>2, <2>3, <2>5 DEF Typed
  <2> QED
    BY <2>1, <2>6 DEF FilesOK, isOld
<1>3. CASE ApplyLoop
  <2>1. /\ UNCHANGED <<rel, mode, manifest, copies, crashes>> /\ mpc' = "applyRun" /\ calls' = calls + 1
        /\ TaskResults' = [c \in Chunk |-> FALSE]
        /\ tpc' = [c \in Chunk |-> IF c \in applyTasks THEN "load" ELSE "end"]
        /\ at' = [c \in Chunk |-> 1] /\ toBak' = [c \in Chunk |-> {}] /\ fromNew' = [c \in Chunk |-> {}]
    BY <1>3 DEF ApplyLoop, envVars, patchVars
  <2>2. res' \in ResType /\ faults' \in Nat
    BY <1>0, <1>3, LoopEffect
  <2>3. /\ applyTasks' = applyTasks /\ \A c : ItemOf(c)' = ItemOf(c)
    BY <2>1, SamePatch
  <2>4. /\ TaskResults' \in [Chunk -> BOOLEAN] /\ tpc' \in [Chunk -> ApplyPC \union {"diff"}]
        /\ at' \in [Chunk -> Nat] /\ toBak' \in [Chunk -> SUBSET Ext]
        /\ fromNew' \in [Chunk -> SUBSET Ext] /\ calls' \in Nat /\ calls' # 0
    BY <1>0, <2>1 DEF ApplyPC, Typed
  <2>5. Typed'
    BY <1>0, <2>1, <2>2, <2>3, <2>4 DEF Typed
  <2>6. \A c \in Chunk : Place(c)'
    BY <2>1, <2>3 DEF Place
  <2> QED
    BY <2>1, <2>4, <2>5, <2>6 DEF FilesOK
<1>4. CASE Crash
  <2>1. /\ UNCHANGED <<rel, mode, manifest, copies, faults, calls, TaskResults, at, toBak, fromNew>>
        /\ mpc = "applyRun" /\ mpc' = "idle" /\ crashes' = crashes + 1
        /\ tpc' = [c \in Chunk |-> "end"]
    BY <1>4 DEF Crash, envVars, patchVars
  <2>2. res' \in ResType
    BY <1>0, <1>4, CrashEffect
  <2>3. tpc' \in [Chunk -> ApplyPC \union {"diff"}] /\ crashes' \in Nat
    BY <1>0, <2>1 DEF ApplyPC, Typed
  <2>4. \A c : ItemOf(c)' = ItemOf(c)
    BY <2>1, SamePatch
  <2>5. Typed'
    BY <1>0, <2>1, <2>2, <2>3, <2>4 DEF Typed
  <2> QED
    BY <2>1, <2>5 DEF FilesOK
<1>5. ASSUME NEW c \in Chunk, Task(c) PROVE FilesOK'
  <2>1. /\ running /\ UNCHANGED <<rel, mode, mpc, crashes, calls, manifest, copies>>
        /\ mpc \in {"createRun", "applyRun"}
    BY <1>5 DEF Task, envVars, patchVars, CreateDiff, running
  <2>2. /\ applyTasks' = applyTasks
        /\ \A d : ItemOf(d)' = ItemOf(d) /\ Outputs(d)' = Outputs(d) /\ Ops(d)' = Ops(d)
    BY <2>1, SamePatch
  <2>3. CASE UNCHANGED <<res, taskVars, faults>>
    <3>1. Typed'
      BY <1>0, <2>1, <2>2, <2>3 DEF Typed, taskVars
    <3>2. \A d \in Chunk : Place(d)' <=> Place(d)
      BY <2>2, <2>3 DEF Place, taskVars
    <3> QED
      BY <2>1, <2>3, <3>1, <3>2 DEF FilesOK, taskVars, isOld
  <2>4. CASE CreateDiff(c)
    <3>1. /\ UNCHANGED <<res, at, toBak, fromNew>> /\ tpc[c] = "diff" /\ tpc' = [tpc EXCEPT ![c] = "end"]
          /\ TaskResults' \in [Chunk -> BOOLEAN] /\ faults' \in Nat
      <4>1. /\ UNCHANGED <<res, at, toBak, fromNew>> /\ tpc[c] = "diff" /\ tpc' = [tpc EXCEPT ![c] = "end"]
            /\ TaskResults' \in {TaskResults, [TaskResults EXCEPT ![c] = TRUE]}
            /\ Works \/ Fails
        BY <2>4 DEF CreateDiff
      <4>2. TaskResults \in [Chunk -> BOOLEAN] /\ faults \in Nat
        BY <1>0 DEF Typed
      <4>3. faults' \in Nat
        BY <4>1, <4>2 DEF Works, Fails
      <4>4. [TaskResults EXCEPT ![c] = TRUE] \in [Chunk -> BOOLEAN]
        BY <4>2
      <4> QED
        BY <4>1, <4>2, <4>3, <4>4, Zenon
    <3>2. mpc # "applyRun"
      BY <3>1 DEF FilesOK, Place
    <3>3. Typed'
      BY <1>0, <2>1, <2>2, <3>1 DEF Typed, ApplyPC
    <3>4. \A d \in Chunk : tpc'[d] \in {tpc[d], "end"}
      BY <1>0, <3>1 DEF Typed
    <3> QED
      BY <2>1, <3>1, <3>2, <3>3, <3>4 DEF FilesOK, isOld
  <2>5. CASE ApplyStep(c)
    <3>1. tpc[c] \notin {"diff", "end"}
      BY <2>5 DEF ApplyStep, LoadPatch, PatchDiff, CleanNew, Preflight, MoveToBak, MoveFromNew, Commit,
         UndoNew, UndoBak
    <3>2. mpc = "applyRun" /\ Place(c) /\ calls # 0
      BY <2>1, <3>1 DEF FilesOK
    <3>3. TaskTyped' /\ Others(c) /\ Place(c)'
      BY <1>0, <2>1, <2>5, <3>2, ApplyFrame
    <3>4. Typed'
      BY <1>0, <2>1, <2>2, <3>3 DEF Typed, TaskTyped
    <3>5. \A d \in Chunk \ {c} : Place(d)' <=> Place(d)
      BY <2>2, <3>3 DEF Place, Others
    <3> QED
      BY <2>1, <3>2, <3>3, <3>4, <3>5, SMTT(30) DEF FilesOK
  <2> QED
    BY <1>5, <2>3, <2>4, <2>5 DEF Task
<1> QED
  BY <1>1, <1>2, <1>3, <1>4, <1>5 DEF Next, MainThread

---------------------------------------------------------------------------
(* No version of a file is lost *)

(* The content that PatchDiff writes for a modified file is the new one,   *)
(* and it was made from the old one.                                       *)
LEMMA PatchedIsNew ==
  ASSUME Typed, NEW c \in Chunk, NEW e \in Mod(c), Unchecked => isOld(c, e),
         NEW v \in PatchedContents(c, e)
  PROVE  isOld(c, e) /\ v = rel[c].new[e]
<1>1. isPatchData(c, e) /\ (~Unchecked => checksOld(c, e))
  BY ModifyFacts, ManagerAssumption DEF Unchecked, checksOld, Typed
<1>2. isOld(c, e)
  <2>1. CASE Unchecked
    BY <2>1
  <2>2. CASE ~Unchecked
    BY <1>1, <2>2 DEF PatchedContents, isOld
  <2> QED
    BY <2>1, <2>2
<1> QED
  BY <1>1, <1>2 DEF PatchedContents, isOld

(* Each step of the task of a modified chunk. *)
LEMMA ApplyFiles ==
  ASSUME Typed, NEW c \in Chunk, Place(c), PhaseInv(c), ApplyStep(c), UNCHANGED <<rel, mode, manifest>>
  PROVE  PhaseInv(c)'
<1>0. /\ Mod(c)' = Mod(c) /\ Ops(c)' = Ops(c) /\ seqOf(Outputs(c))' = seqOf(Outputs(c))
      /\ Unchecked' = Unchecked
  BY SamePatch
<1>1. /\ Mod(c) \subseteq Ext /\ c \in applyTasks
      /\ \A e \in Mod(c) : rel[c].old[e] = 1 /\ rel[c].new[e] = 2
  <2>1. tpc[c] # "end"
    BY DEF ApplyStep, LoadPatch, PatchDiff, CleanNew, Preflight, MoveToBak, MoveFromNew, Commit, UndoNew,
       UndoBak
  <2> QED
    BY <2>1, ModifyFacts, SMTT(30) DEF Place, Mod
<1>2. /\ res \in ResType /\ TaskTyped /\ TaskTyped' /\ Place(c)'
  BY ApplyFrame DEF Typed, TaskTyped
<1>3. /\ Len(Ops(c)) \in Nat /\ Len(Ops(c)) >= 1
      /\ \A i \in 1..Len(Ops(c)) : Ops(c)[i] \in Mod(c)
      /\ \A e \in Mod(c) : \E i \in 1..Len(Ops(c)) : Ops(c)[i] = e
      /\ \A i, j \in 1..Len(Ops(c)) : Ops(c)[i] = Ops(c)[j] => i = j
  BY <1>1, OpsFacts
<1>4. \A ok \in BOOLEAN : Return(c, ok) => tpc'[c] = "end" /\ TaskResults'[c] = ok
  BY <1>2 DEF Return, Goto, TaskTyped
<1>5. \A l : Goto(c, l) => tpc'[c] = l
  BY <1>2 DEF Goto, TaskTyped
<1>6. /\ \A e \in Mod(c) : Safe(c, e)
      /\ Stay /\ tpc[c] # "end" => ~TaskResults'[c]
  BY DEF PhaseInv, Stay, Place
<1>7. \A e \in Mod(c) : /\ res'[c][e].file = res[c][e].file
                        /\ res'[c][e].bak = res[c][e].bak \/ res[c][e].file \in {1, 2}
                        => Safe(c, e)'
  BY <1>1, <1>6, SMTT(30) DEF Safe
<1>8. ASSUME tpc'[c] \in {"clean", "end"}, ~TaskResults'[c], \A e \in Mod(c) : Safe(c, e)'
      PROVE  PhaseInv(c)'
  BY <1>0, <1>8 DEF PhaseInv
<1>10. CASE LoadPatch(c)
  <2>1. UNCHANGED <<res, at, toBak, fromNew>> /\ tpc[c] = "load" /\ at[c] = 1
    BY <1>10 DEF LoadPatch, Place
  <2>2. \A e \in Mod(c) : Safe(c, e)'
    BY <1>7, <2>1
  <2>3. CASE Goto(c, "patch") /\ Stay
    <3>1. Unchecked => AllOld(c)'
      BY <1>0, <2>1 DEF PhaseInv, AllOld, isOld
    <3> QED
      BY <1>0, <1>5, <1>6, <2>1, <2>2, <2>3, <3>1 DEF PhaseInv
  <2>4. CASE Return(c, FALSE)
    BY <1>4, <1>8, <2>2, <2>4
  <2> QED
    BY <1>10, <2>3, <2>4 DEF LoadPatch
<1>11. CASE PatchDiff(c)
  <2> DEFINE files == seqOf(Outputs(c))
             e == files[at[c]]
             last == at[c] = Len(files)
             Fresh(f) == res'[c][f].file = rel[c].old[f] /\ res'[c][f].new = rel[c].new[f]
  <2>1. /\ UNCHANGED <<toBak, fromNew>> /\ Stay /\ tpc[c] = "patch" /\ at[c] \in 1..Len(files)
        /\ ~TaskResults'[c]
    BY <1>6, <1>11 DEF PatchDiff, Place
  <2>2. /\ Len(files) \in Nat /\ e \in Ext
        /\ \A f \in Mod(c) : \E i \in 1..Len(files) : files[i] = f
        /\ \A i, j \in 1..Len(files) : files[i] = files[j] => i = j
        /\ \A i \in 1..Len(files) : files[i] \in Ext
    BY <2>1, OutputFacts
  <2>3. PatchedContents(c, e) \subseteq 0..Bad /\ Bad \in 0..Bad
    BY <2>2 DEF PatchedContents, Bad, Typed, ChunkRelease
  <2>4. ASSUME NEW v \in 0..Bad, Put(c, e, "new", v)
        PROVE  /\ res'[c][e].new = v
               /\ \A f \in Ext : res'[c][f].file = res[c][f].file /\ res'[c][f].bak = res[c][f].bak
               /\ \A f \in Ext \ {e} : res'[c][f] = res[c][f]
               /\ \A f \in Mod(c) : Safe(c, f)'
    <3>1. /\ res'[c][e]["new"] = v
          /\ \A x \in Suffix \ {"new"} : res'[c][e][x] = res[c][e][x]
          /\ \A f \in Ext \ {e} : res'[c][f] = res[c][f]
      BY <1>2, <2>2, <2>4, PutEffect DEF Suffix
    <3>2. \A f \in Ext : res'[c][f].file = res[c][f].file /\ res'[c][f].bak = res[c][f].bak
      BY <3>1 DEF Suffix
    <3> QED
      BY <1>1, <1>7, <3>1, <3>2
  <2>5. CASE Goto(c, "clean") /\ UNCHANGED res
    BY <1>5, <1>7, <1>8, <2>1, <2>5
  <2>6. CASE Goto(c, "clean") /\ \E v \in 0..Bad : Put(c, e, "new", v)
    BY <1>5, <1>8, <2>1, <2>4, <2>6
  <2>7. ASSUME NEW v \in PatchedContents(c, e), Put(c, e, "new", v),
               Goto(c, IF last THEN "preflight" ELSE "patch"),
               at' = [at EXCEPT ![c] = IF last THEN 1 ELSE @ + 1]
        PROVE  PhaseInv(c)'
    <3>1. e \in Mod(c) => isOld(c, e) /\ v = rel[c].new[e]
      BY <2>1, PatchedIsNew DEF PhaseInv, AllOld
    <3>2. /\ res'[c][e].new = v
          /\ \A f \in Ext : res'[c][f].file = res[c][f].file /\ res'[c][f].bak = res[c][f].bak
          /\ \A f \in Ext \ {e} : res'[c][f] = res[c][f]
          /\ \A f \in Mod(c) : Safe(c, f)'
      BY <2>3, <2>4, <2>7
    <3>3. at'[c] = (IF last THEN 1 ELSE at[c] + 1)
      BY <1>2, <2>7 DEF TaskTyped
    <3>4. \A i \in 1..at[c] : files[i] \in Mod(c) => Fresh(files[i])
      <4> SUFFICES ASSUME NEW i \in 1..at[c], files[i] \in Mod(c) PROVE Fresh(files[i])
        OBVIOUS
      <4>1. CASE i = at[c]
        BY <2>2, <3>1, <3>2, <4>1 DEF isOld
      <4>2. CASE i # at[c]
        <5>1. i \in 1..(at[c] - 1) /\ i \in 1..Len(files) /\ files[i] # e /\ files[i] \in Ext
          BY <2>1, <2>2, <4>2
        <5>2. Ready(c, files[i])
          BY <2>1, <5>1 DEF PhaseInv
        <5> HIDE DEF files
        <5> QED
          BY <3>2, <5>1, <5>2 DEF Ready, isOld
      <4> QED
        BY <4>1, <4>2
    <3>5. AllOld(c) => AllOld(c)'
      BY <1>0, <1>1, <3>2 DEF AllOld, isOld
    <3>6. CASE last
      <4>1. \A f \in Mod(c) : Ready(c, f)'
        <5>1. \A f \in Mod(c) : Fresh(f)
          <6> HIDE DEF Fresh, files
          <6> QED
            BY <2>1, <2>2, <3>4, <3>6
        <5> QED
          BY <5>1 DEF Ready, isOld
      <4>2. tpc'[c] = "preflight"
        BY <1>5, <2>7, <3>6
      <4> QED
        BY <1>0, <2>1, <3>2, <4>1, <4>2 DEF PhaseInv
    <3>7. CASE ~last
      <4>1. \A i \in 1..(at'[c] - 1) : files[i] \in Mod(c) => Fresh(files[i])
        <5>1. at'[c] - 1 = at[c]
          BY <2>1, <2>2, <3>3, <3>7
        <5> QED
          BY <3>4, <5>1
      <4>2. tpc'[c] = "patch"
        BY <1>5, <2>7, <3>7
      <4>3. Unchecked => AllOld(c)
        BY <2>1 DEF PhaseInv
      <4> QED
        BY <1>0, <2>1, <3>2, <3>5, <4>1, <4>2, <4>3 DEF PhaseInv, Ready, isOld
    <3> QED
      BY <3>6, <3>7
  <2> QED
    BY <1>11, <2>3, <2>5, <2>6, <2>7 DEF PatchDiff
<1>12. CASE CleanNew(c)
  <2>1. PICK kept : res' = [res EXCEPT ![c] = [e \in Ext |->
              IF e \in validFiles(c) \ kept THEN [res[c][e] EXCEPT !.new = 0] ELSE res[c][e]]]
    BY <1>12 DEF CleanNew
  <2>2. \A e \in Ext : \A x \in Suffix \ {"new"} : res'[c][e][x] = res[c][e][x]
    BY <1>2, <2>1, ClearEffect, ZenonT(60) DEF Suffix
  <2>3. \A e \in Mod(c) : Safe(c, e)'
    BY <1>1, <1>7, <2>2 DEF Suffix
  <2> QED
    BY <1>4, <1>8, <1>12, <2>3 DEF CleanNew
<1>13. CASE Preflight(c)
  <2>1. PICK S : res' = [res EXCEPT ![c] = [e \in Ext |->
                   IF e \in S THEN [res[c][e] EXCEPT !.bak = 0] ELSE res[c][e]]]
    BY <1>13 DEF Preflight
  <2>2. \A e \in Ext : \A x \in Suffix \ {"bak"} : res'[c][e][x] = res[c][e][x]
    BY <1>2, <2>1, ClearEffect DEF Suffix
  <2>3. \A e \in Mod(c) : /\ res'[c][e].file = res[c][e].file /\ res'[c][e].new = res[c][e].new
                          /\ res[c][e].file = 1 /\ Ready(c, e)
    BY <1>1, <1>13, <2>2 DEF Preflight, PhaseInv, Ready, isOld, Suffix
  <2>4. \A e \in Mod(c) : Safe(c, e)' /\ Ready(c, e)'
    BY <1>7, <2>3 DEF Ready, isOld
  <2>5. /\ UNCHANGED <<at, toBak, fromNew>> /\ at[c] = 1 /\ toBak[c] = {} /\ fromNew[c] = {}
    BY <1>13 DEF Preflight, Place
  <2>6. CASE Goto(c, "toBak") /\ Stay
    <3>1. tpc'[c] = "toBak" /\ ~TaskResults'[c]
      BY <1>5, <1>6, <1>13, <2>6 DEF Preflight
    <3> QED
      BY <1>0, <1>3, <2>4, <2>5, <3>1 DEF PhaseInv
  <2>7. CASE Return(c, FALSE)
    BY <1>4, <1>8, <2>4, <2>7
  <2> QED
    BY <1>13, <2>6, <2>7 DEF Preflight
<1>14. ASSUME RollBack(c), Stay, tpc[c] # "end",
              fromNew[c] \subseteq toBak[c],
              \A i \in 1..Len(Ops(c)) : Ops(c)[i] \in toBak[c] => res[c][Ops(c)[i]].bak = rel[c].old[Ops(c)[i]]
       PROVE  PhaseInv(c)'
  <2>1. /\ tpc'[c] = "undoNew" /\ ~TaskResults'[c] /\ at'[c] = Len(Ops(c))
        /\ UNCHANGED <<res, toBak, fromNew>>
    BY <1>2, <1>5, <1>6, <1>14 DEF RollBack, TaskTyped
  <2>2. \A e \in Mod(c) : Safe(c, e)'
    BY <1>7, <2>1
  <2> QED
    BY <1>0, <1>14, <2>1, <2>2 DEF PhaseInv
<1>15. CASE MoveToBak(c)
  <2>1. /\ tpc[c] = "toBak" /\ Stay /\ at[c] \in 1..Len(Ops(c)) /\ ~TaskResults'[c]
        /\ op(c) \in Mod(c) /\ op(c) = Ops(c)[at[c]]
    BY <1>3, <1>6, <1>15 DEF MoveToBak, Place, op
  <2>2. /\ \A i \in 1..Len(Ops(c)) : Ops(c)[i] \in fromNew[c] <=> i < at[c]
        /\ \A e \in Mod(c) : e \in fromNew[c] => Replaced(c, e)
        /\ toBak[c] = fromNew[c]
        /\ \A e \in Mod(c) \ fromNew[c] : Ready(c, e)
    BY <2>1 DEF PhaseInv
  <2>3. op(c) \notin fromNew[c] /\ Ready(c, op(c)) /\ res[c][op(c)].file = 1
    BY <1>1, <2>1, <2>2 DEF Ready, isOld
  <2>4. CASE RollBack(c)
    BY <1>3, <1>14, <2>1, <2>2, <2>4 DEF Replaced
  <2>5. CASE /\ Move(c, op(c), "bak", "file") /\ toBak' = [toBak EXCEPT ![c] = @ \cup {op(c)}]
             /\ Goto(c, "fromNew") /\ UNCHANGED <<at, fromNew>>
    <3>9. PICK o : o = op(c)
      OBVIOUS
    <3>0. o \in Ext /\ o \in Mod(c) /\ op(c)' = o
      BY <1>0, <1>1, <2>1, <2>5, <3>9 DEF op
    <3>1. /\ tpc'[c] = "fromNew" /\ toBak'[c] = fromNew'[c] \union {o} /\ at'[c] = at[c]
          /\ fromNew'[c] = fromNew[c]
      BY <1>2, <1>5, <2>2, <2>5, <3>9 DEF TaskTyped
    <3>2. /\ res'[c][o]["bak"] = res[c][o]["file"]
          /\ res'[c][o]["new"] = res[c][o]["new"]
          /\ \A f \in Ext \ {o} : res'[c][f] = res[c][f]
      <4>1. Move(c, o, "bak", "file")
        BY <2>5, <3>9
      <4> QED
        BY <1>2, <3>0, <4>1, MoveEffect DEF Suffix
    <3>3. res'[c][o].bak = rel[c].old[o] /\ res'[c][o].new = rel[c].new[o]
      BY <2>3, <3>2, <3>9 DEF Ready, isOld
    <3>4. \A e \in Mod(c) : Safe(c, e)'
      <4>1. Safe(c, o)'
        BY <3>3 DEF Safe
      <4>2. \A e \in Mod(c) \ {o} : Safe(c, e)'
        BY <1>1, <1>7, <3>2
      <4> QED
        BY <4>1, <4>2
    <3>5. /\ \A e \in Mod(c) : e \in fromNew'[c] => Replaced(c, e)'
          /\ \A e \in Mod(c) \ toBak'[c] : Ready(c, e)'
      <4>1. o \notin fromNew[c]
        BY <2>3, <3>9
      <4> QED
        BY <1>1, <2>2, <3>1, <3>2, <4>1 DEF Ready, Replaced, isOld, isNew
    <3>6. \A i \in 1..Len(Ops(c)) : Ops(c)[i] \in fromNew'[c] <=> i < at'[c]
      BY <2>2, <3>1
    <3>7. /\ toBak'[c] = fromNew'[c] \union {op(c)'}
          /\ (res[c][op(c)].new)' = (rel[c].new[op(c)])' /\ (res[c][op(c)].bak)' = (rel[c].old[op(c)])'
      BY <3>0, <3>1, <3>3
    <3> QED
      BY <1>0, <2>1, <3>1, <3>4, <3>5, <3>6, <3>7 DEF PhaseInv
  <2> QED
    BY <1>15, <2>3, <2>4, <2>5 DEF MoveToBak
<1>16. CASE MoveFromNew(c)
  <2>1. /\ tpc[c] = "fromNew" /\ Stay /\ at[c] \in 1..Len(Ops(c)) /\ ~TaskResults'[c]
        /\ op(c) \in Mod(c) /\ op(c) = Ops(c)[at[c]]
    BY <1>3, <1>6, <1>16 DEF MoveFromNew, Place, op
  <2>2. /\ \A i \in 1..Len(Ops(c)) : Ops(c)[i] \in fromNew[c] <=> i < at[c]
        /\ \A e \in Mod(c) : e \in fromNew[c] => Replaced(c, e)
        /\ toBak[c] = fromNew[c] \union {op(c)}
        /\ res[c][op(c)].new = rel[c].new[op(c)] /\ res[c][op(c)].bak = rel[c].old[op(c)]
        /\ \A e \in Mod(c) \ toBak[c] : Ready(c, e)
    BY <2>1 DEF PhaseInv
  <2>3. CASE RollBack(c)
    BY <1>3, <1>14, <2>1, <2>2, <2>3 DEF Replaced
  <2>4. CASE /\ Move(c, op(c), "file", "new") /\ fromNew' = [fromNew EXCEPT ![c] = @ \cup {op(c)}]
             /\ at' = [at EXCEPT ![c] = @ + 1]
             /\ Goto(c, IF at[c] = Len(Ops(c)) THEN "commit" ELSE "toBak")
             /\ UNCHANGED toBak
    <3>9. PICK o : o = op(c)
      OBVIOUS
    <3>0. o \in Ext /\ o \in Mod(c) /\ o = Ops(c)[at[c]]
      BY <1>1, <2>1, <3>9
    <3>1. /\ toBak'[c] = toBak[c] /\ fromNew'[c] = toBak[c] /\ at'[c] = at[c] + 1
          /\ toBak[c] = fromNew[c] \union {o} /\ at[c] \in Nat
      BY <1>2, <2>2, <2>4, <3>9 DEF TaskTyped
    <3>2. /\ res'[c][o]["file"] = res[c][o]["new"]
          /\ res'[c][o]["bak"] = res[c][o]["bak"]
          /\ \A f \in Ext \ {o} : res'[c][f] = res[c][f]
      <4>1. Move(c, o, "file", "new")
        BY <2>4, <3>9
      <4> QED
        BY <1>2, <3>0, <4>1, MoveEffect DEF Suffix
    <3>3. res'[c][o].bak = rel[c].old[o] /\ res'[c][o].file = rel[c].new[o]
      BY <2>2, <3>2, <3>9
    <3>4. \A i \in 1..Len(Ops(c)) : Ops(c)[i] \in fromNew'[c] <=> i < at'[c]
      BY <1>3, <2>1, <2>2, <3>1, <3>9
    <3>5. \A e \in Mod(c) : Safe(c, e)'
      <4>1. Safe(c, o)'
        BY <3>3 DEF Safe
      <4>2. \A e \in Mod(c) \ {o} : Safe(c, e)'
        BY <1>1, <1>7, <3>2
      <4> QED
        BY <4>1, <4>2
    <3>6. /\ \A e \in Mod(c) : e \in fromNew'[c] => Replaced(c, e)'
          /\ \A e \in Mod(c) \ fromNew'[c] : Ready(c, e)'
      <4>1. Replaced(c, o)'
        BY <3>3 DEF Replaced, isNew
      <4>2. \A e \in Mod(c) \ {o} : (Replaced(c, e) => Replaced(c, e)') /\ (Ready(c, e) => Ready(c, e)')
        BY <1>1, <3>2 DEF Ready, Replaced, isOld, isNew
      <4> QED
        BY <2>2, <3>1, <4>1, <4>2
    <3>7. CASE at[c] = Len(Ops(c))
      <4>1. tpc'[c] = "commit"
        BY <1>5, <2>4, <3>7
      <4>2. \A e \in Mod(c) : e \in fromNew'[c]
        BY <1>3, <3>1, <3>4, <3>7
      <4>3. AllNew(c)'
        BY <1>0, <3>6, <4>2 DEF AllNew, Replaced
      <4> QED
        BY <1>0, <2>1, <3>5, <4>1, <4>3 DEF PhaseInv
    <3>8. CASE at[c] # Len(Ops(c))
      <4>1. tpc'[c] = "toBak"
        BY <1>5, <2>4, <3>8
      <4>2. toBak'[c] = fromNew'[c]
        BY <3>1
      <4> QED
        BY <1>0, <2>1, <3>4, <3>5, <3>6, <4>1, <4>2 DEF PhaseInv
    <3> QED
      BY <3>7, <3>8
  <2> QED
    BY <1>16, <2>3, <2>4 DEF MoveFromNew
<1>17. CASE Commit(c)
  <2>1. PICK S : res' = [res EXCEPT ![c] = [e \in Ext |->
                   IF e \in S THEN [res[c][e] EXCEPT !.bak = 0] ELSE res[c][e]]]
    BY <1>17 DEF Commit
  <2>2. \A e \in Ext : \A x \in Suffix \ {"bak"} : res'[c][e][x] = res[c][e][x]
    BY <1>2, <2>1, ClearEffect DEF Suffix
  <2>3. \A e \in Mod(c) : res'[c][e].file = res[c][e].file /\ res[c][e].file = 2
    BY <1>1, <1>17, <2>2 DEF Commit, PhaseInv, AllNew, isNew, Suffix
  <2>4. (\A e \in Mod(c) : Safe(c, e)') /\ AllNew(c)'
    BY <1>0, <1>1, <1>7, <2>3 DEF AllNew, isNew
  <2>5. tpc'[c] = "end"
    BY <1>4, <1>17 DEF Commit
  <2> QED
    BY <1>0, <2>4, <2>5 DEF PhaseInv
<1>18. CASE UndoNew(c)
  <2>1. /\ tpc[c] = "undoNew" /\ Stay /\ at[c] \in 1..Len(Ops(c)) /\ ~TaskResults'[c]
        /\ op(c) \in Mod(c) /\ op(c) = Ops(c)[at[c]]
        /\ UNCHANGED <<at, toBak, fromNew>> /\ tpc'[c] = "undoBak"
    BY <1>3, <1>5, <1>6, <1>18 DEF UndoNew, Place, op
  <2>2. /\ fromNew[c] \subseteq toBak[c]
        /\ \A i \in 1..at[c] :
             Ops(c)[i] \in toBak[c] => res[c][Ops(c)[i]].bak = rel[c].old[Ops(c)[i]]
    BY <2>1 DEF PhaseInv
  <2>3. CASE UNCHANGED res
    BY <1>0, <1>7, <2>1, <2>2, <2>3 DEF PhaseInv
  <2>4. CASE op(c) \in fromNew[c] /\ Move(c, op(c), "new", "file")
    <3>9. PICK o : o = op(c)
      OBVIOUS
    <3>0. o \in Ext /\ o \in Mod(c)
      BY <1>1, <2>1, <3>9
    <3>1. res[c][o].bak = rel[c].old[o]
      BY <2>1, <2>2, <2>4, <3>9
    <3>2. /\ res'[c][o]["bak"] = res[c][o]["bak"]
          /\ \A f \in Ext \ {o} : res'[c][f] = res[c][f]
      <4>1. Move(c, o, "new", "file")
        BY <2>4, <3>9
      <4> QED
        BY <1>2, <3>0, <4>1, MoveEffect DEF Suffix
    <3>3. \A e \in Mod(c) : Safe(c, e)'
      <4>1. Safe(c, o)'
        BY <3>1, <3>2 DEF Safe
      <4>2. \A e \in Mod(c) \ {o} : Safe(c, e)'
        BY <1>1, <1>7, <3>2
      <4> QED
        BY <4>1, <4>2
    <3>4. \A e \in Ext : res'[c][e].bak = res[c][e].bak
      BY <3>2
    <3>5. \A i \in 1..at[c] :
             Ops(c)[i] \in toBak[c] => res'[c][Ops(c)[i]].bak = rel[c].old[Ops(c)[i]]
      BY <1>1, <1>3, <2>1, <2>2, <3>4, SMTT(30)
    <3> QED
      BY <1>0, <2>1, <2>2, <3>3, <3>5 DEF PhaseInv
  <2> QED
    BY <1>18, <2>3, <2>4 DEF UndoNew
<1>19. CASE UndoBak(c)
  <2>1. /\ tpc[c] = "undoBak" /\ at[c] \in 1..Len(Ops(c))
        /\ op(c) \in Mod(c) /\ op(c) = Ops(c)[at[c]]
        /\ UNCHANGED <<toBak, fromNew>> /\ at'[c] = at[c] - 1
    BY <1>2, <1>3, <1>19 DEF UndoBak, Place, op, TaskTyped
  <2>2. /\ fromNew[c] \subseteq toBak[c]
        /\ \A i \in 1..at[c] :
             Ops(c)[i] \in toBak[c] => res[c][Ops(c)[i]].bak = rel[c].old[Ops(c)[i]]
    BY <2>1 DEF PhaseInv
  <2>9. PICK o : o = op(c)
    OBVIOUS
  <2>3. \/ UNCHANGED res
        \/ /\ o \in toBak[c] /\ res'[c][o]["file"] = res[c][o]["bak"]
           /\ \A f \in Ext \ {o} : res'[c][f] = res[c][f]
    <3>1. CASE UNCHANGED res
      BY <3>1
    <3>2. CASE op(c) \in toBak[c] /\ Move(c, op(c), "file", "bak")
      <4>1. o \in Ext /\ Move(c, o, "file", "bak") /\ o \in toBak[c]
        BY <1>1, <2>1, <2>9, <3>2
      <4> QED
        BY <1>2, <4>1, MoveEffect DEF Suffix
    <3> QED
      BY <1>19, <3>1, <3>2 DEF UndoBak
  <2>4. /\ o \in Mod(c) /\ (o \in toBak[c] => res[c][o].bak = rel[c].old[o])
        /\ \A i \in 1..(at[c] - 1) : Ops(c)[i] # o /\ Ops(c)[i] \in Ext /\ i \in 1..at[c]
    <3>1. o = Ops(c)[at[c]] /\ o \in Mod(c) /\ at[c] \in 1..at[c]
      BY <1>3, <2>1, <2>9
    <3>2. \A i \in 1..(at[c] - 1) : i \in 1..Len(Ops(c)) /\ i # at[c] /\ i \in 1..at[c]
      BY <1>3, <2>1
    <3> QED
      BY <1>1, <1>3, <2>1, <2>2, <3>1, <3>2
  <2>5. \A e \in Mod(c) : Safe(c, e)'
    <3>1. CASE UNCHANGED res
      BY <1>7, <3>1
    <3>2. CASE ~UNCHANGED res
      <4>1. Safe(c, o)'
        BY <2>3, <2>4, <3>2 DEF Safe
      <4>2. \A e \in Mod(c) \ {o} : Safe(c, e)'
        BY <1>1, <1>7, <2>3, <3>2
      <4> QED
        BY <4>1, <4>2
    <3> QED
      BY <3>1, <3>2
  <2>6. \A i \in 1..(at[c] - 1) :
             Ops(c)[i] \in toBak[c] => res'[c][Ops(c)[i]].bak = rel[c].old[Ops(c)[i]]
    BY <2>2, <2>3, <2>4
  <2>7. CASE at[c] = 1
    BY <1>4, <1>8, <1>19, <2>5, <2>7 DEF UndoBak
  <2>8. CASE at[c] # 1
    <3>1. tpc'[c] = "undoNew" /\ ~TaskResults'[c]
      BY <1>5, <1>6, <1>19, <2>1, <2>8 DEF UndoBak
    <3> QED
      BY <1>0, <2>1, <2>2, <2>5, <2>6, <3>1 DEF PhaseInv
  <2> QED
    BY <2>7, <2>8
<1> QED
  BY <1>10, <1>11, <1>12, <1>13, <1>15, <1>16, <1>17, <1>18, <1>19 DEF ApplyStep

(* Every step keeps what the directory holds of a modified file. *)
LEMMA NextFileInv == ASSUME FilesOK, FileInv, [Next]_vars PROVE FileInv'
<1>0. Typed
  BY DEF FilesOK
<1> SUFFICES ASSUME firstOrChecked', NEW c \in Chunk, ~rel'[c].renamed, mpc' \in {"idle", "applyRun"}
             PROVE  /\ \A e \in Mod(c)' : Safe(c, e)'
                    /\ mpc' = "applyRun" /\ c \in applyTasks' => PhaseInv(c)'
  BY DEF FileInv
<1>1. /\ UNCHANGED <<rel, mode>> /\ calls' \in {calls, calls + 1} /\ (calls' # calls => ApplyRefused \/ ApplyLoop)
  <2>1. UNCHANGED envVars
    <3>1. ASSUME NEW d \in Chunk, Task(d) PROVE UNCHANGED envVars
      BY <3>1 DEF Task
    <3> QED
      BY <3>1 DEF Next, MainThread, CreateLoadFails, CreateCollect, CreateSum, ApplySum, Submitter,
         ApplyRefused, ApplyLoop, Crash, vars, envVars
  <2>2. calls' = calls \/ (calls' = calls + 1 /\ (ApplyRefused \/ ApplyLoop))
    <3>1. ASSUME NEW d \in Chunk, Task(d) PROVE calls' = calls
      BY <3>1 DEF Task
    <3> QED
      BY <3>1 DEF Next, MainThread, CreateLoadFails, CreateCollect, CreateSum, ApplySum, Submitter,
         ApplyRefused, ApplyLoop, Crash, vars, boundVars
  <2> QED
    BY <2>1, <2>2 DEF envVars
<1>2. /\ ~rel[c].renamed /\ Unchecked' = Unchecked /\ firstOrChecked
  BY <1>0, <1>1 DEF firstOrChecked, Unchecked, Typed
<1>3. /\ mpc \in {"idle", "applyRun"} => \A e \in Mod(c) : Safe(c, e)
      /\ mpc = "applyRun" /\ c \in applyTasks => PhaseInv(c)
  BY <1>2 DEF FileInv
<1>4. CASE CreateCollect \/ CreateLoadFails
  BY <1>4 DEF CreateCollect, CreateLoadFails
<1>5. CASE CreateSum
  <2>1. mpc = "createRun" /\ mpc' \in {"idle", "stop"} /\ UNCHANGED res
    BY <1>5 DEF CreateSum
  <2>2. \A e \in Ext : isOld(c, e)
    BY <1>2, <2>1 DEF FilesOK
  <2>3. \A e \in Ext : Safe(c, e)'
    BY <1>1, <2>1, <2>2 DEF Safe, isOld
  <2> QED
    BY <2>1, <2>3 DEF Mod
<1>6. CASE ApplyRefused \/ ApplySum \/ Submitter \/ UNCHANGED vars
  <2>1. /\ UNCHANGED <<manifest, res, taskVars>> /\ mpc \in {"idle", "applyRun"}
        /\ mpc' = "applyRun" => mpc = "applyRun"
    BY <1>6 DEF ApplyRefused, ApplySum, Submitter, vars, patchVars
  <2>2. /\ Mod(c)' = Mod(c) /\ applyTasks' = applyTasks /\ Ops(c)' = Ops(c)
        /\ seqOf(Outputs(c))' = seqOf(Outputs(c))
    BY <1>1, <2>1, SamePatch
  <2>3. \A e \in Mod(c) : Safe(c, e)'
    BY <1>1, <1>3, <2>1, SMTT(30) DEF Safe
  <2>4. ASSUME mpc' = "applyRun", c \in applyTasks PROVE PhaseInv(c)'
    <3>1. PhaseInv(c) /\ UNCHANGED <<TaskResults, tpc, at, toBak, fromNew>> /\ op(c)' = op(c)
      BY <1>3, <2>1, <2>2, <2>4 DEF taskVars, op
    <3> QED
      BY <1>1, <1>2, <2>1, <2>2, <3>1, SMTT(60) DEF PhaseInv, AllOld, AllNew, Ready, Replaced, isOld, isNew, Safe
  <2> QED
    BY <2>2, <2>3, <2>4
<1>7. CASE ApplyLoop
  <2>1. /\ UNCHANGED <<manifest, patchFiles>> /\ mpc = "idle" /\ calls' = calls + 1
        /\ TaskResults' = [d \in Chunk |-> FALSE]
        /\ tpc' = [d \in Chunk |-> IF d \in applyTasks THEN "load" ELSE "end"]
    BY <1>7 DEF ApplyLoop, patchVars
  <2>2. Mod(c)' = Mod(c) /\ applyTasks' = applyTasks /\ Mod(c) \subseteq Ext
    BY <1>1, <2>1, SamePatch DEF Mod
  <2>3. c \in applyTasks => \A e \in Ext : res'[c][e].file = res[c][e].file /\ res'[c][e].bak = res[c][e].bak
    BY <1>0, <1>7, LoopEffect
  <2>4. Mod(c) # {} => c \in applyTasks
    BY <1>0, ModifyFacts
  <2>5. \A e \in Mod(c) : Safe(c, e)'
    BY <1>1, <1>3, <2>1, <2>2, <2>3, <2>4, SMTT(30) DEF Safe
  <2>6. ASSUME c \in applyTasks PROVE PhaseInv(c)'
    <3>1. tpc'[c] = "load" /\ ~TaskResults'[c]
      BY <2>1, <2>6
    <3>2. Unchecked => AllOld(c)'
      <4> SUFFICES ASSUME Unchecked PROVE AllOld(c)'
        OBVIOUS
      <4>1. calls = 0
        BY <1>0, <1>2, <2>1 DEF firstOrChecked, Typed
      <4>2. \A e \in Ext : isOld(c, e)
        BY <1>2, <4>1 DEF FilesOK
      <4> QED
        BY <1>1, <2>2, <2>3, <2>6, <4>2 DEF AllOld, isOld
    <3> QED
      BY <1>2, <2>2, <2>5, <3>1, <3>2 DEF PhaseInv
  <2> QED
    BY <2>2, <2>5, <2>6
<1>8. CASE Crash
  <2>1. UNCHANGED manifest /\ mpc = "applyRun" /\ mpc' = "idle"
    BY <1>8 DEF Crash, patchVars
  <2>2. Mod(c)' = Mod(c) /\ Mod(c) \subseteq Ext
    BY <1>1, <2>1, SamePatch DEF Mod
  <2>3. \A e \in Ext : res'[c][e].file = res[c][e].file /\ res'[c][e].bak = res[c][e].bak
    BY <1>0, <1>8, CrashEffect
  <2> QED
    BY <1>1, <1>3, <2>1, <2>2, <2>3 DEF Safe
<1>9. ASSUME NEW d \in Chunk, Task(d)
      PROVE  /\ \A e \in Mod(c)' : Safe(c, e)'
             /\ mpc' = "applyRun" /\ c \in applyTasks' => PhaseInv(c)'
  <2>1. UNCHANGED <<mpc, manifest>> /\ mpc = "applyRun"
    BY <1>9 DEF Task, patchVars, CreateDiff, running
  <2>2. /\ Mod(c)' = Mod(c) /\ applyTasks' = applyTasks /\ Ops(c)' = Ops(c)
        /\ seqOf(Outputs(c))' = seqOf(Outputs(c)) /\ Mod(c) \subseteq Ext
    BY <1>1, <2>1, SamePatch DEF Mod
  <2>3. Place(d) /\ Place(c)
    BY <2>1 DEF FilesOK
  <2>4. CASE ApplyStep(c) /\ d = c
    <3>1. tpc[c] # "end"
      BY <2>4 DEF ApplyStep, LoadPatch, PatchDiff, CleanNew, Preflight, MoveToBak, MoveFromNew, Commit,
         UndoNew, UndoBak
    <3>2. PhaseInv(c)
      BY <1>3, <2>1, <2>3, <3>1 DEF Place
    <3>3. PhaseInv(c)'
      BY <1>0, <1>1, <2>1, <2>3, <2>4, <3>2, ApplyFiles
    <3> QED
      BY <3>3, SMTT(30) DEF PhaseInv
  <2>5. CASE ~(ApplyStep(c) /\ d = c)
    <3>1. /\ res'[c] = res[c] /\ tpc'[c] = tpc[c] /\ at'[c] = at[c]
          /\ toBak'[c] = toBak[c] /\ fromNew'[c] = fromNew[c] /\ TaskResults'[c] = TaskResults[c]
      <4>1. CASE UNCHANGED <<res, taskVars>>
        BY <4>1 DEF taskVars
      <4>2. CASE CreateDiff(d)
        BY <2>1, <2>3, <4>2 DEF CreateDiff, Place
      <4>3. CASE ApplyStep(d)
        <5>1. d # c /\ Others(d)
          BY <1>0, <1>1, <2>1, <2>3, <2>5, <4>3, ApplyFrame
        <5> QED
          BY <5>1 DEF Others
      <4> QED
        BY <1>9, <4>1, <4>2, <4>3 DEF Task
    <3>2. \A e \in Mod(c) : Safe(c, e)'
      BY <1>1, <1>3, <2>1, <3>1, SMTT(30) DEF Safe
    <3>3. ASSUME c \in applyTasks PROVE PhaseInv(c)'
      <4>1. PhaseInv(c) /\ op(c)' = op(c)
        BY <1>3, <2>1, <2>2, <3>1, <3>3 DEF op
      <4> QED
        BY <1>1, <1>2, <2>1, <2>2, <3>1, <4>1, SMTT(60) DEF PhaseInv, AllOld, AllNew, Ready, Replaced, isOld, isNew, Safe
    <3> QED
      BY <2>2, <3>2, <3>3
  <2> QED
    BY <2>4, <2>5
<1> QED
  BY <1>4, <1>5, <1>6, <1>7, <1>8, <1>9 DEF Next, MainThread

(* Whatever fails and whenever the process dies, of every file that a      *)
(* patch modifies the old or the new content is in the directory, under    *)
(* its name, as .bak or as .new: for any releases and any number of        *)
(* faults, crashes and calls.                                              *)
THEOREM VersionsAreKept == Spec => []NoVersionLost
<1>1. Init => FilesOK /\ FileInv
  BY InitFiles DEF FileInv, Init
<1>2. FilesOK /\ FileInv /\ [Next]_vars => FilesOK' /\ FileInv'
  BY NextFiles, NextFileInv, SMTT(30)
<1>3. FileInv => NoVersionLost
  <2> SUFFICES ASSUME FileInv, mpc \in {"idle", "applyRun"}, firstOrChecked, NEW p \in modified,
                      ~rel[p[1]].renamed
               PROVE  \E s \in {"file", "new", "bak"} :
                         res[p[1]][p[2]][s] \in {rel[p[1]].old[p[2]], rel[p[1]].new[p[2]]}
    BY DEF NoVersionLost
  <2>1. p[1] \in Chunk /\ p[2] \in Mod(p[1])
    BY DEF modified, Mod
  <2>2. Safe(p[1], p[2])
    BY <2>1 DEF FileInv
  <2> QED
    BY <2>2, ZenonT(60) DEF Safe
<1> QED
  BY <1>1, <1>2, <1>3, PTL DEF Spec

---------------------------------------------------------------------------
(* Within a chunk all or nothing *)

(* Each step of a task whose chunk is all old or all new, is being         *)
(* replaced, or is being rolled back.                                      *)
LEMMA ApplyCalm ==
  ASSUME Typed, NEW c \in Chunk, Place(c), PhaseInv(c), ApplyStep(c), UNCHANGED <<rel, mode, manifest>>,
         CalmAt(c), faults <= MaxFaults, faults' >= MaxFaults - 1
  PROVE  CalmAt(c)'
<1>0. /\ Mod(c)' = Mod(c) /\ Ops(c)' = Ops(c)
  BY SamePatch
<1>1. /\ Mod(c) \subseteq Ext /\ c \in applyTasks
      /\ \A e \in Mod(c) : rel[c].old[e] = 1 /\ rel[c].new[e] = 2
  <2>1. tpc[c] # "end"
    BY DEF ApplyStep, LoadPatch, PatchDiff, CleanNew, Preflight, MoveToBak, MoveFromNew, Commit, UndoNew,
       UndoBak
  <2> QED
    BY <2>1, ModifyFacts, SMTT(30) DEF Place, Mod
<1>2. /\ res \in ResType /\ TaskTyped /\ TaskTyped' /\ Place(c)' /\ PhaseInv(c)'
  BY ApplyFrame, ApplyFiles DEF Typed, TaskTyped
<1>3. /\ Len(Ops(c)) \in Nat /\ Len(Ops(c)) >= 1
      /\ \A i \in 1..Len(Ops(c)) : Ops(c)[i] \in Mod(c)
      /\ \A e \in Mod(c) : \E i \in 1..Len(Ops(c)) : Ops(c)[i] = e
      /\ \A i, j \in 1..Len(Ops(c)) : Ops(c)[i] = Ops(c)[j] => i = j
  BY <1>1, OpsFacts
<1>4. \A ok \in BOOLEAN : Return(c, ok) => tpc'[c] = "end" /\ TaskResults'[c] = ok
  BY <1>2 DEF Return, Goto, TaskTyped
<1>5. \A l : Goto(c, l) => tpc'[c] = l
  BY <1>2 DEF Goto, TaskTyped
<1>6. ASSUME tpc[c] \in {"load", "patch", "clean", "preflight"}, tpc'[c] \notin {"undoNew", "undoBak"},
             \A e \in Mod(c) : res'[c][e].file = res[c][e].file
      PROVE  CalmAt(c)'
  <2>1. AllOld(c) \/ AllNew(c)
    BY <1>6 DEF CalmAt
  <2>2. AllOld(c)' \/ AllNew(c)'
    BY <1>0, <1>6, <2>1 DEF AllOld, AllNew, isOld, isNew
  <2> QED
    BY <1>6, <2>2 DEF CalmAt
<1>7. ASSUME tpc[c] \in {"toBak", "fromNew"}, tpc'[c] \in {"toBak", "fromNew", "commit"} PROVE CalmAt(c)'
  BY <1>7 DEF CalmAt
<1>8. ASSUME tpc[c] \in {"toBak", "fromNew"}, Fails, RollBack(c) PROVE CalmAt(c)'
  <2>1. /\ tpc'[c] = "undoNew" /\ at'[c] = Len(Ops(c)) /\ UNCHANGED <<res, toBak>>
    BY <1>2, <1>3, <1>5, <1>8 DEF RollBack, TaskTyped
  <2>2. faults' < MaxFaults
    BY <1>8, ManagerAssumption DEF Fails, Typed
  <2>3. \A e \in Mod(c) \ toBak[c] : isOld(c, e)
    BY <1>8 DEF PhaseInv, Ready
  <2>4. \A i \in 1..Len(Ops(c)) : res'[c][Ops(c)[i]].file = rel[c].old[Ops(c)[i]] \/ (i <= at'[c] /\ Ops(c)[i] \in toBak'[c])
    BY <1>3, <2>1, <2>3 DEF isOld
  <2> QED
    BY <1>0, <2>1, <2>2, <2>4 DEF CalmAt, isOld
<1>10. CASE LoadPatch(c)
  <2>1. UNCHANGED res /\ tpc[c] = "load" /\ tpc'[c] \in {"patch", "end"}
    BY <1>4, <1>5, <1>10 DEF LoadPatch
  <2> QED
    BY <1>6, <2>1
<1>11. CASE PatchDiff(c)
  <2> DEFINE files == seqOf(Outputs(c))
             e == files[at[c]]
  <2>1. tpc[c] = "patch" /\ tpc'[c] \in {"patch", "preflight", "clean"} /\ e \in Ext
    <3>1. tpc[c] = "patch" /\ at[c] \in 1..Len(files)
      BY <1>11 DEF PatchDiff, Place
    <3>2. Goto(c, "patch") \/ Goto(c, "preflight") \/ Goto(c, "clean")
      BY <1>11 DEF PatchDiff
    <3> QED
      BY <1>5, <3>1, <3>2, OutputFacts
  <2>2. UNCHANGED res \/ \E v \in 0..Bad : Put(c, e, "new", v)
    <3>1. PatchedContents(c, e) \subseteq 0..Bad /\ Bad \in 0..Bad
      BY <2>1 DEF PatchedContents, Bad, Typed, ChunkRelease
    <3>2. UNCHANGED res \/ (\E v \in PatchedContents(c, e) : Put(c, e, "new", v)) \/ Put(c, e, "new", Bad)
      BY <1>11 DEF PatchDiff
    <3> QED
      BY <3>1, <3>2
  <2>3. \A f \in Ext : res'[c][f].file = res[c][f].file
    <3>1. ASSUME NEW v \in 0..Bad, Put(c, e, "new", v) PROVE \A f \in Ext : res'[c][f].file = res[c][f].file
      <4>1. /\ \A x \in Suffix \ {"new"} : res'[c][e][x] = res[c][e][x]
            /\ \A f \in Ext \ {e} : res'[c][f] = res[c][f]
        BY <1>2, <2>1, <3>1, PutEffect DEF Suffix
      <4> QED
        BY <4>1 DEF Suffix
    <3> QED
      BY <2>2, <3>1
  <2> QED
    BY <1>1, <1>6, <2>1, <2>3
<1>12. CASE CleanNew(c)
  <2>1. PICK kept : res' = [res EXCEPT ![c] = [e \in Ext |->
              IF e \in validFiles(c) \ kept THEN [res[c][e] EXCEPT !.new = 0] ELSE res[c][e]]]
    BY <1>12 DEF CleanNew
  <2>2. \A e \in Ext : \A x \in Suffix \ {"new"} : res'[c][e][x] = res[c][e][x]
    BY <1>2, <2>1, ClearEffect, ZenonT(60) DEF Suffix
  <2>3. \A e \in Ext : res'[c][e].file = res[c][e].file
    BY <2>2 DEF Suffix
  <2> QED
    BY <1>1, <1>4, <1>6, <1>12, <2>3 DEF CleanNew
<1>13. CASE Preflight(c)
  <2>1. PICK S : res' = [res EXCEPT ![c] = [e \in Ext |->
                   IF e \in S THEN [res[c][e] EXCEPT !.bak = 0] ELSE res[c][e]]]
    BY <1>13 DEF Preflight
  <2>2. \A e \in Ext : \A x \in Suffix \ {"bak"} : res'[c][e][x] = res[c][e][x]
    BY <1>2, <2>1, ClearEffect, ZenonT(60) DEF Suffix
  <2>3. \A e \in Ext : res'[c][e].file = res[c][e].file
    BY <2>2 DEF Suffix
  <2>4. tpc[c] = "preflight" /\ tpc'[c] \in {"toBak", "end"}
    BY <1>4, <1>5, <1>13 DEF Preflight
  <2> QED
    BY <1>1, <1>6, <2>3, <2>4
<1>14. CASE MoveToBak(c)
  <2>1. tpc[c] = "toBak" /\ (Goto(c, "fromNew") \/ (Fails /\ RollBack(c)))
    BY <1>14 DEF MoveToBak
  <2> QED
    BY <1>5, <1>7, <1>8, <2>1
<1>15. CASE MoveFromNew(c)
  <2>1. tpc[c] = "fromNew" /\ (Goto(c, "commit") \/ Goto(c, "toBak") \/ (Fails /\ RollBack(c)))
    BY <1>15 DEF MoveFromNew
  <2> QED
    BY <1>5, <1>7, <1>8, <2>1
<1>16. CASE Commit(c)
  <2>1. tpc'[c] = "end" /\ TaskResults'[c]
    BY <1>4, <1>16 DEF Commit
  <2>2. AllNew(c)'
    BY <1>2, <2>1 DEF PhaseInv
  <2> QED
    BY <2>1, <2>2 DEF CalmAt
<1>17. ASSUME tpc[c] \in {"undoNew", "undoBak"}
       PROVE  /\ ~Fails
              /\ \A i \in 1..Len(Ops(c)) : isOld(c, Ops(c)[i]) \/ (i <= at[c] /\ Ops(c)[i] \in toBak[c])
              /\ at[c] \in 1..Len(Ops(c)) /\ op(c) = Ops(c)[at[c]] /\ op(c) \in Ext
              /\ fromNew[c] \subseteq toBak[c] /\ (op(c) \in toBak[c] => res[c][op(c)].bak = rel[c].old[op(c)])
              /\ \A i \in 1..Len(Ops(c)) : i # at[c] => Ops(c)[i] # op(c) /\ Ops(c)[i] \in Ext
  <2>1. /\ faults < MaxFaults
        /\ \A i \in 1..Len(Ops(c)) : isOld(c, Ops(c)[i]) \/ (i <= at[c] /\ Ops(c)[i] \in toBak[c])
    BY <1>17 DEF CalmAt
  <2>2. ~Fails
    BY <2>1, ManagerAssumption DEF Fails, Typed
  <2>3. at[c] \in 1..Len(Ops(c)) /\ op(c) = Ops(c)[at[c]] /\ op(c) \in Ext /\ at[c] \in 1..at[c]
    BY <1>1, <1>3, <1>17 DEF Place, op
  <2>4. fromNew[c] \subseteq toBak[c] /\ (op(c) \in toBak[c] => res[c][op(c)].bak = rel[c].old[op(c)])
    BY <1>17, <2>3 DEF PhaseInv
  <2> QED
    BY <1>1, <1>3, <2>1, <2>2, <2>3, <2>4
<1>18. CASE UndoNew(c)
  <2>1. tpc[c] = "undoNew" /\ tpc'[c] = "undoBak" /\ UNCHANGED <<at, toBak>> /\ Works
    BY <1>5, <1>17, <1>18 DEF UndoNew
  <2>2. PICK o : o = op(c)
    OBVIOUS
  <2>3. \/ UNCHANGED res
        \/ o \in toBak[c] /\ \A f \in Ext \ {o} : res'[c][f] = res[c][f]
    <3>1. CASE UNCHANGED res
      BY <3>1
    <3>2. CASE o \in fromNew[c] /\ Move(c, o, "new", "file")
      <4>1. o \in Ext /\ o \in toBak[c]
        BY <1>17, <2>1, <2>2, <3>2
      <4> QED
        BY <1>2, <3>2, <4>1, MoveEffect DEF Suffix
    <3> QED
      BY <1>18, <2>2, <3>1, <3>2 DEF UndoNew
  <2>4. \A i \in 1..Len(Ops(c)) : \/ res'[c][Ops(c)[i]].file = rel[c].old[Ops(c)[i]]
                                  \/ i <= at'[c] /\ Ops(c)[i] \in toBak'[c]
    <3> SUFFICES ASSUME NEW i \in 1..Len(Ops(c))
                 PROVE  \/ res'[c][Ops(c)[i]].file = rel[c].old[Ops(c)[i]]
                        \/ i <= at'[c] /\ Ops(c)[i] \in toBak'[c]
      OBVIOUS
    <3>1. CASE UNCHANGED res
      BY <1>17, <2>1, <3>1 DEF isOld
    <3>2. CASE ~UNCHANGED res /\ i # at[c]
      BY <1>17, <2>1, <2>2, <2>3, <3>2 DEF isOld
    <3>3. CASE ~UNCHANGED res /\ i = at[c]
      BY <1>3, <1>17, <2>1, <2>2, <2>3, <3>3
    <3> QED
      BY <3>1, <3>2, <3>3
  <2>5. faults' < MaxFaults
    BY <2>1 DEF CalmAt, Works
  <2> QED
    BY <1>0, <2>1, <2>4, <2>5 DEF CalmAt, isOld
<1>19. CASE UndoBak(c)
  <2>1. /\ tpc[c] = "undoBak" /\ tpc'[c] = (IF at[c] = 1 THEN "end" ELSE "undoNew")
        /\ at'[c] = at[c] - 1 /\ UNCHANGED toBak /\ Works
    BY <1>2, <1>4, <1>5, <1>17, <1>19 DEF UndoBak, TaskTyped
  <2>2. PICK o : o = op(c)
    OBVIOUS
  <2>3. \/ UNCHANGED res /\ o \notin toBak[c]
        \/ res'[c][o].file = rel[c].old[o] /\ \A f \in Ext \ {o} : res'[c][f] = res[c][f]
    <3>1. CASE UNCHANGED res /\ o \notin toBak[c]
      BY <3>1
    <3>2. CASE o \in toBak[c] /\ Move(c, o, "file", "bak")
      <4>1. o \in Ext /\ res[c][o].bak = rel[c].old[o]
        BY <1>17, <2>1, <2>2, <3>2
      <4>2. res'[c][o]["file"] = res[c][o]["bak"] /\ \A f \in Ext \ {o} : res'[c][f] = res[c][f]
        BY <1>2, <3>2, <4>1, MoveEffect DEF Suffix
      <4> QED
        BY <4>1, <4>2
    <3> QED
      BY <1>17, <1>19, <2>1, <2>2, <3>1, <3>2 DEF UndoBak
  <2>4. \A i \in 1..Len(Ops(c)) : \/ res'[c][Ops(c)[i]].file = rel[c].old[Ops(c)[i]]
                                  \/ i <= at[c] - 1 /\ Ops(c)[i] \in toBak[c]
    <3> SUFFICES ASSUME NEW i \in 1..Len(Ops(c))
                 PROVE  \/ res'[c][Ops(c)[i]].file = rel[c].old[Ops(c)[i]]
                        \/ i <= at[c] - 1 /\ Ops(c)[i] \in toBak[c]
      OBVIOUS
    <3>1. isOld(c, Ops(c)[i]) \/ (i <= at[c] /\ Ops(c)[i] \in toBak[c])
      BY <1>17, <2>1
    <3>2. CASE i = at[c]
      <4>1. Ops(c)[i] = o
        BY <1>17, <2>1, <2>2, <3>2
      <4> QED
        BY <2>3, <3>1, <4>1 DEF isOld
    <3>3. CASE i # at[c]
      <4>1. Ops(c)[i] # o /\ Ops(c)[i] \in Ext
        BY <1>17, <2>1, <2>2, <3>3
      <4>2. res'[c][Ops(c)[i]] = res[c][Ops(c)[i]]
        BY <2>3, <4>1
      <4>3. i <= at[c] => i <= at[c] - 1
        BY <1>3, <1>17, <2>1, <3>3
      <4> QED
        BY <3>1, <4>2, <4>3 DEF isOld
    <3> QED
      BY <3>2, <3>3
  <2>5. faults' < MaxFaults
    BY <2>1 DEF CalmAt, Works
  <2>6. CASE at[c] = 1
    <3>1. \A i \in 1..Len(Ops(c)) : res'[c][Ops(c)[i]].file = rel[c].old[Ops(c)[i]]
      BY <1>3, <2>4, <2>6
    <3>2. \A e \in Mod(c) : res'[c][e].file = rel[c].old[e]
      BY <1>3, <3>1
    <3>3. AllOld(c)'
      BY <1>0, <3>2 DEF AllOld, isOld
    <3> QED
      BY <2>1, <2>6, <3>3 DEF CalmAt
  <2>7. CASE at[c] # 1
    BY <1>0, <2>1, <2>4, <2>5, <2>7 DEF CalmAt, isOld
  <2> QED
    BY <2>6, <2>7
<1> QED
  BY <1>10, <1>11, <1>12, <1>13, <1>14, <1>15, <1>16, <1>18, <1>19 DEF ApplyStep

(* Faults are used up, calls and crashes are counted. *)
LEMMA StepBounds ==
  ASSUME Typed, [Next]_vars
  PROVE  /\ UNCHANGED <<rel, mode>> /\ faults' \in Int /\ faults' <= faults
         /\ calls' \in {calls, calls + 1}
         /\ crashes' = crashes \/ (Crash /\ crashes' = crashes + 1)
<1>0. faults \in Nat /\ calls \in Nat /\ crashes \in Nat
  BY DEF Typed
<1>1. ASSUME NEW c \in Chunk, Task(c)
      PROVE  UNCHANGED <<rel, mode, calls, crashes>> /\ faults' \in Int /\ faults' <= faults
  <2>1. UNCHANGED <<rel, mode, calls, crashes>> /\ (UNCHANGED faults \/ Works \/ Fails)
    BY <1>1 DEF Task, CreateDiff, ApplyStep, LoadPatch, PatchDiff, CleanNew, Preflight, MoveToBak,
       MoveFromNew, Commit, UndoNew, UndoBak, envVars
  <2> QED
    BY <1>0, <2>1, SMTT(30) DEF Works, Fails
<1>2. CASE CreateCollect
  <2>1. PICK lost \in SUBSET {p \in {c \in Chunk : hasNew(c) /\ ~hasOld(c)} \X Ext : p[2] \in addedFiles(p[1])} :
          faults' = faults - Cardinality(lost)
    BY <1>2 DEF CreateCollect
  <2>2. lost \in SUBSET (Chunk \X Ext)
    OBVIOUS
  <2>3. faults' \in Int /\ faults' <= faults
    BY <1>0, <2>1, <2>2, PathsFinite
  <2> QED
    BY <1>2, <2>3 DEF CreateCollect, envVars
<1>3. CASE ApplyLoop
  <2>1. faults' \in Nat /\ faults' <= faults
    BY <1>3, LoopEffect
  <2> QED
    BY <1>3, <2>1 DEF ApplyLoop, envVars
<1>4. CASE CreateLoadFails \/ CreateSum \/ ApplySum \/ Submitter \/ ApplyRefused \/ Crash \/ UNCHANGED vars
  <2>1. /\ UNCHANGED <<rel, mode>> /\ calls' \in {calls, calls + 1}
        /\ crashes' = crashes \/ (Crash /\ crashes' = crashes + 1)
    BY <1>4 DEF CreateLoadFails, CreateSum, ApplySum, Submitter, ApplyRefused, Crash, vars, envVars, boundVars
  <2>2. UNCHANGED faults \/ Works \/ Fails
    BY <1>4 DEF CreateLoadFails, CreateSum, ApplySum, Submitter, ApplyRefused, Crash, vars, boundVars
  <2> QED
    BY <1>0, <2>1, <2>2 DEF Works, Fails
<1> QED
  BY <1>1, <1>2, <1>3, <1>4 DEF Next, MainThread

(* A task that has returned is at its end. *)
LEMMA NextEnd ==
  ASSUME SlotInv, FilesOK, EndInv, [Next]_vars
  PROVE  EndInv'
<1>0. tstate \in [Chunk -> TaskState] /\ Typed
  BY DEF SlotInv, FilesOK
<1> DEFINE Past(c) == tstate[c] \in {"release", "trigger", "done"}
<1>1. faults' <= MaxFaults
  BY <1>0, StepBounds, ManagerAssumption DEF EndInv, Typed
<1>2. applied' # "none" => mpc' = "idle"
  <2>1. ASSUME NEW c \in Chunk, Task(c) PROVE UNCHANGED <<applied, mpc>>
    BY <2>1 DEF Task
  <2>2. CASE \E c \in Chunk : Task(c)
    BY <2>1, <2>2 DEF EndInv
  <2>3. CASE CreateLoadFails \/ CreateCollect \/ CreateSum \/ ApplySum \/ Submitter \/ ApplyRefused \/ ApplyLoop
             \/ Crash \/ UNCHANGED vars
    BY <2>3 DEF EndInv, CreateLoadFails, CreateCollect, CreateSum, ApplySum, Submitter, ApplyRefused,
       ApplyLoop, Crash, vars
  <2> QED
    BY <2>2, <2>3 DEF Next, MainThread
<1>3. ASSUME mpc' = "applyRun", NEW c \in Chunk, Past(c)' PROVE tpc'[c] = "end"
  <2>1. CASE ApplyLoop
    BY <1>3, <2>1 DEF ApplyLoop, NewRunner, Unused
  <2>2. CASE UNCHANGED vars
    BY <1>3, <2>2 DEF EndInv, vars, runnerVars, taskVars
  <2>3. CASE Submitter
    <3>1. UNCHANGED <<mpc, tpc>> /\ Submit(tasks) /\ tasks \subseteq Chunk
      BY <2>3 DEF Submitter, taskVars, tasks, createTasks, applyTasks
    <3>2. tstate'[c] = tstate[c] \/ tstate'[c] \in {"queued", "running"}
      BY <1>0, <3>1 DEF Submit, SubmitSync, SubmitAsync, NoSlot, SlotWake
    <3> QED
      BY <1>3, <3>1, <3>2 DEF EndInv
  <2>4. ASSUME NEW d \in Chunk, Task(d) PROVE tpc'[c] = "end"
    <3>1. mpc = "applyRun" /\ UNCHANGED <<rel, mode, manifest>> /\ Place(d)
      BY <1>3, <2>4 DEF Task, FilesOK, envVars, patchVars, CreateDiff
    <3>2. CASE PoolThread(d) /\ UNCHANGED taskVars
      <4>1. Past(c)
        BY <1>0, <1>3, <3>2 DEF PoolThread, TaskStart, SlotRelease, SlotTrigger
      <4> QED
        BY <3>1, <3>2, <4>1 DEF EndInv, taskVars
    <3>3. CASE CreateDiff(d)
      BY <3>1, <3>3 DEF CreateDiff, Place
    <3>4. CASE tstate[d] = "running" /\ ApplyStep(d)
      <4>1. UNCHANGED runnerVars \/ \E ok \in BOOLEAN : Return(d, ok)
        BY <3>4 DEF ApplyStep, LoadPatch, PatchDiff, CleanNew, Preflight, MoveToBak, MoveFromNew, Commit,
           UndoNew, UndoBak, Stay
      <4>2. Others(d)
        BY <1>0, <3>1, <3>4, ApplyFrame
      <4>3. CASE UNCHANGED runnerVars
        <5>1. c # d /\ Past(c)
          BY <1>3, <3>4, <4>3 DEF runnerVars
        <5> QED
          BY <3>1, <4>2, <5>1 DEF EndInv, Others
      <4>4. CASE \E ok \in BOOLEAN : Return(d, ok)
        <5>1. tpc'[d] = "end" /\ \A x \in Chunk \ {d} : tstate'[x] = tstate[x]
          BY <1>0, <4>4 DEF Return, Goto, BodyReturned, Typed
        <5>2. c # d => tpc'[c] = tpc[c] /\ Past(c)
          BY <1>3, <4>2, <5>1 DEF Others
        <5> QED
          BY <3>1, <5>1, <5>2 DEF EndInv
      <4> QED
        BY <4>1, <4>3, <4>4, SMTT(30)
    <3> QED
      BY <2>4, <3>2, <3>3, <3>4 DEF Task
  <2>5. CASE CreateLoadFails \/ CreateCollect \/ CreateSum \/ ApplySum \/ ApplyRefused \/ Crash
    BY <1>3, <2>5 DEF CreateLoadFails, CreateCollect, CreateSum, ApplySum, ApplyRefused, Crash
  <2> QED
    BY <2>1, <2>2, <2>3, <2>4, <2>5 DEF Next, MainThread
<1> QED
  BY <1>1, <1>2, <1>3 DEF EndInv

(* Every step keeps a chunk all old or all new between its task's moves. *)
LEMMA NextCalm ==
  ASSUME FilesOK, FileInv, EndInv, CalmInv, [Next]_vars
  PROVE  CalmInv'
<1>0. Typed /\ faults <= MaxFaults
  BY DEF FilesOK, EndInv
<1> SUFFICES ASSUME Calm', NEW c \in Chunk, ~rel'[c].renamed
             PROVE  /\ mpc' = "idle" => AllOld(c)' \/ AllNew(c)'
                    /\ mpc' = "applyRun" => CalmAt(c)'
  BY DEF CalmInv
<1>1. /\ UNCHANGED <<rel, mode>> /\ faults' \in Int /\ faults' <= faults
      /\ calls' \in {calls, calls + 1}
      /\ crashes' = crashes /\ ~rel[c].renamed
  BY <1>0, StepBounds DEF Calm, Typed
<1>2. Calm /\ firstOrChecked /\ Unchecked' = Unchecked
  BY <1>0, <1>1, ManagerAssumption DEF Calm, firstOrChecked, Unchecked, Typed
<1>3. /\ mpc = "idle" => AllOld(c) \/ AllNew(c)
      /\ mpc = "applyRun" => CalmAt(c)
  BY <1>1, <1>2 DEF CalmInv
<1>4. CASE CreateCollect \/ CreateLoadFails
  BY <1>4 DEF CreateCollect, CreateLoadFails
<1>5. CASE CreateSum
  <2>1. mpc = "createRun" /\ mpc' \in {"idle", "stop"} /\ UNCHANGED res
    BY <1>5 DEF CreateSum
  <2>2. \A e \in Ext : isOld(c, e)
    BY <1>1, <2>1 DEF FilesOK
  <2> QED
    BY <1>1, <2>1, <2>2 DEF AllOld, isOld, Mod
<1>6. CASE ApplyRefused \/ Submitter \/ UNCHANGED vars
  <2>1. UNCHANGED <<manifest, res, mpc, taskVars>> /\ (mpc = "applyRun" => UNCHANGED faults)
    BY <1>6 DEF ApplyRefused, Submitter, vars, patchVars, boundVars
  <2>2. Mod(c)' = Mod(c) /\ Ops(c)' = Ops(c)
    BY <1>1, <2>1, SamePatch
  <2>3. (AllOld(c)' <=> AllOld(c)) /\ (AllNew(c)' <=> AllNew(c))
    BY <1>1, <2>1, <2>2 DEF AllOld, AllNew, isOld, isNew
  <2>4. mpc = "applyRun" => CalmAt(c)'
    BY <1>1, <1>3, <2>1, <2>2, <2>3 DEF CalmAt, isOld, taskVars
  <2> QED
    BY <1>3, <2>1, <2>3, <2>4
<1>7. CASE ApplySum
  <2>1. UNCHANGED <<manifest, res>> /\ mpc = "applyRun" /\ mpc' = "idle" /\ AllWaited(applyTasks)
    BY <1>7 DEF ApplySum, patchVars
  <2>2. Place(c) /\ (c \in applyTasks => tpc[c] = "end")
    BY <2>1 DEF FilesOK, EndInv, AllWaited
  <2>3. AllOld(c) \/ AllNew(c)
    BY <1>3, <2>1, <2>2 DEF Place, CalmAt
  <2>4. Mod(c)' = Mod(c)
    BY <1>1, <2>1, SamePatch
  <2> QED
    BY <1>1, <2>1, <2>3, <2>4 DEF AllOld, AllNew, isOld, isNew
<1>8. CASE ApplyLoop
  <2>1. /\ UNCHANGED manifest /\ mpc = "idle" /\ mpc' = "applyRun"
        /\ tpc' = [d \in Chunk |-> IF d \in applyTasks THEN "load" ELSE "end"]
    BY <1>8 DEF ApplyLoop, patchVars
  <2>2. Mod(c)' = Mod(c) /\ Mod(c) \subseteq Ext
    BY <1>1, <2>1, SamePatch DEF Mod
  <2>3. \A e \in Mod(c) : res'[c][e].file = res[c][e].file
    BY <1>0, <1>8, <2>2, LoopEffect, ModifyFacts
  <2>4. AllOld(c)' \/ AllNew(c)'
    BY <1>1, <1>3, <2>1, <2>2, <2>3 DEF AllOld, AllNew, isOld, isNew
  <2>5. tpc'[c] \in {"load", "end"}
    BY <2>1
  <2> QED
    BY <2>1, <2>4, <2>5 DEF CalmAt
<1>9. CASE Crash
  BY <1>0, <1>1, <1>9 DEF Crash, Typed
<1>10. ASSUME NEW d \in Chunk, Task(d), mpc' = "applyRun" PROVE CalmAt(c)'
  <2>1. UNCHANGED <<mpc, manifest>> /\ mpc = "applyRun"
    BY <1>10 DEF Task, patchVars, CreateDiff
  <2>2. Mod(c)' = Mod(c) /\ Ops(c)' = Ops(c)
    BY <1>1, <2>1, SamePatch
  <2>3. Place(d) /\ Place(c) /\ CalmAt(c)
    BY <1>3, <2>1 DEF FilesOK
  <2>4. CASE ApplyStep(c) /\ d = c
    <3>1. tpc[c] # "end"
      BY <2>4 DEF ApplyStep, LoadPatch, PatchDiff, CleanNew, Preflight, MoveToBak, MoveFromNew, Commit,
         UndoNew, UndoBak
    <3>2. PhaseInv(c)
      BY <1>1, <1>2, <2>1, <2>3, <3>1 DEF FileInv, Place
    <3>3. faults' >= MaxFaults - 1
      BY DEF Calm
    <3> QED
      BY <1>0, <1>1, <2>1, <2>3, <2>4, <3>2, <3>3, ApplyCalm, SMTT(30)
  <2>5. CASE ~(ApplyStep(c) /\ d = c)
    <3>1. /\ res'[c] = res[c] /\ tpc'[c] = tpc[c] /\ at'[c] = at[c] /\ toBak'[c] = toBak[c]
      <4>1. CASE UNCHANGED <<res, taskVars>>
        BY <4>1 DEF taskVars
      <4>2. CASE CreateDiff(d)
        BY <2>1, <2>3, <4>2 DEF CreateDiff, Place
      <4>3. CASE ApplyStep(d)
        <5>1. d # c /\ Others(d)
          BY <1>0, <1>1, <2>1, <2>3, <2>5, <4>3, ApplyFrame
        <5> QED
          BY <5>1 DEF Others
      <4> QED
        BY <1>10, <4>1, <4>2, <4>3 DEF Task
    <3>2. (AllOld(c)' <=> AllOld(c)) /\ (AllNew(c)' <=> AllNew(c))
      BY <1>1, <2>2, <3>1 DEF AllOld, AllNew, isOld, isNew
    <3>3. faults < MaxFaults => faults' < MaxFaults
      BY <1>0, <1>1, ManagerAssumption DEF Typed
    <3> QED
      BY <1>1, <2>2, <2>3, <3>1, <3>2, <3>3 DEF CalmAt, isOld
  <2> QED
    BY <2>4, <2>5
<1>11. ASSUME NEW d \in Chunk, Task(d) PROVE mpc' # "idle"
  BY <1>11 DEF Task, running
<1> QED
  BY <1>4, <1>5, <1>6, <1>7, <1>8, <1>9, <1>10, <1>11 DEF Next, MainThread

(* Within a chunk all or nothing: when ApplyPatch has returned, at most    *)
(* one file operation failed and the process never died, the files that a  *)
(* patch modifies are all old or all new in each chunk, for any chunks,    *)
(* releases and threads.                                                   *)
THEOREM ChunksAreWhole == Spec => []ChunkAllOrNothing
<1> DEFINE IInv == SlotInv /\ CallInv /\ FilesOK /\ FileInv /\ EndInv /\ CalmInv
<1>1. Init => IInv
  <2> SUFFICES ASSUME Init PROVE IInv
    OBVIOUS
  <2>1. FilesOK /\ FileInv /\ CalmInv
    BY InitFiles DEF FileInv, CalmInv, Init
  <2>2. EndInv
    BY ManagerAssumption DEF EndInv, Init
  <2> QED
    BY <2>1, <2>2, InitRunner
<1>2. IInv /\ [Next]_vars => IInv'
  BY NextRunner, NextFiles, NextFileInv, NextEnd, NextCalm
<1>3. IInv => ChunkAllOrNothing
  <2> SUFFICES ASSUME IInv, applied # "none", Calm, NEW c \in applyTasks, ~rel[c].renamed
               PROVE  \/ \A e \in ToSet(Ops(c)) : res[c][e].file = rel[c].old[e]
                      \/ \A e \in ToSet(Ops(c)) : res[c][e].file = rel[c].new[e]
    BY DEF ChunkAllOrNothing, Calm
  <2>1. mpc = "idle" /\ c \in Chunk
    BY DEF EndInv, applyTasks
  <2>2. AllOld(c) \/ AllNew(c)
    BY <2>1 DEF CalmInv
  <2>3. \A e \in ToSet(Ops(c)) : e \in Mod(c)
    <3>1. Typed /\ \A i \in 1..Len(Ops(c)) : Ops(c)[i] \in Mod(c)
      BY <2>1, OpsFacts DEF FilesOK
    <3>2. Ops(c) \in Seq(Ext)
      BY FilesInOrder DEF Ops
    <3>3. DOMAIN Ops(c) = 1..Len(Ops(c))
      BY <3>2
    <3> QED
      BY <3>1, <3>3 DEF ToSet
  <2> QED
    BY <2>2, <2>3 DEF AllOld, AllNew, isOld, isNew
<1> QED
  BY <1>1, <1>2, <1>3, PTL DEF Spec

---------------------------------------------------------------------------
(* What true means *)

(* A companion comes and goes only with its .pak.  Without this the        *)
(* manifest has entries that ApplyPatch does not act upon.                 *)
CompanionsStay ==
  \A r \in Releases : \A c \in Chunk, e \in Ext :
    r[c].old["pak"] # 0 /\ r[c].new["pak"] # 0 => (r[c].old[e] = 0 <=> r[c].new[e] = 0)

RelStay ==
  \A c \in Chunk, e \in Ext :
    /\ rel[c].old["pak"] = 0 => rel[c].old[e] = 0
    /\ rel[c].new["pak"] = 0 => rel[c].new[e] = 0
    /\ rel[c].old["pak"] # 0 /\ rel[c].new["pak"] # 0 => (rel[c].old[e] = 0 <=> rel[c].new[e] = 0)

(* Equal files are as they were, added ones are there unless a copy        *)
(* failed, and a call that returned true left the new release.             *)
TrueInv ==
  /\ RelStay
  /\ \A c \in Chunk, e \in Ext : ~rel[c].renamed /\ DiffType(c, e) = "Equal" => isOld(c, e)
  /\ mpc = "applyRun" /\ ~failed => \A c \in Chunk, e \in Ext : manifest[c][e] = "Add" => isNew(c, e)
  /\ TrueMeansVerified

(* What the types of a chunk's files say of the chunk. *)
LEMMA ChunkTypes ==
  ASSUME Typed, RelStay, NEW c \in Chunk, NEW e \in Ext
  PROVE  /\ DiffType(c, e) = "Equal" =>
              c \notin ofType("Add") \cup ofType("Delete") /\ e \notin Mod(c) /\ manifest[c][e] # "Add"
              /\ rel[c].old[e] = rel[c].new[e]
         /\ manifest[c][e] = "Add" => c \in ofType("Add") /\ e \notin Mod(c) /\ e \in validFiles(c)
         /\ manifest[c][e] = "Equal" => DiffType(c, e) = "Equal"
<1>0. manifest[c] = None \/ manifest[c] = ItemOf(c)
  BY DEF Typed
<1>1. \A f \in Ext : rel[c].old[f] \in {0, 1} /\ rel[c].new[f] \in {0, 1, 2}
  BY DEF Typed, ChunkRelease
<1>2. \A f \in Ext : DiffType(c, f) \in DiffTypes
  BY <1>1 DEF DiffType, DiffTypes
<1>3. manifest[c] \in [Ext -> DiffTypes] /\ \A f \in Ext : manifest[c][f] \in {"None", DiffType(c, f)}
  BY <1>0, <1>2 DEF None, ItemOf, DiffTypes
<1>4. PICK g \in DiffTypes : /\ g = GetChunkDiffType(manifest[c]) /\ (\E f \in Ext : g = manifest[c][f])
                             /\ \A f \in Ext : Priority(manifest[c][f]) <= Priority(g)
  BY <1>3, HeaviestDecides
<1>5. ASSUME DiffType(c, e) = "Equal"
      PROVE  /\ c \notin ofType("Add") \cup ofType("Delete") /\ e \notin Mod(c) /\ manifest[c][e] # "Add"
             /\ rel[c].old[e] = rel[c].new[e]
  <2>1. rel[c].old[e] = rel[c].new[e] /\ rel[c].old[e] # 0
    BY <1>1, <1>5 DEF DiffType
  <2>2. \A f \in Ext : rel[c].old[f] = 0 <=> rel[c].new[f] = 0
    BY <2>1 DEF RelStay
  <2>3. \A f \in Ext : DiffType(c, f) \notin {"Add", "Delete"}
    BY <1>1, <2>2 DEF DiffType
  <2>4. g \notin {"Add", "Delete"}
    BY <1>3, <1>4, <2>3
  <2> QED
    BY <1>3, <1>4, <1>5, <2>1, <2>4 DEF ofType, Mod
<1>6. ASSUME manifest[c][e] = "Add"
      PROVE  c \in ofType("Add") /\ e \notin Mod(c) /\ e \in validFiles(c)
  <2>1. rel[c].old[e] = 0 /\ rel[c].new[e] # 0
    BY <1>1, <1>3, <1>6 DEF DiffType
  <2>2. \A f \in Ext : rel[c].old[f] = 0
    BY <2>1 DEF RelStay
  <2>3. \A f \in Ext : manifest[c][f] \in {"Add", "None"}
    BY <1>1, <1>3, <2>2 DEF DiffType
  <2>4. g \in {"Add", "None"} /\ Priority("Add") <= Priority(g)
    BY <1>4, <1>6, <2>3
  <2>5. g = "Add"
    BY <2>4 DEF Priority
  <2> QED
    BY <1>4, <1>6, <2>5 DEF ofType, Mod, validFiles
<1>7. manifest[c][e] = "Equal" => DiffType(c, e) = "Equal"
  BY <1>3
<1> QED
  BY <1>5, <1>6, <1>7

(* The task of a chunk leaves the files alone that the patch does not      *)
(* modify.                                                                 *)
LEMMA OtherFilesKept ==
  ASSUME Typed, NEW c \in Chunk, Place(c), ApplyStep(c), UNCHANGED <<rel, mode, manifest>>
  PROVE  \A e \in Ext \ Mod(c) : res'[c][e].file = res[c][e].file
<1>0. res \in ResType
  BY DEF Typed
<1>1. \A i \in 1..Len(Ops(c)) : Ops(c)[i] \in Mod(c) /\ Ops(c)[i] \in Ext
  BY OpsFacts
<1>2. CASE UNCHANGED res
  BY <1>2
<1>3. ASSUME NEW s \in {"new", "bak"}, NEW S,
             res' = [res EXCEPT ![c] = [e \in Ext |->
                       IF e \in S THEN [res[c][e] EXCEPT ![s] = 0] ELSE res[c][e]]]
      PROVE  \A e \in Ext \ Mod(c) : res'[c][e].file = res[c][e].file
  <2>1. \A e \in Ext : \A x \in Suffix \ {s} : res'[c][e][x] = res[c][e][x]
    BY <1>0, <1>3, ClearEffect DEF Suffix
  <2> QED
    BY <1>3, <2>1 DEF Suffix
<1>4. ASSUME NEW o \in Mod(c), NEW s \in Suffix, NEW t \in Suffix, s # t, Move(c, o, s, t)
      PROVE  \A e \in Ext \ Mod(c) : res'[c][e].file = res[c][e].file
  <2>1. o \in Ext
    BY DEF Mod
  <2>2. \A f \in Ext \ {o} : res'[c][f] = res[c][f]
    BY <1>0, <1>4, <2>1, MoveEffect
  <2> QED
    BY <2>2
<1>5. tpc[c] \in {"toBak", "fromNew", "undoNew", "undoBak"} => op(c) \in Mod(c)
  BY <1>1 DEF Place, op
<1>6. CASE PatchDiff(c)
  <2> DEFINE files == seqOf(Outputs(c))
  <2>1. PICK e : e = files[at[c]]
    OBVIOUS
  <2>2. e \in Ext
    <3>1. at[c] \in 1..Len(files)
      BY <1>6 DEF PatchDiff, Place
    <3> QED
      BY <2>1, <3>1, OutputFacts
  <2>3. PatchedContents(c, e) \subseteq 0..Bad /\ Bad \in 0..Bad
    BY <2>2 DEF PatchedContents, Bad, Typed, ChunkRelease
  <2>4. UNCHANGED res \/ (\E v \in PatchedContents(c, e) : Put(c, e, "new", v)) \/ Put(c, e, "new", Bad)
    BY <1>6, <2>1 DEF PatchDiff
  <2>5. ASSUME NEW v \in 0..Bad, Put(c, e, "new", v) PROVE \A f \in Ext : res'[c][f].file = res[c][f].file
    <3>1. /\ \A x \in Suffix \ {"new"} : res'[c][e][x] = res[c][e][x]
          /\ \A f \in Ext \ {e} : res'[c][f] = res[c][f]
      BY <1>0, <2>2, <2>5, PutEffect DEF Suffix
    <3> QED
      BY <3>1 DEF Suffix
  <2> QED
    BY <2>3, <2>4, <2>5
<1>7. CASE CleanNew(c)
  <2>1. PICK kept : res' = [res EXCEPT ![c] = [e \in Ext |->
              IF e \in validFiles(c) \ kept THEN [res[c][e] EXCEPT !.new = 0] ELSE res[c][e]]]
    BY <1>7 DEF CleanNew
  <2> QED
    BY <1>3, <2>1
<1>8. CASE Preflight(c) \/ Commit(c)
  <2>1. PICK S : res' = [res EXCEPT ![c] = [e \in Ext |->
              IF e \in S THEN [res[c][e] EXCEPT !.bak = 0] ELSE res[c][e]]]
    BY <1>8 DEF Preflight, Commit
  <2> QED
    BY <1>3, <2>1
<1>9. CASE LoadPatch(c)
  BY <1>9 DEF LoadPatch
<1>10. CASE MoveToBak(c) \/ MoveFromNew(c) \/ UndoNew(c) \/ UndoBak(c)
  <2>1. PICK o : o = op(c)
    OBVIOUS
  <2>2. o \in Mod(c)
    BY <1>5, <1>10, <2>1 DEF MoveToBak, MoveFromNew, UndoNew, UndoBak
  <2>3. \/ UNCHANGED res
        \/ \E s, t \in Suffix : s # t /\ Move(c, o, s, t)
    BY <1>10, <2>1 DEF MoveToBak, MoveFromNew, UndoNew, UndoBak, RollBack, Suffix
  <2> QED
    BY <1>4, <2>2, <2>3
<1> QED
  BY <1>6, <1>7, <1>8, <1>9, <1>10 DEF ApplyStep

(* Every step keeps what a result of true stands for. *)
LEMMA NextTrue ==
  ASSUME FilesOK, FileInv, EndInv, TrueInv, [Next]_vars
  PROVE  TrueInv'
<1>0. Typed /\ RelStay /\ UNCHANGED <<rel, mode>>
  BY StepBounds DEF FilesOK, TrueInv
<1>1. RelStay' /\ \A c, e : DiffType(c, e)' = DiffType(c, e)
  BY <1>0 DEF RelStay, DiffType
<1> DEFINE EqualKept == \A c \in Chunk, e \in Ext :
                           ~rel[c].renamed /\ DiffType(c, e) = "Equal" => res'[c][e].file = res[c][e].file
           AddDone == \A c \in Chunk, e \in Ext : manifest'[c][e] = "Add" => res'[c][e].file = rel[c].new[e]
           Added == \A c \in Chunk, e \in Ext : manifest[c][e] = "Add" => res[c][e].file = rel[c].new[e]
<1>2. ASSUME EqualKept, mpc' = "applyRun" /\ ~failed' => AddDone, TrueMeansVerified' PROVE TrueInv'
  <2>1. \A c \in Chunk, e \in Ext : ~rel[c].renamed /\ DiffType(c, e) = "Equal" => isOld(c, e)'
    BY <1>0, <1>2 DEF TrueInv, isOld
  <2> QED
    BY <1>0, <1>1, <1>2, <2>1 DEF TrueInv, isNew
<1>3. CASE CreateLoadFails \/ CreateCollect \/ CreateSum
  <2>1. UNCHANGED <<res, applied>> /\ mpc # "idle" /\ mpc' # "applyRun"
    BY <1>3 DEF CreateLoadFails, CreateCollect, CreateSum
  <2>2. applied' # "true"
    BY <2>1 DEF EndInv
  <2> QED
    BY <1>2, <2>1, <2>2 DEF TrueMeansVerified
<1>4. CASE ApplyRefused
  <2>1. UNCHANGED res /\ applied' = "false" /\ mpc' # "applyRun"
    BY <1>4 DEF ApplyRefused
  <2> QED
    BY <1>2, <2>1 DEF TrueMeansVerified
<1>5. CASE Crash
  <2>1. applied' = "none" /\ mpc' # "applyRun"
    BY <1>5 DEF Crash
  <2>2. EqualKept
    BY <1>0, <1>5, CrashEffect
  <2> QED
    BY <1>2, <2>1, <2>2 DEF TrueMeansVerified
<1>6. CASE ApplyLoop
  <2>1. applied' = "none" /\ UNCHANGED manifest
    BY <1>6 DEF ApplyLoop, patchVars
  <2>2. /\ \A c \in Chunk \ (ofType("Add") \cup ofType("Delete")), e \in Ext :
             res'[c][e].file = res[c][e].file
        /\ ~failed' => \A c \in ofType("Add") : \A e \in validFiles(c) : res'[c][e].file = rel[c].new[e]
    BY <1>0, <1>6, LoopEffect
  <2>3. EqualKept
    BY <1>0, <2>2, ChunkTypes
  <2>4. ~failed' => AddDone
    BY <1>0, <2>1, <2>2, ChunkTypes
  <2> QED
    BY <1>2, <2>1, <2>3, <2>4 DEF TrueMeansVerified
<1>7. CASE Submitter
  <2>1. UNCHANGED <<res, applied, mpc, manifest, failed>> /\ mpc # "idle"
    BY <1>7 DEF Submitter, patchVars, running
  <2>2. applied' # "true"
    BY <2>1 DEF EndInv
  <2>3. mpc = "applyRun" /\ ~failed => Added
    BY DEF TrueInv, isNew
  <2> QED
    BY <1>2, <2>1, <2>2, <2>3 DEF TrueMeansVerified
<1>8. CASE UNCHANGED vars
  <2>1. UNCHANGED <<rel, mode, res, manifest, mpc, failed, applied, calls>>
    BY <1>8 DEF vars, envVars, patchVars, boundVars
  <2>2. TrueMeansVerified'
    BY <2>1 DEF TrueInv, TrueMeansVerified, VerifyAfterPatch, VerifyCrcInternal, firstOrChecked, Unchecked
  <2>3. mpc = "applyRun" /\ ~failed => Added
    BY DEF TrueInv, isNew
  <2> QED
    BY <1>2, <2>1, <2>2, <2>3
<1>9. CASE ApplySum
  <2>1. /\ UNCHANGED <<rel, mode, res, manifest, calls>> /\ mpc = "applyRun" /\ mpc' = "idle"
        /\ applied' = "true" => ~failed /\ ~tasksFailed
    BY <1>9 DEF ApplySum, envVars, patchVars, boundVars
  <2>2. ASSUME applied' = "true", firstOrChecked', \A c \in Chunk : ~rel'[c].renamed,
               NEW c \in Chunk, NEW e \in Ext, manifest[c][e] \in {"Modify", "Add", "Equal"}
        PROVE  res[c][e].file = rel[c].new[e]
    <3>1. firstOrChecked /\ ~rel[c].renamed
      BY <2>1, <2>2 DEF firstOrChecked, Unchecked
    <3>2. CASE manifest[c][e] = "Modify"
      <4>1. e \in Mod(c) /\ c \in applyTasks
        BY <1>0, <3>2, ModifyFacts DEF Mod
      <4>2. TaskResults[c]
        BY <2>1, <2>2, <4>1 DEF tasksFailed
      <4>3. AllNew(c)
        BY <2>1, <3>1, <4>1, <4>2 DEF FileInv, PhaseInv
      <4> QED
        BY <4>1, <4>3 DEF AllNew, isNew
    <3>3. CASE manifest[c][e] = "Add"
      BY <2>1, <2>2, <3>3 DEF TrueInv, isNew
    <3>4. CASE manifest[c][e] = "Equal"
      <4>1. DiffType(c, e) = "Equal" /\ rel[c].old[e] = rel[c].new[e]
        BY <1>0, <3>4, ChunkTypes
      <4> QED
        BY <3>1, <4>1 DEF TrueInv, isOld
    <3> QED
      BY <2>2, <3>2, <3>3, <3>4
  <2>3. TrueMeansVerified'
    BY <2>1, <2>2 DEF TrueMeansVerified, VerifyAfterPatch, VerifyCrcInternal
  <2> QED
    BY <1>2, <2>1, <2>3
<1>10. ASSUME NEW d \in Chunk, Task(d) PROVE TrueInv'
  <2>1. UNCHANGED <<applied, mpc, manifest, failed>> /\ mpc # "idle"
    BY <1>10 DEF Task, patchVars, running, CreateDiff
  <2>2. applied' # "true"
    BY <2>1 DEF EndInv
  <2>3. \/ UNCHANGED res
        \/ mpc = "applyRun" /\ ApplyStep(d)
    <3>1. CASE UNCHANGED res \/ CreateDiff(d)
      BY <3>1 DEF CreateDiff
    <3>2. CASE ApplyStep(d)
      <4>1. tpc[d] \notin {"diff", "end"}
        BY <3>2 DEF ApplyStep, LoadPatch, PatchDiff, CleanNew, Preflight, MoveToBak, MoveFromNew, Commit,
           UndoNew, UndoBak
      <4> QED
        BY <1>10, <3>2, <4>1, SMTT(30) DEF Task, running, FilesOK
    <3> QED
      BY <1>10, <3>1, <3>2 DEF Task
  <2>4. \A c \in Chunk, e \in Ext : e \notin Mod(c) => res'[c][e].file = res[c][e].file
    <3>1. CASE UNCHANGED res
      BY <3>1
    <3>2. CASE mpc = "applyRun" /\ ApplyStep(d)
      <4>1. Place(d)
        BY <3>2 DEF FilesOK
      <4>2. Others(d) /\ \A e \in Ext \ Mod(d) : res'[d][e].file = res[d][e].file
        BY <1>0, <2>1, <3>2, <4>1, ApplyFrame, OtherFilesKept
      <4> QED
        BY <4>2 DEF Others
    <3> QED
      BY <2>3, <3>1, <3>2
  <2>5. EqualKept
    BY <1>0, <2>4, ChunkTypes
  <2>6. mpc = "applyRun" /\ ~failed => Added
    BY DEF TrueInv, isNew
  <2>7. Added => AddDone
    BY <1>0, <2>1, <2>4, ChunkTypes
  <2> QED
    BY <1>2, <2>1, <2>2, <2>5, <2>6, <2>7 DEF TrueMeansVerified
<1> QED
  BY <1>3, <1>4, <1>5, <1>6, <1>7, <1>8, <1>9, <1>10 DEF Next, MainThread

(* ApplyPatch returned true: every modified, added and equal file has the  *)
(* content of the new release, so the CRC check that follows agrees, after *)
(* any faults, crashes and repeated calls.  For releases in which a        *)
(* companion comes and goes only with its .pak, the only hypothesis: the   *)
(* run about EntriesApplied shows what happens without it.                 *)
THEOREM TrueIsVerified ==
  ASSUME CompanionsStay
  PROVE  Spec => []TrueMeansVerified
<1> DEFINE IInv == SlotInv /\ CallInv /\ FilesOK /\ FileInv /\ EndInv /\ TrueInv
<1>1. Init => IInv
  <2> SUFFICES ASSUME Init PROVE IInv
    OBVIOUS
  <2>1. FilesOK /\ FileInv
    BY InitFiles DEF FileInv, Init
  <2>2. EndInv
    BY ManagerAssumption DEF EndInv, Init
  <2>3. RelStay
    <3>1. rel \in Releases
      BY DEF Init
    <3>2. \A c \in Chunk, e \in Ext : /\ rel[c].old["pak"] = 0 => rel[c].old[e] = 0
                                      /\ rel[c].new["pak"] = 0 => rel[c].new[e] = 0
      BY <3>1, ManagerAssumption
    <3>3. \A c \in Chunk, e \in Ext :
            rel[c].old["pak"] # 0 /\ rel[c].new["pak"] # 0 => (rel[c].old[e] = 0 <=> rel[c].new[e] = 0)
      BY <3>1 DEF CompanionsStay
    <3> QED
      BY <3>2, <3>3 DEF RelStay
  <2>4. \A c \in Chunk, e \in Ext : ~rel[c].renamed => isOld(c, e)
    BY <2>1 DEF FilesOK, Init
  <2>5. TrueInv
    BY <2>3, <2>4 DEF TrueInv, Init, TrueMeansVerified
  <2> QED
    BY <2>1, <2>2, <2>5, InitRunner
<1>2. IInv /\ [Next]_vars => IInv'
  BY NextRunner, NextFiles, NextFileInv, NextEnd, NextTrue
<1>3. IInv => TrueMeansVerified
  BY DEF TrueInv
<1> QED
  BY <1>1, <1>2, <1>3, PTL DEF Spec

===========================================================================
