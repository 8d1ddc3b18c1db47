---------------------------- MODULE PTaskRunner ----------------------------
(* FPPakPatcherTaskRunner of the Unreal plugin: the caller submits tasks,   *)
(* at most threadNum of them run at a time, Wait() collects their futures.  *)
(* A task is named by the chunk it works on.  The engine's thread pool,     *)
(* its auto-reset event and its futures are external and modelled by what   *)
(* the runner relies on.                                                    *)
EXTENDS Integers, FiniteSets

CONSTANTS Chunk,      \* the chunks of a release, one task each
          ThreadNums  \* the settings of PatchTaskThreadNum that are tried

ASSUME RunnerAssumption == IsFiniteSet(Chunk) /\ ThreadNums \subseteq Int

VARIABLES threadNum,     \* InThreadNum of the constructor
          RunningCount,  \* slots in use, guarded by SlotCS
          slotFree,      \* SlotFreeEvent is signalled
          spc,           \* where the submitting thread is
          tstate         \* the life of each task

runnerVars == <<RunningCount, slotFree, spc, tstate>>

(* InThreadNum < 1 selects the synchronous mode. *)
Sync == threadNum < 1

Unused == [c \in Chunk |-> "none"]

RunnerInit == /\ threadNum \in ThreadNums
              /\ RunningCount = 0 /\ slotFree = FALSE
              /\ spc = "submit" /\ tstate = Unused

(* A new runner: the constructor, called by CreatePatch and by ApplyPatch. *)
NewRunner == RunningCount' = 0 /\ slotFree' = FALSE /\ spc' = "submit" /\ tstate' = Unused

(* Fault: one task too many. *)
hasSlotOneMore == RunningCount <= threadNum

hasSlot == RunningCount < threadNum

(* Submit: in the synchronous mode the caller itself runs the task; else   *)
(* WaitForSlot has found a slot and Async hands the task to the pool.      *)
SubmitSync(c) == /\ Sync /\ spc = "submit" /\ tstate[c] = "none"
                 /\ spc' = "inline" /\ tstate' = [tstate EXCEPT ![c] = "running"]
                 /\ UNCHANGED <<RunningCount, slotFree>>

SubmitAsync(c) == /\ ~Sync /\ spc = "submit" /\ tstate[c] = "none" /\ hasSlot
                  /\ RunningCount' = RunningCount + 1
                  /\ tstate' = [tstate EXCEPT ![c] = "queued"]
                  /\ UNCHANGED <<slotFree, spc>>

(* WaitForSlot finds no slot, leaves the critical section and then waits   *)
(* for the event, which may have been triggered in between.                *)
NoSlot(tasks) == /\ ~Sync /\ spc = "submit" /\ ~hasSlot
                 /\ \E c \in tasks : tstate[c] = "none"
                 /\ spc' = "sleep"
                 /\ UNCHANGED <<RunningCount, slotFree, tstate>>

SlotWake == /\ spc = "sleep" /\ slotFree
            /\ slotFree' = FALSE /\ spc' = "submit"
            /\ UNCHANGED <<RunningCount, tstate>>

Submit(tasks) == \/ \E c \in tasks : SubmitSync(c) \/ SubmitAsync(c)
                 \/ NoSlot(tasks)
                 \/ SlotWake

TaskStart(c) == /\ tstate[c] = "queued"
                /\ tstate' = [tstate EXCEPT ![c] = "running"]
                /\ UNCHANGED <<RunningCount, slotFree, spc>>

(* The task's function has returned. *)
BodyReturned(c) ==
    /\ tstate' = [tstate EXCEPT ![c] = IF Sync THEN "done" ELSE "release"]
    /\ spc' = IF Sync THEN "submit" ELSE spc
    /\ UNCHANGED <<RunningCount, slotFree>>

(* Fault: the submitter is not told of the free slot. *)
SlotTriggerForgotten(c) == /\ tstate[c] = "trigger"
                           /\ tstate' = [tstate EXCEPT ![c] = "done"]
                           /\ UNCHANGED <<RunningCount, slotFree, spc>>

(* The destructor of FSlotGuard: the slot is given back under SlotCS, then *)
(* the event is triggered; only then is the future ready.                  *)
SlotRelease(c) == /\ tstate[c] = "release"
                  /\ RunningCount' = RunningCount - 1
                  /\ tstate' = [tstate EXCEPT ![c] = "trigger"]
                  /\ UNCHANGED <<slotFree, spc>>

SlotTrigger(c) == /\ tstate[c] = "trigger"
                  /\ slotFree' = TRUE
                  /\ tstate' = [tstate EXCEPT ![c] = "done"]
                  /\ UNCHANGED <<RunningCount, spc>>

PoolThread(c) == TaskStart(c) \/ SlotRelease(c) \/ SlotTrigger(c)

(* Wait: F.Get() of every future. *)
AllWaited(tasks) == spc = "submit" /\ \A c \in tasks : tstate[c] = "done"

(* A task is at work, or still uses the runner's slots and event. *)
Working(c) == tstate[c] \in {"running", "release", "trigger"}
=============================================================================
