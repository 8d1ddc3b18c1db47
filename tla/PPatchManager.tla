--------------------------- MODULE PPatchManager ---------------------------
(* FPPatchManager of the Unreal plugin.  CreatePatch compares two releases  *)
(* chunk by chunk and fills a patch directory; ApplyPatch brings a client's *)
(* resource directory from the old release to the new one and replaces the  *)
(* files of a modified chunk (.pak, .utoc, .ucas) by renames that are       *)
(* rolled back when one fails.  File operations fail, the process dies in   *)
(* the middle of ApplyPatch and the caller tries again.                     *)
(*                                                                          *)
(* A file's content is a version: 0 no such file, 1 the old release's,      *)
(* 2 the new release's where it differs, Bad neither.  Hashes are compared  *)
(* as contents.  Paths are <<chunk, extension>> with the suffix as a field: *)
(* file, new (.new), bak (.bak).                                            *)
EXTENDS PTaskRunner, Sequences, SequencesExt

CONSTANTS Releases,      \* the pairs of releases that are tried, chunk by chunk
          QuietReleases, \* those that are tried without failures and crashes
          PakPatchModes, \* the settings of PakPatchMode: "Binary", "PakAware"
          HashCheck,     \* CheckFileHashType is not None
          MaxFaults,     \* file operations that may fail
          MaxCrashes,    \* times the process may die
          MaxCalls       \* calls of ApplyPatch

Ext == {"pak", "utoc", "ucas"}
Bad == 3
Companions == Ext \ {"pak"}

(* The files of a chunk in the two releases; the names may have changed.   *)
ChunkRelease == [old : [Ext -> {0, 1}], new : [Ext -> {0, 1, 2}], renamed : BOOLEAN]

ASSUME ManagerAssumption ==
    /\ Releases \subseteq [Chunk -> ChunkRelease] /\ QuietReleases \subseteq Releases
    /\ \A r \in Releases : \A c \in Chunk, e \in Ext : /\ r[c].old["pak"] = 0 => r[c].old[e] = 0
                                                       /\ r[c].new["pak"] = 0 => r[c].new[e] = 0
    /\ PakPatchModes \subseteq {"Binary", "PakAware"} /\ HashCheck \in BOOLEAN
    /\ MaxFaults \in Nat /\ MaxCrashes \in Nat /\ MaxCalls \in Nat

VARIABLES rel,         \* the two releases, chunk by chunk
          sameMeta,    \* the two md5_file_list.txt agree: [platform, channel]
          mode,        \* PakPatchMode, kept in the patch files
          manifest,    \* patch_manifest.txt: the items by chunk
          patchFiles,  \* the chunks that have a .patch file in PatchDir
          copies,      \* the files copied into PatchDir, by path
          res,         \* ResDir
          mpc,         \* where the caller of CreatePatch/ApplyPatch is
          failed,      \* NumFailed > 0
          created, applied,  \* the last results: "none", "true", "false"
          TaskResults, \* the tasks' results
          tpc, at,     \* where a task is, and at which of its files
          toBak, fromNew,    \* FOp.bMovedToBak, FOp.bMovedFromNew
          faults, crashes, calls

patchVars == <<manifest, patchFiles, copies>>
taskVars == <<TaskResults, tpc, at, toBak, fromNew>>
envVars == <<rel, sameMeta, mode, threadNum>>
boundVars == <<faults, crashes, calls>>
vars == <<envVars, runnerVars, patchVars, res, mpc, failed, created, applied, taskVars, boundVars>>

---------------------------------------------------------------------------
(* The manifest *)

None == [e \in Ext |-> "None"]

(* What CreatePatch says of a file: .pak by its MD5s when there is an old  *)
(* chunk, a companion by which sides have it and by their MD5s.            *)
DiffType(c, e) ==
    LET o == rel[c].old[e]
        n == rel[c].new[e]
    IN  CASE o = 0 /\ n = 0 -> "None"
          [] o = 0 /\ n # 0 -> "Add"
          [] o # 0 /\ n = 0 -> "Delete"
          [] OTHER -> IF o = n THEN "Equal" ELSE "Modify"

ItemOf(c) == [e \in Ext |-> DiffType(c, e)]

Priority(t) == CASE t = "Modify" -> 4 [] t = "Add" -> 3 [] t = "Delete" -> 2
                 [] t = "Equal" -> 1 [] OTHER -> 0

(* The heaviest of the three files decides for the chunk. *)
GetChunkDiffType(item) ==
    LET types == {item[e] : e \in Ext}
    IN  CHOOSE t \in types : \A u \in types : Priority(u) <= Priority(t)

hasOld(c) == rel[c].old["pak"] # 0
hasNew(c) == rel[c].new["pak"] # 0

(* FindOldFileForNew goes by the chunk's name, so a chunk whose file was   *)
(* renamed has an old side too; all that is not Equal becomes a patch.     *)
createTasks == {c \in Chunk : hasOld(c) /\ hasNew(c) /\ GetChunkDiffType(ItemOf(c)) # "Equal"}

addedFiles(c) == {e \in Ext : rel[c].new[e] # 0}

---------------------------------------------------------------------------
(* File operations: each may fail. *)

Works == UNCHANGED faults
Fails == faults > 0 /\ faults' = faults - 1

NoFiles == [c \in Chunk |-> [e \in Ext |-> 0]]
Put(c, e, suffix, v) == res' = [res EXCEPT ![c][e][suffix] = v]
(* IFileManager::Move with replace. *)
Move(c, e, to, from) ==
    res' = [res EXCEPT ![c][e][to] = res[c][e][from], ![c][e][from] = 0]

---------------------------------------------------------------------------
(* CreatePatch *)

CreateLoadFails == /\ mpc = "create"
                   /\ \/ ~sameMeta.platform /\ Works
                      \/ Fails
                   /\ created' = "false" /\ mpc' = "stop"
                   /\ UNCHANGED <<envVars, runnerVars, patchVars, res, failed, applied, taskVars, crashes, calls>>

(* Steps 4 to 6: the loop over the new .paks.  A chunk without an old side *)
(* is copied; when its .pak cannot be copied it is left out, a companion's *)
(* copy may fail unnoticed.                                                *)
CreateCollect ==
    /\ mpc = "create" /\ sameMeta.platform
    /\ LET new == {c \in Chunk : hasNew(c) /\ ~hasOld(c)}
       IN  \E lost \in SUBSET {p \in new \X Ext : p[2] \in addedFiles(p[1])} :
             /\ Cardinality(lost) <= faults /\ faults' = faults - Cardinality(lost)
             /\ LET skipped == {c \in new : <<c, "pak">> \in lost}
                IN  /\ failed' = (skipped # {})
                    /\ copies' = [c \in Chunk |-> [e \in Ext |->
                         IF c \in new \ skipped /\ <<c, e>> \notin lost THEN rel[c].new[e] ELSE 0]]
                    /\ manifest' = [c \in Chunk |->
                         IF hasNew(c) /\ c \notin createTasks \cup skipped THEN ItemOf(c) ELSE None]
    /\ NewRunner /\ mpc' = "createRun"
    /\ TaskResults' = [c \in Chunk |-> FALSE]
    /\ tpc' = [c \in Chunk |-> IF c \in createTasks THEN "diff" ELSE "end"]
    /\ UNCHANGED <<envVars, patchFiles, res, created, applied, at, toBak, fromNew, crashes, calls>>

(* A task: FPResPatcher::CreateDiff writes the .patch file. *)
CreateDiff(c) ==
    /\ tpc[c] = "diff"
    /\ \/ Works /\ patchFiles' = patchFiles \cup {c} /\ TaskResults' = [TaskResults EXCEPT ![c] = TRUE]
       \/ Fails /\ UNCHANGED <<patchFiles, TaskResults>>
    /\ tpc' = [tpc EXCEPT ![c] = "end"]
    /\ BodyReturned(c)
    /\ UNCHANGED <<manifest, copies, res, at, toBak, fromNew>>

(* The items of the tasks that worked, the Delete items, and Save. *)
CreateSum ==
    /\ mpc = "createRun" /\ AllWaited(createTasks)
    /\ LET lost == {c \in createTasks : ~TaskResults[c]}
       IN  /\ failed' = (failed \/ lost # {})
           /\ manifest' = [c \in Chunk |->
                IF c \in createTasks \ lost \/ (hasOld(c) /\ ~hasNew(c)) THEN ItemOf(c) ELSE manifest[c]]
    /\ \/ Works /\ created' = IF failed' THEN "false" ELSE "true"
       \/ Fails /\ created' = "false"
    /\ mpc' = IF created' = "true" THEN "idle" ELSE "stop"
    /\ UNCHANGED <<envVars, runnerVars, patchFiles, copies, res, applied, taskVars, crashes, calls>>

---------------------------------------------------------------------------
(* The patch file of a chunk: FPResPatcher::CreateBinDiff in Binary mode,  *)
(* FPPakPatcher and FPIoStorePatcher in the PakAware modes.                *)

(* The files whose new content the patch file yields. *)
Outputs(c) ==
    {"pak"} \cup {e \in Companions :
        IF mode = "Binary" THEN DiffType(c, e) = "Modify" ELSE rel[c].new[e] # 0}

(* Output is a difference to the old file (else the whole new file). *)
isPatchData(c, e) == rel[c].old[e] # 0

(* Whose hash PatchDiff checks before it patches.  In Binary mode the      *)
(* companions are patched unchecked.                                       *)
checksOld(c, e) == HashCheck /\ isPatchData(c, e) /\ (mode = "Binary" => e = "pak")
checksNew(e) == HashCheck /\ mode = "Binary" /\ e = "pak"

(* The files of a chunk are always gone through in the order .pak, .utoc,  *)
(* .ucas.                                                                  *)
ifIn(S, e) == IF e \in S THEN <<e>> ELSE <<>>
seqOf(S) == ifIn(S, "pak") \o ifIn(S, "utoc") \o ifIn(S, "ucas")

(* The contents PatchDiff may write for a file; {} means it must fail.  A  *)
(* difference applied to another file than the one it was made from fails  *)
(* (the sizes differ) or yields something else.                            *)
PatchedContents(c, e) ==
    LET o == res[c][e].file
        from == ~isPatchData(c, e) \/ o = rel[c].old[e]
    IN  IF isPatchData(c, e) /\ (o = 0 \/ (checksOld(c, e) /\ ~from)) THEN {}
        ELSE IF from THEN {rel[c].new[e]} ELSE {Bad}

---------------------------------------------------------------------------
(* ApplyPatch *)

applyTasks == {c \in Chunk : GetChunkDiffType(manifest[c]) = "Modify"}

CheckCompatibility == sameMeta.platform /\ sameMeta.channel

(* A call: load both manifests, check that the patch fits, then the loop   *)
(* over the items.  Adds copy .pak, .utoc, .ucas and stop at the first     *)
(* that fails; deletes ignore failures; modified chunks become tasks.      *)
ApplyRefused ==
    /\ mpc = "idle" /\ calls < MaxCalls /\ calls' = calls + 1
    /\ \/ ~CheckCompatibility /\ Works
       \/ Fails
    /\ applied' = "false"
    /\ UNCHANGED <<envVars, runnerVars, patchVars, res, mpc, failed, created, taskVars, crashes>>

ofType(t) == {c \in Chunk : GetChunkDiffType(manifest[c]) = t}
validFiles(c) == {e \in Ext : manifest[c][e] # "None"}
upTo(e) == CASE e = "pak" -> {"pak"} [] e = "utoc" -> {"pak", "utoc"} [] OTHER -> Ext

ApplyLoop ==
    /\ mpc = "idle" /\ calls < MaxCalls /\ calls' = calls + 1 /\ CheckCompatibility
    /\ \E bad \in SUBSET {p \in (ofType("Add") \cup ofType("Delete")) \X Ext : p[2] \in validFiles(p[1])} :
         LET copied(c) == {e \in validFiles(c) : \A f \in validFiles(c) \cap upTo(e) :
                                                    copies[c][f] # 0 /\ <<c, f>> \notin bad}
         IN  /\ Cardinality(bad) <= faults /\ faults' = faults - Cardinality(bad)
             /\ failed' = \E c \in ofType("Add") : copied(c) # validFiles(c)
             /\ res' = [c \in Chunk |-> [e \in Ext |-> [res[c][e] EXCEPT !.file =
                  IF c \in ofType("Add") /\ e \in copied(c) THEN copies[c][e]
                  ELSE IF c \in ofType("Delete") /\ e \in validFiles(c) /\ <<c, e>> \notin bad THEN 0
                  ELSE @]]]
    /\ NewRunner /\ mpc' = "applyRun" /\ applied' = "none"
    /\ TaskResults' = [c \in Chunk |-> FALSE]
    /\ tpc' = [c \in Chunk |-> IF c \in applyTasks THEN "load" ELSE "end"]
    /\ at' = [c \in Chunk |-> 1] /\ toBak' = [c \in Chunk |-> {}] /\ fromNew' = [c \in Chunk |-> {}]
    /\ UNCHANGED <<envVars, patchVars, created, crashes>>

(* The task of a modified chunk.  TaskResults[i] is set where it returns.  *)
Goto(c, label) == tpc' = [tpc EXCEPT ![c] = label]
Return(c, ok) == /\ Goto(c, "end")
                 /\ TaskResults' = [TaskResults EXCEPT ![c] = ok]
                 /\ BodyReturned(c)
Stay == UNCHANGED <<TaskResults, runnerVars>>

LoadPatch(c) ==
    /\ tpc[c] = "load"
    /\ \/ c \in patchFiles /\ Works /\ Goto(c, "patch") /\ Stay
       \/ c \notin patchFiles /\ Works /\ Return(c, FALSE)
       \/ Fails /\ Return(c, FALSE)
    /\ UNCHANGED <<res, at, toBak, fromNew>>

(* PatchDiff writes the outputs one after the other. *)
PatchDiff(c) ==
    LET files == seqOf(Outputs(c))
        e == files[at[c]]
        last == at[c] = Len(files)
    IN  /\ tpc[c] = "patch"
        /\ \/ \E v \in PatchedContents(c, e) :
                /\ Works /\ Put(c, e, "new", v)
                /\ IF checksNew(e) /\ v # rel[c].new[e]
                   THEN Goto(c, "clean") /\ UNCHANGED at
                   ELSE /\ Goto(c, IF last THEN "preflight" ELSE "patch")
                        /\ at' = [at EXCEPT ![c] = IF last THEN 1 ELSE @ + 1]
           \/ /\ PatchedContents(c, e) \in {{}, {Bad}}
              /\ Works /\ Goto(c, "clean") /\ UNCHANGED <<res, at>>
           \/ /\ Fails /\ Put(c, e, "new", Bad) /\ Goto(c, "clean") /\ UNCHANGED at
        /\ Stay /\ UNCHANGED <<toBak, fromNew>>

(* Fault: the leftover backups are cleaned up too. *)
CleanNewAndBak(c) ==
    /\ tpc[c] = "clean" /\ Works
    /\ res' = [res EXCEPT ![c] = [e \in Ext |-> [res[c][e] EXCEPT !.new = 0, !.bak = 0]]]
    /\ Return(c, FALSE)
    /\ UNCHANGED <<at, toBak, fromNew>>

(* A failed PatchDiff: the .new files of the valid entries are deleted. *)
CleanNew(c) ==
    /\ tpc[c] = "clean"
    /\ \E kept \in {{}} \cup {{e} : e \in validFiles(c)} :
         /\ IF kept = {} THEN Works ELSE Fails
         /\ res' = [res EXCEPT ![c] = [e \in Ext |->
              IF e \in validFiles(c) \ kept THEN [res[c][e] EXCEPT !.new = 0] ELSE res[c][e]]]
    /\ Return(c, FALSE)
    /\ UNCHANGED <<at, toBak, fromNew>>

(* ReplaceFilesAtomic.  Its operations are the files of type Modify. *)
Ops(c) == seqOf({e \in Ext : manifest[c][e] = "Modify"})
op(c) == Ops(c)[at[c]]

(* Phase 0: every .new must be there; a .bak left over is deleted, and     *)
(* whether that worked is not looked at.                                   *)
Preflight(c) ==
    LET missing == {i \in 1..Len(Ops(c)) : res[c][Ops(c)[i]].new = 0}
        looked == {Ops(c)[i] : i \in {j \in 1..Len(Ops(c)) : \A k \in missing : j < k}}
        stale == {e \in looked : res[c][e].bak # 0}
    IN  /\ tpc[c] = "preflight"
        /\ \E kept \in {{}} \cup {{e} : e \in stale} :
             /\ IF kept = {} THEN Works ELSE Fails
             /\ res' = [res EXCEPT ![c] = [e \in Ext |->
                  IF e \in stale \ kept THEN [res[c][e] EXCEPT !.bak = 0] ELSE res[c][e]]]
        /\ IF missing = {} THEN Goto(c, "toBak") /\ Stay ELSE Return(c, FALSE)
        /\ UNCHANGED <<at, toBak, fromNew>>

RollBack(c) == /\ Goto(c, "undoNew") /\ at' = [at EXCEPT ![c] = Len(Ops(c))]
               /\ UNCHANGED <<res, toBak, fromNew>>

(* Phase 1a: the file, if there is one, becomes .bak. *)
MoveToBak(c) ==
    /\ tpc[c] = "toBak"
    /\ \/ /\ res[c][op(c)].file # 0 /\ Works /\ Move(c, op(c), "bak", "file")
          /\ toBak' = [toBak EXCEPT ![c] = @ \cup {op(c)}]
          /\ Goto(c, "fromNew") /\ UNCHANGED <<at, fromNew>>
       \/ /\ res[c][op(c)].file # 0 /\ Fails /\ RollBack(c)
       \/ /\ res[c][op(c)].file = 0 /\ Works /\ Goto(c, "fromNew")
          /\ UNCHANGED <<res, at, toBak, fromNew>>
    /\ Stay

(* Fault: a failed 1b returns without the roll back. *)
MoveFromNewNoUndo(c) ==
    /\ tpc[c] = "fromNew"
    /\ \/ /\ Works /\ Move(c, op(c), "file", "new")
          /\ fromNew' = [fromNew EXCEPT ![c] = @ \cup {op(c)}]
          /\ at' = [at EXCEPT ![c] = @ + 1]
          /\ Goto(c, IF at[c] = Len(Ops(c)) THEN "commit" ELSE "toBak")
          /\ Stay
       \/ Fails /\ Return(c, FALSE) /\ UNCHANGED <<res, at, fromNew>>
    /\ UNCHANGED toBak

(* Phase 1b: .new becomes the file. *)
MoveFromNew(c) ==
    /\ tpc[c] = "fromNew"
    /\ \/ /\ Works /\ Move(c, op(c), "file", "new")
          /\ fromNew' = [fromNew EXCEPT ![c] = @ \cup {op(c)}]
          /\ at' = [at EXCEPT ![c] = @ + 1]
          /\ Goto(c, IF at[c] = Len(Ops(c)) THEN "commit" ELSE "toBak")
          /\ UNCHANGED toBak
       \/ Fails /\ RollBack(c)
    /\ Stay

(* Phase 2: the backups are deleted; whether that worked is not looked at. *)
Commit(c) ==
    /\ tpc[c] = "commit"
    /\ \E kept \in {{}} \cup {{e} : e \in toBak[c]} :
         /\ IF kept = {} THEN Works ELSE Fails
         /\ res' = [res EXCEPT ![c] = [e \in Ext |->
              IF e \in toBak[c] \ kept THEN [res[c][e] EXCEPT !.bak = 0] ELSE res[c][e]]]
    /\ Return(c, TRUE)
    /\ UNCHANGED <<at, toBak, fromNew>>

(* The roll back, from the last operation to the first, goes on when a     *)
(* move fails.                                                             *)
UndoNew(c) ==
    /\ tpc[c] = "undoNew"
    /\ \/ op(c) \in fromNew[c] /\ Works /\ Move(c, op(c), "new", "file")
       \/ op(c) \in fromNew[c] /\ Fails /\ UNCHANGED res
       \/ op(c) \notin fromNew[c] /\ Works /\ UNCHANGED res
    /\ Goto(c, "undoBak") /\ Stay /\ UNCHANGED <<at, toBak, fromNew>>

UndoBak(c) ==
    /\ tpc[c] = "undoBak"
    /\ \/ op(c) \in toBak[c] /\ Works /\ Move(c, op(c), "file", "bak")
       \/ op(c) \in toBak[c] /\ Fails /\ UNCHANGED res
       \/ op(c) \notin toBak[c] /\ Works /\ UNCHANGED res
    /\ at' = [at EXCEPT ![c] = @ - 1]
    /\ IF at[c] = 1 THEN Return(c, FALSE) ELSE Goto(c, "undoNew") /\ Stay
    /\ UNCHANGED <<toBak, fromNew>>

ApplyStep(c) == \/ LoadPatch(c) \/ PatchDiff(c) \/ CleanNew(c) \/ Preflight(c)
                \/ MoveToBak(c) \/ MoveFromNew(c) \/ Commit(c) \/ UndoNew(c) \/ UndoBak(c)

(* Fault: that Wait() returned is taken for the success of the tasks. *)
tasksFailedNever == FALSE

tasksFailed == \E c \in applyTasks : ~TaskResults[c]

ApplySum ==
    /\ mpc = "applyRun" /\ AllWaited(applyTasks)
    /\ failed' = (failed \/ tasksFailed)
    /\ applied' = IF failed' THEN "false" ELSE "true"
    /\ mpc' = "idle"
    /\ UNCHANGED <<envVars, runnerVars, patchVars, res, created, taskVars, boundVars>>

(* The process dies in ApplyPatch; a file that was being written is torn. *)
Crash ==
    /\ mpc = "applyRun" /\ rel \notin QuietReleases /\ crashes < MaxCrashes /\ crashes' = crashes + 1
    /\ \E torn \in SUBSET {c \in Chunk : tpc[c] = "patch" /\ tstate[c] = "running"} :
         res' = [c \in Chunk |-> [e \in Ext |->
           IF c \in torn /\ e = seqOf(Outputs(c))[at[c]] THEN [res[c][e] EXCEPT !.new = Bad] ELSE res[c][e]]]
    /\ NewRunner /\ mpc' = "idle" /\ applied' = "none"
    /\ tpc' = [c \in Chunk |-> "end"]
    /\ UNCHANGED <<envVars, patchVars, failed, created, TaskResults, at, toBak, fromNew, faults, calls>>

---------------------------------------------------------------------------
(* VerifyAfterPatch (and, for the old side, VerifyBeforePatch), given the  *)
(* CRCs of the files of a directory as the resource updater computes them. *)
(* A CRC that is missing is a failure (bAllowMissing is false).            *)

VerifyCrcInternal(bUseNewSide) ==
    \A c \in Chunk, e \in Ext :
        LET type == manifest[c][e]
            checked == type \in (IF bUseNewSide THEN {"Modify", "Add", "Equal"} ELSE {"Modify", "Delete"})
            expected == IF bUseNewSide THEN rel[c].new[e] ELSE rel[c].old[e]
        IN  checked => res[c][e].file = expected

VerifyAfterPatch == VerifyCrcInternal(TRUE)

---------------------------------------------------------------------------

(* ResDir holds the old release; a renamed chunk has no file of the name   *)
(* the manifest will give.                                                 *)
Init ==
    /\ RunnerInit
    /\ rel \in Releases
    /\ sameMeta \in [platform : BOOLEAN, channel : BOOLEAN]
    /\ mode \in PakPatchModes
    /\ manifest = [c \in Chunk |-> None] /\ patchFiles = {} /\ copies = NoFiles
    /\ res = [c \in Chunk |-> [e \in Ext |->
         [file |-> IF rel[c].renamed THEN 0 ELSE rel[c].old[e], new |-> 0, bak |-> 0]]]
    /\ mpc = "create" /\ failed = FALSE /\ created = "none" /\ applied = "none"
    /\ TaskResults = [c \in Chunk |-> FALSE] /\ tpc = [c \in Chunk |-> "end"]
    /\ at = [c \in Chunk |-> 1]
    /\ toBak = [c \in Chunk |-> {}] /\ fromNew = [c \in Chunk |-> {}]
    /\ faults = (IF rel \in QuietReleases THEN 0 ELSE MaxFaults) /\ crashes = 0 /\ calls = 0

tasks == IF mpc = "createRun" THEN createTasks ELSE applyTasks
running == mpc \in {"createRun", "applyRun"}

Submitter == /\ running /\ Submit(tasks)
             /\ UNCHANGED <<envVars, patchVars, res, mpc, failed, created, applied, taskVars, boundVars>>

Task(c) ==
    /\ running
    /\ \/ /\ PoolThread(c) /\ UNCHANGED <<patchVars, res, taskVars, faults>>
       \/ /\ tstate[c] = "running"
          /\ CreateDiff(c) \/ (ApplyStep(c) /\ UNCHANGED patchVars)
    /\ UNCHANGED <<envVars, mpc, failed, created, applied, crashes, calls>>

MainThread == CreateLoadFails \/ CreateCollect \/ CreateSum \/ ApplySum \/ Submitter

Next == \/ MainThread
        \/ \E c \in Chunk : Task(c)
        \/ ApplyRefused \/ ApplyLoop
        \/ Crash

Spec == Init /\ [][Next]_vars

(* Threads of the pool and of the caller run; nobody has to call again.    *)
FairSpec == Spec /\ WF_vars(MainThread) /\ \A c \in Chunk : WF_vars(Task(c))

---------------------------------------------------------------------------
(* Properties *)

modified == {p \in Chunk \X Ext : manifest[p[1]][p[2]] = "Modify"}

(* Some old files are patched without a check of their hash. *)
Unchecked == mode = "Binary" \/ ~HashCheck

firstOrChecked == Unchecked => calls <= 1

(* ApplyPatch returned true: every file of a modified chunk, and every     *)
(* added one, has the content of the new release, and the CRC check that   *)
(* is meant to follow agrees.  In the PakAware modes with hash checks this *)
(* holds after crashes and repeated calls too, in Binary mode, which       *)
(* patches the companions unchecked, for the first call.                   *)
TrueMeansVerified ==
    (applied = "true" /\ firstOrChecked /\ \A c \in Chunk : ~rel[c].renamed) => VerifyAfterPatch

(* "Within a chunk all or nothing": when ApplyPatch has returned, and at   *)
(* most one file operation failed and the process never died, the files a  *)
(* patch modifies are all old or all new in each chunk.                    *)
ChunkAllOrNothing ==
    (applied # "none" /\ firstOrChecked /\ crashes = 0 /\ faults >= MaxFaults - 1) =>
        \A c \in applyTasks :
            \/ rel[c].renamed
            \/ \A e \in ToSet(Ops(c)) : res[c][e].file = rel[c].old[e]
            \/ \A e \in ToSet(Ops(c)) : res[c][e].file = rel[c].new[e]

(* When ApplyPatch returned true every entry of the manifest was handled   *)
(* as PPatchManifestFile.h says for its type: Equal, nothing is done;      *)
(* Modify and Add, the new content; Delete, no file.                       *)
EntriesApplied ==
    applied = "true" => \A c \in Chunk, e \in Ext :
        LET type == manifest[c][e]
        IN  /\ type = "Equal" => res[c][e].file = rel[c].old[e]
            /\ type \in {"Modify", "Add"} => res[c][e].file = rel[c].new[e]
            /\ type = "Delete" => res[c][e].file = 0

(* Whatever fails and whenever the process dies: of every file that a      *)
(* patch modifies the old or the new content is in the directory, under    *)
(* its name, as .bak or as .new.                                           *)
NoVersionLost ==
    (mpc \in {"idle", "applyRun"} /\ firstOrChecked) =>
        \A p \in modified :
            LET c == p[1]
                e == p[2]
            IN  rel[c].renamed \/ \E s \in {"file", "new", "bak"} :
                                     res[c][e][s] \in {rel[c].old[e], rel[c].new[e]}

(* Never more tasks at work than threads asked for, and none is at work,   *)
(* or still holds the runner's event, when the call has returned.          *)
RunnerBounded ==
    /\ Cardinality({c \in Chunk : tstate[c] = "running"}) <= IF Sync THEN 1 ELSE threadNum
    /\ ~running => \A c \in Chunk : ~Working(c)

(* Both operations return: the submitting thread is woken whenever a task  *)
(* it may wait for has ended, also when the ends of two tasks, between its *)
(* look at the count and its wait, leave one signal only.                  *)
PatchReturns == running ~> ~running
=============================================================================
