----------------------------- MODULE DirPatch -----------------------------
(* hpatch_dir: a directory is patched, either into a new directory or over *)
(* the old one.  In the second case the new files are made in a temporary  *)
(* directory, unchanged files are moved there from the old directory, the  *)
(* listed old paths are deleted and the temporary directory is moved to    *)
(* the place of the old one.  Paths, contents and checksums are values;    *)
(* a checksum is the data it is made of.                                   *)
EXTENDS Integers, Sequences, SequencesExt, FiniteSets

CONSTANTS PathOrder,     \* the paths, root first, a directory before what it holds
          Parent,        \* the directory of a path; the root is its own
          DirReleases,   \* records old, new, user: what each path is
          DirMaxFaults   \* file operations that may fail

NoNode == <<-1>>
DirNode == <<-2>>
Garbage == 99

Path == Range(PathOrder)
Root == PathOrder[1]
isFile(node) == node \notin {NoNode, DirNode}
hasData(node) == isFile(node) /\ node # <<>>

ASSUME DirAssumption ==
    /\ Parent \in [Path -> Path] /\ DirMaxFaults \in Nat
    /\ \A r \in DirReleases : \A t \in {r.old, r.new} :
          t[Root] = DirNode /\ \A p \in Path : t[p] # NoNode => t[Parent[p]] = DirNode

VARIABLES dirIn,        \* release, mode, checks and which old file is not as it was
          disk,         \* what each path is in the "old" and in the "new" directory
          dirPc,        \* where hpatch_dir is
          dirAt,        \* index of the loop at work
          curNewFile,   \* the new file that is open, or Root
          oldChecked,   \* the checksum of the old data is done
          garbled,      \* the patch works with wrong old data
          newSum, copySum,       \* data given to the two checksums
          _pOldSameRefCount,
          patchOk,      \* isPatchSuccess
          dirResult,
          hurt,         \* new paths of which a file operation met a fault
          kept,         \* old paths that could not be removed
          dirFaults

dirVars == <<dirIn, disk, dirPc, dirAt, curNewFile, oldChecked, garbled, newSum, copySum,
             _pOldSameRefCount, patchOk, dirResult, hurt, kept, dirFaults>>

---------------------------------------------------------------------------
(* The diff: getRefList *)

oldTree == dirIn.rel.old
newTree == dirIn.rel.new
pathList(tree) == SelectSeq(PathOrder, LAMBDA p : tree[p] # NoNode)
oldList == pathList(oldTree)
newList == pathList(newTree)

(* _TCmp_byHit: an old file that is not used yet, best of the same name;   *)
(* then the same name; then the one that is used most.                     *)
hitValue(newPath, oldPath, pairs) ==
    LET hit == Len(SelectSeq(pairs, LAMBDA pr : pr.old = oldPath))
    IN  IF hit = 0 THEN IF newPath = oldPath THEN 1003 ELSE 1002
        ELSE IF newPath = oldPath THEN 1001 ELSE hit

samePairs(rel) ==
    FoldLeft(LAMBDA pairs, p :
                 LET same == {q \in Path : rel.old[q] = rel.new[p]}
                     best == CHOOSE q \in same : \A o \in same : hitValue(p, o, pairs) <= hitValue(p, q, pairs)
                 IN  IF hasData(rel.new[p]) /\ same # {} THEN Append(pairs, [new |-> p, old |-> best]) ELSE pairs,
             <<>>, pathList(rel.new))

dataSamePairList == dirIn.pairs
pairOf(p) == {i \in 1..Len(dataSamePairList) : dataSamePairList[i].new = p}
oldRefs == {p \in Path : hasData(oldTree[p]) /\ \A i \in 1..Len(dataSamePairList) : dataSamePairList[i].old # p}
newRefs == {p \in Path : hasData(newTree[p]) /\ pairOf(p) = {}}
concat(tree, paths) == FlattenSeq([i \in 1..Len(PathOrder) |->
                                     IF PathOrder[i] \in paths THEN tree[PathOrder[i]] ELSE <<>>])

---------------------------------------------------------------------------
(* The file system (external): what an operation does when it works *)

children(place, p) == {q \in Path \ {Root} : Parent[q] = p /\ disk[place][q] # NoNode}
canCreate(place, p) == p = Root \/ disk[place][Parent[p]] = DirNode
canRemove(place, p) == disk[place][p] # NoNode /\ children(place, p) = {}
set(place, p, node) == [disk EXCEPT ![place][p] = node]

(* What a copy that meets a fault may leave: no new file, or any part of   *)
(* it; the file is closed, not removed.                                    *)
brokenCopies(from, to) ==
    {disk} \cup {set("new", to, SubSeq(disk["old"][from], 1, n)) : n \in 0..Len(disk["old"][from])}

(* A file operation works when it can, unless it meets a fault. *)
Works(can) == can /\ UNCHANGED dirFaults
Fault(can) == can /\ dirFaults > 0 /\ dirFaults' = dirFaults - 1
Cannot(can) == ~can /\ UNCHANGED dirFaults
Breaks(can) == Fault(can) \/ Cannot(can)

---------------------------------------------------------------------------
(* Start *)

inPlace == dirIn.mode = "temp"

(* Each release to be patched in both ways, the checks of the default, of  *)
(* -C-no and of -C-all, with one old file changed, longer or missing.      *)
DirInputs ==
    {i \in [rel : DirReleases, mode : {"temp", "out"}, checks : {{"new", "copy"}, {}, {"old", "new", "copy"}},
            at : Path, change : {"none", "garbage", "longer", "missing"}] :
        /\ (i.change = "none") <=> (i.at = Root)
        /\ i.change # "none" => hasData(i.rel.old[i.at]) }

oldOnDisk(i) ==
    [p \in Path |->
        LET node == IF i.rel.user[p] # NoNode THEN i.rel.user[p] ELSE i.rel.old[p]
        IN  IF i.change = "none" \/ p # i.at THEN node
            ELSE CASE i.change = "garbage" -> [k \in 1..Len(node) |-> Garbage]
                   [] i.change = "longer" -> node \o <<Garbage>>
                   [] OTHER -> NoNode]

DirInit(inputs) ==
    /\ \E i \in inputs :
          /\ dirIn = [rel |-> i.rel, mode |-> i.mode, checks |-> i.checks, at |-> i.at, change |-> i.change,
                      pairs |-> samePairs(i.rel)]
          /\ disk = [old |-> oldOnDisk(i), new |-> [p \in Path |-> NoNode]]
    /\ dirPc = "load" /\ dirAt = 1 /\ curNewFile = Root
    /\ oldChecked = FALSE /\ garbled = FALSE /\ newSum = <<>> /\ copySum = <<>>
    /\ _pOldSameRefCount = [p \in Path |-> 0]
    /\ patchOk = TRUE /\ dirResult = TRUE /\ hurt = {} /\ kept = {} /\ dirFaults = DirMaxFaults

goTo(pc, at) == dirPc' = pc /\ dirAt' = at

sumVars == <<oldChecked, garbled, newSum, copySum>>
endVars == <<dirResult, hurt, kept>>

(* The error exit: the open files are closed, patchFinish is called. *)
PatchFailedLeaving(disks) ==
    /\ goTo("finish", 1) /\ patchOk' = FALSE /\ dirResult' = FALSE /\ curNewFile' = Root
    /\ disk' \in disks
    /\ UNCHANGED <<dirIn, sumVars, _pOldSameRefCount, hurt, kept>>
PatchFailed == PatchFailedLeaving({disk})

(* The head and the directory data are read.  An error before patchBegin   *)
(* calls patchFinish of a listener without a patcher: the temporary        *)
(* directory's listener uses it, the default one does not.                 *)
DirLoad ==
    /\ dirPc = "load"
    /\ \/ /\ Works(TRUE) /\ goTo("oldref", 1) /\ UNCHANGED dirResult
       \/ /\ Fault(TRUE) /\ goTo(IF inPlace THEN "nullpatcher" ELSE "end", 1) /\ dirResult' = FALSE
    /\ UNCHANGED <<dirIn, disk, curNewFile, sumVars, _pOldSameRefCount, patchOk, hurt, kept>>

(* TDirPatcher_openOldRefAsStream: every old file is there and the sizes   *)
(* add up to that of the old data.                                         *)
DirOpenOld ==
    /\ dirPc = "oldref"
    /\ LET isThere == /\ \A p \in oldRefs : isFile(disk["old"][p])
                      /\ Len(concat(disk["old"], oldRefs)) = Len(concat(oldTree, oldRefs))
       IN  \/ /\ Works(isThere) /\ goTo("ready", 1)
              /\ UNCHANGED <<dirIn, disk, curNewFile, sumVars, _pOldSameRefCount, patchOk, endVars>>
           \/ Breaks(isThere) /\ PatchFailed

---------------------------------------------------------------------------
(* hpatch_TNewStream: the paths of the new directory in their order *)

afterReady == IF oldChecked THEN "write" ELSE "patch"

(* Fault: the checksums of the end are not compared. *)
writedFinishTrusting == TRUE

(* _writedFinish: both checksums are those of the diff. *)
writedFinish ==
    /\ "new" \in dirIn.checks => newSum = concat(newTree, newRefs)
    /\ "copy" \in dirIn.checks =>
         copySum = FlattenSeq([i \in 1..Len(dataSamePairList) |-> newTree[dataSamePairList[i].new]])

(* A round of _file_append_ready: a file to be written is opened, a same   *)
(* file is copied (or only read, when it will be moved), a directory or an *)
(* empty file is made.                                                     *)
AppendReady ==
    /\ dirPc = "ready" /\ dirAt <= Len(newList)
    /\ LET p == newList[dirAt]
           from == IF pairOf(p) = {} THEN Root ELSE dataSamePairList[CHOOSE i \in pairOf(p) : TRUE].old
           isRead == isFile(disk["old"][from]) \/ (inPlace /\ "copy" \notin dirIn.checks)
           can == IF pairOf(p) = {} THEN canCreate("new", p) ELSE isRead /\ (inPlace \/ canCreate("new", p))
       IN  \/ /\ Works(can)
              /\ disk' = IF pairOf(p) = {} THEN set("new", p, IF p \in newRefs THEN <<>> ELSE newTree[p])
                         ELSE IF inPlace THEN disk ELSE set("new", p, disk["old"][from])
              /\ copySum' = IF pairOf(p) # {} /\ "copy" \in dirIn.checks THEN copySum \o disk["old"][from] ELSE copySum
              /\ IF p \in newRefs THEN curNewFile' = p /\ goTo(afterReady, dirAt)
                 ELSE curNewFile' = curNewFile /\ goTo("ready", dirAt + 1)
              /\ UNCHANGED <<dirIn, oldChecked, garbled, newSum, _pOldSameRefCount, patchOk, endVars>>
           \/ Cannot(can) /\ PatchFailed
           \/ Fault(can) /\ PatchFailedLeaving(IF pairOf(p) = {} \/ inPlace THEN {disk} ELSE brokenCopies(from, p))

(* _file_entry_end *)
EntryEnd ==
    /\ dirPc = "ready" /\ dirAt > Len(newList) /\ UNCHANGED dirFaults
    /\ IF writedFinish
       THEN /\ goTo(afterReady, dirAt)
            /\ UNCHANGED <<dirIn, disk, curNewFile, sumVars, _pOldSameRefCount, patchOk, endVars>>
       ELSE PatchFailed

(* TDirPatcher_patch: the checksum of the old data, then the patch.  With  *)
(* other old data the patch may make other new data.                       *)
DirPatchBegin ==
    /\ dirPc = "patch"
    /\ LET data == concat(disk["old"], oldRefs)
           isSame == data = concat(oldTree, oldRefs)
           can == "old" \in dirIn.checks => isSame
       IN  \/ /\ Works(can) /\ oldChecked' = TRUE /\ goTo("write", dirAt)
              /\ garbled' \in (IF isSame THEN {FALSE} ELSE BOOLEAN)
              /\ UNCHANGED <<dirIn, disk, curNewFile, newSum, copySum, _pOldSameRefCount, patchOk, endVars>>
           \/ Breaks(can) /\ PatchFailed

(* A part of _TNewStream_write, up to the end of the current file. *)
NewStreamWrite ==
    /\ dirPc = "write" /\ curNewFile # Root
    /\ LET done == Len(disk["new"][curNewFile])
           size == Len(newTree[curNewFile])
       IN  \/ \E n \in 1..(size - done) :
                 LET data == [i \in 1..n |-> IF garbled THEN Garbage ELSE newTree[curNewFile][done + i]]
                 IN  /\ Works(TRUE)
                     /\ disk' = set("new", curNewFile, disk["new"][curNewFile] \o data)
                     /\ newSum' = newSum \o data
                     /\ IF done + n = size THEN goTo("ready", dirAt + 1) /\ curNewFile' = Root
                        ELSE goTo("write", dirAt) /\ curNewFile' = curNewFile
                     /\ UNCHANGED <<dirIn, oldChecked, garbled, copySum, _pOldSameRefCount, patchOk, endVars>>
           \/ Fault(TRUE) /\ PatchFailed

(* Everything is written: the handles are closed, patchFinish is called. *)
PatchDone ==
    /\ dirPc = "write" /\ curNewFile = Root /\ dirAt > Len(newList)
    /\ \/ /\ Works(TRUE) /\ goTo("finish", 1)
          /\ UNCHANGED <<dirIn, disk, curNewFile, sumVars, _pOldSameRefCount, patchOk, endVars>>
       \/ Fault(TRUE) /\ PatchFailed

---------------------------------------------------------------------------
(* _tempDirPatchFinish and _dirPatchFinish *)

finishVars == <<dirIn, curNewFile, sumVars>>

(* Fault: the old directory is changed after a patch that failed, too. *)
DirFinishAnyway ==
    /\ dirPc = "finish" /\ UNCHANGED dirFaults
    /\ goTo(IF inPlace THEN "same" ELSE "end", Len(dataSamePairList))
    /\ UNCHANGED <<finishVars, disk, _pOldSameRefCount, patchOk, endVars>>

(* The references to each old file are counted; that takes memory. *)
DirFinish ==
    /\ dirPc = "finish"
    /\ \/ /\ Works(TRUE) /\ UNCHANGED <<patchOk, dirResult>>
          /\ IF inPlace /\ patchOk
             THEN /\ _pOldSameRefCount' = [p \in Path |-> Len(SelectSeq(dataSamePairList, LAMBDA pr : pr.old = p))]
                  /\ goTo("same", Len(dataSamePairList))
             ELSE /\ UNCHANGED _pOldSameRefCount
                  /\ IF inPlace THEN goTo("clean", Len(newList)) ELSE goTo("end", 1)
       \/ /\ inPlace /\ patchOk /\ Fault(TRUE) /\ patchOk' = FALSE /\ dirResult' = FALSE
          /\ goTo("clean", Len(newList)) /\ UNCHANGED _pOldSameRefCount
    /\ UNCHANGED <<finishVars, disk, hurt, kept>>

(* A step for the new path p fails: the loop goes on, the result is FALSE. *)
StepFails(can, p) ==
    /\ dirResult' = FALSE
    /\ \/ Fault(can) /\ hurt' = hurt \cup {p}
       \/ Cannot(can) /\ UNCHANGED hurt

(* Fault: the references to an old file are not counted. *)
mustCopyNever(count) == FALSE

mustCopy(count) == count > 1

(* A same file goes to the temporary directory: moved when it is the last  *)
(* that needs it, copied otherwise.  Only a copy may leave part of it when *)
(* it fails; the last loop will take that for the file.                    *)
MoveSame ==
    /\ dirPc = "same" /\ dirAt > 0 /\ goTo("same", dirAt - 1)
    /\ LET pr == dataSamePairList[dirAt]
           can == isFile(disk["old"][pr.old]) /\ canCreate("new", pr.new) /\ disk["new"][pr.new] # DirNode
           isCopy == mustCopy(_pOldSameRefCount[pr.old])
           moved == [disk EXCEPT !["new"][pr.new] = disk["old"][pr.old],
                                 !["old"][pr.old] = IF isCopy THEN @ ELSE NoNode]
       IN  /\ _pOldSameRefCount' = [_pOldSameRefCount EXCEPT ![pr.old] = @ - 1]
           /\ \/ Works(can) /\ disk' = moved /\ UNCHANGED <<dirResult, hurt>>
              \/ /\ StepFails(can, pr.new)
                 /\ disk' \in IF can /\ isCopy THEN brokenCopies(pr.old, pr.new) ELSE {disk}
    /\ UNCHANGED <<finishVars, patchOk, kept>>

SameDone == /\ dirPc = "same" /\ dirAt = 0 /\ UNCHANGED dirFaults /\ goTo("delold", Len(oldList))
            /\ UNCHANGED <<finishVars, disk, _pOldSameRefCount, patchOk, endVars>>

(* _moveNewToOld, first loop: the old paths, last to first.  What cannot   *)
(* be removed stays.                                                       *)
DeleteOld ==
    /\ dirPc = "delold" /\ dirAt > 0 /\ goTo("delold", dirAt - 1)
    /\ LET p == oldList[dirAt]
           can == canRemove("old", p)
       IN  \/ Works(can) /\ disk' = set("old", p, NoNode) /\ UNCHANGED kept
           \/ /\ Breaks(can) /\ UNCHANGED disk
              /\ kept' = IF disk["old"][p] # NoNode THEN kept \cup {p} ELSE kept
    /\ UNCHANGED <<finishVars, _pOldSameRefCount, patchOk, dirResult, hurt>>
DeleteDone == /\ dirPc = "delold" /\ dirAt = 0 /\ UNCHANGED dirFaults /\ goTo("mkdirs", 1)
              /\ UNCHANGED <<finishVars, disk, _pOldSameRefCount, patchOk, endVars>>

(* Second loop: the directories, first to last; one that is there is good. *)
MakeDirs ==
    /\ dirPc = "mkdirs" /\ dirAt <= Len(newList) /\ goTo("mkdirs", dirAt + 1)
    /\ LET p == newList[dirAt]
           can == disk["old"][p] = DirNode \/ (disk["old"][p] = NoNode /\ canCreate("old", p))
       IN  IF newTree[p] # DirNode THEN UNCHANGED <<disk, dirResult, hurt, dirFaults>>
           ELSE \/ Works(can) /\ disk' = set("old", p, DirNode) /\ UNCHANGED <<dirResult, hurt>>
                \/ StepFails(can, p) /\ UNCHANGED disk
    /\ UNCHANGED <<finishVars, _pOldSameRefCount, patchOk, kept>>
MakeDirsDone == /\ dirPc = "mkdirs" /\ dirAt > Len(newList) /\ UNCHANGED dirFaults /\ goTo("movenew", Len(newList))
                /\ UNCHANGED <<finishVars, disk, _pOldSameRefCount, patchOk, endVars>>

(* Third loop: the files, last to first.  What is in the way of a file is  *)
(* removed, then the file is moved; the emptied directory is removed.      *)
MoveNew ==
    /\ dirPc = "movenew" /\ dirAt > 0 /\ goTo("movenew", dirAt - 1)
    /\ LET p == newList[dirAt]
           isDir == newTree[p] = DirNode
           cleared == IF ~isDir /\ canRemove("old", p) THEN set("old", p, NoNode) ELSE disk
           can == IF isDir THEN canRemove("new", p)
                  ELSE isFile(disk["new"][p]) /\ canCreate("old", p) /\ cleared["old"][p] # DirNode
       IN  \/ /\ Works(can) /\ UNCHANGED <<dirResult, hurt>>
              /\ disk' = [disk EXCEPT !["new"][p] = NoNode, !["old"][p] = IF isDir THEN @ ELSE disk["new"][p]]
           \/ /\ disk' = cleared
              /\ IF isDir THEN Breaks(can) /\ UNCHANGED <<dirResult, hurt>> ELSE StepFails(can, p)
    /\ UNCHANGED <<finishVars, _pOldSameRefCount, patchOk, kept>>
MoveDone == /\ dirPc = "movenew" /\ dirAt = 0 /\ UNCHANGED dirFaults /\ goTo("clean", Len(newList))
            /\ UNCHANGED <<finishVars, disk, _pOldSameRefCount, patchOk, endVars>>

(* deleteAllInPathList for the temporary directory. *)
CleanTemp ==
    /\ dirPc = "clean" /\ dirAt > 0 /\ goTo("clean", dirAt - 1)
    /\ LET p == newList[dirAt]
       IN  \/ Works(canRemove("new", p)) /\ disk' = set("new", p, NoNode)
           \/ Breaks(canRemove("new", p)) /\ UNCHANGED disk
    /\ UNCHANGED <<finishVars, _pOldSameRefCount, patchOk, endVars>>
CleanDone ==
    /\ dirPc = "clean" /\ dirAt = 0 /\ goTo("end", 0) /\ UNCHANGED dirFaults
    /\ dirResult' = (dirResult /\ disk["new"][Root] = NoNode)
    /\ UNCHANGED <<finishVars, disk, _pOldSameRefCount, patchOk, hurt, kept>>

DirNext ==
    \/ DirLoad \/ DirOpenOld \/ AppendReady \/ EntryEnd \/ DirPatchBegin \/ NewStreamWrite \/ PatchDone
    \/ DirFinish \/ MoveSame \/ SameDone \/ DeleteOld \/ DeleteDone \/ MakeDirs \/ MakeDirsDone
    \/ MoveNew \/ MoveDone \/ CleanTemp \/ CleanDone

DirSpec == DirInit(DirInputs) /\ [][DirNext]_dirVars

---------------------------------------------------------------------------
(* Properties *)

(* The checks would see that the old file was changed. *)
isCovered ==
    dirIn.change # "none" =>
        IF dirIn.at \in oldRefs THEN {"old", "new"} \cap dirIn.checks # {} ELSE "copy" \in dirIn.checks

(* hpatch_dir returns success only when the new directory is complete: in  *)
(* place, every new path is there with its data, no listed old path is     *)
(* left but those that could not be removed, the user's own files are as   *)
(* they were and the temporary directory is gone; beside the old one, both *)
(* are intact.                                                             *)
DirTrueMeansNew ==
    (dirPc = "end" /\ dirResult /\ isCovered) =>
        IF inPlace
        THEN /\ \A p \in Path : newTree[p] # NoNode => disk["old"][p] = newTree[p]
             /\ \A p \in Path : newTree[p] = NoNode /\ oldTree[p] # NoNode /\ p \notin kept => disk["old"][p] = NoNode
             /\ \A p \in Path : newTree[p] = NoNode /\ oldTree[p] = NoNode => disk["old"][p] = dirIn.rel.user[p]
             /\ \A p \in Path : disk["new"][p] = NoNode
        ELSE disk["new"] = newTree /\ disk["old"] = oldOnDisk(dirIn)

(* Until the patch has written and checked all new data the old directory  *)
(* is not touched, so a patch that fails leaves it as it was.              *)
DirErrorKeepsOld ==
    (~patchOk \/ dirPc \in {"load", "nullpatcher", "oldref", "ready", "patch", "write", "finish"}) =>
        disk["old"] = oldOnDisk(dirIn)

ancestors(p) == {p, Parent[p], Parent[Parent[p]]}

(* What keeps p out of the old directory: a fault at p or above, or a file *)
(* in the place of a directory, or a directory in that of a file.          *)
isBlocked(p) ==
    \/ ancestors(p) \cap hurt # {}
    \/ /\ dirPc \in {"movenew", "clean", "end"}
       /\ \E a \in ancestors(p) : disk["old"][a] # NoNode /\ (disk["old"][a] = DirNode <=> newTree[a] # DirNode)

(* Wherever the process stops while it replaces the old directory, the     *)
(* data of every new file is in the temporary directory or in the old one, *)
(* or still in the old file it is equal to, unless this very file could    *)
(* not be moved.                                                           *)
DirNewNeverLost ==
    (inPlace /\ patchOk /\ dirIn.change = "none" /\ dirPc \in {"same", "delold", "mkdirs", "movenew", "clean", "end"}) =>
        \A p \in Path : (isFile(newTree[p]) /\ ~isBlocked(p)) =>
            \/ newTree[p] \in {disk["new"][p], disk["old"][p]}
            \/ dirPc = "same" /\ \E i \in pairOf(p) : i <= dirAt /\ disk["old"][dataSamePairList[i].old] = newTree[p]
=============================================================================
