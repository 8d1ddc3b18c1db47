------------------------- MODULE Sequential_proofs -------------------------
(* Proofs about the parts of MC_Sequential: what an error of the directory *)
(* patch leaves of the old directory (DirPatch), what its reads of the old *)
(* files give and how many of them are open (DirOldStream), and what the   *)
(* output cache holds (OutStreamCache).                                    *)
EXTENDS DirPatch, DirOldStream, OutStreamCache, WellFoundedInduction, FiniteSetTheorems, SequenceTheorems, TLAPS

---------------------------------------------------------------------------
(* DirPatch: the old directory *)

(* The old and the new directory are the whole disk. *)
DiskShape == disk = [place \in {"old", "new"} |-> disk[place]]

(* Only after a patch that went well does hpatch_dir come to the loops     *)
(* that take the old directory apart.                                      *)
ReplacesAfterSuccess == dirPc \in {"same", "delold", "mkdirs", "movenew"} => patchOk

(* The inductive invariant of the directory patch. *)
DirKeepInv == DiskShape /\ ReplacesAfterSuccess /\ DirErrorKeepsOld

(* A change of one path of one directory leaves the other one alone. *)
LEMMA SetsOnePlace ==
    ASSUME NEW p, NEW node, DiskShape
    PROVE  /\ set("new", p, node) = [place \in {"old", "new"} |-> set("new", p, node)[place]]
           /\ set("old", p, node) = [place \in {"old", "new"} |-> set("old", p, node)[place]]
           /\ set("new", p, node)["old"] = disk["old"]
BY DEF DiskShape, set

(* The initial states have the old directory as the input describes it. *)
LEMMA DirKeepInit == DirInit(DirInputs) => DirKeepInv
<1> SUFFICES ASSUME DirInit(DirInputs) PROVE DirKeepInv
    OBVIOUS
<1>1. PICK i \in DirInputs :
          /\ dirIn = [rel |-> i.rel, mode |-> i.mode, checks |-> i.checks, at |-> i.at, change |-> i.change,
                      pairs |-> samePairs(i.rel)]
          /\ disk = [old |-> oldOnDisk(i), new |-> [p \in Path |-> NoNode]]
    BY DEF DirInit
<1>2. DiskShape
    BY <1>1 DEF DiskShape
<1>3. disk["old"] = oldOnDisk(dirIn)
    BY <1>1 DEF oldOnDisk
<1>4. dirPc = "load" /\ patchOk
    BY DEF DirInit
<1> QED
    BY <1>2, <1>3, <1>4 DEF DirKeepInv, ReplacesAfterSuccess, DirErrorKeepsOld

(* A step that leaves the input and the old directory alone keeps the      *)
(* invariant when it does not come to the loops without success.           *)
LEMMA KeepsOldStep ==
    ASSUME DirKeepInv, DiskShape', disk'["old"] = disk["old"], dirIn' = dirIn,
           ~patchOk \/ dirPc \in {"load", "nullpatcher", "oldref", "ready", "patch", "write", "finish"},
           dirPc' \in {"same", "delold", "mkdirs", "movenew"} => patchOk'
    PROVE  DirKeepInv'
<1>1. oldOnDisk(dirIn)' = oldOnDisk(dirIn)
    BY DEF oldOnDisk
<1> QED
    BY <1>1 DEF DirKeepInv, ReplacesAfterSuccess, DirErrorKeepsOld

(* A step of the loops, where the old directory may change. *)
LEMMA ReplaceStep ==
    ASSUME DirKeepInv, DiskShape', patchOk, patchOk' = patchOk,
           dirPc' \in {"same", "delold", "mkdirs", "movenew", "clean", "end"}
    PROVE  DirKeepInv'
BY DEF DirKeepInv, ReplacesAfterSuccess, DirErrorKeepsOld

(* The error exit. *)
LEMMA FailedStep ==
    ASSUME DirKeepInv, PatchFailed,
           dirPc \in {"load", "nullpatcher", "oldref", "ready", "patch", "write", "finish"}
    PROVE  DirKeepInv'
<1>1. DiskShape' /\ disk'["old"] = disk["old"] /\ dirIn' = dirIn /\ dirPc' = "finish"
    BY DEF PatchFailed, PatchFailedLeaving, DirKeepInv, DiskShape, goTo
<1> QED
    BY <1>1, KeepsOldStep

(* Every step of hpatch_dir keeps the invariant. *)
LEMMA DirKeepStep == DirKeepInv /\ [DirNext]_dirVars => DirKeepInv'
<1> SUFFICES ASSUME DirKeepInv, [DirNext]_dirVars PROVE DirKeepInv'
    OBVIOUS
<1>s. DiskShape
    BY DEF DirKeepInv
<1>0. CASE UNCHANGED dirVars
    <2>1. oldOnDisk(dirIn)' = oldOnDisk(dirIn)
        BY <1>0 DEF dirVars, oldOnDisk
    <2> QED
        BY <1>0, <2>1 DEF dirVars, DirKeepInv, DiskShape, ReplacesAfterSuccess, DirErrorKeepsOld
<1>1. CASE DirLoad
    <2>1. disk' = disk /\ dirIn' = dirIn /\ dirPc' \in {"oldref", "nullpatcher", "end"} /\ dirPc = "load"
        BY <1>1 DEF DirLoad, goTo
    <2>2. DiskShape'
        BY <2>1, <1>s DEF DiskShape
    <2> QED
        BY <2>1, <2>2, KeepsOldStep
<1>2. CASE DirOpenOld
    <2>0. dirPc = "oldref"
        BY <1>2 DEF DirOpenOld
    <2>1. CASE PatchFailed
        BY <2>0, <2>1, FailedStep
    <2>2. CASE disk' = disk /\ dirIn' = dirIn /\ dirPc' = "ready"
        <3>1. DiskShape'
            BY <2>2, <1>s DEF DiskShape
        <3> QED
            BY <3>1, <2>0, <2>2, KeepsOldStep
    <2> QED
        BY <1>2, <2>1, <2>2 DEF DirOpenOld, goTo
<1>3. CASE AppendReady
    <2>0. dirPc = "ready"
        BY <1>3 DEF AppendReady
    <2>1. /\ disk' = disk \/ \E p, node : disk' = set("new", p, node)
          /\ dirIn' = dirIn /\ dirPc' \in {"write", "patch", "ready", "finish"}
        <3> DEFINE p == newList[dirAt]
                   from == IF pairOf(p) = {} THEN Root ELSE dataSamePairList[CHOOSE i \in pairOf(p) : TRUE].old
        <3>1. CASE \E disks \in {{disk}, brokenCopies(from, p)} : PatchFailedLeaving(disks)
            BY <3>1 DEF PatchFailedLeaving, brokenCopies, goTo
        <3>2. CASE /\ disk' = disk \/ \E node : disk' = set("new", p, node)
                   /\ dirIn' = dirIn /\ dirPc' \in {"write", "patch", "ready"}
            BY <3>2
        <3> QED
            BY <1>3, <3>1, <3>2 DEF AppendReady, PatchFailed, goTo, afterReady
    <2>2. DiskShape' /\ disk'["old"] = disk["old"]
        <3>1. CASE disk' = disk
            BY <3>1, <1>s DEF DiskShape
        <3>2. CASE \E p, node : disk' = set("new", p, node)
            <4>1. PICK p, node : disk' = set("new", p, node)
                BY <3>2
            <4> QED
                BY <4>1, <1>s, SetsOnePlace DEF DiskShape
        <3> QED
            BY <2>1, <3>1, <3>2
    <2> QED
        BY <2>0, <2>1, <2>2, KeepsOldStep, SMTT(30)
<1>4. CASE EntryEnd
    <2>0. dirPc = "ready"
        BY <1>4 DEF EntryEnd
    <2>1. CASE PatchFailed
        BY <2>0, <2>1, FailedStep
    <2>2. CASE disk' = disk /\ dirIn' = dirIn /\ dirPc' \in {"write", "patch"}
        <3>1. DiskShape'
            BY <2>2, <1>s DEF DiskShape
        <3> QED
            BY <3>1, <2>0, <2>2, KeepsOldStep
    <2> QED
        BY <1>4, <2>1, <2>2 DEF EntryEnd, goTo, afterReady
<1>5. CASE DirPatchBegin
    <2>0. dirPc = "patch"
        BY <1>5 DEF DirPatchBegin
    <2>1. CASE PatchFailed
        BY <2>0, <2>1, FailedStep
    <2>2. CASE disk' = disk /\ dirIn' = dirIn /\ dirPc' = "write"
        <3>1. DiskShape'
            BY <2>2, <1>s DEF DiskShape
        <3> QED
            BY <3>1, <2>0, <2>2, KeepsOldStep
    <2> QED
        BY <1>5, <2>1, <2>2 DEF DirPatchBegin, goTo
<1>6. CASE NewStreamWrite
    <2>0. dirPc = "write"
        BY <1>6 DEF NewStreamWrite
    <2>1. CASE PatchFailed
        BY <2>0, <2>1, FailedStep
    <2>2. CASE ~PatchFailed
        <3>1. \E node : /\ disk' = set("new", curNewFile, node) /\ dirIn' = dirIn
                        /\ dirPc' \in {"write", "ready"}
            BY <1>6, <2>2 DEF NewStreamWrite, goTo
        <3>2. DiskShape' /\ disk'["old"] = disk["old"]
            BY <3>1, <1>s, SetsOnePlace DEF DiskShape
        <3> QED
            BY <2>0, <3>1, <3>2, KeepsOldStep
    <2> QED
        BY <2>1, <2>2, SMTT(30)
<1>7. CASE PatchDone
    <2>0. dirPc = "write"
        BY <1>7 DEF PatchDone
    <2>1. CASE PatchFailed
        BY <2>0, <2>1, FailedStep
    <2>2. CASE disk' = disk /\ dirIn' = dirIn /\ dirPc' = "finish"
        <3>1. DiskShape'
            BY <2>2, <1>s DEF DiskShape
        <3> QED
            BY <3>1, <2>0, <2>2, KeepsOldStep
    <2> QED
        BY <1>7, <2>1, <2>2 DEF PatchDone, goTo
<1>8. CASE DirFinish
    <2>1. disk' = disk /\ dirIn' = dirIn /\ dirPc = "finish" /\ dirPc' \in {"same", "clean", "end"}
        BY <1>8 DEF DirFinish, finishVars, goTo
    <2>2. ASSUME dirPc' = "same" PROVE patchOk'
        <3>1. /\ inPlace /\ patchOk /\ patchOk' = patchOk
            BY <1>8, <2>2 DEF DirFinish, goTo
        <3> QED
            BY <3>1, Zenon
    <2>3. DiskShape'
        BY <2>1, <1>s DEF DiskShape
    <2> QED
        BY <2>1, <2>2, <2>3, KeepsOldStep
<1>9. CASE MoveSame
    <2>1. dirPc = "same" /\ dirPc' = "same" /\ patchOk' = patchOk
        BY <1>9 DEF MoveSame, goTo
    <2>2. patchOk
        BY <2>1 DEF DirKeepInv, ReplacesAfterSuccess
    <2>3. DiskShape'
        BY <1>9, <1>s DEF MoveSame, DiskShape, brokenCopies, set
    <2> QED
        BY <2>1, <2>2, <2>3, ReplaceStep
<1>10. CASE SameDone \/ DeleteDone \/ MakeDirsDone \/ MoveDone
    <2>1. /\ dirPc \in {"same", "delold", "mkdirs", "movenew"} /\ patchOk' = patchOk /\ disk' = disk
          /\ dirPc' \in {"delold", "mkdirs", "movenew", "clean"}
        BY <1>10 DEF SameDone, DeleteDone, MakeDirsDone, MoveDone, goTo
    <2>2. patchOk
        BY <2>1 DEF DirKeepInv, ReplacesAfterSuccess
    <2>3. DiskShape'
        BY <2>1, <1>s DEF DiskShape
    <2> QED
        BY <2>1, <2>2, <2>3, ReplaceStep
<1>11. CASE DeleteOld
    <2>1. dirPc = "delold" /\ dirPc' = "delold" /\ patchOk' = patchOk
        BY <1>11 DEF DeleteOld, goTo
    <2>2. patchOk
        BY <2>1 DEF DirKeepInv, ReplacesAfterSuccess
    <2>3. DiskShape'
        BY <1>11, <1>s DEF DeleteOld, DiskShape, set
    <2> QED
        BY <2>1, <2>2, <2>3, ReplaceStep
<1>12. CASE MakeDirs
    <2>1. dirPc = "mkdirs" /\ dirPc' = "mkdirs" /\ patchOk' = patchOk
        BY <1>12 DEF MakeDirs, goTo
    <2>2. patchOk
        BY <2>1 DEF DirKeepInv, ReplacesAfterSuccess
    <2>3. DiskShape'
        BY <1>12, <1>s DEF MakeDirs, DiskShape, set
    <2> QED
        BY <2>1, <2>2, <2>3, ReplaceStep
<1>13. CASE MoveNew
    <2>1. dirPc = "movenew" /\ dirPc' = "movenew" /\ patchOk' = patchOk
        BY <1>13 DEF MoveNew, goTo
    <2>2. patchOk
        BY <2>1 DEF DirKeepInv, ReplacesAfterSuccess
    <2>3. DiskShape'
        BY <1>13, <1>s DEF MoveNew, DiskShape, set
    <2> QED
        BY <2>1, <2>2, <2>3, ReplaceStep
<1>14. CASE CleanTemp
    <2>1. /\ dirPc = "clean" /\ dirPc' = "clean" /\ patchOk' = patchOk /\ dirIn' = dirIn
          /\ disk' = disk \/ \E p, node : disk' = set("new", p, node)
        BY <1>14 DEF CleanTemp, goTo, finishVars
    <2>2. DiskShape' /\ disk'["old"] = disk["old"]
        <3>1. CASE disk' = disk
            BY <3>1, <1>s DEF DiskShape
        <3>2. CASE \E p, node : disk' = set("new", p, node)
            BY <3>2, <1>s, SetsOnePlace DEF DiskShape
        <3> QED
            BY <2>1, <3>1, <3>2
    <2>3. CASE patchOk
        BY <2>1, <2>2, <2>3, ReplaceStep
    <2>4. CASE ~patchOk
        BY <2>1, <2>2, <2>4, KeepsOldStep
    <2> QED
        BY <2>3, <2>4
<1>15. CASE CleanDone
    <2>1. dirPc = "clean" /\ dirPc' = "end" /\ patchOk' = patchOk /\ dirIn' = dirIn /\ disk' = disk
        BY <1>15 DEF CleanDone, goTo, finishVars
    <2>2. DiskShape'
        BY <2>1, <1>s DEF DiskShape
    <2>3. CASE patchOk
        BY <2>1, <2>2, <2>3, ReplaceStep
    <2>4. CASE ~patchOk
        BY <2>1, <2>2, <2>4, KeepsOldStep
    <2> QED
        BY <2>3, <2>4
<1> QED
    BY <1>0, <1>1, <1>2, <1>3, <1>4, <1>5, <1>6, <1>7, <1>8, <1>9, <1>10, <1>11, <1>12, <1>13, <1>14, <1>15
    DEF DirNext

(* For every release, mode, set of checks and number of faults: until      *)
(* hpatch_dir has written and checked all new data it has not touched the  *)
(* old directory, and after an error it never does.                        *)
THEOREM ErrorsKeepOld == DirSpec => []DirErrorKeepsOld
<1>1. DirKeepInv => DirErrorKeepsOld
    BY DEF DirKeepInv
<1> QED
    BY <1>1, DirKeepInit, DirKeepStep, PTL DEF DirSpec

---------------------------------------------------------------------------
(* Induction: a set of naturals has a least element *)

(* Every set of naturals that is not empty has a least element. *)
LEMMA LeastNat ==
    ASSUME NEW S, S \subseteq Nat, S # {}
    PROVE  \E m \in S : \A k \in S : m <= k
<1>1. \E x \in S : \A y \in S : ~ (<<y, x>> \in OpToRel(<, Nat))
    BY WFMin, NatLessThanWellFounded, Zenon
<1>2. PICK x \in S : \A y \in S : ~ (<<y, x>> \in OpToRel(<, Nat))
    BY <1>1
<1>3. ASSUME NEW y \in S, y < x PROVE FALSE
    <2>1. OpToRel(<, Nat) = {ss \in Nat \X Nat : ss[1] < ss[2]}
        BY Zenon DEF OpToRel
    <2>2. <<y, x>> \in {ss \in Nat \X Nat : ss[1] < ss[2]}
        BY <1>3
    <2> QED
        BY <1>2, <1>3, <2>1, <2>2, Zenon
<1>4. \A k \in S : x <= k
    BY <1>3
<1> QED
    BY <1>4

---------------------------------------------------------------------------
(* DirOldStream: the ranges of the files and the joined data *)

(* What _createRange makes for files of the given sizes. *)
IsRangeEnds(end, files) ==
    /\ end \in [0..Len(files) -> Nat]
    /\ end[0] = 0
    /\ \A i \in 1..Len(files) : end[i] = end[i - 1] + files[i]

(* The list that _createRange makes begins with 0 and grows by the size of *)
(* each file.                                                              *)
LEMMA RangeEnds ==
    ASSUME NEW files \in Seq(Nat)
    PROVE  IsRangeEnds(rangeEndList(files), files)
<1> DEFINE n == Len(files)
           Made(end, j) == /\ end \in [0..j -> Nat] /\ end[0] = 0
                           /\ \A i \in 1..j : end[i] = end[i - 1] + files[i]
           Bad == {j \in 0..n : ~ \E end : Made(end, j)}
<1>0. n \in Nat /\ \A i \in 1..n : files[i] \in Nat
    OBVIOUS
<1>1. Bad = {}
    <2> SUFFICES ASSUME Bad # {} PROVE FALSE
        OBVIOUS
    <2>1. PICK m \in Bad : \A k \in Bad : m <= k
        <3>1. Bad \subseteq Nat
            BY <1>0
        <3> QED
            BY <3>1, LeastNat
    <2>2. m # 0
        <3>1. Made([i \in 0..0 |-> 0], 0)
            OBVIOUS
        <3> QED
            BY <2>1, <3>1
    <2>3. m \in 1..n /\ m - 1 \in 0..n
        <3>1. m \in 0..n
            BY <2>1
        <3> HIDE DEF n
        <3> QED
            BY <1>0, <2>2, <3>1
    <2>4. PICK end : Made(end, m - 1)
        <3>1. m - 1 \notin Bad
            <4> HIDE DEF Bad
            <4> QED
                BY <2>1, <2>3
        <3> QED
            BY <2>3, <3>1
    <2>5. Made([i \in 0..m |-> IF i = m THEN end[m - 1] + files[m] ELSE end[i]], m)
        <3> DEFINE longer == [i \in 0..m |-> IF i = m THEN end[m - 1] + files[m] ELSE end[i]]
        <3>0. end \in [0..(m - 1) -> Nat] /\ end[0] = 0 /\ \A i \in 1..(m - 1) : end[i] = end[i - 1] + files[i]
            BY <2>4
        <3>1. longer \in [0..m -> Nat]
            BY <1>0, <2>3, <3>0, SMTT(30)
        <3>2. longer[0] = 0
            BY <2>3, <3>0
        <3>3. ASSUME NEW i \in 1..m PROVE longer[i] = longer[i - 1] + files[i]
            <4>0. i \in 0..m /\ i - 1 \in 0..m /\ i - 1 # m
                BY <2>3
            <4>1. longer[i - 1] = end[i - 1]
                BY <4>0
            <4>2. CASE i = m
                BY <4>0, <4>1, <4>2
            <4>3. CASE i # m
                <5>1. i \in 1..(m - 1) /\ longer[i] = end[i]
                    BY <2>3, <4>0, <4>3
                <5> QED
                    BY <3>0, <4>1, <5>1
            <4> QED
                BY <4>2, <4>3
        <3> QED
            BY <3>1, <3>2, <3>3
    <2> QED
        BY <2>1, <2>5
<1>2. PICK end : Made(end, n)
    <2>1. n \in 0..n
        BY <1>0
    <2> QED
        BY <1>1, <2>1
<1>3. end = [i \in 0..n |-> IF i = 0 THEN 0 ELSE end[i - 1] + files[i]]
    BY <1>0, <1>2
<1> DEFINE list == rangeEndList(files)
<1>4. list = [i \in 0..n |-> IF i = 0 THEN 0 ELSE list[i - 1] + files[i]]
    <2>1. list = CHOOSE f : f = [i \in 0..Len(files) |-> IF i = 0 THEN 0 ELSE f[i - 1] + files[i]]
        BY DEF rangeEndList
    <2> QED
        BY <1>3, <2>1, Zenon
<1> HIDE DEF list
<1>5. \A i \in 0..n : list[i] = IF i = 0 THEN 0 ELSE list[i - 1] + files[i]
    BY <1>4
<1>6. DOMAIN list = 0..n
    BY <1>4
<1> DEFINE Diff == {j \in 0..n : list[j] # end[j]}
<1>7. Diff = {}
    <2> SUFFICES ASSUME Diff # {} PROVE FALSE
        OBVIOUS
    <2>1. PICK m \in Diff : \A k \in Diff : m <= k
        <3>1. Diff \subseteq Nat
            BY <1>0
        <3> QED
            BY <3>1, LeastNat
    <2>2. m # 0
        BY <1>2, <1>5, <2>1
    <2>3. m - 1 \in 0..n /\ m \in 1..n /\ m - 1 \notin Diff
        BY <1>0, <2>1, <2>2
    <2> QED
        BY <1>2, <1>5, <2>1, <2>2, <2>3
<1>8. list = end
    <2>1. \A j \in 0..n : list[j] = end[j]
        BY <1>7
    <2> QED
        BY <1>2, <1>4, <2>1
<1> QED
    BY <1>2, <1>8 DEF IsRangeEnds, list
(* A file ends no later than the files behind it. *)
LEMMA RangesGrow ==
    ASSUME NEW files \in Seq(Nat), NEW end, IsRangeEnds(end, files),
           NEW i \in 0..Len(files), NEW j \in 0..Len(files), i <= j
    PROVE  end[i] <= end[j]
<1> DEFINE n == Len(files)
           Bad == {k \in 0..n : i <= k /\ ~(end[i] <= end[k])}
<1>0. n \in Nat /\ \A k \in 1..n : files[k] \in Nat
    OBVIOUS
<1>e. end \in [0..n -> Nat] /\ \A k \in 1..n : end[k] = end[k - 1] + files[k]
    BY DEF IsRangeEnds
<1> HIDE DEF n
<1>1. Bad = {}
    <2> SUFFICES ASSUME Bad # {} PROVE FALSE
        OBVIOUS
    <2>1. PICK m \in Bad : \A k \in Bad : m <= k
        <3>1. Bad \subseteq Nat
            BY <1>0
        <3> QED
            BY <3>1, LeastNat
    <2>2. m \in 0..n /\ i <= m /\ ~(end[i] <= end[m]) /\ i \in 0..n
        BY <2>1 DEF n
    <2>3. m # i
        BY <1>e, <2>2, SMTT(30)
    <2>4. m \in 1..n /\ m - 1 \in 0..n /\ i <= m - 1
        BY <1>0, <2>2, <2>3
    <2>5. m - 1 \notin Bad
        <3> HIDE DEF Bad
        <3> QED
            BY <2>1, <2>4
    <2>6. end[i] <= end[m - 1]
        BY <2>4, <2>5
    <2>7. end[m] = end[m - 1] + files[m] /\ files[m] \in Nat /\ end[m - 1] \in Nat /\ end[i] \in Nat
        BY <1>0, <1>e, <2>2, <2>4
    <2> QED
        BY <2>2, <2>6, <2>7, SMTT(30)
<1> QED
    BY <1>1 DEF n

(* FlattenSeq appends one piece after the other. *)
LEMMA FlattenSteps ==
    ASSUME NEW q \in Seq(Seq(Nat)), Len(q) # 0
    PROVE  \E f : /\ FlattenSeq(q) = f[Len(q)]
                  /\ f[1] = q[1]
                  /\ \A i \in 2..Len(q) : f[i] = f[i - 1] \o q[i]
<1> DEFINE n == Len(q)
           Made(f, j) == /\ DOMAIN f = 1..j /\ f = [i \in 1..j |-> f[i]] /\ f[1] = q[1]
                         /\ \A i \in 2..j : f[i] = f[i - 1] \o q[i]
           Bad == {j \in 1..n : ~ \E f : Made(f, j)}
<1>0. n \in Nat /\ n >= 1
    OBVIOUS
<1>1. Bad = {}
    <2> SUFFICES ASSUME Bad # {} PROVE FALSE
        OBVIOUS
    <2>1. PICK m \in Bad : \A k \in Bad : m <= k
        <3>1. Bad \subseteq Nat
            <4> HIDE DEF n, Made
            <4> QED
                BY <1>0
        <3> QED
            BY <3>1, LeastNat
    <2>2. m # 1
        <3> DEFINE first == [i \in 1..1 |-> q[1]]
        <3>1. Made(first, 1)
            <4>1. DOMAIN first = 1..1 /\ first = [i \in 1..1 |-> first[i]] /\ first[1] = q[1]
                OBVIOUS
            <4>2. \A i \in 2..1 : first[i] = first[i - 1] \o q[i]
                OBVIOUS
            <4> QED
                BY <4>1, <4>2
        <3> QED
            BY <2>1, <3>1, ZenonT(60)
    <2>3. m \in 2..n /\ m - 1 \in 1..n
        <3>1. m \in 1..n
            BY <2>1
        <3> HIDE DEF n
        <3> QED
            BY <1>0, <2>2, <3>1
    <2>4. PICK f : Made(f, m - 1)
        <3>1. m - 1 \notin Bad
            <4> HIDE DEF Bad
            <4> QED
                BY <2>1, <2>3
        <3> QED
            BY <2>3, <3>1
    <2>5. Made([i \in 1..m |-> IF i = m THEN f[m - 1] \o q[m] ELSE f[i]], m)
        <3> DEFINE longer == [i \in 1..m |-> IF i = m THEN f[m - 1] \o q[m] ELSE f[i]]
        <3>0. f[1] = q[1] /\ \A i \in 2..(m - 1) : f[i] = f[i - 1] \o q[i]
            BY <2>4
        <3>1. DOMAIN longer = 1..m /\ longer = [i \in 1..m |-> longer[i]]
            OBVIOUS
        <3>2. longer[1] = q[1]
            BY <2>3, <3>0
        <3>3. ASSUME NEW i \in 2..m PROVE longer[i] = longer[i - 1] \o q[i]
            <4>0. i \in 1..m /\ i - 1 \in 1..m /\ i - 1 # m
                BY <2>3
            <4>1. longer[i - 1] = f[i - 1]
                BY <4>0
            <4>2. CASE i = m
                BY <4>0, <4>1, <4>2
            <4>3. CASE i # m
                <5>1. i \in 2..(m - 1) /\ longer[i] = f[i]
                    BY <2>3, <4>0, <4>3
                <5> QED
                    BY <3>0, <4>1, <5>1
            <4> QED
                BY <4>2, <4>3
        <3> HIDE DEF longer
        <3> QED
            BY <3>1, <3>2, <3>3
    <2> QED
        BY <2>1, <2>5
<1>2. PICK f : Made(f, n)
    <2>1. n \in 1..n
        BY <1>0
    <2> QED
        BY <1>1, <2>1
<1>3. f = [i \in 1..n |-> IF i = 1 THEN q[i] ELSE f[i - 1] \o q[i]]
    <2>1. ASSUME NEW i \in 1..n PROVE f[i] = IF i = 1 THEN q[i] ELSE f[i - 1] \o q[i]
        <3>1. CASE i = 1
            BY <1>2, <3>1
        <3>2. CASE i # 1
            <4>1. i \in 2..n
                BY <1>0, <3>2
            <4> QED
                BY <1>2, <3>2, <4>1
        <3> QED
            BY <3>1, <3>2
    <2> QED
        BY <1>2, <2>1
<1> DEFINE flatten == CHOOSE g : g = [i \in 1..n |-> IF i = 1 THEN q[i] ELSE g[i - 1] \o q[i]]
<1>4. flatten = [i \in 1..n |-> IF i = 1 THEN q[i] ELSE flatten[i - 1] \o q[i]]
    BY <1>3, Zenon
<1>5. FlattenSeq(q) = flatten[n]
    BY DEF FlattenSeq
<1> HIDE DEF flatten
<1>6. flatten[1] = q[1]
    BY <1>0, <1>4
<1>7. ASSUME NEW i \in 2..n PROVE flatten[i] = flatten[i - 1] \o q[i]
    <2>1. i \in 1..n /\ i # 1
        BY <1>0
    <2>2. flatten[i] = IF i = 1 THEN q[i] ELSE flatten[i - 1] \o q[i]
        BY <1>4, <2>1, Zenon
    <2> QED
        BY <2>1, <2>2
<1> QED
    BY <1>5, <1>6, <1>7

(* A byte of a file that ends before y is before y. *)
LEMMA InsideFile ==
    ASSUME NEW x \in Nat, NEW y \in Nat, NEW size \in Nat, NEW k \in 1..size, x + size <= y
    PROVE  x + k \in 1..y
OBVIOUS

(* A function on 1..n is a sequence. *)
LEMMA FunctionIsSeq ==
    ASSUME NEW n \in Nat, NEW f \in [1..n -> Nat]
    PROVE  f \in Seq(Nat) /\ Len(f) = n
OBVIOUS

(* The bytes of files of the given sizes, one file after the other. *)
joinedData(files) == FlattenSeq([i \in 1..Len(files) |-> [k \in 1..files[i] |-> byteOf(i, k)]])

(* The joined data is as long as the last range end, and byte k of file i  *)
(* is k bytes behind the end of the file before it.                        *)
LEMMA JoinedBytes ==
    ASSUME NEW files \in Seq(Nat), NEW end, IsRangeEnds(end, files)
    PROVE  /\ joinedData(files) \in Seq(Nat)
           /\ Len(joinedData(files)) = end[Len(files)]
           /\ \A i \in 1..Len(files) : \A k \in 1..files[i] : joinedData(files)[end[i - 1] + k] = byteOf(i, k)
<1> DEFINE n == Len(files)
           q == [i \in 1..n |-> [k \in 1..files[i] |-> byteOf(i, k)]]
<1>0. n \in Nat /\ \A i \in 1..n : files[i] \in Nat
    OBVIOUS
<1>e. end \in [0..n -> Nat] /\ end[0] = 0 /\ \A i \in 1..n : end[i] = end[i - 1] + files[i]
    BY DEF IsRangeEnds
<1>q. joinedData(files) = FlattenSeq(q)
    BY DEF joinedData
<1>b. \A i \in 1..n : \A k \in 1..files[i] : byteOf(i, k) \in Nat
    BY <1>0 DEF byteOf
<1>1. /\ q \in Seq(Seq(Nat)) /\ Len(q) = n
      /\ \A i \in 1..n : q[i] \in Seq(Nat) /\ Len(q[i]) = files[i]
      /\ \A i \in 1..n : \A k \in 1..files[i] : q[i][k] = byteOf(i, k)
    <2>1. ASSUME NEW i \in 1..n
          PROVE  /\ q[i] \in Seq(Nat) /\ Len(q[i]) = files[i]
                 /\ \A k \in 1..files[i] : q[i][k] = byteOf(i, k)
        <3>1. files[i] \in Nat /\ q[i] = [k \in 1..files[i] |-> byteOf(i, k)]
            BY <1>0
        <3>2. [k \in 1..files[i] |-> byteOf(i, k)] \in [1..files[i] -> Nat]
            BY <1>b
        <3>3. q[i] \in Seq(Nat) /\ Len(q[i]) = files[i]
            <4>1. q[i] \in [1..files[i] -> Nat]
                BY <3>1, <3>2
            <4> HIDE DEF n, q
            <4> QED
                BY <3>1, <4>1, FunctionIsSeq
        <3> QED
            BY <3>1, <3>3
    <2>2. q \in Seq(Seq(Nat)) /\ Len(q) = n
        BY <1>0, <2>1
    <2> QED
        BY <2>1, <2>2
<1> HIDE DEF n, q
<1>2. CASE n = 0
    <2>1. joinedData(files) = <<>>
        BY <1>1, <1>2, <1>q DEF FlattenSeq
    <2> QED
        BY <1>2, <1>e, <2>1 DEF n
<1>3. CASE n # 0
    <2>1. PICK f : /\ FlattenSeq(q) = f[n] /\ f[1] = q[1]
                   /\ \A i \in 2..n : f[i] = f[i - 1] \o q[i]
        <3>1. Len(q) # 0 /\ Len(q) = n /\ q \in Seq(Seq(Nat))
            BY <1>1, <1>3
        <3>2. \E f : /\ FlattenSeq(q) = f[Len(q)] /\ f[1] = q[1]
                     /\ \A i \in 2..Len(q) : f[i] = f[i - 1] \o q[i]
            BY <3>1, FlattenSteps
        <3> QED
            BY <3>1, <3>2
    <2> DEFINE Good(j) == /\ f[j] \in Seq(Nat) /\ Len(f[j]) = end[j]
                          /\ \A i \in 1..j : \A k \in 1..files[i] : f[j][end[i - 1] + k] = byteOf(i, k)
               Bad == {j \in 1..n : ~Good(j)}
    <2>2. Good(1)
        <3>1. 1 \in 1..n
            BY <1>0, <1>3
        <3>2. f[1] \in Seq(Nat) /\ Len(f[1]) = files[1] /\ end[1] = files[1] /\ end[0] = 0
            BY <1>0, <1>1, <1>e, <2>1, <3>1
        <3>3. ASSUME NEW i \in 1..1, NEW k \in 1..files[i] PROVE f[1][end[i - 1] + k] = byteOf(i, k)
            <4>1. i = 1
                OBVIOUS
            <4>2. end[i - 1] + k = k
                BY <4>1, <3>2, <1>0, <3>1
            <4> QED
                BY <1>1, <2>1, <3>1, <4>1, <4>2, ZenonT(60)
        <3> QED
            BY <3>2, <3>3
    <2>3. ASSUME NEW m \in 2..n, Good(m - 1) PROVE Good(m)
        <3>0. /\ f[m - 1] \in Seq(Nat) /\ Len(f[m - 1]) = end[m - 1]
              /\ \A i \in 1..(m - 1) : \A k \in 1..files[i] : f[m - 1][end[i - 1] + k] = byteOf(i, k)
            BY <2>3
        <3> HIDE DEF Good, Bad
        <3>1. /\ m \in 1..n /\ m - 1 \in 1..n /\ m - 1 \in 0..n /\ files[m] \in Nat /\ end[m - 1] \in Nat
              /\ end[m] = end[m - 1] + files[m]
            BY <1>0, <1>e
        <3>2. q[m] \in Seq(Nat) /\ Len(q[m]) = files[m]
            BY <1>1, <3>1
        <3>3. f[m] = f[m - 1] \o q[m]
            BY <2>1
        <3>p. PICK a \in Seq(Nat), b \in Seq(Nat) :
                  /\ a = f[m - 1] /\ b = q[m] /\ f[m] \in Seq(Nat) /\ Len(f[m]) = Len(a) + Len(b)
                  /\ \A x \in 1..(Len(a) + Len(b)) : f[m][x] = IF x <= Len(a) THEN a[x] ELSE b[x - Len(a)]
            <4>1. PICK a \in Seq(Nat), b \in Seq(Nat) : a = f[m - 1] /\ b = q[m] /\ f[m] = a \o b
                BY <3>0, <3>2, <3>3
            <4>2. /\ a \o b \in Seq(Nat) /\ Len(a \o b) = Len(a) + Len(b)
                  /\ \A x \in 1..(Len(a) + Len(b)) : (a \o b)[x] = IF x <= Len(a) THEN a[x] ELSE b[x - Len(a)]
                BY ConcatProperties
            <4>3. /\ f[m] \in Seq(Nat) /\ Len(f[m]) = Len(a) + Len(b)
                  /\ \A x \in 1..(Len(a) + Len(b)) : f[m][x] = IF x <= Len(a) THEN a[x] ELSE b[x - Len(a)]
                BY <4>1, <4>2, Zenon
            <4> QED
                BY <4>1, <4>3, Zenon
        <3>4. f[m] \in Seq(Nat) /\ Len(f[m]) = end[m]
            BY <3>0, <3>1, <3>2, <3>p
        <3>c. \A x \in 1..(end[m - 1] + files[m]) :
                 f[m][x] = IF x <= end[m - 1] THEN f[m - 1][x] ELSE q[m][x - end[m - 1]]
            BY <3>0, <3>1, <3>2, <3>p
        <3>5. ASSUME NEW i \in 1..m, NEW k \in 1..files[i] PROVE f[m][end[i - 1] + k] = byteOf(i, k)
            <4>1. CASE i = m
                <5>1. f[m][end[m - 1] + k] = q[m][k]
                    <6>1. /\ end[m - 1] + k \in 1..(end[m - 1] + files[m])
                          /\ ~(end[m - 1] + k <= end[m - 1]) /\ (end[m - 1] + k) - end[m - 1] = k
                        BY <3>1, <3>5, <4>1, SMTT(30)
                    <6> QED
                        BY <3>0, <3>2, <3>c, <6>1
                <5> QED
                    BY <5>1, <4>1, <1>1, <3>1, <3>5
            <4>2. CASE i # m
                <5>1. i \in 1..(m - 1)
                    BY <3>1, <4>2
                <5>2. end[i - 1] + k \in 1..end[m - 1]
                    <6>0. i \in 1..n /\ i - 1 \in 0..n /\ i \in 0..n
                        BY <1>0, <3>1, <5>1, SMTT(30)
                    <6>1. PICK x \in Nat, y \in Nat, z \in Nat, size \in Nat :
                              /\ x = end[i - 1] /\ y = end[m - 1] /\ z = end[i] /\ size = files[i]
                              /\ z = x + size
                        <7>1. end[i - 1] \in Nat /\ end[i] \in Nat
                            BY <1>e, <6>0
                        <7>2. files[i] \in Nat /\ end[i] = end[i - 1] + files[i]
                            BY <1>0, <1>e, <6>0
                        <7> QED
                            BY <3>1, <7>1, <7>2
                    <6>2. k \in 1..size
                        BY <3>5, <6>1
                    <6>3. end[i] <= end[m - 1]
                        <7>1. i \in 0..Len(files) /\ m - 1 \in 0..Len(files)
                            BY <3>1, <6>0 DEF n
                        <7>2. i <= m - 1
                            BY <5>1, <6>0
                        <7> QED
                            BY <7>1, <7>2, RangesGrow
                    <6>4. z <= y
                        BY <6>1, <6>3
                    <6>5. x + k \in 1..y
                        BY <6>1, <6>2, <6>4, InsideFile
                    <6> QED
                        BY <6>1, <6>5
                <5>3. f[m][end[i - 1] + k] = f[m - 1][end[i - 1] + k]
                    <6>1. end[i - 1] + k \in 1..(end[m - 1] + files[m]) /\ end[i - 1] + k <= end[m - 1]
                        BY <3>1, <5>2, SMTT(30)
                    <6> QED
                        BY <3>0, <3>2, <3>c, <6>1
                <5> QED
                    BY <3>0, <5>1, <5>3, <3>5
            <4> QED
                BY <4>1, <4>2
        <3> QED
            BY <3>4, <3>5 DEF Good
    <2> HIDE DEF Good
    <2>4. Bad = {}
        <3> SUFFICES ASSUME Bad # {} PROVE FALSE
            OBVIOUS
        <3>1. PICK m \in Bad : \A k \in Bad : m <= k
            <4>1. Bad \subseteq Nat
                BY <1>0
            <4> QED
                BY <4>1, LeastNat
        <3>2. m \in 1..n /\ ~Good(m)
            BY <3>1
        <3>3. m \in 2..n /\ m - 1 \in 1..n
            BY <1>0, <2>2, <3>2
        <3>4. m - 1 \notin Bad
            <4> HIDE DEF Bad
            <4> QED
                BY <3>1, <3>3
        <3> QED
            BY <2>3, <3>2, <3>3, <3>4
    <2>5. Good(n)
        BY <1>0, <1>3, <2>4
    <2> QED
        BY <2>1, <2>5, <1>q DEF Good, n
<1> QED
    BY <1>2, <1>3
---------------------------------------------------------------------------
(* DirOldStream: the inductive invariant *)

(* The release that is read. *)
OldInputOK == sizes \in Seq(Nat) /\ oldIn.limit \in Nat

(* Where a read is, and that what it has read so far is the joined data.   *)
ReadAt ==
    /\ readBegin \in Nat /\ readFromPos \in Nat /\ readEnd \in Nat
    /\ readBegin <= readFromPos /\ readFromPos <= readEnd /\ readEnd <= streamSize
    /\ oldPc = "idle" => readFromPos = readEnd
    /\ Len(sizes) # 0 => rangeIndex \in File /\ _curRangeIndex \in File
ReadSoFar ==
    /\ readData \in Seq(Nat) /\ Len(readData) = readFromPos - readBegin
    /\ \A x \in 1..(readFromPos - readBegin) : readData[x] = oldData[readBegin + x]

(* The limiter knows the open files, and counts them until an error.       *)
LimiterKnows ==
    /\ handles = _in_streamList /\ handles \subseteq File /\ IsFiniteSet(handles)
    /\ hits \in [File -> Nat] /\ _curHit \in Nat
LimiterCounts ==
    /\ Cardinality(handles) <= _limitMaxOpenCount
    /\ oldOk => _curOpenCount = Cardinality(handles)
    /\ oldPc = "read" => oldOk
    /\ oldPc = "end" => handles = {}

OldInv == OldInputOK /\ ReadAt /\ ReadSoFar /\ LimiterKnows /\ LimiterCounts

(* The ranges and the joined data of the release, by their definitions. *)
LEMMA OldFacts ==
    ASSUME OldInputOK
    PROVE  /\ Len(sizes) \in Nat /\ streamSize \in Nat
           /\ Len(sizes) = 0 => streamSize = 0
           /\ \A i \in File : /\ ranges(i) \in Nat /\ ranges(i - 1) \in Nat /\ sizes[i] \in Nat
                              /\ ranges(i) = ranges(i - 1) + sizes[i]
           /\ oldData \in Seq(Nat) /\ Len(oldData) = streamSize
           /\ \A i \in File : \A k \in 1..sizes[i] : oldData[ranges(i - 1) + k] = byteOf(i, k)
<1>1. PICK files \in Seq(Nat) : files = sizes
    BY DEF OldInputOK
<1>2. PICK end : end = rangeEndList(files)
    OBVIOUS
<1>3. IsRangeEnds(end, files)
    BY <1>2, RangeEnds
<1>4. /\ joinedData(files) \in Seq(Nat) /\ Len(joinedData(files)) = end[Len(files)]
      /\ \A i \in 1..Len(files) : \A k \in 1..files[i] : joinedData(files)[end[i - 1] + k] = byteOf(i, k)
    BY <1>3, JoinedBytes
<1>5. oldData = joinedData(files) /\ File = 1..Len(files) /\ streamSize = end[Len(files)]
    BY <1>1, <1>2 DEF oldData, joinedData, fileData, File, streamSize, ranges
<1>6. \A i : ranges(i) = end[i]
    BY <1>1, <1>2 DEF ranges
<1>7. /\ Len(files) \in Nat /\ end[Len(files)] \in Nat /\ end[0] = 0
      /\ \A i \in 1..Len(files) : /\ end[i] \in Nat /\ end[i - 1] \in Nat /\ files[i] \in Nat
                                  /\ end[i] = end[i - 1] + files[i]
    <2>1. /\ end \in [0..Len(files) -> Nat] /\ end[0] = 0
          /\ \A i \in 1..Len(files) : end[i] = end[i - 1] + files[i]
        BY <1>3 DEF IsRangeEnds
    <2>2. Len(files) \in Nat /\ Len(files) \in 0..Len(files)
        OBVIOUS
    <2>3. ASSUME NEW i \in 1..Len(files) PROVE files[i] \in Nat /\ i \in 0..Len(files) /\ i - 1 \in 0..Len(files)
        BY <2>2
    <2> QED
        BY <2>1, <2>2, <2>3
<1>8. Len(files) = 0 => end[Len(files)] = 0
    BY <1>7
<1>9. \A i \in File : /\ ranges(i) \in Nat /\ ranges(i - 1) \in Nat /\ sizes[i] \in Nat
                      /\ ranges(i) = ranges(i - 1) + sizes[i]
    BY <1>1, <1>5, <1>6, <1>7
<1>10. \A i \in File : \A k \in 1..sizes[i] : oldData[ranges(i - 1) + k] = byteOf(i, k)
    BY <1>1, <1>4, <1>5, <1>6
<1> QED
    BY <1>1, <1>4, <1>5, <1>7, <1>8, <1>9, <1>10

(* The release does not change, and with it nothing that is made of it. *)
LEMMA OldSame ==
    ASSUME oldIn' = oldIn
    PROVE  /\ sizes' = sizes /\ File' = File /\ streamSize' = streamSize /\ oldData' = oldData
           /\ _limitMaxOpenCount' = _limitMaxOpenCount /\ OldInputOK' = OldInputOK
<1>1. sizes' = sizes
    BY DEF sizes
<1>2. File' = File
    BY <1>1 DEF File
<1>3. streamSize' = streamSize
    BY <1>1 DEF streamSize, ranges
<1>4. oldData' = oldData
    BY <1>1, <1>2 DEF oldData, fileData
<1>5. _limitMaxOpenCount' = _limitMaxOpenCount
    BY DEF _limitMaxOpenCount
<1>6. OldInputOK' = OldInputOK
    BY <1>1 DEF OldInputOK
<1> QED
    BY <1>1, <1>2, <1>3, <1>4, <1>5, <1>6

(* The caller's limit leaves room for one file at least. *)
LEMMA LimitIsOne ==
    ASSUME OldInputOK
    PROVE  _limitMaxOpenCount \in Nat /\ _limitMaxOpenCount >= 1
BY DEF OldInputOK, _limitMaxOpenCount

(* closeOneHandle finds exactly one file when some file is open. *)
LEMMA OneIsLeast ==
    ASSUME LimiterKnows, handles # {}
    PROVE  \E i \in handles : {j \in File : leastHit(j)} = {i}
<1> DEFINE values == {hits[i] : i \in handles}
<1>1. values \subseteq Nat /\ values # {}
    BY DEF LimiterKnows
<1>2. PICK m \in values : \A k \in values : m <= k
    BY <1>1, LeastNat
<1> DEFINE oldest == {i \in handles : hits[i] = m}
<1>3. oldest \subseteq Nat /\ oldest # {}
    <2>1. handles \subseteq Nat
        BY DEF LimiterKnows, File
    <2>2. \E i \in handles : hits[i] = m
        BY <1>2
    <2> QED
        BY <2>1, <2>2
<1>4. PICK i \in oldest : \A k \in oldest : i <= k
    BY <1>3, LeastNat
<1>5. i \in handles /\ hits[i] = m /\ m \in Nat /\ i \in File /\ i \in Nat
    BY <1>1, <1>2, <1>3, <1>4 DEF LimiterKnows
<1>6. \A j \in handles : hits[j] \in Nat /\ m <= hits[j] /\ j \in Nat /\ (hits[j] = m => i <= j)
    BY <1>2, <1>4 DEF LimiterKnows, File
<1>7. handles = _in_streamList
    BY DEF LimiterKnows
<1> HIDE DEF values, oldest
<1>8. leastHit(i)
    <2>1. ASSUME NEW j \in handles PROVE hits[i] < hits[j] \/ (hits[i] = hits[j] /\ i <= j)
        BY <1>5, <1>6
    <2> QED
        BY <1>5, <1>7, <2>1 DEF leastHit
<1>9. ASSUME NEW j, leastHit(j) PROVE j = i
    <2>1. j \in handles /\ (hits[j] < hits[i] \/ (hits[j] = hits[i] /\ j <= i))
        BY <1>5, <1>7, <1>9 DEF leastHit
    <2> QED
        BY <1>5, <1>6, <2>1
<1> QED
    BY <1>5, <1>8, <1>9

(* The invariant holds before the first read. *)
LEMMA OldInvInit == OldInit(OldInputs) => OldInv
<1> SUFFICES ASSUME OldInit(OldInputs) PROVE OldInv
    OBVIOUS
<1>1. OldInputOK
    BY OldAssumption DEF OldInit, OldInputs, OldInputOK, sizes
<1>2. ReadAt
    BY <1>1, OldFacts DEF OldInit, ReadAt, File
<1>3. ReadSoFar
    BY DEF OldInit, ReadSoFar
<1>4. LimiterKnows
    BY FS_EmptySet DEF OldInit, LimiterKnows
<1>5. LimiterCounts
    BY <1>1, LimitIsOne, FS_EmptySet DEF OldInit, LimiterCounts
<1> QED
    BY <1>1, <1>2, <1>3, <1>4, <1>5 DEF OldInv

(* The steps that open or close no file. *)
LEMMA LimiterQuiet ==
    ASSUME OldInv, oldIn' = oldIn, UNCHANGED <<handles, _in_streamList, _curOpenCount>>,
           hits' \in [File -> Nat], _curHit' \in Nat,
           oldOk' => oldOk, oldPc' = "read" => oldOk', oldPc' # "end"
    PROVE  LimiterKnows' /\ LimiterCounts'
BY OldSame DEF OldInv, LimiterKnows, LimiterCounts

(* The steps that move no read keep its place and data. *)
LEMMA ReadQuiet ==
    ASSUME OldInv, oldIn' = oldIn,
           UNCHANGED <<_curRangeIndex, readBegin, readFromPos, readEnd, readData>>,
           Len(sizes) # 0 => rangeIndex' \in File, oldPc' = "idle" => readFromPos = readEnd
    PROVE  ReadAt' /\ ReadSoFar'
<1>1. ReadAt'
    BY OldSame DEF OldInv, ReadAt
<1>2. ReadSoFar'
    BY OldSame DEF OldInv, ReadSoFar
<1> QED
    BY <1>1, <1>2

(* A file is at work only when there are files. *)
LEMMA ReadsAFile ==
    ASSUME OldInv, readFromPos < readEnd
    PROVE  /\ Len(sizes) # 0 /\ rangeIndex \in File /\ Len(sizes) \in File /\ streamSize = ranges(Len(sizes))
           /\ readFromPos < streamSize
<1>1. /\ Len(sizes) \in Nat /\ streamSize \in Nat /\ (Len(sizes) = 0 => streamSize = 0)
    BY OldFacts DEF OldInv
<1>2. readFromPos < streamSize /\ readFromPos \in Nat
    BY <1>1 DEF OldInv, ReadAt
<1>3. Len(sizes) # 0
    BY <1>1, <1>2
<1> QED
    BY <1>1, <1>2, <1>3 DEF OldInv, ReadAt, File, streamSize

(* The next file is there when the current one ends before the read does. *)
LEMMA NextFileIsThere ==
    ASSUME OldInv, readFromPos < readEnd, ranges(rangeIndex) < readEnd
    PROVE  rangeIndex + 1 \in File
<1>1. /\ rangeIndex \in File /\ Len(sizes) \in File /\ streamSize = ranges(Len(sizes))
    BY ReadsAFile
<1>2. ranges(rangeIndex) \in Nat /\ Len(sizes) \in Nat /\ streamSize \in Nat /\ readEnd \in Nat /\ readEnd <= streamSize
    BY <1>1, OldFacts DEF OldInv, ReadAt
<1>3. rangeIndex # Len(sizes)
    BY <1>1, <1>2
<1> QED
    BY <1>1, <1>2, <1>3 DEF File

(* The caller begins a read. *)
LEMMA OldReadKeeps == ASSUME OldInv, OldRead PROVE OldInv'
<1>1. /\ oldIn' = oldIn /\ UNCHANGED limitVars /\ oldOk' = oldOk /\ oldOk /\ oldPc' = "read"
      /\ _curRangeIndex' = _curRangeIndex /\ rangeIndex' = _curRangeIndex /\ readData' = <<>>
    BY DEF OldRead
<1>2. PICK from, to : /\ from \in 0..streamSize /\ to \in from..streamSize
                      /\ readBegin' = from /\ readFromPos' = from /\ readEnd' = to
    BY DEF OldRead
<1>3. LimiterKnows' /\ LimiterCounts'
    <2>1. hits' \in [File -> Nat] /\ _curHit' \in Nat
        BY <1>1 DEF limitVars, OldInv, LimiterKnows
    <2> QED
        BY <1>1, <2>1, LimiterQuiet DEF limitVars
<1>4. streamSize \in Nat
    BY OldFacts DEF OldInv
<1>5. from \in Nat /\ to \in Nat /\ from <= to /\ to <= streamSize
    BY <1>2, <1>4
<1>6. ReadAt'
    BY <1>1, <1>2, <1>5, OldSame DEF OldInv, ReadAt
<1>7. ReadSoFar'
    <2>1. readFromPos' - readBegin' = 0
        BY <1>2, <1>5
    <2> QED
        BY <1>1, <2>1 DEF ReadSoFar
<1> QED
    BY <1>1, <1>3, <1>6, <1>7, OldSame DEF OldInv

(* The file of a position is looked up. *)
LEMMA FindRangeKeeps == ASSUME OldInv, FindRange PROVE OldInv'
<1>1. /\ UNCHANGED <<oldIn, oldPc, limitVars, _curRangeIndex, readBegin, readFromPos, readEnd, readData, oldOk>>
      /\ oldPc = "read" /\ readFromPos < readEnd
    BY DEF FindRange
<1> DEFINE Behind == {i \in File : readFromPos < ranges(i)}
<1>2. rangeIndex' \in File
    <2>1. Behind # {} /\ Behind \subseteq Nat
        BY <1>1, ReadsAFile DEF File
    <2>2. PICK i \in Behind : \A j \in Behind : i <= j
        BY <2>1, LeastNat
    <2>3. \E k \in File : readFromPos < ranges(k) /\ \A j \in File : readFromPos < ranges(j) => k <= j
        BY <2>2
    <2>4. rangeIndex' = CHOOSE k \in File : readFromPos < ranges(k) /\ \A j \in File : readFromPos < ranges(j) => k <= j
        BY DEF FindRange
    <2> QED
        BY <2>3, <2>4, Zenon
<1>3. LimiterKnows' /\ LimiterCounts'
    <2>1. hits' \in [File -> Nat] /\ _curHit' \in Nat /\ oldOk
        BY <1>1 DEF limitVars, OldInv, LimiterKnows, LimiterCounts
    <2> QED
        BY <1>1, <2>1, LimiterQuiet DEF limitVars
<1>4. ReadAt' /\ ReadSoFar'
    BY <1>1, <1>2, ReadQuiet
<1> QED
    BY <1>1, <1>3, <1>4, OldSame DEF OldInv

(* The read goes on to the next file. *)
LEMMA NextRangeKeeps == ASSUME OldInv, NextRange PROVE OldInv'
<1>1. /\ UNCHANGED <<oldIn, oldPc, limitVars, _curRangeIndex, readBegin, readFromPos, readEnd, readData, oldOk>>
      /\ oldPc = "read" /\ readFromPos < readEnd /\ readFromPos = ranges(rangeIndex) /\ rangeIndex' = rangeIndex + 1
    BY DEF NextRange
<1>2. rangeIndex' \in File
    BY <1>1, NextFileIsThere
<1>3. LimiterKnows' /\ LimiterCounts'
    <2>1. hits' \in [File -> Nat] /\ _curHit' \in Nat /\ oldOk
        BY <1>1 DEF limitVars, OldInv, LimiterKnows, LimiterCounts
    <2> QED
        BY <1>1, <2>1, LimiterQuiet DEF limitVars
<1>4. ReadAt' /\ ReadSoFar'
    BY <1>1, <1>2, ReadQuiet
<1> QED
    BY <1>1, <1>3, <1>4, OldSame DEF OldInv

(* A hit is counted for the file at work. *)
LEMMA HitIsCounted ==
    ASSUME OldInv, CountHit, rangeIndex \in File
    PROVE  hits' \in [File -> Nat] /\ _curHit' \in Nat
BY DEF OldInv, LimiterKnows, CountHit

(* A read returns. *)
LEMMA ReadDoneKeeps == ASSUME OldInv, ReadDone PROVE OldInv'
<1>1. /\ UNCHANGED <<oldIn, limitVars, rangeIndex, readBegin, readFromPos, readEnd, readData, oldOk>>
      /\ oldPc = "read" /\ oldPc' = "idle" /\ readFromPos = readEnd /\ _curRangeIndex' = rangeIndex
    BY DEF ReadDone
<1>2. LimiterKnows' /\ LimiterCounts'
    <2>1. hits' \in [File -> Nat] /\ _curHit' \in Nat
        BY <1>1 DEF limitVars, OldInv, LimiterKnows
    <2> QED
        BY <1>1, <2>1, LimiterQuiet DEF limitVars
<1>3. ReadAt'
    BY <1>1, OldSame DEF OldInv, ReadAt
<1>4. ReadSoFar'
    BY <1>1, OldSame DEF OldInv, ReadSoFar
<1> QED
    BY <1>1, <1>2, <1>3, <1>4, OldSame DEF OldInv

(* The bytes that _TRefStream_read_do gives are those of the joined data   *)
(* at the position of the read.                                            *)
LEMMA PartIsJoined ==
    ASSUME OldInv, readFromPos < readEnd, isHit(readFromPos), readFromPos < ranges(rangeIndex)
    PROVE  /\ partLength \in Nat /\ readFromPos + partLength <= readEnd
           /\ readFromPos + partLength < readEnd => readFromPos + partLength = ranges(rangeIndex)
           /\ part \in Seq(Nat) /\ Len(part) = partLength
           /\ \A x \in 1..partLength : part[x] = oldData[readFromPos + x]
<1>1. PICK lo, hi, size : lo = ranges(rangeIndex - 1) /\ hi = ranges(rangeIndex) /\ size = sizes[rangeIndex]
    OBVIOUS
<1>2. rangeIndex \in File /\ Len(sizes) \in Nat
    BY ReadsAFile, OldFacts DEF OldInv
<1>3. lo \in Nat /\ hi \in Nat /\ size \in Nat /\ hi = lo + size
    BY <1>1, <1>2, OldFacts DEF OldInv
<1>4. readFromPos \in Nat /\ readEnd \in Nat /\ lo <= readFromPos /\ readFromPos < hi
    BY <1>1 DEF OldInv, ReadAt, isHit
<1>5. PICK n : n = partLength
    OBVIOUS
<1>6. /\ n \in Nat /\ readFromPos + n <= readEnd /\ readFromPos + n <= hi
      /\ readFromPos + n < readEnd => readFromPos + n = hi
    <2>1. n = (IF readEnd < hi THEN readEnd ELSE hi) - readFromPos
        BY <1>1, <1>5 DEF partLength
    <2>2. CASE readEnd < hi
        <3>1. n = readEnd - readFromPos
            BY <2>1, <2>2
        <3> QED
            BY <1>3, <1>4, <2>2, <3>1
    <2>3. CASE ~(readEnd < hi)
        <3>1. n = hi - readFromPos
            BY <2>1, <2>3
        <3> QED
            BY <1>3, <1>4, <2>3, <3>1
    <2> QED
        BY <2>2, <2>3
<1>7. PICK at \in Nat : at = readFromPos - lo /\ at + n <= size
    <2>1. readFromPos - lo \in Nat /\ (readFromPos - lo) + n <= size
        BY <1>3, <1>4, <1>6
    <2> QED
        BY <2>1
<1>8. PICK data : data = fileData(rangeIndex)
    OBVIOUS
<1>9. \A k \in 1..size : data[k] = byteOf(rangeIndex, k) /\ byteOf(rangeIndex, k) \in Nat
    BY <1>1, <1>2, <1>3, <1>8 DEF fileData, byteOf, File
<1>10. part = SubSeq(data, at + 1, at + n)
    BY <1>1, <1>5, <1>7, <1>8 DEF part
<1>11. \A i \in (at + 1)..(at + n) : data[i] \in Nat
    BY <1>3, <1>6, <1>7, <1>9
<1>12. at + 1 \in Int /\ at + n \in Int
    BY <1>6
<1>13. /\ part \in Seq(Nat)
       /\ Len(part) = IF at + 1 <= at + n THEN (at + n) - (at + 1) + 1 ELSE 0
       /\ \A i \in 1..((at + n) - (at + 1) + 1) : part[i] = data[(at + 1) + i - 1]
    BY <1>10, <1>11, <1>12, SubSeqProperties
<1>14. Len(part) = n
    BY <1>6, <1>13
<1>15. ASSUME NEW x \in 1..n PROVE part[x] = oldData[readFromPos + x]
    <2>1. x \in 1..((at + n) - (at + 1) + 1) /\ (at + 1) + x - 1 = at + x /\ at + x \in 1..size
        BY <1>3, <1>6, <1>7
    <2>2. part[x] = byteOf(rangeIndex, at + x)
        BY <1>9, <1>13, <2>1
    <2>3. oldData[lo + (at + x)] = byteOf(rangeIndex, at + x)
        BY <1>1, <1>2, <2>1, OldFacts DEF OldInv
    <2>4. lo + (at + x) = readFromPos + x
        BY <1>3, <1>4, <1>6, <1>7
    <2> QED
        BY <2>2, <2>3, <2>4
<1> QED
    BY <1>1, <1>5, <1>6, <1>13, <1>14, <1>15

(* An open file is read. *)
LEMMA ReadOpenKeeps == ASSUME OldInv, ReadOpen PROVE OldInv'
<1>1. /\ UNCHANGED <<oldIn, handles, _in_streamList, _curOpenCount, _curRangeIndex, readBegin, readEnd>>
      /\ oldPc = "read" /\ readFromPos < readEnd /\ isHit(readFromPos) /\ readFromPos < ranges(rangeIndex) /\ CountHit
    BY DEF ReadOpen
<1>2. rangeIndex \in File /\ Len(sizes) # 0 /\ oldOk
    BY <1>1, ReadsAFile DEF OldInv, LimiterCounts
<1>3. hits' \in [File -> Nat] /\ _curHit' \in Nat
    BY <1>1, <1>2, HitIsCounted
<1>4. CASE oldPc' = "close" /\ oldOk' = FALSE /\ UNCHANGED <<readData, readFromPos, rangeIndex>>
    <2>1. LimiterKnows' /\ LimiterCounts'
        BY <1>1, <1>3, <1>4, LimiterQuiet
    <2>2. ReadAt' /\ ReadSoFar'
        BY <1>1, <1>2, <1>4, ReadQuiet
    <2> QED
        BY <1>1, <2>1, <2>2, OldSame DEF OldInv
<1>5. CASE /\ readData' = readData \o part /\ readFromPos' = readFromPos + partLength
           /\ rangeIndex' = IF readFromPos' < readEnd THEN rangeIndex + 1 ELSE rangeIndex
           /\ UNCHANGED <<oldPc, oldOk>>
    <2>1. LimiterKnows' /\ LimiterCounts'
        BY <1>1, <1>2, <1>3, <1>5, LimiterQuiet
    <2>2. PICK n \in Nat, piece \in Seq(Nat) :
              /\ n = partLength /\ piece = part /\ Len(piece) = n /\ readFromPos + n <= readEnd
              /\ readFromPos + n < readEnd => readFromPos + n = ranges(rangeIndex)
              /\ \A x \in 1..n : piece[x] = oldData[readFromPos + x]
        BY <1>1, PartIsJoined
    <2>3. rangeIndex' \in File
        <3>1. CASE readFromPos' < readEnd
            BY <1>1, <1>5, <2>2, <3>1, NextFileIsThere
        <3>2. CASE ~(readFromPos' < readEnd)
            BY <1>2, <1>5, <3>2
        <3> QED
            BY <3>1, <3>2
    <2>4. /\ readBegin \in Nat /\ readFromPos \in Nat /\ readEnd \in Nat
          /\ readBegin <= readFromPos /\ readEnd <= streamSize
          /\ _curRangeIndex \in File
        BY <1>2 DEF OldInv, ReadAt
    <2>5. ReadAt'
        BY <1>1, <1>5, <2>2, <2>3, <2>4, OldSame DEF ReadAt
    <2>6. PICK done : done = readFromPos - readBegin
        OBVIOUS
    <2>7. /\ done \in Nat /\ readData \in Seq(Nat) /\ Len(readData) = done
          /\ \A x \in 1..done : readData[x] = oldData[readBegin + x]
        BY <2>4, <2>6 DEF OldInv, ReadSoFar
    <2>8. /\ readData \o piece \in Seq(Nat) /\ Len(readData \o piece) = done + n
          /\ \A x \in 1..(done + n) : (readData \o piece)[x] = IF x <= done THEN readData[x] ELSE piece[x - done]
        <3>1. readData \in Seq(Nat) /\ piece \in Seq(Nat) /\ Len(readData) = done /\ Len(piece) = n
            BY <2>2, <2>7
        <3>2. readData \o piece \in Seq(Nat)
            BY <3>1
        <3>3. /\ Len(readData \o piece) = Len(readData) + Len(piece)
              /\ \A x \in 1..(Len(readData) + Len(piece)) :
                     (readData \o piece)[x] = IF x <= Len(readData) THEN readData[x] ELSE piece[x - Len(readData)]
            BY <3>1, ConcatProperties
        <3> QED
            BY <3>1, <3>2, <3>3
    <2>9. readData' \in Seq(Nat) /\ Len(readData') = readFromPos' - readBegin' /\ readFromPos' - readBegin' = done + n
        BY <1>1, <1>5, <2>2, <2>4, <2>6, <2>8
    <2>10. ASSUME NEW x \in 1..(done + n) PROVE readData'[x] = oldData[readBegin + x]
        <3>0. readData'[x] = IF x <= done THEN readData[x] ELSE piece[x - done]
            BY <1>5, <2>2, <2>8
        <3>1. CASE x <= done
            BY <2>7, <3>0, <3>1
        <3>2. CASE ~(x <= done)
            <4>1. x - done \in 1..n /\ readFromPos + (x - done) = readBegin + x
                BY <2>2, <2>4, <2>6, <2>7, <3>2
            <4>2. piece[x - done] = oldData[readFromPos + (x - done)]
                BY <2>2, <4>1
            <4> QED
                BY <3>0, <3>2, <4>1, <4>2
        <3> QED
            BY <3>1, <3>2
    <2>11. ReadSoFar'
        BY <1>1, <2>9, <2>10, OldSame DEF ReadSoFar
    <2> QED
        BY <1>1, <2>1, <2>5, <2>11, OldSame DEF OldInv
<1> QED
    BY <1>4, <1>5 DEF ReadOpen, ReadFails

(* All that the limiter knows is closed. *)
LEMMA CloseKeeps == ASSUME OldInv, CloseFileHandles PROVE OldInv'
<1>1. /\ UNCHANGED <<oldIn, _curHit, hits, _curRangeIndex, rangeIndex, readBegin, readFromPos, readEnd, readData>>
      /\ oldPc' = "end" /\ handles' = handles \ _in_streamList /\ _in_streamList' = {}
      /\ _curOpenCount' = _curOpenCount - Cardinality(_in_streamList) /\ (oldOk' => oldOk)
    BY DEF CloseFileHandles
<1>2. handles' = {}
    BY <1>1 DEF OldInv, LimiterKnows
<1>3. Cardinality({}) = 0 /\ IsFiniteSet({})
    BY FS_EmptySet
<1>4. LimiterKnows'
    BY <1>1, <1>2, <1>3, OldSame DEF OldInv, LimiterKnows
<1>5. oldOk' => _curOpenCount' = 0
    <2>1. Cardinality(handles) \in Nat
        BY FS_CardinalityType DEF OldInv, LimiterKnows
    <2> QED
        BY <1>1, <2>1 DEF OldInv, LimiterKnows, LimiterCounts
<1>6. LimiterCounts'
    <2>1. _limitMaxOpenCount' \in Nat
        BY <1>1, OldSame, LimitIsOne DEF OldInv
    <2>2. Cardinality(handles') = 0
        BY <1>2, <1>3
    <2>3. Cardinality(handles') <= _limitMaxOpenCount'
        BY <2>1, <2>2
    <2>4. oldOk' => _curOpenCount' = Cardinality(handles')
        BY <1>5, <2>2
    <2> QED
        BY <1>1, <1>2, <2>3, <2>4 DEF LimiterCounts
<1>7. ReadAt' /\ ReadSoFar'
    <2>1. Len(sizes) # 0 => rangeIndex' \in File
        BY <1>1 DEF OldInv, ReadAt
    <2> QED
        BY <1>1, <2>1, ReadQuiet
<1> QED
    BY <1>1, <1>4, <1>6, <1>7, OldSame DEF OldInv

(* A file is opened, after another was closed when the limit was reached. *)
LEMMA OpenHandleKeeps == ASSUME OldInv, OpenHandle PROVE OldInv'
<1>1. /\ UNCHANGED <<oldIn, _curRangeIndex, rangeIndex, readBegin, readFromPos, readEnd, readData>>
      /\ oldPc = "read" /\ readFromPos < readEnd /\ rangeIndex \notin _in_streamList
    BY DEF OpenHandle
<1>2. rangeIndex \in File /\ Len(sizes) # 0 /\ oldOk
    BY <1>1, ReadsAFile DEF OldInv, LimiterCounts
<1>3. /\ handles = _in_streamList /\ handles \subseteq File /\ IsFiniteSet(handles) /\ rangeIndex \notin handles
      /\ hits \in [File -> Nat] /\ _curHit \in Nat
    BY <1>1 DEF OldInv, LimiterKnows
<1>4. PICK open, limit : open = Cardinality(handles) /\ limit = _limitMaxOpenCount
    OBVIOUS
<1>5. open \in Nat /\ limit \in Nat /\ limit >= 1 /\ open <= limit /\ _curOpenCount = open
    BY <1>2, <1>3, <1>4, LimitIsOne, FS_CardinalityType DEF OldInv, LimiterCounts
<1>6. PICK closed : closed = IF isFull THEN {i \in File : leastHit(i)} ELSE {}
    OBVIOUS
<1>7. /\ IsFiniteSet(handles \ closed) /\ Cardinality(handles \ closed) = open - Cardinality(closed)
      /\ Cardinality(closed) \in Nat /\ open - Cardinality(closed) \in Nat /\ open - Cardinality(closed) + 1 <= limit
    <2>1. CASE isFull
        <3>1. open >= limit
            BY <1>4, <1>5, <2>1 DEF isFull
        <3>2. handles # {}
            BY <1>4, <1>5, <3>1, FS_EmptySet
        <3>3. PICK i \in handles : closed = {i}
            BY <1>6, <2>1, <3>2, OneIsLeast DEF OldInv
        <3>4. Cardinality(closed) = 1
            BY <3>3, FS_Singleton
        <3>5. IsFiniteSet(handles \ {i}) /\ Cardinality(handles \ {i}) = open - 1
            BY <1>3, <1>4, FS_RemoveElement
        <3> QED
            BY <1>5, <3>1, <3>3, <3>4, <3>5
    <2>2. CASE ~isFull
        <3>1. closed = {} /\ Cardinality(closed) = 0 /\ handles \ closed = handles
            BY <1>6, <2>2, FS_EmptySet
        <3>2. open < limit
            BY <1>4, <1>5, <2>2 DEF isFull
        <3> QED
            BY <1>3, <1>4, <1>5, <3>1, <3>2
    <2> QED
        BY <2>1, <2>2
<1> DEFINE Left == handles \ closed
           With == Left \cup {rangeIndex}
<1>8. IsFiniteSet(With) /\ Cardinality(With) = Cardinality(Left) + 1
    BY <1>3, <1>7, FS_AddElement
<1>9. CASE /\ handles' = With /\ _in_streamList' = With /\ _curOpenCount' = _curOpenCount - Cardinality(closed) + 1
           /\ UNCHANGED <<oldPc, oldOk, _curHit, hits>>
    <2>1. LimiterKnows'
        BY <1>1, <1>2, <1>3, <1>8, <1>9, OldSame DEF LimiterKnows
    <2>2. LimiterCounts'
        BY <1>1, <1>2, <1>4, <1>5, <1>7, <1>8, <1>9, OldSame DEF LimiterCounts
    <2>3. ReadAt' /\ ReadSoFar'
        BY <1>1, <1>2, <1>9, ReadQuiet
    <2> QED
        BY <1>1, <2>1, <2>2, <2>3, OldSame DEF OldInv
<1>10. CASE /\ \/ handles' = Left /\ _in_streamList' = Left
               \/ handles' = With /\ _in_streamList' = With
            /\ ReadFails /\ CountHit
    <2>0. oldPc' = "close" /\ oldOk' = FALSE /\ hits' \in [File -> Nat] /\ _curHit' \in Nat
        BY <1>2, <1>10, HitIsCounted DEF ReadFails
    <2>1. LimiterKnows'
        BY <1>1, <1>2, <1>3, <1>7, <1>8, <1>10, <2>0, OldSame DEF LimiterKnows
    <2>2. Cardinality(handles') <= limit
        BY <1>5, <1>7, <1>8, <1>10
    <2>3. LimiterCounts'
        BY <1>1, <1>4, <2>0, <2>2, OldSame DEF LimiterCounts
    <2>4. ReadAt' /\ ReadSoFar'
        BY <1>1, <1>2, <2>0, ReadQuiet
    <2> QED
        BY <1>1, <2>1, <2>3, <2>4, OldSame DEF OldInv
<1>11. \/ /\ handles' = (handles \ closed) \cup {rangeIndex}
          /\ _in_streamList' = (_in_streamList \ closed) \cup {rangeIndex}
          /\ _curOpenCount' = _curOpenCount - Cardinality(closed) + 1
          /\ UNCHANGED <<oldPc, oldOk, oldFaults, _curHit, hits>>
       \/ /\ ReadFails /\ CountHit
          /\ \/ handles' = handles \ closed /\ _in_streamList' = _in_streamList \ closed
             \/ /\ handles' = (handles \ closed) \cup {rangeIndex}
                /\ _in_streamList' = (_in_streamList \ closed) \cup {rangeIndex}
    BY <1>6, Zenon DEF OpenHandle
<1>12. _in_streamList \ closed = Left
    BY <1>3
<1>13. (handles \ closed) \cup {rangeIndex} = With /\ (_in_streamList \ closed) \cup {rangeIndex} = With
    BY <1>12
<1> HIDE DEF Left, With
<1>14. CASE ReadFails /\ CountHit
    BY <1>10, <1>11, <1>12, <1>13, <1>14 DEF Left
<1>15. CASE ~(ReadFails /\ CountHit)
    BY <1>9, <1>11, <1>13, <1>15
<1> QED
    BY <1>14, <1>15

(* Every step of the old stream keeps the invariant. *)
LEMMA OldInvStep == OldInv /\ [OldNext]_oldVars => OldInv'
<1> SUFFICES ASSUME OldInv, [OldNext]_oldVars PROVE OldInv'
    OBVIOUS
<1>1. CASE UNCHANGED oldVars
    <2>1. UNCHANGED <<oldIn, oldPc, handles, _in_streamList, _curOpenCount, _curHit, hits, _curRangeIndex,
                      rangeIndex, readBegin, readFromPos, readEnd, readData, oldOk>>
        BY <1>1 DEF oldVars
    <2>2. LimiterKnows'
        BY <2>1, OldSame DEF OldInv, LimiterKnows
    <2>3. LimiterCounts'
        BY <2>1, OldSame DEF OldInv, LimiterCounts
    <2>4. ReadAt' /\ ReadSoFar'
        <3>1. (Len(sizes) # 0 => rangeIndex' \in File) /\ (oldPc' = "idle" => readFromPos = readEnd)
            BY <2>1 DEF OldInv, ReadAt
        <3> QED
            BY <2>1, <3>1, ReadQuiet
    <2> QED
        BY <2>1, <2>2, <2>3, <2>4, OldSame DEF OldInv
<1>2. CASE OldRead
    BY <1>2, OldReadKeeps
<1>3. CASE FindRange
    BY <1>3, FindRangeKeeps
<1>4. CASE NextRange
    BY <1>4, NextRangeKeeps
<1>5. CASE ReadOpen
    BY <1>5, ReadOpenKeeps
<1>6. CASE OpenHandle
    BY <1>6, OpenHandleKeeps
<1>7. CASE ReadDone
    BY <1>7, ReadDoneKeeps
<1>8. CASE CloseFileHandles
    BY <1>8, CloseKeeps
<1> QED
    BY <1>1, <1>2, <1>3, <1>4, <1>5, <1>6, <1>7, <1>8 DEF OldNext

(* For every list of old files, every limit of the caller and every number *)
(* of failing opens, reads and closes: the process has no more old files   *)
(* open than the limit allows, and none after closeFileHandles.            *)
THEOREM HandlesAreBounded == OldSpec => []OldHandlesBounded
<1>1. OldInv => OldHandlesBounded
    BY DEF OldInv, LimiterCounts, OldHandlesBounded
<1> QED
    BY <1>1, OldInvInit, OldInvStep, PTL DEF OldSpec

(* For every list of old files, empty ones among them, and every sequence  *)
(* of reads: a read gives the bytes of the joined files, whichever files   *)
(* were closed and opened again in between.                                *)
THEOREM ReadsAreJoined == OldSpec => []OldReadsJoined
<1>1. ASSUME OldInv PROVE OldReadsJoined
    <2> SUFFICES ASSUME oldPc = "idle" PROVE readData = SubSeq(oldData, readBegin + 1, readEnd)
        BY DEF OldReadsJoined
    <2>1. /\ readBegin \in Nat /\ readEnd \in Nat /\ readBegin <= readEnd /\ readEnd <= streamSize
          /\ readFromPos = readEnd
        BY <1>1 DEF OldInv, ReadAt
    <2>2. /\ readData \in Seq(Nat) /\ Len(readData) = readEnd - readBegin
          /\ \A x \in 1..(readEnd - readBegin) : readData[x] = oldData[readBegin + x]
        BY <1>1, <2>1 DEF OldInv, ReadSoFar
    <2>3. oldData \in Seq(Nat) /\ Len(oldData) = streamSize /\ streamSize \in Nat
        BY <1>1, OldFacts DEF OldInv
    <2>4. PICK data : data = oldData
        OBVIOUS
    <2>5. \A i \in (readBegin + 1)..readEnd : data[i] \in Nat
        BY <2>1, <2>3, <2>4
    <2>6. /\ SubSeq(data, readBegin + 1, readEnd) \in Seq(Nat)
          /\ Len(SubSeq(data, readBegin + 1, readEnd)) =
                 IF readBegin + 1 <= readEnd THEN readEnd - (readBegin + 1) + 1 ELSE 0
          /\ \A i \in 1..(readEnd - (readBegin + 1) + 1) :
                 SubSeq(data, readBegin + 1, readEnd)[i] = data[(readBegin + 1) + i - 1]
        BY <2>1, <2>5, SubSeqProperties
    <2>7. Len(SubSeq(data, readBegin + 1, readEnd)) = readEnd - readBegin
        BY <2>1, <2>6
    <2>8. ASSUME NEW x \in 1..(readEnd - readBegin) PROVE SubSeq(data, readBegin + 1, readEnd)[x] = readData[x]
        <3>1. x \in 1..(readEnd - (readBegin + 1) + 1) /\ (readBegin + 1) + x - 1 = readBegin + x
            BY <2>1
        <3> QED
            BY <2>2, <2>4, <2>6, <3>1
    <2>9. readData = SubSeq(data, readBegin + 1, readEnd)
        BY <2>2, <2>6, <2>7, <2>8, SeqEqual
    <2> QED
        BY <2>4, <2>9
<1> QED
    BY <1>1, OldInvInit, OldInvStep, PTL DEF OldSpec

---------------------------------------------------------------------------
(* OutStreamCache: what the stream and the cache hold *)

(* Byte k of a stream and the memory of the cache behind it. *)
byteAt(stream, memory, k) == IF k <= Len(stream) THEN stream[k] ELSE memory[k - Len(stream)]

(* The bytes put out so far, and each of them. *)
Held == Len(outStream) + cacheCur
heldAt(k) == byteAt(outStream, outCacheBuf, k)

OutTypes ==
    /\ cacheEnd \in Nat \ {0} /\ cacheCur \in 0..cacheEnd
    /\ outStream \in Seq(Nat) /\ outWanted \in Seq(Nat)
    /\ outCacheBuf \in Seq(Nat) /\ Len(outCacheBuf) = cacheEnd
    /\ outAhead \in Nat /\ outSrcPos \in Nat /\ outCopyLength \in Nat
    /\ outPc \in {"idle", "fill", "stream", "mem", "small", "again"}

(* They are the first of those wanted, and the rest is what the running    *)
(* operation has still to put out.                                         *)
HeldIsWanted ==
    /\ Held + outCopyLength = Len(outWanted)
    /\ \A k \in 1..Held : heldAt(k) = outWanted[k]
    /\ outPc = "idle" => outCopyLength = 0

(* Only a copy that has filled the cache from the stream leaves it full. *)
CacheHasRoom == outPc # "again" => cacheCur < cacheEnd

FillIsWanted == outPc = "fill" => \A k \in 1..Len(outWanted) : k > Held => outWanted[k] = 100

(* What a copy has still to put out is what was put out outAhead before. *)
CopyIsWanted ==
    outPc \in {"stream", "mem", "small", "again"} =>
        /\ outAhead \in 1..Held
        /\ \A k \in 1..Len(outWanted) : k > Held => outWanted[k] = outWanted[k - outAhead]

(* Where the source of each way of copying is. *)
SourceIsThere ==
    /\ outPc = "stream" => /\ outSrcPos = Held - outAhead
                           /\ outSrcPos + outCopyLength <= Len(outStream) \/ outAhead > cacheEnd
    /\ outPc = "mem" => outAhead < cacheEnd /\ (outCopyLength > 0 => outAhead <= cacheCur)
    /\ outPc = "small" => /\ outSrcPos = Held - outAhead /\ outSrcPos < Len(outStream)
                          /\ outSrcPos + outCopyLength > Len(outStream) /\ outAhead <= cacheEnd
    /\ outPc = "again" => outAhead = cacheEnd /\ (outCopyLength > 0 => cacheCur = cacheEnd)

(* The inductive invariant of the output cache. *)
OutInv == OutTypes /\ HeldIsWanted /\ CacheHasRoom /\ FillIsWanted /\ CopyIsWanted /\ SourceIsThere

(* w is what a copy from `ahead` bytes before the end of s puts out. *)
Repeats(w, s, ahead, n) ==
    /\ w \in [1..n -> Nat]
    /\ \A i \in 1..n : w[i] = IF i <= ahead THEN s[Len(s) - ahead + i] ELSE w[i - ahead]

(* Such a w exists for every length: it is made byte by byte. *)
LEMMA RepeatsExist ==
    ASSUME NEW s \in Seq(Nat), NEW ahead \in 1..Len(s), NEW n \in Nat
    PROVE  \E w : Repeats(w, s, ahead, n)
<1> DEFINE Bad == {m \in Nat : ~ \E w : Repeats(w, s, ahead, m)}
<1>1. Bad = {}
    <2> SUFFICES ASSUME Bad # {} PROVE FALSE
        OBVIOUS
    <2>1. PICK m \in Bad : \A k \in Bad : m <= k
        <3>1. Bad \subseteq Nat
            OBVIOUS
        <3> QED
            BY <3>1, LeastNat
    <2>2. m # 0
        <3>1. Repeats([i \in 1..0 |-> 0], s, ahead, 0)
            BY DEF Repeats
        <3> QED
            BY <2>1, <3>1
    <2>3. m \in Nat /\ m - 1 \in Nat
        BY <2>1, <2>2
    <2>4. PICK w : Repeats(w, s, ahead, m - 1)
        <3>1. m - 1 \notin Bad
            <4> HIDE DEF Bad
            <4> QED
                BY <2>1, <2>3
        <3> QED
            BY <2>3, <3>1
    <2>5. PICK last : last = IF m <= ahead THEN s[Len(s) - ahead + m] ELSE w[m - ahead]
        OBVIOUS
    <2>6. w \in [1..(m - 1) -> Nat]
        BY <2>4 DEF Repeats
    <2>7. last \in Nat
        <3>1. CASE m <= ahead
            <4>1. Len(s) - ahead + m \in 1..Len(s)
                BY <2>2, <2>3, <3>1
            <4> QED
                BY <2>5, <3>1, <4>1
        <3>2. CASE ~(m <= ahead)
            <4>1. m - ahead \in 1..(m - 1)
                BY <2>3, <3>2
            <4> QED
                BY <2>5, <2>6, <3>2, <4>1
        <3> QED
            BY <3>1, <3>2
    <2>8. PICK longer : longer = [i \in 1..m |-> IF i = m THEN last ELSE w[i]]
        OBVIOUS
    <2>9. Repeats(longer, s, ahead, m)
        <3>1. longer \in [1..m -> Nat]
            BY <2>3, <2>6, <2>7, <2>8
        <3>2. ASSUME NEW i \in 1..m
              PROVE  longer[i] = IF i <= ahead THEN s[Len(s) - ahead + i] ELSE longer[i - ahead]
            <4>1. ~(i <= ahead) => i - ahead \in 1..(m - 1) /\ longer[i - ahead] = w[i - ahead]
                BY <2>3, <2>8
            <4>2. CASE i = m
                BY <2>5, <2>8, <4>1, <4>2
            <4>3. CASE i # m
                <5>1. i \in 1..(m - 1) /\ longer[i] = w[i]
                    BY <2>3, <2>8, <4>3
                <5>2. w[i] = IF i <= ahead THEN s[Len(s) - ahead + i] ELSE w[i - ahead]
                    BY <2>4, <5>1 DEF Repeats
                <5> QED
                    BY <4>1, <5>1, <5>2
            <4> QED
                BY <4>2, <4>3
        <3> QED
            BY <3>1, <3>2 DEF Repeats
    <2> QED
        BY <2>1, <2>9
<1> QED
    BY <1>1

(* There is only one. *)
LEMMA RepeatsOnce ==
    ASSUME NEW s, NEW ahead \in Nat \ {0}, NEW n \in Nat, NEW v, NEW w,
           Repeats(v, s, ahead, n), Repeats(w, s, ahead, n)
    PROVE  v = w
<1> DEFINE Diff == {i \in 1..n : v[i] # w[i]}
<1>1. Diff = {}
    <2> SUFFICES ASSUME Diff # {} PROVE FALSE
        OBVIOUS
    <2>1. PICK m \in Diff : \A k \in Diff : m <= k
        <3>1. Diff \subseteq Nat
            OBVIOUS
        <3> QED
            BY <3>1, LeastNat
    <2>2. m \in 1..n /\ v[m] # w[m]
        BY <2>1
    <2>3. /\ v[m] = IF m <= ahead THEN s[Len(s) - ahead + m] ELSE v[m - ahead]
          /\ w[m] = IF m <= ahead THEN s[Len(s) - ahead + m] ELSE w[m - ahead]
        BY <2>2 DEF Repeats
    <2>4. ~(m <= ahead)
        BY <2>2, <2>3
    <2>5. m - ahead \in 1..n /\ m - ahead \notin Diff
        <3>1. m - ahead \in 1..n /\ ~(m <= m - ahead)
            BY <2>2, <2>4
        <3> HIDE DEF Diff
        <3> QED
            BY <2>1, <3>1
    <2> QED
        BY <2>2, <2>3, <2>4, <2>5
<1>2. v \in [1..n -> Nat] /\ w \in [1..n -> Nat]
    BY DEF Repeats
<1> QED
    BY <1>1, <1>2, SMTT(30)

LEMMA RepeatedSteps ==
    ASSUME NEW s \in Seq(Nat), NEW ahead \in 1..Len(s), NEW n \in Nat
    PROVE  Repeats(repeated(s, ahead, n), s, ahead, n)
<1>1. PICK w : Repeats(w, s, ahead, n)
    BY RepeatsExist
<1> DEFINE byte == repeated(s, ahead, n)
<1>2. w = [i \in 1..n |-> IF i <= ahead THEN s[Len(s) - ahead + i] ELSE w[i - ahead]]
    BY <1>1 DEF Repeats
<1>3. byte = [i \in 1..n |-> IF i <= ahead THEN s[Len(s) - ahead + i] ELSE byte[i - ahead]]
    <2>1. byte = CHOOSE f : f = [i \in 1..n |-> IF i <= ahead THEN s[Len(s) - ahead + i] ELSE f[i - ahead]]
        BY DEF repeated
    <2> QED
        BY <1>2, <2>1, Zenon
<1> HIDE DEF byte
<1>4. \A i \in 1..n : byte[i] = IF i <= ahead THEN s[Len(s) - ahead + i] ELSE byte[i - ahead]
    BY <1>3
<1>5. \A i \in 1..n : byte[i] \in Nat
    <2> DEFINE Bad == {i \in 1..n : byte[i] \notin Nat}
    <2> SUFFICES ASSUME Bad # {} PROVE FALSE
        OBVIOUS
    <2>1. PICK m \in Bad : \A k \in Bad : m <= k
        <3>1. Bad \subseteq Nat
            OBVIOUS
        <3> QED
            BY <3>1, LeastNat
    <2>2. m \in 1..n /\ byte[m] \notin Nat
        BY <2>1
    <2>3. CASE m <= ahead
        <3>1. Len(s) - ahead + m \in 1..Len(s)
            BY <2>2, <2>3
        <3>2. s[Len(s) - ahead + m] \in Nat
            BY <3>1, SMTT(30)
        <3>3. byte[m] = s[Len(s) - ahead + m]
            BY <1>4, <2>2, <2>3
        <3> QED
            BY <2>2, <3>2, <3>3
    <2>4. CASE ~(m <= ahead)
        <3>1. m - ahead \in 1..n /\ ~(m <= m - ahead)
            BY <2>2, <2>4
        <3>2. m - ahead \notin Bad
            <4> HIDE DEF Bad
            <4> QED
                BY <2>1, <3>1
        <3> QED
            BY <1>4, <2>2, <2>4, <3>1, <3>2
    <2> QED
        BY <2>3, <2>4
<1>6. byte \in [1..n -> Nat]
    BY <1>3, <1>5
<1> QED
    BY <1>4, <1>6 DEF Repeats, byte

LEMMA JoinedAt ==
    ASSUME NEW s \in Seq(Nat), NEW t \in Seq(Nat)
    PROVE  /\ s \o t \in Seq(Nat) /\ Len(s \o t) = Len(s) + Len(t)
           /\ \A k \in 1..(Len(s) + Len(t)) : (s \o t)[k] = byteAt(s, t, k)
BY ConcatProperties DEF byteAt

LEMMA PartAt ==
    ASSUME NEW s \in Seq(Nat), NEW m \in 1..(Len(s) + 1), NEW n \in Nat, m + n <= Len(s) + 1
    PROVE  /\ SubSeq(s, m, m + n - 1) \in Seq(Nat) /\ Len(SubSeq(s, m, m + n - 1)) = n
           /\ \A i \in 1..n : SubSeq(s, m, m + n - 1)[i] = s[m + i - 1]
BY SubSeqProperties

(* placed writes the data behind `at` and leaves the rest of the memory. *)
LEMMA PlacedAt ==
    ASSUME NEW memory \in Seq(Nat), NEW at \in Nat, NEW data \in Seq(Nat)
    PROVE  /\ placed(memory, at, data) \in Seq(Nat) /\ Len(placed(memory, at, data)) = Len(memory)
           /\ \A i \in 1..Len(memory) :
                placed(memory, at, data)[i] = IF at < i /\ i <= at + Len(data) THEN data[i - at] ELSE memory[i]
<1>1. \A i \in 1..Len(memory) :
          i - at \in 1..Len(data) <=> at < i /\ i <= at + Len(data)
    OBVIOUS
<1>2. \A i \in 1..Len(memory) : memory[i] \in Nat
    OBVIOUS
<1>3. \A i \in 1..Len(memory) : i - at \in 1..Len(data) => data[i - at] \in Nat
    OBVIOUS
<1>4. placed(memory, at, data) \in [1..Len(memory) -> Nat]
    BY <1>2, <1>3 DEF placed
<1>5. placed(memory, at, data) \in Seq(Nat) /\ Len(placed(memory, at, data)) = Len(memory)
    <2>1. PICK f : f = placed(memory, at, data)
        OBVIOUS
    <2>2. f \in [1..Len(memory) -> Nat] /\ Len(memory) \in Nat
        BY <1>4, <2>1
    <2> QED
        BY <2>1, <2>2, FunctionIsSeq
<1>6. \A i \in 1..Len(memory) :
          placed(memory, at, data)[i] = IF i - at \in 1..Len(data) THEN data[i - at] ELSE memory[i]
    BY DEF placed
<1> QED
    BY <1>1, <1>5, <1>6

(* Data placed behind what a cache holds follows what was put out. *)
LEMMA PlacedFollows ==
    ASSUME NEW stream \in Seq(Nat), NEW memory \in Seq(Nat), NEW at \in Nat, NEW data \in Seq(Nat),
           at + Len(data) <= Len(memory)
    PROVE  \A k \in 1..(Len(stream) + at + Len(data)) :
               byteAt(stream, placed(memory, at, data), k) =
                   IF k <= Len(stream) + at THEN byteAt(stream, memory, k) ELSE data[k - (Len(stream) + at)]
<1> SUFFICES ASSUME NEW k \in 1..(Len(stream) + at + Len(data))
             PROVE  byteAt(stream, placed(memory, at, data), k) =
                        IF k <= Len(stream) + at THEN byteAt(stream, memory, k) ELSE data[k - (Len(stream) + at)]
    OBVIOUS
<1>0. PICK placedThere : placedThere = placed(memory, at, data)
    OBVIOUS
<1>1. CASE k <= Len(stream)
    BY <1>1 DEF byteAt
<1>2. CASE ~(k <= Len(stream))
    <2>1. PICK i \in 1..Len(memory) : i = k - Len(stream)
        <3>1. Len(stream) \in Nat /\ Len(memory) \in Nat /\ Len(data) \in Nat
            OBVIOUS
        <3>2. k - Len(stream) \in 1..Len(memory)
            BY <1>2, <3>1
        <3> QED
            BY <3>2
    <2>2. placedThere[i] = IF at < i /\ i <= at + Len(data) THEN data[i - at] ELSE memory[i]
        BY <1>0, PlacedAt
    <2>3. i <= at + Len(data) /\ (at < i <=> ~(k <= Len(stream) + at)) /\ k - (Len(stream) + at) = i - at
        BY <2>1
    <2>4. byteAt(stream, placedThere, k) = placedThere[i] /\ byteAt(stream, memory, k) = memory[i]
        BY <1>2, <2>1 DEF byteAt
    <2> QED
        BY <1>0, <2>2, <2>3, <2>4
<1> QED
    BY <1>1, <1>2

(* A round that caches data adds it to what was put out. *)
LEMMA CachedKeeps ==
    ASSUME OutTypes, cacheCur < cacheEnd, NEW data \in Seq(Nat), Len(data) <= cacheEnd - cacheCur,
           Cached(data), cacheEnd' = cacheEnd
    PROVE  /\ outStream' \in Seq(Nat) /\ outCacheBuf' \in Seq(Nat) /\ Len(outCacheBuf') = cacheEnd'
           /\ cacheCur' \in 0..cacheEnd' /\ cacheCur' < cacheEnd'
           /\ Held' = Held + Len(data) /\ Len(outStream) <= Len(outStream')
           /\ \A k \in 1..Held' : heldAt(k)' = IF k <= Held THEN heldAt(k) ELSE data[k - Held]
<1> DEFINE memory == placed(outCacheBuf, cacheCur, data)
<1>0. /\ cacheEnd \in Nat \ {0} /\ cacheCur \in Nat /\ outStream \in Seq(Nat)
      /\ outCacheBuf \in Seq(Nat) /\ Len(outCacheBuf) = cacheEnd /\ Len(data) \in Nat
    BY DEF OutTypes
<1>1. memory \in Seq(Nat) /\ Len(memory) = cacheEnd
    BY <1>0, PlacedAt
<1>2. \A k \in 1..(Held + Len(data)) :
          byteAt(outStream, memory, k) = IF k <= Held THEN heldAt(k) ELSE data[k - Held]
    BY <1>0, PlacedFollows, SMTT(30) DEF Held, heldAt
<1>3. outCacheBuf' = memory
    BY DEF Cached
<1>4. CASE cacheCur + Len(data) = cacheEnd
    <2>1. outStream' = outStream \o memory /\ cacheCur' = 0
        BY <1>4 DEF Cached
    <2> HIDE DEF memory
    <2>2. /\ outStream' \in Seq(Nat) /\ Len(outStream') = Len(outStream) + cacheEnd
          /\ \A k \in 1..(Len(outStream) + cacheEnd) : outStream'[k] = byteAt(outStream, memory, k)
        <3>1. PICK s : s = outStream \o memory
            OBVIOUS
        <3>2. outStream \in Seq(Nat) /\ memory \in Seq(Nat)
            BY <1>0, <1>1
        <3>3. /\ s \in Seq(Nat) /\ Len(s) = Len(outStream) + Len(memory)
              /\ \A k \in 1..(Len(outStream) + Len(memory)) : s[k] = byteAt(outStream, memory, k)
            BY <3>1, <3>2, JoinedAt, Zenon
        <3> QED
            BY <1>1, <2>1, <3>1, <3>3
    <2>3. Held' = Held + Len(data) /\ Held' = Len(outStream')
        BY <1>0, <1>4, <2>1, <2>2 DEF Held
    <2>4. \A k \in 1..Held' : heldAt(k)' = outStream'[k]
        BY <2>3 DEF heldAt, byteAt
    <2>5. Held' = Len(outStream) + cacheEnd
        BY <2>2, <2>3
    <2>6. \A k \in 1..Held' : heldAt(k)' = IF k <= Held THEN heldAt(k) ELSE data[k - Held]
        BY <1>2, <2>2, <2>3, <2>4, <2>5
    <2>7. cacheCur' \in 0..cacheEnd' /\ cacheCur' < cacheEnd' /\ Len(outStream) <= Len(outStream')
        BY <1>0, <2>1, <2>2
    <2> QED
        BY <1>0, <1>1, <1>3, <2>2, <2>3, <2>6, <2>7
<1>5. CASE cacheCur + Len(data) # cacheEnd
    <2>1. outStream' = outStream /\ cacheCur' = cacheCur + Len(data)
        BY <1>5 DEF Cached
    <2> HIDE DEF memory
    <2>3. Held' = Held + Len(data)
        BY <1>0, <2>1 DEF Held
    <2>4. \A k : heldAt(k)' = byteAt(outStream, memory, k)
        BY <1>3, <2>1 DEF heldAt, byteAt
    <2>5. \A k \in 1..Held' : heldAt(k)' = IF k <= Held THEN heldAt(k) ELSE data[k - Held]
        BY <1>2, <2>3, <2>4
    <2>6. cacheCur' \in 0..cacheEnd' /\ cacheCur' < cacheEnd'
        BY <1>0, <1>5, <2>1
    <2> QED
        BY <1>0, <1>1, <1>3, <2>1, <2>3, <2>5, <2>6
<1> QED
    BY <1>4, <1>5

LEMMA HeldIsNat == OutTypes => Held \in Nat /\ Len(outWanted) \in Nat /\ Len(outStream) \in Nat
BY DEF OutTypes, Held

(* More put out of the same operation leaves what it has still to put out. *)
LEMMA RestIsWanted ==
    ASSUME OutTypes, FillIsWanted, CopyIsWanted, Held <= Held', Held' \in Nat,
           outWanted' = outWanted, outAhead' = outAhead,
           outPc' = "fill" => outPc = "fill",
           outPc' \in {"stream", "mem", "small", "again"} => outPc \in {"stream", "mem", "small", "again"}
    PROVE  FillIsWanted' /\ CopyIsWanted'
<1>0. Held \in Nat
    BY HeldIsNat
<1>1. FillIsWanted'
    BY <1>0 DEF FillIsWanted
<1>2. CASE outPc' \in {"stream", "mem", "small", "again"}
    <2>1. /\ outAhead \in 1..Held
          /\ \A k \in 1..Len(outWanted) : k > Held => outWanted[k] = outWanted[k - outAhead]
        BY <1>2 DEF CopyIsWanted
    <2>2. outAhead' \in 1..Held'
        BY <1>0, <2>1
    <2>3. \A k \in 1..Len(outWanted) : k > Held' => k > Held
        BY <1>0
    <2> QED
        BY <1>1, <2>1, <2>2, <2>3 DEF CopyIsWanted
<1>3. CASE ~(outPc' \in {"stream", "mem", "small", "again"})
    BY <1>1, <1>3 DEF CopyIsWanted
<1> QED
    BY <1>1, <1>2, <1>3

(* A round that caches the next bytes wanted. *)
LEMMA RoundKeeps ==
    ASSUME OutInv, outPc \in {"fill", "stream"}, NEW data \in Seq(Nat),
           Len(data) <= cacheEnd - cacheCur, Len(data) <= outCopyLength, Cached(data),
           \A j \in 1..Len(data) : data[j] = outWanted[Held + j],
           outCopyLength' = outCopyLength - Len(data), outSrcPos' \in Nat,
           UNCHANGED <<cacheEnd, outPc, outAhead, outWanted>>
    PROVE  /\ OutTypes' /\ HeldIsWanted' /\ CacheHasRoom' /\ FillIsWanted' /\ CopyIsWanted'
           /\ Held' = Held + Len(data) /\ Len(outStream) <= Len(outStream')
<1>0. OutTypes /\ HeldIsWanted /\ FillIsWanted /\ CopyIsWanted /\ cacheCur < cacheEnd
    BY DEF OutInv, CacheHasRoom
<1>n. Held \in Nat /\ Len(outWanted) \in Nat /\ Len(data) \in Nat /\ outCopyLength \in Nat
    BY <1>0, HeldIsNat DEF OutTypes
<1>1. /\ outStream' \in Seq(Nat) /\ outCacheBuf' \in Seq(Nat) /\ Len(outCacheBuf') = cacheEnd'
      /\ cacheCur' \in 0..cacheEnd' /\ cacheCur' < cacheEnd'
      /\ Held' = Held + Len(data) /\ Len(outStream) <= Len(outStream')
      /\ \A k \in 1..Held' : heldAt(k)' = IF k <= Held THEN heldAt(k) ELSE data[k - Held]
    BY <1>0, CachedKeeps
<1>2. OutTypes'
    BY <1>0, <1>1, <1>n DEF OutTypes
<1>3. Held + outCopyLength = Len(outWanted) /\ \A k \in 1..Held : heldAt(k) = outWanted[k]
    BY <1>0 DEF HeldIsWanted
<1>4. \A k \in 1..Held' : heldAt(k)' = outWanted[k]
    <2> SUFFICES ASSUME NEW k \in 1..Held' PROVE heldAt(k)' = outWanted[k]
        OBVIOUS
    <2>1. CASE k <= Held
        BY <1>1, <1>3, <1>n, <2>1
    <2>2. CASE ~(k <= Held)
        <3>1. k - Held \in 1..Len(data) /\ Held + (k - Held) = k
            BY <1>1, <1>n, <2>2
        <3> QED
            BY <1>1, <2>2, <3>1
    <2> QED
        BY <2>1, <2>2
<1>5. HeldIsWanted'
    <2>0. outWanted' = outWanted
        OBVIOUS
    <2>1. Held' + outCopyLength' = Len(outWanted')
        <3>1. Held' + outCopyLength' = Held + outCopyLength
            BY <1>1, <1>n
        <3> QED
            BY <1>3, <2>0, <3>1
    <2> QED
        BY <1>4, <2>1 DEF HeldIsWanted
<1>6. CacheHasRoom'
    BY <1>1 DEF CacheHasRoom
<1>7. FillIsWanted' /\ CopyIsWanted'
    <2>1. Held <= Held' /\ Held' \in Nat
        BY <1>1, <1>n, SMTT(30)
    <2> QED
        BY <1>0, <2>1, RestIsWanted
<1> QED
    BY <1>1, <1>2, <1>5, <1>6, <1>7

LEMMA FillRoundKeeps == ASSUME OutInv, FillRound PROVE OutInv'
<1> DEFINE n == lesser(cacheEnd - cacheCur, outCopyLength)
           data == [i \in 1..n |-> 100]
<1>0. OutTypes /\ HeldIsWanted /\ FillIsWanted /\ cacheCur < cacheEnd /\ outPc = "fill"
    BY DEF OutInv, CacheHasRoom, FillRound
<1>1. n \in Nat /\ n <= cacheEnd - cacheCur /\ n <= outCopyLength
    BY <1>0 DEF OutTypes, lesser
<1>2. Cached(data) /\ outCopyLength' = outCopyLength - n
    BY DEF FillRound
<1> HIDE DEF n
<1>3. data \in Seq(Nat) /\ Len(data) = n /\ \A j \in 1..n : data[j] = 100
    BY <1>1
<1> HIDE DEF data
<1>4. \A j \in 1..n : data[j] = outWanted[Held + j]
    <2>1. Held + outCopyLength = Len(outWanted) /\ \A k \in 1..Len(outWanted) : k > Held => outWanted[k] = 100
        BY <1>0 DEF HeldIsWanted, FillIsWanted
    <2>2. Held \in Nat /\ outCopyLength \in Nat
        BY <1>0, HeldIsNat DEF OutTypes
    <2> QED
        BY <1>1, <1>3, <2>1, <2>2
<1>5. outSrcPos' \in Nat /\ UNCHANGED <<cacheEnd, outPc, outAhead, outWanted>>
    BY <1>0 DEF FillRound, OutTypes
<1>6. OutTypes' /\ HeldIsWanted' /\ CacheHasRoom' /\ FillIsWanted' /\ CopyIsWanted'
    BY <1>0, <1>1, <1>2, <1>3, <1>4, <1>5, RoundKeeps
<1>7. SourceIsThere'
    BY <1>0, <1>5 DEF SourceIsThere
<1> QED
    BY <1>6, <1>7 DEF OutInv

LEMMA CopyStreamRoundKeeps == ASSUME OutInv, CopyStreamRound PROVE OutInv'
<1> DEFINE n == lesser(cacheEnd - cacheCur, outCopyLength)
           data == SubSeq(outStream, outSrcPos + 1, outSrcPos + n)
<1>0. /\ OutTypes /\ HeldIsWanted /\ CopyIsWanted /\ SourceIsThere /\ cacheCur < cacheEnd
      /\ outPc = "stream" /\ outCopyLength > 0
    BY DEF OutInv, CacheHasRoom, CopyStreamRound
<1>t. /\ cacheEnd \in Nat /\ cacheCur \in Nat /\ outCopyLength \in Nat /\ outSrcPos \in Nat /\ outAhead \in Nat
      /\ outStream \in Seq(Nat) /\ Len(outStream) \in Nat /\ Held \in Nat /\ Held = Len(outStream) + cacheCur
    BY <1>0, HeldIsNat DEF OutTypes, Held
<1>1. n \in Nat /\ n <= cacheEnd - cacheCur /\ n <= outCopyLength
    BY <1>0, <1>t DEF lesser
<1>2. Cached(data) /\ outCopyLength' = outCopyLength - n /\ outSrcPos' = outSrcPos + n
    BY DEF CopyStreamRound
<1> HIDE DEF n
<1>3. outSrcPos = Held - outAhead /\ (outSrcPos + outCopyLength <= Len(outStream) \/ outAhead > cacheEnd)
    BY <1>0 DEF SourceIsThere
<1>4. outSrcPos + n <= Len(outStream)
    BY <1>1, <1>3, <1>t
<1>5. data \in Seq(Nat) /\ Len(data) = n /\ \A j \in 1..n : data[j] = outStream[outSrcPos + j]
    <2>1. outSrcPos + 1 \in 1..(Len(outStream) + 1) /\ outSrcPos + 1 + n <= Len(outStream) + 1
        BY <1>1, <1>4, <1>t
    <2>2. outSrcPos + 1 + n - 1 = outSrcPos + n /\ \A j \in 1..n : outSrcPos + 1 + j - 1 = outSrcPos + j
        BY <1>1, <1>t
    <2> QED
        BY <1>1, <1>t, <2>1, <2>2, PartAt
<1> HIDE DEF data
<1>6. \A j \in 1..n : data[j] = outWanted[Held + j]
    <2> SUFFICES ASSUME NEW j \in 1..n PROVE data[j] = outWanted[Held + j]
        OBVIOUS
    <2>1. /\ Held + outCopyLength = Len(outWanted) /\ \A k \in 1..Held : heldAt(k) = outWanted[k]
          /\ outAhead \in 1..Held
          /\ \A k \in 1..Len(outWanted) : k > Held => outWanted[k] = outWanted[k - outAhead]
        BY <1>0 DEF HeldIsWanted, CopyIsWanted
    <2>2. /\ Held + j \in 1..Len(outWanted) /\ Held + j > Held /\ (Held + j) - outAhead = outSrcPos + j
          /\ outSrcPos + j \in 1..Held /\ outSrcPos + j <= Len(outStream)
        BY <1>1, <1>3, <1>4, <1>t, <2>1
    <2>3. heldAt(outSrcPos + j) = outStream[outSrcPos + j]
        BY <2>2 DEF heldAt, byteAt
    <2>4. outWanted[Held + j] = outWanted[(Held + j) - outAhead]
        <3>1. PICK k : k = Held + j
            OBVIOUS
        <3>2. k \in 1..Len(outWanted) /\ k > Held
            BY <2>2, <3>1
        <3>3. outWanted[k] = outWanted[k - outAhead]
            BY <2>1, <3>2
        <3> QED
            BY <3>1, <3>3, Zenon
    <2>5. heldAt(outSrcPos + j) = outWanted[outSrcPos + j]
        BY <2>1, <2>2
    <2> QED
        BY <1>5, <2>2, <2>3, <2>4, <2>5
<1>7. outSrcPos' \in Nat /\ UNCHANGED <<cacheEnd, outPc, outAhead, outWanted>>
    BY <1>1, <1>2, <1>t DEF CopyStreamRound
<1>8. /\ OutTypes' /\ HeldIsWanted' /\ CacheHasRoom' /\ FillIsWanted' /\ CopyIsWanted'
      /\ Held' = Held + n /\ Len(outStream) <= Len(outStream')
    BY <1>0, <1>1, <1>2, <1>5, <1>6, <1>7, RoundKeeps
<1>9. SourceIsThere'
    <2>1. outPc' = "stream" /\ outSrcPos' = Held' - outAhead'
        BY <1>0, <1>1, <1>2, <1>3, <1>7, <1>8, <1>t
    <2>2. Len(outStream') \in Nat
        BY <1>8 DEF OutTypes
    <2>3. outSrcPos' + outCopyLength' <= Len(outStream') \/ outAhead' > cacheEnd'
        BY <1>1, <1>2, <1>3, <1>7, <1>8, <1>t, <2>2
    <2> QED
        BY <2>1, <2>3 DEF SourceIsThere
<1> QED
    BY <1>8, <1>9 DEF OutInv

LEMMA OutInvInit == OutInit(OutCacheSizes) => OutInv
<1> SUFFICES ASSUME OutInit(OutCacheSizes) PROVE OutInv
    OBVIOUS
<1>0. /\ cacheEnd \in Nat \ {0} /\ outPc = "idle" /\ outStream = <<>> /\ cacheCur = 0 /\ outWanted = <<>>
      /\ outAhead = 0 /\ outSrcPos = 0 /\ outCopyLength = 0
    BY OutAssumption DEF OutInit
<1>1. outCacheBuf \in Seq(Nat) /\ Len(outCacheBuf) = cacheEnd
    <2>1. outCacheBuf = [i \in 1..cacheEnd |-> 0]
        BY DEF OutInit
    <2> QED
        BY <1>0, <2>1
<1>2. OutTypes
    BY <1>0, <1>1 DEF OutTypes
<1>3. Held = 0 /\ Len(outWanted) = 0
    BY <1>0 DEF Held
<1> QED
    BY <1>0, <1>2, <1>3 DEF OutInv, HeldIsWanted, CacheHasRoom, FillIsWanted, CopyIsWanted, SourceIsThere

(* The cached bytes are the last ones put out. *)
LEMMA InCacheAt ==
    ASSUME OutTypes
    PROVE  /\ inCache \in Seq(Nat) /\ Len(inCache) = cacheCur
           /\ \A i \in 1..cacheCur : inCache[i] = heldAt(Len(outStream) + i)
<1>1. outCacheBuf \in Seq(Nat) /\ cacheCur \in Nat /\ cacheCur <= Len(outCacheBuf) /\ Len(outStream) \in Nat
    BY DEF OutTypes
<1>2. /\ SubSeq(outCacheBuf, 1, 1 + cacheCur - 1) \in Seq(Nat) /\ Len(SubSeq(outCacheBuf, 1, 1 + cacheCur - 1)) = cacheCur
      /\ \A i \in 1..cacheCur : SubSeq(outCacheBuf, 1, 1 + cacheCur - 1)[i] = outCacheBuf[1 + i - 1]
    BY <1>1, PartAt, SMTT(30)
<1>3. 1 + cacheCur - 1 = cacheCur /\ \A i \in 1..cacheCur : 1 + i - 1 = i
    BY <1>1
<1>4. \A i \in 1..cacheCur : heldAt(Len(outStream) + i) = outCacheBuf[i]
    BY <1>1 DEF heldAt, byteAt
<1> QED
    BY <1>1, <1>2, <1>3, <1>4 DEF inCache

(* The write passes a part of the cached bytes and the data to the stream; *)
(* what is left fits into the cache.                                       *)
LEMMA PassedSplits ==
    ASSUME NEW buf \in Seq(Nat), NEW size \in Nat \ {0}, Len(buf) < size, NEW data \in Seq(Nat)
    PROVE  \E m \in 0..(Len(buf) + Len(data)) :
               /\ passedBy(buf, size, data) = SubSeq(buf \o data, 1, m)
               /\ Len(buf) + Len(data) - m < size
<1> DEFINE all == buf \o data
           room == size - Len(buf)
           passed == passedBy(buf, size, data)
<1>0. /\ Len(buf) \in Nat /\ Len(data) \in Nat
      /\ all \in Seq(Nat) /\ Len(all) = Len(buf) + Len(data)
    BY JoinedAt
<1>1. passed = IF Len(all) < size THEN <<>>
               ELSE IF buf = <<>> \/ Len(data) - room >= size THEN all ELSE SubSeq(all, 1, size)
    BY DEF passedBy
<1> HIDE DEF all, passed
<1>2. ASSUME Len(all) < size PROVE \E m \in 0..Len(all) : passed = SubSeq(all, 1, m) /\ Len(all) - m < size
    <2>1. passed = SubSeq(all, 1, 0)
        BY <1>0, <1>1, <1>2
    <2>2. 0 \in 0..Len(all) /\ Len(all) - 0 < size
        BY <1>0, <1>2
    <2> QED
        BY <2>1, <2>2
<1>3. ASSUME ~(Len(all) < size), buf = <<>> \/ Len(data) - room >= size
      PROVE  \E m \in 0..Len(all) : passed = SubSeq(all, 1, m) /\ Len(all) - m < size
    <2>1. passed = SubSeq(all, 1, Len(all))
        BY <1>0, <1>1, <1>3
    <2>2. Len(all) \in 0..Len(all) /\ Len(all) - Len(all) < size
        BY <1>0
    <2> QED
        BY <2>1, <2>2
<1>4. ASSUME ~(Len(all) < size), ~(buf = <<>> \/ Len(data) - room >= size)
      PROVE  \E m \in 0..Len(all) : passed = SubSeq(all, 1, m) /\ Len(all) - m < size
    <2>1. passed = SubSeq(all, 1, size)
        BY <1>1, <1>4
    <2>2. size \in 0..Len(all) /\ Len(all) - size < size
        BY <1>0, <1>4, SMTT(30)
    <2> QED
        BY <2>1, <2>2
<1>5. PICK m \in 0..Len(all) : passed = SubSeq(all, 1, m) /\ Len(all) - m < size
    BY <1>2, <1>3, <1>4
<1>6. m \in 0..(Len(buf) + Len(data)) /\ Len(buf) + Len(data) - m < size
    BY <1>0, <1>5
<1> QED
    BY <1>5, <1>6, Zenon DEF all, passed

(* A write puts its data out, to the stream or to the cache. *)
LEMMA OutWriteKeeps == ASSUME OutInv, OutWrite PROVE OutInv'
<1>0. /\ OutTypes /\ HeldIsWanted /\ cacheCur < cacheEnd /\ outPc = "idle"
      /\ UNCHANGED <<cacheEnd, outPc, copyVars>>
    BY DEF OutInv, CacheHasRoom, OutWrite
<1>1. PICK n, data, passed, rest :
          /\ n \in 1..(MaxOutput - Len(outWanted))
          /\ data = [i \in 1..n |-> Len(outWanted) + i]
          /\ passed = passedBy(inCache, cacheEnd, data)
          /\ rest = SubSeq(inCache \o data, Len(passed) + 1, cacheCur + n)
          /\ outStream' = outStream \o passed /\ outWanted' = outWanted \o data
          /\ outCacheBuf' = placed(IF cacheCur = 0 THEN outCacheBuf ELSE placed(outCacheBuf, cacheCur, data), 0, rest)
          /\ cacheCur' = Len(rest)
    BY DEF OutWrite
<1>t. /\ cacheEnd \in Nat \ {0} /\ cacheCur \in Nat /\ n \in Nat
      /\ outStream \in Seq(Nat) /\ Len(outStream) \in Nat /\ outWanted \in Seq(Nat) /\ Len(outWanted) \in Nat
      /\ outCacheBuf \in Seq(Nat) /\ Len(outCacheBuf) = cacheEnd
      /\ Held \in Nat /\ Held = Len(outStream) + cacheCur
    BY <1>0, <1>1, HeldIsNat, OutAssumption DEF OutTypes, Held
<1>2. data \in Seq(Nat) /\ Len(data) = n
    BY <1>1, <1>t
<1>3. inCache \in Seq(Nat) /\ Len(inCache) = cacheCur /\ \A i \in 1..cacheCur : inCache[i] = heldAt(Len(outStream) + i)
    BY <1>0, InCacheAt
<1>4. PICK all \in Seq(Nat) :
          /\ all = inCache \o data /\ Len(all) = cacheCur + n
          /\ \A i \in 1..(cacheCur + n) : all[i] = byteAt(inCache, data, i)
    BY <1>2, <1>3, JoinedAt
<1>5. PICK m \in 0..(cacheCur + n) : passed = SubSeq(all, 1, m) /\ cacheCur + n - m < cacheEnd
    <2>1. \E m \in 0..(Len(inCache) + Len(data)) :
              /\ passed = SubSeq(inCache \o data, 1, m) /\ Len(inCache) + Len(data) - m < cacheEnd
        BY <1>0, <1>1, <1>2, <1>3, <1>t, PassedSplits
    <2> QED
        BY <1>2, <1>3, <1>4, <2>1
<1>6. /\ passed \in Seq(Nat) /\ Len(passed) = m /\ \A i \in 1..m : passed[i] = all[i]
    <2>1. 1 \in 1..(Len(all) + 1) /\ 1 + m <= Len(all) + 1 /\ m \in Nat /\ 1 + m - 1 = m
        BY <1>4, <1>5, <1>t
    <2>2. \A i \in 1..m : 1 + i - 1 = i
        BY <2>1
    <2>3. /\ SubSeq(all, 1, 1 + m - 1) \in Seq(Nat) /\ Len(SubSeq(all, 1, 1 + m - 1)) = m
          /\ \A i \in 1..m : SubSeq(all, 1, 1 + m - 1)[i] = all[1 + i - 1]
        BY <2>1, PartAt
    <2> QED
        BY <1>5, <2>1, <2>2, <2>3
<1>7. PICK left \in Nat : left = cacheCur + n - m /\ left < cacheEnd
    BY <1>5, <1>t
<1>8. /\ rest \in Seq(Nat) /\ Len(rest) = left /\ \A i \in 1..left : rest[i] = all[m + i]
    <2>1. m + 1 \in 1..(Len(all) + 1) /\ m + 1 + left <= Len(all) + 1 /\ m + 1 + left - 1 = cacheCur + n
        BY <1>4, <1>5, <1>7, <1>t
    <2>2. \A i \in 1..left : m + 1 + i - 1 = m + i
        BY <1>5, <1>7
    <2>3. /\ SubSeq(all, m + 1, m + 1 + left - 1) \in Seq(Nat) /\ Len(SubSeq(all, m + 1, m + 1 + left - 1)) = left
          /\ \A i \in 1..left : SubSeq(all, m + 1, m + 1 + left - 1)[i] = all[m + 1 + i - 1]
        BY <1>4, <1>7, <2>1, PartAt
    <2>4. rest = SubSeq(all, m + 1, cacheCur + n)
        BY <1>1, <1>4, <1>6
    <2> QED
        BY <2>1, <2>2, <2>3, <2>4
<1>9. PICK memory \in Seq(Nat) : outCacheBuf' = placed(memory, 0, rest) /\ Len(memory) = cacheEnd
    <2>1. CASE cacheCur = 0
        BY <1>1, <1>t, <2>1
    <2>2. CASE cacheCur # 0
        <3>1. PICK memory : memory = placed(outCacheBuf, cacheCur, data)
            OBVIOUS
        <3>2. memory \in Seq(Nat) /\ Len(memory) = Len(outCacheBuf)
            BY <1>2, <1>t, <3>1, PlacedAt, Zenon
        <3>3. outCacheBuf' = placed(memory, 0, rest)
            BY <1>1, <2>2, <3>1, Zenon
        <3> QED
            BY <1>t, <3>2, <3>3
    <2> QED
        BY <2>1, <2>2
<1>10. /\ outCacheBuf' \in Seq(Nat) /\ Len(outCacheBuf') = cacheEnd
       /\ \A i \in 1..left : outCacheBuf'[i] = rest[i]
    <2>1. /\ outCacheBuf' \in Seq(Nat) /\ Len(outCacheBuf') = Len(memory)
          /\ \A i \in 1..Len(memory) : outCacheBuf'[i] = IF 0 < i /\ i <= 0 + Len(rest) THEN rest[i - 0] ELSE memory[i]
        <3>1. 0 \in Nat /\ memory \in Seq(Nat) /\ rest \in Seq(Nat)
            BY <1>8, <1>9
        <3>2. /\ placed(memory, 0, rest) \in Seq(Nat) /\ Len(placed(memory, 0, rest)) = Len(memory)
              /\ \A i \in 1..Len(memory) :
                     placed(memory, 0, rest)[i] = IF 0 < i /\ i <= 0 + Len(rest) THEN rest[i - 0] ELSE memory[i]
            BY <3>1, PlacedAt, ZenonT(30)
        <3> QED
            BY <1>9, <3>2, ZenonT(30)
    <2>2. \A i \in 1..left : i \in 1..Len(memory) /\ 0 < i /\ i <= 0 + Len(rest) /\ i - 0 = i
        BY <1>7, <1>8, <1>9, <1>t
    <2> QED
        BY <1>9, <2>1, <2>2
<1>11. /\ outStream' \in Seq(Nat) /\ Len(outStream') = Len(outStream) + m
       /\ \A k \in 1..(Len(outStream) + m) : outStream'[k] = byteAt(outStream, passed, k)
    <2>1. /\ outStream \o passed \in Seq(Nat) /\ Len(outStream \o passed) = Len(outStream) + Len(passed)
          /\ \A k \in 1..(Len(outStream) + Len(passed)) : (outStream \o passed)[k] = byteAt(outStream, passed, k)
        BY <1>6, <1>t, JoinedAt, Zenon
    <2> QED
        BY <1>1, <1>6, <2>1, Zenon
<1>12. /\ outWanted' \in Seq(Nat) /\ Len(outWanted') = Len(outWanted) + n
       /\ \A k \in 1..(Len(outWanted) + n) : outWanted'[k] = byteAt(outWanted, data, k)
    <2>1. /\ outWanted \o data \in Seq(Nat) /\ Len(outWanted \o data) = Len(outWanted) + Len(data)
          /\ \A k \in 1..(Len(outWanted) + Len(data)) : (outWanted \o data)[k] = byteAt(outWanted, data, k)
        BY <1>2, <1>t, JoinedAt, Zenon
    <2> QED
        BY <1>1, <1>2, <2>1, Zenon
<1>13. OutTypes'
    <2>1. UNCHANGED <<cacheEnd, outPc, outAhead, outSrcPos, outCopyLength>>
        BY <1>0 DEF copyVars
    <2>2. cacheCur' \in 0..cacheEnd'
        BY <1>1, <1>7, <1>8, <1>t, <2>1, SMTT(30)
    <2> QED
        BY <1>0, <1>10, <1>11, <1>12, <2>1, <2>2 DEF OutTypes
<1>14. /\ outCopyLength = 0 /\ Held = Len(outWanted) /\ \A k \in 1..Held : heldAt(k) = outWanted[k]
    BY <1>0, <1>t DEF HeldIsWanted
<1>15. Held' = Held + n /\ outCopyLength' = 0
    <2>1. outCopyLength' = 0
        BY <1>0, <1>14 DEF copyVars
    <2>2. Held' = Len(outStream) + m + left
        BY <1>1, <1>8, <1>11 DEF Held
    <2> QED
        BY <1>5, <1>7, <1>t, <2>1, <2>2
<1>16. \A k \in 1..Held' : heldAt(k)' = outWanted'[k]
    <2> SUFFICES ASSUME NEW k \in 1..Held' PROVE heldAt(k)' = outWanted'[k]
        OBVIOUS
    <2>0. outWanted'[k] = byteAt(outWanted, data, k)
        BY <1>12, <1>14, <1>15, <1>t
    <2>1. CASE k <= Len(outStream)
        <3>0. k \in 1..(Len(outStream) + m) /\ k <= Len(outStream') /\ k \in 1..Held /\ k <= Len(outWanted)
            <4>1. k \in Nat /\ 1 <= k /\ m \in Nat
                BY <1>5, <1>15, <1>t
            <4>2. Len(outStream') = Len(outStream) + m /\ Len(outWanted) = Held
                BY <1>11, <1>14
            <4> QED
                BY <1>t, <2>1, <4>1, <4>2, SMTT(30)
        <3>1. heldAt(k)' = outStream'[k]
            BY <3>0 DEF heldAt, byteAt
        <3>2. outStream'[k] = outStream[k]
            BY <1>11, <2>1, <3>0 DEF byteAt
        <3>3. heldAt(k) = outStream[k]
            BY <2>1 DEF heldAt, byteAt
        <3>4. outWanted'[k] = outWanted[k]
            BY <2>0, <3>0 DEF byteAt
        <3> QED
            BY <1>14, <3>0, <3>1, <3>2, <3>3, <3>4
    <2>2. CASE ~(k <= Len(outStream))
        <3>1. PICK i \in 1..(cacheCur + n) : i = k - Len(outStream)
            <4>1. k - Len(outStream) \in 1..(cacheCur + n)
                BY <1>15, <1>t, <2>2
            <4> QED
                BY <4>1
        <3>2. heldAt(k)' = all[i]
            <4>1. CASE i <= m
                <5>1. /\ k \in 1..(Len(outStream) + m) /\ k <= Len(outStream') /\ i \in 1..m
                      /\ k - Len(outStream) = i
                    BY <1>5, <1>11, <1>t, <2>2, <3>1, <4>1
                <5>2. heldAt(k)' = outStream'[k]
                    BY <5>1 DEF heldAt, byteAt
                <5>3. outStream'[k] = passed[i]
                    BY <1>11, <2>2, <5>1 DEF byteAt
                <5> QED
                    BY <1>6, <5>1, <5>2, <5>3
            <4>2. CASE ~(i <= m)
                <5>1. ~(k <= Len(outStream')) /\ k - Len(outStream') = i - m /\ i - m \in 1..left /\ m + (i - m) = i
                    BY <1>5, <1>7, <1>11, <1>t, <2>2, <3>1, <4>2
                <5>2. heldAt(k)' = outCacheBuf'[i - m]
                    BY <5>1 DEF heldAt, byteAt
                <5> QED
                    BY <1>8, <1>10, <5>1, <5>2
            <4> QED
                BY <4>1, <4>2
        <3>3. all[i] = outWanted'[k]
            <4>0. all[i] = byteAt(inCache, data, i)
                BY <1>4, <3>1
            <4>1. CASE i <= cacheCur
                <5>1. i \in 1..cacheCur /\ Len(outStream) + i = k /\ k \in 1..Held /\ k <= Len(outWanted)
                    BY <1>14, <1>t, <3>1, <4>1
                <5>2. all[i] = inCache[i] /\ outWanted'[k] = outWanted[k]
                    BY <1>3, <2>0, <4>0, <4>1, <5>1 DEF byteAt
                <5> QED
                    BY <1>3, <1>14, <5>1, <5>2
            <4>2. CASE ~(i <= cacheCur)
                <5>1. ~(k <= Len(outWanted)) /\ k - Len(outWanted) = i - cacheCur
                    BY <1>14, <1>t, <3>1, <4>2
                <5> QED
                    BY <1>3, <2>0, <4>0, <4>2, <5>1 DEF byteAt
            <4> QED
                BY <4>1, <4>2
        <3> QED
            BY <3>2, <3>3
    <2> QED
        BY <2>1, <2>2
<1>17. HeldIsWanted'
    BY <1>12, <1>14, <1>15, <1>16, <1>t DEF HeldIsWanted
<1>18. outPc' = "idle" /\ cacheCur' < cacheEnd'
    BY <1>0, <1>1, <1>7, <1>8
<1> QED
    BY <1>13, <1>17, <1>18 DEF OutInv, CacheHasRoom, FillIsWanted, CopyIsWanted, SourceIsThere

(* More is wanted: what was put out stays, and new bytes are to come. *)
LEMMA MoreIsWanted ==
    ASSUME OutTypes, HeldIsWanted, outPc = "idle", NEW data \in Seq(Nat),
           outWanted' = outWanted \o data, outCopyLength' = Len(data), outPc' # "idle",
           UNCHANGED <<cacheEnd, outStream, outCacheBuf, cacheCur>>
    PROVE  /\ outWanted' \in Seq(Nat) /\ HeldIsWanted' /\ Held' = Held
           /\ Held = Len(outWanted) /\ Len(outWanted') = Held + Len(data)
           /\ \A k \in 1..Held : outWanted'[k] = outWanted[k]
           /\ \A k \in 1..Len(data) : outWanted'[Held + k] = data[k]
<1>1. Held = Len(outWanted) /\ outWanted \in Seq(Nat) /\ Held \in Nat /\ outCopyLength = 0
    BY HeldIsNat DEF HeldIsWanted, OutTypes
<1>2. /\ outWanted \o data \in Seq(Nat) /\ Len(outWanted \o data) = Len(outWanted) + Len(data)
      /\ \A k \in 1..(Len(outWanted) + Len(data)) : (outWanted \o data)[k] = byteAt(outWanted, data, k)
    BY <1>1, JoinedAt, Zenon
<1>3. /\ outWanted' \in Seq(Nat) /\ Len(outWanted') = Held + Len(data)
      /\ \A k \in 1..(Held + Len(data)) : outWanted'[k] = byteAt(outWanted, data, k)
    BY <1>1, <1>2, Zenon
<1>4. Held' = Held /\ \A k : heldAt(k)' = heldAt(k)
    BY DEF Held, heldAt
<1>n. Len(data) \in Nat
    OBVIOUS
<1>5. \A k \in 1..Held : outWanted'[k] = outWanted[k]
    BY <1>1, <1>3, <1>n DEF byteAt
<1>6. \A k \in 1..Len(data) : outWanted'[Held + k] = data[k]
    <2> SUFFICES ASSUME NEW k \in 1..Len(data) PROVE outWanted'[Held + k] = data[k]
        OBVIOUS
    <2>1. Held + k \in 1..(Held + Len(data)) /\ ~(Held + k <= Len(outWanted)) /\ (Held + k) - Len(outWanted) = k
        BY <1>1, <1>n
    <2> QED
        BY <1>3, <2>1 DEF byteAt
<1>7. HeldIsWanted'
    <2>1. \A k \in 1..Held : heldAt(k) = outWanted[k]
        BY DEF HeldIsWanted
    <2>2. \A k \in 1..Held' : heldAt(k)' = outWanted'[k]
        BY <1>4, <1>5, <2>1
    <2> QED
        BY <1>3, <1>4, <2>2 DEF HeldIsWanted
<1> QED
    BY <1>1, <1>3, <1>4, <1>5, <1>6, <1>7

LEMMA OutFillKeeps == ASSUME OutInv, OutFill PROVE OutInv'
<1>0. OutTypes /\ HeldIsWanted /\ outPc = "idle" /\ outPc' = "fill" /\ cacheCur < cacheEnd
    BY DEF OutInv, CacheHasRoom, OutFill
<1>1. PICK n \in 1..(MaxOutput - Len(outWanted)) :
          outCopyLength' = n /\ outWanted' = outWanted \o [i \in 1..n |-> 100]
    BY DEF OutFill
<1>2. n \in Nat
    BY <1>0, <1>1, HeldIsNat, OutAssumption
<1>3. PICK data \in Seq(Nat) : data = [i \in 1..n |-> 100] /\ Len(data) = n /\ \A i \in 1..n : data[i] = 100
    <2>1. PICK data : data = [i \in 1..n |-> 100]
        OBVIOUS
    <2>2. data \in [1..n -> Nat] /\ \A i \in 1..n : data[i] = 100
        BY <2>1
    <2>3. data \in Seq(Nat) /\ Len(data) = n
        BY <1>2, <2>2, FunctionIsSeq
    <2> QED
        BY <2>1, <2>2, <2>3
<1>4. UNCHANGED <<cacheEnd, outStream, outCacheBuf, cacheCur, outAhead, outSrcPos>>
    BY DEF OutFill
<1>5. /\ outWanted' \in Seq(Nat) /\ HeldIsWanted' /\ Held' = Held
      /\ Len(outWanted') = Held + Len(data)
      /\ \A k \in 1..Len(data) : outWanted'[Held + k] = data[k]
    BY <1>0, <1>1, <1>3, <1>4, MoreIsWanted
<1>6. Held \in Nat
    BY <1>0, HeldIsNat
<1>7. FillIsWanted'
    <2> SUFFICES ASSUME NEW k \in 1..Len(outWanted'), k > Held' PROVE outWanted'[k] = 100
        BY DEF FillIsWanted
    <2>1. k - Held \in 1..n /\ Held + (k - Held) = k
        BY <1>2, <1>3, <1>5, <1>6
    <2> QED
        BY <1>3, <1>5, <2>1
<1>8. OutTypes'
    BY <1>0, <1>1, <1>2, <1>4, <1>5 DEF OutTypes
<1> QED
    BY <1>0, <1>4, <1>5, <1>7, <1>8 DEF OutInv, CacheHasRoom, CopyIsWanted, SourceIsThere

LEMMA OutCopyFromSelfKeeps == ASSUME OutInv, OutCopyFromSelf PROVE OutInv'
<1>0. OutTypes /\ HeldIsWanted /\ outPc = "idle" /\ cacheCur < cacheEnd
    BY DEF OutInv, CacheHasRoom, OutCopyFromSelf
<1>1. PICK ahead, n, srcPos :
          /\ ahead \in 1..Len(outWanted) /\ n \in 1..(MaxOutput - Len(outWanted))
          /\ srcPos = Len(outStream) + cacheCur - ahead
          /\ outAhead' = ahead /\ outSrcPos' = srcPos /\ outCopyLength' = n
          /\ outPc' = copyWay(srcPos, n)
          /\ outWanted' = outWanted \o repeated(outWanted, ahead, n)
    BY DEF OutCopyFromSelf
<1>2. UNCHANGED <<cacheEnd, outStream, outCacheBuf, cacheCur>>
    BY DEF OutCopyFromSelf
<1>t. /\ cacheEnd \in Nat \ {0} /\ cacheCur \in Nat /\ Len(outStream) \in Nat /\ n \in Nat \ {0}
      /\ outWanted \in Seq(Nat) /\ Held \in Nat /\ Held = Len(outStream) + cacheCur /\ ahead \in Nat \ {0}
    BY <1>0, <1>1, HeldIsNat, OutAssumption, SMTT(30) DEF OutTypes, Held
<1>3. PICK data : data = repeated(outWanted, ahead, n)
    OBVIOUS
<1>4. Repeats(data, outWanted, ahead, n)
    BY <1>1, <1>3, <1>t, RepeatedSteps
<1>5. data \in Seq(Nat) /\ Len(data) = n
    BY <1>4, <1>t, FunctionIsSeq DEF Repeats
<1>w. outPc' \in {"stream", "mem", "small"}
    BY <1>1 DEF copyWay
<1>6. /\ outWanted' \in Seq(Nat) /\ HeldIsWanted' /\ Held' = Held
      /\ Held = Len(outWanted) /\ Len(outWanted') = Held + Len(data)
      /\ \A k \in 1..Held : outWanted'[k] = outWanted[k]
      /\ \A k \in 1..Len(data) : outWanted'[Held + k] = data[k]
    BY <1>0, <1>1, <1>2, <1>3, <1>5, <1>w, MoreIsWanted
<1>7. srcPos = Held - ahead /\ srcPos \in Nat /\ ahead \in 1..Held
    BY <1>1, <1>6, <1>t
<1>8. OutTypes'
    BY <1>0, <1>1, <1>2, <1>6, <1>7, <1>t, <1>w DEF OutTypes
<1>9. CopyIsWanted'
    <2>1. ASSUME NEW k \in 1..Len(outWanted'), k > Held' PROVE outWanted'[k] = outWanted'[k - ahead]
        <3>1. PICK i \in 1..n : i = k - Held
            <4>1. k - Held \in 1..n
                BY <1>5, <1>6, <1>t, <2>1
            <4> QED
                BY <4>1
        <3>2. k = Held + i /\ outWanted'[k] = data[i]
            <4>1. k = Held + i
                BY <1>5, <1>6, <1>t, <2>1, <3>1, SMTT(30)
            <4>2. outWanted'[Held + i] = data[i]
                BY <1>5, <1>6
            <4> QED
                BY <4>1, <4>2
        <3>3. data[i] = IF i <= ahead THEN outWanted[Len(outWanted) - ahead + i] ELSE data[i - ahead]
            BY <1>4 DEF Repeats
        <3>4. CASE i <= ahead
            <4>1. k - ahead \in 1..Held /\ Len(outWanted) - ahead + i = k - ahead
                BY <1>6, <1>7, <1>t, <3>2, <3>4
            <4> QED
                BY <1>6, <3>2, <3>3, <3>4, <4>1
        <3>5. CASE ~(i <= ahead)
            <4>1. i - ahead \in 1..n /\ Held + (i - ahead) = k - ahead
                BY <1>7, <1>t, <3>2, <3>5, SMTT(30)
            <4> QED
                BY <1>5, <1>6, <3>2, <3>3, <3>5, <4>1
        <3> QED
            BY <3>4, <3>5
    <2>2. outAhead' = ahead /\ outAhead' \in 1..Held'
        BY <1>1, <1>6, <1>7
    <2> QED
        BY <2>1, <2>2 DEF CopyIsWanted
<1>10. SourceIsThere'
    <2>1. CASE srcPos + n <= Len(outStream)
        <3>1. outPc' = "stream"
            BY <1>1, <2>1 DEF copyWay
        <3> QED
            BY <1>1, <1>2, <1>6, <1>7, <2>1, <3>1 DEF SourceIsThere
    <2>2. CASE ~(srcPos + n <= Len(outStream)) /\ srcPos >= Len(outStream)
        <3>1. outPc' = "mem"
            BY <1>1, <2>2 DEF copyWay
        <3>2. ahead <= cacheCur /\ ahead < cacheEnd
            BY <1>0, <1>7, <1>t, <2>2
        <3> QED
            BY <1>1, <1>2, <3>1, <3>2 DEF SourceIsThere
    <2>3. CASE ~(srcPos + n <= Len(outStream)) /\ ~(srcPos >= Len(outStream))
        <3>1. CASE Len(outStream) + cacheCur <= srcPos + cacheEnd
            <4>1. outPc' = "small"
                BY <1>1, <2>3, <3>1 DEF copyWay
            <4>2. srcPos < Len(outStream) /\ srcPos + n > Len(outStream) /\ ahead <= cacheEnd
                BY <1>7, <1>t, <2>3, <3>1
            <4> QED
                BY <1>1, <1>2, <1>6, <1>7, <4>1, <4>2 DEF SourceIsThere
        <3>2. CASE ~(Len(outStream) + cacheCur <= srcPos + cacheEnd)
            <4>1. outPc' = "stream"
                BY <1>1, <2>3, <3>2 DEF copyWay
            <4>2. ahead > cacheEnd
                BY <1>7, <1>t, <3>2
            <4> QED
                BY <1>1, <1>2, <1>6, <1>7, <4>1, <4>2 DEF SourceIsThere
        <3> QED
            BY <3>1, <3>2
    <2> QED
        BY <2>1, <2>2, <2>3
<1>11. CacheHasRoom' /\ FillIsWanted'
    BY <1>0, <1>2, <1>w DEF CacheHasRoom, FillIsWanted
<1> QED
    BY <1>6, <1>8, <1>9, <1>10, <1>11 DEF OutInv

LEMMA CopyEndKeeps == ASSUME OutInv, CopyEnd PROVE OutInv'
<1>1. /\ outPc \in {"fill", "stream", "mem"} /\ outPc' = "idle" /\ outCopyLength = 0
      /\ UNCHANGED <<cacheEnd, outStream, outCacheBuf, cacheCur, outAhead, outSrcPos, outCopyLength, outWanted>>
    BY DEF CopyEnd, copyVars
<1>2. OutTypes' /\ CacheHasRoom'
    BY <1>1 DEF OutInv, OutTypes, CacheHasRoom
<1>3. Held' = Held /\ \A k : heldAt(k)' = heldAt(k)
    BY <1>1 DEF Held, heldAt
<1>4. HeldIsWanted'
    BY <1>1, <1>3 DEF OutInv, HeldIsWanted
<1> QED
    BY <1>1, <1>2, <1>4 DEF OutInv, FillIsWanted, CopyIsWanted, SourceIsThere

(* The bytes that a copy puts out next, when they are those outAhead       *)
(* before: the bytes wanted.                                               *)
LEMMA CopiedIsWanted ==
    ASSUME OutTypes, HeldIsWanted, CopyIsWanted, outPc \in {"stream", "mem", "small", "again"},
           NEW i \in 1..outCopyLength
    PROVE  /\ Held + i - outAhead \in Nat \ {0}
           /\ outWanted[Held + i] = outWanted[Held + i - outAhead]
           /\ i <= outAhead => heldAt(Held + i - outAhead) = outWanted[Held + i]
<1>0. Held \in Nat /\ Len(outWanted) \in Nat /\ outCopyLength \in Nat
    BY HeldIsNat DEF OutTypes
<1>1. /\ Held + outCopyLength = Len(outWanted) /\ \A k \in 1..Held : heldAt(k) = outWanted[k]
      /\ outAhead \in 1..Held
      /\ \A k \in 1..Len(outWanted) : k > Held => outWanted[k] = outWanted[k - outAhead]
    BY DEF HeldIsWanted, CopyIsWanted
<1>2. PICK k, j : k = Held + i /\ j = k - outAhead
    OBVIOUS
<1>3. k \in 1..Len(outWanted) /\ k > Held /\ j \in Nat \ {0} /\ j = Held + i - outAhead
    BY <1>0, <1>1, <1>2
<1>4. outWanted[k] = outWanted[j]
    BY <1>1, <1>2, <1>3
<1>5. i <= outAhead => j \in 1..Held
    BY <1>0, <1>1, <1>2
<1> QED
    BY <1>1, <1>2, <1>3, <1>4, <1>5

LEMMA CopySmallKeeps == ASSUME OutInv, CopySmall PROVE OutInv'
<1> DEFINE n == Len(outStream) - outSrcPos
           data == SubSeq(outStream, outSrcPos + 1, outSrcPos + n)
<1>0. OutTypes /\ HeldIsWanted /\ FillIsWanted /\ CopyIsWanted /\ outPc = "small" /\ cacheCur < cacheEnd
    BY DEF OutInv, CacheHasRoom, CopySmall
<1>1. /\ outCacheBuf' = placed(outCacheBuf, cacheCur, data)
      /\ cacheCur' = cacheCur + n /\ outCopyLength' = outCopyLength - n
      /\ outPc' = IF cacheCur + n = cacheEnd THEN "again" ELSE "mem"
      /\ UNCHANGED <<cacheEnd, outStream, outAhead, outSrcPos, outWanted>>
    BY DEF CopySmall
<1>2. /\ outSrcPos = Held - outAhead /\ outSrcPos < Len(outStream)
      /\ outSrcPos + outCopyLength > Len(outStream) /\ outAhead <= cacheEnd
    BY <1>0 DEF OutInv, SourceIsThere
<1>t. /\ cacheEnd \in Nat \ {0} /\ cacheCur \in Nat /\ outCopyLength \in Nat /\ outSrcPos \in Nat /\ outAhead \in Nat
      /\ outStream \in Seq(Nat) /\ Len(outStream) \in Nat /\ Held \in Nat /\ Held = Len(outStream) + cacheCur
      /\ outCacheBuf \in Seq(Nat) /\ Len(outCacheBuf) = cacheEnd
    BY <1>0, HeldIsNat DEF OutTypes, Held
<1>3. n \in Nat \ {0} /\ n < outCopyLength /\ cacheCur + n = outAhead /\ outSrcPos + n = Len(outStream)
    BY <1>2, <1>t
<1> HIDE DEF n
<1>4. data \in Seq(Nat) /\ Len(data) = n /\ \A j \in 1..n : data[j] = outStream[outSrcPos + j]
    <2>1. outSrcPos + 1 \in 1..(Len(outStream) + 1) /\ outSrcPos + 1 + n <= Len(outStream) + 1 /\ n \in Nat
        BY <1>3, <1>t
    <2>2. outSrcPos + 1 + n - 1 = outSrcPos + n /\ \A j \in 1..n : outSrcPos + 1 + j - 1 = outSrcPos + j
        BY <1>3, <1>t
    <2> QED
        BY <1>t, <2>1, <2>2, PartAt, SMTT(30)
<1> HIDE DEF data
<1>5. /\ outCacheBuf' \in Seq(Nat) /\ Len(outCacheBuf') = cacheEnd
    BY <1>1, <1>4, <1>t, PlacedAt
<1>6. Held' = Held + n
    BY <1>1, <1>3, <1>t DEF Held
<1>7. \A k \in 1..(Held + n) : heldAt(k)' = IF k <= Held THEN heldAt(k) ELSE data[k - Held]
    <2>1. cacheCur + Len(data) <= Len(outCacheBuf)
        BY <1>2, <1>3, <1>4, <1>t
    <2>2. \A k \in 1..(Len(outStream) + cacheCur + Len(data)) :
              byteAt(outStream, placed(outCacheBuf, cacheCur, data), k) =
                  IF k <= Len(outStream) + cacheCur THEN byteAt(outStream, outCacheBuf, k)
                  ELSE data[k - (Len(outStream) + cacheCur)]
        <3>1. /\ outStream \in Seq(Nat) /\ outCacheBuf \in Seq(Nat) /\ cacheCur \in Nat /\ data \in Seq(Nat)
              /\ cacheCur + Len(data) <= Len(outCacheBuf)
            BY <1>4, <1>t, <2>1
        <3> QED
            BY <3>1, PlacedFollows, Zenon
    <2>3. \A k : heldAt(k)' = byteAt(outStream, placed(outCacheBuf, cacheCur, data), k)
        BY <1>1 DEF heldAt, byteAt
    <2> QED
        BY <1>4, <1>t, <2>2, <2>3 DEF heldAt
<1>8. Held + outCopyLength = Len(outWanted) /\ \A k \in 1..Held : heldAt(k) = outWanted[k]
    BY <1>0 DEF HeldIsWanted
<1>9. ASSUME NEW j \in 1..n PROVE data[j] = outWanted[Held + j]
    <2>1. j \in 1..outCopyLength /\ j <= outAhead /\ Held + j - outAhead = outSrcPos + j
          /\ outSrcPos + j <= Len(outStream)
        BY <1>2, <1>3, <1>t
    <2>2. heldAt(Held + j - outAhead) = outWanted[Held + j]
        BY <1>0, <2>1, CopiedIsWanted
    <2>3. heldAt(outSrcPos + j) = outStream[outSrcPos + j]
        BY <2>1 DEF heldAt, byteAt
    <2> QED
        BY <1>4, <2>1, <2>2, <2>3
<1>10. \A k \in 1..Held' : heldAt(k)' = outWanted[k]
    <2> SUFFICES ASSUME NEW k \in 1..Held' PROVE heldAt(k)' = outWanted[k]
        OBVIOUS
    <2>0. k \in 1..(Held + n)
        BY <1>6
    <2>1. CASE k <= Held
        <3>1. k \in 1..Held
            BY <1>3, <1>t, <2>0, <2>1
        <3> QED
            BY <1>7, <1>8, <2>0, <2>1, <3>1
    <2>2. CASE ~(k <= Held)
        <3>1. k - Held \in 1..n /\ Held + (k - Held) = k
            BY <1>3, <1>t, <2>0, <2>2
        <3> QED
            BY <1>7, <1>9, <2>0, <2>2, <3>1
    <2> QED
        BY <2>1, <2>2
<1>11. OutTypes'
    BY <1>0, <1>1, <1>2, <1>3, <1>5, <1>t DEF OutTypes
<1>12. HeldIsWanted'
    <2>1. Held' + outCopyLength' = Len(outWanted')
        <3>1. Held' + outCopyLength' = Held + outCopyLength
            BY <1>1, <1>3, <1>6, <1>t
        <3> QED
            BY <1>1, <1>8, <3>1
    <2> QED
        BY <1>1, <1>10, <2>1 DEF HeldIsWanted
<1>13. FillIsWanted' /\ CopyIsWanted'
    <2>1. Held <= Held' /\ Held' \in Nat
        BY <1>3, <1>6, <1>t
    <2> QED
        BY <1>0, <1>1, <2>1, RestIsWanted
<1>14. CacheHasRoom' /\ SourceIsThere'
    <2>1. CASE cacheCur + n = cacheEnd
        <3>1. outPc' = "again" /\ outAhead' = cacheEnd' /\ cacheCur' = cacheEnd'
            BY <1>1, <1>3, <2>1
        <3> QED
            BY <3>1 DEF CacheHasRoom, SourceIsThere
    <2>2. CASE cacheCur + n # cacheEnd
        <3>1. outPc' = "mem" /\ outAhead' < cacheEnd' /\ outAhead' <= cacheCur' /\ cacheCur' < cacheEnd'
            BY <1>1, <1>2, <1>3, <1>t, <2>2, SMTT(30)
        <3> QED
            BY <3>1 DEF CacheHasRoom, SourceIsThere
    <2> QED
        BY <2>1, <2>2
<1> QED
    BY <1>11, <1>12, <1>13, <1>14 DEF OutInv

LEMMA CopyAgainKeeps == ASSUME OutInv, CopyAgain PROVE OutInv'
<1> DEFINE run == lesser(cacheEnd, outCopyLength)
<1>0. OutTypes /\ HeldIsWanted /\ FillIsWanted /\ CopyIsWanted /\ outPc = "again"
    BY DEF OutInv, CopyAgain
<1>1. /\ outStream' = IF cacheCur = cacheEnd THEN outStream \o outCacheBuf ELSE outStream
      /\ cacheCur' = IF outCopyLength > 0 THEN run ELSE IF cacheCur = cacheEnd THEN 0 ELSE cacheCur
      /\ outCopyLength' = outCopyLength - run
      /\ outPc' = IF outCopyLength > 0 THEN "again" ELSE "idle"
      /\ UNCHANGED <<cacheEnd, outCacheBuf, outAhead, outSrcPos, outWanted>>
    BY DEF CopyAgain
<1>2. outAhead = cacheEnd /\ (outCopyLength > 0 => cacheCur = cacheEnd)
    BY <1>0 DEF OutInv, SourceIsThere
<1>t. /\ cacheEnd \in Nat \ {0} /\ cacheCur \in Nat /\ cacheCur <= cacheEnd /\ outCopyLength \in Nat
      /\ outStream \in Seq(Nat) /\ Len(outStream) \in Nat /\ Held \in Nat /\ Held = Len(outStream) + cacheCur
      /\ outCacheBuf \in Seq(Nat) /\ Len(outCacheBuf) = cacheEnd
    BY <1>0, HeldIsNat DEF OutTypes, Held
<1>3. run \in Nat /\ run <= cacheEnd /\ run <= outCopyLength /\ (run = cacheEnd \/ run = outCopyLength)
    BY <1>t DEF lesser
<1> HIDE DEF run
<1>4. Held + outCopyLength = Len(outWanted) /\ \A k \in 1..Held : heldAt(k) = outWanted[k]
    BY <1>0 DEF HeldIsWanted
<1>5. /\ outStream' \in Seq(Nat)
      /\ cacheCur = cacheEnd =>
           /\ Len(outStream') = Len(outStream) + cacheEnd
           /\ \A k \in 1..Held : outStream'[k] = heldAt(k)
    <2>1. CASE cacheCur = cacheEnd
        <3>1. /\ outStream \o outCacheBuf \in Seq(Nat) /\ Len(outStream \o outCacheBuf) = Len(outStream) + Len(outCacheBuf)
              /\ \A k \in 1..(Len(outStream) + Len(outCacheBuf)) :
                     (outStream \o outCacheBuf)[k] = byteAt(outStream, outCacheBuf, k)
            BY <1>t, JoinedAt, Zenon
        <3>2. outStream' = outStream \o outCacheBuf
            BY <1>1, <2>1
        <3>3. Held = Len(outStream) + Len(outCacheBuf)
            BY <1>t, <2>1
        <3> QED
            BY <1>t, <3>1, <3>2, <3>3 DEF heldAt
    <2>2. CASE cacheCur # cacheEnd
        BY <1>1, <1>t, <2>2
    <2> QED
        BY <2>1, <2>2
<1>6. cacheCur' \in 0..cacheEnd /\ outCopyLength' \in Nat
    BY <1>1, <1>3, <1>t
<1>7. OutTypes'
    BY <1>0, <1>1, <1>5, <1>6 DEF OutTypes
<1>8. CASE outCopyLength > 0
    <2>1. /\ cacheCur = cacheEnd /\ cacheCur' = run /\ outPc' = "again"
          /\ Len(outStream') = Held /\ Held' = Held + run
        BY <1>1, <1>2, <1>5, <1>t, <1>8 DEF Held
    <2>2. \A k \in 1..Held' : heldAt(k)' = outWanted[k]
        <3> SUFFICES ASSUME NEW k \in 1..Held' PROVE heldAt(k)' = outWanted[k]
            OBVIOUS
        <3>0. k \in 1..(Held + run)
            BY <2>1
        <3>1. CASE k <= Held
            <4>1. k \in 1..Held
                BY <1>3, <1>t, <3>0, <3>1
            <4>2. heldAt(k)' = outStream'[k]
                BY <2>1, <3>1 DEF heldAt, byteAt
            <4> QED
                BY <1>4, <1>5, <2>1, <4>1, <4>2
        <3>2. CASE ~(k <= Held)
            <4>1. PICK i \in 1..run : i = k - Held
                <5>1. k - Held \in 1..run
                    BY <1>3, <1>t, <3>0, <3>2
                <5> QED
                    BY <5>1
            <4>2. heldAt(k)' = outCacheBuf[i]
                BY <1>1, <2>1, <3>2, <4>1 DEF heldAt, byteAt
            <4>3. /\ i \in 1..outCopyLength /\ i <= outAhead /\ k = Held + i
                  /\ Held + i - outAhead = Len(outStream) + i
                BY <1>2, <1>3, <1>t, <2>1, <3>0, <4>1
            <4>4. heldAt(Held + i - outAhead) = outWanted[Held + i]
                BY <1>0, <4>3, CopiedIsWanted
            <4>5. heldAt(Len(outStream) + i) = outCacheBuf[i]
                <5>1. ~(Len(outStream) + i <= Len(outStream)) /\ (Len(outStream) + i) - Len(outStream) = i
                    BY <1>3, <1>t, <4>1
                <5> QED
                    BY <5>1 DEF heldAt, byteAt
            <4> QED
                BY <4>2, <4>3, <4>4, <4>5
        <3> QED
            BY <3>1, <3>2
    <2>3. HeldIsWanted'
        <3>1. Held' + outCopyLength' = Len(outWanted')
            <4>1. Held' + outCopyLength' = Held + outCopyLength
                BY <1>1, <1>3, <1>t, <2>1
            <4> QED
                BY <1>1, <1>4, <4>1
        <3> QED
            BY <1>1, <2>1, <2>2, <3>1 DEF HeldIsWanted
    <2>4. FillIsWanted' /\ CopyIsWanted'
        <3>1. Held <= Held' /\ Held' \in Nat
            BY <1>3, <1>t, <2>1
        <3> QED
            BY <1>0, <1>1, <2>1, <3>1, RestIsWanted
    <2>5. CacheHasRoom' /\ SourceIsThere'
        <3>1. outAhead' = cacheEnd' /\ (outCopyLength' > 0 => cacheCur' = cacheEnd')
            BY <1>1, <1>2, <1>3, <1>t, <2>1
        <3> QED
            BY <2>1, <3>1 DEF CacheHasRoom, SourceIsThere
    <2> QED
        BY <1>7, <2>3, <2>4, <2>5 DEF OutInv
<1>9. CASE ~(outCopyLength > 0)
    <2>1. outCopyLength = 0 /\ outCopyLength' = 0 /\ outPc' = "idle" /\ cacheCur' < cacheEnd
        BY <1>1, <1>3, <1>t, <1>9
    <2>2. Held' = Held /\ \A k \in 1..Held : heldAt(k)' = heldAt(k)
        <3>1. CASE cacheCur = cacheEnd
            <4>1. cacheCur' = 0 /\ Len(outStream') = Held /\ Held' = Held
                BY <1>1, <1>5, <1>9, <1>t, <3>1 DEF Held
            <4>2. \A k \in 1..Held : heldAt(k)' = outStream'[k]
                BY <4>1 DEF heldAt, byteAt
            <4> QED
                BY <1>5, <3>1, <4>1, <4>2
        <3>2. CASE cacheCur # cacheEnd
            BY <1>1, <1>9, <3>2 DEF Held, heldAt
        <3> QED
            BY <3>1, <3>2
    <2>3. HeldIsWanted'
        BY <1>1, <1>4, <2>1, <2>2 DEF HeldIsWanted
    <2> QED
        BY <1>1, <1>7, <2>1, <2>3 DEF OutInv, CacheHasRoom, FillIsWanted, CopyIsWanted, SourceIsThere
<1> QED
    BY <1>8, <1>9

(* __copy_in_mem byte by byte puts out the bytes wanted. *)
LEMMA MemCopiesWanted ==
    ASSUME OutTypes, HeldIsWanted, CopyIsWanted, outPc = "mem", outAhead <= cacheCur,
           NEW n \in 0..outCopyLength
    PROVE  repeated(inCache, outAhead, n) = [i \in 1..n |-> outWanted[Held + i]]
<1>t. /\ cacheCur \in Nat /\ outCopyLength \in Nat /\ Held \in Nat /\ Held = Len(outStream) + cacheCur
      /\ outWanted \in Seq(Nat) /\ Len(outStream) \in Nat /\ n \in Nat
    BY HeldIsNat DEF OutTypes, Held
<1>1. inCache \in Seq(Nat) /\ Len(inCache) = cacheCur /\ \A i \in 1..cacheCur : inCache[i] = heldAt(Len(outStream) + i)
    BY InCacheAt
<1>2. outAhead \in 1..Len(inCache) /\ outAhead \in Nat \ {0}
    BY <1>1, <1>t DEF CopyIsWanted
<1>3. PICK w : w = [i \in 1..n |-> outWanted[Held + i]]
    OBVIOUS
<1>4. Repeats(w, inCache, outAhead, n)
    <2>1. ASSUME NEW i \in 1..n PROVE outWanted[Held + i] \in Nat
        <3>1. Held + outCopyLength = Len(outWanted)
            BY DEF HeldIsWanted
        <3>2. Held + i \in 1..Len(outWanted)
            BY <1>t, <3>1
        <3> QED
            BY <1>t, <3>2
    <2>2. w \in [1..n -> Nat]
        BY <1>3, <2>1
    <2>3. ASSUME NEW i \in 1..n
          PROVE  w[i] = IF i <= outAhead THEN inCache[Len(inCache) - outAhead + i] ELSE w[i - outAhead]
        <3>0. i \in 1..outCopyLength
            BY <1>t
        <3>1. /\ outWanted[Held + i] = outWanted[Held + i - outAhead]
              /\ i <= outAhead => heldAt(Held + i - outAhead) = outWanted[Held + i]
            BY <3>0, CopiedIsWanted
        <3>2. w[i] = outWanted[Held + i]
            BY <1>3
        <3>3. CASE i <= outAhead
            <4>1. PICK j : j = Len(inCache) - outAhead + i
                OBVIOUS
            <4>2. j \in 1..cacheCur /\ Len(outStream) + j = Held + i - outAhead
                BY <1>1, <1>2, <1>t, <3>3, <4>1
            <4>3. inCache[j] = heldAt(Held + i - outAhead)
                BY <1>1, <4>2
            <4> QED
                BY <3>1, <3>2, <3>3, <4>1, <4>3
        <3>4. CASE ~(i <= outAhead)
            <4>1. i - outAhead \in 1..n /\ Held + (i - outAhead) = Held + i - outAhead
                BY <1>2, <1>t, <3>4
            <4>2. w[i - outAhead] = outWanted[Held + (i - outAhead)]
                BY <1>3, <4>1
            <4> QED
                BY <3>1, <3>2, <3>4, <4>2
        <3> QED
            BY <3>3, <3>4
    <2> QED
        BY <2>2, <2>3 DEF Repeats
<1>5. Repeats(repeated(inCache, outAhead, n), inCache, outAhead, n)
    BY <1>1, <1>2, <1>t, RepeatedSteps
<1> QED
    BY <1>2, <1>3, <1>4, <1>5, <1>t, RepeatsOnce

LEMMA CopyMemRoundKeeps == ASSUME OutInv, CopyMemRound PROVE OutInv'
<1>0. /\ OutTypes /\ HeldIsWanted /\ FillIsWanted /\ CopyIsWanted /\ cacheCur < cacheEnd
      /\ outPc = "mem" /\ outCopyLength > 0
    BY DEF OutInv, CacheHasRoom, CopyMemRound
<1>1. PICK n, data, memory, rest, run :
          /\ n = lesser(outCopyLength, cacheEnd - cacheCur)
          /\ data = repeated(inCache, outAhead, n)
          /\ memory = placed(outCacheBuf, cacheCur, data)
          /\ rest = outCopyLength - n /\ run = lesser(outAhead, rest)
    OBVIOUS
<1>2. /\ IF cacheCur + n = cacheEnd
         THEN /\ outStream' = outStream \o memory /\ cacheCur' = run /\ outCopyLength' = rest - run
              /\ outCacheBuf' = carried(memory, run)
         ELSE /\ outCacheBuf' = memory /\ cacheCur' = cacheCur + n /\ outCopyLength' = rest
              /\ UNCHANGED outStream
      /\ UNCHANGED <<cacheEnd, outPc, outAhead, outSrcPos, outWanted>>
    BY <1>1 DEF CopyMemRound
<1>t. /\ cacheEnd \in Nat \ {0} /\ cacheCur \in Nat /\ outCopyLength \in Nat /\ outAhead \in Nat
      /\ outStream \in Seq(Nat) /\ Len(outStream) \in Nat /\ Held \in Nat /\ Held = Len(outStream) + cacheCur
      /\ outCacheBuf \in Seq(Nat) /\ Len(outCacheBuf) = cacheEnd
    BY <1>0, HeldIsNat DEF OutTypes, Held
<1>3. outAhead < cacheEnd /\ outAhead <= cacheCur
    BY <1>0 DEF OutInv, SourceIsThere
<1>4. /\ n \in Nat /\ n <= outCopyLength /\ cacheCur + n <= cacheEnd /\ (cacheCur + n = cacheEnd \/ n = outCopyLength)
      /\ rest = outCopyLength - n /\ rest \in Nat /\ run \in Nat /\ run <= outAhead /\ run <= rest /\ (run = outAhead \/ run = rest)
    <2>1. n \in Nat /\ n <= outCopyLength /\ cacheCur + n <= cacheEnd /\ (cacheCur + n = cacheEnd \/ n = outCopyLength)
        BY <1>0, <1>1, <1>t DEF lesser
    <2>2. rest \in Nat
        BY <1>1, <1>t, <2>1, SMTT(30)
    <2> QED
        BY <1>1, <1>t, <2>1, <2>2 DEF lesser
<1>5. /\ Held + outCopyLength = Len(outWanted) /\ \A k \in 1..Held : heldAt(k) = outWanted[k]
      /\ outAhead \in 1..Held
    BY <1>0 DEF HeldIsWanted, CopyIsWanted
<1>6. data \in Seq(Nat) /\ Len(data) = n /\ \A i \in 1..n : data[i] = outWanted[Held + i]
    <2>1. data = [i \in 1..n |-> outWanted[Held + i]]
        <3>1. n \in 0..outCopyLength
            BY <1>4, <1>t
        <3> QED
            BY <1>0, <1>1, <1>3, <3>1, MemCopiesWanted, Zenon
    <2>2. inCache \in Seq(Nat) /\ Len(inCache) = cacheCur
        BY <1>0, InCacheAt
    <2>3. Repeats(data, inCache, outAhead, n)
        <3>1. outAhead \in 1..Len(inCache)
            BY <1>3, <1>5, <1>t, <2>2
        <3> QED
            BY <1>1, <1>4, <2>2, <3>1, RepeatedSteps
    <2> QED
        BY <1>4, <2>1, <2>3, FunctionIsSeq DEF Repeats
<1>7. memory \in Seq(Nat) /\ Len(memory) = cacheEnd
    BY <1>1, <1>6, <1>t, PlacedAt, SMTT(30)
<1>8. \A k \in 1..(Held + n) : byteAt(outStream, memory, k) = outWanted[k]
    <2> SUFFICES ASSUME NEW k \in 1..(Held + n) PROVE byteAt(outStream, memory, k) = outWanted[k]
        OBVIOUS
    <2>1. byteAt(outStream, memory, k) = IF k <= Held THEN heldAt(k) ELSE data[k - Held]
        <3>1. cacheCur + Len(data) <= Len(outCacheBuf) /\ k \in 1..(Len(outStream) + cacheCur + Len(data))
            BY <1>4, <1>6, <1>t
        <3>2. byteAt(outStream, memory, k) = IF k <= Len(outStream) + cacheCur THEN byteAt(outStream, outCacheBuf, k)
                                             ELSE data[k - (Len(outStream) + cacheCur)]
            <4>1. \A j \in 1..(Len(outStream) + cacheCur + Len(data)) :
                      byteAt(outStream, placed(outCacheBuf, cacheCur, data), j) =
                          IF j <= Len(outStream) + cacheCur THEN byteAt(outStream, outCacheBuf, j)
                          ELSE data[j - (Len(outStream) + cacheCur)]
                <5>1. /\ outStream \in Seq(Nat) /\ outCacheBuf \in Seq(Nat) /\ cacheCur \in Nat /\ data \in Seq(Nat)
                      /\ cacheCur + Len(data) <= Len(outCacheBuf)
                    BY <1>6, <1>t, <3>1
                <5> QED
                    BY <5>1, PlacedFollows, Zenon
            <4> QED
                BY <1>1, <3>1, <4>1, Zenon
        <3> QED
            BY <1>t, <3>2 DEF heldAt
    <2>2. CASE k <= Held
        <3>1. k \in 1..Held
            BY <1>4, <1>t, <2>2
        <3> QED
            BY <1>5, <2>1, <2>2, <3>1
    <2>3. CASE ~(k <= Held)
        <3>1. k - Held \in 1..n /\ Held + (k - Held) = k
            BY <1>4, <1>t, <2>3
        <3> QED
            BY <1>6, <2>1, <2>3, <3>1
    <2> QED
        BY <2>2, <2>3
<1>9. CASE cacheCur + n # cacheEnd
    <2>1. /\ outCacheBuf' = memory /\ cacheCur' = cacheCur + n /\ outCopyLength' = rest /\ outStream' = outStream
          /\ UNCHANGED <<cacheEnd, outPc, outAhead, outSrcPos, outWanted>>
        BY <1>2, <1>9
    <2>2. Held' = Held + n /\ \A k : heldAt(k)' = byteAt(outStream, memory, k)
        BY <1>4, <1>t, <2>1 DEF Held, heldAt, byteAt
    <2>3. OutTypes'
        BY <1>0, <1>4, <1>7, <1>t, <2>1 DEF OutTypes
    <2>4. rest = 0 /\ Held + n = Len(outWanted)
        <3>1. n = outCopyLength
            BY <1>4, <1>9
        <3>2. rest = 0
            BY <1>4, <1>t, <3>1
        <3> QED
            BY <1>5, <3>1, <3>2
    <2>5. HeldIsWanted'
        <3>1. Held' + outCopyLength' = Len(outWanted')
            <4>1. Held' + outCopyLength' = Held + n
                BY <1>4, <1>t, <2>1, <2>2, <2>4
            <4> QED
                BY <2>1, <2>4, <4>1
        <3> QED
            BY <1>0, <1>8, <2>1, <2>2, <3>1 DEF HeldIsWanted
    <2>6. FillIsWanted' /\ CopyIsWanted'
        <3>1. Held <= Held' /\ Held' \in Nat
            BY <1>4, <1>t, <2>2
        <3> QED
            BY <1>0, <2>1, <3>1, RestIsWanted
    <2>7. CacheHasRoom' /\ SourceIsThere'
        <3>1. outPc' = "mem" /\ outAhead' < cacheEnd' /\ ~(outCopyLength' > 0) /\ cacheCur' < cacheEnd'
            BY <1>0, <1>3, <1>4, <1>9, <1>t, <2>1, <2>4
        <3> QED
            BY <3>1 DEF CacheHasRoom, SourceIsThere
    <2> QED
        BY <2>3, <2>5, <2>6, <2>7 DEF OutInv
<1>10. CASE cacheCur + n = cacheEnd
    <2>1. /\ outStream' = outStream \o memory /\ cacheCur' = run /\ outCopyLength' = rest - run
          /\ outCacheBuf' = carried(memory, run)
          /\ UNCHANGED <<cacheEnd, outPc, outAhead, outSrcPos, outWanted>>
        BY <1>2, <1>10
    <2>2. /\ outStream' \in Seq(Nat) /\ Len(outStream') = Held + n
          /\ \A k \in 1..(Held + n) : outStream'[k] = outWanted[k]
        <3>1. /\ outStream \o memory \in Seq(Nat) /\ Len(outStream \o memory) = Len(outStream) + Len(memory)
              /\ \A k \in 1..(Len(outStream) + Len(memory)) : (outStream \o memory)[k] = byteAt(outStream, memory, k)
            BY <1>7, <1>t, JoinedAt, Zenon
        <3>2. Len(outStream) + Len(memory) = Held + n
            <4>1. Len(outStream) + cacheEnd = Held + n
                BY <1>4, <1>10, <1>t, SMTT(30)
            <4> QED
                BY <1>7, <4>1
        <3> QED
            BY <1>8, <2>1, <3>1, <3>2
    <2>3. PICK front : front = SubSeq(memory, cacheEnd - outAhead + 1, cacheEnd - outAhead + run)
        OBVIOUS
    <2>4. front \in Seq(Nat) /\ Len(front) = run /\ \A i \in 1..run : front[i] = memory[cacheEnd - outAhead + i]
        <3>1. PICK m \in 1..(Len(memory) + 1) : m = cacheEnd - outAhead + 1
            <4>1. cacheEnd - outAhead + 1 \in 1..(Len(memory) + 1)
                BY <1>3, <1>7, <1>t
            <4> QED
                BY <4>1
        <3>2. m + run <= Len(memory) + 1 /\ m + run - 1 = cacheEnd - outAhead + run
            BY <1>4, <1>7, <1>t, <3>1
        <3>3. \A i \in 1..run : m + i - 1 = cacheEnd - outAhead + i
            BY <1>4, <1>t, <3>1
        <3>4. /\ SubSeq(memory, m, m + run - 1) \in Seq(Nat) /\ Len(SubSeq(memory, m, m + run - 1)) = run
              /\ \A i \in 1..run : SubSeq(memory, m, m + run - 1)[i] = memory[m + i - 1]
            BY <1>4, <1>7, <3>2, PartAt
        <3> QED
            BY <2>3, <3>1, <3>2, <3>3, <3>4
    <2>5. /\ outCacheBuf' \in Seq(Nat) /\ Len(outCacheBuf') = cacheEnd
          /\ \A i \in 1..run : outCacheBuf'[i] = front[i]
        <3>0. 0 \in Nat /\ outCacheBuf' = placed(memory, 0, front)
            BY <2>1, <2>3 DEF carried
        <3>1. /\ outCacheBuf' \in Seq(Nat) /\ Len(outCacheBuf') = Len(memory)
              /\ \A i \in 1..Len(memory) : outCacheBuf'[i] = IF 0 < i /\ i <= 0 + Len(front) THEN front[i - 0] ELSE memory[i]
            BY <1>7, <2>4, <3>0, PlacedAt, Zenon
        <3>2. \A i \in 1..run : i \in 1..Len(memory) /\ 0 < i /\ i <= 0 + Len(front) /\ i - 0 = i
            BY <1>3, <1>4, <1>7, <1>t, <2>4
        <3> QED
            BY <1>7, <3>1, <3>2
    <2>6. Held' = Held + n + run /\ outCopyLength' = outCopyLength - n - run /\ outCopyLength' \in Nat
        <3>1. Held' = (Held + n) + run
            BY <2>1, <2>2 DEF Held
        <3>2. outCopyLength' = rest - run
            BY <2>1
        <3> QED
            BY <1>4, <1>t, <3>1, <3>2
    <2>7. OutTypes'
        <3>1. cacheCur' \in 0..cacheEnd
            BY <1>3, <1>4, <1>t, <2>1
        <3> QED
            BY <1>0, <2>1, <2>2, <2>5, <2>6, <3>1 DEF OutTypes
    <2>8. \A k \in 1..Held' : heldAt(k)' = outWanted[k]
        <3> SUFFICES ASSUME NEW k \in 1..Held' PROVE heldAt(k)' = outWanted[k]
            OBVIOUS
        <3>0. k \in 1..(Held + n + run)
            BY <2>6
        <3>1. CASE k <= Held + n
            <4>1. k \in 1..(Held + n)
                BY <1>4, <1>t, <3>0, <3>1
            <4>2. heldAt(k)' = outStream'[k]
                BY <2>2, <3>1 DEF heldAt, byteAt
            <4> QED
                BY <2>2, <4>1, <4>2
        <3>2. CASE ~(k <= Held + n)
            <4>1. PICK i \in 1..run : i = k - (Held + n)
                <5>1. k - (Held + n) \in 1..run
                    BY <1>4, <1>t, <3>0, <3>2
                <5> QED
                    BY <5>1
            <4>2. heldAt(k)' = outCacheBuf'[i]
                BY <2>2, <3>2, <4>1 DEF heldAt, byteAt
            <4>3. PICK j : j = k - outAhead
                OBVIOUS
            <4>4. /\ j \in 1..(Held + n) /\ ~(j <= Len(outStream)) /\ j - Len(outStream) = cacheEnd - outAhead + i
                BY <1>3, <1>4, <1>5, <1>10, <1>t, <3>0, <4>1, <4>3
            <4>5. outCacheBuf'[i] = outWanted[j]
                <5>1. byteAt(outStream, memory, j) = memory[cacheEnd - outAhead + i]
                    BY <4>4 DEF byteAt
                <5> QED
                    BY <1>8, <2>4, <2>5, <4>4, <5>1
            <4>6. outWanted[k] = outWanted[j]
                <5>1. k \in 1..Len(outWanted) /\ k > Held
                    BY <1>4, <1>5, <1>t, <3>0, <3>2, SMTT(30)
                <5> QED
                    BY <1>0, <4>3, <5>1 DEF CopyIsWanted
            <4> QED
                BY <4>2, <4>5, <4>6
        <3> QED
            BY <3>1, <3>2
    <2>9. HeldIsWanted'
        <3>1. Held' + outCopyLength' = Len(outWanted')
            <4>1. Held' + outCopyLength' = Held + outCopyLength
                BY <1>4, <1>t, <2>6
            <4> QED
                BY <1>5, <2>1, <4>1
        <3> QED
            BY <1>0, <2>1, <2>8, <3>1 DEF HeldIsWanted
    <2>10. FillIsWanted' /\ CopyIsWanted'
        <3>1. Held <= Held' /\ Held' \in Nat
            BY <1>4, <1>t, <2>6
        <3> QED
            BY <1>0, <2>1, <3>1, RestIsWanted
    <2>11. CacheHasRoom' /\ SourceIsThere'
        <3>1. outPc' = "mem" /\ outAhead' < cacheEnd' /\ (outCopyLength' > 0 => outAhead' <= cacheCur') /\ cacheCur' < cacheEnd'
            BY <1>0, <1>3, <1>4, <1>t, <2>1
        <3> QED
            BY <3>1 DEF CacheHasRoom, SourceIsThere
    <2> QED
        BY <2>7, <2>9, <2>10, <2>11 DEF OutInv
<1> QED
    BY <1>9, <1>10

LEMMA OutInvStep == OutInv /\ [OutNext]_outCacheVars => OutInv'
<1> SUFFICES ASSUME OutInv, [OutNext]_outCacheVars PROVE OutInv'
    OBVIOUS
<1>1. CASE UNCHANGED outCacheVars
    <2>1. Held' = Held /\ \A k : heldAt(k)' = heldAt(k)
        BY <1>1 DEF outCacheVars, Held, heldAt
    <2> QED
        BY <1>1, <2>1 DEF outCacheVars, OutInv, OutTypes, HeldIsWanted, CacheHasRoom, FillIsWanted, CopyIsWanted,
                          SourceIsThere
<1>2. CASE OutNext
    BY <1>2, OutWriteKeeps, OutFillKeeps, FillRoundKeeps, OutCopyFromSelfKeeps, CopyStreamRoundKeeps,
       CopyMemRoundKeeps, CopySmallKeeps, CopyAgainKeeps, CopyEndKeeps DEF OutNext
<1> QED
    BY <1>1, <1>2

(* The bytes put out are all that are wanted when no operation runs. *)
LEMMA OutInvRepeats == OutInv => OutCacheRepeats
<1> SUFFICES ASSUME OutInv, outPc = "idle" PROVE outStream \o inCache = outWanted /\ cacheCur < cacheEnd
    BY DEF OutCacheRepeats
<1>0. OutTypes /\ cacheCur < cacheEnd
    BY DEF OutInv, CacheHasRoom
<1>1. Held = Len(outWanted) /\ \A k \in 1..Held : heldAt(k) = outWanted[k]
    BY <1>0, HeldIsNat DEF OutInv, HeldIsWanted
<1>t. /\ outStream \in Seq(Nat) /\ Len(outStream) \in Nat /\ cacheCur \in Nat /\ Held = Len(outStream) + cacheCur
      /\ outWanted \in Seq(Nat)
    BY <1>0, HeldIsNat DEF OutTypes, Held
<1>2. inCache \in Seq(Nat) /\ Len(inCache) = cacheCur /\ \A i \in 1..cacheCur : inCache[i] = heldAt(Len(outStream) + i)
    BY <1>0, InCacheAt
<1>3. PICK all : all = outStream \o inCache
    OBVIOUS
<1>4. /\ all \in Seq(Nat) /\ Len(all) = Held
      /\ \A k \in 1..Held : all[k] = byteAt(outStream, inCache, k)
    <2>1. /\ all \in Seq(Nat) /\ Len(all) = Len(outStream) + Len(inCache)
          /\ \A k \in 1..(Len(outStream) + Len(inCache)) : all[k] = byteAt(outStream, inCache, k)
        BY <1>2, <1>3, <1>t, JoinedAt, Zenon
    <2> QED
        BY <1>2, <1>t, <2>1
<1>5. ASSUME NEW k \in 1..Held PROVE all[k] = outWanted[k]
    <2>1. CASE k <= Len(outStream)
        <3>1. heldAt(k) = outStream[k] /\ all[k] = outStream[k]
            BY <1>4, <2>1 DEF heldAt, byteAt
        <3> QED
            BY <1>1, <3>1
    <2>2. CASE ~(k <= Len(outStream))
        <3>1. k - Len(outStream) \in 1..cacheCur /\ Len(outStream) + (k - Len(outStream)) = k
            BY <1>t, <2>2
        <3>2. all[k] = inCache[k - Len(outStream)]
            BY <1>4, <2>2 DEF byteAt
        <3> QED
            BY <1>1, <1>2, <3>1, <3>2
    <2> QED
        BY <2>1, <2>2
<1>6. all = outWanted
    <2>1. Len(all) = Len(outWanted) /\ \A k \in 1..Len(all) : all[k] = outWanted[k]
        BY <1>1, <1>4, <1>5
    <2> QED
        BY <1>4, <1>t, <2>1, SeqEqual
<1> QED
    BY <1>0, <1>3, <1>6

(* Whatever the size of the cache, after any sequence of writes, fills and *)
(* copies from the output itself the stream and the cache together hold    *)
(* what was to be put out, and the cache is not left full.                 *)
THEOREM CacheRepeats == OutSpec => []OutCacheRepeats
<1>1. OutInv => OutCacheRepeats
    BY OutInvRepeats
<1> QED
    BY <1>1, OutInvInit, OutInvStep, PTL DEF OutSpec
=============================================================================
