--------------------------- MODULE MC_Sequential ---------------------------
(***************************************************************************)
(* The parts of the program that work in one thread, in one model: a       *)
(* behaviour runs one of the five machines and the others stand still.     *)
(***************************************************************************)
EXTENDS HPatchLite, DirPatch, DirOldStream, HPatchStream

VARIABLE unit    \* the machine that runs

liteOne == {CHOOSE i \in LiteInputs : TRUE}
dirOne == {CHOOSE i \in DirInputs : TRUE}
oldOne == {CHOOSE i \in OldInputs : TRUE}
streamOne == {CHOOSE i \in StreamInputs : TRUE}
outOne == {CHOOSE i \in OutCacheSizes : TRUE}

SequentialInit ==
    \/ /\ unit = "lite" /\ DirInit(dirOne) /\ OldInit(oldOne) /\ StreamInit(streamOne) /\ OutInit(outOne)
       /\ LiteInit(LiteInputs)
    \/ /\ unit = "dir" /\ LiteInit(liteOne) /\ OldInit(oldOne) /\ StreamInit(streamOne) /\ OutInit(outOne)
       /\ DirInit(DirInputs)
    \/ /\ unit = "old" /\ LiteInit(liteOne) /\ DirInit(dirOne) /\ StreamInit(streamOne) /\ OutInit(outOne)
       /\ OldInit(OldInputs)
    \/ /\ unit = "stream" /\ LiteInit(liteOne) /\ DirInit(dirOne) /\ OldInit(oldOne) /\ OutInit(outOne)
       /\ StreamInit(StreamInputs)
    \/ /\ unit = "out" /\ LiteInit(liteOne) /\ DirInit(dirOne) /\ OldInit(oldOne) /\ StreamInit(streamOne)
       /\ OutInit(OutCacheSizes)

SequentialNext ==
    \/ unit = "lite" /\ LiteNext /\ UNCHANGED <<unit, dirVars, oldVars, strmVars, outCacheVars>>
    \/ unit = "dir" /\ DirNext /\ UNCHANGED <<unit, liteVars, oldVars, strmVars, outCacheVars>>
    \/ unit = "old" /\ OldNext /\ UNCHANGED <<unit, liteVars, dirVars, strmVars, outCacheVars>>
    \/ unit = "stream" /\ StreamNext /\ UNCHANGED <<unit, liteVars, dirVars, oldVars, outCacheVars>>
    \/ unit = "out" /\ OutNext /\ UNCHANGED <<unit, liteVars, dirVars, oldVars, strmVars>>

SequentialSpec == SequentialInit /\ [][SequentialNext]_<<unit, liteVars, dirVars, oldVars, strmVars, outCacheVars>>

---------------------------------------------------------------------------
(* The directories *)

MCPathOrder == <<"root", "a", "d", "d_u", "d_x">>
MCParent == [p \in {"root", "a", "d", "d_u", "d_x"} |-> IF p \in {"d_u", "d_x"} THEN "d" ELSE "root"]

Tree(a, d, x) == [p \in {"root", "a", "d", "d_u", "d_x"} |->
                     CASE p = "root" -> DirNode [] p = "a" -> a [] p = "d" -> d [] p = "d_x" -> x [] OTHER -> NoNode]
NoUser == [p \in {"root", "a", "d", "d_u", "d_x"} |-> NoNode]
UserFile == [NoUser EXCEPT !["d_u"] = <<7>>]

(* Files that are edited, emptied, copied, exchanged, renamed; a directory *)
(* that becomes a file and a file that becomes a directory; a file of the  *)
(* user in a directory of the release and at the place of a new file.      *)
MCDirReleases ==
    {[old |-> Tree(<<1>>, DirNode, <<2, 3>>), new |-> Tree(<<4, 5>>, DirNode, <<>>), user |-> UserFile],
     [old |-> Tree(<<1, 1>>, NoNode, NoNode), new |-> Tree(<<1, 1>>, DirNode, <<1, 1>>), user |-> NoUser],
     [old |-> Tree(<<1>>, DirNode, <<2>>), new |-> Tree(<<2>>, DirNode, <<1>>), user |-> NoUser],
     [old |-> Tree(<<1>>, DirNode, <<2, 3>>), new |-> Tree(<<2, 3>>, <<1>>, NoNode), user |-> NoUser],
     [old |-> Tree(<<1>>, DirNode, <<2, 3>>), new |-> Tree(<<2, 3>>, <<1>>, NoNode), user |-> UserFile],
     [old |-> Tree(<<2>>, <<1>>, NoNode), new |-> Tree(<<4>>, DirNode, <<1>>), user |-> NoUser],
     [old |-> Tree(<<1>>, NoNode, NoNode), new |-> Tree(<<3>>, DirNode, <<4>>),
      user |-> [NoUser EXCEPT !["d"] = DirNode, !["d_x"] = <<7>>]],
     [old |-> Tree(<<1>>, DirNode, <<2>>), new |-> Tree(<<1>>, NoNode, NoNode), user |-> UserFile]}

(* Two, three and more old files behind one stream, one of them empty. *)
MCRefSizes == {<<2, 0, 1, 1>>, <<1, 2, 1, 1>>}

---------------------------------------------------------------------------
(* The diffs of the stream patch *)
cv(o, n, l) == [oldPos |-> o, newPos |-> n, length |-> l]
NoSub == [p \in 1..StreamNewSize |-> 0]

(* All sub diffs of short runs, over covers at both ends and in between. *)
RleCovers == {<<cv(2, 0, 5)>>, <<cv(3, 1, 3)>>, <<cv(4, 0, 2), cv(1, 3, 2)>>}
SubDiffs(c) ==
    {s \in [1..StreamNewSize -> {0, 255, 9}] :
        \A p \in 1..StreamNewSize : (\A i \in 1..Len(c) : p - 1 \notin span(c[i].newPos, c[i].length)) => s[p] = 0}
RleInputs ==
    UNION {[covers : {c}, sub : SubDiffs(c), cache : {1, 2, 3}, cut : {0, 1}, oldCache : {0}, buf : {1}] : c \in RleCovers}

(* All ways to lay three covers over the old file; the old data cached. *)
Three(l, o) == <<cv(o[1], 0, l[1]), cv(o[2], l[1], l[2]), cv(o[3], l[1] + l[2], l[3])>>
CacheInputs ==
    [covers : {Three(l, o) : l \in {<<1, 1, 3>>, <<2, 1, 1>>, <<1, 3, 1>>, <<1, 2, 2>>}, o \in [1..3 -> {0, 1, 2, 4, 7, 9}]},
     sub : {NoSub}, cache : {2}, cut : {0}, oldCache : 1..5, buf : {2, 3}]
MCStreamInputs == RleInputs \cup CacheInputs
=============================================================================
