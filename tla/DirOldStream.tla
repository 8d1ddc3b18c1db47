--------------------------- MODULE DirOldStream ---------------------------
(* The old data of a directory patch: hpatch_TRefStream joins the old      *)
(* files to one stream, hpatch_TResHandleLimit opens them when they are    *)
(* read and keeps at most _limitMaxOpenCount of them open, closing the one *)
(* whose last read is longest ago.                                         *)
EXTENDS Integers, Sequences, SequencesExt, FiniteSets

CONSTANTS RefSizes,       \* the sizes of the old files, a set of sequences
          OpenLimits,     \* kMaxOpenFileNumber of the caller
          MaxReads,       \* reads of the patch, a bound of the model
          OldMaxFaults    \* opens, reads and closes that fail

ASSUME OldAssumption == /\ RefSizes \subseteq Seq(Nat) /\ OpenLimits \subseteq Nat \ {0, 1}
                        /\ MaxReads \in Nat /\ OldMaxFaults \in Nat

VARIABLES oldIn,          \* sizes, limit
          oldPc,          \* "idle", "read" in _refStream_read, "close", "end"
          handles,        \* the files that the process has open
          _in_streamList, \* the files the limiter knows to be open
          _curOpenCount, _curHit, hits,
          _curRangeIndex, \* the file of the last read
          rangeIndex,     \* curRangeIndex of the read at work
          readBegin, readFromPos, readEnd, readData,
          oldReads, oldOk, oldFaults

oldVars == <<oldIn, oldPc, handles, _in_streamList, _curOpenCount, _curHit, hits, _curRangeIndex,
             rangeIndex, readBegin, readFromPos, readEnd, readData, oldReads, oldOk, oldFaults>>

sizes == oldIn.sizes
File == 1..Len(sizes)
byteOf(i, k) == 10 * i + k
fileData(i) == [k \in 1..sizes[i] |-> byteOf(i, k)]
oldData == FlattenSeq([i \in File |-> fileData(i)])

(* _createRange: where each file ends, with a 0 before the list. *)
rangeEndList(files) ==
    LET endOf[i \in 0..Len(files)] == IF i = 0 THEN 0 ELSE endOf[i - 1] + files[i]
    IN  endOf
ranges(i) == rangeEndList(sizes)[i]
streamSize == ranges(Len(sizes))

(* kMaxOpenFileNumber, less 2 for the diff and a new file, at least 1. *)
_limitMaxOpenCount == IF oldIn.limit - 2 < 1 THEN 1 ELSE oldIn.limit - 2

OldInputs == [sizes : RefSizes, limit : OpenLimits]

OldInit(inputs) ==
    /\ oldIn \in inputs
    /\ oldPc = "idle" /\ handles = {} /\ _in_streamList = {} /\ _curOpenCount = 0 /\ _curHit = 0
    /\ hits = [i \in File |-> 0] /\ _curRangeIndex = 1 /\ rangeIndex = 1
    /\ readBegin = 0 /\ readFromPos = 0 /\ readEnd = 0 /\ readData = <<>>
    /\ oldReads = 0 /\ oldOk = TRUE /\ oldFaults = OldMaxFaults

limitVars == <<handles, _in_streamList, _curOpenCount, _curHit, hits>>

(* The patch reads somewhere; not after a read has failed. *)
OldRead ==
    /\ oldPc = "idle" /\ oldOk /\ oldReads < MaxReads
    /\ \E from \in 0..streamSize : \E to \in from..streamSize :
          readBegin' = from /\ readFromPos' = from /\ readEnd' = to
    /\ readData' = <<>> /\ oldReads' = oldReads + 1 /\ rangeIndex' = _curRangeIndex /\ oldPc' = "read"
    /\ UNCHANGED <<oldIn, limitVars, _curRangeIndex, oldOk, oldFaults>>

isHit(from) == ranges(rangeIndex - 1) <= from /\ from <= ranges(rangeIndex)

(* findRangeIndex: the position is not in the current file. *)
FindRange ==
    /\ oldPc = "read" /\ readFromPos < readEnd /\ ~isHit(readFromPos)
    /\ rangeIndex' = CHOOSE i \in File : /\ readFromPos < ranges(i)
                                         /\ \A j \in File : readFromPos < ranges(j) => i <= j
    /\ UNCHANGED <<oldIn, oldPc, limitVars, _curRangeIndex, readBegin, readFromPos, readEnd, readData, oldReads, oldOk, oldFaults>>

(* The position is the end of the current file: on to the next one. *)
NextRange ==
    /\ oldPc = "read" /\ readFromPos < readEnd /\ isHit(readFromPos) /\ readFromPos = ranges(rangeIndex)
    /\ rangeIndex' = rangeIndex + 1
    /\ UNCHANGED <<oldIn, oldPc, limitVars, _curRangeIndex, readBegin, readFromPos, readEnd, readData, oldReads, oldOk, oldFaults>>

ReadFails == oldPc' = "close" /\ oldOk' = FALSE
FaultOld == oldFaults > 0 /\ oldFaults' = oldFaults - 1

(* closeOneHandle: the first of those that were read longest ago. *)
leastHit(i) == i \in _in_streamList /\ \A j \in _in_streamList : hits[i] < hits[j] \/ (hits[i] = hits[j] /\ i <= j)

(* Fault: a handle is closed only when more than the limit are open. *)
isFullOneLate == _curOpenCount > _limitMaxOpenCount

isFull == _curOpenCount >= _limitMaxOpenCount

partLength == (IF readEnd < ranges(rangeIndex) THEN readEnd ELSE ranges(rangeIndex)) - readFromPos

(* Fault: every read begins at the start of its file. *)
partOfStart == SubSeq(fileData(rangeIndex), 1, partLength)

(* _TRefStream_read_do: the bytes of the current file. *)
part == LET at == readFromPos - ranges(rangeIndex - 1) IN SubSeq(fileData(rangeIndex), at + 1, at + partLength)

CountHit == _curHit' = _curHit + 1 /\ hits' = [hits EXCEPT ![rangeIndex] = _curHit + 1]

(* The read of one file, when it is open. *)
ReadOpen ==
    /\ oldPc = "read" /\ readFromPos < readEnd /\ isHit(readFromPos) /\ readFromPos < ranges(rangeIndex)
    /\ rangeIndex \in _in_streamList /\ CountHit
    /\ \/ /\ readData' = readData \o part /\ readFromPos' = readFromPos + partLength
          /\ rangeIndex' = IF readFromPos' < readEnd THEN rangeIndex + 1 ELSE rangeIndex
          /\ UNCHANGED <<oldPc, oldOk, oldFaults>>
       \/ FaultOld /\ ReadFails /\ UNCHANGED <<readData, readFromPos, rangeIndex>>
    /\ UNCHANGED <<oldIn, handles, _in_streamList, _curOpenCount, _curRangeIndex, readBegin, readEnd, oldReads>>

(* The file is not open: one is closed when the limit is reached, then it  *)
(* is opened.  The handle is gone even when its close fails; a file whose  *)
(* size is no longer the one of the start stays open and is not counted.   *)
OpenHandle ==
    /\ oldPc = "read" /\ readFromPos < readEnd /\ isHit(readFromPos) /\ readFromPos < ranges(rangeIndex)
    /\ rangeIndex \notin _in_streamList
    /\ LET old == IF isFull THEN {i \in File : leastHit(i)} ELSE {}
           count == _curOpenCount - Cardinality(old)
           Closed == handles' = handles \ old /\ _in_streamList' = _in_streamList \ old
           Opened == /\ handles' = (handles \ old) \cup {rangeIndex}
                     /\ _in_streamList' = (_in_streamList \ old) \cup {rangeIndex}
       IN  \/ /\ Opened /\ _curOpenCount' = count + 1              \* the read counts the hit
              /\ UNCHANGED <<oldPc, oldOk, oldFaults, _curHit, hits>>
           \/ /\ FaultOld /\ ReadFails /\ CountHit
              /\ \/ isFull /\ Closed /\ UNCHANGED _curOpenCount      \* the close fails
                 \/ Closed /\ _curOpenCount' = count                 \* the open fails
                 \/ Opened /\ _curOpenCount' = count                 \* the size is another
    /\ UNCHANGED <<oldIn, _curRangeIndex, rangeIndex, readBegin, readFromPos, readEnd, readData, oldReads>>

ReadDone ==
    /\ oldPc = "read" /\ readFromPos = readEnd
    /\ oldPc' = "idle" /\ _curRangeIndex' = rangeIndex
    /\ UNCHANGED <<oldIn, limitVars, rangeIndex, readBegin, readFromPos, readEnd, readData, oldReads, oldOk, oldFaults>>

(* hpatch_TResHandleLimit_closeFileHandles: all that the limiter knows. *)
CloseFileHandles ==
    /\ oldPc \in {"idle", "close"} /\ oldPc' = "end"
    /\ handles' = handles \ _in_streamList /\ _in_streamList' = {}
    /\ _curOpenCount' = _curOpenCount - Cardinality(_in_streamList)
    /\ \/ UNCHANGED <<oldOk, oldFaults>>
       \/ _in_streamList # {} /\ FaultOld /\ oldOk' = FALSE
    /\ UNCHANGED <<oldIn, _curHit, hits, _curRangeIndex, rangeIndex, readBegin, readFromPos, readEnd, readData, oldReads>>

OldNext == OldRead \/ FindRange \/ NextRange \/ ReadOpen \/ OpenHandle \/ ReadDone \/ CloseFileHandles

OldSpec == OldInit(OldInputs) /\ [][OldNext]_oldVars

---------------------------------------------------------------------------
(* Properties *)

(* A read returns the bytes of the joined old files, wherever the read     *)
(* before it ended and whichever files were closed in between.             *)
OldReadsJoined == (oldPc = "idle" /\ oldReads > 0) => readData = SubSeq(oldData, readBegin + 1, readEnd)

(* The process never has more old files open than the limit allows, none   *)
(* after the close, and as long as no operation failed the count is the    *)
(* number of open files, as the assertion of closeFileHandles wants it.    *)
OldHandlesBounded ==
    /\ Cardinality(handles) <= _limitMaxOpenCount
    /\ oldPc = "end" => handles = {}
    /\ oldOk => _curOpenCount = Cardinality(handles)
=============================================================================
