# HDiffPatch: a TLA+ verification project

HDiffPatch makes a binary diff between old and new data and patches old data
with it. The part of it that is hard to get right and hard to test is the
**multi-thread patcher**: up to five threads in a chain of small bounded
buffers, one condition variable per component, errors that any of them can
report at any time, and memory that the caller frees as soon as the patch
function returns. This project models that part completely, model-checks it on
small instances, and proves the core of its buffer protocol for any number of
components, buffers and sizes.

Around it the project models and model-checks

* the **parallel compressor** of the diff side with the channel and thread pool
  under it;
* the **patch manager of the Unreal plugin**, which patches the chunks of a
  release in several threads and replaces their files by renames that are rolled
  back, with failing file operations, crashes and repeated calls;
* the single-thread parts in which positions, buffers and files depend on each
  other: the **in-place lite patch**, the **directory patch**, the joined old
  files under a handle limit, the **patch by streams** with its cache of old data,
  and the output cache that copies from itself.

Paths below are relative to `src/`; `mt/` stands for
`libHDiffPatch/HPatch/hpatch_mt/`.

## 1. Inventory

| Component | State | Operations | Status |
|---|---|---|---|
| `hpatch_mt_t` (`mt/_hpatch_mt.c`) | `isOnFinish`, `isOnError`, the registered condition variables, the counter of running threads | set error / finish (flags, then a broadcast to every condition variable), begin / end of a thread, wait for all threads, close | modelled |
| `hpatch_mt_base_t` (`mt/_hpatch_mt.c`, `mt/_patch_private_mt.h`) | per component: free list and data list of work buffers, its own error flag, locker and condition variable | wait once for one buffer or for all, push at head or end, set error | modelled |
| `hinput_mt_t` (`mt/_hinput_mt.c`) | positions of worker and caller, current data buffer | worker: read (or decompress) ahead; caller: `read`; close | modelled |
| `houtput_mt_t` (`mt/_houtput_mt.c`) | positions, current output buffer | worker: write behind; caller: `write`; close | modelled |
| `hcache_old_mt_t` (`mt/_hcache_old_mt.c`) | posted covers, covers left, current data buffer | worker: decode covers, read the old data ahead; patcher: `onStepCovers`, `onStepCoversReset`, `read`; close | modelled |
| manager and multi-thread patch (`mt/hpatch_mt.c`, `libHDiffPatch/HPatch/patch.c`) | which components are open; the patcher's caches | open, patch step by step, close | open, patch and close modelled; the choice of components and the cut of the memory are not yet |
| single-thread patch streams (`HPatch/patch.c`) | clips over the diff, run length decoder, cached old data, output cache | open the clips, read covers, add old data and sub diff, load old data beforehand, copy within the output | uncompressed format modelled; the compressed one, rle0 and single stream only as `HPatchMT` uses them |
| diff serialisation (`HDiff/diff.cpp`) | | `serialize_diff`, `bytesRLE_save`, `serialize_lite_diff` with its `extraSafeSize` | modelled as what the patches above read; `TStepStream` is planned |
| libParallel channel, `TMtByChannel` (`libParallel/parallel_channel.*`) | queue, waiters, closed flag; error flag, count of started threads | send, accept, close; on_error, start_threads, thread_end, wait_all_thread_end | unbounded channel and pool modelled, bounded and rendezvous channels planned |
| `compress_parallel` (`compress_parallel.cpp`) | next block to read, next to write, dictionary, list of finished blocks | each thread: accept a buffer, read, compress, write what is due, send buffers back | modelled |
| HPatchLite (`libHDiffPatch/HPatchLite/`) | old data that becomes the new data in place, ring of withheld output, page, input cache | read a cover, copy, add, flush | in-place patch modelled; header and search for in-place covers not |
| directory patch (`dirDiffPatch/dir_patch/`, `hpatchz.c`) | old and temporary directory, current new file, checksums; open handles with their last use | load, open old, patch, copy same files, finish; move, delete, make, rename; read the joined stream | patch, both ways to finish and the handle limit modelled; head parsing and execute flags not |
| directory diff (`dirDiffPatch/dir_diff/`) | | which files are taken as the same, which are diffed (`getRefList`) | only that |
| `FPPatchManager` (`UEPlugins/PPakPatcher`) | per file: its content, `.new` and `.bak`; patch directory, manifest | CreatePatch, ApplyPatch (patch, verify, rename, roll back, delete, add), CRC check | modelled but for the manifest's text |
| `FPPakPatcherTaskRunner` (same) | slots in use, event, futures | Submit (run at once, or wait for a slot), task end, Wait | modelled |
| pak and IoStore patchers (same) | | | not modelled, see section 8 |
| hsync (`libhsync/`) | | | planned |
| diff search, wrappers (bsdiff, vcdiff, zsync), plugins, file layer, command line, library facade, libdivsufsort | | | not modelled, see section 8 |

`PROJECT.json` lists every component with its files, and under `hazards` the
places where the code is hard to test.

**How they interact.** `_patch_single_compressed_diff_mt` asks the manager to
open some of the four components; each replaces a stream of the patch:

```
 compressed diff --> "diff" --> "dec" --> main thread (patch_single_stream_diff) --> "new" --> output
                    read ahead  decompress   |   ^
                                ahead        |   | read()          (old data, in the order of the covers)
                              onStepCovers() v   |
                                            "old" <-- old data
```

Every component has one worker thread. Its only other user is one caller
thread: the main thread, or the worker of "dec" for "diff". All of them share
one `hpatch_mt_t`.

`parallel_compress_blocks` stands apart: its threads share work buffers through
`work_chan`, take blocks under `readLocker` and write them under `writeLocker`.

`FPPatchManager` hands one task per chunk to its `FPPakPatcherTaskRunner`, waits
for all of them and then reads their results; what the tasks share is the runner's
slot count and the file system. `hpatch_dir` drives the directory patcher, which
calls the stream patch with a joined stream of the old files as input and one of
the new files as output, and then, in place, a listener that replaces the old
directory. HPatchLite stands alone.

**What is hard here**, and the property that makes each component correct:

* One condition variable serves producer and consumer and is *signalled*. No
  one may sleep while what it waits for is there, and both may never sleep
  (`...NoSleepOverWork`).
* Two buffers go round between two threads and must not be lost or shared, on
  no error path (`...BufsOwnedOnce`).
* The caller of an input must see exactly the base stream, however reads and
  buffers cut it (`InputIsByteStream`); the base stream of
  an output must get exactly what was written (`OutputIsByteSink`), and a close
  that reports success must mean that everything is there (`OutputCloseSound`,
  `TrueMeansWritten`).
* The worker of "old" decodes covers in the patcher's memory without a lock,
  and `read()` ignores the position: the two threads have to stay in step by
  protocol alone (`StepMemStable`, `OldBytesAreTheCovers`, `PostFindsCacheEmpty`,
  `ListenerHearsSteps`).
* An error or the end must reach every thread, and the memory may be freed only
  after all of them have left (`FreedAfterThreads`,
  `NoThreadAfterReturn`, and the liveness properties).
* In the compressor no one says that all is done: a thread leaves with a buffer
  with which it found no block, so the buffers alone must bring every thread to
  its end (`CompressReturns`). Blocks finish in any order and are written in
  order by whoever comes (`CompressWritesInOrder`), with a dictionary made of
  blocks that other threads read (`CompressDictIsDataBefore`); an error clears
  the channel under threads that use it, and only an error may lose a buffer
  that others would wait for (`CompressBufsOwnedOnce`,
  `CompressQuietAtReturn`).
* The three files of a chunk are replaced by up to nine renames and deletes, any of
  which may fail or be the last thing the process does: a chunk must be replaced
  whole or not at all (`ChunkAllOrNothing`), no file may be left without a version
  that a user could go on with (`NoVersionLost`), success must mean what the CRC
  check will confirm (`TrueMeansVerified`), and the tasks must keep to their slots
  and end (`RunnerBounded`, `PatchReturns`).
* In place, HPatchLite overwrites the bytes that later covers read. The size by
  which the output must lag behind is computed by the diff side; one byte too few
  shows only for some covers (`LiteInplaceWorks`).
* A directory patched in place loses its old files before the new ones are in
  their place: nothing may be touched until all new data is written and checked
  (`DirErrorKeepsOld`), no new file may exist nowhere (`DirNewNeverLost`), and
  success must mean the whole new tree and nothing else (`DirTrueMeansNew`).
* The old files are closed and opened again behind the patch's back, and a read
  starts its search at the file of the read before (`OldReadsJoined`,
  `OldHandlesBounded`).
* The stream patch reads six parts of a diff through caches of a few bytes, and
  reads the old data of short covers beforehand in one pass with jumps over gaps
  and covers that overlap (`StreamPatchWorks`, `StreamCacheLoaded`).
* A copy from the output itself may lie in the stream, in the cache, in both, and
  overlap its target (`OutCacheRepeats`).

## 2. Modules and the code

| Module | Models | Uses |
|---|---|---|
| `MTBase` | `hpatch_mt_t`, `hpatch_mt_base_t`, `hpatch_TWorkBuf` lists, the condition variable | |
| `MTReader` | the macro `_DEF_hinput_mt_base_read` | `MTBase` |
| `HInputMT` | `hinput_mt_t` and, alone, its caller and closer | `MTReader` |
| `HOutputMT` | `houtput_mt_t` and, alone, its caller and closer | `MTBase` |
| `HCacheOldMT` | `hcache_old_mt_t` | `MTReader` |
| `HPatchMT` | manager, main thread and any subset of the components together | the three above |
| `CompressParallel` | `parallel_compress_blocks`, `TMtByChannel`, the unbounded channel | |
| `PTaskRunner` | `FPPakPatcherTaskRunner` | |
| `PPatchManager` | CreatePatch, ApplyPatch, the CRC check, crashes and repeated calls | `PTaskRunner` |
| `HPatchLite` | `serialize_lite_diff`, `hpatchi_inplaceB`, `hpatch_lite_patch` | |
| `DirPatch` | `getRefList` of the diff; `hpatch_dir`, the directory patcher, the listeners of both modes | |
| `DirOldStream` | `hpatch_TRefStream`, `hpatch_TResHandleLimit` | |
| `OutStreamCache` | `_TOutStreamCache` | |
| `HPatchStream` | `serialize_diff`, `patch_stream_with_cache` and the cached covers | `OutStreamCache` |
| `ByteStream`, `ByteSink` | what a sequential input and output promise | |
| `MC_HInputMT`, `MC_HOutputMT`, `MC_HPatchMT`, `MC_PPatchManager` | the instances TLC checks | |
| `MC_Sequential` | one instance that runs one of the five single-thread machines (`unit` says which) | `HPatchLite`, `DirPatch`, `DirOldStream`, `HPatchStream` |
| `Bytes` | runs of bytes and lists without repeats, used by the thread modules | |
| `HInputMT_proofs`, `HOutputMT_proofs`, `CompressParallel_proofs`, `PPatchManager_proofs` | theorems about the module they are named after | that module |
| `HPatchMT_proofs` | theorems about `HPatchMT` with `HCacheOldMT` | `HPatchMT` |
| `Sequential_proofs` | theorems about `DirPatch`, `DirOldStream` and `OutStreamCache` | these three |
| `Bytes_proofs`, `MTBase_proofs` | lemmas that the theorems share | |

**State.** Each variable has the name of the field it models and is a function
of the component (`freeBufList["diff"]`). Program counters (`pc` worker, `rpc`
caller in `read()`, `wpc` caller in `write()`, `mpc` main thread) and the
locals that live across a lock (`wbuf`, `tErr`, `left`, `rErr`, ...) are
variables as well. A byte is represented by its position in its stream, so a
buffer's content *is* the evidence of which bytes went where: lost, repeated
and reordered bytes are all visible.

**Grain of atomicity.** A critical section of a locker is one action. Between
two of them a thread's reads of shared flags and its calls are actions of their
own; the tests of `isOnFinish` and `isOnError`, which the code makes under a
different locker, are therefore separate from the wait that follows. A wait on
a condition variable is three steps: enter `waiters`, be removed from it by a
signal, a broadcast or spuriously, and go on.

**Actions.** One per step of the thread functions, named after what it does;
the map in `PROJECT.json` gives its lines. For example `hinput_thread_` is
`InputLoop`, `InputGetBuf` / `InputWaitBuf` / `InputWakeBuf`
(`hpatch_mt_base_onceWaitABuf_`), `InputReadAData`, `InputReadDone`,
`InputPush`, `InputError`, `InputEnd`.

In `CompressParallel` the critical section of `readLocker` is one action, and
that of `writeLocker` is several because it calls the channel, so its owner is a
variable. `on_error` is four steps (test, store, close, clear one buffer at a
time), as nothing keeps other threads out between them; it runs inside the
locker from which it is called, and the `break` after it releases that locker.

**What is abstracted.** In `CompressParallel` a block's code stands as the data
it was made from. The pool's last index runs in the main thread: `Main` is that
thread before and after its turn as a worker. In `HPatchMT` the diff is a sequence of steps, a step a
sequence of covers `[gap, oldPos, length]`; its bytes are one byte of step
info, one byte of covers and rle data and the new bytes of the gaps. Values of
bytes, rle codes and packed integers are left out: a cover or an integer that
cannot be decoded is a failing call. The plugin's `decompress_part` is external:
it takes any number of compressed bytes in any portions, may fail, and has taken
all of them when it has delivered the last byte. Failing streams, memory and
threads are nondeterministic when `Fails` holds.

In `PPatchManager` the content of a file is a version: absent, the old release's,
the new release's, or neither. A hash or CRC is the content it is made from. Each
file operation is one action and may fail; the number of failures is bounded. A
crash stops every thread and leaves a file that is being written with neither
content; the next call starts from the files alone. The engine's thread pool,
auto-reset event, futures and file system are external. What a patch file does is
modelled by which file it checks and which it yields.

In `DirPatch` a path is an absent node, a directory or a file with a few bytes;
a checksum is the data it is made of. The stream patch of the new data writes one
file at a time and is exact when the old data is what the diff was made for, and
garbage where it is not. The user may have files of their own in the directory and
one old file may have changed. `DirOldStream` is the detail of how the old data is
read.

In `HPatchLite` and `HPatchStream` old bytes are distinct values, new bytes are
what the covers make them, and the diff is the sequence of numbers that the
serialiser writes and the patch parses. A packed integer is one byte, as all sizes
are below 32. `kMaxBytesRleLen`, `kAccessPageSize` and `kMinSpaceLen` are constants
of the model, scaled down so that runs are cut and gaps are jumped at these sizes.

**Fault operators.** An operator introduced by a comment `Fault:` in front of a
definition is that definition with a plausible mistake. Nothing uses them in
the specification; they are there to see that each property notices the mistake
(`mutants` in `PROJECT.json`).

## 3. Runs

Bounds are given with each run. Two work buffers are the code's own number
(`kObjNodeCount`). `WorkBufSize = 2` with streams of 5 bytes gives a full, a
second full and a partly filled last buffer, and with calls of up to 3 bytes
reads and writes that end within a buffer, at its end and in the next one. The
buffers wrap round (three fills of two buffers).

| Run | Question | Instance |
|---|---|---|
| `HInput` | Is `hinput_mt_t` a correct sequential stream, whatever fails and whoever wakes up? Do reads, a finishing close and the release after its own error always return? | one component, 5 bytes, failures, wrong calls, errors of others, spurious wakeups, fairness |
| `HInput_hang` | *violation*: does every close return? | the same without spurious wakeups |
| `HOutput` | Does the base stream get every byte once and in order, is the result of the close sound? Do writes return, does the close drain? | one component, 5 bytes, failures, spurious wakeups, fairness |
| `HPatch_oldnew` | Do patcher, "old" and "new" stay in step, for valid diffs and for an invalid one, whatever fails? | two steps; a buffer with data of two covers, a cover over two buffers, an empty last cover, after another one or alone in the last step; a cover beyond the old data |
| `HPatch_decdiff` | Are all threads accounted for when opening, reading or decompressing fails? | "dec" calling "diff", one step, 3 compressed bytes |
| `HPatch_all` | Does a patch with five threads always end with success when nothing fails? | all four components, one step, no failures, fairness |
| `Compress_pool` | Are blocks compressed with the right dictionary and written in order, and does the function always return with all threads gone, whatever fails? | 2 threads, 3 buffers, 4 blocks of 2 bytes (the last of 1), a dictionary of 3 bytes so that it spans two blocks, all failures, spurious wakeups, fairness |
| `PPatch_apply` | Is a release patched all or not at all, chunk by chunk, is success what the check confirms, and does each call return? | 2 chunks that are equal, modified with and without companions, added, deleted or renamed; `PatchTaskThreadNum` 0 (synchronous), 1 and 2; both kinds of `PakPatchMode`; 2 failing file operations, 1 crash, 2 calls; and, without failures, 4 modified chunks, so that one signal of a free slot stands for two ends while two tasks wait; fairness |
| `Sequential` | Do the single-thread parts do what they promise on all their small inputs? | below |
| `HPatch_oldstuck`, `HPatch_decopen`, `PPatch_companion` | *violations*, see section 6 | |

`Sequential` runs, each over all of its inputs:

* *lite*: 3 old and 4 new bytes, every list of up to two covers, no page and pages
  of 2, the least cache and 3 bytes more, whole diffs and diffs that lack a byte.
  Covers that read ahead of, at and behind the output occur, and the ring wraps.
* *dir*: 8 releases over 5 paths (files edited, emptied, copied, exchanged, renamed;
  directory to file and back; files of the user in the way), both modes, three sets
  of checksums, an old file that changed or not, 2 failing operations. Two failures
  reach a roll back that fails as well.
* *old*: two lists of 4 files, one with an empty file, limits 2 and 4, 3 reads at any position, 1 failure. With limit 2 each list
  makes the limiter close a file that a later read wants again.
* *stream*: 12 old and 5 new bytes; all sub diffs over {0, 255, 9} for covers at
  both ends and in between, clips of 1 to 3 bytes, whole and cut diffs; and all
  placements of three covers of mixed lengths with 1 to 5 bytes for old data.
* *out*: caches of 1 to 3 bytes, all sequences of writes, fills and copies up to 7
  bytes, so that a copy crosses the end of the cache more than once.

`MaxPos` stands for `~(hpatch_StreamPos_t)0`, the initial `leaveCoverCount`,
and only has to be larger than any number of covers. `HasReset` says whether
"old" listens to `onStepCoversReset` (debug builds, or a next listener that
wants it); both values are used. `BufSymmetry` is used where only invariants
are checked: `freeLists` lets the initial order of the buffers be any
permutation, so the specification is symmetric in them.

Deadlock checking is off in runs in which streams fail: there the system may
really stop, which is what section 6 reports and what the liveness properties
distinguish (they speak of runs that are not on error, or of a component's own
error). It is also off in runs whose callers may just stop calling, and in runs
that end when a function has returned: there `PatchSucceeds`, `CompressReturns`
and `PatchReturns` show that nothing stops earlier, and the machines of
`Sequential` state their properties at their end. Two threads already give
the compressor every sleep: with three buffers a thread that runs ahead of a
slow one finds none left.

**Refinement.** `InputIsByteStream` maps `hinput_mt_t` to `ByteStream` (the
bytes handed out by the call, what it still wants, and the position that
follows from `curOutedPos`, which the code advances before it copies).
`OutputIsByteSink` maps `houtput_mt_t` to `ByteSink`. Both are checked by the runs
and proved (section 5).

## 4. Fairness

Weak fairness of each thread: of each worker's next step and of the main
thread's next step, one conjunct per thread, in the compressor as in the
patcher. The code's threads are operating
system threads with lockers that are never held while waiting for anything but
the condition variable itself, so a thread that can go on eventually does. No
fairness is assumed of spurious wakeups, of failures or of errors of other
components; nothing relies on them happening. Which of two waiting threads
`c_condvar_signal` wakes is left open. In the compressor a thread that waits for
`readLocker` or `writeLocker` gets it at the latest when the others wait or have
left, as the number of blocks is finite; no fairness of the lockers is needed.

In `PPatchManager` the calling thread and each task of the pool are weakly fair:
a task that was queued is started by the engine as soon as a pool thread is free,
and no task waits for another one. Nobody has to call ApplyPatch again, and crashes
and failures are never required.

## 5. Proofs

The theorems hold for every value of the constants that satisfies the named
assumptions of the modules: any number of components, buffers, threads, blocks,
chunks and files, any sizes, all failures, crashes and spurious wakeups of the
models. Their lemmas are in the modules below; each states what it needs.

| Module | Theorem | States |
|---|---|---|
| `HInputMT_proofs` | `InputTypeCorrect` | `InputSpec => []InputTypeOK` |
| | `InputFreedAfterThreads` | `InputSpec => []FreedAfterThreads` |
| | `InputBuffersOwned` | `InputSpec => []InputBufsOwnedOnce` |
| | `InputSleepSafe` | `InputSpec => []InputNoSleepOverWork` |
| | `InputImplementsByteStream` | `InputSpec => InputIsByteStream` |
| `HOutputMT_proofs` | `OutputBuffersOwned` | `OutputSpec => []OutputBufsOwnedOnce` |
| | `OutputSleepSafe` | `OutputSpec => []OutputNoSleepOverWork` |
| | `OutputFreedAfterThreads` | `OutputSpec => []FreedAfterThreads` |
| | `OutputCloseIsSound` | `OutputSpec => []OutputCloseSound` |
| | `OutputImplementsByteSink` | `OutputSpec => OutputIsByteSink` |
| `CompressParallel_proofs` | `CompressOwnsBuffers` | `Spec => []CompressBufsOwnedOnce` |
| | `CompressReturnsQuiet` | `Spec => []CompressQuietAtReturn` |
| | `CompressDictionaries` | `Spec => []CompressDictIsDataBefore` |
| | `CompressWrites` | `Spec => []CompressWritesInOrder` |
| `PPatchManager_proofs` | `RunnerIsBounded` | `Spec => []RunnerBounded` |
| | `VersionsAreKept` | `Spec => []NoVersionLost` |
| | `ChunksAreWhole` | `Spec => []ChunkAllOrNothing` |
| | `TrueIsVerified` | `CompanionsStay` implies `Spec => []TrueMeansVerified` |
| `HPatchMT_proofs` | `PatchReturnsAlone` | `PatchSpec /\ [][DecoderOpens]_patchVars => []NoThreadAfterReturn` |
| | `CacheSleepSound` | `PatchSpec => []CacheNoSleepOverWork` |
| | `PostFindsEmpty` | `PatchSpec => []PostFindsCacheEmpty` |
| | `StepMemSound` | `PatchSpec => []StepMemStable` |
| | `OldBytesSound` | `PatchSpec => []OldBytesAreTheCovers` |
| | `ListenerSound` | `PatchSpec => []ListenerHearsSteps` |
| `Sequential_proofs` | `ErrorsKeepOld` | `DirSpec => []DirErrorKeepsOld` |
| | `HandlesAreBounded` | `OldSpec => []OldHandlesBounded` |
| | `ReadsAreJoined` | `OldSpec => []OldReadsJoined` |
| | `CacheRepeats` | `OutSpec => []OutCacheRepeats` |

`Bytes_proofs` holds the lemmas about runs of bytes, lists of buffers and sums, and
`MTBase_proofs` those about the thread counter and the lists of
`hpatch_mt_base_t`, that the others share.

**`hinput_mt_t`.** *Types.* `InputTypeOK` is not inductive: `runningThreads - 1`
is a natural number only if the thread that ends is counted, and filling or
pushing a buffer is well typed only if the worker holds one. `TypeInv` adds
`ThreadCount` (the counter is the cardinality of the set of threads that have not
ended) and `HoldsBuf` (in the phases in which a thread touches its buffer it has
one). *Freeing.* `ThreadCount` and "the closer has ended only with the counter at
zero" give `FreedAfterThreads`: the set of live threads is finite, so it is empty
when its cardinality is zero. *Ownership and sleep.* `IInv` is `TypeInv` and, for
each component, `CompInv`: the phases in which worker and caller hold a buffer, the
ownership of the buffers, and the sleep condition strengthened by where a sleeping
thread is. They are proved together because they need each other. That a signal
reaches the right thread rests on the two never sleeping at once; that rests on
some buffer being in a list whenever neither holds one; that is ownership; and
ownership is preserved by a push only because of the phases. *Refinement.*
`FlowInv` adds `DataInv`: the caller's rest, the data list and the worker's buffer
are, in this order, consecutive runs of the stream that end at `curReadPos`. With
it each step of `ReadCopy` is a step of `ByteStream`, and all others stutter.

**`houtput_mt_t`.** The same invariant for a worker that takes the whole data list
at once, so that ownership speaks of its chain as well. The
flow of the bytes runs the other way: what the base stream has, the worker's chain,
the data list and the caller's buffer are consecutive runs up to what `write()`
accepted. `OutputCloseSound` follows from it at the end of the worker: its loop is
left without an error only when the last byte went out.

**The multi-thread patcher and `hcache_old_mt_t`.** `NoThreadAfterReturn` is
`ThreadsInv`: the counter of `hpatch_mt_t` is the number of live workers of all
components, each step of each component changes it by what that worker does, and
the closer passes its wait only at zero. The hypothesis `DecoderOpens` is about one
step: the patch function does not return from the opening of its own decompressor.
That is what finding 3 violates; every other failure, also of the components'
decompressor, is among the behaviours of the theorem.

The other five theorems share `PatchInv`, of which `OldInv` is the part about the old
cache. Each of the many steps of the whole system is first reduced to what it does to
that cache (`NextIsOld`: a step of its worker, of the patcher in it, of the patcher
outside of it, or of others, who can only set errors); each conjunct then has one
lemma for these kinds of steps. `SyncInv` relates the three counters of steps:
the one posted, the one the worker is at and the one the patcher is at; the worker is
behind by one step exactly from the post until it takes the covers (`Untaken`), and in
that time the patcher has used nothing of them. The end of the diff may come while the
worker is behind, if the last step reads no old data (`Missed`): then it never takes
that step and all the data there was is used up. `DataInv` follows the bytes: `taken` and `made`
say how many bytes of the covers of the step have reached the patcher and have left the
decoder, and the patcher's buffer, the data list and the worker's buffer hold, in this
order and without gap, the bytes between them. `PostFindsCacheEmpty` follows: when
the patcher is through with a step it has taken all its bytes, so the worker has made
them all, and nothing is left in between (`PassedReads`). `OldBytesAreTheCovers` follows because what
was read of a cover is the run of its bytes at that position (`ReadInv`). That nobody
sleeps over work (`SleepInv`) needs that the two never both wait (`NotBothSleep`):
if both waited for buffers none would have an owner, against `OwnInv`; if the worker
waited for covers and the patcher for data, all bytes of the step would have been
made and none would be on their way, so by `DataInv` the patcher would have them.
`StepMemStable` is `MemInv`, which rests on `SyncInv`: the memory is overwritten only
when the worker has decoded the last cover in it. `HeardInv` ties what the listener
has heard to the step of the worker.

The theorems have no hypothesis about the diff but the assumption of `HCacheOldMT`
that each step has a cover: the serialiser
(`libHDiffPatch/HDiff/private_diff/limit_mem_diff/stream_serialize.cpp:578-690`) flushes
no step without one. An empty cover that is not the last one makes the patch fail
(`coverOK`). A last step with the empty cover only is the first observation
of section 6; `PostFindsCacheEmpty` and `ListenerHearsSteps` except the end after such
a step, and only that. No bound is put on buffers, steps or covers; failures, wrong
diffs and spurious wakeups are included, and so are all sets of other components.

**`parallel_compress_blocks`.** That a buffer has at most one owner is inductive with
the types and the phases (`TypeOK`, `Phases`): a clear of the channel drops buffers and
never duplicates one. That it has one at all until there is an error or the result
(`KeptInv`) needs that a thread comes to `accept` and to the list of finished blocks
without a buffer, and that the channel is closed or cleared only after `on_error` set
its flag, or by the destructor (`ErrorInv`, `PoolInv`). The quiet return needs `PoolInv`: the pool's channel and
`threadOn` count the threads that have not said their end. The dictionary needs
`DataInv`: under `readLocker`, `inPos` and the dictionary kept for the next block
belong to the index of that block. The order of the writes needs the whole `IInv`:
the list of finished blocks is sorted (`Sorted`), only the holder of `writeLocker`
is between its two halves (`LockInv`), every block that was read and not written
is in exactly one place unless somebody is on error (`WholeInv`, `ErrorInv`), and
the size is returned only after the last block (`ResultInv`).

**`FPPatchManager`.** `RunnerBounded`: `RunningCount` is the number of tasks that
hold a slot, and outside of a call none does (`SlotInv`, `CallInv`).
`NoVersionLost`: for each chunk `FileInv` says, phase by phase of the replacement,
which files are still old, which are backed up and which are new (`Safe`, `Ready`,
`Replaced`), and `FilesOK` that contents are those of the two releases.
`ChunkAllOrNothing`: `CalmInv` is the part of it that holds while at most one
operation has failed: a roll back then meets no further failure. `TrueMeansVerified`:
`TrueInv` ties the result of each finished task to its files. It is proved under
`CompanionsStay`, that the `.utoc` and `.ucas` of a chunk come and go only with its
`.pak`: without it the theorem is false, as finding 4 shows, and the releases of
`PPatch_apply` satisfy it. Attempting this proof showed that two conjuncts of
`ManagerAssumption` were parsed as one weaker formula; they are stated properly now.

**Directory patch.** `DirErrorKeepsOld` is inductive once it is added that
`hpatch_dir` comes to the loops that take the old directory apart only with
`patchOk`, and that writes go to the directory they name. `OldHandlesBounded` needs
that the limiter knows exactly the open files and that `closeOneHandle` finds
exactly one file when some is open: the least of a set ordered by last read and
index, which exists as sets of naturals have least elements. That the file at work
is one of the list rests on the ranges: a read ends at the end of the last one at
the latest. `OldReadsJoined` is that invariant and "what was read so far is the
joined data from `readBegin` to `readFromPos`". What `_createRange` computes
(`RangeEnds`, `RangesGrow`) and what the joined data is (`FlattenSteps`,
`JoinedBytes`) are proved by induction over the list of files: `LeastNat` gives the
least length for which a claim fails, and there is none.

**Output cache.** `OutCacheRepeats` speaks of the idle cache only. `OutInv` says of
every round that the stream and the used part of the cache are the first bytes
wanted (`HeldIsWanted`), that each byte a copy has still to put out is the one
wanted `outAhead` before it (`CopyIsWanted`), and where the source of each branch of
`_TOutStreamCache_copyFromSelf` is (`SourceIsThere`): read from the stream it never
reaches the bytes still in the cache, because it ends in the stream or `outAhead` is
more than the cache holds; copied in memory it lies in the cache, also after each
flush, because the last `outAhead` bytes are carried to the front; and when the part
from the stream has filled the cache, `outAhead` is its size, so that the memory
already holds what comes next. What an overlapping copy means is the recursive
function `repeated`; that it is defined and unique is again shown with `LeastNat`.

**Only model-checked.**

* Liveness and everything under fairness: out of the prover's reach.
* `TrueMeansWritten` of `HPatchMT`: it speaks of the results of all closes and of the
  bytes of all components at once, so it needs the flow invariants of `HInputMT` and
  `HOutputMT` again, inside the composition. Not attempted.
* `DirTrueMeansNew` and `DirNewNeverLost`: they compare whole trees through the
  loops of the replacement, and checksums through folds over the diff.
* `LiteInplaceWorks`, `StreamPatchWorks`, `StreamCacheLoaded`: what the serialiser
  writes and the patch parses is defined by folds over the covers, with operators as
  parameters, which the provers cannot unfold.

## 6. Findings

Four runs show a disagreement between the code and what a comment or an assert
of it says; the quotations are in `PROJECT.json`.

1. `HInput_hang`: `hpatch_mt_t` broadcasts an error or a finish while holding its
   own locker only. A thread that has seen no error and has not yet reached its
   wait misses the broadcast, sleeps for ever, and the close waits for it. The
   same window makes a patch with an invalid diff hang when "new" is open: its
   writer tests the flags, the close finishes, the writer waits.
2. `HPatch_oldstuck`: the buffer loop of "old" looks at the error of its own
   component only. Woken by the broadcast of an error elsewhere it waits again.
3. `HPatch_decopen`: if the main thread's own decompressor cannot be opened, the
   patch function returns without closing the manager; workers go on in memory
   the caller frees.
4. `PPatch_companion`: ApplyPatch acts on the type of the whole chunk. When the new
   release keeps a `.pak` and drops its `.utoc` and `.ucas`, the chunk is a Delete
   and the unchanged `.pak` is deleted with it, with result true. Likewise a
   companion that is added to a modified chunk is written as `.new` and never
   installed.

Observations made while modelling, without a run of their own; where a property
is restricted because of one of them, it is named.

* After a last step that holds the empty cover only, the end of the diff is posted
  over a step that the worker of "old" has not taken, and the assert at
  `mt/_hcache_old_mt.c:149` fails: nothing but reads of old data makes the patcher
  wait. The worker, and a listener behind it, may then miss this step; the data of
  the patch is not affected. `HPatch_oldnew` includes such a diff, and
  `PostFindsCacheEmpty` and `ListenerHearsSteps` except exactly this case.
* In Binary mode the companions of a pak are patched without a check of the old
  file, so a second call may patch a file that is already new; so are all files when
  the hash check is off (`Unchecked`). `firstOrChecked` restricts the properties of
  `PPatchManager` to the first call in these modes.
* A chunk whose pak is renamed between the releases cannot be patched: the
  properties leave these chunks out.
* In the PakAware modes a release that was patched in part is never completed by a
  second call, as the finished chunks fail the check of their old file. A crash
  between two renames leaves a chunk of old and new files that a second call does
  not repair; only `NoVersionLost` holds then.
* DoDelete and the copies of companions ignore their errors; an Equal pak in a
  modified chunk leaves a `.pak.new` behind; a CRC of 0 in the manifest means that
  the file is not checked; a second `Wait()` of the runner returns true.
* `hpatch_dir` calls the finish of the patcher also when the patcher could not be
  set up (`hpatchz.c:1555`).
* After a failed close, or an old file whose size changed, the count of open
  handles differs from the open files and the assert at
  `dirDiffPatch/dir_patch/res_handle_limit.c:137` fails; `OldHandlesBounded` speaks
  of the count only while nothing failed.
* The reader of cached old data would not pass a cover of length 0; the serialisers
  assert that there is none.

## 7. Plan

Done: the base protocol, input, output, old cache and the whole multi-thread
patcher with the first theorems; the parallel compressor; the plugin's patch
manager and task runner; the in-place lite patch, the directory patch, the joined
old stream, the uncompressed stream patch and the output cache; theorems about all of
these but the formats.

Next, in this order:

1. `MTSets`: `_hpatch_getMTSets`, the distribution of threads and the cut of the
   temp cache into objects, work buffers and step memory, as operators with a
   reference definition (disjoint, aligned, within the cache, refused if too
   small; the decision whether old data is cached made the same way twice).
2. The rest of the stream algorithms of `patch.c`: the rle0 decoder, packed
   integers with their overflow, the compressed format, `TDiffToSingleStream`.
   These take out the abstraction of the diff's bytes in `HPatchMT`.
3. `TStepStream`: which steps the serialiser can write, closing the gap to the
   diffs that `HPatchMT` takes as given.
4. hsync: the block matching, the client that takes a block from the old file, the
   diff or the network, and its users of `TMtByChannel` (`sync_make.cpp`,
   `match_in_old.cpp`).
5. The rest of libParallel's channel (bounded, rendezvous, the destructor's wait
   for its waiters).

Theorems worth proving next: `TrueMeansWritten` of the whole multi-thread patcher, for
which the invariants of `HInputMT` and `HOutputMT` have to be carried over to steps of
the composition as those of the old cache are; `DirNewNeverLost`.

## 8. Not modelled

The models cover a small share of the repository's lines. Most of the rest are
parsers and writers of formats (vcdiff, bsdiff, zsync, Unreal's containers), adapters
to compression libraries, search heuristics, option parsing and tests: pure code
whose mistakes are wrong bytes, not wrong orders of steps. A model of them would
restate them line by line.

* The diff side's search (suffix strings, digest matching) is heuristic and pure;
  any cover set it finds is correct if the patch is. libdivsufsort is vendored.
* Compression, decompression and checksum plugins adapt external libraries.
* The wrappers of the bsdiff, vcdiff and zsync formats, the command line tools,
  the library facade and the file layer are format and I/O code over the parts
  above.
* The pak and IoStore patchers read and write container formats that belong to the
  Unreal Engine. `PPatchManager` takes from them which hashes they check and which
  files they yield. Parsing and saving of the plugin's manifests, and its editor
  commands, are left out.
* hsync is planned, not done.
* In the directory patch: execute flags and the parsing of the head.
* Behaviour of a diff whose 64-bit sizes overflow when added (`patch.c:2483`): the
  models use small numbers.
* A device that loses power in an in-place lite patch holds neither version; the code
  keeps no record to resume from. To overwrite a single file `hpatchz.c:766` removes
  the old file and renames the new one, which is complete at that time.
* The close of a multi-thread input demands that every compressed byte was asked for
  (`mt/_hinput_mt.c:148`); whether a plugin reads to the last byte is external.
* Whether the listener behind the old cache hears the final empty step when
  `isOnFinish` is seen first (`mt/_hcache_old_mt.c:96`): its contract is not stated.
* The bodies of lockers and condition variables (`parallel_import_c.c`) are taken
  to be those of POSIX, spurious wakeups included.
* The unlocked write of `condvarList` in `hpatch_mt_registeCondvar` next to a
  broadcast is a data race on a pointer; a thread cannot wait before it is
  registered, so the model lets a broadcast reach every component.

## 9. Running it

```
tlc -config HInput.cfg MC_HInputMT            # and so on: the module and cfg of each run
tlapm HInputMT_proofs.tla                     # likewise Bytes_proofs, MTBase_proofs, HOutputMT_proofs,
                                              # CompressParallel_proofs, PPatchManager_proofs, Sequential_proofs,
                                              # HPatchMT_proofs
```
