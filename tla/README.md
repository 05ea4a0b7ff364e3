# Verification of overlaybd

TLA+ models of overlaybd, model-checked with TLC on small instances and, for the core of the
storage engine, proved with TLAPS for every instance. Paths below are relative to the source
directory of the repository (`src/src/` in `PROJECT.json`).

## 1. The system and its parts

overlaybd serves a container or VM image as a block device. An image is a stack of layers in
the LSMT format. Each layer is a data file and an index that maps segments of the logical
address space to places in a data file. Lower layers are sealed (local files, or remote blobs
read on demand and downloaded in the background); the upper one, if any, is writable. A
frontend (TCMU, or ublk) turns the kernel's requests into reads and writes of that file.

| part | source | state | operations | what is hard | modules |
|---|---|---|---|---|---|
| segment index | `overlaybd/lsmt/index.{h,cpp}` | sets and arrays of mappings, search tree, tags | insert, lookup, walk, merge, compress, commit | cuts and splits, tag renumbering, tree layout, key width | `Segments`, `Index0`, `IndexOps`, `LBPTree`, `ComboIndex`; abstract: `BlockMap` |
| writable file | `overlaybd/lsmt/file.{h,cpp}` | data and index files, two locks, group-commit buffer | pwrite (append, hybrid), discard, pread, fsync, restack | interleaving at every wait, failed writes, locks | `LSMTFile`; abstract: `BlockDevice` |
| open and recovery | `overlaybd/lsmt/file.cpp`, `image_file.cpp` | files on disk and in the page cache, config | load, verify, merge, stack | crashes between any two steps, power cuts | `LSMTRecovery` |
| live snapshot | `image_file.cpp` | stack in memory, config on disk | create_snapshot | config and stack disagree for a while | `LSMTFile`, `LSMTRecovery` |
| ublk device manager | `ublk/ublkd_main.cpp` | tables of devices, shared devices, warm pool, slots | add, del, acquire, release, resize | coroutines that interleave at waits, partial failure | `Ublkd` |
| ublk device | `ublk/ublk_device.cpp` | kernel device, flock, queue thread | start, stop, teardown, resize, swap_image | handshake of two threads | steps of `Ublkd`; the handshake: not yet |
| ublk I/O and CLI | `ublk/` | none of its own | dispatch | - | not modelled |
| TCMU frontend | `main.cpp` | in-flight count, wakeup counter | open, close, handle, complete | lost notifications, close against completions | not yet |
| image service | `image_service.cpp`, `image_file.cpp` | image files by device id, configuration | open, close, lookup | lifetime across waits | not yet |
| API server | `api_server.cpp` | request parameters | snapshot request | - | not modelled |
| background download, switch file | `bk_download.cpp`, `switch_file.cpp` | queue, temporary file, current file | download, verify, rename, switch | resume after a crash, switch under reads | not yet |
| prefetcher | `prefetch.cpp` | trace, lock file, worker threads | record, replay, stop | two ways to stop | not yet |
| ZFile | `overlaybd/zfile/` | jump table, block cache, builder threads | read, build | packed offsets, retries, order of blocks | not yet |
| registry file system, gzip and zstd, tar and erofs import, stream convertor, metrics, tools | `overlaybd/registryfs/`, `overlaybd/gzip/`, `overlaybd/tar/`, `tools/`, ... | sequential, or network I/O | - | - | not modelled |

How they interact: a frontend calls an `ImageFile`, which calls the `LSMTFile` of its stack;
`LSMTFile` uses one index for the writable layer and one for the merged lower layers;
create_snapshot calls `restack` of the file and then replaces the config; the ublk daemon
opens and closes image files and swaps them between devices.

The models follow the same layering. `Index0` and `ComboIndex` implement `BlockMap` (a
function from block to place). `LSMTFile` uses that function in place of the two indexes and
implements `BlockDevice` (an array of blocks). `LSMTRecovery` adds crashes and reopening to
`LSMTFile`. `Ublkd` takes images as names.

## 2. Modules and how they correspond to the code

### Segment index

* `Segments` has the record of a `SegmentMapping` and its operators (`End`, `Mend`,
  `ForwardOffsetTo`, `BackwardEndTo`), and `Insert`: what `Index0::insert` makes of a set of
  disjoint mappings, with the cases of `remove_partial_overlap` (cut on the left, on the
  right, split in two) and removal of what is covered.
* `Index0` is the writable index as a state machine. `mapping` is the `std::set`, `alloc` the
  `alloc_blk` counter, kept modulo a word as the code does, by the same additions and
  subtractions around each cut. Its refinement mapping to `BlockMap` sends a set of mappings to
  the place of each block.
* `IndexOps` has the read side as operators: lookup with trimming of the first and last
  mapping, the combined lookup of front and backing index, `foreach_segments` (rounds of
  `NMAPPING` results, holes between them), the merge of layers, `compress_raw_index`.
* `LBPTree` is the pointer-free search tree over a sorted array: its depth, the keys of the
  leaves and inner nodes as `build` computes them, the search, and the width of its keys.
  The SIMD search within a node has the contract of the plain one and is not separate.
* `ComboIndex` is a stack under writes (`Insert0`), discards in the two steps of the code
  (`Discard` takes the tag, `Discarded` inserts under the lock, perhaps after a restack),
  restacks (`Restack`, with `commit_index0`, the renumbering of tags and of `m_files`) and
  reopening (`Reopen`, which merges the lower layers and tags the upper one). The merge leaves
  out its error path for a capacity that is too small (`index.cpp:1056`): the arrays here are
  as large as needed, as in the code's own callers.

### Writable file

`LSMTFile` models threads inside `LSMTFile::pwrite`, `discard`, `pread`, `fsync` and
`restack`. `th[t].pc` is where thread t may be interrupted: photon threads switch only where
the code waits (a lock, file I/O), so each action is the code between two waits.

| variable | code |
|---|---|
| `data[l]`, `idx[l]` | data and index file of layer l, in blocks and records; `ddata`, `didx`: what an fsync has made durable |
| `sealed[l]` | the index and trailer written behind the data by a seal |
| `m_files`, `m_rw_tag` | the members of that name |
| `mapping`, `backing` | front and backing index of the combo index, as block maps |
| `buffer` | `m_stacked_mappings` (group commit) |
| `mtx` | holder of `m_rw_mtx`; readers of `m_index_rwlock` are the threads at `r_data` |
| `config` | the config file that create_snapshot replaces |

pwrite takes runs of its range one by one: `WAppend`, `WInsert`, `WLog` for a run that is
appended, `WRewrite` for one rewritten in place (hybrid mode); `WAppendFail` and
`WRewriteFail` are short writes. `DInsert` and `DLog` use the end of file and the tag that
`CallDiscard` read before the lock, as the code does. `SFlush`, `SData`, `SIndex` are the three
steps of fsync. `Restack` holds both locks, loads the writable layer from its files, seals it
and puts the new one on top; `Rename` is the replacement of the config. A write to the index
file that fails goes unnoticed by the caller, as in `append_index`, and so does a sync of either
file that fails: `fsync` ignores both results. A record stored past the end of the group-commit
buffer (`Buffered`) reads back as `Undefined`, which no record of a call equals. A call is one
piece: pwrite cuts requests above `MAX_IO_SIZE`, and fallocate those above the longest segment,
into calls that behave like separate ones.

`BlockDevice` is the abstract device: a write changes blocks of its own range to its own
content, all before it reports success; nothing else changes what a reader sees.

### Open and recovery

`LSMTRecovery` extends `LSMTFile` with `Restart` (the process dies, the files stay, the image
is opened from the config: lower layers merged, upper layer's log replayed and verified) and
`PowerCut` (of each file each synced block stays, as it was synced or as it was rewritten
since, and any prefix of what was appended). A cut may come at any step. What it leaves either
opens, and the image is loaded from it, or is refused (`down`), and nothing happens any more.
`ok`, `since` and `unsynced` are history variables: the contents a block may have after a power
cut, given the fsyncs that returned and whether their syncs succeeded. A failed sync leaves the
file as durable as before; a later one may succeed and cover it. `config` is replaced by a
rename and is taken to be durable at once.

### ublk device manager

`Ublkd` models the handlers of `UblkdServer` as coroutines of one thread. Each action is what a
handler does between two waits; a request that is refused changes nothing and is no action.

| variable | code |
|---|---|
| `devices`, `shared_`, `adds_in_flight` | `devices_`, `shared_`, `adds_in_flight_` |
| `pool_low`, `pool_idle`, `free_slots`, `next_slot` | `pool_low_`, `pool_idle_`, `free_slots_`, `next_slot_` |
| `pool_cap` | the capacity of the vector `pool_idle_`, which decides when a push_back moves it |
| `dev` | devices the kernel has: the image each serves and the flock its `UblkDevice` holds |
| `h` | per handler: where it waits and its locals |
| `leases` | history: what clients were given and have not given back |
| `retired` | history: slots of leased devices that del or release tore down |

`handle_add`, `AcquireHit`, `AcquireShared` and `AcquireExclusive` are requests up to the first
wait; `StartOpened`, `StartDone`, `StartFailed`, `StartRejected` the start of a device and its
failures; `PostSwapIn`, `SwappedIn`, `SwapInFailed` are take_pooled, `HandedOut` what follows it,
`NoneFits` and `StartAnew` the way around it; `ReleaseToPool`, `PostSwapOut`, `SwappedOut`,
`Returned`, `RecycleFailed` are return_to_pool; `Parked` a refill; `TornDown` and `Closed`,
`Rejected` or `Dropped` a teardown. Every start, open and swap may fail.

take_pooled keeps an iterator into `pool_idle_` while its swap waits, and reads the slot and
erases the device through it afterwards. `h[g].it` is that iterator: the position it points to,
or 0 once a push_back has moved the vector (`Moved`). `Taken` is what the two uses yield: the
slot and the rest of the pool if the position exists, and otherwise, since the use is undefined,
any slot and any device or none erased. `Fits` is the code's test: the size of the image counts
and, since the candidate serves a writable placeholder, not whether the image is read-only.

Assumed of the environment: a client has one request per lease in progress; config files stay
where they are; the kernel reuses the id of a device only when its entry is gone (see
section 6); slots beyond `MaxSlots` are taken not to be created.

## 3. Runs

Deadlock is checked in every passing run. All runs are exhaustive.

| run | shows | bounds |
|---|---|---|
| `index0` | Insertions in any order keep the index sorted and disjoint, count blocks exactly (modulo the word) and redirect exactly their own blocks; a lookup through the search tree equals a search of the array | 4 blocks, mappings of 0 to 3 blocks, data and zeroed: every overlap case occurs, alone and in combination; trees of one and of two keys per node, so several levels and partly filled nodes |
| `wide_index` (violated) | see finding 1 | keys of 3 values for 4 blocks |
| `combo_index` | Writes, discards, restacks and reopenings move no block; tags name the right files; the walk of a range, the merge of layers and compression agree with the block map | 3 blocks, up to 4 layers (two restacks: a wrong tag shift shows only then), rounds of 2 mappings so that a walk takes several; three writes that cut each other and leave neighbours that do and do not continue each other, and two overlapping discards; a longest segment of 3, so that neighbours, zeroed ones included, fuse to 2 blocks and are kept apart at 3 |
| `lsmt_file` | Two threads writing, discarding, reading, syncing and restacking a hybrid layer, with failing data and index writes, look like an array of blocks; reads under way stay valid; rewrites hit no other block and no sealed layer; every call returns | 2 threads, 2 blocks, 2 values, 3 calls, up to two restacks |
| `lsmt_group_commit` | With buffered index records and failing commits, log and buffer replay to the index until the buffer overruns | 4 calls (no reads or restacks), buffer of 2: it fills, is padded by fsync, fails to commit, is committed again, and overruns; symmetric in threads and values |
| `lsmt_restart` | After a process crash at any step the image opens and holds what was acknowledged, but for the window of finding 3; an image that opens after a power cut holds what the last successful covering fsync covered or something newer; the log replays to the index across restacks and restarts | 2 threads, 4 calls (no discards: finding 2), 1 crash or power cut, failing syncs, failing rename of the config; symmetric in threads and values |
| `lsmt_reopen`, `lsmt_snapshot_crash`, `lsmt_fsync_stack` (violated) | see findings 2, 3, 4 | 3 calls |
| `ublkd` | Leases, reference counts, shared devices, locks, slots, pool and kernel devices stay consistent, nothing leaks whichever step fails but the slots of section 6, every request is answered | 2 handlers, one writable and one read-only image, 3 ids. Without a pool both handlers serve every request. With a pool of 1, one serves acquire, release and resize and the other add and del, so that one at a time works on the pool: two are finding 5, and no property of the pool survives their invalid iterators |
| `ublkd_pool`, `ublkd_writers` (violated) | see findings 5, 6 | pool of 1; in `ublkd_pool` both handlers acquire and release, and both images are writable |

Why these bounds: two threads are enough for every pair of handlers to interleave, and the
locks make a third one wait like the second; two blocks tell a run from a part of it and one
block's place from another's; two restacks are needed for tags to be shifted twice. The proofs
of section 4 remove the bounds for the safety properties they cover.

Fairness. `LSMTFile!FairSpec` has weak fairness for the steps of each thread: photon schedules
every runnable thread. No step is required of an idle thread (calls are not fair). The locks
are taken in single steps whose guard may be disabled and enabled again; within the bound on
calls weak fairness is enough because a lock is contended only finitely often.
`Ublkd!FairSpec` has weak fairness for the steps of a handler that waits: opening, starting and
closing are taken to end, as the code does, and a swap has a timeout.

A lock that is kept makes the other thread wait for ever: TLC reports that as a deadlock.
`CallsReturn` adds that no walk over a range goes round without an end.

What a power cut leaves is deliberately wide: every synced block old or new, any prefix of what
was appended.

Each property of a passing run has a mutant of the code's model that it rejects (listed in
`PROJECT.json`), next to the definition it changes, marked "a plausible bug".

## 4. Proofs

All by TLAPS (SMT, Zenon, LS4), for every value of the constants allowed by the assumptions
(`FileAssumption`: natural bounds, at least two layers, no thread called `None`).

* `Index0Proofs`: `SortedAlways` (`Spec => []Sorted`) and `Index0Implements`
  (`Spec => ImplementsBlockMap`), for any set of logical blocks and any inputs. The lemmas say
  what cutting one mapping does (`BackwardEndToFacts`, `ForwardOffsetToFacts`), that the
  remainders of the overlapped mappings are disjoint and keep their places, and that therefore
  `Insert` is a `Put` of the block map.
* `LSMTFileProofs`: `Invariance` (`Spec => []IInv`), and from it `TypeCorrect` and
  `NoAliasingAlways`; for any number of threads, blocks, values, layers and calls, both write
  modes, with and without group commit and failures.
  `NoAliasing` alone is not inductive. A write appends in one step and inserts the mapping in a
  later one, so the invariant must say that only the holder of `m_rw_mtx` is between the two
  (`HolderOK`), that the appended run lies inside the file and behind every mapped block
  (`CallOK`), that the places a reader holds are those of the index (`ReaderOK`), and that the
  writable layer is the only unsealed one of the stack and the backing index points inside the
  files below it (`StackInv`). The proof has one lemma per action or family of actions;
  `OneCall` covers the steps that leave index and stack alone, `InsertStep` the two inserts.
* `LSMTFileSafety`: `ReadersSeeViewAlways` from `ReaderOK`; `SealedImmutableAlways` from
  `StackInv` and the fact that only the top layer is ever written; `LogMatchesIndexAlways`,
  for `BufSize = 0` and no index write failures, from the stronger `LInv` (what is inserted and
  not yet logged is what will be logged) and `ReplayAppend` (replaying one record more is one
  insert more). Without a buffer there is no overrun, and the theorem states `LogReplays`, the
  alternative of `LogMatchesIndex` that matters, as well.

Only model-checked: liveness (`CallsReturn`, `RequestsAnswered`), `ImplementsBlockDevice`,
everything about recursive walks and trees (`IndexOps`, `LBPTree`, `ComboIndex`), the block
count, crashes, group commit, and the device manager. Liveness and what recursive definitions
compute are outside the prover's reach; the others are planned.

## 5. Findings

Each is a run whose property, taken from the repository's own text, is violated.

1. `wide_index` (`index.cpp:1162`). The merged index chooses 32-bit keys by the virtual size of
   its first layer, which is 0 for every index loaded from a file: above 2 TiB, keys are
   truncated and lookups return mappings outside the range.
2. `lsmt_reopen` (`file.cpp:1031`). discard reads the end of the data file before it locks.
   After a restack in between it logs the old end for the new, shorter layer, whose index is
   then refused at the next open.
3. `lsmt_snapshot_crash` (`image_file.cpp:586`). Writes acknowledged after a restack and before
   the rename of the config are in a layer the config does not name: a crash there loses them.
4. `lsmt_fsync_stack` (`file.cpp:1136`). fsync covers only the current writable layer, and a
   restack does not sync the one it seals.
5. `ublkd_pool` (`ublkd_main.cpp:515`). Two acquires at once choose the same idle device; the
   one whose swap is refused tears it down under the other.
6. `ublkd_writers` (`ublkd_main.cpp:384`). A writable image swapped into a pooled device is not
   locked, and a second device can be started on it.

## 6. Observations without a run

* `alloc_blk` is not reset by `commit_index0` (`index.cpp:965`) and starts at 0 over a reopened
  front index; it is only used for statistics.
* A failed group commit leaves a full buffer, and the next record is stored past its end
  (`file.cpp:905`); a restack with buffered records seals a layer whose log misses them. Only
  tests enable group commit.
* After a power cut, index records may be on disk without their data; such a layer is refused as
  a whole, flushed writes included. `PowerCut` has this branch (`down`); `SyncedSurvives` is
  about the images that open.
* fsync returns 0 when the sync of a file failed (`file.cpp:1136`). `SyncedSurvives` is about
  the fsyncs whose syncs succeeded.
* A device grown by a resize goes back to the pool with the larger capacity.
* refill_pool is said to run after the response, but the response is written after the handler
  returns.
* While an image closes, its kernel id is already free; a device started meanwhile may get it,
  and the entry erased afterwards is the new one's. The model assumes this does not happen.
* The pool may exceed its high watermark by a race, and a leased device of the pool that is torn
  down by del or release does not give its slot back: `retired` in `NothingLeaks`.
* take_pooled uses its iterator after a wait (`ublkd_main.cpp:518`, `527`), when a refill or a
  release may have moved the vector and another take_pooled erased the element; after the
  latter it may also wait in a device that was deleted. In the model the first is an undefined
  result, the second a swap that fails; both are reached only with two handlers on the pool.
* A read-only image is swapped into a pooled device the kernel was told is writable, with a
  volatile cache; the comments at `ublkd_main.cpp:81` and `ublk_device.h:144` say only images
  that match in this are.
* When the config of a shared device can no longer be resolved at its last release, its entry
  of `shared_` stays. In the model configs stay where they are.
* Nothing serialises two snapshots of one device, and the upper layer in `conf` is not updated
  after a snapshot.

## 7. What is left out of the modelled parts

File names, UUIDs and header checks; sparse files, warp files (turboOCI), compaction (`commit`,
`flatten`) and `close_seal` as calls of their own; LevelIndex and dump; byte-granular failures
of an append; object lifetimes; the width of tags (uint8_t; stacks here are far below 255
layers); the JSON protocol, list, pool and ping requests and shutdown of the daemon; the
kernel's capacity of a device.

## 8. Plan

1. Hot-swap handshake: queue thread against `swap_image` with its timeout, composed with the
   life cycle of `UblkDevice` and the reuse of kernel ids.
2. TCMU frontend: commands, coalesced notifications, in-flight count, close.
3. Background download and switch file: queue, resume after a crash, verification, rename,
   switch under concurrent reads; the table of image files.
4. ZFile: jump table as packed offsets with their widths, reads across blocks with retries, the
   multi-threaded builder against a sequential reference.
5. LSMT: compaction and merge under concurrent writes, sparse and warp layers, tag width.
6. Prefetcher: record, replay and the two ways to stop.
7. Proofs: `Spec => ImplementsBlockDevice` from `IInv`; `Reopenable` and `CrashLosesNothing`
   without discards; the invariants of `Ublkd`; the new modules' safety properties.
