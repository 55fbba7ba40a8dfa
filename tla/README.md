# TLA+ models of libcrpm

libcrpm is a crash-consistent persistent-memory runtime. A program's heap lives in DRAM. `checkpoint(n)` makes the heap's current contents durable in a checkpoint image on NVM, and after a crash `Open` restores the last checkpoint. This directory holds TLA+ models of the checkpoint image, of the two dual-epoch instrumented engines (hybrid and NVM), of four single-epoch engines (mprotect, soft-dirty, undo-log and LMC), of the persistent allocator's superblock free list, an abstract specification of what a pool promises, and the TLC configurations that check them.

## The system and its parts

| Part | Source | Model |
|---|---|---|
| Checkpoint image: the header's `committed_epoch`, two segment-state vectors, `back_to_main`, the main and back arenas, and the volatile `main_to_back` | `src/runtime/src/checkpoint.cpp` | `CheckpointImage.tla` |
| Hybrid instrumented engine: dual-epoch dirty bitmaps, flush buckets, and `checkpoint()` | `src/runtime/src/engines/hybrid_inst_engine.cpp` | `HybridInstEngine.tla`, `MCHybridInstEngine.tla` |
| Store hook runtime: per-thread address buffers drained into `hook_routine` | same file, lines 1073-1160 | `HybridInstEngine.tla` (`Store`, `HookAll`) |
| NVM instrumented engine: copy-on-write into back slots under segment locks, `checkpoint()` in two flush modes, and the background write-back thread | `src/runtime/src/engines/nvm_inst_engine.cpp` | `NvmInstEngine.tla`, `MCNvmInstEngine.tla` |
| Single-epoch pool metadata: `consistent_data` and the main and back arenas, with `recover_data` | `src/runtime/src/metadata.cpp`, `metadata.h` | `MetadataV1.tla` |
| mprotect engine: region protection, the SIGSEGV handler, per-thread flush buckets and `checkpoint()` | `src/runtime/src/engines/mprotect_engine.cpp` | `MProtectEngine.tla`, `MCSingleEpoch.tla` |
| Soft-dirty engine: `/proc/self/pagemap` and `clear_refs` | `src/runtime/src/engines/dirtybit_engine.cpp` | `DirtyBitEngine.tla`, `MCSingleEpoch.tla`, `MCDirtyBitPools.tla` |
| What a pool promises its program (spec.md) | — | `SnapshotMemory.tla` |
| Undo-log engine: per-block undo log filled by `hook_routine`, `checkpoint()` and `recover` | `src/runtime/src/engines/undolog_engine.cpp` | `UndoLogEngine.tla`, `MCSingleEpoch.tla` |
| LMC engine: shadow copies tagged with `current_epoch`, `checkpoint()` and `recover` | `src/runtime/src/engines/lmc_engine.cpp` | `LmcEngine.tla`, `MCSingleEpoch.tla` |
| lrmalloc allocator: the superblock free list `avail_sb`, a lock-free stack with an 8-bit stamp | `src/runtime/src/allocators/hook_lrmalloc_allocator.cpp`, `src/runtime/include/internal/pptr.h` | `SuperblockList.tla`, `MCSuperblockList.tla`, `MCSingleEpoch.tla` |
| pptr encoding, allocator caches and partial lists, file mapping, MPI layer, LLVM pass, kernel flush module | various | not modelled (see PROJECT.json `components`) |

How the parts interact:

- The mutator's stores go through `__crpm_hook_rt_store` into a per-thread address buffer.
- A full buffer, or the leader at the start of a checkpoint, drains the buffer through `hook_routine`. That sets bits in `block_dirty[epoch]` and `segment_dirty[epoch]` and appends the block id to the thread's flush bucket. A full bucket drops the id.
- `determine_flush_mode` picks one of three modes:
  - `NO_ACTION`: nothing to do; the checkpoint returns at once.
  - `USE_FLUSH_BLOCKS`: walk the buckets.
  - `WBINVD`: walk `segment_dirty`.
- In epoch 1 the engine copies dirty data from DRAM into back slots and commits those segments as `SS_Back`. In epoch 0 it copies into main and commits `SS_Main`.
- Commit is the image's epoch flip. `set_segment_state` writes the scratch vector, a single NT store advances `committed_epoch`, and the new vector is copied back.
- In `USE_FLUSH_BLOCKS` mode the buckets are then copied to the other side.
- In `WBINVD` mode that copy is deferred to the next checkpoint's `apply_nvm_to_nvm_parallel`. The file defines `USE_SYNCHRONOUS_CHECKPOINT` (line 14), so the write-back thread is never started.
- `Open` after a crash rebuilds `main_to_back` and runs `recovery(SS_Main)`. Recovery copies the authoritative side of each bound slot over the other side and commits. `prepare_working_memory` then reloads DRAM from main.
- The single-epoch engines work in place in main and keep one back arena. A checkpoint persists main, sets `consistent_data = kMainData`, copies the modified units to back and sets `kBackData`. `recover_data` copies from the side `consistent_data` names. The mprotect engine learns the modified regions from the page faults of write-protected regions. The soft-dirty engine reads them from the kernel's soft-dirty bits.
- The undo-log engine also works in place, but logs instead of copying. Before the first store of an epoch to a block, `hook_routine` reserves a log entry with `log_head.fetch_add`, writes the block's old contents into it and persists it, then publishes it by advancing `header->log_head`. A checkpoint flushes the data area and resets `header->log_head` to 0. `Open` replays the published entries.
- The LMC engine also works in place. Before the first store of an epoch to a block, `hook_routine` copies the block to its shadow under the block's lock and tags it with `current_epoch`. A checkpoint flushes the tagged blocks and advances `current_epoch`, which untags them all at once; `Open` copies the blocks tagged with `current_epoch` back from their shadow.
- The allocator of a pool carves superblocks from the pool with `bulk_allocate` and keeps free ones on `avail_sb`. Threads push and pop it with load / compare-exchange loops; the stamp packed into the head makes a compare-exchange against a head that was popped and pushed back fail.
- Several pools may be open in one process. Each has its own engine, but the soft-dirty bits and `clear_refs` belong to the whole process.

## Modules

`CheckpointImage` covers the image. Its state is the variables of `checkpoint.cpp`, with segment contents abstracted to one value per block. Each operation is one action-fragment that the engines conjoin into their own steps:

- `SetSegmentStates`, `CommitEpochStore` and `CommitCopyBack`: the two halves of `commit_segment_state_update`, split at the NT store of the epoch.
- `SetSegmentStateAtomic`
- `BindBackSegment`
- `RecoverBackSlot`: one iteration of `recovery`'s loop.
- `ImageInit`: `Open` of a fresh image. The engines' restarts rebuild `main_to_back` the way `Open` does on reopen.

Stores that are flushed or NT-stored are durable when the step that issues them ends. The model considers process crashes, not power failures. The commit's epoch store is the commit point.

The image has no harness of its own: both engines drive it with the call sequences the code issues, crashes included.

`HybridInstEngine` EXTENDS the image. The leader's position in `checkpoint()`, or in recovery after a crash, is `pc`:

| `pc` | What happens there |
|---|---|
| `run` | no checkpoint in progress |
| `latch` | the mode is chosen |
| `sync` | `apply_nvm_to_nvm` |
| `apply1` | the write-back before commit |
| `commit_set` → `commit_epoch` → `commit_copy` | the commit |
| `apply2` | the bucket copy after commit |
| `recover` → `recover_copy` → `prepare` | recovery and reload after a crash |

- The parallel loops are queues of work items, one per checkpoint thread (`todo`), built exactly as the code partitions them: segments `t, t+n, ...`, bucket `t`, or all buckets on thread 0.
- `ApplyStep(t)` runs one item of thread `t`, so the threads' copies interleave.
- `Crash` restarts the process at a chosen `pc`. Its volatile state is reset, `epoch = 1`, and the mode is arbitrary, because the constructor leaves `flush_mode` uninitialised.
- `ExitOutOfShadow` is `find_back_segment`'s `exit`.
- In `apply_dram_to_main_parallel` each checkpoint thread applies its own buckets, so two threads can meet at one segment. `find_back_segment` is therefore two steps there: `FindBackSegmentTest` is the unlocked `get_main_to_back` (line 686) and sets `creating[t]`; `FindBackSegmentAllocate` is `allocate_back_segment` under `back_memory_lock`, which does not test `main_to_back` again, followed by the copy of the slot over main and `set_segment_state_atomic(SS_Back)`. When every slot belongs to a dirty segment, the loop ends without `ReleaseLock`, and `back_memory_lock` stays held. In `apply_dram_to_back_parallel` it stays one step: thread 0 alone applies the buckets, and in `WBINVD` mode each thread has its own segments.
- `snap` is a ghost: it is the DRAM contents at the last epoch store.
- `RecoveredWork` is what `recovery(SS_Main)` followed by `prepare_working_memory` would rebuild from the current image. It is computed with a RECURSIVE operator over the slots, in the code's order.

`MCHybridInstEngine` states the properties. `MCHybridRegimes` runs two instances of it, one per behaviour: `H`, one segment with its own slot and crashes, for the durability properties (prefixed `H`), and `X`, two segments sharing one slot, which reaches `find_back_segment`'s exit and the restart after it. It also maps the engine onto `SnapshotMemory`: the snapshot is `RecoveredWork`, and the program's memory is DRAM, or `RecoveredWork` while recovery runs.

`NvmInstEngine` EXTENDS the image too. Unlike the hybrid engine, the program works directly in main:

- `CopyOnWrite` is `hook_copy_on_write_routine`. Before the first store of an epoch to a segment, it runs `lazy_write_back(seg, true)` under the segment's lock (`LockOf`, the `seg % nr_locks` aliasing kept). If the segment's committed copy is main, the copy allocates a slot (`AllocatedSlot` / `Stealable`, the steal rules of `allocate_back_segment`, and `OutOfShadow`, its `exit`), copies the committed blocks to the slot and restates it `SS_Back`. It then marks the segment dirty.
- `Store` and `RangeStore` are the store hooks: buffered addresses are drained through `hook_routine` into the flush buckets.
- `Checkpoint` takes the leader through `lock` (`cleaner_mutex`), `main_set` → `main_epoch` → `main_copy` (commit `SS_Main`). In `USE_FLUSH` mode it continues with `write_back` (`write_back_parallel`, one bucket item per step), `back_set` → `back_epoch` → `back_copy` (commit `SS_Back`) and `clear_dirty_bits`. In `WBINVD` mode it instead clears `segment_dirty` with `clear_region` and starts the cleaner.
- The cleaner (`WriteBackThreadRoutine`) has `cleaner_pc` ∈ {`start`, `loop`, `copy`, `wait`, `wake`}. It holds `cleaner_mutex` except while waiting on `cleaner_condvar`. It walks the segments with `lazy_write_back(seg, false)` and goes `WB_IDLE` at the end. `SpuriousWakeup` models the wake-ups a condition variable may have.
- `Crash` restarts at any `pc` of `CrashPCs`. `Open` then runs `recovery(SS_Back)` (`RecoverSlot`, `RecoverCommit`, `RecoverCopy`) before the cleaner thread starts.
- `ClearRegion`/`ClearWords` model `AtomicBitSet` word by word with a bit width `BitWidth`: `clear_region(s, e)` clears words `[s>>6, e>>6)`.

`MCNvmInstEngine` states its properties. `MCNvmRegimes` runs two instances of it, one per behaviour: `D`, with a back slot per segment, and `C`, with one slot shared by both segments. Its properties are those below, prefixed with the regime (`DPublishedRecoverable`, `CCheckpointCompletes`, ...):

| Property | Kind | Statement |
|---|---|---|
| `PublishedRecoverable` | invariant | Spec P1 for every committed segment: recovery from the current image would give the last checkpoint's contents. |
| `StoresAreTracked` | invariant | Outside `checkpoint()`, every block of a committed segment that differs from the last checkpoint is in an address buffer or in `block_dirty`. |
| `CheckpointCompletes` | liveness | If crashes eventually stop, every started checkpoint returns to `run`. |
| `CleanerQuiesces` | liveness | If checkpoints eventually stop, the cleaner eventually stays `WB_IDLE`. |

`SnapshotMemory` is the abstract specification. The program writes `mem`; `TakeSnapshot` is a checkpoint returning (`snap' = mem`); `Restore` is a crash and reopen (`mem' = snap`). Every step an engine takes inside a checkpoint or a recovery, other than these, must leave both unchanged.

`MetadataV1` is the single-epoch pool metadata: `consistent_data` and the main and back arenas, one value per unit (page or region). It models power failure, not only process crashes:

- `main_data` is main as the program sees it, through the cache; `nvm_main` is what has reached NVM.
- A store changes only `main_data`. `FlushUnits` (WBINVD, or `FlushRegion` of chosen regions) makes `nvm_main` equal to it.
- The back copy and `consistent_data` are written with NT stores and a fence, so they are durable at once.
- `LoseUnflushed(lost)` is a power failure: the units in `lost` fall back to their persisted value.
- `RecoverDataUnit` and `RecoverDataDone` are `recover_data`: copy main to back and set `kBackData` if `consistent_data` is `kMainData`, else copy back to main.

`MProtectEngine` EXTENDS it:

- `writable` are the regions `protect_regions` opened. `Store` needs a writable region; `Fault` is the SIGSEGV of a store to a read-only one.
- `SigfaultHandler(t)` is `sigfault_handler`. It sets `region_dirty`, makes the region writable and appends it to thread `t`'s bucket unless the bucket is full; the store then completes.
- `Checkpoint` is the leader's first half of `checkpoint()`. It picks the mode (`FlushModeOf`: none, `WBINVD` when a bucket is full, else the buckets), flushes (`FlushParallel`), sets `kMainData` and protects every region.
- `WriteBack(u)` is one region of `write_back_parallel`. `CheckpointDone` is `clear_dirty_bits_parallel` (whole words, `ClearWords`), `kBackData` and the bucket reset.
- `Crash(lost)`, `RecoverUnit` and `RecoverDone` are the process's end, with a power failure, and `Open`'s `recover_data`.

`DirtyBitEngine` EXTENDS it too. `soft_dirty` is the process's set of soft-dirty pages. `Checkpoint` reads this pool's bits (`ReadPageMap`), issues WBINVD and sets `kMainData`; `WriteBack(u)` copies one page; `CheckpointDone` sets `kBackData` and writes `clear_refs` (`ResetPageMap`), which clears every page of the process.

`UndoLogEngine` keeps the same split between `data` (cached) and `nvm_data` (persisted). Its other state is the log area `log` (entry per byte offset, `NoEntry` where nothing was ever written), `hdr_log_head` (persistent) and `log_head` (volatile), `block_dirty`, the buckets, the segment locks held, and each thread's position in `hook_routine` (`th`):

- `Hook(t, u, v)` is the unlocked test: a dirty block is stored to at once.
- `AcquireDirty(t)` takes the lock and finds the block dirty on the re-test. `Reserve(t)` finds it clean and reserves an entry with `fetch_add`. `ExitOutOfLog(t)` is the exit when that entry does not fit.
- `WriteEntry(t)` writes and persists the entry. `Publish(t)` is the CAS loop: it can only advance `header->log_head` from the entry's own offset. It then sets the dirty bit, releases the lock, appends to the bucket and performs the store.
- `Checkpoint` picks the mode, flushes and clears the dirty bits. `CheckpointDone` truncates the log.
- `RecoverEntry` and `RecoverDone` are `recover`. `Recovered(d)` is what the replay makes of `d`.
- Sizes are the code's bytes: an entry is `64 + BlockSize`, and the log's capacity is the data capacity.

`LmcEngine` keeps `working` (cached) and `nvm_working` (persisted) apart, like `MetadataV1`. The shadow area, `tagmap` and `current_epoch` are written non-temporally or flushed and fenced, so they are durable when written:

- `HookTagged(t, u, v)` is `hook_routine` finding the block tagged: the store follows. `HookUntagged(t, u, v)` takes the lock and copies the block to its shadow. `SetTag(t)` tags it, releases the lock, appends to the bucket unless it is full, and performs the store. The spin on the lock has no side effects, so a waiting thread is one whose step is not enabled.
- `Checkpoint` picks the mode (`FlushModeOf`), flushes (`FlushParallel`), sets the snapshot attribute and resets the buckets. `CheckpointAdvance` is `advance_current_epoch`; at `EpochMax` (`UINT8_MAX`) it clears the tagmap first, and `WrapDone` writes epoch 1.
- `Crash(lost)` ends the process with a power failure. `RecoverBlock(u)` and `RecoverAdvance` are `recover`: the NT copies of the tagged shadow blocks, then the fence and `advance_current_epoch`. `Recovered(w)` is what `recover` makes of `w`.

`SuperblockList` is the allocator's free list. `head` is `avail_sb` as a pointer and a stamp; `next_free` links the descriptors, named by superblock index; `bulk_tail` counts the superblocks carved; `held` is a ghost of the blocks `pmalloc` has returned; `th` holds each thread's position and locals (`old_desc`, `old_stamp`, `new_desc` of the `alloc_*` functions, `old_head`/`old_stamp` of `fill_sb_list`):

- `CasSucceeds` and `Reload` are `atomic_stamped_pptr`'s compare-exchange. On failure, `Reload` writes back the current pointer and stamp, or, when the current pointer is null, nullptr and the *old* stamp, as `pptr.h:268` does.
- `AllocSmallLoad`, `AllocSmallReadNext`, `AllocSmallCas` and `AllocSmallBulk` are the load, the read of `next_free`, the compare-exchange and the `bulk_allocate` + `fill_sb_list` fallback of `alloc_small_sb`. `AllocLarge*` is `alloc_large_sb`: one attempt at `LargeSBs` contiguous descriptors, then `bulk_allocate`. `RetireSmall*` is `retire_small_sb` (the `new Descriptor()` reset, load and store, compare-exchange). `RetireLarge` is the large path of `pfree`.
- `FillLoad` builds the chain and loads `avail_sb` once; `FillCas` is one iteration of `fill_sb_list`'s loop.
- Each load, store and compare-exchange of shared state is its own step. A failed `bulk_allocate` compare-exchange (`-EAGAIN`) changes nothing and is not a step. Spurious failures of `compare_exchange_weak` are not modelled, since they only repeat an iteration. `MaxOps` bounds the operations the threads start.

`MCSuperblockList` states the allocator's properties.

`MCSingleEpoch` runs one pool of one engine per behaviour, chosen at the start. The pools of different engines share no state, so interleaving them would only multiply the states. A crash ends the process and, for the soft-dirty pool, clears the soft-dirty bits. Each pool is mapped onto `SnapshotMemory`:

- For mprotect and soft-dirty, the snapshot is the arena `consistent_data` names, and the memory is main, or the snapshot while `recover_data` runs.
- For undo-log, the snapshot is `Recovered(nvm_data)`, and the memory is `data`, or the snapshot while `recover` runs. LMC is mapped the same way, with `LmcEngine`'s `Recovered`.

A fifth kind of behaviour runs the allocator's free list (`S`, an instance of `MCSuperblockList`).

`MCDirtyBitPools` composes two soft-dirty pools in one process.

## Properties

In `hybrid_regimes` the hybrid properties are checked of regime `H` and carry its prefix (`HStoresAreTracked`, ...).

| Property | Kind | Statement |
|---|---|---|
| `StoresAreTracked` | invariant | Outside `checkpoint()`, every block whose DRAM value differs from the last checkpoint is in an address buffer or in `block_dirty[epoch]`. |
| `MainCopyIsCheckpoint` | invariant | Spec I2 for `SS_Main`: main holds the last committed data at every observed point. |
| `BackCopyIsCheckpoint` | invariant | Spec I2 for `SS_Back`: the segment has a slot, and the slot holds the last committed data. |
| `CrashRecoversCheckpoint` | invariant | Spec P1: a crash now would recover the last checkpoint. |
| `RecoveryRestoresCheckpoint` | action property | Every recovery that actually happens ends with DRAM equal to the last checkpoint, across repeated crashes. |
| `BackMemoryLockReleased` | invariant | `back_memory_lock` is free between steps: `allocate_back_segment` returns the lock on every path (fails, see `hybrid_race`). |
| `RefinesSnapshot` | refinement | The hybrid engine implements `SnapshotMemory`, with `RecoveredWork` as the snapshot. |
| `MRefinesSnapshot`, `DRefinesSnapshot` | refinement | Each single-epoch pool implements `SnapshotMemory`, across power failures. |
| `MCheckpointCoversModified` | invariant | Between mprotect checkpoints, every region whose main differs from back is one the next checkpoint will copy: in `region_dirty` if the mode will be `WBINVD`, else in a bucket. |
| `DModifiedPagesSoftDirty` | invariant | Between soft-dirty checkpoints, every page whose main differs from back has its soft-dirty bit set. |
| `URefinesSnapshot` | refinement | The undo-log pool implements `SnapshotMemory`, across power failures and the exit on a full log. |
| `UHookReturns` | liveness | Every thread that enters the undo-log `hook_routine` returns from it. |
| `ARefinesSnapshot` | refinement | Pool A of two soft-dirty pools in one process implements `SnapshotMemory`. |
| `DPublishedRecoverable`, `DStoresAreTracked` | invariant | NVM engine with a slot per segment (run `nvm_regimes`): a crash recovers the last checkpoint, and every modified segment is tracked. |
| `CPublishedRecoverable` | invariant | NVM engine with one shared slot, so the cleaner steals it: durability across steals. |
| `CCheckpointCompletes`, `CCleanerQuiesces` | liveness | A started checkpoint finishes, and the cleaner goes back to waiting, once crashes and checkpoints stop. |
| `LUntaggedBlocksDurable` | invariant | LMC: a block not tagged with `current_epoch` is on NVM as it is in memory, so `recover` need not restore it. |
| `LRefinesSnapshot` | refinement | The LMC pool implements `SnapshotMemory`, across power failures and the epoch wrap at `UINT8_MAX`. |
| `SSuperblockExclusive` | invariant | No superblock is both on `avail_sb` and in use, or in use twice, and the free list has no cycle. The stamp on `avail_sb` is what prevents ABA here. |
| `SNoSuperblockLost` | invariant | Every superblock carved by `bulk_allocate` is on the free list, in use, or held by a thread that is putting it back. |
| `FillSbListReturns` | liveness | A thread in `fill_sb_list`'s loop eventually leaves it (fails, see `lrmalloc_livelock`). |

## Runs

| Run | Bounds | Result |
|---|---|---|
| `hybrid_regimes` | per behaviour either regime H (1 segment of 2 blocks, 1 slot, values {0,1,2}, both flush modes with `kMaxFlushBlocks` = 2, crashes at `run`/`latch`/`sync`/`apply2`/`prepare`; includes the refinement) or regime X (2 segments of 1 block sharing 1 slot, values {0}, no crash: the exit and the restart after it) | passes, 213,165 states (about 2 min) |
| `hybrid_race` | 2 segments of 2 blocks, 1 slot, 2 checkpoint threads, bucket capacity 3, no crash | violation (39 states): both threads pass the unlocked test for one `SS_Main` segment; the first takes the slot, the second finds no slot and returns holding `back_memory_lock`, copies the slot over main again and goes on |
| `hybrid_stale` | 1 segment; crash between the set loop and the epoch store | violation: the stale scratch vector, which nothing resets, is published by recovery's own commit, and a later recovery returns data never committed |
| `hybrid_idle` | 1 segment, idle checkpoints, no crash | violation: `prev_flush_mode` overwritten by `NO_ACTION` skips the deferred sync |
| `hybrid_inplace` | 2 segments, 2 slots, no crash, no idle checkpoint | violation: the epoch-0 write-back overwrites the committed main copy of an `SS_Main` segment (35 steps) |
| `hybrid_steal` | 2 segments sharing 1 slot, no crash | violation: a segment whose slot was stolen is restated `SS_Back` |
| `nvm_regimes` | 2 segments, values {0,1}, bit width 1, crashes at `run`/`lock`/`main_set`/`write_back`/`back_set`; per behaviour either regime D (2 slots, one per segment, so `skip_copy_on_write` is reachable; bucket capacity 2, both flush modes) or regime C (1 shared slot, bucket capacity 1 so every checkpoint with a dirty block is `WBINVD` and starts the cleaner; liveness) | passes, 245,528 states (about 110 s) |
| `single_epoch` | one pool per behaviour: mprotect with 3 regions (2 threads, bucket capacity 1, bit width 2), soft-dirty with 2 pages, undo-log with 3 blocks of 256 bytes (2 threads, bucket capacity 1), LMC with 3 blocks (1 thread, bucket capacity 2, `UINT8_MAX` as 2), or the allocator's free list (2 threads, 7 superblocks, chunk of 3, large of 2, 4 operations); values {0,1}; process crashes with any power-failure losses; liveness for the undo-log threads | passes, 232,076 states (about 2m40) |
| `lrmalloc_livelock` | allocator free list, 2 threads, 7 superblocks, 4 operations | violation (13 states, then stuttering): a thread's `fill_sb_list` CAS fails against a null head, keeps the stale stamp, and spins for as long as no other thread pushes |
| `dirtybit_pools` | two soft-dirty pools of 1 page each in one process, no crash needed | violation: B's `clear_refs` clears A's soft-dirty bit, and A's next checkpoint copies nothing (6 states) |
| `nvm_clear_region` | 2 segments with a slot each, bucket capacity 2, 64-bit words, no crash | violation: `clear_region(0, 2)` clears nothing, and a store to a committed segment skips the copy-on-write (11 steps) |
| `nvm_initial` | 2 segments of 2 blocks sharing 1 slot, no crash | violation: a store to an `SS_Initial` segment survives `find_back_segment`'s exit untracked, and the slot later committed `SS_Back` lacks it (17 steps) |

Why these bounds:

- Every durability bug found needs one of four things: two segments, an idle checkpoint, a crash inside the write-back, or a crash inside the commit.
- Regime H of `hybrid_regimes` excludes exactly those four. Two blocks against a bucket capacity of two give both flush modes; three values let a stale copy differ from both the old and the new checkpoint. It shows that the protocol is otherwise correct: both flush modes, the deferred synchronisation, epoch alternation, restart at epoch 1, and repeated crashes and recoveries.
- A bucket dropping an append while the bucket path stays reachable needs three blocks; with the refinement on, that run does not finish in time. `single_epoch` covers the dropped append of the mprotect engine instead (two regions, capacity 1).
- `single_epoch` uses two threads so that two handlers can race for one bucket, and a bit width of 2 so that `clear_all` clears a word holding two regions. Any subset of units may be lost at a crash, so every pattern of flushed and unflushed lines is explored.
- The undo-log pool has three blocks of 256 bytes. Two entries of 320 bytes fit in its 768-byte log, so two threads can hold reserved entries at once and publish them in either order. The third block of an epoch hits the exit. A bucket capacity of 1 gives both flush modes: one block per thread flushes the buckets, and two blocks on one thread force WBINVD.
- `nvm_regimes` sets the bit width to 1 so that `clear_region` covers all segments, as it does for pools whose segment count is a multiple of 64; `nvm_clear_region` sets the real width of 64. Crashes inside the two commit windows (`main_epoch`/`main_copy`, `back_epoch`/`back_copy`) are left out. A crash at `back_copy` breaks `PublishedRecoverable` through the stale-scratch publication that `hybrid_stale` shows, so no passing run can include them.
- Regime C needs a bucket capacity of 1, so that every checkpoint takes the `WBINVD` path and starts the cleaner. (`determine_flush_mode` tests `>= kMaxFlushBlocks`.) Its epoch modulus is 2; 4 takes 60% longer and every mutant is caught at 2. The two regimes share one run so that each keeps the slot count its properties need.
- LMC's `UINT8_MAX` is 2, so the tagmap clearing at the wrap happens after two checkpoints. Three blocks against a bucket capacity of 2 give all three flush modes.
- The allocator needs at least 4 operations for ABA on `avail_sb`: a thread loads the head and its successor, and two others pop and push before it compares. Two threads are enough, because one thread can do both. Seven superblocks allow two bulk allocations of a chunk of 3 and a large block of 2. The stamp is 8 bits wide as in the code, and 4 operations never wrap it.
- The NVM pass runs use one block per segment. With two blocks and a shared slot, TLC reaches the `nvm_initial` bug, so such a run cannot pass.
- Regime X uses values {0} and one block per segment: it checks only the type invariant while reaching the exit, and a second value multiplies the state space by the data arrays. The idle instance's `flush_mode` is fixed, since the constructor's arbitrary choice would otherwise triple the other regime's states.
- `hybrid_race` needs two checkpoint threads whose buckets each hold a block of the same segment, a bucket capacity of 3 so that two dirty blocks keep the bucket path, and fewer slots than segments so that the second allocation finds none.

Each property of a passing run has a mutant in PROJECT.json: a plausible bug in the mapped code that TLC catches. Examples:

- the bucket-full test written `<=` in `sigfault_handler`
- the soft-dirty leader not waiting at the barrier for the page copies
- a segment-level early-out in `hook_routine`
- the `prev_flush_mode` test reading `flush_mode`
- a missing epoch flip
- a reversed recovery copy

## Fairness

`single_epoch` checks `UHookReturns` under `Fairness` of `UndoLogEngine`: weak fairness for each thread's steps inside `hook_routine` (lock acquisition, entry write and publication) and for the leader's `CheckpointDone` and recovery steps. These are straight-line code of running threads. The spin on the segment lock needs no strong fairness: a lock is taken again only after a checkpoint, and a checkpoint waits for every thread. The program's stores, checkpoints and crashes are not fair.

The hybrid runs check no liveness property. Deadlock is checked in every run except `single_epoch` and `lrmalloc_livelock`. The engine models never stop: `run` always allows a store, and a checkpoint always finishes or ends in a restart. The allocator's threads stop once their `MaxOps` operations are used up, so these two runs turn deadlock checking off.

`lrmalloc_livelock` assumes weak fairness for each allocator thread's next step (`Continue(t)`): a thread inside `pmalloc` or `pfree` keeps being scheduled. Starting an operation is not fair.

In `nvm_regimes`, regime C checks liveness under `Fairness` of `NvmInstEngine`. Each fair action is restricted to the C regime (`CStep`), so the D variables stay unchanged in it:

- **Leader:** weak fairness on every step except taking `cleaner_mutex`. `checkpoint()` is straight-line code run by the thread that called it, so once started it keeps being scheduled.
- **`cleaner_mutex`:** strong fairness for both the leader's and the cleaner's acquisition. A `std::mutex` is released repeatedly by the other thread, and the acquisition is only intermittently enabled.
- **Cleaner loop:** weak fairness on its steps. It is a dedicated thread.
- **Not fair:** the mutator, `Checkpoint`, `Crash` and `SpuriousWakeup`. They are the environment: the application may stop storing or checkpointing at any time.

Both liveness properties are conditional on the environment calming down (crashes stop; checkpoints stop). Without that, an endless series of crashes or checkpoints trivially defeats them.

## What is not modelled, and why

- **Write-back thread of the hybrid engine.** It is not compiled in this build (`USE_SYNCHRONOUS_CHECKPOINT`). The NVM engine's thread is modelled.
- **NVM engine extras.** Not modelled: the MPI variants, `wait_for_background_task`, and the destructor's shutdown of the cleaner (`WB_EXITING`). Also left out: statistics and the cache flushes of `flush_parallel`, which have no effect under process crashes.
- **MPI paths.** `OpenForMPI`, `checkpoint_for_mpi` and `reset_committed_epoch` are deferred to the MPI component.
- **Range hook.** `hook_routine(addr, len)` is not modelled yet.
- **Two-step test and set in `hook_routine`.** The test-then-set race between two threads draining at once is not modelled. A drain is one step. (The test and the allocation of `find_back_segment` are modelled as two steps; see `hybrid_race`.)
- **Barrier and latch.** Their internals are not modelled. The followers' share of each phase is the `todo` queue, and the barriers are the `pc` transitions.
- **Power failure in the dual-epoch engines.** Unflushed cache lines are modelled for the single-epoch engines (`LoseUnflushed`). For the hybrid and NVM engines only process crashes are; torn NT copies are not modelled anywhere.
- **The missing fence in `recover_data`.** `metadata.cpp:54` sets `kBackData` with an NT store after NT copies, with no `StoreFence` between them. Modelling it needs a write-combining buffer per unit; it is listed as a hazard.
- **Engine registries.** Every engine's `Registry` (`find`, `do_register`, `do_unregister`) is outside the models: each model opens one pool per engine and never closes it. Reading `Registry::find` suggests that after the first of two pools is closed, the other's addresses are no longer found (`engines.size() == 1` with `default_engine` cleared); this is listed as an uncovered hazard.
- **Undo-log range hook.** `hook_routine(addr, len)` is a loop of the single-block hook and is not modelled.
- **The hybrid-memory paths of the single-epoch engines.** `USE_HYBRID_MEMORY` is only defined with `USE_MPI_EXTENSION`, which this build does not define.
- **LMC extras.** The registry, the range hook `hook_routine(addr, len)` and the statistics are not modelled; the model has one thread, because two threads multiply the state space past the run's limit.
- **Allocator beyond `avail_sb`.** Partial lists, the descriptor anchors (`Anchor` with its `avail`/`count`/`state` fields), the per-thread caches, size classes and the heap's recovery (`GarbageCollection`) are not modelled. The free list is modelled because it is the one lock-free structure shared by all threads whose correctness rests on the stamp. The wrap of the 8-bit stamp is out of reach: an ABA through the wrap needs 256 pushes between one thread's load and its compare-exchange.
- **pptr encoding.** `pptr` stores an offset from its own address; the model names superblocks by index, which is what the decoding yields. The encoding is arithmetic on addresses that needs no model checker. `atomic_stamped_pptr`'s compare-exchange, the part with concurrency, is modelled.
- **MPI.** See the plan.

## Plan

1. **Done in the first sitting:** the image and the hybrid engine. Durability holds in the bug-free regime. Four code paths break durability or I2, each shown by a violation run with a finding.
2. **Done in the second sitting:** `NvmInstEngine`. Durability, the steal rules and liveness hold in their regimes. Three code paths break durability, each shown by a violation run: `clear_region`'s word rounding, the commit's copy-back window, and `SS_Initial` segments.
3. **Finer hybrid model:** split `hook_routine` into test and set, so concurrent drains interleave. Add the range hook. **Done in the fifth sitting:** `find_back_segment`'s unlocked test as its own step, and the lock left held by `allocate_back_segment` (`hybrid_race`).
4. **Done in the third sitting:** `SnapshotMemory` and refinement of it by the hybrid engine and both single-epoch engines; `MetadataV1`, `MProtectEngine` and `DirtyBitEngine` with power failure; the process-wide `clear_refs` bug (`dirtybit_pools`); `UndoLogEngine` with its in-order log publication.
5. **Done in the fourth sitting:** `LmcEngine` with its durability invariant and refinement of `SnapshotMemory`; the allocator's `avail_sb` list (`SuperblockList`), its two safety properties and the `fill_sb_list` livelock (`lrmalloc_livelock`, a finding); the two NVM regimes combined in one run (`MCNvmRegimes`).
6. **Other parts:** the allocator's partial lists and anchors; the missing fence of `recover_data` with a write-combining buffer; the engine registries; then the MPI epoch reduction.
