# TLA+ models of the VDO slab depot, block allocator and slab summary

These modules model the physical-space manager of VDO: the code under
`src/utils/vdo/base/` that decides which physical block is handed out
next, brings allocation state back after a crash or clean shutdown, and
grows the pool online. Each module is translated from the C source. Where
the source calls code that is not in this repository (the priority table,
the slab scrubber, the action manager, admin state, slab.c), the model
follows `spec.md`. Those definitions are marked `spec_modelled` in
`PROJECT.json`.

## The system

| Part | Source | State | Operations |
|---|---|---|---|
| SlabDepot | `slabDepot.c` | `slabCount`, `slabs`, `newSlabs`/`newSlabCount`/`newSize` (a growth in flight), `zoneCount`/`oldZoneCount`, `newReleaseRequest`/`activeReleaseRequest`, `zonesToScrub`, `loadType` | geometry (`computeSlabCount`, `configureState`), `allocateSlabs`/`abandonNewSlabs`/`prepareToGrowSlabDepot`/`useNewSlabs`/`finishRegistration`, `getDepotFreeBlocks` and the other sums, `getSlab`/`getSlabNumber`, load/prepareToAllocate/drain/resume via the action manager, `commitOldestSlabJournalTailBlocks`/`scheduleTailBlockCommit`, `scrubAllUnrecoveredSlabs`/`notifyZoneFinishedScrubbing`, encode/decode of the 2.0 state |
| BlockAllocator (one per physical zone) | `blockAllocator.c` | `openSlab`, `prioritizedSlabs` (buckets `0..2+log2(dataBlocks)`), `unopenedSlabPriority`, `statistics.allocatedBlocks`, `slabCount`/`lastSlab`, `drainStep`, admin state, `slabActor` (`slabActionCount`, `launchingSlabAction`), the scrubber | `prepareSlabsForAllocation` (triage), `queueSlab`, `allocateBlock`, `adjustFreeBlockCount`, `releaseBlockReference`, `applyToSlabs`, `doDrainStep`/`doResumeStep`, `registerNewSlabsForAllocator`, `releaseTailBlockLocks`, `scrubAllUnrecoveredSlabsInZone` |
| SlabSummary | `slabSummary.h`, `slabSummaryInternals.h` | per slab, a packed entry (`tailBlockOffset`, `fullnessHint`, `loadRefCounts`, `isDirty`); per summary block, `writing`, `currentUpdateWaiters`, `nextUpdateWaiters` | only the structures and the declarations are here. The update/write protocol (`SlabSummary.tla`) comes from spec §4.3. The zone copies and `loadSlabSummary`/`combineZones` (`SummaryReload.tla`) come from the header comments. |
| Logical resize | `vdoResizeLogical.c` | the admin completion's `phase`, `config.logicalBlocks`, admin state, read-only | `prepareToGrowLogical`, `performGrowLogical`, `growLogicalCallback`, `handleGrowthError` |
| Suspend/resume API | `vdoSuspend.h`, `vdoResume.h` | none | declarations only |
| `vdorewriteuuid` | `user/vdorewriteuuid.c` | the geometry block, main's loaded geometry, the opened VDO | a command-line tool: parse arguments, open the VDO, read the geometry block, write it back with a new UUID |
| Logger levels | `uds/loggerDefs.h` | none | constants |

How the parts interact. The depot owns every slab. Slab `n` belongs to zone
`n mod zoneCount`. Each zone's allocator is touched only on that zone's
thread. The depot runs cross-zone operations through an action manager: a
preamble on the admin thread, then the per-zone action on every zone, then
a conclusion. Load, prepare-to-allocate, drain, resume, registration of new
slabs, tail-block release and scrub-everything all run this way. The
allocator consults the slab summary's hints at load to decide which slabs
to queue at once and which to hand to the scrubber. The scrubber hands
recovered slabs back through `queueSlab`. The only state shared across
threads is a set of atomics: per-zone `allocatedBlocks` (read by
`getDepotAllocatedBlocks`), `zonesToScrub`, and the depot's `slabCount`,
which the admin thread changes during a resize.

Hard behaviours, per part:

* **Allocator.** Slab ring membership: a slab is open, in a bucket, or in
  a scrubber ring, never in two. The `allocatedBlocks` statistic is
  touched by triage, `queueSlab` (skipped for resuming slabs),
  allocations and releases. `slab->priority` is cached and compared
  against. The single retry after the open slab is exhausted.
  `scrubAtLeastOne` when triage queued nothing. The ordered drain/resume
  steps, each re-entering the step function from a completion.
  `applyToSlabs` with completions that may arrive synchronously inside its
  dispatch loop.
* **Depot.** Growth allocates new slabs invisibly, may fail part way, is
  abandoned or committed, and is committed per zone before the depot's
  count changes. `getDepotFreeBlocks` reads without a lock while a resize
  may land. A tail-block release request can arrive while the action
  manager is busy. `zonesToScrub` is counted down from several threads.
* **Summary.** An update must not be acknowledged before a write that
  contains it completes, and must not be lost when it arrives during a
  write. Each zone writes only its own copy of the partition. A load must
  combine the copies by the zone count of the run that wrote them. That
  count is kept across tool saves as `oldZoneCount`, and the load writes
  the combined copy back over the copies it reads from.
* **Logical resize.** An error in each phase leads either to the old size
  being restored or to read-only mode.

## Modules

### BlockAllocator (`BlockAllocator.tla`, `MCBlockAllocator.tla/.cfg`)

This module models one zone's allocator together with its slabs, its
priority table and its scrubber. The state starts where
`loadBlockAllocator` leaves it: every slab has been read and none is on a
ring. `Init` ranges over every free count, every blank-journal flag, every
summary hint and every load type.

| Variable | Code |
|---|---|
| `free[s]`, `blank[s]` | `getSlabFreeBlockCount`, `isSlabJournalBlank` |
| `hint[s]` | the summary's `isClean`/`mustLoadRefCounts` and the journal's `requiresScrubbing`, consumed by triage |
| `unrecovered[s]` | `isUnrecoveredSlab` |
| `slabPriority[s]` | `slab->priority` |
| `openSlab`, `table` | `allocator->openSlab`, `allocator->prioritizedSlabs` (bucket -> FIFO) |
| `scrubHigh`, `scrubNormal`, `scrubbingAll`, `scrubberStopped` | the scrubber's two rings and its running state |
| `allocatedBlocks` | `allocator->statistics.allocatedBlocks` |
| `phase`, `drainStep` | the admin state and `allocator->drainStep` |
| `lastResult` | what the last `allocateBlock` returned |

Actions:

* `PrepareSlabsForAllocation`: `prepareAllocatorToAllocate` as a whole.
  It seeds `allocatedBlocks`, pops the slabs in `compareSlabStatuses`
  order, queues or scrubs each, and starts `scrubHighPrioritySlabs` with
  `scrubAtLeastOne`.
* `ScrubSlab`: the scrubber recovering one slab and calling `queueSlab`.
* `FinishHighPriorityScrubbing`.
* `ScrubAllUnrecoveredSlabsInZone`.
* `AllocateBlock`: with `OpenNextSlab` for the requeue/dequeue/retry tail.
* `ReleaseBlockReference`: with `AdjustFreeBlockCount`.
* The four drain steps and the four resume steps.

### SlabDepot (`SlabDepot.tla`, `AbstractSlabDepot.tla`, `MCSlabDepot.tla/.cfg`)

This module models the depot across its zones. Each zone's allocator is
reduced to what the depot sees of it: `allocSlabCount`/`allocLastSlab`
(`registerSlabWithAllocator`), its `allocated` statistic and its admin
state. The action manager is not in the repository. It is modelled from
spec §4.1: one action at a time, an optional preamble, the per-zone step
on every zone in any order, then the conclusion. On conclusion the manager
returns to idle or, if a release request is pending, asks the depot's
scheduler `scheduleTailBlockCommit` to start one.

| Variable | Code |
|---|---|
| `slabCount`, `newSlabs`, `newSlabCount`, `newSize` | the depot fields of the same names |
| `live[n]` | how many `Slab` objects numbered `n` exist (made by `makeSlab`, freed by `freeSlab`) |
| `slabZone[n]` | `slab->allocator` |
| `resizePrepared` | the physical resize's last `prepareToGrowSlabDepot` succeeded |
| `amOp`, `amPreamble`, `amZones`, `depotState` | the action manager |
| `newReleaseRequest`, `activeReleaseRequest`, `zoneReleased` | the release request fields, and what each zone's `releaseTailBlockLocks` last released |
| `zonesToScrub`, `zoneScrub`, `scrubCompletions` | the atomic countdown, each zone's scrubber, and completions of `scrubbingCompletion` |
| `reader*` | one `getDepotFreeBlocks` call in progress, one read per step |

Each handler is one action: `prepareToGrowSlabDepot` (including the
`abandonNewSlabs`/`allocateSlabs`/`abandonNewSlabs` sequence, with
`allocateSlabs` failing after any number of `makeSlab` calls),
`abandonNewSlabs`, `prepareToAllocate`, `drainSlabDepot`,
`useNewSlabs`, `finishRegistration`, `resumeSlabDepot`,
`commitOldestSlabJournalTailBlocks`, `prepareForTailBlockCommit`,
`scrubAllUnrecoveredSlabs` and `notifyZoneFinishedScrubbing`. The per-zone
handlers of `blockAllocator.c` run as the manager's zone steps:
`prepareAllocatorToAllocate`, `drainBlockAllocator`,
`registerNewSlabsForAllocator`, `resumeBlockAllocator`,
`releaseTailBlockLocks` and `scrubAllUnrecoveredSlabsInZone`. Zones
allocate and release blocks on their own threads while they run.
`getDepotFreeBlocks` reads each zone's count, then the slab count, as
separate steps, so any other step can land between two reads.

`AbstractSlabDepot` is the promise: the slab count only grows, and a zone
allocates only within the data blocks of the visible slabs numbered
`n mod zoneCount = z`. `SlabDepot` instantiates it with
`INSTANCE AbstractSlabDepot WITH ...`:
* the abstract slab count is `depot->slabCount`, never `newSlabCount`,
  which stays invisible until `useNewSlabs`;
* a zone's abstract allocated blocks are its allocator's `allocatedBlocks`;
* all other detail state is hidden.

### SlabActor (`SlabActor.tla`, `MCSlabActor.tla/.cfg`)

This module models `applyToSlabs` and its two completion callbacks
(`blockAllocator.c:520-585`), which `BlockAllocator` collapses into one step.
`slabActionCount` and `launching` are the `SlabActor` fields, `toLaunch` is
what the slab iterator has still to visit (highest slab number first),
`slabState` is each slab's action, `callbacks` counts runs of
`actor->callback` in the current operation, and `operationResult` is the
admin state's result. Each loop iteration is one `LaunchSlabAction`. The
slab action either finishes at once (`sync`), so `notifySlabActionComplete`
runs inside the loop, or finishes later in `SlabActionCompletes`. Either
way it finishes ok or with an error, which goes through
`handleOperationError` first. `FinishLaunching` is the code after the loop.
A later completion runs on the zone's thread, so never during the loop.
`ApplyToSlabs` starts again from the previous callback, as load, drain and
resume do one after another.

### DepotCodec (`DepotCodec.tla`, `MCDepotCodec.tla/.cfg`)

This module models the depot's persistent state across formats, saves and
loads (`slabDepot.c`). `depot` is the `SlabDepot` in memory: its slab
config, first and last block, `slabSizeShift`, `slabCount`, `zoneCount`
and `oldZoneCount`. `disk` is the saved component: the header and the 73
bytes of `SlabDepotState2_0`. Each function is an operator:
* `configureState`;
* `allocateDepot` with `allocateComponents`, including the refusal of a
  slab size that is not a power of two, and of more zones than slabs;
* `encodeSlabConfig` and `encodeSlabDepot`, with `zonesToRecord`;
* `decodeSlabConfig` and `decodeSlabDepotState_2_0`. The encoder and the
  decoder each have their own field order (`EncodeFields`,
  `DecodeFields`), taken from their own function, so the round trip
  checks that the two agree.
* `getSlabNumber`.

The 64-bit little-endian put and get are written byte by byte, so a value
past 255 takes two bytes. The actions are `makeSlabDepot`, the save,
`decodeSlabDepot` and `freeSlabDepot`. Their inputs are a thread config's
zone count, where 0 means a tool, and whether the layer can make metadata
VIOs. A format or audit layer cannot, and its depot has no slabs. A
runtime layer comes with at least one zone, because `allocateSlabs`
places slabs by `newSlabCount % zoneCount` (`slabDepot.c:131`). Three
history variables record:
* which depot saved the disk;
* whether the depot in memory was formatted rather than loaded;
* the zone count of the last depot that ran with zones and saved. This is
  the number of summary copies the next load has to combine.

### SlabSummary (`SlabSummary.tla`, `MCSlabSummary.tla/.cfg`)

Only the summary's headers are in the repository. This module takes the
structures from `slabSummaryInternals.h` and the update protocol from
spec §4.3, and models one block of one zone. Blocks have their own
queues, so one block shows the protocol. The variables are:
* `entries`, `writing`, `current`, `next` and `outgoing`: the
  `SlabSummaryBlock` fields;
* `writeCount` and `zoneState`: the `SlabSummaryZone` fields;
* `disk`: the packed bytes on disk;
* `updates`: the history of updates and their answers.

`PackEntry`/`UnpackEntry` are the 16-bit `SlabSummaryEntry` layout:
* bits 7..0 `tailBlockOffset`;
* bits 13..8 `fullnessHint`;
* bit 14 `loadRefCounts`;
* bit 15 `isDirty`.

Since the layout is little-endian, it takes two bytes.

The actions are:
* `updateSlabSummaryEntry`, which sets the entry, queues the waiter on
  `nextUpdateWaiters` and runs `launchWrite` when no write is out;
* the completion or failure of the block write, which answers the current
  waiters and launches the next write or lets a drain finish;
* drain and resume of the zone;
* a crash, which reloads the entries from disk and loses the unanswered
  waiters.

### SummaryReload (`SummaryReload.tla`, `MCSummaryReload.tla/.cfg`)

This module composes the depot's zone-count bookkeeping with the summary's
zone copies across runs of the device. The variables are:
* `disk`: one copy of every slab's entry per zone slot of the partition;
* `recorded`: the zone count in the saved depot state;
* `zoneCount` and `oldZoneCount`: the running depot's fields;
* `entries`: `summary->entries` for every slot;
* `toWrite`: the slots the load has still to write back;
* `acked`: the last acknowledged entry of each slab, a history variable.

The actions are:
* `StartDepotLoad`: `makeSlabDepot` (`oldZoneCount` from the state) and
  `startDepotLoad`, which calls `loadSlabSummary` with
  `zonesToCombine = oldZoneCount`. `CombineZones` takes slab `n` from the
  copy of zone `n mod zonesToCombine`, the only copy the owning allocator
  wrote (`allocateSlabs`). With no zones to combine, every entry starts
  fresh.
* `WriteCombinedZone`: writes the combined copy back, one slot at a time.
* `FinishLoad`: saves the depot state before the device accepts writes.
* `UpdateSlabSummaryEntry` and `WriteSummaryBlock`: the owning zone
  changes and writes its copy. The block protocol itself is checked in
  `SlabSummary`.
* `SaveAndStop`: saves with `zonesToRecord` and stops.
* `ToolSave`: a tool loads and saves the depot with no zones.
* `Crash`: the device stops at any point.

`slabSummary.c` and the device load are not in the repository. The
write-back, the save at the end of the load and the tool's save are
modelled from the header comments and the spec. The end-of-load save
matters. Without it, a run with a new zone count that crashes before any
save leaves the old count recorded. The next load then combines by the
wrong count, and TLC finds `AckedEntriesRecoverable` violated.

### DepotLifecycle (`DepotLifecycle.tla`, `MCDepotLifecycle.tla/.cfg`)

This module models how the depot and its allocators are built and freed:
* `allocateDepot` and `allocateComponents` in `slabDepot.c:213-351`;
* `allocateSlabs` in `slabDepot.c:108-145`;
* `makeBlockAllocator`, its `allocateComponents` and `freeBlockAllocator`
  in `blockAllocator.c:191-313`;
* `freeSlabDepot` in `slabDepot.c:438-463`.

Ownership is tracked in two variables:
* `live[o]`: how many times object `o` was allocated minus how many times
  it was freed;
* `fields`: the set of non-NULL owning pointer fields. These are the
  depot's fields, `depot->allocators[z]`, the `allocatorPtr` local of
  `makeBlockAllocator`, the allocator's parts, and the entries of the slab
  array, which `slabs` and `newSlabs` may both point to.

Each allocation step is an action taking `ok`, so it can fail. A failure
runs the code's own cleanup:
* `makeBlockAllocator` frees the half-built allocator;
* `allocateDepot` calls `freeSlabDepot`, which is NULL-safe field by field.

`listeners` records the zones registered with the read-only notifier.
`FreeDepot` is the teardown of a built depot. A format-only depot stops
after the first allocation.

`OwnershipExact` says that every live object is referenced by exactly as
many fields as it was allocated times, and a freed object by none. So it
catches a leak, a double free and a dangling pointer in one statement.

### RewriteUUID (`RewriteUUID.tla`, `MCRewriteUUID.tla/.cfg`)

This module models `main` and `processArgs` of `vdorewriteuuid`, one step
per call that can fail:
* `registerStatusCodes`;
* argument parsing, with the help exit and the usage exits;
* `makeVDOFromFile`;
* `loadVolumeGeometry`;
* the new UUID and `writeVolumeGeometry`.

The tool may be run again any number of times, with any command line.
`disk` is the geometry block, abstracted to its UUID and the rest of its
fields. `vdoOpen` tracks `makeVDOFromFile`/`freeVDOFromFile`. A failed
write may or may not have reached the disk.

### SlabPriority (`SlabPriority.tla`, `MCSlabPriority.tla/.cfg`)

This module checks the priority policy of `calculateSlabPriority`, with
the `maxPriority` and `unopenedSlabPriority` that `allocateComponents`
computes, for every slab size from 2 to 40 data blocks. It does not
copy the definitions: it instantiates `BlockAllocator` once per size
(`Allocator(d)`) and tabulates its operators in the constant `Policy`. So
the operators checked are the ones the `allocator` run uses. Two slabs
start formatted (every block free, journal blank) and take allocations
and releases. Their priorities are then compared in every pair of free
counts. The properties restate the policy without logarithms:
* a threshold, the binary floor of three quarters of the slab;
* the binary floor of each free count.

### LogicalResize (`LogicalResize.tla`, `MCLogicalResize.tla`, `.cfg`)

This module models `vdoResizeLogical.c` whole. `phase` is
`adminCompletion->phase`, and `pending` is what the sub-task waits for:
the callback, the save, the block map growth or the error handler. Each
`case` of `growLogicalCallback` is an action and advances the phase as
the `switch (phase++)` does. `handleGrowthError` is one action together
with the ERROR case it calls directly. The block map, admin state and
completion dispatch are outside the repository and are abstracted:
* the block map is its current and prepared entry counts;
* `growBlockMap` and the save either succeed or fail, and a failed save
  leaves the old super block;
* a failed sub-task runs its error handler;
* `startOperationWithWaiter` succeeds only on a suspended VDO;
* `finishOperationWithResult` leaves the operation.

## Runs

| Run | Properties | Shows |
|---|---|---|
| `allocator` | `TypeOK`, `SlabsAccountedFor`, `AllocatedBlocksExact`, `PriorityTableConsistent`, `NoSpaceOnlyWhenFull`, `AllocatorHasSlab`, `ScrubbingCompletes`, `TriageEmptiestFirst` | Across every load outcome and any sequence of allocations, releases, scrubs, drains and resumes, the following hold. Every slab is in exactly one place while the zone runs. The allocated statistic is exact. Every queued slab sits in the bucket of its current priority. `VDO_NO_SPACE` means there really is no free block. An open zone always has a slab to allocate from. Background scrubbing finishes unless the zone stays suspended. Triage fills every scrubber ring and priority bucket cleanest first, then emptiest first, as the comment on `compareSlabStatuses` requires. |
| `depot` | `TypeOK`, `SlabObjectsOwned`, `FreeBlocksNeverUnderflow`, `ScrubbingCompletesOnce`, `ReleaseRequestsDelivered`, `ScrubbingFinishes`, `DepotRefinesAbstract` | Across repeated, partly failing and abandoned growths, registration, drains, resumes, release requests and scrubbing, the following hold. Every `Slab` is held exactly once, never leaked or freed twice. `getDepotFreeBlocks` never underflows. Every release request reaches every zone, even when it arrives while the manager is busy with a drain, resume or growth. The scrubbing completion fires once, after the last zone. The depot implements `AbstractSlabDepot`. |
| `resize` | `TypeOK`, `LogicalSizeBacked`, `WritableSizeConsistent`, `GrowLogicalFinishes` | The in-memory logical size is always the saved one or the block map's. A VDO that stays writable agrees in all three places. Every grow operation finishes and leaves the suspended operation. |
| `slab_actor` | `TypeOK`, `CallbackOnceAfterAll`, `ApplyToSlabsCompletes` | This run covers every mix of slab actions finishing inside the launching loop or later, each ok or failed. The actor's callback runs at most once per operation. It runs only after every slab has finished, and by then any slab's error is in the operation result. Every operation eventually runs it. |
| `codec` | `TypeOK`, `SaveLoadRoundTrip`, `SummaryZonesRemembered`, `SlabNumberMatchesLayout` | The following hold across any sequence of formats, saves, tool loads and runtime loads. A load gives back the slab config, first and last block and slab size that the last save encoded. A load learns the zone count of the last depot that ran with zones, even after a tool has loaded and saved with zero zones. `getSlabNumber` matches the slab layout on every block up to one past the end. |
| `summary` | `TypeOK`, `AckedIsDurable`, `SuspendedMeansQuiescent`, `UpdatesAnswered` | The following hold for updates arriving before and during writes, with write failures, drains, resumes and crashes. An update is answered with success only once its packed entry is on disk. The zone suspends only with no write out and nothing queued. Every accepted update is answered unless a crash loses it. |
| `summary_reload` | `TypeOK`, `AckedEntriesRecoverable` | This run covers runs with one or two zones, tool saves with no zones, and crashes at any point, including between the write-backs of two zone slots. For every slab, the recorded zone count always names a zone copy that holds the slab's last acknowledged entry. |
| `lifecycle` | `TypeOK`, `OwnershipExact` | This run builds a depot of one or two zones and one to three slabs. Any allocation may fail, the zone check may refuse the config, and the depot is freed afterwards. Every object is owned by exactly one pointer field, so no error path leaks, frees twice or leaves a dangling pointer. |
| `rewrite_uuid` | `TypeOK`, `ExitStatusDescribesDisk` | The following hold over repeated runs with every command-line shape and every call failing or not. Exit 0 after a rewrite leaves exactly the new UUID on disk. `--help` and any failure before the write leave the disk untouched. |
| `priority` | `UnopenedSlabsRankedByThreshold`, `OpenedSlabsOrderedByMagnitude` | The following hold for every slab size from 2 to 40 blocks. Only a full slab has priority 0, and every priority fits the table. Only never-written slabs take the reserved unopened priority. A written slab outranks them exactly when it has at least the binary floor of three quarters of the slab free. Written slabs are ordered by the power of two of their free count. |
| `resize_restore` (violation) | `ConfigMatchesSuperBlock` | See the finding below. |


Bounds (`allocator`): three slabs of two data blocks. Two data blocks give priorities
0..3 with `unopenedSlabPriority` = 1, so full, blank, one-free and
two-free slabs take different buckets. The reserved bucket is skipped by
the logarithmic mapping (2 free blocks map to 3, not 2). Three slabs give
ties and non-ties in every key of `compareSlabStatuses`, and let a slab be
open while two others are queued or scrubbing. There are 138,344 distinct
states.

Fairness (`allocator`). The zone thread runs every callback it is given. So the steps
that follow an I/O completion are weakly fair: triage, finishing
high-priority scrubbing, and the internal drain/resume steps. The scrubber
is strongly fair, because a drain stops it and each resume restarts it.
Allocation, release, drain requests and resume requests come from callers
and carry no fairness.

Bounds (`depot`):
* Two zones; two slabs at load and room for four.
* One data block per slab.
* Grow sizes {4, 6, 7, 8, 10}: too small, the same slab count twice,
  one new slab per zone, and over `MAX_SLABS`.
* One release request. With two, a request can arrive while a release
  is running, but the run then takes more than four minutes. So that
  case of the `scheduleTailBlockCommit` retry is not checked.
* A 16-value `BlockCount`.

Two zones make the countdown, the per-zone order and the modulo placement
non-trivial. Four slabs allow growth by one or two slabs, or a failure
after zero or one `makeSlab` call. There are 235,842 states (about 2
minutes).

`slab_actor`: four slabs (1, 3, 5, 7), so the count can fall to zero
in the middle of the loop, at its end, and after it, in any order of
later completions (203 states).

`codec`: three slab configs (4 and 2 blocks, and 3 blocks, which is
refused), formats for zero, one, two or three slabs with `MAX_SLABS` = 2, a
first block of 250 so the last block needs two bytes, and zero, one or two
zones (1,374 states). Two zones on a one-slab depot reach the
`VDO_BAD_CONFIGURATION` refusal.

`summary`: two slabs in the block and two entry values that differ in
every field, one of them using the top bits of both bytes. Three updates
let an update arrive during a write, a second write follow, and a failure
or crash fall in between (17,530 states).

`summary_reload`: three slabs, two zone slots, runs with one or two
zones and two entry values, under a symmetry on the values (16,857
states). Slab 1 belongs to zone 0 with one zone and to zone 1 with two.
So a change of zone count moves a slab's live entry to another copy, and
the two values tell a stale entry from the acknowledged one.

`lifecycle`: zone counts {1, 2} and slab counts {1, 2, 3} (202 states).
* Two zones give a failure in the second allocator after the first is
  published.
* Three slabs give a `makeSlab` failure after zero, one or two slabs.
* Two zones with one slab reach the `VDO_BAD_CONFIGURATION` refusal.

`rewrite_uuid`: three UUIDs, so a run can write a new UUID, the same one,
or one an earlier run wrote (120 states).

`priority`: slab sizes 2 to 40 and two slabs (25,571 states). The sizes
cover powers of two and their neighbours, so the threshold and the
reserved priority fall at every position in the table.

`resize`: sizes 1 to 3, enough for a failed growth followed by a second,
larger one (336 states).

Fairness (`depot`). The manager's steps and the per-zone steps are weakly
fair, because every thread runs what is queued to it. Scrubbing is
strongly fair, because a drain stops it. Callers' requests are not fair.
(`slab_actor`) The zone thread finishes the loop it is in, and each
slab's I/O completes, so these steps are weakly fair. Starting another
operation is the caller's choice and is not fair.
(`summary`) The completion of an outstanding write is weakly fair,
because I/O completes and the zone thread runs its callback. Updates,
drains, resumes and crashes carry no fairness.
(`summary_reload`, `rewrite_uuid`, `priority`, `lifecycle`) Safety only. A device may stay off
and a user may never run the tool again, so no step is fair.
(`resize`) The admin thread's callback and error handler steps, and the
I/O completions, are weakly fair; user requests are not.

## Finding

`handleGrowthError` (`vdoResizeLogical.c:111`) restores
`config.logicalBlocks` from the block map whenever the phase is
`GROW_BLOCK_MAP`. Its comment says this means the new size was not written
to the super block. The phase is also `GROW_BLOCK_MAP` when the START phase
refuses a read-only VDO (line 68), because `phase++` has already run. TLC's
trace (12 states) runs as follows:
1. From a logical size of 1, the block map prepares a growth to 2
   (`mapNewEntries = 2`), and a grow to 2 saves the new size, so the
   super block says 2.
2. `growBlockMap` fails, and the VDO goes read-only with the prepared
   growth still in place.
3. A retried `performGrowLogical(2)` takes the read-only path.
4. The handler sets the in-memory size back to the block map's 1 while
   the super block says 2.

This depends on the completion dispatch, which is outside the repository
(a failed sub-task runs its error handler).

## Plan

In order of importance:

1. **BlockAllocator** (done): the allocation policy and accounting.
2. **SlabDepot** (done): several zones under an action manager, modelled from
   the spec. It covers:
   * growth, with partial failure, abandonment and a commit per zone;
   * `getDepotFreeBlocks` racing a resize, checking that the result
     never underflows;
   * tail-block release scheduling while the manager is busy (a liveness
     property);
   * the `zonesToScrub` countdown, checking that the completion fires
     exactly once, after the last zone;
   * a refinement to an abstract depot whose slab count only grows and
     in which slab `n` belongs to zone `n mod zoneCount`.
3. **DepotAlgorithms** (partly done, as DepotCodec): the pure functions
   as operators, checked against reference definitions over bounded
   inputs. Done:
   * `computeSlabCount`/`configureState`;
   * `getSlabNumber` against the slab layout;
   * the 2.0 state encode/decode round trip with `zonesToRecord`.
   * `calculateSlabPriority` ordering (spec §8), as SlabPriority.
   Remaining:
   * `compareSlabStatuses` as a total order. Its comment says it returns 0
     for equal statuses, but the code breaks every tie by slab number and
     never returns 0.
4. **SlabActor** (done): `applyToSlabs` with synchronous and asynchronous
   completions and the launching flag.
5. **SlabSummary** (done for one block): the packed entry, and the
   per-block double-buffered update protocol (spec §4.3), with crashes.
   **SummaryReload** (done): the zone copies, `combineZones` and the
   recorded zone count across runs, with crashes during the write-back.
6. **LogicalResize** (done): the `growLogicalCallback` phase machine with
   failures injected in each phase.
7. **RewriteUUID** (done): the tool's steps and exits.
8. **DepotLifecycle** (done): construction and teardown of the depot and
   its allocators, with any allocation failing.

## Not modelled

* Read-only mode: its entry in `queueSlab` and `getSlab`, and
  `resumeSlabDepot`'s refusal to resume a read-only depot
  (`slabDepot.c:968-972`). The depot model never enters read-only mode,
  because the notifier is outside the repository.
* The VIO pool.
* Statistics other than `allocatedBlocks`.
* Journal replay for recovery loads.
* In the depot: loading (`loadSlabDepot`) and the statistics sums.
  `isPhysicalDataBlock` and `getSlab` are also left out: they depend on
  `slabBlockNumberFromPBN` and the slab array (`slab.c`), which are not in
  the repository. The codec's error returns for a short buffer and a
  failed allocation are not modelled. Every saved buffer has the full size,
  and the header helpers (`encodeHeader`, `validateHeader`) are outside
  the repository, so no state reaches those returns.
* Whether the physical resize (not in the repository) needs exactly the
  size it asked for. After the same-count shortcut of
  `prepareToGrowSlabDepot`, `getNewDepotSize` returns the earlier
  request's size. The same slab count gives the same `configureState`
  result, so that size still describes the prepared slabs. No property
  checks this, because it holds by construction.
* In the summary: the hint computation from free blocks (`hintShift`), the
  `getSummarized*` queries, and the statistics. `combineZones` is
  modelled as taking each slab from its owning zone's copy. That is the
  only copy written for the slab. Spec §9 leaves open any richer merge of
  copies that disagree, and none is modelled.
* In construction: the read-only listener that `makeBlockAllocator`
  registers is recorded but not checked. It is never unregistered, and
  whether a freed allocator is still reachable through it depends on the
  notifier's lifetime. That is decided outside the repository, so it is
  listed as a hazard only. The model also assumes that a runtime depot
  has at least one zone, because the thread config comes from outside the
  repository.
* Statistics, dumps (`dumpBlockAllocator`, `dumpSlabDepot`) and test-only
  hooks. They change no state that a property could tell apart.
* The logger definitions, which have no behaviour to check. The suspend/resume headers appear only as the admin-state
  changes in LogicalResize.
