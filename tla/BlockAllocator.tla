--------------------------- MODULE BlockAllocator ---------------------------
(***************************************************************************)
(* One physical zone's BlockAllocator (src/utils/vdo/base/blockAllocator.c) *)
(* together with the slabs it owns, its priority table of allocatable      *)
(* slabs and its slab scrubber.                                            *)
(*                                                                         *)
(* The state starts where loadBlockAllocator leaves it: every slab has     *)
(* been read, none is on any ring, and the slab summary holds a hint for   *)
(* each slab.  From there the model runs load-time triage                  *)
(* (prepareSlabsForAllocation), high-priority and background scrubbing,    *)
(* allocateBlock and releases of block references, and the drain/resume    *)
(* step machines (doDrainStep / doResumeStep).                             *)
(*                                                                         *)
(* The priority table, the scrubber and the per-slab admin operations are  *)
(* external collaborators whose code is not in this repository excerpt;    *)
(* they are modelled from the spec (section 4.2 and 6).                    *)
(***************************************************************************)
EXTENDS Integers, Sequences, FiniteSets, SequencesExt

CONSTANTS
  Slabs,       \* the slab numbers owned by this zone (a set of naturals)
  DataBlocks,  \* slabConfig.dataBlocks: the free blocks of an empty slab
  NoSlab       \* a model value standing for a NULL slab pointer

ASSUME Slabs \subseteq Nat /\ Slabs # {}
ASSUME DataBlocks \in Nat /\ DataBlocks >= 2
ASSUME NoSlab \notin Slabs

LoadTypes == {"NORMAL_LOAD", "RECOVERY_LOAD", "REBUILD_LOAD"}

VARIABLES
  free,            \* getSlabFreeBlockCount(slab): the slab's true free blocks
  blank,           \* isSlabJournalBlank(slab->journal)
  hint,            \* the slab summary's hints for each slab, read at load
  loadType,        \* depot->loadType
  unrecovered,     \* isUnrecoveredSlab(slab)
  slabPriority,    \* slab->priority, cached when the slab was prioritized
  openSlab,        \* allocator->openSlab
  table,           \* allocator->prioritizedSlabs: bucket -> FIFO of slabs
  scrubHigh,       \* the scrubber's high-priority ring
  scrubNormal,     \* the scrubber's normal ring
  scrubbingAll,    \* scrubAllUnrecoveredSlabsInZone has started scrubSlabs
  scrubberStopped, \* stopScrubbing has run and resumeScrubbing has not
  allocatedBlocks, \* allocator->statistics.allocatedBlocks
  phase,           \* the allocator's admin state, see Phases
  drainStep,       \* allocator->drainStep
  lastResult       \* the result of the most recent allocateBlock

vars == <<free, blank, hint, loadType, unrecovered, slabPriority, openSlab,
          table, scrubHigh, scrubNormal, scrubbingAll, scrubberStopped,
          allocatedBlocks, phase, drainStep, lastResult>>

Phases == {"LOADED", "SCRUBBING_HIGH", "NORMAL", "DRAINING", "SUSPENDED",
           "RESUMING"}

\* The drainStep values of blockAllocatorInternals.h, in their order.
DRAIN_ALLOCATOR_START         == 0
DRAIN_ALLOCATOR_STEP_SCRUBBER == 1
DRAIN_ALLOCATOR_STEP_SLABS    == 2
DRAIN_ALLOCATOR_STEP_SUMMARY  == 3
DRAIN_ALLOCATOR_STEP_FINISHED == 4

-----------------------------------------------------------------------------
(***************************************************************************)
(* Slab priorities (calculateSlabPriority and makePriorityTable).          *)
(***************************************************************************)

\* logBaseTwo from numUtils: the floor of the base-2 logarithm, 0 for 0.
RECURSIVE LogBaseTwo(_)
LogBaseTwo(n) == IF n <= 1 THEN 0 ELSE 1 + LogBaseTwo(n \div 2)

UnopenedSlabPriorityHalf == 1 + LogBaseTwo(DataBlocks \div 2)

\* allocateComponents: the table's highest priority and the reserved
\* priority of slabs whose journal has never been written.
MaxPriority          == 2 + LogBaseTwo(DataBlocks)
UnopenedSlabPriority == 1 + LogBaseTwo((DataBlocks * 3) \div 4)
Priorities           == 0 .. MaxPriority

CalculateSlabPrioritySwapped(n, b) ==
  LET p == 1 + LogBaseTwo(n)
  IN  IF n = 0 THEN 0
      ELSE IF b THEN UnopenedSlabPriority
      ELSE IF p < UnopenedSlabPriority THEN p + 1 ELSE p

\* calculateSlabPriority for a slab with n free blocks and journal blank b.
CalculateSlabPriority(n, b) ==
  LET p == 1 + LogBaseTwo(n)
  IN  IF n = 0 THEN 0
      ELSE IF b THEN UnopenedSlabPriority
      ELSE IF p < UnopenedSlabPriority THEN p ELSE p + 1

PriorityOf(s) == CalculateSlabPriority(free[s], blank[s])

-----------------------------------------------------------------------------
(***************************************************************************)
(* The priority table and the scrubber rings (external, from the spec):   *)
(* enqueue appends to a bucket, dequeue takes the oldest slab of the       *)
(* highest non-empty bucket, remove unsplices a slab from its bucket.      *)
(***************************************************************************)

TableSlabs(t) == UNION {ToSet(t[p]) : p \in Priorities}

TableIsEmpty(t) == \A p \in Priorities : t[p] = <<>>

TopBucket(t) == CHOOSE p \in Priorities :
                  t[p] # <<>> /\ \A q \in Priorities : q > p => t[q] = <<>>

Enqueue(t, p, s) == [t EXCEPT ![p] = Append(@, s)]

RemoveFromTable(t, s) == [p \in Priorities |-> Remove(t[p], s)]

EmptyTable == [p \in Priorities |-> <<>>]

-----------------------------------------------------------------------------
(***************************************************************************)
(* Load-time triage (prepareSlabsForAllocation).                          *)
(***************************************************************************)

PopsBeforeFullestFirst(a, b) ==
  IF hint[a].clean # hint[b].clean THEN hint[a].clean
  ELSE IF free[a] # free[b] THEN free[a] < free[b]
  ELSE a < b

\* compareSlabStatuses(a, b) = 1: a is popped from the heap before b.
\* The summary's emptiness hint is taken to be the slab's free count.
PopsBefore(a, b) ==
  IF hint[a].clean # hint[b].clean THEN hint[a].clean
  ELSE IF free[a] # free[b] THEN free[a] > free[b]
  ELSE a < b

\* The order in which popMaxHeapElement yields this zone's slabs.
TriageOrder == SetToSortSeq(Slabs, PopsBefore)

\* The slab is queued for allocation at once rather than scrubbed.
QueuedAtLoad(s) ==
  \/ loadType = "REBUILD_LOAD"
  \/ ~hint[s].mustLoadRefCounts /\ hint[s].clean

\* registerSlabForScrubbing's highPriority argument.
HighPriorityAtLoad(s) ==
  \/ hint[s].clean /\ loadType = "NORMAL_LOAD"
  \/ hint[s].requiresScrubbing

\* The hints once triage has consumed them.
NoHints == [s \in Slabs |-> [clean |-> FALSE, mustLoadRefCounts |-> FALSE,
                             requiresScrubbing |-> FALSE]]

(***************************************************************************)
(* queueSlab, then prioritizeSlab, for each recovered slab of the sequence *)
(* order in turn, starting from table t and allocated count a: the slab's  *)
(* free blocks leave the allocated count unless the slab is resuming (its  *)
(* blocks were counted when it was first queued), and the slab joins the   *)
(* bucket of its priority, which it caches in slab->priority.              *)
(***************************************************************************)
QueueSlabsIgnoringResume(t, a, order, resuming) ==
  /\ table' = [p \in Priorities |->
                 t[p] \o SelectSeq(order, LAMBDA s : PriorityOf(s) = p)]
  /\ slabPriority' = [s \in Slabs |->
                        IF Contains(order, s) THEN PriorityOf(s)
                        ELSE slabPriority[s]]
  /\ allocatedBlocks' = a - MapThenSumSet(LAMBDA s : free[s], ToSet(order))

QueueSlabs(t, a, order, resuming) ==
  /\ table' = [p \in Priorities |->
                 t[p] \o SelectSeq(order, LAMBDA s : PriorityOf(s) = p)]
  /\ slabPriority' = [s \in Slabs |->
                        IF Contains(order, s) THEN PriorityOf(s)
                        ELSE slabPriority[s]]
  /\ allocatedBlocks' =
       IF resuming THEN a
       ELSE a - MapThenSumSet(LAMBDA s : free[s], ToSet(order))

\* prepareAllocatorToAllocate asks the scrubber to scrub at least one slab
\* when the priority table is empty.
ScrubAtLeastOneNever(t) == FALSE

ScrubAtLeastOne(t) == TableIsEmpty(t)

(***************************************************************************)
(* scrubHighPrioritySlabs (external, from the spec): with scrubAtLeastOne *)
(* and no high-priority slab, the next normal slab is promoted to high     *)
(* priority so that at least one slab is recovered before allocation.      *)
(***************************************************************************)
StartHighPriorityScrubbing(atLeastOne, high, normal) ==
  IF atLeastOne /\ high = <<>> /\ normal # <<>>
    THEN /\ scrubHigh' = <<Head(normal)>>
         /\ scrubNormal' = Tail(normal)
    ELSE /\ scrubHigh' = high
         /\ scrubNormal' = normal

-----------------------------------------------------------------------------

Init ==
  /\ \E f \in [Slabs -> 0 .. DataBlocks], b \in [Slabs -> BOOLEAN] :
       /\ \A s \in Slabs : b[s] => f[s] = DataBlocks
       /\ free = f
       /\ blank = b
  /\ hint \in [Slabs -> [clean : BOOLEAN, mustLoadRefCounts : BOOLEAN,
                         requiresScrubbing : BOOLEAN]]
  /\ loadType \in LoadTypes
  /\ unrecovered = [s \in Slabs |-> FALSE]
  /\ slabPriority = [s \in Slabs |-> 0]
  /\ openSlab = NoSlab
  /\ table = EmptyTable
  /\ scrubHigh = <<>>
  /\ scrubNormal = <<>>
  /\ scrubbingAll = FALSE
  /\ scrubberStopped = FALSE
  /\ allocatedBlocks = 0
  /\ phase = "LOADED"
  /\ drainStep = DRAIN_ALLOCATOR_START
  /\ lastResult = "NONE"

(***************************************************************************)
(* prepareAllocatorToAllocate: prepareSlabsForAllocation pops the slabs in *)
(* TriageOrder and either queues each (queueSlab: subtract its free blocks *)
(* from the pessimistic allocated count, prioritize it) or marks it        *)
(* unrecovered and registers it with the scrubber; then                    *)
(* scrubHighPrioritySlabs starts, told to scrub at least one slab when the *)
(* priority table is empty.                                                *)
(***************************************************************************)
PrepareSlabsForAllocation ==
  LET order  == TriageOrder
      queued == SelectSeq(order, QueuedAtLoad)
      high   == SelectSeq(order, LAMBDA s : ~QueuedAtLoad(s)
                                            /\ HighPriorityAtLoad(s))
      normal == SelectSeq(order, LAMBDA s : ~QueuedAtLoad(s)
                                            /\ ~HighPriorityAtLoad(s))
  IN
  /\ phase = "LOADED"
  \* Every block starts out counted as allocated.
  /\ QueueSlabs(EmptyTable, DataBlocks * Cardinality(Slabs), queued, FALSE)
  /\ unrecovered' = [s \in Slabs |-> ~QueuedAtLoad(s)]
  /\ StartHighPriorityScrubbing(ScrubAtLeastOne(table'), high, normal)
  /\ phase' = "SCRUBBING_HIGH"
  \* The slab statuses are freed and the hints are not read again.
  /\ hint' = NoHints
  /\ loadType' = "NONE"
  /\ lastResult' = "NONE"
  /\ UNCHANGED <<free, blank, openSlab, scrubbingAll, scrubberStopped,
                 drainStep>>

(***************************************************************************)
(* queueSlab for a slab that the scrubber has just recovered: it is not   *)
(* resuming, so its free blocks leave the allocated count, and it joins    *)
(* the priority table.                                                     *)
(***************************************************************************)
ScrubSlab ==
  /\ ~scrubberStopped
  /\ \/ phase = "SCRUBBING_HIGH" /\ scrubHigh # <<>>
     \/ phase = "NORMAL" /\ scrubbingAll /\ (scrubHigh # <<>> \/ scrubNormal # <<>>)
  /\ LET s == IF scrubHigh # <<>> THEN Head(scrubHigh) ELSE Head(scrubNormal)
     IN /\ scrubHigh' = IF scrubHigh # <<>> THEN Tail(scrubHigh) ELSE scrubHigh
        /\ scrubNormal' = IF scrubHigh # <<>> THEN scrubNormal ELSE Tail(scrubNormal)
        /\ unrecovered' = [unrecovered EXCEPT ![s] = FALSE]
        /\ QueueSlabs(table, allocatedBlocks, <<s>>, FALSE)
  /\ lastResult' = "NONE"
  /\ UNCHANGED <<free, blank, hint, loadType, openSlab, scrubbingAll,
                 scrubberStopped, phase, drainStep>>

\* scrubHighPrioritySlabs completes its parent once no high-priority slab
\* is left; the zone is then ready to allocate.
FinishHighPriorityScrubbing ==
  /\ phase = "SCRUBBING_HIGH"
  /\ scrubHigh = <<>>
  /\ phase' = "NORMAL"
  /\ lastResult' = "NONE"
  /\ UNCHANGED <<free, blank, hint, loadType, unrecovered, slabPriority,
                 openSlab, table, scrubHigh, scrubNormal, scrubbingAll,
                 scrubberStopped, allocatedBlocks, drainStep>>

\* scrubAllUnrecoveredSlabsInZone: start scrubbing every unrecovered slab.
ScrubAllUnrecoveredSlabsInZone ==
  /\ phase = "NORMAL"
  /\ ~scrubbingAll
  /\ scrubbingAll' = TRUE
  /\ lastResult' = "NONE"
  /\ UNCHANGED <<free, blank, hint, loadType, unrecovered, slabPriority,
                 openSlab, table, scrubHigh, scrubNormal, scrubberStopped,
                 allocatedBlocks, phase, drainStep>>


-----------------------------------------------------------------------------
(***************************************************************************)
(* Allocation and release.                                                 *)
(***************************************************************************)

\* allocateSlabBlock on slab s: take one free block (a provisional
\* reference, whose confirmation writes the slab's journal), then
\* adjustFreeBlockCount(s, false), which returns early for the open slab.
TakeBlock(s) ==
  /\ free' = [free EXCEPT ![s] = @ - 1]
  /\ blank' = [blank EXCEPT ![s] = FALSE]
  /\ allocatedBlocks' = allocatedBlocks + 1
  /\ lastResult' = "SUCCESS"

(***************************************************************************)
(* The tail of allocateBlock once the open slab, if any, is exhausted: put *)
(* it back in the table at its new priority, make the table's best slab    *)
(* the open slab and try it exactly once.  dirtyAllReferenceBlocks and the *)
(* opened/reopened statistics only touch reference-count I/O and reporting *)
(* and are left out.                                                       *)
(***************************************************************************)
OpenNextSlab ==
  LET requeued == IF openSlab = NoSlab THEN table
                  ELSE Enqueue(table, PriorityOf(openSlab), openSlab)
      top      == TopBucket(requeued)
      next     == Head(requeued[top])
  IN /\ ~TableIsEmpty(requeued)
     /\ slabPriority' = IF openSlab = NoSlab THEN slabPriority
                        ELSE [slabPriority EXCEPT ![openSlab] =
                                PriorityOf(openSlab)]
     /\ table' = [requeued EXCEPT ![top] = Tail(@)]
     /\ openSlab' = next
     /\ IF free[next] > 0
          THEN TakeBlock(next)
          ELSE /\ lastResult' = "NO_SPACE"
               /\ UNCHANGED <<free, blank, allocatedBlocks>>

AllocateBlockWithoutRetry ==
  /\ phase = "NORMAL"
  /\ IF openSlab # NoSlab
       THEN /\ UNCHANGED <<openSlab, table, slabPriority>>
            /\ IF free[openSlab] > 0
                 THEN TakeBlock(openSlab)
                 ELSE /\ lastResult' = "NO_SPACE"
                      /\ UNCHANGED <<free, blank, allocatedBlocks>>
       ELSE OpenNextSlab
  /\ UNCHANGED <<hint, loadType, unrecovered, scrubHigh, scrubNormal,
                 scrubbingAll, scrubberStopped, phase, drainStep>>

\* allocateBlock: allocate from the open slab, or open the next one.
AllocateBlock ==
  /\ phase = "NORMAL"
  /\ IF openSlab # NoSlab /\ free[openSlab] > 0
       THEN /\ TakeBlock(openSlab)
            /\ UNCHANGED <<openSlab, table, slabPriority>>
       ELSE OpenNextSlab
  /\ UNCHANGED <<hint, loadType, unrecovered, scrubHigh, scrubNormal,
                 scrubbingAll, scrubberStopped, phase, drainStep>>

(***************************************************************************)
(* adjustFreeBlockCount(s, increment) for a slab whose reference count has *)
(* just changed: count the block as allocated or freed, then, unless s is  *)
(* the open slab or its priority is unchanged, remove it from the table    *)
(* and prioritize it again.                                                *)
(***************************************************************************)
AdjustFreeBlockCountReversed(s, increment) ==
  LET p == CalculateSlabPriority(free'[s], blank[s]) IN
  /\ allocatedBlocks' = allocatedBlocks + (IF increment THEN 1 ELSE -1)
  /\ IF s = openSlab \/ slabPriority[s] = p
       THEN UNCHANGED <<table, slabPriority>>
       ELSE /\ table' = Enqueue(RemoveFromTable(table, s), p, s)
            /\ slabPriority' = [slabPriority EXCEPT ![s] = p]

AdjustFreeBlockCountRequeuingOpenSlab(s, increment) ==
  LET p == CalculateSlabPriority(free'[s], blank[s]) IN
  /\ allocatedBlocks' = allocatedBlocks + (IF increment THEN -1 ELSE 1)
  /\ IF slabPriority[s] = p
       THEN UNCHANGED <<table, slabPriority>>
       ELSE /\ table' = Enqueue(RemoveFromTable(table, s), p, s)
            /\ slabPriority' = [slabPriority EXCEPT ![s] = p]

AdjustFreeBlockCountWithStalePriority(s, increment) ==
  LET p == CalculateSlabPriority(free[s], blank[s]) IN
  /\ allocatedBlocks' = allocatedBlocks + (IF increment THEN -1 ELSE 1)
  /\ IF s = openSlab \/ slabPriority[s] = p
       THEN UNCHANGED <<table, slabPriority>>
       ELSE /\ table' = Enqueue(RemoveFromTable(table, s), p, s)
            /\ slabPriority' = [slabPriority EXCEPT ![s] = p]

AdjustFreeBlockCount(s, increment) ==
  LET p == CalculateSlabPriority(free'[s], blank[s]) IN
  /\ allocatedBlocks' = allocatedBlocks + (IF increment THEN -1 ELSE 1)
  /\ IF s = openSlab \/ slabPriority[s] = p
       THEN UNCHANGED <<table, slabPriority>>
       ELSE /\ table' = Enqueue(RemoveFromTable(table, s), p, s)
            /\ slabPriority' = [slabPriority EXCEPT ![s] = p]

(***************************************************************************)
(* releaseBlockReference on a block of recovered slab s: the data          *)
(* decrement frees the block and adjustFreeBlockCount(s, true) follows.    *)
(***************************************************************************)
ReleaseBlockReference(s) ==
  /\ phase = "NORMAL"
  /\ ~unrecovered[s]
  /\ free[s] < DataBlocks
  /\ free' = [free EXCEPT ![s] = @ + 1]
  /\ AdjustFreeBlockCount(s, TRUE)
  /\ lastResult' = "NONE"
  /\ UNCHANGED <<blank, hint, loadType, unrecovered, openSlab, scrubHigh,
                 scrubNormal, scrubbingAll, scrubberStopped, phase, drainStep>>

-----------------------------------------------------------------------------
(***************************************************************************)
(* Drain (drainBlockAllocator, doDrainStep) and resume                    *)
(* (resumeBlockAllocator, doResumeStep).  Each action is one invocation of *)
(* the step function, fired by the completion of the previous step.        *)
(***************************************************************************)

\* drainBlockAllocator, then doDrainStep to STEP_SCRUBBER: stopScrubbing.
DrainBlockAllocator ==
  /\ phase = "NORMAL"
  /\ phase' = "DRAINING"
  /\ drainStep' = DRAIN_ALLOCATOR_STEP_SCRUBBER
  /\ scrubberStopped' = TRUE
  /\ lastResult' = "NONE"
  /\ UNCHANGED <<free, blank, hint, loadType, unrecovered, slabPriority,
                 openSlab, table, scrubHigh, scrubNormal, scrubbingAll,
                 allocatedBlocks>>

\* doDrainStep to STEP_SLABS: applyToSlabs(drainSlab) clears the open slab
\* and unsplices every slab from whatever ring holds it; the slab drains
\* then complete.
DrainSlabs ==
  /\ phase = "DRAINING"
  /\ drainStep = DRAIN_ALLOCATOR_STEP_SCRUBBER
  /\ drainStep' = DRAIN_ALLOCATOR_STEP_SLABS
  /\ openSlab' = NoSlab
  /\ table' = EmptyTable
  /\ scrubHigh' = <<>>
  /\ scrubNormal' = <<>>
  /\ UNCHANGED <<free, blank, hint, loadType, unrecovered, slabPriority,
                 scrubbingAll, scrubberStopped, allocatedBlocks, phase,
                 lastResult>>

\* doDrainStep to STEP_SUMMARY: drainSlabSummaryZone.
DrainSummary ==
  /\ phase = "DRAINING"
  /\ drainStep = DRAIN_ALLOCATOR_STEP_SLABS
  /\ drainStep' = DRAIN_ALLOCATOR_STEP_SUMMARY
  /\ UNCHANGED <<free, blank, hint, loadType, unrecovered, slabPriority,
                 openSlab, table, scrubHigh, scrubNormal, scrubbingAll,
                 scrubberStopped, allocatedBlocks, phase, lastResult>>

\* doDrainStep to STEP_FINISHED: finishDrainingWithResult.
FinishDraining ==
  /\ phase = "DRAINING"
  /\ drainStep = DRAIN_ALLOCATOR_STEP_SUMMARY
  /\ drainStep' = DRAIN_ALLOCATOR_STEP_FINISHED
  /\ phase' = "SUSPENDED"
  /\ UNCHANGED <<free, blank, hint, loadType, unrecovered, slabPriority,
                 openSlab, table, scrubHigh, scrubNormal, scrubbingAll,
                 scrubberStopped, allocatedBlocks, lastResult>>

\* resumeBlockAllocator, then doResumeStep down to STEP_SUMMARY:
\* resumeSlabSummaryZone.
ResumeBlockAllocator ==
  /\ phase = "SUSPENDED"
  /\ phase' = "RESUMING"
  /\ drainStep' = DRAIN_ALLOCATOR_STEP_SUMMARY
  /\ UNCHANGED <<free, blank, hint, loadType, unrecovered, slabPriority,
                 openSlab, table, scrubHigh, scrubNormal, scrubbingAll,
                 scrubberStopped, allocatedBlocks, lastResult>>

\* The slab iterator walks from the highest slab number down.
ResumeOrder == SetToSortSeq(Slabs, LAMBDA a, b : a > b)

(***************************************************************************)
(* doResumeStep to STEP_SLABS: applyToSlabs(resumeSlab).  Each resumeSlab *)
(* calls queueSlab while the slab is resuming: an unrecovered slab goes    *)
(* back to the scrubber, any other is prioritized without touching the     *)
(* allocated count, which already accounts for it.                         *)
(***************************************************************************)
ResumeSlabs ==
  LET order == ResumeOrder IN
  /\ phase = "RESUMING"
  /\ drainStep = DRAIN_ALLOCATOR_STEP_SUMMARY
  /\ drainStep' = DRAIN_ALLOCATOR_STEP_SLABS
  /\ openSlab' = NoSlab
  /\ QueueSlabs(EmptyTable, allocatedBlocks,
                SelectSeq(order, LAMBDA s : ~unrecovered[s]), TRUE)
  /\ scrubNormal' = SelectSeq(order, LAMBDA s : unrecovered[s])
  /\ UNCHANGED <<free, blank, hint, loadType, unrecovered, scrubHigh,
                 scrubbingAll, scrubberStopped, phase, lastResult>>

\* doResumeStep to STEP_SCRUBBER: resumeScrubbing.
ResumeScrubbingSkipped ==
  /\ phase = "RESUMING"
  /\ drainStep = DRAIN_ALLOCATOR_STEP_SLABS
  /\ drainStep' = DRAIN_ALLOCATOR_STEP_SCRUBBER
  /\ UNCHANGED <<free, blank, hint, loadType, unrecovered, slabPriority,
                 openSlab, table, scrubHigh, scrubNormal, scrubbingAll,
                 scrubberStopped, allocatedBlocks, phase, lastResult>>

ResumeScrubbing ==
  /\ phase = "RESUMING"
  /\ drainStep = DRAIN_ALLOCATOR_STEP_SLABS
  /\ drainStep' = DRAIN_ALLOCATOR_STEP_SCRUBBER
  /\ scrubberStopped' = FALSE
  /\ UNCHANGED <<free, blank, hint, loadType, unrecovered, slabPriority,
                 openSlab, table, scrubHigh, scrubNormal, scrubbingAll,
                 allocatedBlocks, phase, lastResult>>

\* doResumeStep to START: finishResumingWithResult.
FinishResuming ==
  /\ phase = "RESUMING"
  /\ drainStep = DRAIN_ALLOCATOR_STEP_SCRUBBER
  /\ drainStep' = DRAIN_ALLOCATOR_START
  /\ phase' = "NORMAL"
  /\ UNCHANGED <<free, blank, hint, loadType, unrecovered, slabPriority,
                 openSlab, table, scrubHigh, scrubNormal, scrubbingAll,
                 scrubberStopped, allocatedBlocks, lastResult>>

-----------------------------------------------------------------------------

Next ==
  \/ PrepareSlabsForAllocation
  \/ ScrubSlab
  \/ FinishHighPriorityScrubbing
  \/ ScrubAllUnrecoveredSlabsInZone
  \/ AllocateBlock
  \/ \E s \in Slabs : ReleaseBlockReference(s)
  \/ DrainBlockAllocator
  \/ DrainSlabs
  \/ DrainSummary
  \/ FinishDraining
  \/ ResumeBlockAllocator
  \/ ResumeSlabs
  \/ ResumeScrubbing
  \/ FinishResuming

(***************************************************************************)
(* The zone thread runs every queued callback, so each step that follows  *)
(* an I/O completion is weakly fair.  The scrubber is strongly fair: a     *)
(* drain may stop it, but each resume restarts it.  Allocation, release,   *)
(* drain and resume requests come from callers and are not fair.           *)
(***************************************************************************)
Fairness ==
  /\ WF_vars(PrepareSlabsForAllocation)
  /\ WF_vars(FinishHighPriorityScrubbing)
  /\ SF_vars(ScrubSlab)
  /\ WF_vars(DrainSlabs)
  /\ WF_vars(DrainSummary)
  /\ WF_vars(FinishDraining)
  /\ WF_vars(ResumeSlabs)
  /\ WF_vars(ResumeScrubbing)
  /\ WF_vars(FinishResuming)

Spec == Init /\ [][Next]_vars /\ Fairness

-----------------------------------------------------------------------------
(***************************************************************************)
(* Properties.                                                             *)
(***************************************************************************)

TypeOK ==
  /\ free \in [Slabs -> 0 .. DataBlocks]
  /\ blank \in [Slabs -> BOOLEAN]
  /\ loadType \in LoadTypes \cup {"NONE"}
  /\ unrecovered \in [Slabs -> BOOLEAN]
  /\ slabPriority \in [Slabs -> Priorities]
  /\ openSlab \in Slabs \cup {NoSlab}
  /\ table \in [Priorities -> Seq(Slabs)]
  /\ scrubHigh \in Seq(Slabs) /\ scrubNormal \in Seq(Slabs)
  /\ scrubbingAll \in BOOLEAN /\ scrubberStopped \in BOOLEAN
  /\ allocatedBlocks \in 0 .. DataBlocks * Cardinality(Slabs)
  /\ phase \in Phases
  /\ drainStep \in DRAIN_ALLOCATOR_START .. DRAIN_ALLOCATOR_STEP_FINISHED
  /\ lastResult \in {"NONE", "SUCCESS", "NO_SPACE"}

\* How many of the open-slab slot, the table's buckets and the scrubber's
\* rings hold slab s.
Count(seq, s) == Len(SelectSeq(seq, LAMBDA x : x = s))
Placements(s) ==
  (IF openSlab = s THEN 1 ELSE 0)
  + MapThenSumSet(LAMBDA p : Count(table[p], s), Priorities)
  + Count(scrubHigh, s) + Count(scrubNormal, s)

(***************************************************************************)
(* The slab ring membership of queueSlab, prioritizeSlab, allocateBlock   *)
(* and adjustFreeBlockCount: no slab is ever in two places (open, a        *)
(* priority bucket, a scrubber ring), and while the zone is running every  *)
(* slab is in exactly one of them: in the scrubber iff it is unrecovered.  *)
(***************************************************************************)
SlabsAccountedFor ==
  /\ \A s \in Slabs : Placements(s) <= 1
  /\ phase \in {"SCRUBBING_HIGH", "NORMAL"} =>
       \A s \in Slabs :
         /\ Placements(s) = 1
         /\ unrecovered[s] <=> (Contains(scrubHigh, s) \/ Contains(scrubNormal, s))

(***************************************************************************)
(* The allocated-block statistic kept by prepareSlabsForAllocation,        *)
(* queueSlab and adjustFreeBlockCount is exact once triage has run: a      *)
(* recovered slab counts its used blocks, an unrecovered one counts as     *)
(* full, across allocations, releases, scrubbing, drains and resumes.      *)
(***************************************************************************)
AllocatedBlocksExact ==
  phase # "LOADED" =>
    allocatedBlocks =
      MapThenSumSet(LAMBDA s : IF unrecovered[s] THEN DataBlocks
                               ELSE DataBlocks - free[s], Slabs)

(***************************************************************************)
(* Every slab waiting in the priority table sits in the bucket of its     *)
(* current priority, and slab->priority records that bucket: the cached    *)
(* priority that adjustFreeBlockCount compares against is never stale.     *)
(***************************************************************************)
PriorityTableConsistent ==
  \A p \in Priorities : \A i \in 1 .. Len(table[p]) :
    LET s == table[p][i] IN p = PriorityOf(s) /\ slabPriority[s] = p

(***************************************************************************)
(* allocateBlock reports VDO_NO_SPACE only when no slab that the zone can  *)
(* allocate from (the open slab and every slab in the table) has a free    *)
(* block.                                                                  *)
(***************************************************************************)
NoSpaceOnlyWhenFull ==
  lastResult = "NO_SPACE" =>
    \A s \in TableSlabs(table) \cup ({openSlab} \ {NoSlab}) : free[s] = 0

(***************************************************************************)
(* Once a zone is open for allocation, allocateBlock always has a slab to  *)
(* dequeue: there is an open slab or the table is not empty, even after a  *)
(* dirty load that left every slab unrecovered (scrubHighPrioritySlabs's   *)
(* scrubAtLeastOne).                                                       *)
(***************************************************************************)
AllocatorHasSlab ==
  phase = "NORMAL" => openSlab # NoSlab \/ ~TableIsEmpty(table)

(***************************************************************************)
(* prepareSlabsForAllocation pushes slabs onto the scrubber's rings and    *)
(* the table's buckets "in the same order they are to be popped off":      *)
(* "Popping should always get the most empty first", and a cleaner slab    *)
(* before a dirtier one.  So when triage runs, every ring and every bucket *)
(* it fills lists its slabs cleanest first, then emptiest first, by the    *)
(* summary hints and free counts triage read.  This depends on the sign    *)
(* of each branch of compareSlabStatuses matching the max-heap.            *)
(***************************************************************************)
ComesNoLaterThan(a, b) ==
  \/ hint[a].clean /\ ~hint[b].clean
  \/ hint[a].clean = hint[b].clean /\ free[a] >= free[b]

OrderedForPopping(seq) ==
  \A i, j \in 1 .. Len(seq) : i < j => ComesNoLaterThan(seq[i], seq[j])

TriageEmptiestFirst ==
  [][phase = "LOADED" /\ phase' = "SCRUBBING_HIGH" =>
       /\ OrderedForPopping(scrubHigh') /\ OrderedForPopping(scrubNormal')
       /\ \A p \in Priorities : OrderedForPopping(table'[p])]_vars

(***************************************************************************)
(* Once background scrubbing has been started, every unrecovered slab is  *)
(* eventually recovered, unless the zone is left suspended.                *)
(***************************************************************************)
ScrubbingCompletes ==
  scrubbingAll ~> ((\A s \in Slabs : ~unrecovered[s]) \/ phase = "SUSPENDED")

=============================================================================
