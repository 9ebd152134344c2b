----------------------------- MODULE SlabDepot -----------------------------
(***************************************************************************)
(* The SlabDepot (src/utils/vdo/base/slabDepot.c) across its physical     *)
(* zones: online growth (prepareToGrowSlabDepot, allocateSlabs,            *)
(* abandonNewSlabs, useNewSlabs, registerNewSlabsForAllocator,             *)
(* finishRegistration), drain and resume, tail-block release scheduling,   *)
(* scrubbing of every zone with the zonesToScrub countdown, and            *)
(* getDepotFreeBlocks read while all of this runs.                         *)
(*                                                                         *)
(* Each zone's BlockAllocator is abstracted to what the depot sees of it:  *)
(* its slab count and last slab (registerSlabWithAllocator), its           *)
(* allocatedBlocks statistic and its admin state.  The action manager is   *)
(* modelled from the spec (section 4.1): one action at a time, an optional *)
(* preamble, the per-zone action on every zone in any order, then the      *)
(* conclusion, after which the manager consults the depot's scheduler      *)
(* (scheduleTailBlockCommit, registered in allocateComponents).            *)
(***************************************************************************)
EXTENDS Integers, Sequences, FiniteSets

CONSTANTS
  ZoneCount,         \* depot->zoneCount, the number of physical zones
  InitialSlabCount,  \* slabs in the depot when it is loaded
  MaxSlabs,          \* MAX_SLABS, the most slabs configureState accepts
  SlabBlocks,        \* slabConfig.slabBlocks, a power of two
  FirstBlock,        \* depot->firstBlock
  DataBlocks,        \* slabConfig.dataBlocks
  GrowSizes,         \* the sizes, in blocks, a resize may ask for
  MaxReleaseRequest, \* the largest recovery journal block number released
  BlockCountModulus  \* 2^w: BlockCount arithmetic wraps modulo this

ASSUME ZoneCount \in Nat \ {0}
ASSUME InitialSlabCount \in ZoneCount .. MaxSlabs
ASSUME SlabBlocks \in Nat \ {0} /\ DataBlocks \in 1 .. SlabBlocks
ASSUME GrowSizes \subseteq Nat /\ MaxReleaseRequest \in Nat

Zones   == 0 .. ZoneCount - 1
SlabIds == 0 .. MaxSlabs - 1

VARIABLES
  slabCount,       \* depot->slabCount
  live,            \* live[n]: Slab objects numbered n that exist (not freed)
  slabZone,        \* slabZone[n]: the zone of slab n's allocator (slab->allocator)
  newSlabs,        \* depot->newSlabs # NULL
  newSlabCount,    \* depot->newSlabCount
  newSize,         \* depot->newSize
  resizePrepared,  \* the resize's prepareToGrowSlabDepot returned success
  allocSlabCount,  \* allocator->slabCount, per zone
  allocLastSlab,   \* allocator->lastSlab, per zone
  allocated,       \* allocator->statistics.allocatedBlocks, per zone
  zoneState,       \* each allocator's admin state
  depotState,      \* the action manager's admin state
  amOp,            \* the action the manager is running, or "NONE"
  amPreamble,      \* the action's preamble has yet to run
  amZones,         \* zones whose per-zone action has yet to run
  newReleaseRequest,    \* depot->newReleaseRequest
  activeReleaseRequest, \* depot->activeReleaseRequest
  zoneReleased,    \* the activeReleaseRequest each zone last released up to
  zonesToScrub,    \* depot->zonesToScrub
  zoneScrub,       \* each zone's scrubber: "IDLE", "SCRUBBING" or "DONE"
  scrubCompletions, \* times depot->scrubbingCompletion has been completed
  readerStep,      \* getDepotFreeBlocks: how many of its reads are done
  readerZone,      \* getDepotAllocatedBlocks' loop index
  readerAllocated, \* the allocated total read so far
  readerData,      \* the data block count read
  readerResult     \* the value returned, or -1 while none has been

growthVars  == <<slabCount, live, slabZone, newSlabs, newSlabCount, newSize,
                 resizePrepared>>
zoneVars    == <<allocSlabCount, allocLastSlab, allocated, zoneState>>
managerVars == <<depotState, amOp, amPreamble, amZones>>
releaseVars == <<newReleaseRequest, activeReleaseRequest, zoneReleased>>
scrubVars   == <<zonesToScrub, zoneScrub, scrubCompletions>>
readerVars  == <<readerStep, readerZone, readerAllocated, readerData,
                 readerResult>>
vars == <<growthVars, zoneVars, managerVars, releaseVars, scrubVars,
          readerVars>>

-----------------------------------------------------------------------------
(***************************************************************************)
(* Geometry.                                                               *)
(***************************************************************************)

\* computeSlabCount: the whole slabs between two block numbers.
ComputeSlabCount(firstBlock, lastBlock) == (lastBlock - firstBlock) \div SlabBlocks

ConfigureStateUnlimited(blockCount) ==
  LET count == blockCount \div SlabBlocks IN
  IF count = 0 THEN [result |-> "VDO_NO_SPACE", lastBlock |-> 0]
  ELSE [result |-> "VDO_SUCCESS", lastBlock |-> FirstBlock + count * SlabBlocks]

\* configureState: the last block for a capacity of blockCount blocks, or
\* the error for a capacity of no slab or of more than MAX_SLABS slabs.
ConfigureState(blockCount) ==
  LET count == blockCount \div SlabBlocks IN
  IF count = 0 THEN [result |-> "VDO_NO_SPACE", lastBlock |-> 0]
  ELSE IF count > MaxSlabs THEN [result |-> "VDO_TOO_MANY_SLABS", lastBlock |-> 0]
  ELSE [result |-> "VDO_SUCCESS", lastBlock |-> FirstBlock + count * SlabBlocks]

\* The zone of the allocator a new slab numbered n is made for.
ZoneOfNewSlab(n) == n % ZoneCount

\* The slabs of zone z among the first c slabs.
ZoneShare(c, z) == Cardinality({n \in 0 .. c - 1 : n % ZoneCount = z})

\* getDepotDataBlocks.
DepotDataBlocks == slabCount * DataBlocks

-----------------------------------------------------------------------------
(***************************************************************************)
(* Growth.  prepareToGrowSlabDepot runs abandonNewSlabs and allocateSlabs  *)
(* one after the other, so they are written as functions from the growth   *)
(* fields before the call to the fields after it.                          *)
(***************************************************************************)

Growth == [live |-> live, slabZone |-> slabZone, newSlabs |-> newSlabs,
           newSlabCount |-> newSlabCount, newSize |-> newSize]

SetGrowth(g) ==
  /\ live' = g.live
  /\ slabZone' = g.slabZone
  /\ newSlabs' = g.newSlabs
  /\ newSlabCount' = g.newSlabCount
  /\ newSize' = g.newSize

\* abandonNewSlabs: free the slabs made for a growth (slabCount up to
\* newSlabCount) and forget the growth.
AbandonedFromZero(g) ==
  IF ~g.newSlabs THEN g
  ELSE [g EXCEPT !.live = [n \in SlabIds |->
                             IF n < g.newSlabCount THEN @[n] - 1 ELSE @[n]],
                 !.newSlabCount = 0, !.newSlabs = FALSE, !.newSize = 0]

AbandonedKeepingCount(g) ==
  IF ~g.newSlabs THEN g
  ELSE [g EXCEPT !.live = [n \in SlabIds |->
                             IF slabCount <= n /\ n < g.newSlabCount
                               THEN @[n] - 1 ELSE @[n]],
                 !.newSlabs = FALSE, !.newSize = 0]

Abandoned(g) ==
  IF ~g.newSlabs THEN g
  ELSE [g EXCEPT !.live = [n \in SlabIds |->
                             IF slabCount <= n /\ n < g.newSlabCount
                               THEN @[n] - 1 ELSE @[n]],
                 !.newSlabCount = 0, !.newSlabs = FALSE, !.newSize = 0]

\* allocateSlabs: a new pointer array holding the existing slabs, then new
\* slabs made one by one, each for the allocator of zone n mod zoneCount;
\* made is how many makeSlab calls succeeded before one failed, if any.
SlabsAllocated(g, made) ==
  LET new == {n \in SlabIds : slabCount <= n /\ n < slabCount + made} IN
  [g EXCEPT !.live = [n \in SlabIds |-> IF n \in new THEN @[n] + 1 ELSE @[n]],
            !.slabZone = [n \in SlabIds |->
                            IF n \in new THEN ZoneOfNewSlab(n) ELSE @[n]],
            !.newSlabs = TRUE,
            !.newSlabCount = slabCount + made]

\* The success tail of prepareToGrowSlabDepot: record the size asked for.
GrowthPrepared(g, size) == [g EXCEPT !.newSize = size]

\* getNewDepotSize: the prepared size, or 0 when no growth is prepared.
GetNewDepotSize == IF newSlabs THEN newSize ELSE 0

\* The admin thread may prepare, abandon or commit a growth, or drain or
\* resume the depot, only while no cross-zone operation is running.
AdminIdle == amOp = "NONE"

(***************************************************************************)
(* prepareToGrowSlabDepot(size): reject a size that does not add a slab,   *)
(* configure the new geometry, keep slabs already made for the same count, *)
(* else abandon any old growth and allocate the new slabs, abandoning them *)
(* again if allocation fails part way; on success record the size.         *)
(***************************************************************************)
PrepareToGrowSlabDepot(size) ==
  LET state == ConfigureState(size)
      count == ComputeSlabCount(FirstBlock, state.lastBlock)
  IN
  /\ AdminIdle
  /\ \/ /\ size \div SlabBlocks <= slabCount \/ state.result # "VDO_SUCCESS"
        /\ resizePrepared' = FALSE
        /\ UNCHANGED <<live, slabZone, newSlabs, newSlabCount, newSize>>
     \/ /\ size \div SlabBlocks > slabCount
        /\ state.result = "VDO_SUCCESS"
        /\ count = newSlabCount
        /\ resizePrepared' = TRUE
        /\ UNCHANGED <<live, slabZone, newSlabs, newSlabCount, newSize>>
     \/ /\ size \div SlabBlocks > slabCount
        /\ state.result = "VDO_SUCCESS"
        /\ count # newSlabCount
        /\ \E made \in 0 .. count - slabCount :
             LET g == SlabsAllocated(Abandoned(Growth), made) IN
             IF made < count - slabCount
               THEN SetGrowth(Abandoned(g)) /\ resizePrepared' = FALSE
               ELSE SetGrowth(GrowthPrepared(g, size))
                    /\ resizePrepared' = TRUE
  /\ UNCHANGED <<slabCount, zoneVars, managerVars, releaseVars, scrubVars,
                 readerVars>>

\* abandonNewSlabs called by the resize when it gives up.
AbandonNewSlabs ==
  /\ AdminIdle
  /\ depotState \in {"NORMAL", "SUSPENDED"}
  /\ SetGrowth(Abandoned(Growth))
  /\ resizePrepared' = FALSE
  /\ UNCHANGED <<slabCount, zoneVars, managerVars, releaseVars, scrubVars,
                 readerVars>>

-----------------------------------------------------------------------------
(***************************************************************************)
(* The action manager (external, from the spec): an action runs its        *)
(* preamble, then the per-zone action on each zone, then its conclusion.   *)
(***************************************************************************)

StartAction(op, hasPreamble) ==
  /\ amOp' = op
  /\ amPreamble' = hasPreamble
  /\ amZones' = Zones

\* scheduleTailBlockCommit: start a release unless the requested one is
\* already active; scheduleAction fails while another action is running.
ScheduleTailBlockCommit(request, active, idle) ==
  IF request # active /\ idle
    THEN StartAction("RELEASE", TRUE)
    ELSE UNCHANGED <<amOp, amPreamble, amZones>>

\* When an action concludes the manager is idle and asks the depot's
\* scheduler whether there is more to do.
ConcludeAction ==
  IF newReleaseRequest # activeReleaseRequest
    THEN ScheduleTailBlockCommit(newReleaseRequest, activeReleaseRequest, TRUE)
    ELSE /\ amOp' = "NONE"
         /\ amPreamble' = FALSE
         /\ amZones' = {}

\* A per-zone action of op runs on zone z.
ZoneStep(op, z) ==
  /\ amOp = op
  /\ ~amPreamble
  /\ z \in amZones
  /\ amZones' = amZones \ {z}
  /\ UNCHANGED <<depotState, amOp, amPreamble>>

\* The last per-zone action of op has run.
AllZonesDone(op) == amOp = op /\ ~amPreamble /\ amZones = {}

-----------------------------------------------------------------------------
(***************************************************************************)
(* Loading: prepareToAllocate sets zonesToScrub and runs                    *)
(* prepareAllocatorToAllocate on every zone.                               *)
(***************************************************************************)

PrepareToAllocateWithoutScrubCount ==
  /\ AdminIdle
  /\ \A z \in Zones : zoneState[z] = "LOADED"
  /\ StartAction("PREPARE", FALSE)
  /\ UNCHANGED <<depotState, growthVars, zoneVars, releaseVars, scrubVars,
                 readerVars>>

PrepareToAllocate ==
  /\ AdminIdle
  /\ \A z \in Zones : zoneState[z] = "LOADED"
  /\ zonesToScrub' = ZoneCount
  /\ StartAction("PREPARE", FALSE)
  /\ UNCHANGED <<depotState, growthVars, zoneVars, releaseVars, zoneScrub,
                 scrubCompletions, readerVars>>

PrepareAllocatorToAllocate(z) ==
  /\ ZoneStep("PREPARE", z)
  /\ zoneState' = [zoneState EXCEPT ![z] = "NORMAL"]
  /\ UNCHANGED <<growthVars, allocSlabCount, allocLastSlab, allocated,
                 releaseVars, scrubVars, readerVars>>

FinishPrepareToAllocate ==
  /\ AllZonesDone("PREPARE")
  /\ ConcludeAction
  /\ UNCHANGED <<depotState, growthVars, zoneVars, releaseVars, scrubVars,
                 readerVars>>

-----------------------------------------------------------------------------
(***************************************************************************)
(* Drain, registration of new slabs, resume.                               *)
(***************************************************************************)

\* drainSlabDepot: drainBlockAllocator on every zone.
DrainSlabDepot ==
  /\ AdminIdle
  /\ depotState = "NORMAL"
  /\ \A z \in Zones : zoneState[z] = "NORMAL"
  /\ depotState' = "DRAINING"
  /\ StartAction("DRAIN", FALSE)
  /\ UNCHANGED <<growthVars, zoneVars, releaseVars, scrubVars, readerVars>>

DrainBlockAllocator(z) ==
  /\ ZoneStep("DRAIN", z)
  /\ zoneState' = [zoneState EXCEPT ![z] = "SUSPENDED"]
  /\ UNCHANGED <<growthVars, allocSlabCount, allocLastSlab, allocated,
                 releaseVars, scrubVars, readerVars>>

FinishDrainingSlabDepot ==
  /\ AllZonesDone("DRAIN")
  /\ depotState' = "SUSPENDED"
  /\ ConcludeAction
  /\ UNCHANGED <<growthVars, zoneVars, releaseVars, scrubVars, readerVars>>

\* useNewSlabs, a suspended operation, called by a resize whose
\* prepareToGrowSlabDepot succeeded.
UseNewSlabs ==
  /\ AdminIdle
  /\ depotState = "SUSPENDED"
  /\ resizePrepared
  /\ StartAction("REGISTER", FALSE)
  /\ UNCHANGED <<depotState, growthVars, zoneVars, releaseVars, scrubVars,
                 readerVars>>

\* registerNewSlabsForAllocator: registerSlabWithAllocator for each new
\* slab (slabCount up to newSlabCount) made for zone z's allocator.
RegisterNewSlabsFromZero(z) ==
  LET mine == {n \in SlabIds : n < newSlabCount /\ slabZone[n] = z} IN
  /\ ZoneStep("REGISTER", z)
  /\ allocSlabCount' = [allocSlabCount EXCEPT ![z] = @ + Cardinality(mine)]
  /\ allocLastSlab' = [allocLastSlab EXCEPT ![z] =
                         IF mine = {} THEN @
                         ELSE CHOOSE n \in mine : \A m \in mine : m <= n]
  /\ UNCHANGED <<growthVars, allocated, zoneState, releaseVars, scrubVars,
                 readerVars>>

RegisterNewSlabsForAllocator(z) ==
  LET mine == {n \in SlabIds : slabCount <= n /\ n < newSlabCount
                               /\ slabZone[n] = z} IN
  /\ ZoneStep("REGISTER", z)
  /\ allocSlabCount' = [allocSlabCount EXCEPT ![z] = @ + Cardinality(mine)]
  /\ allocLastSlab' = [allocLastSlab EXCEPT ![z] =
                         IF mine = {} THEN @
                         ELSE CHOOSE n \in mine : \A m \in mine : m <= n]
  /\ UNCHANGED <<growthVars, allocated, zoneState, releaseVars, scrubVars,
                 readerVars>>

\* finishRegistration: the new slabs become the depot's slabs.
FinishRegistration ==
  /\ AllZonesDone("REGISTER")
  /\ slabCount' = newSlabCount
  /\ newSlabs' = FALSE
  /\ newSlabCount' = 0
  /\ resizePrepared' = FALSE
  /\ ConcludeAction
  /\ UNCHANGED <<depotState, live, slabZone, newSize, zoneVars, releaseVars,
                 scrubVars, readerVars>>

\* resumeSlabDepot: resumeBlockAllocator on every zone.
ResumeSlabDepot ==
  /\ AdminIdle
  /\ depotState = "SUSPENDED"
  /\ depotState' = "RESUMING"
  /\ StartAction("RESUME", FALSE)
  /\ UNCHANGED <<growthVars, zoneVars, releaseVars, scrubVars, readerVars>>

ResumeBlockAllocator(z) ==
  /\ ZoneStep("RESUME", z)
  /\ zoneState' = [zoneState EXCEPT ![z] = "NORMAL"]
  /\ UNCHANGED <<growthVars, allocSlabCount, allocLastSlab, allocated,
                 releaseVars, scrubVars, readerVars>>

FinishResumingSlabDepot ==
  /\ AllZonesDone("RESUME")
  /\ depotState' = "NORMAL"
  /\ ConcludeAction
  /\ UNCHANGED <<growthVars, zoneVars, releaseVars, scrubVars, readerVars>>

-----------------------------------------------------------------------------
(***************************************************************************)
(* Tail-block release.  The recovery journal calls                         *)
(* commitOldestSlabJournalTailBlocks with ever larger block numbers.       *)
(***************************************************************************)

CommitOldestSlabJournalTailBlocks(n) ==
  /\ newReleaseRequest < n
  /\ newReleaseRequest' = n
  /\ ScheduleTailBlockCommit(n, activeReleaseRequest, AdminIdle)
  /\ UNCHANGED <<depotState, activeReleaseRequest, zoneReleased, growthVars,
                 zoneVars, scrubVars, readerVars>>

\* prepareForTailBlockCommit, the release action's preamble.
PrepareForTailBlockCommitSkipped ==
  /\ amOp = "RELEASE"
  /\ amPreamble
  /\ amPreamble' = FALSE
  /\ UNCHANGED <<depotState, amOp, amZones, releaseVars, growthVars,
                 zoneVars, scrubVars, readerVars>>

PrepareForTailBlockCommit ==
  /\ amOp = "RELEASE"
  /\ amPreamble
  /\ activeReleaseRequest' = newReleaseRequest
  /\ amPreamble' = FALSE
  /\ UNCHANGED <<depotState, amOp, amZones, newReleaseRequest, zoneReleased,
                 growthVars, zoneVars, scrubVars, readerVars>>

\* releaseTailBlockLocks: zone z releases its slab journals' locks on the
\* recovery journal up to the active request.
ReleaseTailBlockLocks(z) ==
  /\ ZoneStep("RELEASE", z)
  /\ zoneReleased' = [zoneReleased EXCEPT ![z] = activeReleaseRequest]
  /\ UNCHANGED <<newReleaseRequest, activeReleaseRequest, growthVars,
                 zoneVars, scrubVars, readerVars>>

FinishReleasingTailBlockLocks ==
  /\ AllZonesDone("RELEASE")
  /\ ConcludeAction
  /\ UNCHANGED <<depotState, growthVars, zoneVars, releaseVars, scrubVars,
                 readerVars>>

-----------------------------------------------------------------------------
(***************************************************************************)
(* Scrubbing every zone.                                                   *)
(***************************************************************************)

\* scrubAllUnrecoveredSlabs, once the zones are ready to allocate.
ScrubAllUnrecoveredSlabs ==
  /\ AdminIdle
  /\ \A z \in Zones : zoneState[z] # "LOADED" /\ zoneScrub[z] = "IDLE"
  /\ StartAction("SCRUB", FALSE)
  /\ UNCHANGED <<depotState, growthVars, zoneVars, releaseVars, scrubVars,
                 readerVars>>

\* scrubAllUnrecoveredSlabsInZone: zone z's scrubber starts scrubSlabs.
ScrubAllUnrecoveredSlabsInZone(z) ==
  /\ ZoneStep("SCRUB", z)
  /\ zoneScrub' = [zoneScrub EXCEPT ![z] = "SCRUBBING"]
  /\ UNCHANGED <<zonesToScrub, scrubCompletions, growthVars, zoneVars,
                 releaseVars, readerVars>>

FinishStartingScrubbing ==
  /\ AllZonesDone("SCRUB")
  /\ ConcludeAction
  /\ UNCHANGED <<depotState, growthVars, zoneVars, releaseVars, scrubVars,
                 readerVars>>

(***************************************************************************)
(* Zone z's scrubber runs out of slabs and calls                           *)
(* notifyZoneFinishedScrubbing: atomicAdd32 returns the decremented count, *)
(* and the zone that brings it to zero completes the depot's scrubbing.    *)
(* A drained zone's scrubber is stopped.                                   *)
(***************************************************************************)
NotifyZoneFinishedScrubbingOnOldValue(z) ==
  /\ zoneScrub[z] = "SCRUBBING"
  /\ zoneState[z] = "NORMAL"
  /\ zoneScrub' = [zoneScrub EXCEPT ![z] = "DONE"]
  /\ zonesToScrub' = zonesToScrub - 1
  /\ scrubCompletions' = IF zonesToScrub = 0 THEN scrubCompletions + 1
                         ELSE scrubCompletions
  /\ UNCHANGED <<growthVars, zoneVars, managerVars, releaseVars, readerVars>>

NotifyZoneFinishedScrubbing(z) ==
  /\ zoneScrub[z] = "SCRUBBING"
  /\ zoneState[z] = "NORMAL"
  /\ zoneScrub' = [zoneScrub EXCEPT ![z] = "DONE"]
  /\ zonesToScrub' = zonesToScrub - 1
  /\ scrubCompletions' = IF zonesToScrub - 1 = 0 THEN scrubCompletions + 1
                         ELSE scrubCompletions
  /\ UNCHANGED <<growthVars, zoneVars, managerVars, releaseVars, readerVars>>

-----------------------------------------------------------------------------
(***************************************************************************)
(* Each zone allocates and releases blocks on its own thread while it is   *)
(* running, within the slabs registered with it; allocatedBlocks moves by  *)
(* one each time (adjustFreeBlockCount).                                   *)
(***************************************************************************)

ZoneAllocates(z) ==
  /\ zoneState[z] = "NORMAL"
  /\ allocated[z] < allocSlabCount[z] * DataBlocks
  /\ allocated' = [allocated EXCEPT ![z] = @ + 1]
  /\ UNCHANGED <<growthVars, allocSlabCount, allocLastSlab, zoneState,
                 managerVars, releaseVars, scrubVars, readerVars>>

ZoneReleases(z) ==
  /\ zoneState[z] = "NORMAL"
  /\ allocated[z] > 0
  /\ allocated' = [allocated EXCEPT ![z] = @ - 1]
  /\ UNCHANGED <<growthVars, allocSlabCount, allocLastSlab, zoneState,
                 managerVars, releaseVars, scrubVars, readerVars>>

-----------------------------------------------------------------------------
(***************************************************************************)
(* getDepotFreeBlocks, called from any thread without a lock: sum the      *)
(* zones' allocated counts one zone at a time (getDepotAllocatedBlocks),   *)
(* fence, read the data block count, and return the BlockCount            *)
(* difference, which wraps modulo 2^64.                                    *)
(***************************************************************************)

FreeBlocksReadOrderReversed == <<"DATA", "ALLOCATED">>

FreeBlocksReadOrder == <<"ALLOCATED", "DATA">>

ReaderIdle == readerStep = 0 \/ readerStep = Len(FreeBlocksReadOrder) + 1

\* Move to the next read; after the last one, return data - allocated.
ReaderAdvance(data, total) ==
  /\ readerStep' = readerStep + 1
  /\ readerResult' = IF readerStep' = Len(FreeBlocksReadOrder) + 1
                       THEN (data - total) % BlockCountModulus
                       ELSE readerResult

StartGetDepotFreeBlocks ==
  /\ ReaderIdle
  /\ readerStep' = 1
  /\ readerZone' = 0
  /\ readerAllocated' = 0
  /\ readerData' = 0
  /\ readerResult' = -1
  /\ UNCHANGED <<growthVars, zoneVars, managerVars, releaseVars, scrubVars>>

\* One iteration of getDepotAllocatedBlocks' loop.
ReadZoneAllocatedBlocks ==
  LET total == readerAllocated + allocated[readerZone] IN
  /\ ~ReaderIdle
  /\ FreeBlocksReadOrder[readerStep] = "ALLOCATED"
  /\ readerAllocated' = total
  /\ IF readerZone = ZoneCount - 1
       THEN /\ readerZone' = 0
            /\ ReaderAdvance(readerData, total)
       ELSE /\ readerZone' = readerZone + 1
            /\ UNCHANGED <<readerStep, readerResult>>
  /\ UNCHANGED <<readerData, growthVars, zoneVars, managerVars, releaseVars,
                 scrubVars>>

\* getDepotDataBlocks.
ReadDepotDataBlocks ==
  /\ ~ReaderIdle
  /\ FreeBlocksReadOrder[readerStep] = "DATA"
  /\ readerData' = DepotDataBlocks
  /\ ReaderAdvance(DepotDataBlocks, readerAllocated)
  /\ UNCHANGED <<readerZone, readerAllocated, growthVars, zoneVars,
                 managerVars, releaseVars, scrubVars>>

-----------------------------------------------------------------------------

(***************************************************************************)
(* The depot as allocateComponents leaves it and loadSlabDepot has loaded  *)
(* it: the initial slabs registered round-robin with the zones, each       *)
(* zone's allocated count anything its slabs can hold.                     *)
(***************************************************************************)
Init ==
  /\ slabCount = InitialSlabCount
  /\ live = [n \in SlabIds |-> IF n < InitialSlabCount THEN 1 ELSE 0]
  /\ slabZone = [n \in SlabIds |-> ZoneOfNewSlab(n)]
  /\ newSlabs = FALSE
  /\ newSlabCount = 0
  /\ newSize = 0
  /\ resizePrepared = FALSE
  /\ allocSlabCount = [z \in Zones |-> ZoneShare(InitialSlabCount, z)]
  /\ allocLastSlab = [z \in Zones |->
                        CHOOSE n \in 0 .. InitialSlabCount - 1 :
                          /\ n % ZoneCount = z
                          /\ \A m \in 0 .. InitialSlabCount - 1 :
                               m % ZoneCount = z => m <= n]
  /\ allocated \in {a \in [Zones -> 0 .. MaxSlabs * DataBlocks] :
                      \A z \in Zones : a[z] <= allocSlabCount[z] * DataBlocks}
  /\ zoneState = [z \in Zones |-> "LOADED"]
  /\ depotState = "NORMAL"
  /\ amOp = "NONE"
  /\ amPreamble = FALSE
  /\ amZones = {}
  /\ newReleaseRequest = 0
  /\ activeReleaseRequest = 0
  /\ zoneReleased = [z \in Zones |-> 0]
  /\ zonesToScrub = 0
  /\ zoneScrub = [z \in Zones |-> "IDLE"]
  /\ scrubCompletions = 0
  /\ readerStep = 0
  /\ readerZone = 0
  /\ readerAllocated = 0
  /\ readerData = 0
  /\ readerResult = -1

Next ==
  \/ \E size \in GrowSizes : PrepareToGrowSlabDepot(size)
  \/ AbandonNewSlabs
  \/ PrepareToAllocate
  \/ FinishPrepareToAllocate
  \/ DrainSlabDepot
  \/ FinishDrainingSlabDepot
  \/ UseNewSlabs
  \/ FinishRegistration
  \/ ResumeSlabDepot
  \/ FinishResumingSlabDepot
  \/ \E n \in 1 .. MaxReleaseRequest : CommitOldestSlabJournalTailBlocks(n)
  \/ PrepareForTailBlockCommit
  \/ FinishReleasingTailBlockLocks
  \/ ScrubAllUnrecoveredSlabs
  \/ FinishStartingScrubbing
  \/ StartGetDepotFreeBlocks
  \/ ReadZoneAllocatedBlocks
  \/ ReadDepotDataBlocks
  \/ \E z \in Zones :
       \/ PrepareAllocatorToAllocate(z)
       \/ DrainBlockAllocator(z)
       \/ RegisterNewSlabsForAllocator(z)
       \/ ResumeBlockAllocator(z)
       \/ ReleaseTailBlockLocks(z)
       \/ ScrubAllUnrecoveredSlabsInZone(z)
       \/ NotifyZoneFinishedScrubbing(z)
       \/ ZoneAllocates(z)
       \/ ZoneReleases(z)

(***************************************************************************)
(* Every thread runs the callbacks queued to it, so each step of an action *)
(* the manager has started is weakly fair.  A zone's scrubber is strongly  *)
(* fair: a drain stops it and a resume restarts it.  Growth, drain and     *)
(* resume requests, journal release requests, allocations and readers come *)
(* from callers and are not fair.                                          *)
(***************************************************************************)
Fairness ==
  /\ WF_vars(FinishPrepareToAllocate)
  /\ WF_vars(FinishDrainingSlabDepot)
  /\ WF_vars(FinishRegistration)
  /\ WF_vars(FinishResumingSlabDepot)
  /\ WF_vars(PrepareForTailBlockCommit)
  /\ WF_vars(FinishReleasingTailBlockLocks)
  /\ WF_vars(FinishStartingScrubbing)
  /\ \A z \in Zones :
       /\ WF_vars(PrepareAllocatorToAllocate(z))
       /\ WF_vars(DrainBlockAllocator(z))
       /\ WF_vars(RegisterNewSlabsForAllocator(z))
       /\ WF_vars(ResumeBlockAllocator(z))
       /\ WF_vars(ReleaseTailBlockLocks(z))
       /\ WF_vars(ScrubAllUnrecoveredSlabsInZone(z))
       /\ SF_vars(NotifyZoneFinishedScrubbing(z))

Spec == Init /\ [][Next]_vars /\ Fairness

-----------------------------------------------------------------------------
(***************************************************************************)
(* Properties.                                                             *)
(***************************************************************************)

TypeOK ==
  /\ slabCount \in 1 .. MaxSlabs
  /\ live \in [SlabIds -> 0 .. 2]
  /\ slabZone \in [SlabIds -> Zones]
  /\ newSlabs \in BOOLEAN /\ resizePrepared \in BOOLEAN
  /\ newSlabCount \in 0 .. MaxSlabs
  /\ newSize \in {0} \cup GrowSizes
  /\ allocSlabCount \in [Zones -> 0 .. MaxSlabs]
  /\ allocLastSlab \in [Zones -> SlabIds]
  /\ allocated \in [Zones -> 0 .. MaxSlabs * DataBlocks]
  /\ zoneState \in [Zones -> {"LOADED", "NORMAL", "SUSPENDED"}]
  /\ depotState \in {"NORMAL", "DRAINING", "SUSPENDED", "RESUMING"}
  /\ amOp \in {"NONE", "PREPARE", "DRAIN", "REGISTER", "RESUME", "RELEASE",
               "SCRUB"}
  /\ amPreamble \in BOOLEAN /\ amZones \subseteq Zones
  /\ newReleaseRequest \in 0 .. MaxReleaseRequest
  /\ activeReleaseRequest \in 0 .. MaxReleaseRequest
  /\ zoneReleased \in [Zones -> 0 .. MaxReleaseRequest]
  /\ zonesToScrub \in 0 .. ZoneCount
  /\ zoneScrub \in [Zones -> {"IDLE", "SCRUBBING", "DONE"}]
  /\ scrubCompletions \in Nat
  /\ readerStep \in 0 .. Len(FreeBlocksReadOrder) + 1
  /\ readerResult \in -1 .. BlockCountModulus - 1

(***************************************************************************)
(* Every Slab object that exists is held exactly once by the depot: in     *)
(* depot->slabs below slabCount, or in a pending growth's newSlabs below   *)
(* newSlabCount.  Across partial allocation failures, abandoned and        *)
(* repeated growths and registration, no slab is leaked, freed while in    *)
(* use, or made twice (allocateSlabs, abandonNewSlabs, finishRegistration). *)
(***************************************************************************)
SlabObjectsOwned ==
  \A n \in SlabIds :
    live[n] = IF n < slabCount \/ (newSlabs /\ n < newSlabCount) THEN 1 ELSE 0

(***************************************************************************)
(* getDepotFreeBlocks never returns a count larger than the data blocks it *)
(* read: the unsigned subtraction does not wrap, however allocations,      *)
(* releases and a resize interleave with its reads.                        *)
(***************************************************************************)
FreeBlocksNeverUnderflow ==
  readerResult # -1 => readerResult <= readerData

(***************************************************************************)
(* Every release request commitOldestSlabJournalTailBlocks makes reaches   *)
(* every zone's releaseTailBlockLocks, even when it arrives while the      *)
(* action manager is busy and scheduleTailBlockCommit cannot start it.     *)
(***************************************************************************)
ReleaseRequestsDelivered ==
  \A n \in 1 .. MaxReleaseRequest :
    newReleaseRequest = n ~> \A z \in Zones : zoneReleased[z] >= n

(***************************************************************************)
(* notifyZoneFinishedScrubbing completes the depot's scrubbing completion  *)
(* exactly when the last zone has finished, and never twice;               *)
(* hasUnrecoveredSlabs (zonesToScrub > 0) holds until then.                *)
(***************************************************************************)
ScrubbingCompletesOnce ==
  /\ scrubCompletions <= 1
  /\ (scrubCompletions = 1) <=> (\A z \in Zones : zoneScrub[z] = "DONE")
  /\ (\A z \in Zones : zoneState[z] # "LOADED") =>
       ((zonesToScrub > 0) <=> (\E z \in Zones : zoneScrub[z] # "DONE"))

(***************************************************************************)
(* Once scrubAllUnrecoveredSlabs has started the zones' scrubbers, the     *)
(* depot's scrubbing completion eventually fires unless the depot is left  *)
(* suspended.                                                              *)
(***************************************************************************)
ScrubbingFinishes ==
  (\E z \in Zones : zoneScrub[z] # "IDLE")
    ~> (scrubCompletions = 1 \/ depotState = "SUSPENDED")

(***************************************************************************)
(* The depot implements AbstractSlabDepot: with growth prepared off to the *)
(* side, registered zone by zone and made visible by finishRegistration,   *)
(* the slab count only grows, and every zone allocates only within the     *)
(* visible slabs numbered n with n mod zoneCount equal to its own.  The    *)
(* abstract slab count is depot->slabCount (not newSlabCount, which stays *)
(* invisible until useNewSlabs), and a zone's allocated blocks are its     *)
(* allocator's allocatedBlocks statistic.                                  *)
(***************************************************************************)
Abstract == INSTANCE AbstractSlabDepot
              WITH ZoneCount <- ZoneCount,
                   InitialSlabCount <- InitialSlabCount,
                   MaxSlabs <- MaxSlabs,
                   DataBlocks <- DataBlocks,
                   slabCount <- slabCount,
                   allocated <- allocated

DepotRefinesAbstract == Abstract!Spec

=============================================================================
