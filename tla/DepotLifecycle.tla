--------------------------- MODULE DepotLifecycle ---------------------------
(***************************************************************************)
(* Construction and teardown of the slab depot and its block allocators:   *)
(* makeSlabDepot's allocateDepot, the depot's allocateComponents with one  *)
(* makeBlockAllocator per zone and allocateSlabs, and freeSlabDepot.  Any  *)
(* allocation may fail, and each error path frees what was made: the       *)
(* allocator's own freeBlockAllocator, then allocateDepot's freeSlabDepot.  *)
(*                                                                         *)
(* Memory is abstracted to the objects made (live counts how many times   *)
(* each was made minus how many times it was freed) and the pointer fields *)
(* that refer to them: the fields of the depot and allocator structures,   *)
(* the slab pointer array's entries, and the local pointers of the calls   *)
(* in progress.  A free frees the objects its non-NULL pointers refer to.  *)
(* The read-only notifier's reference to each allocator is kept apart: no  *)
(* code here ever removes it.                                             *)
(***************************************************************************)
EXTENDS Naturals, FiniteSets, Sequences

CONSTANTS
  ZoneCounts,  \* threadConfig->physicalZoneCount values
  SlabCounts   \* slab counts the depot state can describe

MaxZones == CHOOSE m \in ZoneCounts : \A z \in ZoneCounts : z <= m
MaxSlabs == CHOOSE m \in SlabCounts : \A s \in SlabCounts : s <= m
ZoneIds  == 0 .. MaxZones - 1
SlabIds  == 0 .. MaxSlabs - 1

\* The parts makeBlockAllocator's allocateComponents makes, in its order;
\* "listener" is registerReadOnlyListener.
AllocatorSteps == <<"allocator", "listener", "completion", "vioPool",
                    "scrubber", "priorityTable">>
AllocatorParts == {"completion", "vioPool", "scrubber", "priorityTable"}

Objs ==
  ({"depot", "scrubbingCompletion", "actionManager", "slabSummary",
    "slabArray"} \X {0})
  \cup (({"allocator"} \cup AllocatorParts) \X ZoneIds)
  \cup ({"slab"} \X SlabIds)

Fields ==
  ({"depotPtr", "scrubbingCompletion", "actionManager", "slabSummary",
    "slabs", "newSlabs"} \X {0})
  \cup (({"allocators", "allocatorPtr"} \cup AllocatorParts) \X ZoneIds)
  \cup ({"slabEntry"} \X SlabIds)

\* The object a pointer field refers to when it is not NULL.
Target(f) ==
  CASE f[1] = "depotPtr"                        -> <<"depot", 0>>
    [] f[1] \in {"slabs", "newSlabs"}           -> <<"slabArray", 0>>
    [] f[1] \in {"allocators", "allocatorPtr"}  -> <<"allocator", f[2]>>
    [] f[1] = "slabEntry"                       -> <<"slab", f[2]>>
    [] OTHER                                    -> f

VARIABLES
  pc,           \* the step of makeSlabDepot in progress, or "idle"
  zone,         \* the zone whose makeBlockAllocator is running
  part,         \* the index in AllocatorSteps of its next step
  live,         \* per object: times made minus times freed
  fields,       \* the pointer fields that are not NULL
  zoneCount,    \* depot->zoneCount
  slabTarget,   \* calculateSlabCount(depot) for the state being loaded
  slabCount,    \* depot->slabCount
  newSlabCount, \* depot->newSlabCount
  listeners,    \* zones whose allocator is registered with the notifier
  result        \* what the last makeSlabDepot returned

vars == <<pc, zone, part, live, fields, zoneCount, slabTarget, slabCount,
          newSlabCount, listeners, result>>

\* Pointer fields made non-NULL, or freed through, in one step.
Acquire(f) ==
  /\ live' = [live EXCEPT ![Target(f)] = @ + 1]
  /\ fields' = fields \cup {f}

\* The fields freed through: each frees its target once.
Release(F) ==
  live' = [o \in Objs |-> live[o] - Cardinality({f \in F : Target(f) = o})]

\* freeBlockAllocator through pointer ptr: the allocator's parts, then the
\* allocator; nothing for a NULL pointer.
FreeBlockAllocator(ptr) ==
  IF ptr \notin fields THEN {}
  ELSE ({<<p, ptr[2]>> : p \in AllocatorParts} \cap fields) \cup {ptr}

(***************************************************************************)
(* freeSlabDepot: abandonNewSlabs, freeBlockAllocator for every zone, the  *)
(* registered slabs and their array, the action manager, the summary, the  *)
(* scrubbing completion and the depot.  Every free is NULL-safe.           *)
(***************************************************************************)
FreeSlabDepot ==
  IF <<"depotPtr", 0>> \notin fields THEN {}
  ELSE LET abandon ==
             IF <<"newSlabs", 0>> \in fields
               THEN {<<"slabEntry", n>> : n \in slabCount .. newSlabCount - 1}
                    \cup {<<"newSlabs", 0>>}
               ELSE {}
           allocators ==
             UNION {FreeBlockAllocator(<<"allocators", z>>) :
                      z \in 0 .. zoneCount - 1}
           slabs ==
             IF <<"slabs", 0>> \in fields
               THEN {<<"slabEntry", n>> : n \in 0 .. slabCount - 1}
                    \cup {<<"slabs", 0>>}
               ELSE {}
       IN (abandon \cup allocators \cup slabs \cup {<<"depotPtr", 0>>}
           \cup {<<"actionManager", 0>>, <<"slabSummary", 0>>,
                 <<"scrubbingCompletion", 0>>}) \cap fields

\* A failed step: free the fields F, and the locals go out of scope.
Fail(F) ==
  /\ Release(F)
  /\ fields' = (fields \ F) \ {<<"depotPtr", 0>>, <<"allocatorPtr", zone>>}
  /\ pc' = "idle"
  /\ result' = "error"
  /\ zoneCount' = 0 /\ slabCount' = 0 /\ newSlabCount' = 0

\* A step of the depot's allocateComponents that makes the object of field
\* f; on failure, allocateDepot frees the depot.
DepotStep(from, to, f, ok) ==
  /\ pc = from
  /\ IF ok THEN Acquire(f) /\ pc' = to /\ UNCHANGED <<result, zoneCount,
                                                        slabCount, newSlabCount>>
           ELSE Fail(FreeSlabDepot)
  /\ UNCHANGED <<zone, part, slabTarget, listeners>>

-----------------------------------------------------------------------------

(***************************************************************************)
(* makeSlabDepot (or decodeSlabDepot) reaching allocateDepot: the depot    *)
(* structure is allocated with zoneCount from the thread config.  A depot  *)
(* for a format-only layer (no createMetadataVIO) stops there.  Each VDO   *)
(* instance has its own read-only notifier.                                *)
(***************************************************************************)
MakeSlabDepot(zones, slabs, runtime, ok) ==
  /\ pc = "idle"
  /\ <<"depotPtr", 0>> \notin fields
  /\ listeners' = {}
  /\ IF ok
       THEN /\ Acquire(<<"depotPtr", 0>>)
            /\ zoneCount' = zones /\ slabTarget' = slabs
            /\ pc' = IF runtime THEN "completion" ELSE "idle"
            /\ result' = IF runtime THEN "none" ELSE "success"
       ELSE /\ result' = "error"
            /\ UNCHANGED <<live, fields, zoneCount, slabTarget, pc>>
  /\ UNCHANGED <<zone, part, slabCount, newSlabCount>>

InitializeScrubbingCompletion(ok) ==
  DepotStep("completion", "actionManager", <<"scrubbingCompletion", 0>>, ok)

MakeActionManager(ok) ==
  DepotStep("actionManager", "summary", <<"actionManager", 0>>, ok)

MakeSlabSummary(ok) ==
  DepotStep("summary", "zoneCheck", <<"slabSummary", 0>>, ok)

\* More physical zones than slabs is VDO_BAD_CONFIGURATION.
CheckZoneCount ==
  /\ pc = "zoneCheck"
  /\ IF zoneCount > slabTarget
       THEN Fail(FreeSlabDepot) /\ UNCHANGED <<zone, part>>
       ELSE /\ pc' = "allocators" /\ zone' = 0 /\ part' = 1
            /\ UNCHANGED <<live, fields, result, zoneCount, slabCount,
                           newSlabCount>>
  /\ UNCHANGED <<slabTarget, listeners>>

\* The allocator's step made no object but registered it with the notifier,
\* or made the part it names.
MadePart(p) ==
  CASE p = "allocator" -> Acquire(<<"allocatorPtr", zone>>)
                          /\ UNCHANGED listeners
    [] p = "listener"  -> listeners' = listeners \cup {zone}
                          /\ UNCHANGED <<live, fields>>
    [] OTHER           -> Acquire(<<p, zone>>) /\ UNCHANGED listeners

MakeAllocatorPartPublishingEarly(ok) ==
  LET p == AllocatorSteps[part] IN
  /\ pc = "allocators"
  /\ IF ok
       THEN /\ IF p = "allocator"
                 THEN /\ live' = [live EXCEPT ![<<"allocator", zone>>] = @ + 1]
                      /\ fields' = fields \cup {<<"allocatorPtr", zone>>,
                                                <<"allocators", zone>>}
                      /\ UNCHANGED listeners
                 ELSE MadePart(p)
            /\ IF part < Len(AllocatorSteps)
                 THEN part' = part + 1 /\ UNCHANGED <<pc, zone>>
                 ELSE /\ part' = 1
                      /\ zone' = zone + 1
                      /\ pc' = IF zone + 1 < zoneCount THEN "allocators"
                               ELSE "slabArray"
            /\ UNCHANGED <<result, zoneCount, slabCount, newSlabCount>>
       ELSE /\ Fail(FreeBlockAllocator(<<"allocatorPtr", zone>>)
                    \cup FreeSlabDepot)
            /\ zone' = 0 /\ part' = 1
            /\ UNCHANGED listeners
  /\ UNCHANGED slabTarget

(***************************************************************************)
(* One step of makeBlockAllocator for the current zone: ALLOCATE, then     *)
(* allocateComponents' registerReadOnlyListener, initializeEnqueueable-    *)
(* Completion, makeVIOPool, makeSlabScrubber and makePriorityTable.  After *)
(* the last, *allocatorPtr publishes it in depot->allocators.  On failure  *)
(* makeBlockAllocator frees the allocator, and allocateDepot the depot.    *)
(***************************************************************************)
MakeAllocatorPart(ok) ==
  LET p == AllocatorSteps[part] IN
  /\ pc = "allocators"
  /\ IF ok
       THEN /\ IF part < Len(AllocatorSteps)
                 THEN /\ MadePart(p)
                      /\ part' = part + 1
                      /\ UNCHANGED <<pc, zone>>
                 ELSE /\ live' = [live EXCEPT ![<<p, zone>>] = @ + 1]
                      /\ fields' = (fields \cup {<<p, zone>>, <<"allocators", zone>>})
                                   \ {<<"allocatorPtr", zone>>}
                      /\ UNCHANGED listeners
                      /\ part' = 1
                      /\ zone' = zone + 1
                      /\ pc' = IF zone + 1 < zoneCount THEN "allocators"
                               ELSE "slabArray"
            /\ UNCHANGED <<result, zoneCount, slabCount, newSlabCount>>
       ELSE /\ Fail(FreeBlockAllocator(<<"allocatorPtr", zone>>)
                    \cup FreeSlabDepot)
            /\ zone' = 0 /\ part' = 1
            /\ UNCHANGED listeners
  /\ UNCHANGED slabTarget

\* allocateSlabs: the pointer array (no slabs registered yet to copy).
AllocateSlabArray(ok) ==
  /\ pc = "slabArray"
  /\ IF ok THEN /\ Acquire(<<"newSlabs", 0>>)
                /\ newSlabCount' = slabCount
                /\ pc' = "makeSlab"
                /\ UNCHANGED <<result, zoneCount, slabCount>>
           ELSE Fail(FreeSlabDepot)
  /\ UNCHANGED <<zone, part, slabTarget, listeners>>

\* allocateSlabs' loop: makeSlab for the next slab, counted only once made
\* so that abandonNewSlabs frees exactly the slabs made.
MakeSlab(ok) ==
  /\ pc = "makeSlab"
  /\ newSlabCount < slabTarget
  /\ IF ok THEN /\ Acquire(<<"slabEntry", newSlabCount>>)
                /\ newSlabCount' = newSlabCount + 1
                /\ UNCHANGED <<pc, result, zoneCount, slabCount>>
           ELSE Fail(FreeSlabDepot)
  /\ UNCHANGED <<zone, part, slabTarget, listeners>>

UseNewSlabsKeepingNewSlabs ==
  /\ pc = "makeSlab"
  /\ newSlabCount = slabTarget
  /\ slabCount' = newSlabCount
  /\ fields' = fields \cup {<<"slabs", 0>>}
  /\ newSlabCount' = 0
  /\ pc' = "idle"
  /\ result' = "success"
  /\ UNCHANGED <<zone, part, live, zoneCount, slabTarget, listeners>>

(***************************************************************************)
(* The end of allocateComponents: every new slab is registered with its    *)
(* allocator and counted, depot->slabs takes the array and newSlabs is     *)
(* cleared; makeSlabDepot hands the depot to its caller.                   *)
(***************************************************************************)
UseNewSlabs ==
  /\ pc = "makeSlab"
  /\ newSlabCount = slabTarget
  /\ slabCount' = newSlabCount
  /\ fields' = (fields \cup {<<"slabs", 0>>}) \ {<<"newSlabs", 0>>}
  /\ newSlabCount' = 0
  /\ pc' = "idle"
  /\ result' = "success"
  /\ UNCHANGED <<zone, part, live, zoneCount, slabTarget, listeners>>

\* freeSlabDepot when the VDO is torn down.
FreeDepot ==
  /\ pc = "idle"
  /\ <<"depotPtr", 0>> \in fields
  /\ Release(FreeSlabDepot)
  /\ fields' = fields \ FreeSlabDepot
  /\ zoneCount' = 0 /\ slabCount' = 0 /\ newSlabCount' = 0
  /\ UNCHANGED <<pc, zone, part, slabTarget, listeners, result>>

Init ==
  /\ pc = "idle"
  /\ zone = 0
  /\ part = 1
  /\ live = [o \in Objs |-> 0]
  /\ fields = {}
  /\ zoneCount = 0
  /\ slabTarget = 0
  /\ slabCount = 0
  /\ newSlabCount = 0
  /\ listeners = {}
  /\ result = "none"

\* A depot for a runtime layer has at least one zone: zero zones is the
\* format-only use.
Next ==
  \/ \E z \in ZoneCounts \cup {0}, s \in SlabCounts, r, ok \in BOOLEAN :
       (r => z > 0) /\ MakeSlabDepot(z, s, r, ok)
  \/ \E ok \in BOOLEAN :
       \/ InitializeScrubbingCompletion(ok)
       \/ MakeActionManager(ok)
       \/ MakeSlabSummary(ok)
       \/ MakeAllocatorPart(ok)
       \/ AllocateSlabArray(ok)
       \/ MakeSlab(ok)
  \/ CheckZoneCount
  \/ UseNewSlabs
  \/ FreeDepot

Spec == Init /\ [][Next]_vars

-----------------------------------------------------------------------------

TypeOK ==
  /\ pc \in {"idle", "completion", "actionManager", "summary", "zoneCheck",
             "allocators", "slabArray", "makeSlab"}
  /\ zone \in 0 .. MaxZones /\ part \in 1 .. Len(AllocatorSteps)
  /\ live \in [Objs -> Nat]
  /\ fields \subseteq Fields
  /\ zoneCount \in 0 .. MaxZones
  /\ slabCount \in 0 .. MaxSlabs /\ newSlabCount \in 0 .. MaxSlabs
  /\ listeners \subseteq ZoneIds
  /\ result \in {"none", "success", "error"}

(***************************************************************************)
(* Every object made is referenced from exactly one place, and nothing     *)
(* freed is still referenced: after each step of construction, on every    *)
(* error path of makeBlockAllocator, allocateSlabs and allocateComponents, *)
(* and after freeSlabDepot.  So nothing leaks when construction fails      *)
(* part way, and no free path frees an object twice.                       *)
(***************************************************************************)
OwnershipExact ==
  \A o \in Objs : live[o] = Cardinality({f \in fields : Target(f) = o})

=============================================================================
