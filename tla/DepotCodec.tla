---------------------------- MODULE DepotCodec ----------------------------
(***************************************************************************)
(* The slab depot's persistent state across formats, saves and loads       *)
(* (src/utils/vdo/base/slabDepot.c): configureState and makeSlabDepot,     *)
(* allocateDepot, the byte encoding of SlabDepotState2_0 by                *)
(* encodeSlabDepot and its decoding by decodeSlabDepot, and getSlabNumber  *)
(* on the depot a load produces.                                           *)
(*                                                                         *)
(* A depot runs with the physical zone count of its thread config; a tool  *)
(* loads and saves it synchronously with zero zones, without loading the   *)
(* slab summary.  The one disk holds the last saved component.             *)
(***************************************************************************)
EXTENDS Naturals, Sequences, SequencesExt

CONSTANTS
  SlabConfigs,   \* SlabConfig records the format tool may be given
  BlockCounts,   \* storage sizes the depot may be formatted for
  FirstBlock,    \* the first block the depot may allocate
  ThreadZones,   \* physical zone counts of thread configs (0: a tool)
  MaxSlabs       \* MAX_SLABS

VARIABLES
  depot,     \* the SlabDepot in memory, or NoDepot
  disk,      \* the saved depot component, or NoDisk
  formatted, \* the depot in memory was made by makeSlabDepot (history)
  lastZones, \* zones of the last depot with zones to save the disk, 0 after
             \* a format: the summary copies a load must combine (history)
  savedBy    \* the depot whose save wrote the disk (history)

vars == <<depot, disk, formatted, lastZones, savedBy>>

NoDepot == [none |-> TRUE]
NoDisk  == [none |-> TRUE]

\* The fields of SlabConfig in the order encodeSlabConfig writes them.
EncodeFields == <<"slabBlocks", "dataBlocks", "referenceCountBlocks",
                  "slabJournalBlocks", "slabJournalFlushingThreshold",
                  "slabJournalBlockingThreshold",
                  "slabJournalScrubbingThreshold">>

\* The fields of SlabConfig in the order decodeSlabConfig reads them.
DecodeFieldsSwapped == <<"slabBlocks", "dataBlocks", "referenceCountBlocks",
                         "slabJournalBlocks", "slabJournalBlockingThreshold",
                         "slabJournalFlushingThreshold",
                         "slabJournalScrubbingThreshold">>

DecodeFields == <<"slabBlocks", "dataBlocks", "referenceCountBlocks",
                  "slabJournalBlocks", "slabJournalFlushingThreshold",
                  "slabJournalBlockingThreshold",
                  "slabJournalScrubbingThreshold">>

\* SLAB_DEPOT_HEADER_2_0: its size is sizeof(SlabDepotState2_0), packed.
StateSize == Len(EncodeFields) * 8 + 8 + 8 + 1
Header20  == [id |-> "SLAB_DEPOT", major |-> 2, minor |-> 0, size |-> StateSize]

-----------------------------------------------------------------------------
(***************************************************************************)
(* Arithmetic and byte order.                                              *)
(***************************************************************************)

\* isPowerOfTwo and logBaseTwo.
IsPowerOfTwo(n) == \E k \in 0 .. n : 2^k = n
LogBaseTwo(n) == CHOOSE k \in 0 .. n : 2^k = n

\* putUInt64LEIntoBuffer: eight bytes, least significant first.
RECURSIVE PutLE(_, _)
PutLEUnmasked(n, width) ==
  IF width = 0 THEN <<>> ELSE <<n>> \o PutLE(n \div 256, width - 1)

PutLE(n, width) ==
  IF width = 0 THEN <<>> ELSE <<n % 256>> \o PutLE(n \div 256, width - 1)

PutUInt64LE(n) == PutLE(n, 8)

\* getUInt64LEFromBuffer: the bytes back into a number.
RECURSIVE GetUInt64LE(_)
GetUInt64LE(bytes) ==
  IF bytes = <<>> THEN 0 ELSE Head(bytes) + 256 * GetUInt64LE(Tail(bytes))

\* The eight bytes of the i-th 64-bit field of an encoding.
Field64(bytes, i) == GetUInt64LE(SubSeq(bytes, 8 * (i - 1) + 1, 8 * i))

-----------------------------------------------------------------------------
(***************************************************************************)
(* Geometry.                                                               *)
(***************************************************************************)

\* computeSlabCount and calculateSlabCount.
ComputeSlabCount(firstBlock, lastBlock, shift) ==
  (lastBlock - firstBlock) \div 2^shift

\* configureState: the state for a capacity of blockCount blocks, wasting
\* any runt slab, or the error for no slab or more than MAX_SLABS slabs.
ConfigureState(blockCount, firstBlock, slabConfig, zoneCount) ==
  LET slabCount == blockCount \div slabConfig.slabBlocks IN
  IF slabCount = 0 THEN [result |-> "VDO_NO_SPACE"]
  ELSE IF slabCount > MaxSlabs THEN [result |-> "VDO_TOO_MANY_SLABS"]
  ELSE [result |-> "VDO_SUCCESS",
        state |-> [slabConfig |-> slabConfig, firstBlock |-> firstBlock,
                   lastBlock |-> firstBlock + slabCount * slabConfig.slabBlocks,
                   zoneCount |-> zoneCount]]

\* allocateComponents: a depot for a layer that cannot make metadata VIOs
\* (format or audit) gets no runtime parts and no slabs; otherwise the
\* depot refuses more zones than slabs, then makes and registers them all.
AllocateComponents(d, threadZones, runtime) ==
  LET slabCount == ComputeSlabCount(d.firstBlock, d.lastBlock, d.slabSizeShift)
  IN
  IF ~runtime THEN [result |-> "VDO_SUCCESS", depot |-> d]
  ELSE IF threadZones > slabCount THEN [result |-> "VDO_BAD_CONFIGURATION"]
  ELSE [result |-> "VDO_SUCCESS", depot |-> [d EXCEPT !.slabCount = slabCount]]

\* allocateDepot: refuse a slab size that is not a power of two; the
\* recorded zone count becomes oldZoneCount and the thread config's the
\* running zoneCount.
AllocateDepot(state, threadZones, runtime) ==
  IF ~IsPowerOfTwo(state.slabConfig.slabBlocks)
    THEN [result |-> "UDS_INVALID_ARGUMENT"]
    ELSE AllocateComponents(
           [slabConfig |-> state.slabConfig,
            firstBlock |-> state.firstBlock,
            lastBlock |-> state.lastBlock,
            slabSizeShift |-> LogBaseTwo(state.slabConfig.slabBlocks),
            slabCount |-> 0,
            oldZoneCount |-> state.zoneCount,
            zoneCount |-> threadZones],
           threadZones, runtime)

\* getSlabNumber: the slab holding pbn, or VDO_OUT_OF_RANGE.
OutOfRange == [result |-> "VDO_OUT_OF_RANGE"]
SlabNumber(n) == [result |-> "VDO_SUCCESS", slabNumber |-> n]

GetSlabNumberPastEnd(d, pbn) ==
  IF pbn < d.firstBlock THEN OutOfRange
  ELSE LET n == (pbn - d.firstBlock) \div 2^d.slabSizeShift IN
       IF n > d.slabCount THEN OutOfRange ELSE SlabNumber(n)

GetSlabNumber(d, pbn) ==
  IF pbn < d.firstBlock THEN OutOfRange
  ELSE LET n == (pbn - d.firstBlock) \div 2^d.slabSizeShift IN
       IF n >= d.slabCount THEN OutOfRange ELSE SlabNumber(n)

-----------------------------------------------------------------------------
(***************************************************************************)
(* Encoding and decoding.                                                  *)
(***************************************************************************)

\* encodeSlabConfig: the seven fields, each as a 64-bit LE number.
EncodeSlabConfig(c) ==
  FlattenSeq([i \in 1 .. Len(EncodeFields) |-> PutUInt64LE(c[EncodeFields[i]])])

\* encodeSlabDepot: a depot with no zones was loaded by a tool and records
\* the zone count it was loaded with.
ZonesToRecordUnchecked(d) == d.zoneCount

ZonesToRecord(d) == IF d.zoneCount = 0 THEN d.oldZoneCount ELSE d.zoneCount

EncodeSlabDepot(d) ==
  [header |-> Header20,
   bytes |-> EncodeSlabConfig(d.slabConfig)
             \o PutUInt64LE(d.firstBlock) \o PutUInt64LE(d.lastBlock)
             \o <<ZonesToRecord(d)>>]

\* decodeSlabConfig: the i-th 64-bit number read is the i-th field named.
DecodeSlabConfig(bytes) ==
  [f \in ToSet(DecodeFields) |->
     Field64(bytes, CHOOSE i \in 1 .. Len(DecodeFields) : DecodeFields[i] = f)]

\* decodeSlabDepotState_2_0: the config, then the first and last block and
\* the zone count byte.
DecodeSlabDepotState(bytes) ==
  LET n == Len(DecodeFields) IN
  [slabConfig |-> DecodeSlabConfig(bytes),
   firstBlock |-> Field64(bytes, n + 1),
   lastBlock  |-> Field64(bytes, n + 2),
   zoneCount  |-> bytes[8 * (n + 2) + 1]]

\* validateHeader: the id and the exact version 2.0 and size.
ValidHeader(h) == h = Header20

-----------------------------------------------------------------------------
(***************************************************************************)
(* Operations.                                                             *)
(***************************************************************************)

\* makeSlabDepot, run by the format tool or a test: configure the state
\* for zero zones and allocate the depot with the thread config's zones.
MakeSlabDepot(blockCount, slabConfig, threadZones, runtime) ==
  LET c == ConfigureState(blockCount, FirstBlock, slabConfig, 0)
      a == AllocateDepot(c.state, threadZones, runtime)
  IN
  /\ depot = NoDepot
  /\ depot' = IF c.result = "VDO_SUCCESS" /\ a.result = "VDO_SUCCESS"
                THEN a.depot ELSE NoDepot
  /\ formatted' = TRUE
  /\ UNCHANGED <<disk, lastZones, savedBy>>

\* The super block save of the depot component; its size is asserted.
\* The running zones save their summary copies beside it; a tool's depot
\* saves none, and a format leaves none from before.
SaveSlabDepot ==
  /\ depot # NoDepot
  /\ Len(EncodeSlabDepot(depot).bytes) = Header20.size
  /\ disk' = EncodeSlabDepot(depot)
  /\ lastZones' = IF depot.zoneCount > 0 THEN depot.zoneCount
                  ELSE IF formatted THEN 0 ELSE lastZones
  /\ savedBy' = depot
  /\ UNCHANGED <<depot, formatted>>

\* decodeSlabDepot: validate the header, decode the state, and allocate a
\* depot for the loading thread config.
DecodeSlabDepot(threadZones, runtime) ==
  LET a == AllocateDepot(DecodeSlabDepotState(disk.bytes), threadZones,
                         runtime)
  IN
  /\ depot = NoDepot
  /\ disk # NoDisk
  /\ ValidHeader(disk.header)
  /\ depot' = IF a.result = "VDO_SUCCESS" THEN a.depot ELSE NoDepot
  /\ formatted' = FALSE
  /\ UNCHANGED <<disk, lastZones, savedBy>>

\* freeSlabDepot when the VDO or the tool shuts down.
FreeSlabDepot ==
  /\ depot # NoDepot
  /\ depot' = NoDepot
  /\ UNCHANGED <<disk, formatted, lastZones, savedBy>>

Init ==
  /\ depot = NoDepot
  /\ disk = NoDisk
  /\ formatted = FALSE
  /\ lastZones = 0
  /\ savedBy = NoDepot

\* A thread config with zero physical zones belongs to a tool, whose layer
\* cannot make metadata VIOs: allocateSlabs would otherwise place slabs by
\* newSlabCount % 0.
Next ==
  \/ \E b \in BlockCounts, c \in SlabConfigs, z \in ThreadZones,
       r \in BOOLEAN : (r => z > 0) /\ MakeSlabDepot(b, c, z, r)
  \/ SaveSlabDepot
  \/ \E z \in ThreadZones, r \in BOOLEAN :
       (r => z > 0) /\ DecodeSlabDepot(z, r)
  \/ FreeSlabDepot

Spec == Init /\ [][Next]_vars

-----------------------------------------------------------------------------

TypeOK ==
  /\ depot = NoDepot \/ depot.zoneCount \in ThreadZones
  /\ disk = NoDisk \/ (ValidHeader(disk.header) /\ Len(disk.bytes) = StateSize
                        /\ \A i \in 1 .. StateSize : disk.bytes[i] \in 0 .. 255)
  /\ formatted \in BOOLEAN
  /\ lastZones \in ThreadZones

\* A step that loads a depot from the disk.
Loads == depot = NoDepot /\ depot' # NoDepot /\ ~formatted'

(***************************************************************************)
(* decodeSlabDepot gives back exactly what encodeSlabDepot wrote: a load   *)
(* yields the slab config, first and last block and slab size of the     *)
(* depot that saved the disk.                                              *)
(***************************************************************************)
SaveLoadRoundTrip ==
  [][Loads =>
       \A f \in {"slabConfig", "firstBlock", "lastBlock", "slabSizeShift"} :
         depot'[f] = savedBy[f]]_vars

(***************************************************************************)
(* A load knows how many zone copies of the slab summary to combine: its   *)
(* oldZoneCount is the zone count of the last depot that ran with zones    *)
(* and saved, even when a tool has loaded and saved the depot with zero    *)
(* zones since (the zonesToRecord case of encodeSlabDepot), and 0 after a  *)
(* fresh format.                                                           *)
(***************************************************************************)
SummaryZonesRemembered ==
  [][Loads => depot'.oldZoneCount = lastZones]_vars

(***************************************************************************)
(* getSlabNumber agrees with the slab layout: a block in one of the        *)
(* depot's slabs is in the slab whose range [start, start + slabBlocks)    *)
(* holds it, and every other block is VDO_OUT_OF_RANGE.                    *)
(***************************************************************************)
SlabStart(d, n) == d.firstBlock + n * d.slabConfig.slabBlocks

SlabNumberMatchesLayout ==
  depot # NoDepot =>
    \A pbn \in 0 .. depot.lastBlock + 1 :
      GetSlabNumber(depot, pbn) =
        IF \E n \in 0 .. depot.slabCount - 1 :
             SlabStart(depot, n) <= pbn /\ pbn < SlabStart(depot, n + 1)
          THEN SlabNumber(CHOOSE n \in 0 .. depot.slabCount - 1 :
                 SlabStart(depot, n) <= pbn /\ pbn < SlabStart(depot, n + 1))
          ELSE OutOfRange

=============================================================================
