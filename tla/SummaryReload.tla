---------------------------- MODULE SummaryReload ---------------------------
(***************************************************************************)
(* The slab summary's zone copies across runs of the depot, composed with  *)
(* the zone count the depot records for them.                              *)
(*                                                                         *)
(* The summary partition holds one copy of every slab's entry per zone     *)
(* slot.  While the depot runs with zoneCount zones, slab n belongs to the *)
(* allocator of zone n % zoneCount (allocateSlabs), that allocator's       *)
(* summary zone is getSlabSummaryForZone(depot, zone), and so only that    *)
(* zone's copy of slab n is ever written.  encodeSlabDepot records the     *)
(* zone count (zonesToRecord); makeSlabDepot decodes it as oldZoneCount;   *)
(* startDepotLoad hands it to loadSlabSummary as zonesToCombine, which     *)
(* reads the partition, combines the copies (combineZones) and writes the  *)
(* combined copy back to every zone slot.                                  *)
(*                                                                         *)
(* One summary block per zone slot holds all the slabs here.  The write    *)
(* protocol of a block is checked in SlabSummary; a block write here is    *)
(* one step that makes the zone's entries durable and acknowledges them.  *)
(* A crash may fall between any two steps, including between the          *)
(* write-backs of two zone slots while the load combines.                 *)
(***************************************************************************)
EXTENDS Naturals, FiniteSets

CONSTANTS
  Slabs,     \* the slab numbers, 0 .. slabCount - 1
  MaxZones,  \* the zone slots the summary partition holds a copy for
  RunZones,  \* the physicalZoneCount a run of the device may be given
  Values,    \* the entries an update may write (model values)
  Fresh,     \* the entry loadSlabSummary initialises when nothing is combined
  Junk       \* what an unformatted summary partition holds

ZoneSlots == 0 .. MaxZones - 1

ASSUME RunZones \subseteq 1 .. MaxZones
ASSUME Fresh \notin Values /\ Junk \notin Values \cup {Fresh}

Entries == Values \cup {Fresh, Junk}

VARIABLES
  disk,         \* the summary partition: a copy of every entry per zone slot
  recorded,     \* the zone count in the depot state saved in the super block
  phase,        \* "OFF", "LOADING" (writing the combined copy back), "RUNNING"
  zoneCount,    \* depot->zoneCount of the running depot
  oldZoneCount, \* depot->oldZoneCount of the running depot
  entries,      \* summary->entries: every zone slot's copy, in memory
  toWrite,      \* zone slots the load has not yet written the combined copy to
  acked         \* per slab, the entry of the last acknowledged update

vars == <<disk, recorded, phase, zoneCount, oldZoneCount, entries, toWrite,
          acked>>

\* The zone whose allocator owns slab n, and so writes its summary entry.
OwnerZone(n, zones) == n % zones

\* encodeSlabDepot: a depot using no zones was loaded by a tool and did not
\* combine the summary, so it records the zone count it was loaded with.
ZonesToRecordUnchecked(zones, oldZones) == zones

ZonesToRecord(zones, oldZones) == IF zones = 0 THEN oldZones ELSE zones

\* combineZones: treating the buffer as every zone's copy on disk, give
\* every zone slot the entry each slab's owning zone last wrote.
CombineFromFirstZone(buf, zonesToCombine) ==
  [z \in ZoneSlots |-> [n \in Slabs |-> buf[0][n]]]

CombineZones(buf, zonesToCombine) ==
  [z \in ZoneSlots |-> [n \in Slabs |-> buf[OwnerZone(n, zonesToCombine)][n]]]

LoadSlabSummaryReadingAll(zonesToCombine) ==
  IF zonesToCombine = 0 THEN disk ELSE CombineZones(disk, zonesToCombine)

\* loadSlabSummary: read the partition and combine the zonesToCombine zones,
\* or initialise every entry as new when there are none to combine.
LoadSlabSummary(zonesToCombine) ==
  IF zonesToCombine = 0
    THEN [z \in ZoneSlots |-> [n \in Slabs |-> Fresh]]
    ELSE CombineZones(disk, zonesToCombine)

(***************************************************************************)
(* makeSlabDepot decodes the saved state, keeping its zone count as        *)
(* oldZoneCount and taking zoneCount from the thread config; then          *)
(* loadSlabDepot's preamble, startDepotLoad, loads the summary with        *)
(* zonesToCombine = oldZoneCount.                                          *)
(***************************************************************************)
StartDepotLoad(z) ==
  /\ phase = "OFF"
  /\ oldZoneCount' = recorded
  /\ zoneCount' = z
  /\ entries' = LoadSlabSummary(recorded)
  /\ toWrite' = ZoneSlots
  /\ phase' = "LOADING"
  /\ UNCHANGED <<disk, recorded, acked>>

\* The combined summary is written back, one zone slot's region at a time.
WriteCombinedZone(z) ==
  /\ phase = "LOADING"
  /\ z \in toWrite
  /\ disk' = [disk EXCEPT ![z] = entries[z]]
  /\ toWrite' = toWrite \ {z}
  /\ UNCHANGED <<recorded, phase, zoneCount, oldZoneCount, entries, acked>>

(***************************************************************************)
(* The load finishes once the whole partition is written.  The device then *)
(* saves its components, this depot's state among them, before it accepts *)
(* writes.                                                                 *)
(***************************************************************************)
FinishLoad ==
  /\ phase = "LOADING"
  /\ toWrite = {}
  /\ phase' = "RUNNING"
  /\ recorded' = ZonesToRecord(zoneCount, oldZoneCount)
  /\ UNCHANGED <<disk, zoneCount, oldZoneCount, entries, toWrite, acked>>

\* updateSlabSummaryEntry from the allocator that owns slab n: the entry
\* changes in that zone's copy in memory.
UpdateSlabSummaryEntry(n, v) ==
  /\ phase = "RUNNING"
  /\ entries' = [entries EXCEPT ![OwnerZone(n, zoneCount)][n] = v]
  /\ UNCHANGED <<disk, recorded, phase, zoneCount, oldZoneCount, toWrite,
                 acked>>

\* A zone's summary block write finishes, acknowledging the updates of the
\* slabs it owns.
WriteSummaryBlock(z) ==
  /\ phase = "RUNNING"
  /\ z \in 0 .. zoneCount - 1
  /\ disk' = [disk EXCEPT ![z] = entries[z]]
  /\ acked' = [n \in Slabs |->
                IF OwnerZone(n, zoneCount) = z THEN entries[z][n] ELSE acked[n]]
  /\ UNCHANGED <<recorded, phase, zoneCount, oldZoneCount, entries, toWrite>>

\* A clean shutdown saves the depot state and stops.
SaveAndStop ==
  /\ phase = "RUNNING"
  /\ recorded' = ZonesToRecord(zoneCount, oldZoneCount)
  /\ phase' = "OFF"
  /\ UNCHANGED <<disk, zoneCount, oldZoneCount, entries, toWrite, acked>>

(***************************************************************************)
(* A tool opens the device without zones (makeSlabDepot with a thread      *)
(* config of no physical zones), never loads the summary, and saves the   *)
(* depot state again.                                                      *)
(***************************************************************************)
ToolSave ==
  /\ phase = "OFF"
  /\ recorded' = ZonesToRecord(0, recorded)
  /\ UNCHANGED <<disk, phase, zoneCount, oldZoneCount, entries, toWrite,
                 acked>>

\* The device stops at any point; what is in memory is lost.
Crash ==
  /\ phase # "OFF"
  /\ phase' = "OFF"
  /\ UNCHANGED <<disk, recorded, zoneCount, oldZoneCount, entries, toWrite,
                 acked>>

(***************************************************************************)
(* Formatting leaves a depot state with no zones recorded over a summary   *)
(* partition never written; nothing has been acknowledged, so a load must  *)
(* produce fresh entries.                                                  *)
(***************************************************************************)
Init ==
  /\ disk = [z \in ZoneSlots |-> [n \in Slabs |-> Junk]]
  /\ recorded = 0
  /\ phase = "OFF"
  /\ zoneCount = 0
  /\ oldZoneCount = 0
  /\ entries = [z \in ZoneSlots |-> [n \in Slabs |-> Junk]]
  /\ toWrite = {}
  /\ acked = [n \in Slabs |-> Fresh]

Next ==
  \/ \E z \in RunZones : StartDepotLoad(z)
  \/ \E z \in ZoneSlots : WriteCombinedZone(z)
  \/ FinishLoad
  \/ \E n \in Slabs, v \in Values : UpdateSlabSummaryEntry(n, v)
  \/ \E z \in ZoneSlots : WriteSummaryBlock(z)
  \/ SaveAndStop
  \/ ToolSave
  \/ Crash

Spec == Init /\ [][Next]_vars

-----------------------------------------------------------------------------

TypeOK ==
  /\ disk \in [ZoneSlots -> [Slabs -> Entries]]
  /\ recorded \in 0 .. MaxZones
  /\ phase \in {"OFF", "LOADING", "RUNNING"}
  /\ zoneCount \in 0 .. MaxZones
  /\ oldZoneCount \in 0 .. MaxZones
  /\ entries \in [ZoneSlots -> [Slabs -> Entries]]
  /\ toWrite \subseteq ZoneSlots
  /\ acked \in [Slabs -> Values \cup {Fresh}]

(***************************************************************************)
(* Whenever the device stops, a load would find every acknowledged entry: *)
(* the zone count in the saved depot state names, for every slab, a zone  *)
(* copy on disk holding the slab's last acknowledged entry, or no zone at  *)
(* all and nothing acknowledged.  This must survive a crash at any point, *)
(* mid-way through the combined write-back included, runs with different  *)
(* zone counts, and tools that save the depot state without zones.        *)
(***************************************************************************)
AckedEntriesRecoverable ==
  IF recorded = 0
    THEN \A n \in Slabs : acked[n] = Fresh
    ELSE \A n \in Slabs : disk[OwnerZone(n, recorded)][n] = acked[n]

=============================================================================
