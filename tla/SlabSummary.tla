---------------------------- MODULE SlabSummary ----------------------------
(***************************************************************************)
(* One block of one zone of the slab summary (spec section 4.3, with the   *)
(* SlabSummaryEntry, SlabSummaryBlock and SlabSummaryZone structures of    *)
(* src/utils/vdo/base/slabSummaryInternals.h; slabSummary.c is not in the  *)
(* repository).  updateSlabSummaryEntry changes the in-memory entry and    *)
(* queues its waiter on nextUpdateWaiters; a block writes all its pending  *)
(* updates at once, moving them to currentUpdateWaiters, and answers them  *)
(* when the write completes.  Updates arriving during a write wait for the *)
(* next one.  Blocks do not share queues, so one block shows the protocol. *)
(* The zone drains, resumes, and the whole VDO may crash and reload the    *)
(* entries from disk.                                                      *)
(***************************************************************************)
EXTENDS Naturals, Sequences, FiniteSets

CONSTANTS
  Slabs,        \* slab numbers whose entries this block holds
  Entries,      \* SlabSummaryEntry values an update may write
  FreshEntry,   \* the entry a load with no zones to combine starts from
  MaxUpdates    \* updates issued in one behaviour

VARIABLES
  entries,      \* block->entries, the in-memory entry of each slab
  writing,      \* block->writing
  current,      \* block->currentUpdateWaiters (update numbers)
  next,         \* block->nextUpdateWaiters (update numbers)
  outgoing,     \* block->outgoingEntries, the packed bytes being written
  disk,         \* the packed bytes on disk
  writeCount,   \* zone->writeCount
  zoneState,    \* zone->state: NORMAL, DRAINING or SUSPENDED
  readOnly,     \* the read-only notifier has been told of an error
  updates       \* every update issued: its slab, entry and answer (history)

vars == <<entries, writing, current, next, outgoing, disk, writeCount,
          zoneState, readOnly, updates>>

-----------------------------------------------------------------------------
(***************************************************************************)
(* The packed entry: bits 7..0 tailBlockOffset, bits 13..8 fullnessHint,   *)
(* bit 14 loadRefCounts, bit 15 isDirty, little-endian, so two bytes.      *)
(***************************************************************************)
Bit(b) == IF b THEN 1 ELSE 0

PackEntry(e) ==
  <<e.tailBlockOffset,
    e.fullnessHint + 64 * Bit(e.loadRefCounts) + 128 * Bit(e.isDirty)>>

UnpackEntry(bytes) ==
  [tailBlockOffset |-> bytes[1],
   fullnessHint    |-> bytes[2] % 64,
   loadRefCounts   |-> (bytes[2] \div 64) % 2 = 1,
   isDirty         |-> bytes[2] \div 128 = 1]

\* The block's entries packed in slab order, as the write's memcpy sees them.
PackBlock(ents) == [s \in Slabs |-> PackEntry(ents[s])]
UnpackBlock(bytes) == [s \in Slabs |-> UnpackEntry(bytes[s])]

\* Answer the waiters ids with result r.
Notify(ups, ids, r) ==
  [i \in DOMAIN ups |-> IF i \in ids THEN [ups[i] EXCEPT !.result = r]
                        ELSE ups[i]]

-----------------------------------------------------------------------------
(***************************************************************************)
(* launchWrite on a block with no write out, whose entries are ents,       *)
(* waiters nxt and answers ups, in a zone with count writes out: nothing   *)
(* if nobody waits; in read-only mode (ro) answer the waiters with         *)
(* VDO_READ_ONLY; otherwise move them to the current queue, pack the       *)
(* entries and start the write.                                            *)
(***************************************************************************)
LaunchWriteStaleEntries(ents, nxt, ups, count, ro) ==
  /\ next' = {}
  /\ IF nxt # {} /\ ~ro
       THEN /\ writing' = TRUE /\ current' = nxt
            /\ outgoing' = PackBlock(entries)
            /\ writeCount' = count + 1 /\ updates' = ups
       ELSE /\ writing' = FALSE /\ current' = {} /\ writeCount' = count
            /\ updates' = Notify(ups, nxt, "VDO_READ_ONLY")
            /\ UNCHANGED outgoing

LaunchWriteDroppingWaiters(ents, nxt, ups, count, ro) ==
  /\ next' = {}
  /\ IF nxt # {} /\ ~ro
       THEN /\ writing' = TRUE /\ current' = nxt
            /\ outgoing' = PackBlock(ents)
            /\ writeCount' = count + 1 /\ updates' = ups
       ELSE /\ writing' = FALSE /\ current' = {} /\ writeCount' = count
            /\ updates' = ups
            /\ UNCHANGED outgoing

LaunchWrite(ents, nxt, ups, count, ro) ==
  /\ next' = {}
  /\ IF nxt # {} /\ ~ro
       THEN /\ writing' = TRUE
            /\ current' = nxt
            /\ outgoing' = PackBlock(ents)
            /\ writeCount' = count + 1
            /\ updates' = ups
       ELSE /\ writing' = FALSE
            /\ current' = {}
            /\ writeCount' = count
            /\ updates' = Notify(ups, nxt, "VDO_READ_ONLY")
            /\ UNCHANGED outgoing

\* checkForDrainComplete: a draining zone with no write out is suspended.
CheckForDrainCompleteIgnoringWrites(count) ==
  IF zoneState = "DRAINING" THEN "SUSPENDED" ELSE zoneState

CheckForDrainComplete(count) ==
  IF zoneState = "DRAINING" /\ count = 0 THEN "SUSPENDED" ELSE zoneState

(***************************************************************************)
(* updateSlabSummaryEntry(slab, entry): refused in read-only mode or while *)
(* the zone drains or is suspended; otherwise set the entry, queue the     *)
(* waiter for the next write and launch it unless a write is out.          *)
(***************************************************************************)
UpdateSlabSummaryEntry(s, e) ==
  LET id == Len(updates) + 1
      up == [slab |-> s, entry |-> e, result |-> "PENDING"]
  IN
  /\ Len(updates) < MaxUpdates
  /\ IF readOnly \/ zoneState # "NORMAL"
       THEN /\ updates' = Append(updates, [up EXCEPT !.result =
                            IF readOnly THEN "VDO_READ_ONLY"
                            ELSE "VDO_INVALID_ADMIN_STATE"])
            /\ UNCHANGED <<entries, writing, current, next, outgoing,
                           writeCount>>
       ELSE /\ entries' = [entries EXCEPT ![s] = e]
            /\ IF writing
                 THEN /\ next' = next \cup {id}
                      /\ updates' = Append(updates, up)
                      /\ UNCHANGED <<writing, current, outgoing, writeCount>>
                 ELSE LaunchWrite(entries', {id}, Append(updates, up),
                                  writeCount, readOnly)
  /\ UNCHANGED <<disk, zoneState, readOnly>>

FinishUpdatingSlabSummaryBlockKeepingCount(ok) ==
  LET ro == readOnly \/ ~ok IN
  /\ writing
  /\ disk' = IF ok THEN outgoing ELSE disk
  /\ readOnly' = ro
  /\ LaunchWrite(entries, next,
                 Notify(updates, current,
                        IF ok THEN "VDO_SUCCESS" ELSE "VDO_READ_ONLY"),
                 writeCount, ro)
  /\ zoneState' = CheckForDrainComplete(writeCount')
  /\ UNCHANGED entries

(***************************************************************************)
(* The write of the block's zone copies completes: on success the packed   *)
(* entries are on disk (finishUpdate), on error the VDO enters read-only   *)
(* mode (handleWriteError).  Either way finishUpdatingSlabSummaryBlock     *)
(* answers the current waiters, ends the write, launches the next one if   *)
(* updates are waiting, and lets a drain finish once no write is out.      *)
(***************************************************************************)
FinishUpdatingSlabSummaryBlock(ok) ==
  LET ro == readOnly \/ ~ok IN
  /\ writing
  /\ disk' = IF ok THEN outgoing ELSE disk
  /\ readOnly' = ro
  /\ LaunchWrite(entries, next,
                 Notify(updates, current,
                        IF ok THEN "VDO_SUCCESS" ELSE "VDO_READ_ONLY"),
                 writeCount - 1, ro)
  /\ zoneState' = CheckForDrainComplete(writeCount')
  /\ UNCHANGED entries

\* drainSlabSummaryZone: start draining; done at once if no write is out.
DrainSlabSummaryZone ==
  /\ zoneState = "NORMAL"
  /\ zoneState' = IF writeCount = 0 THEN "SUSPENDED" ELSE "DRAINING"
  /\ UNCHANGED <<entries, writing, current, next, outgoing, disk,
                 writeCount, readOnly, updates>>

\* resumeSlabSummaryZone.
ResumeSlabSummaryZone ==
  /\ zoneState = "SUSPENDED"
  /\ zoneState' = "NORMAL"
  /\ UNCHANGED <<entries, writing, current, next, outgoing, disk,
                 writeCount, readOnly, updates>>

(***************************************************************************)
(* A crash: memory is lost, unanswered waiters with it, and the restarted  *)
(* VDO loads the entries of its one zone from disk.                        *)
(***************************************************************************)
Crash ==
  /\ entries' = UnpackBlock(disk)
  /\ writing' = FALSE
  /\ current' = {}
  /\ next' = {}
  /\ writeCount' = 0
  /\ zoneState' = "NORMAL"
  /\ readOnly' = FALSE
  /\ updates' = [i \in DOMAIN updates |->
                   IF updates[i].result = "PENDING"
                     THEN [updates[i] EXCEPT !.result = "LOST"]
                     ELSE updates[i]]
  /\ UNCHANGED <<outgoing, disk>>

Init ==
  /\ entries = [s \in Slabs |-> FreshEntry]
  /\ writing = FALSE
  /\ current = {}
  /\ next = {}
  /\ outgoing = PackBlock(entries)
  /\ disk = PackBlock(entries)
  /\ writeCount = 0
  /\ zoneState = "NORMAL"
  /\ readOnly = FALSE
  /\ updates = <<>>

Next ==
  \/ \E s \in Slabs, e \in Entries : UpdateSlabSummaryEntry(s, e)
  \/ \E ok \in BOOLEAN : FinishUpdatingSlabSummaryBlock(ok)
  \/ DrainSlabSummaryZone
  \/ ResumeSlabSummaryZone
  \/ Crash

\* The zone thread runs every write completion it is given.
Spec == Init /\ [][Next]_vars
        /\ WF_vars(\E ok \in BOOLEAN : FinishUpdatingSlabSummaryBlock(ok))

-----------------------------------------------------------------------------

EntryOK(e) ==
  /\ e.tailBlockOffset \in 0 .. 255 /\ e.fullnessHint \in 0 .. 63
  /\ e.loadRefCounts \in BOOLEAN /\ e.isDirty \in BOOLEAN

TypeOK ==
  /\ \A s \in Slabs : EntryOK(entries[s]) /\ EntryOK(UnpackEntry(disk[s]))
  /\ \A s \in Slabs : \A k \in 1 .. 2 : disk[s][k] \in 0 .. 255
  /\ writing \in BOOLEAN /\ readOnly \in BOOLEAN
  /\ current \cup next \subseteq 1 .. Len(updates)
  /\ writeCount \in 0 .. 1
  /\ zoneState \in {"NORMAL", "DRAINING", "SUSPENDED"}
  /\ \A i \in 1 .. Len(updates) :
       updates[i].result \in {"PENDING", "VDO_SUCCESS", "VDO_READ_ONLY",
                              "VDO_INVALID_ADMIN_STATE", "LOST"}

(***************************************************************************)
(* An update is answered with success only once it is on disk: the packed *)
(* bytes of its slab unpack to its entry or to that of a later update of   *)
(* the same slab, whatever writes, failures and crashes came between.     *)
(* This is what the two waiter queues of a SlabSummaryBlock are for.      *)
(***************************************************************************)
AckedIsDurable ==
  \A i \in 1 .. Len(updates) :
    updates[i].result = "VDO_SUCCESS" =>
      \E j \in i .. Len(updates) :
        /\ updates[j].slab = updates[i].slab
        /\ UnpackEntry(disk[updates[i].slab]) = updates[j].entry

(***************************************************************************)
(* drainSlabSummaryZone finishes (checkForDrainComplete) only when no      *)
(* block write is out and no update waits for one.                        *)
(***************************************************************************)
SuspendedMeansQuiescent ==
  zoneState = "SUSPENDED" => (writeCount = 0 /\ ~writing /\ next = {})

(***************************************************************************)
(* Every update the zone accepts is answered (success or read-only) unless *)
(* a crash loses it: one that arrives during a write is not left waiting   *)
(* on nextUpdateWaiters.                                                   *)
(***************************************************************************)
UpdatesAnswered ==
  \A i \in 1 .. MaxUpdates :
    (i <= Len(updates) /\ updates[i].result = "PENDING")
      ~> (i <= Len(updates) /\ updates[i].result # "PENDING")

=============================================================================
