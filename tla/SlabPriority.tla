----------------------------- MODULE SlabPriority ----------------------------
(***************************************************************************)
(* The allocator's slab priorities (calculateSlabPriority with the         *)
(* maxPriority and unopenedSlabPriority of allocateComponents) for every   *)
(* slab size in a range, not just the one the BlockAllocator run uses.     *)
(* The definitions are BlockAllocator's own, instantiated with the slab    *)
(* size; the properties compare them with the policy the code's comments   *)
(* and spec section 8 state, written without logarithms.                   *)
(*                                                                         *)
(* Two slabs of one zone go from formatted (blank, every block free)       *)
(* through allocations and releases, so their priorities are compared in  *)
(* every combination of free counts.                                       *)
(***************************************************************************)
EXTENDS Naturals

CONSTANTS
  DataBlockCounts, \* the slabConfig.dataBlocks values to check
  SlabIds          \* the slabs of the zone

VARIABLES
  dataBlocks, \* slabConfig.dataBlocks of this depot
  free,       \* getSlabFreeBlockCount of each slab
  blank       \* isSlabJournalBlank of each slab

ASSUME DataBlockCounts \subseteq 2 .. 2^11

vars == <<dataBlocks, free, blank>>

\* BlockAllocator for a depot whose slabs hold d data blocks.  Only its
\* priority definitions are used, so its other state is given fixed values.
Allocator(d) == INSTANCE BlockAllocator
                  WITH Slabs <- SlabIds, DataBlocks <- d, NoSlab <- "none",
                       free <- {}, blank <- {}, hint <- {},
                       loadType <- "NORMAL_LOAD", unrecovered <- {},
                       slabPriority <- {}, openSlab <- "none", table <- {},
                       scrubHigh <- <<>>, scrubNormal <- <<>>,
                       scrubbingAll <- FALSE, scrubberStopped <- FALSE,
                       allocatedBlocks <- 0, phase <- "NORMAL",
                       drainStep <- 0, lastResult <- "SUCCESS"

\* The allocator's priorities for each slab size, computed once.
Policy == [d \in DataBlockCounts |->
            [priority |-> [n \in 0 .. d, b \in BOOLEAN |->
                             Allocator(d)!CalculateSlabPriority(n, b)],
             unopened |-> Allocator(d)!UnopenedSlabPriority,
             highest  |-> Allocator(d)!MaxPriority]]

Priority(s) == Policy[dataBlocks].priority[free[s], blank[s]]
Unopened    == Policy[dataBlocks].unopened
Highest     == Policy[dataBlocks].highest

\* The largest power of two not above n (1 for n = 0, as logBaseTwo(0) = 0),
\* for n below 2^12.
BinaryFloor(n) == CHOOSE p \in {2^k : k \in 0 .. 11} :
                    (p <= n \/ p = 1) /\ (2 * p > n)

\* A slab takes a block: a provisional reference, whose confirmation
\* writes the slab journal.
AllocateFromSlab(s) ==
  /\ free[s] > 0
  /\ free' = [free EXCEPT ![s] = @ - 1]
  /\ blank' = [blank EXCEPT ![s] = FALSE]
  /\ UNCHANGED dataBlocks

\* The last reference to one of the slab's blocks is released.
ReleaseToSlab(s) ==
  /\ ~blank[s]
  /\ free[s] < dataBlocks
  /\ free' = [free EXCEPT ![s] = @ + 1]
  /\ UNCHANGED <<dataBlocks, blank>>

\* Freshly formatted slabs: every block free and the journal never written.
Init ==
  /\ dataBlocks \in DataBlockCounts
  /\ free = [s \in SlabIds |-> dataBlocks]
  /\ blank = [s \in SlabIds |-> TRUE]

Next == \E s \in SlabIds : AllocateFromSlab(s) \/ ReleaseToSlab(s)

Spec == Init /\ [][Next]_vars

-----------------------------------------------------------------------------

TypeOK ==
  /\ dataBlocks \in DataBlockCounts
  /\ free \in [SlabIds -> 0 .. dataBlocks]
  /\ blank \in [SlabIds -> BOOLEAN]

(***************************************************************************)
(* The policy calculateSlabPriority and allocateComponents describe: full  *)
(* slabs alone take priority 0; every slab fits the table of maxPriority;  *)
(* a slab never written takes the reserved unopened priority, which no    *)
(* written slab shares; and a written slab ranks above the unopened ones   *)
(* exactly when it has at least the binary floor of three quarters of the  *)
(* slab's data blocks free.                                                *)
(***************************************************************************)
UnopenedSlabsRankedByThreshold ==
  \A s \in SlabIds :
    /\ Priority(s) \in 0 .. Highest
    /\ (Priority(s) = 0) <=> (free[s] = 0)
    /\ free[s] > 0 =>
         /\ (Priority(s) = Unopened) <=> blank[s]
         /\ ~blank[s] =>
              ((Priority(s) > Unopened)
                 <=> free[s] >= BinaryFloor((dataBlocks * 3) \div 4))

(***************************************************************************)
(* Spec section 8: written slabs with free counts in the same power of two *)
(* share a priority, and a slab with fewer free blocks in a lower power of *)
(* two has a lower priority, on either side of the reserved priority.      *)
(***************************************************************************)
OpenedSlabsOrderedByMagnitude ==
  \A a, b \in SlabIds :
    (~blank[a] /\ ~blank[b] /\ free[a] > 0 /\ free[b] > 0) =>
      /\ BinaryFloor(free[a]) = BinaryFloor(free[b]) => Priority(a) = Priority(b)
      /\ BinaryFloor(free[a]) < BinaryFloor(free[b]) => Priority(a) < Priority(b)

=============================================================================
