---------------------------- MODULE MCDepotCodec ----------------------------
(***************************************************************************)
(* Three slab configs: power-of-two slabs of 4 and of 2 blocks, whose      *)
(* journal thresholds differ, and a slab of 3 blocks that allocateDepot    *)
(* refuses.  A first block of 250 puts the last block past 255, so it      *)
(* takes two bytes.  The block counts format one or two slabs, more than   *)
(* MAX_SLABS, or no whole slab; zero zones (a tool), one or two.           *)
(***************************************************************************)
EXTENDS DepotCodec

MCSlabConfigs ==
  {[slabBlocks |-> 4, dataBlocks |-> 2, referenceCountBlocks |-> 1,
    slabJournalBlocks |-> 1, slabJournalFlushingThreshold |-> 3,
    slabJournalBlockingThreshold |-> 5, slabJournalScrubbingThreshold |-> 4],
   [slabBlocks |-> 2, dataBlocks |-> 1, referenceCountBlocks |-> 1,
    slabJournalBlocks |-> 0, slabJournalFlushingThreshold |-> 1,
    slabJournalBlockingThreshold |-> 2, slabJournalScrubbingThreshold |-> 0],
   [slabBlocks |-> 3, dataBlocks |-> 1, referenceCountBlocks |-> 1,
    slabJournalBlocks |-> 1, slabJournalFlushingThreshold |-> 3,
    slabJournalBlockingThreshold |-> 5, slabJournalScrubbingThreshold |-> 4]}

MCBlockCounts == {2, 5, 9, 12}
MCFirstBlock  == 250
MCThreadZones == {0, 1, 2}
MCMaxSlabs    == 2

=============================================================================
