-------------------------- MODULE MCBlockAllocator --------------------------
(***************************************************************************)
(* Model-checking instance of BlockAllocator: one zone with three slabs of *)
(* two data blocks each.  Two data blocks give the four priority buckets   *)
(* 0 (full), 1 (never written, the reserved unopened priority), 2 (one free *)
(* block, moved up past the reserved bucket) and 3 (two free blocks), so   *)
(* every branch of calculateSlabPriority is reached; three slabs let the   *)
(* triage order, ties on slab number and the scrubber's two rings all      *)
(* matter.                                                                 *)
(***************************************************************************)
EXTENDS BlockAllocator

MCSlabs == {0, 1, 2}
MCDataBlocks == 2
=============================================================================
