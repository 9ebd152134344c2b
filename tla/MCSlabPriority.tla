--------------------------- MODULE MCSlabPriority ---------------------------
(***************************************************************************)
(* Every slab size from 2 to 40 data blocks, and two slabs: the sizes put *)
(* the unopened threshold both at and between powers of two (3 of 4 is 3,  *)
(* 3 of 5 and of 6 is 3 or 4, 3 of 40 is 30), and two slabs are enough to  *)
(* compare the priorities of any two free counts.                          *)
(***************************************************************************)
EXTENDS SlabPriority

MCDataBlockCounts == 2 .. 40
MCSlabIds == {0, 1}

=============================================================================
