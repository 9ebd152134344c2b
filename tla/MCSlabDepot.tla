---------------------------- MODULE MCSlabDepot ----------------------------
(***************************************************************************)
(* SlabDepot with two zones, slabs of two blocks holding one data block,   *)
(* two slabs at load and room for four.  The grow sizes give a request     *)
(* too small to add a slab (4), two requests for the same three slabs (6   *)
(* and 7, so the second keeps the slabs of the first), a growth by two     *)
(* slabs that puts one new slab in each zone (8) and a request beyond      *)
(* MAX_SLABS (10).  BlockCount wraps at 16, well above any count here.     *)
(***************************************************************************)
EXTENDS SlabDepot

MCZoneCount         == 2
MCInitialSlabCount  == 2
MCMaxSlabs          == 4
MCSlabBlocks        == 2
MCFirstBlock        == 1
MCDataBlocks        == 1
MCGrowSizes         == {4, 6, 7, 8, 10}
MCMaxReleaseRequest == 1
MCBlockCountModulus == 16

=============================================================================
