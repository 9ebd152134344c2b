-------------------------- MODULE MCLogicalResize --------------------------
(***************************************************************************)
(* LogicalResize from one logical block to up to three.  Three sizes let   *)
(* a growth fail, leave the VDO read-only, and be followed by a second     *)
(* growth to a larger size, and let prepare and perform disagree.          *)
(***************************************************************************)
EXTENDS LogicalResize

MCInitialLogicalBlocks == 1
MCLogicalSizes         == {1, 2, 3}

=============================================================================
