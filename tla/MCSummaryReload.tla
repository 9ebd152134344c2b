-------------------------- MODULE MCSummaryReload ---------------------------
(***************************************************************************)
(* Three slabs and two zone slots: with one zone every slab is zone 0's,   *)
(* with two zones slab 1 moves to zone 1, so a run with the other zone     *)
(* count writes a slab's entry into a copy the previous run never read.    *)
(* Two entry values tell an old acknowledged entry from a newer one.       *)
(***************************************************************************)
EXTENDS SummaryReload, TLC

MCSlabs == {0, 1, 2}
MCMaxZones == 2
MCRunZones == {1, 2}

CONSTANTS v1, v2, fresh, junk

MCValues == {v1, v2}

ValueSymmetry == Permutations(MCValues)

=============================================================================
