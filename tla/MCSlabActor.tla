---------------------------- MODULE MCSlabActor ----------------------------
(***************************************************************************)
(* A zone of four slabs, numbered 1, 3, 5 and 7 as in zone 1 of two zones. *)
(* Four slabs let the count  reach zero in the middle of the loop and      *)
(* again at its end, with later completions in any order.                 *)
(***************************************************************************)
EXTENDS SlabActor

MCZoneSlabs == {1, 3, 5, 7}

=============================================================================
