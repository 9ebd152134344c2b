-------------------------- MODULE MCDepotLifecycle --------------------------
(***************************************************************************)
(* One or two physical zones over a depot state of one, two or three       *)
(* slabs: two zones over one slab are refused, two zones over three slabs  *)
(* give a zone two slabs, and a failure can strike at every allocation of  *)
(* either allocator and of every slab.                                     *)
(***************************************************************************)
EXTENDS DepotLifecycle

MCZoneCounts == {1, 2}
MCSlabCounts == {1, 2, 3}

=============================================================================
