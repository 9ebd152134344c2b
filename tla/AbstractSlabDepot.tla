------------------------- MODULE AbstractSlabDepot -------------------------
(***************************************************************************)
(* What the slab depot promises its zones (spec sections 3 and 4.1): the   *)
(* slab count only grows, in one step, and slab n belongs to zone          *)
(* n mod zoneCount from the moment it is visible, so a zone allocates only *)
(* within the data blocks of the visible slabs that are its own.           *)
(***************************************************************************)
EXTENDS Integers, FiniteSets

CONSTANTS ZoneCount, InitialSlabCount, MaxSlabs, DataBlocks

VARIABLES slabCount, allocated

Zones == 0 .. ZoneCount - 1

\* The data blocks of the first c slabs that belong to zone z.
Capacity(c, z) ==
  Cardinality({n \in 0 .. c - 1 : n % ZoneCount = z}) * DataBlocks

Init ==
  /\ slabCount = InitialSlabCount
  /\ allocated \in [Zones -> 0 .. MaxSlabs * DataBlocks]
  /\ \A z \in Zones : allocated[z] <= Capacity(slabCount, z)

Grow ==
  /\ slabCount' \in slabCount + 1 .. MaxSlabs
  /\ UNCHANGED allocated

Allocate(z) ==
  /\ allocated[z] < Capacity(slabCount, z)
  /\ allocated' = [allocated EXCEPT ![z] = @ + 1]
  /\ UNCHANGED slabCount

Release(z) ==
  /\ allocated[z] > 0
  /\ allocated' = [allocated EXCEPT ![z] = @ - 1]
  /\ UNCHANGED slabCount

Next == Grow \/ \E z \in Zones : Allocate(z) \/ Release(z)

Spec == Init /\ [][Next]_<<slabCount, allocated>>

=============================================================================
