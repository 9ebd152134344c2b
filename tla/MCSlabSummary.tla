--------------------------- MODULE MCSlabSummary ---------------------------
(***************************************************************************)
(* A block holding the entries of two slabs, two entry values that differ *)
(* in every field (the second uses the top bits of both bytes), and three *)
(* updates: enough for an update to arrive during a write, for a second   *)
(* write to follow, and for a write failure or crash in between.          *)
(***************************************************************************)
EXTENDS SlabSummary

MCSlabs == {0, 1}

MCFreshEntry ==
  [tailBlockOffset |-> 0, fullnessHint |-> 0, loadRefCounts |-> FALSE,
   isDirty |-> TRUE]

MCEntries ==
  {[tailBlockOffset |-> 5, fullnessHint |-> 1, loadRefCounts |-> FALSE,
    isDirty |-> FALSE],
   [tailBlockOffset |-> 255, fullnessHint |-> 63, loadRefCounts |-> TRUE,
    isDirty |-> TRUE]}

MCMaxUpdates == 3

=============================================================================
