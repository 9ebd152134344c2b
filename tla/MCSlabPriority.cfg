CONSTANTS
  DataBlockCounts <- MCDataBlockCounts
  SlabIds <- MCSlabIds

SPECIFICATION Spec

INVARIANT UnopenedSlabsRankedByThreshold
INVARIANT OpenedSlabsOrderedByMagnitude
