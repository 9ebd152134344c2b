CONSTANTS
  ZoneCounts <- MCZoneCounts
  SlabCounts <- MCSlabCounts

SPECIFICATION Spec

INVARIANT TypeOK
INVARIANT OwnershipExact
