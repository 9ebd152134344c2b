CONSTANTS
  ZoneCount <- MCZoneCount
  InitialSlabCount <- MCInitialSlabCount
  MaxSlabs <- MCMaxSlabs
  SlabBlocks <- MCSlabBlocks
  FirstBlock <- MCFirstBlock
  DataBlocks <- MCDataBlocks
  GrowSizes <- MCGrowSizes
  MaxReleaseRequest <- MCMaxReleaseRequest
  BlockCountModulus <- MCBlockCountModulus

SPECIFICATION Spec

INVARIANT TypeOK
INVARIANT SlabObjectsOwned
INVARIANT FreeBlocksNeverUnderflow
INVARIANT ScrubbingCompletesOnce

PROPERTY ReleaseRequestsDelivered
PROPERTY ScrubbingFinishes
PROPERTY DepotRefinesAbstract
