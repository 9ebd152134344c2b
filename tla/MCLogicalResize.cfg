CONSTANTS
  InitialLogicalBlocks <- MCInitialLogicalBlocks
  LogicalSizes <- MCLogicalSizes

SPECIFICATION Spec

INVARIANT TypeOK
INVARIANT LogicalSizeBacked
INVARIANT WritableSizeConsistent

PROPERTY GrowLogicalFinishes
