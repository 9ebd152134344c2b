CONSTANTS
  InitialLogicalBlocks <- MCInitialLogicalBlocks
  LogicalSizes <- MCLogicalSizes

SPECIFICATION Spec


INVARIANT ConfigMatchesSuperBlock
