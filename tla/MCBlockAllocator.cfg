CONSTANTS
  Slabs <- MCSlabs
  DataBlocks <- MCDataBlocks
  NoSlab = NoSlab

SPECIFICATION Spec

INVARIANT TypeOK
INVARIANT SlabsAccountedFor
INVARIANT AllocatedBlocksExact
INVARIANT PriorityTableConsistent
INVARIANT NoSpaceOnlyWhenFull
INVARIANT AllocatorHasSlab

PROPERTY ScrubbingCompletes
PROPERTY TriageEmptiestFirst
