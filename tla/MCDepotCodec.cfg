CONSTANTS
  SlabConfigs <- MCSlabConfigs
  BlockCounts <- MCBlockCounts
  FirstBlock <- MCFirstBlock
  ThreadZones <- MCThreadZones
  MaxSlabs <- MCMaxSlabs

SPECIFICATION Spec

INVARIANT TypeOK
PROPERTY SaveLoadRoundTrip
PROPERTY SummaryZonesRemembered
INVARIANT SlabNumberMatchesLayout
