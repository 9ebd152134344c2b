CONSTANTS
  ZoneSlabs <- MCZoneSlabs

SPECIFICATION Spec

INVARIANT TypeOK
INVARIANT CallbackOnceAfterAll

PROPERTY ApplyToSlabsCompletes
