CONSTANTS
  v1 = v1
  v2 = v2
  fresh = fresh
  junk = junk
  Slabs <- MCSlabs
  MaxZones <- MCMaxZones
  RunZones <- MCRunZones
  Values <- MCValues
  Fresh = fresh
  Junk = junk

SYMMETRY ValueSymmetry

SPECIFICATION Spec

INVARIANT TypeOK
INVARIANT AckedEntriesRecoverable
