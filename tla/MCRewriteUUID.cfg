CONSTANTS
  u1 = u1
  u2 = u2
  u3 = u3
  noUUID = noUUID
  UUIDs <- MCUUIDs
  NoUUID = noUUID
  Geometry <- MCGeometry

SPECIFICATION Spec

INVARIANT TypeOK
INVARIANT ExitStatusDescribesDisk
