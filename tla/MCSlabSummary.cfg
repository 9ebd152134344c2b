CONSTANTS
  Slabs <- MCSlabs
  Entries <- MCEntries
  FreshEntry <- MCFreshEntry
  MaxUpdates <- MCMaxUpdates

SPECIFICATION Spec

INVARIANT TypeOK
INVARIANT AckedIsDurable
INVARIANT SuspendedMeansQuiescent

PROPERTY UpdatesAnswered
