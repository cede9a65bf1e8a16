SPECIFICATION FairDiskSpec
CHECK_DEADLOCK FALSE
CONSTANTS
  Procs = {p1}
  Urls = {u, w}
  Sizes = {1, 2}
  Ttl = 1
  MaxActive = 1
  MaxLaunches = 3
  MaxTime = 3
INVARIANTS
  EntryAlwaysWhole
  FailedFetchLeavesNoEntry
  StoredIsKept
  HitIsNewest
PROPERTIES
  StoreLeavesNoTmp
  EveryFetchEnds
