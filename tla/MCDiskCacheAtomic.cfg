SPECIFICATION DiskSpec
CHECK_DEADLOCK FALSE
CONSTANTS
  Procs = {p1, p2}
  Urls = {u}
  Sizes = {1}
  Ttl = 1
  MaxActive = 2
  MaxLaunches = 2
  MaxTime = 0
INVARIANTS
  EntryAlwaysWhole
