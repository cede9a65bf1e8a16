SPECIFICATION DiskSpec
CHECK_DEADLOCK FALSE
CONSTANTS
  Procs = {p1, p2}
  Urls = {u, w}
  Sizes = {1, 2}
  Ttl = 0
  MaxActive = 2
  MaxLaunches = 3
  MaxTime = 1
SYMMETRY Symmetry
INVARIANTS
  HitIsForItsUrl
