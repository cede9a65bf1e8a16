SPECIFICATION FairProcessSpec
CHECK_DEADLOCK FALSE
CONSTANTS
  Helpers = {"renderer", "gpu"}
  RuntimeStops = TRUE
INVARIANTS
  ReturnsAfterCleanup
  NobodyIsSpared
  ProfileOutlivesLeader
PROPERTY NothingIsLeft
