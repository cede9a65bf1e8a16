SPECIFICATION FairRenderSpec
CHECK_DEADLOCK FALSE
CONSTANTS
  Urls <- Site
  Starts = {"page", "moved"}
  Location <- SiteLocation
  Origin <- SiteOrigin
  MaxRequests = 3
  MaxNavigations = 2
  Settle = 2
  MaxChanges = 2
  ScriptNavigations = 1
  Resources = 2
INVARIANTS
  LimitsHold
  StatusUntilScriptNavigates
  SettledButForTheWait
PROPERTY RenderCompletes
