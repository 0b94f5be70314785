\* One request, static routing, one rule whose field is "downstream".
SPECIFICATION Spec
CONSTANTS
  r1 = r1
  r2 = r2
  Request <- OneRequest
  User <- MCUser
  Host <- MCHost
  Pattern <- MCPattern
  Covers <- MCCovers
  Peer <- MCPeer
  Static = TRUE
  Message <- PolicyMessages
  ConfigMode = "all"
  AdminModes <- NoMode
  FilterRows <- NoRow
  RuleRows <- NoRow
  InitFilters <- NoRows
  InitRules <- DownstreamRules
  MaxRows = 1
  Faults = FALSE
  MaxCrashes = 0
CHECK_DEADLOCK FALSE
INVARIANT
  DownstreamRuleApplies
