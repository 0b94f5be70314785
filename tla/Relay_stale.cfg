\* One request, the admin changes the mode and the filters: a stale verdict.
SPECIFICATION Spec
CONSTANTS
  r1 = r1
  r2 = r2
  Request <- OneRequest
  User <- MCUser
  Host <- MCHost
  Pattern <- MCPattern
  Covers <- MCCovers
  Peer <- MCPeer
  Static = TRUE
  Message <- PolicyMessages
  ConfigMode = "all"
  AdminModes <- Modes
  FilterRows <- PolicyFilterRows
  RuleRows <- NoRow
  InitFilters <- PolicyFilters
  InitRules <- NoRows
  MaxRows = 1
  Faults = FALSE
  MaxCrashes = 0
INVARIANT
  RejectedWasDenied
