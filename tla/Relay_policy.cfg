\* Two requests, static routing, the admin changes mode, filters and rules.
SPECIFICATION Spec
CONSTANTS
  r1 = r1
  r2 = r2
  Request <- MCRequest
  User <- MCUser
  Host <- MCHost
  Pattern <- MCPattern
  Covers <- MCCovers
  Peer <- MCPeer
  Static = TRUE
  Message <- PolicyMessages
  ConfigMode = "all"
  AdminModes <- Modes
  FilterRows <- PolicyFilterRows
  RuleRows <- PolicyRuleRows
  InitFilters <- PolicyFilters
  InitRules <- NoRows
  MaxRows = 1
  Faults = FALSE
  MaxCrashes = 0
SYMMETRY MCSymmetry
INVARIANTS
  OnlyAdmittedIsSent
