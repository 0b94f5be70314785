\* Two requests, dynamic routing, failing database calls, one crash.
SPECIFICATION Spec
CONSTANTS
  r1 = r1
  r2 = r2
  Request <- MCRequest
  User <- MCUser
  Host <- MCHost
  Pattern <- MCPattern
  Covers <- MCCovers
  Peer <- MCPeer
  Static = FALSE
  Message <- DeliveryMessages
  ConfigMode = "all"
  AdminModes <- NoMode
  FilterRows <- NoRow
  RuleRows <- NoRow
  InitFilters <- NoRows
  InitRules <- NoRows
  MaxRows = 0
  Faults = TRUE
  MaxCrashes = 1
SYMMETRY MCSymmetry
CHECK_DEADLOCK FALSE
INVARIANTS
  SecondCopyOnlyUnacked
  RoutesAddUp
  NeverOvercounted
PROPERTIES
  ImplementsService
