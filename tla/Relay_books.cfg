\* Two requests, two groups each or refused, nothing fails in the relay: the
\* counters.
SPECIFICATION Spec
CONSTANTS
  r1 = r1
  r2 = r2
  Request <- MCRequest
  User <- MCUser
  Host <- MCHost
  Pattern <- MCPattern
  Covers <- MCCovers
  Peer <- MCPeer
  Static = FALSE
  Message <- BooksMessages
  ConfigMode = "selected"
  AdminModes <- NoMode
  FilterRows <- NoRow
  RuleRows <- NoRow
  InitFilters <- BooksFilters
  InitRules <- NoRows
  MaxRows = 1
  Faults = FALSE
  MaxCrashes = 0
SYMMETRY MCSymmetry
CHECK_DEADLOCK FALSE
INVARIANTS
  BooksBalance
