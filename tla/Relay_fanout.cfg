\* One request to several hosts, rewrite rules, failing database calls, one
\* crash, and liveness.
SPECIFICATION FairSpec
CONSTANTS
  r1 = r1
  r2 = r2
  Request <- OneRequest
  User <- MCUser
  Host <- MCHost
  Pattern <- MCPattern
  Covers <- MCCovers
  Peer <- MCPeer
  Static = FALSE
  Message <- FanoutMessages
  ConfigMode = "all"
  AdminModes <- NoMode
  FilterRows <- NoRow
  RuleRows <- NoRow
  InitFilters <- NoRows
  InitRules <- FanoutRules
  MaxRows = 3
  Faults = TRUE
  MaxCrashes = 1
CHECK_DEADLOCK FALSE
INVARIANTS
  TypeOK
  AnswerIsTruthful
  AllOkMeansAllDelivered
PROPERTIES
  EveryHandlerEnds
