\* Two proxies, one sender, statements that fail, one crash.
SPECIFICATION Spec
CONSTANTS
  p1 = p1
  p2 = p2
  s1 = s1
  s2 = s2
  x = x
  y = y
  None = None
  Direct = Direct
  Configured = Configured
  Proxy <- MCProxy
  Sender <- OneSender
  Destination <- MCDestination
  Pattern <- MCPattern
  Covers <- MCCovers
  MaxRoutes = 2
  MaxUpdates = 1
  Faults = TRUE
  ConfigProxy = FALSE
  MaxCrashes = 1
SYMMETRY MCSymmetry
INVARIANTS
  TypeOK
  RouteKeepsItsProxy
PROPERTIES
  ChosenIsEnabled
