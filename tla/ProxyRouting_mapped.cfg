\* No statement fails: a mapped destination, and the CLI.
SPECIFICATION Spec
CONSTANTS
  p1 = p1
  p2 = p2
  s1 = s1
  s2 = s2
  x = x
  y = y
  None = None
  Direct = Direct
  Configured = Configured
  Proxy <- MCProxy
  Sender <- OneSender
  Destination <- MCDestination
  Pattern <- MCPattern
  Covers <- MCCovers
  MaxRoutes = 2
  MaxUpdates = 0
  Faults = FALSE
  ConfigProxy = FALSE
  MaxCrashes = 0
SYMMETRY MCSymmetry
INVARIANT
  MappedUsesProxy
