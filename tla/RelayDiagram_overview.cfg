\* Any tables at first and two changes of them, two bubbles, legs of two frames.
SPECIFICATION FairSpec
CONSTANTS
  Char <- MCChar
  Urls <- MCUrls
  NoUrl = NoUrl
  Proxies <- MCProxies
  RouteLists <- MCRouteLists
  Placeholder <- MCPlaceholder
  Frames = 2
  MaxBubbles = 2
  MaxChanges = 2
INVARIANTS
  TypeOK
  WiresTellRouting
PROPERTIES
  BubblesEnd
