\* One proxy and its route; two overlapping functions, two edits from
\* the page or by others, one failed call.
SPECIFICATION FairSpec
CONSTANTS
  t1 = t1
  t2 = t2
  None = None
  Error = Error
  Task <- MCTask
  First = 1
  MaxEdits = 2
  MaxFailures = 1
INVARIANTS
  TypeOK
  ClicksHitTheirProxy
PROPERTIES
  NeverResurrected
  DeletionShown
  PageConverges
