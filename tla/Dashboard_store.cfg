\* Two overlapping functions, two edits, one failed call.
SPECIFICATION FairSpec
CONSTANTS
  t1 = t1
  t2 = t2
  None = None
  Error = Error
  Task <- MCTask
  MaxEdits = 2
  MaxFailures = 1
INVARIANTS
  TypeOK
  NeverInvented
PROPERTIES
  EditShowsItself
  Converges
  ConnectEnds
