\* A message and three tries of it; a process that is started twice.
SPECIFICATION FairSpec
CONSTANTS
  m1 = m1
  Messages <- MCMessages
  MaxTries = 3
  MaxStarts = 2
INVARIANTS
  TypeOK
  StoreOutlivesHandlers
  NoNeedlessCopy
PROPERTIES
  SignalEnds
CHECK_DEADLOCK FALSE
