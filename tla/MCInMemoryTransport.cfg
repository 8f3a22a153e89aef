SPECIFICATION FairSpec
CONSTANTS
  Consumer = {c1, c2}
  Closer = {k1, k2}
  MaxDelay = 1
  MaxIds = 4
INVARIANTS
  TypeOK
  OneCopy
  ClosedIsDrained
PROPERTIES
  InOrder
  KeepsDeliveryContract
  CloseResolves
\* Once every consumer has returned and close() has resolved, nothing is left to do.
CHECK_DEADLOCK FALSE
