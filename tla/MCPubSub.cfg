SPECIFICATION FairSpec
CONSTANTS
  p1 = p1
  p2 = p2
  c1 = c1
  c2 = c2
  m1 = m1
  m2 = m2
  Process = {p1, p2}
  Consumer = {c1, c2}
  Message = {m1, m2}
  NoOne = NoOne
  Nothing = Nothing
  Setups <- AllSetups
INVARIANTS
  TypeOK
  NoLoss
  NobodySleepsOnWork
  ClosedIsFlushed
PROPERTIES
  CloseResolves
  Settles
\* Once every process has closed, nothing is left to do.
CHECK_DEADLOCK FALSE
