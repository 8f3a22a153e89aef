SPECIFICATION FairSpec
CONSTANTS
  p1 = p1
  p2 = p2
  c1 = c1
  c2 = c2
  m1 = m1
  m2 = m2
  m3 = m3
  Process = {p1, p2}
  Consumer = {c1, c2}
  Partition = {t1}
  Message = {m1, m2, m3}
  Foreign = {m3}
  Nobody = Nobody
  NoRecord = NoRecord
  Setups <- AllSetups
INVARIANTS
  TypeOK
  NoLoss
  NotHandledTwice
PROPERTIES
  Settles
\* Once every process has closed, nothing is left to do.
CHECK_DEADLOCK FALSE
