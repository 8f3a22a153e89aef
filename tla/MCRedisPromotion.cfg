SPECIFICATION Spec
CONSTANTS
  w1 = w1
  w2 = w2
  o1 = o1
  m1 = m1
  m2 = m2
  Worker = {w1, w2}
  Operator = {o1}
  Message = {m1, m2}
  NoEntry = NoEntry
  Setups <- PromotionSetups
INVARIANTS
  PromotedAtomically
\* Once every process has closed, nothing is left to do.
CHECK_DEADLOCK FALSE
