SPECIFICATION FairSpec
CONSTANTS
  m1 = m1
  m2 = m2
  w1 = w1
  w2 = w2
  async = async
  audit = audit
  failed = failed
  NoTransport = NoTransport
  NoEnvelope = NoEnvelope
  Message = {m1, m2}
  Worker = {w1, w2}
  Transport = {async, audit, failed}
  Setups <- AllSetups
INVARIANTS
  TypeOK
  NoLoss
  DeadLettersReplayable
  NotDuplicated
  RetryBudget
  AllHandlersRan
PROPERTIES
  Settles
\* Once every message is dealt with and the bounds are used up, nothing is left to do.
CHECK_DEADLOCK FALSE
