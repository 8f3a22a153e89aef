SPECIFICATION FairSpec
CONSTANTS
  m1 = m1
  m2 = m2
  m3 = m3
  Message = {m1, m2, m3}
  Consumed = async
  Failed = failed
  NoMessage = NoMessage
  Setups <- AllSetups
INVARIANTS
  TypeOK
  NoLoss
  StopIsExact
  LimitKept
  ShutdownIsQuiet
PROPERTIES
  Stops
\* A command that has ended stops, and so does a killed process.
CHECK_DEADLOCK FALSE
