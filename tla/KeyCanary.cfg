SPECIFICATION LiveSpec
CONSTANTS
  Delays = {1, 3}
  Lag = 2
  Alarm = 5
  MaxFaults = 2
INVARIANT TypeOK
INVARIANT ResultVouches
INVARIANT OutlivesRun
INVARIANT PromptReplicaIsRead
PROPERTY SuspiciousIsKept
PROPERTY LeftoversGo
\* A run ends, and so does its time.
CHECK_DEADLOCK FALSE
