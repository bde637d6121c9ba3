SPECIFICATION Spec
CONSTANTS
  Delays = {2}
  Lag = 1
  Alarm = 5
  MaxFaults = 0
INVARIANT PromptReplicaDeletes
\* A run ends, and so does its time.
CHECK_DEADLOCK FALSE
