SPECIFICATION Spec
CONSTANTS
  MaxAttempts = 3
  Batch = 3
  MaxOthers = 2
  MaxLosses = 1
INVARIANT TypeOK
INVARIANT OkMeansThrough
INVARIANT WarningMeansDuplicate
INVARIANT QuietTopicIsFound
\* A run ends.
CHECK_DEADLOCK FALSE
