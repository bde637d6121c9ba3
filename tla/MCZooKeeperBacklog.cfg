SPECIFICATION Spec
CONSTANTS
  p1 = p1
  p2 = p2
  Proc = {p1}
  MaxTime = 2
  MaxPackets = 1
  MaxBacklog = 3
  MaxRestarts = 0
  Warn = 0
  Crit = 1
  Health = {"OK", "CRITICAL"}
INVARIANT BacklogIsCritical
