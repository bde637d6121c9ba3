SPECIFICATION Spec
CONSTANTS
  p1 = p1
  p2 = p2
  Proc = {p1, p2}
  MaxTime = 2
  MaxPackets = 1
  MaxBacklog = 0
  MaxRestarts = 1
  Warn = 0
  Crit = 0
  Health = {"OK"}
SYMMETRY Symmetry
INVARIANT TypeOK
INVARIANT ClaimsAreDisjoint
PROPERTY Serialised
