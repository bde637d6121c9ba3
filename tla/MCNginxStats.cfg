SPECIFICATION Spec
CONSTANTS
  p1 = p1
  p2 = p2
  Proc = {p1, p2}
  MaxTime = 2
  MaxCount = 2
  MaxRestarts = 1
SYMMETRY Symmetry
INVARIANT TypeOK
INVARIANT ClaimsAreDisjointAndReal
INVARIANT AloneIsReadable
