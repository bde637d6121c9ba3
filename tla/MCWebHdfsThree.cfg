SPECIFICATION Spec
CONSTANTS
  n1 = n1
  n2 = n2
  n3 = n3
  HostLists <- Three
  MaxFailovers = 0
INVARIANT StandbyOnlyIfNoneActive
