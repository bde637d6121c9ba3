SPECIFICATION LiveSpec
CONSTANTS
  n1 = n1
  n2 = n2
  n3 = n3
  HostLists <- OneToThree
  MaxFailovers = 2
INVARIANT TypeOK
INVARIANT OkMeansClean
INVARIANT ActiveOfTwoIsFound
PROPERTY Ends
