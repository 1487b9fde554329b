SPECIFICATION FairSpec
CONSTANTS
  Conns = {1, 2, 3}
  MaxCalls = 2
  Backlog = 1
  Workers = {w1, w2}
  MaxFds = 3
  MaxQueue = 2
  ReqLen <- MixedLengths
  None = None
CONSTRAINT
  FewCalls
INVARIANTS
  TypeOK
  DescriptorsMatch
PROPERTIES
  Implements
  CallsReturn
CHECK_DEADLOCK FALSE
