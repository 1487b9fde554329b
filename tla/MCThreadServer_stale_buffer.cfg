SPECIFICATION Spec
CONSTANTS
  Conns = {1, 2}
  MaxCalls = 2
  Backlog = 2
  Workers = {w1}
  MaxFds = 2
  MaxQueue = 2
  ReqLen <- EqualLengths
  None = None
INVARIANT
  OnlyValidRequests
CHECK_DEADLOCK FALSE
