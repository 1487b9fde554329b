SPECIFICATION CrashSpec
CONSTANTS
  Conns = {c1, c2}
  MaxCalls = 2
  Backlog = 2
  Workers = {w1}
  Fds = {f1, f2}
  MAX_EVENTS = 3
  MaxCrashes = 1
  pipe_fd = pipe_fd
  None = None
INVARIANTS
  TransportErrorReported
CHECK_DEADLOCK FALSE
