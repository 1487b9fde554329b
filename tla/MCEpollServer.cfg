SPECIFICATION Spec
CONSTANTS
  Conns = {c1, c2, c3}
  MaxCalls = 2
  Backlog = 2
  Workers = {w1, w2}
  Fds = {f1, f2}
  MAX_EVENTS = 2
  pipe_fd = pipe_fd
  None = None
SYMMETRY Symmetry
INVARIANTS
  TypeOK
  OwnedOnce
  EventsCurrent
  DescriptorsMatch
  NoIdleWorker
PROPERTY
  Implements
CHECK_DEADLOCK FALSE
CONSTRAINT FewCalls
