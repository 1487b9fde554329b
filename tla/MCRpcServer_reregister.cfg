SPECIFICATION Spec
CONSTANTS
  Services = {"svc"}
  FNames = {"get"}
  Funcs = {get1, get2}
  Sigs = {sig}
  Filtered = {}
  Threads = {t1}
  Rotators = {}
  RegisterOnce = FALSE
  MaxAllocs = 4
  MaxFiles = 1
  None = None
INVARIANT
  NameIsKey
CHECK_DEADLOCK FALSE
