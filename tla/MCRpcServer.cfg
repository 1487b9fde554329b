SPECIFICATION Spec
CONSTANTS
  Services = {"svc"}
  FNames = {"get", "passwd"}
  Funcs = {get1, get2}
  Sigs = {sig}
  Filtered = {"passwd"}
  Threads = {t1, t2}
  Rotators = {r1, r2}
  RegisterOnce = TRUE
  MaxAllocs = 4
  MaxFiles = 3
  None = None
SYMMETRY Symmetry
INVARIANTS
  TypeOK
  TablesLive
  DispatchesKnown
  RotationSafe
  LoggedIsTimed
CHECK_DEADLOCK FALSE
