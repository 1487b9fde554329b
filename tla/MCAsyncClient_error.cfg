SPECIFICATION Spec
CONSTANTS
  Calls = {k1}
  AppFreesError = TRUE
INVARIANT
  ErrorFreedOnce
CHECK_DEADLOCK FALSE
