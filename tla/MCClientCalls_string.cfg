SPECIFICATION CallSpec
CONSTANTS
  Calls = {k1}
  AppFreesError = TRUE
  CharSpan = 1
  IntSpan = 2
  LongSpan = 4
  FuncTable <- MCFuncTable
  Params <- MCParams
  Results <- MCResults
  Codes = {0, 1}
INVARIANTS
  GenericCallArrives
CHECK_DEADLOCK FALSE
