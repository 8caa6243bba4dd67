CONSTANTS
  NCpu = 2
  Keys = {0}
  MaxEntries = 1
  INT_MAX = 9
  Programs <- CountSyscalls
  MaxCalls = 2
SPECIFICATION SpecMaps
CHECK_DEADLOCK FALSE
PROPERTY IncrementsByOne
