CONSTANTS
  NCpu = 2
  Keys <- MCKeys
  MaxEntries = 2
  INT_MAX = 3
  Programs <- EveryMap
  MaxCalls = 4
SPECIFICATION SpecMaps
CHECK_DEADLOCK FALSE
INVARIANTS TypeOK CountsNeverExceed
PROPERTY ImplementsCounters
