CONSTANTS
  Generated <- AnyLoader
  UINT_MAX = 2
  LifeTimes = {0, 2}
  NCpu = 1
  Keys = {0, 1, 2}
  MaxEntries = 2
  INT_MAX = 9
  Programs <- CountSyscalls
  MaxCalls = 3
  PrintElem <- MCPrintElem
SPECIFICATION SpecSystem
CHECK_DEADLOCK FALSE
INVARIANTS ReportIsCurrent
PROPERTIES ReportsNeverDecrease ReportCatchesUp
