CONSTANTS
  m1 = m1
  m2 = m2
  Module = {m1, m2}
  Source <- MCSource
  Absent = Absent
  Empty = Empty
  Failure = Failure
  HasMain <- MCHasMain
  MainOf <- MCMain
  FunctionOf <- MCFunction
  Fueled <- HasFuel
  Burned <- BurnedOnce
  OptimizedTo <- OptimizerRun
  Translatable <- NoCallLeft
  Formatted = TRUE
  MaxEdits = 2
  Input = {0, 1, 2, 3}
SPECIFICATION SpecMC
INVARIANTS OkMeansBuilt HalvesMatch FuelIsSpent MeaningIsKept TypesHold
PROPERTY CompileEnds
CHECK_DEADLOCK FALSE
