CONSTANTS
  Generated <- AnyLoader
  UINT_MAX = 3
  LifeTimes = {0, 1, 2, 3}
SPECIFICATION SpecFrontend
INVARIANT TimeOverUnhooks
