CONSTANTS
  NCpu = 2
  Keys <- MCKeys
  BUCKETS = 2
  HASH_ENTRIES = 2
  ALERT_THRESHOLD = 1
  INT_MAX = 4095
  Threads <- MCThreads
  Callers <- MCCallers
  Process <- MCProcess
  Inputs <- MCInputs
  Ticks <- MCTicks
  MaxEvents <- MCMaxEvents
  Programs <- EveryProgram
  Forever <- ForceKillOnly
SPECIFICATION SpecMC
CHECK_DEADLOCK FALSE
INVARIANTS CountsAreExact AlertIsDue TimeIsExact UnlockedCounts ElixirMeaning UdpIsSteered PacketInBounds KillsAreKept KillsListed UnmovedListed
PROPERTY KillsListingEnds
