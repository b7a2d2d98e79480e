SPECIFICATION LifeSpec
CONSTANTS
  Cells <- MCCells
  Val = {0, 1}
  Off = 0
  Accesses <- MCAccesses
  SHUTDOWN_MAXFN = 8
  PROGRAMMERS_MAX = 4
  Drivers <- MCAllDrivers
INVARIANTS
  RestoredOnShutdown
  AccessOutlivesUse
  ReleasedOnShutdown
  OriginalIsKept
