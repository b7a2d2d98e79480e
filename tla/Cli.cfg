SPECIFICATION Spec
CONSTANTS
  Buses = {"SPI", "LPC", "PROG"}
  flashchips <- MCflashchips
  MAX_CHIPS = 3
  CommandLines <- MCCommandLines
  ProgrammerSets <- MCProgrammerSets
  DecodeLimits <- MCDecodeLimits
  NoChip = "no -c"
INVARIANTS
  OnlyTheOneChip
  DoneAsAsked
  ExitStatus
