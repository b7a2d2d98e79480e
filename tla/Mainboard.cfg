SPECIFICATION MainboardSpec
CONSTANTS
  chipset_enables <- MCChipsets
  board_matches <- MCBoards
  Machines <- MCMachines
  Params <- MCParams
  SUPERIO_MAX_COUNT = 3
  NONE = NONE
  Boards <- MCWired
  MaxPolls = 2
INVARIANTS
  LaptopNeedsForce
  RightCodeOnly
  NoSuperioLost
  ItsLines
  LeavesConfigurationMode
