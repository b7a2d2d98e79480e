SPECIFICATION Spec
CONSTANTS
  chipset_enables <- MCChipsets
  board_matches <- MCBoards
  Machines <- MCMachines
  Params <- MCParams
  SUPERIO_MAX_COUNT = 3
  NONE = NONE
INVARIANT UntestedIsSkipped
