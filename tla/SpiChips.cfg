SPECIFICATION ChipsFairSpec
CONSTANTS
  Size = 8
  PageSize = 4
  BlockSize = 4
  Jobs <- Jobs1
  Programmers <- MCProgrammers
  Contents <- MCContents
  MaxLost = 2
  Bits <- MCBits
  Chips <- MCChips
  MaxPolls = 2
  MaxFailures = 1
CHECK_DEADLOCK FALSE
INVARIANTS Obeyed OnlyProtectionGone Unlocks
PROPERTIES ImplementsCall CallsReturn
