SPECIFICATION IchFairSpec
CONSTANTS
  Opcodes <- MCOpcodes
  Calls <- MCCalls
  LockedMenus <- MCMenus
  Bbars = {0, 256}
  MaxData = 5
  MaxCalls = 2
  SizeComp0 = 4
  SizeComp1 = 4
  Boundary = 4
  EraseLow = 2
  EraseHigh = 4
  MaxTransfer = 3
  Data <- MCData
CHECK_DEADLOCK FALSE
INVARIANTS OnTheWire ReadsAreOwn AllTaken
PROPERTIES ImplementsCall Returns
