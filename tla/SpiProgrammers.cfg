CONSTANTS
  Masters <- MCMasters
  Commands <- MCCommands
  Bits = 5
  MaxLong = 16
  MaxOther = 2
  Zeros = 4
  MaxSwallow = 5
  BulkSize = 8
  Granularity = 2
  Packet = 4
  MaxCount = 4
  PageSizes = {1, 2, 4}
  BulkContents <- MCBulkContents
  Addr = {0, 1, 2}
  Reads <- MCReads
  SerprogDevices <- MCSerprogDevices
  MaxCalls = 4
  MaxRefusals = 1
  SyncDevices <- MCSyncDevices
  Nops = 2
  Tries = 2
  Scans = 4
  MaxEaten = 5
  Stale <- MCStale
  MaxLate = 2
SPECIFICATION ProgrammersFairSpec
INVARIANTS
  TransfersIntact AdaptersInStep SessionOpens Delivered
PROPERTIES ImplementsMasterCall AllEnd
CHECK_DEADLOCK FALSE
