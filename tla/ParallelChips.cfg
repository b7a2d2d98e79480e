SPECIFICATION ChipsFairSpec
CONSTANTS
  Size = 6
  PageSize = 3
  BlockSize = 3
  Jobs <- MCJobs
  Contents <- MCContents
  MaxTries = 2
  MaxPolls = 3
  MaxFailures = 3
  LockChips <- MCLockChips
  LockContents <- MCLockContents
CHECK_DEADLOCK FALSE
INVARIANTS ChipListens RetriesSuffice Unlocked
PROPERTIES ImplementsAndReturns
