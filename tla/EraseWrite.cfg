SPECIFICATION FairSpec
CONSTANTS
  Size = 6
  Gran = 2
  ERASED = ERASED
  ZERO = ZERO
  D = D
  Byte <- MCByte
  Erasers <- MCErasers
  Contents <- MCContents
  Images <- MCImages
  Layouts <- MCLayouts
  Jobs <- MCJobs
  MaxFaults = 2
INVARIANTS
  ProgramsOnlyErased
  CopyIsRightAhead
  RetriesAnotherEraser
PROPERTIES
  Termination
  ImplementsUpdate
