SPECIFICATION Spec
CONSTANTS
  Size = 6
  Gran = 2
  ERASED = ERASED
  ZERO = ZERO
  D = D
  Byte <- MCByte
  Erasers <- MCSmallBlocks
  Contents <- MCContents
  Images <- MCImages
  Layouts <- MCLayouts
  Jobs <- MCEraseJobs
  MaxFaults = 0
INVARIANTS
  EraseErasesChip
