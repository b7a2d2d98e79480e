SPECIFICATION LayoutFairSpec
CONSTANTS
  Size = 4
  UINT_MAX = 7
  MAX_ROMLAYOUT = 3
  Names <- MCNames
  LayoutFiles <- MCLayoutFiles
  IncludeLists <- MCIncludeLists
INVARIANTS
  UnionOfIncluded
  OnlyWhatWasAsked
PROPERTIES
  Termination
