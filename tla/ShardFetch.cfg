SPECIFICATION FetchSpec
CONSTANTS
  Offsets <- MCOffsets
  Lengths <- MCLengths
  MaxCount = 3
  MaxFused = 4
  MaxGap = 1
  Sizes <- MCSizes
  None = None
CHECK_DEADLOCK FALSE
INVARIANTS
  EachRequestOnce
  GapsBounded
  NoMissedFusion
  ChunksGetTheirBytes
  FilledOnlyIfAbsent
