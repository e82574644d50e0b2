SPECIFICATION Spec
CONSTANTS
  Cases <- ManyAndFew
  ChunkBytes = 2
CHECK_DEADLOCK FALSE
INVARIANTS
  BoundsMeanSelection
  SelectsTouchedUnits
  ReadsAreExact
  FailsWhenDamaged
