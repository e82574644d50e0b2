SPECIFICATION MCSpec
CONSTANTS
  Users = {a1, a2}
  Shards = {s1, s2}
  MaxMeta = 2
  MaxWrites = 2
  MaxPlans = 2
  IndexAtEnd = TRUE
  Threads = {t1, t2, t3}
  Customs = {custom}
  CustomRaces = FALSE
  Instances = {i1}
  Algorithms = {Zstd}
  Batches <- SomeBatches
  MaxCodecs = 3
  Nobody = Nobody
  Missing = Missing
  c1 = c1
  c2 = c2
  Callers = {u1, u2}
  Buffers = {b1}
  Sizes = {1, 2}
  KnobLists <- SomeKnobs
  Known <- KnownKnobs
  Free = Free
  NumPoints = 3
SYMMETRY Symmetry
CHECK_DEADLOCK FALSE
INVARIANTS
  CleanReadsLastWrite
  ReadsCurrentMetadata
  CustomAllocatorStays
  CodecsAreThreadLocal
  CodecsHaveAllocator
  BatchKeepsPositions
  DriverOpensOnce
  QuietConfigureIsInForce
  QuietBuffersAreRegistered
  WrongIsNeverReported
  SweepRowsAreOnce
  IsolatedSweepIsComplete
