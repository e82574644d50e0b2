SPECIFICATION Spec
CONSTANTS
  Paths = {p1, p2}
  Threads = {t1, t2}
  Daemons = {}
  Batch = 2
  Entries = {e1, e2, e3, e4, e5}
  Inodes = {n1, n2}
  Cap = 1
  MaxWrites = 0
  Renames = TRUE
  NoEntry = NoEntry
  NoFile = NoFile
  Skip = Skip
SYMMETRY Symmetry
INVARIANTS
  RefsCountHolders
  NeverClosedUnderReader
  NoLeak
  DescriptorsBounded
  NoHandleOutlivesDriver
