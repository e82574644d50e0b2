SPECIFICATION FairSpec
CONSTANTS
  Paths = {p1}
  Threads = {t1, t2}
  Daemons = {}
  Batch = 1
  Entries = {e1, e2, e3}
  Inodes = {n1, n2, n3}
  Cap = 1
  MaxWrites = 2
  Renames = FALSE
  NoEntry = NoEntry
  NoFile = NoFile
  Skip = Skip
PROPERTIES
  ServesFiles
  CallsReturn
  RetiredAreClosed
