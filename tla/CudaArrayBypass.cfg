SPECIFICATION ArraySpec
CONSTANTS
  Users = {t1}
  Shards = {s1}
  MaxMeta = 2
  MaxWrites = 2
  MaxPlans = 2
  IndexAtEnd = TRUE
SYMMETRY Symmetry
CHECK_DEADLOCK FALSE
INVARIANTS
  ReadsLastWrite
