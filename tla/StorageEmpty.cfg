SPECIFICATION MCSpec
CONSTANTS
  Readers = {g1}
  Writers = {w1, w2}
  Values <- WithEmpty
  MaxBytes = 2
  MaxFiles = 3
  MaxSets = 2
  Emptying = TRUE
  Missing = Missing
  Threads = {t1, t2}
  Roots = {r1, r2, r3}
  Cap = 2
  MaxWrites = 3
  MaxPlans = 3
SYMMETRY Symmetry
CHECK_DEADLOCK TRUE
INVARIANTS
  QuietGetsAreExact
