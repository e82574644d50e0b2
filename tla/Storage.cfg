SPECIFICATION MCSpec
CONSTANTS
  Readers = {g1}
  Writers = {w1, w2}
  Values <- ThreeValues
  MaxBytes = 3
  MaxFiles = 2
  MaxSets = 3
  Emptying = FALSE
  Missing = Missing
  Threads = {t1, t2}
  Roots = {r1, r2, r3}
  Cap = 2
  MaxWrites = 3
  MaxPlans = 3
SYMMETRY Symmetry
CHECK_DEADLOCK TRUE
INVARIANTS
  QuietGetsAreExact
  RacingGetsReadHeldBytes
  PlanIsNotStale
  HoldsMostRecent
