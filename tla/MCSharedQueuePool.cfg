SPECIFICATION FairSpec
CONSTANTS
  Thread = {t1, t2}
  Job = {j1, j2, j3, j4}
  Panics = {j1, j2, j3}
  MaxFailures = 2
INVARIANTS NothingLost PoolKeepsItsSize
PROPERTIES JobsEnd ThreadsEnd
CHECK_DEADLOCK FALSE
