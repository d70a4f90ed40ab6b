CONSTANTS
  w1 = w1
  w2 = w2
  w3 = w3
  Worker = {w1, w2, w3}
  Crashing = {w1, w2}
  AfterMap = {"Map"}
  NMap = 2
  NReduce = 2
  Emits <- EmitsSome
SPECIFICATION FairSpec
INVARIANT LeftCounts
INVARIANT ReduceGetsAllFiles
INVARIANT RerunGetsSameFiles
INVARIANT ExitMeansFinished
PROPERTY JobFinishes
CHECK_DEADLOCK FALSE
