CONSTANTS
  w1 = w1
  w2 = w2
  w3 = w3
  Worker = {w1, w2}
  Crashing = {}
  AfterMap = {"Done"}
  NMap = 2
  NReduce = 2
  Emits <- EmitsSome
SPECIFICATION FairSpec
PROPERTY JobFinishes
CHECK_DEADLOCK FALSE
