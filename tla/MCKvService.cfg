SPECIFICATION FairSpec
CONSTANTS
  Key = {k}
  Value = {v1, v2}
  none = none
  Conn = {c1, c2}
  Threads = {1, 2}
  MaxCalls = 2
  MaxStarts = 2
INVARIANT AnsweredSetStays
PROPERTY EngineStaysUnlessTorn
PROPERTY KeepsContract
PROPERTY CallsReturn
CHECK_DEADLOCK FALSE
