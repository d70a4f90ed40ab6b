CONSTANTS
  Op <- Ops
  MaxOps = 3
  MaxTime = 2
SPECIFICATION FairSpec
INVARIANT ResultIsLinearizability
INVARIANT ListIsRest
INVARIANT LongestIsLinearization
INVARIANT VerdictIsRight
PROPERTY CheckEnds
CHECK_DEADLOCK FALSE
