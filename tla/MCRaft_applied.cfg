SPECIFICATION Spec
CONSTANTS
  Server = {s1, s2, s3}
  Command = {x, y}
  VotedNULL = VotedNULL
  MaxTerm = 2
  MaxLog = 1
  MaxCalls = 2
  MaxRestarts = 0
  First = s1
  Second = s2
CONSTRAINT Separated
VIEW SeparatedView
SYMMETRY Renamings
INVARIANT AppliedAgree
CHECK_DEADLOCK FALSE
