CONSTANTS
  N <- Sizes
  x = x
  y = y
  Command = {x, y}
  none = none
  MaxIndex = 2
  MaxTerm = 2
  MaxStarts = 1
SYMMETRY Symmetry
SPECIFICATION Spec
INVARIANT LinksAsAsked
INVARIANT ReturnedIsCommitted
INVARIANT NoFalseAlarm
PROPERTY NewestLeader
CHECK_DEADLOCK FALSE
