SPECIFICATION Spec
CONSTANTS
  Server = {s1, s2}
  Command = {x}
  VotedNULL = VotedNULL
  MaxTerm = 2
  MaxLog = 2
  MaxCalls = 2
  MaxRestarts = 1
VIEW View
SYMMETRY Peers
INVARIANTS TypeOK LogTermsOrdered NextIndexPositive DeliveredInOrder
CHECK_DEADLOCK FALSE
