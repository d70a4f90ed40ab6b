SPECIFICATION Spec
CONSTANTS
  c1 = c1
  c2 = c2
  v1 = v1
  v2 = v2
  Clerk = {c1}
  Value = {v1, v2}
  NServers = 2
  Script <- WriterReads
  MaxIndex = 2
  MaxCrashes = 0
INVARIANT GetFetchesPut
CHECK_DEADLOCK FALSE
