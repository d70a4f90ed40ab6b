CONSTANTS
  c1 = c1
  c2 = c2
  e1 = e1
  n1 = n1
  nil = nil
  End = {e1}
  Server = {n1}
  Connections <- OneServer
  Call = {c1, c2}
  Hangs = {c2}
  MaxInstances = 2
SPECIFICATION FairSpec
INVARIANT PositiveReplyIsSaved
PROPERTY CallPromise
PROPERTY NothingSavedAfterReturn
PROPERTY CallReturns
CHECK_DEADLOCK FALSE
