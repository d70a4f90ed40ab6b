SPECIFICATION FairSpec
CONSTANTS
  c1 = c1
  c2 = c2
  v1 = v1
  v2 = v2
  Clerk = {c1, c2}
  Value = {v1, v2}
  NServers = 2
  Script <- WriterAndReader
  MaxIndex = 2
  MaxCrashes = 1
INVARIANTS ApplyNeverBlocks AppliedOnce ReplicasAgree
PROPERTIES ChannelKeepsOperation HandlersReturn
CHECK_DEADLOCK FALSE
