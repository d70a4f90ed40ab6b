SPECIFICATION Spec
CONSTANTS
  Server = {s1, s2, s3}
  Command = {x}
  VotedNULL = VotedNULL
  MaxTerm = 2
  MaxLog = 0
  MaxCalls = 1
  MaxRestarts = 1
VIEW View
SYMMETRY Peers
INVARIANTS OneLeaderAtATime WonIsElected OneForeignVotePerTerm DiskIsCurrent
PROPERTY TermNeverFalls
