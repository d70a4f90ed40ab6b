---------------------------- MODULE MCRaftTester ----------------------------
(* Two servers for the Raft lab, three and five for the key-value lab.     *)
EXTENDS RaftTester, TLC

CONSTANTS x, y

Symmetry == Permutations(Command)

Sizes == [raft |-> {2}, kv |-> {3, 5}]
=============================================================================
