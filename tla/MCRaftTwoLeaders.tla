-------------------------- MODULE MCRaftTwoLeaders --------------------------
(* Raft narrowed to behaviours in which First and Second alone campaign.   *)
EXTENDS MCRaft

CONSTANTS First, Second

between(m) == {m.from, m.to} = {First, Second}

\* First leads term 1, no call between First and Second is ever answered, and
\* every signal reaches the ticker it is for.
Separated ==
  /\ rf[First].term <= 1
  /\ \A i \in Server :
       /\ rf[i].role = "CANDIDATE" => i \in {First, Second}
       /\ rf[i].ticker \in {rf[i].role, "WON"}
  /\ \A m \in msgs :
       m.type \in {"RequestVoteReply", "AppendEntryReply"} => ~between(m)

\* What is left of a state when no call between the two matters, and nobody
\* asks who voted for whom.
SeparatedView ==
  <<[i \in Server |-> inUse(rf[i])], delivered, restarts,
    {m \in msgs : canMatter(m) /\ ~between(m)}>>

Renamings == Permutations(Command)
=============================================================================
