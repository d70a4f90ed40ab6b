------------------------------- MODULE MCRaft -------------------------------
EXTENDS Raft, TLC

Peers == Permutations(Server)

\* Messages that no handler can act on any more leave the view of a state:
\* terms only grow, and a peer that is no longer CANDIDATE or LEADER of a
\* term never is again.
canMatter(m) ==
  LET sender == rf[m.from]
      receiver == rf[m.to] IN
  CASE m.type \in {"RequestVote", "AppendEntries"} ->
         \/ receiver.term <= m.term
         \/ sender.term = m.term /\ sender.role # "FOLLOWER"
    [] m.type = "RequestVoteReply" ->
         /\ receiver.term = m.args /\ receiver.role = "CANDIDATE"
         /\ m.voteGranted \/ m.term > m.args
    [] m.type = "AppendEntryReply" ->
         receiver.term = m.args /\ receiver.role = "LEADER"

\* Fields that are set again before they are read.
inUse(s) ==
  [s EXCEPT !.voteCount = IF s.role = "CANDIDATE" THEN @ ELSE 0,
            !.nextIndex = IF s.role = "LEADER" THEN @ ELSE <<>>,
            !.matchIndex = IF s.role = "LEADER" THEN @ ELSE <<>>]

View == <<[i \in Server |-> inUse(rf[i])], disk, {m \in msgs : canMatter(m)},
          votes, delivered, restarts>>
=============================================================================
