-------------------------------- MODULE Raft --------------------------------
(***************************************************************************)
(* The Go Raft peers of 6.5840/src/raft/raft.go: election, replication,    *)
(* application, persistence and restart, over the labrpc network.          *)
(*                                                                         *)
(* rf[i] is the Raft struct of peer i.  Every handler holds rf.mu from its *)
(* first to its last statement, so each one is a single action; what       *)
(* interleaves is the order in which handlers, replies, timers and         *)
(* restarts of the different peers take their mutexes.  Log[0], the        *)
(* sentinel of term 0 that Make appends, is left implicit: rf[i].log is    *)
(* Log[1:], and index 0 has term 0.                                        *)
(***************************************************************************)
EXTENDS Integers, Sequences, FiniteSets, FiniteSetsExt

CONSTANTS
  Server,       \* the peers
  Command,      \* what clients pass to Start
  VotedNULL,    \* VotedFor of a peer that has not voted
  MaxTerm,      \* bound: a peer whose term is MaxTerm starts no election
  MaxLog,       \* bound: Start appends only to a log shorter than MaxLog
  MaxCalls,     \* bound: AppendEntries calls of one peer and term to another
                \* peer that are in flight
  MaxRestarts   \* bound: restarts in a behaviour

ASSUME ConstantsAssumption ==
  /\ IsFiniteSet(Server) /\ Server # {}
  /\ VotedNULL \notin Server
  /\ MaxTerm \in Nat /\ MaxLog \in Nat /\ MaxRestarts \in Nat
  /\ MaxCalls \in Nat

VARIABLES
  rf,         \* the Raft structs
  disk,       \* what each Persister holds
  msgs,       \* RPC requests and replies in flight
  votes,      \* history: every vote cast, [voter, candidate, term]
  delivered,  \* history: everything sent up on an applyCh
  restarts    \* number of restarts so far

vars == <<rf, disk, msgs, votes, delivered, restarts>>

-----------------------------------------------------------------------------
(* The struct and its helpers.                                             *)

Role == {"FOLLOWER", "CANDIDATE", "LEADER"}

\* Where the ticker goroutine is: in the select of the role it last read, or
\* past the receive from winElection and about to take the mutex.
Ticker == Role \cup {"WON"}

LogEntry == [term : Nat, command : Command]

getLastLogIndex(s) == Len(s.log)

\* Log[k].Term
termAt(s, k) == IF k = 0 THEN 0 ELSE s.log[k].term

getLastLogTerm(s) == termAt(s, getLastLogIndex(s))

IsLogUpdated(s, cindex, cterm) ==
  IF cterm = getLastLogTerm(s) THEN cindex >= getLastLogIndex(s)
                               ELSE cterm > getLastLogTerm(s)

\* sendMessage is a non-blocking send on an unbuffered channel.  The ticker
\* receives it only while it is blocked in its select: between reading the
\* role and the select, or once its timer has fired, the signal is lost.
\* heard says which of the two happens.
stepDown(s, term, heard) ==
  [s EXCEPT !.term = term, !.role = "FOLLOWER", !.votedFor = VotedNULL,
            !.ticker = IF heard /\ s.role # "FOLLOWER" /\ @ # "WON"
                         THEN "FOLLOWER" ELSE @]

\* What persist() encodes.
encoded(s) == [term |-> s.term, votedFor |-> s.votedFor, log |-> s.log]

\* Mutant: saves only when the term has changed.
persist_onNewTerm(i, s) ==
  /\ rf' = [rf EXCEPT ![i] = s]
  /\ disk' = IF s.term = rf[i].term THEN disk
             ELSE [disk EXCEPT ![i] = encoded(s)]

\* A handler's last step: the struct is updated and saved to the Persister.
persist(i, s) ==
  /\ rf' = [rf EXCEPT ![i] = s]
  /\ disk' = [disk EXCEPT ![i] = encoded(s)]

\* Mutants: readPersist leaves one field at its initial value.
Make_forgetsTerm(d) ==
  [term |-> 0, votedFor |-> d.votedFor, log |-> d.log,
   role |-> "FOLLOWER", voteCount |-> 0,
   nextIndex |-> [j \in Server |-> 0], matchIndex |-> [j \in Server |-> 0],
   commitIndex |-> 0, lastApplied |-> 0, applying |-> FALSE,
   ticker |-> "FOLLOWER", alive |-> TRUE]

Make_forgetsVote(d) ==
  [Make_forgetsTerm(d) EXCEPT !.term = d.term, !.votedFor = VotedNULL]

\* The Raft struct that Make builds from persisted state d (readPersist).
Make(d) ==
  [term |-> d.term, votedFor |-> d.votedFor, log |-> d.log,
   role |-> "FOLLOWER", voteCount |-> 0,
   nextIndex |-> [j \in Server |-> 0], matchIndex |-> [j \in Server |-> 0],
   commitIndex |-> 0, lastApplied |-> 0, applying |-> FALSE,
   ticker |-> "FOLLOWER", alive |-> TRUE]

Init ==
  LET fresh == [term |-> 0, votedFor |-> VotedNULL, log |-> <<>>] IN
  /\ rf = [i \in Server |-> Make(fresh)]
  /\ disk = [i \in Server |-> fresh]
  /\ msgs = {}
  /\ votes = {}
  /\ delivered = {}
  /\ restarts = 0

-----------------------------------------------------------------------------
(* Elections.                                                              *)

BroadCastRequestVote(i, s) ==
  {[type |-> "RequestVote", term |-> s.term, from |-> i, to |-> j,
    lastLogIndex |-> getLastLogIndex(s), lastLogTerm |-> getLastLogTerm(s)] :
      j \in Server \ {i}}

\* Mutant: the winElection signal of an earlier election outlives it, as it
\* would in a buffered channel that is not reset.
electSelf_keepsSignal(i, role) ==
  LET s == rf[i]
      t == [s EXCEPT !.role = "CANDIDATE", !.term = @ + 1,
                     !.votedFor = i, !.voteCount = 1,
                     !.ticker = IF @ = "WON" THEN @ ELSE "CANDIDATE"] IN
  /\ s.alive /\ s.ticker \in {role, "WON"} /\ s.role = role
  /\ s.term < MaxTerm
  /\ persist(i, t)
  /\ msgs' = msgs \cup BroadCastRequestVote(i, t)
  /\ UNCHANGED <<votes, delivered, restarts>>

\* electSelf(role), called by the ticker when the timer of the select for
\* role fires.
electSelf(i, role) ==
  LET s == rf[i] IN
  /\ s.alive /\ s.ticker = role
  /\ \/ /\ s.role = role
        /\ s.term < MaxTerm
        /\ LET t == [s EXCEPT !.role = "CANDIDATE", !.term = @ + 1,
                              !.votedFor = i, !.voteCount = 1,
                              !.ticker = "CANDIDATE"]
           IN /\ persist(i, t)
              /\ msgs' = msgs \cup BroadCastRequestVote(i, t)
              /\ votes' = votes \cup
                   {[voter |-> i, candidate |-> i, term |-> t.term]}
     \/ /\ s.role # role
        /\ rf' = [rf EXCEPT ![i].ticker = s.role]
        /\ UNCHANGED <<disk, msgs, votes>>
  /\ UNCHANGED <<delivered, restarts>>

\* The RequestVote handler.  A vote request is one Call: it is answered once.
RequestVote(m) ==
  LET i == m.to
      s == rf[i] IN
  /\ m.type = "RequestVote" /\ s.alive
  /\ \E heard \in BOOLEAN :
       LET t == IF m.term > s.term THEN stepDown(s, m.term, heard) ELSE s
           granted == /\ m.term >= s.term
                      /\ t.votedFor \in {VotedNULL, m.from}
                      /\ IsLogUpdated(t, m.lastLogIndex, m.lastLogTerm)
           reply == [type |-> "RequestVoteReply", args |-> m.term,
                     from |-> i, to |-> m.from,
                     term |-> t.term, voteGranted |-> granted]
       IN /\ persist(i, IF granted THEN [t EXCEPT !.votedFor = m.from] ELSE t)
          /\ msgs' = (msgs \ {m}) \cup {reply}
          /\ votes' = votes \cup
               (IF granted THEN {[voter |-> i, candidate |-> m.from,
                                  term |-> t.term]} ELSE {})
  /\ UNCHANGED <<delivered, restarts>>

\* sendRequestVote once Call has returned true.  The winElection signal is
\* sent on reaching the majority exactly, and only then.
sendRequestVote(m) ==
  LET i == m.to
      s == rf[i] IN
  /\ m.type = "RequestVoteReply" /\ s.alive
  /\ msgs' = msgs \ {m}
  /\ \/ /\ \/ s.role # "CANDIDATE" \/ m.args # s.term \/ m.term < s.term
           \/ m.term = s.term /\ ~m.voteGranted
        /\ UNCHANGED <<rf, disk>>
     \/ /\ s.role = "CANDIDATE" /\ m.args = s.term /\ m.term > s.term
        /\ \E heard \in BOOLEAN : persist(i, stepDown(s, m.args, heard))
     \/ /\ s.role = "CANDIDATE" /\ m.args = s.term /\ m.term = s.term
        /\ m.voteGranted
        /\ \E heard \in BOOLEAN :
             rf' = [rf EXCEPT
               ![i].voteCount = @ + 1,
               ![i].ticker =
                 IF /\ heard /\ @ = "CANDIDATE"
                    /\ s.voteCount + 1 = Cardinality(Server) \div 2 + 1
                   THEN "WON" ELSE @]
        /\ UNCHANGED disk
  /\ UNCHANGED <<votes, delivered, restarts>>

-----------------------------------------------------------------------------
(* Replication.  Every tick starts new calls, whether or not those of the  *)
(* previous ticks have returned, so several calls of one leader to one     *)
(* peer are in flight, equal ones included; call tells them apart.         *)

\* The calls of sendAppendEntries from i to j not in flight in term.  A
\* request for which there is none left is taken to be lost.
freeCalls(i, j, term) ==
  (1..MaxCalls) \
    {m.call : m \in {n \in msgs :
        \/ /\ n.type = "AppendEntries"
           /\ n.from = i /\ n.to = j /\ n.term = term
        \/ /\ n.type = "AppendEntryReply"
           /\ n.from = j /\ n.to = i /\ n.args = term}}

\* The request SendHeartBeats builds for peer j, with every entry from
\* NextIndex[j] on.
appendEntriesFor(i, s, j) ==
  LET prev == s.nextIndex[j] - 1 IN
  [type |-> "AppendEntries", call |-> Min(freeCalls(i, j, s.term)),
   term |-> s.term, from |-> i, to |-> j, prevLogIndex |-> prev,
   prevLogTerm |-> termAt(s, prev), entries |-> SubSeq(s.log, prev + 1, Len(s.log)),
   leaderCommit |-> s.commitIndex]

\* SendHeartBeats indexes Log at NextIndex[j]-1: past the end of the log that
\* is a run-time panic, which ends the process.
SendHeartBeats(i, s) ==
  IF \A j \in Server \ {i} : s.nextIndex[j] - 1 <= getLastLogIndex(s)
    THEN /\ rf' = [rf EXCEPT ![i] = s]
         /\ msgs' = msgs \cup
              {appendEntriesFor(i, s, j) :
                 j \in {k \in Server \ {i} : freeCalls(i, k, s.term) # {}}}
    ELSE /\ rf' = [rf EXCEPT ![i] = [s EXCEPT !.alive = FALSE]]
         /\ UNCHANGED msgs

\* The ticker's LEADER case: 120 ms have passed.
heartBeatTimeout(i) ==
  LET s == rf[i] IN
  /\ s.alive /\ s.ticker = "LEADER"
  /\ \/ s.role = "LEADER" /\ SendHeartBeats(i, s)
     \/ /\ s.role # "LEADER"
        /\ rf' = [rf EXCEPT ![i].ticker = s.role]
        /\ UNCHANGED msgs
  /\ UNCHANGED <<disk, votes, delivered, restarts>>

\* The ticker's CANDIDATE case, after it received from winElection.
ReinitialisedAfterElection(i) ==
  LET s == rf[i] IN
  /\ s.alive /\ s.ticker = "WON"
  /\ \/ /\ s.role = "CANDIDATE"
        /\ SendHeartBeats(i,
             [s EXCEPT !.role = "LEADER", !.ticker = "LEADER",
                       !.nextIndex = [j \in Server |-> getLastLogIndex(s) + 1],
                       !.matchIndex = [j \in Server |-> 0]])
     \/ /\ s.role # "CANDIDATE"
        /\ rf' = [rf EXCEPT ![i].ticker = s.role]
        /\ UNCHANGED msgs
  /\ UNCHANGED <<disk, votes, delivered, restarts>>

\* Where the loop that compares the follower's log after prev with the sent
\* entries stops: the first position where one is exhausted or they differ.
agreeing(s, prev, entries) ==
  LET common == Min({Len(s.log) - prev, Len(entries)}) IN
  Min({k \in 0..common :
         k = common \/ s.log[prev + k + 1].term # entries[k + 1].term})

\* The first index of the run of entries with the term of index k.
firstOfTerm(s, k) ==
  Min({q \in 0..k : \A r \in q..k : termAt(s, r) = termAt(s, k)})

\* The follower's log is cut behind the agreeing entries, whether or not
\* there are entries left to append.
appendToLog(s, prev, entries) ==
  LET k == agreeing(s, prev, entries) IN
  SubSeq(s.log, 1, prev + k) \o SubSeq(entries, k + 1, Len(entries))

\* LeaderCommit moves CommitIndex, and starts a goroutine in applyLogs.
followerCommit(s, leaderCommit) ==
  IF leaderCommit > s.commitIndex
    THEN [s EXCEPT !.commitIndex = Min({leaderCommit, getLastLogIndex(s)}),
                   !.applying = TRUE]
    ELSE s

\* The AppendEntries handler.
ProcessAppendEntries(m) ==
  LET i == m.to
      s == rf[i]
      prev == m.prevLogIndex
      answer(t, success, cIndex, cTerm) ==
        /\ persist(i, t)
        /\ msgs' = (msgs \ {m}) \cup
             {[type |-> "AppendEntryReply", call |-> m.call, args |-> m.term,
               matched |-> prev + Len(m.entries), from |-> i, to |-> m.from,
               term |-> t.term, success |-> success,
               conflictIndex |-> cIndex, conflictTerm |-> cTerm]}
  IN
  /\ m.type = "AppendEntries" /\ s.alive
  /\ \/ m.term < s.term /\ answer(s, FALSE, -1, -1)
     \/ /\ m.term >= s.term
        /\ \E heard \in BOOLEAN :
           LET t == IF m.term > s.term THEN stepDown(s, m.term, heard) ELSE s
           IN \/ /\ prev > getLastLogIndex(t)
                 /\ answer(t, FALSE, getLastLogIndex(t) + 1, -1)
              \/ /\ prev <= getLastLogIndex(t)
                 /\ termAt(t, prev) # m.prevLogTerm
                 /\ answer(t, TRUE, firstOfTerm(t, prev), termAt(t, prev))
              \/ /\ prev <= getLastLogIndex(t)
                 /\ termAt(t, prev) = m.prevLogTerm
                 /\ answer(followerCommit(
                             [t EXCEPT !.log = appendToLog(t, prev, m.entries)],
                             m.leaderCommit),
                           TRUE, -1, -1)
  /\ UNCHANGED <<votes, delivered, restarts>>

\* Mutant: NextIndex is set one before the follower's ConflictIndex.
trackPeer_offByOne(s, j, m) ==
  IF m.success
    THEN LET match == Max({m.matched, s.matchIndex[j]}) IN
         [s EXCEPT !.matchIndex[j] = match, !.nextIndex[j] = match + 1]
    ELSE [s EXCEPT !.nextIndex[j] = m.conflictIndex - 1,
                   !.matchIndex[j] = m.conflictIndex - 2]

\* NextIndex and MatchIndex of peer j after its reply m.
trackPeer(s, j, m) ==
  IF m.success
    THEN LET match == Max({m.matched, s.matchIndex[j]}) IN
         [s EXCEPT !.matchIndex[j] = match, !.nextIndex[j] = match + 1]
    ELSE LET ofTerm == {k \in 0..getLastLogIndex(s) :
                          termAt(s, k) = m.conflictTerm}
             next == IF m.conflictTerm < 0 \/ ofTerm = {}
                       THEN m.conflictIndex ELSE Max(ofTerm)
         IN [s EXCEPT !.nextIndex[j] = next, !.matchIndex[j] = next - 1]

\* The count of the commit loop for index n of leader i.
replicas(i, s, n) ==
  IF termAt(s, n) = s.term
    THEN 1 + Cardinality({j \in Server \ {i} : s.matchIndex[j] >= n})
    ELSE 1

\* The commit loop: the highest index from the end of the log down to
\* CommitIndex that a majority is known to hold.
leaderCommit(i, s) ==
  LET held == {n \in s.commitIndex..getLastLogIndex(s) :
                 replicas(i, s, n) > Cardinality(Server) \div 2}
  IN IF held = {} THEN s
     ELSE [s EXCEPT !.commitIndex = Max(held), !.applying = TRUE]

\* sendAppendEntries once Call has returned true.
sendAppendEntries(m) ==
  LET i == m.to
      s == rf[i] IN
  /\ m.type = "AppendEntryReply" /\ s.alive
  /\ msgs' = msgs \ {m}
  /\ \/ /\ s.role # "LEADER" \/ m.args # s.term \/ m.term < s.term
        /\ persist(i, s)
     \/ /\ s.role = "LEADER" /\ m.args = s.term /\ m.term > s.term
        /\ \E heard \in BOOLEAN : persist(i, stepDown(s, m.args, heard))
     \/ /\ s.role = "LEADER" /\ m.args = s.term /\ m.term = s.term
        /\ persist(i, leaderCommit(i, trackPeer(s, m.from, m)))
  /\ UNCHANGED <<votes, delivered, restarts>>

-----------------------------------------------------------------------------
(* The service above, application and restarts.                            *)

Start(i, command) ==
  LET s == rf[i] IN
  /\ s.alive
  /\ \/ s.role # "LEADER" /\ UNCHANGED <<rf, disk>>
     \/ /\ s.role = "LEADER" /\ getLastLogIndex(s) < MaxLog
        /\ persist(i, [s EXCEPT !.log =
                         Append(@, [term |-> s.term, command |-> command])])
  /\ UNCHANGED <<msgs, votes, delivered, restarts>>

\* Mutant: sends only the entry at CommitIndex up.
applyLogs_onlyLast(i) ==
  LET s == rf[i]
      last == Min({s.commitIndex, getLastLogIndex(s)}) IN
  /\ s.alive /\ s.applying
  /\ delivered' = delivered \cup
       {[server |-> i, index |-> k, command |-> s.log[k].command] :
          k \in {last} \ (0..s.lastApplied)}
  /\ rf' = [rf EXCEPT ![i].applying = FALSE,
                      ![i].lastApplied = Max({@, last})]
  /\ UNCHANGED <<disk, msgs, votes, restarts>>

\* The applyLogs goroutine.  It holds the mutex while it sends entries
\* LastApplied+1 to CommitIndex up; indexing past the end of Log panics.
applyLogs(i) ==
  LET s == rf[i]
      last == Min({s.commitIndex, getLastLogIndex(s)}) IN
  /\ s.alive /\ s.applying
  /\ delivered' = delivered \cup
       {[server |-> i, index |-> k, command |-> s.log[k].command] :
          k \in (s.lastApplied + 1)..last}
  /\ rf' = [rf EXCEPT ![i].applying = FALSE,
                      ![i].lastApplied = Max({@, last}),
                      ![i].alive = Max({s.lastApplied, last}) >= s.commitIndex]
  /\ UNCHANGED <<disk, msgs, votes, restarts>>

\* A peer crashes, or has panicked, and Make runs again on its Persister.
\* The calls of the old incarnation need no care: it was at most in the term
\* on disk, and the new one acts on replies only in terms it starts itself.
Restart(i) ==
  /\ restarts < MaxRestarts
  /\ restarts' = restarts + 1
  /\ rf' = [rf EXCEPT ![i] = Make(disk[i])]
  /\ UNCHANGED <<disk, msgs, votes, delivered>>

\* The network drops a request or a reply: Call returns false, and
\* sendRequestVote and sendAppendEntries return.
Lose(m) ==
  /\ msgs' = msgs \ {m}
  /\ UNCHANGED <<rf, disk, votes, delivered, restarts>>

Next ==
  \/ \E i \in Server, role \in {"FOLLOWER", "CANDIDATE"} : electSelf(i, role)
  \/ \E i \in Server : heartBeatTimeout(i)
  \/ \E i \in Server : ReinitialisedAfterElection(i)
  \/ \E m \in msgs : RequestVote(m)
  \/ \E m \in msgs : sendRequestVote(m)
  \/ \E m \in msgs : ProcessAppendEntries(m)
  \/ \E m \in msgs : sendAppendEntries(m)
  \/ \E i \in Server, command \in Command : Start(i, command)
  \/ \E i \in Server : applyLogs(i)
  \/ \E i \in Server : Restart(i)
  \/ \E m \in msgs : Lose(m)

Spec == Init /\ [][Next]_vars

-----------------------------------------------------------------------------
(* Properties.                                                             *)

RequestVoteArgs ==
  [type : {"RequestVote"}, term : Nat, from : Server, to : Server,
   lastLogIndex : Nat, lastLogTerm : Nat]

RequestVoteReply ==
  [type : {"RequestVoteReply"}, args : Nat, from : Server, to : Server,
   term : Nat, voteGranted : BOOLEAN]

AppendEntries ==
  [type : {"AppendEntries"}, call : Nat, term : Nat, from : Server, to : Server,
   prevLogIndex : Nat, prevLogTerm : Nat, entries : Seq(LogEntry),
   leaderCommit : Nat]

AppendEntryReply ==
  [type : {"AppendEntryReply"}, call : Nat, args : Nat, matched : Nat,
   from : Server, to : Server, term : Nat, success : BOOLEAN,
   conflictIndex : Nat \cup {-1}, conflictTerm : Nat \cup {-1}]

Message ==
  RequestVoteArgs \cup RequestVoteReply \cup AppendEntries \cup AppendEntryReply

Persistent == [term : Nat, votedFor : Server \cup {VotedNULL},
               log : Seq(LogEntry)]

Peer ==
  [term : Nat, votedFor : Server \cup {VotedNULL}, log : Seq(LogEntry),
   role : Role, voteCount : Nat,
   nextIndex : [Server -> Nat], matchIndex : [Server -> Nat],
   commitIndex : Nat, lastApplied : Nat, applying : BOOLEAN,
   ticker : Ticker, alive : BOOLEAN]

TypeOK ==
  /\ rf \in [Server -> Peer]
  /\ disk \in [Server -> Persistent]
  /\ msgs \subseteq Message
  /\ votes \subseteq [voter : Server, candidate : Server, term : Nat]
  /\ delivered \subseteq [server : Server, index : Nat, command : Command]
  /\ restarts \in Nat

\* At no moment do two peers lead the same term, whatever is lost, delayed or
\* restarted.  The vote count of sendRequestVote, the single winElection
\* signal and the role check of ReinitialisedAfterElection have to work
\* together for it; the tests ask for it in checkOneLeader.
OneLeaderAtATime ==
  \A i, j \in Server :
    /\ rf[i].role = "LEADER" /\ rf[j].role = "LEADER"
    /\ rf[i].term = rf[j].term
    => i = j

\* A ticker that has received from winElection and not yet taken the mutex
\* finds, if its peer is still CANDIDATE, a majority counted in the current
\* term: the signal is never one of an election that is over.
WonIsElected ==
  \A i \in Server :
    rf[i].ticker = "WON" /\ rf[i].role = "CANDIDATE"
      => rf[i].voteCount > Cardinality(Server) \div 2

\* No peer gives its vote in one term to two candidates other than itself,
\* across restarts: VotedFor reaches the Persister before the reply leaves.
OneForeignVotePerTerm ==
  \A v, w \in votes :
    /\ v.voter = w.voter /\ v.term = w.term
    /\ v.candidate # v.voter /\ w.candidate # w.voter
    => v.candidate = w.candidate

\* Whenever no handler is running, the Persister holds the peer's current
\* term, vote and log: every handler that changes them saves them, although
\* stepDown does not.
DiskIsCurrent ==
  \A i \in Server : disk[i] = encoded(rf[i])

\* CurrentTerm never falls, neither in a handler nor over a restart.
TermNeverFalls ==
  [][\A i \in Server : rf'[i].term >= rf[i].term]_vars

\* The terms of a log, or of the entries of a request, never fall and none
\* exceeds term.
ordered(entries, term) ==
  \A k \in 1..Len(entries) :
    /\ entries[k].term \in 1..term
    /\ k > 1 => entries[k - 1].term <= entries[k].term

\* The terms along a log never fall and none exceeds CurrentTerm.  The vote
\* comparison of IsLogUpdated and the backward scan for a conflicting term
\* rely on it; stale requests cut and refill logs at any point.
LogTermsOrdered ==
  \A i \in Server : ordered(rf[i].log, rf[i].term)

\* A leader's NextIndex stays positive, so SendHeartBeats never indexes Log
\* at -1: the ConflictIndex -1 of a stale-term rejection never gets there.
NextIndexPositive ==
  \A i, j \in Server : rf[i].role = "LEADER" => rf[i].nextIndex[j] >= 1

\* Each peer has sent a gap-free prefix of indexes up its applyCh, through
\* every restart ("apply out of order" in the tester's applier).
DeliveredInOrder ==
  \A d \in delivered :
    d.index > 1 => \E e \in delivered :
                     e.server = d.server /\ e.index = d.index - 1

-----------------------------------------------------------------------------
(* The inductive invariants from which RaftProofs derives the above.       *)

\* A reply tells the follower's term, and only a stale term or a follower
\* that lacks PrevLogIndex is a failure.
RepliesTellTerm ==
  \A m \in msgs :
    m.type = "AppendEntryReply" =>
      /\ m.term >= m.args
      /\ m.term = m.args /\ ~m.success =>
           m.conflictIndex >= 1 /\ m.conflictTerm = -1

TypeInv == TypeOK /\ NextIndexPositive /\ RepliesTellTerm

LogInv ==
  /\ \A i \in Server :
       /\ ordered(rf[i].log, rf[i].term)
       /\ rf[i].role # "FOLLOWER" => rf[i].term >= 1
  /\ \A m \in msgs :
       m.type = "AppendEntries" =>
         /\ ordered(m.entries, m.term)
         /\ Len(m.entries) > 0 => m.prevLogTerm <= m.entries[1].term

DeliveredInv ==
  /\ DeliveredInOrder
  /\ \A i \in Server : \A k \in 1..rf[i].lastApplied :
       \E d \in delivered : d.server = i /\ d.index = k

\* The vote that a request or a reply of RequestVote is about.
ballot(m) ==
  IF m.type = "RequestVote"
    THEN [voter |-> m.to, candidate |-> m.from, term |-> m.term]
    ELSE [voter |-> m.from, candidate |-> m.to, term |-> m.args]

ballots == {m \in msgs : m.type \in {"RequestVote", "RequestVoteReply"}}

\* The peers whose vote in the current term of i has been counted, or lost.
returned(i) ==
  {j \in Server \ {i} :
     LET v == [voter |-> j, candidate |-> i, term |-> rf[i].term] IN
     v \in votes /\ \A m \in ballots : ballot(m) # v}

\* One request or reply at most is in flight for a vote, none of a term the
\* candidate has not reached, and a reply that grants tells of a vote cast.
BallotsInv ==
  /\ \A m \in ballots :
       /\ m.from # m.to
       /\ ballot(m).term <= rf[ballot(m).candidate].term
       /\ m.type = "RequestVoteReply" /\ m.voteGranted =>
            ballot(m) \in votes /\ m.term = m.args
  /\ \A m, n \in ballots : ballot(m) = ballot(n) => m = n

\* A peer that has voted for another one follows in that term, and remembers.
VotesInv ==
  \A v \in votes :
    v.candidate # v.voter =>
      LET s == rf[v.voter] IN
      \/ s.term > v.term
      \/ s.term = v.term /\ s.votedFor = v.candidate /\ s.role = "FOLLOWER"

\* A leader, or a candidate that is about to lead.
elected(s) == s.role = "LEADER" \/ (s.role = "CANDIDATE" /\ s.ticker = "WON")

\* A candidate counts its own vote and each returned one at most once.
CandidatesInv ==
  \A i \in Server :
    LET s == rf[i] IN
    /\ s.role # "FOLLOWER" =>
         s.votedFor = i /\ s.voteCount <= 1 + Cardinality(returned(i))
    /\ elected(s) => s.voteCount > Cardinality(Server) \div 2

ElectionInv == OneForeignVotePerTerm /\ BallotsInv /\ VotesInv /\ CandidatesInv

-----------------------------------------------------------------------------
(* What the comments and the tester say of the code, and it does not do.   *)

\* "some server has already committed a different value for this entry!":
\* the tester's checkLogs never sees two commands applied at one index.
AppliedAgree ==
  \A a, b \in delivered : a.index = b.index => a.command = b.command

=============================================================================
