----------------------------- MODULE RaftTester -----------------------------
(***************************************************************************)
(* The testers of the Rust labs: raft/src/raft/config.rs, which starts,    *)
(* crashes and cuts off Raft servers, checks what they apply and submits   *)
(* commands to them; and raft/src/kv/config.rs, which does the first for   *)
(* key-value servers, with partitions.                                     *)
(*                                                                         *)
(* Every start of server i takes new names for its client ends: end        *)
(* <<i, g, j>> leads from the g-th start of i to j.  An instance that was  *)
(* killed cannot be stopped: it may go on applying, and the tester's       *)
(* applier of it goes on listening.                                        *)
(*                                                                         *)
(* The Raft under test is not part of the repository (raft/mod.rs has only *)
(* its interface).  It is taken to be a correct one: instances apply the   *)
(* same commands in the same order, and a term has one leader.             *)
(***************************************************************************)
EXTENDS Naturals, Sequences, FiniteSets, Functions

CONSTANTS
  N,          \* of each lab: the numbers of servers tried
  Command,
  none,
  MaxIndex,   \* bound: commands committed
  MaxTerm,    \* bound: terms
  MaxStarts   \* bound: restarts in a behaviour

ASSUME ConstantsAssumption ==
  /\ N.raft \subseteq Nat \ {0} /\ N.kv \subseteq Nat \ {0}
  /\ MaxIndex \in Nat /\ MaxTerm \in Nat /\ MaxStarts \in Nat
  /\ none \notin Command

VARIABLES
  lab, n,     \* raft or kv; the number of servers
  enabled,    \* the ends that are enabled
  gen,        \* of each server: its starts so far, which name its ends
  up,         \* the servers that are running
  side,       \* raft: 1 if connected, else 0; kv: the side each was put on last
  committed, submitted,  \* Raft: the log, and what may be appended to it
  term, leads, elected,  \* Raft: terms, the leaders, and the terms that had one
  pos,        \* of each instance: how much of the log its applier was sent
  logs,       \* storage: what each server has applied, by index
  pc, op,     \* the test's thread: where it is, in which operation
  seen,       \* check_one_leader and the like: the states read so far
  steady,     \* the servers that have led since the first of them was read
  ret,        \* what the last operation returned
  alarm       \* the tester has accused the Raft of an error

links == <<enabled, gen, up, side>>

raft == <<committed, submitted, term, leads, elected>>

storage == <<pos, logs>>

thread == <<pc, op, seen, steady, ret>>

vars == <<lab, n, links, raft, storage, thread, alarm>>

all == 0..(n - 1)

connected == {i \in all : side[i] # 0}

-----------------------------------------------------------------------------
(* Ends.                                                                   *)

outgoing(i, J) == {<<i, gen[i], j>> : j \in J}

incoming(i, J) == {<<j, gen[j], i>> : j \in J}

between(i, J) == outgoing(i, J) \cup incoming(i, J)

among(J) == UNION {between(i, J) : i \in J}

nothing == [op |-> "none"]

noop == [cmd |-> none, expected |-> 0, retry |-> FALSE, starts |-> 0, tried |-> 0, index |-> 0]

\* After Config::new: every server has been started and connected.
Init ==
  /\ lab \in {"raft", "kv"} /\ n \in N[lab]
  /\ gen = [i \in all |-> 1] /\ up = all /\ side = [i \in all |-> 1]
  /\ enabled = among(all)
  /\ committed = <<>> /\ submitted = {}
  /\ term = [i \in all |-> 0] /\ leads = {} /\ elected = {}
  /\ pos = [i \in all |-> <<0>>] /\ logs = [i \in all |-> <<>>]
  /\ pc = "idle" /\ op = noop /\ seen = <<>> /\ steady = {} /\ ret = nothing
  /\ alarm = FALSE

\* The test's thread is between two operations on the servers.
free == pc = "idle"

\* It has not panicked, nor has an applier.
running == pc # "failed" /\ ~alarm

-----------------------------------------------------------------------------
(* raft/config.rs: the network.                                            *)

\* Mutant: the ends of the others that lead to i stay enabled.
disconnect_outgoing(i) ==
  /\ enabled' = enabled \ outgoing(i, all)
  /\ side' = [side EXCEPT ![i] = 0]

disconnect(i) ==
  /\ enabled' = enabled \ between(i, all)
  /\ side' = [side EXCEPT ![i] = 0]

detach(i) ==
  /\ lab = "raft" /\ free
  /\ disconnect(i)
  /\ UNCHANGED <<lab, n, gen, up, raft, storage, thread, alarm>>

connect(i) ==
  /\ lab = "raft" /\ free /\ i \in up
  /\ side' = [side EXCEPT ![i] = 1]
  /\ enabled' = enabled \cup between(i, connected \cup {i})
  /\ UNCHANGED <<lab, n, gen, up, raft, storage, thread, alarm>>

\* A killed Raft has no state any more that the tester could ask for.
crash1(i) ==
  /\ lab = "raft" /\ free /\ i \in up
  /\ disconnect(i)
  /\ up' = up \ {i} /\ leads' = leads \ {i}
  /\ UNCHANGED <<lab, n, gen, committed, submitted, term, elected, storage, thread, alarm>>

starts == FoldFunction(+, 0, gen)

\* Mutant: the copy of what the server has applied is thrown away too.
start1_forgets(i) ==
  /\ lab = "raft" /\ free /\ starts < n + MaxStarts
  /\ disconnect(i)
  /\ up' = up \cup {i} /\ leads' = leads \ {i}
  /\ gen' = [gen EXCEPT ![i] = @ + 1]
  /\ pos' = [pos EXCEPT ![i] = Append(@, 0)]
  /\ logs' = [logs EXCEPT ![i] = <<>>]
  /\ UNCHANGED <<lab, n, committed, submitted, term, elected, thread, alarm>>

\* Crashes the server if it runs.  New ends are disabled until connect; the
\* new instance applies from the beginning, with an applier of its own.
start1(i) ==
  /\ lab = "raft" /\ free /\ starts < n + MaxStarts
  /\ disconnect(i)
  /\ up' = up \cup {i} /\ leads' = leads \ {i}
  /\ gen' = [gen EXCEPT ![i] = @ + 1]
  /\ pos' = [pos EXCEPT ![i] = Append(@, 0)]
  /\ UNCHANGED <<lab, n, committed, submitted, term, elected, logs, thread, alarm>>

\* The applier of the g-th start of i takes the next command: first it
\* compares the command with what the others have applied.
apply(i, g) ==
  LET index == pos[i][g] + 1
      entry == committed[index]
      differs == \E j \in all : index \in DOMAIN logs[j] /\ logs[j][index] # entry
      outOfOrder == index > 1 /\ index - 1 \notin DOMAIN logs[i] IN
  /\ pos[i][g] < Len(committed) /\ running
  /\ pos' = [pos EXCEPT ![i][g] = index]
  /\ alarm' = (differs \/ outOfOrder)
  /\ logs' = IF alarm' THEN logs
             ELSE [logs EXCEPT ![i] = [k \in DOMAIN @ \cup {index} |->
                                         IF k = index THEN entry ELSE @[k]]]
  /\ UNCHANGED <<lab, n, links, raft, thread>>

-----------------------------------------------------------------------------
(* The Raft under test.                                                    *)

\* start on server i.  A leader that has been cut off may give an index that
\* the others have used already.
RaftStart(i, c, index) ==
  /\ i \in leads /\ index \in 1..MaxIndex
  /\ submitted' = submitted \cup {c}
  /\ UNCHANGED <<committed, term, leads, elected>>

RaftCommit(c) ==
  /\ running /\ c \in submitted /\ Len(committed) < MaxIndex
  /\ committed' = Append(committed, c)
  /\ UNCHANGED <<lab, n, links, submitted, term, leads, elected, storage, thread, alarm>>

\* Server i reaches term t, and may win it.
RaftTerm(i, t, wins) ==
  /\ lab = "raft" /\ running /\ i \in up /\ t > term[i] /\ (wins => t \notin elected)
  /\ term' = [term EXCEPT ![i] = t]
  /\ leads' = IF wins THEN leads \cup {i} ELSE leads \ {i}
  /\ elected' = IF wins THEN elected \cup {t} ELSE elected
  /\ steady' = steady \ {i}
  /\ UNCHANGED <<lab, n, links, committed, submitted, storage, pc, op, seen, ret, alarm>>

-----------------------------------------------------------------------------
(* one and wait.                                                           *)

\* The servers that have applied an entry with this index, and the entry.
n_committed(index) == {i \in all : index \in DOMAIN logs[i]}

entryAt(index) ==
  IF n_committed(index) = {} THEN none ELSE logs[CHOOSE i \in n_committed(index) : TRUE][index]

\* A panic ends the test.
fails == pc' = "failed" /\ op' = noop /\ seen' = <<>> /\ steady' = {} /\ ret' = nothing

returns(r) == pc' = "idle" /\ op' = noop /\ seen' = <<>> /\ steady' = {} /\ ret' = r

goto(label) == pc' = label /\ ret' = nothing /\ UNCHANGED <<seen, steady>>

one(c, expected, retry) ==
  /\ lab = "raft" /\ free /\ c \notin submitted
  /\ op' = [noop EXCEPT !.cmd = c, !.expected = expected, !.retry = retry]
  /\ goto("try")
  /\ UNCHANGED <<lab, n, links, raft, storage, alarm>>

\* The next server is asked, if it is connected and running: it takes the
\* command, or is no leader.  When all have been asked the thread sleeps.
try ==
  LET s == (op.starts + 1) % n
      asked == [op EXCEPT !.starts = s, !.tried = @ + 1] IN
  /\ pc = "try"
  /\ \/ /\ s \in connected \cap up
        /\ \E index \in 1..MaxIndex :
             /\ RaftStart(s, op.cmd, index)
             /\ op' = [asked EXCEPT !.index = index]
        /\ goto("agree")
     \/ /\ op' = asked
        /\ goto(IF asked.tried = n THEN "sleep" ELSE "try")
        /\ UNCHANGED raft
  /\ UNCHANGED <<lab, n, links, storage, alarm>>

\* The outer loop: all are asked again, or ten seconds are over.
again ==
  /\ pc = "sleep"
  /\ \/ op' = [op EXCEPT !.tried = 0, !.index = 0] /\ goto("try")
     \/ fails
  /\ UNCHANGED <<lab, n, links, raft, storage, alarm>>

committedBy(index, expected) ==
  LET who == n_committed(index) IN who # {} /\ Cardinality(who) >= expected

\* Mutant: what has been committed at the index is not compared.
agree_any ==
  /\ pc = "agree" /\ committedBy(op.index, op.expected)
  /\ returns([op |-> "one", index |-> op.index, cmd |-> op.cmd, expected |-> op.expected])
  /\ UNCHANGED <<lab, n, links, raft, storage, alarm>>

\* The command has been committed at its index by enough servers.
agree ==
  /\ pc = "agree" /\ committedBy(op.index, op.expected) /\ entryAt(op.index) = op.cmd
  /\ returns([op |-> "one", index |-> op.index, cmd |-> op.cmd, expected |-> op.expected])
  /\ UNCHANGED <<lab, n, links, raft, storage, alarm>>

\* It has not for two seconds.
giveUp ==
  /\ pc = "agree"
  /\ IF op.retry THEN goto("sleep") /\ UNCHANGED op ELSE fails
  /\ UNCHANGED <<lab, n, links, raft, storage, alarm>>

\* wait for an index: it returns the command, nothing if a server has passed
\* start_term (0 if none was given), or fails.
wait(index, expected, start_term) ==
  /\ lab = "raft" /\ free
  /\ op' = [noop EXCEPT !.index = index, !.expected = expected, !.starts = start_term]
  /\ goto("wait")
  /\ UNCHANGED <<lab, n, links, raft, storage, alarm>>

waited ==
  LET who == n_committed(op.index) IN
  /\ pc = "wait"
  /\ \/ /\ Cardinality(who) >= op.expected
        /\ returns([op |-> "wait", index |-> op.index, cmd |-> entryAt(op.index),
                    expected |-> op.expected])
     \/ /\ Cardinality(who) < op.expected
        /\ op.starts > 0 /\ (\E i \in up : term[i] > op.starts)
        /\ returns(nothing)
     \/ Cardinality(who) < op.expected /\ fails
  /\ UNCHANGED <<lab, n, links, raft, storage, alarm>>

-----------------------------------------------------------------------------
(* check_one_leader, check_terms and check_no_leader: each asks one server *)
(* after the other for its state.                                          *)

survey(check) ==
  /\ lab = "raft" /\ free
  /\ pc' = check /\ steady' = leads \cap connected /\ ret' = nothing
  /\ UNCHANGED <<lab, n, links, raft, storage, op, seen, alarm>>

surveys == {"check_one_leader", "check_terms", "check_no_leader"}

get_state(i) == [server |-> i, term |-> term[i], leader |-> i \in leads]

\* A server that is not connected is passed over.
look ==
  LET i == Len(seen) IN
  /\ pc \in surveys /\ i < n
  /\ seen' = Append(seen, IF i \in connected THEN get_state(i) ELSE nothing)
  /\ UNCHANGED <<lab, n, links, raft, storage, pc, op, steady, ret, alarm>>

answers == Range(seen) \ {nothing}

claims == {a \in answers : a.leader}

\* Mutant: any server that claims to lead will do.
check_one_leader_any ==
  /\ pc = "check_one_leader" /\ Len(seen) = n
  /\ \E c \in claims : returns([op |-> "leader", server |-> c.server, term |-> c.term])
  /\ UNCHANGED <<lab, n, links, raft, storage, alarm>>

\* Two leaders of a term are an error; otherwise the one of the highest term
\* is returned.  Without one the servers are asked again, ten times.
check_one_leader ==
  /\ pc = "check_one_leader" /\ Len(seen) = n
  /\ \/ /\ \E c, d \in claims : c # d /\ c.term = d.term
        /\ alarm' = TRUE /\ fails
     \/ /\ \A c, d \in claims : c # d => c.term # d.term
        /\ \E c \in claims :
             /\ \A d \in claims : d.term <= c.term
             /\ returns([op |-> "leader", server |-> c.server, term |-> c.term])
        /\ UNCHANGED alarm
     \/ /\ claims = {}
        /\ \/ seen' = <<>> /\ steady' = leads \cap connected /\ UNCHANGED <<pc, op, ret>>
           \/ fails
        /\ UNCHANGED alarm
  /\ UNCHANGED <<lab, n, links, raft, storage>>

\* The first term that is not 0 must be that of every server asked later.
check_terms ==
  LET asked == {k \in DOMAIN seen : seen[k] # nothing} IN
  /\ pc = "check_terms" /\ Len(seen) = n
  /\ IF \A j, k \in asked : j < k /\ seen[j].term # 0 => seen[j].term = seen[k].term
     THEN returns([op |-> "terms"]) ELSE fails
  /\ UNCHANGED <<lab, n, links, raft, storage, alarm>>

check_no_leader ==
  /\ pc = "check_no_leader" /\ Len(seen) = n
  /\ IF claims = {} THEN returns([op |-> "no leader"]) ELSE fails
  /\ UNCHANGED <<lab, n, links, raft, storage, alarm>>

-----------------------------------------------------------------------------
(* kv/config.rs.  Its tests connect servers only while all of them run.    *)

connect_all ==
  /\ lab = "kv" /\ up = all
  /\ enabled' = enabled \cup among(all)
  /\ side' = [i \in all |-> 1]
  /\ UNCHANGED <<lab, n, gen, up, raft, storage, thread, alarm>>

partition(p1, p2) ==
  /\ lab = "kv" /\ up = all
  /\ enabled' = (enabled \ UNION {between(i, p2) : i \in p1}) \cup among(p1) \cup among(p2)
  /\ side' = [i \in all |-> IF i \in p1 THEN 1 ELSE 2]
  /\ UNCHANGED <<lab, n, gen, up, raft, storage, thread, alarm>>

\* The first servers other than l, one more than half of all, and the rest.
majority(l) ==
  {i \in all \ {l} : Cardinality({j \in all \ {l} : j < i}) < n \div 2 + 1}

\* leader: the first server that says it leads, or server 0.
make_partition(l) == partition(majority(l), all \ majority(l))

shutdown_server(i) ==
  /\ lab = "kv" /\ i \in up
  /\ enabled' = enabled \ between(i, all)
  /\ up' = up \ {i} /\ side' = [side EXCEPT ![i] = 0]
  /\ UNCHANGED <<lab, n, gen, raft, storage, thread, alarm>>

start_server(i) ==
  /\ lab = "kv" /\ i \notin up /\ starts < n + MaxStarts
  /\ up' = up \cup {i}
  /\ gen' = [gen EXCEPT ![i] = @ + 1]
  /\ UNCHANGED <<lab, n, enabled, side, raft, storage, thread, alarm>>

-----------------------------------------------------------------------------
Next ==
  \/ \E i \in all : detach(i) \/ connect(i) \/ crash1(i) \/ start1(i)
  \/ \E i \in all : \E g \in 1..gen[i] : lab = "raft" /\ apply(i, g)
  \/ \E c \in Command : RaftCommit(c)
  \/ \E i \in all, t \in 1..MaxTerm, wins \in BOOLEAN : RaftTerm(i, t, wins)
  \/ \E c \in Command, e \in 1..n, retry \in BOOLEAN : one(c, e, retry)
  \/ try \/ again \/ agree \/ giveUp
  \/ \E index \in 1..MaxIndex, e \in 1..n, t \in 0..MaxTerm : wait(index, e, t)
  \/ waited
  \/ \E check \in surveys : survey(check)
  \/ look \/ check_one_leader \/ check_terms \/ check_no_leader
  \/ connect_all
  \/ \E p1 \in SUBSET all : partition(p1, all \ p1)
  \/ \E l \in all : make_partition(l)
  \/ \E i \in all : shutdown_server(i) \/ start_server(i)

Spec == Init /\ [][Next]_vars

-----------------------------------------------------------------------------
(* Properties.                                                             *)

\* Exactly the links that the test asked for work: the ends, both ways,
\* between servers that are connected (in the key-value lab: that were put on
\* the same side), and never an end of an instance that was crashed.
LinksAsAsked ==
  enabled = UNION {outgoing(i, {j \in all : side[j] = side[i]}) : i \in connected}

\* What one and wait return is committed: the command, at that index, by as
\* many servers as the test asked for, although other commands may have taken
\* the index and servers may have been restarted meanwhile.
ReturnedIsCommitted ==
  ret.op \in {"one", "wait"} =>
    /\ ret.index <= Len(committed) /\ committed[ret.index] = ret.cmd
    /\ Cardinality(n_committed(ret.index)) >= ret.expected

\* A correct Raft is never accused of committing different commands or out of
\* order, or of two leaders in a term: also not by the applier of an instance
\* that was killed and goes on, beside that of the new one.
NoFalseAlarm ==
  /\ ~alarm
  /\ \A i, j \in all : \A k \in DOMAIN logs[i] \cap DOMAIN logs[j] : logs[i][k] = logs[j][k]

\* check_one_leader never returns a leader that has been replaced while the
\* newer one, connected, has led since the first server was asked.
NewestLeader ==
  [][ret' # ret /\ ret'.op = "leader" => \A s \in steady : term[s] <= ret'.term]_vars
=============================================================================
