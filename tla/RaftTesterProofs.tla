--------------------------- MODULE RaftTesterProofs ---------------------------
(***************************************************************************)
(* Proofs about RaftTester, for every number of servers, every bound and   *)
(* every set of commands.                                                  *)
(***************************************************************************)
EXTENDS RaftTester, FiniteSetTheorems, SequenceTheorems, TLAPS

\* What the other parts need to know of the kinds of values.
TypesInv ==
  /\ lab \in {"raft", "kv"} /\ n \in Nat \ {0}
  /\ gen \in [all -> Nat] /\ side \in [all -> 0..2] /\ up \subseteq all
  /\ committed \in Seq(Command)
  /\ term \in [all -> Nat] /\ leads \subseteq all
  /\ logs = [i \in all |-> logs[i]]

\* connect of the raft tester knows one side only, and start_server of the other one
\* enables nothing since shutdown_server has put the server on no side.
SidesInv ==
  /\ lab = "raft" => \A i \in all : side[i] # 2
  /\ lab = "kv" => \A i \in all \ up : side[i] = 0

-----------------------------------------------------------------------------
(* The steps in groups: the network, the appliers, the Raft, the thread.   *)

LinkNext ==
  \/ \E i \in all : detach(i) \/ connect(i) \/ crash1(i) \/ start1(i)
  \/ connect_all
  \/ \E p1 \in SUBSET all : partition(p1, all \ p1)
  \/ \E l \in all : make_partition(l)
  \/ \E i \in all : shutdown_server(i) \/ start_server(i)

ApplyNext == \E i \in all : \E g \in 1..gen[i] : lab = "raft" /\ apply(i, g)

RaftNext ==
  \/ \E c \in Command : RaftCommit(c)
  \/ \E i \in all, t \in 1..MaxTerm, wins \in BOOLEAN : RaftTerm(i, t, wins)

ThreadNext ==
  \/ \E c \in Command, e \in 1..n, retry \in BOOLEAN : one(c, e, retry)
  \/ try \/ again \/ agree \/ giveUp
  \/ \E index \in 1..MaxIndex, e \in 1..n, t \in 0..MaxTerm : wait(index, e, t)
  \/ waited
  \/ \E check \in surveys : survey(check)
  \/ look \/ check_one_leader \/ check_terms \/ check_no_leader

\* Every step belongs to one of them.
LEMMA Groups == Next <=> LinkNext \/ ApplyNext \/ RaftNext \/ ThreadNext
  BY DEF Next, LinkNext, ApplyNext, RaftNext, ThreadNext

\* The thread of the test reads the network, the logs and the states of the servers; it
\* changes none of them.
LEMMA ThreadFrame ==
  ASSUME ThreadNext
  PROVE  UNCHANGED <<lab, n, links, committed, term, leads, elected, storage>>
<1>1. ASSUME NEW c, NEW e, NEW retry, one(c, e, retry)
      PROVE  UNCHANGED <<lab, n, links, committed, term, leads, elected, storage>>
  BY <1>1 DEF one, raft
<1>2. ASSUME try PROVE UNCHANGED <<lab, n, links, committed, term, leads, elected, storage>>
  BY <1>2 DEF try, raft, RaftStart
<1>3. ASSUME again \/ agree \/ giveUp \/ waited \/ look \/ check_terms \/ check_no_leader
      PROVE  UNCHANGED <<lab, n, links, committed, term, leads, elected, storage>>
  BY <1>3 DEF again, agree, giveUp, waited, look, check_terms, check_no_leader, raft
<1>4. ASSUME check_one_leader PROVE UNCHANGED <<lab, n, links, committed, term, leads, elected, storage>>
  BY <1>4 DEF check_one_leader, raft
<1>5. ASSUME NEW k, NEW e, NEW t, wait(k, e, t)
      PROVE  UNCHANGED <<lab, n, links, committed, term, leads, elected, storage>>
  BY <1>5 DEF wait, raft
<1>6. ASSUME NEW check, survey(check)
      PROVE  UNCHANGED <<lab, n, links, committed, term, leads, elected, storage>>
  BY <1>6 DEF survey, raft
<1>. QED  BY <1>1, <1>2, <1>3, <1>4, <1>5, <1>6 DEF ThreadNext

\* Neither the appliers nor the Raft change the network.
LEMMA RaftFrame ==
  ASSUME ApplyNext \/ RaftNext
  PROVE  UNCHANGED <<lab, n, links, op, seen, ret, pc>>
  BY DEF ApplyNext, RaftNext, apply, RaftCommit, RaftTerm, thread

\* The network's operations leave the logs alone, and the thread between two operations.
LEMMA LinkFrame ==
  ASSUME LinkNext
  PROVE  UNCHANGED <<lab, n, committed, term, elected, logs, thread, alarm>>
<1>1. ASSUME NEW i, detach(i) \/ connect(i) \/ crash1(i) \/ start1(i)
      PROVE  UNCHANGED <<lab, n, committed, term, elected, logs, thread, alarm>>
  BY <1>1 DEF detach, connect, crash1, start1, raft, storage
<1>2. ASSUME NEW i, shutdown_server(i) \/ start_server(i)
      PROVE  UNCHANGED <<lab, n, committed, term, elected, logs, thread, alarm>>
  BY <1>2 DEF shutdown_server, start_server, raft, storage
<1>3. ASSUME NEW p1, NEW p2, partition(p1, p2)
      PROVE  UNCHANGED <<lab, n, committed, term, elected, logs, thread, alarm>>
  BY <1>3 DEF partition, raft, storage
<1>4. ASSUME connect_all
      PROVE  UNCHANGED <<lab, n, committed, term, elected, logs, thread, alarm>>
  BY <1>4 DEF connect_all, raft, storage
<1>. QED  BY <1>1, <1>2, <1>3, <1>4 DEF LinkNext, make_partition

-----------------------------------------------------------------------------
(* Which links work.                                                       *)

\* LinksAsAsked, end by end.
LinkInv ==
  /\ \A e \in enabled : \E i, j \in all : e = <<i, gen[i], j>>
  /\ \A i, j \in all : <<i, gen[i], j>> \in enabled <=> side[i] = side[j] /\ side[i] # 0

\* The two forms are the same.
LEMMA LinkForms == LinksAsAsked <=> LinkInv
<1>. DEFINE from(i) == outgoing(i, {j \in all : side[j] = side[i]})
            asked == UNION {from(i) : i \in connected}
<1>1. \A e : e \in asked <=> \E i, j \in all : e = <<i, gen[i], j>> /\ side[i] = side[j] /\ side[i] # 0
  <2>1. \A e : e \in asked <=> \E i \in connected : e \in from(i)
    OBVIOUS
  <2>2. \A i : \A e : e \in from(i) <=> \E j \in all : side[j] = side[i] /\ e = <<i, gen[i], j>>
    BY DEF outgoing
  <2>3. \A i : i \in connected <=> i \in all /\ side[i] # 0
    BY DEF connected
  <2>. HIDE DEF asked, from
  <2>4. ASSUME NEW e PROVE e \in asked <=> \E i \in connected : \E j \in all : side[j] = side[i] /\ e = <<i, gen[i], j>>
    <3>1. e \in asked <=> \E i \in connected : e \in from(i)
      BY <2>1
    <3>2. \A i : e \in from(i) <=> \E j \in all : side[j] = side[i] /\ e = <<i, gen[i], j>>
      BY <2>2
    <3>. QED  BY <3>1, <3>2
  <2>5. ASSUME NEW e
        PROVE  e \in asked <=> \E i, j \in all : e = <<i, gen[i], j>> /\ side[i] = side[j] /\ side[i] # 0
    BY <2>3, <2>4, Zenon
  <2>. QED  BY <2>5
<1>. HIDE DEF asked, from
<1>2. LinksAsAsked <=> enabled = asked
  BY DEF LinksAsAsked, asked, from
<1>3. ASSUME enabled = asked PROVE LinkInv
  BY <1>1, <1>3 DEF LinkInv
<1>4. ASSUME LinkInv PROVE enabled = asked
  <2>1. ASSUME NEW e \in enabled PROVE e \in asked
    BY <2>1, <1>1, <1>4 DEF LinkInv
  <2>2. ASSUME NEW e \in asked PROVE e \in enabled
    BY <2>2, <1>1, <1>4 DEF LinkInv
  <2>. QED  BY <2>1, <2>2
<1>. QED  BY <1>2, <1>3, <1>4

\* The ends between i and the servers J.
LEMMA Between ==
  ASSUME NEW i, NEW J, NEW e
  PROVE  e \in between(i, J) <=> \E j \in J : e = <<i, gen[i], j>> \/ e = <<j, gen[j], i>>
  BY DEF between, outgoing, incoming

\* The ends among the servers J.
LEMMA Among ==
  ASSUME NEW J, NEW e
  PROVE  e \in among(J) <=> \E i, j \in J : e = <<i, gen[i], j>>
<1>1. e \in among(J) <=> \E i \in J : e \in between(i, J)
  BY DEF among
<1>. QED  BY <1>1, Between

\* A step that leaves the network alone.
LEMMA LinksUnchanged ==
  ASSUME LinkInv, SidesInv, UNCHANGED <<lab, n, links>>
  PROVE  LinkInv' /\ SidesInv'
  BY DEF LinkInv, SidesInv, links, all

\* disconnect: no end from or to the server is left, and no other has changed.
LEMMA DisconnectLinks ==
  ASSUME TypesInv, LinkInv, NEW i \in all,
         enabled' = enabled \ between(i, all), side' = [side EXCEPT ![i] = 0],
         n' = n, gen' \in [all -> Nat], \A j \in all \ {i} : gen'[j] = gen[j]
  PROVE  LinkInv'
<1>1. all' = all
  BY DEF all
<1>2. side'[i] = 0 /\ \A j \in all \ {i} : side'[j] = side[j]
  BY DEF TypesInv
<1>3. ASSUME NEW e \in enabled' PROVE \E j, k \in all \ {i} : e = <<j, gen[j], k>>
  BY <1>3, Between DEF LinkInv
<1>4. ASSUME NEW e \in enabled' PROVE \E j, k \in all : e = <<j, gen'[j], k>>
  BY <1>3, <1>4
<1>5. ASSUME NEW j \in all, NEW k \in all
      PROVE  <<j, gen'[j], k>> \in enabled' <=> side'[j] = side'[k] /\ side'[j] # 0
  <2>1. CASE j = i \/ k = i
    <3>1. <<j, gen'[j], k>> \notin enabled'
      BY <1>3, <2>1
    <3>. QED  BY <3>1, <2>1, <1>2
  <2>2. CASE j # i /\ k # i
    <3>1. <<j, gen[j], k>> \notin between(i, all)
      BY <2>2, Between
    <3>. QED  BY <3>1, <2>2, <1>2 DEF LinkInv
  <2>. QED  BY <2>1, <2>2
<1>. QED  BY <1>1, <1>4, <1>5 DEF LinkInv

\* connect: the ends between the server and the connected ones.
LEMMA ConnectLinks ==
  ASSUME TypesInv, LinkInv, SidesInv, NEW i \in all, connect(i)
  PROVE  LinkInv' /\ SidesInv'
<1>1. all' = all /\ gen' = gen /\ lab = "raft" /\ lab' = lab
  BY DEF connect, all
<1>2. side'[i] = 1 /\ \A j \in all \ {i} : side'[j] = side[j]
  BY DEF TypesInv, connect
<1>3. \A j \in all : j \in connected \cup {i} <=> side'[j] = 1
  BY <1>1, <1>2 DEF connected, SidesInv, TypesInv
<1>4. \A j \in all : side'[j] \in {0, 1}
  <2>1. \A j \in all : side[j] \in 0..2 /\ side[j] # 2
    BY <1>1 DEF SidesInv, TypesInv
  <2>2. \A j \in all : side[j] \in {0, 1}
    BY <2>1
  <2>. QED  BY <1>2, <2>2
<1>. DEFINE new == between(i, connected \cup {i})
<1>5. \A e : e \in new <=> \E j \in all : side'[j] = 1 /\ (e = <<i, gen[i], j>> \/ e = <<j, gen[j], i>>)
  BY <1>3, Between DEF connected
<1>6. enabled' = enabled \cup new
  BY DEF connect
<1>. HIDE DEF new
<1>7. ASSUME NEW e \in enabled' PROVE \E j, k \in all : e = <<j, gen[j], k>>
  BY <1>5, <1>6, <1>7 DEF LinkInv
<1>8. ASSUME NEW j \in all, NEW k \in all
      PROVE  <<j, gen[j], k>> \in enabled' <=> side'[j] = side'[k] /\ side'[j] # 0
  <2>1. CASE j # i /\ k # i
    <3>1. <<j, gen[j], k>> \notin new
      BY <1>5, <2>1
    <3>. QED  BY <3>1, <2>1, <1>2, <1>6 DEF LinkInv
  <2>2. CASE j = i \/ k = i
    <3>1. <<j, gen[j], k>> \in enabled => side'[j] = side'[k] /\ side'[j] # 0
      BY <2>2, <1>1, <1>2, <1>4 DEF LinkInv, SidesInv, TypesInv
    <3>2. <<j, gen[j], k>> \in new <=> side'[j] = 1 /\ side'[k] = 1
      BY <2>2, <1>5, <1>2
    <3>. QED  BY <3>1, <3>2, <1>4, <1>6
  <2>. QED  BY <2>1, <2>2
<1>. QED  BY <1>1, <1>4, <1>7, <1>8 DEF LinkInv, SidesInv

\* connect_all, and what the two kinds of partition share.
LEMMA PartitionLinks ==
  ASSUME TypesInv, LinkInv, SidesInv, NEW p1 \in SUBSET all, partition(p1, all \ p1)
  PROVE  LinkInv' /\ SidesInv'
<1>. DEFINE p2 == all \ p1
            cross == UNION {between(i, p2) : i \in p1}
<1>1. all' = all /\ gen' = gen /\ lab = "kv" /\ lab' = lab /\ up' = up /\ up = all
  BY DEF partition, all
<1>2. side' = [i \in all |-> IF i \in p1 THEN 1 ELSE 2]
  BY DEF partition
<1>3. \A e : e \in cross <=> \E i \in p1 : e \in between(i, p2)
  OBVIOUS
<1>4. enabled' = (enabled \ cross) \cup among(p1) \cup among(p2)
  BY DEF partition
<1>. HIDE DEF p2, cross
<1>5. \A i \in all : i \in p2 <=> i \notin p1
  BY DEF p2
<1>5a. p1 \subseteq all /\ p2 \subseteq all
  BY DEF p2
<1>6. \A e : e \in cross <=> \E i \in p1, j \in p2 : e = <<i, gen[i], j>> \/ e = <<j, gen[j], i>>
  BY <1>3, Between
<1>7. ASSUME NEW e \in enabled' PROVE \E j, k \in all : e = <<j, gen[j], k>>
  BY <1>4, <1>7, <1>5a, Among DEF LinkInv
<1>8. ASSUME NEW j \in all, NEW k \in all
      PROVE  <<j, gen[j], k>> \in enabled' <=> (j \in p1 <=> k \in p1)
  <2>1. <<j, gen[j], k>> \in cross <=> ~(j \in p1 <=> k \in p1)
    BY <1>5, <1>5a, <1>6
  <2>2. <<j, gen[j], k>> \in among(p1) <=> j \in p1 /\ k \in p1
    BY Among
  <2>3. <<j, gen[j], k>> \in among(p2) <=> j \notin p1 /\ k \notin p1
    BY <1>5, Among
  <2>. QED  BY <1>4, <2>1, <2>2, <2>3
<1>9. ASSUME NEW j \in all, NEW k \in all
      PROVE  (j \in p1 <=> k \in p1) <=> side'[j] = side'[k] /\ side'[j] # 0
  BY <1>2
<1>. QED  BY <1>1, <1>7, <1>8, <1>9 DEF LinkInv, SidesInv

\* LinksAsAsked is kept by every step.
LEMMA LinksStep ==
  ASSUME TypesInv, TypesInv', LinkInv, SidesInv, Next
  PROVE  LinkInv' /\ SidesInv'
<1>1. ASSUME NEW i \in all, detach(i) \/ crash1(i) \/ start1(i) PROVE LinkInv' /\ SidesInv'
  <2>1. /\ lab' = lab /\ n' = n /\ lab = "raft"
        /\ enabled' = enabled \ between(i, all) /\ side' = [side EXCEPT ![i] = 0]
    BY <1>1 DEF detach, crash1, start1, disconnect
  <2>2. gen' \in [all -> Nat] /\ \A j \in all \ {i} : gen'[j] = gen[j]
    BY <1>1 DEF detach, crash1, start1, TypesInv
  <2>3. LinkInv'
    BY <2>1, <2>2, DisconnectLinks
  <2>4. SidesInv'
    BY <2>1 DEF SidesInv, TypesInv, all
  <2>. QED  BY <2>3, <2>4
<1>2. ASSUME NEW i \in all, shutdown_server(i) PROVE LinkInv' /\ SidesInv'
  <2>1. /\ lab' = lab /\ n' = n /\ lab = "kv" /\ up' = up \ {i} /\ gen' = gen
        /\ enabled' = enabled \ between(i, all) /\ side' = [side EXCEPT ![i] = 0]
    BY <1>2 DEF shutdown_server
  <2>3. LinkInv'
    BY <2>1, DisconnectLinks DEF TypesInv
  <2>4. SidesInv'
    BY <2>1 DEF SidesInv, TypesInv, all
  <2>. QED  BY <2>3, <2>4
<1>3. ASSUME NEW i \in all, start_server(i) PROVE LinkInv' /\ SidesInv'
  <2>1. /\ lab' = lab /\ all' = all /\ lab = "kv" /\ up' = up \cup {i} /\ i \notin up
        /\ enabled' = enabled /\ side' = side /\ side[i] = 0
    BY <1>3 DEF start_server, all, SidesInv
  <2>2. \A j \in all \ {i} : gen'[j] = gen[j]
    BY <1>3 DEF start_server, TypesInv
  <2>3. ASSUME NEW e \in enabled PROVE \E j, k \in all \ {i} : e = <<j, gen[j], k>>
    BY <2>1, <2>3 DEF LinkInv
  <2>4. ASSUME NEW e \in enabled' PROVE \E j, k \in all : e = <<j, gen'[j], k>>
    BY <2>1, <2>2, <2>3, <2>4
  <2>5. ASSUME NEW j \in all, NEW k \in all
        PROVE  <<j, gen'[j], k>> \in enabled' <=> side'[j] = side'[k] /\ side'[j] # 0
    <3>1. CASE j = i
      <4>1. <<j, gen'[j], k>> \notin enabled
        BY <2>3, <3>1
      <4>. QED  BY <4>1, <3>1, <2>1
    <3>2. CASE j # i
      BY <3>2, <2>1, <2>2 DEF LinkInv
    <3>. QED  BY <3>1, <3>2
  <2>. QED  BY <2>1, <2>4, <2>5 DEF LinkInv, SidesInv
<1>4. ASSUME connect_all PROVE LinkInv' /\ SidesInv'
  <2>1. /\ lab' = lab /\ all' = all /\ lab = "kv" /\ up' = all /\ gen' = gen
        /\ enabled' = enabled \cup among(all) /\ side' = [i \in all |-> 1]
    BY <1>4 DEF connect_all, all
  <2>2. \A e : e \in enabled' <=> \E j, k \in all : e = <<j, gen[j], k>>
    BY <2>1, Among DEF LinkInv
  <2>. QED  BY <2>1, <2>2 DEF LinkInv, SidesInv
<1>5. ASSUME NEW l \in all, make_partition(l) PROVE LinkInv' /\ SidesInv'
  BY <1>5, PartitionLinks DEF make_partition, majority
<1>6. CASE UNCHANGED <<lab, n, links>>
  BY <1>6, LinksUnchanged
<1>7. CASE LinkNext
  BY <1>7, <1>1, <1>2, <1>3, <1>4, <1>5, ConnectLinks, PartitionLinks DEF LinkNext
<1>. QED  BY <1>6, <1>7, Groups, ThreadFrame, RaftFrame

-----------------------------------------------------------------------------
(* What the servers apply.                                                 *)

\* Every server's log is a part of the Raft's, and has all that any of its instances was
\* sent: hence the applier of a killed instance and that of the new one may both write it.
AppliedInv ==
  /\ ~alarm
  /\ lab = "raft" =>
       /\ pos \in [all -> Seq(Nat)]
       /\ \A i \in all : Len(pos[i]) = gen[i]
       /\ \A i \in all : \A g \in 1..gen[i] : 1..pos[i][g] \subseteq DOMAIN logs[i]
  /\ \A i \in all : DOMAIN logs[i] \subseteq 1..Len(committed)
  /\ \A i \in all : \A k \in DOMAIN logs[i] : logs[i][k] = committed[k]

\* An applier finds nothing to complain of, and adds the entry to its server's log.
LEMMA ApplyAdds ==
  ASSUME TypesInv, AppliedInv, lab = "raft", NEW i \in all, NEW g \in 1..gen[i], apply(i, g)
  PROVE  /\ ~alarm'
         /\ logs' = [j \in all |-> logs'[j]]
         /\ \A j \in all \ {i} : logs'[j] = logs[j]
         /\ DOMAIN logs'[i] = DOMAIN logs[i] \cup {pos[i][g] + 1}
         /\ pos[i][g] \in Nat /\ pos[i][g] < Len(committed)
         /\ \A k \in DOMAIN logs'[i] : logs'[i][k] = IF k = pos[i][g] + 1 THEN committed[k] ELSE logs[i][k]
<1>. DEFINE index == pos[i][g] + 1
            entry == committed[index]
            longer == [k \in DOMAIN logs[i] \cup {index} |-> IF k = index THEN entry ELSE logs[i][k]]
<1>1. pos[i] \in Seq(Nat) /\ Len(pos[i]) = gen[i] /\ gen[i] \in Nat
  BY DEF AppliedInv, TypesInv
<1>2. pos[i][g] \in Nat /\ pos[i][g] < Len(committed) /\ Len(committed) \in Nat
  BY <1>1 DEF apply, TypesInv
<1>3. ~(\E j \in all : index \in DOMAIN logs[j] /\ logs[j][index] # entry)
  BY DEF AppliedInv
<1>4. ~(index > 1 /\ index - 1 \notin DOMAIN logs[i])
  <2>1. index > 1 => index - 1 \in 1..pos[i][g]
    BY <1>2
  <2>. QED  BY <2>1 DEF AppliedInv
<1>5. alarm' = FALSE
  BY <1>3, <1>4 DEF apply
<1>6. logs' = [logs EXCEPT ![i] = longer]
  BY <1>5 DEF apply
<1>. HIDE DEF longer
<1>7. logs'[i] = longer /\ (\A j \in all \ {i} : logs'[j] = logs[j]) /\ logs' = [j \in all |-> logs'[j]]
  BY <1>6 DEF TypesInv
<1>. QED  BY <1>2, <1>5, <1>7 DEF longer

\* Applying keeps AppliedInv.
LEMMA ApplyKeepsApplied ==
  ASSUME TypesInv, AppliedInv, lab = "raft", NEW i \in all, NEW g \in 1..gen[i], apply(i, g)
  PROVE  AppliedInv'
<1>. DEFINE index == pos[i][g] + 1
<1>1. all' = all /\ lab' = lab /\ gen' = gen /\ committed' = committed
  BY DEF apply, all, links, raft
<1>2. pos \in [all -> Seq(Nat)] /\ Len(pos[i]) = gen[i] /\ gen[i] \in Nat /\ index \in Nat
  BY ApplyAdds DEF AppliedInv, TypesInv
<1>3. pos' = [pos EXCEPT ![i] = [pos[i] EXCEPT ![g] = index]]
  BY DEF apply
<1>4. [pos[i] EXCEPT ![g] = index] \in Seq(Nat) /\ Len([pos[i] EXCEPT ![g] = index]) = gen[i]
  BY <1>2
<1>5. /\ pos' \in [all -> Seq(Nat)]
      /\ pos'[i] = [pos[i] EXCEPT ![g] = index]
      /\ \A j \in all \ {i} : pos'[j] = pos[j]
  BY <1>2, <1>3, <1>4
<1>6. \A j \in all : Len(pos'[j]) = gen[j]
  BY <1>4, <1>5 DEF AppliedInv
<1>7. ASSUME NEW j \in all, NEW h \in 1..gen[j] PROVE 1..pos'[j][h] \subseteq DOMAIN logs'[j]
  <2>1. CASE j # i
    BY <2>1, <1>5, ApplyAdds DEF AppliedInv
  <2>2. CASE j = i /\ h # g
    <3>1. pos'[j][h] = pos[j][h]
      BY <2>2, <1>2, <1>5
    <3>. QED  BY <3>1, <2>2, ApplyAdds DEF AppliedInv
  <2>3. CASE j = i /\ h = g
    <3>1. pos'[j][h] = index
      BY <2>3, <1>2, <1>5
    <3>2. 1..pos[i][g] \subseteq DOMAIN logs[i]
      BY DEF AppliedInv
    <3>3. 1..index \subseteq (1..pos[i][g]) \cup {index}
      BY ApplyAdds
    <3>. QED  BY <3>1, <3>2, <3>3, <2>3, ApplyAdds
  <2>. QED  BY <2>1, <2>2, <2>3
<1>8. ASSUME NEW j \in all
      PROVE  /\ DOMAIN logs'[j] \subseteq 1..Len(committed)
             /\ \A k \in DOMAIN logs'[j] : logs'[j][k] = committed[k]
  <2>1. Len(committed) \in Nat
    BY DEF TypesInv
  <2>2. index \in 1..Len(committed)
    BY <2>1, <1>2, ApplyAdds
  <2>3. CASE j # i
    BY <2>3, ApplyAdds DEF AppliedInv
  <2>4. CASE j = i
    BY <2>2, <2>4, ApplyAdds DEF AppliedInv
  <2>. QED  BY <2>3, <2>4
<1>. QED  BY <1>1, <1>5, <1>6, <1>7, <1>8, ApplyAdds DEF AppliedInv

\* A longer log of the Raft is as good.
LEMMA CommitKeepsApplied ==
  ASSUME TypesInv, AppliedInv, NEW c \in Command, RaftCommit(c)
  PROVE  AppliedInv'
<1>1. all' = all /\ lab' = lab /\ gen' = gen /\ pos' = pos /\ logs' = logs /\ alarm' = alarm
  BY DEF RaftCommit, all, links, storage
<1>2. /\ Len(committed) \in Nat /\ Len(committed') = Len(committed) + 1
      /\ \A k \in 1..Len(committed) : committed'[k] = committed[k]
  BY DEF RaftCommit, TypesInv
<1>3. 1..Len(committed) \subseteq 1..Len(committed')
  BY <1>2
<1>. QED  BY <1>1, <1>2, <1>3 DEF AppliedInv

\* Starting a server gives it an applier that has been sent nothing.
LEMMA StartKeepsApplied ==
  ASSUME TypesInv, AppliedInv, NEW i \in all, start1(i)
  PROVE  AppliedInv'
<1>1. all' = all /\ lab' = lab /\ lab = "raft" /\ committed' = committed /\ logs' = logs /\ alarm' = alarm
  BY DEF start1, all
<1>2. pos \in [all -> Seq(Nat)] /\ pos[i] \in Seq(Nat) /\ Len(pos[i]) = gen[i] /\ gen[i] \in Nat
  BY <1>1 DEF AppliedInv, TypesInv
<1>3. /\ pos' \in [all -> Seq(Nat)] /\ pos'[i] = Append(pos[i], 0)
      /\ \A j \in all \ {i} : pos'[j] = pos[j]
  BY <1>2 DEF start1
<1>4. gen'[i] = gen[i] + 1 /\ \A j \in all \ {i} : gen'[j] = gen[j]
  BY DEF start1, TypesInv
<1>5. \A j \in all : Len(pos'[j]) = gen'[j]
  <2>1. Len(pos'[i]) = gen'[i]
    BY <1>2, <1>3, <1>4
  <2>2. \A j \in all \ {i} : Len(pos'[j]) = gen'[j]
    BY <1>1, <1>3, <1>4 DEF AppliedInv
  <2>. QED  BY <2>1, <2>2
<1>6. ASSUME NEW j \in all, NEW g \in 1..gen'[j] PROVE 1..pos'[j][g] \subseteq DOMAIN logs[j]
  <2>1. CASE j # i
    BY <2>1, <1>1, <1>3, <1>4 DEF AppliedInv
  <2>2. CASE j = i /\ g = gen[i] + 1
    <3>1. pos'[j][g] = 0
      BY <2>2, <1>2, <1>3
    <3>. QED  BY <3>1
  <2>3. CASE j = i /\ g # gen[i] + 1
    <3>1. g \in 1..gen[i]
      BY <2>3, <1>2, <1>4
    <3>2. pos'[j][g] = pos[i][g]
      BY <3>1, <2>3, <1>2, <1>3
    <3>. QED  BY <3>1, <3>2, <2>3, <1>1 DEF AppliedInv
  <2>. QED  BY <2>1, <2>2, <2>3
<1>. QED  BY <1>1, <1>3, <1>5, <1>6 DEF AppliedInv

\* AppliedInv needs a word of the network's other operations only because gen names the
\* starts of both labs.
LEMMA LinkKeepsApplied ==
  ASSUME TypesInv, AppliedInv, LinkNext
  PROVE  AppliedInv'
<1>1. ASSUME lab = "raft", UNCHANGED <<gen, pos>> PROVE AppliedInv'
  BY <1>1, LinkFrame DEF AppliedInv, all
<1>2. ASSUME lab = "kv" PROVE AppliedInv'
  BY <1>2, LinkFrame DEF AppliedInv, all
<1>3. ASSUME NEW i, detach(i) \/ connect(i) \/ crash1(i) PROVE lab = "raft" /\ UNCHANGED <<gen, pos>>
  BY <1>3 DEF detach, connect, crash1, storage
<1>4. ASSUME NEW i, shutdown_server(i) \/ start_server(i) PROVE lab = "kv"
  BY <1>4 DEF shutdown_server, start_server
<1>5. ASSUME NEW p1, NEW p2, partition(p1, p2) PROVE lab = "kv"
  BY <1>5 DEF partition
<1>6. ASSUME connect_all PROVE lab = "kv"
  BY <1>6 DEF connect_all
<1>. QED  BY <1>1, <1>2, <1>3, <1>4, <1>5, <1>6, StartKeepsApplied DEF LinkNext, make_partition

-----------------------------------------------------------------------------
(* Leaders, and what the thread has read of them.                          *)

answer == [server : all, term : Nat, leader : BOOLEAN] \cup {nothing}

claimed(k) == k \in 1..Len(seen) /\ seen[k] # nothing /\ seen[k].leader

\* A term that a server claimed to lead was won by it and is never won again; so no other
\* claim, old or new, is about that term.
LeadersInv ==
  /\ \A i \in leads : term[i] \in elected
  /\ \A i, j \in leads : i # j => term[i] # term[j]
  /\ seen \in Seq(answer) /\ Len(seen) <= n
  /\ \A k \in 1..Len(seen) : seen[k] # nothing => seen[k].server = k - 1
  /\ \A k \in 1..Len(seen) : claimed(k) =>
       /\ seen[k].term \in elected
       /\ \A j \in leads : j # k - 1 => term[j] # seen[k].term
       /\ \A l \in 1..Len(seen) : l # k /\ claimed(l) => seen[l].term # seen[k].term

\* A survey starts with no answers, and a server that has led all along is found to lead.
SurveyInv ==
  /\ lab = "kv" => pc = "idle"
  /\ pc \notin surveys => seen = <<>> /\ steady = {}
  /\ steady \subseteq leads \cap connected
  /\ \A s \in steady : s + 1 \in 1..Len(seen) => seen[s + 1] = get_state(s)

\* An answer is not the mark of a server that was passed over.
LEMMA AnswerIsSomething == \A i : get_state(i) # nothing
  BY DEF get_state, nothing

\* What is claimed, by its place in seen.
LEMMA ClaimPlaces ==
  ASSUME TypesInv, LeadersInv
  PROVE  \A c : c \in claims <=> \E k \in 1..Len(seen) : claimed(k) /\ c = seen[k]
<1>1. DOMAIN seen = 1..Len(seen)
  BY DEF LeadersInv
<1>. QED  BY <1>1 DEF claims, answers, claimed, Range

\* check_one_leader never finds two leaders of one term.
LEMMA ClaimsDiffer ==
  ASSUME TypesInv, LeadersInv
  PROVE  \A c, d \in claims : c # d => c.term # d.term
<1>. SUFFICES ASSUME NEW c \in claims, NEW d \in claims, c # d PROVE c.term # d.term
  OBVIOUS
<1>1. PICK k \in 1..Len(seen) : claimed(k) /\ c = seen[k]
  BY ClaimPlaces
<1>2. PICK l \in 1..Len(seen) : claimed(l) /\ d = seen[l]
  BY ClaimPlaces
<1>3. k # l
  BY <1>1, <1>2
<1>. QED  BY <1>1, <1>2, <1>3 DEF LeadersInv

\* While nothing is read and nobody is elected, leaders only go.
LEMMA FewerLeaders ==
  ASSUME LeadersInv, leads' \subseteq leads, UNCHANGED <<n, term, elected>>,
         seen' = seen \/ seen' = <<>>, n \in Nat
  PROVE  LeadersInv'
<1>1. all' = all /\ answer' = answer
  BY DEF all, answer, nothing
<1>2. CASE seen' = seen
  BY <1>1, <1>2 DEF LeadersInv, claimed, nothing
<1>3. CASE seen' = <<>>
  <2>1. seen' \in Seq(answer) /\ Len(seen') = 0
    BY <1>3
  <2>. QED  BY <1>1, <2>1 DEF LeadersInv
<1>. QED  BY <1>2, <1>3

\* A server that wins a term wins one that nobody has won or claimed.
LEMMA TermKeepsLeaders ==
  ASSUME TypesInv, LeadersInv, NEW i \in all, NEW t \in Nat, NEW wins \in BOOLEAN, RaftTerm(i, t, wins)
  PROVE  LeadersInv'
<1>1. all' = all /\ answer' = answer /\ n' = n /\ seen' = seen /\ \A k : claimed(k)' <=> claimed(k)
  BY DEF RaftTerm, all, answer, nothing, claimed
<1>2. term'[i] = t /\ \A j \in all \ {i} : term'[j] = term[j]
  BY DEF RaftTerm, TypesInv
<1>3. elected \subseteq elected'
  BY DEF RaftTerm
<1>4. \A j \in leads' : j # i => j \in leads /\ term'[j] = term[j]
  BY <1>2 DEF RaftTerm, TypesInv
<1>5. i \in leads' => t \notin elected /\ t \in elected'
  BY DEF RaftTerm
<1>6. \A j \in leads' : term'[j] \in elected'
  BY <1>2, <1>3, <1>4, <1>5 DEF LeadersInv
<1>7. \A j, k \in leads' : j # k => term'[j] # term'[k]
  BY <1>2, <1>4, <1>5 DEF LeadersInv
<1>8. ASSUME NEW k \in 1..Len(seen), claimed(k), NEW j \in leads', j # k - 1
      PROVE  term'[j] # seen[k].term
  BY <1>8, <1>2, <1>4, <1>5 DEF LeadersInv
<1>. QED  BY <1>1, <1>3, <1>6, <1>7, <1>8 DEF LeadersInv

\* Reading a server's state adds a claim that differs from those read before.
LEMMA LookKeepsLeaders ==
  ASSUME TypesInv, LeadersInv, look
  PROVE  LeadersInv'
<1>0. PICK i \in Nat : i = Len(seen)
  BY DEF LeadersInv
<1>. DEFINE a == IF i \in connected THEN get_state(i) ELSE nothing
<1>1. UNCHANGED <<n, term, leads, elected>> /\ all' = all /\ answer' = answer /\ n \in Nat
  BY DEF look, raft, all, answer, nothing, TypesInv
<1>2. seen \in Seq(answer) /\ i = Len(seen) /\ i < n
  BY <1>0 DEF LeadersInv, look
<1>3. a \in answer
  <2>1. CASE i \in connected
    <3>1. i \in all /\ term[i] \in Nat
      BY <2>1 DEF connected, TypesInv
    <3>2. get_state(i) \in [server : all, term : Nat, leader : BOOLEAN]
      BY <3>1 DEF get_state
    <3>. QED  BY <2>1, <3>2 DEF answer
  <2>2. CASE i \notin connected
    BY <2>2 DEF answer
  <2>. QED  BY <2>1, <2>2
<1>4. a # nothing => a.server = i /\ a.term = term[i] /\ (a.leader <=> i \in leads)
  BY DEF get_state
<1>5. seen' = Append(seen, a)
  BY <1>0 DEF look
<1>. HIDE DEF a
<1>6. /\ seen' \in Seq(answer) /\ Len(seen') = i + 1 /\ Len(seen') <= n
      /\ seen'[i + 1] = a /\ \A k \in 1..i : seen'[k] = seen[k]
  BY <1>1, <1>2, <1>3, <1>5
<1>7. \A k \in 1..Len(seen') : k = i + 1 \/ k \in 1..i
  BY <1>2, <1>6
<1>8. \A k \in 1..i : claimed(k)' <=> claimed(k)
  BY <1>2, <1>6, <1>7 DEF claimed, nothing
<1>9. claimed(i + 1)' => i \in leads /\ seen'[i + 1].term = term[i]
  BY <1>4, <1>6 DEF claimed, nothing
<1>10. \A k \in 1..Len(seen') : seen'[k] # nothing => seen'[k].server = k - 1
  BY <1>2, <1>4, <1>6, <1>7 DEF LeadersInv
<1>11. \A k \in 1..i : claimed(k) => /\ seen[k].term \in elected
                                     /\ \A j \in leads : j # k - 1 => term[j] # seen[k].term
                                     /\ \A l \in 1..i : l # k /\ claimed(l) => seen[l].term # seen[k].term
  BY <1>0 DEF LeadersInv
<1>12. ASSUME NEW k \in 1..Len(seen'), claimed(k)'
       PROVE  /\ seen'[k].term \in elected
              /\ \A j \in leads : j # k - 1 => term[j] # seen'[k].term
              /\ \A l \in 1..Len(seen') : l # k /\ claimed(l)' => seen'[l].term # seen'[k].term
  <2>1. CASE k = i + 1
    <3>1. i \in leads /\ seen'[k].term = term[i]
      BY <2>1, <1>9, <1>12
    <3>2. \A j \in leads : j # k - 1 => term[j] # seen'[k].term
      <4>1. k - 1 = i
        BY <2>1
      <4>. QED  BY <4>1, <3>1 DEF LeadersInv
    <3>3. ASSUME NEW l \in 1..i, claimed(l)' PROVE seen'[l].term # seen'[k].term
      <4>1. claimed(l) /\ seen'[l] = seen[l] /\ i # l - 1
        BY <3>3, <1>2, <1>6, <1>8
      <4>. QED  BY <4>1, <3>1, <1>11
    <3>. QED  BY <2>1, <3>1, <3>2, <3>3, <1>7 DEF LeadersInv
  <2>2. CASE k \in 1..i
    <3>1. claimed(k) /\ seen'[k] = seen[k] /\ i # k - 1
      BY <2>2, <1>2, <1>6, <1>8, <1>12
    <3>2. ASSUME NEW l \in 1..Len(seen'), l # k, claimed(l)' PROVE seen'[l].term # seen'[k].term
      <4>1. CASE l = i + 1
        BY <4>1, <3>1, <3>2, <1>9, <1>11, <2>2
      <4>2. CASE l \in 1..i
        BY <4>2, <3>1, <3>2, <1>6, <1>8, <1>11, <2>2
      <4>. QED  BY <4>1, <4>2, <1>7
    <3>. QED  BY <3>1, <3>2, <2>2, <1>11
  <2>. QED  BY <2>1, <2>2, <1>7
<1>. QED  BY <1>1, <1>6, <1>10, <1>12 DEF LeadersInv, nothing

\* LeadersInv is kept by every step.
LEMMA LeadersStep ==
  ASSUME TypesInv, LeadersInv, Next
  PROVE  LeadersInv'
<1>1. CASE LinkNext
  <2>1. ASSUME NEW i, detach(i) \/ connect(i) \/ crash1(i) \/ start1(i) PROVE leads' \subseteq leads
    BY <2>1 DEF detach, connect, crash1, start1, raft
  <2>2. ASSUME NEW i, shutdown_server(i) \/ start_server(i) PROVE leads' \subseteq leads
    BY <2>2 DEF shutdown_server, start_server, raft
  <2>3. ASSUME NEW p1, NEW p2, partition(p1, p2) PROVE leads' \subseteq leads
    BY <2>3 DEF partition, raft
  <2>4. ASSUME connect_all PROVE leads' \subseteq leads
    BY <2>4 DEF connect_all, raft
  <2>5. leads' \subseteq leads
    BY <1>1, <2>1, <2>2, <2>3, <2>4 DEF LinkNext, make_partition
  <2>. QED  BY <1>1, <2>5, FewerLeaders, LinkFrame DEF thread, TypesInv
<1>2. CASE ApplyNext
  <2>1. UNCHANGED <<n, term, leads, elected, seen>>
    BY <1>2 DEF ApplyNext, apply, raft, thread
  <2>. QED  BY <2>1, FewerLeaders DEF TypesInv
<1>3. ASSUME NEW c \in Command, RaftCommit(c) PROVE LeadersInv'
  <2>1. UNCHANGED <<n, term, leads, elected, seen>>
    BY <1>3 DEF RaftCommit, thread
  <2>. QED  BY <2>1, FewerLeaders DEF TypesInv
<1>4. ASSUME NEW i \in all, NEW t \in 1..MaxTerm, NEW wins \in BOOLEAN, RaftTerm(i, t, wins)
      PROVE  LeadersInv'
  BY <1>4, TermKeepsLeaders
<1>5. CASE ThreadNext /\ ~look
  <2>1. ASSUME NEW c, NEW e, NEW retry, one(c, e, retry) PROVE seen' = seen
    BY <2>1 DEF one, goto
  <2>2. ASSUME try PROVE seen' = seen
    BY <2>2 DEF try, goto
  <2>3. ASSUME again \/ agree \/ giveUp \/ waited \/ check_terms \/ check_no_leader
        PROVE  seen' = seen \/ seen' = <<>>
    BY <2>3 DEF again, agree, giveUp, waited, check_terms, check_no_leader, goto, fails, returns
  <2>4. ASSUME check_one_leader PROVE seen' = <<>>
    BY <2>4 DEF check_one_leader, returns, fails
  <2>5. ASSUME NEW k, NEW e, NEW t, wait(k, e, t) PROVE seen' = seen
    BY <2>5 DEF wait, goto
  <2>6. ASSUME NEW check, survey(check) PROVE seen' = seen
    BY <2>6 DEF survey
  <2>7. seen' = seen \/ seen' = <<>>
    BY <1>5, <2>1, <2>2, <2>3, <2>4, <2>5, <2>6 DEF ThreadNext
  <2>. QED  BY <1>5, <2>7, ThreadFrame, FewerLeaders DEF TypesInv
<1>. QED  BY <1>1, <1>2, <1>3, <1>4, <1>5, LookKeepsLeaders, Groups DEF RaftNext

\* The network changes only between two operations of the thread.
LEMMA LinkIdle ==
  ASSUME TypesInv, SurveyInv, LinkNext
  PROVE  pc = "idle"
<1>1. ASSUME NEW i, detach(i) \/ connect(i) \/ crash1(i) \/ start1(i) PROVE pc = "idle"
  BY <1>1 DEF detach, connect, crash1, start1, free
<1>2. ASSUME NEW i, shutdown_server(i) \/ start_server(i) PROVE pc = "idle"
  BY <1>2 DEF shutdown_server, start_server, SurveyInv
<1>3. ASSUME NEW p1, NEW p2, partition(p1, p2) PROVE pc = "idle"
  BY <1>3 DEF partition, SurveyInv
<1>4. ASSUME connect_all PROVE pc = "idle"
  BY <1>4 DEF connect_all, SurveyInv
<1>. QED  BY <1>1, <1>2, <1>3, <1>4 DEF LinkNext, make_partition

\* SurveyInv is kept by every step.
LEMMA SurveyStep ==
  ASSUME TypesInv, LeadersInv, SurveyInv, Next
  PROVE  SurveyInv'
<1>1. CASE LinkNext
  <2>1. pc = "idle" /\ seen = <<>> /\ steady = {}
    BY <1>1, LinkIdle DEF SurveyInv, surveys
  <2>. QED  BY <1>1, <2>1, LinkFrame DEF SurveyInv, thread
<1>2. CASE UNCHANGED <<lab, n, side, leads, term, pc, seen, steady>>
  BY <1>2 DEF SurveyInv, surveys, connected, all, get_state
<1>3. ASSUME ApplyNext PROVE UNCHANGED <<lab, n, side, leads, term, pc, seen, steady>>
  BY <1>3 DEF ApplyNext, apply, raft, links, thread
<1>4. ASSUME NEW c, RaftCommit(c) PROVE UNCHANGED <<lab, n, side, leads, term, pc, seen, steady>>
  BY <1>4 DEF RaftCommit, links, thread
<1>5. ASSUME NEW i \in all, NEW t, NEW wins \in BOOLEAN, RaftTerm(i, t, wins) PROVE SurveyInv'
  <2>1. UNCHANGED <<lab, pc, seen>> /\ connected' = connected /\ steady' = steady \ {i}
    BY <1>5 DEF RaftTerm, connected, all, links
  <2>2. \A s \in steady' : s \in leads' /\ term'[s] = term[s] /\ s \in leads /\ s \in steady
    BY <1>5 DEF RaftTerm, SurveyInv, TypesInv
  <2>. QED  BY <2>1, <2>2 DEF SurveyInv, surveys, get_state
<1>6. ASSUME NEW check \in surveys, survey(check) PROVE SurveyInv'
  <2>1. seen = <<>> /\ lab = "raft"
    BY <1>6 DEF survey, free, SurveyInv, surveys
  <2>2. UNCHANGED <<lab, leads, seen>> /\ connected' = connected /\ steady' = leads \cap connected /\ pc' \in surveys
    BY <1>6 DEF survey, raft, links, connected, all
  <2>. QED  BY <2>1, <2>2 DEF SurveyInv, surveys
<1>7. CASE look
  <2>1. /\ UNCHANGED <<lab, leads, term, pc, steady>> /\ connected' = connected
        /\ pc \in surveys
        /\ seen' = Append(seen, IF Len(seen) \in connected THEN get_state(Len(seen)) ELSE nothing)
    BY <1>7 DEF look, raft, links, connected, all
  <2>2. \A s : get_state(s)' = get_state(s)
    BY <2>1 DEF get_state
  <2>3. seen \in Seq(answer)
    BY DEF LeadersInv
  <2>4. ASSUME NEW s \in steady, s + 1 \in 1..Len(seen') PROVE seen'[s + 1] = get_state(s)
    <3>1. s \in connected /\ s \in Nat
      BY DEF SurveyInv, connected, all
    <3>2. CASE s = Len(seen)
      BY <2>1, <2>3, <3>1, <3>2
    <3>3. CASE s # Len(seen)
      <4>1. s + 1 \in 1..Len(seen)
        BY <2>1, <2>3, <2>4, <3>1, <3>3
      <4>2. seen'[s + 1] = seen[s + 1]
        BY <2>1, <2>3, <4>1
      <4>. QED  BY <4>1, <4>2 DEF SurveyInv
    <3>. QED  BY <3>2, <3>3
  <2>. QED  BY <2>1, <2>2, <2>4 DEF SurveyInv, surveys
<1>8. CASE ThreadNext /\ ~look /\ ~(\E check \in surveys : survey(check))
  <2>1. CASE /\ lab = "raft" \/ pc # "idle"
             /\ pc' \notin surveys /\ pc \notin surveys
             /\ (seen' = seen /\ steady' = steady) \/ (seen' = <<>> /\ steady' = {})
    <3>1. seen' = <<>> /\ steady' = {} /\ lab' = "raft" /\ lab = "raft"
      BY <2>1, <1>8, ThreadFrame DEF SurveyInv, TypesInv
    <3>. QED  BY <3>1, <2>1 DEF SurveyInv, surveys
  <2>2. CASE pc \in surveys /\ pc' \notin surveys /\ seen' = <<>> /\ steady' = {}
    <3>1. lab' = "raft"
      BY <2>2, <1>8, ThreadFrame DEF SurveyInv, TypesInv, surveys
    <3>. QED  BY <3>1, <2>2 DEF SurveyInv, surveys
  <2>3. CASE pc \in surveys /\ pc' = pc /\ seen' = <<>> /\ steady' = leads \cap connected
    <3>1. lab' = "raft" /\ leads' = leads /\ connected' = connected
      BY <2>3, <1>8, ThreadFrame DEF SurveyInv, TypesInv, surveys, links, connected, all
    <3>. QED  BY <3>1, <2>3 DEF SurveyInv, surveys
  <2>4. ASSUME NEW c, NEW e, NEW retry, one(c, e, retry) PROVE SurveyInv'
    BY <2>1, <2>4 DEF one, goto, surveys, free
  <2>5. ASSUME try PROVE SurveyInv'
    BY <2>1, <2>5 DEF try, goto, surveys
  <2>6. ASSUME again \/ agree \/ giveUp \/ waited PROVE SurveyInv'
    BY <2>1, <2>6 DEF again, agree, giveUp, waited, goto, fails, returns, surveys
  <2>7. ASSUME NEW k, NEW e, NEW t, wait(k, e, t) PROVE SurveyInv'
    BY <2>1, <2>7 DEF wait, goto, surveys, free
  <2>8. ASSUME check_terms \/ check_no_leader PROVE SurveyInv'
    BY <2>2, <2>8 DEF check_terms, check_no_leader, fails, returns, surveys
  <2>9. ASSUME check_one_leader PROVE SurveyInv'
    BY <2>2, <2>3, <2>9 DEF check_one_leader, fails, returns, surveys
  <2>. QED  BY <1>8, <2>4, <2>5, <2>6, <2>7, <2>8, <2>9 DEF ThreadNext
<1>. QED  BY <1>1, <1>2, <1>3, <1>4, <1>5, <1>6, <1>7, <1>8, Groups DEF RaftNext

\* AppliedInv is kept by every step: two leaders of a term would be an alarm as well.
LEMMA AppliedStep ==
  ASSUME TypesInv, AppliedInv, LeadersInv, Next
  PROVE  AppliedInv'
<1>1. CASE UNCHANGED <<lab, n, gen, committed, pos, logs, alarm>>
  BY <1>1 DEF AppliedInv, all
<1>2. ASSUME NEW i, NEW t, NEW wins, RaftTerm(i, t, wins)
      PROVE  UNCHANGED <<lab, n, gen, committed, pos, logs, alarm>>
  BY <1>2 DEF RaftTerm, links, storage
<1>3. ASSUME ThreadNext PROVE UNCHANGED <<lab, n, gen, committed, pos, logs, alarm>>
  <2>1. ASSUME NEW c, NEW e, NEW retry, one(c, e, retry) PROVE alarm' = alarm
    BY <2>1 DEF one
  <2>2. ASSUME try PROVE alarm' = alarm
    BY <2>2 DEF try
  <2>3. ASSUME again \/ agree \/ giveUp \/ waited \/ look \/ check_terms \/ check_no_leader
        PROVE  alarm' = alarm
    BY <2>3 DEF again, agree, giveUp, waited, look, check_terms, check_no_leader
  <2>4. ASSUME check_one_leader PROVE alarm' = alarm
    BY <2>4, ClaimsDiffer DEF check_one_leader
  <2>5. ASSUME NEW k, NEW e, NEW t, wait(k, e, t) PROVE alarm' = alarm
    BY <2>5 DEF wait
  <2>6. ASSUME NEW check, survey(check) PROVE alarm' = alarm
    BY <2>6 DEF survey
  <2>7. alarm' = alarm
    BY <1>3, <2>1, <2>2, <2>3, <2>4, <2>5, <2>6 DEF ThreadNext
  <2>. QED  BY <1>3, <2>7, ThreadFrame DEF links, storage
<1>4. CASE ApplyNext
  BY <1>4, ApplyKeepsApplied DEF ApplyNext
<1>. QED  BY <1>1, <1>2, <1>3, <1>4, LinkKeepsApplied, CommitKeepsApplied, Groups DEF RaftNext

-----------------------------------------------------------------------------
(* What one and wait return.                                               *)

operation ==
  [cmd : Command \cup {none}, expected : Nat, retry : BOOLEAN, starts : Nat, tried : Nat, index : Nat]

\* wait asks for at least one server: with none it could return the entry of an index that
\* nobody has applied.
ReturnInv ==
  /\ op \in operation /\ (pc = "wait" => op.expected > 0)
  /\ ret.op \in {"one", "wait"} => ret.index \in 1..Len(committed) /\ ret.expected \in Nat
  /\ ReturnedIsCommitted

\* Logs that only grow keep what was committed by enough servers.
LEMMA GrowthKeepsReturn ==
  ASSUME TypesInv, ReturnInv, UNCHANGED <<n, pc, op, ret>>,
         \A i \in all : DOMAIN logs[i] \subseteq DOMAIN logs'[i],
         committed' \in Seq(Command), Len(committed) <= Len(committed'),
         \A k \in 1..Len(committed) : committed'[k] = committed[k]
  PROVE  ReturnInv'
<1>1. CASE ret.op \in {"one", "wait"}
  <2>. DEFINE k == ret.index
  <2>1. k \in 1..Len(committed) /\ Len(committed) \in Nat /\ Len(committed') \in Nat
    BY <1>1 DEF ReturnInv, TypesInv
  <2>2. k \in 1..Len(committed') /\ committed'[k] = committed[k]
    BY <2>1
  <2>3. n_committed(k) \subseteq n_committed(k)'
    BY DEF n_committed, all
  <2>4. IsFiniteSet(n_committed(k)')
    <3>0. n \in Nat
      BY DEF TypesInv
    <3>1. IsFiniteSet(0..(n - 1))
      BY <3>0, FS_Interval
    <3>2. n_committed(k)' \subseteq 0..(n - 1)
      BY DEF n_committed, all
    <3>. QED  BY <3>1, <3>2, FS_Subset
  <2>5. /\ Cardinality(n_committed(k)) <= Cardinality(n_committed(k)')
        /\ Cardinality(n_committed(k)) \in Nat /\ Cardinality(n_committed(k)') \in Nat
    BY <2>3, <2>4, FS_Subset, FS_CardinalityType
  <2>6. ret.expected \in Nat /\ Cardinality(n_committed(k)) >= ret.expected /\ committed[k] = ret.cmd
    BY <1>1 DEF ReturnInv, ReturnedIsCommitted
  <2>7. Cardinality(n_committed(k)') >= ret.expected
    BY <2>5, <2>6
  <2>8. n_committed(k)' = n_committed(ret.index)'
    OBVIOUS
  <2>. QED  BY <1>1, <2>1, <2>2, <2>6, <2>7 DEF ReturnInv, ReturnedIsCommitted, operation
<1>2. CASE ret.op \notin {"one", "wait"}
  BY <1>2 DEF ReturnInv, ReturnedIsCommitted, operation
<1>. QED  BY <1>1, <1>2

\* The entry of an index that some server has applied is the Raft's.
LEMMA EntryIsCommitted ==
  ASSUME TypesInv, AppliedInv, NEW k, n_committed(k) # {}
  PROVE  k \in 1..Len(committed) /\ entryAt(k) = committed[k]
<1>1. PICK i : i = CHOOSE j \in n_committed(k) : TRUE
  OBVIOUS
<1>2. i \in n_committed(k)
  BY <1>1
<1>3. entryAt(k) = logs[i][k]
  BY <1>1 DEF entryAt
<1>. QED  BY <1>2, <1>3 DEF n_committed, AppliedInv

\* ReturnInv is kept by every step.
LEMMA ReturnStep ==
  ASSUME TypesInv, AppliedInv, ReturnInv, Next
  PROVE  ReturnInv'
<1>1. CASE UNCHANGED <<n, pc, op, ret, logs, committed>>
  BY <1>1 DEF ReturnInv, ReturnedIsCommitted, n_committed, all, operation
<1>2. ASSUME LinkNext PROVE UNCHANGED <<n, pc, op, ret, logs, committed>>
  BY <1>2, LinkFrame DEF thread
<1>3. ASSUME NEW i, NEW t, NEW wins, RaftTerm(i, t, wins) PROVE UNCHANGED <<n, pc, op, ret, logs, committed>>
  BY <1>3 DEF RaftTerm, storage
<1>4. CASE ApplyNext
  <2>0. PICK i \in all : \E g \in 1..gen[i] : lab = "raft" /\ apply(i, g)
    BY <1>4 DEF ApplyNext
  <2>1. PICK g \in 1..gen[i] : lab = "raft" /\ apply(i, g)
    BY <2>0
  <2>2. \A j \in all : DOMAIN logs[j] \subseteq DOMAIN logs'[j]
    BY <2>1, ApplyAdds
  <2>3. UNCHANGED <<n, pc, op, ret, committed>>
    BY <2>1 DEF apply, thread, raft
  <2>4. committed \in Seq(Command) /\ Len(committed) \in Nat
    BY DEF TypesInv
  <2>. QED  BY <2>2, <2>3, <2>4, GrowthKeepsReturn
<1>5. ASSUME NEW c \in Command, RaftCommit(c) PROVE ReturnInv'
  <2>1. UNCHANGED <<n, pc, op, ret, logs>> /\ committed' = Append(committed, c)
    BY <1>5 DEF RaftCommit, thread, storage
  <2>2. /\ committed' \in Seq(Command) /\ Len(committed) <= Len(committed')
        /\ \A k \in 1..Len(committed) : committed'[k] = committed[k]
    BY <2>1 DEF TypesInv
  <2>. QED  BY <2>1, <2>2, GrowthKeepsReturn
<1>6. CASE ThreadNext
  <2>1. n' = n /\ logs' = logs /\ committed' = committed
    BY <1>6, ThreadFrame DEF storage
  <2>2. CASE op' \in operation /\ (pc' = "wait" => op'.expected > 0) /\ ret'.op \notin {"one", "wait"}
    BY <2>2 DEF ReturnInv, ReturnedIsCommitted, operation
  <2>3. noop \in operation
    BY DEF noop, operation
  <2>4. nothing.op \notin {"one", "wait"}
    BY DEF nothing
  <2>5. n \in Nat \ {0}
    BY DEF TypesInv
  <2>6. ASSUME NEW c \in Command, NEW e \in 1..n, NEW retry \in BOOLEAN, one(c, e, retry) PROVE ReturnInv'
    <3>0. op' = [cmd |-> c, expected |-> e, retry |-> retry, starts |-> 0, tried |-> 0, index |-> 0]
      BY <2>6 DEF one, noop
    <3>1. op' \in operation
      BY <2>5, <3>0 DEF operation
    <3>. QED  BY <2>2, <2>4, <2>6, <3>1 DEF one, goto
  <2>7. ASSUME NEW k \in 1..MaxIndex, NEW e \in 1..n, NEW t \in 0..MaxTerm, wait(k, e, t) PROVE ReturnInv'
    <3>0. op' = [cmd |-> none, expected |-> e, retry |-> FALSE, starts |-> t, tried |-> 0, index |-> k]
      BY <2>7 DEF wait, noop
    <3>1. op' \in operation /\ op'.expected = e
      BY <2>5, <3>0 DEF operation
    <3>. QED  BY <2>2, <2>4, <2>5, <2>7, <3>1 DEF wait, goto
  <2>8. ASSUME try PROVE ReturnInv'
    <3>1. op' \in operation
      <4>1. (op.starts + 1) % n \in Nat /\ op.tried + 1 \in Nat
        BY <2>5 DEF ReturnInv, operation
      <4>2. \A k \in 1..MaxIndex : k \in Nat
        OBVIOUS
      <4>. QED  BY <4>1, <4>2, <2>8 DEF try, ReturnInv, operation
    <3>2. pc' # "wait" /\ ret' = nothing
      BY <2>8 DEF try, goto
    <3>. QED  BY <2>2, <2>4, <3>1, <3>2
  <2>9. ASSUME again \/ giveUp PROVE ReturnInv'
    <3>0. op' \in {op, noop, [op EXCEPT !.tried = 0, !.index = 0]}
      BY <2>9 DEF again, giveUp, fails
    <3>9. op \in operation /\ [op EXCEPT !.tried = 0, !.index = 0] \in operation
      BY DEF ReturnInv, operation
    <3>1. op' \in operation
      BY <2>3, <3>0, <3>9
    <3>2. pc' # "wait" /\ ret' = nothing
      BY <2>9 DEF again, giveUp, goto, fails
    <3>. QED  BY <2>2, <2>4, <3>1, <3>2
  <2>10. ASSUME NEW check \in surveys, survey(check) PROVE ReturnInv'
    <3>1. op' = op /\ pc' # "wait" /\ ret' = nothing
      BY <2>10 DEF survey, surveys
    <3>. QED  BY <2>2, <2>4, <3>1 DEF ReturnInv
  <2>11. ASSUME look PROVE ReturnInv'
    BY <1>1, <2>1, <2>11 DEF look
  <2>12. ASSUME check_terms \/ check_no_leader PROVE ReturnInv'
    <3>0. op' = noop /\ pc' # "wait" /\ ret' \in {nothing, [op |-> "terms"], [op |-> "no leader"]}
      BY <2>12 DEF check_terms, check_no_leader, fails, returns
    <3>1. ret'.op \notin {"one", "wait"}
      <4>1. CASE ret' = nothing
        BY <2>4, <4>1
      <4>2. CASE ret' = [op |-> "terms"]
        BY <4>2
      <4>3. CASE ret' = [op |-> "no leader"]
        BY <4>3
      <4>. QED  BY <3>0, <4>1, <4>2, <4>3
    <3>. QED  BY <2>2, <2>3, <3>0, <3>1
  <2>13. ASSUME check_one_leader PROVE ReturnInv'
    <3>1. CASE UNCHANGED <<pc, op, ret>>
      BY <1>1, <2>1, <3>1
    <3>2. CASE op' = noop /\ pc' # "wait" /\ ret'.op \notin {"one", "wait"}
      BY <2>2, <2>3, <3>2
    <3>. QED  BY <2>4, <2>13, <3>1, <3>2 DEF check_one_leader, fails, returns
  <2>14. ASSUME NEW r, returns(r), r.index = op.index, r.expected = op.expected, r.cmd = entryAt(op.index),
                n_committed(op.index) # {}, Cardinality(n_committed(op.index)) >= op.expected
         PROVE  ReturnInv'
    <3>1. op' \in operation /\ pc' # "wait" /\ ret' = r
      BY <2>3, <2>14 DEF returns
    <3>2. op.index \in 1..Len(committed) /\ entryAt(op.index) = committed[op.index]
      BY <2>14, EntryIsCommitted
    <3>3. op.index <= Len(committed) /\ op.expected \in Nat
      BY <3>2 DEF ReturnInv, operation, TypesInv
    <3>4. n_committed(op.index) = {i \in all : op.index \in DOMAIN logs[i]}
      BY DEF n_committed
    <3>5. ReturnedIsCommitted'
      BY <2>1, <2>14, <3>1, <3>2, <3>3, <3>4 DEF ReturnedIsCommitted, n_committed, all
    <3>. QED  BY <2>1, <2>14, <3>1, <3>2, <3>3, <3>5 DEF ReturnInv, operation
  <2>15. ASSUME agree PROVE ReturnInv'
    BY <2>14, <2>15 DEF agree, committedBy
  <2>16. ASSUME waited PROVE ReturnInv'
    <3>1. CASE Cardinality(n_committed(op.index)) >= op.expected
      <4>1. op.expected > 0 /\ op.expected \in Nat
        BY <2>16 DEF waited, ReturnInv, operation
      <4>2. n_committed(op.index) # {}
        BY <3>1, <4>1, FS_EmptySet
      <4>3. ~(Cardinality(n_committed(op.index)) < op.expected)
        <5>1. IsFiniteSet(n_committed(op.index))
          <6>1. IsFiniteSet(0..(n - 1))
            BY FS_Interval, <2>5
          <6>. QED  BY <6>1, FS_Subset DEF n_committed, all
        <5>. QED  BY <5>1, <3>1, <4>1, FS_CardinalityType
      <4>. QED  BY <2>14, <2>16, <3>1, <4>2, <4>3 DEF waited
    <3>2. CASE ~(Cardinality(n_committed(op.index)) >= op.expected)
      <4>1. op' = noop /\ pc' # "wait" /\ ret' = nothing
        BY <2>16, <3>2 DEF waited, returns, fails
      <4>. QED  BY <2>2, <2>3, <2>4, <4>1
    <3>. QED  BY <3>1, <3>2
  <2>. QED
    BY <1>6, <2>6, <2>7, <2>8, <2>9, <2>10, <2>11, <2>12, <2>13, <2>15, <2>16 DEF ThreadNext
<1>. QED  BY <1>1, <1>2, <1>3, <1>4, <1>5, <1>6, Groups DEF RaftNext

-----------------------------------------------------------------------------
(* The whole.                                                              *)

TesterInv == TypesInv /\ SidesInv /\ LinkInv /\ AppliedInv /\ LeadersInv /\ SurveyInv /\ ReturnInv

\* Values keep their kinds.
LEMMA TypesStep ==
  ASSUME TypesInv, AppliedInv, Next
  PROVE  TypesInv'
<1>1. CASE LinkNext
  <2>1. UNCHANGED <<lab, n, committed, term, logs>> /\ all' = all
    BY <1>1, LinkFrame DEF all
  <2>2. ASSUME NEW i \in all, detach(i) \/ connect(i) \/ crash1(i) \/ start1(i)
        PROVE  gen' \in [all -> Nat] /\ side' \in [all -> 0..2] /\ up' \subseteq all /\ leads' \subseteq all
    <3>1. side' \in [all -> 0..2]
      <4>1. side' \in {[side EXCEPT ![i] = 0], [side EXCEPT ![i] = 1]}
        BY <2>2 DEF detach, connect, crash1, start1, disconnect
      <4>2. side \in [all -> 0..2]
        BY DEF TypesInv
      <4>. QED  BY <4>1, <4>2
    <3>2. gen' \in [all -> Nat]
      <4>1. gen' \in {gen, [gen EXCEPT ![i] = @ + 1]}
        BY <2>2 DEF detach, connect, crash1, start1
      <4>. QED  BY <4>1 DEF TypesInv
    <3>3. up' \subseteq all /\ leads' \subseteq all
      BY <2>2 DEF detach, connect, crash1, start1, TypesInv, raft
    <3>. QED  BY <3>1, <3>2, <3>3
  <2>3. ASSUME NEW i \in all, shutdown_server(i) \/ start_server(i)
        PROVE  gen' \in [all -> Nat] /\ side' \in [all -> 0..2] /\ up' \subseteq all /\ leads' \subseteq all
    <3>1. CASE shutdown_server(i)
      BY <3>1 DEF shutdown_server, TypesInv, raft
    <3>2. CASE start_server(i)
      BY <3>2 DEF start_server, TypesInv, raft
    <3>. QED  BY <2>3, <3>1, <3>2
  <2>4. ASSUME NEW p1, NEW p2, partition(p1, p2)
        PROVE  gen' \in [all -> Nat] /\ side' \in [all -> 0..2] /\ up' \subseteq all /\ leads' \subseteq all
    BY <2>4 DEF partition, TypesInv, raft
  <2>5. ASSUME connect_all
        PROVE  gen' \in [all -> Nat] /\ side' \in [all -> 0..2] /\ up' \subseteq all /\ leads' \subseteq all
    BY <2>5 DEF connect_all, TypesInv, raft
  <2>6. gen' \in [all -> Nat] /\ side' \in [all -> 0..2] /\ up' \subseteq all /\ leads' \subseteq all
    BY <1>1, <2>2, <2>3, <2>4, <2>5 DEF LinkNext, make_partition
  <2>. QED  BY <2>1, <2>6 DEF TypesInv
<1>2. ASSUME NEW i \in all, NEW g \in 1..gen[i], lab = "raft", apply(i, g) PROVE TypesInv'
  <2>1. UNCHANGED <<lab, n, gen, side, up, committed, term, leads>>
    BY <1>2 DEF apply, links, raft
  <2>. QED  BY <1>2, <2>1, ApplyAdds DEF TypesInv, all
<1>3. ASSUME NEW c \in Command, RaftCommit(c) PROVE TypesInv'
  BY <1>3 DEF RaftCommit, TypesInv, all, links, storage
<1>4. ASSUME NEW i \in all, NEW t \in 1..MaxTerm, NEW wins \in BOOLEAN, RaftTerm(i, t, wins) PROVE TypesInv'
  <2>1. UNCHANGED <<lab, n, gen, side, up, committed, logs>> /\ all' = all
    BY <1>4 DEF RaftTerm, links, storage, all
  <2>2. term' \in [all -> Nat] /\ leads' \subseteq all
    BY <1>4 DEF RaftTerm, TypesInv
  <2>. QED  BY <2>1, <2>2 DEF TypesInv
<1>5. CASE ThreadNext
  BY <1>5, ThreadFrame DEF TypesInv, all, links, storage
<1>. QED  BY <1>1, <1>2, <1>3, <1>4, <1>5, Groups DEF ApplyNext, RaftNext

\* Every step keeps the invariant.
LEMMA TesterStep ==
  ASSUME TesterInv, [Next]_vars
  PROVE  TesterInv'
<1>1. CASE Next
  BY <1>1, TypesStep, LinksStep, AppliedStep, LeadersStep, SurveyStep, ReturnStep DEF TesterInv
<1>2. CASE UNCHANGED vars
  <2>. USE <1>2 DEF vars, links, raft, storage, thread
  <2>1. TypesInv' /\ SidesInv' /\ LinkInv'
    BY DEF TesterInv, TypesInv, SidesInv, LinkInv, all
  <2>2. AppliedInv'
    BY DEF TesterInv, AppliedInv, all
  <2>3. LeadersInv'
    BY DEF TesterInv, LeadersInv, all, answer, claimed, nothing
  <2>4. SurveyInv'
    BY DEF TesterInv, SurveyInv, all, connected, get_state, surveys
  <2>5. ReturnInv'
    BY DEF TesterInv, ReturnInv, ReturnedIsCommitted, operation, n_committed, all
  <2>. QED  BY <2>1, <2>2, <2>3, <2>4, <2>5 DEF TesterInv
<1>. QED  BY <1>1, <1>2

\* After Config::new the invariant holds.
LEMMA TesterStart == Init => TesterInv
<1>. SUFFICES ASSUME Init PROVE TesterInv
  OBVIOUS
<1>1. n \in Nat \ {0} /\ lab \in {"raft", "kv"}
  <2>1. CASE lab = "raft"
    BY <2>1, ConstantsAssumption DEF Init
  <2>2. CASE lab = "kv"
    BY <2>2, ConstantsAssumption DEF Init
  <2>. QED  BY <2>1, <2>2 DEF Init
<1>2. TypesInv
  BY <1>1 DEF Init, TypesInv
<1>3. SidesInv
  BY DEF Init, SidesInv
<1>4. LinkInv
  <2>1. \A e : e \in enabled <=> \E i, j \in all : e = <<i, gen[i], j>>
    BY Among DEF Init
  <2>. QED  BY <2>1 DEF Init, LinkInv
<1>5. AppliedInv
  <2>1. \A i \in all : pos[i] = <<0>> /\ gen[i] = 1 /\ DOMAIN logs[i] = {} /\ Len(pos[i]) = 1
    BY DEF Init
  <2>2. pos \in [all -> Seq(Nat)]
    BY DEF Init
  <2>3. ASSUME NEW i \in all, NEW g \in 1..gen[i] PROVE 1..pos[i][g] = {}
    <3>1. g = 1
      BY <2>1
    <3>. QED  BY <2>1, <3>1
  <2>. QED  BY <2>1, <2>2, <2>3 DEF Init, AppliedInv
<1>6. LeadersInv
  <2>1. seen \in Seq(answer) /\ Len(seen) = 0 /\ leads = {}
    BY DEF Init
  <2>. QED  BY <2>1, <1>1 DEF LeadersInv
<1>7. SurveyInv
  BY DEF Init, SurveyInv
<1>8. ReturnInv
  BY DEF Init, ReturnInv, ReturnedIsCommitted, nothing, noop, operation
<1>. QED  BY <1>2, <1>3, <1>4, <1>5, <1>6, <1>7, <1>8 DEF TesterInv

\* The invariant holds always.
LEMMA TesterAlways == Spec => []TesterInv
  BY TesterStart, TesterStep, PTL DEF Spec

\* Exactly the links that the test asked for work, whatever was crashed, restarted, cut off
\* and partitioned before (config.rs of both labs: connect, disconnect, partition).
THEOREM LinksRight == Spec => []LinksAsAsked
<1>1. TesterInv => LinksAsAsked
  BY LinkForms DEF TesterInv
<1>. QED  BY <1>1, TesterAlways, PTL

\* The tester never accuses a correct Raft: neither an applier, also that of a killed
\* instance (start1), nor check_one_leader.
THEOREM NeverFalselyAlarmed == Spec => []NoFalseAlarm
<1>1. TesterInv => NoFalseAlarm
  BY DEF TesterInv, AppliedInv, NoFalseAlarm
<1>. QED  BY <1>1, TesterAlways, PTL

\* What one and wait return was committed, and stays so.
THEOREM ReturnsCommitted == Spec => []ReturnedIsCommitted
<1>1. TesterInv => ReturnedIsCommitted
  BY DEF TesterInv, ReturnInv
<1>. QED  BY <1>1, TesterAlways, PTL

\* check_one_leader returns a leader at least as new as every one that has led, connected,
\* since it asked the first server.
THEOREM ReturnsNewest == Spec => NewestLeader
<1>. DEFINE newest == ret' # ret /\ ret'.op = "leader" => \A s \in steady : term[s] <= ret'.term
<1>1. ASSUME TesterInv, Next, ret' # ret, ret'.op = "leader", NEW s \in steady PROVE term[s] <= ret'.term
  <2>1. ThreadNext
    BY <1>1, Groups, LinkFrame, RaftFrame DEF thread
  <2>2. nothing.op # "leader"
    BY DEF nothing
  <2>3. CASE check_one_leader
    <3>1. PICK c \in claims : /\ \A d \in claims : d.term <= c.term
                              /\ returns([op |-> "leader", server |-> c.server, term |-> c.term])
      BY <1>1, <2>2, <2>3 DEF check_one_leader, fails
    <3>2. ret'.term = c.term
      BY <3>1 DEF returns
    <3>3. s \in all /\ s \in leads /\ Len(seen) = n /\ n \in Nat
      BY <1>1, <2>3 DEF check_one_leader, TesterInv, SurveyInv, connected, TypesInv
    <3>4. s + 1 \in 1..Len(seen)
      BY <3>3 DEF all
    <3>5. seen[s + 1] = get_state(s)
      BY <1>1, <3>4 DEF TesterInv, SurveyInv
    <3>6. claimed(s + 1)
      <4>1. get_state(s) # nothing /\ get_state(s).leader
        BY <3>3, AnswerIsSomething DEF get_state
      <4>. QED  BY <3>4, <3>5, <4>1 DEF claimed
    <3>7. get_state(s) \in claims
      BY <1>1, <3>4, <3>5, <3>6, ClaimPlaces DEF TesterInv
    <3>. QED  BY <3>1, <3>2, <3>7 DEF get_state
  <2>4. ASSUME NEW c, NEW e, NEW retry, one(c, e, retry) PROVE FALSE
    BY <1>1, <2>2, <2>4 DEF one, goto
  <2>5. ASSUME try PROVE FALSE
    BY <1>1, <2>2, <2>5 DEF try, goto
  <2>6. ASSUME again \/ giveUp \/ agree \/ waited PROVE FALSE
    BY <1>1, <2>2, <2>6 DEF again, giveUp, agree, waited, goto, fails, returns
  <2>7. ASSUME NEW k, NEW e, NEW t, wait(k, e, t) PROVE FALSE
    BY <1>1, <2>2, <2>7 DEF wait, goto
  <2>8. ASSUME NEW check, survey(check) PROVE FALSE
    BY <1>1, <2>2, <2>8 DEF survey
  <2>9. ASSUME look PROVE FALSE
    BY <1>1, <2>9 DEF look
  <2>10. ASSUME check_terms PROVE FALSE
    BY <1>1, <2>2, <2>10 DEF check_terms, fails, returns
  <2>11. ASSUME check_no_leader PROVE FALSE
    <3>1. ret' = nothing \/ ret' = [op |-> "no leader"]
      BY <2>11 DEF check_no_leader, fails, returns
    <3>2. CASE ret' = [op |-> "no leader"]
      <4>1. ret'.op = "no leader"
        BY <3>2
      <4>2. "no leader" # "leader"
        OBVIOUS
      <4>. QED  BY <1>1, <4>1, <4>2
    <3>. QED  BY <1>1, <2>2, <3>1, <3>2
  <2>. QED  BY <2>1, <2>3, <2>4, <2>5, <2>6, <2>7, <2>8, <2>9, <2>10, <2>11 DEF ThreadNext
<1>2. TesterInv /\ [Next]_vars => [newest]_vars
  BY <1>1
<1>3. NewestLeader <=> [][newest]_vars
  BY PTL DEF NewestLeader
<1>. QED  BY <1>2, <1>3, TesterAlways, PTL DEF Spec
=============================================================================
