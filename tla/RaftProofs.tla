------------------------------ MODULE RaftProofs ------------------------------
(* Proofs about the Raft peers: every passing property of Raft.tla, for any  *)
(* number of peers, any commands and any bounds.                             *)
EXTENDS Raft, TLAPS, FiniteSetTheorems, SequenceTheorems, WellFoundedInduction

-----------------------------------------------------------------------------
(* Smallest and largest elements.                                            *)

\* A non-empty set of naturals has a least element.
LEMMA LeastNat ==
  ASSUME NEW S \in SUBSET Nat, S # {}
  PROVE  \E x \in S : \A y \in S : x =< y
<1>1. \E x \in S : \A y \in S : ~ (<<y, x>> \in OpToRel(<, Nat))
  BY Zenon, WFMin, NatLessThanWellFounded
<1>2. ASSUME NEW x \in S, NEW y \in S, ~ (<<y, x>> \in OpToRel(<, Nat))
      PROVE  x =< y
  BY <1>2 DEF OpToRel
<1> QED
  BY Zenon, <1>1, <1>2

\* Min of a non-empty set of naturals is its least element.
LEMMA MinNat ==
  ASSUME NEW S \in SUBSET Nat, S # {}
  PROVE  Min(S) \in S /\ \A y \in S : Min(S) =< y
<1>1. PICK x \in S : \A y \in S : x =< y
  BY LeastNat
<1> QED
  BY Zenon, <1>1 DEF Min

\* A non-empty set of naturals with an upper bound has a greatest element,
\* which is its Max.
LEMMA MaxNat ==
  ASSUME NEW n \in Nat, NEW S \in SUBSET (0..n), S # {}
  PROVE  Max(S) \in S /\ \A y \in S : Max(S) >= y
<1> DEFINE T == {n - y : y \in S}
<1>0. \A y \in S : y \in 0..n /\ n - y \in Nat
  OBVIOUS
<1>1. T \in SUBSET Nat /\ T # {}
  BY Zenon, <1>0
<1>2. PICK t \in T : \A u \in T : t =< u
  BY Zenon, <1>1, LeastNat
<1>3. PICK x \in S : t = n - x
  OBVIOUS
<1>4. \A y \in S : x >= y
  BY <1>2, <1>3
<1> QED
  BY Zenon, <1>3, <1>4 DEF Max

-----------------------------------------------------------------------------
(* The helpers of the handlers return what the struct can hold.              *)

\* Log[k].Term is a natural for every index of the log, the sentinel included.
LEMMA TermAtType ==
  ASSUME NEW s \in Peer, NEW k \in 0..Len(s.log)
  PROVE  termAt(s, k) \in Nat
<1>1. k # 0 => s.log[k] \in LogEntry
  BY DEF Peer
<1> QED
  BY <1>1 DEF termAt, LogEntry

\* stepDown returns a well-formed struct.
LEMMA StepDownType ==
  ASSUME NEW s \in Peer, NEW term \in Nat, NEW heard \in BOOLEAN
  PROVE  stepDown(s, term, heard) \in Peer
  BY Zenon DEF stepDown, Peer, Role, Ticker

\* The loop of ProcessAppendEntries stops within both sequences, and the terms
\* it has passed agree.
LEMMA AgreeingType ==
  ASSUME NEW s \in Peer, NEW prev \in 0..Len(s.log), NEW entries \in Seq(LogEntry)
  PROVE  LET k == agreeing(s, prev, entries) IN
         /\ k \in Nat
         /\ k <= Len(entries)
         /\ prev + k <= Len(s.log)
         /\ \A j \in 1..k : s.log[prev + j].term = entries[j].term
<1> DEFINE pair == {Len(s.log) - prev, Len(entries)}
           common == Min(pair)
           stops == {k \in 0..common :
                       k = common \/ s.log[prev + k + 1].term # entries[k + 1].term}
<1>1. Len(s.log) \in Nat /\ Len(entries) \in Nat
  BY DEF Peer
<1>2. pair \in SUBSET Nat /\ pair # {}
  BY <1>1
<1>3. common \in pair /\ \A y \in pair : common =< y
  BY Zenon, <1>2, MinNat
<1>4. common \in Nat /\ common <= Len(s.log) - prev /\ common <= Len(entries)
  BY <1>1, <1>2, <1>3
<1>5. stops \in SUBSET Nat /\ common \in stops
  BY <1>4
<1>6. PICK k \in stops : k = Min(stops) /\ \A y \in stops : k =< y
  BY Zenon, <1>5, MinNat
<1>7. agreeing(s, prev, entries) = k
  BY <1>6 DEF agreeing
<1>8. k \in 0..common
  BY <1>6
<1>9. ASSUME NEW j \in 1..k
      PROVE  s.log[prev + j].term = entries[j].term
  <2>1. j - 1 \in 0..common /\ ~(k =< j - 1) /\ j - 1 # common
    BY <1>4, <1>8
  <2>2. j - 1 \notin stops
    BY Zenon, <1>6, <2>1
  <2>3. s.log[prev + (j - 1) + 1].term = entries[(j - 1) + 1].term
    BY <2>1, <2>2
  <2> QED
    BY <2>3, <1>1
<1> HIDE DEF common
<1>10. k \in Nat /\ k <= Len(entries) /\ prev + k <= Len(s.log)
  BY <1>1, <1>4, <1>8
<1> QED
  BY <1>7, <1>9, <1>10

\* The log that ProcessAppendEntries leaves: the follower's entries up to the
\* last agreeing one, then the rest of the request's.
LEMMA AppendToLogType ==
  ASSUME NEW s \in Peer, NEW prev \in 0..Len(s.log), NEW entries \in Seq(LogEntry),
         NEW k, k = agreeing(s, prev, entries)
  PROVE  LET log == appendToLog(s, prev, entries) IN
         /\ log \in Seq(LogEntry)
         /\ Len(log) = prev + Len(entries)
         /\ \A n \in 1..Len(log) :
              log[n] = IF n <= prev + k THEN s.log[n] ELSE entries[n - prev]
<1> DEFINE kept == SubSeq(s.log, 1, prev + k)
           rest == SubSeq(entries, k + 1, Len(entries))
<1>1. /\ s.log \in Seq(LogEntry)
      /\ Len(s.log) \in Nat /\ Len(entries) \in Nat
      /\ k \in Nat /\ k <= Len(entries) /\ prev + k <= Len(s.log)
  <2>1. s.log \in Seq(LogEntry) /\ Len(s.log) \in Nat /\ Len(entries) \in Nat
    BY DEF Peer
  <2> QED
    BY <2>1, AgreeingType
<1>2. /\ kept \in Seq(LogEntry) /\ Len(kept) = prev + k
      /\ \A n \in 1..(prev + k) : kept[n] = s.log[n]
  <2>1. \A n \in 1..(prev + k) : s.log[n] \in LogEntry
    BY <1>1
  <2>2. /\ kept \in Seq(LogEntry)
        /\ Len(kept) = IF 1 <= prev + k THEN (prev + k) - 1 + 1 ELSE 0
        /\ \A n \in 1..((prev + k) - 1 + 1) : kept[n] = s.log[1 + n - 1]
    BY <2>1, <1>1, SubSeqProperties
  <2> QED
    BY <2>2, <1>1
<1>3. /\ rest \in Seq(LogEntry) /\ Len(rest) = Len(entries) - k
      /\ \A n \in 1..(Len(entries) - k) : rest[n] = entries[k + n]
  <2>1. \A n \in (k + 1)..Len(entries) : entries[n] \in LogEntry
    BY <1>1
  <2>2. /\ rest \in Seq(LogEntry)
        /\ Len(rest) = IF k + 1 <= Len(entries) THEN Len(entries) - (k + 1) + 1 ELSE 0
        /\ \A n \in 1..(Len(entries) - (k + 1) + 1) : rest[n] = entries[(k + 1) + n - 1]
    BY <2>1, <1>1, SubSeqProperties
  <2> QED
    BY <2>2, <1>1
<1>4. /\ kept \o rest \in Seq(LogEntry)
      /\ Len(kept \o rest) = prev + Len(entries)
      /\ \A n \in 1..(prev + Len(entries)) :
           (kept \o rest)[n] = IF n <= prev + k THEN kept[n] ELSE rest[n - (prev + k)]
  <2> HIDE DEF kept, rest
  <2>1. /\ kept \o rest \in Seq(LogEntry)
        /\ Len(kept \o rest) = Len(kept) + Len(rest)
        /\ \A n \in 1..(Len(kept) + Len(rest)) :
             (kept \o rest)[n] = IF n <= Len(kept) THEN kept[n] ELSE rest[n - Len(kept)]
    BY Zenon, <1>2, <1>3, ConcatProperties
  <2>2. Len(kept) = prev + k /\ Len(kept) + Len(rest) = prev + Len(entries)
    BY <1>1, <1>2, <1>3
  <2> QED
    BY <2>1, <2>2
<1>5. appendToLog(s, prev, entries) = kept \o rest
  BY DEF appendToLog
<1>6. ASSUME NEW n \in 1..(prev + Len(entries))
      PROVE  (kept \o rest)[n] = IF n <= prev + k THEN s.log[n] ELSE entries[n - prev]
  <2> HIDE DEF kept, rest
  <2>1. CASE n <= prev + k
    BY <2>1, <1>1, <1>2, <1>4
  <2>2. CASE ~(n <= prev + k)
    <3>1. n - (prev + k) \in 1..(Len(entries) - k) /\ k + (n - (prev + k)) = n - prev
      BY <2>2, <1>1
    <3> QED
      BY <2>2, <3>1, <1>3, <1>4
  <2> QED
    BY Zenon, <2>1, <2>2
<1> QED
  BY <1>4, <1>5, <1>6

\* followerCommit returns a well-formed struct.
LEMMA FollowerCommitType ==
  ASSUME NEW s \in Peer, NEW commit \in Nat
  PROVE  followerCommit(s, commit) \in Peer
<1>1. getLastLogIndex(s) \in Nat
  BY DEF Peer, getLastLogIndex
<1>2. Min({commit, getLastLogIndex(s)}) \in Nat
  BY <1>1, MinNat
<1> HIDE DEF getLastLogIndex
<1> QED
  BY Zenon, <1>2 DEF followerCommit, Peer

\* ConflictIndex of a conflicting entry is an index.
LEMMA FirstOfTermType ==
  ASSUME NEW s \in Peer, NEW k \in 0..Len(s.log)
  PROVE  firstOfTerm(s, k) \in Nat
<1> DEFINE run == {q \in 0..k : \A r \in q..k : termAt(s, r) = termAt(s, k)}
<1>1. Len(s.log) \in Nat
  BY DEF Peer
<1>2. run \in SUBSET Nat /\ k \in run
  BY <1>1
<1> QED
  BY Zenon, <1>2, MinNat DEF firstOfTerm

\* A reply in the leader's term moves NextIndex and MatchIndex and no other
\* field, and leaves NextIndex positive: a rejection in that term carries the
\* ConflictIndex of a short log.
LEMMA TrackPeerType ==
  ASSUME NEW s \in Peer, NEW j \in Server, NEW m \in AppendEntryReply,
         ~m.success => m.conflictIndex >= 1 /\ m.conflictTerm = -1,
         \A x \in Server : s.nextIndex[x] >= 1
  PROVE  LET t == trackPeer(s, j, m) IN
         /\ t \in Peer
         /\ \A x \in Server : t.nextIndex[x] >= 1
<1>1. /\ s.nextIndex \in [Server -> Nat] /\ s.matchIndex \in [Server -> Nat]
      /\ m.success \in BOOLEAN /\ m.matched \in Nat
  BY DEF Peer, AppendEntryReply
<1>2. CASE m.success
  <2> DEFINE match == Max({m.matched, s.matchIndex[j]})
  <2>1. match \in Nat
    <3>1. {m.matched, s.matchIndex[j]} \in SUBSET (0..(m.matched + s.matchIndex[j]))
      BY <1>1
    <3>2. m.matched + s.matchIndex[j] \in Nat
      BY <1>1
    <3> QED
      BY Zenon, <1>1, <3>1, <3>2, MaxNat
  <2> HIDE DEF match
  <2>2. trackPeer(s, j, m) =
          [s EXCEPT !.matchIndex[j] = match, !.nextIndex[j] = match + 1]
    BY <1>2 DEF trackPeer, match
  <2>3. /\ [s.nextIndex EXCEPT ![j] = match + 1] \in [Server -> Nat]
        /\ [s.matchIndex EXCEPT ![j] = match] \in [Server -> Nat]
        /\ \A x \in Server : [s.nextIndex EXCEPT ![j] = match + 1][x] >= 1
    BY <1>1, <2>1
  <2>4. trackPeer(s, j, m) =
          [s EXCEPT !.nextIndex = [s.nextIndex EXCEPT ![j] = match + 1],
                    !.matchIndex = [s.matchIndex EXCEPT ![j] = match]]
    BY Zenon, <2>2 DEF Peer
  <2> QED
    BY Zenon, <2>3, <2>4 DEF Peer
<1>3. CASE ~m.success
  <2> DEFINE next == m.conflictIndex
  <2>1. next \in Nat /\ next >= 1 /\ m.conflictTerm < 0
    BY <1>3 DEF AppendEntryReply
  <2>2. trackPeer(s, j, m) =
          [s EXCEPT !.nextIndex[j] = next, !.matchIndex[j] = next - 1]
    BY <1>3, <2>1 DEF trackPeer
  <2>3. /\ [s.nextIndex EXCEPT ![j] = next] \in [Server -> Nat]
        /\ [s.matchIndex EXCEPT ![j] = next - 1] \in [Server -> Nat]
        /\ \A x \in Server : [s.nextIndex EXCEPT ![j] = next][x] >= 1
    BY <1>1, <2>1
  <2>4. trackPeer(s, j, m) =
          [s EXCEPT !.nextIndex = [s.nextIndex EXCEPT ![j] = next],
                    !.matchIndex = [s.matchIndex EXCEPT ![j] = next - 1]]
    BY <2>2 DEF Peer
  <2> QED
    BY Zenon, <2>3, <2>4 DEF Peer
<1> QED
  BY <1>1, <1>2, <1>3

\* The commit loop moves CommitIndex, starts applyLogs and changes nothing
\* else.
LEMMA LeaderCommitType ==
  ASSUME NEW i \in Server, NEW s \in Peer
  PROVE  LET t == leaderCommit(i, s) IN
         /\ t \in Peer
         /\ \E n \in Nat, b \in BOOLEAN :
              t = [s EXCEPT !.commitIndex = n, !.applying = b]
<1> DEFINE held == {n \in s.commitIndex..getLastLogIndex(s) :
                      replicas(i, s, n) > Cardinality(Server) \div 2}
<1>1. getLastLogIndex(s) \in Nat /\ s.commitIndex \in Nat /\ s.applying \in BOOLEAN
  BY DEF Peer, getLastLogIndex
<1>2. CASE held = {}
  <2>1. leaderCommit(i, s) = s
    BY <1>2 DEF leaderCommit
  <2>2. s = [s EXCEPT !.commitIndex = s.commitIndex, !.applying = s.applying]
    BY Zenon DEF Peer
  <2>3. \E n \in Nat, b \in BOOLEAN : s = [s EXCEPT !.commitIndex = n, !.applying = b]
    BY Zenon, <1>1, <2>2
  <2> QED
    BY Zenon, <2>1, <2>3
<1>3. CASE held # {}
  <2>1. held \in SUBSET (0..getLastLogIndex(s))
    BY <1>1
  <2>2. Max(held) \in Nat
    <3> HIDE DEF held
    <3>1. PICK n \in held : n = Max(held)
      BY Zenon, <1>1, <1>3, <2>1, MaxNat
    <3>2. n \in 0..getLastLogIndex(s)
      BY <2>1
    <3> QED
      BY <1>1, <3>1, <3>2
  <2>3. leaderCommit(i, s) = [s EXCEPT !.commitIndex = Max(held), !.applying = TRUE]
    BY <1>3 DEF leaderCommit
  <2> HIDE DEF held
  <2> QED
    BY Zenon, <2>2, <2>3 DEF Peer
<1> QED
  BY Zenon, <1>2, <1>3

\* m is a request of leader i with the entries of s from NextIndex[j] on.
suffixRequest(m, i, s, j) ==
  LET prev == s.nextIndex[j] - 1 IN
  /\ m \in AppendEntries
  /\ m.type = "AppendEntries" /\ m.term = s.term /\ m.from = i /\ m.to = j
  /\ m.prevLogIndex = prev /\ m.prevLogTerm = termAt(s, prev)
  /\ prev \in 0..Len(s.log)
  /\ Len(m.entries) = Len(s.log) - prev
  /\ \A n \in 1..Len(m.entries) : m.entries[n] = s.log[prev + n]

\* A request to j carries a well-formed suffix of the leader's log.
LEMMA AppendEntriesForType ==
  ASSUME NEW i \in Server, NEW j \in Server, NEW s \in Peer,
         freeCalls(i, j, s.term) # {},
         s.nextIndex[j] >= 1, s.nextIndex[j] - 1 <= getLastLogIndex(s)
  PROVE  suffixRequest(appendEntriesFor(i, s, j), i, s, j)
<1> DEFINE prev == s.nextIndex[j] - 1
           entries == SubSeq(s.log, prev + 1, Len(s.log))
<1>1. /\ s.log \in Seq(LogEntry) /\ Len(s.log) \in Nat
      /\ prev \in 0..Len(s.log) /\ s.commitIndex \in Nat /\ s.term \in Nat
  BY DEF Peer, getLastLogIndex
<1>2. Min(freeCalls(i, j, s.term)) \in Nat
  BY ConstantsAssumption, MinNat DEF freeCalls
<1>3. termAt(s, prev) \in Nat
  BY <1>1, TermAtType
<1> HIDE DEF prev
<1>4. /\ entries \in Seq(LogEntry)
      /\ Len(entries) = Len(s.log) - prev
      /\ \A n \in 1..(Len(s.log) - prev) : entries[n] = s.log[prev + n]
  <2>1. \A n \in (prev + 1)..Len(s.log) : s.log[n] \in LogEntry
    BY <1>1
  <2>2. /\ entries \in Seq(LogEntry)
        /\ Len(entries) = IF prev + 1 <= Len(s.log) THEN Len(s.log) - (prev + 1) + 1 ELSE 0
        /\ \A n \in 1..(Len(s.log) - (prev + 1) + 1) : entries[n] = s.log[(prev + 1) + n - 1]
    BY <2>1, <1>1, SubSeqProperties
  <2> QED
    BY <2>2, <1>1
<1>5. appendEntriesFor(i, s, j) =
        [type |-> "AppendEntries", call |-> Min(freeCalls(i, j, s.term)),
         term |-> s.term, from |-> i, to |-> j, prevLogIndex |-> prev,
         prevLogTerm |-> termAt(s, prev), entries |-> entries,
         leaderCommit |-> s.commitIndex]
  BY DEF appendEntriesFor, prev
<1> HIDE DEF entries
<1> QED
  BY <1>1, <1>2, <1>3, <1>4, <1>5 DEF suffixRequest, AppendEntries, prev

\* The type field tells the four kinds of message apart.
LEMMA MessageKinds ==
  ASSUME NEW m \in Message
  PROVE  /\ m.type = "RequestVote" <=> m \in RequestVoteArgs
         /\ m.type = "RequestVoteReply" <=> m \in RequestVoteReply
         /\ m.type = "AppendEntries" <=> m \in AppendEntries
         /\ m.type = "AppendEntryReply" <=> m \in AppendEntryReply
  BY DEF Message, RequestVoteArgs, RequestVoteReply, AppendEntries, AppendEntryReply

\* persist changes the struct and the Persister of one peer.
LEMMA PersistType ==
  ASSUME TypeOK, NEW i \in Server, NEW t \in Peer, persist(i, t)
  PROVE  /\ rf' \in [Server -> Peer]
         /\ disk' \in [Server -> Persistent]
         /\ rf'[i] = t /\ disk'[i] = encoded(t)
         /\ \A j \in Server \ {i} : rf'[j] = rf[j] /\ disk'[j] = disk[j]
<1>1. encoded(t) \in Persistent
  BY DEF encoded, Peer, Persistent
<1>2. rf \in [Server -> Peer] /\ disk \in [Server -> Persistent]
  BY DEF TypeOK
<1> QED
  BY <1>1, <1>2 DEF persist

\* SendHeartBeats leaves every other struct alone; what it adds to the network
\* is requests of this leader.
LEMMA SendHeartBeatsType ==
  ASSUME TypeOK, NEW i \in Server, NEW t \in Peer,
         \A j \in Server : t.nextIndex[j] >= 1,
         SendHeartBeats(i, t)
  PROVE  /\ rf' \in [Server -> Peer]
         /\ rf'[i] \in {t, [t EXCEPT !.alive = FALSE]}
         /\ \A j \in Server \ {i} : rf'[j] = rf[j]
         /\ msgs \subseteq msgs'
         /\ \A m \in msgs' \ msgs :
              \E j \in Server \ {i} :
                /\ m = appendEntriesFor(i, t, j)
                /\ freeCalls(i, j, t.term) # {}
                /\ t.nextIndex[j] - 1 <= getLastLogIndex(t)
         /\ msgs' \subseteq Message
         /\ \A m \in msgs' \ msgs : m.type = "AppendEntries"
<1>1. rf \in [Server -> Peer] /\ msgs \subseteq Message
  BY DEF TypeOK
<1>2. CASE \A j \in Server \ {i} : t.nextIndex[j] - 1 <= getLastLogIndex(t)
  <2> DEFINE sent == {appendEntriesFor(i, t, j) :
                        j \in {k \in Server \ {i} : freeCalls(i, k, t.term) # {}}}
  <2>1. rf' = [rf EXCEPT ![i] = t] /\ msgs' = msgs \cup sent
    BY <1>2 DEF SendHeartBeats
  <2>2. ASSUME NEW m \in sent
        PROVE  /\ m \in AppendEntries /\ m.type = "AppendEntries"
               /\ \E j \in Server \ {i} :
                    /\ m = appendEntriesFor(i, t, j)
                    /\ freeCalls(i, j, t.term) # {}
                    /\ t.nextIndex[j] - 1 <= getLastLogIndex(t)
    <3>1. PICK j \in Server \ {i} :
            m = appendEntriesFor(i, t, j) /\ freeCalls(i, j, t.term) # {}
      OBVIOUS
    <3>2. j \in Server /\ t.nextIndex[j] >= 1 /\ t.nextIndex[j] - 1 <= getLastLogIndex(t)
      BY <1>2
    <3>3. appendEntriesFor(i, t, j) \in AppendEntries
      BY Zenon, <3>1, <3>2, AppendEntriesForType DEF suffixRequest
    <3> QED
      BY <3>1, <3>2, <3>3 DEF AppendEntries
  <2> HIDE DEF sent
  <2> QED
    BY <1>1, <2>1, <2>2 DEF Message
<1>3. CASE ~ \A j \in Server \ {i} : t.nextIndex[j] - 1 <= getLastLogIndex(t)
  <2>1. rf' = [rf EXCEPT ![i] = [t EXCEPT !.alive = FALSE]] /\ msgs' = msgs
    BY <1>3 DEF SendHeartBeats
  <2>2. [t EXCEPT !.alive = FALSE] \in Peer
    BY Zenon DEF Peer
  <2> QED
    BY <1>1, <2>1, <2>2
<1> QED
  BY <1>2, <1>3

-----------------------------------------------------------------------------
(* What the four message handlers do to the struct of their peer.            *)

\* The struct after a handler has compared the request's term with its own.
hears(s, term, t) ==
  IF term > s.term THEN \E heard \in BOOLEAN : t = stepDown(s, term, heard)
                   ELSE t = s

\* Only the term, the vote, the role and the ticker differ after hears.
LEMMA HearsType ==
  ASSUME NEW s \in Peer, NEW term \in Nat, NEW t, hears(s, term, t)
  PROVE  /\ t \in Peer
         /\ t.term >= s.term /\ t.term >= term
         /\ t.log = s.log /\ t.lastApplied = s.lastApplied
         /\ \/ term > s.term /\ t.role = "FOLLOWER" /\ t.votedFor = VotedNULL /\ t.term = term
            \/ term <= s.term /\ t = s
<1>1. s.term \in Nat
  BY DEF Peer
<1>2. CASE term > s.term
  <2>1. PICK heard \in BOOLEAN : t = stepDown(s, term, heard)
    BY <1>2 DEF hears
  <2>2. /\ t.term = term /\ t.role = "FOLLOWER" /\ t.votedFor = VotedNULL
        /\ t.log = s.log /\ t.lastApplied = s.lastApplied
    BY <2>1 DEF stepDown, Peer
  <2> QED
    BY <1>1, <1>2, <2>1, <2>2, StepDownType
<1>3. CASE ~(term > s.term)
  BY <1>1, <1>3 DEF hears
<1> QED
  BY <1>2, <1>3

\* RequestVote answers with the peer's term, and grants only in the request's
\* term and to a peer with no other vote.
LEMMA RequestVoteEffect ==
  ASSUME TypeOK, NEW m \in msgs, RequestVote(m)
  PROVE  /\ m \in RequestVoteArgs
         /\ UNCHANGED <<delivered, restarts>>
         /\ \E t \in Peer, granted \in BOOLEAN :
              /\ hears(rf[m.to], m.term, t)
              /\ granted => m.term >= rf[m.to].term /\ t.votedFor \in {VotedNULL, m.from}
              /\ persist(m.to, IF granted THEN [t EXCEPT !.votedFor = m.from] ELSE t)
              /\ msgs' = (msgs \ {m}) \cup
                   {[type |-> "RequestVoteReply", args |-> m.term,
                     from |-> m.to, to |-> m.from,
                     term |-> t.term, voteGranted |-> granted]}
              /\ votes' = votes \cup
                   (IF granted THEN {[voter |-> m.to, candidate |-> m.from,
                                      term |-> t.term]} ELSE {})
<1> DEFINE i == m.to
           s == rf[i]
           stepped(heard) == IF m.term > s.term THEN stepDown(s, m.term, heard) ELSE s
           granted(t) == /\ m.term >= s.term
                         /\ t.votedFor \in {VotedNULL, m.from}
                         /\ IsLogUpdated(t, m.lastLogIndex, m.lastLogTerm)
<1>1. m \in RequestVoteArgs /\ m.term \in Nat /\ s \in Peer
  <2>1. m \in RequestVoteArgs
    BY MessageKinds DEF RequestVote, TypeOK
  <2> QED
    BY <2>1 DEF RequestVoteArgs, TypeOK
<1>2. PICK heard \in BOOLEAN :
        LET t == stepped(heard) IN
        /\ persist(i, IF granted(t) THEN [t EXCEPT !.votedFor = m.from] ELSE t)
        /\ msgs' = (msgs \ {m}) \cup
             {[type |-> "RequestVoteReply", args |-> m.term, from |-> i, to |-> m.from,
               term |-> t.term, voteGranted |-> granted(t)]}
        /\ votes' = votes \cup
             (IF granted(t) THEN {[voter |-> i, candidate |-> m.from,
                                   term |-> t.term]} ELSE {})
  BY Zenon DEF RequestVote
<1> DEFINE t == stepped(heard)
<1>3. hears(s, m.term, t)
  BY DEF hears
<1>4. t \in Peer /\ granted(t) \in BOOLEAN
  BY <1>1, <1>3, HearsType
<1>5. granted(t) => m.term >= s.term /\ t.votedFor \in {VotedNULL, m.from}
  OBVIOUS
<1> HIDE DEF stepped, granted, t
<1>6. UNCHANGED <<delivered, restarts>>
  BY DEF RequestVote
<1> QED
  BY <1>1, <1>2, <1>3, <1>4, <1>5, <1>6 DEF t

\* sendRequestVote ignores the reply, forgets the vote, or counts one more.
LEMMA SendRequestVoteEffect ==
  ASSUME TypeOK, NEW m \in msgs, sendRequestVote(m)
  PROVE  LET i == m.to
             s == rf[i] IN
         /\ m \in RequestVoteReply
         /\ msgs' = msgs \ {m} /\ UNCHANGED <<votes, delivered, restarts>>
         /\ \/ UNCHANGED <<rf, disk>>
            \/ /\ s.role = "CANDIDATE"
               /\ \E heard \in BOOLEAN : persist(i, stepDown(s, s.term, heard))
            \/ /\ s.role = "CANDIDATE" /\ m.args = s.term /\ m.term = s.term
               /\ m.voteGranted
               /\ UNCHANGED disk
               /\ \E tick \in Ticker :
                    /\ rf' = [rf EXCEPT ![i] = [s EXCEPT !.voteCount = s.voteCount + 1,
                                                         !.ticker = tick]]
                    /\ \/ tick = s.ticker
                       \/ tick = "WON" /\ s.voteCount + 1 = Cardinality(Server) \div 2 + 1
<1> DEFINE i == m.to
           s == rf[i]
<1>1. rf \in [Server -> Peer] /\ msgs \subseteq Message
  BY DEF TypeOK
<1>2. m \in RequestVoteReply
  BY <1>1, MessageKinds DEF sendRequestVote
<1>3. i \in Server /\ s \in Peer
  BY <1>1, <1>2 DEF RequestVoteReply
<1>4. ASSUME NEW heard \in BOOLEAN,
             rf' = [rf EXCEPT
               ![i].voteCount = @ + 1,
               ![i].ticker =
                 IF /\ heard /\ @ = "CANDIDATE"
                    /\ s.voteCount + 1 = Cardinality(Server) \div 2 + 1
                   THEN "WON" ELSE @]
      PROVE  \E tick \in Ticker :
               /\ rf' = [rf EXCEPT ![i] = [s EXCEPT !.voteCount = s.voteCount + 1,
                                                    !.ticker = tick]]
               /\ \/ tick = s.ticker
                  \/ tick = "WON" /\ s.voteCount + 1 = Cardinality(Server) \div 2 + 1
  <2> DEFINE tick == IF /\ heard /\ s.ticker = "CANDIDATE"
                        /\ s.voteCount + 1 = Cardinality(Server) \div 2 + 1
                       THEN "WON" ELSE s.ticker
  <2>1. tick \in Ticker
    BY <1>3 DEF Peer, Ticker
  <2>2. rf' = [rf EXCEPT ![i] = [s EXCEPT !.voteCount = s.voteCount + 1,
                                          !.ticker = tick]]
    BY Zenon, <1>1, <1>3, <1>4 DEF Peer
  <2>3. \/ tick = s.ticker
        \/ tick = "WON" /\ s.voteCount + 1 = Cardinality(Server) \div 2 + 1
    OBVIOUS
  <2> HIDE DEF tick
  <2> QED
    BY Zenon, <2>1, <2>2, <2>3
<1>5. msgs' = msgs \ {m} /\ UNCHANGED <<votes, delivered, restarts>>
  BY DEF sendRequestVote
<1> QED
  BY Zenon, <1>2, <1>4, <1>5 DEF sendRequestVote

\* The reply of ProcessAppendEntries to request m.
replyTo(m, t, success, cIndex, cTerm) ==
  [type |-> "AppendEntryReply", call |-> m.call, args |-> m.term,
   matched |-> m.prevLogIndex + Len(m.entries), from |-> m.to, to |-> m.from,
   term |-> t.term, success |-> success,
   conflictIndex |-> cIndex, conflictTerm |-> cTerm]

\* The struct after ProcessAppendEntries has appended in the request's term.
appends(t, m, u) ==
  /\ t.term = m.term
  /\ m.prevLogIndex \in 0..Len(t.log)
  /\ termAt(t, m.prevLogIndex) = m.prevLogTerm
  /\ \E n \in Nat, b \in BOOLEAN :
       u = [t EXCEPT !.log = appendToLog(t, m.prevLogIndex, m.entries),
                     !.commitIndex = n, !.applying = b]

\* ProcessAppendEntries answers with a term that is at least the request's,
\* and refuses in that term only for a log that is too short.
LEMMA ProcessAppendEntriesEffect ==
  ASSUME TypeOK, NEW m \in msgs, ProcessAppendEntries(m)
  PROVE  /\ m \in AppendEntries
         /\ UNCHANGED <<votes, delivered, restarts>>
         /\ \E t \in Peer, u \in Peer, success \in BOOLEAN,
               cIndex \in Nat \cup {-1}, cTerm \in Nat \cup {-1} :
              /\ hears(rf[m.to], m.term, t)
              /\ u = t \/ appends(t, m, u)
              /\ u.term = m.term /\ ~success => cIndex >= 1 /\ cTerm = -1
              /\ persist(m.to, u)
              /\ msgs' = (msgs \ {m}) \cup {replyTo(m, u, success, cIndex, cTerm)}
<1> DEFINE i == m.to
           s == rf[i]
           prev == m.prevLogIndex
           done(t, u, success, cIndex, cTerm) ==
             /\ hears(s, m.term, t)
             /\ u = t \/ appends(t, m, u)
             /\ u.term = m.term /\ ~success => cIndex >= 1 /\ cTerm = -1
             /\ persist(i, u)
             /\ msgs' = (msgs \ {m}) \cup {replyTo(m, u, success, cIndex, cTerm)}
<1>0. m \in AppendEntries /\ UNCHANGED <<votes, delivered, restarts>>
  BY Zenon, MessageKinds DEF ProcessAppendEntries, TypeOK
<1>1. /\ m.term \in Nat /\ prev \in Nat /\ m.entries \in Seq(LogEntry)
      /\ m.leaderCommit \in Nat /\ s \in Peer /\ s.term \in Nat
  <2>1. s \in Peer
    BY <1>0 DEF AppendEntries, TypeOK
  <2> QED
    BY <1>0, <2>1 DEF AppendEntries, Peer
<1> SUFFICES \E t \in Peer, u \in Peer, success \in BOOLEAN,
                cIndex \in Nat \cup {-1}, cTerm \in Nat \cup {-1} :
               done(t, u, success, cIndex, cTerm)
  BY <1>0
<1>2. CASE m.term < s.term
  <2>1. ~(m.term > s.term) /\ ~(m.term >= s.term) /\ s.term # m.term
    BY <1>1, <1>2
  <2>2. /\ persist(i, s)
        /\ msgs' = (msgs \ {m}) \cup {replyTo(m, s, FALSE, -1, -1)}
    BY <1>2, <2>1 DEF ProcessAppendEntries, replyTo
  <2>3. done(s, s, FALSE, -1, -1)
    BY <2>1, <2>2 DEF hears
  <2> HIDE DEF done
  <2> QED
    BY Zenon, <1>1, <2>3
<1>3. CASE ~(m.term < s.term)
  <2> DEFINE stepped(heard) == IF m.term > s.term THEN stepDown(s, m.term, heard) ELSE s
             new(t) == [t EXCEPT !.log = appendToLog(t, prev, m.entries)]
  <2>1. PICK heard \in BOOLEAN :
          LET t == stepped(heard) IN
          \/ /\ prev > getLastLogIndex(t)
             /\ persist(i, t)
             /\ msgs' = (msgs \ {m}) \cup {replyTo(m, t, FALSE, getLastLogIndex(t) + 1, -1)}
          \/ /\ prev <= getLastLogIndex(t)
             /\ persist(i, t)
             /\ msgs' = (msgs \ {m}) \cup
                          {replyTo(m, t, TRUE, firstOfTerm(t, prev), termAt(t, prev))}
          \/ /\ prev <= getLastLogIndex(t)
             /\ termAt(t, prev) = m.prevLogTerm
             /\ persist(i, followerCommit(new(t), m.leaderCommit))
             /\ msgs' = (msgs \ {m}) \cup
                          {replyTo(m, followerCommit(new(t), m.leaderCommit), TRUE, -1, -1)}
    BY Zenon, <1>3 DEF ProcessAppendEntries, replyTo
  <2> DEFINE t == stepped(heard)
  <2>2. hears(s, m.term, t)
    BY DEF hears
  <2> HIDE DEF stepped, t
  <2>3. t \in Peer /\ t.term = m.term /\ getLastLogIndex(t) \in Nat
    <3>1. t \in Peer /\ t.term = m.term
      BY <1>1, <1>3, <2>2, HearsType
    <3> QED
      BY <3>1 DEF Peer, getLastLogIndex
  <2>4. CASE /\ prev > getLastLogIndex(t)
             /\ persist(i, t)
             /\ msgs' = (msgs \ {m}) \cup {replyTo(m, t, FALSE, getLastLogIndex(t) + 1, -1)}
    <3>1. getLastLogIndex(t) + 1 \in Nat /\ getLastLogIndex(t) + 1 >= 1
      BY <2>3
    <3>2. done(t, t, FALSE, getLastLogIndex(t) + 1, -1)
      BY <2>2, <2>4, <3>1
    <3> HIDE DEF done
    <3> QED
      BY Zenon, <2>3, <3>1, <3>2
  <2>5. CASE /\ prev <= getLastLogIndex(t)
             /\ persist(i, t)
             /\ msgs' = (msgs \ {m}) \cup
                          {replyTo(m, t, TRUE, firstOfTerm(t, prev), termAt(t, prev))}
    <3>1. prev \in 0..Len(t.log)
      BY <1>1, <2>3, <2>5 DEF getLastLogIndex
    <3>2. firstOfTerm(t, prev) \in Nat /\ termAt(t, prev) \in Nat
      BY <2>3, <3>1, FirstOfTermType, TermAtType
    <3>3. done(t, t, TRUE, firstOfTerm(t, prev), termAt(t, prev))
      BY <2>2, <2>5
    <3> HIDE DEF done
    <3> QED
      BY Zenon, <2>3, <3>2, <3>3
  <2>6. CASE /\ prev <= getLastLogIndex(t)
             /\ termAt(t, prev) = m.prevLogTerm
             /\ persist(i, followerCommit(new(t), m.leaderCommit))
             /\ msgs' = (msgs \ {m}) \cup
                          {replyTo(m, followerCommit(new(t), m.leaderCommit), TRUE, -1, -1)}
    <3> DEFINE u == followerCommit(new(t), m.leaderCommit)
    <3>1. prev \in 0..Len(t.log)
      BY <1>1, <2>3, <2>6 DEF getLastLogIndex
    <3>2. appendToLog(t, prev, m.entries) \in Seq(LogEntry)
      BY <1>1, <2>3, <3>1, AppendToLogType
    <3>3. new(t) \in Peer /\ new(t).commitIndex \in Nat /\ new(t).applying \in BOOLEAN
      BY Zenon, <2>3, <3>2 DEF Peer
    <3>4. u \in Peer /\ u.commitIndex \in Nat /\ u.applying \in BOOLEAN
      BY Zenon, <1>1, <3>3, FollowerCommitType DEF Peer
    <3>5. u = [t EXCEPT !.log = appendToLog(t, prev, m.entries),
                        !.commitIndex = u.commitIndex, !.applying = u.applying]
      BY Zenon, <2>3, <3>2 DEF followerCommit, Peer
    <3> HIDE DEF u
    <3>6. appends(t, m, u)
      BY Zenon, <2>3, <2>6, <3>1, <3>4, <3>5 DEF appends
    <3>7. done(t, u, TRUE, -1, -1)
      BY <2>2, <2>6, <3>6 DEF u
    <3> HIDE DEF done
    <3> QED
      BY Zenon, <2>3, <3>4, <3>7
  <2> QED
    BY Zenon, <2>1, <2>4, <2>5, <2>6 DEF t
<1> QED
  BY <1>2, <1>3

\* Appending changes the log, CommitIndex and nothing an election is about.
LEMMA AppendsType ==
  ASSUME NEW t \in Peer, NEW m \in AppendEntries, NEW u, appends(t, m, u)
  PROVE  /\ u.log = appendToLog(t, m.prevLogIndex, m.entries)
         /\ u.term = t.term /\ u.votedFor = t.votedFor /\ u.role = t.role
         /\ u.voteCount = t.voteCount /\ u.ticker = t.ticker
         /\ u.nextIndex = t.nextIndex /\ u.lastApplied = t.lastApplied
  BY DEF appends, Peer

\* sendAppendEntries ignores the reply, forgets the vote, or moves the
\* leader's indexes.
LEMMA SendAppendEntriesEffect ==
  ASSUME TypeInv, NEW m \in msgs, sendAppendEntries(m)
  PROVE  LET s == rf[m.to] IN
         /\ m \in AppendEntryReply
         /\ msgs' = msgs \ {m} /\ UNCHANGED <<votes, delivered, restarts>>
         /\ \E t \in Peer :
              /\ persist(m.to, t)
              /\ \/ t = s
                 \/ /\ s.role = "LEADER"
                    /\ \E heard \in BOOLEAN : t = stepDown(s, s.term, heard)
                 \/ /\ s.role = "LEADER"
                    /\ \A x \in Server : t.nextIndex[x] >= 1
                    /\ t.term = s.term /\ t.votedFor = s.votedFor /\ t.log = s.log
                    /\ t.role = s.role /\ t.voteCount = s.voteCount
                    /\ t.ticker = s.ticker /\ t.lastApplied = s.lastApplied
<1> DEFINE i == m.to
           s == rf[i]
<1>1. /\ TypeOK /\ rf \in [Server -> Peer] /\ msgs \subseteq Message
  BY DEF TypeInv, TypeOK
<1>2. m \in AppendEntryReply
  BY <1>1, MessageKinds DEF sendAppendEntries
<1>3. i \in Server /\ m.from \in Server /\ s \in Peer /\ s.term \in Nat
  <2>1. i \in Server /\ m.from \in Server
    BY <1>2 DEF AppendEntryReply
  <2>2. s \in Peer
    BY <1>1, <2>1
  <2> QED
    BY Zenon, <2>1, <2>2 DEF Peer
<1>4. msgs' = msgs \ {m} /\ UNCHANGED <<votes, delivered, restarts>>
  BY DEF sendAppendEntries
<1>5. CASE persist(i, s)
  BY <1>2, <1>3, <1>4, <1>5
<1>6. CASE /\ s.role = "LEADER" /\ m.args = s.term
           /\ \E heard \in BOOLEAN : persist(i, stepDown(s, m.args, heard))
  BY <1>2, <1>3, <1>4, <1>6, StepDownType
<1>7. CASE /\ s.role = "LEADER" /\ m.args = s.term /\ m.term = s.term
           /\ persist(i, leaderCommit(i, trackPeer(s, m.from, m)))
  <2> DEFINE t == trackPeer(s, m.from, m)
             u == leaderCommit(i, t)
  <2>1. ~m.success => m.conflictIndex >= 1 /\ m.conflictTerm = -1
    BY <1>7 DEF TypeInv, RepliesTellTerm, sendAppendEntries
  <2>2. \A x \in Server : s.nextIndex[x] >= 1
    BY <1>3, <1>7 DEF TypeInv, NextIndexPositive
  <2>3. /\ t \in Peer /\ \A x \in Server : t.nextIndex[x] >= 1
    BY <1>2, <1>3, <2>1, <2>2, TrackPeerType
  <2>5. /\ t.term = s.term /\ t.votedFor = s.votedFor /\ t.log = s.log
        /\ t.role = s.role /\ t.voteCount = s.voteCount
        /\ t.ticker = s.ticker /\ t.lastApplied = s.lastApplied
    BY <1>3 DEF trackPeer, Peer
  <2> HIDE DEF t
  <2>4. /\ u \in Peer
        /\ \E n \in Nat, b \in BOOLEAN :
             u = [t EXCEPT !.commitIndex = n, !.applying = b]
    BY Zenon, <1>3, <2>3, LeaderCommitType
  <2> HIDE DEF u
  <2>6. /\ u.nextIndex = t.nextIndex
        /\ u.term = t.term /\ u.votedFor = t.votedFor /\ u.log = t.log
        /\ u.role = t.role /\ u.voteCount = t.voteCount
        /\ u.ticker = t.ticker /\ u.lastApplied = t.lastApplied
    BY <2>3, <2>4 DEF Peer
  <2>7. persist(i, u)
    BY <1>7 DEF t, u
  <2> QED
    BY Zenon, <1>2, <1>4, <1>7, <2>3, <2>4, <2>5, <2>6, <2>7
<1> QED
  BY <1>5, <1>6, <1>7 DEF sendAppendEntries

\* A new leader keeps its term, vote and log.
LEMMA ReinitialisedEffect ==
  ASSUME TypeOK, NEW i \in Server, rf[i].role = "CANDIDATE",
         ReinitialisedAfterElection(i)
  PROVE  /\ UNCHANGED <<disk, votes, delivered, restarts>>
         /\ \E t \in Peer :
              /\ SendHeartBeats(i, t)
              /\ t.role = "LEADER" /\ \A j \in Server : t.nextIndex[j] >= 1
              /\ t.term = rf[i].term /\ t.votedFor = rf[i].votedFor
              /\ t.log = rf[i].log /\ t.voteCount = rf[i].voteCount
              /\ t.lastApplied = rf[i].lastApplied
              /\ rf'[i] \in {t, [t EXCEPT !.alive = FALSE]}
              /\ \A j \in Server \ {i} : rf'[j] = rf[j]
<1> DEFINE s == rf[i]
           t == [s EXCEPT !.role = "LEADER", !.ticker = "LEADER",
                   !.nextIndex = [j \in Server |-> getLastLogIndex(s) + 1],
                   !.matchIndex = [j \in Server |-> 0]]
<1>1. SendHeartBeats(i, t) /\ UNCHANGED <<disk, votes, delivered, restarts>>
  BY DEF ReinitialisedAfterElection
<1>2. s \in Peer /\ getLastLogIndex(s) \in Nat
  BY DEF TypeOK, Peer, getLastLogIndex
<1>3. /\ [j \in Server |-> getLastLogIndex(s) + 1] \in [Server -> Nat]
      /\ [j \in Server |-> 0] \in [Server -> Nat]
      /\ \A j \in Server : [k \in Server |-> getLastLogIndex(s) + 1][j] >= 1
  BY <1>2
<1>4. ASSUME NEW u \in Peer, NEW next \in [Server -> Nat], NEW match \in [Server -> Nat]
      PROVE  [u EXCEPT !.role = "LEADER", !.ticker = "LEADER",
                       !.nextIndex = next, !.matchIndex = match] \in Peer
  BY Zenon DEF Peer, Role, Ticker
<1>5. /\ t \in Peer /\ t.role = "LEADER" /\ \A j \in Server : t.nextIndex[j] >= 1
      /\ t.term = s.term /\ t.votedFor = s.votedFor /\ t.log = s.log
      /\ t.voteCount = s.voteCount /\ t.lastApplied = s.lastApplied
  <2>1. t \in Peer
    BY Zenon, <1>2, <1>3, <1>4
  <2>2. t.nextIndex = [j \in Server |-> getLastLogIndex(s) + 1]
    BY <1>2 DEF Peer
  <2>3. /\ t.role = "LEADER" /\ t.term = s.term /\ t.votedFor = s.votedFor
        /\ t.log = s.log /\ t.voteCount = s.voteCount
        /\ t.lastApplied = s.lastApplied
    BY <1>2 DEF Peer
  <2> QED
    BY <1>3, <2>1, <2>2, <2>3
<1> HIDE DEF t
<1>6. /\ rf'[i] \in {t, [t EXCEPT !.alive = FALSE]}
      /\ \A j \in Server \ {i} : rf'[j] = rf[j]
  BY <1>1, <1>5, SendHeartBeatsType
<1> QED
  BY <1>1, <1>5, <1>6

\* Start does nothing, or appends an entry of the current term.
LEMMA StartEffect ==
  ASSUME TypeOK, NEW i \in Server, NEW command \in Command, Start(i, command)
  PROVE  /\ UNCHANGED <<msgs, votes, delivered, restarts>>
         /\ \/ UNCHANGED <<rf, disk>>
            \/ /\ rf[i].role = "LEADER"
               /\ \E t \in Peer :
                    /\ persist(i, t)
                    /\ t.log = Append(rf[i].log, [term |-> rf[i].term, command |-> command])
                    /\ t.term = rf[i].term /\ t.votedFor = rf[i].votedFor
                    /\ t.role = rf[i].role /\ t.nextIndex = rf[i].nextIndex
                    /\ t.voteCount = rf[i].voteCount /\ t.ticker = rf[i].ticker
                    /\ t.lastApplied = rf[i].lastApplied
<1> DEFINE s == rf[i]
           entry == [term |-> s.term, command |-> command]
           t == [s EXCEPT !.log = Append(@, entry)]
<1>1. UNCHANGED <<msgs, votes, delivered, restarts>>
  BY DEF Start
<1>2. CASE s.role = "LEADER" /\ persist(i, t)
  <2>1. s \in Peer /\ s.log \in Seq(LogEntry) /\ entry \in LogEntry
    BY Zenon DEF TypeOK, Peer, LogEntry
  <2>2. Append(s.log, entry) \in Seq(LogEntry)
    BY <2>1
  <2>3. /\ t \in Peer /\ t.log = Append(s.log, entry)
        /\ t.term = s.term /\ t.votedFor = s.votedFor
        /\ t.role = s.role /\ t.nextIndex = s.nextIndex
        /\ t.voteCount = s.voteCount /\ t.ticker = s.ticker
        /\ t.lastApplied = s.lastApplied
    BY Zenon, <2>1, <2>2 DEF Peer
  <2> HIDE DEF t
  <2> QED
    BY <1>1, <1>2, <2>3
<1> QED
  BY <1>1, <1>2 DEF Start

\* applyLogs sends up the entries from LastApplied + 1 to the new LastApplied,
\* and changes no field that is persisted or an election reads.
LEMMA ApplyLogsEffect ==
  ASSUME TypeOK, NEW i \in Server, applyLogs(i)
  PROVE  LET s == rf[i]
             sent == {[server |-> i, index |-> k, command |-> s.log[k].command] :
                        k \in (s.lastApplied + 1)..(rf'[i].lastApplied)}
         IN
         /\ UNCHANGED <<disk, msgs, votes, restarts>>
         /\ rf' \in [Server -> Peer] /\ \A j \in Server \ {i} : rf'[j] = rf[j]
         /\ rf'[i].term = s.term /\ rf'[i].votedFor = s.votedFor /\ rf'[i].log = s.log
         /\ rf'[i].role = s.role /\ rf'[i].nextIndex = s.nextIndex
         /\ rf'[i].voteCount = s.voteCount /\ rf'[i].ticker = s.ticker
         /\ rf'[i].lastApplied >= s.lastApplied
         /\ delivered' = delivered \cup sent
         /\ sent \subseteq [server : Server, index : Nat, command : Command]
<1> DEFINE s == rf[i]
           last == Min({s.commitIndex, getLastLogIndex(s)})
           upTo == Max({s.lastApplied, last})
           ok == upTo >= s.commitIndex
           sent == {[server |-> i, index |-> k, command |-> s.log[k].command] :
                      k \in (s.lastApplied + 1)..last}
<1>1. /\ s \in Peer /\ s.commitIndex \in Nat /\ s.lastApplied \in Nat
      /\ s.log \in Seq(LogEntry) /\ Len(s.log) \in Nat /\ rf \in [Server -> Peer]
  BY DEF TypeOK, Peer
<1>2. last \in Nat /\ last <= Len(s.log)
  BY Zenon, <1>1, MinNat DEF getLastLogIndex
<1> HIDE DEF last
<1>3. upTo \in Nat /\ upTo \in {s.lastApplied, last} /\ upTo >= s.lastApplied /\ upTo >= last
  <2>1. /\ {s.lastApplied, last} \in SUBSET (0..(s.lastApplied + last))
        /\ s.lastApplied + last \in Nat
    BY <1>1, <1>2
  <2> QED
    BY Zenon, <1>1, <1>2, <2>1, MaxNat
<1> HIDE DEF upTo
<1>4. /\ rf' = [rf EXCEPT ![i] = [s EXCEPT !.applying = FALSE, !.lastApplied = upTo,
                                           !.alive = ok]]
      /\ delivered' = delivered \cup sent
      /\ UNCHANGED <<disk, msgs, votes, restarts>>
  BY Zenon, <1>1 DEF applyLogs, last, upTo, Peer
<1>5. ok \in BOOLEAN
  OBVIOUS
<1> HIDE DEF ok
<1>6. sent \subseteq [server : Server, index : Nat, command : Command]
  <2>1. ASSUME NEW k \in (s.lastApplied + 1)..last
        PROVE  k \in Nat /\ s.log[k].command \in Command
    <3>1. k \in 1..Len(s.log)
      BY <1>1, <1>2
    <3>2. s.log[k] \in LogEntry
      BY <1>1, <3>1
    <3> QED
      BY <3>1, <3>2 DEF LogEntry
  <2> QED
    BY <2>1
<1>7. (s.lastApplied + 1)..last = (s.lastApplied + 1)..upTo
  BY <1>1, <1>2, <1>3
<1> DEFINE t == [s EXCEPT !.applying = FALSE, !.lastApplied = upTo, !.alive = ok]
<1>8. /\ t \in Peer /\ t.role = s.role /\ t.nextIndex = s.nextIndex
      /\ t.term = s.term /\ t.votedFor = s.votedFor /\ t.log = s.log
      /\ t.voteCount = s.voteCount /\ t.ticker = s.ticker /\ t.lastApplied = upTo
  BY Zenon, <1>1, <1>3, <1>5 DEF Peer
<1> HIDE DEF t
<1>9. rf' \in [Server -> Peer] /\ rf'[i] = t /\ \A j \in Server \ {i} : rf'[j] = rf[j]
  BY <1>1, <1>4, <1>8 DEF t
<1>10. sent = {[server |-> i, index |-> k, command |-> s.log[k].command] :
                 k \in (s.lastApplied + 1)..(rf'[i].lastApplied)}
  BY Zenon, <1>7, <1>8, <1>9
<1> HIDE DEF sent
<1> QED
  BY <1>3, <1>4, <1>6, <1>8, <1>9, <1>10

-----------------------------------------------------------------------------
(* Types.  The type invariant alone is not inductive: NextIndex and          *)
(* MatchIndex are naturals only because the -1 of a stale-term rejection     *)
(* never reaches trackPeer.                                                  *)

\* Make and a fresh network satisfy the type invariant.
LEMMA TypeInvInit == Init => TypeInv
<1> SUFFICES ASSUME Init PROVE TypeInv
  OBVIOUS
<1> DEFINE fresh == [term |-> 0, votedFor |-> VotedNULL, log |-> <<>>]
<1>1. fresh \in Persistent /\ Make(fresh) \in Peer
  BY DEF Persistent, Make, Peer, Role, Ticker
<1>2. TypeOK
  BY <1>1 DEF Init, TypeOK
<1>3. NextIndexPositive
  BY DEF Init, NextIndexPositive, Make
<1>4. RepliesTellTerm
  BY DEF Init, RepliesTellTerm
<1> QED
  BY <1>2, <1>3, <1>4 DEF TypeInv

\* What every step has to show: one struct changes to a well-formed one, whose
\* NextIndex is positive if it leads, and the new messages are well formed.
LEMMA TypeInvStep ==
  ASSUME TypeInv, NEW i \in Server,
         rf' \in [Server -> Peer], disk' \in [Server -> Persistent],
         \A j \in Server \ {i} : rf'[j] = rf[j],
         rf'[i].role = "LEADER" => \A j \in Server : rf'[i].nextIndex[j] >= 1,
         \A m \in msgs' \ msgs :
           /\ m \in Message
           /\ m.type = "AppendEntryReply" =>
                /\ m.term >= m.args
                /\ m.term = m.args /\ ~m.success =>
                     m.conflictIndex >= 1 /\ m.conflictTerm = -1,
         votes' \subseteq [voter : Server, candidate : Server, term : Nat],
         delivered' \subseteq [server : Server, index : Nat, command : Command],
         restarts' \in Nat
  PROVE  TypeInv'
<1>1. TypeOK'
  BY DEF TypeInv, TypeOK
<1>2. NextIndexPositive'
  BY DEF TypeInv, NextIndexPositive
<1>3. RepliesTellTerm'
  BY DEF TypeInv, RepliesTellTerm
<1> QED
  BY <1>1, <1>2, <1>3 DEF TypeInv

\* Every step of every peer and of the network preserves the type invariant.
LEMMA TypeInvNext == TypeInv /\ [Next]_vars => TypeInv'
<1> SUFFICES ASSUME TypeInv, [Next]_vars PROVE TypeInv'
  OBVIOUS
<1>t. /\ TypeOK /\ rf \in [Server -> Peer] /\ disk \in [Server -> Persistent]
      /\ msgs \subseteq Message /\ restarts \in Nat
      /\ votes \subseteq [voter : Server, candidate : Server, term : Nat]
      /\ delivered \subseteq [server : Server, index : Nat, command : Command]
  BY DEF TypeInv, TypeOK
<1>n. \A i \in Server : rf[i] \in Peer /\
        (rf[i].role = "LEADER" => \A j \in Server : rf[i].nextIndex[j] >= 1)
  BY <1>t DEF TypeInv, NextIndexPositive
<1>1. ASSUME NEW i \in Server, NEW role \in {"FOLLOWER", "CANDIDATE"}, electSelf(i, role)
      PROVE  TypeInv'
  <2> DEFINE s == rf[i]
             t == [s EXCEPT !.role = "CANDIDATE", !.term = @ + 1,
                            !.votedFor = i, !.voteCount = 1, !.ticker = "CANDIDATE"]
  <2>1. CASE s.role = role
    <3>1. /\ persist(i, t) /\ msgs' = msgs \cup BroadCastRequestVote(i, t)
          /\ votes' = votes \cup {[voter |-> i, candidate |-> i, term |-> t.term]}
          /\ delivered' = delivered /\ restarts' = restarts
      BY <1>1, <2>1 DEF electSelf
    <3>2. t \in Peer /\ t.role = "CANDIDATE" /\ t.term \in Nat
      <4>1. s \in Peer /\ s.term + 1 \in Nat
        BY <1>n DEF Peer
      <4>2. ASSUME NEW u \in Peer, NEW n \in Nat
            PROVE  [u EXCEPT !.role = "CANDIDATE", !.term = n, !.votedFor = i,
                             !.voteCount = 1, !.ticker = "CANDIDATE"] \in Peer
        BY Zenon DEF Peer, Role, Ticker
      <4>3. t \in Peer
        BY Zenon, <4>1, <4>2
      <4> QED
        BY Zenon, <4>1, <4>3 DEF Peer
    <3> HIDE DEF t
    <3>3. /\ rf' \in [Server -> Peer] /\ disk' \in [Server -> Persistent]
          /\ rf'[i] = t /\ \A j \in Server \ {i} : rf'[j] = rf[j]
      BY <1>t, <3>1, <3>2, PersistType
    <3>4. getLastLogIndex(t) \in Nat /\ getLastLogTerm(t) \in Nat
      <4>1. Len(t.log) \in 0..Len(t.log) /\ Len(t.log) \in Nat
        BY <3>2 DEF Peer
      <4> QED
        BY <4>1, <3>2, TermAtType DEF getLastLogIndex, getLastLogTerm
    <3>5. ASSUME NEW m \in BroadCastRequestVote(i, t)
          PROVE  m \in Message /\ m.type # "AppendEntryReply"
      BY <3>2, <3>4 DEF BroadCastRequestVote, Message, RequestVoteArgs
    <3> QED
      BY <1>t, <3>1, <3>2, <3>3, <3>5, TypeInvStep
  <2>2. CASE s.role # role
    <3>1. /\ rf' = [rf EXCEPT ![i].ticker = s.role]
          /\ UNCHANGED <<disk, msgs, votes, delivered, restarts>>
      BY <1>1, <2>2 DEF electSelf
    <3>2. [s EXCEPT !.ticker = s.role] \in Peer
      BY Zenon, <1>n DEF Peer, Ticker
    <3>3. rf' \in [Server -> Peer] /\ rf'[i] = [s EXCEPT !.ticker = s.role]
      BY <1>t, <3>1, <3>2
    <3> QED
      BY Zenon, <1>t, <1>n, <3>1, <3>3, TypeInvStep DEF Peer
  <2> QED
    BY <2>1, <2>2
<1>2. ASSUME NEW i \in Server, heartBeatTimeout(i)
      PROVE  TypeInv'
  <2> DEFINE s == rf[i]
  <2>1. CASE s.role = "LEADER"
    <3>1. SendHeartBeats(i, s) /\ UNCHANGED <<disk, votes, delivered, restarts>>
      BY <1>2, <2>1 DEF heartBeatTimeout
    <3>2. /\ rf' \in [Server -> Peer]
          /\ rf'[i] \in {s, [s EXCEPT !.alive = FALSE]}
          /\ \A j \in Server \ {i} : rf'[j] = rf[j]
          /\ msgs' \subseteq Message
          /\ \A m \in msgs' \ msgs : m.type = "AppendEntries"
      BY <1>t, <1>n, <2>1, <3>1, SendHeartBeatsType
    <3>3. rf'[i].nextIndex = s.nextIndex
      BY Zenon, <1>n, <3>2 DEF Peer
    <3> QED
      BY <1>t, <1>n, <2>1, <3>1, <3>2, <3>3, TypeInvStep
  <2>2. CASE s.role # "LEADER"
    <3>1. /\ rf' = [rf EXCEPT ![i].ticker = s.role]
          /\ UNCHANGED <<disk, msgs, votes, delivered, restarts>>
      BY <1>2, <2>2 DEF heartBeatTimeout
    <3>2. [s EXCEPT !.ticker = s.role] \in Peer
      BY Zenon, <1>n DEF Peer, Ticker
    <3>3. rf' \in [Server -> Peer] /\ rf'[i] = [s EXCEPT !.ticker = s.role]
      BY <1>t, <3>1, <3>2
    <3> QED
      BY Zenon, <1>t, <1>n, <3>1, <3>3, TypeInvStep DEF Peer
  <2> QED
    BY <2>1, <2>2
<1>3. ASSUME NEW i \in Server, ReinitialisedAfterElection(i)
      PROVE  TypeInv'
  <2> DEFINE s == rf[i]
  <2>1. CASE s.role = "CANDIDATE"
    <3>1. /\ UNCHANGED <<disk, votes, delivered, restarts>>
          /\ \E t \in Peer : SendHeartBeats(i, t) /\ \A j \in Server : t.nextIndex[j] >= 1
      BY <1>3, <1>t, <2>1, ReinitialisedEffect
    <3>2. PICK t \in Peer : SendHeartBeats(i, t) /\ \A j \in Server : t.nextIndex[j] >= 1
      BY <3>1
    <3>3. /\ rf' \in [Server -> Peer]
          /\ rf'[i] \in {t, [t EXCEPT !.alive = FALSE]}
          /\ \A j \in Server \ {i} : rf'[j] = rf[j]
          /\ msgs' \subseteq Message
          /\ \A m \in msgs' \ msgs : m.type = "AppendEntries"
      BY <1>t, <3>2, SendHeartBeatsType
    <3>4. rf'[i].nextIndex = t.nextIndex
      BY Zenon, <3>2, <3>3 DEF Peer
    <3> QED
      BY <1>t, <3>1, <3>2, <3>3, <3>4, TypeInvStep
  <2>2. CASE s.role # "CANDIDATE"
    <3>1. /\ rf' = [rf EXCEPT ![i].ticker = s.role]
          /\ UNCHANGED <<disk, msgs, votes, delivered, restarts>>
      BY <1>3, <2>2 DEF ReinitialisedAfterElection
    <3>2. [s EXCEPT !.ticker = s.role] \in Peer
      BY Zenon, <1>n DEF Peer, Ticker
    <3>3. rf' \in [Server -> Peer] /\ rf'[i] = [s EXCEPT !.ticker = s.role]
      BY <1>t, <3>1, <3>2
    <3> QED
      BY Zenon, <1>t, <1>n, <3>1, <3>3, TypeInvStep DEF Peer
  <2> QED
    BY <2>1, <2>2
<1>4. ASSUME NEW m \in msgs, RequestVote(m)
      PROVE  TypeInv'
  <2> DEFINE i == m.to
  <2>1. /\ i \in Server /\ m.from \in Server /\ m.term \in Nat /\ rf[i] \in Peer
    BY <1>4, <1>t, <1>n, RequestVoteEffect DEF RequestVoteArgs
  <2>2. PICK t \in Peer, granted \in BOOLEAN :
          /\ hears(rf[i], m.term, t)
          /\ persist(i, IF granted THEN [t EXCEPT !.votedFor = m.from] ELSE t)
          /\ msgs' = (msgs \ {m}) \cup
               {[type |-> "RequestVoteReply", args |-> m.term, from |-> i, to |-> m.from,
                 term |-> t.term, voteGranted |-> granted]}
          /\ votes' = votes \cup
               (IF granted THEN {[voter |-> i, candidate |-> m.from,
                                  term |-> t.term]} ELSE {})
    BY <1>4, <1>t, RequestVoteEffect
  <2> DEFINE u == IF granted THEN [t EXCEPT !.votedFor = m.from] ELSE t
             n == [type |-> "RequestVoteReply", args |-> m.term, from |-> i, to |-> m.from,
                   term |-> t.term, voteGranted |-> granted]
  <2>3. u \in Peer /\ u.role = t.role /\ u.nextIndex = t.nextIndex /\ t.term \in Nat
    BY Zenon, <2>1, <2>2 DEF Peer
  <2>4. t.role = "LEADER" => t = rf[i]
    BY <2>1, <2>2, HearsType
  <2>5. n \in Message /\ n.type # "AppendEntryReply"
    BY <2>1, <2>2, <2>3 DEF Message, RequestVoteReply
  <2>6. votes' \subseteq [voter : Server, candidate : Server, term : Nat]
    BY <1>t, <2>1, <2>2, <2>3
  <2>7. \A k \in msgs' \ msgs : k = n
    BY <2>2
  <2> HIDE DEF u, n
  <2>8. /\ rf' \in [Server -> Peer] /\ disk' \in [Server -> Persistent]
        /\ rf'[i] = u /\ \A j \in Server \ {i} : rf'[j] = rf[j]
    BY <1>t, <2>1, <2>2, <2>3, PersistType DEF u
  <2>9. delivered' = delivered /\ restarts' = restarts
    BY <1>4 DEF RequestVote
  <2> QED
    BY <1>t, <1>n, <2>1, <2>3, <2>4, <2>5, <2>6, <2>7, <2>8, <2>9, TypeInvStep
<1>5. ASSUME NEW m \in msgs, sendRequestVote(m)
      PROVE  TypeInv'
  <2> DEFINE i == m.to
             s == rf[i]
  <2>1. /\ i \in Server /\ s \in Peer /\ s.term \in Nat /\ s.voteCount \in Nat
        /\ msgs' = msgs \ {m} /\ UNCHANGED <<votes, delivered, restarts>>
    <3>1. i \in Server /\ msgs' = msgs \ {m} /\ UNCHANGED <<votes, delivered, restarts>>
      BY Zenon, <1>5, <1>t, SendRequestVoteEffect DEF RequestVoteReply
    <3> QED
      BY <1>n, <3>1 DEF Peer
  <2>2. CASE UNCHANGED <<rf, disk>>
    BY <1>t, <1>n, <2>1, <2>2, TypeInvStep
  <2>3. ASSUME NEW heard \in BOOLEAN, persist(i, stepDown(s, s.term, heard))
        PROVE  TypeInv'
    <3>1. /\ stepDown(s, s.term, heard) \in Peer
          /\ stepDown(s, s.term, heard).role = "FOLLOWER"
      BY Zenon, <2>1, StepDownType DEF stepDown, Peer
    <3>2. /\ rf' \in [Server -> Peer] /\ disk' \in [Server -> Persistent]
          /\ rf'[i].role = "FOLLOWER" /\ \A j \in Server \ {i} : rf'[j] = rf[j]
      BY <1>t, <2>1, <2>3, <3>1, PersistType
    <3> QED
      BY <1>t, <2>1, <3>2, TypeInvStep
  <2>4. ASSUME UNCHANGED disk, NEW tick \in Ticker, s.role = "CANDIDATE",
               rf' = [rf EXCEPT ![i] = [s EXCEPT !.voteCount = s.voteCount + 1,
                                                 !.ticker = tick]]
        PROVE  TypeInv'
    <3> DEFINE t == [s EXCEPT !.voteCount = s.voteCount + 1, !.ticker = tick]
    <3>1. t \in Peer /\ t.role = "CANDIDATE"
      <4>1. s.voteCount + 1 \in Nat
        BY <2>1
      <4>2. ASSUME NEW u \in Peer, NEW n \in Nat
            PROVE  [u EXCEPT !.voteCount = n, !.ticker = tick] \in Peer
        BY Zenon DEF Peer
      <4>3. t \in Peer
        BY Zenon, <2>1, <4>1, <4>2
      <4> QED
        BY Zenon, <2>1, <2>4, <4>3 DEF Peer
    <3> HIDE DEF t
    <3>2. /\ rf' \in [Server -> Peer] /\ rf'[i].role = "CANDIDATE"
          /\ \A j \in Server \ {i} : rf'[j] = rf[j]
      BY <1>t, <2>1, <2>4, <3>1 DEF t
    <3> QED
      BY <1>t, <2>1, <2>4, <3>2, TypeInvStep
  <2> QED
    BY Zenon, <1>5, <1>t, <2>2, <2>3, <2>4, SendRequestVoteEffect
<1>6. ASSUME NEW m \in msgs, ProcessAppendEntries(m)
      PROVE  TypeInv'
  <2> DEFINE i == m.to
  <2>1. /\ m \in AppendEntries /\ i \in Server /\ m.from \in Server /\ m.term \in Nat
        /\ m.call \in Nat /\ m.prevLogIndex + Len(m.entries) \in Nat /\ rf[i] \in Peer
        /\ UNCHANGED <<votes, delivered, restarts>>
    <3>1. m \in AppendEntries /\ UNCHANGED <<votes, delivered, restarts>>
      BY <1>6, <1>t, ProcessAppendEntriesEffect
    <3>2. m.prevLogIndex \in Nat /\ Len(m.entries) \in Nat /\ i \in Server
      BY <3>1 DEF AppendEntries
    <3> QED
      BY <1>n, <3>1, <3>2 DEF AppendEntries
  <2>2. PICK t \in Peer, u \in Peer, success \in BOOLEAN,
             cIndex \in Nat \cup {-1}, cTerm \in Nat \cup {-1} :
          /\ hears(rf[i], m.term, t)
          /\ u = t \/ appends(t, m, u)
          /\ u.term = m.term /\ ~success => cIndex >= 1 /\ cTerm = -1
          /\ persist(i, u)
          /\ msgs' = (msgs \ {m}) \cup {replyTo(m, u, success, cIndex, cTerm)}
    BY <1>6, <1>t, ProcessAppendEntriesEffect
  <2> DEFINE n == replyTo(m, u, success, cIndex, cTerm)
  <2>3. /\ u.role = t.role /\ u.nextIndex = t.nextIndex /\ u.term = t.term
        /\ u.term \in Nat /\ t.term >= m.term
        /\ t.role = "LEADER" => t = rf[i]
    <3>1. t.term >= m.term /\ (t.role = "LEADER" => t = rf[i])
      BY <2>1, <2>2, HearsType
    <3>2. u.role = t.role /\ u.nextIndex = t.nextIndex /\ u.term = t.term
      BY <2>1, <2>2, AppendsType
    <3> QED
      BY <3>1, <3>2 DEF Peer
  <2>4. /\ n \in AppendEntryReply /\ n.term = u.term /\ n.args = m.term
        /\ n.success = success /\ n.conflictIndex = cIndex /\ n.conflictTerm = cTerm
    BY <2>1, <2>2, <2>3 DEF replyTo, AppendEntryReply
  <2> HIDE DEF n
  <2>5. /\ n \in Message /\ n.term >= n.args
        /\ n.term = n.args /\ ~n.success => n.conflictIndex >= 1 /\ n.conflictTerm = -1
    BY <2>2, <2>3, <2>4 DEF Message
  <2>6. /\ rf' \in [Server -> Peer] /\ disk' \in [Server -> Persistent]
        /\ rf'[i] = u /\ \A j \in Server \ {i} : rf'[j] = rf[j]
    BY <1>t, <2>1, <2>2, PersistType
  <2>7. \A k \in msgs' \ msgs : k = n
    BY <2>2 DEF n
  <2> QED
    BY <1>t, <1>n, <2>1, <2>3, <2>5, <2>6, <2>7, TypeInvStep
<1>7. ASSUME NEW m \in msgs, sendAppendEntries(m)
      PROVE  TypeInv'
  <2> DEFINE i == m.to
             s == rf[i]
  <2>1. /\ i \in Server /\ s \in Peer
        /\ msgs' = msgs \ {m} /\ UNCHANGED <<votes, delivered, restarts>>
    BY <1>7, <1>n, SendAppendEntriesEffect DEF AppendEntryReply
  <2>2. PICK t \in Peer :
          /\ persist(i, t)
          /\ \/ t = s
             \/ \E heard \in BOOLEAN : t = stepDown(s, s.term, heard)
             \/ \A x \in Server : t.nextIndex[x] >= 1
    BY <1>7, SendAppendEntriesEffect
  <2>3. t.role = "LEADER" => \A x \in Server : t.nextIndex[x] >= 1
    BY Zenon, <1>n, <2>1, <2>2 DEF stepDown, Peer
  <2>4. /\ rf' \in [Server -> Peer] /\ disk' \in [Server -> Persistent]
        /\ rf'[i] = t /\ \A j \in Server \ {i} : rf'[j] = rf[j]
    BY <1>t, <2>1, <2>2, PersistType
  <2> QED
    BY <1>t, <2>1, <2>3, <2>4, TypeInvStep
<1>8. ASSUME NEW i \in Server, NEW command \in Command, Start(i, command)
      PROVE  TypeInv'
  <2>1. UNCHANGED <<msgs, votes, delivered, restarts>>
    BY <1>8 DEF Start
  <2>2. CASE UNCHANGED <<rf, disk>>
    BY <1>t, <1>n, <2>1, <2>2, TypeInvStep
  <2>3. ASSUME NEW t \in Peer, persist(i, t),
               t.role = rf[i].role, t.nextIndex = rf[i].nextIndex
        PROVE  TypeInv'
    <3>1. /\ rf' \in [Server -> Peer] /\ disk' \in [Server -> Persistent]
          /\ rf'[i] = t /\ \A j \in Server \ {i} : rf'[j] = rf[j]
      BY <1>t, <2>3, PersistType
    <3> QED
      BY <1>t, <1>n, <2>1, <2>3, <3>1, TypeInvStep
  <2> QED
    BY Zenon, <1>8, <1>t, <2>2, <2>3, StartEffect
<1>9. ASSUME NEW i \in Server, applyLogs(i)
      PROVE  TypeInv'
  <2>1. /\ UNCHANGED <<disk, msgs, votes, restarts>>
        /\ rf' \in [Server -> Peer] /\ \A j \in Server \ {i} : rf'[j] = rf[j]
        /\ rf'[i].role = rf[i].role /\ rf'[i].nextIndex = rf[i].nextIndex
    BY <1>9, <1>t, ApplyLogsEffect
  <2>2. PICK sent \in SUBSET [server : Server, index : Nat, command : Command] :
          delivered' = delivered \cup sent
    BY <1>9, <1>t, ApplyLogsEffect
  <2> QED
    BY <1>t, <1>n, <2>1, <2>2, TypeInvStep
<1>10. ASSUME NEW i \in Server, Restart(i)
       PROVE  TypeInv'
  <2>1. Make(disk[i]) \in Peer /\ Make(disk[i]).role = "FOLLOWER"
    BY <1>t DEF Make, Persistent, Peer, Role, Ticker
  <2>2. /\ rf' \in [Server -> Peer] /\ rf'[i].role = "FOLLOWER"
        /\ \A j \in Server \ {i} : rf'[j] = rf[j]
    BY <1>10, <1>t, <2>1 DEF Restart
  <2>3. restarts' \in Nat /\ UNCHANGED <<disk, msgs, votes, delivered>>
    BY <1>10, <1>t DEF Restart
  <2> QED
    BY <1>t, <2>2, <2>3, TypeInvStep
<1>11. ASSUME NEW m \in msgs, Lose(m)
       PROVE  TypeInv'
  <2>1. TypeOK'
    BY <1>11 DEF Lose, TypeInv, TypeOK
  <2>2. NextIndexPositive' /\ RepliesTellTerm'
    BY <1>11 DEF Lose, TypeInv, NextIndexPositive, RepliesTellTerm
  <2> QED
    BY <2>1, <2>2 DEF TypeInv
<1>12. CASE UNCHANGED vars
  BY <1>12 DEF vars, TypeInv, TypeOK, NextIndexPositive, RepliesTellTerm
<1> QED
  BY <1>1, <1>2, <1>3, <1>4, <1>5, <1>6, <1>7, <1>8, <1>9, <1>10, <1>11, <1>12 DEF Next

\* Every reachable state has its type, for any number of peers, any commands
\* and any bounds.
THEOREM TypeCorrect == Spec => []TypeOK
<1>1. TypeInv => TypeOK
  BY DEF TypeInv
<1> QED
  BY <1>1, TypeInvInit, TypeInvNext, PTL DEF Spec

-----------------------------------------------------------------------------
(* The Persister follows the struct, and terms only rise.                  *)

durable ==
  DiskIsCurrent' /\ \A i \in Server : rf'[i].term >= rf[i].term

\* A handler that ends in persist() is durable if it does not lower the term.
LEMMA PersistIsDurable ==
  ASSUME TypeOK, DiskIsCurrent, NEW i \in Server, NEW t \in Peer, persist(i, t),
         t.term >= rf[i].term
  PROVE  durable
<1>1. /\ rf'[i] = t /\ disk'[i] = encoded(t)
      /\ \A j \in Server \ {i} : rf'[j] = rf[j] /\ disk'[j] = disk[j]
  BY PersistType
<1>2. \A j \in Server : rf[j].term \in Nat
  BY DEF TypeOK, Peer
<1>3. DiskIsCurrent'
  BY <1>1 DEF DiskIsCurrent, encoded
<1> QED
  BY <1>1, <1>2, <1>3 DEF durable

\* A step that does not save may change no persisted field.
LEMMA UnsavedIsDurable ==
  ASSUME TypeOK, DiskIsCurrent, NEW i \in Server, disk' = disk,
         \A j \in Server \ {i} : rf'[j] = rf[j],
         rf'[i].term = rf[i].term, rf'[i].votedFor = rf[i].votedFor,
         rf'[i].log = rf[i].log
  PROVE  durable
<1>1. \A j \in Server : rf[j].term \in Nat
  BY DEF TypeOK, Peer
<1>2. \A j \in Server : rf'[j].term >= rf[j].term
  BY <1>1
<1>3. DiskIsCurrent'
  BY DEF DiskIsCurrent, encoded
<1> QED
  BY <1>2, <1>3 DEF durable

\* Every step is durable.
LEMMA DurableNext ==
  ASSUME TypeInv, DiskIsCurrent, Next
  PROVE  durable
<1>t. /\ TypeOK /\ rf \in [Server -> Peer] /\ disk \in [Server -> Persistent]
      /\ msgs \subseteq Message
  BY DEF TypeInv, TypeOK
<1>n. \A i \in Server : /\ rf[i] \in Peer /\ rf[i].term \in Nat
                        /\ rf[i].role = "LEADER" => \A j \in Server : rf[i].nextIndex[j] >= 1
  BY <1>t DEF TypeInv, NextIndexPositive, Peer
<1>s. ASSUME NEW i \in Server, rf' = [rf EXCEPT ![i].ticker = rf[i].role], disk' = disk
      PROVE  durable
  <2>1. /\ rf'[i] = [rf[i] EXCEPT !.ticker = rf[i].role]
        /\ \A j \in Server \ {i} : rf'[j] = rf[j]
    BY <1>s, <1>t
  <2> QED
    BY Zenon, <1>s, <1>t, <1>n, <2>1, UnsavedIsDurable DEF Peer
<1>1. ASSUME NEW i \in Server, NEW role \in {"FOLLOWER", "CANDIDATE"}, electSelf(i, role)
      PROVE  durable
  <2> DEFINE s == rf[i]
             t == [s EXCEPT !.role = "CANDIDATE", !.term = @ + 1,
                            !.votedFor = i, !.voteCount = 1, !.ticker = "CANDIDATE"]
  <2>1. CASE s.role = role
    <3>1. persist(i, t)
      BY <1>1, <2>1 DEF electSelf
    <3>2. t \in Peer /\ t.term = s.term + 1
      <4>1. s \in Peer /\ s.term + 1 \in Nat
        BY <1>n DEF Peer
      <4>2. ASSUME NEW u \in Peer, NEW n \in Nat
            PROVE  LET v == [u EXCEPT !.role = "CANDIDATE", !.term = n, !.votedFor = i,
                                      !.voteCount = 1, !.ticker = "CANDIDATE"]
                   IN  v \in Peer /\ v.term = n
        BY Zenon DEF Peer, Role, Ticker
      <4> QED
        BY Zenon, <4>1, <4>2
    <3> HIDE DEF t
    <3>3. t.term >= s.term
      BY <1>n, <3>2
    <3> QED
      BY <1>t, <3>1, <3>2, <3>3, PersistIsDurable
  <2>2. CASE s.role # role
    BY <1>1, <1>s, <2>2 DEF electSelf
  <2> QED
    BY <2>1, <2>2
<1>2. ASSUME NEW i \in Server, heartBeatTimeout(i)
      PROVE  durable
  <2> DEFINE s == rf[i]
  <2>1. CASE s.role = "LEADER"
    <3>1. SendHeartBeats(i, s) /\ disk' = disk
      BY <1>2, <2>1 DEF heartBeatTimeout
    <3>2. /\ rf'[i] \in {s, [s EXCEPT !.alive = FALSE]}
          /\ \A j \in Server \ {i} : rf'[j] = rf[j]
      BY <1>t, <1>n, <2>1, <3>1, SendHeartBeatsType
    <3>3. rf'[i].term = s.term /\ rf'[i].votedFor = s.votedFor /\ rf'[i].log = s.log
      BY Zenon, <1>n, <3>2 DEF Peer
    <3> QED
      BY <1>t, <3>1, <3>2, <3>3, UnsavedIsDurable
  <2>2. CASE s.role # "LEADER"
    BY <1>2, <1>s, <2>2 DEF heartBeatTimeout
  <2> QED
    BY <2>1, <2>2
<1>3. ASSUME NEW i \in Server, ReinitialisedAfterElection(i)
      PROVE  durable
  <2> DEFINE s == rf[i]
  <2>1. CASE s.role = "CANDIDATE"
    <3>1. disk' = disk
      BY <1>3 DEF ReinitialisedAfterElection
    <3>2. PICK t \in Peer :
            /\ rf'[i] \in {t, [t EXCEPT !.alive = FALSE]}
            /\ \A j \in Server \ {i} : rf'[j] = rf[j]
            /\ t.term = s.term /\ t.votedFor = s.votedFor /\ t.log = s.log
      BY <1>3, <1>t, <2>1, ReinitialisedEffect
    <3>3. rf'[i].term = s.term /\ rf'[i].votedFor = s.votedFor /\ rf'[i].log = s.log
      BY <3>2 DEF Peer
    <3> QED
      BY <1>t, <3>1, <3>2, <3>3, UnsavedIsDurable
  <2>2. CASE s.role # "CANDIDATE"
    BY <1>3, <1>s, <2>2 DEF ReinitialisedAfterElection
  <2> QED
    BY <2>1, <2>2
<1>4. ASSUME NEW m \in msgs, RequestVote(m)
      PROVE  durable
  <2>1. m.to \in Server /\ m.from \in Server /\ m.term \in Nat /\ rf[m.to] \in Peer
    BY <1>4, <1>t, <1>n, RequestVoteEffect DEF RequestVoteArgs
  <2>2. PICK t \in Peer, granted \in BOOLEAN :
          /\ hears(rf[m.to], m.term, t)
          /\ persist(m.to, IF granted THEN [t EXCEPT !.votedFor = m.from] ELSE t)
    BY <1>4, <1>t, RequestVoteEffect
  <2> DEFINE u == IF granted THEN [t EXCEPT !.votedFor = m.from] ELSE t
  <2>3. u \in Peer /\ u.term = t.term
    BY Zenon, <2>1, <2>2 DEF Peer
  <2>4. t.term >= rf[m.to].term
    BY <2>1, <2>2, HearsType
  <2> QED
    BY Zenon, <1>t, <2>1, <2>2, <2>3, <2>4, PersistIsDurable
<1>5. ASSUME NEW m \in msgs, sendRequestVote(m)
      PROVE  durable
  <2> DEFINE i == m.to
             s == rf[i]
  <2>1. i \in Server /\ s \in Peer /\ s.term \in Nat
    BY Zenon, <1>5, <1>t, <1>n, SendRequestVoteEffect DEF RequestVoteReply
  <2>2. CASE UNCHANGED <<rf, disk>>
    BY <1>t, <2>1, <2>2, UnsavedIsDurable
  <2>3. ASSUME NEW heard \in BOOLEAN, persist(i, stepDown(s, s.term, heard))
        PROVE  durable
    <3>1. stepDown(s, s.term, heard) \in Peer /\ stepDown(s, s.term, heard).term = s.term
      BY Zenon, <2>1, StepDownType DEF stepDown, Peer
    <3> QED
      BY <1>t, <2>1, <2>3, <3>1, PersistIsDurable
  <2>4. ASSUME UNCHANGED disk, NEW tick \in Ticker,
               rf' = [rf EXCEPT ![i] = [s EXCEPT !.voteCount = s.voteCount + 1,
                                                 !.ticker = tick]]
        PROVE  durable
    <3>1. ASSUME NEW n
          PROVE  LET u == [s EXCEPT !.voteCount = n, !.ticker = tick]
                 IN  u.term = s.term /\ u.votedFor = s.votedFor /\ u.log = s.log
      BY <2>1 DEF Peer
    <3>2. /\ rf'[i] = [s EXCEPT !.voteCount = s.voteCount + 1, !.ticker = tick]
          /\ \A j \in Server \ {i} : rf'[j] = rf[j]
      BY Zenon, <1>t, <2>1, <2>4
    <3>3. rf'[i].term = s.term /\ rf'[i].votedFor = s.votedFor /\ rf'[i].log = s.log
      BY <3>1, <3>2
    <3> QED
      BY <1>t, <2>1, <2>4, <3>2, <3>3, UnsavedIsDurable
  <2> QED
    BY Zenon, <1>5, <1>t, <2>2, <2>3, <2>4, SendRequestVoteEffect
<1>6. ASSUME NEW m \in msgs, ProcessAppendEntries(m)
      PROVE  durable
  <2>1. m \in AppendEntries /\ m.to \in Server /\ m.term \in Nat /\ rf[m.to] \in Peer
    BY <1>6, <1>t, <1>n, ProcessAppendEntriesEffect DEF AppendEntries
  <2>2. PICK t \in Peer, u \in Peer :
          /\ hears(rf[m.to], m.term, t)
          /\ u = t \/ appends(t, m, u)
          /\ persist(m.to, u)
    BY <1>6, <1>t, ProcessAppendEntriesEffect
  <2>3. t.term >= rf[m.to].term
    BY <2>1, <2>2, HearsType
  <2>4. u.term = t.term
    BY <2>1, <2>2, AppendsType
  <2> QED
    BY <1>t, <2>1, <2>2, <2>3, <2>4, PersistIsDurable
<1>7. ASSUME NEW m \in msgs, sendAppendEntries(m)
      PROVE  durable
  <2>1. m.to \in Server /\ rf[m.to] \in Peer /\ rf[m.to].term \in Nat
    BY <1>7, <1>n, SendAppendEntriesEffect DEF AppendEntryReply
  <2>2. PICK t \in Peer :
          /\ persist(m.to, t)
          /\ \/ t = rf[m.to]
             \/ \E heard \in BOOLEAN : t = stepDown(rf[m.to], rf[m.to].term, heard)
             \/ t.term = rf[m.to].term
    BY <1>7, SendAppendEntriesEffect
  <2>3. t.term = rf[m.to].term
    BY Zenon, <2>1, <2>2 DEF stepDown, Peer
  <2> QED
    BY <1>t, <2>1, <2>2, <2>3, PersistIsDurable
<1>8. ASSUME NEW i \in Server, NEW command \in Command, Start(i, command)
      PROVE  durable
  <2>1. CASE UNCHANGED <<rf, disk>>
    BY <1>t, <1>n, <2>1, UnsavedIsDurable
  <2>2. ASSUME NEW t \in Peer, persist(i, t), t.term = rf[i].term
        PROVE  durable
    BY <1>t, <1>n, <2>2, PersistIsDurable
  <2> QED
    BY Zenon, <1>8, <1>t, <2>1, <2>2, StartEffect
<1>9. ASSUME NEW i \in Server, applyLogs(i)
      PROVE  durable
  <2>1. /\ disk' = disk /\ \A j \in Server \ {i} : rf'[j] = rf[j]
        /\ rf'[i].term = rf[i].term /\ rf'[i].votedFor = rf[i].votedFor
        /\ rf'[i].log = rf[i].log
    BY <1>9, <1>t, ApplyLogsEffect
  <2> QED
    BY <1>t, <2>1, UnsavedIsDurable
<1>10. ASSUME NEW i \in Server, Restart(i)
       PROVE  durable
  <2>1. /\ disk' = disk /\ \A j \in Server \ {i} : rf'[j] = rf[j]
        /\ rf'[i] = Make(disk[i]) /\ disk[i] = encoded(rf[i])
    BY <1>10, <1>t DEF Restart, DiskIsCurrent
  <2>2. /\ rf'[i].term = rf[i].term /\ rf'[i].votedFor = rf[i].votedFor
        /\ rf'[i].log = rf[i].log
    BY <2>1 DEF Make, encoded
  <2> QED
    BY <1>t, <2>1, <2>2, UnsavedIsDurable
<1>11. ASSUME NEW m \in msgs, Lose(m)
       PROVE  durable
  <2>1. UNCHANGED <<rf, disk>>
    BY <1>11 DEF Lose
  <2> QED
    BY <1>n, <2>1 DEF durable, DiskIsCurrent, encoded
<1> QED
  BY <1>1, <1>2, <1>3, <1>4, <1>5, <1>6, <1>7, <1>8, <1>9, <1>10, <1>11 DEF Next

\* What a peer has in its Persister is always what its struct holds, so a
\* crash between any two handlers loses nothing that was acted on.
THEOREM DiskCurrent == Spec => []DiskIsCurrent
<1>1. Init => DiskIsCurrent
  BY DEF Init, DiskIsCurrent, Make, encoded
<1>2. TypeInv /\ DiskIsCurrent /\ [Next]_vars => DiskIsCurrent'
  <2>1. CASE UNCHANGED vars
    BY <2>1 DEF vars, DiskIsCurrent, encoded
  <2> QED
    BY <2>1, DurableNext DEF durable
<1> QED
  BY <1>1, <1>2, TypeInvInit, TypeInvNext, PTL DEF Spec

\* No handler and no restart lowers a peer's CurrentTerm.
THEOREM TermsOnlyRise == Spec => TermNeverFalls
<1>1. TypeInv /\ DiskIsCurrent /\ [Next]_vars
        => [\A i \in Server : rf'[i].term >= rf[i].term]_vars
  BY DurableNext DEF durable
<1>2. Spec => []TypeInv
  BY TypeInvInit, TypeInvNext, PTL DEF Spec
<1> QED
  BY <1>1, <1>2, DiskCurrent, PTL DEF Spec, TermNeverFalls

-----------------------------------------------------------------------------
(* Delivery: a peer has sent up everything to LastApplied.                 *)

\* Only applyLogs delivers, and only a restart sets LastApplied back.
LEMMA DeliveredStep ==
  ASSUME TypeInv, NEW i \in Server, Next
  PROVE  \/ \E j \in Server : applyLogs(j)
         \/ delivered' = delivered /\ rf'[i].lastApplied \in {0, rf[i].lastApplied}
<1> DEFINE kept == delivered' = delivered /\ rf'[i].lastApplied \in {0, rf[i].lastApplied}
<1>t. /\ TypeOK /\ rf \in [Server -> Peer] /\ disk \in [Server -> Persistent]
      /\ msgs \subseteq Message
  BY DEF TypeInv, TypeOK
<1>n. \A j \in Server : /\ rf[j] \in Peer /\ rf[j].term \in Nat
                        /\ rf[j].role = "LEADER" => \A k \in Server : rf[j].nextIndex[k] >= 1
  BY <1>t DEF TypeInv, NextIndexPositive, Peer
<1>p. ASSUME NEW j \in Server, NEW t \in Peer, persist(j, t),
             t.lastApplied = rf[j].lastApplied, delivered' = delivered
      PROVE  kept
  BY <1>p, <1>t, PersistType
<1>q. ASSUME NEW j \in Server, \A k \in Server \ {j} : rf'[k] = rf[k],
             rf'[j].lastApplied = rf[j].lastApplied, delivered' = delivered
      PROVE  kept
  BY <1>q
<1>r. ASSUME NEW j \in Server, rf' = [rf EXCEPT ![j].ticker = rf[j].role],
             delivered' = delivered
      PROVE  kept
  <2>1. rf'[j] = [rf[j] EXCEPT !.ticker = rf[j].role]
    BY <1>r, <1>t
  <2>2. rf'[j].lastApplied = rf[j].lastApplied
    BY <1>n, <2>1 DEF Peer
  <2> QED
    BY <1>q, <1>r, <1>t, <2>2
<1>1. ASSUME NEW j \in Server, NEW role \in {"FOLLOWER", "CANDIDATE"}, electSelf(j, role)
      PROVE  kept
  <2> DEFINE t == [rf[j] EXCEPT !.role = "CANDIDATE", !.term = @ + 1,
                                !.votedFor = j, !.voteCount = 1, !.ticker = "CANDIDATE"]
  <2>1. delivered' = delivered
    BY <1>1 DEF electSelf
  <2>2. CASE persist(j, t)
    <3>1. rf'[j] = t /\ \A k \in Server \ {j} : rf'[k] = rf[k]
      BY <1>t, <2>2 DEF persist
    <3>2. t.lastApplied = rf[j].lastApplied
      BY <1>n DEF Peer
    <3> HIDE DEF t
    <3> QED
      BY <1>q, <2>1, <3>1, <3>2
  <2> QED
    BY <1>1, <1>r, <2>1, <2>2 DEF electSelf
<1>2. ASSUME NEW j \in Server, heartBeatTimeout(j)
      PROVE  kept
  <2>1. CASE rf[j].role = "LEADER"
    <3>1. SendHeartBeats(j, rf[j]) /\ delivered' = delivered
      BY <1>2, <2>1 DEF heartBeatTimeout
    <3>2. /\ rf'[j] \in {rf[j], [rf[j] EXCEPT !.alive = FALSE]}
          /\ \A k \in Server \ {j} : rf'[k] = rf[k]
      BY <1>t, <1>n, <2>1, <3>1, SendHeartBeatsType
    <3>3. rf'[j].lastApplied = rf[j].lastApplied
      BY Zenon, <1>n, <3>2 DEF Peer
    <3> QED
      BY <1>q, <3>1, <3>2, <3>3
  <2> QED
    BY <1>2, <1>r, <2>1 DEF heartBeatTimeout
<1>3. ASSUME NEW j \in Server, ReinitialisedAfterElection(j)
      PROVE  kept
  <2>1. CASE rf[j].role = "CANDIDATE"
    <3>1. PICK t \in Peer :
            /\ delivered' = delivered /\ t.lastApplied = rf[j].lastApplied
            /\ rf'[j] \in {t, [t EXCEPT !.alive = FALSE]}
            /\ \A k \in Server \ {j} : rf'[k] = rf[k]
      BY <1>3, <1>t, <2>1, ReinitialisedEffect
    <3>2. rf'[j].lastApplied = rf[j].lastApplied
      BY <3>1 DEF Peer
    <3> QED
      BY <1>q, <3>1, <3>2
  <2> QED
    BY <1>3, <1>r, <2>1 DEF ReinitialisedAfterElection
<1>4. ASSUME NEW m \in msgs, RequestVote(m)
      PROVE  kept
  <2>1. /\ m.to \in Server /\ m.from \in Server /\ m.term \in Nat /\ rf[m.to] \in Peer
        /\ delivered' = delivered
    BY <1>4, <1>t, <1>n, RequestVoteEffect DEF RequestVoteArgs
  <2>2. PICK t \in Peer, granted \in BOOLEAN :
          /\ hears(rf[m.to], m.term, t)
          /\ persist(m.to, IF granted THEN [t EXCEPT !.votedFor = m.from] ELSE t)
    BY Zenon, <1>4, <1>t, RequestVoteEffect
  <2> DEFINE u == IF granted THEN [t EXCEPT !.votedFor = m.from] ELSE t
  <2>3. u \in Peer /\ u.lastApplied = t.lastApplied
    BY Zenon, <2>1, <2>2 DEF Peer
  <2>4. t.lastApplied = rf[m.to].lastApplied
    BY <2>1, <2>2, HearsType
  <2> QED
    BY Zenon, <1>p, <2>1, <2>2, <2>3, <2>4
<1>5. ASSUME NEW m \in msgs, sendRequestVote(m)
      PROVE  kept
  <2> DEFINE s == rf[m.to]
  <2>1. m.to \in Server /\ s \in Peer /\ s.term \in Nat /\ delivered' = delivered
    BY Zenon, <1>5, <1>t, <1>n, SendRequestVoteEffect DEF RequestVoteReply
  <2>2. ASSUME NEW heard \in BOOLEAN, persist(m.to, stepDown(s, s.term, heard))
        PROVE  kept
    <3>1. /\ stepDown(s, s.term, heard) \in Peer
          /\ stepDown(s, s.term, heard).lastApplied = s.lastApplied
      BY Zenon, <2>1, StepDownType DEF stepDown, Peer
    <3> QED
      BY <1>p, <2>1, <2>2, <3>1
  <2>3. ASSUME NEW tick \in Ticker,
               rf' = [rf EXCEPT ![m.to] = [s EXCEPT !.voteCount = s.voteCount + 1,
                                                    !.ticker = tick]]
        PROVE  kept
    <3>1. ASSUME NEW n
          PROVE  [s EXCEPT !.voteCount = n, !.ticker = tick].lastApplied = s.lastApplied
      BY <2>1 DEF Peer
    <3>2. /\ rf'[m.to] = [s EXCEPT !.voteCount = s.voteCount + 1, !.ticker = tick]
          /\ \A k \in Server \ {m.to} : rf'[k] = rf[k]
      BY Zenon, <1>t, <2>1, <2>3
    <3> QED
      BY Zenon, <1>q, <2>1, <3>1, <3>2
  <2> QED
    BY Zenon, <1>5, <1>t, <2>1, <2>2, <2>3, SendRequestVoteEffect
<1>6. ASSUME NEW m \in msgs, ProcessAppendEntries(m)
      PROVE  kept
  <2>1. /\ m \in AppendEntries /\ m.to \in Server /\ m.term \in Nat /\ rf[m.to] \in Peer
        /\ delivered' = delivered
    BY <1>6, <1>t, <1>n, ProcessAppendEntriesEffect DEF AppendEntries
  <2>2. PICK t \in Peer, u \in Peer :
          /\ hears(rf[m.to], m.term, t)
          /\ u = t \/ appends(t, m, u)
          /\ persist(m.to, u)
    BY <1>6, <1>t, ProcessAppendEntriesEffect
  <2>3. t.lastApplied = rf[m.to].lastApplied
    BY <2>1, <2>2, HearsType
  <2>4. u.lastApplied = t.lastApplied
    BY <2>1, <2>2, AppendsType
  <2> QED
    BY <1>p, <2>1, <2>2, <2>3, <2>4
<1>7. ASSUME NEW m \in msgs, sendAppendEntries(m)
      PROVE  kept
  <2>1. m.to \in Server /\ rf[m.to] \in Peer /\ delivered' = delivered
    BY <1>7, <1>n, SendAppendEntriesEffect DEF AppendEntryReply
  <2>2. PICK t \in Peer :
          /\ persist(m.to, t)
          /\ \/ t = rf[m.to]
             \/ \E heard \in BOOLEAN : t = stepDown(rf[m.to], rf[m.to].term, heard)
             \/ t.lastApplied = rf[m.to].lastApplied
    BY <1>7, SendAppendEntriesEffect
  <2>3. t.lastApplied = rf[m.to].lastApplied
    BY Zenon, <2>1, <2>2 DEF stepDown, Peer
  <2> QED
    BY <1>p, <2>1, <2>2, <2>3
<1>8. ASSUME NEW j \in Server, NEW command \in Command, Start(j, command)
      PROVE  kept
  BY Zenon, <1>8, <1>t, <1>p, StartEffect
<1>9. ASSUME NEW j \in Server, Restart(j)
      PROVE  kept
  BY <1>9, <1>t DEF Restart, Make
<1>10. ASSUME NEW m \in msgs, Lose(m)
       PROVE  kept
  BY <1>10 DEF Lose
<1> QED
  BY <1>1, <1>2, <1>3, <1>4, <1>5, <1>6, <1>7, <1>8, <1>9, <1>10 DEF Next

\* Every step keeps what was delivered in order.
LEMMA DeliveredInvNext == TypeInv /\ DeliveredInv /\ [Next]_vars => DeliveredInv'
<1> SUFFICES ASSUME TypeInv, DeliveredInv, [Next]_vars PROVE DeliveredInv'
  OBVIOUS
<1>t. /\ TypeOK /\ \A i \in Server : rf[i].lastApplied \in Nat
      /\ delivered \subseteq [server : Server, index : Nat, command : Command]
  BY DEF TypeInv, TypeOK, Peer
<1>1. ASSUME NEW i \in Server, applyLogs(i)
      PROVE  DeliveredInv'
  <2> DEFINE s == rf[i]
             first == s.lastApplied
             last == rf'[i].lastApplied
             sent == {[server |-> i, index |-> k, command |-> s.log[k].command] :
                        k \in (first + 1)..last}
  <2>1. /\ delivered' = delivered \cup sent /\ first \in Nat /\ last \in Nat /\ last >= first
        /\ \A j \in Server \ {i} : rf'[j] = rf[j]
    <3>1. rf' \in [Server -> Peer]
      BY <1>1, <1>t, ApplyLogsEffect
    <3>2. last \in Nat
      BY <3>1 DEF Peer
    <3> QED
      BY <1>1, <1>t, <3>2, ApplyLogsEffect
  <2>2. \A k \in 1..last : \E d \in delivered' : d.server = i /\ d.index = k
    <3> SUFFICES ASSUME NEW k \in 1..last
                 PROVE  \E d \in delivered' : d.server = i /\ d.index = k
      OBVIOUS
    <3>1. CASE k <= first
      BY <2>1, <3>1 DEF DeliveredInv
    <3>2. CASE k > first
      <4> DEFINE d == [server |-> i, index |-> k, command |-> s.log[k].command]
      <4>1. d \in sent /\ d.server = i /\ d.index = k
        BY <2>1, <3>2
      <4> HIDE DEF d, sent
      <4> QED
        BY <2>1, <4>1
    <3> QED
      BY <2>1, <3>1, <3>2
  <2>3. ASSUME NEW d \in delivered', d.index > 1
        PROVE  \E e \in delivered' : e.server = d.server /\ e.index = d.index - 1
    <3>1. CASE d \in delivered
      BY <2>1, <2>3, <3>1 DEF DeliveredInv, DeliveredInOrder
    <3>2. CASE d \in sent
      <4>1. d.server = i /\ d.index \in 1..last
        BY <2>1, <3>2
      <4>2. d.index - 1 \in 1..last
        BY <2>1, <2>3, <4>1
      <4> QED
        BY <2>2, <4>1, <4>2
    <3> QED
      BY <2>1, <3>1, <3>2
  <2>4. \A j \in Server \ {i} : \A k \in 1..rf'[j].lastApplied :
           \E d \in delivered' : d.server = j /\ d.index = k
    BY <2>1 DEF DeliveredInv
  <2>5. DeliveredInOrder'
    BY <2>3 DEF DeliveredInOrder
  <2> HIDE DEF last
  <2>6. \A j \in Server : \A k \in 1..rf'[j].lastApplied :
           \E d \in delivered' : d.server = j /\ d.index = k
    BY <2>2, <2>4 DEF last
  <2> QED
    BY <2>5, <2>6 DEF DeliveredInv
<1>2. ASSUME delivered' = delivered,
             \A i \in Server : rf'[i].lastApplied \in {0, rf[i].lastApplied}
      PROVE  DeliveredInv'
  <2>1. DeliveredInOrder'
    BY <1>2 DEF DeliveredInv, DeliveredInOrder
  <2>2. ASSUME NEW i \in Server, NEW k \in 1..rf'[i].lastApplied
        PROVE  \E d \in delivered' : d.server = i /\ d.index = k
    <3>1. k \in 1..rf[i].lastApplied
      BY <1>2, <1>t, <2>2
    <3> QED
      BY <1>2, <3>1 DEF DeliveredInv
  <2> QED
    BY <2>1, <2>2 DEF DeliveredInv
<1>3. CASE UNCHANGED vars
  BY <1>2, <1>3 DEF vars
<1>4. CASE Next
  <2>1. CASE \E j \in Server : applyLogs(j)
    BY <1>1, <2>1
  <2>2. CASE ~ \E j \in Server : applyLogs(j)
    <3>1. \A i \in Server :
             delivered' = delivered /\ rf'[i].lastApplied \in {0, rf[i].lastApplied}
      BY <1>4, <2>2, DeliveredStep
    <3>2. Server # {}
      BY ConstantsAssumption
    <3> QED
      BY <1>2, <3>1, <3>2
  <2> QED
    BY <2>1, <2>2
<1> QED
  BY <1>3, <1>4

\* What each peer sends up its applyCh is gap-free from index 1, through
\* every restart.
THEOREM DeliveryInOrder == Spec => []DeliveredInOrder
<1>1. Init => DeliveredInv
  BY DEF Init, DeliveredInv, DeliveredInOrder, Make
<1>2. DeliveredInv => DeliveredInOrder
  BY DEF DeliveredInv
<1> QED
  BY <1>1, <1>2, TypeInvInit, TypeInvNext, DeliveredInvNext, PTL DEF Spec

-----------------------------------------------------------------------------
(* The terms along a log.                                                  *)

\* What LogInv says of one request.
orderedRequest(m) ==
  m.type = "AppendEntries" =>
    /\ ordered(m.entries, m.term)
    /\ Len(m.entries) > 0 => m.prevLogTerm <= m.entries[1].term

\* A log stays ordered when the term rises.
LEMMA OrderedMonotone ==
  ASSUME NEW entries \in Seq(LogEntry), NEW t \in Nat, NEW u \in Nat, u >= t,
         ordered(entries, t)
  PROVE  ordered(entries, u)
<1> SUFFICES ASSUME NEW k \in 1..Len(entries)
             PROVE  /\ entries[k].term \in 1..u
                    /\ k > 1 => entries[k - 1].term <= entries[k].term
  BY DEF ordered
<1>1. entries[k].term \in 1..t
  BY DEF ordered
<1>2. k > 1 => entries[k - 1].term <= entries[k].term
  BY DEF ordered
<1> QED
  BY <1>1, <1>2

\* Start appends an entry of the current term, the largest there is.
LEMMA OrderedAppend ==
  ASSUME NEW log \in Seq(LogEntry), NEW t \in Nat, t >= 1, ordered(log, t),
         NEW e \in LogEntry, e.term = t
  PROVE  ordered(Append(log, e), t)
<1> DEFINE new == Append(log, e)
<1>1. /\ Len(log) \in Nat /\ Len(new) = Len(log) + 1 /\ new[Len(log) + 1] = e
      /\ \A k \in 1..Len(log) : new[k] = log[k]
  OBVIOUS
<1> SUFFICES ASSUME NEW k \in 1..Len(new)
             PROVE  /\ new[k].term \in 1..t
                    /\ k > 1 => new[k - 1].term <= new[k].term
  BY DEF ordered
<1> HIDE DEF new
<1>2. CASE k \in 1..Len(log)
  <2>1. k > 1 => k - 1 \in 1..Len(log)
    BY <1>1, <1>2
  <2>2. /\ log[k].term \in 1..t
        /\ k > 1 => log[k - 1].term <= log[k].term
    BY <1>2 DEF ordered
  <2> QED
    BY <1>1, <1>2, <2>1, <2>2
<1>3. CASE k = Len(log) + 1
  <2>1. k > 1 => k - 1 \in 1..Len(log)
    BY <1>1, <1>3
  <2>2. k > 1 => log[k - 1].term \in 1..t
    BY <2>1 DEF ordered
  <2> QED
    BY <1>1, <1>3, <2>1, <2>2
<1> QED
  BY <1>1, <1>2, <1>3

\* What SendHeartBeats sends is ordered, and continues the entry before it.
LEMMA OrderedSuffix ==
  ASSUME NEW i \in Server, NEW j \in Server, NEW s \in Peer,
         freeCalls(i, j, s.term) # {},
         s.nextIndex[j] >= 1, s.nextIndex[j] - 1 <= getLastLogIndex(s),
         ordered(s.log, s.term)
  PROVE  orderedRequest(appendEntriesFor(i, s, j))
<1> DEFINE m == appendEntriesFor(i, s, j)
           prev == s.nextIndex[j] - 1
<1>0. suffixRequest(m, i, s, j)
  BY Zenon, AppendEntriesForType
<1> HIDE DEF m
<1>1. /\ m \in AppendEntries /\ m.term = s.term /\ m.prevLogTerm = termAt(s, prev)
      /\ prev \in 0..Len(s.log) /\ Len(m.entries) = Len(s.log) - prev
      /\ \A n \in 1..Len(m.entries) : m.entries[n] = s.log[prev + n]
  BY Zenon, <1>0 DEF suffixRequest
<1> HIDE DEF prev
<1>2. s.log \in Seq(LogEntry) /\ Len(s.log) \in Nat
  BY DEF Peer
<1>3. ordered(m.entries, m.term)
  <2> SUFFICES ASSUME NEW k \in 1..Len(m.entries)
               PROVE  /\ m.entries[k].term \in 1..m.term
                      /\ k > 1 => m.entries[k - 1].term <= m.entries[k].term
    BY DEF ordered
  <2> DEFINE q == prev + k
  <2>1. q \in 1..Len(s.log) /\ (k > 1 => k - 1 \in 1..Len(m.entries))
    BY <1>1, <1>2
  <2>3. k > 1 => prev + (k - 1) = q - 1 /\ q > 1
    BY <1>1, <1>2
  <2> HIDE DEF q
  <2>2. /\ s.log[q].term \in 1..s.term
        /\ q > 1 => s.log[q - 1].term <= s.log[q].term
    BY <2>1 DEF ordered
  <2> USE DEF q
  <2> QED
    BY Zenon, <1>1, <2>1, <2>2, <2>3
<1>4. Len(m.entries) > 0 => m.prevLogTerm <= m.entries[1].term
  <2> SUFFICES ASSUME Len(m.entries) > 0 PROVE m.prevLogTerm <= m.entries[1].term
    OBVIOUS
  <2>1. m.entries[1] = s.log[prev + 1] /\ prev + 1 \in 1..Len(s.log)
    BY <1>1, <1>2
  <2>2. s.log[prev + 1].term \in 1..s.term
    BY <2>1 DEF ordered
  <2>3. CASE prev = 0
    <3>1. m.prevLogTerm = 0
      BY <1>1, <2>3 DEF termAt
    <3> QED
      BY <2>1, <2>2, <3>1
  <2>4. CASE prev # 0
    <3>1. m.prevLogTerm = s.log[prev].term
      BY <1>1, <2>4 DEF termAt
    <3>2. \A q \in 1..Len(s.log) : q > 1 => s.log[q - 1].term <= s.log[q].term
      BY DEF ordered
    <3>3. s.log[prev].term <= s.log[prev + 1].term
      <4>1. PICK q \in 1..Len(s.log) : q = prev + 1
        BY <2>1
      <4>2. q > 1 /\ q - 1 = prev
        BY <1>1, <1>2, <2>4, <4>1
      <4>3. s.log[q - 1].term <= s.log[q].term
        BY <3>2, <4>2
      <4> QED
        BY <4>1, <4>2, <4>3
    <3> QED
      BY <2>1, <3>1, <3>3
  <2> QED
    BY <2>3, <2>4
<1> QED
  BY <1>3, <1>4 DEF orderedRequest, m

\* Cutting a follower's log where it parts from the request, and appending
\* the rest of the request, leaves it ordered.
LEMMA OrderedAppendToLog ==
  ASSUME NEW s \in Peer, NEW m \in AppendEntries, orderedRequest(m),
         m.prevLogIndex \in 0..Len(s.log),
         termAt(s, m.prevLogIndex) = m.prevLogTerm,
         s.term = m.term, ordered(s.log, s.term)
  PROVE  ordered(appendToLog(s, m.prevLogIndex, m.entries), s.term)
<1> DEFINE prev == m.prevLogIndex
           k == agreeing(s, prev, m.entries)
           log == appendToLog(s, prev, m.entries)
<1>1. /\ s.log \in Seq(LogEntry) /\ Len(s.log) \in Nat /\ prev \in 0..Len(s.log)
      /\ m.entries \in Seq(LogEntry) /\ Len(m.entries) \in Nat /\ s.term \in Nat
  BY DEF Peer, AppendEntries
<1>2. /\ ordered(m.entries, s.term)
      /\ Len(m.entries) > 0 => termAt(s, prev) <= m.entries[1].term
  BY DEF orderedRequest, AppendEntries
<1>3. /\ k \in Nat /\ k <= Len(m.entries) /\ prev + k <= Len(s.log)
      /\ \A j \in 1..k : s.log[prev + j].term = m.entries[j].term
  BY Zenon, <1>1, AgreeingType
<1>4. /\ Len(log) = prev + Len(m.entries)
      /\ \A n \in 1..Len(log) :
           log[n] = IF n <= prev + k THEN s.log[n] ELSE m.entries[n - prev]
  BY Zenon, <1>1, AppendToLogType
<1> HIDE DEF k, log, prev
<1> SUFFICES ASSUME NEW n \in 1..Len(log)
             PROVE  /\ log[n].term \in 1..s.term
                    /\ n > 1 => log[n - 1].term <= log[n].term
  BY DEF ordered, log, prev
<1>5. n > 1 => n - 1 \in 1..Len(log)
  BY <1>1, <1>4
<1>6. CASE n <= prev + k
  <2>1. n \in 1..Len(s.log) /\ log[n] = s.log[n]
    <3>1. log[n] = s.log[n]
      BY <1>4, <1>6
    <3> QED
      BY <1>1, <1>3, <1>6, <3>1
  <2>2. n > 1 => log[n - 1] = s.log[n - 1]
    BY <1>1, <1>3, <1>4, <1>5, <1>6
  <2>3. s.log[n].term \in 1..s.term /\ (n > 1 => s.log[n - 1].term <= s.log[n].term)
    BY <2>1 DEF ordered
  <2> QED
    BY <2>1, <2>2, <2>3
<1>7. CASE n > prev + k
  <2> DEFINE q == n - prev
  <2>1. q \in 1..Len(m.entries) /\ q > k /\ log[n] = m.entries[q]
    <3>1. n \in Nat /\ n <= prev + Len(m.entries)
      BY <1>1, <1>4
    <3>2. ~(n <= prev + k)
      BY <1>1, <1>3, <1>7
    <3>3. log[n] = m.entries[q]
      BY <1>4, <3>2
    <3> QED
      BY <1>1, <1>3, <1>7, <3>1, <3>3
  <2>2. m.entries[q].term \in 1..s.term
        /\ (q > 1 => m.entries[q - 1].term <= m.entries[q].term)
    BY <1>2, <2>1 DEF ordered
  <2>3. CASE q > k + 1
    <3>1. n - 1 > prev + k /\ n > 1 /\ (n - 1) - prev = q - 1 /\ q > 1
      BY <1>1, <1>3, <2>1, <2>3
    <3>2. log[n - 1] = m.entries[q - 1]
      BY <1>1, <1>3, <1>4, <1>5, <3>1
    <3> QED
      BY <2>1, <2>2, <3>1, <3>2
  <2>4. CASE q = k + 1 /\ k > 0
    <3>1. n - 1 = prev + k /\ n > 1 /\ q > 1 /\ q - 1 = k /\ k \in 1..k
      BY <1>1, <1>3, <2>1, <2>4
    <3>2. log[n - 1] = s.log[prev + k]
      BY <1>1, <1>3, <1>4, <1>5, <3>1
    <3>3. s.log[prev + k].term = m.entries[k].term
      BY <1>3, <3>1
    <3> QED
      BY <2>1, <2>2, <3>1, <3>2, <3>3
  <2>5. CASE q = k + 1 /\ k = 0
    <3>1. q = 1 /\ n = prev + 1 /\ n - 1 = prev /\ Len(m.entries) > 0
      BY <1>1, <2>1, <2>5
    <3>2. n > 1 => prev # 0 /\ n - 1 <= prev + k
      BY <1>1, <1>3, <3>1, <2>5
    <3>3. n > 1 => log[n - 1] = s.log[prev]
      BY Zenon, <1>4, <1>5, <3>1, <3>2
    <3>4. n > 1 => termAt(s, prev) = s.log[prev].term
      BY <3>2 DEF termAt
    <3>5. termAt(s, prev) <= m.entries[1].term
      BY Zenon, <1>2, <3>1
    <3> QED
      BY Zenon, <2>1, <2>2, <3>1, <3>3, <3>4, <3>5
  <2> QED
    BY <1>3, <2>1, <2>3, <2>4, <2>5
<1> QED
  BY <1>1, <1>3, <1>6, <1>7

\* A step of one peer whose log stays ordered and whose new requests are.
LEMMA LogInvStep ==
  ASSUME LogInv, NEW i \in Server, \A j \in Server \ {i} : rf'[j] = rf[j],
         ordered(rf'[i].log, rf'[i].term),
         rf'[i].role # "FOLLOWER" => rf'[i].term >= 1,
         \A m \in msgs' \ msgs : orderedRequest(m)
  PROVE  LogInv'
<1>1. \A j \in Server : /\ ordered(rf'[j].log, rf'[j].term)
                        /\ rf'[j].role # "FOLLOWER" => rf'[j].term >= 1
  BY DEF LogInv
<1>2. \A m \in msgs' : orderedRequest(m)
  BY DEF LogInv, orderedRequest
<1> QED
  BY <1>1, <1>2 DEF LogInv, orderedRequest, ordered

\* Every step keeps the logs and the entries in flight ordered.
LEMMA LogInvNext == TypeInv /\ DiskIsCurrent /\ LogInv /\ [Next]_vars => LogInv'
<1> SUFFICES ASSUME TypeInv, DiskIsCurrent, LogInv, [Next]_vars PROVE LogInv'
  OBVIOUS
<1>t. /\ TypeOK /\ rf \in [Server -> Peer] /\ msgs \subseteq Message
  BY DEF TypeInv, TypeOK
<1>n. \A i \in Server :
        /\ rf[i] \in Peer /\ rf[i].term \in Nat /\ rf[i].log \in Seq(LogEntry)
        /\ rf[i].role = "LEADER" => \A j \in Server : rf[i].nextIndex[j] >= 1
        /\ ordered(rf[i].log, rf[i].term)
        /\ rf[i].role # "FOLLOWER" => rf[i].term >= 1
  BY <1>t DEF TypeInv, NextIndexPositive, Peer, LogInv
<1>k. ASSUME NEW i \in Server, \A j \in Server \ {i} : rf'[j] = rf[j],
             rf'[i].term = rf[i].term, rf'[i].log = rf[i].log,
             rf'[i].role \in {rf[i].role, "FOLLOWER"},
             \A m \in msgs' \ msgs : orderedRequest(m)
      PROVE  LogInv'
  BY <1>k, <1>n, LogInvStep
<1>r. ASSUME NEW i \in Server, rf' = [rf EXCEPT ![i].ticker = rf[i].role], msgs' = msgs
      PROVE  LogInv'
  <2>1. /\ rf'[i] = [rf[i] EXCEPT !.ticker = rf[i].role]
        /\ \A j \in Server \ {i} : rf'[j] = rf[j]
    BY <1>r, <1>t
  <2>2. /\ rf'[i].term = rf[i].term /\ rf'[i].log = rf[i].log
        /\ rf'[i].role = rf[i].role
    BY <1>n, <2>1 DEF Peer
  <2> QED
    BY <1>k, <1>r, <2>1, <2>2
<1>h. ASSUME NEW i \in Server, NEW t \in Peer, SendHeartBeats(i, t),
             \A j \in Server : t.nextIndex[j] >= 1,
             t.term = rf[i].term, t.log = rf[i].log, t.term >= 1
      PROVE  LogInv'
  <2>1. /\ rf'[i] \in {t, [t EXCEPT !.alive = FALSE]}
        /\ \A j \in Server \ {i} : rf'[j] = rf[j]
    BY <1>h, <1>t, SendHeartBeatsType
  <2>2. rf'[i].term = rf[i].term /\ rf'[i].log = rf[i].log
    BY <1>h, <2>1 DEF Peer
  <2>3. ASSUME NEW m \in msgs' \ msgs PROVE orderedRequest(m)
    <3>1. PICK j \in Server \ {i} :
            /\ m = appendEntriesFor(i, t, j)
            /\ freeCalls(i, j, t.term) # {}
            /\ t.nextIndex[j] - 1 <= getLastLogIndex(t)
      BY <1>h, <1>t, SendHeartBeatsType
    <3>2. ordered(t.log, t.term) /\ t.nextIndex[j] >= 1
      BY <1>h, <1>n
    <3> QED
      BY <3>1, <3>2, OrderedSuffix
  <2>4. rf'[i].term >= 1 /\ ordered(rf'[i].log, rf'[i].term)
    BY <1>h, <1>n, <2>2
  <2> QED
    BY <2>1, <2>3, <2>4, LogInvStep
<1>1. ASSUME NEW i \in Server, NEW role \in {"FOLLOWER", "CANDIDATE"}, electSelf(i, role)
      PROVE  LogInv'
  <2> DEFINE s == rf[i]
             t == [s EXCEPT !.role = "CANDIDATE", !.term = @ + 1,
                            !.votedFor = i, !.voteCount = 1, !.ticker = "CANDIDATE"]
  <2>1. CASE s.role = role
    <3>1. persist(i, t) /\ msgs' = msgs \cup BroadCastRequestVote(i, t)
      BY <1>1, <2>1 DEF electSelf
    <3>2. t.term = s.term + 1 /\ t.log = s.log
      BY <1>n DEF Peer
    <3> HIDE DEF t
    <3>3. rf'[i] = t /\ \A j \in Server \ {i} : rf'[j] = rf[j]
      BY <1>t, <3>1 DEF persist
    <3>4. t.term \in Nat /\ t.term >= 1 /\ t.term >= s.term
      BY <1>n, <3>2
    <3>5. ordered(t.log, t.term)
      BY <1>n, <3>2, <3>4, OrderedMonotone
    <3>6. \A m \in msgs' \ msgs : orderedRequest(m)
      BY <3>1 DEF BroadCastRequestVote, orderedRequest
    <3> QED
      BY <3>3, <3>4, <3>5, <3>6, LogInvStep
  <2> QED
    BY <1>1, <1>r, <2>1 DEF electSelf
<1>2. ASSUME NEW i \in Server, heartBeatTimeout(i)
      PROVE  LogInv'
  <2>1. CASE rf[i].role = "LEADER"
    BY <1>2, <1>h, <1>n, <2>1 DEF heartBeatTimeout
  <2> QED
    BY <1>2, <1>r, <2>1 DEF heartBeatTimeout
<1>3. ASSUME NEW i \in Server, ReinitialisedAfterElection(i)
      PROVE  LogInv'
  <2>1. CASE rf[i].role = "CANDIDATE"
    <3>1. PICK t \in Peer :
            /\ SendHeartBeats(i, t) /\ \A j \in Server : t.nextIndex[j] >= 1
            /\ t.term = rf[i].term /\ t.log = rf[i].log
      BY <1>3, <1>t, <2>1, ReinitialisedEffect
    <3> QED
      BY <1>h, <1>n, <2>1, <3>1
  <2> QED
    BY <1>3, <1>r, <2>1 DEF ReinitialisedAfterElection
<1>4. ASSUME NEW m \in msgs, RequestVote(m)
      PROVE  LogInv'
  <2> DEFINE i == m.to
  <2>1. i \in Server /\ m.from \in Server /\ m.term \in Nat /\ rf[i] \in Peer
    BY <1>4, <1>t, <1>n, RequestVoteEffect DEF RequestVoteArgs
  <2>2. PICK t \in Peer, granted \in BOOLEAN :
          /\ hears(rf[i], m.term, t)
          /\ persist(i, IF granted THEN [t EXCEPT !.votedFor = m.from] ELSE t)
          /\ msgs' = (msgs \ {m}) \cup
               {[type |-> "RequestVoteReply", args |-> m.term, from |-> i, to |-> m.from,
                 term |-> t.term, voteGranted |-> granted]}
    BY <1>4, <1>t, RequestVoteEffect
  <2> DEFINE u == IF granted THEN [t EXCEPT !.votedFor = m.from] ELSE t
  <2>3. u \in Peer /\ u.term = t.term /\ u.log = t.log /\ u.role = t.role /\ t.term \in Nat
    BY Zenon, <2>1, <2>2 DEF Peer
  <2>4. /\ t.term >= rf[i].term /\ t.log = rf[i].log
        /\ t.role = "FOLLOWER" \/ t = rf[i]
    BY <2>1, <2>2, HearsType
  <2>5. \A k \in msgs' \ msgs : orderedRequest(k)
    BY <2>2 DEF orderedRequest
  <2> HIDE DEF u
  <2>6. rf'[i] = u /\ \A j \in Server \ {i} : rf'[j] = rf[j]
    BY <1>t, <2>1, <2>2, <2>3, PersistType DEF u
  <2>7. ordered(u.log, u.term) /\ (u.role # "FOLLOWER" => u.term >= 1)
    BY <1>n, <2>1, <2>3, <2>4, OrderedMonotone
  <2> QED
    BY <2>1, <2>5, <2>6, <2>7, LogInvStep
<1>5. ASSUME NEW m \in msgs, sendRequestVote(m)
      PROVE  LogInv'
  <2> DEFINE i == m.to
             s == rf[i]
  <2>1. i \in Server /\ s \in Peer /\ s.term \in Nat /\ msgs' = msgs \ {m}
    BY Zenon, <1>5, <1>t, <1>n, SendRequestVoteEffect DEF RequestVoteReply
  <2>2. CASE UNCHANGED <<rf, disk>>
    BY <1>k, <2>1, <2>2
  <2>3. ASSUME NEW heard \in BOOLEAN, persist(i, stepDown(s, s.term, heard))
        PROVE  LogInv'
    <3> DEFINE t == stepDown(s, s.term, heard)
    <3>1. t \in Peer /\ t.term = s.term /\ t.log = s.log /\ t.role = "FOLLOWER"
      BY Zenon, <2>1, StepDownType DEF stepDown, Peer
    <3> HIDE DEF t
    <3>2. rf'[i] = t /\ \A j \in Server \ {i} : rf'[j] = rf[j]
      BY <1>t, <2>1, <2>3, <3>1, PersistType DEF t
    <3> QED
      BY <1>k, <2>1, <3>1, <3>2
  <2>4. ASSUME NEW tick \in Ticker,
               rf' = [rf EXCEPT ![i] = [s EXCEPT !.voteCount = s.voteCount + 1,
                                                 !.ticker = tick]]
        PROVE  LogInv'
    <3>1. ASSUME NEW n
          PROVE  LET u == [s EXCEPT !.voteCount = n, !.ticker = tick]
                 IN  u.term = s.term /\ u.log = s.log /\ u.role = s.role
      BY <2>1 DEF Peer
    <3>2. /\ rf'[i] = [s EXCEPT !.voteCount = s.voteCount + 1, !.ticker = tick]
          /\ \A j \in Server \ {i} : rf'[j] = rf[j]
      BY Zenon, <1>t, <2>1, <2>4
    <3>3. rf'[i].term = s.term /\ rf'[i].log = s.log /\ rf'[i].role = s.role
      BY <3>1, <3>2
    <3> QED
      BY Zenon, <1>k, <2>1, <3>2, <3>3
  <2> QED
    BY Zenon, <1>5, <1>t, <2>2, <2>3, <2>4, SendRequestVoteEffect
<1>6. ASSUME NEW m \in msgs, ProcessAppendEntries(m)
      PROVE  LogInv'
  <2> DEFINE i == m.to
  <2>1. /\ m \in AppendEntries /\ i \in Server /\ m.term \in Nat /\ rf[i] \in Peer
        /\ m.type = "AppendEntries"
    BY <1>6, <1>t, <1>n, ProcessAppendEntriesEffect DEF AppendEntries
  <2>2. PICK t \in Peer, u \in Peer, success \in BOOLEAN,
             cIndex \in Nat \cup {-1}, cTerm \in Nat \cup {-1} :
          /\ hears(rf[i], m.term, t)
          /\ u = t \/ appends(t, m, u)
          /\ persist(i, u)
          /\ msgs' = (msgs \ {m}) \cup {replyTo(m, u, success, cIndex, cTerm)}
    BY <1>6, <1>t, ProcessAppendEntriesEffect
  <2>3. /\ t.term >= rf[i].term /\ t.log = rf[i].log /\ t.term \in Nat
        /\ t.role = "FOLLOWER" \/ t = rf[i]
    <3>1. t.term \in Nat
      BY DEF Peer
    <3> QED
      BY <2>1, <2>2, <3>1, HearsType
  <2>4. ordered(t.log, t.term) /\ (t.role # "FOLLOWER" => t.term >= 1)
    BY <1>n, <2>1, <2>3, OrderedMonotone
  <2>5. ordered(u.log, u.term) /\ u.term = t.term /\ u.role = t.role
    <3>1. CASE appends(t, m, u)
      <4>1. orderedRequest(m)
        BY DEF LogInv, orderedRequest
      <4>2. /\ m.prevLogIndex \in 0..Len(t.log) /\ t.term = m.term
            /\ termAt(t, m.prevLogIndex) = m.prevLogTerm
        BY <3>1 DEF appends
      <4>3. /\ u.log = appendToLog(t, m.prevLogIndex, m.entries)
            /\ u.term = t.term /\ u.role = t.role
        BY <2>1, <3>1, AppendsType
      <4>4. ordered(appendToLog(t, m.prevLogIndex, m.entries), t.term)
        BY <2>1, <2>4, <4>1, <4>2, OrderedAppendToLog
      <4> QED
        BY <4>3, <4>4
    <3> QED
      BY <2>2, <2>4, <3>1
  <2>6. rf'[i] = u /\ \A j \in Server \ {i} : rf'[j] = rf[j]
    BY <1>t, <2>1, <2>2, PersistType
  <2>7. \A k \in msgs' \ msgs : orderedRequest(k)
    BY <2>2 DEF orderedRequest, replyTo
  <2> QED
    BY <2>1, <2>4, <2>5, <2>6, <2>7, LogInvStep
<1>7. ASSUME NEW m \in msgs, sendAppendEntries(m)
      PROVE  LogInv'
  <2> DEFINE i == m.to
             s == rf[i]
  <2>1. i \in Server /\ s \in Peer /\ msgs' = msgs \ {m}
    BY <1>7, <1>n, SendAppendEntriesEffect DEF AppendEntryReply
  <2>2. PICK t \in Peer :
          /\ persist(i, t)
          /\ \/ t = s
             \/ \E heard \in BOOLEAN : t = stepDown(s, s.term, heard)
             \/ t.term = s.term /\ t.log = s.log /\ t.role = s.role
    BY <1>7, SendAppendEntriesEffect
  <2>3. t.term = s.term /\ t.log = s.log /\ t.role \in {s.role, "FOLLOWER"}
    BY Zenon, <2>1, <2>2 DEF stepDown, Peer
  <2>4. rf'[i] = t /\ \A j \in Server \ {i} : rf'[j] = rf[j]
    BY <1>t, <2>1, <2>2, PersistType
  <2> QED
    BY <1>k, <2>1, <2>3, <2>4
<1>8. ASSUME NEW i \in Server, NEW command \in Command, Start(i, command)
      PROVE  LogInv'
  <2> DEFINE s == rf[i]
             entry == [term |-> s.term, command |-> command]
  <2>1. msgs' = msgs
    BY <1>8 DEF Start
  <2>2. CASE UNCHANGED <<rf, disk>>
    BY <1>k, <2>1, <2>2
  <2>3. ASSUME NEW t \in Peer, persist(i, t), s.role = "LEADER",
               t.log = Append(s.log, entry), t.term = s.term
        PROVE  LogInv'
    <3>1. entry \in LogEntry /\ entry.term = s.term /\ s.term >= 1
      BY <1>n, <2>3 DEF LogEntry
    <3> HIDE DEF entry
    <3>2. ordered(t.log, t.term)
      BY <1>n, <2>3, <3>1, OrderedAppend
    <3>3. rf'[i] = t /\ \A j \in Server \ {i} : rf'[j] = rf[j]
      BY <1>t, <2>3, PersistType
    <3> QED
      BY Zenon, <2>1, <2>3, <3>1, <3>2, <3>3, LogInvStep
  <2> QED
    BY <1>8, <1>t, <2>2, <2>3, StartEffect
<1>9. ASSUME NEW i \in Server, applyLogs(i)
      PROVE  LogInv'
  BY <1>9, <1>t, <1>k, ApplyLogsEffect
<1>10. ASSUME NEW i \in Server, Restart(i)
       PROVE  LogInv'
  <2>1. /\ msgs' = msgs /\ \A j \in Server \ {i} : rf'[j] = rf[j]
        /\ rf'[i] = Make(disk[i]) /\ disk[i] = encoded(rf[i])
    BY <1>10, <1>t DEF Restart, DiskIsCurrent
  <2>2. rf'[i].term = rf[i].term /\ rf'[i].log = rf[i].log /\ rf'[i].role = "FOLLOWER"
    BY <2>1 DEF Make, encoded
  <2> QED
    BY <1>k, <2>1, <2>2
<1>11. ASSUME NEW m \in msgs, Lose(m)
       PROVE  LogInv'
  BY <1>11 DEF Lose, LogInv, ordered
<1>12. CASE UNCHANGED vars
  BY <1>12 DEF vars, LogInv, ordered
<1> QED
  BY <1>1, <1>2, <1>3, <1>4, <1>5, <1>6, <1>7, <1>8, <1>9, <1>10, <1>11, <1>12 DEF Next

\* Along every log the terms rise and stay below CurrentTerm, whatever stale
\* requests cut and refill it.
THEOREM LogsOrdered == Spec => []LogTermsOrdered
<1>1. Init => LogInv
  BY DEF Init, LogInv, ordered, Make
<1>2. LogInv => LogTermsOrdered
  BY DEF LogInv, LogTermsOrdered
<1>3. Spec => []TypeInv
  BY TypeInvInit, TypeInvNext, PTL DEF Spec
<1> QED
  BY <1>1, <1>2, <1>3, DiskCurrent, LogInvNext, PTL DEF Spec

\* A leader never has a NextIndex of 0 for any peer, so the heartbeat never
\* reads Log at index -1.
THEOREM NextIndexStaysPositive == Spec => []NextIndexPositive
<1>1. TypeInv => NextIndexPositive
  BY DEF TypeInv
<1> QED
  BY <1>1, TypeInvInit, TypeInvNext, PTL DEF Spec

-----------------------------------------------------------------------------
(* Elections.                                                              *)
(*                                                                         *)
(* The argument.  A candidate's VoteCount is at most one more than the     *)
(* number of peers in returned(i), those that voted for it and whose reply *)
(* is no longer in flight.  Two leaders of one term therefore each have a  *)
(* majority {i} \cup returned(i) behind them; a common member has either   *)
(* voted for both, or is one of the two and voted for the other.           *)

\* A vote request and its reply are about a vote between two peers.
LEMMA BallotType ==
  ASSUME TypeOK, NEW m \in ballots
  PROVE  /\ ballot(m) \in [voter : Server, candidate : Server, term : Nat]
         /\ m \in msgs /\ m.from \in Server /\ m.to \in Server
         /\ m.type = "RequestVote" => m \in RequestVoteArgs
         /\ m.type = "RequestVoteReply" => m \in RequestVoteReply
<1>1. m \in msgs /\ m \in Message /\ m.type \in {"RequestVote", "RequestVoteReply"}
  BY DEF ballots, TypeOK
<1>2. CASE m.type = "RequestVote"
  BY <1>1, <1>2, MessageKinds DEF ballot, RequestVoteArgs
<1>3. CASE m.type = "RequestVoteReply"
  BY <1>1, <1>3, MessageKinds DEF ballot, RequestVoteReply
<1> QED
  BY <1>1, <1>2, <1>3

\* The peers whose votes have come back are finitely many, and other than the candidate.
LEMMA ReturnedFinite ==
  ASSUME NEW i \in Server
  PROVE  /\ IsFiniteSet(Server) /\ Cardinality(Server) \in Nat
         /\ IsFiniteSet(returned(i)) /\ Cardinality(returned(i)) \in Nat
         /\ returned(i) \subseteq Server \ {i}
<1>1. returned(i) \subseteq Server \ {i} /\ returned(i) \subseteq Server
  BY DEF returned
<1> QED
  BY <1>1, ConstantsAssumption, FS_Subset, FS_CardinalityType

\* The same after a step.
LEMMA ReturnedFiniteNext ==
  ASSUME NEW i \in Server
  PROVE  IsFiniteSet(returned(i)') /\ Cardinality(returned(i)') \in Nat
<1>1. returned(i)' \subseteq Server
  BY DEF returned
<1> QED
  BY <1>1, ConstantsAssumption, FS_Subset, FS_CardinalityType

\* The set of returned votes of a term only grows, as long as no new ballot
\* of that candidate is sent.
LEMMA ReturnedGrows ==
  ASSUME NEW i \in Server, rf'[i].term = rf[i].term, votes \subseteq votes',
         \A m \in ballots' : ballot(m).candidate = i =>
            \E n \in ballots : ballot(n) = ballot(m)
  PROVE  /\ returned(i) \subseteq returned(i)'
         /\ Cardinality(returned(i)) <= Cardinality(returned(i)')
<1>1. returned(i) \subseteq returned(i)'
  <2> SUFFICES ASSUME NEW j \in returned(i) PROVE j \in returned(i)'
    OBVIOUS
  <2> DEFINE v == [voter |-> j, candidate |-> i, term |-> rf[i].term]
  <2>1. j \in Server \ {i} /\ v \in votes /\ \A m \in ballots : ballot(m) # v
    BY DEF returned
  <2>2. ASSUME NEW m \in ballots' PROVE ballot(m) # v
    <3>1. v.candidate = i
      OBVIOUS
    <3> HIDE DEF v
    <3> QED
      BY <2>1, <3>1
  <2>3. [voter |-> j, candidate |-> i, term |-> rf'[i].term] = v
    OBVIOUS
  <2> HIDE DEF v
  <2> QED
    BY <2>1, <2>2, <2>3 DEF returned
<1>2. returned(i)' \subseteq Server
  BY DEF returned
<1> QED
  BY <1>1, <1>2, ConstantsAssumption, FS_Subset

\* Two leaders of one term would have a common voter.
LEMMA ElectionSafety ==
  ASSUME TypeOK, ElectionInv PROVE OneLeaderAtATime
<1> SUFFICES ASSUME NEW i \in Server, NEW j \in Server, i # j,
                    rf[i].role = "LEADER", rf[j].role = "LEADER",
                    rf[i].term = rf[j].term
             PROVE  FALSE
  BY DEF OneLeaderAtATime
<1>1. ASSUME NEW k \in Server, rf[k].role = "LEADER"
      PROVE  LET Q == {k} \cup returned(k) IN
             /\ Q \subseteq Server /\ IsFiniteSet(Q)
             /\ 2 * Cardinality(Q) > Cardinality(Server)
  <2> DEFINE Q == {k} \cup returned(k)
  <2>1. /\ rf[k].voteCount <= 1 + Cardinality(returned(k))
        /\ rf[k].voteCount > Cardinality(Server) \div 2
        /\ rf[k].voteCount \in Nat
    BY Zenon, <1>1 DEF ElectionInv, CandidatesInv, elected, TypeOK, Peer
  <2>2. /\ IsFiniteSet(returned(k)) /\ Cardinality(returned(k)) \in Nat
        /\ Cardinality(Server) \in Nat
        /\ k \notin returned(k) /\ returned(k) \subseteq Server
    BY ReturnedFinite
  <2>3. IsFiniteSet(Q) /\ Cardinality(Q) = Cardinality(returned(k)) + 1
    BY <2>2, FS_AddElement
  <2>4. 1 + Cardinality(returned(k)) > Cardinality(Server) \div 2
    BY <2>1, <2>2
  <2>5. 2 * (Cardinality(returned(k)) + 1) > Cardinality(Server)
    BY <2>2, <2>4
  <2> QED
    BY <2>2, <2>3, <2>5
<1>2. PICK p \in Server : p \in {i} \cup returned(i) /\ p \in {j} \cup returned(j)
  <2> DEFINE Q == {i} \cup returned(i)
             R == {j} \cup returned(j)
  <2>1. /\ Q \subseteq Server /\ R \subseteq Server /\ IsFiniteSet(Q) /\ IsFiniteSet(R)
        /\ 2 * Cardinality(Q) > Cardinality(Server)
        /\ 2 * Cardinality(R) > Cardinality(Server)
    BY <1>1
  <2>2. /\ Cardinality(Q) \in Nat /\ Cardinality(R) \in Nat
        /\ IsFiniteSet(Server) /\ Cardinality(Server) \in Nat
    BY <2>1, ReturnedFinite, FS_CardinalityType
  <2> HIDE DEF Q, R
  <2>3. Cardinality(Q) + Cardinality(R) > Cardinality(Server)
    BY <2>1, <2>2
  <2>4. Q \cap R # {}
    BY <2>1, <2>2, <2>3, FS_MajoritiesIntersect
  <2> QED
    BY <2>1, <2>4 DEF Q, R
<1>3. ASSUME NEW k \in Server, p \in returned(k)
      PROVE  /\ [voter |-> p, candidate |-> k, term |-> rf[k].term] \in votes
             /\ p # k
  BY <1>3 DEF returned
<1>4. ASSUME NEW k \in Server, NEW l \in Server, k # l, rf[k].role = "LEADER",
             [voter |-> k, candidate |-> l, term |-> rf[k].term] \in votes
      PROVE  FALSE
  <2> DEFINE v == [voter |-> k, candidate |-> l, term |-> rf[k].term]
  <2>1. v \in votes /\ v.candidate # v.voter /\ v.voter = k /\ v.term = rf[k].term
    BY <1>4
  <2>2. rf[k].term \in Nat
    BY DEF TypeOK, Peer
  <2>3. rf[k].term > v.term \/ rf[k].role = "FOLLOWER"
    BY <2>1 DEF ElectionInv, VotesInv
  <2> QED
    BY <1>4, <2>1, <2>2, <2>3
<1>5. CASE p = i
  BY Zenon, <1>2, <1>3, <1>4, <1>5
<1>6. CASE p = j
  BY Zenon, <1>2, <1>3, <1>4, <1>6
<1>7. CASE p \in returned(i) /\ p \in returned(j)
  <2> DEFINE v == [voter |-> p, candidate |-> i, term |-> rf[i].term]
             w == [voter |-> p, candidate |-> j, term |-> rf[i].term]
  <2>1. v \in votes /\ w \in votes /\ p # i /\ p # j
    BY <1>3, <1>7
  <2>2. v.candidate = w.candidate
    BY <2>1 DEF ElectionInv, OneForeignVotePerTerm
  <2> QED
    BY <2>2
<1> QED
  BY <1>2, <1>5, <1>6, <1>7

-----------------------------------------------------------------------------
(* The steps that cast no vote and count none.                             *)

\* From s to t a peer keeps its standing in the election, or gives it up.
keeps(s, t) ==
  /\ t.term >= s.term
  /\ t.term > s.term => t.role = "FOLLOWER"
  /\ t.term = s.term =>
       /\ s.role = "FOLLOWER" => t.role = "FOLLOWER" /\ t.votedFor = s.votedFor
       /\ t.role # "FOLLOWER" => t.votedFor = s.votedFor /\ t.voteCount = s.voteCount
       /\ elected(t) => elected(s)

\* A step of one peer that casts no vote, sends no ballot and keeps its standing or gives it up.
LEMMA QuietStep ==
  ASSUME TypeOK, TypeOK', ElectionInv, NEW i \in Server,
         \A j \in Server \ {i} : rf'[j] = rf[j],
         votes' = votes, ballots' \subseteq ballots, keeps(rf[i], rf'[i])
  PROVE  ElectionInv'
<1>n. \A j \in Server : /\ rf[j].term \in Nat /\ rf'[j].term \in Nat
                        /\ rf'[j].term >= rf[j].term
  <2>1. \A j \in Server : rf[j].term \in Nat /\ rf'[j].term \in Nat
    BY DEF TypeOK, Peer
  <2>2. rf'[i].term >= rf[i].term
    BY DEF keeps
  <2> QED
    BY <2>1, <2>2
<1>1. OneForeignVotePerTerm'
  BY DEF ElectionInv, OneForeignVotePerTerm
<1>2. BallotsInv'
  <2>1. ASSUME NEW m \in ballots'
        PROVE  /\ m.from # m.to
               /\ ballot(m).term <= rf'[ballot(m).candidate].term
               /\ m.type = "RequestVoteReply" /\ m.voteGranted =>
                    ballot(m) \in votes' /\ m.term = m.args
    <3>1. m \in ballots
      OBVIOUS
    <3>2. ballot(m).candidate \in Server /\ ballot(m).term \in Nat
      BY <3>1, BallotType
    <3>3. /\ m.from # m.to
          /\ ballot(m).term <= rf[ballot(m).candidate].term
          /\ m.type = "RequestVoteReply" /\ m.voteGranted =>
               ballot(m) \in votes /\ m.term = m.args
      BY <3>1 DEF ElectionInv, BallotsInv
    <3>4. ballot(m).term <= rf'[ballot(m).candidate].term
      BY <1>n, <3>2, <3>3
    <3> QED
      BY <3>3, <3>4
  <2>2. \A m, n \in ballots' : ballot(m) = ballot(n) => m = n
    BY DEF ElectionInv, BallotsInv
  <2> QED
    BY <2>1, <2>2 DEF BallotsInv
<1>3. VotesInv'
  <2> SUFFICES ASSUME NEW v \in votes, v.candidate # v.voter
               PROVE  LET t == rf'[v.voter] IN
                      \/ t.term > v.term
                      \/ t.term = v.term /\ t.votedFor = v.candidate /\ t.role = "FOLLOWER"
    BY DEF VotesInv
  <2>1. v.voter \in Server /\ v.term \in Nat
    BY DEF TypeOK
  <2>2. \/ rf[v.voter].term > v.term
        \/ /\ rf[v.voter].term = v.term /\ rf[v.voter].votedFor = v.candidate
           /\ rf[v.voter].role = "FOLLOWER"
    BY DEF ElectionInv, VotesInv
  <2>3. CASE v.voter # i
    BY <2>1, <2>2, <2>3
  <2>4. CASE v.voter = i /\ rf[i].term > v.term
    BY <1>n, <2>1, <2>4
  <2>5. CASE v.voter = i /\ rf'[i].term > rf[i].term
    BY <1>n, <2>1, <2>2, <2>5
  <2>6. CASE v.voter = i /\ rf'[i].term = rf[i].term /\ ~(rf[i].term > v.term)
    BY <2>2, <2>6 DEF keeps
  <2>7. rf'[i].term > rf[i].term \/ rf'[i].term = rf[i].term
    BY <1>n
  <2> QED
    BY <2>3, <2>4, <2>5, <2>6, <2>7
<1>4. CandidatesInv'
  <2> SUFFICES ASSUME NEW j \in Server
               PROVE  LET t == rf'[j] IN
                      /\ t.role # "FOLLOWER" =>
                           t.votedFor = j /\ t.voteCount <= 1 + Cardinality(returned(j)')
                      /\ elected(t) => t.voteCount > Cardinality(Server) \div 2
    BY DEF CandidatesInv, elected
  <2>1. /\ rf[j].role # "FOLLOWER" =>
             rf[j].votedFor = j /\ rf[j].voteCount <= 1 + Cardinality(returned(j))
        /\ elected(rf[j]) => rf[j].voteCount > Cardinality(Server) \div 2
    BY DEF ElectionInv, CandidatesInv
  <2>2. rf'[j].role # "FOLLOWER" =>
          /\ rf'[j].term = rf[j].term /\ rf[j].role # "FOLLOWER"
          /\ rf'[j].votedFor = rf[j].votedFor /\ rf'[j].voteCount = rf[j].voteCount
          /\ elected(rf'[j]) => elected(rf[j])
    BY <1>n DEF keeps
  <2>3. elected(rf'[j]) => rf'[j].role # "FOLLOWER"
    BY DEF elected
  <2>4. CASE rf'[j].role = "FOLLOWER"
    BY <2>3, <2>4
  <2>5. CASE rf'[j].role # "FOLLOWER"
    <3>1. Cardinality(returned(j)) <= Cardinality(returned(j)')
      BY <2>2, <2>5, ReturnedGrows
    <3>2. /\ Cardinality(returned(j)) \in Nat /\ Cardinality(returned(j)') \in Nat
          /\ rf[j].voteCount \in Nat
      <4>1. Cardinality(returned(j)) \in Nat /\ rf[j].voteCount \in Nat
        BY ReturnedFinite DEF TypeOK, Peer
      <4> QED
        BY <4>1, ReturnedFiniteNext
    <3>3. rf[j].voteCount <= 1 + Cardinality(returned(j)')
      BY <2>1, <2>2, <2>5, <3>1, <3>2
    <3> QED
      BY <2>1, <2>2, <2>5, <3>3
  <2> QED
    BY <2>4, <2>5
<1> QED
  BY <1>1, <1>2, <1>3, <1>4 DEF ElectionInv

-----------------------------------------------------------------------------
(* The steps that start an election, cast a vote or count one.             *)

\* The standing of a peer that the step leaves alone.
LEMMA OthersStand ==
  ASSUME TypeOK, ElectionInv, NEW j \in Server, rf'[j] = rf[j], votes \subseteq votes',
         \A m \in ballots' : ballot(m).candidate = j =>
            \E n \in ballots : ballot(n) = ballot(m)
  PROVE  LET t == rf'[j] IN
         /\ t.role # "FOLLOWER" =>
              t.votedFor = j /\ t.voteCount <= 1 + Cardinality(returned(j)')
         /\ elected(t) => t.voteCount > Cardinality(Server) \div 2
<1>1. /\ rf[j].role # "FOLLOWER" =>
           rf[j].votedFor = j /\ rf[j].voteCount <= 1 + Cardinality(returned(j))
      /\ elected(rf[j]) => rf[j].voteCount > Cardinality(Server) \div 2
  BY DEF ElectionInv, CandidatesInv
<1>2. Cardinality(returned(j)) <= Cardinality(returned(j)')
  BY ReturnedGrows
<1>3. /\ Cardinality(returned(j)) \in Nat /\ Cardinality(returned(j)') \in Nat
      /\ rf[j].voteCount \in Nat
  BY ReturnedFinite, ReturnedFiniteNext DEF TypeOK, Peer
<1>4. rf[j].role # "FOLLOWER" => rf[j].voteCount <= 1 + Cardinality(returned(j)')
  BY <1>1, <1>2, <1>3
<1> QED
  BY <1>1, <1>4

\* sendRequestVote counts a vote when its reply leaves the network, so a vote
\* is counted once.
LEMMA CountStep ==
  ASSUME TypeOK, ElectionInv, NEW m \in msgs, m \in RequestVoteReply,
         NEW i, i = m.to, NEW s, s = rf[i],
         s.role = "CANDIDATE", m.args = s.term, m.term = s.term, m.voteGranted,
         NEW tick \in Ticker, NEW u, rf' = [rf EXCEPT ![i] = u],
         u.term = s.term, u.votedFor = s.votedFor, u.role = s.role,
         u.voteCount = s.voteCount + 1, u.ticker = tick,
         \/ tick = s.ticker
         \/ tick = "WON" /\ s.voteCount + 1 = Cardinality(Server) \div 2 + 1,
         votes' = votes, msgs' = msgs \ {m}
  PROVE  ElectionInv'
<1>1. /\ i \in Server /\ s \in Peer /\ s.voteCount \in Nat /\ s.term \in Nat
      /\ m.from \in Server /\ m.type = "RequestVoteReply"
  <2>1. i \in Server /\ m.from \in Server /\ m.type = "RequestVoteReply"
    BY DEF RequestVoteReply
  <2>2. s \in Peer
    BY <2>1 DEF TypeOK
  <2> QED
    BY Zenon, <2>1, <2>2 DEF Peer
<1>2. /\ \A j \in Server \ {i} : rf'[j] = rf[j]
      /\ rf'[i] = u
  BY <1>1 DEF TypeOK
<1>3. /\ rf'[i].term = s.term /\ rf'[i].votedFor = s.votedFor
      /\ rf'[i].role = s.role /\ rf'[i].voteCount = s.voteCount + 1
      /\ rf'[i].ticker = tick
  BY <1>2
<1>4. m \in ballots /\ ballots' = ballots \ {m}
  BY <1>1 DEF ballots
<1>5. \A j \in Server : /\ rf'[j].term = rf[j].term /\ rf'[j].votedFor = rf[j].votedFor
                        /\ rf'[j].role = rf[j].role
  BY <1>2, <1>3
<1>6. OneForeignVotePerTerm'
  BY DEF ElectionInv, OneForeignVotePerTerm
<1>7. BallotsInv'
  <2>1. \A n \in ballots : ballot(n).candidate \in Server
    BY BallotType
  <2> QED
    BY <1>4, <1>5, <2>1 DEF ElectionInv, BallotsInv
<1>8. VotesInv'
  <2>1. \A v \in votes : v.voter \in Server
    BY DEF TypeOK
  <2> QED
    BY <1>5, <2>1 DEF ElectionInv, VotesInv
<1>9. \A j \in Server \ {i} :
        LET t == rf'[j] IN
        /\ t.role # "FOLLOWER" =>
             t.votedFor = j /\ t.voteCount <= 1 + Cardinality(returned(j)')
        /\ elected(t) => t.voteCount > Cardinality(Server) \div 2
  BY <1>2, <1>4, OthersStand
<1>10. /\ m.from \in returned(i)' /\ m.from \notin returned(i)
       /\ returned(i) \subseteq returned(i)'
  <2> DEFINE v == [voter |-> m.from, candidate |-> i, term |-> s.term]
  <2>1. ballot(m) = v
    BY <1>1 DEF ballot
  <2>2. m.from # m.to /\ v \in votes
    BY <1>1, <1>4, <2>1 DEF ElectionInv, BallotsInv
  <2>3. \A n \in ballots' : ballot(n) # v
    BY <1>4, <2>1 DEF ElectionInv, BallotsInv
  <2>4. m.from \in returned(i)'
    BY <1>1, <1>3, <2>2, <2>3 DEF returned
  <2>5. m.from \notin returned(i)
    BY <1>4, <2>1 DEF returned
  <2>6. returned(i) \subseteq returned(i)'
    BY <1>1, <1>3, <1>4, ReturnedGrows
  <2> QED
    BY <2>4, <2>5, <2>6
<1>11. s.votedFor = i /\ s.voteCount + 1 <= 1 + Cardinality(returned(i)')
  <2>1. s.votedFor = i /\ s.voteCount <= 1 + Cardinality(returned(i))
    BY <1>1 DEF ElectionInv, CandidatesInv
  <2>2. /\ IsFiniteSet(returned(i)) /\ Cardinality(returned(i)) \in Nat
        /\ IsFiniteSet(returned(i)') /\ Cardinality(returned(i)') \in Nat
    BY <1>1, ReturnedFinite, ReturnedFiniteNext
  <2> DEFINE R == returned(i) \cup {m.from}
  <2>3. IsFiniteSet(R) /\ Cardinality(R) = Cardinality(returned(i)) + 1
    BY <1>10, <2>2, FS_AddElement
  <2>4. R \subseteq returned(i)'
    BY <1>10
  <2> HIDE DEF R
  <2>5. Cardinality(R) <= Cardinality(returned(i)')
    BY <2>2, <2>4, FS_Subset
  <2> QED
    BY <1>1, <2>1, <2>2, <2>3, <2>5
<1>12. elected(rf'[i]) => s.voteCount + 1 > Cardinality(Server) \div 2
  <2> SUFFICES ASSUME elected(rf'[i]) PROVE s.voteCount + 1 > Cardinality(Server) \div 2
    OBVIOUS
  <2>1. tick = "WON"
    BY <1>3 DEF elected
  <2>2. Cardinality(Server) \in Nat
    BY <1>1, ReturnedFinite
  <2>3. CASE tick = s.ticker
    <3>1. elected(s)
      BY <2>1, <2>3 DEF elected
    <3>2. s.voteCount > Cardinality(Server) \div 2
      BY <1>1, <3>1 DEF ElectionInv, CandidatesInv
    <3> QED
      BY <1>1, <2>2, <3>2
  <2>4. CASE s.voteCount + 1 = Cardinality(Server) \div 2 + 1
    BY <1>1, <2>2, <2>4
  <2> QED
    BY <2>3, <2>4
<1>13. CandidatesInv'
  <2> SUFFICES ASSUME NEW j \in Server
               PROVE  LET t == rf'[j] IN
                      /\ t.role # "FOLLOWER" =>
                           t.votedFor = j /\ t.voteCount <= 1 + Cardinality(returned(j)')
                      /\ elected(t) => t.voteCount > Cardinality(Server) \div 2
    BY DEF CandidatesInv, elected
  <2>1. CASE j = i
    BY <1>3, <1>11, <1>12, <2>1
  <2> QED
    BY <1>9, <2>1
<1> QED
  BY <1>6, <1>7, <1>8, <1>13 DEF ElectionInv

\* RequestVote: a peer that grants its vote has given it to no other peer in
\* that term, and is no candidate itself.
LEMMA VoteStep ==
  ASSUME TypeOK, TypeOK', ElectionInv, NEW m \in msgs, RequestVote(m)
  PROVE  ElectionInv'
<1> DEFINE i == m.to
           s == rf[i]
<1>1. /\ m \in RequestVoteArgs /\ i \in Server /\ m.from \in Server /\ m.term \in Nat
      /\ m.type = "RequestVote" /\ s \in Peer /\ s.term \in Nat
  <2>1. m \in RequestVoteArgs
    BY RequestVoteEffect
  <2>2. i \in Server /\ m.from \in Server /\ m.term \in Nat /\ m.type = "RequestVote"
    BY <2>1 DEF RequestVoteArgs
  <2>3. s \in Peer
    BY <2>2 DEF TypeOK
  <2> QED
    BY Zenon, <2>1, <2>2, <2>3 DEF Peer
<1>2. PICK t \in Peer, granted \in BOOLEAN :
        /\ hears(s, m.term, t)
        /\ granted => m.term >= s.term /\ t.votedFor \in {VotedNULL, m.from}
        /\ persist(i, IF granted THEN [t EXCEPT !.votedFor = m.from] ELSE t)
        /\ msgs' = (msgs \ {m}) \cup
             {[type |-> "RequestVoteReply", args |-> m.term, from |-> i, to |-> m.from,
               term |-> t.term, voteGranted |-> granted]}
        /\ votes' = votes \cup
             (IF granted THEN {[voter |-> i, candidate |-> m.from,
                                term |-> t.term]} ELSE {})
  BY RequestVoteEffect
<1> DEFINE u == IF granted THEN [t EXCEPT !.votedFor = m.from] ELSE t
           n == [type |-> "RequestVoteReply", args |-> m.term, from |-> i, to |-> m.from,
                 term |-> t.term, voteGranted |-> granted]
           v == [voter |-> i, candidate |-> m.from, term |-> t.term]
<1>3. /\ u \in Peer /\ u.term = t.term /\ u.role = t.role /\ u.voteCount = t.voteCount
      /\ u.ticker = t.ticker /\ u.votedFor = (IF granted THEN m.from ELSE t.votedFor)
      /\ t.term \in Nat
  BY Zenon, <1>1 DEF Peer
<1>4. /\ t.term >= s.term
      /\ \/ m.term > s.term /\ t.role = "FOLLOWER" /\ t.term = m.term
         \/ m.term <= s.term /\ t = s
  BY <1>1, <1>2, HearsType
<1>5. granted => t.term = m.term
  BY <1>1, <1>2, <1>4
<1>6. rf'[i] = u /\ \A j \in Server \ {i} : rf'[j] = rf[j]
  BY <1>1, <1>2, <1>3, PersistType
<1>7. m \in ballots /\ m.from # i
  <2>1. m \in ballots
    BY <1>1 DEF ballots
  <2> QED
    BY <2>1 DEF ElectionInv, BallotsInv
<1>8. /\ n.type = "RequestVoteReply" /\ n.from = i /\ n.to = m.from
      /\ n.voteGranted = granted /\ n.term = t.term /\ n.args = m.term
      /\ ballot(n) = ballot(m)
      /\ ballot(m) = [voter |-> i, candidate |-> m.from, term |-> m.term]
  BY <1>1 DEF ballot
<1>9. v.voter = i /\ v.candidate = m.from /\ v.term = t.term
  OBVIOUS
<1>10. ballots' = (ballots \ {m}) \cup {n}
  BY <1>2, <1>8 DEF ballots
<1>11. votes' = votes \cup (IF granted THEN {v} ELSE {})
  BY <1>2
<1>12. granted => ballot(n) = v
  BY <1>5, <1>8
<1> HIDE DEF u, n, v
\* A vote of i for another peer, in the term of the vote it grants now.
<1>13. ASSUME granted, NEW w \in votes, w.voter = i, w.candidate # i, w.term = t.term
       PROVE  w.candidate = m.from
  <2>1. \/ s.term > w.term
        \/ s.term = w.term /\ s.votedFor = w.candidate /\ s.role = "FOLLOWER"
    BY <1>13 DEF ElectionInv, VotesInv
  <2>2. s.term = w.term /\ s.votedFor = w.candidate /\ t = s
    BY <1>1, <1>3, <1>4, <1>13, <2>1
  <2>3. w.candidate \in Server /\ w.candidate # VotedNULL
    BY ConstantsAssumption DEF TypeOK
  <2> QED
    BY <1>2, <1>13, <2>2, <2>3
<1>14. OneForeignVotePerTerm'
  <2> SUFFICES ASSUME NEW a \in votes', NEW b \in votes',
                      a.voter = b.voter, a.term = b.term,
                      a.candidate # a.voter, b.candidate # b.voter
               PROVE  a.candidate = b.candidate
    BY DEF OneForeignVotePerTerm
  <2>1. CASE a \in votes /\ b \in votes
    BY <2>1 DEF ElectionInv, OneForeignVotePerTerm
  <2>2. CASE a \in votes /\ granted /\ b = v
    BY <1>9, <1>13, <2>2
  <2>3. CASE b \in votes /\ granted /\ a = v
    BY <1>9, <1>13, <2>3
  <2> QED
    BY <1>11, <2>1, <2>2, <2>3
<1>15. BallotsInv'
  <2>1. ASSUME NEW k \in ballots
        PROVE  ballot(k).term <= rf'[ballot(k).candidate].term
    <3>1. ballot(k).candidate \in Server /\ ballot(k).term \in Nat
      BY BallotType
    <3>2. ballot(k).term <= rf[ballot(k).candidate].term
      BY DEF ElectionInv, BallotsInv
    <3>3. CASE ballot(k).candidate = i
      BY <1>1, <1>3, <1>4, <1>6, <3>1, <3>2, <3>3
    <3> QED
      BY <1>6, <3>1, <3>2, <3>3
  <2>2. ASSUME NEW k \in ballots'
        PROVE  /\ k.from # k.to
               /\ ballot(k).term <= rf'[ballot(k).candidate].term
               /\ k.type = "RequestVoteReply" /\ k.voteGranted =>
                    ballot(k) \in votes' /\ k.term = k.args
    <3>1. CASE k \in ballots
      BY <1>11, <2>1, <3>1 DEF ElectionInv, BallotsInv
    <3>2. CASE k = n
      <4>1. granted => ballot(n) \in votes' /\ n.term = n.args
        BY <1>5, <1>8, <1>11, <1>12
      <4> QED
        BY <1>7, <1>8, <2>1, <3>2, <4>1
    <3> QED
      BY <1>10, <3>1, <3>2
  <2>3. ASSUME NEW k \in ballots', NEW l \in ballots', ballot(k) = ballot(l)
        PROVE  k = l
    <3>1. \A x, y \in ballots : ballot(x) = ballot(y) => x = y
      BY DEF ElectionInv, BallotsInv
    <3> QED
      BY <1>7, <1>8, <1>10, <2>3, <3>1
  <2> QED
    BY <2>2, <2>3 DEF BallotsInv
<1>16. VotesInv'
  <2> SUFFICES ASSUME NEW w \in votes', w.candidate # w.voter
               PROVE  LET q == rf'[w.voter] IN
                      \/ q.term > w.term
                      \/ q.term = w.term /\ q.votedFor = w.candidate /\ q.role = "FOLLOWER"
    BY DEF VotesInv
  <2>1. CASE granted /\ w = v
    <3>1. t.role = "FOLLOWER"
      <4>1. CASE t = s /\ s.role # "FOLLOWER"
        <5>1. s.votedFor = i
          BY <1>1, <4>1 DEF ElectionInv, CandidatesInv
        <5>2. i # VotedNULL
          BY <1>1, ConstantsAssumption
        <5> QED
          BY <1>2, <1>7, <2>1, <4>1, <5>1, <5>2
      <4> QED
        BY <1>4, <4>1
    <3> QED
      BY <1>3, <1>6, <1>9, <2>1, <3>1
  <2>2. CASE w \in votes
    <3>1. w.voter \in Server /\ w.term \in Nat
      BY <2>2 DEF TypeOK
    <3>2. \/ rf[w.voter].term > w.term
          \/ /\ rf[w.voter].term = w.term /\ rf[w.voter].votedFor = w.candidate
             /\ rf[w.voter].role = "FOLLOWER"
      BY <2>2 DEF ElectionInv, VotesInv
    <3>3. CASE w.voter # i
      BY <1>6, <3>1, <3>2, <3>3
    <3>4. CASE w.voter = i /\ t.term > w.term
      BY <1>3, <1>6, <3>4
    <3>5. CASE w.voter = i /\ ~(t.term > w.term)
      <4>1. t = s /\ s.term = w.term /\ s.votedFor = w.candidate /\ s.role = "FOLLOWER"
        BY <1>1, <1>3, <1>4, <3>1, <3>2, <3>5
      <4>2. granted => w.candidate = m.from
        BY <1>13, <2>2, <3>5, <4>1
      <4> QED
        BY <1>3, <1>6, <3>5, <4>1, <4>2
    <3> QED
      BY <3>3, <3>4, <3>5
  <2> QED
    BY <1>11, <2>1, <2>2
<1>17. CandidatesInv'
  <2> SUFFICES ASSUME NEW j \in Server
               PROVE  LET q == rf'[j] IN
                      /\ q.role # "FOLLOWER" =>
                           q.votedFor = j /\ q.voteCount <= 1 + Cardinality(returned(j)')
                      /\ elected(q) => q.voteCount > Cardinality(Server) \div 2
    BY DEF CandidatesInv, elected
  <2>1. votes \subseteq votes' /\ \A k \in ballots' : \E l \in ballots : ballot(l) = ballot(k)
    BY <1>7, <1>8, <1>10, <1>11
  <2>2. CASE rf'[j] = rf[j]
    BY <2>1, <2>2, OthersStand
  <2>3. CASE j = i /\ u.role = "FOLLOWER"
    BY <1>6, <2>3 DEF elected
  <2>4. CASE j = i /\ u.role # "FOLLOWER"
    <3>1. t = s /\ s.role # "FOLLOWER"
      BY <1>3, <1>4, <2>4
    <3>2. s.votedFor = i /\ i # VotedNULL
      BY <1>1, <3>1, ConstantsAssumption DEF ElectionInv, CandidatesInv
    <3>3. ~granted
      BY <1>2, <1>7, <3>1, <3>2
    <3>4. rf'[j] = rf[j]
      BY <1>6, <2>4, <3>1, <3>3 DEF u
    <3> QED
      BY <2>2, <3>4
  <2> QED
    BY <1>6, <2>2, <2>3, <2>4
<1> QED
  BY <1>14, <1>15, <1>16, <1>17 DEF ElectionInv

\* electSelf: nothing is in flight yet for the term it starts.
LEMMA ElectStep ==
  ASSUME TypeOK, TypeOK', ElectionInv, NEW i \in Server, NEW s, s = rf[i],
         NEW t \in Peer, persist(i, t),
         t.term = s.term + 1, t.role = "CANDIDATE", t.votedFor = i, t.voteCount = 1,
         t.ticker = "CANDIDATE",
         msgs' = msgs \cup BroadCastRequestVote(i, t),
         votes' = votes \cup {[voter |-> i, candidate |-> i, term |-> t.term]}
  PROVE  ElectionInv'
<1> DEFINE new == BroadCastRequestVote(i, t)
           v == [voter |-> i, candidate |-> i, term |-> t.term]
<1>1. s \in Peer /\ s.term \in Nat /\ t.term \in Nat /\ t.term > s.term
  <2>1. s \in Peer
    BY DEF TypeOK
  <2>2. s.term \in Nat
    BY <2>1 DEF Peer
  <2> QED
    BY <2>1, <2>2
<1>2. rf'[i] = t /\ \A j \in Server \ {i} : rf'[j] = rf[j]
  BY PersistType
<1>3. ASSUME NEW m \in new
      PROVE  /\ m.type = "RequestVote" /\ m.from = i /\ m.to # i /\ m.term = t.term
             /\ ballot(m) = [voter |-> m.to, candidate |-> i, term |-> t.term]
  <2>1. PICK j \in Server \ {i} :
          m = [type |-> "RequestVote", term |-> t.term, from |-> i, to |-> j,
               lastLogIndex |-> getLastLogIndex(t), lastLogTerm |-> getLastLogTerm(t)]
    BY Zenon, <1>3 DEF BroadCastRequestVote
  <2>2. m.type = "RequestVote" /\ m.from = i /\ m.to = j /\ m.term = t.term
    BY <2>1
  <2> QED
    BY <2>2 DEF ballot
<1>c. ASSUME NEW m \in new
      PROVE  ballot(m).candidate = i /\ ballot(m).term = t.term /\ ballot(m).voter = m.to
  BY <1>3
<1>4. \A m, n \in new : m.to = n.to => m = n
  BY DEF BroadCastRequestVote
<1>5. ballots' = ballots \cup new
  BY <1>3 DEF ballots
<1>6. v.voter = i /\ v.candidate = i /\ v.term = t.term /\ votes' = votes \cup {v}
  OBVIOUS
<1> HIDE DEF new, v
<1>7. \A j \in Server : /\ rf[j].term \in Nat /\ rf'[j].term \in Nat
                        /\ rf'[j].term >= rf[j].term
  <2>1. \A j \in Server : rf[j].term \in Nat
    BY DEF TypeOK, Peer
  <2> QED
    BY <1>1, <1>2, <2>1
<1>8. OneForeignVotePerTerm'
  BY Zenon, <1>6 DEF ElectionInv, OneForeignVotePerTerm
<1>9. ASSUME NEW m \in ballots
      PROVE  /\ ballot(m).candidate \in Server /\ ballot(m).term \in Nat
             /\ ballot(m).term <= rf'[ballot(m).candidate].term
             /\ ballot(m).candidate = i => ballot(m).term # t.term
  <2>1. ballot(m).candidate \in Server /\ ballot(m).term \in Nat
    BY BallotType
  <2>2. ballot(m).term <= rf[ballot(m).candidate].term
    BY DEF ElectionInv, BallotsInv
  <2>3. ballot(m).term <= rf'[ballot(m).candidate].term
    <3>1. LET j == ballot(m).candidate
          IN rf[j].term \in Nat /\ rf'[j].term \in Nat /\ rf'[j].term >= rf[j].term
      BY <1>7, <2>1
    <3> QED
      BY <2>1, <2>2, <3>1
  <2>4. ASSUME ballot(m).candidate = i
        PROVE  ballot(m).term # t.term
    <3>1. ballot(m).term <= s.term
      BY <2>2, <2>4
    <3> QED
      BY <1>1, <2>1, <3>1
  <2> QED
    BY <2>1, <2>3, <2>4
<1>10. BallotsInv'
  <2>1. ASSUME NEW m \in ballots'
        PROVE  /\ m.from # m.to
               /\ ballot(m).term <= rf'[ballot(m).candidate].term
               /\ m.type = "RequestVoteReply" /\ m.voteGranted =>
                    ballot(m) \in votes' /\ m.term = m.args
    <3>1. CASE m \in ballots
      BY <1>6, <1>9, <3>1 DEF ElectionInv, BallotsInv
    <3>2. CASE m \in new
      BY <1>1, <1>2, <1>3, <3>2
    <3> QED
      BY <1>5, <3>1, <3>2
  <2>2. ASSUME NEW m \in ballots', NEW n \in ballots', ballot(m) = ballot(n)
        PROVE  m = n
    <3>1. CASE m \in ballots /\ n \in ballots
      BY <2>2, <3>1 DEF ElectionInv, BallotsInv
    <3>2. CASE m \in new /\ n \in new
      <4>1. ballot(m).voter = m.to /\ ballot(n).voter = n.to
        BY <1>c, <3>2
      <4> QED
        BY <1>4, <2>2, <3>2, <4>1
    <3>3. CASE m \in ballots /\ n \in new
      <4>1. ballot(n).candidate = i /\ ballot(n).term = t.term
        BY <1>c, <3>3
      <4> QED
        BY <1>9, <2>2, <3>3, <4>1
    <3>4. CASE m \in new /\ n \in ballots
      <4>1. ballot(m).candidate = i /\ ballot(m).term = t.term
        BY <1>c, <3>4
      <4> QED
        BY <1>9, <2>2, <3>4, <4>1
    <3> QED
      BY Zenon, <1>5, <3>1, <3>2, <3>3, <3>4
  <2> QED
    BY <2>1, <2>2 DEF BallotsInv
<1>11. VotesInv'
  <2> SUFFICES ASSUME NEW w \in votes', w.candidate # w.voter
               PROVE  LET q == rf'[w.voter] IN
                      \/ q.term > w.term
                      \/ q.term = w.term /\ q.votedFor = w.candidate /\ q.role = "FOLLOWER"
    BY Zenon DEF VotesInv
  <2>1. w \in votes
    BY <1>6
  <2>2. w.voter \in Server /\ w.term \in Nat
    BY <2>1 DEF TypeOK
  <2>3. \/ rf[w.voter].term > w.term
        \/ /\ rf[w.voter].term = w.term /\ rf[w.voter].votedFor = w.candidate
           /\ rf[w.voter].role = "FOLLOWER"
    BY <2>1 DEF ElectionInv, VotesInv
  <2>4. CASE w.voter = i
    <3>1. t.term > w.term
      BY <1>1, <2>2, <2>3, <2>4
    <3> QED
      BY <1>2, <2>4, <3>1
  <2> QED
    BY <1>2, <2>2, <2>3, <2>4
<1>12. CandidatesInv'
  <2> SUFFICES ASSUME NEW j \in Server
               PROVE  LET q == rf'[j] IN
                      /\ q.role # "FOLLOWER" =>
                           q.votedFor = j /\ q.voteCount <= 1 + Cardinality(returned(j)')
                      /\ elected(q) => q.voteCount > Cardinality(Server) \div 2
    BY DEF CandidatesInv, elected
  <2>1. CASE j = i
    <3>1. 1 <= 1 + Cardinality(returned(j)')
      BY ReturnedFiniteNext
    <3>2. ~elected(t)
      BY DEF elected
    <3> QED
      BY <1>2, <2>1, <3>1, <3>2
  <2>2. CASE j # i
    <3>1. \A m \in ballots' : ballot(m).candidate = j => m \in ballots
      BY Zenon, <1>c, <1>5, <2>2
    <3>2. rf'[j] = rf[j] /\ votes \subseteq votes'
      BY <1>2, <1>6, <2>2
    <3> QED
      BY <3>1, <3>2, OthersStand
  <2> QED
    BY <2>1, <2>2
<1> QED
  BY <1>8, <1>10, <1>11, <1>12 DEF ElectionInv

\* Every step keeps the invariant of elections.
LEMMA ElectionInvNext ==
  TypeInv /\ TypeInv' /\ DiskIsCurrent /\ ElectionInv /\ [Next]_vars => ElectionInv'
<1> SUFFICES ASSUME TypeInv, TypeInv', DiskIsCurrent, ElectionInv, [Next]_vars
             PROVE  ElectionInv'
  OBVIOUS
<1>t. /\ TypeOK /\ TypeOK' /\ rf \in [Server -> Peer] /\ msgs \subseteq Message
  BY DEF TypeInv, TypeOK
<1>n. \A i \in Server :
        /\ rf[i] \in Peer /\ rf[i].term \in Nat
        /\ rf[i].role = "LEADER" => \A j \in Server : rf[i].nextIndex[j] >= 1
  BY <1>t DEF TypeInv, NextIndexPositive, Peer
\* A step that neither casts nor counts a vote, and leaves the term alone.
<1>q. ASSUME NEW i \in Server, \A j \in Server \ {i} : rf'[j] = rf[j],
             votes' = votes, ballots' \subseteq ballots, rf'[i].term = rf[i].term,
             \/ rf'[i].role = "FOLLOWER" /\ rf'[i].votedFor = rf[i].votedFor
             \/ rf'[i].role = "FOLLOWER" /\ rf[i].role # "FOLLOWER"
             \/ /\ rf'[i].votedFor = rf[i].votedFor
                /\ rf'[i].voteCount = rf[i].voteCount
                /\ rf'[i].role = rf[i].role
                /\ rf'[i].ticker = rf[i].ticker \/ rf'[i].ticker # "WON"
             \/ /\ rf'[i].votedFor = rf[i].votedFor
                /\ rf'[i].voteCount = rf[i].voteCount
                /\ rf'[i].role = "LEADER" /\ elected(rf[i])
      PROVE  ElectionInv'
  <2>1. rf[i].role = "FOLLOWER" =>
          rf'[i].role = "FOLLOWER" /\ rf'[i].votedFor = rf[i].votedFor
    BY <1>q DEF elected
  <2>2. rf'[i].role # "FOLLOWER" =>
          rf'[i].votedFor = rf[i].votedFor /\ rf'[i].voteCount = rf[i].voteCount
    BY <1>q
  <2>3. elected(rf'[i]) => elected(rf[i])
    BY <1>q DEF elected
  <2>4. keeps(rf[i], rf'[i])
    BY <1>n, <1>q, <2>1, <2>2, <2>3 DEF keeps
  <2> QED
    BY <1>q, <1>t, <2>4, QuietStep
<1>r. ASSUME NEW i \in Server, rf' = [rf EXCEPT ![i].ticker = rf[i].role],
             UNCHANGED <<votes, msgs>>
      PROVE  ElectionInv'
  <2>1. /\ rf'[i] = [rf[i] EXCEPT !.ticker = rf[i].role]
        /\ \A j \in Server \ {i} : rf'[j] = rf[j]
    BY <1>r, <1>t
  <2>2. /\ rf'[i].term = rf[i].term /\ rf'[i].votedFor = rf[i].votedFor
        /\ rf'[i].voteCount = rf[i].voteCount /\ rf'[i].role = rf[i].role
        /\ rf'[i].ticker # "WON"
    BY <1>n, <2>1 DEF Peer, Role
  <2>3. ballots' = ballots
    BY <1>r DEF ballots
  <2> QED
    BY <1>q, <1>r, <2>1, <2>2, <2>3
<1>h. ASSUME NEW i \in Server, NEW t \in Peer, SendHeartBeats(i, t), votes' = votes,
             \A j \in Server : t.nextIndex[j] >= 1,
             t.term = rf[i].term, t.votedFor = rf[i].votedFor,
             t.voteCount = rf[i].voteCount, t.role = "LEADER", elected(rf[i])
      PROVE  ElectionInv'
  <2>1. /\ rf'[i] \in {t, [t EXCEPT !.alive = FALSE]}
        /\ \A j \in Server \ {i} : rf'[j] = rf[j]
        /\ \A m \in msgs' \ msgs : m.type = "AppendEntries"
    BY <1>h, <1>t, SendHeartBeatsType
  <2>2. /\ rf'[i].term = rf[i].term /\ rf'[i].votedFor = rf[i].votedFor
        /\ rf'[i].voteCount = rf[i].voteCount /\ rf'[i].role = "LEADER"
    BY <1>h, <2>1 DEF Peer
  <2>3. ballots' \subseteq ballots
    BY <2>1 DEF ballots
  <2> QED
    BY <1>h, <1>q, <2>1, <2>2, <2>3
<1>1. ASSUME NEW i \in Server, NEW role \in {"FOLLOWER", "CANDIDATE"}, electSelf(i, role)
      PROVE  ElectionInv'
  <2> DEFINE s == rf[i]
             t == [s EXCEPT !.role = "CANDIDATE", !.term = @ + 1,
                            !.votedFor = i, !.voteCount = 1, !.ticker = "CANDIDATE"]
  <2>1. CASE s.role = role
    <3>1. /\ persist(i, t) /\ msgs' = msgs \cup BroadCastRequestVote(i, t)
          /\ votes' = votes \cup {[voter |-> i, candidate |-> i, term |-> t.term]}
      BY <1>1, <2>1 DEF electSelf
    <3>2. /\ t.term = s.term + 1 /\ t.role = "CANDIDATE" /\ t.votedFor = i
          /\ t.voteCount = 1 /\ t.ticker = "CANDIDATE"
      BY <1>n DEF Peer
    <3>3. t \in Peer
      <4>1. s \in Peer /\ s.term + 1 \in Nat
        BY <1>n
      <4>2. ASSUME NEW u \in Peer, NEW n \in Nat
            PROVE  [u EXCEPT !.role = "CANDIDATE", !.term = n, !.votedFor = i,
                             !.voteCount = 1, !.ticker = "CANDIDATE"] \in Peer
        BY Zenon DEF Peer, Role, Ticker
      <4> QED
        BY Zenon, <4>1, <4>2
    <3> HIDE DEF t
    <3> QED
      BY <1>t, <3>1, <3>2, <3>3, ElectStep
  <2> QED
    BY <1>1, <1>r, <2>1 DEF electSelf
<1>2. ASSUME NEW i \in Server, heartBeatTimeout(i)
      PROVE  ElectionInv'
  <2>1. CASE rf[i].role = "LEADER"
    <3>1. elected(rf[i])
      BY <2>1 DEF elected
    <3> QED
      BY <1>2, <1>h, <1>n, <2>1, <3>1 DEF heartBeatTimeout
  <2> QED
    BY <1>2, <1>r, <2>1 DEF heartBeatTimeout
<1>3. ASSUME NEW i \in Server, ReinitialisedAfterElection(i)
      PROVE  ElectionInv'
  <2>1. CASE rf[i].role = "CANDIDATE"
    <3>1. elected(rf[i])
      BY <1>3, <2>1 DEF elected, ReinitialisedAfterElection
    <3>2. PICK t \in Peer :
            /\ SendHeartBeats(i, t) /\ t.role = "LEADER"
            /\ \A j \in Server : t.nextIndex[j] >= 1
            /\ t.term = rf[i].term /\ t.votedFor = rf[i].votedFor
            /\ t.voteCount = rf[i].voteCount /\ votes' = votes
      BY <1>3, <1>t, <2>1, ReinitialisedEffect
    <3> QED
      BY <1>h, <3>1, <3>2
  <2> QED
    BY <1>3, <1>r, <2>1 DEF ReinitialisedAfterElection
<1>4. ASSUME NEW m \in msgs, RequestVote(m)
      PROVE  ElectionInv'
  BY <1>4, <1>t, VoteStep
<1>5. ASSUME NEW m \in msgs, sendRequestVote(m)
      PROVE  ElectionInv'
  <2> DEFINE i == m.to
             s == rf[i]
  <2>1. /\ m \in RequestVoteReply /\ i \in Server /\ s \in Peer /\ s.term \in Nat
        /\ msgs' = msgs \ {m} /\ votes' = votes
    BY Zenon, <1>5, <1>t, <1>n, SendRequestVoteEffect DEF RequestVoteReply
  <2>2. ballots' \subseteq ballots
    BY <2>1 DEF ballots
  <2>3. CASE UNCHANGED <<rf, disk>>
    BY <1>q, <2>1, <2>2, <2>3
  <2>4. ASSUME NEW heard \in BOOLEAN, persist(i, stepDown(s, s.term, heard)),
               s.role = "CANDIDATE"
        PROVE  ElectionInv'
    <3> DEFINE t == stepDown(s, s.term, heard)
    <3>1. t \in Peer /\ t.term = s.term /\ t.role = "FOLLOWER"
      BY Zenon, <2>1, StepDownType DEF stepDown, Peer
    <3> HIDE DEF t
    <3>2. rf'[i] = t /\ \A j \in Server \ {i} : rf'[j] = rf[j]
      BY <1>t, <2>1, <2>4, <3>1, PersistType DEF t
    <3> QED
      BY <1>q, <2>1, <2>2, <2>4, <3>1, <3>2
  <2>5. ASSUME s.role = "CANDIDATE", m.args = s.term, m.term = s.term, m.voteGranted,
               NEW tick \in Ticker,
               rf' = [rf EXCEPT ![i] = [s EXCEPT !.voteCount = s.voteCount + 1,
                                                 !.ticker = tick]],
               \/ tick = s.ticker
               \/ tick = "WON" /\ s.voteCount + 1 = Cardinality(Server) \div 2 + 1
        PROVE  ElectionInv'
    <3> DEFINE n == s.voteCount + 1
               u == [s EXCEPT !.voteCount = n, !.ticker = tick]
    <3>1. n \in Nat
      BY <2>1 DEF Peer
    <3> HIDE DEF n
    <3>2. /\ u.term = s.term /\ u.votedFor = s.votedFor /\ u.role = s.role
          /\ u.voteCount = n /\ u.ticker = tick
      BY <2>1, <3>1 DEF Peer
    <3>3. rf' = [rf EXCEPT ![i] = u]
      BY <2>5 DEF n
    <3> HIDE DEF u
    <3>4. u.voteCount = s.voteCount + 1
      BY <3>2 DEF n
    <3>5. \/ tick = s.ticker
          \/ tick = "WON" /\ s.voteCount + 1 = Cardinality(Server) \div 2 + 1
      BY <2>5
    <3>6. /\ s.role = "CANDIDATE" /\ m.args = s.term /\ m.term = s.term /\ m.voteGranted
      BY <2>5
    <3> HIDE DEF s, i
    <3> QED
      BY Zenon, <1>t, <2>1, <3>2, <3>3, <3>4, <3>5, <3>6, CountStep DEF s, i
  <2> QED
    BY Zenon, <1>5, <1>t, <2>3, <2>4, <2>5, SendRequestVoteEffect
<1>6. ASSUME NEW m \in msgs, ProcessAppendEntries(m)
      PROVE  ElectionInv'
  <2> DEFINE i == m.to
             s == rf[i]
  <2>1. /\ m \in AppendEntries /\ i \in Server /\ m.term \in Nat /\ s \in Peer
        /\ s.term \in Nat /\ votes' = votes
    BY <1>6, <1>t, <1>n, ProcessAppendEntriesEffect DEF AppendEntries
  <2>2. PICK t \in Peer, u \in Peer, success \in BOOLEAN,
             cIndex \in Nat \cup {-1}, cTerm \in Nat \cup {-1} :
          /\ hears(s, m.term, t)
          /\ u = t \/ appends(t, m, u)
          /\ persist(i, u)
          /\ msgs' = (msgs \ {m}) \cup {replyTo(m, u, success, cIndex, cTerm)}
    BY <1>6, <1>t, ProcessAppendEntriesEffect
  <2>3. /\ t.term >= s.term
        /\ \/ m.term > s.term /\ t.role = "FOLLOWER" /\ t.term = m.term
           \/ t = s
    BY <2>1, <2>2, HearsType
  <2>4. /\ u.term = t.term /\ u.votedFor = t.votedFor /\ u.role = t.role
        /\ u.voteCount = t.voteCount /\ u.ticker = t.ticker
    BY <2>1, <2>2, AppendsType
  <2>5. rf'[i] = u /\ \A j \in Server \ {i} : rf'[j] = rf[j]
    BY <1>t, <2>1, <2>2, PersistType
  <2>6. ballots' \subseteq ballots
    BY <2>2 DEF ballots, replyTo
  <2>7. CASE t = s
    BY <1>q, <2>1, <2>4, <2>5, <2>6, <2>7
  <2>8. CASE m.term > s.term /\ t.role = "FOLLOWER" /\ t.term = m.term
    <3>1. keeps(rf[i], rf'[i])
      <4>1. rf'[i].term > s.term /\ rf'[i].role = "FOLLOWER" /\ rf'[i].term \in Nat
        BY <2>1, <2>4, <2>5, <2>8
      <4>2. rf'[i].term >= s.term /\ rf'[i].term # s.term
        BY <2>1, <4>1
      <4> QED
        BY <4>1, <4>2 DEF keeps
    <3> QED
      BY <1>t, <2>1, <2>5, <2>6, <3>1, QuietStep
  <2> QED
    BY <2>3, <2>7, <2>8
<1>7. ASSUME NEW m \in msgs, sendAppendEntries(m)
      PROVE  ElectionInv'
  <2> DEFINE i == m.to
             s == rf[i]
  <2>1. i \in Server /\ s \in Peer /\ msgs' = msgs \ {m} /\ votes' = votes
    BY <1>7, <1>n, SendAppendEntriesEffect DEF AppendEntryReply
  <2>2. ballots' \subseteq ballots
    BY <2>1 DEF ballots
  <2>3. PICK t \in Peer :
          /\ persist(i, t)
          /\ \/ t = s
             \/ /\ s.role = "LEADER"
                /\ \E heard \in BOOLEAN : t = stepDown(s, s.term, heard)
             \/ /\ t.term = s.term /\ t.votedFor = s.votedFor /\ t.role = s.role
                /\ t.voteCount = s.voteCount /\ t.ticker = s.ticker
    BY <1>7, SendAppendEntriesEffect
  <2>4. /\ t.term = s.term
        /\ \/ t.role = "FOLLOWER" /\ s.role # "FOLLOWER"
           \/ /\ t.votedFor = s.votedFor /\ t.role = s.role
              /\ t.voteCount = s.voteCount /\ t.ticker = s.ticker
    BY Zenon, <2>1, <2>3 DEF stepDown, Peer
  <2>5. rf'[i] = t /\ \A j \in Server \ {i} : rf'[j] = rf[j]
    BY <1>t, <2>1, <2>3, PersistType
  <2> QED
    BY <1>q, <2>1, <2>2, <2>4, <2>5
<1>8. ASSUME NEW i \in Server, NEW command \in Command, Start(i, command)
      PROVE  ElectionInv'
  <2>1. votes' = votes /\ ballots' = ballots
    BY <1>8 DEF Start, ballots
  <2>2. CASE UNCHANGED <<rf, disk>>
    BY <1>q, <2>1, <2>2
  <2>3. ASSUME NEW t \in Peer, persist(i, t), t.term = rf[i].term,
               t.votedFor = rf[i].votedFor, t.role = rf[i].role,
               t.voteCount = rf[i].voteCount, t.ticker = rf[i].ticker
        PROVE  ElectionInv'
    <3>1. rf'[i] = t /\ \A j \in Server \ {i} : rf'[j] = rf[j]
      BY <1>t, <2>3, PersistType
    <3> QED
      BY <1>q, <2>1, <2>3, <3>1
  <2> QED
    BY Zenon, <1>8, <1>t, <2>2, <2>3, StartEffect
<1>9. ASSUME NEW i \in Server, applyLogs(i)
      PROVE  ElectionInv'
  <2>1. ballots' = ballots
    BY <1>9 DEF applyLogs, ballots
  <2> QED
    BY <1>9, <1>t, <1>q, <2>1, ApplyLogsEffect
<1>10. ASSUME NEW i \in Server, Restart(i)
       PROVE  ElectionInv'
  <2>1. /\ votes' = votes /\ ballots' = ballots /\ \A j \in Server \ {i} : rf'[j] = rf[j]
        /\ rf'[i] = Make(disk[i]) /\ disk[i] = encoded(rf[i])
    BY <1>10, <1>t DEF Restart, DiskIsCurrent, ballots
  <2>2. /\ rf'[i].term = rf[i].term /\ rf'[i].votedFor = rf[i].votedFor
        /\ rf'[i].role = "FOLLOWER"
    <3>1. /\ rf'[i].term = disk[i].term /\ rf'[i].votedFor = disk[i].votedFor
          /\ rf'[i].role = "FOLLOWER"
      BY <2>1 DEF Make
    <3>2. disk[i].term = rf[i].term /\ disk[i].votedFor = rf[i].votedFor
      BY <2>1 DEF encoded
    <3> QED
      BY <3>1, <3>2
  <2> QED
    BY <1>q, <2>1, <2>2
<1>11. ASSUME NEW m \in msgs, Lose(m)
       PROVE  ElectionInv'
  <2>1. rf' = rf /\ votes' = votes /\ ballots' \subseteq ballots
    BY <1>11 DEF Lose, ballots
  <2>2. PICK i \in Server : TRUE
    BY ConstantsAssumption
  <2> QED
    BY <1>q, <2>1, <2>2
<1>12. CASE UNCHANGED vars
  <2>1. rf' = rf /\ votes' = votes /\ ballots' \subseteq ballots
    BY <1>12 DEF vars, ballots
  <2>2. PICK i \in Server : TRUE
    BY ConstantsAssumption
  <2> QED
    BY <1>q, <2>1, <2>2
<1> QED
  BY <1>1, <1>2, <1>3, <1>4, <1>5, <1>6, <1>7, <1>8, <1>9, <1>10, <1>11, <1>12 DEF Next

\* It holds always.
LEMMA ElectionInvariant == Spec => [](TypeInv /\ ElectionInv)
<1>1. ASSUME Init PROVE ElectionInv
  <2>1. ballots = {} /\ votes = {}
    BY <1>1 DEF Init, ballots
  <2>2. \A i \in Server : rf[i].role = "FOLLOWER"
    BY <1>1 DEF Init, Make
  <2>3. OneForeignVotePerTerm /\ BallotsInv /\ VotesInv
    BY <2>1 DEF OneForeignVotePerTerm, BallotsInv, VotesInv
  <2>4. CandidatesInv
    BY <2>2 DEF CandidatesInv, elected
  <2> QED
    BY <2>3, <2>4 DEF ElectionInv
<1>2. Spec => []TypeInv
  BY TypeInvInit, TypeInvNext, PTL DEF Spec
<1> QED
  BY <1>1, <1>2, DiskCurrent, ElectionInvNext, PTL DEF Spec

\* At no moment do two peers lead the same term: for any number of peers, any
\* losses, delays and restarts.
THEOREM OneLeader == Spec => []OneLeaderAtATime
<1>1. TypeInv /\ ElectionInv => OneLeaderAtATime
  BY ElectionSafety DEF TypeInv
<1> QED
  BY <1>1, ElectionInvariant, PTL

\* No peer gives its vote in one term to two others, across restarts.
THEOREM OneForeignVote == Spec => []OneForeignVotePerTerm
<1>1. ElectionInv => OneForeignVotePerTerm
  BY DEF ElectionInv
<1> QED
  BY <1>1, ElectionInvariant, PTL

\* A ticker that acts on a winElection signal acts on one of this election.
THEOREM WonElected == Spec => []WonIsElected
<1>1. ElectionInv => WonIsElected
  BY DEF ElectionInv, CandidatesInv, elected, WonIsElected
<1> QED
  BY <1>1, ElectionInvariant, PTL

=============================================================================
