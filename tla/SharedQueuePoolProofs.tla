------------------------ MODULE SharedQueuePoolProofs ------------------------
(***************************************************************************)
(* Proofs about SharedQueuePool, for any number of threads and jobs and    *)
(* any number of panics and refused threads: no job is lost or run twice,  *)
(* and no panic shrinks the pool.                                          *)
(***************************************************************************)
EXTENDS SharedQueuePool, SequenceTheorems, TLAPS

States == {Idle, Unwinding, Ended} \cup {Running(j) : j \in Job}

TypesInv ==
  /\ queue \in Seq(Job) /\ spawned \in Seq(Job) /\ taken \in Seq(Job)
  /\ thread \in [Thread -> States]
  /\ sender \in BOOLEAN

\* A job is spawned once, and the channel holds what is not yet taken.
OrderInv ==
  /\ spawned = taken \o queue
  /\ \A a, b \in 1..Len(spawned) : a # b => spawned[a] # spawned[b]

\* A job that runs or has ended was taken; it does not run twice.
RunInv ==
  /\ finished \subseteq Range(taken)
  /\ \A t \in Thread, j \in Job : thread[t] = Running(j) =>
       /\ j \in Range(taken) \ finished
       /\ \A u \in Thread \ {t} : thread[u] # Running(j)

PoolInv == TypesInv /\ OrderInv /\ RunInv /\ PoolKeepsItsSize

\* The states of a thread are distinct.
LEMMA Distinct ==
  ASSUME NEW j \in Job
  PROVE  /\ Running(j) # Idle /\ Running(j) # Unwinding /\ Running(j) # Ended
         /\ Idle # Ended /\ Unwinding # Ended /\ Idle # Unwinding
         /\ \A k \in Job : Running(j) = Running(k) => j = k
         /\ Running(j).pc = "task" /\ Running(j).job = j
  BY DEF Idle, Running, Unwinding, Ended

\* So are the idle, unwinding and ended one, whatever jobs there are.
LEMMA DistinctPlain ==
  /\ Idle # Ended /\ Unwinding # Ended /\ Idle # Unwinding
  /\ Idle.pc # "task" /\ Unwinding.pc # "task" /\ Ended.pc # "task"
  BY DEF Idle, Running, Unwinding, Ended

\* What has been taken, after one more.
LEMMA RangeAppend ==
  ASSUME NEW s \in Seq(Job), NEW j \in Job
  PROVE  Append(s, j) \in Seq(Job) /\ Range(Append(s, j)) = Range(s) \cup {j}
<1>1. /\ Append(s, j) \in Seq(Job) /\ Len(Append(s, j)) = Len(s) + 1 /\ Append(s, j)[Len(s) + 1] = j
      /\ \A i \in 1..Len(s) : Append(s, j)[i] = s[i]
  OBVIOUS
<1>2. DOMAIN Append(s, j) = 1..(Len(s) + 1) /\ DOMAIN s = 1..Len(s) /\ Len(s) \in Nat
  BY <1>1
<1>. QED  BY <1>1, <1>2 DEF Range

\* spawn puts a new job at the end of both.
LEMMA SpawnKeeps ==
  ASSUME PoolInv, NEW j \in Job, spawn(j)
  PROVE  PoolInv'
<1>1. /\ sender /\ j \notin Range(spawned) /\ queue' = Append(queue, j) /\ spawned' = Append(spawned, j)
      /\ UNCHANGED <<sender, thread, taken, finished>>
  BY DEF spawn
<1>2. queue \in Seq(Job) /\ spawned \in Seq(Job) /\ taken \in Seq(Job) /\ spawned = taken \o queue
  BY DEF PoolInv, TypesInv, OrderInv
<1>3. TypesInv'
  BY <1>1, <1>2, RangeAppend DEF PoolInv, TypesInv
<1>4. spawned' = taken' \o queue'
  <2>1. Append(queue, j) = queue \o <<j>> /\ Append(spawned, j) = spawned \o <<j>>
    BY <1>2, AppendIsConcat
  <2>2. <<j>> \in Seq(Job)
    OBVIOUS
  <2>3. (taken \o queue) \o <<j>> = taken \o (queue \o <<j>>)
    BY <1>2, <2>2, ConcatAssociative
  <2>. QED  BY <1>1, <1>2, <2>1, <2>3
<1>5. \A a \in 1..Len(spawned) : spawned[a] # j
  <2>1. DOMAIN spawned = 1..Len(spawned)
    BY <1>2
  <2>. QED  BY <1>1, <2>1 DEF Range
<1>6. \A a, b \in 1..Len(spawned') : a # b => spawned'[a] # spawned'[b]
  <2>1. /\ Len(spawned') = Len(spawned) + 1 /\ spawned'[Len(spawned) + 1] = j
        /\ \A i \in 1..Len(spawned) : spawned'[i] = spawned[i]
    BY <1>1, <1>2
  <2>2. \A a, b \in 1..Len(spawned) : a # b => spawned[a] # spawned[b]
    BY DEF PoolInv, OrderInv
  <2>3. Len(spawned) \in Nat
    BY <1>2
  <2>. QED  BY <1>5, <2>1, <2>2, <2>3
<1>7. RunInv' /\ PoolKeepsItsSize'
  BY <1>1 DEF PoolInv, RunInv, PoolKeepsItsSize
<1>. QED  BY <1>3, <1>4, <1>6, <1>7 DEF PoolInv, OrderInv

\* recv takes the first job of the channel, which nobody has taken.
LEMMA RecvKeeps ==
  ASSUME PoolInv, NEW t \in Thread, recv(t)
  PROVE  PoolInv'
<1>1. PICK j : j = Head(queue)
  OBVIOUS
<1>2. /\ thread[t] = Idle /\ queue # << >> /\ thread' = [thread EXCEPT ![t] = Running(j)]
      /\ taken' = Append(taken, j) /\ queue' = Tail(queue) /\ UNCHANGED <<sender, spawned, finished>>
  BY <1>1 DEF recv, received
<1>3. /\ queue \in Seq(Job) /\ spawned \in Seq(Job) /\ taken \in Seq(Job) /\ spawned = taken \o queue
      /\ thread \in [Thread -> States]
  BY DEF PoolInv, TypesInv, OrderInv
<1>4. j \in Job /\ j = queue[1] /\ Len(queue) \in Nat /\ Len(queue) >= 1
  BY <1>1, <1>2, <1>3
<1>5. taken' \in Seq(Job) /\ Range(taken') = Range(taken) \cup {j}
  BY <1>2, <1>3, <1>4, RangeAppend
<1>6. thread' \in [Thread -> States] /\ thread'[t] = Running(j) /\ \A u \in Thread \ {t} : thread'[u] = thread[u]
  <2>1. Running(j) \in States
    BY <1>4 DEF States
  <2>. QED  BY <1>2, <1>3, <2>1
<1>7. TypesInv'
  BY <1>2, <1>3, <1>5, <1>6 DEF PoolInv, TypesInv
<1>8. spawned' = taken' \o queue'
  <2>1. queue = <<j>> \o Tail(queue)
    BY <1>1, <1>2, <1>3
  <2>2. Append(taken, j) \o Tail(queue) = taken \o (<<j>> \o Tail(queue))
    <3>1. Append(taken, j) = taken \o <<j>> /\ <<j>> \in Seq(Job) /\ Tail(queue) \in Seq(Job)
      BY <1>2, <1>3, <1>4, AppendIsConcat
    <3>. QED  BY <1>3, <3>1, ConcatAssociative
  <2>. QED  BY <1>2, <1>3, <2>1, <2>2
<1>9. j \notin Range(taken)
  <2>1. ASSUME NEW a \in 1..Len(taken) PROVE taken[a] # j
    <3>1. Len(taken) \in Nat /\ Len(spawned) = Len(taken) + Len(queue)
      BY <1>3
    <3>2. spawned[a] = taken[a] /\ spawned[Len(taken) + 1] = queue[1]
      BY <1>3, <1>4, <3>1
    <3>3. a \in 1..Len(spawned) /\ Len(taken) + 1 \in 1..Len(spawned) /\ a # Len(taken) + 1
      BY <1>4, <3>1
    <3>. QED  BY <1>4, <3>2, <3>3 DEF PoolInv, OrderInv
  <2>. QED  BY <1>3, <2>1 DEF Range
<1>10. RunInv'
  <2>1. finished' \subseteq Range(taken')
    BY <1>2, <1>5 DEF PoolInv, RunInv
  <2>2. ASSUME NEW u \in Thread, NEW k \in Job, thread'[u] = Running(k)
        PROVE  /\ k \in Range(taken') \ finished'
               /\ \A v \in Thread \ {u} : thread'[v] # Running(k)
    <3>1. CASE u = t
      <4>1. k = j
        BY <1>4, <1>6, <2>2, <3>1, Distinct
      <4>2. k \in Range(taken') \ finished'
        BY <1>2, <1>5, <1>9, <4>1 DEF PoolInv, RunInv
      <4>3. \A v \in Thread \ {u} : thread'[v] # Running(k)
        BY <1>4, <1>6, <1>9, <3>1, <4>1 DEF PoolInv, RunInv
      <4>. QED  BY <4>2, <4>3
    <3>2. CASE u # t
      <4>1. thread[u] = Running(k) /\ k \in Range(taken) \ finished /\ \A v \in Thread \ {u} : thread[v] # Running(k)
        BY <1>6, <2>2, <3>2 DEF PoolInv, RunInv
      <4>2. k # j
        BY <1>9, <4>1
      <4>3. thread'[t] # Running(k)
        BY <1>4, <1>6, <4>2, Distinct
      <4>4. \A v \in Thread \ {u} : thread'[v] # Running(k)
        BY <1>6, <4>1, <4>3
      <4>. QED  BY <1>2, <1>5, <4>1, <4>4
    <3>. QED  BY <3>1, <3>2
  <2>. QED  BY <2>1, <2>2 DEF RunInv
<1>11. PoolKeepsItsSize'
  BY <1>2, <1>4, <1>6, Distinct DEF PoolInv, PoolKeepsItsSize
<1>. QED  BY <1>2, <1>7, <1>8, <1>10, <1>11 DEF PoolInv, OrderInv

\* A thread that stops running its job, or was not running one.
LEMMA ThreadKeeps ==
  ASSUME PoolInv, NEW t \in Thread, NEW s \in {Idle, Unwinding, Ended},
         thread' = [thread EXCEPT ![t] = s], UNCHANGED <<queue, sender, spawned, taken>>,
         \/ finished' = finished
         \/ \E j \in Job : thread[t] = Running(j) /\ finished' = finished \cup {j},
         s = Ended => ~sender /\ queue = << >>
  PROVE  PoolInv'
<1>1. thread \in [Thread -> States] /\ s \in States
  BY DEF PoolInv, TypesInv, States
<1>2. thread' \in [Thread -> States] /\ thread'[t] = s /\ \A u \in Thread \ {t} : thread'[u] = thread[u]
  BY <1>1
<1>3. TypesInv' /\ OrderInv'
  BY <1>2 DEF PoolInv, TypesInv, OrderInv
<1>4. PoolKeepsItsSize'
  BY <1>2 DEF PoolInv, PoolKeepsItsSize
<1>5. finished' \subseteq Range(taken')
  BY DEF PoolInv, RunInv
<1>6. ASSUME NEW u \in Thread, NEW k \in Job, thread'[u] = Running(k)
      PROVE  /\ k \in Range(taken') \ finished'
             /\ \A v \in Thread \ {u} : thread'[v] # Running(k)
  <2>1. u # t /\ s # Running(k)
    BY <1>2, <1>6, Distinct
  <2>2. thread[u] = Running(k) /\ k \in Range(taken) \ finished /\ \A v \in Thread \ {u} : thread[v] # Running(k)
    BY <1>2, <1>6, <2>1 DEF PoolInv, RunInv
  <2>3. k \notin finished'
    BY <2>1, <2>2
  <2>. QED  BY <1>2, <2>1, <2>2, <2>3
<1>. QED  BY <1>3, <1>4, <1>5, <1>6 DEF PoolInv, RunInv

\* Every step keeps the invariant.
LEMMA PoolStep ==
  ASSUME PoolInv, [Next]_vars
  PROVE  PoolInv'
<1>1. ASSUME NEW t \in Thread, finish(t) \/ panicked(t) \/ respawn(t) \/ respawnFails(t) \/ exit(t)
      PROVE  PoolInv'
  <2>1. CASE finish(t)
    BY <2>1, ThreadKeeps, DistinctPlain DEF finish, runTask
  <2>2. CASE panicked(t)
    BY <2>2, ThreadKeeps, PanicsAssumption, DistinctPlain DEF panicked
  <2>3. CASE respawn(t)
    BY <2>3, ThreadKeeps, DistinctPlain DEF respawn, drop
  <2>4. CASE respawnFails(t)
    BY <2>4, ThreadKeeps, DistinctPlain DEF respawnFails, refused
  <2>5. CASE exit(t)
    BY <2>5, ThreadKeeps DEF exit, disconnected
  <2>. QED  BY <1>1, <2>1, <2>2, <2>3, <2>4, <2>5
<1>2. CASE dropPool
  BY <1>2 DEF dropPool, PoolInv, TypesInv, OrderInv, RunInv, PoolKeepsItsSize
<1>3. CASE UNCHANGED vars
  BY <1>3 DEF vars, PoolInv, TypesInv, OrderInv, RunInv, PoolKeepsItsSize
<1>. QED  BY <1>1, <1>2, <1>3, SpawnKeeps, RecvKeeps DEF Next

\* The invariant holds of a new pool, and always.
LEMMA PoolAlways == Spec => []PoolInv
<1>1. Init => PoolInv
  <2>. SUFFICES ASSUME Init PROVE PoolInv
    OBVIOUS
  <2>1. \A t \in Thread : thread[t] = Idle
    BY DEF Init
  <2>2. TypesInv
    BY DEF Init, TypesInv, States
  <2>3. OrderInv
    BY DEF Init, OrderInv
  <2>4. RunInv
    BY <2>1, Distinct DEF Init, RunInv
  <2>5. PoolKeepsItsSize
    BY <2>1, DistinctPlain DEF PoolKeepsItsSize
  <2>. QED  BY <2>2, <2>3, <2>4, <2>5 DEF PoolInv
<1>. QED  BY <1>1, PoolStep, PTL DEF Spec

\* No job is lost, reordered or run twice (TaskPool::run_task, shared_queue.rs:39-43),
\* through panics, refused threads and the drop of the pool.
THEOREM JobsNotLost == Spec => []NothingLost
<1>1. ASSUME PoolInv PROVE NothingLost
  <2>1. ASSUME NEW t \in Thread, thread[t].pc = "task"
        PROVE  /\ thread[t].job \in Range(taken) \ finished
               /\ \A u \in Thread \ {t} : thread[u] # thread[t]
    <3>1. thread[t] \in States
      BY <1>1 DEF PoolInv, TypesInv
    <3>2. PICK j \in Job : thread[t] = Running(j)
      BY <2>1, <3>1, DistinctPlain DEF States
    <3>. QED  BY <1>1, <3>2, Distinct DEF PoolInv, RunInv
  <2>. QED  BY <1>1, <2>1 DEF NothingLost, PoolInv, OrderInv
<1>. QED  BY <1>1, PoolAlways, PTL

\* A thread that a panic ended has a successor (the Drop of TaskPool, shared_queue.rs:46-54):
\* threads end only after the pool was dropped and the channel drained.
THEOREM PoolKept == Spec => []PoolKeepsItsSize
<1>1. PoolInv => PoolKeepsItsSize
  BY DEF PoolInv
<1>. QED  BY <1>1, PoolAlways, PTL
=============================================================================
