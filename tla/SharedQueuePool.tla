--------------------------- MODULE SharedQueuePool ---------------------------
(***************************************************************************)
(* SharedQueueThreadPool of project_4 (project_5 has the same code): jobs  *)
(* go through one unbounded crossbeam channel to num threads.  A job that  *)
(* panics unwinds its thread; the Drop of the thread's TaskPool then       *)
(* starts another thread on the same channel.                              *)
(***************************************************************************)
EXTENDS Naturals, Sequences, FiniteSets, SequencesExt

CONSTANTS Thread,       \* one for each of the num threads and its successors
          Job,          \* the jobs given to spawn, each once
          Panics,       \* the jobs that may panic
          MaxFailures   \* bound on the thread starts the system refuses

ASSUME PanicsAssumption == Panics \subseteq Job

VARIABLES
  queue,     \* the channel
  sender,    \* the pool, which owns the Sender, is alive
  thread,    \* [Thread -> what the thread is doing, and on which job]
  spawned,   \* history: the jobs in the order of their spawn
  taken,     \* history: the jobs in the order threads received them
  finished,  \* history: the jobs that returned or panicked
  failures

vars == <<queue, sender, thread, spawned, taken, finished, failures>>

Idle == [pc |-> "recv"]
Running(j) == [pc |-> "task", job |-> j]
Unwinding == [pc |-> "drop"]
Ended == [pc |-> "ended"]

(* SharedQueueThreadPool::new, which fails as a whole if a thread does not start. *)
Init ==
  /\ queue = <<>> /\ sender = TRUE
  /\ thread = [t \in Thread |-> Idle]
  /\ spawned = <<>> /\ taken = <<>> /\ finished = {}
  /\ failures = 0

spawn(j) ==
  /\ sender /\ j \notin Range(spawned)
  /\ queue' = Append(queue, j)
  /\ spawned' = Append(spawned, j)
  /\ UNCHANGED <<sender, thread, taken, finished, failures>>

received_last(q) == [task |-> Last(q), rest |-> Front(q)]

(* crossbeam's recv takes out the oldest message. *)
received(q) == [task |-> Head(q), rest |-> Tail(q)]

(* receiver.0.recv() returned Ok(task). *)
recv(t) ==
  /\ thread[t] = Idle /\ queue # <<>>
  /\ thread' = [thread EXCEPT ![t] = Running(received(queue).task)]
  /\ taken' = Append(taken, received(queue).task)
  /\ queue' = received(queue).rest
  /\ UNCHANGED <<sender, spawned, finished, failures>>

runTask_keepsTask(t, j) == Running(j)

(* run_task after task() returned: back to recv. *)
runTask(t, j) == Idle

finish(t) ==
  \E j \in Job :
    /\ thread[t] = Running(j)
    /\ thread' = [thread EXCEPT ![t] = runTask(t, j)]
    /\ finished' = finished \cup {j}
    /\ UNCHANGED <<queue, sender, spawned, taken, failures>>

panicked(t) ==
  \E j \in Panics :
    /\ thread[t] = Running(j)
    /\ thread' = [thread EXCEPT ![t] = Unwinding]
    /\ finished' = finished \cup {j}
    /\ UNCHANGED <<queue, sender, spawned, taken, failures>>

(* The thread that Drop starts runs run_task on a clone of the receiver. *)
drop == Idle

respawn(t) ==
  /\ thread[t] = Unwinding
  /\ thread' = [thread EXCEPT ![t] = drop]
  /\ UNCHANGED <<queue, sender, spawned, taken, finished, failures>>

refused_ends == Ended

(* The system refused the thread.  The closure that holds the clone is     *)
(* dropped on the thread that is unwinding, so that the clone's own Drop   *)
(* tries again.                                                            *)
refused == Unwinding

respawnFails(t) ==
  /\ thread[t] = Unwinding /\ failures < MaxFailures
  /\ thread' = [thread EXCEPT ![t] = refused]
  /\ failures' = failures + 1
  /\ UNCHANGED <<queue, sender, spawned, taken, finished>>

(* The pool is dropped: recv fails once the channel is empty. *)
dropPool ==
  /\ sender /\ sender' = FALSE
  /\ UNCHANGED <<queue, thread, spawned, taken, finished, failures>>

disconnected_atOnce == ~sender

disconnected == ~sender /\ queue = <<>>

exit(t) ==
  /\ thread[t] = Idle /\ disconnected
  /\ thread' = [thread EXCEPT ![t] = Ended]
  /\ UNCHANGED <<queue, sender, spawned, taken, finished, failures>>

Next ==
  \/ \E j \in Job : spawn(j)
  \/ \E t \in Thread : recv(t) \/ finish(t) \/ panicked(t) \/ respawn(t) \/ respawnFails(t) \/ exit(t)
  \/ dropPool

Spec == Init /\ [][Next]_vars

(* Threads run, jobs end, and the system does not refuse threads for ever. *)
FairSpec ==
  /\ Spec
  /\ \A t \in Thread : WF_vars(recv(t)) /\ WF_vars(finish(t) \/ panicked(t))
                       /\ WF_vars(respawn(t)) /\ WF_vars(exit(t))

-----------------------------------------------------------------------------
(* Properties *)

(* No job is lost or run twice, through panics and the drop of the pool:   *)
(* the jobs received so far, then the queue, are the jobs spawned, in      *)
(* order; and a thread runs a job that nobody else runs or has run         *)
(* (shared_queue.rs:39-43).                                                *)
NothingLost ==
  /\ spawned = taken \o queue
  /\ \A t \in Thread : thread[t].pc = "task" =>
       /\ thread[t].job \in Range(taken) \ finished
       /\ \A u \in Thread \ {t} : thread[u] # thread[t]

(* No panic shrinks the pool: a thread has ended only when the pool was    *)
(* dropped and no job is left in the channel (shared_queue.rs:46-54).      *)
PoolKeepsItsSize ==
  \A t \in Thread : thread[t] = Ended => ~sender /\ queue = <<>>

(* Every job that spawn accepted ends, whatever panics before it and       *)
(* whether or not the pool is dropped (tests/thread_pool.rs:34-49).        *)
JobsEnd == \A j \in Job : (j \in Range(spawned)) ~> (j \in finished)

(* Dropping the pool ends its threads. *)
ThreadsEnd == ~sender ~> \A t \in Thread : thread[t] = Ended
=============================================================================
