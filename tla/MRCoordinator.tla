---------------------------- MODULE MRCoordinator ----------------------------
(***************************************************************************)
(* The MapReduce coordinator of 6.5840/src/mr/coordinator.go, called by    *)
(* workers that report the task they were handed, crash, or are so slow    *)
(* that the task is handed out again.                                      *)
(*                                                                         *)
(* GetTask holds the coordinator's lock throughout and is one action.  The *)
(* flags isDone are the sets mapDone and reduceDone; a task is in          *)
(* mapStarted or reduceStarted while its startAt is less than ten seconds  *)
(* old.  worker[w] is the reply w is working on, which a crash forgets.    *)
(***************************************************************************)
EXTENDS Integers, Sequences, FiniteSets, FiniteSetsExt

CONSTANTS
  Worker,   \* worker processes
  NMap,     \* number of input files, one map task for each
  NReduce,  \* number of reduce tasks
  Emits,    \* Emits[m]: the reduce tasks for which map task m emits a key
  AfterMap, \* the statuses a worker may report a map task with: GetTask takes
            \* it as done for "Map"; MapTask of worker.go sends "Done"
  Crashing  \* the workers that may crash

MapTask == 0..(NMap - 1)
ReduceTask == 0..(NReduce - 1)

ASSUME ConstantsAssumption ==
  /\ NMap \in Nat \ {0} /\ NReduce \in Nat \ {0}
  /\ Emits \in [MapTask -> SUBSET ReduceTask]
  /\ AfterMap \subseteq {"Map", "Done"} /\ Crashing \subseteq Worker

VARIABLES
  mapDone, mapStarted,        \* the map tasks with isDone, with a recent startAt
  reduceDone, reduceStarted,  \* and the reduce tasks
  files,                      \* files[r]: the map tasks whose file for r is listed
  mapLeft, reduceLeft,        \* the counters of tasks left
  up,                         \* the coordinator process has not ended
  worker                      \* what each worker was last told

coordinator == <<mapDone, mapStarted, reduceDone, reduceStarted, files,
                 mapLeft, reduceLeft>>

vars == <<coordinator, up, worker>>

-----------------------------------------------------------------------------
(* The RPC messages.                                                       *)

\* A TaskReply.  Of a reduce task it has the list of files.
MapReply(m) == [status |-> "Map", id |-> m, files |-> <<>>]
ReduceReply(r, list) == [status |-> "Reduce", id |-> r, files |-> list]
Sleep == [status |-> "Sleep", id |-> 0, files |-> <<>>]
Exit == [status |-> "Exit", id |-> 0, files |-> <<>>]

\* A worker that has not called yet, and one that is gone.
None == [status |-> "None", id |-> 0, files |-> <<>>]
Gone == [status |-> "Gone", id |-> 0, files |-> <<>>]

-----------------------------------------------------------------------------
(* The coordinator.                                                        *)

MakeCoordinator ==
  /\ mapDone = {} /\ mapStarted = {} /\ mapLeft = NMap
  /\ reduceDone = {} /\ reduceStarted = {} /\ reduceLeft = NReduce
  /\ files = [r \in ReduceTask |-> <<>>]

Init ==
  /\ MakeCoordinator
  /\ up = TRUE
  /\ worker = [w \in Worker |-> None]

\* A report of task id is taken: a map task is done, and its files are listed
\* with the reduce tasks they are for (mapped), or a reduce task is (reduced).
taken(id, mapped, reduced) ==
  /\ mapDone' = mapDone \cup (IF mapped THEN {id} ELSE {})
  /\ mapLeft' = IF mapped THEN mapLeft - 1 ELSE mapLeft
  /\ files' = [r \in ReduceTask |->
                 IF mapped /\ r \in Emits[id] THEN Append(files[r], id) ELSE files[r]]
  /\ reduceDone' = reduceDone \cup (IF reduced THEN {id} ELSE {})
  /\ reduceLeft' = IF reduced THEN reduceLeft - 1 ELSE reduceLeft

\* Mutant: the report of a task that is done already is taken again.
reported_again(status, id) == taken(id, status = "Map", status = "Reduce")

\* The first half of GetTask: only the first report of a task is taken.
reported(status, id) ==
  taken(id, status = "Map" /\ id \notin mapDone, status = "Reduce" /\ id \notin reduceDone)

\* The first task that is neither done nor recently started is handed to w, a
\* map task as long as more than few of them are left.
handedOut(w, few) ==
  LET maps == (MapTask \ mapDone') \ mapStarted
      reduces == (ReduceTask \ reduceDone') \ reduceStarted IN
  \/ /\ mapLeft' > few /\ maps # {}
     /\ mapStarted' = mapStarted \cup {Min(maps)}
     /\ worker' = [worker EXCEPT ![w] = MapReply(Min(maps))]
     /\ UNCHANGED reduceStarted
  \/ /\ mapLeft' <= few /\ reduceLeft' > 0 /\ reduces # {}
     /\ reduceStarted' = reduceStarted \cup {Min(reduces)}
     /\ worker' = [worker EXCEPT ![w] = ReduceReply(Min(reduces), files'[Min(reduces)])]
     /\ UNCHANGED mapStarted
  \/ /\ \/ mapLeft' > few /\ maps = {}
        \/ mapLeft' <= few /\ reduceLeft' > 0 /\ reduces = {}
     /\ worker' = [worker EXCEPT ![w] = Sleep]
     /\ UNCHANGED <<mapStarted, reduceStarted>>
  \/ /\ mapLeft' <= few /\ reduceLeft' <= 0
     /\ worker' = [worker EXCEPT ![w] = Exit]
     /\ UNCHANGED <<mapStarted, reduceStarted>>

\* Mutant: reduce tasks go out while the last map task is running.
assigned_early(w) == handedOut(w, 1)

\* The second half: map tasks go out until none is left.
assigned(w) == handedOut(w, 0)

GetTask(w, status, id) ==
  /\ up
  /\ reported(status, id)
  /\ assigned(w)
  /\ UNCHANGED up

Done == mapLeft = 0 /\ reduceLeft = 0

\* main polls Done, and ends the process once it holds.
mainExits ==
  /\ up /\ Done
  /\ up' = FALSE
  /\ UNCHANGED <<coordinator, worker>>

-----------------------------------------------------------------------------
(* The workers and the clock.                                              *)

\* The worker loop: carry out what the last reply asked for, report it and ask
\* for the next task.  MapTask reports one of AfterMap, ReduceTask Reduce.
call(w) ==
  /\ worker[w].status \in {"None", "Map", "Reduce", "Sleep"}
  /\ \E status \in CASE worker[w].status = "Map"    -> AfterMap
                     [] worker[w].status = "Reduce" -> {"Reduce"}
                     [] OTHER                       -> {"None"} :
       GetTask(w, status, worker[w].id)

\* A worker returns when it is told to exit, and ends when its call fails.
finish(w) ==
  /\ worker[w] = Exit \/ (~up /\ worker[w] # Gone)
  /\ worker' = [worker EXCEPT ![w] = Gone]
  /\ UNCHANGED <<coordinator, up>>

\* A worker crashes, at any point of its task: the reply it had is lost.
crash(w) ==
  /\ w \in Crashing /\ worker[w] # Gone
  /\ worker' = [worker EXCEPT ![w] = Gone]
  /\ UNCHANGED <<coordinator, up>>

\* Mutant: a task is not handed out again after ten seconds.
expire_done(m) ==
  /\ up /\ m \in mapStarted \cap mapDone
  /\ mapStarted' = mapStarted \ {m}
  /\ UNCHANGED <<mapDone, reduceDone, reduceStarted, files, mapLeft, reduceLeft, up, worker>>

\* Ten seconds have passed since a task was handed out.
expireMap(m) ==
  /\ up /\ m \in mapStarted
  /\ mapStarted' = mapStarted \ {m}
  /\ UNCHANGED <<mapDone, reduceDone, reduceStarted, files, mapLeft, reduceLeft, up, worker>>

expireReduce(r) ==
  /\ up /\ r \in reduceStarted
  /\ reduceStarted' = reduceStarted \ {r}
  /\ UNCHANGED <<mapDone, reduceDone, mapStarted, files, mapLeft, reduceLeft, up, worker>>

Next ==
  \/ \E w \in Worker : call(w) \/ finish(w) \/ crash(w)
  \/ \E m \in MapTask : expireMap(m)
  \/ \E r \in ReduceTask : expireReduce(r)
  \/ mainExits

Spec == Init /\ [][Next]_vars

\* Time passes, main keeps polling Done, and a worker that has not crashed
\* comes back: each of its loops ends in a call.
FairSpec ==
  /\ Spec
  /\ WF_vars(mainExits)
  /\ \A w \in Worker : WF_vars(call(w))
  /\ \A m \in MapTask : WF_vars(expireMap(m))
  /\ \A r \in ReduceTask : WF_vars(expireReduce(r))

-----------------------------------------------------------------------------
(* Properties.                                                             *)

\* The counters are the number of tasks not done, although a task is reported
\* by every worker it was handed to.
LeftCounts ==
  /\ mapLeft = Cardinality(MapTask \ mapDone)
  /\ reduceLeft = Cardinality(ReduceTask \ reduceDone)

\* m is listed exactly once.
listedOnce(list, m) ==
  \E k \in 1..Len(list) : list[k] = m /\ \A n \in 1..Len(list) : list[n] = m => n = k

\* The list of files in a reduce reply has one file of every map task that
\* emitted a key for it, and no other: neither a map task run twice nor one
\* that was late.
ReduceGetsAllFiles ==
  \A w \in Worker :
    worker[w].status = "Reduce" =>
      \A m \in MapTask :
        IF worker[w].id \in Emits[m]
          THEN listedOnce(worker[w].files, m)
          ELSE \A k \in 1..Len(worker[w].files) : worker[w].files[k] # m

\* "workers are required to exit when a job is completely finished, and not
\* before": a worker told to exit, or a coordinator that has ended, means that
\* every task has been reported.
ExitMeansFinished ==
  (\E w \in Worker : worker[w] = Exit) \/ ~up
    => mapDone = MapTask /\ reduceDone = ReduceTask

\* Two workers that run the same reduce task, one of them presumed dead, were
\* given the same list of files in the same order: no late report of a map
\* task changes a list after it was handed out.
RerunGetsSameFiles ==
  \A v, w \in Worker :
    worker[v].status = "Reduce" /\ worker[w].status = "Reduce" /\ worker[v].id = worker[w].id
      => worker[v].files = worker[w].files

\* main's loop on Done ends: every task is eventually reported, whatever tasks
\* crashed workers held, and the coordinator process ends.
JobFinishes == <>(~up)
=============================================================================
