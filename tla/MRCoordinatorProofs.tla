-------------------------- MODULE MRCoordinatorProofs --------------------------
(***************************************************************************)
(* The safety of MRCoordinator, for any number of workers and tasks, any   *)
(* keys the map tasks emit and any set of workers that crash: LeftCounts,  *)
(* ReduceGetsAllFiles, RerunGetsSameFiles and ExitMeansFinished.           *)
(***************************************************************************)
EXTENDS MRCoordinator, FiniteSetTheorems, NaturalsInduction, WellFoundedInduction, TLAPS

-----------------------------------------------------------------------------
(* The inductive invariant.                                                *)

\* The tasks and lists are of the types the code gives them.
TypesInv ==
  /\ mapDone \subseteq MapTask /\ reduceDone \subseteq ReduceTask
  /\ files \in [ReduceTask -> Seq(MapTask)]
  /\ worker = [w \in Worker |-> worker[w]]
  /\ \A w \in Worker : /\ worker[w].status = "Map" => worker[w].id \in MapTask
                       /\ worker[w].status = "Reduce" => worker[w].id \in ReduceTask

\* What the coordinator lists: the files of the map tasks that are done.
listed(list, r, done) ==
  \A m \in MapTask :
    IF r \in Emits[m] /\ m \in done
      THEN listedOnce(list, m)
      ELSE \A k \in 1..Len(list) : list[k] # m

FilesInv == \A r \in ReduceTask : listed(files[r], r, mapDone)

\* A reduce task is handed out with the list the coordinator still has, and
\* only once no map task is left, so that no list grows any more.
RepliesInv ==
  \A w \in Worker :
    worker[w].status = "Reduce" =>
      mapDone = MapTask /\ worker[w].files = files[worker[w].id]

ExitsInv ==
  /\ \A w \in Worker : worker[w].status = "Exit" =>
       mapDone = MapTask /\ reduceDone = ReduceTask
  /\ ~up => mapDone = MapTask /\ reduceDone = ReduceTask

MRInv == TypesInv /\ LeftCounts /\ FilesInv /\ RepliesInv /\ ExitsInv

-----------------------------------------------------------------------------
(* Facts about the operators.                                              *)

\* The loops of GetTask that look for the first task left (coordinator.go)
\* find one when there is one.
LEMMA FirstTask ==
  ASSUME NEW S \in SUBSET Nat, S # {}
  PROVE  Min(S) \in S
<1>1. PICK x \in S : \A y \in S : ~(<<y, x>> \in OpToRel(<, Nat))
  BY Zenon, WFMin, NatLessThanWellFounded
<1>2. ASSUME NEW y \in S PROVE x =< y
  <2>1. ~(<<y, x>> \in OpToRel(<, Nat))
    BY <1>1
  <2> QED
    BY <2>1 DEF OpToRel
<1> QED
  BY Zenon, <1>2 DEF Min

\* There are finitely many tasks, and none is left when the counter is 0.
LEMMA TasksLeft ==
  ASSUME NEW N \in Nat, NEW done \in SUBSET (0..(N - 1))
  PROVE  /\ IsFiniteSet((0..(N - 1)) \ done)
         /\ Cardinality((0..(N - 1)) \ done) \in Nat
         /\ Cardinality((0..(N - 1)) \ done) = 0 => done = 0..(N - 1)
<1>1. IsFiniteSet(0..(N - 1))
  BY FS_Interval
<1>2. IsFiniteSet((0..(N - 1)) \ done)
  BY <1>1, FS_Difference
<1> DEFINE left == (0..(N - 1)) \ done
<1>3. Cardinality(left) \in Nat /\ (Cardinality(left) = 0 => left = {})
  BY <1>2, FS_CardinalityType, FS_EmptySet, Zenon
<1> QED
  BY <1>2, <1>3

\* A task that is reported for the first time is one less left.
LEMMA OneLess ==
  ASSUME NEW N \in Nat, NEW done \in SUBSET (0..(N - 1)), NEW id \in (0..(N - 1)) \ done
  PROVE  Cardinality((0..(N - 1)) \ (done \cup {id})) = Cardinality((0..(N - 1)) \ done) - 1
<1>1. (0..(N - 1)) \ (done \cup {id}) = ((0..(N - 1)) \ done) \ {id}
  OBVIOUS
<1> DEFINE left == (0..(N - 1)) \ done
<1>2. IsFiniteSet(left) /\ id \in left
  BY TasksLeft
<1>3. Cardinality(left \ {id}) = Cardinality(left) - 1
  BY <1>2, FS_RemoveElement, Zenon
<1> QED
  BY <1>1, <1>3

\* The file of a map task that was not listed is listed once when appended.
LEMMA AppendLists ==
  ASSUME NEW r \in ReduceTask, NEW done \in SUBSET MapTask, NEW list \in Seq(MapTask),
         listed(list, r, done), NEW id \in MapTask \ done
  PROVE  listed(IF r \in Emits[id] THEN Append(list, id) ELSE list, r, done \cup {id})
<1>1. CASE r \notin Emits[id]
  BY <1>1 DEF listed
<1>2. CASE r \in Emits[id]
  <2>1. /\ Len(Append(list, id)) = Len(list) + 1 /\ Len(list) \in Nat
        /\ \A k \in 1..Len(list) : Append(list, id)[k] = list[k]
        /\ Append(list, id)[Len(list) + 1] = id
    OBVIOUS
  <2>2. 1..(Len(list) + 1) = 1..Len(list) \cup {Len(list) + 1}
    BY <2>1
  <2>3. listedOnce(Append(list, id), id)
    <3>1. \A k \in 1..Len(list) : list[k] # id
      BY DEF listed
    <3>2. \A k \in 1..(Len(list) + 1) : Append(list, id)[k] = id => k = Len(list) + 1
      BY <2>1, <2>2, <3>1
    <3> QED
      BY <2>1, <2>2, <3>2 DEF listedOnce
  <2>4. ASSUME NEW m \in MapTask, m # id
        PROVE  /\ listedOnce(list, m) => listedOnce(Append(list, id), m)
               /\ (\A k \in 1..Len(list) : list[k] # m)
                    => \A k \in 1..Len(Append(list, id)) : Append(list, id)[k] # m
    <3>1. ASSUME listedOnce(list, m) PROVE listedOnce(Append(list, id), m)
      <4>1. PICK k \in 1..Len(list) :
              list[k] = m /\ \A j \in 1..Len(list) : list[j] = m => j = k
        BY <3>1 DEF listedOnce
      <4>2. \A j \in 1..(Len(list) + 1) : Append(list, id)[j] = m => j = k
        BY <2>1, <2>2, <2>4, <4>1
      <4> QED
        BY <2>1, <2>2, <4>1, <4>2 DEF listedOnce
    <3> QED
      BY <2>1, <2>2, <2>4, <3>1
  <2> QED
    BY <1>2, <2>3, <2>4 DEF listed
<1> QED
  BY <1>1, <1>2

-----------------------------------------------------------------------------
(* GetTask.                                                                *)

\* The first half of GetTask keeps the counters and the lists right,
\* whichever worker reports and however often the task was reported before.
LEMMA ReportKeepsCounts ==
  ASSUME MRInv, NEW status, NEW id, reported(status, id),
         status = "Map" => id \in MapTask, status = "Reduce" => id \in ReduceTask
  PROVE  /\ mapDone' \subseteq MapTask /\ reduceDone' \subseteq ReduceTask
         /\ files' \in [ReduceTask -> Seq(MapTask)]
         /\ LeftCounts' /\ FilesInv'
<1> DEFINE mapped == status = "Map" /\ id \notin mapDone
           reduced == status = "Reduce" /\ id \notin reduceDone
<1>0. NMap \in Nat /\ NReduce \in Nat
  BY ConstantsAssumption
<1>1. /\ mapDone' = mapDone \cup (IF mapped THEN {id} ELSE {})
      /\ mapLeft' = IF mapped THEN mapLeft - 1 ELSE mapLeft
      /\ files' = [r \in ReduceTask |->
                     IF mapped /\ r \in Emits[id] THEN Append(files[r], id) ELSE files[r]]
      /\ reduceDone' = reduceDone \cup (IF reduced THEN {id} ELSE {})
      /\ reduceLeft' = IF reduced THEN reduceLeft - 1 ELSE reduceLeft
  BY DEF reported, taken
<1>2. mapDone' \subseteq MapTask /\ reduceDone' \subseteq ReduceTask
  BY <1>1 DEF MRInv, TypesInv
<1>3. mapLeft' = Cardinality(MapTask \ mapDone')
  <2>1. CASE mapped
    <3>1. mapDone' = mapDone \cup {id} /\ mapLeft' = mapLeft - 1
      BY <1>1, <2>1
    <3>2. Cardinality(MapTask \ (mapDone \cup {id})) = Cardinality(MapTask \ mapDone) - 1
      BY <1>0, <2>1, OneLess DEF MapTask, MRInv, TypesInv
    <3> QED
      BY <3>1, <3>2 DEF MRInv, LeftCounts
  <2>2. CASE ~mapped
    BY <1>1, <2>2 DEF MRInv, LeftCounts
  <2> QED
    BY <2>1, <2>2
<1>4. reduceLeft' = Cardinality(ReduceTask \ reduceDone')
  <2>1. CASE reduced
    <3>1. reduceDone' = reduceDone \cup {id} /\ reduceLeft' = reduceLeft - 1
      BY <1>1, <2>1
    <3>2. Cardinality(ReduceTask \ (reduceDone \cup {id}))
            = Cardinality(ReduceTask \ reduceDone) - 1
      BY <1>0, <2>1, OneLess DEF ReduceTask, MRInv, TypesInv
    <3> QED
      BY <3>1, <3>2 DEF MRInv, LeftCounts
  <2>2. CASE ~reduced
    BY <1>1, <2>2 DEF MRInv, LeftCounts
  <2> QED
    BY <2>1, <2>2
<1>5. ASSUME NEW r \in ReduceTask
      PROVE  files'[r] \in Seq(MapTask) /\ listed(files'[r], r, mapDone')
  <2>0. files[r] \in Seq(MapTask) /\ listed(files[r], r, mapDone) /\ mapDone \in SUBSET MapTask
    BY DEF MRInv, TypesInv, FilesInv
  <2>1. CASE mapped
    <3>1. /\ files'[r] = IF r \in Emits[id] THEN Append(files[r], id) ELSE files[r]
          /\ mapDone' = mapDone \cup {id} /\ id \in MapTask \ mapDone
      BY <1>1, <2>1
    <3>2. listed(files'[r], r, mapDone \cup {id})
      BY <2>0, <3>1, AppendLists
    <3> QED
      BY <2>0, <3>1, <3>2
  <2>2. CASE ~mapped
    <3>1. files'[r] = files[r] /\ mapDone' = mapDone
      BY <1>1, <2>2
    <3> QED
      BY <2>0, <3>1
  <2> QED
    BY <2>1, <2>2
<1>6. files' \in [ReduceTask -> Seq(MapTask)]
  <2>1. files' = [r \in ReduceTask |-> files'[r]]
    BY <1>1
  <2> QED
    BY <1>5, <2>1
<1> QED
  BY <1>2, <1>3, <1>4, <1>5, <1>6 DEF LeftCounts, FilesInv

\* Once every map task has been reported, late reports of map tasks change no
\* list; and a job that is finished stays so.
LEMMA ReportKeepsFinished ==
  ASSUME MRInv, NEW status, NEW id, reported(status, id),
         status = "Map" => id \in MapTask, status = "Reduce" => id \in ReduceTask
  PROVE  /\ mapDone = MapTask => mapDone' = MapTask /\ files' = files
         /\ reduceDone = ReduceTask => reduceDone' = ReduceTask
<1>1. ASSUME mapDone = MapTask PROVE mapDone' = MapTask /\ files' = files
  <2>1. ~(status = "Map" /\ id \notin mapDone)
    BY <1>1
  <2>2. mapDone' = mapDone /\ files' = [r \in ReduceTask |-> files[r]]
    BY <2>1 DEF reported, taken
  <2> QED
    BY <1>1, <2>2 DEF MRInv, TypesInv
<1>2. ASSUME reduceDone = ReduceTask PROVE reduceDone' = ReduceTask
  BY <1>2 DEF reported, taken
<1> QED
  BY <1>1, <1>2

\* GetTask as a whole (coordinator.go): what it replies is right too.
LEMMA GetTaskKeepsInv ==
  ASSUME MRInv, NEW w \in Worker, NEW status, NEW id, GetTask(w, status, id),
         status = "Map" => id \in MapTask, status = "Reduce" => id \in ReduceTask
  PROVE  MRInv'
<1>0. NMap \in Nat /\ NReduce \in Nat /\ MapTask \subseteq Nat /\ ReduceTask \subseteq Nat
  BY ConstantsAssumption DEF MapTask, ReduceTask
<1>1. reported(status, id) /\ handedOut(w, 0) /\ up' = up /\ up
  BY DEF GetTask, assigned
<1>2. /\ mapDone' \subseteq MapTask /\ reduceDone' \subseteq ReduceTask
      /\ files' \in [ReduceTask -> Seq(MapTask)]
      /\ LeftCounts' /\ FilesInv'
  BY <1>1, ReportKeepsCounts
<1>3. /\ mapDone = MapTask => mapDone' = MapTask /\ files' = files
      /\ reduceDone = ReduceTask => reduceDone' = ReduceTask
  BY <1>1, ReportKeepsFinished
<1>4. /\ mapLeft' \in Nat /\ (mapLeft' = 0 => mapDone' = MapTask)
      /\ reduceLeft' \in Nat /\ (reduceLeft' = 0 => reduceDone' = ReduceTask)
  BY <1>0, <1>2, TasksLeft DEF LeftCounts, MapTask, ReduceTask
\* The four replies.
<1> DEFINE answered(reply) ==
      /\ worker' = [worker EXCEPT ![w] = reply]
      /\ reply.status = "Map" => reply.id \in MapTask
      /\ reply.status = "Reduce" =>
           reply.id \in ReduceTask /\ mapDone' = MapTask /\ reply.files = files'[reply.id]
      /\ reply.status = "Exit" => mapDone' = MapTask /\ reduceDone' = ReduceTask
<1>5. \E reply : answered(reply)
  <2> DEFINE maps == (MapTask \ mapDone') \ mapStarted
             reduces == (ReduceTask \ reduceDone') \ reduceStarted
  <2>1. CASE maps # {} /\ worker' = [worker EXCEPT ![w] = MapReply(Min(maps))]
    <3>1. Min(maps) \in MapTask
      BY <1>0, <2>1, FirstTask
    <3>2. answered(MapReply(Min(maps)))
      BY <2>1, <3>1 DEF MapReply
    <3> QED
      BY <3>2
  <2>2. CASE /\ mapLeft' <= 0 /\ reduces # {}
             /\ worker' = [worker EXCEPT ![w] = ReduceReply(Min(reduces), files'[Min(reduces)])]
    <3>1. Min(reduces) \in ReduceTask
      BY <1>0, <2>2, FirstTask
    <3>2. mapDone' = MapTask
      BY <1>4, <2>2
    <3>3. answered(ReduceReply(Min(reduces), files'[Min(reduces)]))
      BY <2>2, <3>1, <3>2 DEF ReduceReply
    <3> QED
      BY <3>3
  <2>3. CASE worker' = [worker EXCEPT ![w] = Sleep]
    <3>1. answered(Sleep)
      BY <2>3 DEF Sleep
    <3> QED
      BY <3>1
  <2>4. CASE mapLeft' <= 0 /\ reduceLeft' <= 0 /\ worker' = [worker EXCEPT ![w] = Exit]
    <3>1. answered(Exit)
      BY <1>4, <2>4 DEF Exit
    <3> QED
      BY <3>1
  <2> QED
    BY <1>1, <2>1, <2>2, <2>3, <2>4 DEF handedOut
<1>6. PICK reply : answered(reply)
  BY <1>5
<1>7. /\ worker' = [v \in Worker |-> worker'[v]]
      /\ worker'[w] = reply
      /\ \A v \in Worker \ {w} : worker'[v] = worker[v]
  BY <1>6 DEF MRInv, TypesInv
<1>8. TypesInv'
  <2>1. ASSUME NEW v \in Worker
        PROVE  /\ worker'[v].status = "Map" => worker'[v].id \in MapTask
               /\ worker'[v].status = "Reduce" => worker'[v].id \in ReduceTask
    BY <1>6, <1>7 DEF MRInv, TypesInv
  <2> QED
    BY <1>2, <1>7, <2>1 DEF TypesInv, MapTask, ReduceTask
<1>9. RepliesInv'
  <2>1. ASSUME NEW v \in Worker, worker'[v].status = "Reduce"
        PROVE  mapDone' = MapTask /\ worker'[v].files = files'[worker'[v].id]
    BY <1>3, <1>6, <1>7, <2>1 DEF MRInv, RepliesInv
  <2> QED
    BY <2>1 DEF RepliesInv, MapTask
<1>10. ExitsInv'
  <2>1. ASSUME NEW v \in Worker, worker'[v].status = "Exit"
        PROVE  mapDone' = MapTask /\ reduceDone' = ReduceTask
    BY <1>3, <1>6, <1>7, <2>1 DEF MRInv, ExitsInv
  <2> QED
    BY <1>1, <2>1 DEF ExitsInv, MapTask, ReduceTask
<1> QED
  BY <1>2, <1>8, <1>9, <1>10 DEF MRInv

-----------------------------------------------------------------------------
(* The other steps.                                                        *)

\* A worker that ends or crashes (worker.go) takes nothing from the coordinator.
LEMMA LeavingKeepsInv ==
  ASSUME MRInv, NEW w \in Worker, worker' = [worker EXCEPT ![w] = Gone],
         UNCHANGED <<coordinator, up>>
  PROVE  MRInv'
<1>1. /\ worker' = [v \in Worker |-> worker'[v]]
      /\ worker'[w].status = "Gone"
      /\ \A v \in Worker \ {w} : worker'[v] = worker[v]
  BY DEF MRInv, TypesInv, Gone
<1>2. UNCHANGED <<mapDone, reduceDone, files, mapLeft, reduceLeft, up>>
  BY DEF coordinator
<1>3. TypesInv'
  BY <1>1, <1>2 DEF MRInv, TypesInv, MapTask, ReduceTask
<1>4. LeftCounts' /\ FilesInv'
  BY <1>2 DEF MRInv, LeftCounts, FilesInv, listed, listedOnce, MapTask, ReduceTask
<1>5. RepliesInv' /\ ExitsInv'
  BY <1>1, <1>2 DEF MRInv, RepliesInv, ExitsInv, MapTask, ReduceTask
<1> QED
  BY <1>3, <1>4, <1>5 DEF MRInv

\* Nor does the passing of ten seconds.
LEMMA ClockKeepsInv ==
  ASSUME MRInv, UNCHANGED <<mapDone, reduceDone, files, mapLeft, reduceLeft, up, worker>>
  PROVE  MRInv'
  BY DEF MRInv, TypesInv, LeftCounts, FilesInv, listed, listedOnce, RepliesInv, ExitsInv,
         MapTask, ReduceTask

\* Every step of a worker, the clock and main keeps the invariant.
LEMMA MRStep ==
  ASSUME MRInv, [Next]_vars
  PROVE  MRInv'
<1>1. ASSUME NEW w \in Worker, call(w) PROVE MRInv'
  <2>1. PICK status : /\ GetTask(w, status, worker[w].id)
                      /\ status = "Map" => worker[w].status = "Map"
                      /\ status = "Reduce" => worker[w].status = "Reduce"
    BY <1>1, ConstantsAssumption DEF call
  <2> QED
    BY <2>1, GetTaskKeepsInv DEF MRInv, TypesInv
<1>2. ASSUME NEW w \in Worker, finish(w) \/ crash(w) PROVE MRInv'
  BY <1>2, LeavingKeepsInv DEF finish, crash
<1>3. ASSUME NEW t, expireMap(t) \/ expireReduce(t) PROVE MRInv'
  BY <1>3, ClockKeepsInv DEF expireMap, expireReduce
<1>4. CASE mainExits
  <2>1. mapDone = MapTask /\ reduceDone = ReduceTask
    BY <1>4, ConstantsAssumption, TasksLeft
       DEF mainExits, Done, MRInv, LeftCounts, TypesInv, MapTask, ReduceTask
  <2>2. UNCHANGED <<mapDone, reduceDone, files, mapLeft, reduceLeft, worker>>
    BY <1>4 DEF mainExits, coordinator
  <2> QED
    BY <2>1, <2>2 DEF MRInv, TypesInv, LeftCounts, FilesInv, listed, listedOnce, RepliesInv,
                      ExitsInv, MapTask, ReduceTask
<1>5. CASE UNCHANGED vars
  BY <1>5, ClockKeepsInv DEF vars, coordinator
<1> QED
  BY <1>1, <1>2, <1>3, <1>4, <1>5 DEF Next

\* MakeCoordinator (coordinator.go) establishes it.
LEMMA MRStart ==
  ASSUME Init
  PROVE  MRInv
<1>0. NMap \in Nat /\ NReduce \in Nat
  BY ConstantsAssumption
<1>1. TypesInv
  BY DEF Init, MakeCoordinator, TypesInv, None
<1>2. LeftCounts
  <2>1. Cardinality(0..(NMap - 1)) = NMap /\ Cardinality(0..(NReduce - 1)) = NReduce
    BY <1>0, FS_Interval
  <2> QED
    BY <2>1 DEF Init, MakeCoordinator, LeftCounts, MapTask, ReduceTask
<1>3. FilesInv
  BY DEF Init, MakeCoordinator, FilesInv, listed
<1>4. RepliesInv /\ ExitsInv
  BY DEF Init, RepliesInv, ExitsInv, None
<1> QED
  BY <1>1, <1>2, <1>3, <1>4 DEF MRInv

\* The invariant holds always.
LEMMA MRAlways == Spec => []MRInv
  BY MRStart, MRStep, PTL DEF Spec

-----------------------------------------------------------------------------
(* The theorems.                                                           *)

\* mapLeft and reduceLeft (coordinator.go) count the tasks not done, however
\* many workers report the same task.
THEOREM CountersRight == Spec => []LeftCounts
<1>1. MRInv => LeftCounts
  BY DEF MRInv
<1> QED
  BY <1>1, MRAlways, PTL

\* Every reduce reply lists one file of each map task that emitted for it.
THEOREM ReduceComplete == Spec => []ReduceGetsAllFiles
<1>1. MRInv => ReduceGetsAllFiles
  BY DEF MRInv, TypesInv, FilesInv, RepliesInv, ReduceGetsAllFiles, listed
<1> QED
  BY <1>1, MRAlways, PTL

\* Two runs of one reduce task get the same list.
THEOREM ReduceRepeatable == Spec => []RerunGetsSameFiles
<1>1. MRInv => RerunGetsSameFiles
  BY DEF MRInv, RepliesInv, RerunGetsSameFiles
<1> QED
  BY <1>1, MRAlways, PTL

\* No worker is told to exit, and main does not return, before the job is done.
THEOREM ExitIsFinished == Spec => []ExitMeansFinished
<1>1. MRInv => ExitMeansFinished
  <2>1. Exit.status = "Exit"
    BY DEF Exit
  <2> QED
    BY <2>1 DEF MRInv, ExitsInv, ExitMeansFinished
<1> QED
  BY <1>1, MRAlways, PTL
=============================================================================
