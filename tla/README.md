# Verification of the distributed key-value repository

The repository holds two families of programs: the Go labs of MIT 6.5840
(`6.5840/src`) and the Rust projects of the PingCAP talent plan (`project_1` to
`project_5`, `crates`, `raft`). This directory models the parts with state and
concurrency in TLA+, checks them with TLC on small instances, and proves their
safety properties with TLAPS for every instance.

## The system

| Part | Source | What it does | Model |
|---|---|---|---|
| Raft | `6.5840/src/raft/raft.go` | elections, replication, application, persistence, snapshots | `Raft`, without snapshots |
| Persister | `raft/persister.go` | the disk of a peer | variable `disk` of `Raft` |
| MapReduce | `mr/*.go`, `main/mrcoordinator.go` | a coordinator hands map and reduce tasks to workers over RPC | `MRCoordinator` |
| Key-value service | `kvraft/*.go` | clerks call servers that replicate operations through Raft | `KVRaft` |
| labrpc | `labrpc/labrpc.go`, `crates/labrpc` | the simulated network under the labs, in Go and ported to Rust | `LabRPC`, implementing `RPC` |
| Linearizability checker | `porcupine/*.go`, `crates/linearizability` | searches a linearization of a history, in Go and ported to Rust | `Porcupine` |
| Testers of the Rust labs | `raft/src/raft/config.rs`, `raft/src/kv/config.rs` | crash, restart and cut off servers, check what they apply | `RaftTester` |
| Thread pool | `project_4/src/threadpool/shared_queue.rs`, the same in `project_5` | jobs through one channel to threads that survive panics | `SharedQueuePool` |
| Programs of the stores | `project_1` to `project_5`: the programs, `open` of the log stores, the choice of an engine | what one process does | `KvPrograms` |
| Servers and clients of the stores | `project_4`, `project_5`: server, client, sled engine | a store behind TCP | `KvService`, implementing `KvContract` |
| labgob | `labgob/labgob.go` | gob with warnings | not modelled |
| Shard services | `shardctrler`, `shardkv` | handlers are empty; clerks loop | not modelled |
| Rust Raft | `raft/src/raft/mod.rs`, `raft/src/kv/server.rs` | `todo!()` bodies | external to `RaftTester` |

How they interact: the key-value clerks call servers through labrpc; each server
hands operations to its Raft peer with `Start` and receives them on `applyCh`;
peers call each other through labrpc; the testers record what clerks saw and
give it to the checker. In the Rust projects `kvs-client` talks to `kvs-server`
over TCP, and the server gives each connection to a thread pool. The modules meet
at abstract interfaces: `LabRPC` is shown to implement `RPC`, the at-most-once call that `Raft` and `KVRaft` are
written for, and `KVRaft` uses Raft as a supply of operations at increasing
indices, which is weaker than what Raft promises. `KvService` is written on
`KvPrograms`, and is shown to implement `KvContract`, which is written with the
dictionary of project 1. `RaftTester` takes a correct Raft as given.

Where two ports of a program share a module, a variable that never changes says
which one a behaviour is of (`port` in `LabRPC` and `Porcupine`, `lab` in
`RaftTester`, `project` in `KvService`), so that one run checks all of them.

`PROJECT.json` lists every component with its status, and the hazards of the
code at the lines where they bite.

## Raft

`Raft.tla` has one record per peer, `rf[i]`, for the `Raft` struct and what its
goroutines are about to do (`ticker`, `applying`), the persisted state `disk`,
and the set `msgs` of RPC requests and replies in flight. Every handler of
`raft.go` holds the mutex from beginning to end and is one action:

| Action | Code |
|---|---|
| `electSelf` | the election timer fires in `ticker`, `electSelf`, `BroadCastRequestVote` |
| `RequestVote`, `sendRequestVote` | the handler, and the handling of its reply |
| `ReinitialisedAfterElection` | the ticker takes the `winElection` signal |
| `SendHeartBeats`, `heartBeatTimeout` | the heartbeat timer |
| `ProcessAppendEntries`, `sendAppendEntries` | the handler, and the handling of its reply |
| `Start`, `applyLogs` | a client command; a goroutine delivering on `applyCh` |
| `Restart`, `Lose` | a crash and `Make` from the persisted state; a lost message |

The signals between goroutines (`sendMessage`, a non-blocking send on an
unbuffered channel) reach the ticker or are lost, by nondeterministic choice. A
panic (an index out of range in a handler) ends the peer until it restarts. The
network loses, delays and reorders; like labrpc it never duplicates.

Two histories are kept for the properties: `votes` and `delivered`.

The bounds are `MaxTerm`, `MaxLog`, `MaxCalls` (AppendEntries calls in flight
per pair of peers) and `MaxRestarts`, each named in a guard. With three peers
and two terms an election can be lost, repeated and overtaken by one of a later
term; with two entries and two calls in flight a reply can be overtaken and a
log cut and refilled. No liveness is claimed: the timers give no guarantee that
elections stop colliding.

### Runs

* `raft_election` (passes): at most one leader of a term at a time, and the
  facts about votes and persistence it rests on.
* `raft_log` (passes): logs ordered by term, `NextIndex` positive, delivery
  without gaps.
* `raft_applied` (violated): two peers apply different commands at one index. A
  late heartbeat cuts a log although it agrees with it. `MCRaftTwoLeaders`
  narrows the search to behaviours in which two given peers campaign one after
  the other; a counterexample found there is one of `Raft`.

The finding in `PROJECT.json` quotes the test this contradicts.

"One vote per term" is not among the invariants because it is false: a candidate
that learns of a higher term keeps its own and forgets its vote for itself
(raft.go:888), so that it may then vote for another peer in the same term.
`OneForeignVotePerTerm` is what remains true, and is enough for
`OneLeaderAtATime`.

### Proofs

For any finite, nonempty `Server` and any bounds, `RaftProofs` proves:

* `TypeCorrect`. One lemma per operator says what it returns or leaves alone; the
  invariant step has one case per action;
* `DiskCurrent`, `TermsOnlyRise`, `DeliveryInOrder`;
* `LogsOrdered`, `NextIndexStaysPositive`;
* about elections `OneForeignVote`, `WonElected`, `OneLeader`.

`LogsOrdered` needs the order of the entries inside requests in flight, and
`NextIndexStaysPositive` a bound on the conflict index of replies, so both are
part of the inductive `LogInv`. `OneLeader` is not inductive either: a candidate
may forget the vote it gave itself (see above), so the usual
"one vote per term" is false. `ElectionInv` holds what is true instead: one
vote for *another* peer per term, replies that agree with the history of votes
(`BallotsInv`), a count that never exceeds the distinct voters (`VotesInv`), and
candidates and leaders that have not voted for another in their term
(`CandidatesInv`). Two leaders of one term would then have a common voter.

The proofs about the other components are described with them; "What is proved"
below lists what is left to TLC.

## MapReduce

`MRCoordinator.tla` models `GetTask` as one action (it holds the lock
throughout) in two halves: `reported` takes the worker's report, `assigned`
picks its next task. A task is in `mapStarted` or `reduceStarted` while its
`startAt` is less than ten seconds old; `expireMap` and `expireReduce` are time
passing. Workers crash at any point; a presumed-dead worker reports late.

`MapTask` in `worker.go` reports a finished map task with status `Done`, and
`GetTask` takes it only with status `Map`. The constant `AfterMap` says which
statuses workers use, so that the coordinator can be checked both with the
workers it has and with the ones it expects:

* `mr_contract` (passes, `Map`): counters and file lists agree with the tasks
  done, a reduce task gets every file and a rerun gets the same, the processes
  end only when the work is done, and the job finishes as long as one worker
  does not crash.
* `mr_job` (violated, `Done`): the job never finishes.

Two tasks of each kind and three workers let a task be run by a crashed, a slow
and a prompt worker. Fairness: `main` polls `Done` in a loop, clocks advance,
and a worker that has not crashed ends each turn of its loop with a call.

`MRCoordinatorProofs` proves the four invariants for any numbers of tasks and
workers and either value of `AfterMap` (`CountersRight`, `ReduceComplete`,
`ReduceRepeatable`, `ExitIsFinished`). What a worker holds says nothing of the
lists the coordinator goes on changing, so that the properties of handed-out
tasks are not inductive. `MRInv` adds `FilesInv` (a list of the coordinator has
one file of each map task that is done and emits to it) and `RepliesInv` (a reduce
task in a worker's hands has the list the coordinator still has, and no map task
is left, so that no late report can change it).

## labrpc

`LabRPC.tla` follows each call through the goroutines of `labrpc.go`, and the
tasks of `crates/labrpc`: `send` (the select of Go's `Call`; Rust queues), the
look at the network's maps, the handler, the dead-server check every 100 ms and
after the handler (`tick`, `isServerDead`), the delayed or dropped reply. Each
start of a server is a new instance with its own copy of the Persister, as in the
testers' `crash1` and `start1`. In Go a handler of a deleted instance goes on and
writes to its own copy; in Rust it is a future that is dropped where it stands.
Rust's hooks may reject a call before and after its handler.

Run `labrpc`: `PositiveReplyIsSaved` (a call answered true has its effect in the
Persister that the next instance starts from), `CallPromise` (the network
implements `RPC`: a call returns true only if executed, and is executed at most
once), `NothingSavedAfterReturn` (Rust: a cancelled handler saves nothing more),
`CallReturns` (no call waits for ever, unless its handler hangs on a live
server). Two calls, one of which hangs, and two instances let a server die and
return within one call. Fairness: the goroutines or tasks of a call and the
network's loop are scheduled; nothing is assumed of crashes, restarts or the
handlers that hang.

`LabRPCProofs` proves `PositiveReplySaved`, `NoEffectAfterReturn` and the
implementation of `RPC` (`NetworkKeepsPromise`) for any calls, ends, servers and
restarts. `LabInv` says how far a call and its handler are together (`CallInv`:
the effect of a handler that has saved is in the Persister of its instance; a call
that is answered has its effect in what the next instance will start from) and
that the instance registered under a name is the one whose Persister counts
(`InstancesInv`). In the refinement the step that saves is the execution of the
abstract call, and only the step that returns is seen besides.

## The linearizability checker

`Porcupine.tla` makes each turn of `checkSingle`'s loop one action, on the linked
list with the pointers that `lift` and `unlift` move. Init chooses any history of
at most three operations, given as operations with call and return times up to 2
(equal times included) or as a sequence of events. The two ports order equal
times differently: Go's sort is not stable and puts calls before returns, Rust's
is stable and compares times alone. The operations on one further key are a
second partition, whose search is one step; `wait_res`, `timeout`, `drain`,
`drained` and `join` are the thread that collects the answers of the searches,
`checkParallel` in Go and `wait_res` in Rust.

`Linearizable` is defined by permutations, independently of the search. Run
`porcupine`: the search is right (`ResultIsLinearizability`), the list is always
the entries of the operations not linearized, in order (`ListIsRest`), the
partial linearizations reported are linearizations (`LongestIsLinearization`),
the verdict over the partitions is right whatever searches are told to stop and
whenever time is up (`VerdictIsRight`), and search and caller end (`CheckEnds`,
under fairness of the threads, not of the timeout). `CheckEnds` leaves out the
history without operations, for which both ports wait for an answer that no
search will send. Three operations let the search backtrack past a cached
configuration. The bitset is the set of its positions.

`PorcupineProofs` proves the four invariants for histories of any length, any
times and any operations on the key (`SearchDecides`, `ListRight`,
`ReportsLinearizations`, `VerdictRight`). Of the inductive `CheckInv`, `SearchInv`
is about the search:

* `HistoryInv`: both ports' `make_entries`, and the renumbering of events, give
  each operation a call and a later return, in an order that has every return
  before the calls of the operations after it;
* `Chain`: the operations on the stack are distinct and can happen in their order;
* `ListOK`: the pointers link exactly what the stack leaves (`Linked`), and the
  nodes a frame has lifted out still point to where they go back (`Parked`), which
  `unlift` relies on;
* `Tried`: at each depth the search has passed calls only, and linearizing one of
  these next cannot be completed;
* `Cached`: a configuration in the cache cannot be completed, or is being tried
  further down the stack. This is why the search may skip it.

A search that comes to a return at the bottom of its stack then has tried every
operation that could be first, and the history is not linearizable. `CollectInv`
is about the caller: a *no* that it looks at was said before any search was told
to stop, and without a *no* or a timeout all have said *yes*. The reference
`Linearizable` runs the operations by a recursive function; that this function
exists, and what it computes, is proved by a least counterexample.

## The testers of the Rust labs

`RaftTester.tla` has the ends of the network by server and start (`enabled`,
`gen`), the servers running and the side of the network each was put on, the
`logs` that appliers fill, and the thread of the test inside `one`, `wait` or one
of the checks, which read one server after another while the Raft goes on. Every
instance has its applier, and that of a killed instance goes on with what its
channel holds. The Raft is an external one, and correct: it commits one sequence
of commands and elects one leader per term (`RaftStart`, `RaftCommit`,
`RaftTerm`).

Run `tester`: exactly the links asked for work after any sequence of disconnect,
connect, crash, restart and partition (`LinksAsAsked`), what `one` and `wait`
return is committed (`ReturnedIsCommitted`), a correct Raft is never accused
(`NoFalseAlarm`), and `check_one_leader` never prefers a replaced leader
(`NewestLeader`). Two Raft servers with two commands, two terms and a restart let
an index be reused, leadership move between two reads and two appliers write for
one server; the key-value lab has three and five servers, the sizes its
partitions are made for. No liveness is claimed: every wait of the tester ends by
a timeout.

`RaftTesterProofs` proves the four properties for any number of servers and
commands (`LinksRight`, `NeverFalselyAlarmed`, `ReturnsCommitted`,
`ReturnsNewest`). Of `TesterInv`, `LinkInv` is `LinksAsAsked` end by end;
`AppliedInv` says that the log of a server is a part of what the Raft committed
and holds all that any of its instances was sent, so that two appliers of one
server write the same and in order; `LeadersInv` that a term was won once;
`SurveyInv` that a server that has led since the survey began is found by it; and
`ReturnInv` ties what `one` returned to the log.

## The key-value service

`KVRaft.tla` has the clerk's loops (`Get`, `PutAppend`), the two handlers, and
`backgroundApply`. `Start` and the creation of the reply channel are separate
steps because the code takes the lock only after `Start`, so Raft may deliver in
between; a round of the apply loop is two steps, because it sends while it holds
`kv.mu` (`loop` is the operation it is sending) and a handler has to wait for the
lock meanwhile. The histories `log`, `sent` and `applications` record what an
instance was delivered, what it sent and what it applied.

Run `kvraft` (a writer and a reader, two servers, two log indices, one crash):

* `ApplyNeverBlocks`: the loop finds room in its channel of capacity one;
* `ChannelKeepsOperation`: whichever of loop and handler comes second to an index
  does not replace the channel of the other. It says nothing of a handler that
  receives the operation, because none does: `sendMessage` waits on a nil channel
  (`server.go:175-184`), always leaves by its timeout, and no server replies `OK`;
* `AppliedOnce`: retries are not applied again;
* `ReplicasAgree`: instances that were delivered the same operations are in the
  same state, restarts included. Since the handlers make operations of the types
  `Get` and `Put` and `applyMessage` writes for `Set` and `Append`, no store ever
  changes; what the property compares in effect is `lastApplied` and the commands;
* `HandlersReturn`: a handler that Raft took an operation of gets the lock and
  returns. Fairness: goroutines that can go on do, and the 600 ms pass. Raft may
  stop delivering and the network may lose everything. Weak fairness of taking
  the lock is enough because the loop has finitely many operations to send.

Run `kvraft_get` (violated): a `Get` returns the empty string after the clerk's
own `Put`, because its loop ends when a call fails. That a `PutAppend` returns is
not claimed: it returns after the first call that comes back, whatever the reply.

`KVRaftProofs` proves the four safety properties for every number of clerks and
servers, every script and every bound (`ApplyBlocksNever`, `OperationKept`,
`AppliesOnce`, `ReplicasHoldTheSame`). That the channel of the *next* index is
empty is not inductive, because handlers make channels ahead of the loop:
`ChannelInv` says that every channel not yet reached is empty, and every one
reached holds its operation. `AppliedOnce` rests on `DuplicatesInv`: no applied
request has a higher number than `lastApplied` records for its clerk. For
`ReplicasAgree`, `ReplicaInv` gives the state as a function of what was delivered:
the writers in `log` are the clerks in `lastApplied`, each with the number 1 that
`RequestsInv` shows every operation to carry. Agreement of the servers' logs is
not assumed in any of the four.

## The thread pool

`SharedQueuePool.tla`: a panicking job unwinds its thread, whose `Drop` starts a
successor; a refused start is retried on the unwinding thread. Run `pool`: jobs
are taken in order, none lost and none run twice, the pool keeps its size, and
after the pool is dropped the queue is drained and the threads end, if each job
ends and the system does not refuse threads for ever (`MaxFailures`).

`SharedQueuePoolProofs` proves the two invariants for any numbers of threads and
jobs (`JobsNotLost`, `PoolKept`). `NothingLost` needs to know that a job in the
channel was never taken: `OrderInv` has the spawned jobs distinct, and `RunInv`
every job that runs or has ended among those taken.

## The stores of the Rust projects

`KvPrograms.tla` has what one process does, as operators: the dictionary of
project 1 and its program; `open` of the log stores with `sorted_generation` and
`new_log_file`; the programs of projects 2 and 3; how `kvs-server` chooses its
engine from its option and the file `engine`. The programs of projects 1 to 3 are
runs of one process (`program`, with how it ended in `ends`); the other actions do
not depend on them and no property is about their result.

Of the log stores little more can be reached. Those of projects 2 to 4 open the
directory itself as their log file, which fails for every directory. That of
project 5 opens in a directory without logs only (its reader returns the number
of calls in place of the number of bytes, so that the end of a log is not seen),
and every request to it then ends in an error or a panic.

`KvService.tla` is the service: `main`, `run_server`, `write`, `server_spawn4`,
`server_spawn5` and `bind` start the server (`run_server` and `write` are the two
halves of `std::fs::write`, which empties the file `engine` and then fills it); `connect`, `process_requests`,
`receive` and `close` are the client; `take`, `serve`, `flush`, `reply` and `eof`
are project 4's threads, and `serve_client`, `acceptFails` and `expect` project
5's loop; `kill` may come at any moment, `abort` ends a client, `background` is
sled's own flush. The server is `kvs-server` itself or, with `embedded`, a program
that gives `KvsServer` a sled engine, which is how project 5's server can run at
all. The streams are modelled by what their parsers do: project 4 answers a set
with the command and an error with an object in an object, neither of which is
the type that the client parses, so that the client's parser is left in front of
a rest (`stream`).

Run `service`: an answered set is still there after any kills and restarts
(`AnsweredSetStays`), a directory keeps its engine unless a kill tears the write of its name
(`EngineStaysUnlessTorn`), the service
implements `KvContract` (`KeepsContract`: an answer that is not an error is the
one the dictionary gave at one moment of the call it is returned for; a call that
failed may take effect later; a crash falls back to what was saved or to the
present state), and every call of project 4 returns (`CallsReturn`). Two
connections, two calls on each, pools of one and two threads and two starts let a
connection wait for a thread, a stale answer meet a later call and a server come
back. Fairness: a thread that can go on does, a client reads the answer that has
arrived, and an idle client closes in the end, as `kvs-client` does after its one
call. A kill between `run_server` and `write` does lose the name: the next start
finds an empty file, takes it for a directory without an engine and names kvs,
though the directory may be one of sled. The property says that this is the only
way. Nothing like `CallsReturn` holds of project 5, whose client never flushes its
request: there client and server wait for each other.

`KvServiceProofs` proves `AnsweredSetDurable`, `EngineKept` and
`ServiceKeepsContract` for any numbers of connections, threads, calls and starts
and all keys and values. `ServiceInv` consists of

* `DurableInv`: what was answered is in memory *and* on disk, without which a kill
  could take it away; `PendingInv` says the same of a set that is about to be
  answered, unless another connection has written the key since;
* `CallInv`: the one request of a call is on its way, or with the engine, or its
  answer is, and a client whose parser is clean has nothing left over from
  earlier calls;
* `QueueInv` and `NamedInv`: who waits for a thread has not been served, and a
  server past `write` runs the engine that the file names.

The refinement maps a connection to the call it is in (`call`), the requests whose
calls ended before they were served (`late`) and its last return (`ret`), and has
one lemma per step. `serve` is the moment at which a call takes effect. The proof
for any number of connections asks for more of the contract than two connections
do: dropping the listener may fail the call of one connection and forget the
abandoned request of another in one step, which `Leave` allows.

## What is proved, and what is not

Every safety property that a passing run checks is also a theorem. The liveness
properties (`JobFinishes`, `CallReturns`, `CheckEnds`, `HandlersReturn`,
`JobsEnd`, `ThreadsEnd`, `CallsReturn`) are out of the prover's reach and only
model-checked.

The proofs assume of the constants only what the modules state
(`ConstantsAssumption`, `ServiceBounds`, `PanicsAssumption`, `OpAssumption` and the
like: finite sets, bounds, model values distinct from data), and TLC evaluates these
assumptions in every run.

## Not modelled

* Behind `open` of the log stores: set, get, remove and compaction of projects 2
  to 4 have no state in which they can run; in project 5 nothing comes after the
  first record that fails.
* `server.rs`, `client.rs` and the sled engine of project 3: their constructors
  and methods are private to modules that do not use them.
* Raft's `Snapshot` and `InstallSnapshot`: they lock the mutex they hold. Its
  liveness: its timers do not guarantee an election.
* The bodies of `MapTask` and `ReduceTask`, and the text the plugins compute on.
* The testers' mode with snapshots, clerks, statistics; the Go testers.
* labgob and labcodec, which wrap encoders; the shard services and Rust Raft,
  which have no bodies; the clerks of the shard services, which have no server to
  call.
* Visualization, generated code, logging, the bodies of tests.

Hazards of code that is not modelled, or that no property is about, beside those
`PROJECT.json` lists with a note:

* raft.go:483 lowers `MatchIndex` on a late rejection, which costs progress only.
* mr/worker.go:198 opens the inputs of a reduce task with `os.Create`; with the
  workers as they are no reduce task is handed out (run `mr_job`).
* kvraft/client.go:104 never advances `RequestId`; the store does not change at
  all, because `applyMessage` does not know the type `Put`.
* shared_queue.rs:50 recurses on the stack while threads are refused.
* `crates/labrpc/src/network.rs:169` panics in its lock for a server name that was
  never added, and line 211 waits seconds where milliseconds are meant.
* `raft/src/raft/persister.rs:72` saves state and snapshot under two locks, and
  `config.rs:433` unwraps a slot that `crash1` has emptied; both matter with
  snapshots only.
* sledvs.rs:40 answers a removal without a flush; `KvContract` promises nothing of
  it across a kill.
* In project 5 one failed connection ends the server (server.rs:65-75), and a
  directory of sled is relabelled (kvs-server.rs:131).
