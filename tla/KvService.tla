------------------------------- MODULE KvService -------------------------------
(***************************************************************************)
(* The key-value service of projects 4 and 5: the program kvs-server from  *)
(* the choice of its engine to the loop that accepts connections, the      *)
(* threads that serve them, the sled engine behind them, and the clients.  *)
(* The server may be killed at any moment and started again.  Projects 1   *)
(* to 3 only have stand-alone programs.                                    *)
(*                                                                         *)
(* project 4: a connection is a job of a thread pool, served until the     *)
(* client closes it.  Requests and answers are JSON values on a stream,    *)
(* and the answers are not all of the type the client parses: `stream`     *)
(* says what its parser finds next.                                        *)
(*   "clean"  nothing, or the answer to the call;                          *)
(*   "stale"  {"Err":"Key not found"}, the inside of an earlier answer;    *)
(*   "stuck"  the rest of an answer, at which every parse fails.           *)
(*                                                                         *)
(* project 5: one connection at a time, one request per connection, and    *)
(* the listener is bound anew for each.  The client does not flush its     *)
(* buffered request.  A member of `peer` is another program that does.     *)
(***************************************************************************)
EXTENDS KvPrograms

\* What the engine's thread answers.
Answer == [kind : {"Set", "Ok", "Err"}, val : Value \cup {none, "set", "removed", "not found"}]

CONSTANTS
  Conn,       \* connections, each used once
  Threads,    \* sizes of the pool of an embedded server
  MaxCalls,   \* calls on one connection
  MaxStarts   \* starts of the server

ASSUME ServiceBounds ==
  /\ Threads \subseteq Nat \ {0}
  /\ MaxCalls \in Nat /\ MaxStarts \in Nat
  /\ none \notin Engines \cup Answer

VARIABLES
  project,   \* 1..5
  embedded,  \* a program uses KvsServer with sled; otherwise kvs-server itself runs
  threads,   \* of the pool
  peer,      \* connections of other programs (project 5)
  dir,       \* the working directory: [engine, logs]
  proc,      \* the server: [pc, engine, starts, retries]
  mem, disk, \* the sled tree, and what of it is on disk
  queue,     \* connections waiting for a thread
  srv,       \* the server's side of a connection: [pc, cmd, ans]
  cl,        \* the client's side: [pc, cmd, stream, calls, retries, ret]
  pipe,      \* requests on their way to the server
  answer,    \* the answer on its way to a client that will parse it
  last, answered,  \* per key: the connection that wrote it last; the value, once answered
  ends       \* how the last stand-alone program ended

config == <<project, embedded, threads, peer>>
engine == <<mem, disk, last, answered>>
conns  == <<queue, srv, cl, pipe, answer>>
vars == <<config, dir, proc, engine, conns, ends>>

max_retries == 5

-----------------------------------------------------------------------------

offline == [pc |-> "new", cmd |-> none, stream |-> "clean", calls |-> 0, retries |-> 0, ret |-> none]

\* A directory may have been used before: by another engine, or by a hand that wrote
\* something else in the file.  "other" is any content that is not an engine, the empty one
\* and a part of a name included.
Init ==
  /\ project \in 1..5 /\ embedded \in BOOLEAN
  /\ project < 4 => ~embedded
  /\ threads \in Threads \cup {1}
  /\ (project # 4 \/ ~embedded) => threads = 1
  /\ peer \in SUBSET Conn /\ (project # 5 => peer = {})
  /\ dir \in [engine : Engines \cup {none, "other"}, logs : {{}}]
  /\ embedded => dir.engine = none
  /\ proc = [pc |-> "down", engine |-> none, starts |-> 0, retries |-> 0]
  /\ mem = new /\ disk = new
  /\ last = [k \in Key |-> none] /\ answered = [k \in Key |-> none]
  /\ queue = << >>
  /\ srv = [c \in Conn |-> [pc |-> "none", cmd |-> none, ans |-> none]]
  /\ cl = [c \in Conn |-> offline]
  /\ pipe = [c \in Conn |-> << >>]
  /\ answer = [c \in Conn |-> none]
  /\ ends = none

-----------------------------------------------------------------------------
(* Stand-alone programs. *)

program ==
  /\ project < 4
  /\ \E cmd \in Invocation, subcommand \in {"--addr", "-V"} :
       ends' = CASE project = 1 -> execute(cmd).ends
                 [] project = 2 -> main2(cmd)
                 [] project = 3 -> <<main3_client(cmd), main3_server(subcommand)>>
  /\ UNCHANGED <<config, dir, proc, engine, conns>>

-----------------------------------------------------------------------------
(* kvs-server, from its start to the listener. *)

\* The server has read its options and the file.
main ==
  /\ project >= 4
  /\ proc.pc = "down" /\ proc.starts < MaxStarts
  /\ \E opt \in IF embedded \/ project = 4 THEN Opt4 ELSE Opt5 :
       LET m == IF project = 4 THEN main4(dir.engine, opt) ELSE main5(dir.engine, opt)
       IN  proc' = IF embedded
                   THEN [proc EXCEPT !.pc = "bind", !.engine = "sled", !.starts = @ + 1]
                   ELSE [proc EXCEPT !.pc = IF m.runs THEN "checked" ELSE "down",
                                     !.engine = IF m.runs THEN m.opt ELSE none,
                                     !.starts = @ + 1]
  /\ UNCHANGED <<config, dir, engine, conns, ends>>

\* run_server chooses its engine and names it in the file before it opens the store.
\* std::fs::write first empties the file ...
run_server ==
  /\ proc.pc = "checked"
  /\ LET e == IF project = 4 THEN current_engine4(proc.engine) ELSE current_engine5(proc.engine)
     IN  proc' = [proc EXCEPT !.pc = "writing", !.engine = e]
  /\ dir' = [dir EXCEPT !.engine = "other"]
  /\ UNCHANGED <<config, engine, conns, ends>>

\* ... and then writes the name.  A kill may come between the two.
write ==
  /\ proc.pc = "writing"
  /\ dir' = [dir EXCEPT !.engine = proc.engine]
  /\ proc' = [proc EXCEPT !.pc = "named"]
  /\ UNCHANGED <<config, engine, conns, ends>>

\* The server exits if the store does not open.  Opening sled does not fail here.
server_spawn4 ==
  /\ project = 4 /\ proc.pc = "named"
  /\ proc' = [proc EXCEPT !.pc = IF proc.engine = "sled" \/ open4("directory")
                                 THEN "bind" ELSE "down"]
  /\ UNCHANGED <<config, dir, engine, conns, ends>>

server_spawn5 ==
  /\ project = 5 /\ proc.pc = "named"
  /\ LET opened == open5(dir.logs)
     IN  /\ dir' = [dir EXCEPT !.logs = opened.logs]
         /\ proc' = [proc EXCEPT !.pc = IF opened.opened THEN "bind" ELSE "down"]
  /\ UNCHANGED <<config, engine, conns, ends>>

bind ==
  /\ proc.pc = "bind"
  /\ proc' = [proc EXCEPT !.pc = "up"]
  /\ UNCHANGED <<config, dir, engine, conns, ends>>

-----------------------------------------------------------------------------
(* The server's process ends. *)

\* Every connection breaks, a call in progress fails, and sled recovers `state`.
stop(state) ==
  /\ proc' = [proc EXCEPT !.pc = "down", !.engine = none, !.retries = 0]
  /\ mem' = state /\ disk' = state
  /\ last' = [k \in Key |-> none]
  /\ queue' = << >>
  /\ srv' = [c \in Conn |-> [pc |-> "none", cmd |-> none, ans |-> none]]
  /\ cl' = [c \in Conn |-> CASE cl[c].pc = "idle" -> [cl[c] EXCEPT !.pc = "closed"]
                              [] cl[c].pc = "call" -> [cl[c] EXCEPT !.pc = "closed", !.cmd = none, !.ret = "error"]
                              [] OTHER -> cl[c]]
  /\ pipe' = [c \in Conn |-> << >>]
  /\ answer' = [c \in Conn |-> none]
  /\ UNCHANGED <<config, dir, answered, ends>>

\* Dropping sled in an unwinding process flushes it; an abort or a kill does not.
dies == \E state \in {mem, disk} : stop(state)

kill == proc.pc # "down" /\ dies

\* sled flushes by itself every so often.
background ==
  /\ proc.pc \in {"bind", "up"} /\ proc.engine = "sled" /\ mem # disk
  /\ disk' = mem
  /\ UNCHANGED <<config, dir, proc, mem, last, answered, conns, ends>>

-----------------------------------------------------------------------------
(* Clients. *)

\* A client whose connection is refused: that of project 4 gives up, and that of project 5
\* sleeps and tries again, max_retries times.
refused4(c) == [offline EXCEPT !.pc = "closed"]

refused5(c) ==
  IF cl[c].retries + 1 < max_retries THEN [cl[c] EXCEPT !.retries = @ + 1]
  ELSE [offline EXCEPT !.pc = "closed"]

\* A connection that is accepted waits for a thread.
connect(c) ==
  /\ project >= 4 /\ cl[c].pc = "new"
  /\ c \in peer => proc.pc = "up"
  /\ IF proc.pc = "up"
     THEN /\ cl' = [cl EXCEPT ![c].pc = "idle", ![c].retries = 0]
          /\ queue' = Append(queue, c)
          /\ srv' = [srv EXCEPT ![c].pc = "queued"]
     ELSE /\ cl' = [cl EXCEPT ![c] = IF project = 4 THEN refused4(c) ELSE refused5(c)]
          /\ UNCHANGED <<queue, srv>>
  /\ UNCHANGED <<config, dir, proc, engine, pipe, answer, ends>>

\* The request of a client of project 5 stays in its buffer.
flushes(c) == project = 4 \/ c \in peer

\* get, set and remove of the client: the request is written and, if the parser has
\* something to read already, the call ends with it.
process_requests(c, cmd) ==
  /\ cl[c].pc = "idle"
  /\ cl[c].calls < (IF project = 4 THEN MaxCalls ELSE 1)
  /\ pipe' = IF flushes(c) THEN [pipe EXCEPT ![c] = Append(@, cmd)] ELSE pipe
  /\ cl' = [cl EXCEPT ![c] =
               IF cl[c].stream = "clean"
               THEN [cl[c] EXCEPT !.pc = "call", !.cmd = cmd, !.calls = @ + 1]
               ELSE [cl[c] EXCEPT !.stream = "stuck", !.ret = "error", !.calls = @ + 1]]
  /\ UNCHANGED <<config, dir, proc, engine, queue, srv, answer, ends>>

\* What the client makes of an answer.  {"Set":...} is no ServerResponse, and the parser
\* stops after its name; {"Err":{"Err":...}} has an object for a string, and the parser
\* stops in front of it.
deserialize(ans) ==
  CASE ans.kind = "Set"  -> [ret |-> "error", stream |-> "stuck"]
    [] ans.kind = "Err"  -> [ret |-> "error", stream |-> "stale"]
    [] ans.kind = "Ok"   -> [ret |-> ans.val, stream |-> "clean"]

\* In project 5 the answer is the request, and the connection is over.
receive(c) ==
  /\ cl[c].pc = "call" /\ answer[c] # none
  /\ cl' = [cl EXCEPT ![c] =
               IF project = 5 THEN [@ EXCEPT !.pc = "closed", !.cmd = none, !.ret = "done"]
               ELSE [@ EXCEPT !.pc = "idle", !.cmd = none, !.ret = deserialize(answer[c]).ret,
                              !.stream = deserialize(answer[c]).stream]]
  /\ answer' = [answer EXCEPT ![c] = none]
  /\ UNCHANGED <<config, dir, proc, engine, queue, srv, pipe, ends>>

\* The client is dropped, or its process ends in the middle of a call.
close(c) ==
  /\ cl[c].pc = "idle"
  /\ cl' = [cl EXCEPT ![c].pc = "closed"]
  /\ UNCHANGED <<config, dir, proc, engine, queue, srv, pipe, answer, ends>>

abort(c) ==
  /\ cl[c].pc = "call"
  /\ cl' = [cl EXCEPT ![c].pc = "closed", ![c].cmd = none, ![c].ret = "error"]
  /\ answer' = [answer EXCEPT ![c] = none]
  /\ UNCHANGED <<config, dir, proc, engine, queue, srv, pipe, ends>>

-----------------------------------------------------------------------------
(* The engine. *)

answers(c, cmd, pc, kind, val) ==
  srv' = [srv EXCEPT ![c] = [pc |-> pc, cmd |-> cmd, ans |-> [kind |-> kind, val |-> val]]]

\* A write to a key ends what was said of it before.
writes(c, k) == last' = [last EXCEPT ![k] = c] /\ answered' = [answered EXCEPT ![k] = none]

\* Mutant: the insert is answered without the flush.
sled_set_unflushed(c, cmd) ==
  /\ mem' = [mem EXCEPT ![cmd.key] = cmd.value]
  /\ writes(c, cmd.key)
  /\ answers(c, cmd, "answer", "Set", "set")

\* insert, and then flush.
sled_set(c, cmd) ==
  /\ mem' = [mem EXCEPT ![cmd.key] = cmd.value]
  /\ writes(c, cmd.key)
  /\ answers(c, cmd, "flush", "Set", "set")

\* Mutant: a get reads what is on disk.
sled_get_fromDisk(c, cmd) ==
  /\ answers(c, cmd, "answer", "Ok", disk[cmd.key])
  /\ UNCHANGED <<mem, last, answered>>

sled_get(c, cmd) ==
  /\ answers(c, cmd, "answer", "Ok", mem[cmd.key])
  /\ UNCHANGED <<mem, last, answered>>

\* A removal is not flushed; a removal of nothing is, and is an error.
sled_remove(c, cmd) ==
  IF mem[cmd.key] # none
  THEN /\ mem' = [mem EXCEPT ![cmd.key] = none]
       /\ writes(c, cmd.key)
       /\ answers(c, cmd, "answer", "Ok", "removed")
  ELSE /\ answers(c, cmd, "flush", "Err", "not found")
       /\ UNCHANGED <<mem, last, answered>>

\* The log store of project 5, whose index is empty since no log is ever loaded.  What fails
\* is an error, or a panic, of process_request.
kvs_fails(cmd) ==
  CASE cmd.op = "set" -> ~set5
    [] cmd.op = "get" -> ~get5({}, cmd.key)
    [] cmd.op = "rm"  -> ~remove5({}, cmd.key)

-----------------------------------------------------------------------------
(* Serving. *)

busy == {c \in Conn : srv[c].pc \in {"read", "flush", "answer"}}

\* Mutant: the last thread of the pool takes no job.
take_oneLess(c) ==
  /\ proc.pc = "up"
  /\ queue # << >> /\ Head(queue) = c
  /\ Cardinality(busy) < threads - 1
  /\ queue' = Tail(queue)
  /\ srv' = [srv EXCEPT ![c].pc = "read"]
  /\ UNCHANGED <<config, dir, proc, engine, cl, pipe, answer, ends>>

\* A thread of the pool takes the first job; the loop of project 5 accepts.
take(c) ==
  /\ proc.pc = "up"
  /\ queue # << >> /\ Head(queue) = c
  /\ Cardinality(busy) < threads
  /\ queue' = Tail(queue)
  /\ srv' = [srv EXCEPT ![c].pc = "read"]
  /\ UNCHANGED <<config, dir, proc, engine, cl, pipe, answer, ends>>

\* The command is put to the engine.
process_request(c, cmd) ==
  \/ cmd.op = "set" /\ sled_set(c, cmd)
  \/ cmd.op = "get" /\ sled_get(c, cmd)
  \/ cmd.op = "rm"  /\ sled_remove(c, cmd)

\* A request is read and processed.
serve(c) ==
  /\ srv[c].pc = "read" /\ pipe[c] # << >> /\ proc.engine = "sled"
  /\ process_request(c, Head(pipe[c]))
  /\ pipe' = [pipe EXCEPT ![c] = Tail(@)]
  /\ UNCHANGED <<config, dir, proc, disk, queue, cl, answer, ends>>

flush(c) ==
  /\ srv[c].pc = "flush"
  /\ disk' = mem
  /\ srv' = [srv EXCEPT ![c].pc = "answer"]
  /\ UNCHANGED <<config, dir, proc, mem, last, answered, queue, cl, pipe, answer, ends>>

\* An answer to a client whose parser is not clean is never reached by it.
replied(c) == answer' = [answer EXCEPT ![c] = IF cl[c].pc = "call" THEN srv[c].ans ELSE none]

noted(c) ==
  LET cmd == srv[c].cmd
  IN  answered' = IF cmd.op = "set" /\ last[cmd.key] = c
                  THEN [answered EXCEPT ![cmd.key] = cmd.value] ELSE answered

\* Project 4 answers, and reads the next request of the connection.
reply(c) ==
  /\ project = 4 /\ srv[c].pc = "answer"
  /\ srv' = [srv EXCEPT ![c] = [pc |-> "read", cmd |-> none, ans |-> none]]
  /\ replied(c) /\ noted(c)
  /\ UNCHANGED <<config, dir, proc, mem, disk, last, queue, cl, pipe, ends>>

\* The listener of project 5 is dropped at the end of the loop's body, which resets the
\* connections waiting in it.
dropListener(over) ==
  /\ queue' = << >>
  /\ srv' = [d \in Conn |-> IF d \in over \/ srv[d].pc = "queued"
                             THEN [pc |-> "none", cmd |-> none, ans |-> none] ELSE srv[d]]
  /\ cl' = [d \in Conn |-> CASE srv[d].pc # "queued" \/ cl[d].pc = "closed" -> cl[d]
                              [] srv[d].pc = "queued" /\ cl[d].pc = "call" ->
                                   [cl[d] EXCEPT !.pc = "closed", !.cmd = none, !.ret = "error"]
                              [] OTHER -> [cl[d] EXCEPT !.pc = "closed"]]
  /\ pipe' = [d \in Conn |-> IF srv[d].pc = "queued" THEN << >> ELSE pipe[d]]

\* Project 5 sends the request back, closes the connection and goes round its loop.
serve_client(c) ==
  /\ project = 5 /\ srv[c].pc = "answer" /\ srv[c].ans.kind # "Err"
  /\ replied(c) /\ noted(c)
  /\ dropListener({c})
  /\ proc' = [proc EXCEPT !.pc = "bind"]
  /\ UNCHANGED <<config, dir, mem, disk, last, ends>>

\* accept fails: the loop goes round max_retries times in all, and then run returns its
\* error and the process exits.
acceptFails ==
  /\ project = 5 /\ proc.pc = "up" /\ busy = {}
  /\ IF proc.retries + 1 < max_retries
     THEN /\ proc' = [proc EXCEPT !.pc = "bind", !.retries = @ + 1]
          /\ dropListener({})
          /\ UNCHANGED <<config, dir, engine, answer, ends>>
     ELSE dies

\* The client is gone.  Project 4 ends the job; requests still unread may be lost in the
\* reset of the connection.
eof(c) ==
  /\ project = 4 /\ srv[c].pc = "read" /\ cl[c].pc = "closed"
  /\ srv' = [srv EXCEPT ![c].pc = "none"]
  /\ pipe' = [pipe EXCEPT ![c] = << >>]
  /\ UNCHANGED <<config, dir, proc, engine, queue, cl, answer, ends>>

\* An error of serve_client ends the server of project 5: nothing to parse, a removal of
\* nothing, or any request to the log store.
expect(c) ==
  /\ project = 5
  /\ \/ srv[c].pc = "read" /\ cl[c].pc = "closed" /\ pipe[c] = << >>
     \/ srv[c].pc = "answer" /\ srv[c].ans.kind = "Err"
     \/ srv[c].pc = "read" /\ pipe[c] # << >> /\ proc.engine = "kvs" /\ kvs_fails(Head(pipe[c]))
  /\ dies

-----------------------------------------------------------------------------

starting == main \/ run_server \/ write \/ server_spawn4 \/ server_spawn5 \/ bind

serving(c) == take(c) \/ serve(c) \/ flush(c) \/ reply(c) \/ serve_client(c) \/ eof(c) \/ expect(c)

client(c) ==
  \/ connect(c) \/ receive(c) \/ close(c) \/ abort(c)
  \/ \E cmd \in Command : process_requests(c, cmd)

Next ==
  \/ program \/ starting \/ acceptFails \/ kill \/ background
  \/ \E c \in Conn : serving(c) \/ client(c)

Spec == Init /\ [][Next]_vars

\* Threads that can go on do, an answer that has arrived is read, and a client that asks
\* for nothing more closes its connection, as kvs-client does after its one call.
FairSpec ==
  /\ Spec
  /\ \A c \in Conn : WF_vars(serving(c)) /\ WF_vars(receive(c)) /\ WF_vars(close(c))

-----------------------------------------------------------------------------

\* A set that the server answered (server.rs:91-95, after sledvs.rs:21-29) is what the key
\* holds until a later write to that key is begun: across kills between any two steps,
\* restarts, and flushes and writes of other connections.
AnsweredSetStays == \A k \in Key : answered[k] # none => mem[k] = answered[k]

\* The engine of a directory (check_current_engine, run_server of project 4) changes in one
\* way only.  A name leaves the file when a start that is about to write the same name again
\* empties it, a name enters the file as the choice of the start that writes it, and a server
\* that runs uses the engine the file names, whatever starts, failed starts and kills happen.
\* So only a kill between the two halves of std::fs::write (kvs-server.rs:122) loses the
\* name; the next start then takes the file for one without an engine and names kvs, in a
\* sled directory too.
EngineStaysUnlessTorn ==
  [][project = 4 /\ ~embedded =>
       /\ dir.engine \in Engines /\ dir'.engine # dir.engine =>
            proc'.pc = "writing" /\ proc'.engine = dir.engine
       /\ dir'.engine \in Engines /\ dir'.engine # dir.engine =>
            proc.pc = "writing" /\ proc.engine = dir'.engine
       /\ proc'.pc = "up" => proc'.engine = dir'.engine]_vars

\* In project 4 every call ends: no request waits forever behind the connections that hold
\* the threads of the pool, nor behind a client that was killed in its call.
CallsReturn ==
  \A c \in Conn : (project = 4 /\ cl[c].pc = "call") ~> (cl[c].pc # "call")

taken(c) == srv[c].pc \in {"flush", "answer"} \/ answer[c] # none

\* The calls of KvContract, in terms of the connections.
call ==
  [c \in Conn |->
     IF cl[c].pc # "call" THEN [pc |-> "idle", cmd |-> none, res |-> none]
     ELSE [pc  |-> IF taken(c) THEN "taken" ELSE "called",
           cmd |-> cl[c].cmd,
           res |-> IF answer[c] # none THEN answer[c].val
                   ELSE IF taken(c) THEN srv[c].ans.val ELSE none]]

late == [c \in Conn |-> IF cl[c].pc = "call" THEN << >> ELSE pipe[c]]

ret == [c \in Conn |-> cl[c].ret]

Contract == INSTANCE KvContract WITH cache <- mem, saved <- disk

\* The server, the engine and the client together keep KvContract: an answer that is not an
\* error belongs to the call it is returned for, although answers are parsed from one
\* stream that errors leave out of step, requests of failed calls are still served, and the
\* server may be killed at any moment.
KeepsContract == Contract!Spec
=============================================================================
