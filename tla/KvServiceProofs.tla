--------------------------- MODULE KvServiceProofs ---------------------------
(***************************************************************************)
(* Proofs about KvService, for every number of connections, threads, calls *)
(* and starts and all keys and values: an answered set stays, a directory  *)
(* keeps its engine unless the write of its name is cut off, and the       *)
(* service keeps KvContract.                                               *)
(***************************************************************************)
EXTENDS KvService, TLAPS

Dict == [Key -> Value \cup {none}]

Serving ==
  [pc : {"none", "queued", "read", "flush", "answer"}, cmd : Command \cup {none}, ans : Answer \cup {none}]

Client ==
  [pc : {"new", "idle", "call", "closed"}, cmd : Command \cup {none}, stream : {"clean", "stale", "stuck"},
   calls : Nat, retries : Nat, ret : Value \cup {none, "set", "removed", "not found", "error", "done"}]

Process ==
  [pc : {"down", "checked", "writing", "named", "bind", "up"}, engine : Engines \cup {none}, starts : Nat, retries : Nat]

\* What the other parts need to know of the kinds of values.
TypesInv ==
  /\ mem \in Dict /\ disk \in Dict /\ answered \in Dict /\ last = [k \in Key |-> last[k]]
  /\ srv \in [Conn -> Serving] /\ cl \in [Conn -> Client]
  /\ pipe \in [Conn -> Seq(Command)] /\ answer \in [Conn -> Answer \cup {none}]
  /\ project \in 1..5 /\ proc \in Process /\ dir = [engine |-> dir.engine, logs |-> dir.logs]

working == {"flush", "answer"}

\* A set that was answered is on disk, too, until the key is written again.
DurableInv == \A k \in Key : answered[k] # none => mem[k] = answered[k] /\ disk[k] = answered[k]

\* So is one whose answer is being written, unless another connection has written the key.
PendingInv(c) ==
  srv[c].pc \in working =>
    /\ srv[c].cmd \in Command /\ srv[c].ans \in Answer
    /\ srv[c].cmd.op = "set" /\ last[srv[c].cmd.key] = c =>
         /\ mem[srv[c].cmd.key] = srv[c].cmd.value
         /\ srv[c].pc = "answer" => disk[srv[c].cmd.key] = srv[c].cmd.value

\* Where the one request of a call can be: on its way, with the engine, or answered; and a
\* client whose parser is clean has nothing left from earlier calls.
CallInv(c) ==
  /\ cl[c].pc = "new" => cl[c].ret = none /\ pipe[c] = << >> /\ srv[c].pc = "none"
  /\ cl[c].pc # "new" => project \in {4, 5}
  /\ cl[c].stream # "clean" => project = 4
  /\ answer[c] # none => cl[c].pc = "call" /\ srv[c].pc \in {"none", "read"}
  /\ cl[c].pc = "idle" /\ cl[c].stream = "clean" => pipe[c] = << >> /\ srv[c].pc \notin working
  /\ cl[c].pc = "call" /\ taken(c) => pipe[c] = << >>
  /\ cl[c].pc = "call" /\ ~taken(c) => pipe[c] = << >> \/ pipe[c] = <<cl[c].cmd>>
  /\ cl[c].pc = "call" => cl[c].cmd \in Command

KvInv == TypesInv /\ DurableInv /\ \A c \in Conn : PendingInv(c) /\ CallInv(c)

-----------------------------------------------------------------------------
(* Frames.                                                                 *)

\* A command has a key, and that of a set a value.
LEMMA CommandParts ==
  ASSUME NEW cmd \in Command
  PROVE  cmd.key \in Key /\ cmd.op \in {"set", "get", "rm"} /\ (cmd.op = "set" => cmd.value \in Value)
  BY DEF Command

\* The invariant of a connection that the step does not touch.
LEMMA CallFrame ==
  ASSUME NEW c, CallInv(c), project' = project, srv'[c] = srv[c], cl'[c] = cl[c],
         pipe'[c] = pipe[c], answer'[c] = answer[c]
  PROVE  CallInv(c)'
  BY DEF CallInv, taken, working

\* The same of what is being answered, also when sled is flushed.
LEMMA PendingFrame ==
  ASSUME NEW c, PendingInv(c), srv'[c] = srv[c], UNCHANGED <<mem, last>>, disk' = disk \/ disk' = mem
  PROVE  PendingInv(c)'
  BY DEF PendingInv, working

\* A step of the server's start, or of a stand-alone program.
LEMMA StartFrame ==
  ASSUME KvInv, UNCHANGED <<project, engine, conns>>, proc' \in Process,
         dir' = [engine |-> dir'.engine, logs |-> dir'.logs]
  PROVE  KvInv'
<1>1. UNCHANGED <<mem, disk, last, answered, srv, cl, pipe, answer>>
  BY DEF engine, conns
<1>2. TypesInv' /\ DurableInv'
  BY <1>1 DEF KvInv, TypesInv, DurableInv
<1>. QED  BY <1>1, <1>2, CallFrame, PendingFrame DEF KvInv

-----------------------------------------------------------------------------
(* The client's steps.                                                     *)

\* What is left to show of a client's step: the engine and the server's threads rest.
LEMMA ClientFrame ==
  ASSUME KvInv, NEW c \in Conn, UNCHANGED <<project, dir, proc, engine>>,
         srv' \in [Conn -> Serving], cl' \in [Conn -> Client],
         pipe' \in [Conn -> Seq(Command)], answer' \in [Conn -> Answer \cup {none}],
         \A d \in Conn \ {c} : srv'[d] = srv[d] /\ cl'[d] = cl[d] /\ pipe'[d] = pipe[d] /\ answer'[d] = answer[d],
         srv'[c] = srv[c] \/ srv'[c].pc \notin working,
         CallInv(c)'
  PROVE  KvInv'
<1>1. UNCHANGED <<mem, disk, last, answered>>
  BY DEF engine
<1>2. TypesInv' /\ DurableInv'
  BY <1>1 DEF KvInv, TypesInv, DurableInv
<1>3. ASSUME NEW d \in Conn PROVE PendingInv(d)'
  <2>1. CASE srv'[d] = srv[d]
    BY <1>1, <2>1, PendingFrame DEF KvInv
  <2>2. CASE srv'[d].pc \notin working
    BY <2>2 DEF PendingInv, working
  <2>. QED  BY <2>1, <2>2
<1>4. ASSUME NEW d \in Conn PROVE CallInv(d)'
  BY CallFrame DEF KvInv
<1>. QED  BY <1>2, <1>3, <1>4 DEF KvInv

\* connect keeps the invariant.
LEMMA ConnectKeepsInv ==
  ASSUME KvInv, NEW c \in Conn, connect(c)
  PROVE  KvInv'
<1>1. UNCHANGED <<project, dir, proc, engine, pipe, answer>>
  BY DEF connect, config
<1>2. cl \in [Conn -> Client] /\ srv \in [Conn -> Serving] /\ cl[c] \in Client /\ srv[c] \in Serving
  BY DEF KvInv, TypesInv
<1>3. cl[c].pc = "new" /\ CallInv(c) /\ project \in {4, 5}
  BY DEF connect, KvInv, TypesInv
<1>4. CASE proc.pc = "up"
  <2>1. /\ cl' = [cl EXCEPT ![c] = [cl[c] EXCEPT !.pc = "idle", !.retries = 0]]
        /\ srv' = [srv EXCEPT ![c] = [srv[c] EXCEPT !.pc = "queued"]]
    BY <1>4 DEF connect
  <2>2. [cl[c] EXCEPT !.pc = "idle", !.retries = 0] \in Client /\ [srv[c] EXCEPT !.pc = "queued"] \in Serving
    BY <1>2 DEF Client, Serving
  <2>3. /\ cl' \in [Conn -> Client] /\ srv' \in [Conn -> Serving]
        /\ cl'[c] = [cl[c] EXCEPT !.pc = "idle", !.retries = 0]
        /\ srv'[c] = [srv[c] EXCEPT !.pc = "queued"]
        /\ \A d \in Conn \ {c} : cl'[d] = cl[d] /\ srv'[d] = srv[d]
    BY <1>2, <2>1, <2>2
  <2>4. cl'[c].pc = "idle" /\ cl'[c].stream = cl[c].stream /\ srv'[c].pc = "queued"
    BY <1>2, <2>3 DEF Client, Serving
  <2>5. CallInv(c)'
    BY <1>1, <1>3, <2>4 DEF CallInv, working
  <2>. QED  BY <1>1, <2>3, <2>4, <2>5, ClientFrame DEF working, KvInv, TypesInv
<1>5. CASE proc.pc # "up"
  <2>1. srv' = srv /\ cl' = [cl EXCEPT ![c] = IF project = 4 THEN refused4(c) ELSE refused5(c)]
    BY <1>5 DEF connect
  <2>2. offline \in Client /\ [offline EXCEPT !.pc = "closed"] \in Client
    BY DEF offline, Client
  <2>3. [cl[c] EXCEPT !.retries = @ + 1] \in Client
    <3>0. cl[c].retries \in Nat
      BY <1>2 DEF Client
    <3>1. cl[c].retries + 1 \in Nat
      BY <3>0
    <3>2. [cl[c] EXCEPT !.retries = cl[c].retries + 1] \in Client
      BY <1>2, <3>1 DEF Client
    <3>. QED  BY <3>2
  <2>4. PICK x \in Client : cl' = [cl EXCEPT ![c] = x] /\ x \in {[offline EXCEPT !.pc = "closed"], [cl[c] EXCEPT !.retries = @ + 1]}
    BY <2>1, <2>2, <2>3 DEF refused4, refused5
  <2>5. cl' \in [Conn -> Client] /\ cl'[c] = x /\ \A d \in Conn \ {c} : cl'[d] = cl[d]
    BY <1>2, <2>4
  <2>6. \/ x.pc = "closed" /\ x.stream = "clean"
        \/ x.pc = "new" /\ x.stream = cl[c].stream /\ x.ret = cl[c].ret
    BY <1>2, <1>3, <2>4 DEF offline, Client
  <2>7. CallInv(c)'
    BY <1>1, <1>3, <2>1, <2>5, <2>6 DEF CallInv, working
  <2>. QED  BY <1>1, <2>1, <2>5, <2>7, ClientFrame DEF KvInv, TypesInv
<1>. QED  BY <1>4, <1>5

\* A request is sent: by a clean client as its call, otherwise as one more that nobody waits
\* for.
LEMMA RequestKeepsInv ==
  ASSUME KvInv, NEW c \in Conn, NEW cmd \in Command, process_requests(c, cmd)
  PROVE  KvInv'
<1>1. UNCHANGED <<project, dir, proc, engine, srv, answer>>
  BY DEF process_requests, config
<1>2. cl \in [Conn -> Client] /\ cl[c] \in Client /\ pipe \in [Conn -> Seq(Command)] /\ pipe[c] \in Seq(Command)
  BY DEF KvInv, TypesInv
<1>3. cl[c].pc = "idle" /\ CallInv(c)
  BY DEF process_requests, KvInv
<1>4. /\ pipe' \in [Conn -> Seq(Command)] /\ pipe'[c] = (IF flushes(c) THEN Append(pipe[c], cmd) ELSE pipe[c])
      /\ \A d \in Conn \ {c} : pipe'[d] = pipe[d]
  BY <1>2 DEF process_requests
<1>5. cl[c].calls + 1 \in Nat
  <2>1. cl[c].calls \in Nat
    BY <1>2 DEF Client
  <2>. QED  BY <2>1
<1>. DEFINE x == IF cl[c].stream = "clean"
                 THEN [cl[c] EXCEPT !.pc = "call", !.cmd = cmd, !.calls = @ + 1]
                 ELSE [cl[c] EXCEPT !.stream = "stuck", !.ret = "error", !.calls = @ + 1]
<1>9. cl' = [cl EXCEPT ![c] = x]
  BY DEF process_requests
<1>6. CASE cl[c].stream = "clean"
  <2>1. cl' = [cl EXCEPT ![c] = [cl[c] EXCEPT !.pc = "call", !.cmd = cmd, !.calls = cl[c].calls + 1]]
    BY <1>6, <1>9
  <2>2. [cl[c] EXCEPT !.pc = "call", !.cmd = cmd, !.calls = cl[c].calls + 1] \in Client
    BY <1>2, <1>5 DEF Client
  <2>3. /\ cl' \in [Conn -> Client] /\ \A d \in Conn \ {c} : cl'[d] = cl[d]
        /\ cl'[c] = [cl[c] EXCEPT !.pc = "call", !.cmd = cmd, !.calls = cl[c].calls + 1]
    BY <1>2, <2>1, <2>2
  <2>4. cl'[c].pc = "call" /\ cl'[c].cmd = cmd /\ cl'[c].stream = "clean"
    BY <1>2, <1>6, <2>3 DEF Client
  <2>5. pipe[c] = << >> /\ ~taken(c)
    BY <1>3, <1>6 DEF CallInv, taken, working
  <2>6. pipe'[c] = << >> \/ pipe'[c] = <<cmd>>
    BY <1>4, <2>5
  <2>7. ~taken(c)'
    BY <1>1, <2>5 DEF taken
  <2>8. answer[c] = none
    BY <2>5 DEF taken
  <2>9. CallInv(c)'
    BY <1>1, <1>3, <2>4, <2>6, <2>7, <2>8 DEF CallInv
  <2>. QED  BY <1>1, <1>4, <2>3, <2>9, ClientFrame DEF KvInv, TypesInv
<1>7. CASE cl[c].stream # "clean"
  <2>1. cl' = [cl EXCEPT ![c] = [cl[c] EXCEPT !.stream = "stuck", !.ret = "error", !.calls = cl[c].calls + 1]]
    BY <1>7, <1>9
  <2>2. [cl[c] EXCEPT !.stream = "stuck", !.ret = "error", !.calls = cl[c].calls + 1] \in Client
    BY <1>2, <1>5 DEF Client
  <2>3. /\ cl' \in [Conn -> Client] /\ \A d \in Conn \ {c} : cl'[d] = cl[d]
        /\ cl'[c] = [cl[c] EXCEPT !.stream = "stuck", !.ret = "error", !.calls = cl[c].calls + 1]
    BY <1>2, <2>1, <2>2
  <2>4. cl'[c].pc = "idle" /\ cl'[c].stream = "stuck"
    BY <1>2, <1>3, <2>3 DEF Client
  <2>5. CallInv(c)'
    BY <1>1, <1>3, <1>7, <2>4 DEF CallInv
  <2>. QED  BY <1>1, <1>4, <2>3, <2>5, ClientFrame DEF KvInv, TypesInv
<1>. QED  BY <1>6, <1>7

\* What a client makes of the answer of the engine.
LEMMA Deserialized ==
  ASSUME NEW a \in Answer
  PROVE  /\ deserialize(a).ret \in {a.val, "error"}
         /\ deserialize(a).stream \in {"clean", "stale", "stuck"}
         /\ a.val \in Value \cup {none, "set", "removed", "not found"}
<1>1. a.kind \in {"Set", "Ok", "Err"} /\ a.val \in Value \cup {none, "set", "removed", "not found"}
  BY DEF Answer
<1>2. CASE a.kind = "Set"
  BY <1>1, <1>2 DEF deserialize
<1>3. CASE a.kind = "Err"
  BY <1>1, <1>3 DEF deserialize
<1>4. CASE a.kind = "Ok"
  BY <1>1, <1>4 DEF deserialize
<1>. QED  BY <1>1, <1>2, <1>3, <1>4

\* receive keeps the invariant: the request is gone when its answer is there.
LEMMA ReceiveKeepsInv ==
  ASSUME KvInv, NEW c \in Conn, receive(c)
  PROVE  KvInv'
<1>1. UNCHANGED <<project, dir, proc, engine, srv, pipe>>
  BY DEF receive, config
<1>2. cl \in [Conn -> Client] /\ cl[c] \in Client /\ answer \in [Conn -> Answer \cup {none}]
  BY DEF KvInv, TypesInv
<1>3. cl[c].pc = "call" /\ answer[c] # none /\ CallInv(c) /\ answer[c] \in Answer
  BY <1>2 DEF receive, KvInv
<1>4. answer' \in [Conn -> Answer \cup {none}] /\ answer'[c] = none /\ \A d \in Conn \ {c} : answer'[d] = answer[d]
  BY <1>2 DEF receive
<1>. DEFINE x == IF project = 5 THEN [cl[c] EXCEPT !.pc = "closed", !.cmd = none, !.ret = "done"]
                 ELSE [cl[c] EXCEPT !.pc = "idle", !.cmd = none, !.ret = deserialize(answer[c]).ret,
                                    !.stream = deserialize(answer[c]).stream]
<1>5. cl' = [cl EXCEPT ![c] = x]
  BY DEF receive
<1>6. x \in Client
  <2>1. [cl[c] EXCEPT !.pc = "closed", !.cmd = none, !.ret = "done"] \in Client
    BY <1>2 DEF Client
  <2>2. ASSUME NEW r \in Value \cup {none, "set", "removed", "not found", "error", "done"}, NEW s \in {"clean", "stale", "stuck"}
        PROVE  [cl[c] EXCEPT !.pc = "idle", !.cmd = none, !.ret = r, !.stream = s] \in Client
    BY <1>2 DEF Client
  <2>. QED  BY <1>3, <2>1, <2>2, Deserialized
<1>7. x.pc \in {"idle", "closed"} /\ (x.stream # "clean" => project = 4) /\ project \in {4, 5}
  BY <1>2, <1>3 DEF Client, CallInv
<1>. HIDE DEF x
<1>8. cl' \in [Conn -> Client] /\ cl'[c] = x /\ \A d \in Conn \ {c} : cl'[d] = cl[d]
  BY <1>2, <1>5, <1>6
<1>9. pipe[c] = << >> /\ srv[c].pc \notin working
  BY <1>3 DEF CallInv, taken, working
<1>10. CallInv(c)'
  BY <1>1, <1>4, <1>7, <1>8, <1>9 DEF CallInv, working
<1>. QED  BY <1>1, <1>4, <1>8, <1>10, ClientFrame DEF KvInv, TypesInv

\* A client that ends.
LEMMA EndKeepsInv ==
  ASSUME KvInv, NEW c \in Conn, close(c) \/ abort(c)
  PROVE  KvInv'
<1>1. UNCHANGED <<project, dir, proc, engine, srv, pipe>>
  BY DEF close, abort, config
<1>2. cl \in [Conn -> Client] /\ cl[c] \in Client /\ answer \in [Conn -> Answer \cup {none}] /\ CallInv(c)
  BY DEF KvInv, TypesInv
<1>3. [cl[c] EXCEPT !.pc = "closed"] \in Client /\ [cl[c] EXCEPT !.pc = "closed", !.cmd = none, !.ret = "error"] \in Client
  BY <1>2 DEF Client
<1>4. PICK x \in Client : cl' = [cl EXCEPT ![c] = x] /\ x.pc = "closed" /\ x.stream = cl[c].stream
  <2>1. CASE close(c)
    <3>1. [cl[c] EXCEPT !.pc = "closed"].pc = "closed" /\ [cl[c] EXCEPT !.pc = "closed"].stream = cl[c].stream
      BY <1>2 DEF Client
    <3>2. cl' = [cl EXCEPT ![c] = [cl[c] EXCEPT !.pc = "closed"]]
      BY <2>1 DEF close
    <3>. QED  BY <1>3, <3>1, <3>2
  <2>2. CASE abort(c)
    <3>. DEFINE y == [cl[c] EXCEPT !.pc = "closed", !.cmd = none, !.ret = "error"]
    <3>1. y.pc = "closed" /\ y.stream = cl[c].stream
      BY <1>2 DEF Client
    <3>2. cl' = [cl EXCEPT ![c] = y]
      BY <2>2 DEF abort
    <3>. QED  BY <1>3, <3>1, <3>2
  <2>. QED  BY <2>1, <2>2
<1>5. cl' \in [Conn -> Client] /\ cl'[c] = x /\ \A d \in Conn \ {c} : cl'[d] = cl[d]
  BY <1>2, <1>4
<1>6. answer' \in [Conn -> Answer \cup {none}] /\ answer'[c] = none /\ \A d \in Conn \ {c} : answer'[d] = answer[d]
  <2>1. CASE close(c)
    BY <1>2, <2>1 DEF close, CallInv
  <2>2. CASE abort(c)
    BY <1>2, <2>2 DEF abort
  <2>. QED  BY <2>1, <2>2
<1>7. cl[c].pc # "new"
  BY DEF close, abort
<1>8. CallInv(c)'
  BY <1>1, <1>2, <1>4, <1>5, <1>6, <1>7 DEF CallInv
<1>. QED  BY <1>1, <1>5, <1>6, <1>8, ClientFrame DEF KvInv, TypesInv

-----------------------------------------------------------------------------
(* The server's steps.                                                     *)

\* A thread that takes a connection, and one whose client is gone.
LEMMA TakeKeepsInv ==
  ASSUME KvInv, NEW c \in Conn, take(c) \/ eof(c), take(c) => srv[c].pc = "queued"
  PROVE  KvInv'
<1>1. UNCHANGED <<project, dir, proc, engine, cl, answer>>
  BY DEF take, eof, config
<1>2. srv \in [Conn -> Serving] /\ srv[c] \in Serving /\ CallInv(c) /\ pipe \in [Conn -> Seq(Command)]
  BY DEF KvInv, TypesInv
<1>3. CASE take(c)
  <2>1. srv' = [srv EXCEPT ![c] = [srv[c] EXCEPT !.pc = "read"]] /\ pipe' = pipe
    BY <1>3 DEF take
  <2>2. [srv[c] EXCEPT !.pc = "read"] \in Serving /\ [srv[c] EXCEPT !.pc = "read"].pc = "read"
    BY <1>2 DEF Serving
  <2>3. srv' \in [Conn -> Serving] /\ srv'[c].pc = "read" /\ \A d \in Conn \ {c} : srv'[d] = srv[d]
    BY <1>2, <2>1, <2>2
  <2>4. CallInv(c)'
    BY <1>1, <1>2, <1>3, <2>1, <2>3 DEF CallInv, taken, working
  <2>. QED  BY <1>1, <2>1, <2>3, <2>4, ClientFrame DEF KvInv, TypesInv, working
<1>4. CASE eof(c)
  <2>1. srv' = [srv EXCEPT ![c] = [srv[c] EXCEPT !.pc = "none"]] /\ pipe' = [pipe EXCEPT ![c] = << >>]
    BY <1>4 DEF eof
  <2>2. [srv[c] EXCEPT !.pc = "none"] \in Serving /\ [srv[c] EXCEPT !.pc = "none"].pc = "none"
    BY <1>2 DEF Serving
  <2>3. srv' \in [Conn -> Serving] /\ srv'[c].pc = "none" /\ \A d \in Conn \ {c} : srv'[d] = srv[d]
    BY <1>2, <2>1, <2>2
  <2>4. pipe' \in [Conn -> Seq(Command)] /\ pipe'[c] = << >> /\ \A d \in Conn \ {c} : pipe'[d] = pipe[d]
    BY <1>2, <2>1
  <2>5. CallInv(c)'
    BY <1>1, <1>2, <1>4, <2>3, <2>4 DEF CallInv, taken, working, eof
  <2>. QED  BY <1>1, <2>3, <2>4, <2>5, ClientFrame DEF KvInv, TypesInv, working
<1>. QED  BY <1>3, <1>4

\* What the engine does with a command: the key it writes, what the key holds then, and the
\* answer.
LEMMA ServeEffects ==
  ASSUME KvInv, NEW c \in Conn, serve(c), NEW cmd, cmd = Head(pipe[c])
  PROVE  /\ cmd \in Command /\ srv[c].pc = "read" /\ pipe[c] # << >>
         /\ UNCHANGED <<project, dir, proc, disk, cl, answer>>
         /\ pipe' = [pipe EXCEPT ![c] = Tail(pipe[c])]
         /\ mem' = Contract!after(cmd)
         /\ \E a \in Answer, p \in working :
              /\ srv' = [srv EXCEPT ![c] = [pc |-> p, cmd |-> cmd, ans |-> a]]
              /\ a.val = Contract!answerTo(cmd) /\ (cmd.op = "set" => p = "flush")
         /\ \/ UNCHANGED <<mem, last, answered>> /\ cmd.op # "set"
            \/ /\ last' = [last EXCEPT ![cmd.key] = c] /\ answered' = [answered EXCEPT ![cmd.key] = none]
               /\ cmd.op = "set" => mem' = [mem EXCEPT ![cmd.key] = cmd.value]
               /\ cmd.op # "set" => mem' = [mem EXCEPT ![cmd.key] = none]
<1>1. /\ srv[c].pc = "read" /\ pipe[c] # << >> /\ process_request(c, cmd)
      /\ UNCHANGED <<project, dir, proc, disk, cl, answer>> /\ pipe' = [pipe EXCEPT ![c] = Tail(pipe[c])]
  BY DEF serve, config
<1>2. cmd \in Command
  <2>1. pipe[c] \in Seq(Command)
    BY DEF KvInv, TypesInv
  <2>. QED  BY <1>1, <2>1
<1>3. cmd.key \in Key /\ mem \in Dict /\ mem[cmd.key] \in Value \cup {none}
  BY <1>2, CommandParts DEF KvInv, TypesInv, Dict
<1>4. CASE cmd.op = "set"
  <2>1. sled_set(c, cmd)
    BY <1>1, <1>4 DEF process_request
  <2>2. mem' = Contract!after(cmd) /\ Contract!answerTo(cmd) = "set"
    BY <1>4, <2>1 DEF sled_set, Contract!after, Contract!answerTo, Contract!set
  <2>3. [kind |-> "Set", val |-> "set"] \in Answer
    BY DEF Answer
  <2>4. srv' = [srv EXCEPT ![c] = [pc |-> "flush", cmd |-> cmd, ans |-> [kind |-> "Set", val |-> "set"]]]
    BY <2>1 DEF sled_set, answers
  <2>5. \E a \in Answer, p \in working :
              /\ srv' = [srv EXCEPT ![c] = [pc |-> p, cmd |-> cmd, ans |-> a]]
              /\ a.val = Contract!answerTo(cmd) /\ (cmd.op = "set" => p = "flush")
    BY <2>2, <2>3, <2>4 DEF working
  <2>. QED  BY <1>1, <1>2, <1>4, <2>1, <2>2, <2>5 DEF sled_set, writes
<1>5. CASE cmd.op = "get"
  <2>1. sled_get(c, cmd)
    BY <1>1, <1>5 DEF process_request
  <2>2. mem' = Contract!after(cmd) /\ Contract!answerTo(cmd) = mem[cmd.key]
    BY <1>5, <2>1 DEF sled_get, Contract!after, Contract!answerTo, Contract!get
  <2>3. [kind |-> "Ok", val |-> mem[cmd.key]] \in Answer
    BY <1>3 DEF Answer
  <2>4. srv' = [srv EXCEPT ![c] = [pc |-> "answer", cmd |-> cmd, ans |-> [kind |-> "Ok", val |-> mem[cmd.key]]]]
    BY <2>1 DEF sled_get, answers
  <2>5. \E a \in Answer, p \in working :
              /\ srv' = [srv EXCEPT ![c] = [pc |-> p, cmd |-> cmd, ans |-> a]]
              /\ a.val = Contract!answerTo(cmd) /\ (cmd.op = "set" => p = "flush")
    BY <1>5, <2>2, <2>3, <2>4 DEF working
  <2>. QED  BY <1>1, <1>2, <1>5, <2>1, <2>2, <2>5 DEF sled_get
<1>6. CASE cmd.op = "rm" /\ mem[cmd.key] # none
  <2>1. sled_remove(c, cmd)
    BY <1>1, <1>6 DEF process_request
  <2>2. mem' = Contract!after(cmd) /\ Contract!answerTo(cmd) = "removed"
    BY <1>6, <2>1 DEF sled_remove, Contract!after, Contract!answerTo, Contract!remove_key
  <2>3. [kind |-> "Ok", val |-> "removed"] \in Answer
    BY DEF Answer
  <2>4. srv' = [srv EXCEPT ![c] = [pc |-> "answer", cmd |-> cmd, ans |-> [kind |-> "Ok", val |-> "removed"]]]
    BY <1>6, <2>1 DEF sled_remove, answers
  <2>5. \E a \in Answer, p \in working :
              /\ srv' = [srv EXCEPT ![c] = [pc |-> p, cmd |-> cmd, ans |-> a]]
              /\ a.val = Contract!answerTo(cmd) /\ (cmd.op = "set" => p = "flush")
    BY <1>6, <2>2, <2>3, <2>4 DEF working
  <2>. QED  BY <1>1, <1>2, <1>6, <2>1, <2>2, <2>5 DEF sled_remove, writes
<1>7. CASE cmd.op = "rm" /\ mem[cmd.key] = none
  <2>1. sled_remove(c, cmd)
    BY <1>1, <1>7 DEF process_request
  <2>2. [mem EXCEPT ![cmd.key] = none] = mem
    BY <1>3, <1>7 DEF Dict
  <2>3. mem' = Contract!after(cmd) /\ Contract!answerTo(cmd) = "not found"
    BY <1>7, <2>1, <2>2 DEF sled_remove, Contract!after, Contract!answerTo, Contract!remove_key
  <2>4. [kind |-> "Err", val |-> "not found"] \in Answer
    BY DEF Answer
  <2>5. srv' = [srv EXCEPT ![c] = [pc |-> "flush", cmd |-> cmd, ans |-> [kind |-> "Err", val |-> "not found"]]]
    BY <1>7, <2>1 DEF sled_remove, answers
  <2>6. \E a \in Answer, p \in working :
              /\ srv' = [srv EXCEPT ![c] = [pc |-> p, cmd |-> cmd, ans |-> a]]
              /\ a.val = Contract!answerTo(cmd) /\ (cmd.op = "set" => p = "flush")
    BY <1>7, <2>3, <2>4, <2>5 DEF working
  <2>. QED  BY <1>1, <1>2, <1>7, <2>1, <2>3, <2>6 DEF sled_remove
<1>. QED  BY <1>2, <1>4, <1>5, <1>6, <1>7, CommandParts

\* serve keeps the invariant: a write ends what was said of its key, for all others.
LEMMA ServeKeepsInv ==
  ASSUME KvInv, NEW c \in Conn, serve(c)
  PROVE  KvInv'
<1>. DEFINE cmd == Head(pipe[c])
<1>1. /\ cmd \in Command /\ srv[c].pc = "read" /\ pipe[c] # << >>
      /\ UNCHANGED <<project, dir, proc, disk, cl, answer>>
      /\ pipe' = [pipe EXCEPT ![c] = Tail(pipe[c])]
  BY ServeEffects
<1>2. PICK a \in Answer, p \in working :
              /\ srv' = [srv EXCEPT ![c] = [pc |-> p, cmd |-> cmd, ans |-> a]]
              /\ cmd.op = "set" => p = "flush"
  BY ServeEffects
<1>3. \/ UNCHANGED <<mem, last, answered>> /\ cmd.op # "set"
      \/ /\ last' = [last EXCEPT ![cmd.key] = c] /\ answered' = [answered EXCEPT ![cmd.key] = none]
         /\ cmd.op = "set" => mem' = [mem EXCEPT ![cmd.key] = cmd.value]
         /\ cmd.op # "set" => mem' = [mem EXCEPT ![cmd.key] = none]
  BY ServeEffects
<1>. HIDE DEF cmd
<1>4. cmd.key \in Key /\ (cmd.op = "set" => cmd.value \in Value)
  BY <1>1, CommandParts
<1>5. TypesInv
  BY DEF KvInv
<1>6. [pc |-> p, cmd |-> cmd, ans |-> a] \in Serving
  BY <1>1, <1>2 DEF Serving, working
<1>7. /\ srv' \in [Conn -> Serving] /\ \A d \in Conn \ {c} : srv'[d] = srv[d]
      /\ srv'[c] = [pc |-> p, cmd |-> cmd, ans |-> a]
  BY <1>2, <1>5, <1>6 DEF TypesInv
<1>8. /\ pipe' \in [Conn -> Seq(Command)] /\ pipe'[c] = Tail(pipe[c])
      /\ \A d \in Conn \ {c} : pipe'[d] = pipe[d]
  BY <1>1, <1>5 DEF TypesInv
<1>9. ASSUME UNCHANGED <<mem, last, answered>>, cmd.op # "set"
      PROVE  TypesInv' /\ DurableInv' /\ \A d \in Conn : PendingInv(d)'
  <2>1. TypesInv' /\ DurableInv'
    BY <1>1, <1>5, <1>7, <1>8, <1>9 DEF TypesInv, DurableInv, KvInv
  <2>2. PendingInv(c)'
    BY <1>1, <1>2, <1>7, <1>9 DEF PendingInv
  <2>3. \A d \in Conn \ {c} : PendingInv(d)'
    BY <1>1, <1>7, <1>9, PendingFrame DEF KvInv
  <2>. QED  BY <2>1, <2>2, <2>3
<1>10. ASSUME last' = [last EXCEPT ![cmd.key] = c], answered' = [answered EXCEPT ![cmd.key] = none],
              cmd.op = "set" => mem' = [mem EXCEPT ![cmd.key] = cmd.value],
              cmd.op # "set" => mem' = [mem EXCEPT ![cmd.key] = none]
       PROVE  TypesInv' /\ DurableInv' /\ \A d \in Conn : PendingInv(d)'
  <2>1. /\ mem' \in Dict /\ answered' \in Dict /\ last' = [k \in Key |-> last'[k]]
        /\ last'[cmd.key] = c /\ answered'[cmd.key] = none
        /\ \A k \in Key \ {cmd.key} : mem'[k] = mem[k] /\ answered'[k] = answered[k] /\ last'[k] = last[k]
    BY <1>4, <1>5, <1>10 DEF TypesInv, Dict
  <2>2. cmd.op = "set" => mem'[cmd.key] = cmd.value
    BY <1>4, <1>5, <1>10 DEF TypesInv, Dict
  <2>3. TypesInv'
    BY <1>1, <1>5, <1>7, <1>8, <2>1 DEF TypesInv
  <2>4. DurableInv'
    BY <1>1, <2>1 DEF DurableInv, KvInv
  <2>5. PendingInv(c)'
    BY <1>1, <1>2, <1>7, <2>2 DEF PendingInv
  <2>6. ASSUME NEW d \in Conn \ {c}, srv[d].pc \in working PROVE PendingInv(d)'
    <3>1. PendingInv(d) /\ srv[d].cmd \in Command /\ srv[d].cmd.key \in Key
      BY <2>6, CommandParts DEF KvInv, PendingInv
    <3>2. CASE srv[d].cmd.key = cmd.key
      BY <1>7, <2>1, <3>1, <3>2, <2>6 DEF PendingInv
    <3>3. CASE srv[d].cmd.key # cmd.key
      BY <1>1, <1>7, <2>1, <3>1, <3>3, <2>6 DEF PendingInv, working
    <3>. QED  BY <3>2, <3>3
  <2>7. ASSUME NEW d \in Conn \ {c}, srv[d].pc \notin working PROVE PendingInv(d)'
    BY <1>7, <2>7 DEF PendingInv, working
  <2>. QED  BY <2>3, <2>4, <2>5, <2>6, <2>7
<1>11. TypesInv' /\ DurableInv' /\ \A d \in Conn : PendingInv(d)'
  BY <1>3, <1>9, <1>10
<1>12. \A d \in Conn \ {c} : CallInv(d)'
  BY <1>1, <1>7, <1>8, CallFrame DEF KvInv
<1>13. CallInv(c)'
  <2>1. CallInv(c)
    BY DEF KvInv
  <2>2. answer[c] = none
    BY <1>1, <2>1 DEF CallInv, taken
  <2>3. cl[c].pc = "call" => pipe'[c] = << >>
    <3>1. cl[c].pc = "call" => pipe[c] = <<cl[c].cmd>>
      BY <1>1, <2>1, <2>2 DEF CallInv, taken, working
    <3>2. \A x : Tail(<<x>>) = << >>
      OBVIOUS
    <3>. QED  BY <1>8, <3>1, <3>2
  <2>4. srv'[c].pc \in working /\ taken(c)'
    BY <1>2, <1>7 DEF taken, working
  <2>. QED  BY <1>1, <2>1, <2>2, <2>3, <2>4 DEF CallInv
<1>. QED  BY <1>11, <1>12, <1>13 DEF KvInv

\* flush, and the flushes that sled makes by itself.
LEMMA FlushKeepsInv ==
  ASSUME KvInv, (\E c \in Conn : flush(c)) \/ background
  PROVE  KvInv'
<1>1. disk' = mem /\ UNCHANGED <<project, dir, proc, mem, last, answered, cl, pipe, answer>>
  BY DEF flush, background, config, conns
<1>2. TypesInv
  BY DEF KvInv
<1>3. DurableInv'
  BY <1>1 DEF KvInv, DurableInv
<1>4. CASE background
  <2>1. srv' = srv
    BY <1>4 DEF background, conns
  <2>2. TypesInv'
    BY <1>1, <1>2, <2>1 DEF TypesInv
  <2>. QED  BY <1>1, <1>3, <2>1, <2>2, CallFrame, PendingFrame DEF KvInv
<1>5. ASSUME NEW c \in Conn, flush(c) PROVE KvInv'
  <2>1. srv' = [srv EXCEPT ![c] = [srv[c] EXCEPT !.pc = "answer"]] /\ srv[c].pc = "flush"
    BY <1>5 DEF flush
  <2>2. /\ [srv[c] EXCEPT !.pc = "answer"] \in Serving
        /\ \A x : x = [srv[c] EXCEPT !.pc = "answer"] => x.pc = "answer" /\ x.cmd = srv[c].cmd /\ x.ans = srv[c].ans
    BY <1>2 DEF TypesInv, Serving
  <2>3. /\ srv' \in [Conn -> Serving] /\ \A d \in Conn \ {c} : srv'[d] = srv[d]
        /\ srv'[c].pc = "answer" /\ srv'[c].cmd = srv[c].cmd /\ srv'[c].ans = srv[c].ans
    BY <1>2, <2>1, <2>2 DEF TypesInv
  <2>4. TypesInv'
    BY <1>1, <1>2, <2>3 DEF TypesInv
  <2>5. PendingInv(c)'
    BY <1>1, <2>1, <2>3 DEF KvInv, PendingInv, working
  <2>6. CallInv(c)'
    BY <1>1, <2>1, <2>3 DEF KvInv, CallInv, taken, working
  <2>. QED  BY <1>1, <1>3, <2>3, <2>4, <2>5, <2>6, CallFrame, PendingFrame DEF KvInv
<1>. QED  BY <1>4, <1>5

\* noted: the answered set is on disk.
LEMMA NotedKeepsDurable ==
  ASSUME KvInv, NEW c \in Conn, srv[c].pc = "answer", noted(c), UNCHANGED <<mem, disk>>
  PROVE  DurableInv' /\ answered' \in Dict
<1>1. PendingInv(c) /\ DurableInv /\ answered \in Dict /\ srv[c].cmd \in Command
  BY DEF KvInv, TypesInv, PendingInv, working
<1>2. CASE srv[c].cmd.op = "set" /\ last[srv[c].cmd.key] = c
  <2>. DEFINE k == srv[c].cmd.key
              v == srv[c].cmd.value
  <2>1. answered' = [answered EXCEPT ![k] = v] /\ k \in Key /\ v \in Value
    BY <1>1, <1>2, CommandParts DEF noted
  <2>2. mem[k] = v /\ disk[k] = v
    BY <1>1, <1>2 DEF PendingInv, working
  <2>. HIDE DEF k, v
  <2>3. answered' \in Dict /\ answered'[k] = v /\ \A j \in Key \ {k} : answered'[j] = answered[j]
    BY <1>1, <2>1 DEF Dict
  <2>. QED  BY <1>1, <2>2, <2>3 DEF DurableInv
<1>3. CASE ~(srv[c].cmd.op = "set" /\ last[srv[c].cmd.key] = c)
  BY <1>1, <1>3 DEF noted, DurableInv
<1>. QED  BY <1>2, <1>3

\* reply keeps the invariant.
LEMMA ReplyKeepsInv ==
  ASSUME KvInv, NEW c \in Conn, reply(c)
  PROVE  KvInv'
<1>1. UNCHANGED <<project, dir, proc, mem, disk, last, cl, pipe>> /\ srv[c].pc = "answer" /\ noted(c)
  BY DEF reply, config
<1>2. TypesInv
  BY DEF KvInv
<1>3. srv' = [srv EXCEPT ![c] = [pc |-> "read", cmd |-> none, ans |-> none]]
  BY DEF reply
<1>4. [pc |-> "read", cmd |-> none, ans |-> none] \in Serving
  BY DEF Serving
<1>5. /\ srv' \in [Conn -> Serving] /\ \A d \in Conn \ {c} : srv'[d] = srv[d]
      /\ srv'[c].pc = "read"
  BY <1>2, <1>3, <1>4 DEF TypesInv
<1>6. srv[c].ans \in Answer
  BY <1>1 DEF KvInv, PendingInv, working
<1>7. /\ answer' \in [Conn -> Answer \cup {none}] /\ \A d \in Conn \ {c} : answer'[d] = answer[d]
      /\ answer'[c] = IF cl[c].pc = "call" THEN srv[c].ans ELSE none
  BY <1>2, <1>6 DEF reply, replied, TypesInv
<1>8. TypesInv' /\ DurableInv'
  BY <1>1, <1>2, <1>5, <1>7, NotedKeepsDurable DEF TypesInv
<1>9. PendingInv(c)'
  BY <1>5 DEF PendingInv, working
<1>10. CallInv(c)'
  <2>1. CallInv(c) /\ taken(c)
    BY <1>1 DEF KvInv, taken
  <2>. QED  BY <1>1, <1>5, <1>7, <2>1 DEF CallInv, working
<1>. QED  BY <1>1, <1>5, <1>7, <1>8, <1>9, <1>10, CallFrame, PendingFrame DEF KvInv

unserved == [pc |-> "none", cmd |-> none, ans |-> none]

\* What becomes of one connection when the listener is dropped.
LEMMA Dropped ==
  ASSUME KvInv, NEW over, dropListener(over), NEW d \in Conn
  PROVE  /\ srv'[d] = IF d \in over \/ srv[d].pc = "queued" THEN unserved ELSE srv[d]
         /\ pipe'[d] = IF srv[d].pc = "queued" THEN << >> ELSE pipe[d]
         /\ srv[d].pc # "queued" => cl'[d] = cl[d]
         /\ srv[d].pc = "queued" =>
              /\ cl'[d].pc = "closed" /\ cl'[d].stream = cl[d].stream
              /\ cl'[d].ret = IF cl[d].pc = "call" THEN "error" ELSE cl[d].ret
         /\ cl'[d] \in Client /\ srv'[d] \in Serving /\ pipe'[d] \in Seq(Command)
<1>1. cl[d] \in Client /\ srv[d] \in Serving /\ pipe[d] \in Seq(Command) /\ unserved \in Serving
  BY DEF KvInv, TypesInv, unserved, Serving
<1>2. /\ srv'[d] = IF d \in over \/ srv[d].pc = "queued" THEN unserved ELSE srv[d]
      /\ pipe'[d] = IF srv[d].pc = "queued" THEN << >> ELSE pipe[d]
  BY DEF dropListener, unserved
<1>3. cl'[d] = CASE srv[d].pc # "queued" \/ cl[d].pc = "closed" -> cl[d]
                 [] srv[d].pc = "queued" /\ cl[d].pc = "call" ->
                      [cl[d] EXCEPT !.pc = "closed", !.cmd = none, !.ret = "error"]
                 [] OTHER -> [cl[d] EXCEPT !.pc = "closed"]
  BY DEF dropListener
<1>4. CASE srv[d].pc # "queued" \/ cl[d].pc = "closed"
  <2>1. cl'[d] = cl[d]
    BY <1>3, <1>4
  <2>. QED  BY <1>1, <1>2, <1>4, <2>1
<1>5. CASE srv[d].pc = "queued" /\ cl[d].pc = "call"
  <2>1. cl'[d] = [cl[d] EXCEPT !.pc = "closed", !.cmd = none, !.ret = "error"]
    BY <1>3, <1>5
  <2>2. cl'[d] \in Client /\ cl'[d].pc = "closed" /\ cl'[d].stream = cl[d].stream /\ cl'[d].ret = "error"
    BY <1>1, <2>1 DEF Client
  <2>. QED  BY <1>1, <1>2, <1>5, <2>2
<1>6. CASE srv[d].pc = "queued" /\ cl[d].pc \notin {"call", "closed"}
  <2>1. cl'[d] = [cl[d] EXCEPT !.pc = "closed"]
    BY <1>3, <1>6
  <2>2. cl'[d] \in Client /\ cl'[d].pc = "closed" /\ cl'[d].stream = cl[d].stream /\ cl'[d].ret = cl[d].ret
    BY <1>1, <2>1 DEF Client
  <2>. QED  BY <1>1, <1>2, <1>6, <2>2
<1>. QED  BY <1>4, <1>5, <1>6

\* The end of the loop's body in project 5 keeps the invariant: connections that wait in the
\* listener have not been served.
LEMMA DropKeepsInv ==
  ASSUME KvInv, NEW over \in SUBSET Conn, dropListener(over),
         UNCHANGED <<project, dir, mem, disk, last>>, proc' \in Process,
         answered' \in Dict, DurableInv', answer' \in [Conn -> Answer \cup {none}],
         \A d \in Conn \ over : answer'[d] = answer[d],
         \A d \in over : srv[d].pc = "answer" /\ answer'[d] = IF cl[d].pc = "call" THEN srv[d].ans ELSE none
  PROVE  KvInv'
<1>1. srv' = [d \in Conn |-> srv'[d]] /\ cl' = [d \in Conn |-> cl'[d]] /\ pipe' = [d \in Conn |-> pipe'[d]]
  <2>1. srv' = [d \in Conn |-> srv'[d]]
    BY DEF dropListener
  <2>2. cl' = [d \in Conn |-> cl'[d]]
    BY DEF dropListener
  <2>3. pipe' = [d \in Conn |-> pipe'[d]]
    BY DEF dropListener
  <2>. QED  BY <2>1, <2>2, <2>3
<1>2. srv' \in [Conn -> Serving] /\ cl' \in [Conn -> Client] /\ pipe' \in [Conn -> Seq(Command)]
  BY <1>1, Dropped
<1>3. TypesInv'
  BY <1>2 DEF TypesInv, KvInv
<1>4. ASSUME NEW d \in Conn PROVE PendingInv(d)' /\ CallInv(d)'
  <2>1. PendingInv(d) /\ CallInv(d)
    BY DEF KvInv
  <2>2. CASE d \notin over /\ srv[d].pc # "queued"
    <3>1. srv'[d] = srv[d] /\ cl'[d] = cl[d] /\ pipe'[d] = pipe[d] /\ answer'[d] = answer[d]
      BY <2>2, Dropped
    <3>. QED  BY <2>1, <3>1, CallFrame, PendingFrame
  <2>3. CASE srv[d].pc = "queued"
    <3>1. srv'[d].pc = "none" /\ cl'[d].pc = "closed" /\ cl'[d].stream = cl[d].stream /\ pipe'[d] = << >>
      BY <2>3, Dropped DEF unserved
    <3>2. answer'[d] = none /\ cl[d].pc # "new"
      BY <2>1, <2>3 DEF CallInv
    <3>. QED  BY <2>1, <3>1, <3>2 DEF PendingInv, CallInv, working
  <2>4. CASE d \in over /\ srv[d].pc # "queued"
    <3>1. srv'[d].pc = "none" /\ cl'[d] = cl[d] /\ pipe'[d] = pipe[d] /\ srv[d].pc = "answer"
      BY <2>4, Dropped DEF unserved
    <3>2. taken(d)
      BY <3>1 DEF taken
    <3>3. PendingInv(d)'
      BY <3>1 DEF PendingInv, working
    <3>4. srv[d].ans \in Answer /\ answer'[d] = IF cl[d].pc = "call" THEN srv[d].ans ELSE none
      BY <2>1, <2>4, <3>1 DEF PendingInv, working
    <3>5. CallInv(d)'
      BY <2>1, <3>1, <3>2, <3>4 DEF CallInv, working
    <3>. QED  BY <3>3, <3>5
  <2>. QED  BY <2>2, <2>3, <2>4
<1>. QED  BY <1>3, <1>4 DEF KvInv

\* What becomes of one connection when the server ends.
LEMMA Stopped ==
  ASSUME KvInv, NEW state, stop(state), NEW c \in Conn
  PROVE  /\ srv'[c] = unserved /\ pipe'[c] = << >> /\ answer'[c] = none
         /\ cl'[c] \in Client /\ cl'[c].pc = (IF cl[c].pc = "new" THEN "new" ELSE "closed")
         /\ cl'[c].stream = cl[c].stream
         /\ cl'[c].ret = IF cl[c].pc = "call" THEN "error" ELSE cl[c].ret
<1>1. cl[c] \in Client
  BY DEF KvInv, TypesInv
<1>2. srv'[c] = unserved /\ pipe'[c] = << >> /\ answer'[c] = none
  BY DEF stop, unserved
<1>3. cl'[c] = CASE cl[c].pc = "idle" -> [cl[c] EXCEPT !.pc = "closed"]
                 [] cl[c].pc = "call" -> [cl[c] EXCEPT !.pc = "closed", !.cmd = none, !.ret = "error"]
                 [] OTHER -> cl[c]
  BY DEF stop
<1>4. CASE cl[c].pc = "idle"
  <2>1. cl'[c] = [cl[c] EXCEPT !.pc = "closed"]
    BY <1>3, <1>4
  <2>. QED  BY <1>1, <1>2, <1>4, <2>1 DEF Client
<1>5. CASE cl[c].pc = "call"
  <2>1. cl'[c] = [cl[c] EXCEPT !.pc = "closed", !.cmd = none, !.ret = "error"]
    BY <1>3, <1>5
  <2>. QED  BY <1>1, <1>2, <1>5, <2>1 DEF Client
<1>6. CASE cl[c].pc \in {"new", "closed"}
  <2>1. cl'[c] = cl[c]
    BY <1>3, <1>6
  <2>. QED  BY <1>1, <1>2, <1>6, <2>1
<1>7. cl[c].pc \in {"new", "idle", "call", "closed"}
  BY <1>1 DEF Client
<1>. QED  BY <1>4, <1>5, <1>6, <1>7

\* The end of the server keeps the invariant: what was answered is in memory and on disk.
LEMMA StopKeepsInv ==
  ASSUME KvInv, dies
  PROVE  KvInv'
<1>1. PICK state \in {mem, disk} : stop(state)
  BY DEF dies
<1>2. /\ mem' = state /\ disk' = state /\ last' = [k \in Key |-> none] /\ UNCHANGED <<project, dir, answered>>
      /\ proc' = [proc EXCEPT !.pc = "down", !.engine = none, !.retries = 0]
  BY <1>1 DEF stop, config
<1>3. proc' \in Process
  BY <1>2 DEF KvInv, TypesInv, Process
<1>4. /\ srv' = [c \in Conn |-> srv'[c]] /\ cl' = [c \in Conn |-> cl'[c]]
      /\ pipe' = [c \in Conn |-> pipe'[c]] /\ answer' = [c \in Conn |-> answer'[c]]
  BY <1>1 DEF stop
<1>5. unserved \in Serving
  BY DEF unserved, Serving
<1>6. ASSUME NEW c \in Conn
      PROVE  srv'[c] \in Serving /\ cl'[c] \in Client /\ pipe'[c] \in Seq(Command) /\ answer'[c] \in Answer \cup {none}
  <2>1. srv'[c] = unserved /\ cl'[c] \in Client /\ pipe'[c] = << >> /\ answer'[c] = none
    BY <1>1, Stopped
  <2>. QED  BY <1>5, <2>1
<1>7. TypesInv'
  <2>1. state \in Dict /\ answered \in Dict /\ dir = [engine |-> dir.engine, logs |-> dir.logs] /\ project \in 1..5
    BY DEF KvInv, TypesInv
  <2>2. last' = [k \in Key |-> last'[k]]
    BY <1>2
  <2>3. /\ srv' \in [Conn -> Serving] /\ cl' \in [Conn -> Client]
        /\ pipe' \in [Conn -> Seq(Command)] /\ answer' \in [Conn -> Answer \cup {none}]
    BY <1>4, <1>6
  <2>. QED  BY <1>2, <1>3, <2>1, <2>2, <2>3 DEF TypesInv
<1>8. DurableInv'
  BY <1>2 DEF KvInv, DurableInv
<1>9. ASSUME NEW c \in Conn PROVE PendingInv(c)' /\ CallInv(c)'
  <2>1. CallInv(c) /\ cl[c] \in Client
    BY DEF KvInv, TypesInv
  <2>2. srv'[c].pc = "none"
    BY <1>1, Stopped DEF unserved
  <2>3. PendingInv(c)'
    BY <2>2 DEF PendingInv, working
  <2>4. CallInv(c)'
    BY <1>1, <1>2, <2>1, <2>2, Stopped DEF CallInv, working
  <2>. QED  BY <2>3, <2>4
<1>. QED  BY <1>7, <1>8, <1>9 DEF KvInv

-----------------------------------------------------------------------------
(* The connections that wait for a thread.                                 *)

\* Each is there once, and has not been served.
QueueInv ==
  /\ queue \in Seq(Conn)
  /\ \A i \in 1..Len(queue) : srv[queue[i]].pc = "queued"
  /\ \A i, j \in 1..Len(queue) : i # j => queue[i] # queue[j]

\* A step that leaves the queue and those that wait alone.
LEMMA QueueFrame ==
  ASSUME QueueInv, queue' = queue, \A d \in Conn : srv[d].pc = "queued" => srv'[d].pc = "queued"
  PROVE  QueueInv'
<1>1. \A i \in 1..Len(queue) : queue[i] \in Conn
  BY DEF QueueInv
<1>. QED  BY <1>1 DEF QueueInv

\* An empty queue.
LEMMA QueueEmpty ==
  ASSUME queue' = << >>
  PROVE  QueueInv'
  BY DEF QueueInv

\* A connection that is accepted joins the queue.
LEMMA ConnectKeepsQueue ==
  ASSUME KvInv, QueueInv, NEW c \in Conn, connect(c)
  PROVE  QueueInv'
<1>1. CASE proc.pc # "up"
  BY <1>1, QueueFrame DEF connect
<1>2. CASE proc.pc = "up"
  <2>1. srv \in [Conn -> Serving] /\ srv[c] \in Serving /\ srv[c].pc = "none"
    BY DEF connect, KvInv, TypesInv, CallInv
  <2>2. queue' = Append(queue, c) /\ srv' = [srv EXCEPT ![c] = [srv[c] EXCEPT !.pc = "queued"]]
    BY <1>2 DEF connect
  <2>3. srv'[c].pc = "queued" /\ \A d \in Conn \ {c} : srv'[d] = srv[d]
    BY <2>1, <2>2 DEF Serving
  <2>4. queue \in Seq(Conn) /\ \A i \in 1..Len(queue) : queue[i] \in Conn /\ queue[i] # c
    BY <2>1 DEF QueueInv
  <2>5. /\ queue' \in Seq(Conn) /\ Len(queue') = Len(queue) + 1
        /\ queue'[Len(queue) + 1] = c /\ \A i \in 1..Len(queue) : queue'[i] = queue[i]
    BY <2>2, <2>4
  <2>6. \A i \in 1..Len(queue') : i = Len(queue) + 1 \/ i \in 1..Len(queue)
    BY <2>4, <2>5
  <2>7. \A i \in 1..Len(queue') : srv'[queue'[i]].pc = "queued"
    BY <2>3, <2>4, <2>5, <2>6 DEF QueueInv
  <2>8. \A i, j \in 1..Len(queue') : i # j => queue'[i] # queue'[j]
    BY <2>4, <2>5, <2>6 DEF QueueInv
  <2>. QED  BY <2>5, <2>7, <2>8 DEF QueueInv
<1>. QED  BY <1>1, <1>2

\* The first of the queue is taken.
LEMMA TakeKeepsQueue ==
  ASSUME KvInv, QueueInv, NEW c \in Conn, take(c)
  PROVE  QueueInv' /\ srv[c].pc = "queued"
<1>1. queue \in Seq(Conn) /\ queue # << >> /\ Head(queue) = c /\ queue' = Tail(queue)
  BY DEF take, QueueInv
<1>2. /\ Len(queue) \in Nat \ {0} /\ queue[1] = c /\ queue' \in Seq(Conn) /\ Len(queue') = Len(queue) - 1
      /\ \A i \in 1..Len(queue') : queue'[i] = queue[i + 1]
  BY <1>1
<1>3. \A i \in 1..Len(queue') : i + 1 \in 1..Len(queue) /\ i + 1 # 1
  BY <1>2
<1>4. 1 \in 1..Len(queue)
  BY <1>2
<1>5. \A i \in 1..Len(queue') : queue'[i] # c /\ queue'[i] \in Conn
  BY <1>2, <1>3, <1>4 DEF QueueInv
<1>6. \A d \in Conn \ {c} : srv'[d] = srv[d]
  BY DEF take, KvInv, TypesInv
<1>7. \A i \in 1..Len(queue') : srv'[queue'[i]].pc = "queued"
  BY <1>2, <1>3, <1>5, <1>6 DEF QueueInv
<1>8. ASSUME NEW i \in 1..Len(queue'), NEW j \in 1..Len(queue'), i # j PROVE queue'[i] # queue'[j]
  <2>1. i + 1 # j + 1
    BY <1>8, <1>2
  <2>. QED  BY <2>1, <1>2, <1>3 DEF QueueInv
<1>. QED  BY <1>2, <1>4, <1>7, <1>8 DEF QueueInv

-----------------------------------------------------------------------------
(* The engine that the directory names.                                    *)

\* From main to the loop of the server, it uses the engine of the file, and none may have
\* been chosen only while the file names none.  Between the halves of the write the file
\* names none.
NamedInv ==
  project = 4 /\ ~embedded =>
    /\ proc.pc = "checked" /\ dir.engine \in Engines => proc.engine = dir.engine
    /\ proc.pc = "writing" => proc.engine \in Engines /\ dir.engine = "other"
    /\ proc.pc \in {"named", "bind", "up"} => proc.engine = dir.engine /\ dir.engine \in Engines

\* A name leaves the file only to be written again, and enters it as it was chosen.
NameStep ==
  /\ dir.engine \in Engines /\ dir'.engine # dir.engine =>
       proc'.pc = "writing" /\ proc'.engine = dir.engine
  /\ dir'.engine \in Engines /\ dir'.engine # dir.engine =>
       proc.pc = "writing" /\ proc.engine = dir'.engine

\* NamedInv is kept by every step of the server's start, and in project 4 each of them is a
\* NameStep (main and run_server).
LEMMA StartingKeepsNamed ==
  ASSUME TypesInv, NamedInv, starting
  PROVE  /\ NamedInv' /\ proc' \in Process /\ dir' = [engine |-> dir'.engine, logs |-> dir'.logs]
         /\ UNCHANGED <<config, engine, conns>>
         /\ project = 4 /\ ~embedded => NameStep
<1>. USE ServiceBounds DEF Engines
<1>1. proc \in Process /\ UNCHANGED <<config, engine, conns>> /\ UNCHANGED <<project, embedded>>
  BY DEF TypesInv, starting, main, run_server, write, server_spawn4, server_spawn5, bind, config
<1>2. /\ \A p \in {"down", "named", "bind", "up"} : [proc EXCEPT !.pc = p] \in Process
      /\ \A p \in {"down", "named", "bind", "up"} : [proc EXCEPT !.pc = p].pc = p
      /\ \A p \in {"down", "named", "bind", "up"} : [proc EXCEPT !.pc = p].engine = proc.engine
  BY <1>1 DEF Process
<1>3. CASE main
  <2>1. proc.starts \in Nat
    BY <1>1 DEF Process
  <2>2. ASSUME NEW p \in {"down", "checked", "bind"}, NEW e \in Engines \cup {none}
        PROVE  [proc EXCEPT !.pc = p, !.engine = e, !.starts = proc.starts + 1] \in Process
    <3>1. proc.starts + 1 \in Nat
      BY <2>1
    <3>. QED  BY <1>1, <3>1 DEF Process
  <2>3. PICK opt \in (IF embedded \/ project = 4 THEN Opt4 ELSE Opt5) :
          LET m == IF project = 4 THEN main4(dir.engine, opt) ELSE main5(dir.engine, opt)
          IN  proc' = IF embedded
                      THEN [proc EXCEPT !.pc = "bind", !.engine = "sled", !.starts = proc.starts + 1]
                      ELSE [proc EXCEPT !.pc = IF m.runs THEN "checked" ELSE "down",
                                        !.engine = IF m.runs THEN m.opt ELSE none,
                                        !.starts = proc.starts + 1]
    BY <1>3 DEF main
  <2>. DEFINE m == IF project = 4 THEN main4(dir.engine, opt) ELSE main5(dir.engine, opt)
  <2>4. opt \in Engines \cup {none} /\ (project = 4 => opt = none)
    BY <2>3 DEF Opt4, Opt5
  <2>5. m.opt \in Engines \cup {none}
    BY <2>4 DEF main4, main5, check_current_engine4, check_current_engine5
  <2>6. project = 4 /\ dir.engine \in Engines => m.opt = dir.engine
    BY <2>4 DEF main4, check_current_engine4
  <2>. HIDE DEF m
  <2>7. proc' = IF embedded
                THEN [proc EXCEPT !.pc = "bind", !.engine = "sled", !.starts = proc.starts + 1]
                ELSE [proc EXCEPT !.pc = IF m.runs THEN "checked" ELSE "down",
                                  !.engine = IF m.runs THEN m.opt ELSE none,
                                  !.starts = proc.starts + 1]
    BY <2>3 DEF m
  <2>8. proc' \in Process
    BY <2>2, <2>5, <2>7
  <2>9. ~embedded => \/ proc'.pc = "checked" /\ proc'.engine = m.opt
                     \/ proc'.pc = "down"
    BY <1>1, <2>7 DEF Process
  <2>10. dir' = dir
    BY <1>3 DEF main
  <2>. QED  BY <1>1, <2>6, <2>8, <2>9, <2>10 DEF NamedInv, NameStep, TypesInv
<1>4. CASE run_server
  <2>. DEFINE e == IF project = 4 THEN current_engine4(proc.engine) ELSE current_engine5(proc.engine)
  <2>1. e \in Engines /\ (project = 4 /\ proc.engine # none => e = proc.engine)
    BY <1>1 DEF current_engine4, current_engine5, Process
  <2>2. /\ dir' = [dir EXCEPT !.engine = "other"]
        /\ proc' = [proc EXCEPT !.pc = "writing", !.engine = e] /\ proc.pc = "checked"
    BY <1>4 DEF run_server
  <2>. HIDE DEF e
  <2>3. dir' = [engine |-> dir'.engine, logs |-> dir'.logs] /\ dir'.engine = "other"
    BY <2>2 DEF TypesInv
  <2>4. proc' \in Process /\ proc'.pc = "writing" /\ proc'.engine = e
    BY <1>1, <2>1, <2>2 DEF Process
  <2>5. project = 4 /\ ~embedded => NameStep
    BY <2>1, <2>2, <2>3, <2>4 DEF NamedInv, NameStep
  <2>. QED  BY <1>1, <2>1, <2>3, <2>4, <2>5 DEF NamedInv
<1>5. CASE server_spawn4
  <2>1. PICK p \in {"bind", "down"} : proc' = [proc EXCEPT !.pc = p]
    BY <1>5 DEF server_spawn4
  <2>2. dir' = dir /\ proc.pc = "named"
    BY <1>5 DEF server_spawn4
  <2>. QED  BY <1>1, <1>2, <2>1, <2>2 DEF NamedInv, NameStep, TypesInv
<1>6. CASE server_spawn5
  <2>1. PICK p \in {"bind", "down"} : proc' = [proc EXCEPT !.pc = p]
    BY <1>6 DEF server_spawn5
  <2>2. dir' = [dir EXCEPT !.logs = open5(dir.logs).logs] /\ project = 5
    BY <1>6 DEF server_spawn5
  <2>3. dir' = [engine |-> dir'.engine, logs |-> dir'.logs]
    BY <2>2 DEF TypesInv
  <2>. QED  BY <1>1, <1>2, <2>1, <2>2, <2>3 DEF NamedInv
<1>7. CASE bind
  <2>1. proc' = [proc EXCEPT !.pc = "up"] /\ dir' = dir /\ proc.pc = "bind"
    BY <1>7 DEF bind
  <2>. QED  BY <1>1, <1>2, <2>1 DEF NamedInv, NameStep, TypesInv
<1>8. CASE write
  <2>1. /\ dir' = [dir EXCEPT !.engine = proc.engine] /\ proc.pc = "writing"
        /\ proc' = [proc EXCEPT !.pc = "named"]
    BY <1>8 DEF write
  <2>2. dir' = [engine |-> dir'.engine, logs |-> dir'.logs] /\ dir'.engine = proc.engine
    BY <2>1 DEF TypesInv
  <2>3. proc' \in Process /\ proc'.pc = "named" /\ proc'.engine = proc.engine
    BY <1>2, <2>1
  <2>4. project = 4 /\ ~embedded => NameStep
    BY <2>1, <2>2 DEF NamedInv, NameStep, Engines
  <2>. QED  BY <1>1, <2>1, <2>2, <2>3, <2>4 DEF NamedInv
<1>. QED  BY <1>3, <1>4, <1>5, <1>6, <1>7, <1>8 DEF starting

\* Every other step leaves the file alone, and the process where it is unless it falls back
\* to bind or ends.
LEMMA OthersKeepNamed ==
  ASSUME TypesInv, NamedInv, UNCHANGED <<project, embedded, dir>>,
         proc' = proc \/ proc'.pc = "down"
           \/ (proc'.pc = "bind" /\ proc.pc = "up" /\ proc'.engine = proc.engine) \/ project = 5
  PROVE  NamedInv'
  BY DEF NamedInv

-----------------------------------------------------------------------------
(* Every step keeps all of it.                                             *)

ServiceInv == KvInv /\ QueueInv /\ NamedInv

\* serve_client, after its answer.
LEMMA ServeClientKeepsInv ==
  ASSUME ServiceInv, NEW c \in Conn, serve_client(c)
  PROVE  ServiceInv'
<1>1. /\ UNCHANGED <<project, embedded, dir, mem, disk, last>> /\ project = 5 /\ srv[c].pc = "answer" /\ noted(c)
      /\ dropListener({c}) /\ proc' = [proc EXCEPT !.pc = "bind"]
  BY DEF serve_client, config
<1>2. KvInv /\ TypesInv
  BY DEF ServiceInv, KvInv
<1>3. proc' \in Process
  BY <1>1, <1>2 DEF TypesInv, Process
<1>4. srv[c].ans \in Answer
  BY <1>1, <1>2 DEF KvInv, PendingInv, working
<1>5. /\ answer' \in [Conn -> Answer \cup {none}] /\ \A d \in Conn \ {c} : answer'[d] = answer[d]
      /\ answer'[c] = IF cl[c].pc = "call" THEN srv[c].ans ELSE none
  BY <1>2, <1>4 DEF serve_client, replied, TypesInv
<1>6. DurableInv' /\ answered' \in Dict
  BY <1>1, <1>2, NotedKeepsDurable
<1>7. KvInv'
  BY <1>1, <1>2, <1>3, <1>5, <1>6, DropKeepsInv
<1>8. NamedInv'
  BY <1>1, <1>2, OthersKeepNamed DEF ServiceInv
<1>. QED  BY <1>1, <1>7, <1>8, QueueEmpty DEF ServiceInv, dropListener

\* accept fails for the last time, or not yet.
LEMMA AcceptKeepsInv ==
  ASSUME ServiceInv, acceptFails, ~dies
  PROVE  ServiceInv'
<1>1. /\ project = 5 /\ UNCHANGED <<config, dir, engine, answer>> /\ dropListener({})
      /\ proc' = [proc EXCEPT !.pc = "bind", !.retries = @ + 1]
  BY DEF acceptFails
<1>2. KvInv /\ TypesInv /\ UNCHANGED <<project, embedded, dir, mem, disk, last, answered>>
  BY <1>1 DEF ServiceInv, KvInv, config, engine
<1>3. proc' \in Process
  <2>1. proc.retries \in Nat
    BY <1>2 DEF TypesInv, Process
  <2>2. proc.retries + 1 \in Nat
    BY <2>1
  <2>. QED  BY <1>1, <1>2, <2>2 DEF TypesInv, Process
<1>4. DurableInv' /\ answered' \in Dict /\ answer' \in [Conn -> Answer \cup {none}]
  BY <1>1, <1>2 DEF KvInv, DurableInv, TypesInv
<1>5. KvInv'
  BY <1>1, <1>2, <1>3, <1>4, DropKeepsInv
<1>6. NamedInv'
  BY <1>1, <1>2, OthersKeepNamed DEF ServiceInv
<1>. QED  BY <1>1, <1>5, <1>6, QueueEmpty DEF ServiceInv, dropListener

\* The end of the server.
LEMMA DiesKeepsInv ==
  ASSUME ServiceInv, dies
  PROVE  ServiceInv'
<1>1. PICK state \in {mem, disk} : stop(state)
  BY DEF dies
<1>2. /\ UNCHANGED <<project, embedded, dir>> /\ queue' = << >>
      /\ proc' = [proc EXCEPT !.pc = "down", !.engine = none, !.retries = 0]
  BY <1>1 DEF stop, config
<1>3. proc'.pc = "down"
  BY <1>2 DEF ServiceInv, KvInv, TypesInv, Process
<1>4. NamedInv'
  BY <1>2, <1>3, OthersKeepNamed DEF ServiceInv, KvInv
<1>. QED  BY <1>2, <1>4, StopKeepsInv, QueueEmpty DEF ServiceInv

\* All steps of a connection that end neither the server nor its listener.
LEMMA ConnectionKeepsInv ==
  ASSUME ServiceInv, NEW c \in Conn,
         take(c) \/ serve(c) \/ flush(c) \/ reply(c) \/ eof(c) \/ client(c)
  PROVE  ServiceInv' /\ UNCHANGED <<config, dir, proc>>
<1>1. UNCHANGED <<config, dir, proc>>
  BY DEF take, serve, flush, reply, eof, client, connect, receive, close, abort, process_requests
<1>2. NamedInv'
  BY <1>1, OthersKeepNamed DEF ServiceInv, KvInv, config
<1>3. KvInv /\ QueueInv /\ srv \in [Conn -> Serving] /\ srv[c] \in Serving
  BY DEF ServiceInv, KvInv, TypesInv
<1>4. CASE take(c)
  BY <1>1, <1>2, <1>3, <1>4, TakeKeepsQueue, TakeKeepsInv DEF ServiceInv
<1>5. CASE connect(c)
  BY <1>1, <1>2, <1>3, <1>5, ConnectKeepsQueue, ConnectKeepsInv DEF ServiceInv
<1>6. ASSUME queue' = queue, \A d \in Conn \ {c} : srv'[d] = srv[d], srv[c].pc # "queued" \/ srv' = srv
      PROVE  QueueInv'
  BY <1>3, <1>6, QueueFrame
<1>7. CASE serve(c)
  <2>1. queue' = queue /\ srv[c].pc = "read"
    BY <1>7 DEF serve
  <2>2. \A d \in Conn \ {c} : srv'[d] = srv[d]
    BY <1>3, <1>7, ServeEffects
  <2>. QED  BY <1>1, <1>2, <1>3, <1>6, <1>7, <2>1, <2>2, ServeKeepsInv DEF ServiceInv
<1>8. CASE flush(c)
  <2>1. queue' = queue /\ srv[c].pc = "flush" /\ \A d \in Conn \ {c} : srv'[d] = srv[d]
    BY <1>3, <1>8 DEF flush
  <2>. QED  BY <1>1, <1>2, <1>3, <1>6, <1>8, <2>1, FlushKeepsInv DEF ServiceInv
<1>9. CASE reply(c)
  <2>1. queue' = queue /\ srv[c].pc = "answer" /\ \A d \in Conn \ {c} : srv'[d] = srv[d]
    BY <1>3, <1>9 DEF reply
  <2>. QED  BY <1>1, <1>2, <1>3, <1>6, <1>9, <2>1, ReplyKeepsInv DEF ServiceInv
<1>10. CASE eof(c)
  <2>1. queue' = queue /\ srv[c].pc = "read" /\ \A d \in Conn \ {c} : srv'[d] = srv[d]
    BY <1>3, <1>10 DEF eof
  <2>2. take(c) => srv[c].pc = "queued"
    BY <1>3, TakeKeepsQueue
  <2>. QED  BY <1>1, <1>2, <1>3, <1>6, <1>10, <2>1, <2>2, TakeKeepsInv DEF ServiceInv
<1>11. CASE receive(c) \/ close(c) \/ abort(c)
  <2>1. queue' = queue /\ srv' = srv
    BY <1>11 DEF receive, close, abort
  <2>. QED  BY <1>1, <1>2, <1>3, <1>6, <1>11, <2>1, ReceiveKeepsInv, EndKeepsInv DEF ServiceInv
<1>12. ASSUME NEW cmd \in Command, process_requests(c, cmd) PROVE ServiceInv'
  <2>1. queue' = queue /\ srv' = srv
    BY <1>12 DEF process_requests
  <2>. QED  BY <1>1, <1>2, <1>3, <1>6, <1>12, <2>1, RequestKeepsInv DEF ServiceInv
<1>. QED  BY <1>1, <1>4, <1>5, <1>7, <1>8, <1>9, <1>10, <1>11, <1>12 DEF client

\* The steps of Next in the groups of the lemmas.
LEMMA Groups ==
  ASSUME Next
  PROVE  \/ program \/ starting \/ background \/ dies \/ (acceptFails /\ ~dies)
         \/ \E c \in Conn : \/ take(c) \/ serve(c) \/ flush(c) \/ reply(c) \/ eof(c) \/ client(c)
                            \/ serve_client(c)
  BY DEF Next, serving, kill, expect

\* Every step keeps the invariant.
LEMMA ServiceStep ==
  ASSUME ServiceInv, [Next]_vars
  PROVE  ServiceInv'
<1>0. KvInv /\ TypesInv /\ QueueInv /\ NamedInv
  BY DEF ServiceInv, KvInv
<1>1. ASSUME UNCHANGED <<config, dir, proc, engine, conns>> PROVE ServiceInv'
  <2>1. KvInv'
    BY <1>0, <1>1, StartFrame DEF TypesInv, config
  <2>2. NamedInv' /\ QueueInv'
    BY <1>0, <1>1, OthersKeepNamed, QueueFrame DEF config, conns
  <2>. QED  BY <2>1, <2>2 DEF ServiceInv
<1>2. CASE UNCHANGED vars
  BY <1>1, <1>2 DEF vars
<1>3. CASE program
  BY <1>1, <1>3 DEF program
<1>4. CASE starting
  <2>1. /\ NamedInv' /\ proc' \in Process /\ dir' = [engine |-> dir'.engine, logs |-> dir'.logs]
        /\ UNCHANGED <<config, engine, conns>>
    BY <1>0, <1>4, StartingKeepsNamed
  <2>2. KvInv'
    BY <1>0, <2>1, StartFrame DEF config
  <2>3. QueueInv'
    BY <1>0, <2>1, QueueFrame DEF conns
  <2>. QED  BY <2>1, <2>2, <2>3 DEF ServiceInv
<1>5. CASE background
  <2>1. UNCHANGED <<config, dir, proc, conns>>
    BY <1>5 DEF background
  <2>2. NamedInv' /\ QueueInv'
    BY <1>0, <2>1, OthersKeepNamed, QueueFrame DEF config, conns
  <2>. QED  BY <1>0, <1>5, <2>2, FlushKeepsInv DEF ServiceInv
<1>. QED
  BY <1>2, <1>3, <1>4, <1>5, Groups, DiesKeepsInv, AcceptKeepsInv, ConnectionKeepsInv, ServeClientKeepsInv

\* The invariant holds before the first start.
LEMMA ServiceStart == Init => ServiceInv
<1>. SUFFICES ASSUME Init PROVE ServiceInv
  OBVIOUS
<1>1. new \in Dict
  BY DEF new, Dict
<1>2. [pc |-> "none", cmd |-> none, ans |-> none] \in Serving
  BY DEF Serving
<1>3. offline \in Client
  BY DEF offline, Client
<1>4. proc \in Process
  BY DEF Init, Process
<1>5. dir = [engine |-> dir.engine, logs |-> dir.logs]
  BY DEF Init
<1>6. TypesInv
  BY <1>1, <1>2, <1>3, <1>4, <1>5 DEF Init, TypesInv, Dict
<1>7. DurableInv
  BY DEF Init, DurableInv
<1>8. ASSUME NEW c \in Conn PROVE PendingInv(c) /\ CallInv(c)
  <2>1. /\ srv[c].pc = "none" /\ cl[c].pc = "new" /\ cl[c].ret = none /\ cl[c].stream = "clean"
        /\ pipe[c] = << >> /\ answer[c] = none
    BY DEF Init, offline
  <2>. QED  BY <2>1 DEF PendingInv, CallInv, working
<1>9. QueueInv
  BY DEF Init, QueueInv
<1>10. NamedInv
  BY DEF Init, NamedInv
<1>. QED  BY <1>6, <1>7, <1>8, <1>9, <1>10 DEF ServiceInv, KvInv

\* The invariant holds always.
LEMMA ServiceAlways == Spec => []ServiceInv
  BY ServiceStart, ServiceStep, PTL DEF Spec

\* A set that was answered stays until the key is written again (sledvs.rs: insert, flush),
\* across kills, restarts and the other connections' writes.
THEOREM AnsweredSetDurable == Spec => []AnsweredSetStays
<1>1. ServiceInv => AnsweredSetStays
  BY DEF ServiceInv, KvInv, DurableInv, AnsweredSetStays
<1>. QED  BY <1>1, ServiceAlways, PTL

\* In project 4 a name leaves the file engine only to be written again, enters it as the
\* start chose it, and a server that runs uses it (main, check_current_engine and
\* run_server).
THEOREM EngineKept == Spec => EngineStaysUnlessTorn
<1>. DEFINE kept ==
       project = 4 /\ ~embedded =>
         /\ dir.engine \in Engines /\ dir'.engine # dir.engine =>
              proc'.pc = "writing" /\ proc'.engine = dir.engine
         /\ dir'.engine \in Engines /\ dir'.engine # dir.engine =>
              proc.pc = "writing" /\ proc.engine = dir'.engine
         /\ proc'.pc = "up" => proc'.engine = dir'.engine
<1>1. ASSUME ServiceInv, ServiceInv', Next PROVE kept
  <2>1. KvInv /\ TypesInv /\ NamedInv /\ NamedInv'
    BY <1>1 DEF ServiceInv, KvInv
  <2>2. UNCHANGED <<project, embedded>> /\ (dir' = dir \/ starting)
    <3>1. CASE starting
      BY <2>1, <3>1, StartingKeepsNamed DEF config
    <3>2. CASE program \/ background
      BY <3>2 DEF program, background, config
    <3>3. CASE dies
      BY <3>3 DEF dies, stop, config
    <3>4. CASE acceptFails /\ ~dies
      BY <3>4 DEF acceptFails, config
    <3>5. ASSUME NEW c \in Conn, serve_client(c) PROVE UNCHANGED <<project, embedded, dir>>
      BY <3>5 DEF serve_client, config
    <3>6. ASSUME NEW c \in Conn, take(c) \/ serve(c) \/ flush(c) \/ reply(c) \/ eof(c) \/ client(c)
          PROVE  UNCHANGED <<project, embedded, dir>>
      BY <1>1, <3>6, ConnectionKeepsInv DEF config
    <3>. QED  BY <1>1, <3>1, <3>2, <3>3, <3>4, <3>5, <3>6, Groups
  <2>3. project = 4 /\ ~embedded => NameStep
    <3>1. dir' = dir => NameStep
      BY DEF NameStep
    <3>. QED  BY <2>1, <2>2, <3>1, StartingKeepsNamed
  <2>. QED  BY <2>1, <2>2, <2>3 DEF NamedInv, NameStep
<1>2. ServiceInv /\ ServiceInv' /\ [Next]_vars => [kept]_vars
  BY <1>1
<1>3. EngineStaysUnlessTorn <=> [][kept]_vars
  BY PTL DEF EngineStaysUnlessTorn
<1>. QED  BY <1>2, <1>3, ServiceAlways, PTL DEF Spec

-----------------------------------------------------------------------------
(* The service keeps KvContract.                                           *)

\* What a connection contributes to the state of the contract.
viewed(c) ==
  IF cl[c].pc # "call" THEN [pc |-> "idle", cmd |-> none, res |-> none]
  ELSE [pc |-> IF taken(c) THEN "taken" ELSE "called", cmd |-> cl[c].cmd,
        res |-> IF answer[c] # none THEN answer[c].val ELSE IF taken(c) THEN srv[c].ans.val ELSE none]

\* The refinement mapping, connection by connection ...
LEMMA View ==
  /\ call = [c \in Conn |-> viewed(c)]
  /\ late = [c \in Conn |-> IF cl[c].pc = "call" THEN << >> ELSE pipe[c]]
  /\ ret = [c \in Conn |-> cl[c].ret]
  BY DEF call, late, ret, viewed

\* ... and after a step.
LEMMA ViewNext ==
  /\ call' = [c \in Conn |-> viewed(c)']
  /\ late' = [c \in Conn |-> IF cl'[c].pc = "call" THEN << >> ELSE pipe'[c]]
  /\ ret' = [c \in Conn |-> cl'[c].ret]
  BY DEF call, late, ret, viewed

\* A connection that the step does not touch looks the same.
LEMMA SameView ==
  ASSUME NEW c \in Conn, cl'[c] = cl[c], srv'[c] = srv[c], answer'[c] = answer[c], pipe'[c] = pipe[c]
  PROVE  call'[c] = call[c] /\ late'[c] = late[c] /\ ret'[c] = ret[c]
<1>1. viewed(c)' = viewed(c)
  BY DEF viewed, taken
<1>. QED  BY <1>1, View, ViewNext

\* A step of connection c, seen from the contract.
LEMMA ViewStep ==
  ASSUME NEW c \in Conn,
         \A d \in Conn \ {c} : cl'[d] = cl[d] /\ srv'[d] = srv[d] /\ answer'[d] = answer[d] /\ pipe'[d] = pipe[d]
  PROVE  /\ call' = [call EXCEPT ![c] = call'[c]]
         /\ late' = [late EXCEPT ![c] = late'[c]]
         /\ ret' = [ret EXCEPT ![c] = ret'[c]]
<1>1. \A d \in Conn \ {c} : call'[d] = call[d] /\ late'[d] = late[d] /\ ret'[d] = ret[d]
  BY SameView
<1>2. call = [d \in Conn |-> call[d]] /\ late = [d \in Conn |-> late[d]] /\ ret = [d \in Conn |-> ret[d]]
  BY View
<1>3. call' = [d \in Conn |-> call'[d]] /\ late' = [d \in Conn |-> late'[d]] /\ ret' = [d \in Conn |-> ret'[d]]
  BY ViewNext
<1>. QED  BY <1>1, <1>2, <1>3

unseen == UNCHANGED <<mem, disk, call, late, ret>>

\* A step of one connection that the contract does not see.
LEMMA Unseen ==
  ASSUME NEW c \in Conn, UNCHANGED <<mem, disk>>,
         \A d \in Conn \ {c} : cl'[d] = cl[d] /\ srv'[d] = srv[d] /\ answer'[d] = answer[d] /\ pipe'[d] = pipe[d],
         call'[c] = call[c], late'[c] = late[c], ret'[c] = ret[c]
  PROVE  unseen
<1>1. \A d \in Conn : call'[d] = call[d] /\ late'[d] = late[d] /\ ret'[d] = ret[d]
  BY SameView
<1>2. call = [d \in Conn |-> call[d]] /\ late = [d \in Conn |-> late[d]] /\ ret = [d \in Conn |-> ret[d]]
  BY View
<1>3. call' = [d \in Conn |-> call'[d]] /\ late' = [d \in Conn |-> late'[d]] /\ ret' = [d \in Conn |-> ret'[d]]
  BY ViewNext
<1>4. call' = call
  BY <1>1, <1>2, <1>3
<1>5. late' = late
  BY <1>1, <1>2, <1>3
<1>6. ret' = ret
  BY <1>1, <1>2, <1>3
<1>. QED  BY <1>4, <1>5, <1>6 DEF unseen

\* What the contract sees of a connection outside a call, and in one.
LEMMA Seen ==
  ASSUME NEW c \in Conn
  PROVE  /\ cl[c].pc # "call" => call[c] = Contract!idle /\ late[c] = pipe[c]
         /\ cl[c].pc = "call" => /\ call[c].pc = (IF taken(c) THEN "taken" ELSE "called")
                                 /\ call[c].cmd = cl[c].cmd /\ late[c] = << >>
                                 /\ call[c].res = IF answer[c] # none THEN answer[c].val
                                                  ELSE IF taken(c) THEN srv[c].ans.val ELSE none
                                 /\ call[c] = [pc |-> call[c].pc, cmd |-> call[c].cmd, res |-> call[c].res]
         /\ ret[c] = cl[c].ret
  BY View DEF viewed, Contract!idle

\* The same after the step.
LEMMA SeenNext ==
  ASSUME NEW c \in Conn
  PROVE  /\ cl'[c].pc # "call" => call'[c] = Contract!idle /\ late'[c] = pipe'[c]
         /\ cl'[c].pc = "call" => /\ call'[c].pc = (IF taken(c)' THEN "taken" ELSE "called")
                                  /\ call'[c].cmd = cl'[c].cmd /\ late'[c] = << >>
                                  /\ call'[c].res = IF answer'[c] # none THEN answer'[c].val
                                                    ELSE IF taken(c)' THEN srv'[c].ans.val ELSE none
                                  /\ call'[c] = [pc |-> call'[c].pc, cmd |-> call'[c].cmd, res |-> call'[c].res]
         /\ ret'[c] = cl'[c].ret
<1>1. call'[c] = viewed(c)' /\ late'[c] = (IF cl'[c].pc = "call" THEN << >> ELSE pipe'[c]) /\ ret'[c] = cl'[c].ret
  BY ViewNext
<1>. QED  BY <1>1 DEF viewed, Contract!idle

\* The calls of the contract are those of the clients.
LEMMA InCall ==
  ASSUME NEW c \in Conn
  PROVE  (call[c].pc # "idle" <=> cl[c].pc = "call") /\ ret[c] = cl[c].ret
<1>1. ret[c] = cl[c].ret
  BY Seen
<1>2. CASE cl[c].pc = "call"
  <2>1. call[c].pc \in {"taken", "called"}
    BY <1>2, Seen
  <2>. QED  BY <1>1, <1>2, <2>1
<1>3. CASE cl[c].pc # "call"
  <2>1. call[c] = Contract!idle
    BY <1>3, Seen
  <2>2. call[c].pc = "idle"
    BY <2>1 DEF Contract!idle
  <2>. QED  BY <1>1, <1>3, <2>2
<1>. QED  BY <1>2, <1>3

\* connect, close and take are not seen.
LEMMA QuietRefines ==
  ASSUME KvInv, NEW c \in Conn, connect(c) \/ close(c) \/ (take(c) /\ srv[c].pc = "queued")
  PROVE  unseen
<1>1. cl \in [Conn -> Client] /\ cl[c] \in Client /\ srv \in [Conn -> Serving] /\ srv[c] \in Serving /\ CallInv(c)
  BY DEF KvInv, TypesInv
<1>2. UNCHANGED <<mem, disk, pipe, answer>>
  BY DEF connect, close, take, engine
<1>3. CASE connect(c)
  <2>1. cl[c].pc = "new"
    BY <1>3 DEF connect
  <2>2. PICK x : /\ cl' = [cl EXCEPT ![c] = x]
                 /\ x \in {[cl[c] EXCEPT !.pc = "idle", !.retries = 0], [offline EXCEPT !.pc = "closed"],
                           [cl[c] EXCEPT !.retries = @ + 1]}
    BY <1>3 DEF connect, refused4, refused5
  <2>3. x.pc # "call" /\ x.ret = cl[c].ret
    BY <1>1, <2>1, <2>2 DEF Client, offline, CallInv
  <2>4. cl'[c] = x /\ \A d \in Conn \ {c} : cl'[d] = cl[d] /\ srv'[d] = srv[d]
    BY <1>1, <1>3, <2>2 DEF connect
  <2>5. call'[c] = call[c] /\ late'[c] = late[c] /\ ret'[c] = ret[c]
    <3>1. call[c] = Contract!idle /\ late[c] = pipe[c] /\ ret[c] = cl[c].ret
      BY <2>1, Seen
    <3>2. call'[c] = Contract!idle /\ late'[c] = pipe'[c] /\ ret'[c] = cl'[c].ret
      BY <2>3, <2>4, SeenNext
    <3>. QED  BY <1>2, <2>3, <2>4, <3>1, <3>2
  <2>. QED  BY <1>2, <2>4, <2>5, Unseen
<1>4. CASE close(c)
  <2>1. cl' = [cl EXCEPT ![c] = [cl[c] EXCEPT !.pc = "closed"]] /\ srv' = srv /\ cl[c].pc = "idle"
    BY <1>4 DEF close
  <2>2. cl'[c].pc = "closed" /\ cl'[c].ret = cl[c].ret /\ \A d \in Conn \ {c} : cl'[d] = cl[d]
    BY <1>1, <2>1 DEF Client
  <2>3. call'[c] = call[c] /\ late'[c] = late[c] /\ ret'[c] = ret[c]
    <3>1. call[c] = Contract!idle /\ late[c] = pipe[c] /\ ret[c] = cl[c].ret
      BY <2>1, Seen
    <3>2. call'[c] = Contract!idle /\ late'[c] = pipe'[c] /\ ret'[c] = cl'[c].ret
      BY <2>2, SeenNext
    <3>. QED  BY <1>2, <2>2, <3>1, <3>2
  <2>. QED  BY <1>2, <2>1, <2>2, <2>3, Unseen
<1>5. CASE take(c) /\ srv[c].pc = "queued"
  <2>1. srv' = [srv EXCEPT ![c] = [srv[c] EXCEPT !.pc = "read"]] /\ cl' = cl /\ srv[c].pc = "queued"
    BY <1>5 DEF take
  <2>2. srv'[c].pc = "read" /\ \A d \in Conn \ {c} : srv'[d] = srv[d]
    BY <1>1, <2>1 DEF Serving
  <2>3. answer[c] = none /\ ~taken(c) /\ ~taken(c)'
    BY <1>1, <1>2, <2>1, <2>2 DEF CallInv, taken
  <2>4. viewed(c)' = viewed(c)
    BY <1>2, <2>1, <2>3 DEF viewed
  <2>5. call'[c] = call[c] /\ late'[c] = late[c] /\ ret'[c] = ret[c]
    BY <1>2, <2>1, <2>4, View, ViewNext
  <2>. QED  BY <1>2, <2>1, <2>2, <2>5, Unseen
<1>. QED  BY <1>3, <1>4, <1>5

\* A call begins with Invoke; a request of a client that is out of step is a Fail.
LEMMA RequestRefines ==
  ASSUME KvInv, NEW c \in Conn, NEW cmd \in Command, process_requests(c, cmd)
  PROVE  Contract!Next
<1>1. cl \in [Conn -> Client] /\ cl[c] \in Client /\ pipe \in [Conn -> Seq(Command)] /\ CallInv(c)
  BY DEF KvInv, TypesInv
<1>2. UNCHANGED <<mem, disk, srv, answer>> /\ cl[c].pc = "idle"
  BY DEF process_requests, engine
<1>3. /\ pipe'[c] = (IF flushes(c) THEN Append(pipe[c], cmd) ELSE pipe[c])
      /\ \A d \in Conn \ {c} : pipe'[d] = pipe[d]
  BY <1>1 DEF process_requests
<1>4. PICK x : /\ cl' = [cl EXCEPT ![c] = x]
               /\ x = IF cl[c].stream = "clean"
                      THEN [cl[c] EXCEPT !.pc = "call", !.cmd = cmd, !.calls = @ + 1]
                      ELSE [cl[c] EXCEPT !.stream = "stuck", !.ret = "error", !.calls = @ + 1]
  BY DEF process_requests
<1>5. cl'[c] = x /\ \A d \in Conn \ {c} : cl'[d] = cl[d]
  BY <1>1, <1>4
<1>6. /\ call' = [call EXCEPT ![c] = call'[c]]
      /\ late' = [late EXCEPT ![c] = late'[c]]
      /\ ret' = [ret EXCEPT ![c] = ret'[c]]
  BY <1>2, <1>3, <1>5, ViewStep
<1>7. call = [d \in Conn |-> call[d]] /\ late = [d \in Conn |-> late[d]] /\ ret = [d \in Conn |-> ret[d]]
  BY View
<1>8. CASE cl[c].stream = "clean"
  <2>1. x.pc = "call" /\ x.cmd = cmd /\ x.ret = cl[c].ret
    BY <1>1, <1>4, <1>8 DEF Client
  <2>2. ~taken(c) /\ ~taken(c)' /\ pipe[c] = << >> /\ answer[c] = none
    BY <1>1, <1>2, <1>8 DEF CallInv, taken, working
  <2>3. call[c] = Contract!idle /\ late[c] = << >>
    BY <1>2, <2>2, Seen
  <2>4. call'[c] = [pc |-> "called", cmd |-> cmd, res |-> none] /\ late'[c] = << >> /\ ret'[c] = ret[c]
    BY <1>2, <1>5, <2>1, <2>2, Seen, SeenNext
  <2>5. late' = late /\ ret' = ret
    BY <1>6, <1>7, <2>3, <2>4
  <2>6. Contract!Invoke(c, cmd)
    BY <1>2, <1>6, <2>3, <2>4, <2>5 DEF Contract!Invoke, Contract!idle
  <2>. QED  BY <2>6 DEF Contract!Next, Contract!Command, Command
<1>9. CASE cl[c].stream # "clean"
  <2>1. x.pc = "idle" /\ x.ret = "error"
    BY <1>1, <1>2, <1>4, <1>9 DEF Client
  <2>2. flushes(c)
    BY <1>1, <1>9 DEF flushes, CallInv
  <2>3. call[c] = Contract!idle /\ late[c] = pipe[c]
    BY <1>2, Seen
  <2>4. call'[c] = Contract!idle /\ late'[c] = Append(pipe[c], cmd) /\ ret'[c] = "error"
    BY <1>3, <1>5, <2>1, <2>2, SeenNext
  <2>5. call' = call
    BY <1>6, <1>7, <2>3, <2>4
  <2>6. Contract!Fail(c, cmd)
    BY <1>2, <1>6, <2>3, <2>4, <2>5 DEF Contract!Fail, Contract!idle
  <2>. QED  BY <2>6 DEF Contract!Next, Contract!Command, Command
<1>. QED  BY <1>8, <1>9

\* An answer that is parsed returns from the call, with it, with an error, or with "done".
LEMMA ReceiveRefines ==
  ASSUME KvInv, NEW c \in Conn, receive(c)
  PROVE  Contract!Next
<1>1. /\ cl \in [Conn -> Client] /\ cl[c] \in Client /\ CallInv(c)
      /\ answer \in [Conn -> Answer \cup {none}] /\ answer[c] \in Answer \cup {none}
  BY DEF KvInv, TypesInv
<1>2. UNCHANGED <<mem, disk, srv, pipe>> /\ cl[c].pc = "call" /\ answer[c] # none
  BY DEF receive, engine
<1>3. PICK x : /\ cl' = [cl EXCEPT ![c] = x]
               /\ x = IF project = 5 THEN [cl[c] EXCEPT !.pc = "closed", !.cmd = none, !.ret = "done"]
                      ELSE [cl[c] EXCEPT !.pc = "idle", !.cmd = none, !.ret = deserialize(answer[c]).ret,
                                         !.stream = deserialize(answer[c]).stream]
  BY DEF receive
<1>4. x.pc # "call" /\ x.ret \in {answer[c].val, "done", "error"}
  <2>1. answer[c] \in Answer
    BY <1>1, <1>2
  <2>2. deserialize(answer[c]).ret \in {answer[c].val, "error"}
    BY <2>1, Deserialized
  <2>3. x.pc # "call" /\ (project = 5 => x.ret = "done") /\ (project # 5 => x.ret = deserialize(answer[c]).ret)
    BY <1>1, <1>3 DEF Client
  <2>. QED  BY <2>2, <2>3
<1>5. cl'[c] = x /\ \A d \in Conn \ {c} : cl'[d] = cl[d] /\ answer'[d] = answer[d]
  BY <1>1, <1>3 DEF receive
<1>6. /\ call' = [call EXCEPT ![c] = call'[c]]
      /\ late' = [late EXCEPT ![c] = late'[c]]
      /\ ret' = [ret EXCEPT ![c] = ret'[c]]
  BY <1>2, <1>5, ViewStep
<1>7. taken(c) /\ pipe[c] = << >>
  BY <1>1, <1>2 DEF taken, CallInv
<1>8. call[c].pc = "taken" /\ call[c].res = answer[c].val /\ late[c] = << >>
  BY <1>2, <1>7, Seen
<1>9. call'[c] = Contract!idle /\ late'[c] = << >> /\ ret'[c] \in {answer[c].val, "done", "error"}
  BY <1>2, <1>4, <1>5, <1>7, SeenNext
<1>10. late' = late
  <2>1. late = [d \in Conn |-> late[d]]
    BY View
  <2>. QED  BY <1>6, <1>8, <1>9, <2>1
<1>11. Contract!Return(c)
  BY <1>2, <1>6, <1>8, <1>9, <1>10 DEF Contract!Return
<1>. QED  BY <1>11 DEF Contract!Next

\* Connections that end and leave nothing behind.
LEMMA LeaveRefines ==
  ASSUME NEW gone \in SUBSET Conn, UNCHANGED <<mem, disk>>,
         \A d \in gone : /\ call'[d] = Contract!idle /\ late'[d] = << >>
                         /\ ret'[d] = IF call[d].pc # "idle" THEN "error" ELSE ret[d],
         \A d \in Conn \ gone : call'[d] = call[d] /\ late'[d] = late[d] /\ ret'[d] = ret[d]
  PROVE  Contract!Next
<1>1. call' = [d \in Conn |-> call'[d]] /\ late' = [d \in Conn |-> late'[d]] /\ ret' = [d \in Conn |-> ret'[d]]
  BY ViewNext
<1>2. call' = [d \in Conn |-> IF d \in gone THEN Contract!idle ELSE call[d]]
  BY <1>1
<1>3. ret' = [d \in Conn |-> IF d \in gone /\ call[d].pc # "idle" THEN "error" ELSE ret[d]]
  BY <1>1
<1>4. late' = [d \in Conn |-> CASE d \notin gone -> late[d]
                                [] d \in gone \ {} -> << >>
                                [] OTHER -> IF call[d].pc = "called"
                                            THEN Append(late[d], call[d].cmd) ELSE late[d]]
  BY <1>1
<1>5. Contract!Leave(gone)
  BY <1>2, <1>3, <1>4 DEF Contract!Leave
<1>. QED  BY <1>5 DEF Contract!Next

\* A client that ends in a call leaves the request behind if it is not yet served.
LEMMA AbortRefines ==
  ASSUME KvInv, NEW c \in Conn, abort(c)
  PROVE  Contract!Next
<1>1. cl \in [Conn -> Client] /\ cl[c] \in Client /\ CallInv(c) /\ answer \in [Conn -> Answer \cup {none}]
  BY DEF KvInv, TypesInv
<1>2. UNCHANGED <<mem, disk, srv, pipe>> /\ cl[c].pc = "call"
  BY DEF abort, engine
<1>3. cl' = [cl EXCEPT ![c] = [cl[c] EXCEPT !.pc = "closed", !.cmd = none, !.ret = "error"]]
  BY DEF abort
<1>4. /\ cl'[c].pc = "closed" /\ cl'[c].ret = "error"
      /\ \A d \in Conn \ {c} : cl'[d] = cl[d] /\ answer'[d] = answer[d]
  <2>1. answer' = [answer EXCEPT ![c] = none]
    BY DEF abort
  <2>2. \A d \in Conn \ {c} : cl'[d] = cl[d] /\ answer'[d] = answer[d]
    BY <1>1, <1>3, <2>1
  <2>. QED  BY <1>1, <1>3, <2>2 DEF Client
<1>5. \A d \in Conn \ {c} : call'[d] = call[d] /\ late'[d] = late[d] /\ ret'[d] = ret[d]
  BY <1>2, <1>4, SameView
<1>6. call'[c] = Contract!idle /\ late'[c] = pipe[c] /\ ret'[c] = "error"
  BY <1>2, <1>4, SeenNext
<1>7. call[c].pc \in {"called", "taken"} /\ call[c].cmd = cl[c].cmd /\ late[c] = << >>
  BY <1>2, Seen
<1>8. CASE pipe[c] = << >>
  <2>1. \A d \in {c} : /\ call'[d] = Contract!idle /\ late'[d] = << >>
                       /\ ret'[d] = IF call[d].pc # "idle" THEN "error" ELSE ret[d]
    BY <1>6, <1>7, <1>8
  <2>. QED  BY <1>2, <1>5, <2>1, LeaveRefines
<1>9. CASE pipe[c] # << >>
  <2>1. pipe[c] = <<cl[c].cmd>> /\ ~taken(c)
    BY <1>1, <1>2, <1>9 DEF CallInv
  <2>2. call[c].pc = "called"
    BY <1>2, <2>1, Seen
  <2>3. call' = [d \in Conn |-> call'[d]] /\ late' = [d \in Conn |-> late'[d]] /\ ret' = [d \in Conn |-> ret'[d]]
    BY ViewNext
  <2>4. call' = [d \in Conn |-> IF d \in {c} THEN Contract!idle ELSE call[d]]
    BY <1>5, <1>6, <2>3
  <2>5. ret' = [d \in Conn |-> IF d \in {c} /\ call[d].pc # "idle" THEN "error" ELSE ret[d]]
    BY <1>5, <1>6, <2>2, <2>3
  <2>6. late'[c] = Append(late[c], call[c].cmd)
    BY <1>6, <1>7, <2>1
  <2>7. late' = [d \in Conn |-> CASE d \notin {c} -> late[d]
                                  [] d \in {c} \ {c} -> << >>
                                  [] OTHER -> IF call[d].pc = "called"
                                              THEN Append(late[d], call[d].cmd) ELSE late[d]]
    BY <1>5, <2>2, <2>3, <2>6
  <2>8. Contract!Leave({c})
    <3>1. {c} \in SUBSET {c}
      OBVIOUS
    <3>. QED  BY <1>2, <2>4, <2>5, <2>7, <3>1 DEF Contract!Leave
  <2>. QED  BY <2>8 DEF Contract!Next
<1>. QED  BY <1>8, <1>9

\* The engine serves a request: of the call, or of one that ended before.
LEMMA ServeRefines ==
  ASSUME KvInv, NEW c \in Conn, serve(c)
  PROVE  Contract!Next
<1>1. PICK cmd : cmd = Head(pipe[c])
  OBVIOUS
<1>2. /\ srv[c].pc = "read" /\ pipe[c] # << >> /\ UNCHANGED <<disk, cl, answer>>
      /\ pipe' = [pipe EXCEPT ![c] = Tail(pipe[c])] /\ mem' = Contract!after(cmd)
  BY <1>1, ServeEffects
<1>3. PICK a \in Answer, p \in working :
        /\ srv' = [srv EXCEPT ![c] = [pc |-> p, cmd |-> cmd, ans |-> a]]
        /\ a.val = Contract!answerTo(cmd)
  BY <1>1, ServeEffects
<1>4. srv \in [Conn -> Serving] /\ pipe \in [Conn -> Seq(Command)] /\ CallInv(c)
  BY DEF KvInv, TypesInv
<1>5. /\ pipe'[c] = Tail(pipe[c]) /\ srv'[c] = [pc |-> p, cmd |-> cmd, ans |-> a]
      /\ \A d \in Conn \ {c} : pipe'[d] = pipe[d] /\ srv'[d] = srv[d]
  BY <1>2, <1>3, <1>4
<1>6. /\ call' = [call EXCEPT ![c] = call'[c]]
      /\ late' = [late EXCEPT ![c] = late'[c]]
      /\ ret' = [ret EXCEPT ![c] = ret'[c]]
  BY <1>2, <1>5, ViewStep
<1>7. call = [d \in Conn |-> call[d]] /\ late = [d \in Conn |-> late[d]] /\ ret = [d \in Conn |-> ret[d]]
  BY View
<1>8. ret'[c] = ret[c]
  BY <1>2, Seen, SeenNext
<1>9. ret' = ret
  BY <1>6, <1>7, <1>8
<1>10. CASE cl[c].pc = "call"
  <2>1. ~taken(c) /\ answer[c] = none /\ cmd = cl[c].cmd
    BY <1>1, <1>2, <1>4, <1>10 DEF CallInv, taken
  <2>2. taken(c)' /\ srv'[c].ans = a
    BY <1>5 DEF taken, working
  <2>3. call[c].pc = "called" /\ call[c].cmd = cmd /\ late[c] = << >>
    BY <1>10, <2>1, Seen
  <2>4. /\ call'[c].pc = "taken" /\ call'[c].cmd = cmd /\ call'[c].res = a.val /\ late'[c] = << >>
        /\ call'[c] = [pc |-> call'[c].pc, cmd |-> call'[c].cmd, res |-> call'[c].res]
    BY <1>2, <1>10, <2>1, <2>2, SeenNext
  <2>5. late' = late
    BY <1>6, <1>7, <2>3, <2>4
  <2>6. call[c] = [pc |-> call[c].pc, cmd |-> call[c].cmd, res |-> call[c].res]
    BY <1>10, Seen
  <2>7. call'[c] = [call[c] EXCEPT !.pc = "taken", !.res = Contract!answerTo(cmd)]
    BY <1>3, <2>3, <2>4, <2>6
  <2>8. call' = [call EXCEPT ![c].pc = "taken", ![c].res = Contract!answerTo(call[c].cmd)]
    BY <1>6, <1>7, <2>3, <2>7
  <2>9. Contract!TakeEffect(c)
    BY <1>2, <1>9, <2>3, <2>5, <2>8 DEF Contract!TakeEffect
  <2>. QED  BY <2>9 DEF Contract!Next
<1>11. CASE cl[c].pc # "call"
  <2>1. late[c] = pipe[c] /\ call[c] = Contract!idle
    BY <1>11, Seen
  <2>2. late'[c] = Tail(pipe[c]) /\ call'[c] = Contract!idle
    BY <1>2, <1>5, <1>11, SeenNext
  <2>3. call' = call
    BY <1>6, <1>7, <2>1, <2>2
  <2>4. Contract!TakeLate(c)
    BY <1>1, <1>2, <1>6, <1>9, <2>1, <2>2, <2>3 DEF Contract!TakeLate
  <2>. QED  BY <2>4 DEF Contract!Next
<1>. QED  BY <1>10, <1>11

\* A flush saves.
LEMMA FlushRefines ==
  ASSUME KvInv, (\E c \in Conn : flush(c)) \/ background
  PROVE  Contract!Next
<1>1. disk' = mem /\ UNCHANGED <<mem, cl, pipe, answer>>
  BY DEF flush, background, conns
<1>2. ASSUME NEW c \in Conn PROVE viewed(c)' = viewed(c)
  <2>1. CASE background
    BY <1>1, <2>1 DEF background, conns, viewed, taken
  <2>2. ASSUME NEW d \in Conn, flush(d) PROVE viewed(c)' = viewed(c)
    <3>1. srv' = [srv EXCEPT ![d] = [srv[d] EXCEPT !.pc = "answer"]] /\ srv[d].pc = "flush"
      BY <2>2 DEF flush
    <3>2. srv \in [Conn -> Serving] /\ srv[d] \in Serving
      BY DEF KvInv, TypesInv
    <3>3. c # d => srv'[c] = srv[c]
      BY <3>1, <3>2
    <3>4. c = d => srv'[c].pc = "answer" /\ srv'[c].ans = srv[c].ans /\ srv[c].pc = "flush"
      BY <3>1, <3>2 DEF Serving
    <3>. QED  BY <1>1, <3>3, <3>4 DEF viewed, taken
  <2>. QED  BY <2>1, <2>2
<1>3. call' = call
  BY <1>2, View, ViewNext
<1>4. late' = late
  BY <1>1, View, ViewNext
<1>5. ret' = ret
  BY <1>1, View, ViewNext
<1>6. Contract!Save
  BY <1>1, <1>3, <1>4, <1>5 DEF Contract!Save
<1>. QED  BY <1>6 DEF Contract!Next

\* The answer of a call is the same on its way as with the thread.
LEMMA AnswerSeen ==
  ASSUME KvInv, NEW c \in Conn, srv[c].pc = "answer", cl'[c] = cl[c], pipe'[c] = pipe[c],
         srv'[c].pc \in {"none", "read"},
         answer'[c] = IF cl[c].pc = "call" THEN srv[c].ans ELSE none
  PROVE  call'[c] = call[c] /\ late'[c] = late[c] /\ ret'[c] = ret[c]
<1>1. srv[c].ans # none /\ answer[c] = none
  BY ServiceBounds DEF KvInv, PendingInv, CallInv, working
<1>2. taken(c) /\ (cl[c].pc = "call" => taken(c)')
  BY <1>1 DEF taken
<1>3. viewed(c)' = viewed(c)
  BY <1>1, <1>2 DEF viewed
<1>. QED  BY <1>3, View, ViewNext

\* reply is not seen.
LEMMA ReplyRefines ==
  ASSUME KvInv, NEW c \in Conn, reply(c)
  PROVE  unseen
<1>1. /\ UNCHANGED <<mem, disk, cl, pipe>> /\ srv[c].pc = "answer" /\ replied(c)
      /\ srv' = [srv EXCEPT ![c] = [pc |-> "read", cmd |-> none, ans |-> none]]
  BY DEF reply
<1>2. srv \in [Conn -> Serving] /\ answer \in [Conn -> Answer \cup {none}]
  BY DEF KvInv, TypesInv
<1>3. /\ srv'[c].pc = "read" /\ answer'[c] = IF cl[c].pc = "call" THEN srv[c].ans ELSE none
      /\ \A d \in Conn \ {c} : srv'[d] = srv[d] /\ answer'[d] = answer[d]
  BY <1>1, <1>2 DEF replied
<1>4. call'[c] = call[c] /\ late'[c] = late[c] /\ ret'[c] = ret[c]
  BY <1>1, <1>3, AnswerSeen
<1>. QED  BY <1>1, <1>3, <1>4, Unseen

\* The end of a job forgets the requests that are left.
LEMMA EofRefines ==
  ASSUME KvInv, NEW c \in Conn, eof(c)
  PROVE  Contract!Next
<1>1. /\ UNCHANGED <<mem, disk, cl, answer>> /\ cl[c].pc = "closed"
      /\ srv' = [srv EXCEPT ![c] = [srv[c] EXCEPT !.pc = "none"]] /\ pipe' = [pipe EXCEPT ![c] = << >>]
  BY DEF eof, engine
<1>2. srv \in [Conn -> Serving] /\ pipe \in [Conn -> Seq(Command)]
  BY DEF KvInv, TypesInv
<1>3. pipe'[c] = << >> /\ \A d \in Conn \ {c} : srv'[d] = srv[d] /\ pipe'[d] = pipe[d]
  BY <1>1, <1>2
<1>4. \A d \in Conn \ {c} : call'[d] = call[d] /\ late'[d] = late[d] /\ ret'[d] = ret[d]
  BY <1>1, <1>3, SameView
<1>5. call[c].pc = "idle" /\ ret[c] = cl[c].ret
  BY <1>1, InCall
<1>6. call'[c] = Contract!idle /\ late'[c] = << >> /\ ret'[c] = cl[c].ret
  BY <1>1, <1>3, SeenNext
<1>7. \A d \in {c} : /\ call'[d] = Contract!idle /\ late'[d] = << >>
                     /\ ret'[d] = IF call[d].pc # "idle" THEN "error" ELSE ret[d]
  BY <1>5, <1>6
<1>. QED  BY <1>1, <1>4, <1>7, LeaveRefines

\* A listener that is dropped ends the connections that wait in it, their calls fail, and
\* the requests of calls that ended before are forgotten.
LEMMA DropRefines ==
  ASSUME KvInv, NEW over \in SUBSET Conn, dropListener(over), UNCHANGED <<mem, disk>>,
         \A d \in Conn \ over : answer'[d] = answer[d],
         \A d \in over : srv[d].pc = "answer" /\ answer'[d] = IF cl[d].pc = "call" THEN srv[d].ans ELSE none
  PROVE  Contract!Next
<1>1. PICK gone : gone = {d \in Conn : srv[d].pc = "queued"}
  OBVIOUS
<1>2. ASSUME NEW d \in gone
      PROVE  /\ call'[d] = Contract!idle /\ late'[d] = << >>
             /\ ret'[d] = IF call[d].pc # "idle" THEN "error" ELSE ret[d]
  <2>1. /\ d \in Conn /\ cl'[d].pc = "closed" /\ pipe'[d] = << >>
        /\ cl'[d].ret = IF cl[d].pc = "call" THEN "error" ELSE cl[d].ret
    BY <1>1, <1>2, Dropped
  <2>2. (call[d].pc # "idle" <=> cl[d].pc = "call") /\ ret[d] = cl[d].ret
    BY <2>1, InCall
  <2>3. call'[d] = Contract!idle /\ late'[d] = << >> /\ ret'[d] = cl'[d].ret
    BY <2>1, SeenNext
  <2>. QED  BY <2>1, <2>2, <2>3
<1>3. ASSUME NEW d \in Conn \ gone PROVE call'[d] = call[d] /\ late'[d] = late[d] /\ ret'[d] = ret[d]
  <2>1. srv[d].pc # "queued" /\ cl'[d] = cl[d] /\ pipe'[d] = pipe[d]
    BY <1>1, <1>3, Dropped
  <2>2. CASE d \in over
    <3>1. srv'[d].pc = "none"
      BY <2>2, Dropped DEF unserved
    <3>. QED  BY <2>1, <2>2, <3>1, AnswerSeen
  <2>3. CASE d \notin over
    <3>1. srv'[d] = srv[d] /\ answer'[d] = answer[d]
      BY <2>1, <2>3, Dropped
    <3>. QED  BY <2>1, <3>1, SameView
  <2>. QED  BY <2>2, <2>3
<1>. QED  BY <1>1, <1>2, <1>3, LeaveRefines

\* The end of the server is a crash of the contract.
LEMMA DiesRefines ==
  ASSUME KvInv, dies
  PROVE  Contract!Next
<1>1. PICK state \in {mem, disk} : stop(state)
  BY DEF dies
<1>2. mem' = state /\ disk' = state
  BY <1>1 DEF stop
<1>3. ASSUME NEW d \in Conn
      PROVE  /\ call'[d] = Contract!idle /\ late'[d] = << >>
             /\ ret'[d] = IF call[d].pc # "idle" THEN "error" ELSE ret[d]
  <2>1. /\ cl'[d].pc # "call" /\ pipe'[d] = << >>
        /\ cl'[d].ret = IF cl[d].pc = "call" THEN "error" ELSE cl[d].ret
    BY <1>1, Stopped
  <2>2. (call[d].pc # "idle" <=> cl[d].pc = "call") /\ ret[d] = cl[d].ret
    BY <2>1, InCall
  <2>3. call'[d] = Contract!idle /\ late'[d] = << >> /\ ret'[d] = cl'[d].ret
    BY <2>1, SeenNext
  <2>. QED  BY <2>1, <2>2, <2>3
<1>4. call' = [d \in Conn |-> call'[d]] /\ late' = [d \in Conn |-> late'[d]] /\ ret' = [d \in Conn |-> ret'[d]]
  BY ViewNext
<1>5. call' = [d \in Conn |-> Contract!idle]
  BY <1>3, <1>4
<1>6. late' = [d \in Conn |-> << >>]
  BY <1>3, <1>4
<1>7. ret' = [d \in Conn |-> IF call[d].pc # "idle" THEN "error" ELSE ret[d]]
  BY <1>3, <1>4
<1>8. Contract!Crash
  BY <1>2, <1>5, <1>6, <1>7 DEF Contract!Crash
<1>. QED  BY <1>8 DEF Contract!Next

\* Every step of the service is one of the contract, or is not seen by it.
LEMMA ServiceRefines ==
  ASSUME ServiceInv, [Next]_vars
  PROVE  [Contract!Next]_(Contract!vars)
<1>0. KvInv /\ QueueInv
  BY DEF ServiceInv
<1>1. ASSUME unseen PROVE UNCHANGED Contract!vars
  BY <1>1 DEF unseen, Contract!vars
<1>2. ASSUME UNCHANGED <<engine, conns>> PROVE unseen
  <2>1. UNCHANGED <<mem, disk, srv, cl, pipe, answer>>
    BY <1>2 DEF engine, conns
  <2>2. call' = call /\ late' = late /\ ret' = ret
    BY <2>1 DEF call, late, ret, taken
  <2>. QED  BY <2>1, <2>2 DEF unseen
<1>3. CASE UNCHANGED vars
  BY <1>1, <1>2, <1>3 DEF vars
<1>4. CASE program \/ starting
  BY <1>0, <1>1, <1>2, <1>4
     DEF program, starting, main, run_server, write, server_spawn4, server_spawn5, bind
<1>5. CASE background
  BY <1>0, <1>5, FlushRefines
<1>6. CASE dies
  BY <1>0, <1>6, DiesRefines
<1>7. CASE acceptFails /\ ~dies
  <2>1. UNCHANGED <<mem, disk, answer>> /\ dropListener({})
    BY <1>7 DEF acceptFails, engine
  <2>. QED  BY <1>0, <2>1, DropRefines
<1>8. ASSUME NEW c \in Conn, serve_client(c) PROVE Contract!Next
  <2>1. UNCHANGED <<mem, disk>> /\ dropListener({c}) /\ srv[c].pc = "answer" /\ replied(c)
    BY <1>8 DEF serve_client
  <2>2. /\ \A d \in Conn \ {c} : answer'[d] = answer[d]
        /\ answer'[c] = IF cl[c].pc = "call" THEN srv[c].ans ELSE none
    BY <1>0, <2>1 DEF replied, KvInv, TypesInv
  <2>. QED  BY <1>0, <2>1, <2>2, DropRefines
<1>9. ASSUME NEW c \in Conn, take(c) \/ connect(c) \/ close(c) PROVE unseen
  <2>1. take(c) => srv[c].pc = "queued"
    BY <1>0, TakeKeepsQueue
  <2>. QED  BY <1>0, <1>9, <2>1, QuietRefines
<1>10. ASSUME NEW c \in Conn, flush(c) \/ serve(c) \/ eof(c) \/ receive(c) \/ abort(c) PROVE Contract!Next
  BY <1>0, <1>10, FlushRefines, ServeRefines, EofRefines, ReceiveRefines, AbortRefines
<1>11. ASSUME NEW c \in Conn, reply(c) PROVE unseen
  BY <1>0, <1>11, ReplyRefines
<1>12. ASSUME NEW c \in Conn, client(c)
       PROVE  \/ connect(c) \/ receive(c) \/ close(c) \/ abort(c) \/ Contract!Next
  BY <1>0, <1>12, RequestRefines DEF client
<1>13. ASSUME NEW c \in Conn, take(c) \/ serve(c) \/ flush(c) \/ reply(c) \/ eof(c) \/ client(c)
       PROVE  Contract!Next \/ unseen
  BY <1>9, <1>10, <1>11, <1>12, <1>13
<1>. QED
  BY <1>1, <1>3, <1>4, <1>5, <1>6, <1>7, <1>8, <1>13, Groups

\* The server, the engine and the clients together keep KvContract (server.rs, client.rs,
\* sledvs.rs): every call takes effect at most once, an answer that is not an error is that
\* of the dictionary at that moment, and a crash falls back to what was flushed.
THEOREM ServiceKeepsContract == Spec => KeepsContract
<1>1. Init => Contract!Init
  <2>. SUFFICES ASSUME Init PROVE Contract!Init
    OBVIOUS
  <2>1. /\ cl = [c \in Conn |-> offline] /\ pipe = [c \in Conn |-> << >>] /\ mem = new /\ disk = new
    BY DEF Init
  <2>2. \A c \in Conn : cl[c].pc = "new" /\ cl[c].ret = none /\ pipe[c] = << >>
    BY <2>1 DEF offline
  <2>3. call = [c \in Conn |-> Contract!idle]
    BY <2>2 DEF call, Contract!idle
  <2>4. late = [c \in Conn |-> << >>]
    BY <2>2 DEF late
  <2>5. ret = [c \in Conn |-> none]
    BY <2>2 DEF ret
  <2>6. Contract!new = new
    BY DEF Contract!new, new
  <2>. QED  BY <2>1, <2>3, <2>4, <2>5, <2>6 DEF Contract!Init
<1>2. ServiceInv /\ [Next]_vars => [Contract!Next]_(Contract!vars)
  BY ServiceRefines
<1>. QED  BY <1>1, <1>2, ServiceAlways, PTL DEF Spec, KeepsContract, Contract!Spec
=============================================================================
