------------------------------- MODULE LabRPC -------------------------------
(***************************************************************************)
(* The simulated network of 6.5840/src/labrpc/labrpc.go and of its port to *)
(* Rust, crates/labrpc, with the servers that the testers' config crashes  *)
(* and restarts on it.                                                     *)
(*                                                                         *)
(* Each start of a server makes a new Server object, an instance; the      *)
(* network's map servers has the instance now registered under a name, or  *)
(* nil.  A call goes through the goroutine or task of its processReq,      *)
(* process_rpc in Rust, which takes the network's lock for one look at the *)
(* maps at a time.  The handler it starts saves its effect to the          *)
(* Persister of its instance.  In Go it runs beside processReq, even after *)
(* the instance has been deleted; in Rust it is a future that process_rpc  *)
(* polls, and drops when it finds the server dead.                         *)
(***************************************************************************)
EXTENDS Naturals, FiniteSets

CONSTANTS
  Call,          \* the calls made
  End,           \* client ends
  Server,        \* server names
  Connections,   \* the server each end is connected to
  Hangs,         \* the calls whose handler never returns
  nil,
  MaxInstances   \* bound: servers started in a behaviour

Instance == 1..MaxInstances

ASSUME ConstantsAssumption ==
  /\ Connections \in [End -> Server]
  /\ Hangs \subseteq Call
  /\ MaxInstances \in Nat
  /\ nil \notin Server \cup Nat

VARIABLES
  port,        \* go or rust
  enabled,     \* by end name
  servers,     \* the instance registered under each server name, or nil
  reliable,
  longReordering,
  listening,   \* the goroutine of MakeNetwork is in its loop
  done,        \* Cleanup has closed the channel done
  req,         \* the progress of each call, see Request
  handler,     \* of each call, see dispatch
  added,       \* the server names that have been registered
  instances,   \* number of instances so far
  persister,   \* of each instance: the calls whose effect it has saved
  saved        \* of each server: the instance whose Persister is in use, or
               \* the contents that crash1 copied

network == <<port, enabled, servers, reliable, longReordering, listening, done>>

tester == <<added, instances, persister, saved>>

vars == <<network, req, handler, tester>>

-----------------------------------------------------------------------------
(* Calls.  Fields are what processReq has read for its call.               *)

Request ==
  [pc : {"idle", "calling", "sent", "delaying", "executing", "waiting",
         "answering", "true", "false"},
   end : End \cup {nil}, server : Instance \cup {nil},
   reliable : BOOLEAN, longReordering : BOOLEAN]

idle == [pc |-> "idle", end |-> nil, server |-> nil,
         reliable |-> TRUE, longReordering |-> FALSE]

\* Rust: the client may have hooks set, and these may reject what they see.
hooked == port = "rust"

goto(c, pc) == req' = [req EXCEPT ![c].pc = pc]

\* What processReq has read of the settings is not used again.
finish(c, pc) ==
  req' = [req EXCEPT ![c].pc = pc, ![c].reliable = TRUE, ![c].longReordering = FALSE]

Init ==
  /\ port \in {"go", "rust"}
  /\ enabled = [e \in End |-> FALSE]
  /\ servers = [n \in Server |-> nil]
  /\ reliable = TRUE /\ longReordering = FALSE
  /\ listening = TRUE /\ done = FALSE
  /\ req = [c \in Call |-> idle]
  /\ handler = [c \in Call |-> "none"]
  /\ added = {} /\ instances = 0
  /\ persister = [k \in Instance |-> {}]
  /\ saved = [n \in Server |-> [instance |-> nil, copy |-> {}]]

\* ClientEnd.Call, up to the select that sends the request.  The Rust client
\* puts it into an unbounded channel; end_info then takes the server's name to
\* be known.
call(c, e) ==
  /\ req[c].pc = "idle"
  /\ port = "rust" => Connections[e] \in added
  /\ req' = [req EXCEPT ![c].pc = IF port = "go" THEN "calling" ELSE "sent", ![c].end = e]
  /\ UNCHANGED <<network, handler, tester>>

\* The select: the goroutine of MakeNetwork takes the request, or the network
\* has been destroyed.
send(c) ==
  /\ req[c].pc = "calling"
  /\ \/ listening /\ goto(c, "sent")
     \/ done /\ finish(c, "false")
  /\ UNCHANGED <<network, handler, tester>>

\* readEndnameInfo, and the delay of a request without a server.
readEndnameInfo(c) ==
  LET e == req[c].end
      server == servers[Connections[e]] IN
  /\ req[c].pc = "sent"
  /\ req' = [req EXCEPT ![c].server = server, ![c].reliable = reliable,
               ![c].longReordering = longReordering,
               ![c].pc = IF enabled[e] /\ server # nil THEN "executing" ELSE "delaying"]
  /\ UNCHANGED <<network, handler, tester>>

\* Mutant: a request without a server is answered as if it had been executed.
timeout_true(c) ==
  /\ req[c].pc = "delaying"
  /\ finish(c, "true")
  /\ UNCHANGED <<network, handler, tester>>

\* The timer of a request without a server fires.
timeout(c) ==
  /\ req[c].pc = "delaying"
  /\ finish(c, "false")
  /\ UNCHANGED <<network, handler, tester>>

\* An unreliable network drops the request, a hook rejects it, or the handler
\* starts.
execute(c) ==
  /\ req[c].pc = "executing"
  /\ \/ /\ ~req[c].reliable \/ hooked
        /\ finish(c, "false")
        /\ UNCHANGED handler
     \/ /\ handler' = [handler EXCEPT ![c] = "running"]
        /\ goto(c, "waiting")
  /\ UNCHANGED <<network, tester>>

\* Server.dispatch: the method is called and saves to its Persister.
dispatch(c) ==
  /\ handler[c] = "running"
  /\ handler' = [handler EXCEPT ![c] = "saved"]
  /\ persister' = [persister EXCEPT ![req[c].server] = @ \cup {c}]
  /\ UNCHANGED <<network, req, added, instances, saved>>

\* It returns, unless it hangs.
return(c) ==
  /\ handler[c] = "saved" /\ c \notin Hangs
  /\ handler' = [handler EXCEPT ![c] = "returned"]
  /\ UNCHANGED <<network, req, tester>>

\* Rust: the method is not one of the service, its argument is not decoded, or
\* it returns an error.
fail(c) ==
  /\ port = "rust" /\ handler[c] \in {"running", "saved"}
  /\ handler' = [handler EXCEPT ![c] = "failed"]
  /\ UNCHANGED <<network, req, tester>>

\* Mutant: a name that is registered counts as the same server.
isServerDead_byName(c) ==
  ~enabled[req[c].end] \/ servers[Connections[req[c].end]] = nil

isServerDead(c) ==
  ~enabled[req[c].end] \/ servers[Connections[req[c].end]] # req[c].server

\* Mutant: the handler is not dropped.
tick_goesOn(c) ==
  /\ req[c].pc = "waiting" /\ isServerDead(c)
  /\ finish(c, "false")
  /\ UNCHANGED <<network, handler, tester>>

\* Every 100 ms without a reply processReq looks whether the server is dead,
\* and stops waiting if it is.
tick(c) ==
  /\ req[c].pc = "waiting" /\ isServerDead(c)
  /\ finish(c, "false")
  /\ handler' = IF port = "rust" THEN [handler EXCEPT ![c] = "dropped"] ELSE handler
  /\ UNCHANGED <<network, tester>>

\* The reply has come: a hook may reject it; then the last look whether the
\* server is dead, and the reply is dropped, delayed or sent.
answer(c) ==
  /\ req[c].pc = "waiting" /\ handler[c] \in {"returned", "failed"}
  /\ \/ /\ isServerDead(c) \/ handler[c] = "failed" \/ hooked \/ ~req[c].reliable
        /\ finish(c, "false")
     \/ /\ ~isServerDead(c) /\ handler[c] = "returned"
        /\ \/ req[c].longReordering /\ finish(c, "answering")
           \/ finish(c, "true")
  /\ UNCHANGED <<network, handler, tester>>

\* The timer of a delayed reply fires.
deliver(c) ==
  /\ req[c].pc = "answering"
  /\ finish(c, "true")
  /\ UNCHANGED <<network, handler, tester>>

-----------------------------------------------------------------------------
(* The network's settings.                                                 *)

Enable(e) ==
  /\ enabled' = [enabled EXCEPT ![e] = ~@]
  /\ UNCHANGED <<port, servers, reliable, longReordering, listening, done, req, handler, tester>>

Reliable ==
  /\ reliable' = ~reliable
  /\ UNCHANGED <<port, enabled, servers, longReordering, listening, done, req, handler, tester>>

LongReordering ==
  /\ longReordering' = ~longReordering
  /\ UNCHANGED <<port, enabled, servers, reliable, listening, done, req, handler, tester>>

Cleanup ==
  /\ port = "go" /\ ~done
  /\ done' = TRUE
  /\ UNCHANGED <<port, enabled, servers, reliable, longReordering, listening, req, handler, tester>>

\* The goroutine of MakeNetwork sees done.
stopListening ==
  /\ done /\ listening
  /\ listening' = FALSE
  /\ UNCHANGED <<port, enabled, servers, reliable, longReordering, done, req, handler, tester>>

-----------------------------------------------------------------------------
(* The tester: crash1 deletes the server and then copies its Persister;    *)
(* start1 makes an instance with a copy of the contents and adds it.       *)

copyPersister(n) ==
  /\ saved[n].instance # nil
  /\ saved' = [saved EXCEPT ![n] = [instance |-> nil, copy |-> persister[saved[n].instance]]]
  /\ UNCHANGED <<network, req, handler, added, instances, persister>>

DeleteServer(n) ==
  /\ servers[n] # nil
  /\ servers' = [servers EXCEPT ![n] = nil]
  /\ UNCHANGED <<port, enabled, reliable, longReordering, listening, done, req, handler, tester>>

\* Mutant: the Persister is copied before the server is deleted.
crash1_copiesFirst(n) ==
  \/ servers[n] # nil /\ copyPersister(n)
  \/ saved[n].instance = nil /\ DeleteServer(n)

crash1(n) ==
  \/ DeleteServer(n)
  \/ servers[n] = nil /\ copyPersister(n)

start1(n) ==
  LET k == instances + 1 IN
  /\ servers[n] = nil /\ saved[n].instance = nil /\ k <= MaxInstances
  /\ instances' = k /\ added' = added \cup {n}
  /\ persister' = [persister EXCEPT ![k] = saved[n].copy]
  /\ saved' = [saved EXCEPT ![n] = [instance |-> k, copy |-> {}]]
  /\ servers' = [servers EXCEPT ![n] = k]
  /\ UNCHANGED <<port, enabled, reliable, longReordering, listening, done, req, handler>>

-----------------------------------------------------------------------------
processReq(c) ==
  \/ readEndnameInfo(c) \/ timeout(c) \/ execute(c)
  \/ tick(c) \/ answer(c) \/ deliver(c)

Next ==
  \/ \E c \in Call, e \in End : call(c, e)
  \/ \E c \in Call : send(c) \/ processReq(c) \/ dispatch(c) \/ return(c) \/ fail(c)
  \/ \E e \in End : Enable(e)
  \/ Reliable \/ LongReordering \/ Cleanup \/ stopListening
  \/ \E n \in Server : crash1(n) \/ start1(n)

Spec == Init /\ [][Next]_vars

\* Goroutines run, timers fire, and a handler that does not hang returns.
FairSpec ==
  /\ Spec
  /\ WF_vars(stopListening)
  /\ \A c \in Call : /\ WF_vars(send(c)) /\ WF_vars(processReq(c))
                     /\ WF_vars(dispatch(c)) /\ WF_vars(return(c))

-----------------------------------------------------------------------------
(* Properties.                                                             *)

\* What the next start of n will be given, or the running one has.
contents(n) ==
  IF saved[n].instance = nil THEN saved[n].copy ELSE persister[saved[n].instance]

\* "avoid situation in which a client gets a positive reply to an Append, but
\* the server persisted the update into the old Persister": a call answered
\* positively is in the contents every later start of its server gets,
\* whatever crashes and restarts happen between its steps.
PositiveReplyIsSaved ==
  \A c \in Call :
    req[c].pc \in {"answering", "true"} => c \in contents(Connections[req[c].end])

\* "Call() is guaranteed to return (perhaps after a delay) except if the
\* handler function on the server side does not return"; and a call whose
\* handler hangs returns too once its server has been deleted, also when the
\* name is registered again before processReq looks.
CallReturns ==
  /\ \A c \in Call \ Hangs :
       req[c].pc \in {"calling", "sent"} ~> req[c].pc \in {"true", "false"}
  /\ \A c \in Hangs :
       req[c].pc = "waiting" /\ servers[Connections[req[c].end]] # req[c].server
         ~> req[c].pc = "false"

executed == UNION {persister[k] : k \in Instance}

\* Rust: what a call has saved when it returns is all it will ever save, also
\* when it returns an error because its server was found dead.
NothingSavedAfterReturn ==
  [][port = "rust" =>
       \A c \in executed' \ executed : req[c].pc \notin {"true", "false"}]_vars

\* The network keeps the promise that its callers rely on.
rpc == INSTANCE RPC WITH
  status <- [c \in Call |->
               IF req[c].pc \in {"idle", "true", "false"} THEN req[c].pc ELSE "pending"],
  executed <- executed

\* A call is executed at most once, and returns true only after it was.
CallPromise == rpc!Spec
=============================================================================
