------------------------------- MODULE KVRaft -------------------------------
(***************************************************************************)
(* The key-value service of kvraft: clerks that call the servers in turn   *)
(* (client.go), and servers that hand each operation to Raft and apply     *)
(* what Raft delivers (server.go).                                         *)
(*                                                                         *)
(* Raft is taken at what it does for one server, without assuming that     *)
(* servers agree: Start appends an operation at an index the server has    *)
(* not applied yet, and the server is delivered, index by index, an        *)
(* operation that some Start put at that index.  The network is labrpc's:  *)
(* a call is executed at most once, and fails when its request or its      *)
(* reply is lost or when its server dies.                                  *)
(***************************************************************************)
EXTENDS Naturals, Sequences, FiniteSets, Functions, SequencesExt

CONSTANTS Clerk,       \* clerks; a clerk is its ClientId
          NServers,    \* len(ck.servers)
          Value,       \* values written
          Script,      \* [Clerk -> sequence of requests it makes]
          MaxIndex,    \* bound on the Raft log
          MaxCrashes   \* bound on the crashes of servers

Server == 0..NServers - 1

NoValue == ""

(* One key is enough: nothing in the code relates two keys. *)
Request == [op : {"Get", "Put", "Append"}, value : Value \cup {NoValue}]

Op == [Type : {"Get", "Put"}, Value : Value \cup {NoValue},
       ClientId : Clerk, RequestId : {1}]

VARIABLES
  clerk,        \* [Clerk -> the clerk and the locals of the call it is in]
  handler,      \* [Clerk -> the server's handler of the clerk's latest call]
  result,       \* [Server -> kv.result: a channel, a sequence, for some indices]
  loop,         \* [Server -> what backgroundApply, holding kv.mu, is sending: <<>> or one]
  store,        \* [Server -> kv.store at the key]
  lastApplied,  \* [Server -> kv.lastApplied]
  applications, \* [Server -> history: the ids applyMessage ran for, in order]
  log, sent,    \* [Server -> history: the operations delivered, and what became of each]
  delivered,    \* [Server -> number of messages Raft has delivered]
  started,      \* the pairs of an index and an operation that Start made
  crashes

kvVars == <<store, lastApplied, applications, log, sent, delivered>>
serverVars == <<result, loop, kvVars>>
vars == <<clerk, handler, serverVars, started, crashes>>

-----------------------------------------------------------------------------
(* Initial states *)

MakeClerk(c) ==
  [todo |-> Script[c], LeaderId |-> 0, RequestId |-> 0,
   calling |-> FALSE, server |-> 0, Err |-> "",
   answers |-> <<>>]        \* history: the requests that returned, with their values

NoHandler == [pc |-> "none", index |-> 0]

Init ==
  /\ clerk = [c \in Clerk |-> MakeClerk(c)]
  /\ handler = [c \in Clerk |-> NoHandler]
  /\ result = [s \in Server |-> <<>>]
  /\ loop = [s \in Server |-> <<>>]
  /\ store = [s \in Server |-> NoValue]
  /\ lastApplied = [s \in Server |-> <<>>]
  /\ applications = [s \in Server |-> <<>>]
  /\ log = [s \in Server |-> <<>>] /\ sent = [s \in Server |-> <<>>]
  /\ delivered = [s \in Server |-> 0]
  /\ started = {}
  /\ crashes = 0

-----------------------------------------------------------------------------
(* Servers *)

(* The operation a handler builds; PutAppend writes "Put" for both kinds. *)
operation(c) ==
  LET r == Head(clerk[c].todo)
  IN  [Type |-> IF r.op = "Get" THEN "Get" ELSE "Put",
       Value |-> r.value,
       ClientId |-> c, RequestId |-> clerk[c].RequestId + 1]

(* sendMessage up to Start.  A server that does not lead replies at once. *)
callStart(c) ==
  LET s == clerk[c].server
  IN  /\ handler[c].pc = "sent"
      /\ \/ /\ handler' = [handler EXCEPT ![c].pc = "replied"]
            /\ UNCHANGED started
         \/ \E i \in delivered[s] + 1..MaxIndex :
              /\ handler' = [handler EXCEPT ![c] = [pc |-> "started", index |-> i]]
              /\ started' = started \cup {<<i, operation(c)>>}
      /\ UNCHANGED <<clerk, serverVars, crashes>>

(* An assignment to the entry k of a map. *)
assigned(f, k, v) == [j \in DOMAIN f \cup {k} |-> IF j = k THEN v ELSE f[j]]

(* Mutant: the channel is made whether or not there is one. *)
withChannel_anew(r, i) == assigned(r, i, <<>>)

(* A channel of kv.result; making one that exists already would lose what it holds. *)
withChannel(r, i) == IF i \in DOMAIN r THEN r ELSE assigned(r, i, <<>>)

(* sendMessage under kv.mu, which backgroundApply holds until it has sent. *)
(* Its res is the nil channel on both paths (the missing val, or the       *)
(* unassigned variable), so the select that follows can only take its      *)
(* timeout.                                                                *)
await(c) ==
  LET s == clerk[c].server
  IN  /\ handler[c].pc = "started" /\ loop[s] = <<>>
      /\ result' = [result EXCEPT ![s] = withChannel(@, handler[c].index)]
      /\ handler' = [handler EXCEPT ![c].pc = "waiting"]
      /\ UNCHANGED <<clerk, loop, kvVars, started, crashes>>

(* The 600 ms of sendMessage are over: it returns false. *)
timeout(c) ==
  /\ handler[c].pc = "waiting"
  /\ handler' = [handler EXCEPT ![c] = [pc |-> "replied", index |-> 0]]
  /\ UNCHANGED <<clerk, serverVars, started, crashes>>

(* What a handler replies to a sendMessage that returned false. *)
replyErr(r) == IF r.op = "Get" THEN "ErrNoKey" ELSE "ErrWrongLeader"

applyMessage(op, v) ==
  CASE op.Type = "Set" -> op.Value
    [] op.Type = "Append" -> <<v, op.Value>>
    [] OTHER -> v

(* Mutant: a request with the number of the last one is new. *)
isNew_orSame(s, op) ==
  \/ op.ClientId \notin DOMAIN lastApplied[s]
  \/ op.RequestId >= lastApplied[s][op.ClientId]

isNew(s, op) ==
  \/ op.ClientId \notin DOMAIN lastApplied[s]
  \/ op.RequestId > lastApplied[s][op.ClientId]

(* What backgroundApply sends: a Get with the value of its key. *)
command(op, v) == IF op.Type = "Get" THEN [op EXCEPT !.Value = v] ELSE op

(* A round of backgroundApply takes kv.mu, applies the operation and finds *)
(* or makes the channel of its index ...                                   *)
backgroundApply(s) ==
  LET i == delivered[s] + 1 IN
  /\ loop[s] = <<>>
  /\ \E op \in {e[2] : e \in {e \in started : e[1] = i}} :
       LET write == op.Type # "Get" /\ isNew(s, op)
       IN  /\ store' = [store EXCEPT ![s] = IF write THEN applyMessage(op, @) ELSE @]
           /\ lastApplied' = [lastApplied EXCEPT ![s] =
                IF write THEN assigned(@, op.ClientId, op.RequestId) ELSE @]
           /\ applications' = [applications EXCEPT ![s] =
                IF write THEN Append(@, <<op.ClientId, op.RequestId>>) ELSE @]
           /\ log' = [log EXCEPT ![s] = Append(@, op)]
           /\ sent' = [sent EXCEPT ![s] = Append(@, command(op, store[s]))]
           /\ loop' = [loop EXCEPT ![s] = <<command(op, store[s])>>]
  /\ result' = [result EXCEPT ![s] = withChannel(@, i)]
  /\ delivered' = [delivered EXCEPT ![s] = i]
  /\ UNCHANGED <<clerk, handler, started, crashes>>

(* Mutant: make(chan Op), and nobody receives. *)
hasRoom_unbuffered(channel) == FALSE

(* The channels are made with a buffer of one. *)
hasRoom(channel) == channel = <<>>

(* ... and sends, still under kv.mu: it stops here if the channel is full. *)
send(s) ==
  /\ loop[s] # <<>> /\ hasRoom(result[s][delivered[s]])
  /\ result' = [result EXCEPT ![s] = assigned(@, delivered[s], loop[s])]
  /\ loop' = [loop EXCEPT ![s] = <<>>]
  /\ UNCHANGED <<clerk, handler, kvVars, started, crashes>>

-----------------------------------------------------------------------------
(* Clerks *)

(* Get or PutAppend begins with a call of the server the clerk remembers. *)
begin(c) ==
  /\ ~clerk[c].calling /\ clerk[c].todo # <<>>
  /\ clerk' = [clerk EXCEPT ![c] =
       [@ EXCEPT !.calling = TRUE, !.server = clerk[c].LeaderId, !.Err = ""]]
  /\ handler' = [handler EXCEPT ![c] = [pc |-> "sent", index |-> 0]]
  /\ UNCHANGED <<serverVars, started, crashes>>

(* The conditions of the two break statements.  Get looks at its reply,    *)
(* which keeps what an earlier call left in it; PutAppend looks at reply,  *)
(* which no call writes, in place of putReply.                             *)
leavesLoop(r, ok, err) ==
  IF r.op = "Get" THEN ~ok /\ err # "ErrWrongLeader" ELSE ok

nextServer(s) == (s + 1) % NServers

(* The call of clerk c returned ok, with err in the reply.  No server      *)
(* replies OK, so a Get that returns has left its value empty.             *)
returned(c, ok, err) ==
  LET k == clerk[c]
      r == Head(k.todo)
  IN  IF leavesLoop(r, ok, err)
      THEN [k EXCEPT !.calling = FALSE, !.LeaderId = k.server,
                     !.todo = Tail(k.todo), !.Err = "",
                     !.answers = Append(@, [op |-> r.op,
                       value |-> IF r.op = "Get" THEN NoValue ELSE r.value])]
      ELSE [k EXCEPT !.server = nextServer(@), !.Err = IF r.op = "Get" THEN err ELSE @]

afterReturn(c, k) ==
  IF k.calling THEN [pc |-> "sent", index |-> 0] ELSE NoHandler

callReturns(c, ok, err) ==
  LET k == returned(c, ok, err)
  IN  /\ clerk' = [clerk EXCEPT ![c] = k]
      /\ handler' = [handler EXCEPT ![c] = afterReturn(c, k)]

(* The reply reached the clerk. *)
answer(c) ==
  /\ handler[c].pc = "replied"
  /\ callReturns(c, TRUE, replyErr(Head(clerk[c].todo)))
  /\ UNCHANGED <<serverVars, started, crashes>>

(* The network lost the request or the reply. *)
lose(c) ==
  /\ handler[c].pc \in {"sent", "replied"}
  /\ callReturns(c, FALSE, clerk[c].Err)
  /\ UNCHANGED <<serverVars, started, crashes>>

(* A server with the channels r and the table last that has applied nothing. *)
instance(s, r, last) ==
  /\ result' = [result EXCEPT ![s] = r]
  /\ loop' = [loop EXCEPT ![s] = <<>>]
  /\ store' = [store EXCEPT ![s] = NoValue]
  /\ lastApplied' = [lastApplied EXCEPT ![s] = last]
  /\ applications' = [applications EXCEPT ![s] = <<>>]
  /\ log' = [log EXCEPT ![s] = <<>>] /\ sent' = [sent EXCEPT ![s] = <<>>]
  /\ delivered' = [delivered EXCEPT ![s] = 0]

(* Mutants: the channels, or the table, of the old instance are kept. *)
newInstance_keepsChannels(s) == instance(s, result[s], <<>>)
newInstance_keepsTable(s) == instance(s, <<>>, lastApplied[s])

(* The fields StartKVServer makes. *)
newInstance(s) == instance(s, <<>>, <<>>)

(* Kill, and StartKVServer with what Raft persisted: the new instance has  *)
(* applied nothing.  The calls the old one was executing fail.             *)
StartKVServer(s) ==
  /\ crashes < MaxCrashes
  /\ crashes' = crashes + 1
  /\ newInstance(s)
  /\ LET cut == {c \in Clerk : handler[c].pc \in {"started", "waiting", "replied"}
                                  /\ clerk[c].server = s}
     IN  /\ clerk' = [c \in Clerk |->
              IF c \in cut THEN returned(c, FALSE, clerk[c].Err) ELSE clerk[c]]
         /\ handler' = [c \in Clerk |->
              IF c \in cut THEN afterReturn(c, returned(c, FALSE, clerk[c].Err))
              ELSE handler[c]]
  /\ UNCHANGED started

Next ==
  \/ \E c \in Clerk : begin(c) \/ callStart(c) \/ await(c) \/ timeout(c) \/ answer(c) \/ lose(c)
  \/ \E s \in Server : backgroundApply(s) \/ send(s) \/ StartKVServer(s)

Spec == Init /\ [][Next]_vars

(* Goroutines that can go on do, and the 600 ms pass.  Raft may deliver    *)
(* nothing and the network may lose everything.                            *)
FairSpec ==
  /\ Spec
  /\ \A c \in Clerk : WF_vars(await(c)) /\ WF_vars(timeout(c))
  /\ \A s \in Server : WF_vars(send(s))

-----------------------------------------------------------------------------
(* Properties *)

(* backgroundApply never stops at its send while it holds kv.mu            *)
(* (server.go:127): when it gets there the channel of the index is empty,  *)
(* whatever handlers and restarts came before.                             *)
ApplyNeverBlocks ==
  \A s \in Server : loop[s] # <<>> => result[s][delivered[s]] = <<>>

(* The handler that waits at index i of server s stops waiting. *)
stopsWaiting(s, i) ==
  \E c \in Clerk : /\ clerk[c].server = s /\ handler[c] = [pc |-> "waiting", index |-> i]
                   /\ handler'[c] # handler[c]

(* What the apply loop put in a channel stays there until a handler that   *)
(* waits at the index is done or the server is started again: whichever of *)
(* backgroundApply and sendMessage comes second to an index finds the      *)
(* other's channel and neither replaces it (server.go:120-125, 176-179).   *)
(* As sendMessage is written no handler takes it either: it receives from  *)
(* the nil channel res (175-184) and not from the one in kv.result.        *)
ChannelKeepsOperation ==
  [][\A s \in Server : \A i \in DOMAIN result[s] :
       result[s][i] # <<>> /\ crashes' = crashes /\ ~stopsWaiting(s, i)
         => i \in DOMAIN result'[s] /\ result'[s][i] = result[s][i]]_vars

(* A server instance runs applyMessage at most once for a request, however *)
(* often the clerk's retries put the request in the log (server.go:113-118).*)
AppliedOnce == \A s \in Server : IsInjective(applications[s])

(* Two server instances that were delivered the same operations hold the   *)
(* same store and the same lastApplied and have made the same commands for *)
(* their handlers (server.go:107-127), however far apart in time, before   *)
(* or after restarts, and whatever was redelivered or retried in between.  *)
ReplicasAgree ==
  \A s, t \in Server :
    log[s] = log[t] => /\ store[s] = store[t] /\ lastApplied[s] = lastApplied[t]
                       /\ sent[s] = sent[t]

(* sendMessage returns (server.go:165-191): a handler whose operation Raft *)
(* took gets kv.mu from the apply loop, which sends while it holds it, and *)
(* leaves its select.                                                      *)
HandlersReturn ==
  \A c \in Clerk :
    handler[c].pc = "started" ~> handler[c].pc \notin {"started", "waiting"}

(* client.go:40-41: a Get fetches the current value of the key, and "" if  *)
(* the key does not exist.  So a clerk whose Put returned before does not  *)
(* get "".                                                                 *)
GetFetchesPut ==
  \A c \in Clerk : \A i, j \in DOMAIN clerk[c].answers :
    /\ i < j /\ clerk[c].answers[i].op = "Put" /\ clerk[c].answers[j].op = "Get"
    => clerk[c].answers[j].value # NoValue
=============================================================================
