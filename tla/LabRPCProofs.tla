---------------------------- MODULE LabRPCProofs ----------------------------
(***************************************************************************)
(* The simulated network, for any calls, ends, servers, connections and    *)
(* number of restarts: PositiveReplyIsSaved, NothingSavedAfterReturn, and  *)
(* that LabRPC implements RPC (CallPromise).                               *)
(***************************************************************************)
EXTENDS LabRPC, TLAPS

-----------------------------------------------------------------------------
(* The inductive invariant.                                                *)

TypesInv ==
  /\ reliable \in BOOLEAN /\ longReordering \in BOOLEAN
  /\ req \in [Call -> Request]
  /\ handler \in [Call -> {"none", "running", "saved", "returned", "failed", "dropped"}]
  /\ instances \in 0..MaxInstances
  /\ servers \in [Server -> Instance \cup {nil}]
  /\ persister \in [Instance -> SUBSET Call]
  /\ saved \in [Server -> [instance : Instance \cup {nil}, copy : SUBSET Call]]

\* The instance registered under a name is the one whose Persister is in use;
\* Persisters of instances to come are empty, and copies hold nothing that
\* was not saved.
InstancesInv ==
  /\ \A n \in Server : servers[n] # nil => saved[n].instance = servers[n]
  /\ \A n \in Server : saved[n].instance # nil => saved[n].instance <= instances
  /\ \A n \in Server : saved[n].copy \subseteq executed
  /\ \A k \in Instance : k > instances => persister[k] = {}

\* How far a call and its handler are together.
CallInv(c) ==
  /\ req[c].pc # "idle" => req[c].end \in End
  /\ req[c].pc \in {"executing", "waiting"} \/ handler[c] # "none" =>
       req[c].server # nil /\ req[c].server <= instances
  /\ handler[c] # "none" => req[c].pc \in {"waiting", "answering", "true", "false"}
  /\ handler[c] \in {"saved", "returned"} => c \in persister[req[c].server]
  /\ port = "rust" /\ handler[c] \in {"running", "saved"} => req[c].pc = "waiting"
  /\ req[c].pc \in {"answering", "true"} =>
       c \in contents(Connections[req[c].end]) /\ c \in executed

LabInv == TypesInv /\ InstancesInv /\ \A c \in Call : CallInv(c)

-----------------------------------------------------------------------------
(* Steps of calls.                                                         *)

Label == {"idle", "calling", "sent", "delaying", "executing", "waiting",
          "answering", "true", "false"}

\* What processReq (labrpc.go, network.rs) changes of a call when it goes on.
moved(c, pc) ==
  /\ req' \in [Call -> Request]
  /\ req'[c].pc = pc /\ req'[c].end = req[c].end /\ req'[c].server = req[c].server
  /\ \A d \in Call \ {c} : req'[d] = req[d]

\* goto and finish change the place of their call only.
LEMMA Moves ==
  ASSUME TypesInv, NEW c \in Call, NEW pc \in Label, goto(c, pc) \/ finish(c, pc)
  PROVE  moved(c, pc)
<1>1. req[c] \in Request
  BY DEF TypesInv
<1>2. CASE goto(c, pc)
  <2>1. req' = [req EXCEPT ![c] = [req[c] EXCEPT !.pc = pc]]
    BY <1>2 DEF goto, TypesInv
  <2>2. [req[c] EXCEPT !.pc = pc] \in Request
    BY <1>1 DEF Request, Label
  <2> QED
    BY <1>1, <2>1, <2>2 DEF moved, TypesInv, Request
<1>3. CASE finish(c, pc)
  <2> DEFINE r == [req[c] EXCEPT !.pc = pc, !.reliable = TRUE, !.longReordering = FALSE]
  <2>1. req' = [req EXCEPT ![c] = r]
    BY <1>3 DEF finish, TypesInv
  <2>2. r \in Request /\ r.pc = pc /\ r.end = req[c].end /\ r.server = req[c].server
    BY <1>1 DEF Request, Label
  <2> QED
    BY <1>1, <2>1, <2>2 DEF moved, TypesInv
<1> QED
  BY <1>2, <1>3

\* A step of one call that leaves the servers and Persisters alone keeps the
\* invariant if it does for its own call.
LEMMA CallStep ==
  ASSUME LabInv, NEW c \in Call, CallInv(c)',
         req' \in [Call -> Request], \A d \in Call \ {c} : req'[d] = req[d],
         handler' \in [Call -> {"none", "running", "saved", "returned", "failed", "dropped"}],
         \A d \in Call \ {c} : handler'[d] = handler[d],
         UNCHANGED <<network, instances, persister, saved>>
  PROVE  LabInv'
<1>1. TypesInv'
  BY DEF LabInv, TypesInv, network
<1>2. executed' = executed /\ \A n : contents(n)' = contents(n)
  BY DEF executed, contents
<1>3. InstancesInv'
  BY <1>2 DEF LabInv, InstancesInv, network
<1>4. ASSUME NEW d \in Call \ {c} PROVE CallInv(d)'
  <2>1. req'[d] = req[d] /\ handler'[d] = handler[d] /\ CallInv(d)
    BY DEF LabInv
  <2> QED
    BY <1>2, <2>1 DEF CallInv, network
<1> QED
  BY <1>1, <1>3, <1>4 DEF LabInv

\* The same for a call that only goes to another place.
LEMMA MoveStep ==
  ASSUME LabInv, NEW c \in Call, NEW pc \in Label \ {"idle"}, moved(c, pc),
         req[c].pc # "idle",
         UNCHANGED <<handler, network, instances, persister, saved>>,
         pc = "waiting" => req[c].pc \in {"executing", "waiting"},
         pc = "executing" => req[c].pc \in {"executing", "waiting"},
         handler[c] # "none" => pc \in {"waiting", "answering", "true", "false"},
         port = "rust" /\ handler[c] \in {"running", "saved"} => pc = "waiting",
         pc \in {"answering", "true"} =>
           c \in contents(Connections[req[c].end]) /\ c \in executed
  PROVE  LabInv'
<1>1. executed' = executed /\ \A n : contents(n)' = contents(n)
  BY DEF executed, contents
<1>2. CallInv(c)
  BY DEF LabInv
<1>3. CallInv(c)'
  BY <1>1, <1>2 DEF CallInv, moved, network
<1> QED
  BY <1>3, CallStep DEF moved, LabInv, TypesInv

\* ClientEnd.Call.
LEMMA IssueKeepsInv ==
  ASSUME LabInv, NEW c \in Call, NEW e \in End, call(c, e)
  PROVE  LabInv'
<1> DEFINE pc == IF port = "go" THEN "calling" ELSE "sent"
           r == [req[c] EXCEPT !.pc = pc, !.end = e]
<1>1. req[c] \in Request /\ req[c].pc = "idle" /\ handler[c] = "none"
  <2>1. CallInv(c)
    BY DEF LabInv
  <2> QED
    BY <2>1 DEF LabInv, TypesInv, call, CallInv
<1>2. req' = [req EXCEPT ![c] = r]
  BY DEF call, LabInv, TypesInv
<1>3. r \in Request /\ r.pc = pc /\ r.end = e
  BY <1>1 DEF Request
<1>4. /\ req' \in [Call -> Request] /\ req'[c] = r
      /\ \A d \in Call \ {c} : req'[d] = req[d]
  BY <1>2, <1>3 DEF LabInv, TypesInv
<1>5. UNCHANGED <<handler, network, instances, persister, saved>>
  BY DEF call, tester
<1>6. CallInv(c)'
  BY <1>1, <1>3, <1>4, <1>5 DEF CallInv
<1> QED
  BY <1>4, <1>5, <1>6, CallStep DEF LabInv, TypesInv

\* readEndnameInfo: the server it reads is registered, so it has been started.
LEMMA ReadKeepsInv ==
  ASSUME LabInv, NEW c \in Call, readEndnameInfo(c)
  PROVE  LabInv'
<1> DEFINE e == req[c].end
           server == servers[Connections[e]]
           pc == IF enabled[e] /\ server # nil THEN "executing" ELSE "delaying"
<1> DEFINE r == [req[c] EXCEPT !.server = server, !.reliable = reliable,
                               !.longReordering = longReordering, !.pc = pc]
<1>1. req[c] \in Request /\ req[c].pc = "sent" /\ handler[c] = "none" /\ e \in End
  <2>1. CallInv(c)
    BY DEF LabInv
  <2> QED
    BY <2>1 DEF LabInv, TypesInv, readEndnameInfo, CallInv
<1>2. Connections[e] \in Server /\ server \in Instance \cup {nil}
  BY <1>1, ConstantsAssumption DEF LabInv, TypesInv
<1>3. server # nil => server <= instances
  BY <1>2 DEF LabInv, InstancesInv
<1>4. req' = [req EXCEPT ![c] = r]
  BY DEF readEndnameInfo, LabInv, TypesInv
<1>5. r \in Request /\ r.pc = pc /\ r.end = e /\ r.server = server
  BY <1>1, <1>2 DEF Request, LabInv, TypesInv
<1>6. /\ req' \in [Call -> Request] /\ req'[c] = r
      /\ \A d \in Call \ {c} : req'[d] = req[d]
  BY <1>4, <1>5 DEF LabInv, TypesInv
<1>7. UNCHANGED <<handler, network, instances, persister, saved>>
  BY DEF readEndnameInfo, tester
<1>8. CallInv(c)'
  BY <1>1, <1>3, <1>5, <1>6, <1>7 DEF CallInv
<1> QED
  BY <1>6, <1>7, <1>8, CallStep DEF LabInv, TypesInv

\* The steps of a call that wait for nothing of its handler: the select of
\* Call, the timer of a request without a server, and that of a delayed reply.
LEMMA WaitKeepsInv ==
  ASSUME LabInv, NEW c \in Call, send(c) \/ timeout(c) \/ deliver(c)
  PROVE  LabInv'
<1>1. CallInv(c) /\ TypesInv
  BY DEF LabInv
<1>2. UNCHANGED <<handler, network, instances, persister, saved>>
  BY DEF send, timeout, deliver, tester
<1>3. CASE send(c)
  <2>1. PICK pc \in {"sent", "false"} : (goto(c, pc) \/ finish(c, pc)) /\ req[c].pc = "calling"
    BY <1>3 DEF send
  <2>2. moved(c, pc) /\ handler[c] = "none"
    BY <1>1, <2>1, Moves DEF Label, CallInv, TypesInv
  <2> QED
    BY <1>2, <2>1, <2>2, MoveStep DEF Label
<1>4. CASE timeout(c)
  <2>1. finish(c, "false") /\ req[c].pc = "delaying"
    BY <1>4 DEF timeout
  <2>2. moved(c, "false") /\ handler[c] = "none"
    BY <1>1, <2>1, Moves DEF Label, CallInv, TypesInv
  <2> QED
    BY <1>2, <2>1, <2>2, MoveStep DEF Label
<1>5. CASE deliver(c)
  <2>1. finish(c, "true") /\ req[c].pc = "answering"
    BY <1>5 DEF deliver
  <2>2. moved(c, "true")
    BY <1>1, <2>1, Moves DEF Label
  <2>3. /\ c \in contents(Connections[req[c].end]) /\ c \in executed
        /\ ~(port = "rust" /\ handler[c] \in {"running", "saved"})
    BY <1>1, <2>1 DEF CallInv
  <2> QED
    BY <1>2, <2>1, <2>2, <2>3, MoveStep DEF Label
<1> QED
  BY <1>3, <1>4, <1>5

\* The handler starts, or the request is dropped.
LEMMA ExecuteKeepsInv ==
  ASSUME LabInv, NEW c \in Call, execute(c)
  PROVE  LabInv'
<1>1. CallInv(c) /\ TypesInv /\ req[c].pc = "executing" /\ handler[c] = "none"
  BY DEF LabInv, execute, CallInv, TypesInv
<1>2. UNCHANGED <<network, instances, persister, saved>>
  BY DEF execute, tester
<1>3. CASE finish(c, "false") /\ UNCHANGED handler
  <2>1. moved(c, "false")
    BY <1>1, <1>3, Moves DEF Label
  <2> QED
    BY <1>1, <1>2, <1>3, <2>1, MoveStep DEF Label
<1>4. CASE handler' = [handler EXCEPT ![c] = "running"] /\ goto(c, "waiting")
  <2>1. moved(c, "waiting")
    BY <1>1, <1>4, Moves DEF Label
  <2>2. /\ handler' \in [Call -> {"none", "running", "saved", "returned", "failed", "dropped"}]
        /\ handler'[c] = "running"
        /\ \A d \in Call \ {c} : handler'[d] = handler[d]
    BY <1>1, <1>4 DEF TypesInv
  <2>3. CallInv(c)'
    BY <1>1, <1>2, <2>1, <2>2 DEF CallInv, moved
  <2> QED
    BY <1>2, <2>1, <2>2, <2>3, CallStep DEF moved
<1> QED
  BY <1>3, <1>4 DEF execute

\* The handler returns or fails; what it saved stays.
LEMMA HandlerKeepsInv ==
  ASSUME LabInv, NEW c \in Call, return(c) \/ fail(c)
  PROVE  LabInv'
<1>1. CallInv(c) /\ TypesInv /\ handler[c] \in {"running", "saved"}
  BY DEF LabInv, return, fail
<1>2. UNCHANGED <<req, network, instances, persister, saved>>
  BY DEF return, fail, tester
<1>3. PICK h \in {"returned", "failed"} :
        /\ handler' = [handler EXCEPT ![c] = h]
        /\ h = "returned" => handler[c] = "saved"
  BY DEF return, fail
<1>4. /\ handler' \in [Call -> {"none", "running", "saved", "returned", "failed", "dropped"}]
      /\ handler'[c] = h
      /\ \A d \in Call \ {c} : handler'[d] = handler[d]
  BY <1>1, <1>3 DEF TypesInv
<1>5. executed' = executed /\ \A n : contents(n)' = contents(n)
  BY <1>2 DEF executed, contents
<1>6. CallInv(c)'
  BY <1>1, <1>2, <1>3, <1>4, <1>5 DEF CallInv, network
<1> QED
  BY <1>2, <1>4, <1>6, CallStep DEF LabInv, TypesInv

\* processReq gives up a dead server; in Rust the handler is dropped with it.
LEMMA TickKeepsInv ==
  ASSUME LabInv, NEW c \in Call, tick(c)
  PROVE  LabInv'
<1>1. CallInv(c) /\ TypesInv /\ req[c].pc = "waiting"
  BY DEF LabInv, tick
<1>2. UNCHANGED <<network, instances, persister, saved>>
  BY DEF tick, tester
<1>3. moved(c, "false")
  BY <1>1, Moves DEF tick, Label
<1>4. /\ handler' \in [Call -> {"none", "running", "saved", "returned", "failed", "dropped"}]
      /\ \A d \in Call \ {c} : handler'[d] = handler[d]
      /\ IF port = "rust" THEN handler'[c] = "dropped" ELSE handler'[c] = handler[c]
  BY <1>1 DEF tick, TypesInv
<1>5. CallInv(c)'
  BY <1>1, <1>2, <1>3, <1>4 DEF CallInv, moved, network
<1> QED
  BY <1>2, <1>3, <1>4, <1>5, CallStep DEF moved

\* processReq takes the reply.  The server is not dead, so the instance that
\* saved the call is the one whose Persister the next start is given.
LEMMA AnswerKeepsInv ==
  ASSUME LabInv, NEW c \in Call, answer(c)
  PROVE  LabInv'
<1>1. CallInv(c) /\ TypesInv /\ req[c].pc = "waiting" /\ handler[c] \in {"returned", "failed"}
  BY DEF LabInv, answer
<1>2. UNCHANGED <<handler, network, instances, persister, saved>>
  BY DEF answer, tester
<1>3. CASE finish(c, "false")
  <2>1. moved(c, "false")
    BY <1>1, <1>3, Moves DEF Label
  <2> QED
    BY <1>1, <1>2, <2>1, MoveStep DEF Label
<1>4. ASSUME ~isServerDead(c), handler[c] = "returned",
             NEW pc \in {"answering", "true"}, finish(c, pc)
      PROVE  LabInv'
  <2>1. moved(c, pc)
    BY <1>1, <1>4, Moves DEF Label
  <2> DEFINE k == req[c].server
             n == Connections[req[c].end]
  <2>2. k \in Instance /\ k # nil /\ c \in persister[k] /\ n \in Server
    BY <1>1, <1>4, ConstantsAssumption DEF CallInv, TypesInv, Request
  <2>3. servers[n] = k
    BY <1>4 DEF isServerDead
  <2>4. saved[n].instance = k
    BY <2>2, <2>3 DEF LabInv, InstancesInv
  <2>5. c \in contents(n) /\ c \in executed
    BY <2>2, <2>4 DEF contents, executed
  <2> QED
    BY <1>1, <1>2, <1>4, <2>1, <2>5, MoveStep DEF Label
<1> QED
  BY <1>3, <1>4 DEF answer

-----------------------------------------------------------------------------
(* Steps that change Persisters.                                           *)

\* Nothing that was saved is lost: the Persister of every instance started so
\* far, what the next start of a server gets, and what was executed only grow.
grows ==
  /\ instances <= instances'
  /\ \A k \in Instance : k <= instances => persister[k] \subseteq persister'[k]
  /\ \A n \in Server : contents(n) \subseteq contents(n)'
  /\ executed \subseteq executed'

\* Calls rely on nothing else of the servers.
LEMMA GrowthKeepsCalls ==
  ASSUME LabInv, grows, instances' \in Nat, UNCHANGED <<port, req>>, NEW c \in Call,
         handler'[c] = handler[c]
  PROVE  CallInv(c)'
<1>1. CallInv(c) /\ req[c] \in Request
  BY DEF LabInv, TypesInv
<1>2. req[c].end \in End => Connections[req[c].end] \in Server
  BY ConstantsAssumption
<1>3. instances \in Nat /\ (req[c].server # nil => req[c].server \in Instance)
  BY <1>1, ConstantsAssumption DEF LabInv, TypesInv, Request
<1>4. req[c].server # nil /\ req[c].server <= instances => req[c].server <= instances'
  BY <1>3 DEF grows, Instance
<1>5. handler[c] \in {"saved", "returned"} => c \in persister'[req[c].server]
  BY <1>1, <1>3 DEF CallInv, grows
<1>6. req[c].pc \in {"answering", "true"} =>
        c \in contents(Connections[req[c].end])' /\ c \in executed'
  BY <1>1, <1>2 DEF CallInv, grows
<1> QED
  BY <1>1, <1>4, <1>5, <1>6 DEF CallInv

\* The handler has its effect (Server.dispatch).
LEMMA DispatchKeepsInv ==
  ASSUME LabInv, NEW c \in Call, dispatch(c)
  PROVE  LabInv' /\ executed' = executed \cup {c}
<1> DEFINE k == req[c].server
<1>1. /\ CallInv(c) /\ TypesInv /\ handler[c] = "running"
      /\ handler' = [handler EXCEPT ![c] = "saved"]
      /\ persister' = [persister EXCEPT ![k] = @ \cup {c}]
      /\ UNCHANGED <<network, req, instances, saved>>
  BY DEF LabInv, dispatch
<1>2. k \in Instance /\ k # nil /\ k <= instances
  BY <1>1 DEF CallInv, TypesInv, Request
<1>3. /\ persister' \in [Instance -> SUBSET Call]
      /\ persister'[k] = persister[k] \cup {c}
      /\ \A j \in Instance \ {k} : persister'[j] = persister[j]
  BY <1>1, <1>2 DEF TypesInv
<1>4. /\ handler' \in [Call -> {"none", "running", "saved", "returned", "failed", "dropped"}]
      /\ handler'[c] = "saved"
      /\ \A d \in Call \ {c} : handler'[d] = handler[d]
  BY <1>1 DEF TypesInv
<1>5. TypesInv'
  BY <1>1, <1>3, <1>4 DEF TypesInv, network
<1>6. executed' = executed \cup {c}
  BY <1>2, <1>3 DEF executed
<1>7. grows
  <2>1. \A j \in Instance : persister[j] \subseteq persister'[j]
    BY <1>3
  <2>2. ASSUME NEW n \in Server PROVE contents(n) \subseteq contents(n)'
    <3>1. saved[n].instance # nil => saved[n].instance \in Instance
      BY <1>1 DEF TypesInv
    <3> QED
      BY <1>1, <2>1, <3>1 DEF contents
  <2> QED
    BY <1>1, <1>6, <2>1, <2>2, ConstantsAssumption DEF grows, TypesInv
<1>8. InstancesInv'
  <2>1. /\ \A n \in Server : servers'[n] # nil => saved'[n].instance = servers'[n]
        /\ \A n \in Server : saved'[n].instance # nil => saved'[n].instance <= instances'
        /\ \A n \in Server : saved'[n].copy \subseteq executed'
    BY <1>1, <1>6 DEF LabInv, InstancesInv, network
  <2>2. \A j \in Instance : j > instances => j # k
    BY <1>1, <1>2, ConstantsAssumption DEF TypesInv, Instance
  <2>3. \A j \in Instance : j > instances' => persister'[j] = {}
    BY <1>1, <1>3, <2>2 DEF LabInv, InstancesInv
  <2> QED
    BY <2>1, <2>3 DEF InstancesInv
<1>9. ASSUME NEW d \in Call PROVE CallInv(d)'
  <2>1. CASE d # c
    <3>1. handler'[d] = handler[d]
      BY <1>4, <2>1
    <3>2. instances' \in Nat /\ UNCHANGED <<port, req>>
      BY <1>1, <1>5, ConstantsAssumption DEF TypesInv, network
    <3> QED
      BY <1>7, <3>1, <3>2, GrowthKeepsCalls
  <2>2. CASE d = c
    <3>1. req[c].pc \in {"answering", "true"} =>
            c \in contents(Connections[req[c].end])' /\ c \in executed'
      <4>1. req[c].pc # "idle" => Connections[req[c].end] \in Server
        BY <1>1, ConstantsAssumption DEF CallInv
      <4> QED
        BY <1>1, <1>7, <4>1 DEF CallInv, grows
    <3>2. c \in persister'[k]
      BY <1>3
    <3> QED
      BY <1>1, <1>4, <2>2, <3>1, <3>2 DEF CallInv, network
  <2> QED
    BY <2>1, <2>2
<1> QED
  BY <1>5, <1>6, <1>8, <1>9 DEF LabInv

\* Settings of the network and the loop of MakeNetwork.
LEMMA SettingsKeepInv ==
  ASSUME LabInv, reliable' \in BOOLEAN, longReordering' \in BOOLEAN,
         UNCHANGED <<port, servers, req, handler, tester>>
  PROVE  LabInv' /\ executed' = executed
<1>1. UNCHANGED <<instances, persister, saved>>
  BY DEF tester
<1>2. executed' = executed /\ \A n : contents(n)' = contents(n)
  BY <1>1 DEF executed, contents
<1>3. TypesInv'
  BY <1>1 DEF LabInv, TypesInv
<1>4. InstancesInv'
  BY <1>1, <1>2 DEF LabInv, InstancesInv
<1>5. ASSUME NEW c \in Call PROVE CallInv(c)'
  <2>1. CallInv(c)
    BY DEF LabInv
  <2> QED
    BY <1>1, <1>2, <2>1 DEF CallInv
<1> QED
  BY <1>2, <1>3, <1>4, <1>5 DEF LabInv

\* crash1 deletes the server first and copies its Persister then.
LEMMA CrashKeepsInv ==
  ASSUME LabInv, NEW n \in Server, crash1(n)
  PROVE  LabInv' /\ executed' = executed
<1>0. TypesInv
  BY DEF LabInv
<1>1. CASE DeleteServer(n)
  <2>1. /\ servers' = [servers EXCEPT ![n] = nil]
        /\ UNCHANGED <<port, reliable, longReordering, req, handler, instances, persister, saved>>
    BY <1>1 DEF DeleteServer, tester
  <2>2. executed' = executed /\ \A m : contents(m)' = contents(m)
    BY <2>1 DEF executed, contents
  <2>3. /\ servers' \in [Server -> Instance \cup {nil}] /\ servers'[n] = nil
        /\ \A m \in Server \ {n} : servers'[m] = servers[m]
    BY <1>0, <2>1 DEF TypesInv
  <2>4. TypesInv'
    BY <1>0, <2>1, <2>3 DEF TypesInv
  <2>5. InstancesInv'
    BY <2>1, <2>2, <2>3 DEF LabInv, InstancesInv
  <2>6. ASSUME NEW c \in Call PROVE CallInv(c)'
    <3>1. CallInv(c)
      BY DEF LabInv
    <3> QED
      BY <2>1, <2>2, <3>1 DEF CallInv
  <2> QED
    BY <2>2, <2>4, <2>5, <2>6 DEF LabInv
<1>2. CASE servers[n] = nil /\ copyPersister(n)
  <2> DEFINE k == saved[n].instance
  <2>1. /\ k # nil
        /\ saved' = [saved EXCEPT ![n] = [instance |-> nil, copy |-> persister[k]]]
        /\ UNCHANGED <<network, req, handler, instances, persister>>
    BY <1>2 DEF copyPersister
  <2>2. k \in Instance /\ persister[k] \in SUBSET Call
    BY <1>0, <2>1 DEF TypesInv
  <2>3. /\ saved' \in [Server -> [instance : Instance \cup {nil}, copy : SUBSET Call]]
        /\ saved'[n].instance = nil /\ saved'[n].copy = persister[k]
        /\ \A m \in Server \ {n} : saved'[m] = saved[m]
    BY <1>0, <2>1, <2>2 DEF TypesInv
  <2>4. executed' = executed /\ persister[k] \subseteq executed
    BY <2>1, <2>2 DEF executed
  <2>5. TypesInv'
    BY <1>0, <2>1, <2>3 DEF TypesInv, network
  <2>6. InstancesInv'
    <3>1. /\ servers' = servers /\ instances' = instances /\ persister' = persister
          /\ executed' = executed
      BY <2>1, <2>4 DEF network
    <3>2. \A m \in Server : servers'[m] # nil => saved'[m].instance = servers'[m]
      BY <1>2, <2>3, <3>1 DEF LabInv, InstancesInv
    <3>3. \A m \in Server : saved'[m].instance # nil => saved'[m].instance <= instances'
      BY <2>3, <3>1 DEF LabInv, InstancesInv
    <3>4. \A m \in Server : saved'[m].copy \subseteq executed'
      BY <2>3, <2>4, <3>1 DEF LabInv, InstancesInv
    <3>5. \A j \in Instance : j > instances' => persister'[j] = {}
      BY <3>1 DEF LabInv, InstancesInv
    <3> QED
      BY <3>2, <3>3, <3>4, <3>5 DEF InstancesInv
  <2>7. ASSUME NEW m \in Server PROVE contents(m)' = contents(m)
    BY <2>1, <2>3 DEF contents
  <2>8. grows /\ instances' \in Nat /\ UNCHANGED <<port, req, handler>>
    BY <1>0, <2>1, <2>4, <2>7, ConstantsAssumption DEF grows, TypesInv, network
  <2>9. \A c \in Call : CallInv(c)'
    BY <2>8, GrowthKeepsCalls
  <2> QED
    BY <2>4, <2>5, <2>6, <2>9 DEF LabInv
<1> QED
  BY <1>1, <1>2 DEF crash1

\* start1 gives a new instance what was copied.
LEMMA StartKeepsInv ==
  ASSUME LabInv, NEW n \in Server, start1(n)
  PROVE  LabInv' /\ executed' = executed
<1> DEFINE k == instances + 1
<1>0. TypesInv /\ MaxInstances \in Nat
  BY ConstantsAssumption DEF LabInv
<1>1. /\ servers[n] = nil /\ saved[n].instance = nil /\ k <= MaxInstances
      /\ instances' = k
      /\ persister' = [persister EXCEPT ![k] = saved[n].copy]
      /\ saved' = [saved EXCEPT ![n] = [instance |-> k, copy |-> {}]]
      /\ servers' = [servers EXCEPT ![n] = k]
      /\ UNCHANGED <<port, reliable, longReordering, req, handler>>
  BY DEF start1
<1>2. instances \in Nat /\ k \in Nat /\ k \in Instance /\ k # nil /\ k > instances
  BY <1>0, <1>1, ConstantsAssumption DEF TypesInv, Instance
<1>3. /\ persister' \in [Instance -> SUBSET Call]
      /\ persister'[k] = saved[n].copy
      /\ \A j \in Instance \ {k} : persister'[j] = persister[j]
      /\ persister[k] = {}
  BY <1>0, <1>1, <1>2 DEF TypesInv, LabInv, InstancesInv
<1>4. /\ saved' \in [Server -> [instance : Instance \cup {nil}, copy : SUBSET Call]]
      /\ saved'[n].instance = k /\ saved'[n].copy = {}
      /\ \A m \in Server \ {n} : saved'[m] = saved[m]
  BY <1>0, <1>1, <1>2 DEF TypesInv
<1>5. /\ servers' \in [Server -> Instance \cup {nil}] /\ servers'[n] = k
      /\ \A m \in Server \ {n} : servers'[m] = servers[m]
  BY <1>0, <1>1, <1>2 DEF TypesInv
<1>6. TypesInv'
  BY <1>0, <1>1, <1>2, <1>3, <1>4, <1>5 DEF TypesInv
<1>7. executed' = executed
  <2>1. saved[n].copy \subseteq executed
    BY DEF LabInv, InstancesInv
  <2>2. executed' \subseteq executed
    BY <1>2, <1>3, <2>1 DEF executed
  <2>3. executed \subseteq executed'
    BY <1>2, <1>3 DEF executed
  <2> QED
    BY <2>2, <2>3
<1>8. InstancesInv'
  <2>1. \A m \in Server : servers'[m] # nil => saved'[m].instance = servers'[m]
    BY <1>4, <1>5 DEF LabInv, InstancesInv
  <2>2. \A m \in Server : saved'[m].instance # nil => saved'[m].instance <= instances'
    <3>1. SUFFICES ASSUME NEW m \in Server, saved'[m].instance # nil
                   PROVE  saved'[m].instance <= k
      BY <1>1
    <3>2. CASE m = n
      BY <1>2, <1>4, <3>2
    <3>3. CASE m # n
      <4>1. saved'[m] = saved[m] /\ saved[m].instance \in Instance /\ saved[m].instance <= instances
        BY <1>0, <1>4, <3>1, <3>3 DEF TypesInv, LabInv, InstancesInv
      <4> QED
        BY <1>2, <4>1 DEF Instance
    <3> QED
      BY <3>2, <3>3
  <2>3. \A m \in Server : saved'[m].copy \subseteq executed'
    BY <1>4, <1>7 DEF LabInv, InstancesInv
  <2>4. ASSUME NEW j \in Instance, j > instances' PROVE persister'[j] = {}
    <3>1. j # k /\ j > instances
      BY <1>1, <1>2, <2>4 DEF Instance
    <3> QED
      BY <1>3, <3>1 DEF LabInv, InstancesInv
  <2> QED
    BY <2>1, <2>2, <2>3, <2>4 DEF InstancesInv
<1>9. grows
  <2>1. instances <= instances'
    BY <1>1, <1>2
  <2>2. ASSUME NEW j \in Instance PROVE persister[j] \subseteq persister'[j]
    BY <1>2, <1>3
  <2>3. ASSUME NEW m \in Server PROVE contents(m) \subseteq contents(m)'
    <3>1. CASE m = n
      BY <1>1, <1>2, <1>3, <1>4, <3>1 DEF contents
    <3>2. CASE m # n
      <4>1. saved'[m] = saved[m] /\ (saved[m].instance # nil => saved[m].instance \in Instance)
        BY <1>0, <1>4, <3>2 DEF TypesInv
      <4> QED
        BY <2>2, <4>1 DEF contents
    <3> QED
      BY <3>1, <3>2
  <2> QED
    BY <1>7, <2>1, <2>2, <2>3 DEF grows
<1>10. \A c \in Call : CallInv(c)'
  BY <1>1, <1>2, <1>9, GrowthKeepsCalls
<1> QED
  BY <1>6, <1>7, <1>8, <1>10 DEF LabInv

-----------------------------------------------------------------------------
(* The invariant.                                                          *)

\* Every step of the network, the handlers and the tester keeps it.
LEMMA LabStep ==
  ASSUME LabInv, [Next]_vars
  PROVE  LabInv'
<1>1. ASSUME NEW c \in Call, NEW e \in End, call(c, e) PROVE LabInv'
  BY <1>1, IssueKeepsInv
<1>2. ASSUME NEW c \in Call, send(c) \/ processReq(c) PROVE LabInv'
  BY <1>2, WaitKeepsInv, ReadKeepsInv, ExecuteKeepsInv, TickKeepsInv, AnswerKeepsInv
     DEF processReq
<1>3. ASSUME NEW c \in Call, dispatch(c) \/ return(c) \/ fail(c) PROVE LabInv'
  BY <1>3, DispatchKeepsInv, HandlerKeepsInv
<1>4. CASE (\E e \in End : Enable(e)) \/ Reliable \/ LongReordering \/ Cleanup \/ stopListening
  <2>1. /\ reliable' \in BOOLEAN /\ longReordering' \in BOOLEAN
        /\ UNCHANGED <<port, servers, req, handler, tester>>
    BY <1>4 DEF Enable, Reliable, LongReordering, Cleanup, stopListening, LabInv, TypesInv
  <2> QED
    BY <2>1, SettingsKeepInv
<1>5. ASSUME NEW n \in Server, crash1(n) \/ start1(n) PROVE LabInv'
  BY <1>5, CrashKeepsInv, StartKeepsInv
<1>6. CASE UNCHANGED vars
  <2>1. /\ reliable' \in BOOLEAN /\ longReordering' \in BOOLEAN
        /\ UNCHANGED <<port, servers, req, handler, tester>>
    BY <1>6 DEF vars, network, LabInv, TypesInv
  <2> QED
    BY <2>1, SettingsKeepInv
<1> QED
  BY <1>1, <1>2, <1>3, <1>4, <1>5, <1>6 DEF Next

\* MakeNetwork and the tester's config before the first start establish it.
LEMMA LabStart ==
  ASSUME Init
  PROVE  LabInv
<1>1. TypesInv
  <2>1. idle \in Request
    BY DEF idle, Request
  <2>2. 0 \in 0..MaxInstances
    BY ConstantsAssumption
  <2> QED
    BY <2>1, <2>2 DEF Init, TypesInv
<1>2. InstancesInv
  BY DEF Init, InstancesInv
<1>3. \A c \in Call : CallInv(c)
  BY DEF Init, CallInv, idle
<1> QED
  BY <1>1, <1>2, <1>3 DEF LabInv

\* LabInv holds of the network (labrpc.go, crates/labrpc) at every moment.
LEMMA LabAlways == Spec => []LabInv
  BY LabStart, LabStep, PTL DEF Spec

\* A call answered positively is in what every later start of its server gets
\* (crash1 and start1 of config.go with processReq of labrpc.go).
THEOREM PositiveReplySaved == Spec => []PositiveReplyIsSaved
<1>1. LabInv => PositiveReplyIsSaved
  BY DEF LabInv, CallInv, PositiveReplyIsSaved
<1> QED
  BY <1>1, LabAlways, PTL

-----------------------------------------------------------------------------
(* The effects of calls, and RPC.                                          *)

\* A step saves the effect of at most one call, whose handler is running.
LEMMA Effects ==
  ASSUME LabInv, [Next]_vars
  PROVE  \/ executed' = executed
         \/ \E c \in Call : dispatch(c) /\ executed' = executed \cup {c}
<1>1. ASSUME UNCHANGED persister PROVE executed' = executed
  BY <1>1 DEF executed
<1>2. CASE \E c \in Call, e \in End : call(c, e)
  BY <1>1, <1>2 DEF call, tester
<1>3. CASE \E c \in Call : send(c) \/ processReq(c) \/ return(c) \/ fail(c)
  BY <1>1, <1>3 DEF send, processReq, readEndnameInfo, timeout, execute, tick, answer, deliver,
                    return, fail, tester
<1>4. CASE \E c \in Call : dispatch(c)
  BY <1>4, DispatchKeepsInv
<1>5. CASE (\E e \in End : Enable(e)) \/ Reliable \/ LongReordering \/ Cleanup \/ stopListening
  BY <1>1, <1>5 DEF Enable, Reliable, LongReordering, Cleanup, stopListening, tester
<1>6. CASE \E n \in Server : crash1(n) \/ start1(n)
  BY <1>6, CrashKeepsInv, StartKeepsInv
<1>7. CASE UNCHANGED vars
  BY <1>1, <1>7 DEF vars, tester
<1> QED
  BY <1>2, <1>3, <1>4, <1>5, <1>6, <1>7 DEF Next

\* Rust's process_rpc drops the handler before it answers that the server is
\* dead, so a call that has returned saves nothing any more.
THEOREM NoEffectAfterReturn == Spec => NothingSavedAfterReturn
<1>1. ASSUME LabInv, [Next]_vars
      PROVE  [port = "rust" =>
                \A c \in executed' \ executed : req[c].pc \notin {"true", "false"}]_vars
  <2>1. ASSUME port = "rust", NEW c \in executed' \ executed
        PROVE  req[c].pc \notin {"true", "false"}
    <3>1. c \in Call /\ dispatch(c)
      BY <1>1, <2>1, Effects
    <3>2. req[c].pc = "waiting"
      BY <1>1, <2>1, <3>1 DEF LabInv, CallInv, dispatch
    <3> QED
      BY <3>2
  <2> QED
    BY <2>1
<1> QED
  BY <1>1, LabAlways, PTL DEF Spec, NothingSavedAfterReturn

\* The calls as RPC sees them.
status == [c \in Call |->
             IF req[c].pc \in {"idle", "true", "false"} THEN req[c].pc ELSE "pending"]

\* The status of a call that goes on.
LEMMA StatusOfMove ==
  ASSUME NEW c \in Call, NEW pc, moved(c, pc)
  PROVE  status' = [status EXCEPT ![c] =
                      IF pc \in {"idle", "true", "false"} THEN pc ELSE "pending"]
<1>1. \A d \in Call : d # c => status'[d] = status[d]
  BY DEF status, moved
<1>2. status'[c] = IF pc \in {"idle", "true", "false"} THEN pc ELSE "pending"
  BY DEF status, moved
<1> QED
  BY <1>1, <1>2 DEF status

\* ClientEnd.Call issues a call of RPC.
LEMMA IssueRefines ==
  ASSUME LabInv, NEW c \in Call, NEW e \in End, call(c, e)
  PROVE  rpc!Issue(c)
<1> DEFINE pc == IF port = "go" THEN "calling" ELSE "sent"
<1>1. /\ req[c].pc = "idle"
      /\ req' = [req EXCEPT ![c].pc = pc, ![c].end = e]
      /\ UNCHANGED persister
  BY DEF call, tester
<1>2. req'[c].pc = pc /\ \A d \in Call \ {c} : req'[d] = req[d]
  BY <1>1 DEF LabInv, TypesInv, Request
<1>3. status' = [status EXCEPT ![c] = "pending"]
  <2>1. \A d \in Call : d # c => status'[d] = status[d]
    BY <1>2 DEF status
  <2>2. status'[c] = "pending"
    BY <1>2 DEF status
  <2> QED
    BY <2>1, <2>2 DEF status
<1>4. status[c] = "idle" /\ executed' = executed
  BY <1>1 DEF status, executed
<1> QED
  BY <1>3, <1>4 DEF rpc!Issue, status

\* The steps in which a call returns, or comes closer to it.
LEMMA ReturnRefines ==
  ASSUME NEW c \in Call, NEW pc \in Label \ {"idle"}, moved(c, pc), UNCHANGED persister,
         req[c].pc \notin {"idle", "true", "false"},
         pc = "true" => c \in executed
  PROVE  rpc!ReturnTrue(c) \/ rpc!ReturnFalse(c) \/ UNCHANGED rpc!vars
<1>1. executed' = executed /\ status[c] = "pending"
  BY DEF executed, status
<1>2. status' = [status EXCEPT ![c] =
                   IF pc \in {"idle", "true", "false"} THEN pc ELSE "pending"]
  BY StatusOfMove
<1>3. CASE pc = "true"
  BY <1>1, <1>2, <1>3 DEF rpc!ReturnTrue, status
<1>4. CASE pc = "false"
  BY <1>1, <1>2, <1>4 DEF rpc!ReturnFalse, status
<1>5. CASE pc \notin {"true", "false"}
  <2>1. status' = status
    BY <1>1, <1>2, <1>5 DEF status
  <2> QED
    BY <1>1, <2>1 DEF rpc!vars, status
<1> QED
  BY <1>3, <1>4, <1>5

\* Every step of the network is a step of RPC or changes nothing of it.
LEMMA StepRefines ==
  ASSUME LabInv, [Next]_vars
  PROVE  [rpc!Next]_(rpc!vars)
<1>0. TypesInv
  BY DEF LabInv
<1>1. ASSUME UNCHANGED req, executed' = executed PROVE UNCHANGED rpc!vars
  BY <1>1 DEF rpc!vars
<1>2. ASSUME NEW c \in Call, NEW e \in End, call(c, e) PROVE rpc!Next
  BY <1>2, IssueRefines DEF rpc!Next
<1>3. ASSUME NEW c \in Call, send(c) \/ timeout(c) \/ execute(c) \/ tick(c) \/ answer(c) \/ deliver(c)
      PROVE  [rpc!Next]_(rpc!vars)
  <2>1. UNCHANGED persister /\ req[c].pc \notin {"idle", "true", "false"}
    BY <1>3 DEF send, timeout, execute, tick, answer, deliver, tester
  <2>2. PICK pc \in {"sent", "waiting", "answering", "true", "false"} :
          /\ goto(c, pc) \/ finish(c, pc)
          /\ pc = "true" => (answer(c) /\ handler[c] = "returned") \/ deliver(c)
    BY <1>3 DEF send, timeout, execute, tick, answer, deliver
  <2>3. moved(c, pc)
    BY <1>0, <2>2, Moves DEF Label
  <2>4. pc = "true" => c \in executed
    <3>1. CallInv(c)
      BY DEF LabInv
    <3>2. CASE answer(c) /\ handler[c] = "returned"
      <4>1. req[c].server \in Instance /\ c \in persister[req[c].server]
        BY <1>0, <3>1, <3>2 DEF CallInv, TypesInv, Request
      <4> QED
        BY <4>1 DEF executed
    <3>3. CASE deliver(c)
      BY <3>1, <3>3 DEF CallInv, deliver
    <3> QED
      BY <2>2, <3>2, <3>3
  <2>5. rpc!ReturnTrue(c) \/ rpc!ReturnFalse(c) \/ UNCHANGED rpc!vars
    BY <2>1, <2>2, <2>3, <2>4, ReturnRefines DEF Label
  <2> QED
    BY <2>5 DEF rpc!Next
<1>4. ASSUME NEW c \in Call, readEndnameInfo(c) PROVE UNCHANGED rpc!vars
  <2> DEFINE e == req[c].end
             server == servers[Connections[e]]
             pc == IF enabled[e] /\ server # nil THEN "executing" ELSE "delaying"
             r == [req[c] EXCEPT !.server = server, !.reliable = reliable,
                                 !.longReordering = longReordering, !.pc = pc]
  <2>1. req' = [req EXCEPT ![c] = r] /\ req[c].pc = "sent" /\ UNCHANGED persister
    BY <1>0, <1>4 DEF readEndnameInfo, TypesInv, tester
  <2>2. r.pc = pc
    BY <1>0 DEF TypesInv, Request
  <2>3. req'[c].pc = pc /\ \A d \in Call \ {c} : req'[d] = req[d]
    BY <1>0, <2>1, <2>2 DEF TypesInv
  <2>4. status' = status /\ executed' = executed
    BY <2>1, <2>3 DEF status, executed
  <2> QED
    BY <2>4 DEF rpc!vars, status
<1>5. ASSUME NEW c \in Call, dispatch(c) PROVE [rpc!Next]_(rpc!vars)
  <2>1. executed' = executed \cup {c} /\ UNCHANGED req
    BY <1>5, DispatchKeepsInv DEF dispatch
  <2>2. CASE c \in executed
    BY <1>1, <2>1, <2>2
  <2>3. CASE c \notin executed
    <3>1. CallInv(c) /\ handler[c] = "running"
      BY <1>5 DEF LabInv, dispatch
    <3>2. status[c] \in {"pending", "false"}
      BY <2>3, <3>1 DEF CallInv, status
    <3>3. rpc!Execute(c)
      BY <2>1, <2>3, <3>2 DEF rpc!Execute, status
    <3> QED
      BY <3>3 DEF rpc!Next
  <2> QED
    BY <2>2, <2>3
<1>6. CASE (\E c \in Call : return(c) \/ fail(c))
           \/ (\E e \in End : Enable(e)) \/ Reliable \/ LongReordering \/ Cleanup \/ stopListening
  <2>1. UNCHANGED <<req, persister>>
    BY <1>6 DEF return, fail, Enable, Reliable, LongReordering, Cleanup, stopListening, tester
  <2> QED
    BY <1>1, <2>1 DEF executed
<1>7. ASSUME NEW n \in Server, crash1(n) \/ start1(n) PROVE UNCHANGED rpc!vars
  <2>1. UNCHANGED req
    BY <1>7 DEF crash1, DeleteServer, copyPersister, start1
  <2> QED
    BY <1>1, <1>7, <2>1, CrashKeepsInv, StartKeepsInv
<1>8. CASE UNCHANGED vars
  BY <1>1, <1>8 DEF vars, tester, executed
<1> QED
  BY <1>2, <1>3, <1>4, <1>5, <1>6, <1>7, <1>8 DEF Next, processReq

\* The network keeps the promise of RPC: no call is executed twice, and one
\* returns true only after it was executed.
THEOREM NetworkKeepsPromise == Spec => CallPromise
<1>1. Init => rpc!Init
  <2>1. ASSUME Init PROVE status = [c \in Call |-> "idle"] /\ executed = {}
    BY <2>1 DEF Init, idle, status, executed
  <2> QED
    BY <2>1 DEF rpc!Init, status
<1>2. LabInv /\ [Next]_vars => [rpc!Next]_(rpc!vars)
  BY StepRefines
<1> QED
  BY <1>1, <1>2, LabAlways, PTL DEF Spec, CallPromise, rpc!Spec
=============================================================================
