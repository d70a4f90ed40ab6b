---------------------------- MODULE KVRaftProofs ----------------------------
(***************************************************************************)
(* The apply loops of KVRaft: ApplyNeverBlocks, ChannelKeepsOperation,     *)
(* AppliedOnce and ReplicasAgree hold for every number of clerks and       *)
(* servers, every script of requests and every bound on indices and        *)
(* crashes.                                                                *)
(***************************************************************************)
EXTENDS KVRaft, TLAPS

-----------------------------------------------------------------------------
(* The channels.  That the channel the loop sends on is empty is not       *)
(* inductive: a handler may have made channels of later indices before.    *)

ChannelInv ==
  /\ result = [s \in Server |-> result[s]] /\ loop = [s \in Server |-> loop[s]]
  /\ DOMAIN delivered = Server /\ crashes \in Nat
  /\ \A s \in Server : delivered[s] \in Nat
  /\ \A s \in Server : \A i \in DOMAIN result[s] :
       i \notin 1..delivered[s] => result[s][i] = <<>>
  /\ \A s \in Server : loop[s] # <<>> =>
       /\ delivered[s] # 0 /\ delivered[s] \in DOMAIN result[s]
       /\ result[s][delivered[s]] = <<>>

\* What ChannelKeepsOperation says of a step.
Keeps ==
  \A s \in Server : \A i \in DOMAIN result[s] :
    result[s][i] # <<>> /\ crashes' = crashes
      => i \in DOMAIN result'[s] /\ result'[s][i] = result[s][i]

\* Making a channel (server.go:120-125, 176-179) adds an empty one and leaves
\* the others alone.
LEMMA WithChannel ==
  ASSUME NEW r, NEW i
  PROVE  /\ DOMAIN withChannel(r, i) = DOMAIN r \cup {i}
         /\ \A j \in DOMAIN r : withChannel(r, i)[j] = r[j]
         /\ i \notin DOMAIN r => withChannel(r, i)[i] = <<>>
  BY DEF withChannel, assigned

-----------------------------------------------------------------------------
(* Each action that touches the servers.                                   *)

\* A step of a clerk, or of a handler outside kv.mu (server.go:166-171,
\* 182-191), leaves the channels alone.
LEMMA OthersKeepChannels ==
  ASSUME ChannelInv, UNCHANGED <<result, loop, delivered, crashes>>
  PROVE  ChannelInv' /\ Keeps
  BY DEF ChannelInv, Keeps

\* A handler that makes its channel (server.go:173-180) before or after the
\* apply loop came to the index.
LEMMA AwaitKeepsChannels ==
  ASSUME ChannelInv, NEW s \in Server, NEW i,
         result' = [result EXCEPT ![s] = withChannel(@, i)],
         UNCHANGED <<loop, delivered, crashes>>
  PROVE  ChannelInv' /\ Keeps
<1>1. /\ DOMAIN result'[s] = DOMAIN result[s] \cup {i}
      /\ \A j \in DOMAIN result[s] : result'[s][j] = result[s][j]
      /\ i \notin DOMAIN result[s] => result'[s][i] = <<>>
  <2>1. result'[s] = withChannel(result[s], i)
    BY DEF ChannelInv
  <2>2. /\ DOMAIN withChannel(result[s], i) = DOMAIN result[s] \cup {i}
        /\ \A j \in DOMAIN result[s] : withChannel(result[s], i)[j] = result[s][j]
        /\ i \notin DOMAIN result[s] => withChannel(result[s], i)[i] = <<>>
    BY WithChannel
  <2> QED
    BY <2>1, <2>2
<1>2. \A t \in Server \ {s} : result'[t] = result[t]
  BY DEF ChannelInv
<1>3. result' = [t \in Server |-> result'[t]]
  BY DEF ChannelInv
<1>4. \A t \in Server : \A j \in DOMAIN result'[t] :
        j \notin 1..delivered'[t] => result'[t][j] = <<>>
  BY <1>1, <1>2 DEF ChannelInv
<1>5. \A t \in Server : \A j \in DOMAIN result[t] :
        j \in DOMAIN result'[t] /\ result'[t][j] = result[t][j]
  BY <1>1, <1>2
<1>6. \A t \in Server : loop'[t] # <<>> =>
        /\ delivered'[t] # 0 /\ delivered'[t] \in DOMAIN result'[t]
        /\ result'[t][delivered'[t]] = <<>>
  BY <1>5 DEF ChannelInv
<1> QED
  BY <1>3, <1>4, <1>5, <1>6 DEF ChannelInv, Keeps

\* The first half of a round of the apply loop (server.go:107-125) finds the
\* channel of the next index empty, or makes it.
LEMMA ApplyKeepsChannels ==
  ASSUME ChannelInv, NEW s \in Server, backgroundApply(s)
  PROVE  ChannelInv' /\ Keeps
<1> DEFINE i == delivered[s] + 1
<1>1. /\ result' = [result EXCEPT ![s] = withChannel(@, i)]
      /\ delivered' = [delivered EXCEPT ![s] = i] /\ crashes' = crashes
  BY DEF backgroundApply
<1>2. \E x : loop' = [loop EXCEPT ![s] = x]
  BY DEF backgroundApply
<1>3. /\ delivered[s] \in Nat /\ result = [t \in Server |-> result[t]]
      /\ DOMAIN delivered = Server /\ loop = [t \in Server |-> loop[t]]
  BY DEF ChannelInv
<1>4. /\ DOMAIN result'[s] = DOMAIN result[s] \cup {i}
      /\ \A j \in DOMAIN result[s] : result'[s][j] = result[s][j]
      /\ i \notin DOMAIN result[s] => result'[s][i] = <<>>
  <2>1. result'[s] = withChannel(result[s], i)
    BY <1>1, <1>3
  <2>2. /\ DOMAIN withChannel(result[s], i) = DOMAIN result[s] \cup {i}
        /\ \A j \in DOMAIN result[s] : withChannel(result[s], i)[j] = result[s][j]
        /\ i \notin DOMAIN result[s] => withChannel(result[s], i)[i] = <<>>
    BY WithChannel
  <2> QED
    BY <2>1, <2>2
<1>5. /\ \A t \in Server \ {s} : result'[t] = result[t] /\ delivered'[t] = delivered[t]
      /\ result' = [t \in Server |-> result'[t]]
      /\ delivered'[s] = i /\ DOMAIN delivered' = Server
  BY <1>1, <1>3
<1>6. /\ loop' = [t \in Server |-> loop'[t]]
      /\ \A t \in Server \ {s} : loop'[t] = loop[t]
  BY <1>2, <1>3
<1>7. \A t \in Server : delivered'[t] \in Nat
  BY <1>3, <1>5 DEF ChannelInv
<1>8. result'[s][i] = <<>>
  <2>1. i \notin 1..delivered[s]
    BY <1>3
  <2> QED
    BY <1>4, <2>1 DEF ChannelInv
<1>9. \A t \in Server : \A j \in DOMAIN result'[t] :
        j \notin 1..delivered'[t] => result'[t][j] = <<>>
  <2>1. 1..delivered'[s] = (1..delivered[s]) \cup {i}
    BY <1>3, <1>5
  <2> QED
    BY <1>4, <1>5, <2>1 DEF ChannelInv
<1>10. \A t \in Server : loop'[t] # <<>> =>
         /\ delivered'[t] # 0 /\ delivered'[t] \in DOMAIN result'[t]
        /\ result'[t][delivered'[t]] = <<>>
  BY <1>4, <1>5, <1>6, <1>8 DEF ChannelInv
<1>11. \A t \in Server : \A j \in DOMAIN result[t] :
         j \in DOMAIN result'[t] /\ result'[t][j] = result[t][j]
  BY <1>4, <1>5
<1> QED
  BY <1>1, <1>5, <1>6, <1>7, <1>9, <1>10, <1>11 DEF ChannelInv, Keeps

\* The send (server.go:127) fills the channel of the index just applied, which
\* was empty.
LEMMA SendKeepsChannels ==
  ASSUME ChannelInv, NEW s \in Server, send(s)
  PROVE  ChannelInv' /\ Keeps
<1> DEFINE i == delivered[s]
<1>1. /\ result' = [result EXCEPT ![s] = assigned(@, i, loop[s])]
      /\ loop' = [loop EXCEPT ![s] = <<>>] /\ loop[s] # <<>>
      /\ UNCHANGED <<delivered, crashes>>
  BY DEF send, kvVars
<1>2. /\ i \in Nat /\ i \in DOMAIN result[s] /\ result[s][i] = <<>>
      /\ result = [t \in Server |-> result[t]] /\ loop = [t \in Server |-> loop[t]]
  BY <1>1 DEF ChannelInv
<1>3. i \in 1..delivered[s] \/ i = 0
  BY <1>2
<1>4. /\ DOMAIN result'[s] = DOMAIN result[s]
      /\ \A j \in DOMAIN result[s] : j # i => result'[s][j] = result[s][j]
  BY <1>1, <1>2 DEF assigned
<1>5. /\ \A t \in Server \ {s} : result'[t] = result[t] /\ loop'[t] = loop[t]
      /\ loop'[s] = <<>>
      /\ result' = [t \in Server |-> result'[t]] /\ loop' = [t \in Server |-> loop'[t]]
  BY <1>1, <1>2
<1>6. i # 0
  BY <1>1 DEF ChannelInv
<1>7. \A t \in Server : \A j \in DOMAIN result'[t] :
        j \notin 1..delivered'[t] => result'[t][j] = <<>>
  BY <1>1, <1>3, <1>4, <1>5, <1>6 DEF ChannelInv
<1>8. \A t \in Server : loop'[t] # <<>> =>
        /\ delivered'[t] # 0 /\ delivered'[t] \in DOMAIN result'[t]
        /\ result'[t][delivered'[t]] = <<>>
  BY <1>1, <1>5 DEF ChannelInv
<1>9. Keeps
  BY <1>2, <1>4, <1>5 DEF Keeps
<1> QED
  BY <1>1, <1>5, <1>7, <1>8, <1>9 DEF ChannelInv

\* A new instance (server.go:213-234) starts without channels.
LEMMA NewInstanceKeepsChannels ==
  ASSUME ChannelInv, NEW s \in Server, newInstance(s), crashes' = crashes + 1
  PROVE  ChannelInv' /\ Keeps
<1>1. /\ result'[s] = <<>> /\ delivered'[s] = 0 /\ loop'[s] = <<>>
      /\ \A t \in Server \ {s} : /\ result'[t] = result[t] /\ delivered'[t] = delivered[t]
                                 /\ loop'[t] = loop[t]
      /\ result' = [t \in Server |-> result'[t]] /\ DOMAIN delivered' = Server
      /\ loop' = [t \in Server |-> loop'[t]]
  BY DEF ChannelInv, newInstance, instance
<1>2. DOMAIN result'[s] = {}
  BY <1>1
<1>3. crashes' \in Nat /\ crashes' # crashes
  BY DEF ChannelInv
<1>4. \A t \in Server : loop'[t] # <<>> =>
        /\ delivered'[t] # 0 /\ delivered'[t] \in DOMAIN result'[t]
        /\ result'[t][delivered'[t]] = <<>>
  BY <1>1 DEF ChannelInv
<1>5. \A t \in Server : \A j \in DOMAIN result'[t] :
        j \notin 1..delivered'[t] => result'[t][j] = <<>>
  BY <1>1, <1>2 DEF ChannelInv
<1>6. \A t \in Server : delivered'[t] \in Nat
  BY <1>1 DEF ChannelInv
<1> QED
  BY <1>1, <1>3, <1>4, <1>5, <1>6 DEF ChannelInv, Keeps

\* Every step of a clerk, a handler or an apply loop, and every crash, keeps
\* what ChannelInv says of kv.result (server.go:99-180), and what a channel
\* holds.
LEMMA ChannelsStep ==
  ASSUME ChannelInv, [Next]_vars
  PROVE  ChannelInv' /\ Keeps
<1>1. ASSUME NEW c \in Clerk,
             begin(c) \/ callStart(c) \/ timeout(c) \/ answer(c) \/ lose(c)
      PROVE  ChannelInv' /\ Keeps
  <2>1. UNCHANGED <<result, loop, delivered, crashes>>
    BY <1>1 DEF begin, callStart, timeout, answer, lose, serverVars, kvVars
  <2> QED
    BY <2>1, OthersKeepChannels
<1>2. ASSUME NEW c \in Clerk, await(c)
      PROVE  ChannelInv' /\ Keeps
  <2>1. /\ result' = [result EXCEPT ![clerk[c].server] = withChannel(@, handler[c].index)]
        /\ UNCHANGED <<loop, delivered, crashes>>
    BY <1>2 DEF await, kvVars
  <2>2. CASE clerk[c].server \in Server
    BY <2>1, <2>2, AwaitKeepsChannels
  <2>3. CASE clerk[c].server \notin Server
    <3>1. result' = result
      BY <2>1, <2>3 DEF ChannelInv
    <3> QED
      BY <2>1, <3>1, OthersKeepChannels
  <2> QED
    BY <2>2, <2>3
<1>3. ASSUME NEW s \in Server, backgroundApply(s)
      PROVE  ChannelInv' /\ Keeps
  BY <1>3, ApplyKeepsChannels
<1>4. ASSUME NEW s \in Server, send(s)
      PROVE  ChannelInv' /\ Keeps
  BY <1>4, SendKeepsChannels
<1>5. ASSUME NEW s \in Server, StartKVServer(s)
      PROVE  ChannelInv' /\ Keeps
  BY <1>5, NewInstanceKeepsChannels DEF StartKVServer
<1>6. CASE UNCHANGED vars
  BY <1>6, OthersKeepChannels DEF vars, serverVars, kvVars
<1> QED
  BY <1>1, <1>2, <1>3, <1>4, <1>5, <1>6 DEF Next

\* ChannelInv holds from StartKVServer's empty maps on (server.go:213-234).
LEMMA ChannelsAlways == Spec => []ChannelInv
<1>1. Init => ChannelInv
  BY DEF Init, ChannelInv
<1>2. ChannelInv /\ [Next]_vars => ChannelInv'
  BY ChannelsStep
<1> QED
  BY <1>1, <1>2, PTL DEF Spec

\* backgroundApply never stops at its send while it holds kv.mu
\* (server.go:127).
THEOREM ApplyBlocksNever == Spec => []ApplyNeverBlocks
<1>1. ChannelInv => ApplyNeverBlocks
  BY DEF ChannelInv, ApplyNeverBlocks
<1> QED
  BY <1>1, ChannelsAlways, PTL

\* What the apply loop put in a channel stays there until the handler that
\* waits at the index is done or the server is started again
\* (server.go:120-127, 176-179).
THEOREM OperationKept == Spec => ChannelKeepsOperation
<1> DEFINE kept == \A s \in Server : \A i \in DOMAIN result[s] :
             result[s][i] # <<>> /\ crashes' = crashes /\ ~stopsWaiting(s, i)
               => i \in DOMAIN result'[s] /\ result'[s][i] = result[s][i]
<1>1. Keeps => kept
  BY DEF Keeps
<1>2. ChannelInv /\ [Next]_vars => [kept]_vars
  BY <1>1, ChannelsStep
<1> HIDE DEF kept
<1>3. Spec => [][kept]_vars
  BY <1>2, ChannelsAlways, PTL DEF Spec
<1> QED
  BY <1>3 DEF ChannelKeepsOperation, kept

-----------------------------------------------------------------------------
(* Duplicates.  That nothing was applied twice is inductive together with  *)
(* what lastApplied tells of it: no request that was applied has a higher  *)
(* number than the one recorded for its clerk.                             *)

RequestsInv ==
  /\ clerk = [c \in Clerk |-> clerk[c]]
  /\ \A c \in Clerk : "RequestId" \in DOMAIN clerk[c] /\ clerk[c].RequestId = 0
  /\ \A e \in started :
       /\ e[2].ClientId \in Clerk /\ e[2].RequestId = 1
       /\ e[2].Type \in {"Get", "Put"}

recordedIn(last, id) == id[1] \in DOMAIN last /\ id[2] <= last[id[1]]

DuplicatesInv ==
  /\ applications \in [Server -> Seq(Clerk \X Nat)]
  /\ lastApplied = [s \in Server |-> lastApplied[s]]
  /\ \A s \in Server : \A c \in DOMAIN lastApplied[s] : lastApplied[s][c] \in Nat
  /\ \A s \in Server : \A k \in DOMAIN applications[s] :
       recordedIn(lastApplied[s], applications[s][k])
  /\ AppliedOnce

\* A returning call (client.go:62-80, 111-123) leaves the clerk's RequestId.
LEMMA ReturnedKeepsId ==
  ASSUME RequestsInv, NEW c \in Clerk, NEW ok, NEW err
  PROVE  /\ "RequestId" \in DOMAIN returned(c, ok, err)
         /\ returned(c, ok, err).RequestId = 0
<1>1. "RequestId" \in DOMAIN clerk[c] /\ clerk[c].RequestId = 0
  BY DEF RequestsInv
<1> QED
  BY <1>1 DEF returned

\* A clerk's RequestId stays 0 (client.go:52, 104), so each request has the
\* number 1, and handlers pass Get or Put on to Start (server.go:57-83, 166).
LEMMA RequestsStep ==
  ASSUME RequestsInv, [Next]_vars
  PROVE  RequestsInv'
<1>1. ASSUME NEW c \in Clerk, NEW k, clerk' = [clerk EXCEPT ![c] = k], UNCHANGED started,
             "RequestId" \in DOMAIN k, k.RequestId = 0
      PROVE  RequestsInv'
  BY <1>1 DEF RequestsInv
<1>2. ASSUME UNCHANGED <<clerk, started>>
      PROVE  RequestsInv'
  BY <1>2 DEF RequestsInv
<1>3. ASSUME NEW c \in Clerk, begin(c)
      PROVE  RequestsInv'
  BY <1>1, <1>3 DEF begin, RequestsInv
<1>4. ASSUME NEW c \in Clerk, callStart(c)
      PROVE  RequestsInv'
  <2>1. /\ operation(c).ClientId = c /\ operation(c).RequestId = 1
        /\ operation(c).Type \in {"Get", "Put"}
    BY DEF operation, RequestsInv
  <2>2. clerk' = clerk
    BY <1>4 DEF callStart
  <2>3. \A e \in started' : e \in started \/ e[2] = operation(c)
    BY <1>4 DEF callStart
  <2> QED
    BY <2>1, <2>2, <2>3 DEF RequestsInv
<1>5. ASSUME NEW c \in Clerk, answer(c)
      PROVE  RequestsInv'
  <2>1. /\ clerk' = [clerk EXCEPT ![c] = returned(c, TRUE, replyErr(Head(clerk[c].todo)))]
        /\ UNCHANGED started
    BY <1>5 DEF answer, callReturns
  <2>2. /\ "RequestId" \in DOMAIN returned(c, TRUE, replyErr(Head(clerk[c].todo)))
        /\ returned(c, TRUE, replyErr(Head(clerk[c].todo))).RequestId = 0
    BY ReturnedKeepsId
  <2> QED
    BY <1>1, <2>1, <2>2
<1>6. ASSUME NEW c \in Clerk, lose(c)
      PROVE  RequestsInv'
  <2>1. /\ clerk' = [clerk EXCEPT ![c] = returned(c, FALSE, clerk[c].Err)]
        /\ UNCHANGED started
    BY <1>6 DEF lose, callReturns
  <2>2. /\ "RequestId" \in DOMAIN returned(c, FALSE, clerk[c].Err)
        /\ returned(c, FALSE, clerk[c].Err).RequestId = 0
    BY ReturnedKeepsId
  <2> QED
    BY <1>1, <2>1, <2>2
<1>7. ASSUME NEW s \in Server, StartKVServer(s)
      PROVE  RequestsInv'
  <2>1. PICK cut : clerk' = [c \in Clerk |->
                     IF c \in cut THEN returned(c, FALSE, clerk[c].Err) ELSE clerk[c]]
    BY <1>7 DEF StartKVServer
  <2>2. ASSUME NEW c \in Clerk
        PROVE  "RequestId" \in DOMAIN clerk'[c] /\ clerk'[c].RequestId = 0
    <3>1. /\ "RequestId" \in DOMAIN returned(c, FALSE, clerk[c].Err)
          /\ returned(c, FALSE, clerk[c].Err).RequestId = 0
      BY ReturnedKeepsId
    <3>2. clerk'[c] = returned(c, FALSE, clerk[c].Err) \/ clerk'[c] = clerk[c]
      BY <2>1
    <3> QED
      BY <3>1, <3>2 DEF RequestsInv
  <2>3. started' = started
    BY <1>7 DEF StartKVServer
  <2> QED
    BY <2>1, <2>2, <2>3 DEF RequestsInv
<1>8. ASSUME NEW c \in Clerk, await(c) \/ timeout(c)
      PROVE  RequestsInv'
  BY <1>2, <1>8 DEF await, timeout
<1>9. ASSUME NEW s \in Server, backgroundApply(s) \/ send(s)
      PROVE  RequestsInv'
  BY <1>2, <1>9 DEF backgroundApply, send
<1>10. CASE UNCHANGED vars
  BY <1>2, <1>10 DEF vars
<1> QED
  BY <1>3, <1>4, <1>5, <1>6, <1>7, <1>8, <1>9, <1>10 DEF Next

\* One round of the apply loop (server.go:110-119): a request that is applied
\* has a higher number than the last of its clerk, so it was not before.
LEMMA ApplyKeepsDuplicates ==
  ASSUME RequestsInv, DuplicatesInv, NEW s \in Server, backgroundApply(s)
  PROVE  DuplicatesInv'
<1>1. PICK op \in {e[2] : e \in {e \in started : e[1] = delivered[s] + 1}} :
        LET write == op.Type # "Get" /\ isNew(s, op)
        IN  /\ lastApplied' = [lastApplied EXCEPT ![s] =
                 IF write THEN assigned(@, op.ClientId, op.RequestId) ELSE @]
            /\ applications' = [applications EXCEPT ![s] =
                 IF write THEN Append(@, <<op.ClientId, op.RequestId>>) ELSE @]
  BY DEF backgroundApply
<1> DEFINE id == <<op.ClientId, op.RequestId>>
           last == lastApplied[s]
           apps == applications[s]
<1>2. op.ClientId \in Clerk /\ op.RequestId \in Nat /\ id \in Clerk \X Nat
  BY DEF RequestsInv
<1>3. CASE ~(op.Type # "Get" /\ isNew(s, op))
  <2>1. lastApplied' = lastApplied /\ applications' = applications
    BY <1>1, <1>3 DEF DuplicatesInv
  <2> QED
    BY <2>1 DEF DuplicatesInv, AppliedOnce
<1>4. CASE op.Type # "Get" /\ isNew(s, op)
  <2>1. /\ lastApplied' = [lastApplied EXCEPT ![s] = assigned(last, op.ClientId, op.RequestId)]
        /\ applications' = [applications EXCEPT ![s] = Append(apps, id)]
    BY <1>1, <1>4
  <2>2. apps \in Seq(Clerk \X Nat)
    BY DEF DuplicatesInv
  <2>3. /\ applications' \in [Server -> Seq(Clerk \X Nat)]
        /\ applications'[s] = Append(apps, id)
        /\ \A t \in Server \ {s} : applications'[t] = applications[t]
    BY <1>2, <2>1, <2>2 DEF DuplicatesInv
  <2>4. /\ lastApplied' = [t \in Server |-> lastApplied'[t]]
        /\ lastApplied'[s] = assigned(last, op.ClientId, op.RequestId)
        /\ \A t \in Server \ {s} : lastApplied'[t] = lastApplied[t]
    BY <2>1 DEF DuplicatesInv
  <2>5. /\ DOMAIN lastApplied'[s] = DOMAIN last \cup {op.ClientId}
        /\ lastApplied'[s][op.ClientId] = op.RequestId
        /\ \A c \in DOMAIN last : c # op.ClientId => lastApplied'[s][c] = last[c]
    BY <2>4 DEF assigned
  <2>6. /\ DOMAIN applications'[s] = DOMAIN apps \cup {Len(apps) + 1}
        /\ applications'[s][Len(apps) + 1] = id
        /\ \A k \in DOMAIN apps : applications'[s][k] = apps[k]
        /\ DOMAIN apps = 1..Len(apps) /\ Len(apps) \in Nat
    <3>1. Len(apps) \in Nat /\ DOMAIN apps = 1..Len(apps)
      BY <2>2
    <3>2. /\ DOMAIN Append(apps, id) = 1..(Len(apps) + 1)
          /\ Append(apps, id)[Len(apps) + 1] = id
          /\ \A k \in 1..Len(apps) : Append(apps, id)[k] = apps[k]
      <4> HIDE DEF apps, id
      <4> QED
        BY <1>2, <2>2
    <3>3. 1..(Len(apps) + 1) = 1..Len(apps) \cup {Len(apps) + 1}
      BY <3>1
    <3> QED
      BY <2>3, <3>1, <3>2, <3>3
  <2>7. \A k \in DOMAIN apps : /\ recordedIn(last, apps[k])
                               /\ apps[k][1] \in Clerk /\ apps[k][2] \in Nat
    BY <2>2 DEF DuplicatesInv
  <2>8. \A k \in DOMAIN apps : apps[k] # id
    <3>1. SUFFICES ASSUME NEW k \in DOMAIN apps, apps[k] = id PROVE FALSE
      OBVIOUS
    <3>2. op.ClientId \in DOMAIN last /\ op.RequestId <= last[op.ClientId]
      BY <2>7, <3>1 DEF recordedIn
    <3>3. op.RequestId > last[op.ClientId]
      BY <1>4, <3>2 DEF isNew
    <3>4. last[op.ClientId] \in Nat
      BY <3>2 DEF DuplicatesInv
    <3> QED
      BY <1>2, <3>2, <3>3, <3>4
  <2>9. \A c \in DOMAIN lastApplied'[s] : lastApplied'[s][c] \in Nat
    BY <1>2, <2>5 DEF DuplicatesInv
  <2>10. \A k \in DOMAIN applications'[s] : recordedIn(lastApplied'[s], applications'[s][k])
    <3>1. recordedIn(lastApplied'[s], id)
      BY <1>2, <2>5 DEF recordedIn
    <3>2. ASSUME NEW k \in DOMAIN apps PROVE recordedIn(lastApplied'[s], apps[k])
      <4>1. CASE apps[k][1] # op.ClientId
        BY <2>5, <2>7, <4>1 DEF recordedIn
      <4>2. CASE apps[k][1] = op.ClientId
        <5>1. op.ClientId \in DOMAIN last /\ apps[k][2] <= last[op.ClientId]
          BY <2>7, <4>2 DEF recordedIn
        <5>2. op.RequestId > last[op.ClientId]
          BY <1>4, <5>1 DEF isNew
        <5>3. last[op.ClientId] \in Nat
          BY <5>1 DEF DuplicatesInv
        <5>4. apps[k][2] <= op.RequestId
          BY <1>2, <2>7, <5>1, <5>2, <5>3
        <5> QED
          BY <2>5, <4>2, <5>1, <5>4 DEF recordedIn
      <4> QED
        BY <4>1, <4>2
    <3> QED
      BY <2>6, <3>1, <3>2
  <2>11. IsInjective(applications'[s])
    <3>1. IsInjective(apps)
      BY DEF DuplicatesInv, AppliedOnce
    <3> QED
      BY <2>6, <2>8, <3>1 DEF IsInjective
  <2>12. AppliedOnce'
    BY <2>3, <2>11 DEF DuplicatesInv, AppliedOnce
  <2> QED
    BY <2>3, <2>4, <2>9, <2>10, <2>12 DEF DuplicatesInv
<1> QED
  BY <1>3, <1>4

\* Only the apply loop (server.go:113-119) and a new instance (213-234) write
\* lastApplied, and both keep it above what was applied.
LEMMA DuplicatesStep ==
  ASSUME RequestsInv, DuplicatesInv, [Next]_vars
  PROVE  DuplicatesInv'
<1>1. ASSUME UNCHANGED <<lastApplied, applications>>
      PROVE  DuplicatesInv'
  BY <1>1 DEF DuplicatesInv, AppliedOnce
<1>2. ASSUME NEW c \in Clerk,
             begin(c) \/ callStart(c) \/ await(c) \/ timeout(c) \/ answer(c) \/ lose(c)
      PROVE  DuplicatesInv'
  BY <1>1, <1>2 DEF begin, callStart, await, timeout, answer, lose, serverVars, kvVars
<1>3. ASSUME NEW s \in Server, StartKVServer(s)
      PROVE  DuplicatesInv'
  <2>1. /\ applications' = [applications EXCEPT ![s] = <<>>]
        /\ lastApplied' = [lastApplied EXCEPT ![s] = <<>>]
    BY <1>3 DEF StartKVServer, newInstance, instance
  <2>2. /\ applications' \in [Server -> Seq(Clerk \X Nat)]
        /\ applications'[s] = <<>> /\ lastApplied'[s] = <<>>
        /\ lastApplied' = [t \in Server |-> lastApplied'[t]]
        /\ \A t \in Server \ {s} : /\ applications'[t] = applications[t]
                                   /\ lastApplied'[t] = lastApplied[t]
    <3>1. <<>> \in Seq(Clerk \X Nat)
      OBVIOUS
    <3>2. /\ applications' \in [Server -> Seq(Clerk \X Nat)]
          /\ applications'[s] = <<>>
          /\ \A t \in Server \ {s} : applications'[t] = applications[t]
      BY <2>1, <3>1 DEF DuplicatesInv
    <3>3. /\ lastApplied'[s] = <<>>
          /\ lastApplied' = [t \in Server |-> lastApplied'[t]]
          /\ \A t \in Server \ {s} : lastApplied'[t] = lastApplied[t]
      BY <2>1 DEF DuplicatesInv
    <3> QED
      BY <3>2, <3>3
  <2>3. DOMAIN applications'[s] = {} /\ DOMAIN lastApplied'[s] = {}
    BY <2>2
  <2>4. AppliedOnce'
    BY <2>2, <2>3 DEF DuplicatesInv, AppliedOnce, IsInjective
  <2> QED
    BY <2>2, <2>3, <2>4 DEF DuplicatesInv
<1>4. ASSUME NEW s \in Server, backgroundApply(s)
      PROVE  DuplicatesInv'
  BY <1>4, ApplyKeepsDuplicates
<1>5. ASSUME NEW s \in Server, send(s)
      PROVE  DuplicatesInv'
  BY <1>1, <1>5 DEF send, kvVars
<1>6. CASE UNCHANGED vars
  BY <1>1, <1>6 DEF vars, serverVars, kvVars
<1> QED
  BY <1>2, <1>3, <1>4, <1>5, <1>6 DEF Next

\* RequestsInv and DuplicatesInv hold from the clerks' and servers' first
\* states on (client.go:28-38, server.go:213-234).
LEMMA DuplicatesAlways == Spec => [](RequestsInv /\ DuplicatesInv)
<1>1. Init => RequestsInv /\ DuplicatesInv
  <2>1. Init => RequestsInv
    <3>1. SUFFICES ASSUME Init PROVE RequestsInv
      OBVIOUS
    <3>2. clerk = [c \in Clerk |-> MakeClerk(c)] /\ started = {}
      BY <3>1 DEF Init
    <3>3. \A c \in Clerk : "RequestId" \in DOMAIN MakeClerk(c) /\ MakeClerk(c).RequestId = 0
      BY DEF MakeClerk
    <3>4. clerk = [c \in Clerk |-> clerk[c]]
      BY <3>2, Zenon
    <3> QED
      BY <3>2, <3>3, <3>4 DEF RequestsInv
  <2>2. Init => DuplicatesInv
    BY DEF Init, DuplicatesInv, AppliedOnce, IsInjective
  <2> QED
    BY <2>1, <2>2
<1> QED
  BY <1>1, RequestsStep, DuplicatesStep, PTL DEF Spec

\* A server instance runs applyMessage at most once for a request, however
\* often the clerk's retries put it in the log (server.go:113-118).
THEOREM AppliesOnce == Spec => []AppliedOnce
<1>1. DuplicatesInv => AppliedOnce
  BY DEF DuplicatesInv
<1> QED
  BY <1>1, DuplicatesAlways, PTL

-----------------------------------------------------------------------------
(* Replicas.  What a server instance holds is a function of the operations *)
(* it was delivered: every request has the number 1, so lastApplied has    *)
(* the clerks that wrote, and applyMessage has no case for Put, so the     *)
(* store stays empty.                                                      *)

writers(l) == {l[i].ClientId : i \in {i \in DOMAIN l : l[i].Type # "Get"}}

ReplicaInv ==
  /\ log = [s \in Server |-> log[s]] /\ sent = [s \in Server |-> sent[s]]
  /\ store = [s \in Server |-> NoValue]
  /\ lastApplied = [s \in Server |-> [c \in writers(log[s]) |-> 1]]
  /\ \A s \in Server :
       /\ log[s] \in Seq({e[2] : e \in started})
       /\ sent[s] \in Seq({command(e[2], NoValue) : e \in started})
       /\ Len(sent[s]) = Len(log[s])
       /\ \A i \in 1..Len(log[s]) : sent[s][i] = command(log[s][i], NoValue)

\* A round of the apply loop (server.go:107-127) appends to the histories of
\* its server what the operation alone determines.
LEMMA ApplyKeepsReplica ==
  ASSUME RequestsInv, ReplicaInv, NEW s \in Server, backgroundApply(s)
  PROVE  ReplicaInv'
<1> DEFINE ops == {e[2] : e \in started}
           commands == {command(e[2], NoValue) : e \in started}
<1>1. PICK op \in ops :
        LET write == op.Type # "Get" /\ isNew(s, op)
        IN  /\ store' = [store EXCEPT ![s] = IF write THEN applyMessage(op, @) ELSE @]
            /\ lastApplied' = [lastApplied EXCEPT ![s] =
                 IF write THEN assigned(@, op.ClientId, op.RequestId) ELSE @]
            /\ log' = [log EXCEPT ![s] = Append(@, op)]
            /\ sent' = [sent EXCEPT ![s] = Append(@, command(op, store[s]))]
  <2>1. PICK op \in {e[2] : e \in {e \in started : e[1] = delivered[s] + 1}} :
          LET write == op.Type # "Get" /\ isNew(s, op)
          IN  /\ store' = [store EXCEPT ![s] = IF write THEN applyMessage(op, @) ELSE @]
              /\ lastApplied' = [lastApplied EXCEPT ![s] =
                   IF write THEN assigned(@, op.ClientId, op.RequestId) ELSE @]
              /\ log' = [log EXCEPT ![s] = Append(@, op)]
              /\ sent' = [sent EXCEPT ![s] = Append(@, command(op, store[s]))]
    BY DEF backgroundApply
  <2>2. op \in ops
    OBVIOUS
  <2> QED
    BY <2>1, <2>2, Zenon
<1>2. started' = started
  BY DEF backgroundApply
<1>3. op.RequestId = 1 /\ op.Type \in {"Get", "Put"} /\ command(op, NoValue) \in commands
  BY DEF RequestsInv
<1>4. /\ log = [t \in Server |-> log[t]] /\ sent = [t \in Server |-> sent[t]]
      /\ store[s] = NoValue /\ store = [t \in Server |-> NoValue]
      /\ log[s] \in Seq(ops) /\ sent[s] \in Seq(commands) /\ Len(sent[s]) = Len(log[s])
      /\ \A i \in 1..Len(log[s]) : sent[s][i] = command(log[s][i], NoValue)
      /\ lastApplied[s] = [c \in writers(log[s]) |-> 1]
  BY DEF ReplicaInv
<1>5. store' = [t \in Server |-> NoValue]
  <2>1. applyMessage(op, NoValue) = NoValue
    BY <1>3 DEF applyMessage
  <2> QED
    BY <1>1, <1>4, <2>1
<1>6. /\ log'[s] = Append(log[s], op) /\ sent'[s] = Append(sent[s], command(op, NoValue))
      /\ \A t \in Server \ {s} : log'[t] = log[t] /\ sent'[t] = sent[t]
      /\ log' = [t \in Server |-> log'[t]] /\ sent' = [t \in Server |-> sent'[t]]
  BY <1>1, <1>4
<1> HIDE DEF ops, commands
<1>7. /\ log'[s] \in Seq(ops) /\ Len(log'[s]) = Len(log[s]) + 1
      /\ DOMAIN log'[s] = 1..(Len(log[s]) + 1) /\ DOMAIN log[s] = 1..Len(log[s])
      /\ log'[s][Len(log[s]) + 1] = op /\ Len(log[s]) \in Nat
      /\ \A i \in 1..Len(log[s]) : log'[s][i] = log[s][i]
  BY <1>4, <1>6
<1>8. /\ sent'[s] \in Seq(commands) /\ Len(sent'[s]) = Len(sent[s]) + 1
      /\ sent'[s][Len(sent[s]) + 1] = command(op, NoValue)
      /\ \A i \in 1..Len(sent[s]) : sent'[s][i] = sent[s][i]
  BY <1>3, <1>4, <1>6
<1>9. 1..(Len(log[s]) + 1) = 1..Len(log[s]) \cup {Len(log[s]) + 1}
  BY <1>7
<1>10. \A i \in 1..Len(log'[s]) : sent'[s][i] = command(log'[s][i], NoValue)
  BY <1>4, <1>7, <1>8, <1>9
<1>11. writers(log'[s]) = writers(log[s]) \cup (IF op.Type = "Get" THEN {} ELSE {op.ClientId})
  BY <1>7, <1>9 DEF writers
<1>12. lastApplied'[s] = [c \in writers(log'[s]) |-> 1]
  <2>1. CASE op.Type # "Get" /\ isNew(s, op)
    <3>1. lastApplied'[s] = assigned(lastApplied[s], op.ClientId, 1)
      BY <1>1, <1>3, <2>1 DEF ReplicaInv
    <3>2. DOMAIN lastApplied[s] = writers(log[s])
      BY <1>4
    <3>3. writers(log'[s]) = writers(log[s]) \cup {op.ClientId}
      BY <1>11, <2>1
    <3> QED
      BY <1>4, <3>1, <3>2, <3>3 DEF assigned
  <2>2. CASE ~(op.Type # "Get" /\ isNew(s, op))
    <3>1. lastApplied'[s] = lastApplied[s]
      BY <1>1, <2>2 DEF ReplicaInv
    <3>2. op.Type # "Get" => op.ClientId \in writers(log[s])
      BY <1>4, <2>2 DEF isNew
    <3>3. writers(log'[s]) = writers(log[s])
      BY <1>11, <3>2
    <3> QED
      BY <1>4, <3>1, <3>3
  <2> QED
    BY <2>1, <2>2
<1>13. lastApplied' = [t \in Server |-> [c \in writers(log'[t]) |-> 1]]
  <2>1. lastApplied' = [t \in Server |-> IF t = s THEN lastApplied'[s] ELSE lastApplied[t]]
    BY <1>1 DEF ReplicaInv
  <2>2. \A t \in Server \ {s} : lastApplied[t] = [c \in writers(log'[t]) |-> 1]
    BY <1>6 DEF ReplicaInv
  <2> QED
    BY <1>12, <2>1, <2>2
<1>14. \A t \in Server :
         /\ log'[t] \in Seq(ops) /\ sent'[t] \in Seq(commands)
         /\ Len(sent'[t]) = Len(log'[t])
         /\ \A i \in 1..Len(log'[t]) : sent'[t][i] = command(log'[t][i], NoValue)
  <2>1. ASSUME NEW t \in Server \ {s}
        PROVE  /\ log'[t] \in Seq(ops) /\ sent'[t] \in Seq(commands)
               /\ Len(sent'[t]) = Len(log'[t])
               /\ \A i \in 1..Len(log'[t]) : sent'[t][i] = command(log'[t][i], NoValue)
    <3>1. /\ log[t] \in Seq(ops) /\ sent[t] \in Seq(commands)
          /\ Len(sent[t]) = Len(log[t])
          /\ \A i \in 1..Len(log[t]) : sent[t][i] = command(log[t][i], NoValue)
      BY DEF ReplicaInv, ops, commands
    <3> QED
      BY <1>6, <3>1
  <2>2. Len(sent'[s]) = Len(log'[s])
    BY <1>4, <1>7, <1>8
  <2> QED
    BY <1>7, <1>8, <1>10, <2>1, <2>2
<1> QED
  BY <1>2, <1>5, <1>6, <1>13, <1>14 DEF ReplicaInv, ops, commands

\* Handlers and clerks only add to what was started (server.go:166), and a new
\* instance (213-234) has been delivered nothing.
LEMMA ReplicasStep ==
  ASSUME RequestsInv, ReplicaInv, [Next]_vars
  PROVE  ReplicaInv'
<1>1. ASSUME started \subseteq started', UNCHANGED kvVars
      PROVE  ReplicaInv'
  <2>1. /\ {e[2] : e \in started} \subseteq {e[2] : e \in started'}
        /\ {command(e[2], NoValue) : e \in started} \subseteq
             {command(e[2], NoValue) : e \in started'}
    BY <1>1
  <2>2. \A S, T : S \subseteq T => Seq(S) \subseteq Seq(T)
    OBVIOUS
  <2>3. \A s \in Server : /\ log[s] \in Seq({e[2] : e \in started'})
                          /\ sent[s] \in Seq({command(e[2], NoValue) : e \in started'})
    BY <2>1, <2>2 DEF ReplicaInv
  <2> QED
    BY <1>1, <2>3 DEF ReplicaInv, kvVars
<1>2. ASSUME NEW c \in Clerk,
             begin(c) \/ callStart(c) \/ await(c) \/ timeout(c) \/ answer(c) \/ lose(c)
      PROVE  ReplicaInv'
  BY <1>1, <1>2 DEF begin, callStart, await, timeout, answer, lose, serverVars
<1>3. ASSUME NEW s \in Server, send(s)
      PROVE  ReplicaInv'
  BY <1>1, <1>3 DEF send
<1>4. ASSUME NEW s \in Server, backgroundApply(s)
      PROVE  ReplicaInv'
  BY <1>4, ApplyKeepsReplica
<1>5. ASSUME NEW s \in Server, StartKVServer(s)
      PROVE  ReplicaInv'
  <2>1. /\ store' = [store EXCEPT ![s] = NoValue]
        /\ lastApplied' = [lastApplied EXCEPT ![s] = <<>>]
        /\ log' = [log EXCEPT ![s] = <<>>] /\ sent' = [sent EXCEPT ![s] = <<>>]
        /\ started' = started
    BY <1>5 DEF StartKVServer, newInstance, instance
  <2>2. /\ log'[s] = <<>> /\ sent'[s] = <<>>
        /\ \A t \in Server \ {s} : log'[t] = log[t] /\ sent'[t] = sent[t]
        /\ log' = [t \in Server |-> log'[t]] /\ sent' = [t \in Server |-> sent'[t]]
    BY <2>1 DEF ReplicaInv
  <2>3. store' = [t \in Server |-> NoValue]
    BY <2>1 DEF ReplicaInv
  <2>4. lastApplied' = [t \in Server |-> [c \in writers(log'[t]) |-> 1]]
    <3>1. DOMAIN <<>> = {}
      OBVIOUS
    <3>2. writers(log'[s]) = {}
      BY <2>2, <3>1 DEF writers
    <3>3. [c \in writers(log'[s]) |-> 1] = <<>>
      BY <3>2
    <3>4. lastApplied' = [t \in Server |-> IF t = s THEN <<>> ELSE lastApplied[t]]
      BY <2>1 DEF ReplicaInv
    <3>5. \A t \in Server \ {s} : lastApplied[t] = [c \in writers(log'[t]) |-> 1]
      BY <2>2 DEF ReplicaInv
    <3> QED
      BY <3>3, <3>4, <3>5
  <2>5. /\ <<>> \in Seq({e[2] : e \in started})
        /\ <<>> \in Seq({command(e[2], NoValue) : e \in started})
        /\ Len(<<>>) = 0 /\ 1..0 = {}
    OBVIOUS
  <2>6. \A t \in Server :
          /\ log'[t] \in Seq({e[2] : e \in started})
          /\ sent'[t] \in Seq({command(e[2], NoValue) : e \in started})
          /\ Len(sent'[t]) = Len(log'[t])
          /\ \A i \in 1..Len(log'[t]) : sent'[t][i] = command(log'[t][i], NoValue)
    BY <2>2, <2>5 DEF ReplicaInv
  <2> QED
    BY <2>1, <2>2, <2>3, <2>4, <2>6 DEF ReplicaInv
<1>6. CASE UNCHANGED vars
  BY <1>1, <1>6 DEF vars, serverVars
<1> QED
  BY <1>2, <1>3, <1>4, <1>5, <1>6 DEF Next

\* Two server instances that were delivered the same operations hold the same
\* store and lastApplied and have made the same commands for their handlers
\* (server.go:107-127, 228-230).
THEOREM ReplicasHoldTheSame == Spec => []ReplicasAgree
<1>1. Init => ReplicaInv
  <2>1. SUFFICES ASSUME Init PROVE ReplicaInv
    OBVIOUS
  <2>2. /\ log = [s \in Server |-> <<>>] /\ sent = [s \in Server |-> <<>>] /\ started = {}
        /\ store = [s \in Server |-> NoValue] /\ lastApplied = [s \in Server |-> <<>>]
    BY <2>1 DEF Init
  <2>3. [c \in writers(<<>>) |-> 1] = <<>>
    BY DEF writers
  <2>4. lastApplied = [s \in Server |-> [c \in writers(log[s]) |-> 1]]
    BY <2>2, <2>3
  <2>5. <<>> \in Seq({}) /\ Len(<<>>) = 0
    OBVIOUS
  <2> QED
    BY <2>2, <2>4, <2>5 DEF ReplicaInv
<1>2. ReplicaInv => ReplicasAgree
  <2>1. SUFFICES ASSUME ReplicaInv, NEW s \in Server, NEW t \in Server, log[s] = log[t]
                 PROVE  /\ store[s] = store[t] /\ lastApplied[s] = lastApplied[t]
                        /\ sent[s] = sent[t]
    BY DEF ReplicasAgree
  <2>2. store[s] = store[t] /\ lastApplied[s] = lastApplied[t]
    BY <2>1 DEF ReplicaInv
  <2>3. /\ sent[s] = [i \in 1..Len(log[s]) |-> command(log[s][i], NoValue)]
        /\ sent[t] = [i \in 1..Len(log[s]) |-> command(log[s][i], NoValue)]
    <3>1. ASSUME NEW u \in {s, t}
          PROVE  sent[u] = [i \in 1..Len(log[u]) |-> command(log[u][i], NoValue)]
      <4>1. PICK S : sent[u] \in Seq(S)
        BY <2>1 DEF ReplicaInv
      <4>2. sent[u] = [i \in 1..Len(sent[u]) |-> sent[u][i]]
        BY <4>1
      <4>3. /\ Len(sent[u]) = Len(log[u])
            /\ \A i \in 1..Len(log[u]) : sent[u][i] = command(log[u][i], NoValue)
        BY <2>1 DEF ReplicaInv
      <4> QED
        BY <4>2, <4>3
    <3> QED
      BY <2>1, <3>1
  <2> QED
    BY <2>2, <2>3
<1> QED
  BY <1>1, <1>2, DuplicatesAlways, ReplicasStep, PTL DEF Spec
=============================================================================
