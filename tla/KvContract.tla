------------------------------ MODULE KvContract ------------------------------
(***************************************************************************)
(* What the clients of a key-value server may rely on, written with the    *)
(* dictionary of project 1.  A call takes effect at most once, at one      *)
(* moment between its invocation and its return, and an answer that is not *)
(* an error is the one the dictionary gave at that moment.  A call that    *)
(* ended with an error may still take effect, later, in the order of its   *)
(* connection.  A crash of the server falls back to what was saved, or to  *)
(* the state just before.                                                  *)
(***************************************************************************)
EXTENDS KvPrograms

CONSTANT Conn  \* connections

VARIABLES
  cache,  \* the dictionary
  saved,  \* what a crash falls back to
  call,   \* of each connection, its call: [pc : idle, called or taken, cmd, res]
  late,   \* of each connection, the requests whose calls ended before they took effect
  ret     \* of each connection, what its last call returned

vars == <<cache, saved, call, late, ret>>

idle == [pc |-> "idle", cmd |-> none, res |-> none]

\* The answer of the dictionary to a command, and the dictionary after it.
answerTo(cmd) ==
  CASE cmd.op = "set" -> "set"
    [] cmd.op = "get" -> get(cache, cmd.key)
    [] cmd.op = "rm"  -> IF remove_key(cache, cmd.key).found THEN "removed" ELSE "not found"

after(cmd) ==
  CASE cmd.op = "set" -> set(cache, cmd.key, cmd.value)
    [] cmd.op = "get" -> cache
    [] cmd.op = "rm"  -> remove_key(cache, cmd.key).cache

Init ==
  /\ cache = new /\ saved = new
  /\ call = [c \in Conn |-> idle]
  /\ late = [c \in Conn |-> << >>]
  /\ ret = [c \in Conn |-> none]

Invoke(c, cmd) ==
  /\ call[c].pc = "idle"
  /\ call' = [call EXCEPT ![c] = [pc |-> "called", cmd |-> cmd, res |-> none]]
  /\ UNCHANGED <<cache, saved, late, ret>>

TakeEffect(c) ==
  /\ call[c].pc = "called"
  /\ late[c] = << >>
  /\ cache' = after(call[c].cmd)
  /\ call' = [call EXCEPT ![c].pc = "taken", ![c].res = answerTo(call[c].cmd)]
  /\ UNCHANGED <<saved, late, ret>>

\* "done" tells that the call took effect and nothing of its answer.
Return(c) ==
  /\ call[c].pc = "taken"
  /\ call' = [call EXCEPT ![c] = idle]
  /\ \E answer \in {call[c].res, "done", "error"} : ret' = [ret EXCEPT ![c] = answer]
  /\ UNCHANGED <<cache, saved, late>>

\* The request is sent and the call ends at once, with an error.
Fail(c, cmd) ==
  /\ call[c].pc = "idle"
  /\ late' = [late EXCEPT ![c] = Append(@, cmd)]
  /\ ret' = [ret EXCEPT ![c] = "error"]
  /\ UNCHANGED <<cache, saved, call>>

TakeLate(c) ==
  /\ late[c] # << >>
  /\ cache' = after(Head(late[c]))
  /\ late' = [late EXCEPT ![c] = Tail(@)]
  /\ UNCHANGED <<saved, call, ret>>

\* Connections end: the calls among them fail, and their requests are forgotten or taken
\* late.
Leave(gone) ==
  /\ call' = [c \in Conn |-> IF c \in gone THEN idle ELSE call[c]]
  /\ ret' = [c \in Conn |-> IF c \in gone /\ call[c].pc # "idle" THEN "error" ELSE ret[c]]
  /\ \E kept \in SUBSET gone :
       late' = [c \in Conn |-> CASE c \notin gone -> late[c]
                                 [] c \in gone \ kept -> << >>
                                 [] OTHER -> IF call[c].pc = "called"
                                             THEN Append(late[c], call[c].cmd) ELSE late[c]]
  /\ UNCHANGED <<cache, saved>>

Save ==
  /\ saved' = cache
  /\ UNCHANGED <<cache, call, late, ret>>

Crash ==
  /\ \E state \in {cache, saved} : cache' = state /\ saved' = state
  /\ call' = [c \in Conn |-> idle]
  /\ late' = [c \in Conn |-> << >>]
  /\ ret' = [c \in Conn |-> IF call[c].pc # "idle" THEN "error" ELSE ret[c]]

Next ==
  \/ \E c \in Conn, cmd \in Command : Invoke(c, cmd) \/ Fail(c, cmd)
  \/ \E c \in Conn : TakeEffect(c) \/ Return(c) \/ TakeLate(c)
  \/ \E gone \in SUBSET Conn : Leave(gone)
  \/ Save \/ Crash

Spec == Init /\ [][Next]_vars
=============================================================================
