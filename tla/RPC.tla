--------------------------------- MODULE RPC ---------------------------------
(***************************************************************************)
(* What ClientEnd.Call promises its callers: a call that returns true has  *)
(* been executed, no call is executed twice, and one that returns false    *)
(* may have been executed, may be executed later, or may never be.  This   *)
(* is the network that Raft and the key-value clerks are written for.      *)
(***************************************************************************)
CONSTANT Call

VARIABLES
  status,   \* of each call: idle, pending, true or false
  executed  \* the calls whose handler has had its effect

vars == <<status, executed>>

Init ==
  /\ status = [c \in Call |-> "idle"]
  /\ executed = {}

Issue(c) ==
  /\ status[c] = "idle"
  /\ status' = [status EXCEPT ![c] = "pending"]
  /\ UNCHANGED executed

Execute(c) ==
  /\ status[c] \in {"pending", "false"} /\ c \notin executed
  /\ executed' = executed \cup {c}
  /\ UNCHANGED status

ReturnTrue(c) ==
  /\ status[c] = "pending" /\ c \in executed
  /\ status' = [status EXCEPT ![c] = "true"]
  /\ UNCHANGED executed

ReturnFalse(c) ==
  /\ status[c] = "pending"
  /\ status' = [status EXCEPT ![c] = "false"]
  /\ UNCHANGED executed

Next == \E c \in Call : Issue(c) \/ Execute(c) \/ ReturnTrue(c) \/ ReturnFalse(c)

Spec == Init /\ [][Next]_vars
=============================================================================
