------------------------------ MODULE MCKVRaft ------------------------------
(* Instances of KVRaft: the clerks' scripts. *)
EXTENDS KVRaft

CONSTANTS c1, c2, v1, v2

Put(v) == [op |-> "Put", value |-> v]
Add(v) == [op |-> "Append", value |-> v]
Fetch == [op |-> "Get", value |-> NoValue]

(* A writer beside a reader, and a clerk that reads what it wrote. *)
WriterAndReader == [c \in Clerk |-> IF c = c1 THEN <<Put(v1)>> ELSE <<Fetch>>]
WriterReads == [c \in Clerk |-> <<Add(v1), Put(v2), Fetch>>]
=============================================================================
