----------------------------- MODULE MCPorcupine -----------------------------
(* Histories of up to three operations on one key: a put, an append, and    *)
(* gets of the initial value, of what the put writes and of both writes.    *)
EXTENDS Porcupine

get(v) == [op |-> "get", in |-> "-", out |-> v]

Ops == {[op |-> "put", in |-> "a", out |-> <<>>], [op |-> "append", in |-> "b", out |-> <<>>],
        get(<<>>), get(<<"a">>), get(<<"a", "b">>)}
=============================================================================
