------------------------------ MODULE MCLabRPC ------------------------------
(* One server name and one client end.                                     *)
EXTENDS LabRPC

CONSTANTS c1, c2, e1, n1

OneServer == [e \in {e1} |-> n1]
=============================================================================
