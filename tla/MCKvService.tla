------------------------------ MODULE MCKvService ------------------------------
(* Two connections that may ask for one key. *)
EXTENDS KvService
=============================================================================
