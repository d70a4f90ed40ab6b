------------------------- MODULE MCSharedQueuePool -------------------------
(* Two threads and four jobs, two of which may panic. *)
EXTENDS SharedQueuePool
=============================================================================
