--------------------------- MODULE MCThreadPool ---------------------------
(***************************************************************************)
(* Three workers and four jobs: a notification can find several sleepers,  *)
(* one, or none, and the queue can hold more jobs than workers.            *)
(***************************************************************************)
EXTENDS ThreadPool
=============================================================================
