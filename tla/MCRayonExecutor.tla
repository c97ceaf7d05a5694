-------------------------- MODULE MCRayonExecutor --------------------------
(***************************************************************************)
(* outer submits inner and second to its own pool and waits for them,      *)
(* inner does the same with deeper; other, submitted without a timeout,    *)
(* competes for the two threads.                                           *)
(***************************************************************************)
EXTENDS RayonExecutor, TLC

CONSTANTS outer, inner, second, deeper, other

MCJob == {outer, inner, second, deeper, other}
MCParent == (outer :> NoJob) @@ (inner :> outer) @@ (second :> outer) @@ (deeper :> inner) @@ (other :> NoJob)
=============================================================================
