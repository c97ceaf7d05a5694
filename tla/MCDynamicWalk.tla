--------------------------- MODULE MCDynamicWalk ---------------------------
(***************************************************************************)
(* A tree for TLC: top holds left and right, left holds leaf.  Two sibling *)
(* directories let two jobs work at once; leaf is queued late, while the   *)
(* other jobs may already be asleep.                                       *)
(***************************************************************************)
EXTENDS DynamicWalk, TLC

CONSTANTS top, left, right, leaf

MCDir == {top, left, right, leaf}
MCSubdirs == (top :> <<left, right>>) @@ (left :> <<leaf>>) @@ (right :> <<>>) @@ (leaf :> <<>>)
MCFileCount == (top :> 1) @@ (left :> 0) @@ (right :> 1) @@ (leaf :> 0)
MCCalls == {[streaming |-> FALSE, abort |-> FALSE, visible |-> TRUE],
            [streaming |-> TRUE, abort |-> TRUE, visible |-> FALSE]}
=============================================================================
