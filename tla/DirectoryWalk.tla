--------------------------- MODULE DirectoryWalk ---------------------------
(***************************************************************************)
(* What a parallel directory traversal promises, whoever runs it: every    *)
(* directory of the tree is given to the visitor at most once and after    *)
(* its parent, the call reports a complete traversal only when all of them *)
(* were given, nothing is given to the visitor once the call has returned, *)
(* and the call does return.                                               *)
(***************************************************************************)
EXTENDS Naturals

CONSTANTS Dir, Root, Parent(_)

VARIABLES
  given,    \* directories whose listing the visitor has seen
  outcome   \* "running", then "complete" or "partial"

vars == <<given, outcome>>

Init == given = {} /\ outcome = "running"

Give(d) ==
  /\ outcome = "running"
  /\ d \notin given
  /\ d # Root => Parent(d) \in given
  /\ given' = given \cup {d}
  /\ UNCHANGED outcome

Return ==
  /\ outcome = "running"
  /\ \/ given = Dir /\ outcome' = "complete"
     \/ outcome' = "partial"
  /\ UNCHANGED given

Next == Return \/ \E d \in Dir : Give(d)

Safety == Init /\ [][Next]_vars
Spec == Safety /\ <>(outcome # "running")

=============================================================================
