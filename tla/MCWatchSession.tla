--------------------------- MODULE MCWatchSession ---------------------------
(***************************************************************************)
(* A tree with an ignore file, a file and a directory that holds a file    *)
(* and an ignore file of its own.  The rules of `hides` reject the         *)
(* directory, or the file in it.                                           *)
(***************************************************************************)
EXTENDS WatchSession

CONSTANTS i, a, d, di, df, hides, keeps

MCAbove == [p \in Path |-> IF p \in {di, df} THEN {d} ELSE {}]
MCRank == [p \in Path |-> CASE p = i -> 1 [] p = a -> 2 [] p = d -> 3 [] p = di -> 4 [] p = df -> 5]
MCBytes == [c \in Content |-> IF c = hides THEN 2 ELSE 1]
MCHides == [f \in IgnoreFile |-> [c \in Content |->
              IF c = keeps THEN {} ELSE IF f = i THEN {d} ELSE {df}]]
Scenario(detect, limit, changes, cancels, rescans, reads) ==
  [options |-> [detect |-> detect, limit |-> limit],
   budget |-> [changes |-> changes, cancels |-> cancels, rescans |-> rescans, reads |-> reads]]
MCScenarios == {Scenario(FALSE, 4, 2, 0, 0, 0), Scenario(FALSE, 4, 1, 1, 0, 0),
                Scenario(TRUE, 9, 1, 0, 1, 1)}
MCStarts == {[p \in Path |-> keeps]}
=============================================================================
