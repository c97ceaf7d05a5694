------------------------- MODULE MCContentInspection -------------------------
(***************************************************************************)
(* Three files, two of them in one chunk, and two scans: a first one that  *)
(* leaves a cache, a second one that reuses it while the first file is     *)
(* changed under it, or that is interrupted.                               *)
(***************************************************************************)
EXTENDS ContentInspection

CONSTANTS f1, f2, f3, a, b, nul

MCFiles == <<f1, f2, f3>>
MCContents == {<<a>>, <<a, b>>, <<b, b>>, <<a, nul>>, <<b, b, b>>}
MCOriginal == (f1 :> <<a, b>>) @@ (f2 :> <<b>>) @@ (f3 :> <<a>>)

Plain ==
    [hash |-> TRUE, detect |-> TRUE, contentStrict |-> TRUE, cacheStrict |-> TRUE,
     abort |-> FALSE, complete |-> TRUE, limited |-> FALSE, workers |-> 1]

\* A scan on its own, interrupted or failing, with two workers.
Alone ==
    { [Plain EXCEPT !.limited = TRUE, !.workers = 2],
      [Plain EXCEPT !.limited = TRUE, !.workers = 2, !.detect = FALSE, !.contentStrict = FALSE],
      [Plain EXCEPT !.abort = TRUE, !.workers = 2],
      [Plain EXCEPT !.hash = FALSE, !.workers = 2],
      [Plain EXCEPT !.hash = FALSE, !.contentStrict = FALSE, !.complete = FALSE] }

\* A scan that fills the cache, then one that reuses it.
Filling == {Plain, [Plain EXCEPT !.detect = FALSE]}
Reusing ==
    { Plain,
      [Plain EXCEPT !.cacheStrict = FALSE, !.workers = 2],
      [Plain EXCEPT !.limited = TRUE, !.abort = TRUE] }

MCPlans ==
    {<<o>> : o \in Alone}
        \cup {<<o, p>> : o \in Filling, p \in Reusing}
        \cup {<<Plain, [Plain EXCEPT !.hash = FALSE, !.detect = FALSE], Plain>>}
=============================================================================
