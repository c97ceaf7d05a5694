--------------------------- MODULE MCContentVisit ---------------------------
(***************************************************************************)
(* ContentVisit on few files: the channel and the batches are shorter than *)
(* the list of files, so that senders block and jobs stop in mid-batch.    *)
(***************************************************************************)
EXTENDS ContentVisit

MCDirect == [direct |-> TRUE, nested |-> FALSE, abort |-> FALSE, whole |-> TRUE]
MCQueue == [direct |-> FALSE, nested |-> FALSE, abort |-> TRUE, whole |-> TRUE]

MCCalls == {MCDirect, [MCDirect EXCEPT !.abort = TRUE, !.whole = FALSE],
            MCQueue, [MCQueue EXCEPT !.nested = TRUE]}
=============================================================================
