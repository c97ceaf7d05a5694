--------------------------- MODULE MCStatefulWalk ---------------------------
(***************************************************************************)
(* A tree for TLC.  The root 1 holds the directories 2, 6, 8 and 10 and    *)
(* the file 9; 2 holds the directory 3 and the file 5, 3 the file 4, 6 an  *)
(* entry that cannot be read, and 10 a file.  The file system lists them   *)
(* out of order.                                                           *)
(***************************************************************************)
EXTENDS StatefulOrder

MCListing == (1 :> <<9, 6, 2, 8, 10>>) @@ (2 :> <<3, 5>>) @@ (3 :> <<4>>) @@ (6 :> <<7>>) @@ (8 :> <<>>)
             @@ (10 :> <<11>>)

MCUnsorted == [capacity |-> 2, parallelism |-> 0, available |-> 2, maxOpen |-> 16, minDepth |-> 0,
               maxDepth |-> 9, abort |-> FALSE, reentrant |-> FALSE,
               sorts |-> FALSE, removes |-> {5}, prunes |-> {8}]
MCSorting == [MCUnsorted EXCEPT !.capacity = 0, !.parallelism = 4, !.available = 3, !.minDepth = 2,
                                !.sorts = TRUE, !.removes = {}, !.prunes = {}, !.abort = TRUE]
MCSerial == [MCUnsorted EXCEPT !.reentrant = TRUE, !.minDepth = 1, !.abort = TRUE, !.maxDepth = 2]
MCNarrow == [MCSorting EXCEPT !.maxOpen = 0, !.maxDepth = 2]

MCBuilders == {MCUnsorted, MCSorting, MCSerial, MCNarrow}
=============================================================================
