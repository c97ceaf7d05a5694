--------------------------- MODULE MCOrderedPull ---------------------------
(***************************************************************************)
(* A tree for TLC, its items numbered in path order: 1 is the root, 2, 6   *)
(* and 8 its directories, 9 a file.  2 holds the directory 3 and the file  *)
(* 5, 3 the file 4, and 6 the error 7; 8 is empty.  Three sibling          *)
(* directories compete for two reads, and 3 must overtake 6 and 8.         *)
(***************************************************************************)
EXTENDS OrderedPull

MCItem == 1 .. 9
MCDir == {1, 2, 3, 6, 8}
MCEntries == (1 :> {2, 6, 8, 9}) @@ (2 :> {3, 5}) @@ (3 :> {4}) @@ (6 :> {7}) @@ (8 :> {})

MCBuffered == [buffer |-> 2, abort |-> FALSE, reentrant |-> FALSE, hidden |-> {5}]
MCRendezvous == [buffer |-> 0, abort |-> TRUE, reentrant |-> FALSE, hidden |-> {1}]
MCSerial == [buffer |-> 1, abort |-> FALSE, reentrant |-> TRUE, hidden |-> {4}]
MCSerialAbort == [buffer |-> 0, abort |-> TRUE, reentrant |-> TRUE, hidden |-> {}]

MCIterators == {MCBuffered, MCRendezvous, MCSerial, MCSerialAbort}
=============================================================================
