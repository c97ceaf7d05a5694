----------------------------- MODULE MCMultiRoot -----------------------------
(***************************************************************************)
(* Three roots.  p holds a file and the directories a, b and y, the last   *)
(* on another file system; a and b hold two directories each, so that two  *)
(* workers get lanes of several tasks.  q holds the directory d, and the   *)
(* third root is a file.                                                   *)
(***************************************************************************)
EXTENDS MultiRoot

MCNodes == {"p", "a", "b", "y", "c", "e", "i", "j", "f", "g", "h", "l", "w", "q", "d", "k", "s"}
MCKind == [n \in MCNodes |-> IF n \in {"p", "a", "b", "y", "c", "e", "i", "j", "q", "d"} THEN "dir" ELSE "file"]
MCListing == [n \in MCNodes |-> CASE n = "p" -> <<"b", "f", "y", "a">>
                                  [] n = "a" -> <<"c", "g", "e">>
                                  [] n = "b" -> <<"i", "j">>
                                  [] n = "c" -> <<"h">>
                                  [] n = "j" -> <<"l">>
                                  [] n = "y" -> <<"w">>
                                  [] n = "q" -> <<"d">>
                                  [] n = "d" -> <<"k">>
                                  [] OTHER -> <<>>]
MCTarget == [n \in MCNodes |-> n]
MCDevice == [n \in MCNodes |-> IF n \in {"y", "w"} THEN 2 ELSE 1]
MCRank == [n \in MCNodes |-> 1]
MCRoots == 1..3
MCRootPath == [r \in MCRoots |-> CASE r = 1 -> <<"p">> [] r = 2 -> <<"q">> [] r = 3 -> <<"s">>]

OptionsWith(min_depths, max_depths, opens, boundaries, faults) ==
    [min_depth : min_depths, max_depth : max_depths, max_open : opens, same_file_system : boundaries,
     follow_links : {FALSE}, collect_metadata : {FALSE}, abort : BOOLEAN, sorted : {FALSE},
     filter : {{}}, stdout : {{"g"}}, contents_first : {FALSE}, reject_root_link : {FALSE},
     fault : faults]

WalkOptions == OptionsWith({0, 2}, {None, Some(2)}, {1, 2}, BOOLEAN,
                           {{}, {<<"c", "ReadDirectory">>}, {<<"b", "ReadDirectory">>, <<"g", "ReadEntry">>},
                            {<<"d", "ReadDirectory">>, <<"s", "ReadMetadata">>}})

VisitedOptions == OptionsWith({0}, {Some(1)}, {1}, {FALSE},
                              {{}, {<<"f", "ReadEntry">>, <<"q", "ReadDirectory">>}, {<<"s", "ReadMetadata">>}})

MCCallers == [mode : {"walk"}, options : WalkOptions, parallelism : {0}, available : {2}, on_worker : BOOLEAN]
             \cup [mode : {"visit"}, options : VisitedOptions, parallelism : {0}, available : {2},
                   on_worker : BOOLEAN]
=============================================================================
