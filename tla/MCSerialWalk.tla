---------------------------- MODULE MCSerialWalk ----------------------------
(***************************************************************************)
(* A root r with directories a, b and c, files, a link back to its parent   *)
(* directory (loop), a second way into b (alias), a link out of the root    *)
(* (out) and a broken one (dead).  b is on another file system.  The root   *)
(* may be requested through a link (in).                                   *)
(***************************************************************************)
EXTENDS SerialPromise

MCNodes == {"r", "a", "b", "c", "z", "f", "g", "h", "loop", "alias", "out", "dead", "in"}
MCKind == [n \in MCNodes |-> IF n \in {"r", "a", "b", "c", "z"} THEN "dir"
                             ELSE IF n \in {"f", "g", "h"} THEN "file" ELSE "link"]
MCListing == [n \in MCNodes |-> CASE n = "r" -> <<"b", "f", "a", "out">>
                                  [] n = "a" -> <<"c", "g", "alias">>
                                  [] n = "c" -> <<"loop", "dead">>
                                  [] n = "b" -> <<"h">>
                                  [] OTHER -> <<>>]
MCTarget == [n \in MCNodes |-> CASE n = "loop" -> "a" [] n = "alias" -> "b"
                                 [] n = "in" -> "r" [] n = "out" -> "z" [] n = "dead" -> "gone" [] OTHER -> n]
MCDevice == [n \in MCNodes |-> IF n \in {"b", "h"} THEN 2 ELSE 1]
MCRank == [n \in MCNodes |-> CASE n = "a" -> 1 [] n = "alias" -> 2 [] n = "b" -> 3 [] n = "c" -> 4
                               [] n = "dead" -> 5 [] n = "f" -> 6 [] n = "g" -> 7 [] n = "h" -> 8
                               [] n = "loop" -> 9 [] n = "out" -> 10 [] OTHER -> 11]
MCStarts == {<<"r">>, <<"in">>}

\* At most one operation fails.
Faults == {{}} \cup {{pair} : pair \in
              {<<"a", "ReadDirectory">>, <<"c", "ReadDirectory">>, <<"g", "ReadEntry">>,
               <<"b", "Canonicalize">>, <<"g", "ReadMetadata">>, <<"b", "ReadMetadata">>,
               <<"c", "FileType">>}}

OptionsWith(depths, max_depths, metadata, aborts, filters, outs, faults) ==
    [min_depth : depths, max_depth : max_depths, max_open : {1, 2}, same_file_system : BOOLEAN,
     follow_links : BOOLEAN, collect_metadata : metadata, abort : aborts, sorted : BOOLEAN,
     filter : filters, stdout : outs, contents_first : BOOLEAN, reject_root_link : BOOLEAN,
     fault : faults]

MCOptionSets ==
    OptionsWith({0, 2}, {None, Some(0), Some(1), Some(2)}, {FALSE}, {FALSE}, {{}}, {{}}, {{}})
    \cup OptionsWith({0}, {None}, {FALSE}, {FALSE}, {{"a"}, {"r"}, {"g", "b"}}, {{}, {"h"}}, {{}})
    \cup OptionsWith({0}, {None}, BOOLEAN, BOOLEAN, {{}}, {{}}, Faults)
=============================================================================
