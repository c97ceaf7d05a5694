----------------------------- MODULE MCDiscovery -----------------------------
(***************************************************************************)
(* One tree with rule files on three levels, and the scans of it: every    *)
(* engine, every form of report, the limits, an unreadable directory, a    *)
(* rule file that is no good, and the overrides.                           *)
(***************************************************************************)
EXTENDS Discovery

Root == <<"r">>
In(d, name) == Append(d, name)
A == In(Root, "a")
C == In(Root, ".c")
D == In(C, ".d")
T == In(Root, "t")
U == In(T, "u")

Dir         == [kind |-> "dir", bytes |-> 0]
File(bytes) == [kind |-> "file", bytes |-> bytes]

Link        == [kind |-> "symlink", bytes |-> 0]

MCTree ==
    [e \in {Root, A, C, D, T, U, In(Root, "target")} |-> Dir]
    @@ [e \in {In(Root, ".gitignore"), In(A, ".gitignore"), In(A, ".ignore"),
               In(C, ".h"), In(C, "q"), In(D, "q"), In(A, "x"), In(A, "y"),
               In(U, "x"), In(In(Root, "target"), "m")} |-> File(1)]
    @@ In(Root, "m") :> File(3)
    @@ In(A, "l") :> Link

MCFilesInOrder ==
    << In(D, "q"), In(C, ".h"), In(C, "q"), In(Root, ".gitignore"), In(A, ".gitignore"),
       In(A, ".ignore"), In(A, "x"), In(A, "y"), In(Root, "m"),
       In(U, "x"), In(In(Root, "target"), "m") >>

Line(pattern) ==
    [pattern |-> pattern, negated |-> FALSE, trailingSlash |-> FALSE,
     leadingSlash |-> FALSE, innerSlash |-> FALSE]
Not(pattern) == [Line(pattern) EXCEPT !.negated = TRUE]

\* The match root ignores y and .c everywhere; the scan root ignores x and t,
\* takes back m, and includes the hidden directory .c; a includes x and y again,
\* and its .ignore outweighs that for y.
MCRuleFiles ==
    In(<<>>, ".gitignore") :> << Line({"y", ".c"}) >>
    @@ In(Root, ".gitignore") :>
          << Line({"x", "m", "t"}), Not({"m"}), [Not({".c"}) EXCEPT !.trailingSlash = TRUE] >>
    @@ In(A, ".gitignore") :> << Not({"x", "y"}) >>
    @@ In(A, ".ignore") :> << [Line({<<"y">>}) EXCEPT !.leadingSlash = TRUE] >>

MCIgnoreFiles == <<".gitignore", ".ignore">>

MCStaticRules == [rank \in 0 .. 5 |-> <<>>]

-----------------------------------------------------------------------------
Plain ==
    [mode |-> "serial", api |-> "full", abort |-> FALSE, inspects |-> TRUE,
     minDepth |-> 0, maxDepth |-> 3, maxFileBytes |-> 9,
     maxEntries |-> None, maxTotalBytes |-> None,
     unreadable |-> {}, broken |-> {}, overrides |-> <<>>]

Parallel == [Plain EXCEPT !.mode = "parallel"]

\* These come to the directories below the root and to no deeper ones.
Shallow         == [Plain EXCEPT !.maxDepth = 2]
ShallowParallel == [Parallel EXCEPT !.maxDepth = 2]

MCPlans ==
    { Plain,
      [Shallow EXCEPT !.maxEntries = 4],
      [Shallow EXCEPT !.maxDepth = 0],
      [Shallow EXCEPT !.api = "compact", !.maxTotalBytes = 4],
      [Shallow EXCEPT !.broken = {In(A, ".ignore")}, !.abort = TRUE],
      ShallowParallel,
      [ShallowParallel EXCEPT !.api = "compact", !.minDepth = 2],
      [ShallowParallel EXCEPT !.api = "stream", !.maxTotalBytes = 4],
      [ShallowParallel EXCEPT !.api = "paths", !.maxFileBytes = 0],
      [ShallowParallel EXCEPT !.unreadable = {A}, !.broken = {In(Root, ".gitignore")}],
      [ShallowParallel EXCEPT !.broken = {In(A, ".ignore")}, !.abort = TRUE],
      [Parallel EXCEPT !.overrides = ParseFile(<< Line({"x", "t", "target"}) >>),
                       !.maxTotalBytes = 3],
      [ShallowParallel EXCEPT !.overrides = ParseFile(<< Not({"a"}) >>),
                              !.maxFileBytes = 2],
      [Shallow EXCEPT !.mode = "fallback"] }

\* A scan by a worker of its own runtime.
ReentrantPlans == { [Shallow EXCEPT !.mode = "fallback"] }
=============================================================================
