------------------------------- MODULE Walker -------------------------------
(***************************************************************************)
(* The serial walker of the repository (walker/, walk_iter.rs and          *)
(* walk_visit.rs) as operators on a walker record: construction, one turn  *)
(* of the loop of Iterator::next for each of its branches, and the items a *)
(* whole iteration returns.  SerialWalk drives the turns one at a time for *)
(* a caller; CollectedWalk runs whole walkers inside its lanes.            *)
(*                                                                         *)
(* The file system is a tree of nodes that does not change.  A node has a  *)
(* kind; a directory lists its children in the order read_dir returns      *)
(* them; a link has a target, perhaps one that is gone; Rank is the order  *)
(* of the application's sorter.  What fails is a field of the options      *)
(* (fault), because every operator needs it as it needs the options: it    *)
(* belongs to the environment.  A path is the sequence of the nodes on it, *)
(* and an Option is a sequence of at most one element.                     *)
(***************************************************************************)
EXTENDS Naturals, Sequences, FiniteSets, SequencesExt

CONSTANTS Nodes,     \* the objects of the file system
          Kind,      \* [Nodes -> {"file", "dir", "link"}]
          Listing,   \* [Nodes -> Seq(Nodes)], empty but for directories
          Target,    \* [Nodes -> Nodes \cup {Gone}], the node itself but for links
          Device,    \* [Nodes -> file system identities]
          Rank,      \* [Nodes -> Nat]
          Gone       \* the target of a broken link

ASSUME TreeAssumption ==
    /\ Gone \notin Nodes
    /\ \A n \in Nodes : /\ Kind[n] \in {"file", "dir", "link"}
                        /\ Target[n] \in Nodes \cup {Gone}
                        /\ Kind[n] # "link" => Target[n] = n
                        /\ Target[n] # Gone => Kind[Target[n]] # "link"
                        /\ Listing[n] \in Seq(Nodes) /\ Rank[n] \in Nat
                        /\ Kind[n] # "dir" => Listing[n] = <<>>

None == <<>>
Some(x) == <<x>>

Real(n) == Target[n]

\* The node and everything below it: what `starts_with` decides for resolved paths.
Beneath[n \in Nodes] == {n} \cup UNION {Beneath[c] : c \in ToSet(Listing[n])}

(***************************************************************************)
(* Options.  fault is a set of pairs of a node and the operation that      *)
(* fails on it.                                                            *)
(***************************************************************************)
Operations == {"Canonicalize", "ReadDirectory", "ReadEntry", "FileType", "ReadMetadata"}

Optional(S) == {s \in Seq(S) : Len(s) <= 1}

Options ==
    [min_depth : Nat, max_depth : Optional(Nat), max_open : Nat, same_file_system : BOOLEAN,
     follow_links : BOOLEAN, collect_metadata : BOOLEAN, abort : BOOLEAN, sorted : BOOLEAN,
     filter : SUBSET Nodes, stdout : SUBSET Nodes, contents_first : BOOLEAN,
     reject_root_link : BOOLEAN, fault : SUBSET (Nodes \X Operations)]

Fails(o, n, operation) == <<n, operation>> \in o.fault

normalized(o) ==
    [o EXCEPT !.max_open  = IF @ = 0 THEN 1 ELSE @,
              !.min_depth = IF o.max_depth # None /\ @ > o.max_depth[1] THEN o.max_depth[1] ELSE @]

AtDepthLimit(o, depth) == o.max_depth # None /\ depth >= o.max_depth[1]

Error(path, depth, operation) ==
    [error |-> operation, path |-> path, depth |-> depth, kind |-> "none", skip |-> "none"]
Entry(path, depth, kind, skip) ==
    [error |-> "none", path |-> path, depth |-> depth, kind |-> kind, skip |-> skip]
Item ==
    [error : Operations \cup {"none"}, path : Seq(Nodes), depth : Nat,
     kind : {"none", "file", "dir", "link"},
     skip : {"none", "PathEscape", "FileSystemBoundary", "MaxDepth", "SymlinkLoop"}]

\* The records a walker may be.
PendingDirectory ==
    [path : Seq(Nodes), depth : Nat, identity : Optional(Nodes), post_entry : Optional(Item)]
Frame ==
    [path : Seq(Nodes), depth : Nat, entries : Seq(Nodes), open : BOOLEAN,
     identity : Optional(Nodes), post_entry : Optional(Item)]
Walkers ==
    [root : Nodes, root_path : Seq(Nodes), options : Options, frames : Seq(Frame),
     open_handles : Nat, yield_root : BOOLEAN, pending_directory : Optional(PendingDirectory),
     skip_pending : BOOLEAN, active_directories : SUBSET Nodes, finished : BOOLEAN,
     deferred_entry : Optional(Item), plain_entries : BOOLEAN]

IsError(item) == item.error # "none"
IsDir(entry) == entry.kind = "dir"

(***************************************************************************)
(* Construction.  The root is followed when it is a link, unless the       *)
(* policy rejects it; the path is resolved only when links are followed or *)
(* one file system is kept.                                                *)
(***************************************************************************)
RootError(path, options) ==
    LET root == Last(path) IN
    IF options.reject_root_link /\ Kind[root] = "link" THEN Some(Error(path, 0, "ReadMetadata"))
    ELSE IF (options.follow_links \/ options.same_file_system)
            /\ (Fails(options, root, "Canonicalize") \/ Real(root) = Gone)
         THEN Some(Error(path, 0, "Canonicalize"))
    ELSE IF Real(root) = Gone \/ Fails(options, root, "ReadMetadata")
         THEN Some(Error(path, 0, "ReadMetadata"))
    ELSE None

with_behavior(path, options) ==
    LET o == normalized(options)
        resolves == o.follow_links \/ o.same_file_system
    IN  [root               |-> Real(Last(path)),
         root_path          |-> IF resolves THEN Append(Front(path), Real(Last(path))) ELSE path,
         options            |-> o,
         frames             |-> <<>>,
         open_handles       |-> 0,
         yield_root         |-> TRUE,
         pending_directory  |-> None,
         skip_pending       |-> FALSE,
         active_directories |-> {},
         finished           |-> FALSE,
         deferred_entry     |-> None,
         plain_entries      |-> /\ ~resolves /\ ~o.collect_metadata
                                /\ o.max_depth = None /\ o.min_depth = 0
                                /\ o.filter = {} /\ o.stdout = {} /\ ~o.contents_first]

Pending(path, depth, identity) ==
    [path |-> path, depth |-> depth, identity |-> identity, post_entry |-> None]

from_known_directory(root, path, depth, options) ==
    LET o == [normalized(options) EXCEPT !.filter = {}, !.stdout = {},
                                         !.contents_first = FALSE, !.sorted = FALSE]
    IN  [with_behavior(path, o) EXCEPT !.root = root,
                                       !.yield_root = FALSE,
                                       !.pending_directory = Some(Pending(path, depth, None))]

(***************************************************************************)
(* What a turn returns: the walker after it and the item it gives to the   *)
(* caller, if any.                                                         *)
(***************************************************************************)
Returns(w, item) == [walker |-> w, item |-> Some(item)]
GoesOn(w) == [walker |-> w, item |-> None]

yield_error(w, error) ==
    Returns(IF w.options.abort
            THEN [w EXCEPT !.finished = TRUE, !.frames = <<>>, !.open_handles = 0,
                           !.pending_directory = None, !.active_directories = {}]
            ELSE w,
            error)

skip_current_dir_Always(w) == [w EXCEPT !.skip_pending = TRUE]

skip_current_dir(w) ==
    IF w.pending_directory # None THEN [w EXCEPT !.skip_pending = TRUE] ELSE w

buffer_oldest_open_directory(w) ==
    LET open == {i \in DOMAIN w.frames : w.frames[i].open}
    IN  IF open = {} THEN w
        ELSE [w EXCEPT !.frames[Min(open)].open = FALSE, !.open_handles = @ - 1]

\* The stable sort of a list by keys, kept by position: an element goes to the place of
\* the number of those before it.
SortedBy(list, key) ==
    LET before(i) == {j \in DOMAIN list : key[j] < key[i] \/ (key[j] = key[i] /\ j < i)}
    IN  [k \in DOMAIN list |-> list[CHOOSE i \in DOMAIN list : Cardinality(before(i)) = k - 1]]

\* Read errors come first in a sorted directory.
SortedListing(o, n) ==
    SortedBy(Listing[n], [i \in DOMAIN Listing[n] |->
                              IF Fails(o, Listing[n][i], "ReadEntry") THEN 0
                              ELSE Rank[Listing[n][i]] + 1])

schedule_pending_directory(w) ==
    LET o       == w.options
        pending == w.pending_directory[1]
        node    == Real(Last(pending.path))
        taken   == [w EXCEPT !.pending_directory = None, !.skip_pending = FALSE]
        room    == IF w.open_handles >= o.max_open THEN buffer_oldest_open_directory(taken) ELSE taken
        frame   == [path       |-> pending.path,
                    depth      |-> pending.depth,
                    entries    |-> IF o.sorted THEN SortedListing(o, node) ELSE Listing[node],
                    open       |-> ~o.sorted,
                    identity   |-> pending.identity,
                    post_entry |-> pending.post_entry]
    IN  IF w.skip_pending THEN GoesOn(taken)
        ELSE IF Fails(o, node, "ReadDirectory")
        THEN yield_error([room EXCEPT !.deferred_entry = pending.post_entry],
                         Error(pending.path, pending.depth, "ReadDirectory"))
        ELSE GoesOn([room EXCEPT !.frames = Append(@, frame),
                                 !.open_handles = IF o.sorted THEN @ ELSE @ + 1,
                                 !.active_directories = @ \cup ToSet(pending.identity)])

-----------------------------------------------------------------------------
(***************************************************************************)
(* Visiting one entry.                                                     *)
(***************************************************************************)
\* Boundary and identity of an entry whose target has been looked at.
Boundary(w, depth, real) ==
    IF depth # 0 /\ real \notin Beneath[w.root] THEN "PathEscape"
    ELSE IF Kind[real] = "dir" /\ w.options.same_file_system /\ Device[real] # Device[w.root]
         THEN "FileSystemBoundary"
    ELSE "none"

\* A link that is not followed is a link; one that is has the kind of its target.
entry_facts(w, path, depth, node) ==
    LET o       == w.options
        is_link == Kind[node] = "link"
        broken  == is_link /\ o.follow_links
                   /\ (Real(node) = Gone \/ Fails(o, Real(node), "ReadMetadata"))
        kind    == IF is_link /\ ~o.follow_links THEN "link"
                   ELSE IF broken THEN "none" ELSE Kind[Real(node)]
        looks   == \/ is_link /\ o.follow_links
                   \/ kind = "dir" /\ (o.same_file_system \/ o.follow_links)
        skip    == IF looks /\ ~broken THEN Boundary(w, depth, Real(node)) ELSE "none"
        failure == IF broken THEN "ReadMetadata"
                   ELSE IF looks /\ depth # 0 /\ Fails(o, node, "Canonicalize") THEN "Canonicalize"
                   ELSE IF looks /\ skip # "PathEscape" /\ kind = "dir"
                           /\ Fails(o, Real(node), "ReadMetadata") THEN "ReadMetadata"
                   ELSE "none"
    IN  [error    |-> IF failure = "none" THEN None ELSE Some(Error(path, depth, failure)),
         kind     |-> kind,
         identity |-> IF o.follow_links /\ kind = "dir" /\ skip # "PathEscape"
                      THEN Some(Real(node)) ELSE None,
         skip     |-> skip]

SkipReason(w, facts, depth) ==
    IF facts.kind # "dir" \/ facts.skip # "none" THEN facts.skip
    ELSE IF AtDepthLimit(w.options, depth) THEN "MaxDepth"
    ELSE IF depth # 0 /\ ToSet(facts.identity) \cap w.active_directories # {} THEN "SymlinkLoop"
    ELSE "none"

visit(w, path, depth, facts) ==
    LET skip == SkipReason(w, facts, depth)
    IN  [walker |-> IF facts.kind = "dir" /\ skip = "none"
                    THEN [w EXCEPT !.pending_directory = Some(Pending(path, depth, facts.identity))]
                    ELSE w,
         entry  |-> Entry(path, depth, facts.kind, skip)]

prepare_entry(w, entry) ==
    LET o    == w.options
        node == Last(entry.path)
    IN  IF entry.kind = "file" /\ Real(node) \in o.stdout THEN GoesOn(w)
        ELSE IF node \in o.filter
        THEN GoesOn(IF IsDir(entry)
                    THEN [skip_current_dir(w) EXCEPT !.finished = @ \/ entry.depth = 0]
                    ELSE w)
        ELSE IF o.contents_first /\ IsDir(entry) /\ entry.skip = "none"
        THEN GoesOn(IF entry.depth >= o.min_depth
                    THEN [w EXCEPT !.pending_directory[1].post_entry = Some(entry)]
                    ELSE w)
        ELSE IF entry.depth >= o.min_depth THEN Returns(w, entry)
        ELSE GoesOn(w)

visit_plain(w, path, depth, node) ==
    Returns(IF Kind[node] = "dir"
            THEN [w EXCEPT !.pending_directory = Some(Pending(path, depth, None))]
            ELSE w,
            Entry(path, depth, Kind[node], "none"))

Prepared(seen) == prepare_entry(seen.walker, seen.entry)

VisitWith(w, path, depth, facts) ==
    IF facts.error # None THEN yield_error(w, facts.error[1])
    ELSE Prepared(visit(w, path, depth, facts))

VisitAndPrepare(w, path, depth, node) ==
    VisitWith(w, path, depth, entry_facts(w, path, depth, node))

take_root_entry(w) ==
    LET started == [w EXCEPT !.yield_root = FALSE]
    IN  IF w.plain_entries THEN visit_plain(started, w.root_path, 0, w.root)
        ELSE VisitAndPrepare(started, w.root_path, 0, w.root)

Top(w) == w.frames[Len(w.frames)]

frame_ends_AlwaysCounts(w) ==
    LET frame  == Top(w)
        popped == [w EXCEPT !.frames = Front(@),
                            !.open_handles = @ - 1,
                            !.active_directories = @ \ ToSet(frame.identity)]
    IN  IF frame.post_entry # None THEN Returns(popped, frame.post_entry[1]) ELSE GoesOn(popped)

frame_ends(w) ==
    LET frame  == Top(w)
        popped == [w EXCEPT !.frames = Front(@),
                            !.open_handles = IF frame.open THEN @ - 1 ELSE @,
                            !.active_directories = @ \ ToSet(frame.identity)]
    IN  IF frame.post_entry # None THEN Returns(popped, frame.post_entry[1]) ELSE GoesOn(popped)

read_entry(w) ==
    LET o     == w.options
        frame == Top(w)
        node  == Head(frame.entries)
        path  == Append(frame.path, node)
        depth == frame.depth + 1
        rest  == [w EXCEPT !.frames[Len(w.frames)].entries = Tail(@)]
    IN  IF Fails(o, node, "ReadEntry") THEN yield_error(rest, Error(frame.path, depth, "ReadEntry"))
        ELSE IF Fails(o, node, "FileType") THEN yield_error(rest, Error(path, depth, "ReadMetadata"))
        ELSE IF w.plain_entries THEN visit_plain(rest, path, depth, node)
        ELSE IF o.collect_metadata /\ Kind[node] = "file" /\ Fails(o, node, "ReadMetadata")
        THEN yield_error(rest, Error(path, depth, "ReadMetadata"))
        ELSE VisitAndPrepare(rest, path, depth, node)

-----------------------------------------------------------------------------
(***************************************************************************)
(* The branches of the loop of Iterator::next, tried in this order.        *)
(***************************************************************************)
Running(w)      == ~w.finished
HasDeferred(w)  == Running(w) /\ w.deferred_entry # None
AtRoot(w)       == Running(w) /\ w.deferred_entry = None /\ w.yield_root
HasPending(w)   == Running(w) /\ w.deferred_entry = None /\ ~w.yield_root /\ w.pending_directory # None
InFrames(w)     == /\ Running(w) /\ w.deferred_entry = None /\ ~w.yield_root
                   /\ w.pending_directory = None /\ w.frames # <<>>
AtEnd(w)        == ~(HasDeferred(w) \/ AtRoot(w) \/ HasPending(w) \/ InFrames(w))

TakeDeferred(w) == Returns([w EXCEPT !.deferred_entry = None], w.deferred_entry[1])

Turn(w) ==
    CASE HasDeferred(w) -> TakeDeferred(w)
      [] AtRoot(w)      -> take_root_entry(w)
      [] HasPending(w)  -> schedule_pending_directory(w)
      [] InFrames(w)    -> IF Top(w).entries = <<>> THEN frame_ends(w) ELSE read_entry(w)

\* Everything `for item in walker` sees.
Items[w \in Walkers] ==
    IF AtEnd(w) THEN <<>> ELSE LET turn == Turn(w) IN turn.item \o Items[turn.walker]
=============================================================================
