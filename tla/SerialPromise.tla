--------------------------- MODULE SerialPromise ---------------------------
(***************************************************************************)
(* What a serial walk promises its caller: the items of a recursive        *)
(* traversal, and how the items returned compare with them.                *)
(***************************************************************************)
EXTENDS SerialWalk

Done == AtEnd(walker)

-----------------------------------------------------------------------------
(***************************************************************************)
(* What the options promise, by recursion over the tree and without the    *)
(* walker's stack, handles or pending directory.  `above` is the set of    *)
(* directories the path has come through.                                  *)
(***************************************************************************)
\* The operation that fails on an entry, if one does.
RefFailure(o, node, depth) ==
    LET real     == Real(node)
        follows  == Kind[node] = "link" /\ o.follow_links
        resolves == follows \/ (Kind[node] = "dir" /\ (o.follow_links \/ o.same_file_system))
        measured == \/ Kind[node] = "file" /\ o.collect_metadata
                    \/ follows
                    \/ Kind[node] = "dir" /\ resolves
    IN  IF depth = 0 THEN "none"
        ELSE IF \/ Fails(o, node, "FileType")
                \/ follows /\ (real = Gone \/ Fails(o, real, "ReadMetadata"))
                \/ measured /\ Fails(o, node, "ReadMetadata")
        THEN "ReadMetadata"
        ELSE IF resolves /\ Fails(o, node, "Canonicalize") THEN "Canonicalize"
        ELSE "none"

RefSkip(o, node, depth, above) ==
    LET real   == Real(node)
        top    == walker.root
        looked == o.follow_links \/ (o.same_file_system /\ Kind[node] = "dir")
    IN  IF depth # 0 /\ looked /\ real \notin Beneath[top] THEN "PathEscape"
        ELSE IF (Kind[node] = "link" /\ ~o.follow_links /\ depth # 0) \/ Kind[real] # "dir" THEN "none"
        ELSE IF o.same_file_system /\ Device[real] # Device[top] THEN "FileSystemBoundary"
        ELSE IF AtDepthLimit(o, depth) THEN "MaxDepth"
        ELSE IF o.follow_links /\ real \in above THEN "SymlinkLoop"
        ELSE "none"

RECURSIVE Reference(_, _, _, _), Contents(_, _, _, _, _)
Reference(o, path, depth, above) ==
    LET node    == Last(path)
        real    == Real(node)
        opaque  == Kind[node] = "link" /\ ~o.follow_links /\ depth # 0
        failure == RefFailure(o, node, depth)
        kind    == IF opaque THEN "link" ELSE Kind[real]
        skip    == RefSkip(o, node, depth, above)
        entry   == Entry(path, depth, kind, skip)
        shown   == IF depth >= o.min_depth THEN <<entry>> ELSE <<>>
        order   == IF o.sorted THEN SortedListing(o, real) ELSE Listing[real]
        below   == IF Fails(o, real, "ReadDirectory")
                   THEN <<Error(path, depth, "ReadDirectory")>>
                   ELSE Contents(o, path, depth + 1, above \cup {real}, order)
    IN  IF failure # "none" THEN <<Error(path, depth, failure)>>
        ELSE IF node \in o.filter \/ (kind = "file" /\ real \in o.stdout) THEN <<>>
        ELSE IF kind # "dir" \/ skip # "none" THEN shown
        ELSE IF o.contents_first THEN below \o shown
        ELSE IF shown # <<>> /\ entry \in skipped THEN shown
        ELSE shown \o below

Contents(o, path, depth, above, order) ==
    IF order = <<>> THEN <<>>
    ELSE (IF Fails(o, Head(order), "ReadEntry")
          THEN <<Error(path, depth, "ReadEntry")>>
          ELSE Reference(o, Append(path, Head(order)), depth, above))
         \o Contents(o, path, depth, above, Tail(order))

\* Under ErrorPolicy::Abort nothing comes after the first error.
UpToFirstError(items) ==
    LET bad == {i \in DOMAIN items : IsError(items[i])}
    IN  IF bad = {} THEN items ELSE SubSeq(items, 1, Min(bad))

Promised ==
    LET o     == walker.options
        items == Reference(o, walker.root_path, 0, {})
    IN  IF o.abort THEN UpToFirstError(items) ELSE items

-----------------------------------------------------------------------------
\* Whatever the limit on open handles, the plain fast path, the sorter and the
\* order of errors, the items returned are those the options promise: each entry
\* once, in depth-first order, contents first where asked, with the right skip
\* reason, and a skipped directory's contents not among them.
ReturnsThePromise == Done => returned = Promised
=============================================================================
