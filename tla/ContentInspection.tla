-------------------------- MODULE ContentInspection --------------------------
(***************************************************************************)
(* The batch inspection of scan(): the files a walk selected are divided   *)
(* into one chunk per worker; each worker opens, reads, hashes and checks  *)
(* the files of its chunk, or reuses the evidence an earlier scan left in  *)
(* a ScanCache, while writers go on changing the same files.  A behaviour  *)
(* is a sequence of scans, each with its own options, the cache of one     *)
(* being what its report holds.                                            *)
(*                                                                         *)
(* Data.  A file's content is a short sequence of blocks; one read returns *)
(* one block.  The SHA-256 and the fingerprint of a content are that       *)
(* content (no two contents collide).  Bytes are counted in blocks.        *)
(*                                                                         *)
(* Assumed of the file system: every write moves the clock, and the        *)
(* modification time is put back by a writer only where the platform also  *)
(* has a change time, which no writer can put back.                        *)
(***************************************************************************)
EXTENDS Integers, Sequences, FiniteSets, SequencesExt

CONSTANTS
    Files,           \* the paths, in the order the walk selects them
    Contents,        \* the contents a writer may leave: sequences of blocks
    Original,        \* the content of every path before the first scan
    Nul,             \* the block that makes a file binary
    Writable,        \* the paths the writers change
    Platforms,       \* the platforms considered: unix, windows, other
    Plans,           \* the sequences of scan options considered
    FilesPerWorker,  \* files that justify one more worker (128 in the code)
    Window,          \* blocks looked at when only binaries are detected
    MaxBlocks,       \* max_file_bytes
    MaxWrites,       \* bound on the number of writes
    None

Paths  == ToSet(Files)
Blocks == UNION {ToSet(content) : content \in Contents \cup {Original[p] : p \in Paths}}

ASSUME InspectionConstants ==
    /\ {FilesPerWorker, Window, MaxBlocks} \subseteq Nat \ {0}
    /\ MaxWrites \in Nat
    /\ None \notin Nat /\ None \notin {"Cancelled", "Timeout"}
    /\ None \notin [path : Paths, kind : {"IoError", "Concurrent"}]
    /\ Platforms \subseteq {"unix", "windows", "other"}
    /\ Files \in Seq(Paths)
    /\ \A i, j \in DOMAIN Files : Files[i] = Files[j] => i = j
    /\ Original \in [Paths -> Seq(Blocks)] /\ Contents \subseteq Seq(Blocks)
    /\ Writable \subseteq Paths

Option == [hash : BOOLEAN, detect : BOOLEAN, contentStrict : BOOLEAN, cacheStrict : BOOLEAN,
           abort : BOOLEAN, complete : BOOLEAN, limited : BOOLEAN, workers : Nat]

ASSUME PlansAssumption == Plans \subseteq Seq(Option)

VARIABLES
    platform,   \* decides which parts of a file version are known
    inodes,     \* every file there ever was: its blocks and times
    at,         \* the inode a path names, or None
    clock,      \* the time of the last write
    history,    \* every [path, version, blocks] there ever was
    plan,       \* the options of the scans of this behaviour
    scan,       \* the number of scans begun
    phase,      \* "idle" or "inspecting"
    input,      \* the files this scan's walk selected
    cache,      \* ScanCache::entries of the last report
    cancelled,  \* the cancellation token of this scan
    expired,    \* the timeout of this scan has elapsed
    stop,       \* InspectionStop: the reason published first
    worker,     \* the worker of every chunk
    out,        \* its InspectedFiles, or its error
    result      \* what the last finished scan returned

disk == <<inodes, at, clock, history>>
call == <<plan, scan, phase, input, cache, result>>
vars == <<platform, disk, call, cancelled, expired, stop, worker, out>>

options == plan[scan]
Chunks  == DOMAIN worker

-----------------------------------------------------------------------------
(* File versions. *)

Version(i, f) == [modified |-> f.modified, changed |-> f.changed, identity |-> i]

\* from_metadata: what the walk sees.
Metadata(i) ==
    [ Version(i, inodes[i]) EXCEPT
        !.changed  = IF platform = "unix" THEN @ ELSE None,
        !.identity = IF platform = "unix" THEN @ ELSE None ]

\* snapshot: what an open handle tells.
Snapshot(i) ==
    [ Version(i, inodes[i]) EXCEPT
        !.changed  = IF platform = "unix" THEN @ ELSE None,
        !.identity = IF platform = "other" THEN None ELSE @ ]

OptionalEqual(a, b) == a = None \/ b = None \/ a = b

Reusable(previous, current) ==
    /\ previous.modified = current.modified
    /\ OptionalEqual(previous.changed, current.changed)
    /\ OptionalEqual(previous.identity, current.identity)

-----------------------------------------------------------------------------
(* The workers of a scan. *)

CeilDiv(a, b) == (a + b - 1) \div b

WorkerCount(requested, n) ==
    LET justified == CeilDiv(n, FilesPerWorker)
        wanted    == IF requested < justified THEN requested ELSE justified
    IN  IF wanted < 1 THEN 1 ELSE wanted

\* The files in chunks of equal size; one chunk, perhaps empty, is inspected
\* by the caller itself.
ChunksOf(files, requested) ==
    LET n       == Len(files)
        workers == WorkerCount(requested, n)
        size    == CeilDiv(n, workers)
    IN  IF workers <= 1
        THEN <<files>>
        ELSE [c \in 1 .. CeilDiv(n, size) |->
                 SubSeq(files, ((c - 1) * size) + 1,
                        IF c * size < n THEN c * size ELSE n)]

AtRest(files) ==
    [pc |-> "takes", todo |-> files, mode |-> None, inode |-> None,
     before |-> None, read |-> <<>>, own |-> None]

Nothing == [files |-> <<>>, skipped |-> <<>>, warnings |-> <<>>,
            termination |-> None, error |-> None]

-----------------------------------------------------------------------------
Init ==
    /\ platform \in Platforms
    /\ inodes = [i \in DOMAIN Files |->
                    [blocks |-> Original[Files[i]], modified |-> 0, changed |-> 0]]
    /\ at = [p \in ToSet(Files) |-> CHOOSE i \in DOMAIN Files : Files[i] = p]
    /\ clock = 0
    /\ history = {[path |-> Files[i], version |-> Version(i, inodes[i]),
                   blocks |-> inodes[i].blocks] : i \in DOMAIN Files}
    /\ plan \in Plans
    /\ scan = 0
    /\ phase = "idle"
    /\ input = <<>>
    /\ cache = {}
    /\ cancelled = FALSE
    /\ expired = FALSE
    /\ stop = None
    /\ worker = <<>>
    /\ out = <<>>
    /\ result = None

-----------------------------------------------------------------------------
(* The writers. *)

Records(p, i, f) ==
    /\ clock' = clock + 1
    /\ history' = history \cup {[path |-> p, version |-> Version(i, f), blocks |-> f.blocks]}
    /\ UNCHANGED <<platform, call, cancelled, expired, stop, worker, out>>

\* The file a write leaves behind, its modification time put back or not.
Written(i, blocks, kept) ==
    [blocks |-> blocks, changed |-> clock + 1,
     modified |-> IF kept THEN inodes[i].modified ELSE clock + 1]

MayWrite(p, kept) ==
    /\ clock < MaxWrites
    /\ at[p] # None
    /\ kept => platform = "unix"

WritesInPlace(p, blocks, kept) ==
    LET f == Written(at[p], blocks, kept)
    IN  /\ MayWrite(p, kept)
        /\ blocks # inodes[at[p]].blocks
        /\ inodes' = [inodes EXCEPT ![at[p]] = f]
        /\ Records(p, at[p], f)
        /\ UNCHANGED at

\* A new file is renamed over the path; an open handle still reads the old one.
Replaces(p, blocks, kept) ==
    LET f == Written(at[p], blocks, kept)
        i == Len(inodes) + 1
    IN  /\ MayWrite(p, kept)
        /\ inodes' = Append(inodes, f)
        /\ at' = [at EXCEPT ![p] = i]
        /\ Records(p, i, f)

Removes(p) ==
    /\ MayWrite(p, FALSE)
    /\ at' = [at EXCEPT ![p] = None]
    /\ clock' = clock + 1
    /\ UNCHANGED <<platform, inodes, history, call, cancelled, expired, stop, worker, out>>

Writes ==
    \E p \in Writable :
        \/ Removes(p)
        \/ \E blocks \in Contents, kept \in BOOLEAN :
               WritesInPlace(p, blocks, kept) \/ Replaces(p, blocks, kept)

-----------------------------------------------------------------------------
(* The caller. *)

\* What the walk selects: the files there are, none over the size limit.
Present == {k \in DOMAIN Files : /\ at[Files[k]] # None
                                 /\ Len(inodes[at[Files[k]]].blocks) <= MaxBlocks}

\* The n-th smallest of a set of numbers.
Nth(S, n) == CHOOSE k \in S : Cardinality({j \in S : j < k}) = n - 1

SeenFile(p) ==
    [path |-> p, bytes |-> Len(inodes[at[p]].blocks), version |-> Metadata(at[p]),
     hash |-> None, binary_checked |-> FALSE, proven |-> FALSE]

Selected == [n \in 1 .. Cardinality(Present) |-> SeenFile(Files[Nth(Present, n)])]

\* scan_with_cache: the walk, then inspect_files divides the work, or returns
\* at once when nothing is to be inspected.
Begins ==
    /\ phase = "idle"
    /\ scan < Len(plan)
    /\ scan' = scan + 1
    /\ input' = Selected
    /\ cancelled' = FALSE
    /\ expired' = FALSE
    /\ stop' = None
    /\ LET o      == plan[scan + 1]
           chunks == ChunksOf(Selected, o.workers)
       IN  IF o.hash \/ o.detect
           THEN /\ phase' = "inspecting"
                /\ worker' = [c \in DOMAIN chunks |-> AtRest(chunks[c])]
                /\ out' = [c \in DOMAIN chunks |-> Nothing]
                /\ UNCHANGED <<cache, result>>
           ELSE /\ result' = [Nothing EXCEPT !.files = Selected]
                /\ cache' = {}
                /\ UNCHANGED <<phase, worker, out>>
    /\ UNCHANGED <<platform, disk, plan>>

\* Another thread cancels the token, or the timeout elapses.
Cancels ==
    /\ phase = "inspecting" /\ options.limited /\ ~cancelled
    /\ cancelled' = TRUE
    /\ UNCHANGED <<platform, disk, call, expired, stop, worker, out>>

Expires ==
    /\ phase = "inspecting" /\ options.limited /\ ~expired
    /\ expired' = TRUE
    /\ UNCHANGED <<platform, disk, call, cancelled, stop, worker, out>>

\* The chunks are joined in order and their results put together in that
\* order; the first error of a chunk is the error of the scan.
Merged ==
    LET failed == {c \in Chunks : out[c].error # None}
        stopped == {c \in Chunks : out[c].termination # None}
        First(C) == CHOOSE c \in C : \A d \in C : c <= d
    IN  IF failed # {}
        THEN [Nothing EXCEPT !.error = out[First(failed)].error]
        ELSE [files |-> FlattenSeq([c \in Chunks |-> out[c].files]),
              skipped |-> FlattenSeq([c \in Chunks |-> out[c].skipped]),
              warnings |-> FlattenSeq([c \in Chunks |-> out[c].warnings]),
              termination |-> IF stopped = {} THEN None ELSE out[First(stopped)].termination,
              error |-> None]

\* ScanCache::from_report keeps the files that have a hash.
FromReport(files) ==
    {[path |-> f.path, bytes |-> f.bytes, hash |-> f.hash, version |-> f.version,
      binary_checked |-> f.binary_checked, proven |-> f.proven] :
        f \in {g \in files : g.hash # None}}

InspectedFiles == UNION {ToSet(out[c].files) : c \in Chunks}

\* The scope ends when every worker has; a scan that fails leaves no report,
\* and the caller keeps the cache it has.
Returns ==
    /\ phase = "inspecting"
    /\ \A c \in Chunks : worker[c].pc = "ended"
    /\ phase' = "idle"
    /\ result' = Merged
    /\ cache' = IF Merged.error = None THEN FromReport(InspectedFiles) ELSE cache
    /\ worker' = <<>>
    /\ out' = <<>>
    /\ UNCHANGED <<platform, disk, plan, scan, input, cancelled, expired, stop>>

-----------------------------------------------------------------------------
(* One worker.  Its current file is the head of what it has to do. *)

File(c) == Head(worker[c].todo)

OthersUnchanged == UNCHANGED <<platform, disk, call, cancelled, expired>>

\* The current file is dealt with: the worker takes the next one.
NextFile(c) ==
    worker' = [worker EXCEPT ![c] = AtRest(Tail(@.todo))]

Keeps(c, f) ==
    /\ out' = [out EXCEPT ![c].files = Append(@, f)]
    /\ NextFile(c)

Skipped(c, kind) == [path |-> File(c).path, kind |-> kind]

Skips(c, kind) ==
    IF options.complete
    THEN Append(out[c].skipped, Skipped(c, kind))
    ELSE out[c].skipped

\* record_binary_skip
SkipsBinary_Silent(c) ==
    /\ NextFile(c)
    /\ UNCHANGED out

SkipsBinary(c) ==
    /\ out' = [out EXCEPT ![c].skipped = Skips(c, "Binary")]
    /\ NextFile(c)

\* record_limit_skip, and the termination of the chunk.
LimitSkips_Silent(c, reason) ==
    /\ out' = [out EXCEPT ![c].skipped = Skips(c, "ScanLimit")]
    /\ NextFile(c)

LimitSkips(c, reason) ==
    /\ out' = [out EXCEPT ![c].skipped = Skips(c, "ScanLimit"),
                          ![c].termination = reason]
    /\ NextFile(c)

\* record_concurrent_modification, record_io_error: the end of the chunk under
\* ErrorPolicy::Abort, a warning otherwise.
Warns(c, kind) ==
    IF options.abort
    THEN /\ out' = [out EXCEPT ![c].error = Skipped(c, kind)]
         /\ worker' = [worker EXCEPT ![c] = [AtRest(<<>>) EXCEPT !.pc = "ended"]]
    ELSE /\ out' = [out EXCEPT ![c].skipped = Skips(c, kind),
                               ![c].warnings = Append(@, Skipped(c, kind))]
         /\ NextFile(c)

\* The token is asked before the clock.
Interruption ==
    IF cancelled THEN "Cancelled" ELSE IF expired THEN "Timeout" ELSE None

\* InspectionStop::request: the first reason stays.
Requests(reason) == stop' = IF stop = None THEN reason ELSE stop

\* The cached evidence of a file, if it may stand for its content.
Candidates(f) ==
    {e \in cache :
        /\ e.path = f.path
        /\ e.bytes = f.bytes
        /\ Reusable(e.version, f.version)
        /\ options.detect => e.binary_checked}

\* apply_cached
WithCached(f, e) ==
    [f EXCEPT !.hash = e.hash, !.binary_checked = e.binary_checked,
              !.proven = e.proven]

Opening(c, mode) == worker' = [worker EXCEPT ![c].pc = "opens", ![c].mode = mode]

\* The top of inspect_chunk's loop: the published reason, then this worker's
\* own look at the token and the clock, then the cache.
Ends(c) ==
    /\ worker[c].pc = "takes"
    /\ worker[c].todo = <<>>
    /\ worker' = [worker EXCEPT ![c].pc = "ended"]
    /\ UNCHANGED <<stop, out>>
    /\ OthersUnchanged

Takes(c) ==
    /\ worker[c].pc = "takes"
    /\ worker[c].todo # <<>>
    /\ \/ /\ stop # None
          /\ LimitSkips(c, stop)
       \/ /\ stop = None
          /\ Interruption # None
          /\ worker' = [worker EXCEPT ![c].pc = "publishes", ![c].own = Interruption]
          /\ UNCHANGED out
       \/ /\ stop = None
          /\ Interruption = None
          /\ \/ /\ Candidates(File(c)) = {}
                /\ Opening(c, "inspect")
                /\ UNCHANGED out
             \/ \E e \in Candidates(File(c)) :
                    IF options.cacheStrict
                    THEN Opening(c, "validate") /\ UNCHANGED out
                    ELSE Keeps(c, WithCached(File(c), e))
    /\ UNCHANGED stop
    /\ OthersUnchanged

\* The rest of InspectionStop::reason: another worker may have published its
\* reason meanwhile, and that one is returned.
Publishes_Forgets(c) ==
    /\ worker[c].pc = "publishes"
    /\ worker' = [worker EXCEPT ![c].pc = "takes"]
    /\ UNCHANGED <<stop, out>>
    /\ OthersUnchanged

Publishes(c) ==
    /\ worker[c].pc = "publishes"
    /\ Requests(worker[c].own)
    /\ LimitSkips(c, stop')
    /\ OthersUnchanged

\* File::open and the first snapshot, of inspect and of validate_cached.
Opens(c) ==
    LET f == File(c)
        i == at[f.path]
    IN  /\ worker[c].pc = "opens"
        /\ \/ /\ i = None
              /\ Warns(c, "IoError")
           \/ /\ i # None
              /\ IF \/ Len(inodes[i].blocks) # f.bytes
                    \/ ~Reusable(f.version, Snapshot(i))
                    \/ worker[c].mode = "inspect" /\ f.bytes > MaxBlocks
                 THEN Warns(c, "Concurrent")
                 ELSE /\ worker' = [worker EXCEPT ![c].pc = "reads", ![c].inode = i,
                                                  ![c].before = Snapshot(i), ![c].read = <<>>]
                      /\ UNCHANGED out
        /\ UNCHANGED stop
        /\ OthersUnchanged

\* One turn of read_bounded's loop: the interruption is looked at first, then
\* a block is read; the one block past the expected size only detects growth.
\* An interrupted worker records its own reason, whatever is published.
WholeFile(c) == worker[c].mode = "validate" \/ options.hash

Reads_NoSentinel(c) ==
    LET blocks == inodes[worker[c].inode].blocks
        n      == Len(worker[c].read)
    IN  /\ worker[c].pc = "reads"
        /\ \/ n = File(c).bytes /\ Warns(c, "Concurrent")
           \/ /\ n < File(c).bytes /\ n < Len(blocks)
              /\ worker' = [worker EXCEPT ![c].read = Append(@, blocks[n + 1])]
              /\ UNCHANGED out
        /\ UNCHANGED stop
        /\ OthersUnchanged

Reads(c) ==
    LET f      == File(c)
        blocks == inodes[worker[c].inode].blocks
        n      == Len(worker[c].read)
        limit  == IF f.bytes < MaxBlocks THEN f.bytes ELSE MaxBlocks
        read   == Append(worker[c].read, blocks[n + 1])
    IN  /\ worker[c].pc = "reads"
        /\ IF Interruption # None
           THEN /\ LimitSkips(c, Interruption)
                /\ Requests(Interruption)
           ELSE /\ \/ /\ n >= Len(blocks)          \* BoundedReadStatus::Complete
                      /\ IF WholeFile(c) /\ n # f.bytes
                         THEN Warns(c, "Concurrent")
                         ELSE worker' = [worker EXCEPT ![c].pc = "rechecks"] /\ UNCHANGED out
                   \/ /\ n < Len(blocks)           \* BoundedReadStatus::Grown
                      /\ n = limit
                      /\ Warns(c, "Concurrent")
                   \/ /\ n < Len(blocks) /\ n < limit
                      /\ worker[c].mode = "inspect" /\ options.detect
                      /\ blocks[n + 1] = Nul
                      /\ SkipsBinary(c)
                   \/ /\ n < Len(blocks) /\ n < limit
                      /\ worker[c].mode = "validate" \/ ~options.detect \/ blocks[n + 1] # Nul
                      /\ worker' =
                            [worker EXCEPT ![c].read = read,
                                ![c].pc = IF ~WholeFile(c) /\ n + 1 >= Window
                                          THEN "rechecks" ELSE "reads"]
                      /\ UNCHANGED out
                /\ UNCHANGED stop
        /\ OthersUnchanged

\* The second snapshot and the outcome.  A cached file whose content is not
\* what the cache says is inspected from the start, with its new version.
Inspected(c, after) ==
    [File(c) EXCEPT
        !.version = after,
        !.binary_checked = options.detect,
        !.hash = IF options.hash THEN worker[c].read ELSE None,
        !.proven = options.contentStrict]

Rechecks_Trusts(c) ==
    /\ worker[c].pc = "rechecks"
    /\ IF worker[c].mode = "inspect"
       THEN Keeps(c, Inspected(c, worker[c].before))
       ELSE \E e \in Candidates(File(c)) : Keeps(c, WithCached(File(c), e))
    /\ UNCHANGED stop
    /\ OthersUnchanged

Rechecks(c) ==
    LET w       == worker[c]
        after   == Snapshot(w.inode)
        checked == w.mode = "validate" \/ options.contentStrict
        changed == \/ Len(inodes[w.inode].blocks) # File(c).bytes
                   \/ ~Reusable(w.before, after)
    IN  /\ w.pc = "rechecks"
        /\ \/ /\ checked /\ changed
              /\ Warns(c, "Concurrent")
           \/ /\ ~(checked /\ changed)
              /\ w.mode = "inspect"
              /\ Keeps(c, Inspected(c, IF checked THEN after ELSE w.before))
           \/ /\ ~changed
              /\ w.mode = "validate"
              /\ \E e \in Candidates(File(c)) :
                    IF w.read = e.hash
                    THEN Keeps(c, WithCached([File(c) EXCEPT !.version = after], e))
                    ELSE /\ worker' = [worker EXCEPT ![c].pc = "opens", ![c].mode = "inspect",
                                                     ![c].todo[1].version = after]
                         /\ UNCHANGED out
        /\ UNCHANGED stop
        /\ OthersUnchanged

WorkerStep(c) ==
    \/ Ends(c) \/ Takes(c) \/ Publishes(c)
    \/ Opens(c) \/ Reads(c) \/ Rechecks(c)

Next ==
    \/ Writes
    \/ Begins \/ Cancels \/ Expires \/ Returns
    \/ phase = "inspecting" /\ \E c \in Chunks : WorkerStep(c)

\* The operating system runs every worker, and the caller waits for them.
Fairness ==
    /\ WF_vars(Returns)
    /\ \A c \in DOMAIN Files :
        WF_vars(phase = "inspecting" /\ c \in Chunks /\ WorkerStep(c))

Spec == Init /\ [][Next]_vars /\ Fairness

-----------------------------------------------------------------------------
(* Properties. *)

\* The state of a file between two steps of a worker is a state of the loop.
TypeOK ==
    /\ phase \in {"idle", "inspecting"}
    /\ stop \in {None, "Cancelled", "Timeout"}
    /\ \A c \in Chunks :
        /\ worker[c].pc \in {"takes", "publishes", "opens", "reads", "rechecks", "ended"}
        /\ worker[c].mode \in {None, "validate", "inspect"}
        /\ worker[c].pc \in {"takes", "publishes"} => worker[c].mode = None

\* Evidence is of its version (inspect, validate_cached, apply_cached): the
\* hash a report or a cache gives a file is of the content that the file had
\* under the version it gives, over any number of scans and reuses, and a file
\* said to be checked for binaries had no NUL in it - provided the evidence
\* was first taken under ContentValidationPolicy::Strict.  Writers truncate,
\* extend, rewrite and replace the file meanwhile, and put its times back.
Evidence(e) ==
    LET under == {h \in history : h.path = e.path /\ Reusable(h.version, e.version)}
    IN  /\ under # {}
        /\ \A h \in under :
            /\ e.hash # None => h.blocks = e.hash
            /\ e.binary_checked =>
                \A k \in DOMAIN h.blocks : h.blocks[k] = Nul => e.hash = None /\ k > Window

EvidenceIsOfItsVersion ==
    /\ \A e \in cache : e.proven => Evidence(e)
    /\ \A c \in Chunks : \A k \in DOMAIN out[c].files :
        out[c].files[k].proven => Evidence(out[c].files[k])

\* Every file once (inspect_files): a report lists its files, the files it left
\* out and its warnings in the order of the walk, none of them twice; under
\* EvidenceMode::Complete every selected file is either among the files or among
\* those left out, and there is a warning for each one left out because of an
\* error - whatever chunk it was in and however that chunk ended.
Place(p) == CHOOSE k \in DOMAIN input : input[k].path = p

InWalkOrder(entries) ==
    /\ \A j \in DOMAIN entries : \E k \in DOMAIN input : input[k].path = entries[j].path
    /\ \A i, j \in DOMAIN entries : i < j => Place(entries[i].path) < Place(entries[j].path)

PathsOf(entries) == {entries[k].path : k \in DOMAIN entries}

OfKind(entries, kinds) == {entries[k].path : k \in {j \in DOMAIN entries : entries[j].kind \in kinds}}

Reports == phase = "idle" /\ scan > 0 /\ result.error = None

AccountedOnce ==
    /\ TypeOK
    /\ Reports =>
        /\ InWalkOrder(result.files) /\ InWalkOrder(result.skipped) /\ InWalkOrder(result.warnings)
        /\ options.complete =>
            /\ \A k \in DOMAIN input :
                (input[k].path \in PathsOf(result.files)) # (input[k].path \in PathsOf(result.skipped))
            /\ PathsOf(result.warnings) = OfKind(result.skipped, {"IoError", "Concurrent"})

\* Termination is true (InspectionStop, batch.rs): a report names a termination
\* exactly when a file was left out because of it, the reason it names is one
\* that occurred in this scan, and once a worker has left out a file because of
\* it, it leaves out all that follow in its chunk.
TerminationIsTrue ==
    Reports =>
       /\ result.termination = "Cancelled" => cancelled
       /\ result.termination = "Timeout" => expired
       /\ options.complete =>
            LET limited == OfKind(result.skipped, {"ScanLimit"})
                chunks  == ChunksOf(input, options.workers)
            IN  /\ (result.termination # None) <=> (limited # {})
                /\ \A c \in DOMAIN chunks : \A i, j \in DOMAIN chunks[c] :
                    i < j /\ chunks[c][i].path \in limited => chunks[c][j].path \in limited

\* No false alarm (bounded.rs, inspect, validate_cached): a file is reported as
\* changed while it was read, or as unreadable, as a warning or as the error of
\* the scan, only when a writer did change it after the walk saw it.
SeenByTheWalk(p) == input[Place(p)]

ChangedSince(p) ==
    \/ at[p] = None
    \/ ~Reusable(Version(at[p], inodes[at[p]]), SeenByTheWalk(p).version)

ChangesAreReal ==
    \A c \in Chunks :
        /\ out[c].error # None => ChangedSince(out[c].error.path)
        /\ \A k \in DOMAIN out[c].warnings : ChangedSince(out[c].warnings[k].path)

\* A scan returns (bounded.rs, batch.rs): however the files change and the scan
\* is interrupted, every worker comes to the end of its chunk.
ScanReturns == (phase = "inspecting") ~> (phase = "idle")
=============================================================================
