------------------------------ MODULE Discovery ------------------------------
(***************************************************************************)
(* A scan from its root to its report: the walk hands the entries of the   *)
(* tree to the selection - one at a time on the caller's thread, or one    *)
(* directory at a time by workers that share the report and the matcher    *)
(* under a lock - which reads the ignore files on the way, selects or      *)
(* skips, and stops at a limit; the files selected are cut to the byte     *)
(* budget, inspected, and reported: in full, in compact form, to a sink or *)
(* as paths only.                                                          *)
(*                                                                         *)
(* The inspection of one file is a step without detail here: module        *)
(* ContentInspection has it.  How workers share directories is module      *)
(* DynamicWalk; here any directory found may be delivered next.            *)
(***************************************************************************)
EXTENDS IgnoreRules

CONSTANTS
    Tree,            \* every entry at or below the scan root: [kind, bytes]
    FilesInOrder,    \* the files of the tree in the order of their paths
    StandardSkips,   \* the directory names of DEFAULT_SKIP_DIRECTORIES
    Extensions,      \* the file names that accepts_extension accepts
    ChunkSize,       \* files of one inspection of a compact scan (4096)
    Plans            \* the scans: see PlanOK

PlanOK(p) ==
    /\ p.mode \in {"serial", "parallel", "fallback"}
    /\ p.maxEntries # None => p.mode = "serial"      \* uses_parallel_traversal
    /\ p.api \in {"full", "compact", "stream", "paths"}
    /\ p.abort \in BOOLEAN                            \* ErrorPolicy::Abort
    /\ p.inspects \in BOOLEAN                         \* hashing or detection
    /\ {p.minDepth, p.maxDepth, p.maxFileBytes} \subseteq Nat
    /\ {p.maxEntries, p.maxTotalBytes} \subseteq Nat \cup {None}
    /\ p.unreadable \subseteq DOMAIN Tree             \* directories
    /\ p.broken \subseteq DOMAIN RuleFiles            \* have a line that is no pattern
    /\ IsRules(p.overrides)

\* A tree below a directory, every file of which has its place in FilesInOrder; a
\* rule file below the scan root is one of them.
ASSUME DiscoveryConstants ==
    /\ ScanRoot \in DOMAIN Tree /\ Tree[ScanRoot].kind = "dir"
    /\ DOMAIN Tree \subseteq Seq(STRING)
    /\ \A e \in DOMAIN Tree \ {ScanRoot} :
          /\ Candidate(e, ScanRoot)
          /\ Parent(e) \in DOMAIN Tree /\ Tree[Parent(e)].kind = "dir"
    /\ \A e \in DOMAIN Tree : Tree[e].kind \in {"dir", "file", "symlink"}
    /\ FilesInOrder \in Seq(DOMAIN Tree)
    /\ ToSet(FilesInOrder) = {e \in DOMAIN Tree : Tree[e].kind = "file"}
    /\ \A j, k \in DOMAIN FilesInOrder : FilesInOrder[j] = FilesInOrder[k] => j = k
    /\ \A file \in DOMAIN RuleFiles : Candidate(file, ScanRoot) => file \in DOMAIN Tree
    /\ None \notin {"Interrupted", "MaxEntries", "MaxTotalBytes"}
    /\ ChunkSize \in Nat \ {0}
    /\ \A p \in Plans : PlanOK(p)

VARIABLES
    plan,
    stage,       \* walks, walked, inspects, ended
    prepared,    \* RepositoryMatcher::directories
    todo,        \* the items not yet handled of the open directories; of a
                 \* parallel walk, those of the batch under the lock
    found,       \* parallel: the directories found and not yet delivered
    entries,     \* ScanRuntime::entries
    cancelled,   \* the token is cancelled, or the timeout has elapsed
    selected,    \* the files selected by the walk and the budget
    skipped,     \* the report's skipped list
    warned,      \* the report has a warning
    termination,
    error,       \* the scan returns an error
    rest,        \* the selected files of no chunk yet
    chunk,       \* the files of this chunk not yet inspected
    reported,    \* the files of the report, or handed to the sink
    stopped      \* the sink asked to stop

walk       == <<prepared, todo, found, entries>>
evidence   == <<skipped, warned, termination, error>>
inspection == <<rest, chunk, reported, stopped>>
vars       == <<plan, stage, walk, cancelled, selected, evidence, inspection>>

Depth(path)      == Len(path) - Len(ScanRoot)
Kind(path)       == Tree[path].kind
IsDir(path)      == Kind(path) = "dir"
Children(d)      == {e \in DOMAIN Tree \ {ScanRoot} : Parent(e) = d}
Skip(path, kind) == [path |-> path, kind |-> kind]
UpTo(n, S)       == {FilesInOrder[k] : k \in 1 .. n} \cap S
SkipAll(S, kind) == IF plan.api = "paths" THEN {} ELSE {Skip(e, kind) : e \in S}

\* ScanReport::terminate keeps the first reason.
Terminated(reason) == IF termination = None THEN reason ELSE termination

-----------------------------------------------------------------------------
(* The matcher: with_options prepares the match root and the scan root.    *)

PreparedWith(base, d, names) ==
    [x \in DOMAIN base \cup {d} |->
        IF x \in DOMAIN base
        THEN base[x]
        ELSE ChildRules(d, names, IF d = <<>> THEN BaseRules ELSE base[Parent(d)])]

\* Down to the n-th directory on the way from the match root.
PreparedDownTo[n \in 0 .. Len(ScanRoot)] ==
    PreparedWith(IF n = 0 THEN <<>> ELSE PreparedDownTo[n - 1],
                 SubSeq(ScanRoot, 1, n), Configured)

\* The names of rule files that a batch of entries has.
NamesIn(E) == {n \in Configured : \E e \in E : Name(e) = n}

RootIsBroken(p) ==
    \E d \in Ancestors(ScanRoot) \cup {<<>>, ScanRoot} : BrokenIn(d, Configured, p.broken)

Item(e)       == [path |-> e, failed |-> FALSE]
FailedItem(d) == [path |-> d, failed |-> TRUE]

Init ==
    /\ plan \in Plans
    /\ error = (plan.abort /\ RootIsBroken(plan))
    /\ stage = IF error THEN "ended" ELSE "walks"
    /\ warned = (RootIsBroken(plan) /\ plan.api # "paths")
    /\ prepared = PreparedDownTo[Len(ScanRoot)]
    /\ todo = <<{Item(ScanRoot)}>>
    /\ found = {}
    /\ entries = 0
    /\ cancelled = FALSE
    /\ selected = {}
    /\ skipped = {}
    /\ termination = None
    /\ rest = {} /\ chunk = {} /\ reported = {} /\ stopped = FALSE

\* Another thread cancels the token, or the time is up.
Cancel ==
    /\ stage # "ended" /\ ~cancelled
    /\ cancelled' = TRUE
    /\ UNCHANGED <<plan, stage, walk, selected, evidence, inspection>>

-----------------------------------------------------------------------------
(* The decision on one entry.                                              *)

EffectiveMinDepth == IF plan.maxDepth < plan.minDepth THEN plan.maxDepth ELSE plan.minDepth

\* process_entry_with, decide_path and classify: "Select", "Descend", "Pass"
\* (left out without a word) or the kind of skip.
Filtered(e, named) ==
    CASE IsDir(e) /\ ~named /\ Name(e) \in StandardSkips -> "StandardDirectory"
      [] IsDir(e) /\ (named \/ Name(e) \notin StandardSkips) -> "Descend"
      [] ~IsDir(e) /\ ~named /\ Name(e) \notin Extensions -> "Extension"
      [] OTHER -> IF plan.api # "paths" /\ Tree[e].bytes > plan.maxFileBytes
                  THEN "Oversized" ELSE "Select"

DecisionOn(e, match) ==
    IF Depth(e) < EffectiveMinDepth /\ ~IsDir(e)   THEN "Pass"
    ELSE IF Kind(e) = "symlink"                     THEN "Symlink"
    ELSE IF IsDir(e) /\ Depth(e) >= plan.maxDepth  THEN "MaxDepth"
    ELSE [m \in DOMAIN SkipKind |->
             IF SkipKind[m] # None THEN SkipKind[m]
             ELSE Filtered(e, m = "OverrideInclude")][match]

\* With the rules of its directory, whose ancestors the walk has decided.  The
\* root is not matched: it has only its depth against it.
Decision(e, rules) ==
    IF e = ScanRoot THEN (IF plan.maxDepth = 0 THEN "MaxDepth" ELSE "Descend")
    ELSE DecisionOn(e, MatchedWithRules(plan.overrides, e, IsDir(e), rules, TRUE))

Records(e, decision) ==
    /\ selected' = IF decision = "Select" THEN selected \cup {e} ELSE selected
    /\ skipped' = IF decision \in {"Select", "Descend", "Pass"} THEN skipped
                  ELSE skipped \cup SkipAll({e}, decision)

\* before_next: the reason to stop before the next entry.
BeforeNext ==
    CASE cancelled -> "Interrupted"
      [] ~cancelled /\ plan.maxEntries # None /\ entries = plan.maxEntries -> "MaxEntries"
      [] OTHER -> None

Fails ==
    /\ stage' = "ended"
    /\ error' = TRUE
    /\ UNCHANGED <<walk, selected, skipped, warned, termination>>

-----------------------------------------------------------------------------
(* The walk: one entry, with what its visitor does about it.               *)

\* before_next stops the walk; a scan for paths that is interrupted fails.
\* Only the serial engine asks before it knows of a next entry.
StopsBefore ==
    /\ stage = "walks"
    /\ plan.mode = "serial" \/ todo # <<>>
    /\ BeforeNext # None
    /\ IF plan.api = "paths" /\ BeforeNext = "Interrupted"
       THEN Fails
       ELSE /\ stage' = "walked"
            /\ termination' = Terminated(BeforeNext)
            /\ UNCHANGED <<walk, selected, skipped, warned, error>>
    /\ UNCHANGED <<plan, cancelled, inspection>>

\* A directory that has nothing left is closed.
Opened(items, others) == IF items = {} THEN others ELSE <<items>> \o others
Without(item)  == Opened(Head(todo) \ {item}, Tail(todo))
Listing(d)     == IF d \in plan.unreadable THEN {FailedItem(d)}
                  ELSE {Item(e) : e \in Children(d)}

\* Which directory an entry has the matcher prepare, and from which names: the
\* one the serial engine descends into, with all the configured names; the
\* parent in the fallback, whose batches are single entries; none in a
\* parallel walk, where the whole batch has been asked before.
Prepares(e, decision) ==
    CASE plan.mode = "serial" /\ decision = "Descend" -> <<e, Configured>>
      [] plan.mode = "fallback" /\ e # ScanRoot       -> <<Parent(e), NamesIn({e})>>
      [] OTHER                                        -> <<ScanRoot, {}>>

\* An entry is delivered.  A parallel walk keeps the directory for later.
Visits(e) ==
    \E asked \in {Prepares(e, IF plan.mode = "serial"
                             THEN Decision(e, prepared[Parent(e)]) ELSE None)} :
    \E known \in {PreparedWith(prepared, asked[1], asked[2])} :
    \E decision \in {Decision(e, known[Parent(e)])} :
    LET descends == decision = "Descend"
        broken   == asked[1] \notin DOMAIN prepared /\ BrokenIn(asked[1], asked[2], plan.broken)
    IN  IF broken /\ plan.abort THEN Fails
        ELSE /\ prepared' = known
             /\ entries' = entries + 1
             /\ Records(e, decision)
             /\ IF plan.mode = "parallel"
                THEN /\ todo' = Without(Item(e))
                     /\ found' = IF descends THEN found \cup {e} ELSE found
                ELSE /\ todo' = Opened(IF descends THEN Listing(e) ELSE {}, Without(Item(e)))
                     /\ UNCHANGED found
             /\ warned' = (warned \/ (broken /\ plan.api # "paths"))
             /\ UNCHANGED <<stage, termination, error>>

\* A directory could not be read: an error item of the walk.
FailsToRead_Silent(d) ==
    IF plan.abort THEN Fails
    ELSE /\ todo' = Without(FailedItem(d))
         /\ entries' = entries + 1
         /\ warned' = (warned \/ plan.api # "paths")
         /\ UNCHANGED <<stage, prepared, found, selected, skipped, termination, error>>

FailsToRead(d) ==
    IF plan.abort THEN Fails
    ELSE /\ todo' = Without(FailedItem(d))
         /\ entries' = entries + 1
         /\ skipped' = skipped \cup SkipAll({d}, "IoError")
         /\ warned' = (warned \/ plan.api # "paths")
         /\ UNCHANGED <<stage, prepared, found, selected, termination, error>>

HandlesItem ==
    /\ stage = "walks" /\ todo # <<>> /\ BeforeNext = None
    /\ \E item \in Head(todo) :
          IF item.failed THEN FailsToRead(item.path) ELSE Visits(item.path)
    /\ UNCHANGED <<plan, cancelled, inspection>>

\* A worker takes the lock with the entries of a directory it has listed, and
\* has the matcher prepare the directory from the names among them.
PreparesBatch(d) ==
    LET names  == NamesIn(Children(d))
        broken == d \notin DOMAIN prepared /\ BrokenIn(d, names, plan.broken)
    IN  IF d \in plan.unreadable \/ Children(d) = {}
        THEN UNCHANGED <<stage, prepared, warned, error>>
        ELSE IF broken /\ plan.abort
             THEN stage' = "ended" /\ error' = TRUE /\ UNCHANGED <<prepared, warned>>
             ELSE /\ prepared' = PreparedWith(prepared, d, names)
                  /\ warned' = (warned \/ (broken /\ plan.api # "paths"))
                  /\ UNCHANGED <<stage, error>>

TakesBatch ==
    /\ stage = "walks" /\ plan.mode = "parallel" /\ todo = <<>> /\ ~cancelled
    /\ \E d \in found :
          /\ found' = found \ {d}
          /\ todo' = Opened(Listing(d), <<>>)
          /\ PreparesBatch(d)
    /\ UNCHANGED <<plan, cancelled, entries, selected, skipped, termination, inspection>>

\* The walk is over, or the workers see that it is cancelled.
WalkEnds_Drains ==
    /\ stage = "walks" /\ todo = <<>> /\ found = {}
    /\ plan.mode = "serial" => BeforeNext = None
    /\ stage' = "walked"
    /\ UNCHANGED <<plan, walk, cancelled, selected, evidence, inspection>>

WalkEnds ==
    /\ stage = "walks" /\ todo = <<>>
    /\ found = {} \/ cancelled
    /\ plan.mode = "serial" => BeforeNext = None
    /\ stage' = "walked"
    /\ UNCHANGED <<plan, walk, cancelled, selected, evidence, inspection>>

-----------------------------------------------------------------------------
(* After the walk: the budget, the inspection and the report.              *)

BytesOf(S) == MapThenSumSet(LAMBDA f : Tree[f].bytes, S)

\* apply_total_bytes_limit: what goes from the first file that does not fit.
Truncated(S) ==
    LET over == {n \in DOMAIN FilesInOrder :
                   /\ plan.maxTotalBytes # None
                   /\ BytesOf(UpTo(n, S)) > plan.maxTotalBytes}
    IN  IF over = {} THEN {} ELSE S \ UpTo(Min(over) - 1, S)

\* external_termination, then the budget; paths are returned as they are.
Discovered ==
    LET truncated == IF plan.api = "paths" THEN {} ELSE Truncated(selected)
        known     == IF cancelled THEN Terminated("Interrupted") ELSE termination
    IN  /\ stage = "walked"
        /\ IF plan.api = "paths"
           THEN /\ stage' = "ended"
                /\ error' = cancelled
                /\ reported' = selected
                /\ UNCHANGED <<selected, skipped, termination, rest>>
           ELSE /\ stage' = "inspects"
                /\ selected' = selected \ truncated
                /\ skipped' = skipped \cup SkipAll(truncated, "ScanLimit")
                /\ termination' = IF truncated # {} /\ known = None
                                  THEN "MaxTotalBytes" ELSE known
                /\ rest' = selected \ truncated
                /\ UNCHANGED <<error, reported>>
        /\ UNCHANGED <<plan, walk, cancelled, warned, chunk, stopped>>

\* The first n files of S in path order.
First(n, S) == {f \in S : \E k \in DOMAIN FilesInOrder :
                           f = FilesInOrder[k] /\ Cardinality(UpTo(k, S)) <= n}

\* The files inspected at a time: all of a full scan's, a chunk of a compact
\* scan's when there is anything to inspect, one of a stream's.
ChunkLength ==
    CASE plan.api = "stream"                     -> 1
      [] plan.api = "compact" /\ plan.inspects   -> ChunkSize
      [] OTHER                                   -> Len(FilesInOrder)

TakesChunk ==
    /\ stage = "inspects" /\ chunk = {} /\ rest # {}
    /\ chunk' = First(ChunkLength, rest)
    /\ rest' = rest \ chunk'
    /\ UNCHANGED <<plan, stage, walk, cancelled, selected, evidence, reported, stopped>>

\* What happens between two chunks: a full scan has only one, a compact scan
\* and a stream leave the rest alone once there is a reason to terminate.
GoesOn(reason, stop) == plan.api = "full" \/ (reason = None /\ ~stop)

AfterFile(f, reason, keeps, stop) ==
    LET last  == chunk = {f}
        drops == last /\ plan.inspects /\ plan.api = "compact" /\ ~GoesOn(reason, stop)
    IN  /\ chunk' = chunk \ {f}
        /\ reported' = IF keeps THEN reported \cup {f} ELSE reported
        /\ termination' = reason
        /\ stopped' = (stopped \/ stop)
        /\ skipped' = skipped
              \cup (IF keeps THEN {} ELSE SkipAll({f}, "ScanLimit"))
              \cup (IF drops THEN SkipAll(rest, "ScanLimit") ELSE {})
        /\ rest' = IF last /\ ~GoesOn(reason, stop) THEN {} ELSE rest
        /\ UNCHANGED <<plan, stage, walk, cancelled, selected, warned, error>>

\* A file is inspected, and a stream hands it to the sink, which may stop.
Inspects(f) ==
    /\ plan.inspects => ~cancelled
    /\ \/ AfterFile(f, termination, TRUE, FALSE)
       \/ plan.api = "stream" /\ AfterFile(f, termination, TRUE, TRUE)

\* The inspection was interrupted before it came to the file.
LeavesOut(f) ==
    /\ plan.inspects /\ cancelled
    /\ AfterFile(f, Terminated("Interrupted"), FALSE, FALSE)

InspectsFile == stage = "inspects" /\ \E f \in chunk : Inspects(f) \/ LeavesOut(f)

Reports ==
    /\ stage = "inspects" /\ chunk = {} /\ rest = {}
    /\ stage' = "ended"
    /\ UNCHANGED <<plan, walk, cancelled, selected, evidence, inspection>>

Steps ==
    \/ StopsBefore \/ HandlesItem \/ TakesBatch \/ WalkEnds
    \/ Discovered \/ TakesChunk \/ InspectsFile \/ Reports

Next == Cancel \/ Steps

Spec == Init /\ [][Next]_vars /\ WF_vars(Steps)

-----------------------------------------------------------------------------
(* What a scan promises.                                                   *)

\* Every file selected is in one place: to be inspected, or reported, or left out.
TypeOK ==
    /\ stage \in {"walks", "walked", "inspects", "ended"}
    /\ \A d \in DOMAIN prepared : d = <<>> \/ IsPrefix(d, ScanRoot) \/ IsDir(d)
    /\ entries \in Nat
    /\ found \subseteq {e \in DOMAIN Tree : IsDir(e)}
    /\ selected \cup reported \cup chunk \cup rest \subseteq ToSet(FilesInOrder)
    /\ chunk \cap reported = {} /\ rest \cap (chunk \cup reported) = {}
    /\ termination \in {None, "Interrupted", "MaxEntries", "MaxTotalBytes"}

Between(e) == {a \in Ancestors(e) : Len(a) > Len(ScanRoot)}

\* The rules in force in a directory when every rule file has been read: what
\* prepare_directory_inner comes to from the match root downwards.
RulesOf(directory) ==
    LET Up(n) == SubSeq(directory, 1, Len(directory) - n)
    IN  [rank \in Ranks |->
            FlattenSeq([k \in 1 .. Len(directory) + 1 |->
                LET own == OwnRules(Up(k - 1), Configured, rank)
                IN  IF own = <<>> THEN <<>> ELSE <<[base |-> Up(k - 1), rules |-> own]>>])
            \o StaticRules[rank]]

RulesIn[d \in {Parent(e) : e \in DOMAIN Tree}] == RulesOf(d)

\* The files that the options select, whatever walk finds them.
PolicyDecision(e) == Decision(e, RulesIn[Parent(e)])

Reachable(e) ==
    \A a \in Between(e) \cup {ScanRoot} :
        PolicyDecision(a) = "Descend" /\ a \notin plan.unreadable

Policy == {e \in DOMAIN Tree \ {ScanRoot} : Reachable(e) /\ PolicyDecision(e) = "Select"}

Manifest == Policy \ Truncated(IF plan.api = "paths" THEN {} ELSE Policy)

Ended     == stage = "ended" /\ ~error
WalkedAll == termination \notin {"Interrupted", "MaxEntries"}

\* Two shortcuts after a budget that was hit: a compact scan goes no further
\* than its first chunk, and a stream no further than its first file.
CutsShort == termination # None /\ plan.api \in {"compact", "stream"}

\* Selection is the policy (scanner/entry.rs, ignore/repository_source.rs): no
\* engine, order of delivery or interruption selects a file that the ignore
\* files from the match root down to its directory, the overrides and the
\* filters leave out, and a walk that was not cut selects all the others, down
\* to the byte budget.  The fallback of a worker that scans is excepted: see
\* ReentrantScanSelectsTheSame.
SelectionIsThePolicy ==
    plan.mode # "fallback" =>
        /\ selected \subseteq Policy
        /\ stage \in {"inspects", "ended"} /\ ~error /\ WalkedAll /\ ~cancelled
           => selected = Manifest

\* The report is the manifest (scanner/discovery.rs, compact/inspection.rs,
\* stream.rs, paths): the files of a report are files selected; they are all of
\* them, in whatever form, unless the scan was interrupted or the sink stopped;
\* and a file of the tree that is not reported, though no limit cut the walk,
\* has its reason in the report: it is skipped itself, or a directory above it
\* is, or it lies above the least depth.
Explained(e) ==
    \/ e \in reported
    \/ \E s \in skipped : s.path = e \/ s.path \in Between(e) \cup {ScanRoot}
    \/ Depth(e) < EffectiveMinDepth

ReportIsExplained ==
    /\ TypeOK
    /\ Ended =>
        /\ reported \subseteq selected
        /\ ~cancelled /\ ~stopped /\ ~CutsShort => reported = selected
        /\ plan.api \in {"full", "compact"} /\ WalkedAll =>
              \A e \in DOMAIN Tree : ~IsDir(e) => Explained(e)
        /\ (\E s \in skipped : s.kind = "ScanLimit") => termination # None
        /\ termination = "Interrupted" => cancelled
        /\ {s.path : s \in skipped} \cap reported = {}

\* SelectionMatcher: a path is decided on its own, by the directories above it
\* one after the other and then itself, each time with rules that look for a
\* match above the path too.
StandaloneMatch(e) ==
    MatchedWithRules(plan.overrides, e, IsDir(e), RulesIn[Parent(e)], FALSE)

Classified(e) ==
    IF Depth(e) > plan.maxDepth THEN "MaxDepth" ELSE DecisionOn(e, StandaloneMatch(e))

Matched(e) ==
    /\ \A a \in Between(e) : Classified(a) = "Descend"
    /\ Classified(e) = "Select"

\* Where the matcher and the walk part: a match above a path reaches it in the
\* matcher only.  That match may be of the scan root, which a walk never
\* matches; of a directory that is there only by an override; or it may include
\* what the walk skips as hidden.
WalkMatch(e) ==
    MatchedWithRules(plan.overrides, e, IsDir(e), RulesIn[Parent(e)], TRUE)

RootIsIgnored ==
    \E a \in Ancestors(ScanRoot) \cup {ScanRoot} :
        MatchPreparedRules(a, TRUE, RulesOf(ScanRoot)) = "Ignore"

OverriddenIgnore(a) ==
    /\ WalkMatch(a) = "OverrideInclude"
    /\ MatchPreparedRules(a, TRUE, RulesIn[Parent(a)]) = "Ignore"

HiddenBelowIncluded(e) == WalkMatch(e) = "Hidden" /\ StandaloneMatch(e) = "Include"

MatchersPart(e) ==
    \/ RootIsIgnored
    \/ \E a \in Between(e) : OverriddenIgnore(a)
    \/ \E a \in Between(e) \cup {e} : HiddenBelowIncluded(a)

UncutScan ==
    /\ Ended /\ plan.api = "full" /\ plan.mode # "fallback"
    /\ plan.unreadable = {} /\ ~cancelled /\ termination = None

\* The matcher agrees with the walk (selection/classification.rs and
\* watch_update/mod.rs against match_prepared_rules): a scan that nothing cut
\* selects a path exactly when the matcher, asked about that path alone,
\* selects it, outside the three cases where they part.
MatcherAgrees ==
    UncutScan => \A e \in DOMAIN Tree :
        ~IsDir(e) /\ ~MatchersPart(e) => (e \in reported <=> Matched(e))

\* A scan ends, in a report or an error, however the tree is and whenever it is
\* cancelled: the caller is given its thread, or a worker of the pool, back.
ScanEnds == <>(stage = "ended")

\* README.md:661-664 has a walk that a callback starts on the same runtime fall
\* back to the serial engine, and README.md:388 the same selection: a scan in
\* the fallback would select what the policy selects.
ReentrantScanSelectsTheSame ==
    stage = "ended" /\ ~error /\ WalkedAll /\ ~cancelled /\ plan.mode = "fallback"
    => selected = Manifest
=============================================================================
