---------------------------- MODULE WatchSession ----------------------------
(***************************************************************************)
(* ScanSession and the watch plans applied to it.  The tree changes at any *)
(* moment and every change leaves watcher events, which                    *)
(* WatcherEventAdapter::plan coalesces into the next plan.  An update      *)
(* either merges the changed paths into the retained report or scans the   *)
(* whole tree again; both read the tree step by step while it changes.  A  *)
(* reader pages through the manifest of one generation.                    *)
(*                                                                         *)
(* ErrorPolicy::Continue, hashing on, Fast cache validation, complete      *)
(* evidence; no links, no include rules, and a root that stays where it is.*)
(* Every write gives a file a new version (timestamps and identity).       *)
(***************************************************************************)
EXTENDS Integers, FiniteSets, FiniteSetsExt

CONSTANTS
  Path,          \* relative paths of the tree, the root excluded
  Above,         \* Above[p]: the directories that hold p, the root excluded
  Rank,          \* the sorted order of the paths
  Root, Nothing, Folder,
  Content, Bytes, Binary,  \* file contents, their length, those with a NUL byte
  IgnoreFile,    \* paths with the name of a configured ignore file
  Hides,         \* Hides[i][c]: the paths the rules c of ignore file i reject
  Starts,        \* the contents the files may have at first
  PageSize,      \* files in one page
  MaxChanges,    \* bound of the clock
  Scenarios      \* the options (detect_binary_files, max_total_bytes) together with
                 \* what the environment may do: changes, cancels, rescans, reads

Policies == [detect : BOOLEAN, limit : Nat]
Budgets == [changes : 0 .. MaxChanges, cancels : Nat, rescans : Nat, reads : Nat]
Files == [content : Content, version : 1 .. MaxChanges + 1]

ASSUME WatchAssumption ==
  /\ IsFiniteSet(Path)
  /\ Above \in [Path -> SUBSET Path] /\ \A p \in Path : p \notin Above[p]
  /\ Rank \in [Path -> Nat] /\ \A p, q \in Path : Rank[p] = Rank[q] => p = q
  /\ Root \notin Path
  /\ Nothing # Folder /\ {Nothing, Folder} \cap Files = {}
  /\ Bytes \in [Content -> Nat] /\ Binary \subseteq Content
  /\ IgnoreFile \subseteq Path
  /\ Hides \in [IgnoreFile -> [Content -> SUBSET Path]]
  /\ Starts \subseteq [Path -> Content]
  /\ PageSize \in Nat \ {0}
  /\ MaxChanges \in Nat
  /\ Scenarios \subseteq [options : Policies, budget : Budgets]

VARIABLES
  disk,         \* what each path is now
  clock,        \* changes so far, the next version
  pending,      \* the plan that the events since the last one coalesce to
  options,      \* ScanSession::options
  report,       \* ScanSession::report
  generation,   \* ScanSession::generation
  reason,       \* ScanSession::last_reason and the reason of the update under way
  stage,        \* what the update under way does
  plan,         \* the plan it applies
  todo,         \* changed paths to check, directories to list
  listing,      \* directories listed, not decided
  matcher,      \* RepositoryMatcher: its prepared directories and its sources
  draft,        \* the report being built
  found,        \* candidates not inspected yet, as their metadata describes them
  reuse,        \* the scan was given the cache of the previous report
  cancelling,   \* the token of this update is cancelled
  budget,       \* what the environment may still do
  interrupted,  \* history: the token of the last finished update was cancelled
  reader        \* the cursor of ScanSession.files and what it has yielded

tree == <<disk, clock, pending>>
session == <<report, generation, reason, interrupted>>
update == <<stage, plan, todo, listing, matcher, draft, found, reuse>>
sessionVars == <<tree, options, session, update, cancelling, budget, reader>>

IsFile(p) == disk[p] \notin {Nothing, Folder}
IsFolder(d) == d # Root => disk[d] = Folder
Parent(p) == IF Above[p] = {} THEN Root
             ELSE CHOOSE q \in Above[p] : Above[p] = Above[q] \cup {q}
Below(d) == {p \in Path : d \in Above[p]}
Within(p, prefixes) == p \in prefixes \/ Above[p] \cap prefixes # {}

NoEvents == [changed |-> {}, removed |-> {}, full |-> FALSE]
NoFiles == [p \in Path |-> Nothing]
EmptyReport == [files |-> NoFiles, skipped |-> {}, sources |-> {}, complete |-> TRUE,
                termination |-> "none"]
Present(files) == {p \in Path : files[p] # Nothing}

(***************************************************************************)
(* The tree and WatcherEventAdapter.                                       *)
(***************************************************************************)
Rescan(events) == [events EXCEPT !.full = TRUE]
Changed(events, p) ==
  IF p \in IgnoreFile THEN Rescan(events)
  ELSE [events EXCEPT !.changed = @ \cup {p}, !.removed = @ \ {p}]
Removed(events, p) ==
  IF p \in IgnoreFile THEN Rescan(events)
  ELSE [events EXCEPT !.changed = @ \ {p}, !.removed = @ \cup {p}]

Spend(what) == budget[what] > 0 /\ budget' = [budget EXCEPT ![what] = @ - 1]

Change(after, events) ==
  /\ Spend("changes")
  /\ clock' = clock + 1 /\ disk' = after /\ pending' = events
  /\ UNCHANGED <<options, session, update, cancelling, reader>>

NewFile(c) == [content |-> c, version |-> clock + 2]
HasHome(p) == IsFolder(Parent(p))
Gone(d) == [p \in Path |-> IF Within(p, {d}) THEN Nothing ELSE disk[p]]

WriteFile(p, c) ==
  /\ HasHome(p) /\ disk[p] # Folder
  /\ Change([disk EXCEPT ![p] = NewFile(c)], Changed(pending, p))
RemoveFile(p) == IsFile(p) /\ Change([disk EXCEPT ![p] = Nothing], Removed(pending, p))
RenameFile(p, q) ==
  /\ IsFile(p) /\ p # q /\ HasHome(q) /\ disk[q] # Folder
  /\ Change([disk EXCEPT ![p] = Nothing, ![q] = NewFile(disk[p].content)],
            Changed(Removed(pending, p), q))
MakeFolder(d) ==
  /\ disk[d] = Nothing /\ HasHome(d) /\ Below(d) # {}
  /\ Change([disk EXCEPT ![d] = Folder], Rescan(pending))
RemoveFolder(d) == disk[d] = Folder /\ Change(Gone(d), Rescan(pending))
\* A directory that leaves the tree or enters it is one event, for the directory.
MoveOut(d) == disk[d] = Folder /\ Change(Gone(d), Removed(pending, d))
MoveIn(d, c) ==
  /\ disk[d] = Nothing /\ HasHome(d) /\ Below(d) # {}
  /\ Change([p \in Path |-> IF p = d THEN Folder
                            ELSE IF p \in Below(d) THEN NewFile(c) ELSE disk[p]],
            Changed(pending, d))

TreeChanges ==
  \E p \in Path :
    \/ \E c \in Content : WriteFile(p, c) \/ MoveIn(p, c)
    \/ \E q \in Path : RenameFile(p, q)
    \/ RemoveFile(p) \/ MakeFolder(p) \/ RemoveFolder(p) \/ MoveOut(p)

(***************************************************************************)
(* RepositoryMatcher: rules are read when a directory is first prepared,   *)
(* and never again.                                                        *)
(***************************************************************************)
NoMatcher == [ready |-> {}, sources |-> {}]
Prepared(m, directories, names) ==
  [ready |-> m.ready \cup directories,
   sources |-> m.sources \cup
     {<<i, disk[i].content>> : i \in {n \in names : Parent(n) \in directories \ m.ready /\ IsFile(n)}}]
Rejects(m, p) == \E s \in m.sources : p \in Hides[s[1]][s[2]]

(***************************************************************************)
(* Limits and reasons.                                                     *)
(***************************************************************************)
Total(sizes, paths) == MapThenSumSet(LAMBDA q : sizes[q], paths)
Exceeds(sizes, paths) == Total(sizes, paths) > options.limit
Cut(sizes, paths) == {p \in paths : Exceeds(sizes, {q \in paths : Rank[q] <= Rank[p]})}
Size(files, p) == Bytes[files[p].content]
Sizes(files) == [p \in Present(files) |-> Size(files, p)]

Skip(r, kind, paths) == [r EXCEPT !.skipped = @ \cup {<<p, kind>> : p \in paths}]
Terminate(r, why) ==
  [r EXCEPT !.complete = FALSE, !.termination = IF @ = "none" THEN why ELSE @]
FailedAt(r, kind, p) == [Skip(r, kind, {p}) EXCEPT !.complete = FALSE]

EarlyReason_IgnoresIncomplete(previous, p) == IF p.full THEN "StructuralChange" ELSE "none"
EarlyReason(previous, p) ==
  IF p.full THEN "StructuralChange"
  ELSE IF ~previous.complete \/ previous.termination # "none" THEN "IncompletePreviousState"
  ELSE "none"

Coverage(p) == p.changed \cup p.removed
Retained_ExactPaths(previous, p) ==
  [previous EXCEPT !.files = [f \in Path |-> IF f \in Coverage(p) THEN Nothing ELSE @[f]],
                   !.complete = TRUE, !.termination = "none"]
Retained(previous, p) ==
  [previous EXCEPT
     !.files = [f \in Path |-> IF Within(f, Coverage(p)) THEN Nothing ELSE @[f]],
     !.skipped = {s \in @ : ~Within(s[1], Coverage(p))},
     !.complete = TRUE, !.termination = "none"]

WouldHaveLoaded(i, p) ==
  \/ Parent(i) = Root
  \/ \E q \in Coverage(p) : Within(q, {Parent(i)}) \/ Within(Parent(i), {q})
SourcesChanged ==
  \/ matcher.sources \ report.sources # {}
  \/ \E s \in report.sources : /\ \A t \in matcher.sources : t[1] # s[1]
                               /\ WouldHaveLoaded(s[1], plan)

(***************************************************************************)
(* Steps of an update.                                                     *)
(***************************************************************************)
Enter(where, first, candidates, base, cache) ==
  /\ stage' = where /\ todo' = first /\ found' = candidates /\ draft' = base
  /\ reuse' = cache /\ listing' = {}

BeginScan(why, cache) ==
  /\ Enter("walk", {Root}, NoFiles, EmptyReport, cache)
  /\ matcher' = Prepared(NoMatcher, {Root}, IgnoreFile)
  /\ reason' = why

Begin(p) ==
  /\ stage = "idle" /\ plan' = p /\ cancelling' = FALSE

OpenSession ==
  /\ generation = 0 /\ Begin(NoEvents) /\ BeginScan("none", FALSE)
  /\ UNCHANGED <<tree, options, report, generation, interrupted, budget, reader>>

RescanCall ==
  /\ generation > 0 /\ Spend("rescans")
  /\ Begin(NoEvents) /\ BeginScan("StructuralChange", FALSE)
  /\ UNCHANGED <<tree, options, report, generation, interrupted, reader>>

\* The caller takes what the adapter has coalesced; after a cancelled update it applies
\* the next plan even when that is empty.
ApplyPlan ==
  /\ generation > 0
  /\ pending # NoEvents \/ interrupted
  /\ Begin(pending) /\ pending' = NoEvents
  /\ LET why == EarlyReason(report, pending) IN
     IF why # "none" THEN BeginScan(why, TRUE)
     ELSE /\ Enter("check", pending.changed, NoFiles, Retained(report, pending), FALSE)
          /\ matcher' = Prepared(NoMatcher, {Root}, IgnoreFile)
          /\ reason' = "Incremental"
  /\ UNCHANGED <<disk, clock, options, report, generation, interrupted, budget, reader>>

elsewhere == <<tree, options, report, generation, interrupted, plan, cancelling, budget, reader>>

\* changed_candidate for the first of the sorted changed paths: rules are read on the
\* way down to it, as far as no directory is rejected.
Selected(m, p) == \A q \in Above[p] \cup {p} : ~Rejects(m, q)
Descended(p) ==
  LET all == Prepared(matcher, {Root} \cup Above[p], IgnoreFile)
  IN Prepared(matcher, {Root} \cup {q \in Above[p] : Selected(all, q)}, IgnoreFile)

CheckPath ==
  /\ stage = "check"
  /\ \E p \in todo :
       /\ \A q \in todo : Rank[p] <= Rank[q]
       /\ IF disk[p] = Folder THEN BeginScan("StructuralChange", TRUE)
          ELSE /\ todo' = todo \ {p}
               /\ matcher' = IF IsFile(p) THEN Descended(p) ELSE matcher
               /\ draft' = IF \E q \in Above[p] : IsFile(q) THEN FailedAt(draft, "IoError", p)
                           ELSE IF IsFile(p) /\ ~Selected(matcher', p) THEN Skip(draft, "Ignored", {p})
                           ELSE draft
               /\ found' = IF IsFile(p) /\ Selected(matcher', p) THEN [found EXCEPT ![p] = disk[p]]
                           ELSE found
               /\ UNCHANGED <<stage, listing, reuse, reason>>
  /\ UNCHANGED elsewhere

CompareSources ==
  /\ stage = "check" /\ todo = {}
  /\ IF SourcesChanged THEN BeginScan("IgnoreInputChanged", TRUE)
     ELSE stage' = "inspect" /\ UNCHANGED <<todo, listing, matcher, draft, found, reuse, reason>>
  /\ UNCHANGED elsewhere

\* A worker reads a directory; it may have been removed or replaced since it was queued.
ListFolder ==
  /\ stage = "walk"
  /\ \E d \in todo :
       /\ todo' = todo \ {d}
       /\ IF IsFolder(d)
          THEN /\ listing' = listing \cup {[folder |-> d, entries |->
                    [p \in {q \in Path : Parent(q) = d /\ disk[q] # Nothing} |-> disk[p]]]}
               /\ UNCHANGED draft
          ELSE draft' = FailedAt(draft, "IoError", d) /\ UNCHANGED listing
  /\ UNCHANGED <<stage, matcher, found, reuse, reason>>
  /\ UNCHANGED elsewhere

\* The visitor decides about one batch, with the rules as they are when it gets it; a
\* rule file below what is no directory any more is a warning.
FilesOf(b) == {p \in DOMAIN b.entries : b.entries[p] # Folder}
FoldersOf(b) == DOMAIN b.entries \ FilesOf(b)
Unreadable(names) == {i \in IgnoreFile \cap names : \E q \in Above[i] : IsFile(q)}
DecideBatch ==
  /\ stage = "walk" /\ ~cancelling
  /\ \E b \in listing :
       LET names == DOMAIN b.entries
           m == Prepared(matcher, {b.folder}, IgnoreFile \cap names)
           rejected == {p \in names : Rejects(m, p)} IN
       /\ listing' = listing \ {b} /\ matcher' = m
       /\ draft' = [Skip(draft, "Ignored", rejected) EXCEPT !.complete = @ /\ Unreadable(names) = {}]
       /\ found' = [p \in Path |-> IF p \in FilesOf(b) \ rejected THEN b.entries[p] ELSE found[p]]
       /\ todo' = todo \cup (FoldersOf(b) \ rejected)
  /\ UNCHANGED <<stage, reuse, reason>>
  /\ UNCHANGED elsewhere

StopWalk ==
  /\ stage = "walk" /\ cancelling /\ todo \cup listing # {}
  /\ todo' = {} /\ listing' = {} /\ draft' = Terminate(draft, "Cancelled")
  /\ UNCHANGED <<stage, matcher, found, reuse, reason>>
  /\ UNCHANGED elsewhere

\* apply_total_bytes_limit comes before the inspection here, after it in an
\* incremental update.
Limited(r, cut) ==
  IF cut = {} THEN r ELSE Terminate(Skip(r, "ScanLimit", cut), "MaxTotalBytes")

EndWalk ==
  /\ stage = "walk" /\ todo = {} /\ listing = {}
  /\ LET cut == Cut(Sizes(found), Present(found))
         stopped == IF cancelling THEN Terminate(draft, "Cancelled") ELSE draft IN
     /\ found' = [p \in Path |-> IF p \in cut THEN Nothing ELSE found[p]]
     /\ draft' = Limited([stopped EXCEPT !.sources = matcher.sources], cut)
  /\ stage' = "inspect"
  /\ UNCHANGED <<todo, listing, matcher, reuse, reason>>
  /\ UNCHANGED elsewhere

Reusable(p) ==
  /\ reuse /\ report.files[p] # Nothing
  /\ Size(report.files, p) = Size(found, p) /\ report.files[p].version = found[p].version

Inspected(p) ==
  IF cancelling THEN Terminate(Skip(draft, "ScanLimit", {p}), "Cancelled")
  ELSE IF Reusable(p) THEN [draft EXCEPT !.files[p] = report.files[p]]
  ELSE IF disk[p] = Nothing THEN FailedAt(draft, "IoError", p)
  ELSE IF disk[p] # found[p] THEN FailedAt(draft, "ConcurrentModification", p)
  ELSE IF options.detect /\ found[p].content \in Binary THEN Skip(draft, "Binary", {p})
  ELSE [draft EXCEPT !.files[p] = found[p]]

\* The chunks of inspect_files run in parallel, so files are read in any order.
InspectFile ==
  /\ stage = "inspect"
  /\ \E p \in Present(found) :
       /\ found' = [found EXCEPT ![p] = Nothing]
       /\ draft' = Inspected(p)
  /\ UNCHANGED <<stage, todo, listing, matcher, reuse, reason>>
  /\ UNCHANGED elsewhere

Finished ==
  IF reason # "Incremental" THEN draft
  ELSE LET cut == Cut(Sizes(draft.files), Present(draft.files))
           r == [draft EXCEPT !.files = [p \in Path |-> IF p \in cut THEN Nothing ELSE @[p]]]
       IN Limited(r, cut)

NextGeneration_OnlyFull == IF reason = "Incremental" THEN generation ELSE generation + 1
NextGeneration == generation + 1
Install ==
  /\ stage = "inspect" /\ found = NoFiles
  /\ report' = Finished /\ generation' = NextGeneration
  /\ stage' = "idle" /\ draft' = EmptyReport /\ matcher' = NoMatcher /\ plan' = NoEvents
  /\ reuse' = FALSE /\ cancelling' = FALSE /\ interrupted' = cancelling
  /\ UNCHANGED <<tree, options, reason, todo, listing, found, budget, reader>>

CancelUpdate ==
  /\ stage # "idle" /\ ~cancelling /\ Spend("cancels")
  /\ cancelling' = TRUE
  /\ UNCHANGED <<tree, options, session, update, reader>>

(***************************************************************************)
(* ScanSession.files: a cursor, then pages of that generation.  The lock   *)
(* of the session keeps both out of an update.                             *)
(***************************************************************************)
NoReader == [generation |-> 0, count |-> 0, offset |-> 0, seen |-> {}, base |-> NoFiles]
Position(files, p) == Cardinality({q \in Present(files) : Rank[q] < Rank[p]})
Slice(files, from, to) ==
  {<<p, files[p]>> : p \in {q \in Present(files) : Position(files, q) \in from .. to - 1}}

FileCursor ==
  /\ stage = "idle" /\ generation > 0 /\ Spend("reads")
  /\ reader' = [generation |-> generation, count |-> Cardinality(Present(report.files)),
                offset |-> 0, seen |-> {}, base |-> report.files]
  /\ UNCHANGED <<tree, options, session, update, cancelling>>

FilesPage ==
  /\ stage = "idle" /\ reader.offset < reader.count
  /\ reader' = IF reader.generation # generation THEN NoReader
               ELSE LET page == Slice(report.files, reader.offset, reader.offset + PageSize) IN
                    [reader EXCEPT !.seen = @ \cup page, !.offset = @ + Cardinality(page)]
  /\ UNCHANGED <<tree, options, session, update, cancelling, budget>>

SessionInit ==
  /\ \E start \in Starts :
       disk = [p \in Path |-> IF Below(p) # {} THEN Folder ELSE [content |-> start[p], version |-> 1]]
  /\ clock = 0 /\ pending = NoEvents
  /\ report = EmptyReport /\ generation = 0 /\ reason = "none"
  /\ stage = "idle" /\ plan = NoEvents /\ todo = {} /\ listing = {}
  /\ matcher = NoMatcher /\ draft = EmptyReport /\ found = NoFiles /\ reuse = FALSE
  /\ cancelling = FALSE /\ interrupted = FALSE
  /\ \E s \in Scenarios : options = s.options /\ budget = s.budget
  /\ reader = NoReader

Step ==
  \/ CheckPath \/ CompareSources
  \/ ListFolder \/ DecideBatch \/ StopWalk \/ EndWalk
  \/ InspectFile \/ Install
SessionNext ==
  \/ TreeChanges \/ OpenSession \/ RescanCall \/ ApplyPlan \/ Step \/ CancelUpdate
  \/ FileCursor \/ FilesPage

\* An update that has begun goes on, and the caller applies the plans it has.
SessionFairness == WF_sessionVars(OpenSession) /\ WF_sessionVars(ApplyPlan) /\ WF_sessionVars(Step)
SessionSpec == SessionInit /\ [][SessionNext]_sessionVars /\ SessionFairness

-----------------------------------------------------------------------------
Reports == [files : [Path -> Files \cup {Nothing}],
            skipped : SUBSET ((Path \cup {Root}) \X {"Ignored", "IoError", "ScanLimit", "Binary",
                                                     "ConcurrentModification"}),
            sources : SUBSET (IgnoreFile \X Content), complete : BOOLEAN,
            termination : {"none", "MaxTotalBytes", "Cancelled"}]
Plans == [changed : SUBSET Path, removed : SUBSET Path, full : BOOLEAN]

\* The state of the session, the watcher and the update has the types of the code.
SessionTypeOK ==
  /\ disk \in [Path -> Files \cup {Nothing, Folder}] /\ clock \in 0 .. MaxChanges
  /\ budget \in Budgets /\ budget.changes + clock <= MaxChanges
  /\ pending \in Plans /\ plan \in Plans
  /\ options \in Policies
  /\ report \in Reports /\ draft \in Reports
  /\ generation \in Nat
  /\ reason \in {"none", "Incremental", "StructuralChange", "IncompletePreviousState",
                 "IgnoreInputChanged"}
  /\ stage \in {"idle", "check", "walk", "inspect"}
  /\ todo \subseteq Path \cup {Root}
  /\ \A b \in listing : b.folder \in Path \cup {Root} /\ DOMAIN b.entries \subseteq Path
  /\ matcher.ready \subseteq Path \cup {Root} /\ matcher.sources \subseteq IgnoreFile \X Content
  /\ found \in [Path -> Files \cup {Nothing}]
  /\ reuse \in BOOLEAN /\ cancelling \in BOOLEAN /\ interrupted \in BOOLEAN
  /\ reader.generation \in 0 .. generation /\ reader.base \in [Path -> Files \cup {Nothing}]
  /\ reader.offset \in 0 .. reader.count /\ reader.count = Cardinality(Present(reader.base))

\* What a scan of the tree as it is now reports, written without its steps: a path is
\* rejected when a rule rejects it or a directory above it.
Pruned(p) ==
  \E q \in Above[p] \cup {p}, i \in IgnoreFile : IsFile(i) /\ q \in Hides[i][disk[i].content]
Candidates == {p \in Path : IsFile(p) /\ ~Pruned(p)}
OverLimit == Cut([p \in Candidates |-> Size(disk, p)], Candidates)
FreshFiles ==
  {<<p, disk[p].content>> : p \in {q \in Candidates \ OverLimit :
                                     ~(options.detect /\ disk[q].content \in Binary)}}
FreshSources ==
  {<<i, disk[i].content>> : i \in {j \in IgnoreFile : IsFile(j) /\ \A q \in Above[j] : ~Pruned(q)}}
FreshSkips ==
  {<<p, "Ignored">> : p \in {q \in Path : disk[q] # Nothing /\ Pruned(q) /\ \A r \in Above[q] : ~Pruned(r)}}
  \cup {<<p, "ScanLimit">> : p \in OverLimit}
  \cup {<<p, "Binary">> : p \in {q \in Candidates \ OverLimit : options.detect /\ disk[q].content \in Binary}}

\* No update is under way and no event waits.
Quiet ==
  generation > 0 /\ stage = "idle" /\ pending = NoEvents
SameRevision ==
  /\ {<<p, report.files[p].content>> : p \in Present(report.files)} = FreshFiles
  /\ report.sources = FreshSources
  /\ report.termination = IF OverLimit = {} THEN "none" ELSE "MaxTotalBytes"

\* When binary files count, the two orders of limit and inspection may cut differently.
BothOptions == options.detect /\ OverLimit # {}

\* Whatever changed while updates were under way, once every event has been applied
\* the revision is that of a full scan of the tree.
RevisionConverges == Quiet /\ ~interrupted /\ ~BothOptions => SameRevision

\* All that was yielded under one cursor is the manifest of the cursor's generation,
\* from its first file on and without a gap.
PagesOfOneReport == reader.seen = Slice(reader.base, 0, reader.offset)

\* Once the tree stops changing, the updates end and the report is that of the tree.
KeepsUp == <>[](Quiet /\ ~interrupted /\ (BothOptions \/ SameRevision))
=============================================================================
