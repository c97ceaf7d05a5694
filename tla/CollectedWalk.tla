--------------------------- MODULE CollectedWalk ---------------------------
(***************************************************************************)
(* ParallelWalker::walk (parallel/mod.rs and parallel/collect.rs) for each *)
(* of several roots: the shallow pass over the root's entries, the         *)
(* expansion of the frontier, the distribution of the directory tasks over *)
(* lanes, the lanes as jobs of the runtime, and the merge of their reports *)
(* in task order.  What starts the walk of a root belongs to MultiRoot.    *)
(* Link-following walks take the dynamic scheduler (DynamicWalk) instead   *)
(* and are not modelled here.                                              *)
(***************************************************************************)
EXTENDS Walker

CONSTANTS Roots,          \* 1..n, the insertion indices of the roots
          RootPath,       \* [Roots -> paths of one node]
          Callers,        \* what a caller may ask for: options, parallelism, and whether
                          \* it walks or visits, on a worker thread of the runtime or not
          MaxRejections   \* bound on the jobs the runtime refuses

ASSUME RootsAssumption ==
    /\ IsFiniteSet(Roots) /\ Roots # {} /\ Roots = 1..Cardinality(Roots)
    /\ RootPath \in [Roots -> {<<n>> : n \in Nodes}] /\ MaxRejections \in Nat
    /\ Callers \subseteq [mode : {"walk", "visit"}, options : Options, parallelism : Nat,
                         available : Nat, on_worker : BOOLEAN]

VARIABLES caller,      \* what the application asked for; on_worker: from a job of the runtime
          walk,        \* [Roots -> the walk of that root]
          rejections   \* jobs refused so far

walkVars == <<caller, walk, rejections>>

Report(entries, errors) == [entries |-> entries, errors |-> errors]
Reports == [entries : Seq(Item), errors : Seq(Item)]
NoReport == Report(<<>>, <<>>)
Ok(report) == [ok |-> TRUE, report |-> report, error |-> None]
Err(error) == [ok |-> FALSE, report |-> NoReport, error |-> Some(error)]

Idle == [phase |-> "idle", shallow |-> NoReport, tasks |-> <<>>, lanes |-> <<>>,
         submitted |-> 0, result |-> None]

WalkTypeOK ==
    /\ \A r \in Roots : /\ walk[r].phase \in {"idle", "submitting", "collecting", "returned"}
                        /\ walk[r].submitted \in 0..Len(walk[r].lanes)
                        /\ walk[r].phase = "returned" <=> walk[r].result # None
    /\ rejections \in 0..MaxRejections

WalkInit ==
    /\ caller \in Callers
    /\ walk = [r \in Roots |-> Idle]
    /\ rejections = 0

options == normalized(caller.options)

-----------------------------------------------------------------------------
(***************************************************************************)
(* Collecting the items of a walker.                                       *)
(***************************************************************************)
EntriesOf(items) == SelectSeq(items, LAMBDA i : ~IsError(i))
ErrorsOf(items)  == SelectSeq(items, IsError)
Collected(items) == Report(EntriesOf(items), ErrorsOf(items))
Join(a, b) == Report(a.entries \o b.entries, a.errors \o b.errors)

\* The options of an inner walker: errors are collected and redirected output is
\* filtered once, at the end.
Inner(o) == [o EXCEPT !.abort = FALSE, !.stdout = {}, !.filter = {},
                      !.sorted = FALSE, !.contents_first = FALSE]

without_stdout(report, stdout) ==
    [report EXCEPT !.entries = SelectSeq(@, LAMBDA e : ~(e.kind = "file" /\ Last(e.path) \in stdout))]

Finished(report) ==
    IF options.abort /\ report.errors # <<>> THEN Err(Head(report.errors))
    ELSE Ok(without_stdout(report, options.stdout))

collect_serial(r) ==
    IF RootError(RootPath[r], Inner(options)) # None
    THEN Err(RootError(RootPath[r], Inner(options))[1])
    ELSE Finished(Collected(Items[with_behavior(RootPath[r], Inner(options))]))

-----------------------------------------------------------------------------
(***************************************************************************)
(* The shallow pass and the frontier.                                      *)
(***************************************************************************)
Task(entry) == [path |-> entry.path, depth |-> entry.depth]
Tasks == [path : Seq(Nodes), depth : Nat]

\* A directory stopped only by the bound of this pass, at the given depth, is a
\* task; its entry loses the skip reason.
Frontier(items, depth) ==
    LET entries == EntriesOf(items)
        open(e) == /\ IsDir(e) /\ e.skip = "MaxDepth"
                   /\ e.depth = depth /\ ~AtDepthLimit(options, depth)
        cleared == [i \in DOMAIN entries |->
                       IF open(entries[i]) THEN [entries[i] EXCEPT !.skip = "none"] ELSE entries[i]]
        chosen  == SelectSeq(entries, open)
    IN  [report |-> Report(SelectSeq(cleared, LAMBDA e : e.depth >= options.min_depth), ErrorsOf(items)),
         tasks  |-> [i \in DOMAIN chosen |-> Task(chosen[i])]]

collect_shallow(r) ==
    LET depth == IF options.max_depth = None \/ options.max_depth[1] > 1 THEN 1 ELSE options.max_depth[1]
        o     == [Inner(options) EXCEPT !.min_depth = 0, !.max_depth = Some(depth)]
    IN  Frontier(Items[with_behavior(RootPath[r], o)], 1)

expand_task(r, task) ==
    LET limit == IF AtDepthLimit(options, task.depth + 1) THEN options.max_depth[1] ELSE task.depth + 1
        o     == [Inner(options) EXCEPT !.min_depth = 0, !.max_open = 1, !.max_depth = Some(limit)]
    IN  Frontier(Items[from_known_directory(Real(Last(RootPath[r])), task.path, task.depth, o)],
                 task.depth + 1)

ExpandAll(r, found) ==
    FoldLeft(LAMBDA all, task : LET more == expand_task(r, task)
                                IN  [report |-> Join(all.report, more.report),
                                     tasks  |-> all.tasks \o more.tasks],
             [found EXCEPT !.tasks = <<>>], found.tasks)

\* Level by level, until there are enough tasks.
expand_frontier(r, first, target) ==
    LET expanded[found \in [report : Reports, tasks : Seq(Tasks)]] ==
            IF found.tasks = <<>> \/ Len(found.tasks) >= target THEN found
            ELSE expanded[ExpandAll(r, found)]
    IN  expanded[first]

AtMost(a, b) == IF a < b THEN a ELSE b
AtLeastOne(n) == IF n = 0 THEN 1 ELSE n

DefaultTraversalWorkers == 8
FrontierTasksPerWorker == 2

requested_workers ==
    AtLeastOne(AtMost(IF caller.parallelism = 0
                      THEN AtMost(caller.available, DefaultTraversalWorkers)
                      ELSE AtMost(caller.parallelism, caller.available),
                      options.max_open))

parallel_worker_count(tasks) == AtLeastOne(AtMost(requested_workers, tasks))

Planned(r) ==
    LET found == collect_shallow(r)
    IN  IF options.same_file_system THEN found
        ELSE expand_frontier(r, found, requested_workers * FrontierTasksPerWorker)

\* Task k of the list goes to lane k % worker_count.
Lanes(tasks) ==
    LET n == parallel_worker_count(Len(tasks))
        share(l) == {k \in DOMAIN tasks : (k - 1) % n = l - 1}
    IN  [l \in 1..n |-> [state    |-> "waiting",
                         tasks    |-> [i \in 1..Cardinality(share(l)) |-> tasks[(i - 1) * n + l]],
                         report   |-> NoReport,
                         segments |-> <<>>]]

-----------------------------------------------------------------------------
(***************************************************************************)
(* A lane's walk of one task.                                              *)
(***************************************************************************)
Less(a, b) == IF a > b THEN a - b ELSE 0

LaneOptions_KeepsMinDepth(task) ==
    LET o == [Inner(options) EXCEPT !.max_open = 1]
    IN  IF ~options.same_file_system THEN o
        ELSE [o EXCEPT !.max_depth = IF @ = None THEN None ELSE Some(Less(@[1], task.depth))]

LaneOptions(task) ==
    LET o == [Inner(options) EXCEPT !.max_open = 1]
    IN  IF ~options.same_file_system THEN o
        ELSE [o EXCEPT !.min_depth = Less(@, task.depth),
                       !.max_depth = IF @ = None THEN None ELSE Some(Less(@[1], task.depth))]

Rebased(item, offset) == [item EXCEPT !.depth = @ + offset]

collect_rebased(items, offset) ==
    LET kept == SelectSeq(items, LAMBDA i : IsError(i) \/ i.depth # 0)
    IN  Collected([i \in DOMAIN kept |-> Rebased(kept[i], offset)])

TaskReport(r, task) ==
    LET o == LaneOptions(task)
    IN  IF ~options.same_file_system
        THEN Collected(Items[from_known_directory(Real(Last(RootPath[r])), task.path, task.depth, o)])
        ELSE IF RootError(task.path, o) # None
        THEN Report(<<>>, <<Rebased(RootError(task.path, o)[1], task.depth)>>)
        ELSE collect_rebased(Items[with_behavior(task.path, o)], task.depth)

MergeSegments_LaneOrder(lanes, tasks, shallow) ==
    FoldLeft(LAMBDA all, lane : Join(all, lane.report), shallow, lanes)

\* A turn of the merge: the segment of task k, from the lane of that task.
TakeSegment(lanes, k, merged) ==
    LET l       == 1 + ((k - 1) % Len(lanes))
        lane    == lanes[l].report
        segment == Head(lanes[l].segments)
        taken   == Report(SubSeq(lane.entries, 1, segment.entries),
                          SubSeq(lane.errors, 1, segment.errors))
        rest    == Report(SubSeq(lane.entries, segment.entries + 1, Len(lane.entries)),
                          SubSeq(lane.errors, segment.errors + 1, Len(lane.errors)))
    IN  [lanes  |-> [lanes EXCEPT ![l].segments = Tail(@), ![l].report = rest],
         merged |-> Join(merged, taken)]

\* The merge takes one segment of the right lane for every task, in task order.
MergeSegments(lanes, tasks, shallow) ==
    LET after[k \in 0..tasks] ==
            IF k = 0 THEN [lanes |-> lanes, merged |-> shallow]
            ELSE TakeSegment(after[k - 1].lanes, k, after[k - 1].merged)
    IN  after[tasks].merged

-----------------------------------------------------------------------------
(***************************************************************************)
(* Steps of the walk of root r.                                            *)
(***************************************************************************)
Returned(w, result) == [w EXCEPT !.phase = "returned", !.result = Some(result)]

\* Up to the distribution of the tasks everything runs on the calling thread.
StartWalk(r) ==
    /\ walk[r].phase = "idle"
    /\ \E first \in {collect_shallow(r)}, plan \in {Planned(r)} :
        walk' = [walk EXCEPT ![r] =
            IF caller.on_worker THEN Returned(@, collect_serial(r))
            ELSE IF RootError(RootPath[r], Inner(options)) # None
            THEN Returned(@, Err(RootError(RootPath[r], Inner(options))[1]))
            ELSE IF options.abort /\ first.report.errors # <<>>
            THEN Returned(@, Err(Head(first.report.errors)))
            ELSE IF plan.tasks = <<>> THEN Returned(@, Ok(without_stdout(plan.report, options.stdout)))
            ELSE [@ EXCEPT !.phase = "submitting", !.shallow = plan.report, !.tasks = plan.tasks,
                           !.lanes = Lanes(plan.tasks)]]
    /\ UNCHANGED <<caller, rejections>>

SubmitLane(r) ==
    LET next == walk[r].submitted + 1
    IN  /\ walk[r].phase = "submitting"
        /\ walk' = [walk EXCEPT ![r].submitted = next,
                                ![r].lanes[next].state = "queued",
                                ![r].phase = IF next = Len(walk[r].lanes) THEN "collecting" ELSE @]
        /\ UNCHANGED <<caller, rejections>>

\* The runtime refuses a lane: the walk returns at once, whatever was submitted.
RejectLane(r) ==
    /\ walk[r].phase = "submitting" /\ rejections < MaxRejections
    /\ walk' = [walk EXCEPT ![r] = Returned(@, Err(Error(RootPath[r], 0, "ScheduleWorker")))]
    /\ rejections' = rejections + 1
    /\ UNCHANGED caller

\* collect_lane: one task of a lane the runtime has started.
WithTask(lane, done) ==
    [lane EXCEPT !.tasks = Tail(@), !.report = Join(@, done),
                 !.segments = Append(@, [entries |-> Len(done.entries),
                                         errors  |-> Len(done.errors)])]

RunTask(r, l) ==
    LET lane == walk[r].lanes[l]
    IN  /\ lane.state = "queued" /\ lane.tasks # <<>>
        /\ walk' = [walk EXCEPT ![r].lanes[l] = WithTask(@, TaskReport(r, Head(lane.tasks)))]
        /\ UNCHANGED <<caller, rejections>>

\* The lane's report goes into the channel; nobody may be there to receive it.
SendReport(r, l) ==
    /\ walk[r].lanes[l].state = "queued" /\ walk[r].lanes[l].tasks = <<>>
    /\ walk' = [walk EXCEPT ![r].lanes[l].state = "sent"]
    /\ UNCHANGED <<caller, rejections>>

MergeLanes_FirstReport(r) ==
    /\ walk[r].phase = "collecting"
    /\ \E l \in DOMAIN walk[r].lanes : walk[r].lanes[l].state = "sent"
    /\ walk' = [walk EXCEPT ![r] =
                    Returned(@, Finished(MergeSegments_LaneOrder(@.lanes, Len(@.tasks), @.shallow)))]
    /\ UNCHANGED <<caller, rejections>>

\* The channel is closed when every lane has sent: the reports are merged.
MergeLanes(r) ==
    /\ walk[r].phase = "collecting"
    /\ \A l \in DOMAIN walk[r].lanes : walk[r].lanes[l].state = "sent"
    /\ walk' = [walk EXCEPT ![r] =
                    Returned(@, Finished(MergeSegments(@.lanes, Len(@.tasks), @.shallow)))]
    /\ UNCHANGED <<caller, rejections>>

LaneStep(r) == \E l \in DOMAIN walk[r].lanes : RunTask(r, l) \/ SendReport(r, l)

CallerStep(r) == SubmitLane(r) \/ RejectLane(r) \/ MergeLanes(r)

-----------------------------------------------------------------------------
(***************************************************************************)
(* Properties of one walk.                                                 *)
(***************************************************************************)
WalkIsOver(r) == walk[r].phase = "returned"

\* What the lanes are given and what they make of it are lists of entries and errors.
ReportsAreTyped ==
    \A r \in Roots :
        /\ walk[r].shallow \in Reports /\ walk[r].tasks \in Seq(Tasks)
        /\ \A k \in DOMAIN walk[r].tasks : TaskReport(r, walk[r].tasks[k]) \in Reports

\* A walk that succeeds returns what one serial walker returns: the same entries
\* with the same depths and skip reasons, each exactly once, and the same errors,
\* whatever the parallelism, the frontier, the lanes and the order they end in.
SameAsSerial == WalkTypeOK /\ ReportsAreTyped /\
    \A r \in Roots : WalkIsOver(r) /\ walk[r].result[1].ok =>
        LET serial == Collected(Items[with_behavior(RootPath[r], Inner(options))])
            mine   == walk[r].result[1].report
        IN  /\ ToSet(mine.entries) = ToSet(without_stdout(serial, options.stdout).entries)
            /\ Len(mine.entries) = Cardinality(ToSet(mine.entries))
            /\ ToSet(mine.errors) = ToSet(serial.errors)
            /\ Len(mine.errors) = Len(serial.errors)

\* The reports of the tasks of a walk, joined one after the other in task order.
InTaskOrder(r) ==
    LET w == walk[r]
        joined[k \in 0..Len(w.tasks)] ==
            IF k = 0 THEN w.shallow ELSE Join(joined[k - 1], TaskReport(r, w.tasks[k]))
    IN  joined[Len(w.tasks)]

\* Collected output is deterministic: the result, the error of ErrorPolicy::Abort
\* included, is that of the tasks done one after the other in task order.
IndependentOfSchedule ==
    \A r \in Roots :
        WalkIsOver(r) /\ walk[r].tasks # <<>> /\ walk[r].submitted = Len(walk[r].lanes) =>
            walk[r].result[1] = Finished(InTaskOrder(r))

\* A walk that was not refused a lane returns only when no lane of it reads the tree.
LanesEndFirst ==
    \A r \in Roots : WalkIsOver(r) /\ (walk[r].result[1].ok
                                       \/ walk[r].result[1].error[1].error # "ScheduleWorker") =>
        \A l \in DOMAIN walk[r].lanes : walk[r].lanes[l].state = "sent"
=============================================================================
