# weavatrix-scan in TLA+

A model of the `weavatrix-scan` crate: the walker and the schedulers that walk
a directory tree on several threads, the thread pool and the executor adapter
they run on, the iterators that put the results back into order, the rules that
decide what is selected, the scan that turns a walk into a report, the
inspection that reads files while they change, and the session that keeps a
manifest up to date with a tree that goes on changing. TLC checks the models on
small instances; TLAPS proves the central properties of the walker and of the
concurrent parts for every tree, every number of workers and every number of jobs.

Paths below are relative to `src/src/` of the repository unless they start
with `src/`.

## 1. Inventory

| Part | Files | State it keeps | Operations | Status |
|---|---|---|---|---|
| Thread pool | `pool.rs` | job queue and shutdown flag under a mutex, one condition variable, join handles | constructor, `execute`, worker loop, drop | modelled, proved |
| Parallel runtime | `runtime/mod.rs` | the executor, the busy timeout, the thread-local stack of active runtimes | `try_execute`, `is_worker_thread`, `RayonExecutor::try_execute` | partly, proved |
| Dynamic directory scheduler | `parallel/dynamic/*` | queue, `active`, `stopped`, `quit`, `visited`, `errors` under a mutex, a condition variable, an outcome channel | `run_batched`, `stream_batched`, worker jobs, serial fallback | modelled, proved; the fallback as `Discovery` sees it |
| Ordered pull iterator | `parallel/ordered_pull/*` | prefetch queue, `outstanding`, `ready`, `schedule_error`, frames | coordinator, reads, serial fallback, `next`, drop | modelled, proved |
| Unordered pull iterator | `parallel/pull.rs` | a bounded channel, a token, a coordinator thread | `next`, drop, the coordinator | consumer only |
| Stateful walk | `stateful_walk/*` | as the ordered iterator, with a state per directory and a callback | builders, coordinator, jobs, serial walker | modelled, proved in part |
| Serial walker | `walk_iter.rs`, `walk_visit.rs`, `walker/*` | a stack of frames, the count of open handles, the active directories, a pending directory, a deferred entry | constructors, `next`, `skip_current_dir` | modelled, proved in part |
| Collected and visited lanes | `parallel/{mod,collect,visit,visit_worker}.rs` | a frontier of tasks, lanes, an outcome channel | `walk`, `visit` | `walk` modelled, `visit` as a stream of events; proved in part |
| Multi-root traversal | `parallel_multi/*`, `multi_scanner.rs` | scoped threads, one shared token | `walk`, `visit` | modelled, without `MultiScanner`; proved |
| Ignore rules, selection | `ignore/*`, `selection/*`, `overrides.rs` | rule layers per directory and source | prepare a directory, decide a path in a walk or on its own | modelled, a pattern is a set of paths |
| Scanner discovery | `scanner/{discovery,batch,entry,stream}.rs`, `scanner/compact/*`, `scan_limits.rs` | one report, the prepared directories, limits | a scan in its four forms | modelled, with the exceptions in section 8 |
| Content inspection | `content/*`, `file_version.rs` | version before and after, bounded reader, stop flag, a cache | batch inspection, one file for a visitor | modelled, without the encoding of reports; proved |
| Content visit | `scanner/content_visit/*` | a bounded candidate channel, worker outcomes, one token | discovery, jobs, collection, report | modelled, except which paths count as changed; proved |
| Session, watch | `session.rs`, `watch.rs`, `scanner/watch_update/*` | a report and its generation, the last reason | `open`, `rescan`, `apply_watch_plan`, `files_page`, event coalescing | modelled, with the exceptions in section 8; proved in part |
| Reports, deltas, snapshots | `delta.rs`, `snapshot.rs`, ... | plain data | pure transformations | the report of a scan only |
| Configuration | `config/*` | none | computed options | the options that change control flow |
| Cancellation token | `control.rs` | one flag, only ever set | `cancel`, `is_cancelled` | a variable of the traversal modules |
| Node binding | `src/node` | none of its own | a reader over `files_page` | the reader |
| Hashing, stdout detection | `hash.rs`, `stdout.rs` | none | pure | left out, section 8 |

How the parts interact. A traversal (`DynamicWalk`, `OrderedPull`,
`StatefulWalk`, `CollectedWalk`) hands jobs to a `ParallelRuntime`. The runtime
passes them to the crate's own pool (`ThreadPool`), to a Rayon pool
(`RayonExecutor`) or to an executor of the application; each of the three must
keep the contract of `ParallelExecutor` (`JobExecutor`): an accepted job is run
exactly once, a rejected one never. The jobs of a traversal share a
mutex-protected state or own a lane, and report to their caller through a
channel; visitor callbacks run on the jobs' threads. A job reads directories with
a `Walker` of its own, limited to one level (ordered, stateful, dynamic) or to
its tasks (lanes). The pull iterators add a coordinator thread and a bounded
channel to a consumer that may drop the iterator between any two calls. A walk
of several roots (`MultiRoot`) runs one traversal after the other on each of a
few scoped threads, with one token for all. A scan (`Discovery`) runs a
traversal, gives each batch to the matcher (`IgnoreRules`) under a lock, cuts
the selected files to the limits and has them inspected (`ContentInspection`).
A content visit (`ContentVisit`) hands jobs to a runtime that take files from a
bounded channel, which the caller fills while it walks. A session
(`WatchSession`) keeps the report of its last scan; the embedder feeds watcher
events to an adapter, applies the resulting plans and pages through the manifest
between updates. A cancellation token is polled, it wakes nobody.

What is hard here: threads that sleep on a condition variable which
cancellation does not signal; jobs the executor rejects halfway through a
submission; panicking visitors, reads and jobs; jobs that start long after they
were accepted, or when everything is over; a timeout that races with the start
of a job; results that arrive in any order and must come out in one; a limit on
open directories kept by buffering the oldest; a rule file that must be read
before the first entry it decides about; a consumer that goes away; a file that
is rewritten while it is read and whose evidence is kept for the next scan; a
retained report that has to follow its tree. The hazards are listed with their
lines in `PROJECT.json`.

What makes each part correct:

* thread pool: one `notify_one` per job is enough; the drop loses no job and
  waits for no sleeper;
* runtime: submitter and pool agree on whether a job runs; nested submission
  cannot deadlock while the timeout is set;
* dynamic scheduler: no early "all done", no lost wakeup, no visitor call after
  the return, truthful counts and errors, panics reach the caller, it ends;
* ordered iterator: path order whatever the order of the reads, an end that
  means a whole traversal or an error, no read after the join, `next` and drop
  return;
* stateful walk: the same, each entry with the state handed down to it, and no
  callback after the end;
* serial walker: whatever the options, the items a recursive traversal would
  give; handles counted and bounded; no directory inside itself;
* lanes and multi-root: results merged in the order of the serial walk and
  independent of the schedule, first error in insertion order, no job after the
  return, `Quit` stops every root;
* rules and discovery: engine and order of delivery do not change what is
  selected; whatever is not reported has its reason in the report;
* content inspection: evidence is of the version it names, every file accounted
  for once, no false alarm;
* content visit: a complete report covers every file, stop reasons are truthful,
  every failure reaches the caller, no deadlock between discovery and stopped jobs;
* session: a page never mixes generations; an incremental update equals a scan.

## 2. Modules and the code

| Module | Role |
|---|---|
| `JobExecutor` | abstract: the contract of `ParallelExecutor::try_execute` |
| `ThreadPool` | detailed: `pool.rs`; refines `JobExecutor` |
| `RayonExecutor` | detailed: `RayonExecutor::try_execute`; refines `JobExecutor` |
| `DirectoryWalk` | abstract: what a parallel traversal promises |
| `DynamicWalk` | detailed: `parallel/dynamic`; refines `DirectoryWalk` |
| `OrderedPull` | detailed: `parallel/ordered_pull` with the consumer of `parallel/pull.rs` |
| `StatefulWalk`, `StatefulOrder` | detailed: `stateful_walk`; the order it promises |
| `Walker` | operators: the serial walker as functions on a record |
| `SerialWalk` | a caller of `Walker` |
| `SerialPromise` | the recursive reference that the items of a `SerialWalk` are compared with |
| `CollectedWalk` | `ParallelWalker::walk` by lanes; uses `Walker` |
| `MultiRoot` | `ParallelMultiWalker`; composes `CollectedWalk` |
| `IgnoreRules` | operators: rule files, layers, decisions |
| `Discovery` | a scan from root to report; composes `IgnoreRules` |
| `ContentInspection` | batch inspection with cache and concurrent writers |
| `ContentVisit` | `scanner/content_visit`, `content/visit.rs`, `content/inspect/visitor.rs` |
| `WatchSession` | `session.rs`, `watch.rs`, `scanner/watch_update`, the scan behind them, the reader of `src/node` |
| `WalkProofs`, `DynamicWalkProofs`, `OrderedPullProofs`, `StatefulWalkProofs`, `ContentInspectionProofs`, `DiscoveryProofs`, `SessionProofs` | theorems; `SessionProofs` is about `ContentVisit` and `WatchSession` |
| `SequenceFacts` | lemmas on sequences and on counting, used by several of them |
| `MC...` | trees, options and job sets for TLC |

**ThreadPool.** `jobs` and `shutdown` are `JobQueueState`; `pc` and `job` are
the place and the job of each worker thread; `owner` follows the thread that
constructs and drops the pool; `notifying` holds the calls of `execute` that have
released the mutex and not yet called `notify_one`. One turn of the worker's
inner loop under the mutex is one action (`TakeJob`, `Sleep`, `Exit`): the mutex
makes it atomic, and the condition variable releases the mutex and sleeps in one
step. `notify_one` and `notify_all` are actions of their own, because the code
calls them after the mutex is released. The drop needs exclusive access, so it
begins when no `execute` is under way. `EndJob` is a job that returns or panics:
`catch_unwind` makes no difference, which the mutant of `AfterPanic` shows to
matter.

**RayonExecutor.** `caller[j]` is the submitting thread inside `try_execute`,
`closure[j]` the closure given to Rayon, `pending` the jobs still in their
`Mutex<Option<ParallelJob>>`. `recv_timeout` may give up at any moment
(`Timeout`), also when the sender has already arrived at the rendezvous: the
value of the deadline is not modelled. `Parent` describes jobs that submit jobs
to the same pool and wait for them, which is what a traversal started from a
visitor does. Rayon itself is external: a queue with `Threads` threads that
calls every closure it keeps, or drops it (`PoolDrops`).

**DynamicWalk.** `queue`, `active`, `stopped`, `quit`, `visited`, `errors` are
the fields of `SharedState`. A job goes through `next` (one turn of `next_task`
under the mutex), `listing` (the read loop), `visiting` (the visitor call),
`finishing` (`finish_task` under the mutex) and, at the end, `exiting`, `sent`,
`released`, `done`: the outcome is sent, then the captured reference to the
shared state is dropped, then the sender, in the drop order of the closure's
captures. A panic goes to `unwinding` and `abort_after_panic`. The caller visits
the root, decides whether to descend, submits the jobs one by one, and collects
or drains. `config` is one of the `Calls`; `Streaming` selects `stream_batched`, whose root
handling, report and visitor differ from `run_batched`. The token is read again for every entry of a
listing, so a cancelled listing returns any prefix of its directories together
with any number of its other entries. The tree is data: paths are values,
`Subdirs[d]` are the entries of `d` that the walker would descend into.

**OrderedPull.** Items are numbers in path order. `frames` is the stack of open
directories, each a sequence of items not emitted yet; the scheduler's fields
have the source's names. `after` says where the coordinator continues after a
loop that several places share (refill, send, drain). The channel is the
sequence `sent` with the index `taken`: `Buffer = 0` is `sync_channel(0)`.
`iterator` is one of the `Iterators` and gives `Buffer`, `Reentrant` and the rest.
`Reentrant` is the serial fallback for an iterator created on a worker of its
own runtime. A panic of a read resumes on the coordinator and leaves through the
join in the consumer.

**ContentVisit.** One module for the two ways a visit is run. With `Direct`
(`visit_content_direct`) the caller submits the jobs, walks the tree
(`discovering`), looks at the token (`offering`) and sends each file into the
bounded `channel` (`sending`), drops the sender, and collects. Otherwise
(`run_workers`) the listing comes first, in one step with any outcome its limits
allow, and the jobs empty a queue; one job, or a call from a thread of its own
runtime, is run inline. The walk is serial here: whether `DynamicWalk` or a
serial walker finds the files is not visible to the jobs. `place[w]` is a job's
place in `run_direct_worker`/`visit_files`: `fetching` and `filling` are `recv`
and the `try_recv` loop under one lock, `checking` the head of the loop over a
batch, `reading` and `skipping` the chunk loop, `ending` `finish_visit`, `closing`
the step between the job's verdict and its sending. `stopped`, `quit`, `warned`
are the fields of its `VisitedFiles` that the report is made from; `end`,
`fault`, `marred` the same for the discovery. A file whose version changed is one
that may fail at any turn (`Unreliable`). The look at the token and the opening
of a file are one action, as are the look and one chunk: the second half touches
nothing that others can see until the callback, and a token set in between is
seen at the next turn.

**WatchSession.** `disk` is the tree; every change raises `clock`, gives the
files it writes a new version, and adds its events to `pending`, the plan that
`WatcherEventAdapter::plan` makes of them (coalescing event by event and all at
the end give the same plan). A directory moved away or in is a single event for
the directory, as `notify` reports it; making or removing one asks for a
rescan. `stage` is the update under way: `check` goes through the sorted changed
paths of an incremental update, `walk` through the directories of a scan, in any
order, listing (`ListFolder`) and deciding (`DecideBatch`) apart, because a
worker lists before the visitor gets its batch; `inspect` reads the files found,
in any order. Between any two of these steps the tree may change, so a file may
be gone, replaced or rewritten when it is read. A fallback discovered halfway
(`BeginScan`) drops the draft and starts again with the cache of the previous
report. `matcher` reads a directory's rule files once, when it prepares the
directory; `Hides` says which paths the rules of a file reject, without their
syntax. The limit `max_total_bytes` is applied before the inspection by a scan
and after it by an incremental update (`EndWalk`, `Finished`), as in the code. `reader` is the
generator `files()` of the Node binding over `files_page`; the session's lock
keeps it out of an update. Listing one directory with its metadata, deciding one batch, and reading
one file are single steps; what changes in the middle of one is left to the
version check of the next (a change in the middle of a read is in the plan for
`BoundedRead`).

**Walker, SerialWalk.** `Walker` has the iterator of `walk_iter.rs` as functions
on a record with the fields of the struct: `frames` (each with what is left of
its listing, whether its handle is still open and the identity it put into the
active set), `open_handles`, `pending_directory`, `deferred_entry`,
`skip_pending`, `finished`. One branch of the loop of `next` is one function
that gives the new walker and perhaps an item; `Turn` picks the branch by the
order of the code and `Items` iterates to the end. `SerialWalk` makes a branch
an action and lets the caller skip directories between two calls. An Option is a
sequence of at most one element. The tree has links in and out of the root,
broken ones, a link to its own directory and a second file system; `fault` names
the operation that fails. `Reference` (`SerialPromise`) is written by recursion over the tree, with
no stack, handles or pending directory. `visit_plain` is the fast path the code
takes when no option asks for more of an entry.

**CollectedWalk, MultiRoot.** `walk[r]` is the call of `ParallelWalker::walk` for
root `r`: `StartWalk` does everything before the first lane is submitted
(the shallow walk, the expansion of its frontier level by level, the round-robin
`Lanes`), `SubmitLane`/`RejectLane` the loop over the lanes, `RunTask` one task of
one lane with a whole serial walker over it, `SendReport` the end of the lane,
`MergeLanes` the collection and the merge. A task touches nothing that others
see, so it is one step. The frontier
stays one level deep under `same_file_system`. `MultiRoot` adds the scoped
threads: `thread[t]` has the chunk of roots it takes in turn; on a worker of
the runtime, or with one worker, one thread takes them all and stops at the
first error. `visit` is the promise of the dynamic scheduler (items after
their directory, a few at a time) with the shared token and its `Quit`.

**StatefulWalk, StatefulOrder.** The coordinator has the places of
`OrderedPull`; tasks have ids, because a link makes one directory appear under
several paths and a task carries the callback's state. The callback appends the
node it processes to the state it was given, so the state attached to an entry
names the directories it came through. Sorting, removing and pruning are
options of the builder. `Read` is a job from its walker (limited to one level) to
its result; a token that was cancelled cuts the batch short, and the callback
then gets what there is. The serial walker that a worker of its own runtime falls
back to is `SerialStart`, `SerialRead`, `SerialNext`.

**IgnoreRules, Discovery.** A rule file is a sequence of lines, a line's pattern
the set of what it matches. A directory's rules are six chains of layers, one per
`SourceRank`, its own in front of its parent's (`ChildRules`); `MatchPreparedRules`
decides a path in a walk whose directories were decided before it, `MatchRules`
one on its own, which has to look above the path for a rule that excludes a
parent. `Discovery` takes the entries of the tree one by one (`HandlesItem`) or as
the batches that parallel workers bring under the lock (`TakesBatch` for any
directory found); `Decision` is the order of `scanner/entry.rs`: root and
standard directories, rules, depth, extension, size. After the walk come the
budgets (`Discovered`), the chunks of a compact scan or the single files of a
stream (`TakesChunk`), their inspection, the report. The `plan` picks engine,
form of report, limits, overrides, unreadable directories and rule files with a
line that does not parse. `cancelled` stands for the token and the timeout alike.

**ContentInspection.** `inodes`, `at` and `clock` are the file system: a writer
changes a file in place, replaces it by a rename, or removes it at any moment, and
may put the modification time back where the platform has a change time. `worker[c]`
is a worker with its chunk; for a file it goes through `takes` (published stop
reason, its own look at token and clock, the cache), `publishes`
(`InspectionStop::reason` after another worker may have published), `opens`,
`reads` (one block per turn of `read_bounded`), `rechecks` (the second version).
A content is a short sequence of blocks, its hash the content itself. A scan's
report is the cache of the next. `proven` is a history field: the evidence was
first taken under the strict policy.

## 3. Runs

Every property of a passing run is listed in `PROJECT.json` with a mutated
definition (the operators with an underscore in their name that no code has, such
as `InPathOrder_Descending`) that breaks it.

| Run | Instance | What it shows |
|---|---|---|
| `serial_walk` | 13 nodes, 9 directories and links, every combination of the options, at most one failing operation, 2 skips | the items are those of a recursive reference; handles, frames and active directories tell one story |
| `multi_root` | 3 roots, 1 to 3 root workers, 2 lanes, one refused job, one `Quit` or `Skip` | the collected output is the serial walker's and independent of the schedule, lanes end before the call, first error in order, `Quit` stops every root |
| `dynamic_walk` | 4 directories, 3 jobs, 2 threads, one failing and one hidden directory; `run_batched`, and `stream_batched` under `Abort` with an invisible root | no lost wakeup, no visitor call after the return, a faithful report, refinement of `DirectoryWalk` with its promise that the call ends |
| `thread_pool` | 3 workers, 4 jobs | one wakeup per job is enough; drop and failed constructor return and leave nothing behind; refinement of `JobExecutor` with its promise that accepted jobs run |
| `rayon_busy` | 2 threads, jobs nested three deep, one job without timeout | nobody starves, refinement of `JobExecutor` (a refused job never runs) |
| `ordered_pull` | 9 items, 5 directories, 2 reads, rejection, a panicking read; buffered, a rendezvous under `Abort` with a hidden root, the serial fallback | path order, exact accounting of the reads, explained end, calls return |
| `stateful_walk` | 11 nodes, 6 directories, 1 to 3 jobs; a callback that sorts, one that removes and prunes, one that panics; rejection, `Abort`, depth limits, the serial fallback | the order and the states of a single thread, the scheduler holds exactly what the output still needs, calls return |
| `discovery` | 19 entries with rule files on three levels, 14 scans | the policy selects, whatever the engine; the report is explained; outside three cases the matcher asked about one path agrees; the scan ends |
| `reentrant_scan` | the fallback of the same tree | finding 1 |
| `content_inspection` | 3 files, 1 or 2 workers, 5 contents, a writer, up to 3 scans with the cache of the one before | evidence is of its version, every file once, termination and changes are real, the scan returns |
| `content_visit` | 3 files, 2 jobs, channel for 1, batches of 2; direct under both error policies, queued, inline | a complete report covers every file, every outcome reaches the caller, the call returns |
| `watch_session` | 5 paths (two ignore files, two files, a directory), 2 contents; two changes under a byte limit, a change and a cancelled update, a change with a rescan, binary detection and a reader | the revision converges to that of a full scan, and gets there; pages of one generation |

Options of the code that select between variants of one algorithm (`OptionSets`,
`Callers`, `Calls`, `Iterators`, `Builders`, `Plans`, `Scenarios`) are fixed by the
initial state: one run covers all variants listed in its MC module.

Bounds. *MCSerialWalk*: two open handles against directories three deep make the
walker buffer the oldest one; the options are a full product where they interact
(depth limits, links, file systems, order) and a second product with failures and
`Abort`. *MCMultiRoot*: the first root has three directories, one on the other file
system, two of them with children, so two workers get lanes of several
tasks; the second fails or not, the third is a file; three
roots on two threads leave a chunk of two. *MCDynamicWalk*: two siblings (two jobs
work at once) and a grandchild (something is queued while others already sleep);
three jobs are the fewest with which one works, one sleeps and one has not
started. *MCThreadPool*: three workers and four jobs let a notification find
several sleepers, one or none, and let the queue outgrow the workers.
*MCOrderedPull*: three sibling directories for two reads, so that results arrive
out of order and a grandchild must overtake the queue. *MCStatefulWalk*: a
grandchild as well, four siblings for two or three jobs, listed out of order.
*MCDiscovery*: rules at the match root, the scan root and in a directory, which
include what an outer one ignores and the other way round; chunks of two for
compact scans; each limit is met in one of the scans; a hidden directory that a rule includes has a hidden directory in it, an ignored directory that an
override brings in has one that no override names: without the exception for
either case `MatcherAgrees` fails. The scan root itself is ignored by no rule, or
every scan of the run would be the third exception; the theorem `TheMatcherAgrees`
(section 6) covers the roots that are. *MCContentInspection*: two
files share a chunk; one change of the first file, at any moment of any of the
scans, grows it, cuts it, rewrites it, with or without the old time, replaces or
removes it; three scans carry evidence past a scan that takes none. *MCContentVisit*: the channel (1) and a batch (2) are
smaller than the number of files (3), so the caller blocks in `send` while jobs
stop, a job stops with an unread file in its batch and another one in the channel;
the limit on entries (4) is met only after a walk error, of which the model
records at most one (`marred`). *MCWatchSession* is bounded by its `budget`:
changes of the tree, cancelled updates, calls of `rescan` and readers. Two changes
let one be applied while the other happens during the update, or both fall into one
update or one plan; one cancelled update is enough for the state that the next
plan has to repair. The named bounds are `MaxSkips`, `MaxRejections`, `QuitAt`,
`MaxWrites` and the `budget`; otherwise nothing counts without bound: every
counter is bounded by the tree, the files or the job set.

`CHECK_DEADLOCK FALSE` stands where a finished system rests: an exhausted or
dropped iterator (`OrderedPull`, `StatefulWalk`; a drop in the window of section 5,
item 4, really stops), a walker at its end (`SerialWalk`), settled submissions
(`RayonExecutor`), a call that has returned (`ContentVisit`, `Discovery`), a writer
and a caller out of scans (`ContentInspection`), a session without events
(`WatchSession`). `CallsReturn`, `CallReturns`, `ScanReturns`, `ScanEnds`,
`NobodyStarves` and `KeepsUp` say that they do not stop before. `ThreadPool`,
`DynamicWalk` and `MultiRoot` rest in an explicit stuttering step whose guard says
that everything is over, so TLC looks for deadlocks everywhere else.

## 4. Fairness

Weak fairness for each thread that has something to do: the worker threads, the
submitter inside `try_execute`, the coordinators, the caller in its collection
loop, a read or visitor that has begun, the caller and each job of a content visit,
each worker of an inspection, the thread of a scan. The operating system schedules
runnable threads and the callbacks are assumed to return or to panic. Nobody is
assumed to submit, to cancel, to drop, to call `next()`, or to be woken without
cause; `notify_one` may pick any sleeper. The fairness of a consumer (`Consumer`)
covers only what follows a call of `next()` or a drop that has begun. Rayon's
threads are weakly fair per job; the executor of a `StatefulWalk` runs what it has
accepted. In `WatchSession` the session is opened, the update under way goes on,
and the caller applies the plan it has, also an empty one after an update it has
cancelled (a cancelled report is incomplete, and only the next plan makes the
session scan again); the tree, the cancellation and the reader are not fair, nor are
the writers of `ContentInspection`. `SerialWalk` and `MultiRoot` have no liveness
property and no fairness: the walker is a bounded loop, and what could stop
`MultiRoot` would be a deadlock.

## 5. Findings

The first has a run that shows it; the others are disagreements met while modelling,
left in the models as the code has them: the properties of the passing runs name them
as exceptions where they matter.

1. `reentrant_scan`: a scan on a worker of its own runtime takes the fallback of
   `parallel/dynamic/serial.rs`, whose batches have one entry each.
   `prepare_directory_from_entries` (`ignore/repository_source.rs:21`) looks for the
   names of rule files in the batch, so a directory is prepared by its first entry,
   mostly without any, and its rule files are never read. `README.md:661` has such
   a walk fall back to the serial engine; nothing says that it selects other files.
2. A single path is decided with `match_rules` (`ignore/mod.rs:198`),
   which also finds a rule for a directory above it, the scan root and those above the
   root included; a walk matches each entry alone and its root never. A scan of a
   directory that a rule above it ignores (`parent_rules`) selects its files,
   `SelectionMatcher` selects none, and a watch update (`watch_update/mod.rs:199`) drops
   each file that changes. `README.md:933` offers the matcher for the exact contract of a
   scan. `MatchersPart` names this case and two smaller ones: below a directory that
   is ignored and brought in by an override, the matcher takes what no override names as
   ignored and the walk as unmatched; below a directory that a rule includes by name, the
   matcher takes hidden entries as included and the walk skips them.
   `TheMatcherAgrees` proves that there are no others. `WatchSession` has
   one decision for walk and update and leaves these cases out.
3. When the executor rejects a job in the refill at the end of `prepare_frame`
   (`ordered_pull/scheduler.rs:122`), the error is stored and the token cancelled;
   the driving loop sees the token first and ends. The consumer sees the end of a
   whole traversal; `README.md:601` promises `WalkOperation::ScheduleWorker`. The
   stateful walk does the same (`scheduleError` in `EndIsExplained`).
4. A drop that cancels between the token check (`ordered_pull/execution.rs:73`) and
   the first refill (`:108`) leaves the coordinator in `recv` on a channel whose
   sender it holds; the join in the drop waits for ever. The stateful walk has the
   same window (`stateful_walk/parallel/execution.rs:73`). `InTheWindow` names its
   states: past the check, with no read accepted and no rejection recorded.
   `CallsReturn` obliges every drop whose cancellation comes at any other point, before
   the check and in the serial fallback too, so there is no other such window; its
   mutant leaves out the check.
5. The serial fallback of the ordered iterator does not sort, although
   `ordered_pull/mod.rs:65` promises a deterministic depth-first path order. That
   of the stateful walk ignores `ErrorPolicy::Abort`.
6. `collect_worker_outcomes` (`content_visit/workers.rs:168`) cancels for an error
   only. After a panic the other jobs of `run_workers` read every remaining file
   before it is propagated, although `content_visit/api.rs:31` promises propagation
   after the active workers observe cancellation. `DirectPanicCancels` (in
   `OutcomeIsReported`) shows that direct mode keeps the promise.
7. When the jobs have stopped for the timeout while the caller is about to send a
   file, `send_candidate` (`content_visit/discovery.rs:129`) finds the channel
   closed, looks at the token only, and the call returns a broken-pipe error in
   place of a report with `Timeout`; `README.md:1020` and
   `tests/cases/p0_quality/limits.rs:29` expect the report.
8. When a file below an ignored directory changes, `ancestors_selected`
   (`scanner/watch_update/mod.rs:242`) records a skipped entry with the path of the
   file; a full scan records the directory only. `docs/RECIPES.md:35` lists the
   skips among what an update keeps correct. Files, sources, revision and
   termination do agree (`RevisionConverges`), except with binary detection together
   with a byte limit, where the two orders of limit and inspection cut differently
   (`BothOptions`), and after a cancelled update.
9. A stateful or ordered walk that follows links reads every directory with a
   walker of one level (`stateful_walk/parallel/mod.rs:154`): whatever it lists is at
   the depth limit, which `walk_visit.rs:78` tests before it looks for a loop, and the
   caller then takes the limit back (`mod.rs:176`). A link to a directory above is
   therefore descended into again and again; `README.md:490` promises a typed skip
   reason. The tree of `MCStatefulWalk` has no such link.
10. After a budget or a termination a compact scan inspects its first chunk of 4096
    files only and reports the rest as `ScanLimit` (`compact/inspection.rs:86`), and
    `scan_into` emits exactly one file (`scanner/stream.rs:62`), while a full scan
    inspects every file within the budget (`CutsShort` in `ReportIsExplained`).
11. A lane that is refused returns its error at once (`parallel/mod.rs:192`) while
    the lanes submitted before it go on reading; `LanesEndFirst` excepts it.
12. A cancelled listing hands the callback of a stateful walk a batch that is cut
    short, without a sign that it is.

## 6. Proofs

All seven proof modules of components follow one pattern: an inductive invariant, one
lemma per part of it that goes through the actions, and temporal theorems that combine
them. They assume only the named assumptions of the modules: finite job sets, positive
worker counts and page sizes, finitely many paths in a sorted order without ties,
(`TreeAssumption`) that the directories form a tree (in the stateful walk, which follows
links, only that a directory lists no node twice; in `Walker` that a resolved link is no
link and that only directories list anything), (`RootsAssumption`, `MultiRootAssumption`)
that roots are numbered from one and a caller's options have their types,
(`NumberingAssumption`) that the items of an ordered walk are numbered in path order, and
(`InspectionConstants`, `PlansAssumption`) that paths are listed once, contents are
sequences of blocks and the marks for "none" are no reasons or records, and
(`RuleConstants`, `DiscoveryConstants`) that a rule ignores or includes, that rule files
and layers are lists and a layer has a base directory, that the mark for "none" is no
answer of a matcher, and that the tree is closed under parents. `MaxWrites` and the length of the plans
bound only the runs: the proofs hold for every value.

*WalkProofs: the serial walker.* `SoundInv` says of a walker, between any two of its
turns: the count of open handles is the number of open frames and within
`max_open` (`Handles`), the active directories are the identities of the frames,
no two frames share one and each is beneath the root (`Nested`), a pending directory
may be entered (`PendingSound`: not open yet, beneath the root), and the root is resolved
(`RootSound`). `FramesAreAccounted` alone is not inductive: that a directory is not
entered inside itself needs what `walk_visit.rs` has looked at before it made the
directory pending. Each function of `Walker` has a lemma that it keeps `Sound`, errors
and skips included, so the proof of a step goes through the branches of
`Iterator::next`. That sorting a listing keeps its members is a counting argument
(`SortedByFacts`); that the recursion of `Beneath` has a solution is shown by giving
one, the least set that holds what its members list (`LowerFacts`).
`FramesStayAccounted` is the theorem.

*WalkProofs: lanes.* `WalksInv` (an answer is there only when all lanes have sent, or
one was refused) gives `LanesEndBeforeTheAnswer`. `TheScheduleDoesNotShow` needs more.
`LanesInv` says of each lane how far it is: of its share, every n-th task from the l-th
on, it has done the first d, its report is the reports of those joined, and its
segments are their lengths (`LaneFollows`, `Carries`). When all have sent, d is the
whole share, so turn k of the merge finds the report of task k at the head of its lane
and leaves the rest of every lane in place (`MergeTurn`, `AtTurn`), and the merge is
the reports in task order (`MergeInOrder`). That the k-th task of the list is the next one
of its lane is arithmetic with remainders (`CountNext`); that a lane's report can be
taken apart again at the lengths of its segments is `FirstPiece`.

*WalkProofs: several roots.* `CountedInv` bounds what a root delivers after the token is
cancelled by what was in flight when that happened: nothing is taken under a
cancelled token, so `late` and the items still in flight together stay within the
number of workers (`QuitReachesEveryRoot`). `WholeInv` adds that what is above a
taken item was delivered before, so a directory is skipped before anything below it is
in flight (`VisitsDeliverUntilQuit`). `ThreadsInv` says which
part of its run of roots each thread has done; the runs are consecutive and cover the
roots (`ShareFacts`), so the results of the threads, flattened, are in insertion order
already and the sort at the join keeps them (`RunsFlatten`, `RunIsSorted`). A root that
is over stays as it is (`RootsMove`), and the answer settled at the join stays true
(`AnswerInv`): `TheFirstErrorIsReported`.

Two of these theorems have a hypothesis: `VisitsDeliverUntilQuit` assumes that the
items of a visit come top down (`ItemsComeTopDown`), `TheScheduleDoesNotShow` that the
report of a task is a list of entries and a list of errors (`ReportsAreTyped`). Both
say what `Items`, the whole run of a walker, looks like, which is an induction over the tree and
out of the prover's reach; TLC checks them as conjuncts of `DeliversUntilQuit` and
`SameAsSerial`.

*WalkProofs: executors.* For the pool, `PoolInv` joins the type, `QueueInv` (a job is
queued once, or has been run once, never both), `OwnerInv` (when the queue is
closed), `WorkerInv` (who has left and what he left behind), `EnoughAwake` and
`NoSleeperToJoin`. `EnoughAwake` is inductive only together with the fact that
the queue is empty when a worker leaves. `PoolIsDrained` follows because the last
worker to leave saw an empty closed queue. `PoolKeepsContract` maps every step
to a step or stutter of `JobExecutor`. For the adapter (`Adapter`, an instance of
`RayonExecutor`), `Decided(j)` ties the three places where the fate of a
job is kept: it is in the mutex exactly until one side takes it, and the side
that takes it decides. `RefusedJobsNeverRun` and `AdapterKeepsContract` follow.

*DynamicWalkProofs.* Five layers, each using the ones before it. `AccountInv`
(`active` is the number of busy jobs, jobs are submitted in order, sleepers need
a busy job) gives type correctness, including that the decrement of `active`
cannot underflow, and `NoLostWakeup`. `OnceInv` (a directory is in the queue, in
the hands of one job, or listed, in one place only) gives `ListedAtMostOnce`.
`CoverInv` (until something stops the traversal, every directory below a listed
one is somewhere) gives `CompleteMeansAllListed`: an empty queue without an
active job leaves no directory out. `ReturnInv` counts the outcomes and gives
`NoVisitAfterReturn`. `ImplementsTraversal` maps every step to `Give`, `Return`
or a stutter of `DirectoryWalk`.
`FaithInv` is the fifth layer, three accounts kept up to the moment the report is
filed: what the visitor was given is counted, or in the hands of a job that will count
it (`HandedInv`); every error of a done directory is in the list, once (`ErrorInv`);
every panic has been received, or waits in the channel, or in its job (`PanicInv`).
When the caller returns, the jobs and the channel hold nothing more, and
`ReportHolds` is what is left.

*OrderedPullProofs.* `PullReadsAreAccounted` is `ReadsAreAccounted`: no directory is
read twice, `outstanding` counts the reads under way, no read outlives the
coordinator, and a coordinator that waits for a batch has a read that will bring
it, or was cancelled before the first refill (section 5, item 4). `ReadKinds` sorts
the actions by what they do to the reads. `ReadInv` says where a directory is: in
the queue, on the executor, in the results channel or among the early batches, in
one of them only (`QueueInv`, `FlightInv`), that the count is right (`CountInv`), and
that a directory is found by one read only, its parent's (`ParentInv`). `OverInv` is
the drain before each end. `LoopInv` is about the driving loop: what the frames still
promise is coming (`FrameInv`), the prefetch queue is filled up before each wait
(`FillInv`), and the batch awaited is not among the early ones (`AwaitInv`). For a
wait to be answered the target must be under way and not merely queued: it was put
at the front of the queue, and a full prefetch has only batches in front of it that
the order needs earlier. That the sorted batch is a permutation of the batch is a
counting argument (`PathOrder`): the position of an item is the number of smaller
ones. The same module proves the order itself. `AllSentSoFar` says that what was sent is
everything the tree promises up to the item the traversal has reached, which is more
than the order and therefore inductive; `SentInv` adds that nothing follows an error that ends
the traversal. `PullDepthFirstOrder` follows: whatever lies between two promised items
is not lost, because the k-th item has been sent when k - 1 promised ones come before
it. The order of the serial fallback is a separate argument about its stack.
`EndInv` looks at the ends: a traversal that was not dropped and reports no error
has sent as many items as are promised, or the executor rejected a job in the refill
(section 5, item 3). `PullEndIsExplained` is the theorem.

*StatefulWalkProofs.* `StatefulInvariant` has four layers. `TypeInv` is the type, with
the data of the entries. `PhaseInv` says where each place of the coordinator continues
and where nothing can be under way. `CountInv` is the counter of the scheduler: it
counts the jobs on the executor and the results not yet received. `HoldInv` follows the
number that a directory gets when its parent's batch arrives. As long as nothing is
cancelled a number is queued, with the executor, in the results channel or among the
early batches, in one of them only, if and only if one frame still promises it or the
coordinator waits for it. The step that is not obvious is `FrameAccount`: the announced
directories of a batch get the next numbers, and each number goes to one of them,
because the k-th announced directory has k - 1 before it. The account ends with a
cancellation, which empties the queue. `StatefulAccounts` is `DirectoriesAreAccounted`;
that no job outlives the coordinator follows from `CountInv` and `PhaseInv`.

*ContentInspectionProofs.* The argument goes through the *stamp* of a version, the
change time on Unix and the modification time elsewhere. `DiskInv` is about the
history of the files: a path has one content per stamp (`OneVersion`), a file is
written under one path (`OneOwner`), and the files there are now are in the history
(`Recorded`). `Grows` is what any step leaves of the disk: whatever is written is
younger than everything before it. Everything a worker relies on lasts under `Grows`
(`FileLasts`, `EvidenceLasts`, `ReadingLasts`, `ChangeLasts`), so a writer needs no
further thought and each action of a worker is looked at once, for its own worker
(`MoveKeeps`). `Reading` is the invariant that is not obvious: the file open was the
walked one when it was opened, and what has been read is a beginning of its content,
*if* its stamp is still the one seen first; while a writer is at work it may be
anything. The second look at the version makes the condition true
(`InspectedIsSound`), or it fails and the file is reported. `CachedIsSound` carries the
evidence from a cached version to the present one: versions that may stand for each
other have one stamp, hence one content. The same invariant gives `NoFalseAlarm`: if the
path did not change, the open file is the walked one, so length, version and beginning
agree and none of the three warnings can be reached (`StillThere`, `ReadingStill`).
`AccountInv` is about the lists of a report. `Account` says of one chunk which of
its files a worker has put into which of its lists, in the order of the walk.
`ChunksArePieces` shows that the chunks, which the code cuts by a rounded-up
division, are consecutive pieces of the walk that leave no file out. The report joins
the lists of the chunks with a fold; since a fold cannot be unrolled by an induction here,
`FlattenIsJoined` looks at the shortest list of lists for which it would be wrong. Lists that
agree with pieces of the walk then agree with the walk when joined (`JoinedLists`).
`EveryFileOnce` and `TerminationHolds` follow.

*DiscoveryProofs.* Every tree, every rule files, static rules and overrides that
`RuleConstants` and `DiscoveryConstants` admit, every plan, every order of delivery.
The invariant `Inv` has six parts, each using the ones before it. `TypeInv` is the type.
`PreparedInv` says that the matcher has prepared, for each entry still to come, what
the next question about it needs: the parent in the serial and the parallel walk, the
grandparent in the fallback, which prepares the parent when the entry comes. `OnceInv`
keeps apart what has been handled and what is still to come: no entry is above another
one of them (`Apart`). Without it a file could be both selected and skipped, by two
visits. `CoverInv` is what `ReportIsExplained` needs from the walk: a file that is
neither selected nor skipped nor above the least depth is still expected, and when nothing is
expected any more, nothing is missing. `ReportInv` follows the files selected through
the byte limit and the chunks into the report. `PolicyInv` is about rules: those prepared
for a directory are `RulesOf` of the directory. The step that is not obvious is
`RulesStep`: the layers of a directory, defined at once for its whole chain of
ancestors, are those of its parent with its own on top. `FlattenCons` and `Chain`
carry it, with the least counterexample in place of an induction over the function
that the library's fold is defined by. `NamesAreEnough` closes the
gap between the walks: the parallel batch gives the matcher only the names of ignore files
seen in it, and that suffices because a batch holds the whole listing of its directory.
This is what fails in the fallback (section 5), where a batch is a single entry, so
`PolicyInv` and `SelectionIsThePolicy` leave it out and `ReportIsExplained` does not.

*DiscoveryProofs: the matcher.* A scan comes down to a path, one directory at a
time, and asks `match_prepared_rules`; `SelectionMatcher` and a watched session's update
ask `match_rules` about the path alone, which looks upwards itself. `SameAbove` lets the
proof compare them: rules of directories below a path have no say over it, so
each ancestor is answered alike by its parent's rules and by those of any directory
further down. `HitIs` says what one layer finds: its answer about the path itself
is exact, and one found above the path is the answer about an ancestor.
`MatchersAgree` is the heart: when the layers ignore no ancestor of the path, the two
differ only in that `match_rules` may find an Include above it. An Ignore found above,
in some layer, is outdone by an Include or an exact rule of an earlier layer, or the
ancestor would be ignored; the first layer for which that is wrong gives the
contradiction. `MatcherDecides` and `MatchedIsPolicy` carry the comparison down the
ancestors, by the shortest one on which they would part, and `UncutInv` adds the walk's
side: a full scan with no reason to terminate has lost nothing to the byte budget.
`TheMatcherAgrees` follows. The three cases of `MatchersPart` are therefore all there are,
for every tree and every rule file, the ignored scan root included, which the run does
not meet.

*SessionProofs: content visit.* `JobKinds` first sorts the steps of a job into five kinds
(it moves on, takes files, drops one, closes, is over), and every later lemma
goes through the kinds. `RecordInv` (an outcome is settled once, a reason to stop
holds when it is recorded, a failed direct job has cancelled) gives
`DirectPanicCancels`. `PhaseInv` says what the caller knows in each phase: a
discovery without a reason to stop found every file, and all submitted jobs
are over when their outcomes are counted. `FlowInv` follows the files: none is
lost unless a report says so (`NothingLost`), and a job that ends in order found
the channel empty and closed (`Drained`). Together they give `CompleteMeansAll`,
the theorem about `CompleteReport`; `VisitStopIsReported`, `VisitFailureIsReturned`
and with `VisitPanicCancels` the run's `OutcomeIsReported` follow from `RecordInv` and
from the order in which the code decides the answer.

*SessionProofs: watched session.* `TreeOK`, `SessionOK` and `UpdateOK` are the types of the
tree with its events, of the session and of the update, one lemma per step; while
changed paths are checked, the work list holds paths only, never the root.
`ReaderOK` says that a cursor that is not stale is over the installed report,
because reports change only together with the generation. That a page appends
exactly what follows the offset (`SliceGrows`) is a counting argument: the
positions of the files in a manifest are a bijection with the numbers below its
length (`PositionInjective`, `PositionOnto`), so a page has as many files as
there are left, up to its size (`PageLength`). `SessionPagesOfOneReport` needs both.

The type invariants of the proved modules, `ListedAtMostOnce`,
`CompleteMeansAllListed`, `RunsOnce`, `NoSleeperToJoin`, `RejectedNeverRuns`, and the
parts of `OutcomeIsReported` have no line of their own in a run: they are proved, and
TLC checks the refinements or the conjunctions that imply them.

Only model-checked: all liveness (`ShutdownReturns`, `NobodyStarves`, `CallsReturn`,
`CallReturns`, `KeepsUp`, `ScanReturns`, `ScanEnds`, the promises in the
refinements), which is out of the prover's reach; `RevisionConverges` (it compares
a fold over data, the byte limit, along two different paths through the update);
and `SerialOrder` of the stateful walk with its `EndIsExplained`, `ReturnsThePromise`
and `SameAsSerial`, which compare with recursive definitions, where no proof by
induction is available.

## 7. Plan

Done: executors, dynamic scheduler, ordered iterator, serial walker, lanes and
several roots, stateful walk, rules and discovery, content inspection, content
visit, session. Left, most important first:

1. `PullIterator`: the unordered coordinator composed with a pool of few threads;
   nested iterators and what `is_worker_thread` answers on the coordinator.
2. `MultiScanner`, with scans in place of walks.
3. File identities in the stateful and the ordered walk (section 5, item 9).
4. Pure parts against reference definitions: the matching of a glob, prefix
   collapse, delta and snapshot.

## 8. Not modelled and why

* Paths, encodings, sorting keys: data that the schedulers only pass on; a tree of
  values stands for them. A glob is the set of what it matches: `glob.rs`, `path_pattern.rs` and
  the index of rules by first and last byte are pure functions over strings.
* In `Discovery`: followed links, several file systems and root policies (they are in
  `SerialWalk`), the registry of file types (`file_types.rs`, `default_file_types.rs`:
  a table; `Extensions` is its answer), Git's configuration files
  (`ignore/git.rs`: where the static layers come from), provenance.
* `multi_scanner.rs`: the scheme of `MultiRoot` with scans in place of walks.
* `parallel/visit.rs` and `visit_worker.rs` are in `MultiRoot` with their promise only;
  their threads are those of `DynamicWalk`.
* `delta.rs`, `snapshot.rs`, `summary.rs`, `portable_report.rs`, `scan_identity.rs`,
  `path_serde.rs`, `scan_finalize.rs`: pure transformations of a finished report.
* In `WatchSession`: links, a root that moves, include rules, extensions and
  other limits; a policy change (a session keeps its options); two writes of one
  file within one timestamp tick with equal size, which no version can tell
  apart; Node's asynchronous updates applied in another order than they were
  requested; `ErrorPolicy::Abort`, under which an update returns an error and
  keeps the old report. A path's metadata and the rules above it are read in
  one step; a change between the two is not seen apart.
* In `ContentInspection`: the same two writes within one tick; a time put back
  where the platform has no change time; read errors of other causes than a file that was
  removed (permissions, the device), so `ChangesAreReal` speaks of changes only.
* Poisoned mutexes: no code panics while it holds one of the modelled mutexes.
* Memory orderings of the token: it is one flag that is only set and carries no
  other data.
* The lazily created global pool: a `OnceLock` around the modelled constructor. The
  drop of a runtime by one of its own jobs: the ownership of handles is not modelled.
* `config/*` and the report types are plain records; `hash.rs` is a pure
  function with published test vectors; `stdout.rs` compares file identities;
  the Node binding, apart from its reader, forwards to a session on a worker of its
  host.
