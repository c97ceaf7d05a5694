---------------------------- MODULE DynamicWalk ----------------------------
(***************************************************************************)
(* The dynamic directory scheduler of src/src/parallel/dynamic: one caller *)
(* submits WorkerCount jobs to an executor; every job repeatedly takes a   *)
(* directory from a shared queue, lists it, hands the batch to the visitor *)
(* and puts the subdirectories back.  Idle workers sleep on one condition  *)
(* variable.  The caller returns only when every job it submitted is over. *)
(*                                                                         *)
(* Both entry points of the scheduler are modelled: run_batched            *)
(* (~Streaming) and stream_batched (Streaming).                            *)
(***************************************************************************)
EXTENDS Integers, Sequences, FiniteSets

CONSTANTS
  Dir,          \* paths of the directories the traversal may descend into
  Root,         \* the root directory
  NoDir,        \* "no task"
  Subdirs,      \* Subdirs[d]: the entries of d that become child tasks, in listing order:
                \* directories without a skip reason for which the visitor answers Continue
  FileCount,    \* FileCount[d]: how many other entries d has
  Failing,      \* directories whose listing also yields a WalkError
  Hidden,       \* directories whose entries are above options.min_depth
  WorkerCount,  \* the jobs of one traversal: worker_count(runtime, parallelism, max_open)
  Threads,      \* how many of these jobs the executor ever runs at the same time
  Calls         \* the calls to consider: streaming says stream_batched, not run_batched,
                \* abort is ErrorPolicy::Abort, visible that the root is not above min_depth

Worker == 1 .. WorkerCount
DirsIn(s) == {s[i] : i \in DOMAIN s}
Children(d) == DirsIn(Subdirs[d])

(* The directories form a tree: the walker's loop detection has already      *)
(* turned a link to an ancestor into an entry with a skip reason.            *)
ASSUME TreeAssumption ==
  /\ Root \in Dir /\ NoDir \notin Dir
  /\ Subdirs \in [Dir -> Seq(Dir)]
  /\ \A d \in Dir : Root \notin Children(d)
  /\ \A d \in Dir : \A i, j \in DOMAIN Subdirs[d] : Subdirs[d][i] = Subdirs[d][j] => i = j
  /\ \A d, e \in Dir : d # e => Children(d) \cap Children(e) = {}
  /\ \A S \in SUBSET Dir : Root \in S /\ (\A d \in S : Children(d) \subseteq S) => S = Dir

ASSUME OptionsAssumption ==
  /\ FileCount \in [Dir -> Nat]
  /\ Failing \subseteq Dir /\ Hidden \subseteq Dir
  /\ WorkerCount \in Nat \ {0} /\ Threads \in Nat \ {0}
  /\ Calls \subseteq [streaming : BOOLEAN, abort : BOOLEAN, visible : BOOLEAN]

VARIABLES
  queue, active, stopped, quit, visited, errors,   \* SharedState, under its mutex
  cancelled,    \* the shared CancellationToken
  pc,           \* where each job is
  task,         \* the directory a job holds
  report,       \* the TaskReport a job is building
  crashed,      \* jobs whose closure was unwound by a visitor panic
  channel,      \* the outcomes sent to the caller: <<>> or <<TRUE, ...>>, TRUE for a panic
  config,       \* the call under way, one of Calls
  caller,       \* where the caller is
  rootControl,  \* what the visitor answered for the root entry
  submitted,    \* how many jobs the executor has accepted
  received,     \* how many outcomes the caller has received
  panicked,     \* the caller has received a panic
  result,       \* what the call returned
  listed,       \* history: how many times each directory was given to the visitor
  handed        \* history: the entries the visitor was given, as <<directory, number>>

shared == <<queue, active, stopped, quit, visited, errors>>
jobs == <<pc, task, report, crashed>>
call == <<config, caller, rootControl, submitted, received, panicked, result>>
history == <<listed, handed>>
vars == <<shared, cancelled, jobs, channel, call, history>>

Streaming == config.streaming
AbortPolicy == config.abort
RootVisible == config.visible

TaskReport == [directories : Seq(Dir), errors : Seq(Dir), visited : Nat, quit : BOOLEAN]
EmptyReport == [directories |-> <<>>, errors |-> <<>>, visited |-> 0, quit |-> FALSE]

Place == {"unsubmitted", "submitted", "next", "waiting", "listing", "visiting",
          "finishing", "unwinding", "exiting", "sent", "released", "done"}

Kind == {"none", "ok", "schedule_error", "walk_error", "panic", "still_shared"}
Result == [kind : Kind, visited : Nat, quit : BOOLEAN, cancelled : BOOLEAN, errors : Seq(Dir)]
Returned(kind, didQuit) == [kind |-> kind, visited |-> visited, quit |-> didQuit,
                            cancelled |-> cancelled, errors |-> errors]
NotReturned == [kind |-> "none", visited |-> 0, quit |-> FALSE, cancelled |-> FALSE, errors |-> <<>>]

Busy == {w \in Worker : pc[w] \in {"listing", "visiting", "finishing", "unwinding"}}
Running == {w \in Worker : pc[w] \notin {"unsubmitted", "submitted", "done"}}
HoldsShared == {w \in Worker : pc[w] \notin {"unsubmitted", "released", "done"}}
Waiting == {w \in Worker : pc[w] = "waiting"}

\* stream_batched counts a visible root before it looks at the token.
CountedRoot == IF Streaming /\ RootVisible THEN 1 ELSE 0

Init ==
  /\ config \in Calls
  /\ queue = <<Root>> /\ active = 0 /\ stopped = FALSE /\ quit = FALSE
  /\ visited = CountedRoot
  /\ errors = <<>>
  /\ cancelled \in BOOLEAN
  /\ pc = [w \in Worker |-> "unsubmitted"]
  /\ task = [w \in Worker |-> NoDir]
  /\ report = [w \in Worker |-> EmptyReport]
  /\ crashed = {}
  /\ channel = <<>>
  /\ caller = "root" /\ rootControl = "Continue"
  /\ submitted = 0 /\ received = 0 /\ panicked = FALSE
  /\ result = NotReturned
  /\ listed = [d \in Dir |-> 0] /\ handed = {}

-----------------------------------------------------------------------------
(* The caller *)

\* What the visitor is given, for the history: the entries of a batch, and the root.
EntriesOf(d, n) == {d} \X (1 .. n)
RootEntry == <<NoDir, 1>>

\* The visitor sees the root entry on the caller's thread; a panic unwinds the call itself.
VisitRoot ==
  /\ caller = "root"
  /\ IF ~cancelled /\ RootVisible
     THEN /\ visited' = 1
          /\ handed' = {RootEntry}
          /\ \/ /\ rootControl' \in IF Streaming THEN {"Continue", "Quit"} ELSE {"Continue", "Skip", "Quit"}
                /\ caller' = "descend"
                /\ result' = result
             \/ /\ caller' = "returned"
                /\ result' = Returned("panic", FALSE)
                /\ rootControl' = rootControl
     ELSE /\ caller' = "descend"
          /\ UNCHANGED <<visited, handed, rootControl, result>>
  /\ UNCHANGED <<queue, active, stopped, quit, errors, cancelled, jobs, channel,
                 config, submitted, received, panicked, listed>>

\* `let descend = ...`: without a descent the report is built from the root alone.
Descend ==
  /\ caller = "descend"
  /\ IF ~cancelled /\ rootControl = "Continue"
     THEN caller' = "submit" /\ result' = result
     ELSE /\ caller' = "returned"
          /\ result' = Returned("ok", rootControl = "Quit")
  /\ UNCHANGED <<shared, cancelled, jobs, channel, history,
                 config, rootControl, submitted, received, panicked>>

Submit ==
  /\ caller = "submit" /\ submitted < WorkerCount
  /\ pc' = [pc EXCEPT ![submitted + 1] = "submitted"]
  /\ submitted' = submitted + 1
  /\ UNCHANGED <<shared, cancelled, task, report, crashed, channel, history,
                 config, caller, rootControl, received, panicked, result>>

\* try_execute fails: abort_after_submit_error, then the drain loop.
SubmitRejected ==
  /\ caller = "submit" /\ submitted < WorkerCount
  /\ caller' = "drain"
  /\ stopped' = TRUE /\ quit' = TRUE
  /\ pc' = [w \in Worker |-> IF pc[w] = "waiting" THEN "next" ELSE pc[w]]
  /\ UNCHANGED <<queue, active, visited, errors, cancelled, task, report, crashed, channel,
                 history, config, rootControl, submitted, received, panicked, result>>

\* The caller drops its own sender.
AllSubmitted ==
  /\ caller = "submit" /\ submitted = WorkerCount
  /\ caller' = "collect"
  /\ UNCHANGED <<shared, cancelled, jobs, channel, history,
                 config, rootControl, submitted, received, panicked, result>>

MustDrain_Nothing == 0
MustDrain == submitted

PanicAfter(outcome) == panicked \/ outcome

Receive ==
  /\ \/ caller = "drain" /\ received < MustDrain
     \/ caller = "collect"
  /\ channel # <<>>
  /\ channel' = Tail(channel)
  /\ received' = received + 1
  /\ panicked' = PanicAfter(Head(channel))
  /\ UNCHANGED <<shared, cancelled, jobs, history, config, caller, rootControl, submitted, result>>

Drained ==
  /\ caller = "drain" /\ received = MustDrain
  /\ caller' = "returned"
  /\ result' = Returned("schedule_error", quit)
  /\ UNCHANGED <<shared, cancelled, jobs, channel, history,
                 config, rootControl, submitted, received, panicked>>

\* The receiver disconnects when the last sender is dropped.
SendersGone == \A w \in Worker : pc[w] = "done"

Outcome ==
  IF panicked THEN "panic"
  ELSE IF HoldsShared # {} THEN "still_shared"
  ELSE IF AbortPolicy /\ errors # <<>> THEN "walk_error" ELSE "ok"

\* Every sender is gone, so `for outcome in receiver` ends; then finish_report,
\* whose Arc::try_unwrap needs every job to have let go of the shared state.
FinishReport ==
  /\ caller = "collect" /\ channel = <<>>
  /\ SendersGone
  /\ caller' = "returned"
  /\ result' = Returned(Outcome, quit)
  /\ UNCHANGED <<shared, cancelled, jobs, channel, history,
                 config, rootControl, submitted, received, panicked>>

Caller == VisitRoot \/ Descend \/ Submit \/ SubmitRejected \/ AllSubmitted
          \/ Receive \/ Drained \/ FinishReport

-----------------------------------------------------------------------------
(* The jobs *)

\* A thread of the executor picks the job up.
Start(w) ==
  /\ pc[w] = "submitted"
  /\ Cardinality(Running) < Threads
  /\ pc' = [pc EXCEPT ![w] = "next"]
  /\ UNCHANGED <<shared, cancelled, task, report, crashed, channel, call, history>>

\* ready.notify_all() while job w moves to `next`.
NotifyAll(w, next) ==
  pc' = [v \in Worker |-> IF v = w THEN next ELSE IF pc[v] = "waiting" THEN "next" ELSE pc[v]]

MustStop == cancelled \/ stopped

\* Nothing is queued and nobody can queue anything any more.
NothingLeft_IgnoresActive(q, n) == q = <<>>
NothingLeft(q, n) == q = <<>> /\ n = 0

Enter == active + 1

AfterPop == Tail(queue)

\* One turn of the loop of next_task, with the mutex held.
NextTask(w) ==
  /\ pc[w] = "next"
  /\ \/ /\ MustStop
        /\ pc' = [pc EXCEPT ![w] = "exiting"]
        /\ UNCHANGED <<queue, active, stopped, task>>
     \/ /\ ~MustStop /\ queue # <<>>
        /\ task' = [task EXCEPT ![w] = Head(queue)]
        /\ queue' = AfterPop
        /\ active' = Enter
        /\ pc' = [pc EXCEPT ![w] = "listing"]
        /\ UNCHANGED stopped
     \/ /\ ~MustStop /\ NothingLeft(queue, active)
        /\ stopped' = TRUE
        /\ NotifyAll(w, "exiting")
        /\ UNCHANGED <<queue, active, task>>
     \/ /\ ~MustStop /\ queue = <<>> /\ ~NothingLeft(queue, active)
        /\ pc' = [pc EXCEPT ![w] = "waiting"]
        /\ UNCHANGED <<queue, active, stopped, task>>
  /\ UNCHANGED <<quit, visited, errors, cancelled, report, crashed, channel, call, history>>

\* Condvar::wait may return without a notification.
SpuriousWakeup(w) ==
  /\ pc[w] = "waiting"
  /\ pc' = [pc EXCEPT ![w] = "next"]
  /\ UNCHANGED <<shared, cancelled, task, report, crashed, channel, call, history>>

\* The read loop of visit_directory / stream_directory: it looks at the token before
\* every entry, so a cancellation leaves any part of the listing unread.
ListDirectory(w) ==
  /\ pc[w] = "listing"
  /\ LET d == task[w] IN
     \E k \in 0 .. Len(Subdirs[d]), n \in 0 .. FileCount[d], failed \in BOOLEAN :
       /\ failed => d \in Failing
       /\ ~cancelled => k = Len(Subdirs[d]) /\ n = FileCount[d] /\ (d \in Failing => failed)
       /\ report' = [report EXCEPT ![w] =
            [directories |-> SubSeq(Subdirs[d], 1, k),
             errors |-> IF failed THEN <<d>> ELSE <<>>,
             visited |-> IF d \in Hidden THEN 0 ELSE k + n,
             quit |-> FALSE]]
  /\ pc' = [pc EXCEPT ![w] = "visiting"]
  /\ UNCHANGED <<shared, cancelled, task, crashed, channel, call, history>>

\* report_for: a visitor that quits gives up the subdirectories at once.
BatchReport(r, quits) ==
  [directories |-> IF quits THEN <<>> ELSE r.directories, errors |-> r.errors,
   visited |-> r.visited, quit |-> quits \/ (AbortPolicy /\ r.errors # <<>>)]

\* The end of stream_directory.
StreamReport(r, quits) ==
  [directories |-> r.directories, errors |-> r.errors, visited |-> r.visited, quit |-> quits]

\* The visitor is called when the batch is visible or carries errors; it decides to go
\* on or to quit, or it panics.
CallVisitor(w) ==
  /\ pc[w] = "visiting"
  /\ LET d == task[w]
         r == report[w]
         called == d \notin Hidden \/ r.errors # <<>>
     IN /\ \/ \E decision \in BOOLEAN :
                /\ decision => called
                /\ report' = [report EXCEPT ![w] =
                     IF Streaming THEN StreamReport(r, decision) ELSE BatchReport(r, decision)]
                /\ pc' = [pc EXCEPT ![w] = "finishing"]
           \/ /\ called
              /\ pc' = [pc EXCEPT ![w] = "unwinding"]
              /\ report' = report
        /\ listed' = [listed EXCEPT ![d] = @ + 1]
        /\ handed' = handed \cup EntriesOf(d, r.visited)
  /\ UNCHANGED <<shared, cancelled, task, crashed, channel, call>>

CountVisited(r) == visited + r.visited

KeepErrors_LastOnly(r) == r.errors
KeepErrors(r) == errors \o r.errors

StopAfter(r) == stopped \/ r.quit \/ (AbortPolicy /\ r.errors # <<>>) \/ cancelled

FinishTask(w) ==
  /\ pc[w] = "finishing"
  /\ LET r == report[w] IN
     /\ active' = active - 1
     /\ visited' = CountVisited(r)
     /\ errors' = KeepErrors(r)
     /\ quit' = (quit \/ r.quit)
     /\ queue' = IF StopAfter(r) THEN queue ELSE queue \o r.directories
     /\ stopped' = (StopAfter(r) \/ NothingLeft(queue', active'))
  /\ task' = [task EXCEPT ![w] = NoDir]
  /\ report' = [report EXCEPT ![w] = EmptyReport]
  /\ NotifyAll(w, "next")
  /\ UNCHANGED <<cancelled, crashed, channel, call, history>>

LeaveUnwinding_StaysActive == active
LeaveUnwinding == IF active = 0 THEN 0 ELSE active - 1

AbortAfterPanic(w) ==
  /\ pc[w] = "unwinding"
  /\ active' = LeaveUnwinding
  /\ stopped' = TRUE /\ quit' = TRUE
  /\ crashed' = crashed \cup {w}
  /\ task' = [task EXCEPT ![w] = NoDir]
  /\ report' = [report EXCEPT ![w] = EmptyReport]
  /\ NotifyAll(w, "exiting")
  /\ UNCHANGED <<queue, visited, errors, cancelled, channel, call, history>>

SendOutcome(w) ==
  /\ pc[w] = "exiting"
  /\ channel' = Append(channel, w \in crashed)
  /\ pc' = [pc EXCEPT ![w] = "sent"]
  /\ UNCHANGED <<shared, cancelled, task, report, crashed, call, history>>

\* The closure ends: its captures are dropped in the order it names them, the shared
\* state first and the sender last.
ReleaseShared(w) ==
  /\ pc[w] = "sent"
  /\ pc' = [pc EXCEPT ![w] = "released"]
  /\ UNCHANGED <<shared, cancelled, task, report, crashed, channel, call, history>>

DropSender(w) ==
  /\ pc[w] = "released"
  /\ pc' = [pc EXCEPT ![w] = "done"]
  /\ UNCHANGED <<shared, cancelled, task, report, crashed, channel, call, history>>

Job(w) == Start(w) \/ NextTask(w) \/ ListDirectory(w) \/ CallVisitor(w) \/ FinishTask(w)
          \/ AbortAfterPanic(w) \/ SendOutcome(w) \/ ReleaseShared(w) \/ DropSender(w)

-----------------------------------------------------------------------------
\* Any holder of the token, at any time, without touching the scheduler's mutex.
Cancel ==
  /\ ~cancelled
  /\ cancelled' = TRUE
  /\ UNCHANGED <<shared, jobs, channel, call, history>>

\* The call has returned and every job is over: the system rests.
Rest ==
  /\ caller = "returned"
  /\ \A w \in Worker : pc[w] \in {"unsubmitted", "done"}
  /\ UNCHANGED vars

Next == Caller \/ Cancel \/ Rest \/ \E w \in Worker : Job(w) \/ SpuriousWakeup(w)

(* The caller and the executor's threads run; the visitor returns or panics. *)
(* Nobody has to cancel, and no wakeup comes by itself.                      *)
Fairness == WF_vars(Caller) /\ \A w \in Worker : WF_vars(Job(w))
Spec == Init /\ [][Next]_vars /\ Fairness

-----------------------------------------------------------------------------
HandedType == (Dir \cup {NoDir}) \X (Nat \ {0})

TypeOK ==
  /\ config \in Calls
  /\ queue \in Seq(Dir) /\ active \in Nat /\ stopped \in BOOLEAN /\ quit \in BOOLEAN
  /\ visited \in Nat /\ errors \in Seq(Dir)
  /\ cancelled \in BOOLEAN
  /\ pc \in [Worker -> Place]
  /\ task \in [Worker -> Dir \cup {NoDir}]
  /\ report \in [Worker -> TaskReport]
  /\ crashed \subseteq Worker
  /\ channel \in Seq(BOOLEAN)
  /\ caller \in {"root", "descend", "submit", "drain", "collect", "returned"}
  /\ rootControl \in {"Continue", "Skip", "Quit"}
  /\ submitted \in 0 .. WorkerCount /\ received \in Nat /\ panicked \in BOOLEAN
  /\ result \in Result
  /\ listed \in [Dir -> Nat] /\ handed \subseteq HandedType

\* The call says that it went through the whole tree.
Complete == /\ result.kind = "ok" /\ ~result.quit /\ ~result.cancelled
            /\ rootControl = "Continue"

(* No directory is listed twice, however the jobs, cancellation and panics interleave. *)
ListedAtMostOnce == \A d \in Dir : listed[d] <= 1

(* A call that returns Ok without `quit` and `cancelled` has listed every directory:  *)
(* no job may conclude that the walk is over while another one still holds a          *)
(* directory whose subdirectories are not queued yet.                                 *)
CompleteMeansAllListed == Complete => \A d \in Dir : listed[d] = 1

(* `active` counts the jobs between next_task and finish_task, also through a panic,   *)
(* and a job sleeps on the condition variable only while another one is active and     *)
(* will notify it.                                                                     *)
NoLostWakeup == active = Cardinality(Busy) /\ (Waiting # {} => active > 0)

(* Once the call has returned, by any path, no job can still call the visitor. *)
NoVisitAfterReturn == caller = "returned" => Busy = {}

(* The last sender is dropped after the last handle on the shared state, so            *)
(* Arc::try_unwrap in finish_report succeeds.                                          *)
SharedIsReleased == result.kind # "still_shared"

(* The report counts the entries the visitor was given.  (stream_batched counts the    *)
(* root even if a cancelled token kept it from the visitor.)                           *)
VisitedIsHanded == result.kind = "ok" /\ ~(Streaming /\ result.cancelled) => result.visited = Cardinality(handed)

(* No listing error is lost: with ErrorPolicy::Abort an error the visitor saw makes    *)
(* the call fail, otherwise a complete report carries each error exactly once.         *)
ErrorsAreReported ==
  /\ AbortPolicy /\ result.kind = "ok" => result.errors = <<>>
  /\ AbortPolicy /\ Complete => Failing = {}
  /\ ~AbortPolicy /\ Complete => DirsIn(result.errors) = Failing /\ Len(result.errors) = Cardinality(Failing)

(* A panic of the visitor is never swallowed by a call that waits for its jobs.        *)
PanicIsPropagated == result.kind \in {"ok", "walk_error"} => crashed = {}

(* What the call returns is what its jobs did: the state has come back whole, nothing  *)
(* is counted twice or left out, no error and no panic is lost on the way.             *)
ReportIsFaithful == SharedIsReleased /\ VisitedIsHanded /\ ErrorsAreReported /\ PanicIsPropagated

(* The scheduler implements the abstract traversal, and so the call returns, whatever  *)
(* the visitor answers and even if the executor never runs more than Threads of the    *)
(* jobs at once.                                                                       *)
ParentOf(d) == CHOOSE p \in Dir : d \in Children(p)
Abstract == INSTANCE DirectoryWalk WITH
  Parent <- ParentOf,
  given <- {d \in Dir : listed[d] > 0},
  outcome <- IF caller # "returned" THEN "running" ELSE IF Complete THEN "complete" ELSE "partial"
ImplementsDirectoryWalk == Abstract!Spec

=============================================================================
