---------------------------- MODULE ThreadPool ----------------------------
(***************************************************************************)
(* The worker pool of src/src/pool.rs: a job queue under a mutex, workers  *)
(* sleeping on one condition variable, a submission that wakes one of      *)
(* them after it has released the mutex, and an owner that starts the      *)
(* workers, closes the queue and joins them.  A submission borrows the     *)
(* pool, so the owner cannot drop it meanwhile.                            *)
(***************************************************************************)
EXTENDS Integers, Sequences, FiniteSets

CONSTANTS
  Job,      \* the jobs somebody may submit, each once
  NoJob,
  Size      \* workers of the pool: the `workers` argument, at least 1

Worker == 1 .. Size

ASSUME PoolAssumption ==
  /\ IsFiniteSet(Job) /\ NoJob \notin Job
  /\ Size \in Nat \ {0}

VARIABLES
  jobs, shutdown,   \* JobQueueState, under the mutex
  pc,               \* where each worker is
  job,              \* the job a worker runs
  owner,            \* where the owner of the pool is
  spawned,          \* how many workers have been started
  joined,           \* how many workers have been joined
  notifying,        \* jobs pushed by a submission that has not called notify_one yet
  accepted,         \* history: jobs execute() has put into the queue
  runs              \* history: how many times each job has been run

state == <<jobs, shutdown>>
workers == <<pc, job>>
history == <<accepted, runs>>
poolVars == <<state, workers, owner, spawned, joined, notifying, history>>

Place == {"unborn", "looking", "waiting", "running", "exited"}
Looking == {w \in Worker : pc[w] = "looking"}
Waiting == {w \in Worker : pc[w] = "waiting"}

PoolInit ==
  /\ jobs = <<>> /\ shutdown = FALSE
  /\ pc = [w \in Worker |-> "unborn"] /\ job = [w \in Worker |-> NoJob]
  /\ owner = "starting" /\ spawned = 0 /\ joined = 0
  /\ notifying = {}
  /\ accepted = {} /\ runs = [j \in Job |-> 0]

\* A condition variable remembers nothing: without a sleeper the call has no effect.
NotifyOne_WakesNobody == pc' = pc
NotifyOne ==
  IF Waiting = {} THEN pc' = pc ELSE \E w \in Waiting : pc' = [pc EXCEPT ![w] = "looking"]

NotifyAll_WakesOne == NotifyOne
NotifyAll == pc' = [w \in Worker |-> IF pc[w] = "waiting" THEN "looking" ELSE pc[w]]

-----------------------------------------------------------------------------
(* The owner *)

Spawn ==
  /\ owner = "starting" /\ spawned < Size
  /\ spawned' = spawned + 1
  /\ pc' = [pc EXCEPT ![spawned + 1] = "looking"]
  /\ UNCHANGED <<state, job, owner, joined, notifying, history>>

SpawnFails ==
  /\ owner = "starting" /\ spawned < Size
  /\ owner' = "failing"
  /\ shutdown' = TRUE
  /\ UNCHANGED <<jobs, workers, spawned, joined, notifying, history>>

AllSpawned ==
  /\ owner = "starting" /\ spawned = Size
  /\ owner' = "open"
  /\ UNCHANGED <<state, workers, spawned, joined, notifying, history>>

\* The last handle goes away, which no submission holds any more.
Close ==
  /\ owner = "open" /\ notifying = {}
  /\ owner' = "closing"
  /\ shutdown' = TRUE
  /\ UNCHANGED <<jobs, workers, spawned, joined, notifying, history>>

\* The mutex has been released; the workers are told afterwards.
TellAll ==
  /\ owner \in {"failing", "closing"}
  /\ owner' = IF owner = "failing" THEN "joining_failed" ELSE "joining"
  /\ NotifyAll
  /\ UNCHANGED <<state, job, spawned, joined, notifying, history>>

JoinWorker ==
  /\ owner \in {"joining_failed", "joining"} /\ joined < spawned
  /\ pc[joined + 1] = "exited"
  /\ joined' = joined + 1
  /\ UNCHANGED <<state, workers, owner, spawned, notifying, history>>

PoolGone ==
  /\ owner \in {"joining_failed", "joining"} /\ joined = spawned
  /\ owner' = IF owner = "joining" THEN "dropped" ELSE "failed"
  /\ UNCHANGED <<state, workers, spawned, joined, notifying, history>>

-----------------------------------------------------------------------------
(* Submissions: execute() *)

Execute(j) ==
  /\ owner = "open" /\ j \notin accepted
  /\ jobs' = Append(jobs, j)
  /\ notifying' = notifying \cup {j}
  /\ accepted' = accepted \cup {j}
  /\ UNCHANGED <<shutdown, workers, owner, spawned, joined, runs>>

Notify(j) ==
  /\ j \in notifying
  /\ notifying' = notifying \ {j}
  /\ NotifyOne
  /\ UNCHANGED <<state, job, owner, spawned, joined, history>>

-----------------------------------------------------------------------------
(* A worker *)

Rest_Peeked == jobs
Rest == Tail(jobs)

TakeJob(w) ==
  /\ pc[w] = "looking" /\ jobs # <<>>
  /\ jobs' = Rest
  /\ pc' = [pc EXCEPT ![w] = "running"]
  /\ job' = [job EXCEPT ![w] = Head(jobs)]
  /\ runs' = [runs EXCEPT ![Head(jobs)] = @ + 1]
  /\ UNCHANGED <<shutdown, owner, spawned, joined, notifying, accepted>>

Sleep(w) ==
  /\ pc[w] = "looking" /\ jobs = <<>> /\ ~shutdown
  /\ pc' = [pc EXCEPT ![w] = "waiting"]
  /\ UNCHANGED <<state, job, owner, spawned, joined, notifying, history>>

MayExit_WithJobsLeft == shutdown
MayExit == shutdown /\ jobs = <<>>

Exit(w) ==
  /\ pc[w] = "looking" /\ MayExit
  /\ pc' = [pc EXCEPT ![w] = "exited"]
  /\ UNCHANGED <<state, job, owner, spawned, joined, notifying, history>>

\* A job returns or panics; catch_unwind keeps the worker in both cases.
AfterPanic == "looking"

EndJob(w) ==
  /\ pc[w] = "running"
  /\ \E place \in {"looking", AfterPanic} : pc' = [pc EXCEPT ![w] = place]
  /\ job' = [job EXCEPT ![w] = NoJob]
  /\ UNCHANGED <<state, owner, spawned, joined, notifying, history>>

SpuriousWakeup(w) ==
  /\ pc[w] = "waiting"
  /\ pc' = [pc EXCEPT ![w] = "looking"]
  /\ UNCHANGED <<state, job, owner, spawned, joined, notifying, history>>

-----------------------------------------------------------------------------
Starting == Spawn \/ SpawnFails \/ AllSpawned
Owner == Starting \/ TellAll \/ JoinWorker \/ PoolGone
WorkerStep(w) == TakeJob(w) \/ Sleep(w) \/ Exit(w) \/ EndJob(w)

\* The pool has gone and its workers are over.
PoolOver == owner \in {"dropped", "failed"} /\ UNCHANGED poolVars

PoolNext ==
  \/ Owner \/ Close \/ PoolOver
  \/ \E j \in Job : Execute(j) \/ Notify(j)
  \/ \E w \in Worker : WorkerStep(w) \/ SpuriousWakeup(w)

(* Threads run and jobs end; nobody has to submit, to close, or to wake without cause. *)
Fairness ==
  /\ WF_poolVars(Owner)
  /\ \A j \in Job : WF_poolVars(Notify(j))
  /\ \A w \in Worker : WF_poolVars(WorkerStep(w))

PoolSpec == PoolInit /\ [][PoolNext]_poolVars /\ Fairness

-----------------------------------------------------------------------------
OwnerPlace == {"starting", "open", "failing", "closing", "joining_failed", "joining", "dropped", "failed"}

PoolTypeOK ==
  /\ jobs \in Seq(Job) /\ shutdown \in BOOLEAN
  /\ pc \in [Worker -> Place] /\ job \in [Worker -> Job \cup {NoJob}]
  /\ owner \in OwnerPlace
  /\ spawned \in 0 .. Size /\ joined \in 0 .. Size
  /\ notifying \subseteq Job /\ accepted \subseteq Job
  /\ runs \in [Job -> Nat]

(* notify_one is enough: while a worker sleeps, every queued job has a worker on its     *)
(* way to the queue or a notification still to come.  A job never waits for a running    *)
(* one while another worker sleeps.                                                      *)
EnoughAwake == Waiting # {} => Len(jobs) <= Cardinality(Looking) + Cardinality(notifying)

(* A job leaves the queue once, whoever takes it: at every moment an accepted job is     *)
(* either queued, once, or has been run, once.                                           *)
RunsOnce ==
  \A j \in Job : /\ runs[j] <= 1
                 /\ runs[j] = 1 => j \in accepted /\ \A i \in DOMAIN jobs : jobs[i] # j

(* The drop of the pool, and a constructor that fails halfway, leave no worker behind,   *)
(* and no accepted job undone.                                                           *)
NothingLeftBehind ==
  owner \in {"dropped", "failed"} =>
    /\ \A w \in Worker : pc[w] \in {"unborn", "exited"}
    /\ \A j \in accepted : runs[j] = 1

(* No worker goes to sleep, or stays asleep, once the workers were told of the shutdown: *)
(* the join cannot wait for a sleeper.                                                   *)
NoSleeperToJoin == owner \in {"joining_failed", "joining", "dropped", "failed"} => Waiting = {}

(* Dropping the pool returns, and so does a constructor that cannot start a worker.      *)
ShutdownReturns == shutdown ~> owner \in {"dropped", "failed"}

ExecuteAnswer == [j \in Job |-> IF j \in accepted THEN "ok" ELSE "none"]
Fate == [j \in Job |-> IF runs[j] = 0 THEN "held"
                      ELSE IF \E w \in Worker : job[w] = j THEN "started" ELSE "done"]

(* The pool keeps the contract of an executor, and rejects nothing while it is open.     *)
Contract == INSTANCE JobExecutor WITH answer <- ExecuteAnswer, fate <- Fate
KeepsTheContract == Contract!Spec

=============================================================================
