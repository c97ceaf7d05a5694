--------------------------- MODULE RayonExecutor ---------------------------
(***************************************************************************)
(* RayonExecutor::try_execute of src/src/runtime/mod.rs: with a busy       *)
(* timeout the job is put behind a mutex that both the pool's closure and  *)
(* the submitter may empty; the closure announces its start through a      *)
(* rendezvous channel, and the submitter takes the job back when the       *)
(* announcement does not come in time.  Jobs may submit jobs to the same   *)
(* pool and wait for them.                                                 *)
(***************************************************************************)
EXTENDS Integers, FiniteSets

CONSTANTS
  Job,
  NoJob,
  Parent,       \* Parent[j]: the job that submits j and waits for it, or NoJob
  Threads,      \* threads of the Rayon pool
  Patient,      \* jobs submitted through a runtime without a busy_timeout
  PoolDrops     \* the pool may drop a closure it was given without calling it

ASSUME ExecutorAssumption ==
  /\ IsFiniteSet(Job) /\ NoJob \notin Job
  /\ Parent \in [Job -> Job \cup {NoJob}]
  /\ Threads \in Nat \ {0}
  /\ Patient \subseteq Job /\ PoolDrops \in BOOLEAN

VARIABLES
  caller,    \* where the call of try_execute for each job is
  closure,   \* where the closure given to the pool is
  pending,   \* jobs still in their Mutex<Option<ParallelJob>>
  ran        \* history: jobs that were called

vars == <<caller, closure, pending, ran>>

Init ==
  /\ caller = [j \in Job |-> "idle"]
  /\ closure = [j \in Job |-> "none"]
  /\ pending = {} /\ ran = {}

Occupying == {j \in Job : closure[j] \in {"announcing", "running"}}
FreeThread == Cardinality(Occupying) < Threads

\* A job is submitted from outside the pool or by its running parent.
MayCall(j) == caller[j] = "idle" /\ (Parent[j] # NoJob => closure[Parent[j]] = "running")

Call(j) ==
  /\ MayCall(j) /\ j \notin Patient
  /\ caller' = [caller EXCEPT ![j] = "receiving"]
  /\ closure' = [closure EXCEPT ![j] = "queued"]
  /\ pending' = pending \cup {j}
  /\ ran' = ran

\* Without a timeout the job itself is spawned and nobody can take it back.
CallWithoutTimeout(j) ==
  /\ MayCall(j) /\ j \in Patient
  /\ caller' = [caller EXCEPT ![j] = "accepted"]
  /\ closure' = [closure EXCEPT ![j] = "queued_job"]
  /\ UNCHANGED <<pending, ran>>

StartJob(j) ==
  /\ closure[j] = "queued_job" /\ FreeThread
  /\ closure' = [closure EXCEPT ![j] = "running"]
  /\ ran' = ran \cup {j}
  /\ UNCHANGED <<caller, pending>>

Emptied(j) == pending \ {j}

\* The closure is called and takes the job, or finds that the submitter has.
Claim(j) ==
  /\ closure[j] = "queued" /\ FreeThread
  /\ closure' = [closure EXCEPT ![j] = IF j \in pending THEN "announcing" ELSE "over"]
  /\ pending' = Emptied(j)
  /\ UNCHANGED <<caller, ran>>

\* The send meets the submitter in recv_timeout, or fails once it has returned.
Announce(j) ==
  /\ closure[j] = "announcing" /\ caller[j] \in {"receiving", "accepted", "rejected"}
  /\ caller' = IF caller[j] = "receiving" THEN [caller EXCEPT ![j] = "accepted"] ELSE caller
  /\ closure' = [closure EXCEPT ![j] = "running"]
  /\ ran' = ran \cup {j}
  /\ pending' = pending

\* The job ends; a parent first waits for the jobs it submitted successfully.
EndJob(j) ==
  /\ closure[j] = "running"
  /\ \A c \in Job : Parent[c] = j => \/ caller[c] \in {"idle", "rejected"}
                                     \/ caller[c] = "accepted" /\ closure[c] = "over"
  /\ closure' = [closure EXCEPT ![j] = "over"]
  /\ UNCHANGED <<caller, pending, ran>>

DropClosure(j) ==
  /\ PoolDrops /\ closure[j] = "queued"
  /\ closure' = [closure EXCEPT ![j] = "dropped"]
  /\ UNCHANGED <<caller, pending, ran>>

\* recv_timeout may give up at any time, even when the sender has already arrived.
Timeout(j) ==
  /\ caller[j] = "receiving"
  /\ caller' = [caller EXCEPT ![j] = "timed_out"]
  /\ UNCHANGED <<closure, pending, ran>>

Verdict_AlwaysError(j) == "rejected"
Verdict_AlwaysOk(j) == "accepted"
Verdict(j) == IF j \in pending THEN "rejected" ELSE "accepted"

TakeBack(j) ==
  /\ caller[j] = "timed_out"
  /\ caller' = [caller EXCEPT ![j] = Verdict(j)]
  /\ pending' = pending \ {j}
  /\ UNCHANGED <<closure, ran>>

\* The closure, and with it the sender, is gone before it has announced anything.
Disconnected(j) ==
  /\ caller[j] = "receiving" /\ closure[j] = "dropped"
  /\ caller' = [caller EXCEPT ![j] = "rejected"]
  /\ pending' = pending \ {j}
  /\ UNCHANGED <<closure, ran>>

Pool(j) == StartJob(j) \/ Claim(j) \/ Announce(j) \/ EndJob(j)
Answering(j) == Timeout(j) \/ TakeBack(j) \/ Disconnected(j)

\* Nothing is left of the submission.
Settled == {j \in Job : caller[j] \in {"accepted", "rejected"} /\ closure[j] \in {"over", "dropped"}}

Next == \E j \in Job : Call(j) \/ CallWithoutTimeout(j) \/ Pool(j) \/ DropClosure(j) \/ Answering(j)

(* The pool's threads run, jobs end, and the deadline of a submission passes. *)
Fairness == \A j \in Job : WF_vars(Pool(j)) /\ WF_vars(Answering(j))
Spec == Init /\ [][Next]_vars /\ Fairness

-----------------------------------------------------------------------------
TypeOK ==
  /\ caller \in [Job -> {"idle", "receiving", "timed_out", "accepted", "rejected"}]
  /\ closure \in [Job -> {"none", "queued", "queued_job", "announcing", "running", "over", "dropped"}]
  /\ pending \subseteq {j \in Job : closure[j] \in {"queued", "dropped"}} /\ ran \subseteq Job

(* A job whose submission was reported as failed never runs, whichever of the two sides  *)
(* reaches the mutex first.                                                              *)
RejectedNeverRuns == \A j \in Job : caller[j] = "rejected" => j \notin ran /\ closure[j] # "announcing"

(* A call of try_execute answers, and what was accepted comes to its end: a job that     *)
(* submits to its own, fully occupied pool is refused instead of waiting for ever.       *)
NobodyStarves == \A j \in Job : caller[j] # "idle" ~> j \in Settled /\ (caller[j] = "accepted" => j \in ran)

Answer == [j \in Job |-> IF caller[j] = "accepted" THEN "ok"
                        ELSE IF caller[j] = "rejected" THEN "error" ELSE "none"]
Fate == [j \in Job |-> IF j \in ran THEN IF closure[j] = "running" THEN "started" ELSE "done"
                      ELSE IF caller[j] = "rejected" THEN "discarded" ELSE "held"]

(* try_execute keeps the contract of ParallelExecutor.                                   *)
Contract == INSTANCE JobExecutor WITH answer <- Answer, fate <- Fate
KeepsTheContract == Contract!Spec
=============================================================================
