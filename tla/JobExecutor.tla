---------------------------- MODULE JobExecutor ----------------------------
(***************************************************************************)
(* What ParallelExecutor::try_execute promises (src/src/runtime/mod.rs):   *)
(* an executor either accepts a job, which is then run exactly once, or    *)
(* returns an error without retaining it.  A job may start before          *)
(* try_execute has answered.                                               *)
(***************************************************************************)
CONSTANT Job

VARIABLES
  answer,   \* what try_execute has returned for each job
  fate      \* what has become of the job itself

Init == answer = [j \in Job |-> "none"] /\ fate = [j \in Job |-> "held"]

Accept(j) ==
  /\ answer[j] = "none" /\ fate[j] # "discarded"
  /\ answer' = [answer EXCEPT ![j] = "ok"]
  /\ fate' = fate

Reject(j) ==
  /\ answer[j] = "none" /\ fate[j] = "held"
  /\ answer' = [answer EXCEPT ![j] = "error"]
  /\ fate' = [fate EXCEPT ![j] = "discarded"]

StartJob(j) ==
  /\ fate[j] = "held"
  /\ fate' = [fate EXCEPT ![j] = "started"]
  /\ answer' \in {answer, [answer EXCEPT ![j] = IF answer[j] = "none" THEN "ok" ELSE answer[j]]}

EndJob(j) ==
  /\ fate[j] = "started"
  /\ fate' = [fate EXCEPT ![j] = "done"]
  /\ answer' = answer

Next == \E j \in Job : Accept(j) \/ Reject(j) \/ StartJob(j) \/ EndJob(j)
Safety == Init /\ [][Next]_<<answer, fate>>

(* An accepted job is run to its end. *)
Promise == \A j \in Job : answer[j] = "ok" ~> fate[j] = "done"
Spec == Safety /\ Promise
=============================================================================
