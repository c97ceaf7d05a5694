---------------------------- MODULE ContentVisit ----------------------------
(***************************************************************************)
(* Scanner::visit_content and visit_changed_content: jobs of the runtime   *)
(* read the selected files once and hand their bytes to visitors.  In      *)
(* direct mode (visit_content_direct) the caller walks the tree and feeds  *)
(* the jobs through a bounded channel; otherwise (run_workers) it lists    *)
(* the files first and the jobs empty a queue.                             *)
(***************************************************************************)
EXTENDS Integers, Sequences, FiniteSets

CONSTANTS
  FileCount,       \* files the configuration selects, numbered in discovery order
  WorkerCount,     \* jobs the configuration asks for
  Calls,           \* the calls to consider: direct says visit_content_direct, not
                   \* run_workers, nested that a thread of the call's own runtime makes it,
                   \* abort is ErrorPolicy::Abort, and with whole hashing or binary
                   \* detection needs all of a file
  Capacity,        \* of the channel; workers * 64 in the code
  BatchMax,        \* files a job takes from the channel at once; 32 in the code
  MaxEntries,      \* limits.max_entries
  Unreliable,      \* files that may be found changed or unreadable
  WalkFaults,      \* the traversal may report an error
  MayRefuse,       \* the executor may reject a job
  Interruptions,   \* of {"cancel", "expire"}: what may come from outside
  Answers          \* of {"continue", "skip", "quit", "panic"}: what callbacks may do

ASSUME ContentAssumption ==
  /\ FileCount \in Nat /\ WorkerCount \in Nat \ {0}
  /\ Calls \subseteq [direct : BOOLEAN, nested : BOOLEAN, abort : BOOLEAN, whole : BOOLEAN]
  /\ \A c \in Calls : c.direct => ~c.nested
  /\ Capacity \in Nat \ {0} /\ BatchMax \in Nat \ {0} /\ MaxEntries \in Nat
  /\ Unreliable \subseteq 1 .. FileCount
  /\ WalkFaults \in BOOLEAN /\ MayRefuse \in BOOLEAN
  /\ Interruptions \subseteq {"cancel", "expire"}
  /\ Answers \subseteq {"continue", "skip", "quit", "panic"} /\ "continue" \in Answers

File == 1 .. FileCount
Worker == 1 .. WorkerCount

VARIABLES
  call,         \* the call under way, one of Calls
  pc,           \* where the caller is
  submitted,    \* jobs the executor accepted
  refused,      \* schedule_error
  next,         \* files discovered so far
  end,          \* the termination the discovery recorded
  fault,        \* the error the discovery returned
  marred,       \* the discovery has recorded a warning
  channel,      \* files sent and not taken; the queue of run_workers
  place,        \* where each job is
  batch,        \* files a job has taken and not finished
  stopped,      \* the termination in each job's report
  quit,         \* jobs whose report says visitor_quit
  warned,       \* jobs whose report carries a warning
  outcome,      \* what a job sends to the collector
  received,     \* jobs whose outcome was collected
  cancelled,    \* the cancellation token
  expired,      \* limits.timeout has elapsed since ScanRuntime::started
  ended,        \* history: files read to their verdict
  result        \* what the call returns

discovery == <<next, end, fault, marred>>
control == <<call, pc, submitted, refused, discovery, received, result>>
jobs == <<place, batch, outcome>>
reports == <<stopped, quit, warned>>
vars == <<control, channel, jobs, reports, cancelled, expired, ended>>

Direct == call.direct
AbortPolicy == call.abort
FullRead == call.whole

Without(kind) == [kind |-> kind, termination |-> "none", complete |-> FALSE]

Init ==
  /\ call \in Calls
  /\ pc = IF Direct THEN "submitting" ELSE "listing"
  /\ submitted = 0 /\ refused = FALSE /\ next = 0
  /\ end = "none" /\ fault = "none" /\ marred = FALSE
  /\ channel = <<>>
  /\ place = [w \in Worker |-> "none"] /\ batch = [w \in Worker |-> <<>>]
  /\ outcome = [w \in Worker |-> "none"]
  /\ stopped = [w \in Worker |-> "none"] /\ quit = {} /\ warned = {}
  /\ received = {} /\ cancelled = FALSE /\ expired = FALSE
  /\ ended = {} /\ result = Without("none")

StopReason == IF cancelled THEN "cancelled" ELSE IF expired THEN "timeout" ELSE "none"

(***************************************************************************)
(* The caller.                                                             *)
(***************************************************************************)
\* discover_compact or the loop over the changed paths, with its limits, comes first.
List ==
  /\ pc = "listing"
  /\ next' \in 0 .. FileCount /\ channel' = [i \in 1 .. next' |-> i]
  /\ end' \in {"none", "max_entries", "max_total_bytes"} \cup {StopReason}
  /\ marred' \in {FALSE, WalkFaults /\ ~AbortPolicy}
  /\ next' < FileCount => end' # "none" \/ marred'
  /\ end' = "max_total_bytes" => next' < FileCount
  /\ pc' = "submitting"
  /\ UNCHANGED <<call, submitted, refused, fault, jobs, reports, received, cancelled, expired, ended, result>>

\* The listing fails, or a change may affect the structure of the tree.
ListFails ==
  /\ pc = "listing" /\ WalkFaults
  /\ \E kind \in {"error", "full_rescan"} : result' = Without(kind)
  /\ pc' = "done"
  /\ UNCHANGED <<call, submitted, refused, discovery, channel, jobs, reports, received, cancelled, expired, ended>>

Jobs == IF Direct THEN WorkerCount ELSE IF next < WorkerCount THEN next ELSE WorkerCount
Inline == ~Direct /\ (Jobs <= 1 \/ call.nested)

Submit ==
  /\ pc = "submitting" /\ submitted < Jobs
  /\ submitted' = submitted + 1
  /\ place' = [place EXCEPT ![submitted'] = "queued"]
  /\ pc' = IF Inline THEN "collecting" ELSE pc
  /\ UNCHANGED <<call, refused, discovery, channel, batch, outcome, reports, received, cancelled, expired, ended, result>>

Refuse ==
  /\ pc = "submitting" /\ submitted < Jobs /\ MayRefuse /\ ~Inline
  /\ refused' = TRUE /\ cancelled' = TRUE /\ pc' = "collecting"
  /\ UNCHANGED <<call, submitted, discovery, channel, jobs, reports, received, expired, ended, result>>

Submitted ==
  /\ pc = "submitting" /\ submitted = Jobs
  /\ pc' = IF Direct THEN "discovering" ELSE "collecting"
  /\ UNCHANGED <<call, submitted, refused, discovery, channel, jobs, reports, received, cancelled, expired, ended, result>>

EndDiscovery(termination, error) ==
  /\ end' = termination /\ fault' = error
  /\ cancelled' = (cancelled \/ error # "none")
  /\ pc' = "collecting"

\* Entries whose walk failed count against the limit, too.
Entries == next + IF marred THEN 1 ELSE 0
BeforeNext ==
  IF StopReason # "none" THEN StopReason ELSE IF Entries >= MaxEntries THEN "max_entries" ELSE "none"

Discover ==
  /\ pc = "discovering"
  /\ CASE BeforeNext # "none" -> EndDiscovery(BeforeNext, "none")
       [] BeforeNext = "none" /\ next = FileCount -> EndDiscovery("none", "none")
       [] OTHER -> pc' = "offering" /\ UNCHANGED <<end, fault, cancelled>>
  /\ UNCHANGED <<call, submitted, refused, next, marred, channel, jobs, reports, received, expired, ended, result>>

\* At most one error of the traversal is recorded as a warning; an entry that cannot be
\* processed or a directory whose rules cannot be prepared ends it under either policy.
WalkError ==
  /\ pc = "discovering" /\ WalkFaults /\ BeforeNext = "none" /\ ~marred
  /\ \/ EndDiscovery("none", "walk") /\ marred' = marred
     \/ ~AbortPolicy /\ marred' = TRUE /\ UNCHANGED <<pc, end, fault, cancelled>>
  /\ UNCHANGED <<call, submitted, refused, next, channel, jobs, reports, received, expired, ended, result>>

\* send_candidate looks at the token before it blocks in send.
Offer ==
  /\ pc = "offering"
  /\ IF cancelled THEN EndDiscovery("cancelled", "none")
     ELSE pc' = "sending" /\ UNCHANGED <<end, fault, cancelled>>
  /\ UNCHANGED <<call, submitted, refused, next, marred, channel, jobs, reports, received, expired, ended, result>>

\* The handles of the receiving side; a job owns one until it is over.
Receivers_NeverDropped == Worker
Receivers == {w \in Worker : place[w] \notin {"none", "over"}}

HasRoom == Len(channel) < Capacity

Send ==
  /\ pc = "sending" /\ Receivers # {} /\ HasRoom
  /\ next' = next + 1 /\ channel' = Append(channel, next')
  /\ pc' = "discovering"
  /\ UNCHANGED <<call, submitted, refused, end, fault, marred, jobs, reports, received, cancelled, expired, ended, result>>

SendFails ==
  /\ pc = "sending" /\ Receivers = {}
  /\ IF cancelled THEN EndDiscovery("cancelled", "none") ELSE EndDiscovery("none", "broken_pipe")
  /\ UNCHANGED <<call, submitted, refused, next, marred, channel, jobs, reports, received, expired, ended, result>>

\* Only the collector of run_workers cancels, and only for an error.
Collect(w) ==
  /\ pc = "collecting" /\ place[w] = "over" /\ w \notin received
  /\ received' = received \cup {w}
  /\ cancelled' = (cancelled \/ (~Direct /\ ~Inline /\ outcome[w] = "error"))
  /\ UNCHANGED <<call, pc, submitted, refused, discovery, channel, jobs, reports, expired, ended, result>>

FirstTermination ==
  LET partial == {w \in Worker : stopped[w] # "none"}
  IN IF partial = {} THEN "none" ELSE stopped[CHOOSE w \in partial : \A v \in partial : w <= v]

\* finish_content_report, and the look at token and clock that precedes it in direct mode.
Termination ==
  IF quit # {} THEN "cancelled"
  ELSE IF end # "none" THEN end
  ELSE IF Direct /\ StopReason # "none" THEN StopReason
  ELSE FirstTermination

Report ==
  [kind |-> "report", termination |-> Termination,
   complete |-> Termination = "none" /\ ~marred /\ warned = {}]

Verdict_RefusalFirst ==
  IF refused THEN Without("error")
  ELSE IF \E w \in Worker : outcome[w] = "panic" THEN Without("panic") ELSE Report
Verdict ==
  CASE \E w \in Worker : outcome[w] = "panic" -> Without("panic")
    [] /\ \A w \in Worker : outcome[w] # "panic"
       /\ (refused \/ fault # "none" \/ \E w \in Worker : outcome[w] = "error")
       -> Without("error")
    [] OTHER -> Report

Return ==
  /\ pc = "collecting" /\ Cardinality(received) = submitted
  /\ result' = Verdict /\ pc' = "done"
  /\ UNCHANGED <<call, submitted, refused, discovery, channel, jobs, reports, received, cancelled, expired, ended>>

Caller ==
  List \/ ListFails \/ Submit \/ Refuse \/ Submitted \/ Discover \/ WalkError \/ Offer \/ Send
  \/ SendFails \/ (\E w \in Worker : Collect(w)) \/ Return

(***************************************************************************)
(* The jobs.                                                               *)
(***************************************************************************)
SenderOpen == Direct /\ pc \in {"submitting", "discovering", "offering", "sending"}

Closing(w, how) ==
  /\ place' = [place EXCEPT ![w] = "closing"] /\ batch' = [batch EXCEPT ![w] = <<>>]
  /\ outcome' = [outcome EXCEPT ![w] = how]

Panics(w) ==
  /\ "panic" \in Answers /\ Closing(w, "panic")
  /\ UNCHANGED <<reports, cancelled, ended>>

\* The first thing a job does is to call the factory.
Start(w) ==
  /\ place[w] = "queued"
  /\ \/ place' = [place EXCEPT ![w] = "fetching"] /\ UNCHANGED <<batch, outcome, reports, cancelled, ended>>
     \/ Panics(w)
  /\ UNCHANGED <<control, channel, expired>>

\* The lock on the receiver is held from recv to the last try_recv.
Fetch(w) ==
  /\ place[w] = "fetching" /\ channel # <<>> /\ \A v \in Worker : place[v] # "filling"
  /\ IF Inline THEN batch' = [batch EXCEPT ![w] = channel] /\ channel' = <<>>
     ELSE batch' = [batch EXCEPT ![w] = <<Head(channel)>>] /\ channel' = Tail(channel)
  /\ place' = [place EXCEPT ![w] = IF Direct THEN "filling" ELSE "checking"]
  /\ UNCHANGED <<control, outcome, reports, cancelled, expired, ended>>

TryReceive(w) ==
  /\ place[w] = "filling"
  /\ IF Len(batch[w]) < BatchMax /\ channel # <<>>
     THEN /\ batch' = [batch EXCEPT ![w] = Append(@, Head(channel))] /\ channel' = Tail(channel)
          /\ place' = place
     ELSE place' = [place EXCEPT ![w] = "checking"] /\ UNCHANGED <<batch, channel>>
  /\ UNCHANGED <<control, outcome, reports, cancelled, expired, ended>>

NothingLeft(w) ==
  /\ place[w] = "fetching" /\ \A v \in Worker : place[v] # "filling"
  /\ channel = <<>> /\ ~SenderOpen
  /\ Closing(w, "report")
  /\ UNCHANGED <<control, channel, reports, cancelled, expired, ended>>

\* visit_files ends early: its report carries the reason, and the job takes nothing more.
StopsFor_Unrecorded(w, reason) == Closing(w, "report") /\ UNCHANGED reports
StopsFor(w, reason) ==
  /\ Closing(w, "report")
  /\ stopped' = [stopped EXCEPT ![w] = reason] /\ UNCHANGED <<quit, warned>>

FileDone(w) ==
  /\ place' = [place EXCEPT ![w] = "checking"] /\ batch' = [batch EXCEPT ![w] = Tail(@)]
  /\ outcome' = outcome

Failed(w) ==
  /\ IF AbortPolicy THEN Closing(w, "error") /\ UNCHANGED warned
     ELSE FileDone(w) /\ warned' = warned \cup {w}
  /\ UNCHANGED <<stopped, quit, cancelled, ended>>

\* Quit cancels the token; the verdict on a changed file is recorded before the quit.
Quits(w, changed) ==
  /\ "quit" \in Answers
  /\ cancelled' = TRUE
  /\ IF changed /\ AbortPolicy THEN Closing(w, "error") /\ UNCHANGED reports
     ELSE /\ Closing(w, "report")
          /\ stopped' = [stopped EXCEPT ![w] = "cancelled"] /\ quit' = quit \cup {w}
          /\ warned' = IF changed THEN warned \cup {w} ELSE warned

Proceeds(w, to) ==
  /\ place' = [place EXCEPT ![w] = to]
  /\ UNCHANGED <<batch, outcome, reports, cancelled, ended>>

\* What is left of a file when the consumer wants no more chunks of it.
Skipping == IF FullRead THEN "skipping" ELSE "ending"

\* The next file of the batch: its turn, its identity, FileStart.
Open(w) ==
  /\ place[w] = "checking" /\ batch[w] # <<>> /\ StopReason = "none"
  /\ \/ Proceeds(w, "reading")
     \/ "skip" \in Answers /\ Proceeds(w, Skipping)
     \/ Quits(w, FALSE) /\ ended' = ended
     \/ Panics(w)
     \/ Head(batch[w]) \in Unreliable /\ Failed(w)
  /\ UNCHANGED <<control, channel, expired>>

StopBefore(w) ==
  /\ place[w] = "checking" /\ batch[w] # <<>> /\ StopReason # "none"
  /\ StopsFor(w, StopReason)
  /\ UNCHANGED <<control, channel, cancelled, expired, ended>>

BatchDone(w) ==
  /\ place[w] = "checking" /\ batch[w] = <<>>
  /\ IF Inline THEN Closing(w, "report")
     ELSE place' = [place EXCEPT ![w] = "fetching"] /\ UNCHANGED <<batch, outcome>>
  /\ UNCHANGED <<control, channel, reports, cancelled, expired, ended>>

\* A turn of read_bounded; chunks after which the visitor continues change nothing here.
Read(w) ==
  /\ place[w] \in {"reading", "skipping"} /\ StopReason = "none"
  /\ \/ Proceeds(w, "ending")
     \/ place[w] = "reading" /\ \/ "skip" \in Answers /\ Proceeds(w, Skipping)
                                \/ Quits(w, FALSE) /\ ended' = ended
                                \/ Panics(w)
     \/ Head(batch[w]) \in Unreliable /\ Failed(w)
  /\ UNCHANGED <<control, channel, expired>>

Interrupted(w) ==
  /\ place[w] \in {"reading", "skipping"} /\ StopReason # "none"
  /\ StopsFor(w, StopReason)
  /\ UNCHANGED <<control, channel, cancelled, expired, ended>>

\* finish_visit: the file is selected or binary, or it was changed under the read; FileEnd.
End(w) ==
  /\ place[w] = "ending"
  /\ \/ /\ ended' = ended \cup {Head(batch[w])}
        /\ \/ FileDone(w) /\ UNCHANGED <<reports, cancelled>>
           \/ Quits(w, FALSE)
     \/ Head(batch[w]) \in Unreliable /\ (Failed(w) \/ (Quits(w, TRUE) /\ ended' = ended))
     \/ Panics(w)
  /\ UNCHANGED <<control, channel, expired>>

\* A direct job that failed cancels the others before it sends its outcome.
Close(w) ==
  /\ place[w] = "closing"
  /\ place' = [place EXCEPT ![w] = "over"]
  /\ cancelled' = (cancelled \/ (Direct /\ outcome[w] \in {"error", "panic"}))
  /\ UNCHANGED <<control, channel, batch, outcome, reports, expired, ended>>

Job(w) ==
  Start(w) \/ Fetch(w) \/ TryReceive(w) \/ NothingLeft(w) \/ Open(w) \/ StopBefore(w) \/ BatchDone(w)
  \/ Read(w) \/ Interrupted(w) \/ End(w) \/ Close(w)

Cancel == "cancel" \in Interruptions /\ ~cancelled /\ cancelled' = TRUE /\ expired' = expired
Expire == "expire" \in Interruptions /\ ~expired /\ expired' = TRUE /\ cancelled' = cancelled
Interruption ==
  /\ pc # "done" /\ (Cancel \/ Expire)
  /\ UNCHANGED <<control, channel, jobs, reports, ended>>

Next == Caller \/ (\E w \in Worker : Job(w)) \/ Interruption

(* The caller's thread runs, the executor runs what it accepted, callbacks return.       *)
Fairness == WF_vars(Caller) /\ \A w \in Worker : WF_vars(Job(w))
Spec == Init /\ [][Next]_vars /\ Fairness

-----------------------------------------------------------------------------
TypeOK ==
  /\ call \in Calls
  /\ pc \in {"listing", "submitting", "discovering", "offering", "sending", "collecting", "done"}
  /\ submitted \in 0 .. WorkerCount /\ refused \in BOOLEAN /\ next \in 0 .. FileCount
  /\ end \in {"none", "cancelled", "timeout", "max_entries", "max_total_bytes"}
  /\ fault \in {"none", "walk", "broken_pipe"} /\ marred \in BOOLEAN
  /\ channel \in Seq(File) /\ (Direct => Len(channel) <= Capacity)
  /\ place \in [Worker -> {"none", "queued", "fetching", "filling", "checking", "reading", "skipping",
                           "ending", "closing", "over"}]
  /\ batch \in [Worker -> Seq(File)]
  /\ \A w \in Worker : (Direct => Len(batch[w]) <= BatchMax)
  /\ stopped \in [Worker -> {"none", "cancelled", "timeout"}]
  /\ quit \subseteq Worker /\ warned \subseteq Worker
  /\ outcome \in [Worker -> {"none", "report", "error", "panic"}]
  /\ received \subseteq Worker /\ cancelled \in BOOLEAN /\ expired \in BOOLEAN /\ ended \subseteq File
  /\ result \in [kind : {"none", "report", "error", "panic", "full_rescan"},
                 termination : {"none", "cancelled", "timeout", "max_entries", "max_total_bytes"},
                 complete : BOOLEAN]

(* A report that says `complete` stands for every selected file, read to its verdict:    *)
(* none is left in the channel or in the batch of a job that stopped early.              *)
CompleteReport == result.kind = "report" /\ result.complete => ended = File

(* A report names the reason it is partial for, and a visitor's Quit takes precedence    *)
(* over a timeout another job or the discovery saw first.                                *)
StopIsReported ==
  result.kind = "report" =>
    /\ quit # {} => result.termination = "cancelled"
    /\ result.termination = "cancelled" => cancelled
    /\ result.termination = "timeout" => expired

(* A panic of the factory or of a visitor reaches the caller, whatever else went wrong;  *)
(* under ErrorPolicy::Abort a failed file, and always a refused job, fails the call.     *)
FailureReachesCaller ==
  pc = "done" =>
    /\ (\E w \in Worker : outcome[w] = "panic") => result.kind = "panic"
    /\ refused \/ fault # "none" \/ (\E w \in Worker : outcome[w] = "error") => result.kind # "report"

(* Once a job has handed in a panic, the jobs that still work observe the cancellation.  *)
PanicCancels ==
  (\E w \in Worker : place[w] = "over" /\ outcome[w] = "panic")
  /\ (\E w \in Worker : place[w] = "reading") => cancelled

(* In direct mode a job cancels before it hands its panic in, so nobody keeps reading.   *)
DirectPanicCancels == Direct => PanicCancels

(* However jobs, discovery, cancellation and clock interleave, the outcome of a job is   *)
(* neither lost nor outweighed by a lesser one on its way to the caller.                 *)
OutcomeIsReported == StopIsReported /\ FailureReachesCaller /\ DirectPanicCancels

(* The call returns, also when the jobs stop while the discovery is blocked in send.     *)
CallReturns == <>(pc = "done")

=============================================================================
