---------------------------- MODULE OrderedPull ----------------------------
(***************************************************************************)
(* The ordered pull iterator of src/src/parallel/ordered_pull: a           *)
(* coordinator thread prefetches directory reads on an executor, puts the  *)
(* batches back into depth-first path order and sends the entries, one by  *)
(* one, through a bounded channel to the consumer, which may drop the      *)
(* iterator between two calls of next().                                   *)
(***************************************************************************)
EXTENDS Integers, SequencesExt

CONSTANTS
  Item,         \* what the iterator yields: entries and errors, numbered in path order
  Dir,          \* the entries the traversal descends into
  Root,         \* the root entry
  Entries,      \* Entries[d]: the items read from directory d, siblings ordered by path
  Errors,       \* the items that are a WalkError
  RootError,    \* the error that replaces everything when the root cannot be opened
  ScheduleError,\* the error of WalkOperation::ScheduleWorker
  Limit,        \* OrderedScheduler.limit: requested_workers(runtime, parallelism, max_open)
  Iterators,    \* the iterators to consider: buffer is capacity.saturating_sub(1), where 0
                \* makes every send a rendezvous, abort is ErrorPolicy::Abort, reentrant says
                \* that a worker thread of the iterator's own runtime creates it, hidden are
                \* the entries above min_depth or the file behind the process's stdout
  Rejecting,    \* the executor may reject a job
  Panicking     \* directories whose read may panic

ASSUME TreeAssumption ==
  /\ Item \subseteq Nat /\ IsFiniteSet(Item)
  /\ Dir \subseteq Item /\ Errors \subseteq Item \ (Dir \cup {Root})
  /\ Entries \in [Dir -> SUBSET Item]
  /\ Item = {Root} \cup UNION {Entries[d] : d \in Dir}
  /\ \A d, e \in Dir : Root \notin Entries[d] /\ (d # e => Entries[d] \cap Entries[e] = {})

\* Paths are compared component by component: a directory comes before its entries, and
\* all of these before whatever follows the directory among its siblings.
ASSUME NumberingAssumption ==
  /\ \A d \in Dir : \A i \in Entries[d] : d < i
  /\ \A d, e \in Dir : \A i \in Entries[d], j \in Entries[e] : d < e /\ e < i => j < i

ASSUME OptionsAssumption ==
  /\ RootError \notin Item /\ ScheduleError \notin Item /\ RootError # ScheduleError
  /\ Limit \in Nat \ {0} /\ Rejecting \in BOOLEAN
  /\ Iterators \subseteq [buffer : Nat, abort : BOOLEAN, reentrant : BOOLEAN,
                        hidden : SUBSET (Item \ Errors)]
  /\ Panicking \subseteq Dir

VARIABLES
  iterator,      \* the iterator in use, one of Iterators
  pc,            \* where the coordinator is
  after,         \* what it does after the loop (refill, send, drain) it is in
  offer,         \* the item it sends or has just sent
  frames,        \* the open frames, the items of each not emitted yet; the last is the top
  target,        \* the directory wait_for waits for
  queued, outstanding, ready, scheduleError,   \* OrderedScheduler
  reading,       \* directories accepted by the executor and not read yet
  results,       \* the worker results channel
  cancelled,     \* the CancellationToken
  consumer,      \* where the owner of the iterator is
  sent,          \* history: every item that passed into the channel
  taken,         \* how many of them next() has returned
  reads          \* history: how many reads of each directory the executor accepted

control == <<pc, after, offer, target>>
scheduler == <<queued, outstanding, ready, scheduleError>>
executor == <<reading, results, reads>>
vars == <<iterator, control, frames, scheduler, executor, cancelled, consumer, sent, taken>>

Buffer == iterator.buffer
AbortPolicy == iterator.abort
Reentrant == iterator.reentrant
Invisible == iterator.hidden

\* An item's place among its siblings is the number of those before it.
InPathOrder_Descending(S) == SetToSortSeq(S, >)
InPathOrder(S) ==
  [k \in 1 .. Cardinality(S) |-> CHOOSE i \in S : Cardinality({j \in S : j < i}) = k - 1]

Batch(d, S) == [dir |-> d, entries |-> S]
Result(d, didPanic, S) == [dir |-> d, panicked |-> didPanic, entries |-> S]

Init ==
  /\ iterator \in Iterators
  /\ pc = "start" /\ after = "none" /\ offer = Root /\ target = Root
  /\ frames = <<>>
  /\ queued = <<>> /\ outstanding = 0 /\ ready = {} /\ scheduleError = FALSE
  /\ reading = {} /\ results = <<>> /\ reads = [d \in Dir |-> 0]
  /\ cancelled = FALSE
  /\ consumer = "idle"
  /\ sent = <<>> /\ taken = 0

-----------------------------------------------------------------------------
(* Sending to the consumer *)

ReceiverGone == consumer \in {"closed", "dropping"}

\* A buffered send completes when there is room, a rendezvous when next() is waiting.
Sent ==
  /\ pc = "offer" /\ ~ReceiverGone
  /\ \/ Buffer > 0 /\ Len(sent) - taken < Buffer /\ UNCHANGED <<consumer, taken>>
     \/ Buffer = 0 /\ consumer = "next" /\ consumer' = "idle" /\ taken' = taken + 1
  /\ sent' = Append(sent, offer)
  /\ pc' = after
  /\ UNCHANGED <<iterator, after, offer, target, frames, scheduler, executor, cancelled>>

Offer(item, next) == pc' = "offer" /\ offer' = item /\ after' = next
Goto(place) == pc' = place /\ UNCHANGED <<after, offer>>

\* cancel_and_drain, up to its loop over the outstanding results.
StartDrain(next) ==
  /\ pc' = "drain" /\ after' = next /\ offer' = offer
  /\ cancelled' = TRUE
  /\ queued' = <<>>

SendFailed ==
  /\ pc = "offer" /\ ReceiverGone
  /\ IF after = "emitted"
     THEN StartDrain("ended")
     ELSE /\ Goto("ended")
          /\ UNCHANGED <<cancelled, queued>>
  /\ UNCHANGED <<iterator, target, frames, outstanding, ready, scheduleError, executor, consumer, sent, taken>>

-----------------------------------------------------------------------------
(* The coordinator *)

\* The root comes first, from a walker of its own.
Start ==
  /\ pc = "start" /\ ~Reentrant
  /\ \/ Offer(RootError, "ended")
     \/ /\ Root \notin Invisible
        /\ Offer(Root, "rooted")
     \/ /\ Root \in Invisible
        /\ Goto("rooted")
  /\ UNCHANGED <<iterator, target, frames, scheduler, executor, cancelled, consumer, sent, taken>>

\* The only look at the token before the first refill and the first wait.
StopsAtRoot_Unasked == Root \notin Dir
StopsAtRoot == Root \notin Dir \/ cancelled

Rooted ==
  /\ pc = "rooted"
  /\ IF StopsAtRoot
     THEN Goto("ended") /\ queued' = queued
     ELSE /\ pc' = "refill" /\ after' = "wait" /\ offer' = offer
          /\ queued' = <<Root>>
  /\ UNCHANGED <<iterator, target, frames, outstanding, ready, scheduleError, executor,
                 cancelled, consumer, sent, taken>>

RefillGoesOn == ~cancelled /\ outstanding < Limit /\ queued # <<>>

Accept ==
  /\ pc = "refill" /\ RefillGoesOn
  /\ queued' = Tail(queued)
  /\ outstanding' = outstanding + 1
  /\ reading' = reading \cup {Head(queued)}
  /\ reads' = [reads EXCEPT ![Head(queued)] = @ + 1]
  /\ UNCHANGED <<iterator, control, frames, ready, scheduleError, results, cancelled, consumer, sent, taken>>

Reject ==
  /\ pc = "refill" /\ RefillGoesOn /\ Rejecting
  /\ cancelled' = TRUE
  /\ queued' = <<>>
  /\ scheduleError' = TRUE
  /\ Goto(after)
  /\ UNCHANGED <<iterator, target, frames, outstanding, ready, executor, consumer, sent, taken>>

RefillEnds ==
  /\ pc = "refill" /\ ~RefillGoesOn
  /\ Goto(after)
  /\ UNCHANGED <<iterator, target, frames, scheduler, executor, cancelled, consumer, sent, taken>>

\* Siblings in path order; the directories among them go to the front of the queue.
Enqueue(children) == children \o queued
PrepareFrame(batch) ==
  /\ frames' = Append(frames, InPathOrder(batch.entries))
  /\ queued' = Enqueue(InPathOrder(batch.entries \cap Dir))
  /\ pc' = "refill" /\ after' = "drive" /\ offer' = offer

\* wait_for: a result that arrived early, an error of the scheduler, or the receive loop.
Wait ==
  /\ pc = "wait"
  /\ \/ \E batch \in ready :
          /\ batch.dir = target
          /\ ready' = ready \ {batch}
          /\ PrepareFrame(batch)
          /\ UNCHANGED <<scheduleError, cancelled>>
     \/ /\ \A batch \in ready : batch.dir # target
        /\ scheduleError' = FALSE
        /\ IF scheduleError
           THEN StartDrain("report")
           ELSE Goto("receive") /\ UNCHANGED <<cancelled, queued>>
        /\ UNCHANGED <<ready, frames>>
  /\ UNCHANGED <<iterator, target, outstanding, executor, consumer, sent, taken>>

AfterResult == outstanding - 1

\* One result; the batch of the awaited directory stays in `ready` until the refill is over.
Receive ==
  /\ pc = "receive" /\ results # <<>>
  /\ results' = Tail(results)
  /\ outstanding' = AfterResult
  /\ LET result == Head(results) IN
     IF result.panicked
     THEN StartDrain("unwound") /\ ready' = ready
     ELSE /\ ready' = ready \cup {Batch(result.dir, result.entries)}
          /\ pc' = "refill" /\ offer' = offer
          /\ after' = IF result.dir = target THEN "matched" ELSE "other"
          /\ UNCHANGED <<cancelled, queued>>
  /\ UNCHANGED <<iterator, target, frames, scheduleError, reading, reads, consumer, sent, taken>>

\* The awaited batch counts even if the token has been cancelled meanwhile.
Matched ==
  /\ pc = "matched"
  /\ scheduleError' = FALSE
  /\ \E batch \in ready :
       /\ batch.dir = target
       /\ ready' = ready \ {batch}
       /\ IF scheduleError
          THEN StartDrain("report") /\ frames' = frames
          ELSE PrepareFrame(batch) /\ cancelled' = cancelled
  /\ UNCHANGED <<iterator, target, outstanding, executor, consumer, sent, taken>>

StopWaiting == cancelled
DrainReason_AlwaysQuiet == "ended"
DrainReason == IF scheduleError THEN "report" ELSE "ended"

Other ==
  /\ pc = "other"
  /\ IF StopWaiting
     THEN StartDrain(DrainReason) /\ scheduleError' = FALSE
     ELSE Goto("receive") /\ UNCHANGED <<cancelled, queued, scheduleError>>
  /\ UNCHANGED <<iterator, target, frames, outstanding, ready, executor, consumer, sent, taken>>

\* drive_scheduler: the next item of the top frame, or the end.
Drive ==
  /\ pc = "drive"
  /\ IF cancelled \/ frames = <<>>
     THEN StartDrain("ended") /\ frames' = frames
     ELSE /\ UNCHANGED <<cancelled, queued>>
          /\ IF Last(frames) = <<>>
             THEN frames' = Front(frames) /\ Goto("drive")
             ELSE LET item == Head(Last(frames)) IN
                  /\ frames' = Append(Front(frames), Tail(Last(frames)))
                  /\ IF item \in Invisible
                     THEN pc' = "emitted" /\ offer' = item /\ after' = "emitted"
                     ELSE Offer(item, "emitted")
  /\ UNCHANGED <<iterator, target, outstanding, ready, scheduleError, executor, consumer, sent, taken>>

Aborts(item) == AbortPolicy /\ item \in Errors

Emitted ==
  /\ pc = "emitted"
  /\ IF Aborts(offer)
     THEN StartDrain("ended") /\ target' = target
     ELSE /\ UNCHANGED <<cancelled, queued>>
          /\ IF offer \in Dir
             THEN Goto("wait") /\ target' = offer
             ELSE Goto("drive") /\ target' = target
  /\ UNCHANGED <<iterator, frames, outstanding, ready, scheduleError, executor, consumer, sent, taken>>

DrainOne ==
  /\ pc = "drain" /\ outstanding > 0 /\ results # <<>>
  /\ results' = Tail(results)
  /\ outstanding' = AfterResult
  /\ UNCHANGED <<iterator, control, frames, queued, ready, scheduleError, reading, reads,
                 cancelled, consumer, sent, taken>>

Drained_WhenNoneIsReady == results = <<>>
Drained == outstanding = 0

DrainEnds ==
  /\ pc = "drain" /\ Drained
  /\ IF after = "report" THEN Offer(ScheduleError, "ended") ELSE Goto(after)
  /\ UNCHANGED <<iterator, target, frames, scheduler, executor, cancelled, consumer, sent, taken>>

-----------------------------------------------------------------------------
(* ordered_serial: on a worker thread of the same runtime the coordinator walks alone. *)
(* Its Walker has no sorter: an open directory yields its items in any order, and its  *)
(* frame lists what is left of it.                                                      *)

SerialStart ==
  /\ pc = "start" /\ Reentrant
  /\ \/ Offer(RootError, "ended") /\ frames' = frames
     \/ Goto("serial") /\ frames' = <<<<Root>>>>
  /\ UNCHANGED <<iterator, target, scheduler, executor, cancelled, consumer, sent, taken>>

Open(rest, item) == IF item \in Dir THEN Append(rest, InPathOrder(Entries[item])) ELSE rest

SerialNext ==
  /\ pc = "serial"
  /\ IF cancelled \/ frames = <<>>
     THEN Goto("ended") /\ frames' = frames
     ELSE IF Last(frames) = <<>>
     THEN frames' = Front(frames) /\ Goto("serial")
     ELSE \E i \in DOMAIN Last(frames) :
          LET item == Last(frames)[i]
              rest == Append(Front(frames), RemoveAt(Last(frames), i))
              next == IF Aborts(item) THEN "ended" ELSE "serial"
          IN /\ frames' = Open(rest, item)
             /\ IF item \in Invisible
                THEN pc' = next /\ offer' = item /\ after' = next
                ELSE Offer(item, next)
  /\ UNCHANGED <<iterator, target, scheduler, executor, cancelled, consumer, sent, taken>>

Coordinator ==
  \/ Sent \/ SendFailed \/ Start \/ Rooted \/ Accept \/ Reject \/ RefillEnds \/ Wait \/ Receive
  \/ Matched \/ Other \/ Drive \/ Emitted \/ DrainOne \/ DrainEnds \/ SerialStart \/ SerialNext

-----------------------------------------------------------------------------
(* The reads: a cancelled token cuts a read short, wherever the directory order puts it. *)

Batches(d) == IF cancelled THEN SUBSET Entries[d] ELSE {Entries[d]}
Read(d) ==
  /\ d \in reading
  /\ reading' = reading \ {d}
  /\ \/ \E S \in Batches(d) :
          results' = Append(results, Result(d, FALSE, S))
     \/ /\ d \in Panicking
        /\ results' = Append(results, Result(d, TRUE, {}))
  /\ UNCHANGED <<iterator, control, frames, scheduler, reads, cancelled, consumer, sent, taken>>

-----------------------------------------------------------------------------
(* The consumer *)

CallNext ==
  /\ consumer = "idle"
  /\ consumer' = "next"
  /\ UNCHANGED <<iterator, control, frames, scheduler, executor, cancelled, sent, taken>>

Take ==
  /\ consumer = "next" /\ taken < Len(sent)
  /\ taken' = taken + 1
  /\ consumer' = "idle"
  /\ UNCHANGED <<iterator, control, frames, scheduler, executor, cancelled, sent>>

CoordinatorOver == pc \in {"ended", "unwound"}

\* Joining a coordinator that panicked panics.
Joined(quietly) == IF pc = "unwound" THEN "panicked" ELSE quietly

TakeEnd ==
  /\ consumer = "next" /\ taken = Len(sent) /\ CoordinatorOver
  /\ consumer' = Joined("exhausted")
  /\ UNCHANGED <<iterator, control, frames, scheduler, executor, cancelled, sent, taken>>

\* Drop: first the receiver, then the token, then the join.
DropReceiver ==
  /\ consumer = "idle"
  /\ consumer' = "closed"
  /\ UNCHANGED <<iterator, control, frames, scheduler, executor, cancelled, sent, taken>>

CancelToken ==
  /\ consumer = "closed"
  /\ consumer' = "dropping"
  /\ cancelled' = TRUE
  /\ UNCHANGED <<iterator, control, frames, scheduler, executor, sent, taken>>

JoinCoordinator ==
  /\ consumer = "dropping" /\ CoordinatorOver
  /\ consumer' = Joined("dropped")
  /\ UNCHANGED <<iterator, control, frames, scheduler, executor, cancelled, sent, taken>>

\* A call that has begun goes on; whether to call next() or to drop is the owner's choice.
Consumer == Take \/ TakeEnd \/ CancelToken \/ JoinCoordinator

Next == Coordinator \/ Consumer \/ CallNext \/ DropReceiver \/ \E d \in Dir : Read(d)

Fairness == WF_vars(Coordinator) /\ WF_vars(Consumer) /\ \A d \in Dir : WF_vars(Read(d))
Spec == Init /\ [][Next]_vars /\ Fairness

-----------------------------------------------------------------------------
Place == {"start", "rooted", "refill", "wait", "receive", "matched", "other", "drive", "offer",
          "emitted", "drain", "report", "serial", "ended", "unwound"}

TypeOK ==
  /\ iterator \in Iterators
  /\ pc \in Place \ {"report"} /\ after \in Place \cup {"none"}
  /\ offer \in Item \cup {RootError, ScheduleError} /\ target \in Dir \cup {Root}
  /\ frames \in Seq(Seq(Item))
  /\ queued \in Seq(Dir) /\ outstanding \in 0 .. Limit /\ scheduleError \in BOOLEAN
  /\ \A batch \in ready : batch.dir \in Dir /\ batch.entries \subseteq Entries[batch.dir]
  /\ reading \subseteq Dir /\ reads \in [Dir -> 0 .. 1]
  /\ \A i \in DOMAIN results : results[i].dir \in Dir /\ results[i].entries \subseteq Entries[results[i].dir]
  /\ cancelled \in BOOLEAN
  /\ consumer \in {"idle", "next", "closed", "dropping", "dropped", "exhausted", "panicked"}
  /\ sent \in Seq(Item \cup {RootError, ScheduleError}) /\ taken \in 0 .. Len(sent)

(* What the iterator promises: the visible items, under ErrorPolicy::Abort up to the     *)
(* first error.                                                                          *)
Promised == {i \in Item \ Invisible : AbortPolicy => \A e \in Errors : i <= e}

(* The items below a directory: the least set that holds its entries and those of every  *)
(* directory in the set.                                                                 *)
ClosedBelow(d, S) == \A e \in {d} \cup (S \cap Dir) : Entries[e] \subseteq S
Below == [d \in Dir |-> {i \in Item : \A S \in SUBSET Item : ClosedBelow(d, S) => i \in S}]

(* Depth first: a directory comes before everything below it, with nothing else between. *)
DirectoriesAreWhole ==
  \A i, k \in DOMAIN sent :
    sent[i] \in Dir /\ sent[k] \in Below[sent[i]] =>
      i < k /\ \A j \in i + 1 .. k : sent[j] \in Below[sent[i]]

(* In path order and without a gap: the k-th item sent has k - 1 promised ones before it. *)
SortedOrder ==
  \A k \in DOMAIN sent :
    IF sent[k] \in Item
    THEN sent[k] \in Promised /\ Cardinality({i \in Promised : i < sent[k]}) = k - 1
    ELSE k = Len(sent)

StopsAtError == AbortPolicy => \A k \in DOMAIN sent : sent[k] \in Errors => k = Len(sent)

(* Whatever the order in which the reads finish, the items sent are the promised ones in *)
(* depth-first path order, followed at most by the error that ends the traversal.  The   *)
(* serial fallback has no path order, but it is depth-first too.                         *)
DepthFirstOrder == DirectoriesAreWhole /\ StopsAtError /\ (~Reentrant => SortedOrder)

(* A consumer that reaches the end has seen all that was promised, or an error in its    *)
(* place, or the executor has rejected a job while a frame was prepared.                 *)
EndIsExplained ==
  consumer = "exhausted" =>
    \/ ToSet(sent) \cap {RootError, ScheduleError} # {} \/ scheduleError
    \/ ~Reentrant /\ ToSet(sent) = Promised
    \/ Reentrant /\ ToSet(sent) = Item \ Invisible
    \/ Reentrant /\ AbortPolicy /\ sent # <<>> /\ Last(sent) \in Errors

(* `outstanding` counts the accepted reads whose result was not received: the drain      *)
(* loops rely on it, and it keeps the prefetch within `limit`.                           *)
OutstandingIsExact ==
  outstanding = Cardinality(reading) + Len(results)

(* When the coordinator is over, by any path, no read is running any more: after         *)
(* exhausting or dropping the iterator nothing touches the file system.                  *)
ReadsEndFirst == CoordinatorOver => reading = {}

(* The receive loop never sleeps without a read that will wake it, except when the       *)
(* token was cancelled before the first refill.                                          *)
WaitsForARead ==
  pc = "receive" => reading # {} \/ results # <<>> \/ (cancelled /\ reads = [d \in Dir |-> 0])

(* Every accepted read is accounted for until its result is received, whatever ends the  *)
(* traversal meanwhile.                                                                  *)
ReadsAreAccounted == TypeOK /\ OutstandingIsExact /\ ReadsEndFirst /\ WaitsForARead

(* The window: the coordinator has looked at the token, and neither was a read accepted  *)
(* nor a rejection recorded.  Cancelled there, it waits for a read that nobody does.     *)
InTheWindow ==
  pc \in {"refill", "wait", "receive"} /\ ~scheduleError /\ \A d \in Dir : reads[d] = 0

(* A call of next() returns.  So does a drop, wherever its cancellation finds the        *)
(* coordinator, the serial fallback included, except in the window.                      *)
CallsReturn ==
  /\ consumer = "next" ~> consumer # "next"
  /\ (consumer = "dropping" /\ ~InTheWindow) ~> consumer # "dropping"

=============================================================================
