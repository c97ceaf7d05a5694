---------------------------- MODULE StatefulWalk ----------------------------
(***************************************************************************)
(* The stateful walk of src/src/stateful_walk: a callback processes the    *)
(* whole batch of each directory, hands a state down to the directories it *)
(* keeps, and attaches a state to every entry.  ParallelStatefulWalker     *)
(* reads and processes directories ahead on an executor and still yields   *)
(* the entries in depth-first order; on a worker thread of its own runtime *)
(* its coordinator runs the serial StatefulWalker instead.                 *)
(*                                                                         *)
(* A directory is named by its path, the sequence of nodes from the root:  *)
(* a link makes one node appear under several paths.  The callback appends *)
(* the node it processes to the state it was given and attaches the result *)
(* to the entries, so a state names the directories it came through.       *)
(***************************************************************************)
EXTENDS Integers, SequencesExt

CONSTANTS
  Root,        \* the root node
  Listing,     \* Listing[n]: the sequence of nodes the file system lists in directory n
  Failing,     \* nodes whose entry cannot be read
  Panicking,   \* nodes whose callback may panic
  Rejecting,   \* the executor may reject a job
  Builders     \* the builders to consider: capacity, parallelism, available (of the runtime),
               \* maxOpen, minDepth, maxDepth, abort (ErrorPolicy::Abort), reentrant (the
               \* caller is a worker thread of the runtime), and the callback: whether it
               \* sorts the batch, the nodes it removes and the directories it prunes

Directory == DOMAIN Listing
Node == {Root} \cup Directory \cup UNION {Range(Listing[d]) : d \in Directory}

ASSUME TreeAssumption ==
  /\ Directory \subseteq Nat /\ \A d \in Directory : Listing[d] \in Seq(Nat)
  /\ \A d \in Directory : \A i, j \in DOMAIN Listing[d] : Listing[d][i] = Listing[d][j] => i = j
  /\ Root \in Nat /\ Failing \subseteq Node \ (Directory \cup {Root})
  /\ Panicking \subseteq Directory /\ Rejecting \in BOOLEAN

ASSUME BuildersAssumption ==
  \A b \in Builders :
    /\ {b.capacity, b.parallelism, b.available, b.maxOpen, b.minDepth, b.maxDepth} \subseteq Nat
    /\ b.available > 0
    /\ {b.abort, b.reentrant, b.sorts} \subseteq BOOLEAN
    /\ b.removes \subseteq Node /\ b.prunes \subseteq Node

VARIABLES
  builder,       \* the StatefulWalkBuilder of this walk
  pc,            \* where the coordinator is
  after,         \* what it does after the loop (refill, send, drain) it is in
  offer,         \* the item it sends
  child,         \* the task the item it sends announces
  frames,        \* the open frames, the items of each not emitted yet; the last is the top
  pending,       \* serial: StatefulWalker.pending
  target,        \* the id wait_for waits for
  nextId, queued, outstanding, ready, scheduleError,   \* OrderedStatefulScheduler
  reading,       \* tasks accepted by the executor and not finished
  results,       \* the worker results channel
  cancelled,     \* the CancellationToken
  consumer,      \* where the owner of the iterator is
  sent,          \* history: every item that passed into the channel
  taken,         \* how many of them next() has returned
  accepted       \* history: how many jobs the executor accepted

control == <<pc, after, offer, child>>
scheduler == <<nextId, queued, outstanding, ready, scheduleError>>
executor == <<reading, results, accepted>>
channel == <<sent, taken>>
vars == <<builder, control, frames, pending, target, scheduler, executor, cancelled, consumer, channel>>

Capacity == IF builder.capacity = 0 THEN 1 ELSE builder.capacity

requested_workers ==
  LET requested == IF builder.parallelism = 0 THEN Min({builder.available, 8})
                   ELSE Min({builder.parallelism, builder.available})
      open == Max({builder.maxOpen, 1})
  IN Max({Min({requested, open}), 1})

-----------------------------------------------------------------------------
(* Items, tasks and batches *)

NoChild == 0     \* id 0 is the root's task, which is no child
Depth(path) == Len(path) - 1

Entry(path, state, reads) == [ok |-> TRUE, path |-> path, state |-> state, reads |-> reads]
Error(path) == [ok |-> FALSE, path |-> path, state |-> <<>>, reads |-> FALSE]
RootError == Error(<<>>)
ScheduleError == Error(<<Root, Root>>)

Visible(item) == item.ok => Depth(item.path) >= builder.minDepth

Task(id, path, ancestors, state) ==
  [id |-> id, path |-> path, ancestors |-> ancestors, state |-> state]
ChildAncestors(ancestors, path) == ancestors \cup {Last(path)}

\* Each directory is read by a Walker of its own, limited to one level: whatever directory
\* it lists is at that limit, which the walker looks at before it looks for a loop.  The
\* caller then takes back the limit it had added.
WorkerMaxDepth(task) == Min({builder.maxDepth, Depth(task.path) + 1})
SkipReason(task, n) ==
  IF n \notin Directory THEN "none"
  ELSE IF Len(task.path) >= WorkerMaxDepth(task) THEN "MaxDepth"
  ELSE IF n \in task.ancestors THEN "SymlinkLoop"
  ELSE "none"

clear_depth_skip(task, reason) ==
  IF reason = "MaxDepth" /\ Len(task.path) < builder.maxDepth THEN "none" ELSE reason

Descends(task, n) == n \in Directory /\ clear_depth_skip(task, SkipReason(task, n)) = "none"

Listed(task, nodes) ==
  [i \in DOMAIN nodes |->
     IF nodes[i] \in Failing THEN Error(Append(task.path, nodes[i]))
     ELSE Entry(Append(task.path, nodes[i]), <<>>, Descends(task, nodes[i]))]

\* process_read_dir: the callback sees the batch it is given, whole or cut short.  It
\* removes items, and sorts the others or leaves them in the order of the file system.
NewState(task) == Append(task.state, Last(task.path))
Process(task, items) ==
  LET kept    == {i \in DOMAIN items : Last(items[i].path) \notin builder.removes}
      Key(i)  == IF builder.sorts THEN Last(items[i].path) ELSE i
      keys    == {Key(i) : i \in kept}
      Item(k) == items[CHOOSE i \in kept : Cardinality({x \in keys : x < Key(i)}) = k - 1]
  IN [k \in 1 .. Cardinality(keys) |->
        IF Item(k).ok
        THEN Entry(Item(k).path, NewState(task),
                   Item(k).reads /\ Last(Item(k).path) \notin builder.prunes)
        ELSE Item(k)]

Batch(task, nodes) ==
  [items |-> Process(task, Listed(task, nodes)), state |-> NewState(task),
   ancestors |-> task.ancestors]
WholeBatch(task) == Batch(task, Listing[Last(task.path)])

Result(id, didPanic, batch) == [id |-> id, panicked |-> didPanic, batch |-> batch]

RootReads == Root \in Directory /\ builder.maxDepth > 0
RootEntry == Entry(<<Root>>, <<>>, RootReads)
RootTask == Task(0, <<Root>>, {Root}, <<>>)

Init ==
  /\ builder \in Builders
  /\ pc = "start" /\ after = "none" /\ offer = RootEntry /\ child = NoChild
  /\ frames = <<>> /\ pending = <<>> /\ target = 0
  /\ nextId = 1 /\ queued = <<>> /\ outstanding = 0 /\ ready = {} /\ scheduleError = FALSE
  /\ reading = {} /\ results = <<>> /\ accepted = 0
  /\ cancelled = FALSE
  /\ consumer = "idle"
  /\ sent = <<>> /\ taken = 0

-----------------------------------------------------------------------------
(* Sending to the consumer *)

ReceiverGone == consumer \in {"closed", "dropping"}

Goto(place) == pc' = place /\ UNCHANGED <<after, offer, child>>
Offer(item, next) == pc' = "offer" /\ offer' = item /\ after' = next /\ UNCHANGED child

\* cancel_and_drain, up to its loop over the outstanding results.
StartDrain(next) ==
  /\ pc' = "drain" /\ after' = next /\ UNCHANGED <<offer, child>>
  /\ cancelled' = TRUE
  /\ queued' = <<>>

Sent ==
  /\ pc = "offer" /\ ~ReceiverGone
  /\ Len(sent) - taken < Capacity
  /\ sent' = Append(sent, offer)
  /\ Goto(after)
  /\ UNCHANGED <<builder, frames, pending, target, scheduler, executor, cancelled, consumer, taken>>

SendFailed ==
  /\ pc = "offer" /\ ReceiverGone
  /\ IF after = "emitted"
     THEN StartDrain("ended")
     ELSE Goto("ended") /\ UNCHANGED <<cancelled, queued>>
  /\ UNCHANGED <<builder, frames, pending, target, nextId, outstanding, ready, scheduleError,
                 executor, consumer, channel>>

-----------------------------------------------------------------------------
(* The coordinator *)

\* run_parallel: the root comes first, from a walker of its own.
Start ==
  /\ pc = "start" /\ ~builder.reentrant
  /\ \/ Offer(RootError, "ended")
     \/ IF Visible(RootEntry) THEN Offer(RootEntry, "rooted") ELSE Goto("rooted")
  /\ UNCHANGED <<builder, frames, pending, target, scheduler, executor, cancelled, consumer, channel>>

\* The only look at the token before the first refill and the first wait.
StopsAtRoot_Unasked == ~RootReads
StopsAtRoot == ~RootReads \/ cancelled

Rooted ==
  /\ pc = "rooted"
  /\ IF StopsAtRoot
     THEN Goto("ended") /\ queued' = queued
     ELSE /\ pc' = "refill" /\ after' = "wait" /\ UNCHANGED <<offer, child>>
          /\ queued' = <<RootTask>>
  /\ UNCHANGED <<builder, frames, pending, target, nextId, outstanding, ready, scheduleError,
                 executor, cancelled, consumer, channel>>

RefillGoesOn == ~cancelled /\ outstanding < requested_workers /\ queued # <<>>

Accept ==
  /\ pc = "refill" /\ RefillGoesOn
  /\ queued' = Tail(queued)
  /\ outstanding' = outstanding + 1
  /\ reading' = reading \cup {Head(queued)}
  /\ accepted' = accepted + 1
  /\ UNCHANGED <<builder, control, frames, pending, target, nextId, ready, scheduleError, results,
                 cancelled, consumer, channel>>

Reject ==
  /\ pc = "refill" /\ RefillGoesOn /\ Rejecting
  /\ cancelled' = TRUE
  /\ queued' = <<>>
  /\ scheduleError' = TRUE
  /\ Goto(after)
  /\ UNCHANGED <<builder, frames, pending, target, nextId, outstanding, ready, executor, consumer,
                 channel>>

RefillEnds ==
  /\ pc = "refill" /\ ~RefillGoesOn
  /\ Goto(after)
  /\ UNCHANGED <<builder, frames, pending, target, scheduler, executor, cancelled, consumer, channel>>

\* prepare_frame numbers the directories the callback left to read, in the order of the
\* batch, and puts their tasks at the front of the queue.
ChildState_Sibling(batch, item) == item.path
ChildState(batch, item) == batch.state
Prepare(batch) ==
  LET ReadsBefore(i) == Cardinality({j \in 1 .. i - 1 : batch.items[j].reads})
  IN [i \in DOMAIN batch.items |->
        [item |-> batch.items[i],
         child |-> IF batch.items[i].reads THEN nextId + ReadsBefore(i) ELSE NoChild]]

ChildTask(batch, p) ==
  Task(p.child, p.item.path, ChildAncestors(batch.ancestors, p.item.path), ChildState(batch, p.item))

Enqueue_Replacing(tasks) == tasks
Enqueue(tasks) == tasks \o queued

PrepareFrame(batch) ==
  LET frame == Prepare(batch)
      announced == {i \in DOMAIN frame : frame[i].child # NoChild}
      Numbered(id) == frame[CHOOSE i \in announced : frame[i].child = id]
      tasks == [k \in 1 .. Cardinality(announced) |-> ChildTask(batch, Numbered(nextId + k - 1))]
  IN /\ frames' = Append(frames, frame)
     /\ nextId' = nextId + Cardinality(announced)
     /\ queued' = Enqueue(tasks)
     /\ pc' = "refill" /\ after' = "drive" /\ UNCHANGED <<offer, child>>

\* wait_for: a batch that arrived early, an error of the scheduler, or the receive loop.
Wait ==
  /\ pc = "wait"
  /\ \/ \E result \in ready :
          /\ result.id = target
          /\ ready' = ready \ {result}
          /\ PrepareFrame(result.batch)
          /\ UNCHANGED <<scheduleError, cancelled>>
     \/ /\ \A result \in ready : result.id # target
        /\ scheduleError' = FALSE
        /\ IF scheduleError
           THEN StartDrain("report")
           ELSE Goto("receive") /\ UNCHANGED <<cancelled, queued>>
        /\ UNCHANGED <<ready, frames, nextId>>
  /\ UNCHANGED <<builder, pending, target, outstanding, executor, consumer, channel>>

\* One result; the awaited batch stays in `ready` until the refill is over.
AfterResult == outstanding - 1

Receive ==
  /\ pc = "receive" /\ results # <<>>
  /\ results' = Tail(results)
  /\ outstanding' = AfterResult
  /\ LET result == Head(results) IN
     IF result.panicked
     THEN StartDrain("unwound") /\ ready' = ready
     ELSE /\ ready' = ready \cup {result}
          /\ pc' = "refill" /\ UNCHANGED <<offer, child>>
          /\ after' = IF result.id = target THEN "matched" ELSE "other"
          /\ UNCHANGED <<cancelled, queued>>
  /\ UNCHANGED <<builder, frames, pending, target, nextId, scheduleError, reading, accepted,
                 consumer, channel>>

\* The awaited batch counts even if the token has been cancelled meanwhile.
Matched ==
  /\ pc = "matched"
  /\ scheduleError' = FALSE
  /\ \E result \in ready :
       /\ result.id = target
       /\ ready' = ready \ {result}
       /\ IF scheduleError
          THEN StartDrain("report") /\ UNCHANGED <<frames, nextId>>
          ELSE PrepareFrame(result.batch) /\ cancelled' = cancelled
  /\ UNCHANGED <<builder, pending, target, outstanding, executor, consumer, channel>>

Other ==
  /\ pc = "other"
  /\ IF cancelled
     THEN /\ StartDrain(IF scheduleError THEN "report" ELSE "ended")
          /\ scheduleError' = FALSE
     ELSE Goto("receive") /\ UNCHANGED <<cancelled, queued, scheduleError>>
  /\ UNCHANGED <<builder, frames, pending, target, nextId, outstanding, ready, executor, consumer,
                 channel>>

\* drive_scheduler: the next item of the top frame, or the end.
Drive ==
  /\ pc = "drive"
  /\ IF cancelled \/ frames = <<>>
     THEN StartDrain("ended") /\ frames' = frames
     ELSE /\ UNCHANGED <<cancelled, queued>>
          /\ IF Last(frames) = <<>>
             THEN frames' = Front(frames) /\ Goto("drive")
             ELSE LET p == Head(Last(frames)) IN
                  /\ frames' = Append(Front(frames), Tail(Last(frames)))
                  /\ pc' = IF Visible(p.item) THEN "offer" ELSE "emitted"
                  /\ offer' = p.item /\ child' = p.child /\ after' = "emitted"
  /\ UNCHANGED <<builder, pending, target, nextId, outstanding, ready, scheduleError, executor,
                 consumer, channel>>

Aborts_OnAnyError == ~offer.ok
Aborts == builder.abort /\ ~offer.ok

Emitted ==
  /\ pc = "emitted"
  /\ IF Aborts
     THEN StartDrain("ended") /\ target' = target
     ELSE /\ UNCHANGED <<cancelled, queued>>
          /\ IF child # NoChild
             THEN Goto("wait") /\ target' = child
             ELSE Goto("drive") /\ target' = target
  /\ UNCHANGED <<builder, frames, pending, nextId, outstanding, ready, scheduleError, executor,
                 consumer, channel>>

DrainOne ==
  /\ pc = "drain" /\ outstanding > 0 /\ results # <<>>
  /\ results' = Tail(results)
  /\ outstanding' = AfterResult
  /\ UNCHANGED <<builder, control, frames, pending, target, nextId, queued, ready, scheduleError,
                 reading, accepted, cancelled, consumer, channel>>

Drained == outstanding = 0

DrainEnds ==
  /\ pc = "drain" /\ Drained
  /\ IF after = "report" THEN Offer(ScheduleError, "ended") ELSE Goto(after)
  /\ UNCHANGED <<builder, frames, pending, target, scheduler, executor, cancelled, consumer, channel>>

-----------------------------------------------------------------------------
(* run_serial over StatefulWalker: one thread, one directory at a time, and no look at   *)
(* the error policy.                                                                     *)

SerialStart ==
  /\ pc = "start" /\ builder.reentrant
  /\ \/ Offer(RootError, "ended") /\ UNCHANGED pending
     \/ /\ pending' = IF RootReads THEN <<RootTask>> ELSE <<>>
        /\ IF ~Visible(RootEntry) THEN Goto("serial")
           ELSE IF cancelled THEN Goto("ended") ELSE Offer(RootEntry, "serial")
  /\ UNCHANGED <<builder, frames, target, scheduler, executor, cancelled, consumer, channel>>

\* A frame keeps the batch it came from: its state and its ancestors go to the children.
SerialRead ==
  /\ pc = "serial" /\ pending # <<>>
  /\ pending' = <<>>
  /\ \/ frames' = Append(frames, WholeBatch(Head(pending))) /\ Goto("serial")
     \/ Last(Head(pending).path) \in Panicking /\ Goto("unwound") /\ UNCHANGED frames
  /\ UNCHANGED <<builder, target, scheduler, executor, cancelled, consumer, channel>>

SerialNext ==
  /\ pc = "serial" /\ pending = <<>>
  /\ IF frames = <<>> THEN Goto("ended") /\ UNCHANGED <<frames, pending>>
     ELSE IF Last(frames).items = <<>>
     THEN frames' = Front(frames) /\ Goto("serial") /\ UNCHANGED pending
     ELSE LET batch == Last(frames)
              item == Head(batch.items)
          IN /\ frames' = Append(Front(frames), [batch EXCEPT !.items = Tail(@)])
             /\ pending' = IF item.reads
                           THEN <<Task(0, item.path, ChildAncestors(batch.ancestors, item.path),
                                       ChildState(batch, item))>>
                           ELSE <<>>
             /\ IF ~Visible(item) THEN Goto("serial")
                ELSE IF cancelled THEN Goto("ended") ELSE Offer(item, "serial")
  /\ UNCHANGED <<builder, target, scheduler, executor, cancelled, consumer, channel>>

Coordinator ==
  \/ Sent \/ SendFailed \/ Start \/ Rooted \/ Accept \/ Reject \/ RefillEnds \/ Wait \/ Receive
  \/ Matched \/ Other \/ Drive \/ Emitted \/ DrainOne \/ DrainEnds
  \/ SerialStart \/ SerialRead \/ SerialNext

-----------------------------------------------------------------------------
(* The executor: a cancelled token cuts a read short, and the callback then processes    *)
(* what was read so far.                                                                 *)

Cuts(nodes) == IF cancelled THEN {SubSeq(nodes, 1, n) : n \in 0 .. Len(nodes)} ELSE {nodes}

Read(task) ==
  /\ reading' = reading \ {task}
  /\ \/ \E nodes \in Cuts(Listing[Last(task.path)]) :
          results' = Append(results, Result(task.id, FALSE, Batch(task, nodes)))
     \/ /\ Last(task.path) \in Panicking
        /\ results' = Append(results, Result(task.id, TRUE, Batch(task, <<>>)))
  /\ UNCHANGED <<builder, control, frames, pending, target, scheduler, accepted, cancelled,
                 consumer, channel>>
Executor == \E task \in reading : Read(task)

-----------------------------------------------------------------------------
(* The consumer *)

CallNext ==
  /\ consumer = "idle"
  /\ consumer' = "next"
  /\ UNCHANGED <<builder, control, frames, pending, target, scheduler, executor, cancelled, channel>>

Take ==
  /\ consumer = "next" /\ taken < Len(sent)
  /\ taken' = taken + 1
  /\ consumer' = "idle"
  /\ UNCHANGED <<builder, control, frames, pending, target, scheduler, executor, cancelled, sent>>

CoordinatorOver == pc \in {"ended", "unwound"}

\* Joining a coordinator that panicked panics.
Joined(quietly) == IF pc = "unwound" THEN "panicked" ELSE quietly

TakeEnd ==
  /\ consumer = "next" /\ taken = Len(sent) /\ CoordinatorOver
  /\ consumer' = Joined("exhausted")
  /\ UNCHANGED <<builder, control, frames, pending, target, scheduler, executor, cancelled, channel>>

\* Drop: first the receiver, then the token, then the join.
DropReceiver ==
  /\ consumer = "idle"
  /\ consumer' = "closed"
  /\ UNCHANGED <<builder, control, frames, pending, target, scheduler, executor, cancelled, channel>>

CancelToken ==
  /\ consumer = "closed"
  /\ consumer' = "dropping"
  /\ cancelled' = TRUE
  /\ UNCHANGED <<builder, control, frames, pending, target, scheduler, executor, channel>>

JoinCoordinator ==
  /\ consumer = "dropping" /\ CoordinatorOver
  /\ consumer' = Joined("dropped")
  /\ UNCHANGED <<builder, control, frames, pending, target, scheduler, executor, cancelled, channel>>

Consumer == Take \/ TakeEnd \/ CancelToken \/ JoinCoordinator

Next == Coordinator \/ Executor \/ Consumer \/ CallNext \/ DropReceiver

\* Every accepted job runs; a call that has begun goes on.  Whether to call next() again or
\* to drop the iterator is the owner's choice.
Fairness == WF_vars(Coordinator) /\ WF_vars(Consumer) /\ WF_vars(Executor)
Spec == Init /\ [][Next]_vars /\ Fairness

-----------------------------------------------------------------------------
Place == {"start", "rooted", "refill", "wait", "receive", "matched", "other", "drive", "offer",
          "emitted", "drain", "report", "serial", "ended", "unwound"}

TypeOK ==
  /\ builder \in Builders
  /\ pc \in Place \ {"report"} /\ after \in Place \cup {"none"}
  /\ child \in Nat /\ target \in Nat /\ nextId \in Nat
  /\ outstanding \in Nat /\ accepted \in Nat /\ scheduleError \in BOOLEAN /\ cancelled \in BOOLEAN
  /\ Len(pending) <= 1
  /\ consumer \in {"idle", "next", "closed", "dropping", "dropped", "exhausted", "panicked"}
  /\ taken \in 0 .. Len(sent)

Awaiting ==
  \/ pc \in {"wait", "receive", "matched", "other"}
  \/ pc = "refill" /\ after \in {"wait", "matched", "other"}
Announcing == pc \in {"offer", "emitted"} /\ after = "emitted" /\ child # NoChild

\* The directories the output still has to go through...
Promised ==
  ((UNION {{p.child : p \in Range(frames[i])} : i \in DOMAIN frames}) \ {NoChild})
    \cup (IF Awaiting THEN {target} ELSE {}) \cup (IF Announcing THEN {child} ELSE {})
\* ... and those the scheduler has somewhere between the queue and the ready batches.
Held ==
  {task.id : task \in Range(queued) \cup reading} \cup {result.id : result \in Range(results) \cup ready}

(* While nothing is cancelled, the scheduler holds every directory the frames still      *)
(* promise, each in one place, and no other: wait_for never waits for a directory that   *)
(* nobody reads, none is read twice, and none is read that the callback pruned.          *)
HoldsWhatIsPromised ==
  ~cancelled /\ ~builder.reentrant =>
    /\ Held = Promised
    /\ Cardinality(Held) = Len(queued) + Cardinality(reading) + Len(results) + Cardinality(ready)
    /\ outstanding = Cardinality(reading) + Len(results)

(* When the coordinator is over, by any path, no job of the walk is left on the executor: *)
(* after the iterator is exhausted or dropped the callback is not called any more.       *)
JobsEndFirst == CoordinatorOver => reading = {}

(* Every directory between the moment a frame promises it and the moment its frame is    *)
(* opened is in exactly one place, whatever ends the walk meanwhile.                     *)
DirectoriesAreAccounted == TypeOK /\ HoldsWhatIsPromised /\ JobsEndFirst

(* The window: the coordinator has looked at the token (execution.rs:73), and neither    *)
(* was a job accepted nor a rejection recorded.  Cancelled there, it waits for ever.     *)
InTheWindow == pc \in {"refill", "wait", "receive"} /\ ~scheduleError /\ accepted = 0

(* A call of next() returns.  So does a drop, wherever its cancellation finds the        *)
(* coordinator, before the first job and in the serial fallback too, except in the       *)
(* window.                                                                               *)
CallsReturn ==
  /\ consumer = "next" ~> consumer # "next"
  /\ (consumer = "dropping" /\ ~InTheWindow) ~> consumer # "dropping"

=============================================================================
