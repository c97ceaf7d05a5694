----------------------------- MODULE MultiRoot -----------------------------
(***************************************************************************)
(* Several roots at once: ParallelMultiWalker::walk and ::visit            *)
(* (parallel_multi/) and the same scheme in MultiScanner                   *)
(* (multi_scanner.rs).  One scoped thread per chunk of roots takes the     *)
(* roots of its chunk in order; a caller that is itself a worker, or has a *)
(* single worker, takes all roots on its own thread and stops at the first *)
(* error.  "walk" composes CollectedWalk; "visit" streams the events of a  *)
(* root to the visitor and shares one cancellation token between roots.    *)
(***************************************************************************)
EXTENDS CollectedWalk

CONSTANTS RootWorkers,      \* the numbers of root workers a caller may get
          TraversalWorkers, \* events of one root that may be in flight at once
          QuitAt            \* bound on the visitor's answers Quit and Skip

ASSUME MultiRootAssumption ==
    /\ RootWorkers \subseteq Nat /\ TraversalWorkers \in Nat \ {0} /\ QuitAt \in Nat

VARIABLES root_workers,
          thread,     \* [Roots -> [todo, done]]: thread t has the chunk number t
          visit_of,   \* [Roots -> the streaming visit of that root]
          token,      \* the shared cancellation token
          answers,    \* Quit and Skip answers so far
          outcome      \* what the call returned, None before

multiVars == <<root_workers, thread, visit_of, token, answers, outcome>>
vars == <<walkVars, multiVars>>

NumRoots == Cardinality(Roots)

\* root_worker_count; a job of the runtime gets one worker.
root_worker_count(requested) == AtLeastOne(AtMost(requested, NumRoots))
Sequential == root_workers <= 1

ChunkSize == (NumRoots + root_workers - 1) \div root_workers
Chunk(t) == [i \in 1..(AtMost(t * ChunkSize, NumRoots) - AtMost((t - 1) * ChunkSize, NumRoots))
                |-> AtMost((t - 1) * ChunkSize, NumRoots) + i]

NoVisit == [phase |-> "idle", items |-> <<>>, delivered |-> {}, in_flight |-> {}, skipped |-> {},
            late |-> 0, quit |-> FALSE, failed |-> None, result |-> None]

MultiTypeOK ==
    /\ root_workers \in 1..NumRoots /\ token \in BOOLEAN
    /\ \A r \in Roots : visit_of[r].phase \in {"idle", "visiting", "returned"}

Init ==
    /\ WalkInit
    /\ root_workers \in {root_worker_count(IF caller.on_worker THEN 1 ELSE n) : n \in RootWorkers}
    /\ thread = [t \in Roots |-> [todo |-> IF Sequential
                                           THEN IF t = 1 THEN [i \in Roots |-> i] ELSE <<>>
                                           ELSE Chunk(t),
                                  done |-> <<>>]]
    /\ visit_of = [r \in Roots |-> NoVisit]
    /\ token = FALSE /\ answers = 0 /\ outcome = None

mode == caller.mode

Over(r) == IF mode = "walk" THEN WalkIsOver(r) ELSE visit_of[r].phase = "returned"
Started(r) == IF mode = "walk" THEN walk[r].phase # "idle" ELSE visit_of[r].phase # "idle"
ResultOf(r) == IF mode = "walk" THEN walk[r].result[1] ELSE visit_of[r].result[1]

Current(t, r) == thread[t].todo # <<>> /\ Head(thread[t].todo) = r

-----------------------------------------------------------------------------
(***************************************************************************)
(* Walking a root.                                                         *)
(***************************************************************************)
BeginWalk(t, r) ==
    /\ mode = "walk" /\ outcome = None /\ Current(t, r)
    /\ StartWalk(r)
    /\ UNCHANGED multiVars

ContinueWalk(r) == mode = "walk" /\ CallerStep(r) /\ UNCHANGED multiVars
ContinueLane(r) == mode = "walk" /\ LaneStep(r) /\ UNCHANGED multiVars

-----------------------------------------------------------------------------
(***************************************************************************)
(* Visiting a root.  On a worker thread this is visit_serial: the items of *)
(* a serial walker, one after the other.  Otherwise it is the dynamic      *)
(* scheduler, here with its promise only: every item after its directory,  *)
(* at most TraversalWorkers of them at a time.                             *)
(***************************************************************************)
VisitOptionsOf(o) == [Inner(normalized(o)) EXCEPT !.stdout = normalized(o).stdout]
VisitOptions == VisitOptionsOf(caller.options)
ItemsOf(r) == Items[with_behavior(RootPath[r], VisitOptions)]

IsPrefixPath(p, q) == Len(p) < Len(q) /\ SubSeq(q, 1, Len(p)) = p
Pruned(r, item) == \E s \in visit_of[r].skipped : IsPrefixPath(s.path, item.path)
                                                  \/ (IsError(item) /\ s.path = item.path)
Unseen(r) == {item \in ToSet(visit_of[r].items) : ~Pruned(r, item)} \ visit_of[r].delivered

\* The items a worker may take next: on a worker thread the first that is left.
Above(p, q) == ~IsError(p) /\ (IsPrefixPath(p.path, q.path) \/ (IsError(q) /\ p.path = q.path))
Ready(r) ==
    LET items == visit_of[r].items
        left  == Unseen(r)
    IN  IF caller.on_worker
        THEN {items[i] : i \in {j \in DOMAIN items :
                 items[j] \in left /\ \A k \in DOMAIN items : items[k] \in left => j <= k}}
        ELSE {item \in left : ~\E above \in left : Above(above, item)}

BeginVisit(t, r) ==
    /\ mode = "visit" /\ outcome = None /\ Current(t, r) /\ visit_of[r].phase = "idle"
    /\ visit_of' = [visit_of EXCEPT ![r] =
           IF RootError(RootPath[r], VisitOptions) # None
           THEN [@ EXCEPT !.phase = "returned",
                          !.result = Some(Err(RootError(RootPath[r], VisitOptions)[1]))]
           ELSE [@ EXCEPT !.phase = "visiting", !.items = ItemsOf(r)]]
    /\ token' = (token \/ RootError(RootPath[r], VisitOptions) # None)
    /\ UNCHANGED <<walkVars, root_workers, thread, answers, outcome>>

TakeItem_IgnoresToken(r) ==
    /\ visit_of[r].phase = "visiting" /\ ~visit_of[r].quit /\ visit_of[r].failed = None
    /\ Cardinality(visit_of[r].in_flight) < IF caller.on_worker THEN 1 ELSE TraversalWorkers
    /\ \E item \in Ready(r) \ visit_of[r].in_flight :
           visit_of' = [visit_of EXCEPT ![r].in_flight = @ \cup {item}]
    /\ UNCHANGED <<walkVars, root_workers, thread, token, answers, outcome>>

\* A worker finds the token clear and takes an item.
TakeItem(r) ==
    /\ visit_of[r].phase = "visiting" /\ ~token /\ ~visit_of[r].quit /\ visit_of[r].failed = None
    /\ Cardinality(visit_of[r].in_flight) < IF caller.on_worker THEN 1 ELSE TraversalWorkers
    /\ \E item \in Ready(r) \ visit_of[r].in_flight :
           visit_of' = [visit_of EXCEPT ![r].in_flight = @ \cup {item}]
    /\ UNCHANGED <<walkVars, root_workers, thread, token, answers, outcome>>

\* The visitor is called with an item in flight and answers.  Quit cancels the
\* shared token before it is returned to the traversal.
Deliver(r, item, control) ==
    LET v     == visit_of[r]
        fails == IsError(item) /\ options.abort
    IN  /\ v.phase = "visiting" /\ item \in v.in_flight
        /\ control # "Continue" => answers < QuitAt
        /\ visit_of' = [visit_of EXCEPT ![r] =
               [v EXCEPT !.in_flight = @ \ {item},
                         !.delivered = @ \cup {item},
                         !.late = IF token THEN @ + 1 ELSE @,
                         !.skipped = IF control = "Skip" /\ IsDir(item) THEN @ \cup {item} ELSE @,
                         !.quit = @ \/ control = "Quit",
                         !.failed = IF fails /\ @ = None THEN Some(item) ELSE @]]
        /\ token' = (token \/ control = "Quit")
        /\ answers' = IF control = "Continue" THEN answers ELSE answers + 1
        /\ UNCHANGED <<walkVars, root_workers, thread, outcome>>

\* No item left, quit, the token found cancelled or an error under Abort: the
\* visit returns once its workers have, and an error cancels the shared token.
EndVisit(r) ==
    LET v == visit_of[r]
    IN  /\ v.phase = "visiting" /\ v.in_flight = {}
        /\ token \/ v.quit \/ v.failed # None \/ Unseen(r) = {}
        /\ visit_of' = [visit_of EXCEPT ![r].phase = "returned",
                                        ![r].result = Some(IF v.failed # None THEN Err(v.failed[1])
                                                           ELSE Ok(Collected(SelectSeq(v.items, LAMBDA i : i \in v.delivered))))]
        /\ token' = (token \/ v.failed # None)
        /\ UNCHANGED <<walkVars, root_workers, thread, answers, outcome>>

VisitStep(r) == \/ TakeItem(r)
                \/ \E item \in visit_of[r].in_flight, control \in {"Continue", "Skip", "Quit"} :
                       Deliver(r, item, control)
                \/ EndVisit(r)

-----------------------------------------------------------------------------
(***************************************************************************)
(* Threads and the join.                                                   *)
(***************************************************************************)
\* The thread records the result of its root and goes on; on a single thread the
\* first error ends the iteration.
FinishRoot(t, r) ==
    /\ Current(t, r) /\ Over(r)
    /\ thread' = [thread EXCEPT ![t] =
           [todo |-> IF Sequential /\ ~ResultOf(r).ok THEN <<>> ELSE Tail(@.todo),
            done |-> Append(@.done, r)]]
    /\ UNCHANGED <<walkVars, root_workers, visit_of, token, answers, outcome>>

\* The results of the threads, flattened in join order and sorted by root index.
Sorted(results) == SortedBy(results, results)
Flattened == FlattenSeq([t \in Roots |-> thread[t].done])

JoinThreads_FirstOnly ==
    LET order  == Sorted(Flattened)
        failed == {k \in DOMAIN order : ~ResultOf(order[k]).ok}
    IN  /\ outcome = None
        /\ thread[1].todo = <<>>
        /\ outcome' = Some(IF failed = {}
                          THEN [ok |-> TRUE, reports |-> [i \in DOMAIN order |-> ResultOf(order[i])], error |-> None]
                          ELSE [ok |-> FALSE, reports |-> <<>>, error |-> ResultOf(order[Min(failed)]).error])
        /\ UNCHANGED <<walkVars, root_workers, thread, visit_of, token, answers>>

JoinThreads ==
    LET order  == Sorted(Flattened)
        failed == {k \in DOMAIN order : ~ResultOf(order[k]).ok}
    IN  /\ outcome = None
        /\ \A t \in Roots : thread[t].todo = <<>>
        /\ outcome' = Some(IF failed = {}
                          THEN [ok |-> TRUE, reports |-> [i \in DOMAIN order |-> ResultOf(order[i])], error |-> None]
                          ELSE [ok |-> FALSE, reports |-> <<>>, error |-> ResultOf(order[Min(failed)]).error])
        /\ UNCHANGED <<walkVars, root_workers, thread, visit_of, token, answers>>

\* Nothing but lanes of a refused walk is left to do after the call.
AfterTheCall == outcome # None /\ UNCHANGED vars

Next == \/ \E t, r \in Roots : BeginWalk(t, r) \/ BeginVisit(t, r) \/ FinishRoot(t, r)
        \/ \E r \in Roots : ContinueWalk(r) \/ ContinueLane(r) \/ VisitStep(r)
        \/ JoinThreads
        \/ AfterTheCall

Spec == Init /\ [][Next]_vars

-----------------------------------------------------------------------------
(***************************************************************************)
(* Properties.                                                             *)
(***************************************************************************)
\* When the call returns every started root is over; reports are in insertion
\* order, one for each root; an error is that of the first failed root in insertion
\* order, and then only a single thread may have left roots alone.
FirstErrorInOrder ==
    outcome # None =>
        LET failed == {r \in Roots : Started(r) /\ ~ResultOf(r).ok}
        IN  /\ \A r \in Roots : Started(r) => Over(r)
            /\ outcome[1].ok <=> failed = {}
            /\ (failed = {} \/ ~Sequential) => \A r \in Roots : Started(r)
            /\ failed # {} => outcome[1].error = ResultOf(Min(failed)).error
            /\ failed = {} => outcome[1].reports = [r \in Roots |-> ResultOf(r)]

\* Quit in one root, or its error, stops every root: after the token is cancelled a
\* root delivers at most what its workers had in flight, and a root not yet started
\* delivers nothing.
QuitStopsEveryRoot ==
    \A r \in Roots : visit_of[r].late <= IF caller.on_worker THEN 1 ELSE TraversalWorkers

\* Nothing below a skipped directory is delivered, and a visit that was neither
\* cancelled nor quit delivers everything else.
VisitsAllButSkipped ==
    \A r \in Roots :
        /\ \A item \in visit_of[r].delivered : ~Pruned(r, item)
        /\ Over(r) /\ mode = "visit" /\ ResultOf(r).ok /\ ~token => Unseen(r) = {}

\* The items a visit is given are a walker's: a directory is no error, and comes before
\* what is below it and the errors of reading it.
TopDown(items) ==
    /\ items \in Seq(Item)
    /\ \A i \in DOMAIN items : IsDir(items[i]) => ~IsError(items[i])
    /\ \A i, j \in DOMAIN items : Above(items[i], items[j]) => i < j
ItemsComeTopDown == \A r \in Roots : TopDown(visit_of[r].items)

\* A visit is whole up to the first Quit, error or cancellation of any root, and over
\* soon after it.
DeliversUntilQuit == MultiTypeOK /\ ItemsComeTopDown /\ QuitStopsEveryRoot /\ VisitsAllButSkipped
=============================================================================
