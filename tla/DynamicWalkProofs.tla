------------------------- MODULE DynamicWalkProofs -------------------------
(***************************************************************************)
(* Proofs about the dynamic scheduler, for every tree, every number of     *)
(* jobs and threads and every choice of options.                           *)
(***************************************************************************)
EXTENDS DynamicWalk, FiniteSetTheorems, TLAPS

-----------------------------------------------------------------------------
(* Sequences *)

LEMMA TailFacts ==
  ASSUME NEW S, NEW q \in Seq(S), q # <<>>
  PROVE  /\ Head(q) \in S /\ Tail(q) \in Seq(S)
         /\ Len(Tail(q)) = Len(q) - 1
         /\ \A i \in DOMAIN Tail(q) : i + 1 \in DOMAIN q /\ Tail(q)[i] = q[i + 1]
         /\ DirsIn(q) = {Head(q)} \cup DirsIn(Tail(q))
<1>1. /\ Head(q) \in S /\ Tail(q) \in Seq(S)
      /\ Len(Tail(q)) = Len(q) - 1
      /\ \A i \in DOMAIN Tail(q) : i + 1 \in DOMAIN q /\ Tail(q)[i] = q[i + 1]
  OBVIOUS
<1>2. ASSUME NEW i \in DOMAIN q PROVE q[i] = Head(q) \/ \E j \in DOMAIN Tail(q) : q[i] = Tail(q)[j]
  <2>1. CASE i = 1 BY <2>1
  <2>2. CASE i # 1
    <3>1. i - 1 \in DOMAIN Tail(q) /\ Tail(q)[i - 1] = q[i] BY <2>2
    <3> QED BY <3>1
  <2> QED BY <2>1, <2>2
<1>3. 1 \in DOMAIN q /\ q[1] = Head(q) OBVIOUS
<1>4. Head(q) \in DirsIn(q) BY <1>3, Zenon DEF DirsIn
<1>5. ASSUME NEW d \in DirsIn(Tail(q)) PROVE d \in DirsIn(q)
  <2>1. PICK i \in DOMAIN Tail(q) : d = Tail(q)[i] BY <1>5, Zenon DEF DirsIn
  <2>2. i + 1 \in DOMAIN q /\ d = q[i + 1] BY <1>1, <2>1
  <2> QED BY <2>2, Zenon DEF DirsIn
<1>6. ASSUME NEW d \in DirsIn(q) PROVE d = Head(q) \/ d \in DirsIn(Tail(q))
  <2>1. PICK i \in DOMAIN q : d = q[i] BY <1>6, Zenon DEF DirsIn
  <2> QED BY <1>2, <2>1, Zenon DEF DirsIn
<1>7. DirsIn(q) = {Head(q)} \cup DirsIn(Tail(q)) BY <1>4, <1>5, <1>6, Zenon
<1> QED BY <1>1, <1>7

LEMMA ConcatFacts ==
  ASSUME NEW S, NEW q \in Seq(S), NEW r \in Seq(S)
  PROVE  /\ q \o r \in Seq(S)
         /\ \A i \in DOMAIN (q \o r) :
              \/ i \in DOMAIN q /\ (q \o r)[i] = q[i]
              \/ i - Len(q) \in DOMAIN r /\ i \notin DOMAIN q /\ (q \o r)[i] = r[i - Len(q)]
         /\ DirsIn(q \o r) = DirsIn(q) \cup DirsIn(r)
<1>1. q \o r \in Seq(S) OBVIOUS
<1>2. \A i \in DOMAIN (q \o r) :
        \/ i \in DOMAIN q /\ (q \o r)[i] = q[i]
        \/ i - Len(q) \in DOMAIN r /\ i \notin DOMAIN q /\ (q \o r)[i] = r[i - Len(q)]
  OBVIOUS
<1>3. \A i \in DOMAIN q : i \in DOMAIN (q \o r) /\ (q \o r)[i] = q[i] OBVIOUS
<1>4. \A i \in DOMAIN r : i + Len(q) \in DOMAIN (q \o r) /\ (q \o r)[i + Len(q)] = r[i] OBVIOUS
<1>5. DirsIn(q \o r) \subseteq DirsIn(q) \cup DirsIn(r) BY <1>2 DEF DirsIn
<1>6. DirsIn(q) \subseteq DirsIn(q \o r) BY <1>3, Zenon DEF DirsIn
<1>7. DirsIn(r) \subseteq DirsIn(q \o r) BY <1>4 DEF DirsIn
<1> QED BY <1>1, <1>2, <1>5, <1>6, <1>7

LEMMA PrefixFacts ==
  ASSUME NEW S, NEW q \in Seq(S), NEW k \in 0 .. Len(q)
  PROVE  /\ SubSeq(q, 1, k) \in Seq(S)
         /\ \A i \in DOMAIN SubSeq(q, 1, k) : i \in DOMAIN q /\ SubSeq(q, 1, k)[i] = q[i]
         /\ k = Len(q) => SubSeq(q, 1, k) = q
OBVIOUS


-----------------------------------------------------------------------------
(* Type correctness *)

\* A job between next_task and finish_task holds a directory.
BusyHoldsTask == \A w \in Worker : w \in Busy => task[w] \in Dir
ActiveCountsBusy == active = Cardinality(Busy)
TypeInv == TypeOK /\ BusyHoldsTask /\ ActiveCountsBusy

LEMMA WorkersFinite == \A S \in SUBSET Worker : IsFiniteSet(S) /\ Cardinality(S) \in Nat
<1>1. IsFiniteSet(Worker)
  BY FS_Interval, OptionsAssumption DEF Worker
<1> QED BY <1>1, FS_Subset, FS_CardinalityType

LEMMA AnyBusyIsActive ==
  ASSUME ActiveCountsBusy, NEW w \in Busy
  PROVE  active > 0
BY FS_EmptySet, WorkersFinite DEF ActiveCountsBusy, Busy

LEMMA EmptyReportType == EmptyReport \in TaskReport
BY DEF EmptyReport, TaskReport

LEMMA NotReturnedType == NotReturned \in Result
BY DEF NotReturned, Result, Kind

LEMMA InitType == Init => TypeInv
<1> SUFFICES ASSUME Init PROVE TypeInv
  OBVIOUS
<1>1. queue \in Seq(Dir) /\ errors \in Seq(Dir) /\ channel \in Seq(BOOLEAN)
  BY TreeAssumption DEF Init
<1>2. visited \in Nat
  BY DEF Init, CountedRoot
<1>3. pc \in [Worker -> Place] /\ Busy = {}
  BY DEF Init, Place, Busy
<1>4. report \in [Worker -> TaskReport] /\ result \in Result
  BY EmptyReportType, NotReturnedType DEF Init
<1>6. ActiveCountsBusy
  BY <1>3, FS_EmptySet DEF Init, ActiveCountsBusy
<1>5. submitted \in 0 .. WorkerCount
  BY OptionsAssumption DEF Init
<1> QED BY <1>1, <1>2, <1>3, <1>4, <1>5, <1>6 DEF Init, TypeInv, TypeOK, BusyHoldsTask

LEMMA ReturnedType ==
  ASSUME TypeOK, NEW kind \in Kind, NEW didQuit \in BOOLEAN
  PROVE  Returned(kind, didQuit) \in Result
BY DEF TypeOK, Returned, Result

\* notify_all leaves every job at a legal place.
LEMMA NotifyAllType ==
  ASSUME TypeOK, NEW w \in Worker,
         NEW next \in Place,
         NotifyAll(w, next)
  PROVE  pc' \in [Worker -> Place]
BY DEF NotifyAll, TypeOK, Place

LEMMA StepType == TypeInv /\ [Next]_vars => TypeOK'
<1> SUFFICES ASSUME TypeOK, BusyHoldsTask, ActiveCountsBusy, [Next]_vars PROVE TypeOK'
  BY DEF TypeInv
<1>1. CASE VisitRoot
  <2>1. Returned("panic", FALSE) \in Result
    BY ReturnedType DEF Kind
  <2>2. visited' \in Nat /\ handed' \subseteq HandedType /\ result' \in Result
    <3>1. CASE ~cancelled /\ RootVisible
      <4>1. visited' = 1 /\ handed' = {<<NoDir, 1>>} /\ (result' = result \/ result' = Returned("panic", FALSE))
        BY <1>1, <3>1 DEF VisitRoot, RootEntry
      <4>2. handed' \subseteq HandedType
        <5>1. <<NoDir, 1>> \in HandedType
          BY DEF HandedType
        <5> QED BY <4>1, <5>1
      <4> QED BY <4>1, <4>2, <2>1 DEF TypeOK
    <3>2. CASE ~(~cancelled /\ RootVisible)
      BY <1>1, <3>2 DEF VisitRoot, TypeOK
    <3> QED BY <3>1, <3>2
  <2>3. /\ caller' \in {"root", "descend", "submit", "drain", "collect", "returned"}
        /\ rootControl' \in {"Continue", "Skip", "Quit"}
    BY <1>1 DEF VisitRoot, TypeOK
  <2> QED BY <1>1, <2>2, <2>3 DEF VisitRoot, TypeOK, jobs
<1>2. CASE Descend
  <2>1. Returned("ok", rootControl = "Quit") \in Result
    BY ReturnedType DEF Kind
  <2> QED BY <1>2, <2>1 DEF Descend, TypeOK, shared, jobs, call, history
<1>3. CASE Submit
  BY <1>3, OptionsAssumption DEF Submit, TypeOK, Place, shared, jobs, call, history, Worker
<1>4. CASE SubmitRejected
  BY <1>4 DEF SubmitRejected, TypeOK, Place, shared, jobs, call, history
<1>5. CASE AllSubmitted
  BY <1>5 DEF AllSubmitted, TypeOK, shared, jobs, call, history
<1>6. CASE Receive
  <2>1. Head(channel) \in BOOLEAN /\ Tail(channel) \in Seq(BOOLEAN)
    BY <1>6, TailFacts DEF Receive, TypeOK
  <2>2. panicked' \in BOOLEAN /\ received' \in Nat
    <3>1. panicked' = (panicked \/ Head(channel))
      BY <1>6 DEF Receive, PanicAfter
    <3>2. panicked' \in BOOLEAN
      BY <3>1, Zenon
    <3>3. received' \in Nat
      BY <1>6 DEF Receive, TypeOK
    <3> QED BY <3>2, <3>3
  <2>3. channel' \in Seq(BOOLEAN)
    BY <1>6, <2>1 DEF Receive
  <2>4. UNCHANGED <<shared, cancelled, jobs, history, config, caller, rootControl, submitted, result>>
    BY <1>6 DEF Receive
  <2> QED BY <2>2, <2>3, <2>4 DEF TypeOK, shared, jobs, history
<1>7. CASE Drained
  <2>1. Returned("schedule_error", quit) \in Result
    BY ReturnedType DEF Kind, TypeOK
  <2> QED BY <1>7, <2>1 DEF Drained, TypeOK, shared, jobs, call, history
<1>8. CASE FinishReport
  <2>1. Outcome \in Kind
    BY DEF Outcome, Kind
  <2>2. Returned(Outcome, quit) \in Result
    BY ReturnedType, <2>1 DEF TypeOK
  <2> QED BY <1>8, <2>2 DEF FinishReport, TypeOK, shared, jobs, call, history
<1>9. CASE Cancel
  BY <1>9 DEF Cancel, TypeOK, shared, jobs, call, history
<1>10. CASE Rest \/ UNCHANGED vars
  BY <1>10 DEF Rest, TypeOK, vars, shared, jobs, call, history
<1>11. ASSUME NEW w \in Worker, Job(w) \/ SpuriousWakeup(w) PROVE TypeOK'
  <2>1. CASE Start(w)
    BY <2>1 DEF Start, TypeOK, Place, shared, jobs, call, history
  <2>2. CASE NextTask(w)
    <3>1. CASE MustStop
      BY <2>2, <3>1 DEF NextTask, TypeOK, Place, shared, jobs, call, history
    <3>2. CASE ~MustStop /\ queue # <<>>
      <4>1. ~NothingLeft(queue, active) BY <3>2 DEF NothingLeft
      <4>2. Head(queue) \in Dir /\ Tail(queue) \in Seq(Dir) BY <3>2, TailFacts DEF TypeOK
      <4>3. task' = [task EXCEPT ![w] = Head(queue)] /\ queue' = Tail(queue) /\ active' = active + 1
            /\ pc' = [pc EXCEPT ![w] = "listing"] /\ UNCHANGED stopped
        BY <2>2, <3>2, <4>1 DEF NextTask, AfterPop, Enter
      <4> QED BY <2>2, <4>2, <4>3 DEF NextTask, TypeOK, Place, shared, jobs, call, history
    <3>3. CASE ~MustStop /\ NothingLeft(queue, active)
      <4>1. queue = <<>> BY <3>3 DEF NothingLeft
      <4>2. NotifyAll(w, "exiting") /\ stopped' = TRUE /\ UNCHANGED <<queue, active, task>>
        BY <2>2, <3>3, <4>1 DEF NextTask
      <4>3. pc' \in [Worker -> Place]
        BY <4>2, NotifyAllType DEF Place
      <4> QED BY <2>2, <4>2, <4>3 DEF NextTask, TypeOK, Place, shared, jobs, call, history
    <3>4. CASE ~MustStop /\ queue = <<>> /\ ~NothingLeft(queue, active)
      BY <2>2, <3>4 DEF NextTask, TypeOK, Place, shared, jobs, call, history
    <3> QED BY <2>2, <3>1, <3>2, <3>3, <3>4 DEF NextTask
  <2>3. CASE SpuriousWakeup(w)
    BY <2>3 DEF SpuriousWakeup, TypeOK, Place, shared, jobs, call, history
  <2>4. CASE ListDirectory(w)
    <3> DEFINE d == task[w]
    <3>1. d \in Dir /\ Subdirs[d] \in Seq(Dir) /\ FileCount[d] \in Nat
      BY <2>4, TreeAssumption, OptionsAssumption DEF ListDirectory, BusyHoldsTask, Busy
    <3>2. PICK k \in 0 .. Len(Subdirs[d]), n \in 0 .. FileCount[d], failed \in BOOLEAN :
            report' = [report EXCEPT ![w] =
              [directories |-> SubSeq(Subdirs[d], 1, k),
               errors |-> IF failed THEN <<d>> ELSE <<>>,
               visited |-> IF d \in Hidden THEN 0 ELSE k + n,
               quit |-> FALSE]]
      BY <2>4, <3>1 DEF ListDirectory
    <3>3. SubSeq(Subdirs[d], 1, k) \in Seq(Dir)
      BY <3>1, PrefixFacts
    <3>4. (IF d \in Hidden THEN 0 ELSE k + n) \in Nat
      BY <3>1
    <3>5. (IF failed THEN <<d>> ELSE <<>>) \in Seq(Dir)
      BY <3>1
    <3>6. report' \in [Worker -> TaskReport]
      BY <3>2, <3>3, <3>4, <3>5 DEF TypeOK, TaskReport
    <3> QED BY <2>4, <3>6 DEF ListDirectory, TypeOK, Place, shared, jobs, call, history
  <2>5. CASE CallVisitor(w)
    <3>1. report' \in [Worker -> TaskReport]
      <4>1. CASE report' = report
        BY <4>1 DEF TypeOK
      <4>2. ASSUME NEW decision \in BOOLEAN,
                   report' = [report EXCEPT ![w] =
                     IF Streaming THEN StreamReport(report[w], decision) ELSE BatchReport(report[w], decision)]
            PROVE  report' \in [Worker -> TaskReport]
        <5>1. report[w] \in TaskReport
          BY DEF TypeOK
        <5>2. StreamReport(report[w], decision) \in TaskReport /\ BatchReport(report[w], decision) \in TaskReport
          BY <5>1 DEF TaskReport, StreamReport, BatchReport
        <5> QED BY <4>2, <5>2 DEF TypeOK
      <4> QED BY <2>5, <4>1, <4>2 DEF CallVisitor
    <3>2. pc' \in [Worker -> Place]
      BY <2>5 DEF CallVisitor, TypeOK, Place
    <3>3. task[w] \in Dir /\ report[w].visited \in Nat
      BY <2>5 DEF CallVisitor, BusyHoldsTask, Busy, TypeOK, TaskReport
    <3>4. listed' \in [Dir -> Nat]
      BY <2>5, <3>3, SMTT(30) DEF CallVisitor, TypeOK
    <3>5. handed' \subseteq HandedType
      <4>1. EntriesOf(task[w], report[w].visited) \subseteq HandedType
        BY <3>3 DEF EntriesOf, HandedType
      <4>2. handed' = handed \cup EntriesOf(task[w], report[w].visited) /\ handed \subseteq HandedType
        BY <2>5, Zenon DEF CallVisitor, TypeOK
      <4> QED BY <4>1, <4>2, Zenon
    <3> QED BY <2>5, <3>1, <3>2, <3>4, <3>5 DEF CallVisitor, TypeOK, shared, jobs, call, history
  <2>6. CASE FinishTask(w)
    <3> DEFINE r == report[w]
    <3>1. w \in Busy /\ r \in TaskReport
      BY <2>6 DEF FinishTask, Busy, TypeOK
    <3>2. active' \in Nat
      BY <2>6, <3>1, AnyBusyIsActive DEF FinishTask, TypeOK
    <3>3. errors \o r.errors \in Seq(Dir) /\ queue \o r.directories \in Seq(Dir)
      BY <3>1, ConcatFacts DEF TypeOK, TaskReport
    <3>4. errors' \in Seq(Dir) /\ queue' \in Seq(Dir)
      BY <2>6, <3>3 DEF FinishTask, KeepErrors, TypeOK
    <3>5. visited' \in Nat /\ quit' \in BOOLEAN /\ stopped' \in BOOLEAN
      BY <2>6, <3>1, SMTT(30) DEF FinishTask, CountVisited, TypeOK, TaskReport, StopAfter, NothingLeft
    <3>6. pc' \in [Worker -> Place]
      BY <2>6, NotifyAllType DEF FinishTask, Place
    <3>7. task' \in [Worker -> Dir \cup {NoDir}] /\ report' \in [Worker -> TaskReport]
      BY <2>6, EmptyReportType DEF FinishTask, TypeOK
    <3> QED BY <2>6, <3>2, <3>4, <3>5, <3>6, <3>7 DEF FinishTask, TypeOK, shared, jobs, call, history
  <2>7. CASE AbortAfterPanic(w)
    <3>1. pc' \in [Worker -> Place]
      BY <2>7, NotifyAllType DEF AbortAfterPanic, Place
    <3>2. active' \in Nat
      BY <2>7 DEF AbortAfterPanic, LeaveUnwinding, TypeOK
    <3> QED BY <2>7, <3>1, <3>2, EmptyReportType DEF AbortAfterPanic, TypeOK, shared, jobs, call, history
  <2>8. CASE SendOutcome(w)
    BY <2>8 DEF SendOutcome, TypeOK, Place, shared, jobs, call, history
  <2>9. CASE ReleaseShared(w) \/ DropSender(w)
    <3>1. pc' \in [Worker -> Place]
      BY <2>9 DEF ReleaseShared, DropSender, TypeOK, Place
    <3> QED BY <2>9, <3>1 DEF ReleaseShared, DropSender, TypeOK, shared, jobs, call, history
  <2> QED BY <1>11, <2>1, <2>2, <2>3, <2>4, <2>5, <2>6, <2>7, <2>8, <2>9 DEF Job
<1> QED BY <1>1, <1>2, <1>3, <1>4, <1>5, <1>6, <1>7, <1>8, <1>9, <1>10, <1>11 DEF Next, Caller


-----------------------------------------------------------------------------
(* The accounting of `active`, and the wakeups it justifies *)

WaitersHaveAWaker == \A w \in Worker : pc[w] = "waiting" => active > 0
SubmittedInOrder == \A w \in Worker : pc[w] = "unsubmitted" <=> w > submitted
AccountInv == TypeInv /\ WaitersHaveAWaker /\ SubmittedInOrder

\* notify_all by a job that leaves the busy part of its loop, or was not in it.
LEMMA NotifyAllFacts ==
  ASSUME TypeOK, NEW w \in Worker, NEW next \in {"next", "exiting"}, NotifyAll(w, next)
  PROVE  /\ Busy' = Busy \ {w}
         /\ \A v \in Worker : pc'[v] # "waiting"
         /\ pc'[w] = next
         /\ \A v \in Worker : v # w => pc'[v] = pc[v] \/ (pc[v] = "waiting" /\ pc'[v] = "next")
BY DEF NotifyAll, TypeOK, Busy

LEMMA BusyUnchanged ==
  ASSUME AccountInv, Busy' = Busy, UNCHANGED <<active, task>>,
         \A v \in Worker : pc'[v] = "waiting" => pc[v] = "waiting" \/ active > 0
  PROVE  BusyHoldsTask' /\ ActiveCountsBusy' /\ WaitersHaveAWaker'
BY DEF AccountInv, TypeInv, BusyHoldsTask, ActiveCountsBusy, WaitersHaveAWaker

LEMMA BusyLeaves ==
  ASSUME AccountInv, NEW w \in Busy, Busy' = Busy \ {w}, active' = active - 1,
         \A v \in Worker : v # w => task'[v] = task[v], \A v \in Worker : pc'[v] # "waiting"
  PROVE  BusyHoldsTask' /\ ActiveCountsBusy' /\ WaitersHaveAWaker'
<1>1. IsFiniteSet(Busy) BY WorkersFinite DEF Busy
<1>2. Cardinality(Busy \ {w}) = Cardinality(Busy) - 1 BY <1>1, FS_RemoveElement
<1> QED BY <1>2 DEF AccountInv, TypeInv, BusyHoldsTask, ActiveCountsBusy, WaitersHaveAWaker

LEMMA StepSubmitted == AccountInv /\ [Next]_vars => SubmittedInOrder'
<1> SUFFICES ASSUME TypeOK, SubmittedInOrder, [Next]_vars PROVE SubmittedInOrder'
  BY DEF AccountInv, TypeInv
<1>1. CASE Submit
  BY <1>1, OptionsAssumption DEF Submit, SubmittedInOrder, TypeOK, Worker
<1>2. CASE Caller /\ ~Submit
  BY <1>2 DEF Caller, VisitRoot, Descend, SubmitRejected, AllSubmitted, Receive, Drained, FinishReport,
              jobs, SubmittedInOrder, TypeOK
<1>3. CASE Cancel \/ Rest \/ UNCHANGED vars
  BY <1>3 DEF Cancel, Rest, vars, jobs, call, SubmittedInOrder
<1>4. ASSUME NEW w \in Worker, Job(w) \/ SpuriousWakeup(w) PROVE SubmittedInOrder'
  <2>1. submitted' = submitted
    BY <1>4 DEF Job, Start, SpuriousWakeup, NextTask, ListDirectory, CallVisitor, FinishTask,
                AbortAfterPanic, SendOutcome, ReleaseShared, DropSender, call
  <2>2. \A v \in Worker : pc'[v] = "unsubmitted" <=> pc[v] = "unsubmitted"
    BY <1>4 DEF Job, Start, SpuriousWakeup, NextTask, ListDirectory, CallVisitor, FinishTask,
                AbortAfterPanic, SendOutcome, ReleaseShared, DropSender, NotifyAll, TypeOK
  <2> QED BY <2>1, <2>2 DEF SubmittedInOrder
<1> QED BY <1>1, <1>2, <1>3, <1>4 DEF Next

LEMMA StepAccount == AccountInv /\ [Next]_vars => AccountInv'
<1> SUFFICES ASSUME AccountInv, [Next]_vars
             PROVE  BusyHoldsTask' /\ ActiveCountsBusy' /\ WaitersHaveAWaker'
  BY StepType, StepSubmitted DEF AccountInv, TypeInv
<1> USE DEF AccountInv, TypeInv
<1>1. CASE VisitRoot \/ Descend \/ AllSubmitted \/ Receive \/ Drained \/ FinishReport \/ Cancel \/ Rest \/ UNCHANGED vars
  <2>1. UNCHANGED <<pc, task, active>>
    BY <1>1 DEF VisitRoot, Descend, AllSubmitted, Receive, Drained, FinishReport, Cancel, Rest,
                vars, shared, jobs
  <2> QED BY <2>1, BusyUnchanged DEF Busy
<1>2. CASE Submit
  <2>1. Busy' = Busy /\ \A v \in Worker : pc'[v] = "waiting" => pc[v] = "waiting"
    BY <1>2, OptionsAssumption DEF Submit, Busy, TypeOK, SubmittedInOrder, Worker
  <2> QED BY <1>2, <2>1, BusyUnchanged DEF Submit, shared
<1>3. CASE SubmitRejected
  <2>1. Busy' = Busy /\ \A v \in Worker : pc'[v] # "waiting"
    BY <1>3 DEF SubmitRejected, Busy, TypeOK
  <2> QED BY <1>3, <2>1, BusyUnchanged DEF SubmitRejected
<1>4. ASSUME NEW w \in Worker, Job(w) \/ SpuriousWakeup(w)
      PROVE  BusyHoldsTask' /\ ActiveCountsBusy' /\ WaitersHaveAWaker'
  <2>1. CASE Start(w) \/ SpuriousWakeup(w) \/ SendOutcome(w) \/ ReleaseShared(w) \/ DropSender(w)
    <3>1. Busy' = Busy /\ UNCHANGED <<task, active>> /\ \A v \in Worker : pc'[v] = "waiting" => pc[v] = "waiting"
      BY <2>1 DEF Start, SpuriousWakeup, SendOutcome, ReleaseShared, DropSender, Busy, TypeOK, shared
    <3> QED BY <3>1, BusyUnchanged
  <2>2. CASE ListDirectory(w) \/ CallVisitor(w)
    <3>1. Busy' = Busy /\ UNCHANGED <<task, active>> /\ \A v \in Worker : pc'[v] = "waiting" => pc[v] = "waiting"
      BY <2>2 DEF ListDirectory, CallVisitor, Busy, TypeOK, shared
    <3> QED BY <3>1, BusyUnchanged
  <2>3. CASE NextTask(w)
    <3>1. CASE MustStop
      <4>1. Busy' = Busy /\ UNCHANGED <<task, active>> /\ \A v \in Worker : pc'[v] = "waiting" => pc[v] = "waiting"
        BY <2>3, <3>1 DEF NextTask, Busy, TypeOK
      <4> QED BY <4>1, BusyUnchanged
    <3>2. CASE ~MustStop /\ queue # <<>>
      <4>1. /\ task' = [task EXCEPT ![w] = Head(queue)] /\ active' = active + 1
            /\ pc' = [pc EXCEPT ![w] = "listing"] /\ pc[w] = "next"
        BY <2>3, <3>2 DEF NextTask, Enter, NothingLeft
      <4>2. Busy' = Busy \cup {w} /\ w \notin Busy
        BY <4>1 DEF Busy, TypeOK
      <4>3. Cardinality(Busy') = Cardinality(Busy) + 1
        BY <4>2, WorkersFinite, FS_AddElement DEF Busy
      <4>4. Head(queue) \in Dir
        BY <3>2, TailFacts DEF TypeOK
      <4>5. BusyHoldsTask'
        BY <4>1, <4>2, <4>4 DEF BusyHoldsTask, TypeOK
      <4> QED BY <4>1, <4>3, <4>5 DEF ActiveCountsBusy, WaitersHaveAWaker, TypeOK
    <3>3. CASE ~MustStop /\ NothingLeft(queue, active)
      <4>1. NotifyAll(w, "exiting") /\ UNCHANGED <<task, active>> /\ pc[w] = "next"
        BY <2>3, <3>3 DEF NextTask, NothingLeft
      <4>2. Busy' = Busy /\ \A v \in Worker : pc'[v] # "waiting"
        BY <4>1, NotifyAllFacts DEF Busy
      <4> QED BY <4>1, <4>2, BusyUnchanged
    <3>4. CASE ~MustStop /\ queue = <<>> /\ ~NothingLeft(queue, active)
      <4>1. pc' = [pc EXCEPT ![w] = "waiting"] /\ UNCHANGED <<task, active>> /\ pc[w] = "next"
        BY <2>3, <3>4 DEF NextTask
      <4>2. Busy' = Busy /\ active > 0
        BY <3>4, <4>1 DEF Busy, TypeOK, NothingLeft
      <4> QED BY <4>1, <4>2, BusyUnchanged
    <3> QED BY <2>3, <3>1, <3>2, <3>3, <3>4 DEF NextTask
  <2>4. CASE FinishTask(w)
    <3>1. w \in Busy /\ NotifyAll(w, "next") /\ active' = active - 1 /\ task' = [task EXCEPT ![w] = NoDir]
      BY <2>4 DEF FinishTask, Busy
    <3>2. Busy' = Busy \ {w} /\ \A v \in Worker : pc'[v] # "waiting"
      BY <3>1, NotifyAllFacts
    <3> QED BY <3>1, <3>2, BusyLeaves DEF TypeOK
  <2>5. CASE AbortAfterPanic(w)
    <3>1. w \in Busy /\ NotifyAll(w, "exiting") /\ task' = [task EXCEPT ![w] = NoDir]
      BY <2>5 DEF AbortAfterPanic, Busy
    <3>2. active' = active - 1
      BY <2>5, <3>1, AnyBusyIsActive DEF AbortAfterPanic, LeaveUnwinding
    <3>3. Busy' = Busy \ {w} /\ \A v \in Worker : pc'[v] # "waiting"
      BY <3>1, NotifyAllFacts
    <3> QED BY <3>1, <3>2, <3>3, BusyLeaves DEF TypeOK
  <2> QED BY <1>4, <2>1, <2>2, <2>3, <2>4, <2>5 DEF Job
<1> QED BY <1>1, <1>2, <1>3, <1>4 DEF Next, Caller

LEMMA InitAccount == Init => AccountInv
BY InitType DEF AccountInv, WaitersHaveAWaker, SubmittedInOrder, Init, Worker

(* The scheduler's variables keep their types; in particular `active`, decremented    *)
(* without a check in finish_task, never goes below zero.                              *)
THEOREM TypeCorrect == Spec => []TypeOK
<1>1. AccountInv => TypeOK BY DEF AccountInv, TypeInv
<1> QED BY <1>1, InitAccount, StepAccount, PTL DEF Spec

(* `active` is exactly the number of jobs between next_task and finish_task, and no    *)
(* job sleeps unless another one is active and will notify it.                         *)
THEOREM WakeupsAreNotLost == Spec => []NoLostWakeup
<1>1. AccountInv => NoLostWakeup
  BY DEF AccountInv, TypeInv, ActiveCountsBusy, WaitersHaveAWaker, NoLostWakeup, Waiting
<1> QED BY <1>1, InitAccount, StepAccount, PTL DEF Spec


-----------------------------------------------------------------------------
(* Every directory is listed at most once                                  *)
(*                                                                         *)
(* A directory is known once it is queued, held by a job or listed, and    *)
(* done once it is listed and no job holds it.  A job adds the children of *)
(* its directory when it lets go of it, so a known directory other than    *)
(* the root has a parent that is done: nobody can add it a second time.    *)

Held(d) == \E w \in Worker : w \in Busy /\ task[w] = d
Known(d) == listed[d] > 0 \/ d \in DirsIn(queue) \/ Held(d)
Done(d) == listed[d] > 0 /\ ~Held(d)

OneHolder == \A v, w \in Worker : v \in Busy /\ w \in Busy /\ task[v] = task[w] => v = w
HeldListing == \A w \in Worker : w \in Busy =>
                 listed[task[w]] = IF pc[w] \in {"listing", "visiting"} THEN 0 ELSE 1
QueueIsFresh ==
  /\ \A i, j \in DOMAIN queue : queue[i] = queue[j] => i = j
  /\ \A i \in DOMAIN queue : listed[queue[i]] = 0 /\ ~Held(queue[i])
ParentDone == \A d \in Dir : Known(d) => d = Root \/ \E p \in Dir : d \in Children(p) /\ Done(p)
ReportsChildren == \A w \in Worker : pc[w] \in {"visiting", "finishing"} =>
  \A i \in DOMAIN report[w].directories :
    i \in DOMAIN Subdirs[task[w]] /\ report[w].directories[i] = Subdirs[task[w]][i]

OnceInv == /\ OneHolder /\ HeldListing /\ QueueIsFresh /\ ParentDone /\ ReportsChildren
           /\ ListedAtMostOnce

\* A directory that is not done has no known child.
LEMMA ChildrenUnknown ==
  ASSUME ParentDone, NEW d \in Dir, ~Done(d), NEW c \in Children(d)
  PROVE  ~Known(c)
<1>1. c \in Dir /\ c # Root
  BY TreeAssumption DEF Children, DirsIn
<1>2. \A p \in Dir : c \in Children(p) => p = d
  BY TreeAssumption
<1> QED BY <1>1, <1>2 DEF ParentDone

LEMMA InitOnce == Init => OnceInv
<1> SUFFICES ASSUME Init PROVE OnceInv
  OBVIOUS
<1>1. Busy = {} /\ queue = <<Root>> /\ listed = [d \in Dir |-> 0]
  BY DEF Init, Busy
<1>2. DirsIn(queue) = {Root} /\ Root \in Dir
  BY <1>1, TreeAssumption DEF DirsIn
<1>3. \A i \in DOMAIN queue : i = 1 /\ queue[i] = Root
  BY <1>1
<1>4. \A w \in Worker : pc[w] = "unsubmitted"
  BY DEF Init
<1> QED BY <1>1, <1>2, <1>3, <1>4
        DEF OnceInv, OneHolder, HeldListing, QueueIsFresh, ParentDone, ReportsChildren,
            ListedAtMostOnce, Known, Held

\* A step that moves no directory.
LEMMA OnceUnchanged ==
  ASSUME OnceInv, Busy' = Busy, UNCHANGED <<queue, task, listed, report>>,
         \A v \in Worker : \/ pc'[v] = pc[v]
                           \/ pc'[v] \notin {"listing", "visiting", "finishing", "unwinding"}
  PROVE  OnceInv'
<1>1. \A d : (Held(d))' <=> Held(d)
  BY DEF Held
<1>2. \A d : (Known(d))' <=> Known(d)
  BY <1>1 DEF Known
<1>3. \A d : (Done(d))' <=> Done(d)
  BY <1>1 DEF Done
<1>4. OneHolder' /\ ListedAtMostOnce'
  BY DEF OnceInv, OneHolder, ListedAtMostOnce
<1>5. HeldListing' /\ ReportsChildren'
  BY DEF OnceInv, HeldListing, ReportsChildren, Busy
<1>6. QueueIsFresh' /\ ParentDone'
  BY <1>1, <1>2, <1>3 DEF OnceInv, QueueIsFresh, ParentDone
<1> QED BY <1>4, <1>5, <1>6 DEF OnceInv


\* Head(queue) leaves the queue and is held by w.
LEMMA OnceTakes ==
  ASSUME AccountInv, OnceInv, NEW w \in Worker, w \notin Busy, queue # <<>>,
         task' = [task EXCEPT ![w] = Head(queue)], queue' = Tail(queue),
         pc' = [pc EXCEPT ![w] = "listing"], UNCHANGED <<listed, report>>
  PROVE  OnceInv'
<1> USE DEF AccountInv, TypeInv
<1>1. Busy' = Busy \cup {w}
  BY DEF Busy, TypeOK
<1>2. /\ Head(queue) \in Dir /\ Head(queue) = queue[1] /\ 1 \in DOMAIN queue
      /\ \A i \in DOMAIN Tail(queue) : i + 1 \in DOMAIN queue /\ i # 0 /\ Tail(queue)[i] = queue[i + 1]
      /\ DirsIn(queue) = {Head(queue)} \cup DirsIn(Tail(queue))
  BY TailFacts DEF TypeOK
<1>3. task'[w] = Head(queue) /\ \A v \in Busy : v # w /\ task'[v] = task[v] /\ pc'[v] = pc[v]
  BY DEF TypeOK, Busy
<1>4. \A d : (Held(d))' <=> Held(d) \/ d = Head(queue)
  BY <1>1, <1>3 DEF Held, Busy
<1>5. \A d : (Known(d))' <=> Known(d)
  BY <1>2, <1>4 DEF Known
<1>6. listed[Head(queue)] = 0 /\ ~Held(Head(queue))
  BY <1>2 DEF OnceInv, QueueIsFresh
<1>7. \A d : Done(d) => (Done(d))'
  BY <1>4, <1>6 DEF Done, TypeOK
<1>8. OneHolder'
  BY <1>1, <1>3, <1>6 DEF OnceInv, OneHolder, Held, Busy
<1>9. HeldListing'
  BY <1>1, <1>3, <1>6 DEF OnceInv, HeldListing, Busy, TypeOK
<1>10. QueueIsFresh'
  <2>1. \A i \in DOMAIN Tail(queue) : queue[i + 1] # Head(queue)
    BY <1>2 DEF OnceInv, QueueIsFresh
  <2>2. \A i, j \in DOMAIN Tail(queue) : Tail(queue)[i] = Tail(queue)[j] => i = j
    <3> SUFFICES ASSUME NEW i \in DOMAIN Tail(queue), NEW j \in DOMAIN Tail(queue),
                        Tail(queue)[i] = Tail(queue)[j]
                 PROVE  i = j
      OBVIOUS
    <3>1. i + 1 = j + 1
      BY <1>2 DEF OnceInv, QueueIsFresh
    <3>2. i \in Int /\ j \in Int
      BY DEF TypeOK
    <3> QED BY <3>1, <3>2
  <2>3. \A i \in DOMAIN Tail(queue) : listed[Tail(queue)[i]] = 0 /\ ~Held(Tail(queue)[i]) /\ Tail(queue)[i] # Head(queue)
    BY <1>2, <2>1 DEF OnceInv, QueueIsFresh
  <2> QED BY <2>2, <2>3, <1>4 DEF QueueIsFresh
<1>11. ParentDone'
  BY <1>5, <1>7 DEF OnceInv, ParentDone
<1>12. ReportsChildren'
  BY <1>3 DEF OnceInv, ReportsChildren, Busy, TypeOK
<1>13. ListedAtMostOnce'
  BY DEF OnceInv, ListedAtMostOnce
<1> QED BY <1>8, <1>9, <1>10, <1>11, <1>12, <1>13 DEF OnceInv

\* w lets go of its directory; the queue keeps its tasks and may gain the reported children.
LEMMA OnceReleases ==
  ASSUME AccountInv, OnceInv, NEW w \in Worker, pc[w] \in {"finishing", "unwinding"},
         Busy' = Busy \ {w}, \A v \in Worker : v # w => task'[v] = task[v] /\ report'[v] = report[v],
         \A v \in Worker : v # w => pc'[v] = pc[v] \/ pc'[v] \notin {"listing", "visiting", "finishing", "unwinding"},
         pc'[w] \notin {"listing", "visiting", "finishing", "unwinding"},
         listed' = listed,
         \/ queue' = queue
         \/ pc[w] = "finishing" /\ queue' = queue \o report[w].directories
  PROVE  OnceInv'
<1> USE DEF AccountInv, TypeInv
<1> DEFINE d0 == task[w]
           r == report[w].directories
<1>1. w \in Busy /\ d0 \in Dir /\ listed[d0] = 1 /\ Held(d0)
  BY DEF Busy, BusyHoldsTask, OnceInv, HeldListing, Held
<1>2. \A d : (Held(d))' <=> Held(d) /\ d # d0
  BY <1>1 DEF Held, OnceInv, OneHolder, Busy
<1>3. \A d \in Dir : (Done(d))' <=> Done(d) \/ d = d0
  BY <1>1, <1>2 DEF Done
<1>4. OneHolder' /\ ListedAtMostOnce'
  BY DEF OnceInv, OneHolder, ListedAtMostOnce, Busy
<1>5. HeldListing'
  BY DEF OnceInv, HeldListing, Busy
<1>6. ReportsChildren'
  BY DEF OnceInv, ReportsChildren
<1>7. CASE queue' = queue
  <2>1. QueueIsFresh'
    BY <1>2, <1>7 DEF OnceInv, QueueIsFresh
  <2>2. \A d : (Known(d))' <=> Known(d)
    BY <1>1, <1>2, <1>7 DEF Known
  <2>3. ParentDone'
    BY <1>3, <2>2 DEF OnceInv, ParentDone
  <2> QED BY <1>4, <1>5, <1>6, <2>1, <2>3 DEF OnceInv
<1>8. CASE pc[w] = "finishing" /\ queue' = queue \o r
  <2>1. queue \in Seq(Dir) /\ r \in Seq(Dir)
    BY DEF TypeOK, TaskReport
  <2>2. /\ \A i \in DOMAIN (queue \o r) :
              \/ i \in DOMAIN queue /\ (queue \o r)[i] = queue[i]
              \/ i - Len(queue) \in DOMAIN r /\ i \notin DOMAIN queue /\ (queue \o r)[i] = r[i - Len(queue)]
        /\ DirsIn(queue \o r) = DirsIn(queue) \cup DirsIn(r)
    BY <2>1, ConcatFacts
  <2>3. \A i \in DOMAIN r : i \in DOMAIN Subdirs[d0] /\ r[i] = Subdirs[d0][i]
    BY <1>8 DEF OnceInv, ReportsChildren
  <2>4. ~Done(d0)
    BY <1>1 DEF Done
  <2>5. \A i \in DOMAIN r : r[i] \in Children(d0)
    BY <2>3 DEF Children, DirsIn
  <2>6. \A i \in DOMAIN r : ~Known(r[i])
    BY <1>1, <2>4, <2>5, ChildrenUnknown DEF OnceInv
  <2>7. \A i, j \in DOMAIN r : r[i] = r[j] => i = j
    BY <1>1, <2>3, TreeAssumption
  <2>8. \A i \in DOMAIN r : listed[r[i]] = 0 /\ ~Held(r[i]) /\ \A j \in DOMAIN queue : queue[j] # r[i]
    <3> SUFFICES ASSUME NEW i \in DOMAIN r
                 PROVE  listed[r[i]] = 0 /\ ~Held(r[i]) /\ \A j \in DOMAIN queue : queue[j] # r[i]
      OBVIOUS
    <3>1. r[i] \in Dir /\ listed[r[i]] \in Nat
      BY <2>1 DEF TypeOK
    <3> QED BY <2>6, <3>1 DEF Known, DirsIn
  <2>9. QueueIsFresh'
    <3>1. \A i, j \in DOMAIN (queue \o r) : (queue \o r)[i] = (queue \o r)[j] => i = j
      <4> SUFFICES ASSUME NEW i \in DOMAIN (queue \o r), NEW j \in DOMAIN (queue \o r),
                          (queue \o r)[i] = (queue \o r)[j]
                   PROVE  i = j
        OBVIOUS
      <4>1. i \in Int /\ j \in Int /\ Len(queue) \in Int
        BY <2>1
      <4>2. CASE i \in DOMAIN queue /\ j \in DOMAIN queue
        BY <2>2, <4>2 DEF OnceInv, QueueIsFresh
      <4>3. CASE i \notin DOMAIN queue /\ j \notin DOMAIN queue
        <5>1. i - Len(queue) = j - Len(queue)
          BY <2>2, <2>7, <4>3
        <5> QED BY <4>1, <5>1
      <4>4. CASE (i \in DOMAIN queue) # (j \in DOMAIN queue)
        BY <2>2, <2>8, <4>4
      <4> QED BY <4>2, <4>3, <4>4
    <3>2. \A i \in DOMAIN (queue \o r) : listed[(queue \o r)[i]] = 0 /\ ~Held((queue \o r)[i])
      BY <2>2, <2>8 DEF OnceInv, QueueIsFresh
    <3> QED BY <1>2, <1>8, <3>1, <3>2 DEF QueueIsFresh
  <2>10. \A d \in Dir : (Known(d))' => Known(d) \/ d \in Children(d0)
    BY <1>2, <1>8, <2>2, <2>5 DEF Known, DirsIn
  <2>11. ParentDone'
    BY <1>1, <1>3, <2>10 DEF OnceInv, ParentDone
  <2> QED BY <1>4, <1>5, <1>6, <2>9, <2>11 DEF OnceInv
<1> QED BY <1>7, <1>8


\* w lists its directory: the report holds a prefix of its children.
LEMMA OnceLists ==
  ASSUME AccountInv, OnceInv, NEW w \in Worker, ListDirectory(w)
  PROVE  OnceInv'
<1> USE DEF AccountInv, TypeInv
<1> DEFINE d0 == task[w]
<1>1. w \in Busy /\ Busy' = Busy /\ UNCHANGED <<queue, task, listed>>
  BY DEF ListDirectory, Busy, TypeOK, shared, history
<1>2. PICK k \in 0 .. Len(Subdirs[d0]) : report'[w].directories = SubSeq(Subdirs[d0], 1, k)
  BY DEF ListDirectory, TypeOK
<1>3. d0 \in Dir /\ Subdirs[d0] \in Seq(Dir)
  BY <1>1, TreeAssumption DEF BusyHoldsTask
<1>4. \A i \in DOMAIN report'[w].directories :
        i \in DOMAIN Subdirs[d0] /\ report'[w].directories[i] = Subdirs[d0][i]
  BY <1>2, <1>3, PrefixFacts
<1>5. /\ pc' = [pc EXCEPT ![w] = "visiting"] /\ pc[w] = "listing"
      /\ \A v \in Worker : v # w => report'[v] = report[v]
  BY DEF ListDirectory, TypeOK
<1>6. ReportsChildren'
  BY <1>1, <1>4, <1>5 DEF OnceInv, ReportsChildren, TypeOK
<1>7. HeldListing'
  BY <1>1, <1>5 DEF OnceInv, HeldListing, TypeOK
<1>8. \A d : ((Held(d))' <=> Held(d)) /\ ((Known(d))' <=> Known(d)) /\ ((Done(d))' <=> Done(d))
  BY <1>1 DEF Held, Known, Done
<1>9. OneHolder' /\ ListedAtMostOnce' /\ QueueIsFresh' /\ ParentDone'
  BY <1>1, <1>8 DEF OnceInv, OneHolder, ListedAtMostOnce, QueueIsFresh, ParentDone
<1> QED BY <1>6, <1>7, <1>9 DEF OnceInv

\* w gives its listing to the visitor.
LEMMA OnceVisits ==
  ASSUME AccountInv, OnceInv, NEW w \in Worker, CallVisitor(w)
  PROVE  OnceInv'
<1> USE DEF AccountInv, TypeInv
<1> DEFINE d0 == task[w]
<1>1. /\ w \in Busy /\ pc[w] = "visiting" /\ UNCHANGED <<queue, task>>
      /\ \E p \in {"finishing", "unwinding"} : pc' = [pc EXCEPT ![w] = p]
      /\ listed' = [listed EXCEPT ![d0] = @ + 1]
  BY DEF CallVisitor, Busy, shared
<1>2. d0 \in Dir /\ Held(d0) /\ listed[d0] = 0
  BY <1>1 DEF BusyHoldsTask, Held, OnceInv, HeldListing
<1>3. Busy' = Busy
  BY <1>1 DEF Busy, TypeOK
<1>4. /\ \A v \in Worker : v # w => report'[v] = report[v]
      /\ \/ report'[w].directories = <<>>
         \/ report'[w].directories = report[w].directories
  BY DEF CallVisitor, TypeOK, StreamReport, BatchReport
<1>5. ReportsChildren'
  BY <1>1, <1>4 DEF OnceInv, ReportsChildren, TypeOK
<1>6. \A d : (Held(d))' <=> Held(d)
  BY <1>1, <1>3 DEF Held
<1>7. \A d \in Dir : listed'[d] = IF d = d0 THEN 1 ELSE listed[d]
  BY <1>1, <1>2 DEF TypeOK
<1>8. \A d \in Dir : ((Known(d))' <=> Known(d)) /\ ((Done(d))' <=> Done(d))
  BY <1>1, <1>2, <1>6, <1>7 DEF Known, Done
<1>9. OneHolder' /\ ParentDone' /\ ListedAtMostOnce'
  BY <1>1, <1>3, <1>7, <1>8 DEF OnceInv, OneHolder, ParentDone, ListedAtMostOnce
<1>10. HeldListing'
  <2> SUFFICES ASSUME NEW v \in Worker, v \in Busy
               PROVE  listed'[task[v]] = IF pc'[v] \in {"listing", "visiting"} THEN 0 ELSE 1
    BY <1>1, <1>3 DEF HeldListing
  <2>1. task[v] \in Dir
    BY DEF BusyHoldsTask
  <2>2. CASE v = w
    BY <1>1, <1>7, <2>1, <2>2 DEF TypeOK
  <2>3. CASE v # w
    <3>1. task[v] # d0
      BY <1>1, <2>3 DEF OnceInv, OneHolder
    <3> QED BY <1>1, <1>7, <2>1, <2>3, <3>1 DEF OnceInv, HeldListing, TypeOK
  <2> QED BY <2>2, <2>3
<1>11. QueueIsFresh'
  <2>1. \A i \in DOMAIN queue : queue[i] \in Dir /\ queue[i] # d0
    BY <1>2 DEF OnceInv, QueueIsFresh, TypeOK
  <2> QED BY <1>1, <1>6, <1>7, <2>1 DEF OnceInv, QueueIsFresh
<1> QED BY <1>5, <1>9, <1>10, <1>11 DEF OnceInv

LEMMA StepOnce == AccountInv /\ OnceInv /\ [Next]_vars => OnceInv'
<1> SUFFICES ASSUME AccountInv, OnceInv, [Next]_vars PROVE OnceInv'
  OBVIOUS
<1> USE DEF AccountInv, TypeInv
<1>1. CASE (Caller /\ ~Submit) \/ Cancel \/ Rest \/ UNCHANGED vars
  <2>1. /\ UNCHANGED <<queue, task, listed, report>>
        /\ \A v \in Worker : pc'[v] = pc[v] \/ (pc[v] = "waiting" /\ pc'[v] = "next")
    BY <1>1 DEF Caller, VisitRoot, Descend, SubmitRejected, AllSubmitted, Receive, Drained, FinishReport,
                Cancel, Rest, vars, shared, jobs, history, TypeOK
  <2>2. Busy' = Busy
    BY <2>1 DEF Busy
  <2> QED BY <2>1, <2>2, OnceUnchanged
<1>2. CASE Submit
  <2>1. submitted + 1 \in Worker /\ pc[submitted + 1] = "unsubmitted"
    BY <1>2, OptionsAssumption DEF Submit, Worker, TypeOK, SubmittedInOrder
  <2>2. Busy' = Busy
    BY <1>2, <2>1 DEF Submit, Busy, TypeOK
  <2> QED BY <1>2, <2>2, OnceUnchanged DEF Submit, shared, history, TypeOK
<1>3. ASSUME NEW w \in Worker, Job(w) \/ SpuriousWakeup(w) PROVE OnceInv'
  <2>1. CASE Start(w) \/ SpuriousWakeup(w) \/ SendOutcome(w) \/ ReleaseShared(w) \/ DropSender(w)
    <3>1. Busy' = Busy /\ UNCHANGED <<queue, task, listed, report>>
      BY <2>1 DEF Start, SpuriousWakeup, SendOutcome, ReleaseShared, DropSender, Busy, TypeOK, shared, history
    <3>2. \A v \in Worker : pc'[v] = pc[v] \/ pc'[v] \notin {"listing", "visiting", "finishing", "unwinding"}
      BY <2>1 DEF Start, SpuriousWakeup, SendOutcome, ReleaseShared, DropSender, TypeOK
    <3> QED BY <3>1, <3>2, OnceUnchanged
  <2>2. CASE NextTask(w) /\ queue # <<>> /\ ~MustStop
    BY <2>2, OnceTakes DEF NextTask, AfterPop, NothingLeft, Busy, history
  <2>3. CASE NextTask(w) /\ ~(queue # <<>> /\ ~MustStop)
    <3>1. UNCHANGED <<queue, task, listed, report>> /\ pc[w] = "next"
      BY <2>3 DEF NextTask, NothingLeft, history
    <3>2. \/ pc' = [pc EXCEPT ![w] = "exiting"]
          \/ pc' = [pc EXCEPT ![w] = "waiting"]
          \/ NotifyAll(w, "exiting")
      BY <2>3 DEF NextTask
    <3>3. \A v \in Worker : pc'[v] = pc[v] \/ (pc[v] \in {"waiting", "next"} /\ pc'[v] \in {"next", "exiting", "waiting"})
      BY <3>1, <3>2 DEF NotifyAll, TypeOK
    <3>4. Busy' = Busy
      BY <3>3 DEF Busy
    <3> QED BY <3>1, <3>3, <3>4, OnceUnchanged
  <2>4. CASE ListDirectory(w)
    BY <2>4, OnceLists
  <2>5. CASE CallVisitor(w)
    BY <2>5, OnceVisits
  <2>6. CASE FinishTask(w) \/ AbortAfterPanic(w)
    <3>1. PICK next \in {"next", "exiting"} : NotifyAll(w, next)
      BY <2>6 DEF FinishTask, AbortAfterPanic
    <3>2. /\ Busy' = Busy \ {w} /\ pc'[w] \in {"next", "exiting"}
          /\ \A v \in Worker : v # w => pc'[v] = pc[v] \/ (pc[v] = "waiting" /\ pc'[v] = "next")
      BY <3>1, NotifyAllFacts
    <3>3. /\ listed' = listed
          /\ \A v \in Worker : v # w => task'[v] = task[v] /\ report'[v] = report[v]
      BY <2>6 DEF FinishTask, AbortAfterPanic, history, TypeOK
    <3>4. /\ pc[w] \in {"finishing", "unwinding"}
          /\ \/ queue' = queue
             \/ pc[w] = "finishing" /\ queue' = queue \o report[w].directories
      BY <2>6 DEF FinishTask, AbortAfterPanic
    <3> QED BY <3>2, <3>3, <3>4, OnceReleases
  <2> QED BY <1>3, <2>1, <2>2, <2>3, <2>4, <2>5, <2>6 DEF Job
<1> QED BY <1>1, <1>2, <1>3 DEF Next

(* However jobs, cancellations and panics interleave, no directory is listed twice. *)
THEOREM ListedOnce == Spec => []ListedAtMostOnce
<1>1. OnceInv => ListedAtMostOnce BY DEF OnceInv
<1> QED BY <1>1, InitAccount, StepAccount, InitOnce, StepOnce, PTL DEF Spec


-----------------------------------------------------------------------------
(* A complete report means that every directory was listed                 *)
(*                                                                         *)
(* As long as nothing interferes, the children of a done directory are     *)
(* known.  When the workers stop without interference nothing is queued or *)
(* held, so what is known is listed: a set that holds the root and is      *)
(* closed under Children, which is the whole tree.                         *)

Clean == ~cancelled /\ ~quit /\ (AbortPolicy => errors = <<>>)

ReportsAllChildren == \A w \in Worker :
  /\ ~cancelled
  /\ pc[w] = "visiting" \/ (pc[w] = "finishing" /\ ~report[w].quit)
  => report[w].directories = Subdirs[task[w]]
Covered == Clean => Known(Root) /\ \A p \in Dir : Done(p) => \A c \in Children(p) : Known(c)
CleanStop == Clean /\ stopped => active = 0 /\ queue = <<>>
ExitsStopped == \A w \in Worker : pc[w] \in {"exiting", "sent", "released", "done"} => stopped \/ cancelled
ResultIsFaithful == /\ caller # "returned" => result.kind = "none"
                    /\ CompleteMeansAllListed

CoverInv == ReportsAllChildren /\ Covered /\ CleanStop /\ ExitsStopped /\ ResultIsFaithful

LEMMA InitCover == Init => CoverInv
<1> SUFFICES ASSUME Init PROVE CoverInv
  OBVIOUS
<1>1. queue = <<Root>> /\ queue[1] = Root /\ 1 \in DOMAIN queue
  BY DEF Init
<1>2. Known(Root)
  BY <1>1 DEF Known, DirsIn
<1>3. \A p \in Dir : ~Done(p)
  BY DEF Init, Done
<1> QED BY <1>2, <1>3
        DEF Init, CoverInv, ReportsAllChildren, Covered, CleanStop, ExitsStopped, ResultIsFaithful,
            CompleteMeansAllListed, Complete, NotReturned

\* A step that moves no directory and lifts no interference.
LEMMA CoverUnchanged ==
  ASSUME CoverInv, ResultIsFaithful', Busy' = Busy, UNCHANGED <<queue, task, listed, report, active>>,
         Clean' => Clean, cancelled => cancelled',
         \A v \in Worker : \/ pc'[v] = pc[v]
                           \/ pc'[v] \notin {"listing", "visiting", "finishing", "unwinding"},
         Clean' /\ stopped' => stopped \/ (active = 0 /\ queue = <<>>),
         \A v \in Worker : pc'[v] \in {"exiting", "sent", "released", "done"} => stopped' \/ cancelled'
  PROVE  CoverInv'
<1>1. \A d : (Held(d))' <=> Held(d)
  BY DEF Held
<1>2. \A d : ((Known(d))' <=> Known(d)) /\ ((Done(d))' <=> Done(d))
  BY <1>1 DEF Known, Done
<1>3. Covered'
  BY <1>2 DEF CoverInv, Covered
<1>4. ReportsAllChildren' /\ CleanStop' /\ ExitsStopped'
  BY DEF CoverInv, ReportsAllChildren, CleanStop, ExitsStopped
<1> QED BY <1>3, <1>4 DEF CoverInv

\* The report is filed once, by the caller; what was listed stays listed.
LEMMA ResultStays ==
  ASSUME AccountInv, OnceInv, ResultIsFaithful, UNCHANGED <<caller, rootControl, result>>,
         listed' = listed
         \/ \E w \in Worker : w \in Busy /\ listed[task[w]] = 0 /\ listed' = [listed EXCEPT ![task[w]] = @ + 1]
  PROVE  ResultIsFaithful'
<1>1. Complete' <=> Complete
  BY DEF Complete
<1>2. ASSUME NEW w \in Worker, w \in Busy, listed[task[w]] = 0 PROVE ~ \A d \in Dir : listed[d] = 1
  BY <1>2 DEF AccountInv, TypeInv, BusyHoldsTask
<1> QED BY <1>1, <1>2 DEF ResultIsFaithful, CompleteMeansAllListed

LEMMA FinishIsFaithful ==
  ASSUME AccountInv, OnceInv, CoverInv, FinishReport
  PROVE  ResultIsFaithful'
<1> USE DEF AccountInv, TypeInv
<1> SUFFICES ASSUME Complete', NEW d \in Dir PROVE listed[d] = 1
  BY DEF ResultIsFaithful, CompleteMeansAllListed, FinishReport, history
<1>1. /\ result' = Returned(Outcome, quit) /\ caller = "collect"
      /\ \A w \in Worker : pc[w] = "done"
  BY DEF FinishReport, SendersGone
<1>2. Outcome = "ok" /\ ~quit /\ ~cancelled
  BY <1>1 DEF Complete, Returned
<1>3. Clean
  BY <1>2 DEF Outcome, Clean, TypeOK
<1>4. stopped
  <2>1. 1 \in Worker
    BY OptionsAssumption DEF Worker
  <2> QED BY <1>1, <1>2, <2>1 DEF CoverInv, ExitsStopped
<1>5. queue = <<>> /\ Busy = {}
  BY <1>1, <1>3, <1>4 DEF CoverInv, CleanStop, Busy
<1>6. \A e : Known(e) => listed[e] > 0 /\ Done(e)
  BY <1>5 DEF Known, Done, Held, DirsIn
<1> DEFINE S == {e \in Dir : listed[e] > 0}
<1>7. Root \in S
  BY <1>3, <1>6, TreeAssumption DEF CoverInv, Covered
<1>8. ASSUME NEW e \in S, NEW c \in Children(e) PROVE c \in S
  <2>1. Done(e)
    BY <1>5 DEF Done, Held
  <2>2. Known(c)
    BY <1>3, <2>1 DEF CoverInv, Covered
  <2>3. c \in Dir
    BY TreeAssumption DEF Children, DirsIn
  <2> QED BY <1>6, <2>2, <2>3
<1>9. S = Dir
  <2>1. S \in SUBSET Dir /\ \A e \in S : Children(e) \subseteq S
    BY <1>8
  <2> QED BY <1>7, <2>1, TreeAssumption
<1> QED BY <1>9 DEF OnceInv, ListedAtMostOnce, TypeOK


LEMMA CallerIsFaithful ==
  ASSUME AccountInv, OnceInv, CoverInv, Caller
  PROVE  ResultIsFaithful'
<1> USE DEF AccountInv, TypeInv
<1>1. CASE VisitRoot
  <2>1. result.kind = "none" /\ (result' = result \/ result' = Returned("panic", FALSE))
    BY <1>1 DEF VisitRoot, CoverInv, ResultIsFaithful
  <2>2. caller' # "returned" => result' = result
    BY <1>1 DEF VisitRoot
  <2> QED BY <2>1, <2>2 DEF ResultIsFaithful, CompleteMeansAllListed, Complete, Returned
<1>2. CASE Descend
  <2>1. CASE ~cancelled /\ rootControl = "Continue"
    BY <1>2, <2>1 DEF Descend, CoverInv, ResultIsFaithful, CompleteMeansAllListed, Complete
  <2>2. CASE ~(~cancelled /\ rootControl = "Continue")
    <3>1. /\ result' = Returned("ok", rootControl = "Quit") /\ caller' = "returned"
          /\ rootControl' = rootControl
      BY <1>2, <2>2 DEF Descend
    <3> QED BY <2>2, <3>1 DEF ResultIsFaithful, CompleteMeansAllListed, Complete, Returned
  <2> QED BY <2>1, <2>2
<1>3. CASE Submit \/ SubmitRejected \/ AllSubmitted \/ Receive
  <2>1. result' = result /\ result.kind = "none" /\ caller' # "returned"
    BY <1>3 DEF Submit, SubmitRejected, AllSubmitted, Receive, CoverInv, ResultIsFaithful
  <2> QED BY <2>1 DEF ResultIsFaithful, CompleteMeansAllListed, Complete
<1>4. CASE Drained
  BY <1>4 DEF Drained, Returned, ResultIsFaithful, CompleteMeansAllListed, Complete
<1>5. CASE FinishReport
  BY <1>5, FinishIsFaithful
<1> QED BY <1>1, <1>2, <1>3, <1>4, <1>5 DEF Caller

\* The options of the call stay what they are.
LEMMA PolicyIsFixed == ASSUME [Next]_vars PROVE AbortPolicy' = AbortPolicy
<1>1. config' = config
  BY DEF Next, Caller, VisitRoot, Descend, Submit, SubmitRejected, AllSubmitted, Receive, Drained, FinishReport,
         Cancel, Rest, Job, SpuriousWakeup, Start, NextTask, ListDirectory, CallVisitor, FinishTask,
         AbortAfterPanic, SendOutcome, ReleaseShared, DropSender, vars, call
<1> QED BY <1>1 DEF AbortPolicy

\* w lets go of its directory after its children were queued, or with an interference.
LEMMA CoverReleases ==
  ASSUME AccountInv, OnceInv, CoverInv, NEW w \in Worker, FinishTask(w) \/ AbortAfterPanic(w)
  PROVE  CoverInv'
<1> USE DEF AccountInv, TypeInv
<1> DEFINE d0 == task[w]
           r == report[w]
<1>1. PICK next \in {"next", "exiting"} : NotifyAll(w, next)
  BY DEF FinishTask, AbortAfterPanic
<1>2. /\ Busy' = Busy \ {w} /\ pc'[w] = next
      /\ \A v \in Worker : v # w => pc'[v] = pc[v] \/ (pc[v] = "waiting" /\ pc'[v] = "next")
  BY <1>1, NotifyAllFacts
<1>3. /\ UNCHANGED <<listed, cancelled, caller, rootControl, result>>
      /\ \A v \in Worker : v # w => task'[v] = task[v] /\ report'[v] = report[v]
  BY DEF FinishTask, AbortAfterPanic, call, history, TypeOK
<1>4. w \in Busy /\ active > 0 /\ d0 \in Dir /\ listed[d0] = 1
  <2>1. w \in Busy /\ pc[w] \in {"finishing", "unwinding"}
    BY DEF FinishTask, AbortAfterPanic, Busy
  <2> QED BY <2>1, AnyBusyIsActive DEF BusyHoldsTask, OnceInv, HeldListing
<1>5. \A d : (Held(d))' <=> Held(d) /\ d # d0
  BY <1>2, <1>3, <1>4 DEF Held, OnceInv, OneHolder, Busy
<1>6. ReportsAllChildren'
  BY <1>2, <1>3 DEF CoverInv, ReportsAllChildren
<1>7. ResultIsFaithful'
  BY <1>3, ResultStays DEF CoverInv
<1>8. stopped => stopped'
  BY DEF FinishTask, AbortAfterPanic, StopAfter
<1>9. ExitsStopped'
  <2>1. next = "exiting" => stopped'
    BY <1>1, <1>2 DEF FinishTask, AbortAfterPanic, NotifyAll, TypeOK
  <2> QED BY <1>2, <1>3, <1>8, <2>1 DEF CoverInv, ExitsStopped
<1>10. CASE AbortAfterPanic(w)
  <2>1. ~Clean'
    BY <1>10 DEF AbortAfterPanic, Clean
  <2> QED BY <1>6, <1>7, <1>9, <2>1 DEF CoverInv, Covered, CleanStop
<1>11. CASE FinishTask(w)
  <2>1. Clean' => Clean /\ ~r.quit /\ (AbortPolicy => r.errors = <<>>)
    <3> SUFFICES ASSUME Clean' PROVE Clean /\ ~r.quit /\ (AbortPolicy => r.errors = <<>>)
      OBVIOUS
    <3>1. ~cancelled /\ ~quit /\ ~r.quit
      <4>1. quit' = (quit \/ r.quit)
        BY <1>11 DEF FinishTask
      <4>2. ~quit' /\ ~cancelled'
        BY DEF Clean
      <4>3. ~quit /\ ~r.quit
        BY <4>1, <4>2, Zenon
      <4> QED BY <1>3, <4>2, <4>3
    <3>2. ASSUME AbortPolicy PROVE errors = <<>> /\ r.errors = <<>>
      <4>0. AbortPolicy'
        BY <1>11, <3>2 DEF AbortPolicy, FinishTask, call
      <4>1. errors \in Seq(Dir) /\ r.errors \in Seq(Dir) /\ errors \o r.errors = <<>>
        BY <1>11, <4>0 DEF Clean, FinishTask, KeepErrors, TypeOK, TaskReport
      <4>2. Len(errors \o r.errors) = Len(errors) + Len(r.errors) /\ Len(errors) \in Nat /\ Len(r.errors) \in Nat
        BY <4>1
      <4>3. Len(errors) = 0 /\ Len(r.errors) = 0
        BY <4>1, <4>2
      <4> QED BY <4>1, <4>3
    <3> QED BY <3>1, <3>2 DEF Clean
  <2>2. Clean' => ~stopped /\ ~StopAfter(r)
    <3>1. Clean' => ~stopped
      BY <1>4, <2>1 DEF CoverInv, CleanStop
    <3> QED BY <2>1, <3>1 DEF Clean, StopAfter
  <2>3. Clean' => /\ queue' = queue \o Subdirs[d0]
                  /\ (stopped' => active' = 0 /\ queue' = <<>>)
    <3> SUFFICES ASSUME Clean' PROVE queue' = queue \o Subdirs[d0] /\ (stopped' => active' = 0 /\ queue' = <<>>)
      OBVIOUS
    <3>1. r.directories = Subdirs[d0]
      BY <1>11, <2>1 DEF FinishTask, CoverInv, ReportsAllChildren, Clean
    <3> QED BY <1>11, <2>2, <3>1 DEF FinishTask, NothingLeft
  <2>4. CleanStop'
    BY <2>3 DEF CleanStop
  <2>5. Covered'
    <3> SUFFICES ASSUME Clean' PROVE (Known(Root))' /\ \A p \in Dir : (Done(p))' => \A c \in Children(p) : (Known(c))'
      BY DEF Covered
    <3>1. queue \in Seq(Dir) /\ Subdirs[d0] \in Seq(Dir)
      BY <1>4, TreeAssumption DEF TypeOK
    <3>2. DirsIn(queue') = DirsIn(queue) \cup Children(d0)
      BY <2>3, <3>1, ConcatFacts DEF Children
    <3>3. \A d : Known(d) \/ d \in Children(d0) => (Known(d))'
      BY <1>3, <1>4, <1>5, <3>2 DEF Known
    <3>4. \A d : (Done(d))' => Done(d) \/ d = d0
      BY <1>3, <1>5 DEF Done
    <3>5. Known(Root) /\ \A p \in Dir : Done(p) => \A c \in Children(p) : Known(c)
      BY <2>1 DEF CoverInv, Covered
    <3> QED BY <3>3, <3>4, <3>5
  <2> QED BY <1>6, <1>7, <1>9, <2>4, <2>5 DEF CoverInv
<1> QED BY <1>10, <1>11


LEMMA StepCover == AccountInv /\ OnceInv /\ CoverInv /\ [Next]_vars => CoverInv'
<1> SUFFICES ASSUME AccountInv, OnceInv, CoverInv, [Next]_vars PROVE CoverInv'
  OBVIOUS
<1> USE DEF AccountInv, TypeInv
<1>0. AbortPolicy' = AbortPolicy
  BY PolicyIsFixed
<1>1. CASE Caller
  <2>1. ResultIsFaithful'
    BY <1>1, CallerIsFaithful
  <2>2. UNCHANGED <<queue, task, listed, report, active, cancelled, errors>>
    BY <1>1 DEF Caller, VisitRoot, Descend, Submit, SubmitRejected, AllSubmitted, Receive, Drained,
                FinishReport, shared, jobs, history
  <2>3. \A v \in Worker : pc'[v] = pc[v] \/ (pc[v] \in {"waiting", "unsubmitted"} /\ pc'[v] \in {"next", "submitted"})
    <3>1. CASE Submit
      <4>1. submitted + 1 \in Worker /\ pc[submitted + 1] = "unsubmitted"
        BY <3>1, OptionsAssumption DEF Submit, Worker, TypeOK, SubmittedInOrder
      <4> QED BY <3>1, <4>1 DEF Submit, TypeOK
    <3>2. CASE ~Submit
      BY <1>1, <3>2 DEF Caller, VisitRoot, Descend, SubmitRejected, AllSubmitted, Receive, Drained,
                        FinishReport, jobs, TypeOK
    <3> QED BY <3>1, <3>2
  <2>4. Busy' = Busy
    BY <2>3 DEF Busy
  <2>5. UNCHANGED <<stopped, quit>> \/ (stopped' = TRUE /\ quit' = TRUE)
    BY <1>1 DEF Caller, VisitRoot, Descend, Submit, SubmitRejected, AllSubmitted, Receive, Drained,
                FinishReport, shared
  <2>6. /\ Clean' => Clean
        /\ Clean' /\ stopped' => stopped
        /\ stopped => stopped'
    BY <1>0, <2>2, <2>5 DEF Clean
  <2>7. \A v \in Worker : pc'[v] \in {"exiting", "sent", "released", "done"} => stopped' \/ cancelled'
    BY <2>2, <2>3, <2>6 DEF CoverInv, ExitsStopped
  <2> QED BY <2>1, <2>2, <2>3, <2>4, <2>6, <2>7, CoverUnchanged
<1>2. CASE Cancel \/ Rest \/ UNCHANGED vars
  <2>1. /\ UNCHANGED <<queue, task, listed, report, active, pc, stopped, quit, errors, caller, rootControl, result>>
        /\ cancelled => cancelled'
    BY <1>2 DEF Cancel, Rest, vars, shared, jobs, call, history
  <2>2. ResultIsFaithful'
    BY <2>1, ResultStays DEF CoverInv
  <2>3. Clean' => Clean
    BY <1>0, <2>1 DEF Clean
  <2>4. Busy' = Busy
    BY <2>1 DEF Busy
  <2>5. \A v \in Worker : pc'[v] \in {"exiting", "sent", "released", "done"} => stopped' \/ cancelled'
    BY <2>1 DEF CoverInv, ExitsStopped
  <2> QED BY <2>1, <2>2, <2>3, <2>4, <2>5, CoverUnchanged
<1>3. ASSUME NEW w \in Worker, Job(w) \/ SpuriousWakeup(w) PROVE CoverInv'
  <2>1. CASE Start(w) \/ SpuriousWakeup(w) \/ SendOutcome(w) \/ ReleaseShared(w) \/ DropSender(w)
    <3>1. UNCHANGED <<queue, task, listed, report, active, stopped, quit, errors, cancelled, caller, rootControl, result>>
      BY <2>1 DEF Start, SpuriousWakeup, SendOutcome, ReleaseShared, DropSender, shared, call, history
    <3>2. \A v \in Worker : \/ pc'[v] = pc[v]
                            \/ pc[v] \in {"submitted", "waiting"} /\ pc'[v] = "next"
                            \/ pc[v] \in {"exiting", "sent", "released"} /\ pc'[v] \in {"sent", "released", "done"}
      BY <2>1 DEF Start, SpuriousWakeup, SendOutcome, ReleaseShared, DropSender, TypeOK
    <3>3. ResultIsFaithful'
      BY <3>1, ResultStays DEF CoverInv
    <3>4. (Clean' <=> Clean) /\ Busy' = Busy
      BY <1>0, <3>1, <3>2 DEF Clean, Busy
    <3>5. \A v \in Worker : pc'[v] \in {"exiting", "sent", "released", "done"} => stopped' \/ cancelled'
      BY <3>1, <3>2 DEF CoverInv, ExitsStopped
    <3> QED BY <3>1, <3>2, <3>3, <3>4, <3>5, CoverUnchanged
  <2>2. CASE NextTask(w) /\ queue # <<>> /\ ~MustStop
    <3>1. /\ task' = [task EXCEPT ![w] = Head(queue)] /\ queue' = Tail(queue) /\ active' = active + 1
          /\ pc' = [pc EXCEPT ![w] = "listing"] /\ pc[w] = "next" /\ ~stopped
          /\ UNCHANGED <<stopped, quit, errors, cancelled, listed, report, caller, rootControl, result>>
      BY <2>2 DEF NextTask, AfterPop, Enter, NothingLeft, MustStop, call, history
    <3>2. Busy' = Busy \cup {w} /\ w \notin Busy
      BY <3>1 DEF Busy, TypeOK
    <3>3. DirsIn(queue) = {Head(queue)} \cup DirsIn(queue')
      BY <2>2, <3>1, TailFacts DEF TypeOK
    <3>4. \A d : (Held(d))' <=> Held(d) \/ d = Head(queue)
      BY <3>1, <3>2 DEF Held, Busy, TypeOK
    <3>5. \A d : ((Known(d))' <=> Known(d)) /\ ((Done(d))' => Done(d))
      BY <3>1, <3>3, <3>4 DEF Known, Done
    <3>6. Covered'
      BY <1>0, <3>1, <3>5 DEF CoverInv, Covered, Clean
    <3>7. ReportsAllChildren' /\ ExitsStopped'
      BY <3>1 DEF CoverInv, ReportsAllChildren, ExitsStopped, TypeOK
    <3>8. CleanStop'
      BY <1>0, <3>1 DEF CleanStop
    <3>9. ResultIsFaithful'
      BY <3>1, ResultStays DEF CoverInv
    <3> QED BY <3>6, <3>7, <3>8, <3>9 DEF CoverInv
  <2>3. CASE NextTask(w) /\ ~(queue # <<>> /\ ~MustStop)
    <3>1. /\ pc[w] = "next"
          /\ UNCHANGED <<queue, task, listed, report, active, quit, errors, cancelled, caller, rootControl, result>>
          /\ \/ UNCHANGED stopped /\ MustStop /\ pc' = [pc EXCEPT ![w] = "exiting"]
             \/ UNCHANGED stopped /\ pc' = [pc EXCEPT ![w] = "waiting"]
             \/ stopped' = TRUE /\ active = 0 /\ queue = <<>> /\ NotifyAll(w, "exiting")
      BY <2>3 DEF NextTask, NothingLeft, call, history
    <3>2. \A v \in Worker : pc'[v] = pc[v] \/ (pc[v] \in {"waiting", "next"} /\ pc'[v] \in {"next", "exiting", "waiting"})
      BY <3>1 DEF NotifyAll, TypeOK
    <3>3. (Clean' <=> Clean) /\ Busy' = Busy
      BY <1>0, <3>1, <3>2 DEF Clean, Busy
    <3>4. ResultIsFaithful'
      BY <3>1, ResultStays DEF CoverInv
    <3>5. \A v \in Worker : pc'[v] \in {"exiting", "sent", "released", "done"} => stopped' \/ cancelled'
      BY <3>1 DEF CoverInv, ExitsStopped, NotifyAll, MustStop, TypeOK
    <3> QED BY <3>1, <3>2, <3>3, <3>4, <3>5, CoverUnchanged
  <2>4. CASE ListDirectory(w)
    <3>1. /\ UNCHANGED <<queue, active, stopped, quit, errors, cancelled, task, listed, caller, rootControl, result>>
          /\ pc[w] = "listing" /\ pc' = [pc EXCEPT ![w] = "visiting"]
          /\ \A v \in Worker : v # w => report'[v] = report[v]
      BY <2>4 DEF ListDirectory, shared, call, history, TypeOK
    <3>2. task[w] \in Dir /\ Subdirs[task[w]] \in Seq(Dir)
      BY <3>1, TreeAssumption DEF BusyHoldsTask, Busy
    <3>3. ~cancelled => report'[w].directories = Subdirs[task[w]]
      BY <2>4, <3>2, PrefixFacts DEF ListDirectory, TypeOK
    <3>4. ReportsAllChildren'
      BY <3>1, <3>3 DEF CoverInv, ReportsAllChildren, TypeOK
    <3>5. Busy' = Busy /\ (Clean' <=> Clean)
      BY <1>0, <3>1 DEF Busy, Clean, TypeOK
    <3>6. \A d : ((Held(d))' <=> Held(d)) /\ ((Known(d))' <=> Known(d)) /\ ((Done(d))' <=> Done(d))
      BY <3>1, <3>5 DEF Held, Known, Done
    <3>7. Covered' /\ CleanStop' /\ ExitsStopped'
      BY <3>1, <3>5, <3>6 DEF CoverInv, Covered, CleanStop, ExitsStopped, TypeOK
    <3>8. ResultIsFaithful'
      BY <3>1, ResultStays DEF CoverInv
    <3> QED BY <3>4, <3>7, <3>8 DEF CoverInv
  <2>5. CASE CallVisitor(w)
    <3>1. /\ UNCHANGED <<queue, active, stopped, quit, errors, cancelled, task, caller, rootControl, result>>
          /\ pc[w] = "visiting" /\ \E p \in {"finishing", "unwinding"} : pc' = [pc EXCEPT ![w] = p]
          /\ listed' = [listed EXCEPT ![task[w]] = @ + 1]
          /\ \A v \in Worker : v # w => report'[v] = report[v]
      BY <2>5 DEF CallVisitor, shared, call, TypeOK
    <3>2. w \in Busy /\ task[w] \in Dir /\ Held(task[w]) /\ listed[task[w]] = 0
      BY <3>1 DEF Busy, BusyHoldsTask, Held, OnceInv, HeldListing
    <3>3. pc'[w] = "finishing" /\ ~report'[w].quit => report'[w].directories = report[w].directories
      <4> SUFFICES ASSUME pc'[w] = "finishing", ~report'[w].quit
                   PROVE  report'[w].directories = report[w].directories
        OBVIOUS
      <4>1. PICK decision \in BOOLEAN :
              report' = [report EXCEPT ![w] =
                IF Streaming THEN StreamReport(report[w], decision) ELSE BatchReport(report[w], decision)]
        BY <2>5 DEF CallVisitor, TypeOK
      <4>2. CASE Streaming
        BY <4>1, <4>2 DEF StreamReport, TypeOK
      <4>3. CASE ~Streaming
        <5>1. report'[w] = BatchReport(report[w], decision)
          BY <4>1, <4>3 DEF TypeOK
        <5>2. report'[w].quit = (decision \/ (AbortPolicy /\ report[w].errors # <<>>))
          BY <5>1 DEF BatchReport
        <5>3. ~decision
          BY <5>2, Zenon
        <5> QED BY <5>1, <5>3 DEF BatchReport
      <4> QED BY <4>2, <4>3
    <3>4. ReportsAllChildren'
      BY <3>1, <3>3 DEF CoverInv, ReportsAllChildren, TypeOK
    <3>5. Busy' = Busy /\ (Clean' <=> Clean)
      BY <1>0, <3>1 DEF Busy, Clean, TypeOK
    <3>6. \A d : (Held(d))' <=> Held(d)
      BY <3>1, <3>5 DEF Held
    <3>7. \A d \in Dir : ((Known(d))' <=> Known(d)) /\ ((Done(d))' <=> Done(d))
      BY <3>1, <3>2, <3>6 DEF Known, Done, TypeOK
    <3>8. \A p \in Dir : Children(p) \subseteq Dir
      BY TreeAssumption DEF Children, DirsIn
    <3>9. Covered'
      BY <3>5, <3>7, <3>8, TreeAssumption DEF CoverInv, Covered
    <3>10. CleanStop' /\ ExitsStopped'
      BY <3>1, <3>5 DEF CoverInv, CleanStop, ExitsStopped, TypeOK
    <3>11. ResultIsFaithful'
      BY <3>1, <3>2, ResultStays DEF CoverInv
    <3> QED BY <3>4, <3>9, <3>10, <3>11 DEF CoverInv
  <2>6. CASE FinishTask(w) \/ AbortAfterPanic(w)
    BY <2>6, CoverReleases
  <2> QED BY <1>3, <2>1, <2>2, <2>3, <2>4, <2>5, <2>6 DEF Job
<1> QED BY <1>1, <1>2, <1>3 DEF Next

(* A call that reports neither quit nor cancellation nor error has listed the whole   *)
(* tree, whatever its shape and however many jobs and threads walked it.               *)
THEOREM CompleteReport == Spec => []CompleteMeansAllListed
<1>1. CoverInv => CompleteMeansAllListed BY DEF CoverInv, ResultIsFaithful
<1> QED BY <1>1, InitAccount, StepAccount, InitOnce, StepOnce, InitCover, StepCover, PTL DEF Spec


-----------------------------------------------------------------------------
(* No visit after the return                                               *)
(*                                                                         *)
(* Every outcome in the channel or received stands for one job that is     *)
(* over.  The drain loop of a rejected submission has received as many     *)
(* outcomes as jobs were accepted, so all of them are over.                *)

Over == {w \in Worker : pc[w] \in {"sent", "released", "done"}}
OutcomesCountOver == Cardinality(Over) = received + Len(channel)
NothingSubmittedYet == caller \in {"root", "descend"} => submitted = 0
ReturnedMeansOver == caller = "returned" => \A w \in Worker : w \in Over \/ pc[w] = "unsubmitted"
ReturnInv == OutcomesCountOver /\ NothingSubmittedYet /\ ReturnedMeansOver

LEMMA InitReturn == Init => ReturnInv
<1> SUFFICES ASSUME Init PROVE ReturnInv
  OBVIOUS
<1>1. Over = {}
  BY DEF Init, Over
<1> QED BY <1>1, FS_EmptySet DEF Init, ReturnInv, OutcomesCountOver, NothingSubmittedYet, ReturnedMeansOver

LEMMA AllReceivedMeansOver ==
  ASSUME AccountInv, ReturnInv, received = submitted, NEW w \in Worker
  PROVE  w \in Over \/ pc[w] = "unsubmitted"
<1> USE DEF AccountInv, TypeInv
<1>1. Over \subseteq 1 .. submitted
  BY DEF Over, SubmittedInOrder, TypeOK, Worker
<1>2. IsFiniteSet(1 .. submitted) /\ Cardinality(1 .. submitted) = submitted
  BY FS_Interval DEF TypeOK
<1>3. Cardinality(Over) <= submitted /\ (submitted = Cardinality(Over) => Over = 1 .. submitted)
  BY <1>1, <1>2, FS_Subset
<1>4. Len(channel) \in Nat /\ received \in Nat
  BY DEF TypeOK
<1>5. Over = 1 .. submitted
  BY <1>3, <1>4 DEF ReturnInv, OutcomesCountOver
<1> QED BY <1>5 DEF SubmittedInOrder, TypeOK, Worker

LEMMA StepReturn == AccountInv /\ ReturnInv /\ [Next]_vars => ReturnInv'
<1> SUFFICES ASSUME AccountInv, ReturnInv, [Next]_vars PROVE ReturnInv'
  OBVIOUS
<1> USE DEF AccountInv, TypeInv
<1>1. CASE VisitRoot \/ Descend \/ AllSubmitted \/ Drained \/ FinishReport
  <2>1. UNCHANGED <<pc, channel, submitted, received>>
    BY <1>1 DEF VisitRoot, Descend, AllSubmitted, Drained, FinishReport, jobs
  <2>2. OutcomesCountOver'
    BY <2>1 DEF ReturnInv, OutcomesCountOver, Over
  <2>3. NothingSubmittedYet'
    BY <1>1, <2>1 DEF VisitRoot, Descend, AllSubmitted, Drained, FinishReport, ReturnInv, NothingSubmittedYet
  <2>4. ReturnedMeansOver'
    <3>1. CASE VisitRoot \/ Descend
      <4>1. \A w \in Worker : pc[w] = "unsubmitted"
        <5>1. submitted = 0
          BY <3>1 DEF VisitRoot, Descend, ReturnInv, NothingSubmittedYet
        <5>2. \A w \in Worker : w > 0
          BY OptionsAssumption DEF Worker
        <5> QED BY <5>1, <5>2 DEF SubmittedInOrder
      <4> QED BY <2>1, <4>1 DEF ReturnedMeansOver
    <3>2. CASE AllSubmitted
      BY <3>2 DEF AllSubmitted, ReturnedMeansOver
    <3>3. CASE Drained
      BY <2>1, <3>3, AllReceivedMeansOver DEF Drained, MustDrain, ReturnedMeansOver, Over
    <3>4. CASE FinishReport
      BY <2>1, <3>4 DEF FinishReport, SendersGone, ReturnedMeansOver, Over
    <3> QED BY <1>1, <3>1, <3>2, <3>3, <3>4
  <2> QED BY <2>2, <2>3, <2>4 DEF ReturnInv
<1>2. CASE Submit \/ SubmitRejected
  <2>1. /\ caller = "submit" /\ caller' \in {"submit", "drain"} /\ UNCHANGED <<channel, received>>
    BY <1>2 DEF Submit, SubmitRejected
  <2>2. Over' = Over
    BY <1>2, OptionsAssumption, SMTT(30) DEF Submit, SubmitRejected, Over, TypeOK, SubmittedInOrder, Worker
  <2> QED BY <2>1, <2>2 DEF ReturnInv, OutcomesCountOver, NothingSubmittedYet, ReturnedMeansOver
<1>3. CASE Receive
  <2>1. Len(channel') = Len(channel) - 1 /\ Len(channel) \in Nat /\ received' = received + 1
        /\ UNCHANGED <<pc, caller, submitted>> /\ caller # "returned"
    BY <1>3, TailFacts DEF Receive, TypeOK, jobs
  <2> QED BY <2>1 DEF ReturnInv, OutcomesCountOver, NothingSubmittedYet, ReturnedMeansOver, Over, TypeOK
<1>4. CASE Cancel \/ Rest \/ UNCHANGED vars
  BY <1>4 DEF Cancel, Rest, vars, jobs, call, ReturnInv, OutcomesCountOver, NothingSubmittedYet, ReturnedMeansOver, Over
<1>5. ASSUME NEW w \in Worker, Job(w) \/ SpuriousWakeup(w) PROVE ReturnInv'
  <2>1. UNCHANGED <<caller, submitted, received>> /\ pc[w] # "unsubmitted"
    BY <1>5 DEF Job, Start, SpuriousWakeup, NextTask, ListDirectory, CallVisitor, FinishTask,
                AbortAfterPanic, SendOutcome, ReleaseShared, DropSender, call
  <2>2. CASE SendOutcome(w)
    <3>1. Over' = Over \cup {w} /\ w \notin Over /\ Len(channel') = Len(channel) + 1
      BY <2>2 DEF SendOutcome, Over, TypeOK
    <3>2. Cardinality(Over') = Cardinality(Over) + 1
      BY <3>1, WorkersFinite, FS_AddElement DEF Over
    <3>3. Len(channel) \in Nat
      BY DEF TypeOK
    <3>4. OutcomesCountOver'
      BY <2>1, <3>1, <3>2, <3>3 DEF ReturnInv, OutcomesCountOver, TypeOK
    <3> QED BY <2>1, <2>2, <3>4 DEF SendOutcome, ReturnInv, NothingSubmittedYet, ReturnedMeansOver, Over, TypeOK
  <2>3. CASE ~SendOutcome(w)
    <3>1. channel' = channel
      BY <1>5, <2>3 DEF Job, Start, SpuriousWakeup, NextTask, ListDirectory, CallVisitor, FinishTask,
                        AbortAfterPanic, ReleaseShared, DropSender
    <3>2. Over' = Over /\ \A v \in Worker : pc'[v] = "unsubmitted" <=> pc[v] = "unsubmitted"
      BY <1>5, <2>3 DEF Job, Start, SpuriousWakeup, NextTask, ListDirectory, CallVisitor, FinishTask,
                        AbortAfterPanic, ReleaseShared, DropSender, NotifyAll, TypeOK, Over
    <3> QED BY <2>1, <3>1, <3>2 DEF ReturnInv, OutcomesCountOver, NothingSubmittedYet, ReturnedMeansOver
  <2> QED BY <2>2, <2>3
<1> QED BY <1>1, <1>2, <1>3, <1>4, <1>5 DEF Next, Caller

(* When the call returns, by any path (a rejected job and a panic included), no job   *)
(* can call the visitor any more.                                                      *)
THEOREM VisitsEndBeforeReturn == Spec => []NoVisitAfterReturn
<1>1. ReturnInv => NoVisitAfterReturn
  BY DEF ReturnInv, ReturnedMeansOver, NoVisitAfterReturn, Over, Busy
<1> QED BY <1>1, InitAccount, StepAccount, InitReturn, StepReturn, PTL DEF Spec


-----------------------------------------------------------------------------
(* The report is what the jobs did                                         *)
(*                                                                         *)
(* Three accounts, kept up to the moment the report is filed: what the     *)
(* visitor was given is counted, or in the hands of a job that will count  *)
(* it; every error of a done directory is in the list, once; every panic   *)
(* has been received, or waits in the channel, or in its job.              *)

EntryDir(e) == e[1]
InHand(d) == \E w \in Worker : pc[w] \in {"finishing", "unwinding"} /\ task[w] = d
Counted == {e \in handed : ~InHand(EntryDir(e))}
GivenFrom(d) == {e \in handed : EntryDir(e) = d}

HandedIsListed == \A e \in handed : EntryDir(e) = NoDir \/ listed[EntryDir(e)] > 0
InHandIsReported ==
  \A w \in Worker : pc[w] = "finishing" => GivenFrom(task[w]) = EntriesOf(task[w], report[w].visited)
NothingGivenYet ==
  caller = "root" => handed = {} /\ visited = CountedRoot
VisitedIsCounted ==
  caller # "root" /\ crashed = {} /\ ~(Streaming /\ cancelled) => visited = Cardinality(Counted)
HandedInv == /\ IsFiniteSet(handed) /\ HandedIsListed /\ InHandIsReported
             /\ NothingGivenYet /\ VisitedIsCounted

LEMMA InitHanded == Init => HandedInv
BY FS_EmptySet
   DEF Init, HandedInv, HandedIsListed, InHandIsReported, NothingGivenYet, VisitedIsCounted

LEMMA EntriesCount ==
  ASSUME NEW d, NEW n \in Nat
  PROVE  /\ IsFiniteSet(EntriesOf(d, n)) /\ Cardinality(EntriesOf(d, n)) = n
         /\ \A e \in EntriesOf(d, n) : EntryDir(e) = d
<1>1. IsFiniteSet({d}) /\ Cardinality({d}) = 1
  BY FS_Singleton
<1>2. IsFiniteSet(1 .. n) /\ Cardinality(1 .. n) = n
  BY FS_Interval
<1>3. IsFiniteSet({d} \X (1 .. n)) /\ Cardinality({d} \X (1 .. n)) = 1 * n
  <2> DEFINE one == {d}
             numbers == 1 .. n
  <2>1. IsFiniteSet(one) /\ IsFiniteSet(numbers)
    BY <1>1, <1>2
  <2> HIDE DEF one, numbers
  <2>2. IsFiniteSet(one \X numbers) /\ Cardinality(one \X numbers) = Cardinality(one) * Cardinality(numbers)
    BY <2>1, FS_Product
  <2> QED BY <1>1, <1>2, <2>2 DEF one, numbers
<1>4. \A e \in {d} \X (1 .. n) : e[1] = d
  OBVIOUS
<1>5. 1 * n = n
  OBVIOUS
<1> QED BY <1>3, <1>4, <1>5, Zenon DEF EntriesOf, EntryDir

\* A step that counts nothing and hands nothing to the visitor.
LEMMA HandedUnchanged ==
  ASSUME HandedInv, UNCHANGED <<handed, listed, visited, crashed, config>>, cancelled => cancelled',
         caller' = "root" <=> caller = "root",
         \A w \in Worker : /\ pc'[w] = "finishing" <=> pc[w] = "finishing"
                           /\ pc'[w] = "unwinding" <=> pc[w] = "unwinding"
                           /\ pc[w] \in {"finishing", "unwinding"} => task'[w] = task[w] /\ report'[w] = report[w]
  PROVE  HandedInv'
<1>1. \A d : (InHand(d))' <=> InHand(d)
  BY DEF InHand
<1>2. Counted' = Counted
  BY <1>1 DEF Counted, EntryDir
<1>3. HandedIsListed' /\ IsFiniteSet(handed')
  BY DEF HandedInv, HandedIsListed, EntryDir
<1>4. InHandIsReported'
  BY DEF HandedInv, InHandIsReported, GivenFrom, EntryDir
<1>5. NothingGivenYet' /\ VisitedIsCounted'
  BY <1>2 DEF HandedInv, NothingGivenYet, VisitedIsCounted, CountedRoot, Streaming, RootVisible
<1> QED BY <1>3, <1>4, <1>5 DEF HandedInv

LEMMA VisitorIsHanded ==
  ASSUME AccountInv, OnceInv, HandedInv, NEW w \in Worker, CallVisitor(w), caller # "root"
  PROVE  HandedInv'
<1> USE DEF AccountInv, TypeInv
<1> DEFINE d0 == task[w]
           n == report[w].visited
<1>1. /\ pc[w] = "visiting" /\ \E p \in {"finishing", "unwinding"} : pc' = [pc EXCEPT ![w] = p]
      /\ listed' = [listed EXCEPT ![d0] = @ + 1] /\ handed' = handed \cup EntriesOf(d0, n)
      /\ UNCHANGED <<visited, crashed, task, cancelled, caller, config>>
      /\ \A v \in Worker : v # w => report'[v] = report[v]
  BY DEF CallVisitor, shared, call, TypeOK
<1>2. w \in Busy /\ d0 \in Dir /\ listed[d0] = 0 /\ n \in Nat
  BY <1>1 DEF Busy, BusyHoldsTask, OnceInv, HeldListing, TypeOK, TaskReport
<1>3. report'[w].visited = n
  BY DEF CallVisitor, TypeOK, StreamReport, BatchReport, TaskReport
<1>4. GivenFrom(d0) = {}
  BY <1>2, TreeAssumption DEF HandedInv, HandedIsListed, GivenFrom
<1>5. IsFiniteSet(EntriesOf(d0, n)) /\ \A e \in EntriesOf(d0, n) : EntryDir(e) = d0
  BY <1>2, EntriesCount
<1>6. \A v \in Worker : v # w /\ v \in Busy => task[v] # d0
  BY <1>2 DEF OnceInv, OneHolder
<1>7. \A d : (InHand(d))' <=> InHand(d) \/ d = d0
  <2>1. pc'[w] \in {"finishing", "unwinding"} /\ \A v \in Worker : v # w => pc'[v] = pc[v]
    BY <1>1 DEF TypeOK
  <2> QED BY <1>1, <2>1 DEF InHand
<1>8. Counted' = Counted
  <2>1. \A e \in handed : EntryDir(e) # d0
    BY <1>4 DEF GivenFrom
  <2> QED BY <1>1, <1>5, <1>7, <2>1 DEF Counted
<1>9. IsFiniteSet(handed')
  BY <1>1, <1>5, FS_Union DEF HandedInv
<1>10. HandedIsListed'
  <2>1. listed'[d0] = 1 /\ \A d \in Dir : d # d0 => listed'[d] = listed[d]
    BY <1>1, <1>2 DEF TypeOK
  <2>2. \A e \in handed : EntryDir(e) = NoDir \/ EntryDir(e) \in Dir
    <3>1. \A e \in HandedType : e[1] \in Dir \cup {NoDir}
      BY DEF HandedType
    <3> QED BY <3>1, Zenon DEF TypeOK, EntryDir
  <2> QED BY <1>1, <1>5, <2>1, <2>2 DEF HandedInv, HandedIsListed
<1>11. InHandIsReported'
  <2> SUFFICES ASSUME NEW v \in Worker, pc'[v] = "finishing"
               PROVE  (GivenFrom(task[v]) = EntriesOf(task[v], report[v].visited))'
    BY DEF InHandIsReported
  <2>1. CASE v = w
    <3>1. (GivenFrom(d0))' = EntriesOf(d0, n)
      BY <1>1, <1>4, <1>5 DEF GivenFrom
    <3> QED BY <1>1, <1>3, <2>1, <3>1
  <2>2. CASE v # w
    <3>1. pc[v] = "finishing" /\ task'[v] = task[v] /\ report'[v] = report[v] /\ task[v] # d0
      BY <1>1, <1>6, <2>2 DEF TypeOK, Busy
    <3>2. (GivenFrom(task[v]))' = GivenFrom(task[v])
      BY <1>1, <1>5, <3>1 DEF GivenFrom
    <3> QED BY <3>1, <3>2 DEF HandedInv, InHandIsReported
  <2> QED BY <2>1, <2>2
<1>12. NothingGivenYet' /\ VisitedIsCounted'
  BY <1>1, <1>8 DEF HandedInv, NothingGivenYet, VisitedIsCounted, Streaming
<1> QED BY <1>9, <1>10, <1>11, <1>12 DEF HandedInv

LEMMA FinishIsCounted ==
  ASSUME AccountInv, OnceInv, HandedInv, NEW w \in Worker, FinishTask(w), caller # "root"
  PROVE  HandedInv'
<1> USE DEF AccountInv, TypeInv
<1> DEFINE d0 == task[w]
           n == report[w].visited
<1>1. /\ pc[w] = "finishing" /\ visited' = visited + n
      /\ UNCHANGED <<handed, listed, crashed, cancelled, caller, config>>
      /\ \A v \in Worker : v # w => task'[v] = task[v] /\ report'[v] = report[v]
  BY DEF FinishTask, CountVisited, call, history, TypeOK
<1>2. /\ pc'[w] = "next"
      /\ \A v \in Worker : v # w => pc'[v] = pc[v] \/ (pc[v] = "waiting" /\ pc'[v] = "next")
  BY DEF FinishTask, NotifyAll, TypeOK
<1>3. w \in Busy /\ d0 \in Dir /\ n \in Nat
  BY <1>1 DEF Busy, BusyHoldsTask, TypeOK, TaskReport
<1>4. \A v \in Worker : v # w /\ v \in Busy => task[v] # d0
  BY <1>3 DEF OnceInv, OneHolder
<1>5. InHand(d0) /\ \A d : (InHand(d))' <=> InHand(d) /\ d # d0
  BY <1>1, <1>2, <1>4 DEF InHand, Busy
<1>6. GivenFrom(d0) = EntriesOf(d0, n)
  BY <1>1 DEF HandedInv, InHandIsReported
<1>7. Counted' = Counted \cup EntriesOf(d0, n) /\ Counted \cap EntriesOf(d0, n) = {}
  BY <1>1, <1>5, <1>6 DEF Counted, GivenFrom
<1>8. IsFiniteSet(Counted) /\ IsFiniteSet(EntriesOf(d0, n)) /\ Cardinality(EntriesOf(d0, n)) = n
  BY <1>3, EntriesCount, FS_Subset DEF HandedInv, Counted
<1>9. Cardinality(Counted') = Cardinality(Counted) + n
  <2>1. Cardinality(Counted') = Cardinality(Counted) + n - Cardinality({})
    BY <1>7, <1>8, FS_Union
  <2> QED BY <1>8, <2>1, FS_EmptySet, FS_CardinalityType
<1>10. VisitedIsCounted'
  BY <1>1, <1>9 DEF HandedInv, VisitedIsCounted, Streaming
<1>11. InHandIsReported'
  BY <1>1, <1>2 DEF HandedInv, InHandIsReported, GivenFrom
<1>12. IsFiniteSet(handed') /\ HandedIsListed' /\ NothingGivenYet'
  BY <1>1 DEF HandedInv, HandedIsListed, NothingGivenYet
<1> QED BY <1>10, <1>11, <1>12 DEF HandedInv

LEMMA StepHanded ==
  AccountInv /\ OnceInv /\ ReturnInv /\ HandedInv /\ [Next]_vars => HandedInv'
<1> SUFFICES ASSUME AccountInv, OnceInv, ReturnInv, HandedInv, [Next]_vars PROVE HandedInv'
  OBVIOUS
<1> USE DEF AccountInv, TypeInv
<1>1. CASE VisitRoot
  <2>1. /\ \A w \in Worker : pc[w] = "unsubmitted"
        /\ handed = {} /\ visited = CountedRoot /\ caller = "root"
    <3>1. submitted = 0 /\ caller = "root"
      BY <1>1 DEF VisitRoot, ReturnInv, NothingSubmittedYet
    <3>2. \A w \in Worker : w > 0
      BY OptionsAssumption DEF Worker
    <3> QED BY <3>1, <3>2 DEF SubmittedInOrder, HandedInv, NothingGivenYet
  <2>2. UNCHANGED <<pc, task, report, crashed, listed, cancelled, config>> /\ caller' # "root"
    BY <1>1 DEF VisitRoot, jobs
  <2>3. Counted' = handed'
    BY <2>1, <2>2 DEF Counted, InHand
  <2>4. CASE ~cancelled /\ RootVisible
    <3>1. visited' = 1 /\ handed' = {RootEntry}
      BY <1>1, <2>4 DEF VisitRoot
    <3>2. IsFiniteSet(handed') /\ Cardinality(handed') = 1
      BY <3>1, FS_Singleton
    <3>3. EntryDir(RootEntry) = NoDir
      BY DEF EntryDir, RootEntry
    <3> QED BY <2>1, <2>2, <2>3, <3>1, <3>2, <3>3
            DEF HandedInv, HandedIsListed, InHandIsReported, NothingGivenYet, VisitedIsCounted
  <2>5. CASE ~(~cancelled /\ RootVisible)
    <3>1. UNCHANGED <<visited, handed>>
      BY <1>1, <2>5 DEF VisitRoot
    <3>2. ~(Streaming /\ cancelled) => visited = 0
      BY <2>1, <2>5 DEF CountedRoot
    <3> QED BY <2>1, <2>2, <2>3, <3>1, <3>2, FS_EmptySet
            DEF HandedInv, HandedIsListed, InHandIsReported, NothingGivenYet, VisitedIsCounted,
                Streaming
  <2> QED BY <2>4, <2>5
<1>2. CASE (Caller /\ ~VisitRoot) \/ Cancel \/ Rest \/ UNCHANGED vars
  <2>1. CASE Submit
    <3>1. submitted + 1 \in Worker /\ pc[submitted + 1] = "unsubmitted"
      BY <2>1, OptionsAssumption DEF Submit, Worker, TypeOK, SubmittedInOrder
    <3>2. \A w \in Worker : pc'[w] = pc[w] \/ (pc[w] = "unsubmitted" /\ pc'[w] = "submitted")
      BY <2>1, <3>1 DEF Submit, TypeOK
    <3>3. UNCHANGED <<handed, listed, visited, crashed, config, cancelled, caller, task, report>>
      BY <2>1 DEF Submit, shared, history
    <3> QED BY <3>2, <3>3, HandedUnchanged
  <2>2. CASE ~Submit
    <3>1. \A w \in Worker : pc'[w] = pc[w] \/ (pc[w] = "waiting" /\ pc'[w] = "next")
      BY <1>2, <2>2 DEF Caller, Descend, SubmitRejected, AllSubmitted, Receive, Drained, FinishReport,
                        Cancel, Rest, vars, jobs, TypeOK
    <3>2. UNCHANGED <<handed, listed, visited, crashed, config, task, report>>
      BY <1>2, <2>2 DEF Caller, Descend, SubmitRejected, AllSubmitted, Receive, Drained, FinishReport,
                        Cancel, Rest, vars, shared, jobs, call, history
    <3>3. (caller' = "root" <=> caller = "root") /\ (cancelled => cancelled')
      BY <1>2, <2>2 DEF Caller, Descend, SubmitRejected, AllSubmitted, Receive, Drained, FinishReport,
                        Cancel, Rest, vars, call
    <3> QED BY <3>1, <3>2, <3>3, HandedUnchanged
  <2> QED BY <2>1, <2>2
<1>3. ASSUME NEW w \in Worker, Job(w) \/ SpuriousWakeup(w) PROVE HandedInv'
  <2>0. caller # "root"
    <3>1. caller = "root" => submitted = 0
      BY DEF ReturnInv, NothingSubmittedYet
    <3>2. w > 0 /\ pc[w] # "unsubmitted"
      BY <1>3, OptionsAssumption DEF Worker, Job, SpuriousWakeup, Start, NextTask, ListDirectory, CallVisitor,
         FinishTask, AbortAfterPanic, SendOutcome, ReleaseShared, DropSender
    <3> QED BY <3>1, <3>2 DEF SubmittedInOrder
  <2>9. UNCHANGED <<caller, config>>
    BY <1>3 DEF Job, Start, SpuriousWakeup, NextTask, ListDirectory, CallVisitor, FinishTask,
                AbortAfterPanic, SendOutcome, ReleaseShared, DropSender, call
  <2>1. CASE Start(w) \/ SpuriousWakeup(w) \/ SendOutcome(w) \/ ReleaseShared(w) \/ DropSender(w)
    <3>1. \A v \in Worker : pc'[v] = pc[v] \/ (v = w /\ {pc[v], pc'[v]} \cap {"finishing", "unwinding"} = {})
      BY <2>1 DEF Start, SpuriousWakeup, SendOutcome, ReleaseShared, DropSender, TypeOK
    <3>2. UNCHANGED <<handed, listed, visited, crashed, task, report, cancelled>>
      BY <2>1 DEF Start, SpuriousWakeup, SendOutcome, ReleaseShared, DropSender, shared, history
    <3> QED BY <2>9, <3>1, <3>2, HandedUnchanged
  <2>2. CASE NextTask(w)
    <3>1. /\ pc[w] = "next"
          /\ \/ pc' = [pc EXCEPT ![w] = "exiting"]
             \/ pc' = [pc EXCEPT ![w] = "waiting"]
             \/ pc' = [pc EXCEPT ![w] = "listing"]
             \/ NotifyAll(w, "exiting")
      BY <2>2 DEF NextTask
    <3>2. \A v \in Worker : pc'[v] = pc[v] \/ {pc[v], pc'[v]} \cap {"finishing", "unwinding"} = {}
      BY <3>1 DEF NotifyAll, TypeOK
    <3>3. \A v \in Worker : v # w => task'[v] = task[v]
      BY <2>2 DEF NextTask, TypeOK
    <3>4. UNCHANGED <<handed, listed, visited, crashed, report, cancelled>>
      BY <2>2 DEF NextTask, history
    <3> QED BY <2>9, <3>1, <3>2, <3>3, <3>4, HandedUnchanged
  <2>3. CASE ListDirectory(w)
    <3>1. /\ pc[w] = "listing" /\ pc' = [pc EXCEPT ![w] = "visiting"]
          /\ \A v \in Worker : v # w => report'[v] = report[v]
          /\ UNCHANGED <<handed, listed, visited, crashed, task, cancelled>>
      BY <2>3 DEF ListDirectory, shared, history, TypeOK
    <3> QED BY <2>9, <3>1, HandedUnchanged DEF TypeOK
  <2>4. CASE CallVisitor(w)
    BY <2>0, <2>4, VisitorIsHanded
  <2>5. CASE FinishTask(w)
    BY <2>0, <2>5, FinishIsCounted
  <2>6. CASE AbortAfterPanic(w)
    <3>1. /\ UNCHANGED <<handed, listed>> /\ crashed' = crashed \cup {w} /\ caller' # "root"
          /\ \A v \in Worker : v # w => task'[v] = task[v] /\ report'[v] = report[v]
      BY <2>0, <2>6 DEF AbortAfterPanic, call, history, TypeOK
    <3>2. \A v \in Worker : pc'[v] = "finishing" => pc[v] = "finishing" /\ v # w
      BY <2>6 DEF AbortAfterPanic, NotifyAll, TypeOK
    <3> QED BY <3>1, <3>2 DEF HandedInv, HandedIsListed, InHandIsReported, NothingGivenYet, VisitedIsCounted, GivenFrom
  <2> QED BY <1>3, <2>1, <2>2, <2>3, <2>4, <2>5, <2>6 DEF Job
<1> QED BY <1>1, <1>2, <1>3 DEF Next

\* The errors of the directories that are done, each once.
DoneIn(s) == \A i \in DOMAIN s : s[i] \in Failing /\ Done(s[i])
NoneTwice(s) == \A i, j \in DOMAIN s : s[i] = s[j] => i = j
ErrorsKept == ~cancelled /\ ~quit => \A d \in Failing : Done(d) => d \in DirsIn(errors)
ErrorsListed ==
  \A w \in Worker : pc[w] \in {"visiting", "finishing"} =>
    /\ report[w].errors = <<>> \/ (report[w].errors = <<task[w]>> /\ task[w] \in Failing)
    /\ ~cancelled /\ task[w] \in Failing => report[w].errors # <<>>
NoErrorYet == caller \in {"root", "descend"} => errors = <<>>
ErrorInv == DoneIn(errors) /\ NoneTwice(errors) /\ ErrorsKept /\ ErrorsListed /\ NoErrorYet

LEMMA InitErrors == Init => ErrorInv
<1> SUFFICES ASSUME Init PROVE ErrorInv
  OBVIOUS
<1>1. errors = <<>> /\ DOMAIN errors = {} /\ \A d : ~Done(d) \/ d \notin Dir
  BY DEF Init, Done
<1> QED BY <1>1, OptionsAssumption
        DEF Init, ErrorInv, DoneIn, NoneTwice, ErrorsKept, ErrorsListed, NoErrorYet

\* A step that adds no error and finishes no directory.
LEMMA ErrorsUnchanged ==
  ASSUME ErrorInv, UNCHANGED <<errors>>, cancelled => cancelled', quit => quit',
         \A d \in Dir : (Done(d))' <=> Done(d),
         caller' \in {"root", "descend"} => caller \in {"root", "descend"},
         \A w \in Worker : pc'[w] \in {"visiting", "finishing"} =>
           /\ pc[w] \in {"visiting", "finishing"} /\ task'[w] = task[w]
           /\ report'[w].errors = report[w].errors
  PROVE  ErrorInv'
<1>1. DoneIn(errors)' /\ NoneTwice(errors)' /\ ErrorsKept'
  BY OptionsAssumption DEF ErrorInv, DoneIn, NoneTwice, ErrorsKept
<1>2. ErrorsListed' /\ NoErrorYet'
  BY DEF ErrorInv, ErrorsListed, NoErrorYet
<1> QED BY <1>1, <1>2 DEF ErrorInv

\* A job lets go of its directory and puts its error into the list.
LEMMA FinishKeepsErrors ==
  ASSUME AccountInv, OnceInv, ErrorInv, NEW w \in Worker, FinishTask(w), caller \notin {"root", "descend"}
  PROVE  ErrorInv'
<1> USE DEF AccountInv, TypeInv
<1>0. PICK d0, new : d0 = task[w] /\ new = report[w].errors
  OBVIOUS
<1>1. /\ pc[w] = "finishing" /\ errors' = errors \o new /\ quit' = (quit \/ report[w].quit)
      /\ UNCHANGED <<listed, cancelled, caller>>
      /\ \A v \in Worker : v # w => task'[v] = task[v] /\ report'[v] = report[v]
  BY <1>0 DEF FinishTask, KeepErrors, call, history, TypeOK
<1>2. /\ pc'[w] = "next" /\ Busy' = Busy \ {w}
      /\ \A v \in Worker : v # w => pc'[v] = pc[v] \/ (pc[v] = "waiting" /\ pc'[v] = "next")
  BY NotifyAllFacts DEF FinishTask
<1>3. w \in Busy /\ d0 \in Dir /\ Held(d0) /\ listed[d0] = 1
  BY <1>0, <1>1 DEF Busy, BusyHoldsTask, Held, OnceInv, HeldListing
<1>4. \A d : (Held(d))' <=> Held(d) /\ d # d0
  BY <1>0, <1>1, <1>2, <1>3 DEF Held, OnceInv, OneHolder, Busy
<1>5. (Done(d0))' /\ ~Done(d0) /\ \A d : d # d0 => ((Done(d))' <=> Done(d))
  BY <1>1, <1>3, <1>4 DEF Done
<1>6. /\ new = <<>> \/ (new = <<d0>> /\ d0 \in Failing)
      /\ ~cancelled /\ d0 \in Failing => new # <<>>
  BY <1>0, <1>1 DEF ErrorInv, ErrorsListed
<1>7. errors \in Seq(Dir) /\ new \in Seq(Dir)
  <2>1. errors \in Seq(Dir)
    BY Zenon DEF TypeOK
  <2>2. <<>> \in Seq(Dir) /\ <<d0>> \in Seq(Dir)
    BY <1>3
  <2> QED BY <1>6, <2>1, <2>2
<1>8. /\ \A i \in DOMAIN (errors \o new) :
           \/ i \in DOMAIN errors /\ (errors \o new)[i] = errors[i]
           \/ i - Len(errors) \in DOMAIN new /\ i \notin DOMAIN errors /\ (errors \o new)[i] = new[i - Len(errors)]
      /\ DirsIn(errors \o new) = DirsIn(errors) \cup DirsIn(new)
  BY <1>7, ConcatFacts
<1>9. \A i \in DOMAIN new : i = 1 /\ new[i] = d0 /\ d0 \in Failing
  BY <1>6
<1>10. \A i \in DOMAIN errors : errors[i] # d0
  BY <1>5 DEF ErrorInv, DoneIn
<1>11. DoneIn(errors)'
  BY <1>1, <1>5, <1>8, <1>9 DEF ErrorInv, DoneIn
<1>12. NoneTwice(errors)'
  <2> SUFFICES ASSUME NEW i \in DOMAIN (errors \o new), NEW j \in DOMAIN (errors \o new),
                      (errors \o new)[i] = (errors \o new)[j]
               PROVE  i = j
    BY <1>1 DEF NoneTwice
  <2>1. CASE i \in DOMAIN errors /\ j \in DOMAIN errors
    BY <2>1, <1>8, <1>7 DEF ErrorInv, NoneTwice
  <2>2. CASE i \notin DOMAIN errors /\ j \notin DOMAIN errors
    <3>1. i - Len(errors) = 1 /\ j - Len(errors) = 1
      BY <2>2, <1>8, <1>9
    <3>2. i \in Int /\ j \in Int /\ Len(errors) \in Int
      BY <1>7
    <3> QED BY <3>1, <3>2
  <2>3. CASE (i \in DOMAIN errors) # (j \in DOMAIN errors)
    BY <2>3, <1>8, <1>9, <1>10, <1>7
  <2> QED BY <2>1, <2>2, <2>3
<1>13. ErrorsKept'
  <2> SUFFICES ASSUME ~cancelled, ~quit, NEW d \in Failing, (Done(d))' PROVE d \in DirsIn(errors')
    BY <1>1, Zenon DEF ErrorsKept
  <2>1. CASE d = d0
    <3>1. new = <<d0>> /\ 1 \in DOMAIN new
      BY <2>1, <1>6
    <3>2. d0 \in DirsIn(new)
      BY <3>1 DEF DirsIn
    <3> QED BY <2>1, <3>2, <1>1, <1>8
  <2>2. CASE d # d0
    BY <2>2, <1>1, <1>5, <1>8 DEF ErrorInv, ErrorsKept
  <2> QED BY <2>1, <2>2
<1>14. ErrorsListed' /\ NoErrorYet'
  BY <1>1, <1>2 DEF ErrorInv, ErrorsListed, NoErrorYet
<1> QED BY <1>11, <1>12, <1>13, <1>14 DEF ErrorInv

\* Outside next_task, visit and finish a step leaves every directory where it is.
LEMMA DoneUnchanged ==
  ASSUME Busy' = Busy, UNCHANGED <<task, listed>>
  PROVE  \A d : (Done(d))' <=> Done(d)
BY DEF Done, Held

LEMMA StepErrors ==
  AccountInv /\ OnceInv /\ ReturnInv /\ ErrorInv /\ [Next]_vars => ErrorInv'
<1> SUFFICES ASSUME AccountInv, OnceInv, ReturnInv, ErrorInv, [Next]_vars PROVE ErrorInv'
  OBVIOUS
<1> USE DEF AccountInv, TypeInv
<1>1. CASE Caller \/ Cancel \/ Rest \/ UNCHANGED vars
  <2>1. UNCHANGED <<errors, task, report, listed>>
    BY <1>1 DEF Caller, VisitRoot, Descend, Submit, SubmitRejected, AllSubmitted, Receive, Drained,
                FinishReport, Cancel, Rest, vars, shared, jobs, history
  <2>2. \A v \in Worker : pc'[v] = pc[v] \/ (pc[v] \in {"waiting", "unsubmitted"} /\ pc'[v] \in {"next", "submitted"})
    <3>1. CASE Submit
      <4>1. submitted + 1 \in Worker /\ pc[submitted + 1] = "unsubmitted"
        BY <3>1, OptionsAssumption DEF Submit, Worker, TypeOK, SubmittedInOrder
      <4> QED BY <3>1, <4>1 DEF Submit, TypeOK
    <3>2. CASE ~Submit
      BY <1>1, <3>2 DEF Caller, VisitRoot, Descend, SubmitRejected, AllSubmitted, Receive, Drained,
                        FinishReport, Cancel, Rest, vars, jobs, TypeOK
    <3> QED BY <3>1, <3>2
  <2>3. Busy' = Busy
    BY <2>2 DEF Busy
  <2>4. /\ cancelled => cancelled'
        /\ quit => quit'
        /\ caller' \in {"root", "descend"} => caller \in {"root", "descend"}
    <3>1. CASE SubmitRejected
      BY <3>1 DEF SubmitRejected
    <3>2. CASE Cancel
      BY <3>2 DEF Cancel, shared, call
    <3>3. CASE ~SubmitRejected /\ ~Cancel
      <4>1. UNCHANGED <<cancelled, quit>>
        BY <1>1, <3>3 DEF Caller, VisitRoot, Descend, Submit, AllSubmitted, Receive, Drained,
                FinishReport, Rest, vars, shared
      <4>2. caller' \in {"root", "descend"} => caller \in {"root", "descend"}
        BY <1>1, <3>3 DEF Caller, VisitRoot, Descend, Submit, AllSubmitted, Receive, Drained,
                FinishReport, Rest, vars, call
      <4> QED BY <4>1, <4>2
    <3> QED BY <3>1, <3>2, <3>3
  <2>5. \A d \in Dir : (Done(d))' <=> Done(d)
    BY <2>1, <2>3, DoneUnchanged
  <2> QED BY <2>1, <2>2, <2>4, <2>5, ErrorsUnchanged
<1>2. ASSUME NEW w \in Worker, Job(w) \/ SpuriousWakeup(w) PROVE ErrorInv'
  <2>0. caller \notin {"root", "descend"}
    <3>1. caller \in {"root", "descend"} => submitted = 0
      BY DEF ReturnInv, NothingSubmittedYet
    <3>2. w > 0 /\ pc[w] # "unsubmitted"
      BY <1>2, OptionsAssumption DEF Worker, Job, SpuriousWakeup, Start, NextTask, ListDirectory, CallVisitor,
         FinishTask, AbortAfterPanic, SendOutcome, ReleaseShared, DropSender
    <3> QED BY <3>1, <3>2 DEF SubmittedInOrder
  <2>9. caller' = caller
    BY <1>2 DEF Job, Start, SpuriousWakeup, NextTask, ListDirectory, CallVisitor, FinishTask,
                AbortAfterPanic, SendOutcome, ReleaseShared, DropSender, call
  <2>1. CASE Start(w) \/ SpuriousWakeup(w) \/ SendOutcome(w) \/ ReleaseShared(w) \/ DropSender(w)
    <3>1. /\ \A v \in Worker : pc'[v] = pc[v] \/ {pc[v], pc'[v]} \cap {"listing", "visiting", "finishing", "unwinding"} = {}
          /\ UNCHANGED <<errors, listed, task, report, cancelled, quit>>
      BY <2>1 DEF Start, SpuriousWakeup, SendOutcome, ReleaseShared, DropSender, TypeOK, shared, history
    <3>2. Busy' = Busy
      BY <3>1 DEF Busy
    <3>3. \A d \in Dir : (Done(d))' <=> Done(d)
      BY <3>1, <3>2, DoneUnchanged
    <3> QED BY <2>9, <3>1, <3>3, ErrorsUnchanged
  <2>2. CASE NextTask(w)
    <3>1. /\ pc[w] = "next"
          /\ \/ pc' = [pc EXCEPT ![w] = "exiting"] /\ task' = task
             \/ pc' = [pc EXCEPT ![w] = "waiting"] /\ task' = task
             \/ /\ pc' = [pc EXCEPT ![w] = "listing"] /\ task' = [task EXCEPT ![w] = Head(queue)]
                /\ queue # <<>>
             \/ NotifyAll(w, "exiting") /\ task' = task
      BY <2>2 DEF NextTask
    <3>2. \A v \in Worker : pc'[v] = pc[v] \/ {pc[v], pc'[v]} \cap {"visiting", "finishing", "unwinding"} = {}
      BY <3>1 DEF NotifyAll, TypeOK
    <3>3. \A v \in Worker : v # w => task'[v] = task[v]
      BY <3>1 DEF TypeOK
    <3>4. UNCHANGED <<errors, listed, report, cancelled, quit>>
      BY <2>2 DEF NextTask, history
    <3>5. \A d \in Dir : (Done(d))' <=> Done(d)
      <4>1. CASE /\ task' = task
                 /\ \/ pc' = [pc EXCEPT ![w] = "exiting"]
                    \/ pc' = [pc EXCEPT ![w] = "waiting"]
                    \/ NotifyAll(w, "exiting")
        <5>1. \A v \in Worker : \/ pc'[v] = pc[v]
                               \/ {pc[v], pc'[v]} \cap {"listing", "visiting", "finishing", "unwinding"} = {}
          BY <3>1, <4>1 DEF NotifyAll, TypeOK
        <5>2. Busy' = Busy
          BY <5>1 DEF Busy
        <5>3. UNCHANGED <<task, listed>>
          BY <3>4, <4>1
        <5>4. \A d : (Done(d))' <=> Done(d)
          BY <5>2, <5>3, DoneUnchanged
        <5> QED BY <5>4
      <4>2. CASE pc' = [pc EXCEPT ![w] = "listing"] /\ task' = [task EXCEPT ![w] = Head(queue)] /\ queue # <<>>
        <5>1. Busy' = Busy \cup {w} /\ w \notin Busy
          BY <3>1, <4>2 DEF Busy, TypeOK
        <5>2. task'[w] = Head(queue)
          BY <4>2 DEF TypeOK
        <5>3. listed[Head(queue)] = 0
          <6>1. 1 \in DOMAIN queue /\ queue[1] = Head(queue)
            BY <4>2 DEF TypeOK
          <6> QED BY <6>1 DEF OnceInv, QueueIsFresh
        <5>4. \A d : (Held(d))' <=> Held(d) \/ d = Head(queue)
          BY <5>1, <5>2, <3>3 DEF Held, Busy
        <5> QED BY <5>3, <5>4, <3>4 DEF Done
      <4> QED BY <3>1, <4>1, <4>2
    <3> QED BY <2>9, <3>1, <3>2, <3>3, <3>4, <3>5, ErrorsUnchanged
  <2>3. CASE ListDirectory(w)
    <3>1. /\ pc[w] = "listing" /\ pc' = [pc EXCEPT ![w] = "visiting"]
          /\ \A v \in Worker : v # w => report'[v] = report[v]
          /\ UNCHANGED <<errors, listed, task, cancelled, quit>>
      BY <2>3 DEF ListDirectory, shared, history, TypeOK
    <3>2. Busy' = Busy
      BY <3>1 DEF Busy, TypeOK
    <3>3. \A d \in Dir : (Done(d))' <=> Done(d)
      BY <3>1, <3>2, DoneUnchanged
    <3>4. PICK failed \in BOOLEAN :
            /\ failed => task[w] \in Failing
            /\ ~cancelled => (task[w] \in Failing => failed)
            /\ report'[w].errors = IF failed THEN <<task[w]>> ELSE <<>>
      BY <2>3 DEF ListDirectory, TypeOK
    <3>5. ErrorsListed'
      <4> SUFFICES ASSUME NEW v \in Worker, pc'[v] \in {"visiting", "finishing"}
                   PROVE  /\ report'[v].errors = <<>> \/ (report'[v].errors = <<task'[v]>> /\ task'[v] \in Failing)
                          /\ ~cancelled' /\ task'[v] \in Failing => report'[v].errors # <<>>
        BY Zenon DEF ErrorsListed
      <4>1. CASE v = w
        <5>1. task'[w] = task[w] /\ cancelled' = cancelled
          BY <3>1
        <5>2. failed => <<task[w]>> # <<>>
          OBVIOUS
        <5>3. CASE failed
          BY <3>4, <4>1, <5>1, <5>2, <5>3
        <5>4. CASE ~failed
          BY <3>4, <4>1, <5>1, <5>4
        <5> QED BY <5>3, <5>4
      <4>2. CASE v # w
        BY <3>1, <4>2 DEF ErrorInv, ErrorsListed, TypeOK
      <4> QED BY <4>1, <4>2
    <3>6. DoneIn(errors)' /\ NoneTwice(errors)' /\ ErrorsKept' /\ NoErrorYet'
      BY <2>9, <3>1, <3>3, OptionsAssumption DEF ErrorInv, DoneIn, NoneTwice, ErrorsKept, NoErrorYet
    <3> QED BY <3>5, <3>6 DEF ErrorInv
  <2>4. CASE CallVisitor(w)
    <3>1. /\ pc[w] = "visiting" /\ \E p \in {"finishing", "unwinding"} : pc' = [pc EXCEPT ![w] = p]
          /\ listed' = [listed EXCEPT ![task[w]] = @ + 1]
          /\ UNCHANGED <<errors, task, cancelled, quit>>
          /\ \A v \in Worker : v # w => report'[v] = report[v]
      BY <2>4 DEF CallVisitor, shared, call, TypeOK
    <3>2. report'[w].errors = report[w].errors
      BY <2>4 DEF CallVisitor, TypeOK, StreamReport, BatchReport, TaskReport
    <3>3. Busy' = Busy /\ Held(task[w]) /\ task[w] \in Dir
      BY <3>1 DEF Busy, TypeOK, Held, BusyHoldsTask
    <3>4. \A d \in Dir : (Done(d))' <=> Done(d)
      <4>1. \A d : (Held(d))' <=> Held(d)
        BY <3>1, <3>3 DEF Held
      <4> QED BY <3>1, <3>3, <4>1 DEF Done, TypeOK
    <3>5. \A v \in Worker : pc'[v] \in {"visiting", "finishing"} =>
            pc[v] \in {"visiting", "finishing"} /\ report'[v].errors = report[v].errors
      BY <3>1, <3>2 DEF TypeOK
    <3> QED BY <2>9, <3>1, <3>4, <3>5, ErrorsUnchanged
  <2>5. CASE FinishTask(w)
    BY <2>0, <2>5, FinishKeepsErrors
  <2>6. CASE AbortAfterPanic(w)
    <3>1. /\ UNCHANGED <<errors, listed, cancelled>> /\ quit' = TRUE /\ NotifyAll(w, "exiting")
          /\ \A v \in Worker : v # w => task'[v] = task[v] /\ report'[v] = report[v]
      BY <2>6 DEF AbortAfterPanic, call, history, TypeOK
    <3>2. Busy' = Busy \ {w} /\ \A v \in Worker : pc'[v] \in {"visiting", "finishing"} => pc[v] = pc'[v] /\ v # w
      BY <3>1, NotifyAllFacts DEF NotifyAll, TypeOK
    <3>3. \A d : Done(d) => (Done(d))'
      BY <3>1, <3>2 DEF Done, Held, Busy
    <3>4. DoneIn(errors)' /\ NoneTwice(errors)' /\ ErrorsKept' /\ NoErrorYet' /\ ErrorsListed'
      BY <2>9, <3>1, <3>2, <3>3 DEF ErrorInv, DoneIn, NoneTwice, ErrorsKept, NoErrorYet, ErrorsListed
    <3> QED BY <3>4 DEF ErrorInv
  <2> QED BY <1>2, <2>1, <2>2, <2>3, <2>4, <2>5, <2>6 DEF Job
<1> QED BY <1>1, <1>2 DEF Next

\* A job that was unwound has told the caller so, or will.
Unwound(w) == \/ pc[w] = "exiting"
              \/ pc[w] \in {"sent", "released", "done"} /\ (panicked \/ TRUE \in DirsIn(channel))
PanicInv == \A w \in crashed : Unwound(w)

LEMMA InitPanic == Init => PanicInv
BY DEF Init, PanicInv

LEMMA StepPanic == AccountInv /\ PanicInv /\ [Next]_vars => PanicInv'
<1> SUFFICES ASSUME AccountInv, PanicInv, [Next]_vars PROVE PanicInv'
  OBVIOUS
<1> USE DEF AccountInv, TypeInv
<1>1. crashed \subseteq Worker
  BY DEF TypeOK
<1>2. CASE Receive
  <2>1. /\ UNCHANGED <<pc, crashed>> /\ panicked' = (panicked \/ Head(channel)) /\ channel' = Tail(channel)
        /\ channel # <<>>
    BY <1>2 DEF Receive, PanicAfter, jobs
  <2>2. channel \in Seq(BOOLEAN)
    BY DEF TypeOK
  <2>3. DirsIn(channel) = {Head(channel)} \cup DirsIn(channel')
    BY <2>1, <2>2, TailFacts
  <2>4. panicked \/ TRUE \in DirsIn(channel) => panicked' \/ TRUE \in DirsIn(channel')
    BY <2>1, <2>3, Zenon
  <2> QED BY <2>1, <2>4 DEF PanicInv, Unwound
<1>3. CASE (Caller /\ ~Receive) \/ Cancel \/ Rest \/ UNCHANGED vars
  <2>1. UNCHANGED <<crashed, panicked, channel>>
    BY <1>3 DEF Caller, VisitRoot, Descend, Submit, SubmitRejected, AllSubmitted, Drained,
                FinishReport, Cancel, Rest, vars, jobs, call
  <2>2. \A v \in Worker : pc'[v] = pc[v] \/ pc[v] \in {"waiting", "unsubmitted"}
    <3>1. CASE Submit
      <4>1. submitted + 1 \in Worker /\ pc[submitted + 1] = "unsubmitted"
        BY <3>1, OptionsAssumption DEF Submit, Worker, TypeOK, SubmittedInOrder
      <4> QED BY <3>1, <4>1 DEF Submit, TypeOK
    <3>2. CASE ~Submit
      BY <1>3, <3>2 DEF Caller, VisitRoot, Descend, SubmitRejected, AllSubmitted, Drained,
                        FinishReport, Cancel, Rest, vars, jobs, TypeOK
    <3> QED BY <3>1, <3>2
  <2> QED BY <1>1, <2>1, <2>2 DEF PanicInv, Unwound
<1>4. ASSUME NEW w \in Worker, Job(w) \/ SpuriousWakeup(w) PROVE PanicInv'
  <2>1. CASE SendOutcome(w)
    <3>1. /\ pc[w] = "exiting" /\ pc' = [pc EXCEPT ![w] = "sent"] /\ UNCHANGED <<crashed, panicked>>
          /\ channel' = Append(channel, w \in crashed)
      BY <2>1 DEF SendOutcome, call
    <3>2. channel \in Seq(BOOLEAN) /\ (w \in crashed) \in BOOLEAN
      BY DEF TypeOK
    <3>3. /\ \A i \in DOMAIN channel : i \in DOMAIN channel' /\ channel'[i] = channel[i]
          /\ Len(channel) + 1 \in DOMAIN channel' /\ channel'[Len(channel) + 1] = (w \in crashed)
      <4>1. PICK b \in BOOLEAN : b = (w \in crashed)
        BY <3>2
      <4>2. channel' = Append(channel, b)
        BY <3>1, <4>1, Zenon
      <4>3. /\ \A i \in DOMAIN channel : i \in DOMAIN Append(channel, b) /\ Append(channel, b)[i] = channel[i]
            /\ Len(channel) + 1 \in DOMAIN Append(channel, b) /\ Append(channel, b)[Len(channel) + 1] = b
        BY <3>2
      <4> QED BY <4>1, <4>2, <4>3, Zenon
    <3>4. TRUE \in DirsIn(channel) => TRUE \in DirsIn(channel')
      BY <3>3, Zenon DEF DirsIn
    <3>5. w \in crashed => TRUE \in DirsIn(channel')
      BY <3>3, Zenon DEF DirsIn
    <3>6. \A v \in crashed : v # w => pc'[v] = pc[v]
      BY <1>1, <3>1 DEF TypeOK
    <3>7. pc'[w] = "sent"
      BY <3>1 DEF TypeOK
    <3> QED BY <3>1, <3>4, <3>5, <3>6, <3>7 DEF PanicInv, Unwound
  <2>2. CASE AbortAfterPanic(w)
    <3>1. /\ crashed' = crashed \cup {w} /\ UNCHANGED <<channel, panicked>> /\ NotifyAll(w, "exiting")
      BY <2>2 DEF AbortAfterPanic, call
    <3>2. pc'[w] = "exiting" /\ \A v \in crashed : pc'[v] = pc[v] \/ v = w
      BY <1>1, <3>1 DEF NotifyAll, TypeOK, PanicInv, Unwound
    <3> QED BY <3>1, <3>2 DEF PanicInv, Unwound
  <2>3. CASE ~SendOutcome(w) /\ ~AbortAfterPanic(w)
    <3>1. UNCHANGED <<crashed, panicked, channel>>
      BY <1>4, <2>3 DEF Job, Start, SpuriousWakeup, NextTask, ListDirectory, CallVisitor, FinishTask,
                        ReleaseShared, DropSender, call
    <3>2. \A v \in Worker : \/ pc'[v] = pc[v]
                            \/ pc[v] \in {"sent", "released"} /\ pc'[v] \in {"sent", "released", "done"}
                            \/ pc[v] \notin {"exiting", "sent", "released", "done"}
      BY <1>4, <2>3 DEF Job, Start, SpuriousWakeup, NextTask, ListDirectory, CallVisitor, FinishTask,
                        ReleaseShared, DropSender, NotifyAll, TypeOK
    <3> QED BY <1>1, <3>1, <3>2 DEF PanicInv, Unwound
  <2> QED BY <2>1, <2>2, <2>3
<1> QED BY <1>2, <1>3, <1>4 DEF Next

\* A call that has not returned, or has returned with another result, reports nothing.
LEMMA NothingReported ==
  result.kind \notin {"ok", "walk_error", "still_shared"} => ReportIsFaithful
BY DEF ReportIsFaithful, SharedIsReleased, VisitedIsHanded, ErrorsAreReported, PanicIsPropagated, Complete

LEMMA NothingReportedNext ==
  result'.kind \notin {"ok", "walk_error", "still_shared"} => ReportIsFaithful'
BY DEF ReportIsFaithful, SharedIsReleased, VisitedIsHanded, ErrorsAreReported, PanicIsPropagated, Complete

\* A list without repetition has as many members as it is long.
LEMMA LengthIsCount ==
  ASSUME NEW s \in Seq(Dir), NoneTwice(s)
  PROVE  Len(s) = Cardinality(DirsIn(s))
<1> DEFINE n == Len(s)
           positions == 1 .. n
           members == DirsIn(s)
<1>1. n \in Nat /\ DOMAIN s = positions
  OBVIOUS
<1>2. IsFiniteSet(positions) /\ Cardinality(positions) = n
  BY <1>1, FS_Interval
<1>3. s \in [positions -> members] /\ \A d \in members : \E i \in positions : s[i] = d
  BY <1>1 DEF DirsIn
<1>4. \A i, j \in positions : s[i] = s[j] => i = j
  BY <1>1 DEF NoneTwice
<1> HIDE DEF positions, members, n
<1>5. s \in Bijection(positions, members)
  BY <1>3, <1>4 DEF Bijection, Injection, Surjection, IsInjective
<1>6. Cardinality(members) = Cardinality(positions)
  BY <1>2, <1>5, FS_Bijection DEF ExistsBijection
<1> QED BY <1>2, <1>6 DEF members, n

FaithInv == HandedInv /\ ErrorInv /\ PanicInv /\ ReportIsFaithful

LEMMA InitFaith == Init => FaithInv
<1>1. Init => ReportIsFaithful
  BY NothingReported DEF Init, NotReturned
<1> QED BY <1>1, InitHanded, InitErrors, InitPanic DEF FaithInv

\* The report of a call that has collected every outcome.
LEMMA FinishReportIsFaithful ==
  ASSUME AccountInv, OnceInv, CoverInv, ReturnInv, HandedInv, ErrorInv, PanicInv, FinishReport
  PROVE  ReportIsFaithful'
<1> USE DEF AccountInv, TypeInv
<1>1. /\ result' = Returned(Outcome, quit) /\ caller = "collect" /\ channel = <<>>
      /\ \A w \in Worker : pc[w] = "done"
      /\ UNCHANGED <<config, rootControl, handed, crashed>>
  BY DEF FinishReport, SendersGone, jobs, history
<1>2. /\ result'.kind = Outcome /\ result'.visited = visited /\ result'.quit = quit
      /\ result'.cancelled = cancelled /\ result'.errors = errors
  BY <1>1 DEF Returned
<1>3. HoldsShared = {} /\ Busy = {}
  BY <1>1 DEF HoldsShared, Busy
<1>4. SharedIsReleased'
  BY <1>2, <1>3 DEF SharedIsReleased, Outcome
<1>5. ~panicked => crashed = {}
  <2>1. DirsIn(channel) = {}
    BY <1>1 DEF DirsIn
  <2>2. crashed \subseteq Worker
    BY DEF TypeOK
  <2> QED BY <1>1, <2>1, <2>2 DEF PanicInv, Unwound
<1>6. PanicIsPropagated'
  BY <1>1, <1>2, <1>5 DEF PanicIsPropagated, Outcome
<1>7. VisitedIsHanded'
  <2> SUFFICES ASSUME Outcome = "ok", ~(Streaming /\ cancelled) PROVE visited = Cardinality(handed)
    BY <1>1, <1>2 DEF VisitedIsHanded, Streaming
  <2>1. crashed = {}
    BY <1>5 DEF Outcome
  <2>2. Counted = handed
    BY <1>1 DEF Counted, InHand
  <2> QED BY <1>1, <2>1, <2>2 DEF HandedInv, VisitedIsCounted
<1>8. Outcome = "ok" /\ AbortPolicy => errors = <<>>
  BY DEF Outcome
<1>9. ASSUME Complete' PROVE DirsIn(errors) = Failing /\ Len(errors) = Cardinality(Failing)
  <2>1. ~quit /\ ~cancelled
    BY <1>2, <1>9 DEF Complete
  <2>2. CompleteMeansAllListed'
    BY FinishIsFaithful DEF ResultIsFaithful
  <2>3. \A d \in Dir : listed[d] = 1
    BY <1>9, <2>2 DEF CompleteMeansAllListed, FinishReport, history
  <2>4. \A d \in Failing : Done(d)
    BY <1>3, <2>3, OptionsAssumption DEF Done, Held
  <2>5. Failing \subseteq DirsIn(errors)
    BY <2>1, <2>4 DEF ErrorInv, ErrorsKept
  <2>6. DirsIn(errors) \subseteq Failing
    BY DEF ErrorInv, DoneIn, DirsIn
  <2>7. errors \in Seq(Dir) /\ NoneTwice(errors)
    BY DEF TypeOK, ErrorInv
  <2>8. Len(errors) = Cardinality(DirsIn(errors))
    BY <2>7, LengthIsCount
  <2>9. DirsIn(errors) = Failing
    BY <2>5, <2>6
  <2> QED BY <2>8, <2>9, Zenon
<1>10. ErrorsAreReported'
  <2>1. AbortPolicy' = AbortPolicy
    BY <1>1 DEF AbortPolicy
  <2>2. AbortPolicy /\ Complete' => Failing = {}
    <3> SUFFICES ASSUME AbortPolicy, Complete' PROVE Failing = {}
      OBVIOUS
    <3>1. errors = <<>>
      BY <1>2, <1>8 DEF Complete
    <3>2. DirsIn(errors) = {}
      BY <3>1 DEF DirsIn
    <3> QED BY <1>9, <3>2
  <2> QED BY <1>2, <1>8, <1>9, <2>1, <2>2 DEF ErrorsAreReported
<1> QED BY <1>4, <1>6, <1>7, <1>10 DEF ReportIsFaithful

LEMMA StepReport ==
  AccountInv /\ OnceInv /\ CoverInv /\ ReturnInv /\ FaithInv /\ [Next]_vars => ReportIsFaithful'
<1> SUFFICES ASSUME AccountInv, OnceInv, CoverInv, ReturnInv, FaithInv, [Next]_vars PROVE ReportIsFaithful'
  OBVIOUS
<1> USE DEF AccountInv, TypeInv, FaithInv
<1>1. CASE VisitRoot \/ Drained
  <2>1. result.kind = "none"
    BY <1>1 DEF VisitRoot, Drained, CoverInv, ResultIsFaithful
  <2>2. result' = result \/ result' = Returned("panic", FALSE) \/ result' = Returned("schedule_error", quit)
    BY <1>1 DEF VisitRoot, Drained
  <2>3. result'.kind \notin {"ok", "walk_error", "still_shared"}
    BY <2>1, <2>2 DEF Returned
  <2> QED BY <2>3, NothingReportedNext
<1>2. CASE Descend
  <2>1. /\ UNCHANGED <<config, rootControl, handed, crashed, visited, errors, cancelled>> /\ result.kind = "none"
        /\ caller = "descend"
    BY <1>2 DEF Descend, shared, jobs, history, CoverInv, ResultIsFaithful
  <2>2. CASE ~cancelled /\ rootControl = "Continue"
    <3>1. result'.kind \notin {"ok", "walk_error", "still_shared"}
      BY <1>2, <2>1, <2>2 DEF Descend
    <3> QED BY <3>1, NothingReportedNext
  <2>3. CASE ~(~cancelled /\ rootControl = "Continue")
    <3>1. result' = Returned("ok", rootControl = "Quit")
      BY <1>2, <2>3 DEF Descend
    <3>2. \A w \in Worker : pc[w] = "unsubmitted"
      <4>1. submitted = 0
        BY <2>1 DEF ReturnInv, NothingSubmittedYet
      <4>2. \A w \in Worker : w > 0
        BY OptionsAssumption DEF Worker
      <4> QED BY <4>1, <4>2 DEF SubmittedInOrder
    <3>3. crashed = {} /\ errors = <<>>
      <4>1. crashed \subseteq Worker
        BY DEF TypeOK
      <4> QED BY <2>1, <3>2, <4>1 DEF PanicInv, Unwound, ErrorInv, NoErrorYet
    <3>4. ~(Streaming /\ cancelled) => visited = Cardinality(handed)
      <4>1. Counted = handed
        BY <3>2 DEF Counted, InHand
      <4> QED BY <2>1, <3>3, <4>1 DEF HandedInv, VisitedIsCounted
    <3>5. ~Complete'
      BY <2>1, <2>3, <3>1 DEF Complete, Returned
    <3> QED BY <2>1, <3>1, <3>3, <3>4, <3>5
            DEF ReportIsFaithful, SharedIsReleased, VisitedIsHanded, ErrorsAreReported, PanicIsPropagated,
                Returned, Streaming
  <2> QED BY <2>2, <2>3
<1>3. CASE FinishReport
  BY <1>3, FinishReportIsFaithful
<1>4. CASE Submit \/ SubmitRejected \/ AllSubmitted \/ Receive
  <2>1. result' = result /\ result.kind = "none"
    BY <1>4 DEF Submit, SubmitRejected, AllSubmitted, Receive, CoverInv, ResultIsFaithful
  <2> QED BY <2>1, NothingReportedNext
<1>5. CASE Cancel \/ Rest \/ (\E w \in Worker : Job(w) \/ SpuriousWakeup(w)) \/ UNCHANGED vars
  <2>1. UNCHANGED <<config, rootControl, result, caller>>
    BY <1>5 DEF Job, Start, SpuriousWakeup, NextTask, ListDirectory, CallVisitor, FinishTask,
                AbortAfterPanic, SendOutcome, ReleaseShared, DropSender, Cancel, Rest, vars, call
  <2>2. CASE caller # "returned"
    <3>1. result.kind = "none"
      BY <2>2 DEF CoverInv, ResultIsFaithful
    <3> QED BY <2>1, <3>1, NothingReportedNext
  <2>3. CASE caller = "returned"
    <3>1. \A w \in Worker : ~CallVisitor(w) /\ ~AbortAfterPanic(w)
      BY <2>3 DEF ReturnInv, ReturnedMeansOver, Over, CallVisitor, AbortAfterPanic
    <3>2. UNCHANGED <<handed, crashed>>
      BY <1>5, <3>1 DEF Job, Start, SpuriousWakeup, NextTask, ListDirectory, FinishTask,
                SendOutcome, ReleaseShared, DropSender, Cancel, Rest, vars, jobs, history
    <3> QED BY <2>1, <3>2 DEF ReportIsFaithful, SharedIsReleased, VisitedIsHanded, ErrorsAreReported,
                              PanicIsPropagated, Complete, Streaming, AbortPolicy
  <2> QED BY <2>2, <2>3
<1> QED BY <1>1, <1>2, <1>3, <1>4, <1>5 DEF Next, Caller

(* Whatever the call returns is what its jobs did: the shared state has come back,     *)
(* the entries counted are those the visitor was given, every listing error is in the  *)
(* list once or made the call fail, and a panic of the visitor is not swallowed.       *)
THEOREM ReportHolds == Spec => []ReportIsFaithful
<1>1. FaithInv => ReportIsFaithful
  BY DEF FaithInv
<1>2. AccountInv /\ OnceInv /\ CoverInv /\ ReturnInv /\ FaithInv /\ [Next]_vars => FaithInv'
  BY StepHanded, StepErrors, StepPanic, StepReport DEF FaithInv
<1> QED BY <1>1, <1>2, InitAccount, StepAccount, InitOnce, StepOnce, InitCover, StepCover, InitReturn, StepReturn,
           InitFaith, PTL DEF Spec

-----------------------------------------------------------------------------
(* The scheduler implements the abstract traversal *)

\* What an abstract traversal sees of a step.
LEMMA AbstractStutter ==
  ASSUME UNCHANGED <<listed, caller, rootControl, result>>
  PROVE  UNCHANGED Abstract!vars
BY DEF Abstract!vars, Complete

LEMMA AbstractReturn ==
  ASSUME listed' = listed, caller # "returned", ResultIsFaithful',
         caller' # "returned" \/ listed \in [Dir -> Nat]
  PROVE  [Abstract!Next]_(Abstract!vars)
<1>1. CASE caller' # "returned"
  BY <1>1 DEF Abstract!vars
<1>2. CASE caller' = "returned" /\ ~Complete'
  BY <1>2 DEF Abstract!Next, Abstract!Return
<1>3. CASE caller' = "returned" /\ Complete'
  <2>1. {d \in Dir : listed[d] > 0} = Dir
    BY <1>3 DEF ResultIsFaithful, CompleteMeansAllListed
  <2> QED BY <1>3, <2>1 DEF Abstract!Next, Abstract!Return
<1> QED BY <1>1, <1>2, <1>3

LEMMA AbstractGive ==
  ASSUME AccountInv, OnceInv, ReturnInv, NEW w \in Worker, CallVisitor(w)
  PROVE  Abstract!Give(task[w])
<1> USE DEF AccountInv, TypeInv
<1> DEFINE d0 == task[w]
<1>1. /\ w \in Busy /\ pc[w] = "visiting" /\ listed' = [listed EXCEPT ![d0] = @ + 1]
      /\ UNCHANGED <<caller, rootControl, result>>
  BY DEF CallVisitor, Busy, call
<1>2. d0 \in Dir /\ listed[d0] = 0 /\ Held(d0)
  BY <1>1 DEF BusyHoldsTask, OnceInv, HeldListing, Held
<1>3. caller # "returned"
  BY <1>1 DEF ReturnInv, ReturnedMeansOver, Over
<1>4. {d \in Dir : listed'[d] > 0} = {d \in Dir : listed[d] > 0} \cup {d0}
  BY <1>1, <1>2 DEF TypeOK
<1>5. ASSUME d0 # Root PROVE ParentOf(d0) \in {d \in Dir : listed[d] > 0}
  <2>1. PICK p \in Dir : d0 \in Children(p) /\ listed[p] > 0
    BY <1>2, <1>5 DEF OnceInv, ParentDone, Known, Done
  <2>2. ParentOf(d0) \in Dir /\ d0 \in Children(ParentOf(d0))
    BY <2>1 DEF ParentOf
  <2>3. ParentOf(d0) = p
    BY <2>1, <2>2, TreeAssumption
  <2> QED BY <2>1, <2>3
<1> QED BY <1>1, <1>2, <1>3, <1>4, <1>5 DEF Abstract!Give

LEMMA StepAbstract ==
  AccountInv /\ OnceInv /\ CoverInv /\ CoverInv' /\ ReturnInv /\ [Next]_vars => [Abstract!Next]_(Abstract!vars)
<1> SUFFICES ASSUME AccountInv, OnceInv, CoverInv, CoverInv', ReturnInv, [Next]_vars
             PROVE  [Abstract!Next]_(Abstract!vars)
  OBVIOUS
<1>1. CASE Caller
  <2>1. listed' = listed /\ caller # "returned"
    BY <1>1 DEF Caller, VisitRoot, Descend, Submit, SubmitRejected, AllSubmitted, Receive, Drained,
                FinishReport, history
  <2>2. listed \in [Dir -> Nat]
    BY DEF AccountInv, TypeInv, TypeOK
  <2> QED BY <2>1, <2>2, AbstractReturn DEF CoverInv
<1>2. CASE Cancel \/ Rest \/ UNCHANGED vars
  BY <1>2, AbstractStutter DEF Cancel, Rest, vars, call, history
<1>3. ASSUME NEW w \in Worker, Job(w) \/ SpuriousWakeup(w) PROVE [Abstract!Next]_(Abstract!vars)
  <2>1. CASE CallVisitor(w)
    <3>1. task[w] \in Dir
      BY <2>1 DEF CallVisitor, AccountInv, TypeInv, BusyHoldsTask, Busy
    <3>2. Abstract!Give(task[w])
      BY <2>1, AbstractGive
    <3>3. \E d \in Dir : Abstract!Give(d)
      BY <3>1, <3>2 DEF Abstract!Give
    <3>4. Abstract!Next
      BY <3>3, Zenon DEF Abstract!Next
    <3> QED BY <3>4
  <2>2. CASE ~CallVisitor(w)
    <3>1. UNCHANGED <<listed, caller, rootControl, result>>
      BY <1>3, <2>2 DEF Job, Start, SpuriousWakeup, NextTask, ListDirectory, FinishTask,
                        AbortAfterPanic, SendOutcome, ReleaseShared, DropSender, call, history
    <3> QED BY <3>1, AbstractStutter
  <2> QED BY <2>1, <2>2
<1> QED BY <1>1, <1>2, <1>3 DEF Next

LEMMA InitAbstract == Init => Abstract!Init
BY DEF Init, Abstract!Init

(* Every behaviour of the scheduler is one of the abstract traversal: directories are *)
(* given once and after their parent, and "complete" is reported only when all were.   *)
(* (That the call returns is liveness, which the runs check.)                          *)
THEOREM ImplementsTraversal == Spec => Abstract!Safety
BY InitAccount, StepAccount, InitOnce, StepOnce, InitCover, StepCover, InitReturn, StepReturn,
   InitAbstract, StepAbstract, PTL DEF Spec, Abstract!Safety

=============================================================================
