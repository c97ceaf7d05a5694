-------------------------- MODULE OrderedPullProofs --------------------------
(***************************************************************************)
(* Proofs about the ordered pull iterator, for every tree, every limit on  *)
(* the reads in flight and every iterator.  First the accounting: every    *)
(* accepted read is counted until its result is received, no read outlives *)
(* the coordinator, and the receive loop never waits for a read that       *)
(* nobody runs.  Then the order: the frames list what is left of the open  *)
(* directories in path order, so that the item taken is always the next    *)
(* one of the whole tree, and what was sent is always what was promised up *)
(* to there.  The serial fallback has an argument of its own, about stacks *)
(* of frames in no particular order.                                       *)
(***************************************************************************)
EXTENDS OrderedPull, SequenceFacts, FiniteSetTheorems, TLAPS

-----------------------------------------------------------------------------
(* Siblings in path order *)

\* The sorted batch lists every entry once.
LEMMA PathOrder ==
  ASSUME NEW S \in SUBSET Nat, IsFiniteSet(S)
  PROVE  /\ InPathOrder(S) \in Seq(S)
         /\ \A i \in S : \E k \in DOMAIN InPathOrder(S) : InPathOrder(S)[k] = i
         /\ \A k, l \in DOMAIN InPathOrder(S) : InPathOrder(S)[k] = InPathOrder(S)[l] => k = l
         /\ \A k, l \in DOMAIN InPathOrder(S) : k < l => InPathOrder(S)[k] < InPathOrder(S)[l]
<1> DEFINE order == InPathOrder(S)
           n == Cardinality(S)
<1>1. n \in Nat
  BY FS_CardinalityType
<1>2. order = [k \in 1 .. n |-> CHOOSE i \in S : Cardinality(Earlier(S, i)) = k - 1]
  BY DEF InPathOrder, Earlier
<1>3. ASSUME NEW k \in 1 .. n
      PROVE  order[k] \in S /\ Cardinality(Earlier(S, order[k])) = k - 1
  <2>1. k - 1 \in 0 .. n - 1
    BY <1>1
  <2>2. \E i \in S : Cardinality(Earlier(S, i)) = k - 1
    BY <2>1, EarlierOnto
  <2>3. order[k] = CHOOSE i \in S : Cardinality(Earlier(S, i)) = k - 1
    BY <1>2
  <2> HIDE DEF order
  <2> QED BY <2>2, <2>3
<1>4. DOMAIN order = 1 .. n
  BY <1>2
<1> HIDE DEF order
<1>5. order \in Seq(S)
  <2>1. order = [k \in 1 .. n |-> order[k]]
    BY <1>2
  <2>2. order \in [1 .. n -> S]
    BY <2>1, <1>3
  <2> QED BY <2>2, <1>1
<1>6. ASSUME NEW i \in S PROVE \E k \in DOMAIN order : order[k] = i
  <2>1. Cardinality(Earlier(S, i)) \in 0 .. n - 1
    BY EarlierBounds
  <2>2. Cardinality(Earlier(S, i)) + 1 \in 1 .. n
    BY <2>1, <1>1
  <2>3. PICK k \in 1 .. n : k - 1 = Cardinality(Earlier(S, i))
    BY <2>1, <2>2
  <2>4. PICK j \in S : j = order[k] /\ Cardinality(Earlier(S, j)) = Cardinality(Earlier(S, i))
    BY <1>3, <2>3
  <2>5. j = i
    BY <2>4, EarlierInjective
  <2> QED BY <2>4, <2>5, <1>4
<1>7. ASSUME NEW k \in DOMAIN order, NEW l \in DOMAIN order, order[k] = order[l] PROVE k = l
  BY <1>3, <1>4, <1>7
<1>8. ASSUME NEW k \in DOMAIN order, NEW l \in DOMAIN order, k < l PROVE order[k] < order[l]
  <2>1. PICK i \in S : i = order[k] /\ Cardinality(Earlier(S, i)) = k - 1
    BY <1>3, <1>4
  <2>2. PICK j \in S : j = order[l] /\ Cardinality(Earlier(S, j)) = l - 1
    BY <1>3, <1>4
  <2>3. ~(j < i) /\ i # j
    BY <1>4, <1>8, <2>1, <2>2, EarlierGrows
  <2> QED BY <2>1, <2>2, <2>3
<1> QED BY <1>5, <1>6, <1>7, <1>8 DEF order

-----------------------------------------------------------------------------
(* Type correctness *)

Sendable == Item \cup {RootError, ScheduleError}
BatchType == {b \in [dir : Dir, entries : SUBSET Item] : b.entries \subseteq Entries[b.dir]}
ResultType == {r \in [dir : Dir, panicked : BOOLEAN, entries : SUBSET Item] :
                 r.entries \subseteq Entries[r.dir]}

\* Which loop returns where.
ReturnsOK ==
  /\ pc = "refill" => after \in {"wait", "matched", "other", "drive"}
  /\ pc = "offer" => after \in {"rooted", "emitted", "serial", "ended"}
  /\ pc = "drain" => after \in {"ended", "report", "unwound"}

CoordinatorType ==
  /\ pc \in Place \ {"report"} /\ after \in Place \cup {"none"} /\ ReturnsOK
  /\ offer \in Sendable /\ target \in Dir \cup {Root}
  /\ frames \in Seq(Seq(Item))
SchedulerType ==
  /\ queued \in Seq(Dir) /\ outstanding \in Int /\ scheduleError \in BOOLEAN
  /\ ready \subseteq BatchType
ReadsType == reading \subseteq Dir /\ results \in Seq(ResultType) /\ reads \in [Dir -> Int]
ConsumerType ==
  /\ iterator \in Iterators /\ cancelled \in BOOLEAN
  /\ consumer \in {"idle", "next", "closed", "dropping", "dropped", "exhausted", "panicked"}
  /\ sent \in Seq(Sendable) /\ taken \in 0 .. Len(sent)

TypeInv == CoordinatorType /\ SchedulerType /\ ReadsType /\ ConsumerType

LEMMA EntriesFinite ==
  ASSUME NEW d \in Dir, NEW S \in SUBSET Entries[d]
  PROVE  IsFiniteSet(S) /\ S \in SUBSET Item /\ S \in SUBSET Nat
<1>1. Entries[d] \in SUBSET Item /\ Item \in SUBSET Nat /\ IsFiniteSet(Item)
  BY TreeAssumption
<1> QED BY <1>1, FS_Subset

LEMMA SeqMonotone ==
  ASSUME NEW T, NEW S \in SUBSET T, NEW q \in Seq(S)
  PROVE  q \in Seq(T) /\ \A k \in DOMAIN q : q[k] \in S
OBVIOUS

LEMMA OpenType ==
  ASSUME NEW d \in Dir
  PROVE  InPathOrder(Entries[d]) \in Seq(Item)
<1> DEFINE E == Entries[d]
<1>1. E \in SUBSET Entries[d]
  OBVIOUS
<1>2. IsFiniteSet(E) /\ E \in SUBSET Item /\ E \in SUBSET Nat
  BY <1>1, EntriesFinite, Zenon
<1> HIDE DEF E
<1>3. InPathOrder(E) \in Seq(E)
  BY <1>2, PathOrder
<1>4. InPathOrder(E) \in Seq(Item)
  BY <1>2, <1>3, SeqMonotone
<1> QED BY <1>4 DEF E

\* A batch sorted into a frame, and the directories of it as the queue takes them.
LEMMA BatchOrder ==
  ASSUME NEW b \in BatchType
  PROVE  /\ InPathOrder(b.entries) \in Seq(Item)
         /\ \A k \in DOMAIN InPathOrder(b.entries) : InPathOrder(b.entries)[k] \in b.entries
         /\ \A k, l \in DOMAIN InPathOrder(b.entries) :
              InPathOrder(b.entries)[k] = InPathOrder(b.entries)[l] => k = l
         /\ InPathOrder(b.entries \cap Dir) \in Seq(Dir)
         /\ \A k \in DOMAIN InPathOrder(b.entries \cap Dir) :
              InPathOrder(b.entries \cap Dir)[k] \in b.entries \cap Dir
         /\ \A k, l \in DOMAIN InPathOrder(b.entries \cap Dir) :
              InPathOrder(b.entries \cap Dir)[k] = InPathOrder(b.entries \cap Dir)[l] => k = l
         /\ \A c \in b.entries \cap Dir :
              \E k \in DOMAIN InPathOrder(b.entries \cap Dir) : InPathOrder(b.entries \cap Dir)[k] = c
<1> DEFINE E == b.entries
           D == b.entries \cap Dir
<1>1. b.dir \in Dir /\ E \in SUBSET Entries[b.dir] /\ D \in SUBSET Entries[b.dir]
  BY DEF BatchType
<1>4. D \in SUBSET Dir
  OBVIOUS
<1> HIDE DEF E, D
<1>p. PICK d \in Dir : E \in SUBSET Entries[d] /\ D \in SUBSET Entries[d]
  BY <1>1
<1>2. IsFiniteSet(E) /\ E \in SUBSET Nat /\ E \in SUBSET Item
  BY <1>p, EntriesFinite
<1>3. IsFiniteSet(D) /\ D \in SUBSET Nat
  BY <1>p, EntriesFinite
<1>5. /\ InPathOrder(E) \in Seq(E)
      /\ \A k, l \in DOMAIN InPathOrder(E) : InPathOrder(E)[k] = InPathOrder(E)[l] => k = l
  BY <1>2, PathOrder
<1>6. /\ InPathOrder(D) \in Seq(D)
      /\ \A c \in D : \E k \in DOMAIN InPathOrder(D) : InPathOrder(D)[k] = c
      /\ \A k, l \in DOMAIN InPathOrder(D) : InPathOrder(D)[k] = InPathOrder(D)[l] => k = l
  BY <1>3, PathOrder
<1>8. InPathOrder(E) \in Seq(Item) /\ \A k \in DOMAIN InPathOrder(E) : InPathOrder(E)[k] \in E
  BY <1>2, <1>5, SeqMonotone
<1>9. InPathOrder(D) \in Seq(Dir) /\ \A k \in DOMAIN InPathOrder(D) : InPathOrder(D)[k] \in D
  BY <1>4, <1>6, SeqMonotone
<1> QED BY <1>5, <1>6, <1>8, <1>9 DEF E, D

LEMMA InitType == Init => TypeInv
<1> SUFFICES ASSUME Init PROVE TypeInv
  OBVIOUS
<1>1. Root \in Item
  BY TreeAssumption
<1>2. frames \in Seq(Seq(Item)) /\ queued \in Seq(Dir) /\ results \in Seq(ResultType)
  BY DEF Init
<1>3. sent \in Seq(Sendable) /\ taken \in 0 .. Len(sent)
  BY DEF Init
<1>4. CoordinatorType
  BY <1>1, <1>2 DEF Init, CoordinatorType, ReturnsOK, Place, Sendable
<1>5. SchedulerType
  <2>1. outstanding = 0 /\ scheduleError = FALSE /\ ready = {}
    BY Zenon DEF Init
  <2>2. outstanding \in Int /\ ready \subseteq BatchType
    BY <2>1
  <2>3. scheduleError \in BOOLEAN
    BY <2>1, Zenon
  <2> QED BY <1>2, <2>2, <2>3, Zenon DEF SchedulerType
<1>6. ReadsType
  <2>1. reads \in [Dir -> Int] /\ reading = {}
    BY DEF Init
  <2> QED BY <1>2, <2>1 DEF ReadsType
<1>7. ConsumerType
  BY <1>3 DEF Init, ConsumerType
<1> QED BY <1>4, <1>5, <1>6, <1>7 DEF TypeInv

\* The consumer, and what a step of the coordinator leaves to it.
LEMMA StepConsumerType == TypeInv /\ [Next]_vars => ConsumerType'
<1> SUFFICES ASSUME TypeInv, [Next]_vars PROVE ConsumerType'
  OBVIOUS
<1> USE DEF TypeInv, ConsumerType
<1>1. CASE Sent
  <2>1. sent' \in Seq(Sendable) /\ Len(sent') = Len(sent) + 1
    BY <1>1, AppendFacts DEF Sent, CoordinatorType
  <2>2. taken' = taken \/ taken' = taken + 1
    BY <1>1 DEF Sent
  <2>3. taken' \in 0 .. Len(sent')
    BY <2>1, <2>2
  <2>4. consumer' = consumer \/ consumer' = "idle"
    BY <1>1 DEF Sent
  <2> QED BY <1>1, <2>1, <2>3, <2>4 DEF Sent
<1>2. CASE SendFailed \/ Start \/ Rooted \/ Accept \/ Reject \/ RefillEnds
  BY <1>2 DEF SendFailed, Start, Rooted, Accept, Reject, RefillEnds, StartDrain, control, executor, scheduler
<1>3. CASE Wait \/ Receive \/ Matched \/ Other
  BY <1>3 DEF Wait, Receive, Matched, Other, StartDrain, control, executor, scheduler
<1>4. CASE Drive \/ Emitted \/ DrainOne \/ DrainEnds \/ SerialStart \/ SerialNext
  BY <1>4 DEF Drive, Emitted, DrainOne, DrainEnds, SerialStart, SerialNext, StartDrain, control, executor, scheduler
<1>5. CASE CallNext \/ Take \/ TakeEnd \/ DropReceiver \/ CancelToken \/ JoinCoordinator
  <2>1. CASE Take
    BY <2>1 DEF Take
  <2>2. CASE CallNext \/ DropReceiver \/ CancelToken
    BY <2>2 DEF CallNext, DropReceiver, CancelToken
  <2>3. CASE TakeEnd \/ JoinCoordinator
    BY <2>3 DEF TakeEnd, JoinCoordinator, Joined
  <2> QED BY <1>5, <2>1, <2>2, <2>3
<1>6. ASSUME NEW d \in Dir, Read(d) PROVE ConsumerType'
  BY <1>6 DEF Read
<1>7. CASE UNCHANGED vars
  BY <1>7 DEF vars
<1> QED BY <1>1, <1>2, <1>3, <1>4, <1>5, <1>6, <1>7 DEF Next, Coordinator, Consumer

\* A step of the consumer touches nothing of the coordinator's, but may set the token.
ConsumerStep ==
  UNCHANGED <<iterator, pc, after, offer, target, frames, queued, outstanding, ready, scheduleError,
              reading, results, reads>> /\ (cancelled => cancelled')

LEMMA ConsumerSteps ==
  Consumer \/ CallNext \/ DropReceiver \/ UNCHANGED vars => ConsumerStep
BY DEF Consumer, Take, TakeEnd, CancelToken, JoinCoordinator, CallNext, DropReceiver, vars,
       ConsumerStep, control, scheduler, executor

\* The frame of a batch and the queue with the directories in it.
Prepared(batch) ==
  /\ frames' = Append(frames, InPathOrder(batch.entries))
  /\ queued' = InPathOrder(batch.entries \cap Dir) \o queued
  /\ pc' = "refill" /\ after' = "drive" /\ offer' = offer

LEMMA PreparedType ==
  ASSUME TypeInv, NEW batch \in ready, PrepareFrame(batch)
  PROVE  /\ Prepared(batch) /\ batch \in BatchType
         /\ frames' \in Seq(Seq(Item)) /\ queued' \in Seq(Dir)
         /\ pc' = "refill" /\ after' = "drive" /\ offer' = offer
<1>1. Prepared(batch)
  BY DEF PrepareFrame, Enqueue, Prepared
<1>2. batch \in BatchType
  BY DEF TypeInv, SchedulerType
<1>3. frames \in Seq(Seq(Item)) /\ queued \in Seq(Dir)
  BY DEF TypeInv, CoordinatorType, SchedulerType
<1>4. InPathOrder(batch.entries) \in Seq(Item) /\ InPathOrder(batch.entries \cap Dir) \in Seq(Dir)
  BY <1>2, BatchOrder
<1>5. frames' \in Seq(Seq(Item))
  BY <1>1, <1>3, <1>4, AppendFacts DEF Prepared
<1>6. queued' \in Seq(Dir)
  BY <1>1, <1>3, <1>4, ConcatFacts DEF Prepared
<1> QED BY <1>1, <1>2, <1>5, <1>6 DEF Prepared

LEMMA StepCoordinatorType == TypeInv /\ [Next]_vars => CoordinatorType'
<1> SUFFICES ASSUME TypeInv, [Next]_vars PROVE CoordinatorType'
  OBVIOUS
<1> USE DEF CoordinatorType, ReturnsOK
<1>c. CoordinatorType
  BY DEF TypeInv
<1>1. CASE Sent \/ SendFailed
  <2>1. CASE Sent
    BY <1>c, <2>1 DEF Sent, scheduler, executor, Place
  <2>2. CASE SendFailed
    BY <1>c, <2>2 DEF SendFailed, StartDrain, Goto, Place, executor
  <2> QED BY <1>1, <2>1, <2>2
<1>2. CASE Start \/ Rooted
  BY <1>c, <1>2, TreeAssumption DEF Start, Rooted, Offer, Goto, Place, Sendable, scheduler, executor
<1>3. CASE Accept \/ Reject \/ RefillEnds
  BY <1>c, <1>3 DEF Accept, Reject, RefillEnds, Goto, Place, control, scheduler, executor
<1>4. CASE Wait
  <2>1. CASE \E batch \in ready : PrepareFrame(batch)
    <3>1. PICK batch \in ready : PrepareFrame(batch)
      BY <2>1
    <3>2. target' = target
      BY <1>4 DEF Wait
    <3> QED BY <1>c, <3>1, <3>2, PreparedType DEF Place
  <2>2. CASE frames' = frames /\ (StartDrain("report") \/ Goto("receive"))
    BY <1>c, <1>4, <2>2 DEF Wait, StartDrain, Goto, Place
  <2> QED BY <1>4, <2>1, <2>2 DEF Wait
<1>5. CASE Receive
  <2>1. frames' = frames /\ target' = target
    BY <1>5 DEF Receive
  <2>2. CASE StartDrain("unwound")
    BY <1>c, <2>1, <2>2 DEF StartDrain, Place
  <2>3. CASE pc' = "refill" /\ offer' = offer /\ after' \in {"matched", "other"}
    BY <1>c, <2>1, <2>3 DEF Place
  <2> QED BY <1>5, <2>2, <2>3 DEF Receive
<1>6. CASE Matched
  <2>1. target' = target
    BY <1>6 DEF Matched
  <2>2. CASE \E batch \in ready : PrepareFrame(batch)
    <3>1. PICK batch \in ready : PrepareFrame(batch)
      BY <2>2
    <3> QED BY <1>c, <2>1, <3>1, PreparedType DEF Place
  <2>3. CASE frames' = frames /\ StartDrain("report")
    BY <1>c, <2>1, <2>3 DEF StartDrain, Place
  <2> QED BY <1>6, <2>2, <2>3 DEF Matched
<1>7. CASE Other
  BY <1>c, <1>7 DEF Other, DrainReason, StartDrain, Goto, Place
<1>8. CASE Drive
  <2>1. CASE cancelled \/ frames = <<>>
    BY <1>c, <1>8, <2>1 DEF Drive, StartDrain, Place
  <2>2. CASE frames # <<>> /\ ~cancelled
    <3>1. Last(frames) \in Seq(Item) /\ Front(frames) \in Seq(Seq(Item))
      BY <1>c, <2>2, FrontFacts
    <3>2. CASE Last(frames) = <<>>
      BY <1>c, <1>8, <2>2, <3>1, <3>2 DEF Drive, Goto, Place
    <3>3. CASE Last(frames) # <<>>
      <4>1. Head(Last(frames)) \in Item /\ Tail(Last(frames)) \in Seq(Item)
        BY <3>1, <3>3, TailFacts
      <4>2. /\ frames' = Append(Front(frames), Tail(Last(frames))) /\ target' = target
            /\ pc' \in {"emitted", "offer"} /\ after' = "emitted" /\ offer' = Head(Last(frames))
        BY <1>8, <2>2, <3>3 DEF Drive, Offer
      <4>3. frames' \in Seq(Seq(Item))
        BY <3>1, <4>1, <4>2, AppendFacts
      <4> QED BY <1>c, <4>1, <4>2, <4>3 DEF Place, Sendable
    <3> QED BY <3>2, <3>3
  <2> QED BY <2>1, <2>2
<1>9. CASE Emitted
  BY <1>c, <1>9 DEF Emitted, StartDrain, Goto, Place
<1>10. CASE DrainOne \/ DrainEnds
  BY <1>c, <1>10 DEF DrainOne, DrainEnds, Offer, Goto, Place, Sendable, control, scheduler, executor
<1>11. CASE SerialStart
  <2>1. Root \in Item
    BY TreeAssumption
  <2>2. frames' \in Seq(Seq(Item))
    <3>1. <<Root>> \in Seq(Item)
      BY <2>1
    <3>2. <<<<Root>>>> \in Seq(Seq(Item))
      BY <3>1
    <3> QED BY <1>c, <1>11, <3>2 DEF SerialStart
  <2>3. /\ pc' \in {"offer", "serial"} /\ target' = target /\ offer' \in Sendable
        /\ after' \in {after, "ended"} /\ (pc' = "offer" => after' = "ended")
    BY <1>c, <1>11 DEF SerialStart, Offer, Goto, Sendable
  <2> QED BY <1>c, <2>2, <2>3 DEF Place
<1>12. CASE SerialNext
  <2>1. CASE frames = <<>> \/ cancelled
    BY <1>c, <1>12, <2>1 DEF SerialNext, Goto, Place
  <2>2. CASE frames # <<>> /\ ~cancelled
    <3>1. Last(frames) \in Seq(Item) /\ Front(frames) \in Seq(Seq(Item))
      BY <1>c, <2>2, FrontFacts
    <3>2. CASE Last(frames) = <<>>
      BY <1>c, <1>12, <2>2, <3>1, <3>2 DEF SerialNext, Goto, Place
    <3>3. CASE Last(frames) # <<>>
      <4> DEFINE rest(i) == Append(Front(frames), RemoveAt(Last(frames), i))
      <4>1. PICK i \in DOMAIN Last(frames) :
              /\ frames' = Open(rest(i), Last(frames)[i]) /\ target' = target
              /\ pc' \in {"ended", "serial", "offer"} /\ after' \in {"ended", "serial"}
              /\ offer' = Last(frames)[i]
        BY <1>12, <2>2, <3>3 DEF SerialNext, Offer
      <4>2. Last(frames)[i] \in Item /\ RemoveAt(Last(frames), i) \in Seq(Item)
        BY <3>1, RemoveAtType
      <4>3. rest(i) \in Seq(Seq(Item))
        BY <3>1, <4>2, AppendFacts
      <4> HIDE DEF rest
      <4>4. frames' \in Seq(Seq(Item))
        <5>1. CASE Last(frames)[i] \in Dir
          <6>1. InPathOrder(Entries[Last(frames)[i]]) \in Seq(Item)
            BY <5>1, OpenType
          <6> QED BY <4>1, <4>3, <5>1, <6>1, AppendFacts DEF Open
        <5>2. CASE Last(frames)[i] \notin Dir
          BY <4>1, <4>3, <5>2 DEF Open
        <5> QED BY <5>1, <5>2
      <4> QED BY <1>c, <4>1, <4>2, <4>4 DEF Place, Sendable
    <3> QED BY <3>2, <3>3
  <2> QED BY <2>1, <2>2
<1>13. CASE Consumer \/ CallNext \/ DropReceiver \/ UNCHANGED vars
  BY <1>c, <1>13, ConsumerSteps DEF ConsumerStep
<1>14. ASSUME NEW d \in Dir, Read(d) PROVE CoordinatorType'
  BY <1>c, <1>14 DEF Read, control
<1> QED BY <1>1, <1>2, <1>3, <1>4, <1>5, <1>6, <1>7, <1>8, <1>9, <1>10, <1>11, <1>12, <1>13, <1>14
        DEF Next, Coordinator

\* What the steps do to the reads: the seven kinds of them.
Still == UNCHANGED <<queued, outstanding, ready, reading, results, reads>>
Cleared == queued' = <<>> /\ UNCHANGED <<outstanding, ready, reading, results, reads>>
Begun ==
  /\ pc = "rooted" /\ Root \in Dir
  /\ queued' = <<Root>> /\ UNCHANGED <<outstanding, ready, reading, results, reads>>
Accepted ==
  /\ queued # <<>> /\ outstanding < Limit
  /\ queued' = Tail(queued) /\ outstanding' = outstanding + 1
  /\ reading' = reading \cup {Head(queued)} /\ reads' = [reads EXCEPT ![Head(queued)] = @ + 1]
  /\ UNCHANGED <<ready, results>>
Expanded(b) ==
  /\ b \in ready /\ ready' = ready \ {b}
  /\ queued' \in {<<>>, InPathOrder(b.entries \cap Dir) \o queued}
  /\ UNCHANGED <<outstanding, reading, results, reads>>
Received ==
  /\ results # <<>> /\ results' = Tail(results)
  /\ outstanding' = outstanding - 1
  /\ queued' \in {queued, <<>>}
  /\ ready' \in {ready, ready \cup {Batch(Head(results).dir, Head(results).entries)}}
  /\ UNCHANGED <<reading, reads>>
Finished(d, r) ==
  /\ d \in reading /\ r \in ResultType /\ r.dir = d
  /\ reading' = reading \ {d} /\ results' = Append(results, r)
  /\ UNCHANGED <<queued, outstanding, ready, reads>>

ReadKinds ==
  \/ Still \/ Cleared \/ Begun \/ Accepted \/ (\E b \in ready : Expanded(b)) \/ Received
  \/ \E d \in Dir : \E r \in ResultType : Finished(d, r)

LEMMA ReadIsFinished ==
  ASSUME TypeInv, NEW d \in Dir, Read(d)
  PROVE  \E r \in ResultType : Finished(d, r)
<1>1. CASE \E S \in Batches(d) : results' = Append(results, Result(d, FALSE, S))
  <2>1. PICK S \in SUBSET Entries[d] : results' = Append(results, Result(d, FALSE, S))
    BY <1>1 DEF Batches
  <2>2. S \in SUBSET Item
    BY EntriesFinite
  <2>3. Result(d, FALSE, S) \in ResultType /\ Result(d, FALSE, S).dir = d
    BY <2>2 DEF Result, ResultType
  <2> QED BY <2>1, <2>3 DEF Read, Finished, scheduler
<1>2. CASE results' = Append(results, Result(d, TRUE, {}))
  <2>1. Result(d, TRUE, {}) \in ResultType /\ Result(d, TRUE, {}).dir = d
    BY DEF Result, ResultType
  <2> QED BY <1>2, <2>1 DEF Read, Finished, scheduler
<1> QED BY <1>1, <1>2 DEF Read

LEMMA StepKinds == TypeInv /\ [Next]_vars => ReadKinds
<1> SUFFICES ASSUME TypeInv, [Next]_vars PROVE ReadKinds
  OBVIOUS
<1> USE DEF scheduler, executor, control
<1>1. CASE Sent \/ Start \/ RefillEnds \/ DrainEnds \/ SerialStart \/ SerialNext
  <2>1. Still
    BY <1>1 DEF Sent, Start, RefillEnds, DrainEnds, SerialStart, SerialNext, Still
  <2> QED BY <2>1 DEF ReadKinds
<1>2. CASE SendFailed \/ Reject \/ Other \/ Drive \/ Emitted
  <2>1. Still \/ Cleared
    BY <1>2 DEF SendFailed, Reject, Other, Drive, Emitted, StartDrain, Still, Cleared
  <2> QED BY <2>1 DEF ReadKinds
<1>3. CASE Rooted
  <2>1. Still \/ Begun
    BY <1>3 DEF Rooted, StopsAtRoot, Goto, Still, Begun
  <2> QED BY <2>1 DEF ReadKinds
<1>4. CASE Accept
  <2>1. Accepted
    BY <1>4 DEF Accept, RefillGoesOn, Accepted
  <2> QED BY <2>1 DEF ReadKinds
<1>5. CASE Wait \/ Matched
  <2>1. UNCHANGED <<outstanding, reading, results, reads>>
    BY <1>5 DEF Wait, Matched
  <2>2. CASE ready' = ready /\ (StartDrain("report") \/ queued' = queued)
    <3>1. Still \/ Cleared
      BY <2>1, <2>2 DEF StartDrain, Still, Cleared
    <3> QED BY <3>1 DEF ReadKinds
  <2>3. CASE \E b \in ready : ready' = ready \ {b} /\ PrepareFrame(b)
    <3>1. PICK b \in ready : ready' = ready \ {b} /\ PrepareFrame(b)
      BY <2>3
    <3>2. queued' = InPathOrder(b.entries \cap Dir) \o queued
      BY <3>1, PreparedType DEF Prepared
    <3>3. Expanded(b)
      BY <2>1, <3>1, <3>2 DEF Expanded
    <3> QED BY <3>3 DEF ReadKinds
  <2>4. CASE Matched /\ scheduleError
    <3>1. PICK b \in ready : ready' = ready \ {b} /\ StartDrain("report")
      BY <2>4 DEF Matched
    <3>2. Expanded(b)
      BY <2>1, <3>1 DEF StartDrain, Expanded
    <3> QED BY <3>2 DEF ReadKinds
  <2> QED BY <1>5, <2>2, <2>3, <2>4 DEF Wait, Matched
<1>6. CASE Receive
  <2>1. Received
    BY <1>6 DEF Receive, AfterResult, StartDrain, Received
  <2> QED BY <2>1 DEF ReadKinds
<1>7. CASE DrainOne
  <2>1. Received
    BY <1>7 DEF DrainOne, AfterResult, Received
  <2> QED BY <2>1 DEF ReadKinds
<1>8. CASE Consumer \/ CallNext \/ DropReceiver \/ UNCHANGED vars
  <2>1. Still
    BY <1>8, ConsumerSteps DEF ConsumerStep, Still
  <2> QED BY <2>1 DEF ReadKinds
<1>9. ASSUME NEW d \in Dir, Read(d) PROVE ReadKinds
  BY <1>9, ReadIsFinished DEF ReadKinds
<1> QED BY <1>1, <1>2, <1>3, <1>4, <1>5, <1>6, <1>7, <1>8, <1>9 DEF Next, Coordinator

LEMMA StepReadsType == TypeInv /\ ReadKinds => ReadsType' /\ queued' \in Seq(Dir) /\ outstanding' \in Int /\ ready' \subseteq BatchType
<1> SUFFICES ASSUME TypeInv, ReadKinds
    PROVE  ReadsType' /\ queued' \in Seq(Dir) /\ outstanding' \in Int /\ ready' \subseteq BatchType
  OBVIOUS
<1>t. /\ queued \in Seq(Dir) /\ outstanding \in Int /\ ready \subseteq BatchType
      /\ reading \subseteq Dir /\ results \in Seq(ResultType) /\ reads \in [Dir -> Int]
  BY DEF TypeInv, SchedulerType, ReadsType
<1>1. CASE Still
  BY <1>1, <1>t DEF Still, ReadsType
<1>2. CASE Cleared
  BY <1>2, <1>t DEF Cleared, ReadsType
<1>3. CASE Begun
  BY <1>3, <1>t DEF Begun, ReadsType
<1>4. CASE Accepted
  <2>1. Head(queued) \in Dir /\ Tail(queued) \in Seq(Dir)
    BY <1>4, <1>t, TailFacts DEF Accepted
  <2>2. reads' \in [Dir -> Int]
    BY <1>4, <1>t, <2>1 DEF Accepted
  <2> QED BY <1>4, <1>t, <2>1, <2>2 DEF Accepted, ReadsType
<1>5. ASSUME NEW b \in ready, Expanded(b)
      PROVE  ReadsType' /\ queued' \in Seq(Dir) /\ outstanding' \in Int /\ ready' \subseteq BatchType
  <2>1. b \in BatchType
    BY <1>t
  <2>2. InPathOrder(b.entries \cap Dir) \in Seq(Dir)
    BY <2>1, BatchOrder
  <2>3. InPathOrder(b.entries \cap Dir) \o queued \in Seq(Dir)
    BY <1>t, <2>2, ConcatFacts
  <2>4. queued' \in Seq(Dir)
    <3>1. <<>> \in Seq(Dir)
      OBVIOUS
    <3>2. queued' = <<>> \/ queued' = InPathOrder(b.entries \cap Dir) \o queued
      BY <1>5 DEF Expanded
    <3> QED BY <2>3, <3>1, <3>2
  <2> QED BY <1>5, <1>t, <2>4 DEF Expanded, ReadsType
<1>6. CASE Received
  <2>1. Head(results) \in ResultType /\ Tail(results) \in Seq(ResultType)
    BY <1>6, <1>t, TailFacts DEF Received
  <2>2. Batch(Head(results).dir, Head(results).entries) \in BatchType
    BY <2>1 DEF Batch, BatchType, ResultType
  <2>3. queued' \in Seq(Dir)
    <3>1. <<>> \in Seq(Dir)
      OBVIOUS
    <3>2. queued' = queued \/ queued' = <<>>
      BY <1>6, Zenon DEF Received
    <3> QED BY <1>t, <3>1, <3>2, Zenon
  <2>4. ready' \subseteq BatchType
    BY <1>6, <1>t, <2>2, Zenon DEF Received
  <2>5. outstanding' \in Int /\ results' = Tail(results) /\ UNCHANGED <<reading, reads>>
    BY <1>6, <1>t DEF Received
  <2> QED BY <1>t, <2>1, <2>3, <2>4, <2>5 DEF ReadsType
<1>7. ASSUME NEW d \in Dir, NEW r \in ResultType, Finished(d, r)
      PROVE  ReadsType' /\ queued' \in Seq(Dir) /\ outstanding' \in Int /\ ready' \subseteq BatchType
  <2>1. Append(results, r) \in Seq(ResultType)
    BY <1>t, AppendFacts
  <2> QED BY <1>7, <1>t, <2>1 DEF Finished, ReadsType
<1> QED BY <1>1, <1>2, <1>3, <1>4, <1>5, <1>6, <1>7 DEF ReadKinds

LEMMA StepScheduleErrorType == TypeInv /\ [Next]_vars => scheduleError' \in BOOLEAN
<1> SUFFICES ASSUME TypeInv, [Next]_vars PROVE scheduleError' \in BOOLEAN
  OBVIOUS
<1> USE DEF scheduler
<1>1. scheduleError \in BOOLEAN
  BY DEF TypeInv, SchedulerType
<1>2. CASE Coordinator
  <2>1. scheduleError' = scheduleError \/ scheduleError' = TRUE \/ scheduleError' = FALSE
    BY <1>2 DEF Coordinator, Sent, SendFailed, Start, Rooted, Accept, Reject, RefillEnds, Wait, Receive,
                Matched, Other, Drive, Emitted, DrainOne, DrainEnds, SerialStart, SerialNext
  <2> QED BY <1>1, <2>1, Zenon
<1>3. CASE Consumer \/ CallNext \/ DropReceiver \/ UNCHANGED vars
  BY <1>1, <1>3, ConsumerSteps, Zenon DEF ConsumerStep
<1>4. ASSUME NEW d \in Dir, Read(d) PROVE scheduleError' \in BOOLEAN
  BY <1>1, <1>4, Zenon DEF Read
<1> QED BY <1>2, <1>3, <1>4 DEF Next

LEMMA StepType == TypeInv /\ [Next]_vars => TypeInv'
BY StepKinds, StepReadsType, StepScheduleErrorType, StepCoordinatorType, StepConsumerType
   DEF TypeInv, SchedulerType

-----------------------------------------------------------------------------
(* A directory is read once, and its read is in one place until it is over *)

Waiting(d) == \E i \in DOMAIN queued : queued[i] = d
Answered(d) == \E i \in DOMAIN results : results[i].dir = d
Kept(d) == \E b \in ready : b.dir = d

\* What is queued was never read; what is read, answered or kept was read once.
QueueInv ==
  /\ \A i, j \in DOMAIN queued : queued[i] = queued[j] => i = j
  /\ \A i \in DOMAIN queued : reads[queued[i]] = 0
FlightInv ==
  /\ reads \in [Dir -> 0 .. 1]
  /\ \A d \in Dir : d \in reading \/ Answered(d) \/ Kept(d) => reads[d] = 1
  /\ \A d \in Dir : d \in reading => ~Answered(d) /\ ~Kept(d)
  /\ \A d \in Dir : Answered(d) => ~Kept(d)
  /\ \A i, j \in DOMAIN results : results[i].dir = results[j].dir => i = j
  /\ \A b, c \in ready : b.dir = c.dir => b = c
CountInv ==
  /\ IsFiniteSet(reading) /\ outstanding = Cardinality(reading) + Len(results)
  /\ outstanding \in 0 .. Limit

\* A directory is found by one read only: its parent's, when that is over.
Found(d) == Waiting(d) \/ reads[d] = 1
ParentInv ==
  \A p \in Dir : \A c \in Entries[p] \cap Dir :
     Found(c) => reads[p] = 1 /\ p \notin reading /\ ~Answered(p) /\ ~Kept(p)

\* Nothing is queued or read before the root is.
StartInv ==
  pc \in {"start", "rooted"} \/ (pc = "offer" /\ after = "rooted") =>
    queued = <<>> /\ \A d \in Dir : reads[d] = 0

ReadInv == QueueInv /\ FlightInv /\ CountInv /\ ParentInv /\ StartInv

LEMMA InitRead == Init => ReadInv
<1> SUFFICES ASSUME Init PROVE ReadInv
  OBVIOUS
<1>1. queued = <<>> /\ results = <<>> /\ ready = {} /\ reading = {} /\ outstanding = 0 /\ reads = [d \in Dir |-> 0]
  BY Zenon DEF Init
<1>2. QueueInv /\ StartInv
  BY <1>1 DEF QueueInv, StartInv
<1>3. \A d \in Dir : ~Waiting(d) /\ ~Answered(d) /\ ~Kept(d) /\ reads[d] = 0
  BY <1>1 DEF Waiting, Answered, Kept
<1>4. FlightInv
  BY <1>1, <1>3 DEF FlightInv
<1>5. CountInv
  BY <1>1, FS_EmptySet, OptionsAssumption DEF CountInv
<1>6. ParentInv
  BY <1>3 DEF ParentInv, Found
<1> QED BY <1>2, <1>4, <1>5, <1>6 DEF ReadInv

\* The places a directory can be in, after a step of each kind.
LEMMA AcceptedPlaces ==
  ASSUME TypeInv, Accepted
  PROVE  /\ Head(queued) \in Dir /\ Waiting(Head(queued))
         /\ \A d \in Dir : Waiting(d)' => Waiting(d)
         /\ \A d \in Dir : Waiting(d) => Waiting(d)' \/ d = Head(queued)
         /\ \A d \in Dir : Answered(d)' = Answered(d) /\ Kept(d)' = Kept(d)
         /\ reads' = [reads EXCEPT ![Head(queued)] = reads[Head(queued)] + 1]
<1>t. queued \in Seq(Dir) /\ queued # <<>> /\ queued' = Tail(queued)
  BY DEF TypeInv, SchedulerType, Accepted
<1>1. /\ Head(queued) \in Dir /\ 1 \in DOMAIN queued /\ queued[1] = Head(queued)
      /\ \A i \in DOMAIN queued' : i + 1 \in DOMAIN queued /\ queued'[i] = queued[i + 1]
      /\ \A i \in DOMAIN queued : i # 1 => i - 1 \in DOMAIN queued' /\ queued'[i - 1] = queued[i]
  BY <1>t, TailFacts
<1>2. Waiting(Head(queued))
  BY <1>1, Zenon DEF Waiting
<1>3. ASSUME NEW d \in Dir, Waiting(d)' PROVE Waiting(d)
  BY <1>1, <1>3 DEF Waiting
<1>4. ASSUME NEW d \in Dir, Waiting(d), d # Head(queued) PROVE Waiting(d)'
  <2>1. PICK i \in DOMAIN queued : queued[i] = d
    BY <1>4 DEF Waiting
  <2>2. i # 1
    BY <1>1, <1>4, <2>1
  <2> QED BY <1>1, <2>1, <2>2 DEF Waiting
<1>5. ASSUME NEW d \in Dir PROVE Answered(d)' = Answered(d) /\ Kept(d)' = Kept(d)
  BY DEF Accepted, Answered, Kept
<1>6. reads' = [reads EXCEPT ![Head(queued)] = reads[Head(queued)] + 1]
  BY DEF Accepted
<1> QED BY <1>1, <1>2, <1>3, <1>4, <1>5, <1>6

LEMMA ExpandedPlaces ==
  ASSUME TypeInv, ReadInv, NEW b \in ready, Expanded(b)
  PROVE  /\ b \in BatchType /\ b.dir \in Dir /\ Kept(b.dir)
         /\ \A d \in Dir : Waiting(d)' => Waiting(d) \/ d \in b.entries \cap Dir
         /\ \A d \in Dir : Answered(d)' = Answered(d)
         /\ \A d \in Dir : Kept(d)' <=> Kept(d) /\ d # b.dir
         /\ reads' = reads /\ reading' = reading
<1>t. queued \in Seq(Dir) /\ b \in BatchType
  BY DEF TypeInv, SchedulerType
<1>1. b.dir \in Dir /\ Kept(b.dir)
  BY <1>t DEF BatchType, Kept
<1>2. ASSUME NEW d \in Dir, Waiting(d)' PROVE Waiting(d) \/ d \in b.entries \cap Dir
  <2> DEFINE front == InPathOrder(b.entries \cap Dir)
  <2>1. front \in Seq(Dir) /\ \A k \in DOMAIN front : front[k] \in b.entries \cap Dir
    BY <1>t, BatchOrder
  <2> HIDE DEF front
  <2>2. PICK i \in DOMAIN queued' : queued'[i] = d
    BY <1>2 DEF Waiting
  <2>3. queued' = <<>> \/ queued' = front \o queued
    BY Zenon DEF Expanded, front
  <2>4. queued' = front \o queued
    BY <2>2, <2>3
  <2>5. \/ i \in DOMAIN front /\ d = front[i]
        \/ i - Len(front) \in DOMAIN queued /\ d = queued[i - Len(front)]
    BY <1>t, <2>1, <2>2, <2>4, ConcatFacts
  <2>6. CASE i \in DOMAIN front /\ d = front[i]
    BY <2>1, <2>6
  <2>7. CASE i - Len(front) \in DOMAIN queued /\ d = queued[i - Len(front)]
    BY <2>7, Zenon DEF Waiting
  <2> QED BY <2>5, <2>6, <2>7
<1>3. ASSUME NEW d \in Dir PROVE Answered(d)' = Answered(d)
  BY DEF Expanded, Answered
<1>4. ASSUME NEW d \in Dir PROVE Kept(d)' <=> Kept(d) /\ d # b.dir
  <2>1. ready' = ready \ {b}
    BY DEF Expanded
  <2>2. \A c \in ready : c.dir = b.dir => c = b
    BY DEF ReadInv, FlightInv
  <2> QED BY <2>1, <2>2, Zenon DEF Kept
<1>5. reads' = reads /\ reading' = reading
  BY DEF Expanded
<1> QED BY <1>t, <1>1, <1>2, <1>3, <1>4, <1>5

LEMMA ReceivedPlaces ==
  ASSUME TypeInv, ReadInv, Received
  PROVE  /\ Head(results) \in ResultType /\ Head(results).dir \in Dir /\ Answered(Head(results).dir)
         /\ \A d \in Dir : Waiting(d)' => Waiting(d)
         /\ \A d \in Dir : Answered(d)' <=> Answered(d) /\ d # Head(results).dir
         /\ \A d \in Dir : Kept(d)' => Kept(d) \/ d = Head(results).dir
         /\ reads' = reads /\ reading' = reading
         /\ Len(results') = Len(results) - 1 /\ Len(results) > 0
<1> DEFINE r == Head(results)
<1>t. results \in Seq(ResultType) /\ results # <<>> /\ results' = Tail(results)
  BY DEF TypeInv, ReadsType, Received
<1>1. /\ r \in ResultType /\ 1 \in DOMAIN results /\ results[1] = r
      /\ \A i \in DOMAIN results' : i + 1 \in DOMAIN results /\ results'[i] = results[i + 1]
      /\ \A i \in DOMAIN results : i # 1 => i - 1 \in DOMAIN results' /\ results'[i - 1] = results[i]
      /\ Len(results') = Len(results) - 1 /\ Len(results) > 0
  BY <1>t, TailFacts
<1> HIDE DEF r
<1>2. r.dir \in Dir /\ Answered(r.dir)
  BY <1>1, Zenon DEF ResultType, Answered
<1>3. ASSUME NEW d \in Dir, Waiting(d)' PROVE Waiting(d)
  <2>1. queued' = queued \/ queued' = <<>>
    BY Zenon DEF Received
  <2> QED BY <1>3, <2>1 DEF Waiting
<1>4. ASSUME NEW d \in Dir PROVE Answered(d)' <=> Answered(d) /\ d # r.dir
  <2>1. ASSUME Answered(d)' PROVE Answered(d) /\ d # r.dir
    <3>1. PICK i \in DOMAIN results' : results'[i].dir = d
      BY <2>1 DEF Answered
    <3>2. i + 1 \in DOMAIN results /\ results[i + 1].dir = d /\ i + 1 # 1
      BY <1>1, <1>t, <3>1
    <3>3. \A k, l \in DOMAIN results : results[k].dir = results[l].dir => k = l
      BY DEF ReadInv, FlightInv
    <3> QED BY <1>1, <3>2, <3>3, Zenon DEF Answered
  <2>2. ASSUME Answered(d), d # r.dir PROVE Answered(d)'
    <3>1. PICK i \in DOMAIN results : results[i].dir = d
      BY <2>2 DEF Answered
    <3>2. i # 1
      BY <1>1, <2>2, <3>1
    <3>3. i - 1 \in DOMAIN results' /\ results'[i - 1].dir = d
      BY <1>1, <3>1, <3>2
    <3> QED BY <3>3, Zenon DEF Answered
  <2> QED BY <2>1, <2>2
<1>5. ASSUME NEW d \in Dir, Kept(d)' PROVE Kept(d) \/ d = r.dir
  <2>1. ready' = ready \/ ready' = ready \cup {Batch(r.dir, r.entries)}
    BY Zenon DEF Received, r
  <2>2. PICK c \in ready' : c.dir = d
    BY <1>5 DEF Kept
  <2>3. c \in ready \/ c = Batch(r.dir, r.entries)
    BY <2>1, <2>2
  <2> QED BY <2>2, <2>3 DEF Kept, Batch
<1>6. reads' = reads /\ reading' = reading
  BY DEF Received
<1> QED BY <1>1, <1>2, <1>3, <1>4, <1>5, <1>6 DEF r

LEMMA FinishedPlaces ==
  ASSUME TypeInv, NEW d \in Dir, NEW r \in ResultType, Finished(d, r)
  PROVE  /\ d \in reading /\ reading' = reading \ {d} /\ reads' = reads
         /\ \A c \in Dir : Answered(c)' <=> Answered(c) \/ c = d
         /\ \A c \in Dir : Waiting(c)' = Waiting(c) /\ Kept(c)' = Kept(c)
         /\ Len(results') = Len(results) + 1
<1>t. results \in Seq(ResultType) /\ results' = Append(results, r) /\ r.dir = d
  BY DEF TypeInv, ReadsType, Finished
<1>1. /\ Len(results') = Len(results) + 1
      /\ Len(results) + 1 \in DOMAIN results' /\ results'[Len(results) + 1] = r
      /\ \A i \in DOMAIN results : i \in DOMAIN results' /\ results'[i] = results[i]
      /\ \A i \in DOMAIN results' : i \in DOMAIN results \/ i = Len(results) + 1
  BY <1>t, AppendFacts
<1>2. ASSUME NEW c \in Dir PROVE Answered(c)' <=> Answered(c) \/ c = d
  <2>1. ASSUME Answered(c)' PROVE Answered(c) \/ c = d
    <3>1. PICK i \in DOMAIN results' : results'[i].dir = c
      BY <2>1 DEF Answered
    <3>2. CASE i \in DOMAIN results
      BY <1>1, <3>1, <3>2 DEF Answered
    <3>3. CASE i = Len(results) + 1
      BY <1>1, <1>t, <3>1, <3>3
    <3> QED BY <1>1, <3>1, <3>2, <3>3
  <2>2. Answered(c) => Answered(c)'
    BY <1>1, Zenon DEF Answered
  <2>3. c = d => Answered(c)'
    BY <1>1, <1>t, Zenon DEF Answered
  <2> QED BY <2>1, <2>2, <2>3
<1>3. ASSUME NEW c \in Dir PROVE Waiting(c)' = Waiting(c) /\ Kept(c)' = Kept(c)
  BY DEF Finished, Waiting, Kept
<1> QED BY <1>1, <1>2, <1>3 DEF Finished

LEMMA StillPlaces ==
  ASSUME Still \/ Cleared
  PROVE  /\ \A d \in Dir : Waiting(d)' => Waiting(d)
         /\ \A d \in Dir : Answered(d)' = Answered(d) /\ Kept(d)' = Kept(d)
         /\ reads' = reads /\ reading' = reading /\ ready' = ready /\ results' = results
         /\ outstanding' = outstanding
<1>1. UNCHANGED <<ready, results, reads, reading, outstanding>> /\ (queued' = queued \/ queued' = <<>>)
  BY DEF Still, Cleared
<1>2. ASSUME NEW d \in Dir PROVE Waiting(d)' => Waiting(d)
  BY <1>1 DEF Waiting
<1>3. ASSUME NEW d \in Dir PROVE Answered(d)' = Answered(d) /\ Kept(d)' = Kept(d)
  BY <1>1 DEF Answered, Kept
<1> QED BY <1>1, <1>2, <1>3

LEMMA BegunPlaces ==
  ASSUME TypeInv, ReadInv, Begun
  PROVE  /\ \A d \in Dir : Waiting(d)' => d = Root
         /\ \A d \in Dir : Answered(d)' = Answered(d) /\ Kept(d)' = Kept(d)
         /\ reads' = reads /\ reading' = reading /\ ready' = ready /\ results' = results
         /\ outstanding' = outstanding
         /\ \A d \in Dir : reads[d] = 0
<1>1. UNCHANGED <<ready, results, reads, reading, outstanding>> /\ queued' = <<Root>>
  BY DEF Begun
<1>2. ASSUME NEW d \in Dir PROVE Waiting(d)' => d = Root
  BY <1>1 DEF Waiting
<1>3. ASSUME NEW d \in Dir PROVE Answered(d)' = Answered(d) /\ Kept(d)' = Kept(d)
  BY <1>1 DEF Answered, Kept
<1>4. \A d \in Dir : reads[d] = 0
  BY DEF Begun, ReadInv, StartInv
<1> QED BY <1>1, <1>2, <1>3, <1>4

\* The children of a batch that is still kept were never found.
LEMMA ChildrenAreNew ==
  ASSUME TypeInv, ReadInv, NEW b \in ready, NEW c \in b.entries \cap Dir
  PROVE  ~Waiting(c) /\ reads[c] = 0
<1>1. b \in BatchType
  BY DEF TypeInv, SchedulerType
<1>2. b.dir \in Dir /\ Kept(b.dir) /\ c \in Entries[b.dir] \cap Dir
  BY <1>1 DEF BatchType, Kept
<1>3. ~Found(c)
  BY <1>2 DEF ReadInv, ParentInv
<1>4. reads[c] \in 0 .. 1
  BY DEF ReadInv, FlightInv
<1> QED BY <1>3, <1>4 DEF Found

LEMMA StepQueue == TypeInv /\ ReadInv /\ ReadKinds => QueueInv'
<1> SUFFICES ASSUME TypeInv, ReadInv, ReadKinds PROVE QueueInv'
  OBVIOUS
<1>t. queued \in Seq(Dir) /\ QueueInv
  BY DEF TypeInv, SchedulerType, ReadInv
<1>1. CASE reads' = reads /\ queued' = queued
  BY <1>1, <1>t DEF QueueInv
<1>2. CASE queued' = <<>>
  BY <1>2 DEF QueueInv
<1>3. CASE Begun
  <2>1. queued' = <<Root>> /\ reads'[Root] = 0
    BY <1>3, BegunPlaces DEF Begun
  <2> QED BY <2>1 DEF QueueInv
<1>4. CASE Accepted
  <2>1. queued # <<>> /\ queued' = Tail(queued)
    BY <1>4 DEF Accepted
  <2>2. \A i \in DOMAIN queued' : i \in Int /\ i >= 1 /\ i + 1 \in DOMAIN queued /\ queued'[i] = queued[i + 1]
    BY <1>t, <2>1, TailFacts
  <2>3. 1 \in DOMAIN queued /\ queued[1] = Head(queued)
    BY <1>t, <2>1, TailFacts
  <2>4. \A i, j \in DOMAIN queued' : queued'[i] = queued'[j] => i = j
    <3> SUFFICES ASSUME NEW i \in DOMAIN queued', NEW j \in DOMAIN queued', queued'[i] = queued'[j]
        PROVE  i = j
      OBVIOUS
    <3>1. i + 1 = j + 1
      BY <1>t, <2>2 DEF QueueInv
    <3> QED BY <2>2, <3>1
  <2>5. ASSUME NEW i \in DOMAIN queued' PROVE reads'[queued'[i]] = 0
    <3>1. queued[i + 1] # queued[1]
      BY <1>t, <2>2, <2>3 DEF QueueInv
    <3>2. reads' = [reads EXCEPT ![Head(queued)] = reads[Head(queued)] + 1]
      BY <1>4 DEF Accepted
    <3>3. reads \in [Dir -> Int] /\ queued[i + 1] \in Dir
      BY <1>t, <2>2 DEF TypeInv, ReadsType
    <3>4. reads'[queued'[i]] = reads[queued[i + 1]]
      BY <2>2, <2>3, <3>1, <3>2, <3>3
    <3> QED BY <1>t, <2>2, <3>4 DEF QueueInv
  <2> QED BY <2>4, <2>5 DEF QueueInv
<1>5. ASSUME NEW b \in ready, Expanded(b), queued' # <<>> PROVE QueueInv'
  <2> DEFINE front == InPathOrder(b.entries \cap Dir)
  <2>1. b \in BatchType
    BY DEF TypeInv, SchedulerType
  <2>2. /\ front \in Seq(Dir)
        /\ \A k \in DOMAIN front : front[k] \in b.entries \cap Dir
        /\ \A k, l \in DOMAIN front : front[k] = front[l] => k = l
    BY <2>1, BatchOrder
  <2>3. queued' = front \o queued /\ reads' = reads
    BY <1>5, Zenon DEF Expanded
  <2> HIDE DEF front
  <2>4. \A i \in DOMAIN queued' :
          \/ i \in DOMAIN front /\ queued'[i] = front[i]
          \/ i \notin DOMAIN front /\ i - Len(front) \in DOMAIN queued /\ queued'[i] = queued[i - Len(front)]
    BY <1>t, <2>2, <2>3, ConcatFacts
  <2>5. \A k \in DOMAIN front : ~Waiting(front[k]) /\ reads[front[k]] = 0
    BY <2>2, ChildrenAreNew
  <2>6. \A k \in DOMAIN front, i \in DOMAIN queued : front[k] # queued[i]
    BY <2>5, Zenon DEF Waiting
  <2>7. DOMAIN queued' \subseteq Int /\ Len(front) \in Int
    BY <1>t, <2>2, <2>3, ConcatFacts
  <2>8. \A i, j \in DOMAIN queued' : queued'[i] = queued'[j] => i = j
    <3> SUFFICES ASSUME NEW i \in DOMAIN queued', NEW j \in DOMAIN queued', queued'[i] = queued'[j]
        PROVE  i = j
      OBVIOUS
    <3>1. CASE i \in DOMAIN front /\ j \in DOMAIN front
      BY <2>2, <2>4, <3>1
    <3>2. CASE i \notin DOMAIN front /\ j \notin DOMAIN front
      <4>1. i - Len(front) = j - Len(front)
        BY <1>t, <2>4, <3>2 DEF QueueInv
      <4> QED BY <2>7, <4>1
    <3>3. CASE i \in DOMAIN front /\ j \notin DOMAIN front
      BY <2>4, <2>6, <3>3
    <3>4. CASE i \notin DOMAIN front /\ j \in DOMAIN front
      BY <2>4, <2>6, <3>4
    <3> QED BY <3>1, <3>2, <3>3, <3>4
  <2>9. \A i \in DOMAIN queued' : reads'[queued'[i]] = 0
    BY <1>t, <2>3, <2>4, <2>5 DEF QueueInv
  <2> QED BY <2>8, <2>9 DEF QueueInv
<1>6. CASE Still \/ Cleared \/ Received
  BY <1>1, <1>2, <1>6 DEF Still, Cleared, Received
<1>7. ASSUME NEW d \in Dir, NEW r \in ResultType, Finished(d, r) PROVE QueueInv'
  BY <1>1, <1>7 DEF Finished
<1> QED BY <1>2, <1>3, <1>4, <1>5, <1>6, <1>7 DEF ReadKinds

LEMMA StepFlight == TypeInv /\ ReadInv /\ ReadKinds => FlightInv'
<1> SUFFICES ASSUME TypeInv, ReadInv, ReadKinds PROVE FlightInv'
  OBVIOUS
<1>t. FlightInv /\ results \in Seq(ResultType) /\ reading \subseteq Dir
  BY DEF TypeInv, ReadsType, ReadInv
<1>1. CASE Still \/ Cleared \/ Begun
  <2>1. /\ \A d \in Dir : Answered(d)' = Answered(d) /\ Kept(d)' = Kept(d)
        /\ reads' = reads /\ reading' = reading /\ ready' = ready /\ results' = results
    BY <1>1, StillPlaces, BegunPlaces
  <2> QED BY <1>t, <2>1 DEF FlightInv
<1>2. CASE Accepted
  <2> DEFINE h == Head(queued)
  <2>1. /\ h \in Dir /\ Waiting(h)
        /\ \A d \in Dir : Answered(d)' = Answered(d) /\ Kept(d)' = Kept(d)
        /\ reads' = [reads EXCEPT ![h] = reads[h] + 1]
    BY <1>2, AcceptedPlaces
  <2>2. reading' = reading \cup {h} /\ ready' = ready /\ results' = results
    BY <1>2 DEF Accepted
  <2> HIDE DEF h
  <2>3. reads[h] = 0
    BY <2>1 DEF Waiting, ReadInv, QueueInv
  <2>4. h \notin reading /\ ~Answered(h) /\ ~Kept(h)
    BY <1>t, <2>1, <2>3 DEF FlightInv
  <2>5. reads' \in [Dir -> 0 .. 1] /\ reads'[h] = 1 /\ \A d \in Dir : d # h => reads'[d] = reads[d]
    BY <1>t, <2>1, <2>3 DEF FlightInv
  <2>6. /\ \A i, j \in DOMAIN results' : results'[i].dir = results'[j].dir => i = j
        /\ \A b, c \in ready' : b.dir = c.dir => b = c
    BY <1>t, <2>2 DEF FlightInv
  <2>7. ASSUME NEW d \in Dir
        PROVE  /\ d \in reading' \/ Answered(d)' \/ Kept(d)' => reads'[d] = 1
               /\ d \in reading' => ~Answered(d)' /\ ~Kept(d)'
               /\ Answered(d)' => ~Kept(d)'
    BY <1>t, <2>1, <2>2, <2>4, <2>5 DEF FlightInv
  <2> QED BY <2>5, <2>6, <2>7 DEF FlightInv
<1>3. ASSUME NEW b \in ready, Expanded(b) PROVE FlightInv'
  <2>1. /\ \A d \in Dir : Answered(d)' = Answered(d)
        /\ \A d \in Dir : Kept(d)' => Kept(d)
        /\ reads' = reads /\ reading' = reading
    BY <1>3, ExpandedPlaces
  <2>2. ready' \subseteq ready /\ results' = results
    BY <1>3 DEF Expanded
  <2>3. /\ \A i, j \in DOMAIN results' : results'[i].dir = results'[j].dir => i = j
        /\ \A x, y \in ready' : x.dir = y.dir => x = y
    BY <1>t, <2>2 DEF FlightInv
  <2> QED BY <1>t, <2>1, <2>3 DEF FlightInv
<1>4. CASE Received
  <2> DEFINE h == Head(results)
  <2>1. /\ h.dir \in Dir /\ Answered(h.dir)
        /\ \A d \in Dir : Answered(d)' <=> Answered(d) /\ d # h.dir
        /\ \A d \in Dir : Kept(d)' => Kept(d) \/ d = h.dir
        /\ reads' = reads /\ reading' = reading
    BY <1>4, ReceivedPlaces
  <2>2. results # <<>> /\ results' = Tail(results)
    BY <1>4 DEF Received
  <2>3. ready' = ready \/ ready' = ready \cup {Batch(h.dir, h.entries)}
    BY <1>4, Zenon DEF Received
  <2> HIDE DEF h
  <2>4. \A i, j \in DOMAIN results' : results'[i].dir = results'[j].dir => i = j
    <3>1. \A i \in DOMAIN results' : i \in Int /\ i + 1 \in DOMAIN results /\ results'[i] = results[i + 1]
      BY <1>t, <2>2, TailFacts
    <3> SUFFICES ASSUME NEW i \in DOMAIN results', NEW j \in DOMAIN results', results'[i].dir = results'[j].dir
        PROVE  i = j
      OBVIOUS
    <3>2. i + 1 = j + 1
      BY <1>t, <3>1 DEF FlightInv
    <3> QED BY <3>1, <3>2
  <2>5. ~Kept(h.dir)
    BY <1>t, <2>1 DEF FlightInv
  <2>6. \A b, c \in ready' : b.dir = c.dir => b = c
    <3>1. \A b \in ready : b.dir # h.dir
      BY <2>5 DEF Kept
    <3>2. \A b, c \in ready : b.dir = c.dir => b = c
      BY <1>t DEF FlightInv
    <3>3. Batch(h.dir, h.entries).dir = h.dir
      BY DEF Batch
    <3> QED BY <2>3, <3>1, <3>2, <3>3
  <2>7. ASSUME NEW d \in Dir
        PROVE  /\ d \in reading' \/ Answered(d)' \/ Kept(d)' => reads'[d] = 1
               /\ d \in reading' => ~Answered(d)' /\ ~Kept(d)'
               /\ Answered(d)' => ~Kept(d)'
    BY <1>t, <2>1 DEF FlightInv
  <2>8. reads' \in [Dir -> 0 .. 1]
    BY <1>t, <2>1 DEF FlightInv
  <2> QED BY <2>4, <2>6, <2>7, <2>8 DEF FlightInv
<1>5. ASSUME NEW d \in Dir, NEW r \in ResultType, Finished(d, r) PROVE FlightInv'
  <2>1. /\ d \in reading /\ reading' = reading \ {d} /\ reads' = reads
        /\ \A c \in Dir : Answered(c)' <=> Answered(c) \/ c = d
        /\ \A c \in Dir : Kept(c)' = Kept(c)
    BY <1>5, FinishedPlaces
  <2>2. results' = Append(results, r) /\ r.dir = d /\ ready' = ready
    BY <1>5 DEF Finished
  <2>3. ~Answered(d)
    BY <1>t, <2>1 DEF FlightInv
  <2>4. \A i, j \in DOMAIN results' : results'[i].dir = results'[j].dir => i = j
    <3>1. /\ results'[Len(results) + 1] = r
          /\ \A i \in DOMAIN results : results'[i] = results[i]
          /\ \A i \in DOMAIN results' : i \in DOMAIN results \/ i = Len(results) + 1
      BY <1>t, <2>2, AppendFacts
    <3>2. \A i \in DOMAIN results : results[i].dir # d
      BY <2>3 DEF Answered
    <3> QED BY <1>t, <2>2, <3>1, <3>2 DEF FlightInv
  <2>5. ASSUME NEW c \in Dir
        PROVE  /\ c \in reading' \/ Answered(c)' \/ Kept(c)' => reads'[c] = 1
               /\ c \in reading' => ~Answered(c)' /\ ~Kept(c)'
               /\ Answered(c)' => ~Kept(c)'
    BY <1>t, <2>1 DEF FlightInv
  <2>6. reads' \in [Dir -> 0 .. 1] /\ \A b, c \in ready' : b.dir = c.dir => b = c
    BY <1>t, <2>1, <2>2 DEF FlightInv
  <2> QED BY <2>4, <2>5, <2>6 DEF FlightInv
<1> QED BY <1>1, <1>2, <1>3, <1>4, <1>5 DEF ReadKinds

LEMMA StepCount == TypeInv /\ ReadInv /\ ReadKinds => CountInv'
<1> SUFFICES ASSUME TypeInv, ReadInv, ReadKinds PROVE CountInv'
  OBVIOUS
<1>t. CountInv /\ Limit \in Nat /\ results \in Seq(ResultType) /\ Cardinality(reading) \in Nat /\ Len(results) \in Nat
  BY OptionsAssumption, FS_CardinalityType DEF TypeInv, ReadsType, ReadInv, CountInv
<1>1. CASE UNCHANGED <<outstanding, reading, results>>
  BY <1>1, <1>t DEF CountInv
<1>2. CASE Accepted
  <2> DEFINE h == Head(queued)
  <2>1. h \in Dir /\ Waiting(h)
    BY <1>2, AcceptedPlaces
  <2>2. /\ reading' = reading \cup {h} /\ results' = results
        /\ outstanding' = outstanding + 1 /\ outstanding < Limit
    BY <1>2 DEF Accepted
  <2> HIDE DEF h
  <2>3. h \notin reading
    BY <2>1 DEF Waiting, ReadInv, QueueInv, FlightInv
  <2>4. IsFiniteSet(reading') /\ Cardinality(reading') = Cardinality(reading) + 1
    BY <1>t, <2>2, <2>3, FS_AddElement DEF CountInv
  <2> QED BY <1>t, <2>2, <2>4 DEF CountInv
<1>3. CASE Received
  <2>1. reading' = reading /\ Len(results') = Len(results) - 1 /\ Len(results) > 0
    BY <1>3, ReceivedPlaces
  <2>2. outstanding' = outstanding - 1
    BY <1>3 DEF Received
  <2> QED BY <1>t, <2>1, <2>2 DEF CountInv
<1>4. ASSUME NEW d \in Dir, NEW r \in ResultType, Finished(d, r) PROVE CountInv'
  <2>1. d \in reading /\ reading' = reading \ {d} /\ Len(results') = Len(results) + 1
    BY <1>4, FinishedPlaces
  <2>2. IsFiniteSet(reading') /\ Cardinality(reading') = Cardinality(reading) - 1
    BY <1>t, <2>1, FS_RemoveElement DEF CountInv
  <2>3. outstanding' = outstanding
    BY <1>4 DEF Finished
  <2> QED BY <1>t, <2>1, <2>2, <2>3 DEF CountInv
<1> QED BY <1>1, <1>2, <1>3, <1>4 DEF ReadKinds, Still, Cleared, Begun, Expanded

LEMMA StepParent == TypeInv /\ ReadInv /\ ReadKinds => ParentInv'
<1> SUFFICES ASSUME TypeInv, ReadInv, ReadKinds,
                    NEW p \in Dir, NEW c \in Entries[p] \cap Dir, Found(c)'
    PROVE  reads'[p] = 1 /\ p \notin reading' /\ ~Answered(p)' /\ ~Kept(p)'
  BY DEF ParentInv
<1> DEFINE Over == reads[p] = 1 /\ p \notin reading /\ ~Answered(p) /\ ~Kept(p)
           OverNext == reads'[p] = 1 /\ p \notin reading' /\ ~Answered(p)' /\ ~Kept(p)'
<1>t. /\ Found(c) => Over
      /\ c \in Dir /\ p \in Dir /\ reads \in [Dir -> 0 .. 1]
  BY DEF ReadInv, ParentInv, FlightInv
<1>1. CASE Still \/ Cleared
  <2>1. /\ Waiting(c)' => Waiting(c)
        /\ Answered(p)' = Answered(p) /\ Kept(p)' = Kept(p) /\ reads' = reads /\ reading' = reading
    BY <1>1, <1>t, StillPlaces
  <2> QED BY <1>t, <2>1 DEF Found
<1>2. CASE Begun
  <2>1. /\ Waiting(c)' => c = Root
        /\ reads' = reads /\ reads[c] = 0
    BY <1>2, <1>t, BegunPlaces
  <2>2. c # Root
    BY TreeAssumption
  <2> QED BY <2>1, <2>2 DEF Found
<1>3. CASE Accepted
  <2> DEFINE h == Head(queued)
  <2>1. /\ h \in Dir /\ Waiting(h) /\ (Waiting(c)' => Waiting(c))
        /\ Answered(p)' = Answered(p) /\ Kept(p)' = Kept(p)
        /\ reads' = [reads EXCEPT ![h] = reads[h] + 1]
    BY <1>3, <1>t, AcceptedPlaces
  <2>2. reading' = reading \cup {h}
    BY <1>3 DEF Accepted
  <2> HIDE DEF h
  <2>3. reads[h] = 0
    BY <2>1 DEF Waiting, ReadInv, QueueInv
  <2>4. Found(c)
    BY <1>t, <2>1 DEF Found
  <2>5. Over /\ p # h
    BY <1>t, <2>3, <2>4
  <2> QED BY <1>t, <2>1, <2>2, <2>5
<1>4. ASSUME NEW b \in ready, Expanded(b) PROVE OverNext
  <2>1. /\ b \in BatchType /\ b.dir \in Dir /\ Kept(b.dir)
        /\ (Waiting(c)' => Waiting(c) \/ c \in b.entries \cap Dir)
        /\ Answered(p)' = Answered(p)
        /\ (Kept(p)' <=> Kept(p) /\ p # b.dir)
        /\ reads' = reads /\ reading' = reading
    BY <1>4, <1>t, ExpandedPlaces
  <2>2. CASE Found(c)
    BY <1>t, <2>1, <2>2
  <2>3. CASE ~Found(c)
    <3>1. c \in b.entries
      BY <2>1, <2>3 DEF Found
    <3>2. p = b.dir
      BY <2>1, <3>1, TreeAssumption DEF BatchType
    <3>3. reads[p] = 1 /\ p \notin reading /\ ~Answered(p)
      BY <1>t, <2>1, <3>2 DEF ReadInv, FlightInv
    <3> QED BY <2>1, <3>2, <3>3
  <2> QED BY <2>2, <2>3
<1>5. CASE Received
  <2> DEFINE h == Head(results)
  <2>1. /\ Answered(h.dir) /\ (Waiting(c)' => Waiting(c))
        /\ (Answered(p)' <=> Answered(p) /\ p # h.dir)
        /\ (Kept(p)' => Kept(p) \/ p = h.dir)
        /\ reads' = reads /\ reading' = reading
    BY <1>5, <1>t, ReceivedPlaces
  <2> HIDE DEF h
  <2>2. Over
    BY <1>t, <2>1 DEF Found
  <2>3. p # h.dir
    BY <2>1, <2>2
  <2> QED BY <2>1, <2>2, <2>3
<1>6. ASSUME NEW d \in Dir, NEW r \in ResultType, Finished(d, r) PROVE OverNext
  <2>1. /\ d \in reading /\ reading' = reading \ {d} /\ reads' = reads
        /\ (Answered(p)' <=> Answered(p) \/ p = d)
        /\ Waiting(c)' = Waiting(c) /\ Kept(p)' = Kept(p)
    BY <1>6, <1>t, FinishedPlaces
  <2>2. Over
    BY <1>t, <2>1 DEF Found
  <2> QED BY <2>1, <2>2
<1> QED BY <1>1, <1>2, <1>3, <1>4, <1>5, <1>6 DEF ReadKinds

\* At the start the coordinator has sent no read and nobody else does.
LEMMA StepStart == TypeInv /\ ReadInv /\ [Next]_vars => StartInv'
<1> SUFFICES ASSUME TypeInv, ReadInv, [Next]_vars PROVE StartInv'
  OBVIOUS
<1> DEFINE Early == pc \in {"start", "rooted"} \/ (pc = "offer" /\ after = "rooted")
<1>t. Early => queued = <<>> /\ \A d \in Dir : reads[d] = 0
  BY DEF ReadInv, StartInv
<1>r. ReturnsOK
  BY DEF TypeInv, CoordinatorType
<1>1. CASE Sent \/ Start
  <2>1. UNCHANGED <<queued, reads>> /\ (~Early => pc' = after /\ pc = "offer")
    BY <1>1 DEF Sent, Start, scheduler, executor
  <2> QED BY <1>t, <1>r, <2>1 DEF StartInv, ReturnsOK
<1>2. CASE SerialStart
  <2>1. UNCHANGED <<queued, reads>> /\ Early
    BY <1>2 DEF SerialStart, scheduler, executor
  <2> QED BY <1>t, <2>1 DEF StartInv
<1>3. CASE SendFailed \/ Rooted \/ Reject \/ RefillEnds \/ Other \/ Drive \/ Emitted \/ DrainEnds \/ SerialNext
  <2>1. pc' \notin {"start", "rooted"} /\ (pc' = "offer" => after' # "rooted")
    <3>1. CASE SendFailed \/ Rooted
      BY <1>r, <3>1 DEF SendFailed, Rooted, StartDrain, Goto, ReturnsOK
    <3>2. CASE Reject \/ RefillEnds
      BY <1>r, <3>2 DEF Reject, RefillEnds, Goto, ReturnsOK
    <3>3. CASE Other \/ Drive \/ Emitted
      BY <1>r, <3>3 DEF Other, Drive, Emitted, StartDrain, Goto, Offer
    <3>4. CASE DrainEnds \/ SerialNext
      BY <1>r, <3>4 DEF DrainEnds, SerialNext, Goto, Offer, ReturnsOK
    <3> QED BY <1>3, <3>1, <3>2, <3>3, <3>4
  <2> QED BY <2>1 DEF StartInv
<1>4. CASE Accept \/ DrainOne
  <2>1. pc' = pc /\ pc \in {"refill", "drain"}
    BY <1>4 DEF Accept, DrainOne, control
  <2> QED BY <2>1 DEF StartInv
<1>5. CASE Wait \/ Receive \/ Matched
  <2>1. pc' \in {"refill", "drain", "receive"}
    BY <1>5 DEF Wait, Receive, Matched, PrepareFrame, StartDrain, Goto
  <2> QED BY <2>1 DEF StartInv
<1>6. CASE Consumer \/ CallNext \/ DropReceiver \/ UNCHANGED vars
  <2>1. UNCHANGED <<pc, after, queued, reads>>
    BY <1>6, ConsumerSteps DEF ConsumerStep
  <2> QED BY <1>t, <2>1 DEF StartInv
<1>7. ASSUME NEW d \in Dir, Read(d) PROVE StartInv'
  <2>1. UNCHANGED <<pc, after, queued, reads>>
    BY <1>7 DEF Read, control, scheduler
  <2> QED BY <1>t, <2>1 DEF StartInv
<1> QED BY <1>1, <1>2, <1>3, <1>4, <1>5, <1>6, <1>7 DEF Next, Coordinator

LEMMA StepRead == TypeInv /\ ReadInv /\ [Next]_vars => ReadInv'
BY StepKinds, StepQueue, StepFlight, StepCount, StepParent, StepStart DEF ReadInv

-----------------------------------------------------------------------------
(* When the coordinator is over, so are the reads *)

OverInv ==
  pc \in {"start", "rooted", "serial", "ended", "unwound"} \/ (pc = "offer" /\ after # "emitted") =>
    outstanding = 0

LEMMA StepOver == TypeInv /\ ReadInv /\ OverInv /\ [Next]_vars => OverInv'
<1> SUFFICES ASSUME TypeInv, ReadInv, OverInv, [Next]_vars PROVE OverInv'
  OBVIOUS
<1>r. ReturnsOK
  BY DEF TypeInv, CoordinatorType
<1>1. CASE Sent \/ Start \/ SerialStart \/ SerialNext
  <2>1. outstanding' = outstanding /\ (pc \in {"start", "serial"} \/ (pc = "offer" /\ pc' = after))
    BY <1>1 DEF Sent, Start, SerialStart, SerialNext, scheduler
  <2>2. outstanding = 0 \/ pc' = "emitted"
    BY <1>r, <2>1 DEF OverInv
  <2> QED BY <2>1, <2>2 DEF OverInv
<1>2. CASE SendFailed \/ Rooted
  <2>1. outstanding' = outstanding /\ (outstanding = 0 \/ pc' = "drain")
    BY <1>2 DEF SendFailed, Rooted, OverInv, StartDrain
  <2> QED BY <2>1 DEF OverInv
<1>3. CASE Reject \/ RefillEnds
  <2>1. pc' \in {"wait", "matched", "other", "drive"}
    BY <1>r, <1>3 DEF Reject, RefillEnds, Goto, ReturnsOK
  <2> QED BY <2>1 DEF OverInv
<1>4. CASE Accept \/ DrainOne
  <2>1. pc' = pc /\ pc \in {"refill", "drain"}
    BY <1>4 DEF Accept, DrainOne, control
  <2> QED BY <2>1 DEF OverInv
<1>5. CASE Wait \/ Receive \/ Matched \/ Other \/ Emitted
  <2>1. pc' \in {"refill", "drain", "receive", "wait", "drive"}
    BY <1>5 DEF Wait, Receive, Matched, Other, Emitted, PrepareFrame, StartDrain, Goto
  <2> QED BY <2>1 DEF OverInv
<1>6. CASE Drive
  <2>1. pc' \in {"drain", "drive", "emitted"} \/ (pc' = "offer" /\ after' = "emitted")
    BY <1>6 DEF Drive, StartDrain, Goto, Offer
  <2> QED BY <2>1 DEF OverInv
<1>7. CASE DrainEnds
  <2>1. outstanding' = 0
    BY <1>7 DEF DrainEnds, Drained, scheduler
  <2> QED BY <2>1 DEF OverInv
<1>8. CASE Consumer \/ CallNext \/ DropReceiver \/ UNCHANGED vars
  <2>1. UNCHANGED <<pc, after, outstanding>>
    BY <1>8, ConsumerSteps DEF ConsumerStep
  <2> QED BY <2>1 DEF OverInv
<1>9. ASSUME NEW d \in Dir, Read(d) PROVE OverInv'
  <2>1. UNCHANGED <<pc, after, outstanding>>
    BY <1>9 DEF Read, control, scheduler
  <2> QED BY <2>1 DEF OverInv
<1> QED BY <1>1, <1>2, <1>3, <1>4, <1>5, <1>6, <1>7, <1>8, <1>9 DEF Next, Coordinator

-----------------------------------------------------------------------------
(* Every directory the coordinator will wait for is queued or being read *)

Coming(d) == Waiting(d) \/ d \in reading \/ Answered(d) \/ Kept(d)
Framed(d) == \E i \in DOMAIN frames : \E k \in DOMAIN frames[i] : frames[i][k] = d

Sending == pc = "emitted" \/ (pc = "offer" /\ after = "emitted")
Awaiting == pc \in {"wait", "receive", "matched", "other"} \/ (pc = "refill" /\ after # "drive")
InLoop == Sending \/ Awaiting \/ pc \in {"refill", "drive"}
Current(d) == (Sending /\ d = offer) \/ (Awaiting /\ d = target)

FramesDistinct ==
  \A i, j \in DOMAIN frames : \A k \in DOMAIN frames[i], l \in DOMAIN frames[j] :
     frames[i][k] = frames[j][l] /\ frames[i][k] \in Dir => i = j /\ k = l

\* Only a rejection empties the queue of a traversal that goes on.
FrameInv ==
  InLoop /\ ~scheduleError =>
    /\ \A d \in Dir : Framed(d) \/ Current(d) => Coming(d)
    /\ \A d \in Dir : Framed(d) => ~Current(d)
    /\ FramesDistinct

EarlyInv ==
  pc \in {"start", "rooted"} \/ (pc = "offer" /\ after = "rooted") =>
    target = Root /\ frames = <<>>

LEMMA PushedFrame ==
  ASSUME TypeInv, NEW b \in BatchType, frames' = Append(frames, InPathOrder(b.entries))
  PROVE  /\ \A d \in Dir : Framed(d)' => Framed(d) \/ d \in b.entries
         /\ FramesDistinct /\ (\A d \in Dir : d \in b.entries => ~Framed(d)) => FramesDistinct'
<1> DEFINE new == InPathOrder(b.entries)
           n == Len(frames) + 1
<1>1. /\ new \in Seq(Item) /\ \A k \in DOMAIN new : new[k] \in b.entries
      /\ \A k, l \in DOMAIN new : new[k] = new[l] => k = l
  BY BatchOrder
<1>2. frames \in Seq(Seq(Item))
  BY DEF TypeInv, CoordinatorType
<1> HIDE DEF new
<1>3. /\ frames'[n] = new
      /\ \A i \in DOMAIN frames : frames'[i] = frames[i]
      /\ \A i \in DOMAIN frames' : i \in DOMAIN frames \/ i = n
  BY <1>1, <1>2, AppendFacts DEF new
<1> HIDE DEF n
<1>4. ASSUME NEW d \in Dir, Framed(d)' PROVE Framed(d) \/ d \in b.entries
  <2>1. PICK i \in DOMAIN frames' : \E k \in DOMAIN frames'[i] : frames'[i][k] = d
    BY <1>4 DEF Framed
  <2>2. CASE i = n
    BY <1>1, <1>3, <2>1, <2>2
  <2>3. CASE i \in DOMAIN frames
    BY <1>3, <2>1, <2>3 DEF Framed
  <2> QED BY <1>3, <2>1, <2>2, <2>3
<1>5. ASSUME FramesDistinct, \A d \in Dir : d \in b.entries => ~Framed(d)
      PROVE  FramesDistinct'
  <2> SUFFICES ASSUME NEW i \in DOMAIN frames', NEW j \in DOMAIN frames',
                      NEW k \in DOMAIN frames'[i], NEW l \in DOMAIN frames'[j],
                      frames'[i][k] = frames'[j][l], frames'[i][k] \in Dir
      PROVE  i = j /\ k = l
    BY DEF FramesDistinct
  <2>1. CASE i \in DOMAIN frames /\ j \in DOMAIN frames
    BY <1>3, <1>5, <2>1 DEF FramesDistinct
  <2>2. CASE i = n /\ j = n
    BY <1>1, <1>3, <2>2
  <2>3. CASE i \in DOMAIN frames /\ j = n
    <3>1. Framed(frames'[i][k])
      BY <1>3, <2>3 DEF Framed
    <3>2. frames'[i][k] \in b.entries
      BY <1>1, <1>3, <2>3
    <3> QED BY <1>5, <3>1, <3>2
  <2>4. CASE i = n /\ j \in DOMAIN frames
    <3>1. Framed(frames'[j][l])
      BY <1>3, <2>4 DEF Framed
    <3>2. frames'[j][l] \in b.entries
      BY <1>1, <1>3, <2>4
    <3> QED BY <1>5, <3>1, <3>2
  <2> QED BY <1>3, <2>1, <2>2, <2>3, <2>4
<1> QED BY <1>4, <1>5

LEMMA PoppedFrame ==
  ASSUME TypeInv, frames # <<>>, frames' = Front(frames)
  PROVE  /\ \A d \in Dir : Framed(d)' => Framed(d)
         /\ FramesDistinct => FramesDistinct'
<1>1. \A i \in DOMAIN frames' : i \in DOMAIN frames /\ frames'[i] = frames[i]
  BY FrontFacts DEF TypeInv, CoordinatorType
<1>2. ASSUME NEW d \in Dir, Framed(d)' PROVE Framed(d)
  BY <1>1, <1>2 DEF Framed
<1>3. FramesDistinct => FramesDistinct'
  BY <1>1 DEF FramesDistinct
<1> QED BY <1>2, <1>3

LEMMA TakenItem ==
  ASSUME TypeInv, frames # <<>>, Last(frames) # <<>>,
         frames' = Append(Front(frames), Tail(Last(frames)))
  PROVE  /\ \A d \in Dir : Framed(d)' => Framed(d)
         /\ Framed(Head(Last(frames)))
         /\ FramesDistinct => FramesDistinct'
         /\ \A d \in Dir : FramesDistinct /\ d = Head(Last(frames)) => ~Framed(d)'
<1> DEFINE top == Last(frames)
           n == Len(frames)
<1>1. /\ top \in Seq(Item) /\ Front(frames) \in Seq(Seq(Item)) /\ Len(Front(frames)) = n - 1
      /\ n \in DOMAIN frames /\ frames[n] = top
      /\ \A i \in DOMAIN Front(frames) : i \in DOMAIN frames /\ i # n /\ Front(frames)[i] = frames[i]
  BY FrontFacts DEF TypeInv, CoordinatorType
<1> HIDE DEF top
<1>2. /\ Tail(top) \in Seq(Item) /\ 1 \in DOMAIN top /\ top[1] = Head(top)
      /\ \A k \in DOMAIN Tail(top) : k \in Int /\ k >= 1 /\ k + 1 \in DOMAIN top /\ Tail(top)[k] = top[k + 1]
  BY <1>1, TailFacts DEF top
<1>3. n \in Int
  BY DEF TypeInv, CoordinatorType
<1>4. /\ frames'[n] = Tail(top)
      /\ \A i \in DOMAIN frames' : i = n \/ (i # n /\ i \in DOMAIN frames /\ frames'[i] = frames[i])
  <2>1. frames' = Append(Front(frames), Tail(top)) /\ Len(Front(frames)) + 1 = n
    BY <1>1, <1>3 DEF top
  <2> QED BY <1>1, <1>2, <2>1, AppendFacts
<1> HIDE DEF n
<1>5. \A i \in DOMAIN frames' : \A k \in DOMAIN frames'[i] :
        \E m \in DOMAIN frames[i] :
           /\ i \in DOMAIN frames /\ frames'[i][k] = frames[i][m]
           /\ m = (IF i = n THEN k + 1 ELSE k) /\ (i = n => m # 1 /\ k = m - 1)
  <2> SUFFICES ASSUME NEW i \in DOMAIN frames', NEW k \in DOMAIN frames'[i]
      PROVE  \E m \in DOMAIN frames[i] :
               /\ i \in DOMAIN frames /\ frames'[i][k] = frames[i][m]
               /\ m = (IF i = n THEN k + 1 ELSE k) /\ (i = n => m # 1 /\ k = m - 1)
    OBVIOUS
  <2>1. CASE i = n
    BY <1>1, <1>2, <1>4, <2>1
  <2>2. CASE i # n
    BY <1>4, <2>2
  <2> QED BY <2>1, <2>2
<1>6. ASSUME NEW d \in Dir, Framed(d)' PROVE Framed(d)
  BY <1>5, <1>6 DEF Framed
<1>7. Framed(Head(top))
  BY <1>1, <1>2, Zenon DEF Framed
<1>8. ASSUME FramesDistinct PROVE FramesDistinct'
  <2> SUFFICES ASSUME NEW i \in DOMAIN frames', NEW j \in DOMAIN frames',
                      NEW k \in DOMAIN frames'[i], NEW l \in DOMAIN frames'[j],
                      frames'[i][k] = frames'[j][l], frames'[i][k] \in Dir
      PROVE  i = j /\ k = l
    BY DEF FramesDistinct
  <2>1. PICK m \in DOMAIN frames[i] :
           /\ i \in DOMAIN frames /\ frames'[i][k] = frames[i][m]
           /\ m = (IF i = n THEN k + 1 ELSE k) /\ (i = n => m # 1 /\ k = m - 1)
    BY <1>5
  <2>2. PICK o \in DOMAIN frames[j] :
           /\ j \in DOMAIN frames /\ frames'[j][l] = frames[j][o]
           /\ o = (IF j = n THEN l + 1 ELSE l) /\ (j = n => o # 1 /\ l = o - 1)
    BY <1>5
  <2>3. i = j /\ m = o
    BY <1>8, <2>1, <2>2 DEF FramesDistinct
  <2> QED BY <2>1, <2>2, <2>3
<1>9. ASSUME NEW d \in Dir, FramesDistinct, d = Head(top) PROVE ~Framed(d)'
  <2> SUFFICES ASSUME NEW i \in DOMAIN frames', NEW k \in DOMAIN frames'[i], frames'[i][k] = d
      PROVE  FALSE
    BY DEF Framed
  <2>1. PICK m \in DOMAIN frames[i] :
           /\ i \in DOMAIN frames /\ frames'[i][k] = frames[i][m] /\ (i = n => m # 1)
    BY <1>5
  <2>2. n \in DOMAIN frames /\ 1 \in DOMAIN frames[n] /\ frames[n][1] = d
    BY <1>1, <1>2, <1>9
  <2>3. i = n /\ m = 1
    BY <1>9, <2>1, <2>2 DEF FramesDistinct
  <2> QED BY <2>1, <2>3
<1> QED BY <1>6, <1>7, <1>8, <1>9 DEF top

\* A step that keeps the queue keeps every directory in one of the places.
Keeping ==
  \/ Still \/ Accepted
  \/ Received /\ queued' = queued /\ ready' = ready \cup {Batch(Head(results).dir, Head(results).entries)}
  \/ \E d \in Dir : \E r \in ResultType : Finished(d, r)

LEMMA ComingKept ==
  ASSUME TypeInv, ReadInv, Keeping, NEW d \in Dir, Coming(d)
  PROVE  Coming(d)'
<1>1. CASE Still
  BY <1>1 DEF Still, Coming, Waiting, Answered, Kept
<1>2. CASE Accepted
  <2>1. /\ Waiting(d) => Waiting(d)' \/ d = Head(queued)
        /\ Answered(d)' = Answered(d) /\ Kept(d)' = Kept(d)
    BY <1>2, AcceptedPlaces
  <2>2. reading' = reading \cup {Head(queued)}
    BY <1>2 DEF Accepted
  <2> QED BY <2>1, <2>2 DEF Coming
<1>3. CASE Received /\ queued' = queued /\ ready' = ready \cup {Batch(Head(results).dir, Head(results).entries)}
  <2>1. /\ Answered(d)' <=> Answered(d) /\ d # Head(results).dir
        /\ reading' = reading
    BY <1>3, ReceivedPlaces
  <2>2. Waiting(d) => Waiting(d)'
    BY <1>3 DEF Waiting
  <2>3. Kept(d) \/ d = Head(results).dir => Kept(d)'
    <3> DEFINE b == Batch(Head(results).dir, Head(results).entries)
    <3>1. b.dir = Head(results).dir
      BY DEF Batch
    <3> HIDE DEF b
    <3>2. ready' = ready \cup {b}
      BY <1>3 DEF b
    <3> QED BY <3>1, <3>2 DEF Kept
  <2> QED BY <2>1, <2>2, <2>3 DEF Coming
<1>4. ASSUME NEW c \in Dir, NEW r \in ResultType, Finished(c, r) PROVE Coming(d)'
  <2>1. /\ reading' = reading \ {c}
        /\ Answered(d)' <=> Answered(d) \/ d = c
        /\ Waiting(d)' = Waiting(d) /\ Kept(d)' = Kept(d)
    BY <1>4, FinishedPlaces
  <2> QED BY <2>1 DEF Coming
<1> QED BY <1>1, <1>2, <1>3, <1>4 DEF Keeping

LEMMA ComingExpanded ==
  ASSUME TypeInv, ReadInv, NEW b \in ready, Expanded(b), Prepared(b), NEW d \in Dir,
         (Coming(d) /\ d # b.dir) \/ d \in b.entries
  PROVE  Coming(d)'
<1> DEFINE front == InPathOrder(b.entries \cap Dir)
<1>1. /\ Kept(d)' <=> Kept(d) /\ d # b.dir
      /\ Answered(d)' = Answered(d) /\ reading' = reading
  BY ExpandedPlaces
<1>2. b \in BatchType /\ queued \in Seq(Dir) /\ queued' = front \o queued
  BY DEF TypeInv, SchedulerType, Prepared
<1>3. front \in Seq(Dir) /\ \A c \in b.entries \cap Dir : \E k \in DOMAIN front : front[k] = c
  BY <1>2, BatchOrder
<1> HIDE DEF front
<1>4. /\ \A i \in DOMAIN front : i \in DOMAIN queued' /\ queued'[i] = front[i]
      /\ \A i \in DOMAIN queued : i + Len(front) \in DOMAIN queued' /\ queued'[i + Len(front)] = queued[i]
  BY <1>2, <1>3, ConcatFacts
<1>5. Waiting(d) => Waiting(d)'
  BY <1>4 DEF Waiting
<1>6. d \in b.entries => Waiting(d)'
  BY <1>3, <1>4 DEF Waiting
<1> QED BY <1>1, <1>5, <1>6 DEF Coming

\* Whatever waits or is read was found.
LEMMA ComingFound ==
  ASSUME TypeInv, ReadInv, NEW d \in Dir, Coming(d)
  PROVE  Found(d)
BY DEF Coming, Found, ReadInv, FlightInv

\* Frames and awaited directory as they were: the places are all that can change.
LEMMA FrameKept ==
  ASSUME TypeInv, ReadInv, FrameInv, Keeping,
         UNCHANGED <<frames, target, offer, scheduleError>>,
         InLoop' => InLoop, Sending' => Sending, Awaiting' => Awaiting
  PROVE  FrameInv'
<1> SUFFICES ASSUME InLoop', ~scheduleError' PROVE
      /\ \A d \in Dir : Framed(d)' \/ Current(d)' => Coming(d)'
      /\ \A d \in Dir : Framed(d)' => ~Current(d)'
      /\ FramesDistinct'
  BY DEF FrameInv
<1>1. InLoop /\ ~scheduleError
  OBVIOUS
<1>2. /\ \A d \in Dir : Framed(d) \/ Current(d) => Coming(d)
      /\ \A d \in Dir : Framed(d) => ~Current(d)
      /\ FramesDistinct
  BY <1>1 DEF FrameInv
<1>3. ASSUME NEW d \in Dir PROVE Framed(d)' = Framed(d) /\ (Current(d)' => Current(d))
  BY DEF Framed, Current
<1>4. FramesDistinct'
  BY <1>2 DEF FramesDistinct
<1> QED BY <1>2, <1>3, <1>4, ComingKept

\* The batch of the awaited directory becomes the top frame.
LEMMA FramePushed ==
  ASSUME TypeInv, ReadInv, FrameInv, Awaiting,
         NEW b \in ready, Expanded(b), Prepared(b), b.dir = target, scheduleError' = scheduleError
  PROVE  FrameInv'
<1> SUFFICES ASSUME ~scheduleError PROVE
      /\ \A d \in Dir : Framed(d)' \/ Current(d)' => Coming(d)'
      /\ \A d \in Dir : Framed(d)' => ~Current(d)'
      /\ FramesDistinct'
  BY DEF FrameInv
<1>1. /\ \A d \in Dir : Framed(d) \/ Current(d) => Coming(d)
      /\ \A d \in Dir : Framed(d) => ~Current(d)
      /\ FramesDistinct
  BY DEF FrameInv, InLoop
<1>2. b \in BatchType /\ b.dir \in Dir
  BY ExpandedPlaces
<1>3. Current(b.dir)
  BY DEF Current
<1>4. pc' = "refill" /\ after' = "drive"
  BY DEF Prepared
<1>5. \A d \in Dir : ~Current(d)'
  BY <1>4 DEF Current, Sending, Awaiting
<1>6. ASSUME NEW d \in Dir, d \in b.entries PROVE ~Framed(d)
  <2>1. ~Found(d)
    <3>1. ~Waiting(d) /\ reads[d] = 0
      BY <1>6, ChildrenAreNew
    <3> QED BY <3>1 DEF Found
  <2> QED BY <1>1, <2>1, ComingFound
<1>7. /\ \A d \in Dir : Framed(d)' => Framed(d) \/ d \in b.entries
      /\ FramesDistinct'
  BY <1>1, <1>2, <1>6, PushedFrame DEF Prepared
<1>8. ASSUME NEW d \in Dir, Framed(d)' PROVE Coming(d)'
  <2>1. CASE d \in b.entries
    BY <2>1, ComingExpanded
  <2>2. CASE Framed(d)
    <3>1. Coming(d) /\ d # b.dir
      BY <1>1, <1>2, <1>3, <2>2
    <3> QED BY <3>1, ComingExpanded
  <2> QED BY <1>7, <1>8, <2>1, <2>2
<1> QED BY <1>5, <1>7, <1>8

ErrorInv == (scheduleError => cancelled) /\ (pc = "receive" => ~scheduleError)

\* The awaited batch is not here when the coordinator sleeps.
AwaitInv ==
  pc \in {"receive", "other"} \/ (pc = "refill" /\ after = "other") => \A b \in ready : b.dir # target

LEMMA StepError == TypeInv /\ ErrorInv /\ [Next]_vars => ErrorInv'
<1> SUFFICES ASSUME TypeInv, ErrorInv, [Next]_vars PROVE ErrorInv'
  OBVIOUS
<1> USE DEF ErrorInv, scheduler, executor, control
<1>r. ReturnsOK
  BY DEF TypeInv, CoordinatorType
<1>1. CASE Sent \/ Start \/ RefillEnds \/ DrainEnds \/ SerialStart \/ SerialNext
  <2>1. UNCHANGED <<scheduleError, cancelled>> /\ pc' # "receive"
    BY <1>1, <1>r DEF Sent, Start, RefillEnds, DrainEnds, SerialStart, SerialNext, Offer, Goto, ReturnsOK
  <2> QED BY <2>1
<1>2. CASE SendFailed \/ Rooted \/ Accept \/ Drive \/ Emitted \/ DrainOne
  <2>1. /\ scheduleError' = scheduleError /\ (cancelled => cancelled')
        /\ (pc' = "receive" => pc = "receive")
    BY <1>2 DEF SendFailed, Rooted, Accept, Drive, Emitted, DrainOne, StartDrain, Offer, Goto
  <2> QED BY <2>1
<1>3. CASE Reject
  <2>1. cancelled' /\ pc' # "receive"
    BY <1>3, <1>r DEF Reject, Goto, ReturnsOK
  <2> QED BY <2>1
<1>4. CASE Wait \/ Matched \/ Other
  <2>1. /\ scheduleError' = scheduleError \/ ~scheduleError'
        /\ cancelled => cancelled'
        /\ pc' = "receive" => ~scheduleError'
    <3>1. CASE Wait
      BY <3>1 DEF Wait, PrepareFrame, StartDrain, Goto
    <3>2. CASE Matched
      BY <3>2 DEF Matched, PrepareFrame, StartDrain, Goto
    <3>3. CASE Other
      BY <3>3 DEF Other, StopWaiting, StartDrain, Goto
    <3> QED BY <1>4, <3>1, <3>2, <3>3
  <2> QED BY <2>1
<1>5. CASE Receive
  <2>1. scheduleError' = scheduleError /\ (cancelled => cancelled') /\ pc' # "receive"
    BY <1>5 DEF Receive, StartDrain
  <2> QED BY <2>1
<1>6. CASE Consumer \/ CallNext \/ DropReceiver \/ UNCHANGED vars
  BY <1>6, ConsumerSteps DEF ConsumerStep
<1>7. ASSUME NEW d \in Dir, Read(d) PROVE ErrorInv'
  BY <1>7 DEF Read
<1> QED BY <1>1, <1>2, <1>3, <1>4, <1>5, <1>6, <1>7 DEF Next, Coordinator

LEMMA StepAwait == TypeInv /\ AwaitInv /\ [Next]_vars => AwaitInv'
<1> SUFFICES ASSUME TypeInv, AwaitInv, [Next]_vars PROVE AwaitInv'
  OBVIOUS
<1> USE DEF scheduler, executor, control
<1>r. ReturnsOK
  BY DEF TypeInv, CoordinatorType
<1>1. CASE Sent \/ SendFailed \/ Start \/ Rooted \/ Drive \/ Emitted \/ DrainOne \/ DrainEnds
           \/ SerialStart \/ SerialNext \/ Matched
  <2>1. pc' \notin {"receive", "other"} /\ ~(pc' = "refill" /\ after' = "other")
    <3>1. CASE Sent \/ SendFailed \/ Start \/ Rooted
      BY <1>r, <3>1 DEF Sent, SendFailed, Start, Rooted, Offer, Goto, StartDrain, ReturnsOK
    <3>2. CASE Drive \/ Emitted \/ DrainOne \/ DrainEnds
      BY <1>r, <3>2 DEF Drive, Emitted, DrainOne, DrainEnds, Offer, Goto, StartDrain, ReturnsOK
    <3>3. CASE SerialStart \/ SerialNext \/ Matched
      BY <1>r, <3>3 DEF SerialStart, SerialNext, Matched, Offer, Goto, StartDrain, PrepareFrame, ReturnsOK
    <3> QED BY <1>1, <3>1, <3>2, <3>3
  <2> QED BY <2>1 DEF AwaitInv
<1>2. CASE Accept \/ Reject \/ RefillEnds \/ Other
  <2>1. /\ UNCHANGED <<ready, target>>
        /\ pc' \in {"receive", "other"} \/ (pc' = "refill" /\ after' = "other")
             => pc \in {"receive", "other"} \/ (pc = "refill" /\ after = "other")
    BY <1>r, <1>2 DEF Accept, Reject, RefillEnds, Other, Goto, StartDrain, ReturnsOK
  <2> QED BY <2>1 DEF AwaitInv
<1>3. CASE Wait
  <2>1. \/ pc' \notin {"receive", "other"} /\ after' # "other"
        \/ ready' = ready /\ target' = target /\ \A b \in ready : b.dir # target
        \/ pc' = "drain"
    BY <1>3 DEF Wait, PrepareFrame, StartDrain
  <2> QED BY <2>1 DEF AwaitInv
<1>4. CASE Receive
  <2> DEFINE r == Head(results)
  <2>1. CASE pc' = "drain"
    BY <2>1 DEF AwaitInv
  <2>2. CASE pc' = "refill"
    <3>1. /\ pc = "receive" /\ target' = target
          /\ ready' = ready \cup {Batch(r.dir, r.entries)}
          /\ after' = "other" => r.dir # target
      BY <1>4, <2>2 DEF Receive, StartDrain
    <3>2. Batch(r.dir, r.entries).dir = r.dir
      BY DEF Batch
    <3> QED BY <2>2, <3>1, <3>2 DEF AwaitInv
  <2> QED BY <1>4, <2>1, <2>2 DEF Receive, StartDrain
<1>5. CASE Consumer \/ CallNext \/ DropReceiver \/ UNCHANGED vars
  BY <1>5, ConsumerSteps DEF ConsumerStep, AwaitInv
<1>6. ASSUME NEW d \in Dir, Read(d) PROVE AwaitInv'
  BY <1>6 DEF Read, AwaitInv
<1> QED BY <1>1, <1>2, <1>3, <1>4, <1>5, <1>6 DEF Next, Coordinator

LEMMA StepEarly == TypeInv /\ EarlyInv /\ [Next]_vars => EarlyInv'
<1> SUFFICES ASSUME TypeInv, EarlyInv, [Next]_vars PROVE EarlyInv'
  OBVIOUS
<1> USE DEF scheduler, executor, control, EarlyInv
<1>r. ReturnsOK
  BY DEF TypeInv, CoordinatorType
<1>1. CASE Sent \/ Start
  BY <1>r, <1>1 DEF Sent, Start, Offer, Goto, ReturnsOK
<1>2. CASE SendFailed \/ Rooted \/ Reject \/ RefillEnds \/ Other
  BY <1>r, <1>2 DEF SendFailed, Rooted, Reject, RefillEnds, Other, StartDrain, Goto, ReturnsOK
<1>3. CASE Drive \/ Emitted \/ DrainEnds
  BY <1>r, <1>3 DEF Drive, Emitted, DrainEnds, StartDrain, Goto, Offer, ReturnsOK
<1>4. CASE SerialStart \/ SerialNext
  BY <1>4 DEF SerialStart, SerialNext, Goto, Offer
<1>5. CASE Accept \/ DrainOne
  BY <1>5 DEF Accept, DrainOne
<1>6. CASE Wait \/ Receive \/ Matched
  <2>1. pc' \in {"refill", "drain", "receive"}
    BY <1>6 DEF Wait, Receive, Matched, PrepareFrame, StartDrain, Goto
  <2> QED BY <2>1
<1>7. CASE Consumer \/ CallNext \/ DropReceiver \/ UNCHANGED vars
  BY <1>7, ConsumerSteps DEF ConsumerStep
<1>8. ASSUME NEW d \in Dir, Read(d) PROVE EarlyInv'
  BY <1>8 DEF Read
<1> QED BY <1>1, <1>2, <1>3, <1>4, <1>5, <1>6, <1>7, <1>8 DEF Next, Coordinator

LEMMA StepFrame == TypeInv /\ ReadInv /\ EarlyInv /\ FrameInv /\ [Next]_vars => FrameInv'
<1> SUFFICES ASSUME TypeInv, ReadInv, EarlyInv, FrameInv, [Next]_vars PROVE FrameInv'
  OBVIOUS
<1> USE DEF scheduler, executor, control
<1>r. ReturnsOK
  BY DEF TypeInv, CoordinatorType
<1>l. ~InLoop' => FrameInv'
  BY DEF FrameInv
<1>1. CASE Sent
  <2>1. /\ UNCHANGED <<frames, target, offer, after, scheduleError>> /\ Still
        /\ pc = "offer" /\ pc' = after
    BY <1>1 DEF Sent, Still
  <2>2. CASE after = "emitted"
    <3>1. Sending /\ InLoop /\ ~Awaiting'
      BY <2>1, <2>2 DEF Sending, InLoop, Awaiting
    <3> QED BY <2>1, <3>1, FrameKept DEF Keeping
  <2>3. CASE after # "emitted"
    <3>1. ~InLoop'
      BY <1>r, <2>1, <2>3 DEF InLoop, Sending, Awaiting, ReturnsOK
    <3> QED BY <1>l, <3>1
  <2> QED BY <2>2, <2>3
<1>2. CASE SendFailed \/ Start \/ DrainOne \/ DrainEnds \/ SerialStart \/ SerialNext
  <2>1. ~InLoop'
    <3>1. CASE SendFailed \/ Start
      BY <3>1 DEF SendFailed, Start, StartDrain, Goto, Offer, InLoop, Sending, Awaiting
    <3>2. CASE DrainOne \/ DrainEnds
      BY <1>r, <3>2 DEF DrainOne, DrainEnds, Goto, Offer, InLoop, Sending, Awaiting, ReturnsOK
    <3>3. CASE SerialStart \/ SerialNext
      BY <3>3 DEF SerialStart, SerialNext, Goto, Offer, InLoop, Sending, Awaiting
    <3> QED BY <1>2, <3>1, <3>2, <3>3
  <2> QED BY <1>l, <2>1
<1>3. CASE Rooted
  <2>1. target' = Root /\ frames' = <<>> /\ (pc' = "ended" \/ (pc' = "refill" /\ after' = "wait" /\ queued' = <<Root>>))
    BY <1>3 DEF Rooted, Goto, EarlyInv
  <2>2. CASE pc' = "ended"
    <3>1. ~InLoop'
      BY <2>2 DEF InLoop, Sending, Awaiting
    <3> QED BY <1>l, <3>1
  <2>3. CASE pc' = "refill" /\ after' = "wait" /\ queued' = <<Root>>
    <3>1. \A d \in Dir : Current(d)' => d = Root
      BY <2>1, <2>3 DEF Current, Sending, Awaiting
    <3>2. \A d \in Dir : ~Framed(d)'
      BY <2>1 DEF Framed
    <3>3. FramesDistinct'
      BY <2>1 DEF FramesDistinct
    <3>4. Waiting(Root)' /\ Root' = Root
      BY <2>3 DEF Waiting
    <3>5. \A d \in Dir : d = Root => Coming(d)'
      BY <3>4 DEF Coming
    <3> QED BY <3>1, <3>2, <3>3, <3>5 DEF FrameInv
  <2> QED BY <2>1, <2>2, <2>3
<1>4. CASE Accept
  <2>1. Accepted /\ UNCHANGED <<pc, after, frames, target, offer, scheduleError>>
    BY <1>4 DEF Accept, RefillGoesOn, Accepted
  <2> QED BY <2>1, FrameKept DEF Keeping, InLoop, Sending, Awaiting
<1>5. CASE Reject
  BY <1>5 DEF Reject, FrameInv
<1>6. CASE RefillEnds
  <2>1. Still /\ UNCHANGED <<after, frames, target, offer, scheduleError>> /\ pc = "refill" /\ pc' = after
    BY <1>6 DEF RefillEnds, Goto, Still
  <2>2. /\ InLoop /\ ~Sending' /\ (Awaiting' => Awaiting)
    BY <1>r, <2>1 DEF InLoop, Sending, Awaiting, ReturnsOK
  <2> QED BY <2>1, <2>2, FrameKept DEF Keeping
<1>7. CASE Wait \/ Matched
  <2>1. Awaiting /\ target' = target /\ UNCHANGED <<outstanding, executor>>
    BY <1>7 DEF Wait, Matched, Awaiting
  <2>2. CASE pc' = "drain"
    BY <1>l, <2>2 DEF InLoop, Sending, Awaiting
  <2>3. CASE pc' = "receive"
    <3>1. Still /\ UNCHANGED <<frames, target, offer>> /\ scheduleError' = scheduleError
      <4>1. CASE Wait
        <5>1. ~scheduleError /\ ~scheduleError' /\ UNCHANGED <<queued, ready, frames, offer>>
          BY <2>3, <4>1 DEF Wait, PrepareFrame, StartDrain, Goto
        <5>2. scheduleError = FALSE /\ scheduleError' = FALSE
          <6>1. scheduleError \in BOOLEAN
            BY DEF TypeInv, SchedulerType
          <6>2. scheduleError' = FALSE
            BY <2>3, <4>1 DEF Wait, PrepareFrame
          <6> QED BY <5>1, <6>1, <6>2, Zenon
        <5> QED BY <2>1, <5>1, <5>2 DEF Still
      <4>2. CASE Matched
        BY <2>3, <4>2 DEF Matched, PrepareFrame, StartDrain
      <4> QED BY <1>7, <4>1, <4>2
    <3>2. InLoop /\ ~Sending'
      BY <2>1, <2>3 DEF InLoop, Sending
    <3> QED BY <2>1, <3>1, <3>2, FrameKept DEF Keeping
  <2>4. CASE \E b \in ready : b.dir = target /\ ready' = ready \ {b} /\ PrepareFrame(b) /\ scheduleError' = scheduleError
    <3>1. PICK b \in ready : b.dir = target /\ ready' = ready \ {b} /\ PrepareFrame(b) /\ scheduleError' = scheduleError
      BY <2>4
    <3>2. Prepared(b)
      BY <3>1, PreparedType
    <3>3. Expanded(b)
      BY <2>1, <3>1, <3>2 DEF Expanded, Prepared
    <3> QED BY <2>1, <3>1, <3>2, <3>3, FramePushed
  <2>5. ASSUME Matched, ~scheduleError PROVE scheduleError' = scheduleError
    <3>1. scheduleError \in BOOLEAN
      BY DEF TypeInv, SchedulerType
    <3>2. scheduleError' = FALSE
      BY <2>5 DEF Matched
    <3> QED BY <2>5, <3>1, <3>2, Zenon
  <2> QED BY <1>7, <2>2, <2>3, <2>4, <2>5 DEF Wait, Matched, StartDrain, Goto
<1>8. CASE Receive
  <2>1. CASE pc' = "drain"
    BY <1>l, <2>1 DEF InLoop, Sending, Awaiting
  <2>2. CASE pc' = "refill"
    <3>1. /\ pc = "receive" /\ UNCHANGED <<frames, target, offer, scheduleError, queued>>
          /\ ready' = ready \cup {Batch(Head(results).dir, Head(results).entries)}
      BY <1>8, <2>2 DEF Receive, StartDrain
    <3>2. Received
      BY <1>8, <3>1 DEF Receive, AfterResult, Received
    <3>3. InLoop /\ Awaiting /\ ~Sending'
      BY <2>2, <3>1 DEF InLoop, Awaiting, Sending
    <3> QED BY <3>1, <3>2, <3>3, FrameKept DEF Keeping
  <2> QED BY <1>8, <2>1, <2>2 DEF Receive, StartDrain
<1>9. CASE Other
  <2>1. CASE pc' = "drain"
    BY <1>l, <2>1 DEF InLoop, Sending, Awaiting
  <2>2. CASE pc' = "receive"
    <3>1. Still /\ UNCHANGED <<frames, target, offer, scheduleError>> /\ pc = "other"
      BY <1>9, <2>2 DEF Other, StartDrain, Goto, Still
    <3>2. InLoop /\ Awaiting /\ ~Sending'
      BY <2>2, <3>1 DEF InLoop, Awaiting, Sending
    <3> QED BY <3>1, <3>2, FrameKept DEF Keeping
  <2> QED BY <1>9, <2>1, <2>2 DEF Other, StartDrain, Goto
<1>10. CASE Drive
  <2>1. CASE cancelled \/ frames = <<>>
    BY <1>l, <1>10, <2>1 DEF Drive, StartDrain, InLoop, Sending, Awaiting
  <2>2. CASE ~cancelled /\ frames # <<>>
    <3>1. pc = "drive" /\ Still /\ UNCHANGED <<target, scheduleError>>
      BY <1>10, <2>2 DEF Drive, Still
    <3> SUFFICES ASSUME ~scheduleError PROVE
          /\ \A d \in Dir : Framed(d)' \/ Current(d)' => Coming(d)'
          /\ \A d \in Dir : Framed(d)' => ~Current(d)'
          /\ FramesDistinct'
      BY <3>1 DEF FrameInv
    <3>2. FramesDistinct /\ \A d \in Dir : Framed(d) => Coming(d)
      BY <3>1 DEF FrameInv, InLoop
    <3>3. \A d \in Dir : Coming(d) => Coming(d)'
      BY <3>1, ComingKept DEF Keeping
    <3>4. CASE Last(frames) = <<>>
      <4>1. frames' = Front(frames) /\ pc' = "drive"
        BY <1>10, <2>2, <3>4 DEF Drive, Goto
      <4>2. \A d \in Dir : ~Current(d)'
        BY <4>1 DEF Current, Sending, Awaiting
      <4>3. FramesDistinct' /\ \A d \in Dir : Framed(d)' => Framed(d)
        BY <2>2, <3>2, <4>1, PoppedFrame
      <4> QED BY <3>2, <3>3, <4>2, <4>3
    <3>5. CASE Last(frames) # <<>>
      <4> DEFINE item == Head(Last(frames))
      <4>1. /\ frames' = Append(Front(frames), Tail(Last(frames)))
            /\ offer' = item /\ pc' \in {"emitted", "offer"} /\ after' = "emitted"
        BY <1>10, <2>2, <3>5 DEF Drive, Offer
      <4>2. \A d \in Dir : Current(d)' => d = item
        BY <4>1 DEF Current, Sending, Awaiting
      <4>3. /\ \A d \in Dir : Framed(d)' => Framed(d)
            /\ Framed(item) /\ FramesDistinct'
            /\ \A d \in Dir : d = item => ~Framed(d)'
        BY <2>2, <3>2, <3>5, <4>1, TakenItem
      <4> HIDE DEF item
      <4> QED BY <3>2, <3>3, <4>2, <4>3
    <3> QED BY <3>4, <3>5
  <2> QED BY <2>1, <2>2
<1>11. CASE Emitted
  <2>1. CASE pc' = "drain"
    BY <1>l, <2>1 DEF InLoop, Sending, Awaiting
  <2>2. CASE pc' # "drain"
    <3>1. /\ pc = "emitted" /\ Still /\ UNCHANGED <<frames, offer, scheduleError>>
          /\ (pc' = "wait" /\ target' = offer) \/ pc' = "drive"
      BY <1>11, <2>2 DEF Emitted, StartDrain, Goto, Still
    <3> SUFFICES ASSUME ~scheduleError PROVE
          /\ \A d \in Dir : Framed(d)' \/ Current(d)' => Coming(d)'
          /\ \A d \in Dir : Framed(d)' => ~Current(d)'
          /\ FramesDistinct'
      BY <3>1 DEF FrameInv
    <3>2. /\ FramesDistinct /\ \A d \in Dir : Framed(d) \/ d = offer => Coming(d)
          /\ \A d \in Dir : Framed(d) => d # offer
      BY <3>1 DEF FrameInv, InLoop, Current, Sending
    <3>3. \A d \in Dir : Coming(d) => Coming(d)'
      BY <3>1, ComingKept DEF Keeping
    <3>4. FramesDistinct' /\ \A d \in Dir : Framed(d)' = Framed(d)
      BY <3>1, <3>2 DEF FramesDistinct, Framed
    <3>5. \A d \in Dir : Current(d)' => d = offer
      BY <3>1 DEF Current, Sending, Awaiting
    <3> QED BY <3>2, <3>3, <3>4, <3>5
  <2> QED BY <2>1, <2>2
<1>12. CASE Consumer \/ CallNext \/ DropReceiver \/ UNCHANGED vars
  <2>1. Still /\ UNCHANGED <<pc, after, frames, target, offer, scheduleError>>
    BY <1>12, ConsumerSteps DEF ConsumerStep, Still
  <2> QED BY <2>1, FrameKept DEF Keeping, InLoop, Sending, Awaiting
<1>13. ASSUME NEW d \in Dir, Read(d) PROVE FrameInv'
  <2>1. UNCHANGED <<pc, after, frames, target, offer, scheduleError>> /\ Keeping
    BY <1>13, ReadIsFinished DEF Read, Keeping
  <2> QED BY <2>1, FrameKept DEF InLoop, Sending, Awaiting
<1> QED BY <1>1, <1>2, <1>3, <1>4, <1>5, <1>6, <1>7, <1>8, <1>9, <1>10, <1>11, <1>12, <1>13
        DEF Next, Coordinator

\* The loop is entered through the root directory only.
RootInv == InLoop => Root \in Dir

LEMMA StepRoot == TypeInv /\ RootInv /\ [Next]_vars => RootInv'
<1> SUFFICES ASSUME TypeInv, [Next]_vars, InLoop', Root \notin Dir PROVE InLoop
  BY DEF RootInv
<1> USE DEF control, InLoop, Sending, Awaiting
<1>r. ReturnsOK
  BY DEF TypeInv, CoordinatorType
<1>1. CASE Sent \/ SendFailed \/ Start \/ Rooted
  BY <1>r, <1>1 DEF Sent, SendFailed, Start, Rooted, StopsAtRoot, Offer, Goto, StartDrain, ReturnsOK
<1>2. CASE Accept \/ Reject \/ RefillEnds \/ Wait \/ Receive \/ Matched \/ Other \/ Drive \/ Emitted
  BY <1>2 DEF Accept, Reject, RefillEnds, Wait, Receive, Matched, Other, Drive, Emitted
<1>3. CASE DrainOne \/ DrainEnds \/ SerialStart \/ SerialNext
  BY <1>r, <1>3 DEF DrainOne, DrainEnds, SerialStart, SerialNext, Offer, Goto, ReturnsOK
<1>4. CASE Consumer \/ CallNext \/ DropReceiver \/ UNCHANGED vars
  BY <1>4, ConsumerSteps DEF ConsumerStep
<1>5. ASSUME NEW d \in Dir, Read(d) PROVE InLoop
  BY <1>5 DEF Read
<1> QED BY <1>1, <1>2, <1>3, <1>4, <1>5 DEF Next, Coordinator

-----------------------------------------------------------------------------
(* A refill leaves a read under way, or nothing to read *)

NoReads == \A d \in Dir : reads[d] = 0
Filled == queued = <<>> \/ outstanding > 0

FillInv ==
  /\ pc = "refill" /\ after = "wait" => queued = <<>> \/ (queued = <<Root>> /\ NoReads)
  /\ pc \in {"wait", "receive"} => Filled \/ (cancelled /\ NoReads)
  /\ pc \in {"drive", "other"} => Filled \/ cancelled
  /\ Sending => Filled

LEMMA StepFill == TypeInv /\ ReadInv /\ FillInv /\ [Next]_vars => FillInv'
<1> SUFFICES ASSUME TypeInv, ReadInv, FillInv, [Next]_vars PROVE FillInv'
  OBVIOUS
<1> USE DEF scheduler, executor, control
<1>r. ReturnsOK
  BY DEF TypeInv, CoordinatorType
<1>l. Limit > 0 /\ Limit \in Nat /\ outstanding \in Nat
  BY OptionsAssumption DEF ReadInv, CountInv
<1>1. CASE Sent
  <2>1. pc = "offer" /\ pc' = after /\ after' = after /\ UNCHANGED <<queued, outstanding>>
    BY <1>1 DEF Sent
  <2>2. after \in {"rooted", "emitted", "serial", "ended"}
    BY <1>r, <2>1 DEF ReturnsOK
  <2> QED BY <2>1, <2>2 DEF FillInv, Sending, Filled
<1>2. CASE SendFailed \/ Start \/ DrainOne \/ DrainEnds \/ SerialStart \/ SerialNext
  <2>1. pc' \notin {"refill", "wait", "receive", "drive", "other", "emitted"}
        /\ ~(pc' = "offer" /\ after' = "emitted")
    <3>1. CASE SendFailed \/ Start
      BY <3>1 DEF SendFailed, Start, StartDrain, Goto, Offer
    <3>2. CASE DrainOne \/ DrainEnds
      BY <1>r, <3>2 DEF DrainOne, DrainEnds, Goto, Offer, ReturnsOK
    <3>3. CASE SerialStart \/ SerialNext
      BY <3>3 DEF SerialStart, SerialNext, Goto, Offer
    <3> QED BY <1>2, <3>1, <3>2, <3>3
  <2> QED BY <2>1 DEF FillInv, Sending
<1>3. CASE Rooted
  <2>1. pc = "rooted" /\ reads' = reads /\ (pc' = "ended" \/ (pc' = "refill" /\ queued' = <<Root>>))
    BY <1>3 DEF Rooted, Goto
  <2>2. NoReads'
    BY <2>1 DEF ReadInv, StartInv, NoReads
  <2> QED BY <2>1, <2>2 DEF FillInv, Sending
<1>4. CASE Accept
  <2>1. pc = "refill" /\ UNCHANGED <<pc, after>> /\ queued # <<>> /\ queued' = Tail(queued)
    BY <1>4 DEF Accept, RefillGoesOn
  <2>2. after = "wait" => queued' = <<>>
    <3>1. Tail(<<Root>>) = <<>>
      OBVIOUS
    <3> QED BY <2>1, <3>1 DEF FillInv
  <2> QED BY <2>1, <2>2 DEF FillInv, Sending
<1>5. CASE Reject
  <2>1. queued' = <<>>
    BY <1>5 DEF Reject
  <2> QED BY <2>1 DEF FillInv, Filled
<1>6. CASE RefillEnds
  <2>1. /\ pc = "refill" /\ pc' = after /\ UNCHANGED <<after, queued, outstanding, reads, cancelled>>
        /\ (cancelled \/ outstanding >= Limit \/ queued = <<>>)
    BY <1>6, <1>l DEF RefillEnds, RefillGoesOn, Goto
  <2>2. Filled \/ cancelled
    BY <1>l, <2>1 DEF Filled
  <2>3. after \in {"wait", "matched", "other", "drive"}
    BY <1>r, <2>1 DEF ReturnsOK
  <2>4. after = "wait" => Filled \/ NoReads
    BY <2>1 DEF FillInv, Filled
  <2>5. (Filled => Filled') /\ (NoReads => NoReads')
    BY <2>1 DEF Filled, NoReads
  <2> QED BY <2>1, <2>2, <2>3, <2>4, <2>5 DEF FillInv, Sending
<1>7. CASE Wait \/ Matched
  <2>1. CASE pc' = "drain" \/ (pc' = "refill" /\ after' = "drive")
    BY <2>1 DEF FillInv, Sending
  <2>2. CASE pc' = "receive"
    <3>1. pc = "wait" /\ UNCHANGED <<queued, outstanding, reads, cancelled>>
      BY <1>7, <2>2 DEF Wait, Matched, PrepareFrame, StartDrain, Goto
    <3> QED BY <2>2, <3>1 DEF FillInv, Filled, NoReads, Sending
  <2> QED BY <1>7, <2>1, <2>2 DEF Wait, Matched, PrepareFrame, StartDrain, Goto
<1>8. CASE Receive
  <2>1. pc' = "drain" \/ (pc' = "refill" /\ after' # "wait")
    BY <1>8 DEF Receive, StartDrain
  <2> QED BY <2>1 DEF FillInv, Sending
<1>9. CASE Other
  <2>1. CASE pc' = "drain"
    BY <2>1 DEF FillInv, Sending
  <2>2. CASE pc' # "drain"
    <3>1. pc = "other" /\ pc' = "receive" /\ ~cancelled /\ UNCHANGED <<queued, outstanding>>
      BY <1>9, <2>2 DEF Other, StopWaiting, StartDrain, Goto
    <3> QED BY <3>1 DEF FillInv, Filled, Sending
  <2> QED BY <2>1, <2>2
<1>10. CASE Drive
  <2>1. CASE pc' = "drain"
    BY <2>1 DEF FillInv, Sending
  <2>2. CASE pc' # "drain"
    <3>1. /\ pc = "drive" /\ pc' \in {"drive", "emitted", "offer"}
          /\ ~cancelled /\ UNCHANGED <<queued, outstanding, cancelled>>
      BY <1>10, <2>2 DEF Drive, StartDrain, Goto, Offer
    <3>2. Filled'
      BY <3>1 DEF FillInv, Filled
    <3> QED BY <3>1, <3>2 DEF FillInv
  <2> QED BY <2>1, <2>2
<1>11. CASE Emitted
  <2>1. CASE pc' = "drain"
    BY <2>1 DEF FillInv, Sending
  <2>2. CASE pc' # "drain"
    <3>1. /\ pc = "emitted" /\ pc' \in {"wait", "drive"}
          /\ UNCHANGED <<queued, outstanding>>
      BY <1>11, <2>2 DEF Emitted, StartDrain, Goto
    <3>2. Filled'
      BY <3>1 DEF FillInv, Filled, Sending
    <3> QED BY <3>1, <3>2 DEF FillInv, Sending
  <2> QED BY <2>1, <2>2
<1>12. CASE Consumer \/ CallNext \/ DropReceiver \/ UNCHANGED vars
  <2>1. UNCHANGED <<pc, after, queued, outstanding, reads>> /\ (cancelled => cancelled')
    BY <1>12, ConsumerSteps DEF ConsumerStep
  <2> QED BY <2>1 DEF FillInv, Filled, NoReads, Sending
<1>13. ASSUME NEW d \in Dir, Read(d) PROVE FillInv'
  <2>1. UNCHANGED <<pc, after, queued, outstanding, reads, cancelled>>
    BY <1>13 DEF Read
  <2> QED BY <2>1 DEF FillInv, Filled, NoReads, Sending
<1> QED BY <1>1, <1>2, <1>3, <1>4, <1>5, <1>6, <1>7, <1>8, <1>9, <1>10, <1>11, <1>12, <1>13
        DEF Next, Coordinator

-----------------------------------------------------------------------------
(* The invariant and what follows from it *)

LoopInv == EarlyInv /\ FrameInv /\ ErrorInv /\ AwaitInv /\ RootInv /\ FillInv
PullInv == TypeInv /\ ReadInv /\ OverInv /\ LoopInv

LEMMA InitPull == Init => PullInv
<1> SUFFICES ASSUME Init PROVE PullInv
  OBVIOUS
<1>1. pc = "start" /\ outstanding = 0 /\ ~scheduleError /\ target = Root /\ frames = <<>>
  BY DEF Init
<1>2. ~InLoop
  BY <1>1 DEF InLoop, Sending, Awaiting
<1>3. OverInv /\ EarlyInv /\ FrameInv /\ ErrorInv /\ AwaitInv /\ RootInv
  BY <1>1, <1>2 DEF OverInv, EarlyInv, FrameInv, ErrorInv, AwaitInv, RootInv
<1>4. FillInv
  BY <1>1, <1>2 DEF FillInv, InLoop
<1> QED BY <1>3, <1>4, InitType, InitRead DEF PullInv, LoopInv

LEMMA StepPull == PullInv /\ [Next]_vars => PullInv'
BY StepType, StepRead, StepOver, StepEarly, StepFrame, StepError, StepAwait, StepRoot, StepFill
   DEF PullInv, LoopInv

\* The inductive invariant of the coordinator, its scheduler and the reads.
THEOREM PullInvariant == Spec => []PullInv
BY InitPull, StepPull, PTL DEF Spec

LEMMA NothingOutstanding ==
  ASSUME CountInv, results \in Seq(ResultType), outstanding = 0
  PROVE  reading = {} /\ results = <<>>
<1>1. Cardinality(reading) \in Nat /\ Len(results) \in Nat
  BY FS_CardinalityType DEF CountInv
<1>2. Cardinality(reading) = 0 /\ Len(results) = 0
  BY <1>1 DEF CountInv
<1> QED BY <1>2, FS_EmptySet DEF CountInv

LEMMA PullTypes == PullInv => TypeOK
<1> SUFFICES ASSUME PullInv PROVE TypeOK
  OBVIOUS
<1>1. /\ TypeInv /\ reads \in [Dir -> 0 .. 1] /\ outstanding \in 0 .. Limit
  BY DEF PullInv, ReadInv, FlightInv, CountInv
<1>2. \A batch \in ready : batch.dir \in Dir /\ batch.entries \subseteq Entries[batch.dir]
  BY <1>1 DEF TypeInv, SchedulerType, BatchType
<1>3. \A i \in DOMAIN results : results[i].dir \in Dir /\ results[i].entries \subseteq Entries[results[i].dir]
  <2>1. results \in Seq(ResultType)
    BY <1>1 DEF TypeInv, ReadsType
  <2>2. \A i \in DOMAIN results : results[i] \in ResultType
    BY <2>1
  <2> QED BY <2>2 DEF ResultType
<1> QED BY <1>1, <1>2, <1>3
        DEF TypeOK, TypeInv, CoordinatorType, SchedulerType, ReadsType, ConsumerType, Sendable

LEMMA PullReadsEnd == PullInv => ReadsEndFirst
<1> SUFFICES ASSUME PullInv, CoordinatorOver PROVE reading = {}
  BY DEF ReadsEndFirst
<1>1. outstanding = 0
  BY DEF PullInv, OverInv, CoordinatorOver
<1> QED BY <1>1, NothingOutstanding DEF PullInv, TypeInv, ReadsType, ReadInv

LEMMA PullWaits == PullInv => WaitsForARead
<1> SUFFICES ASSUME PullInv, pc = "receive", reading = {}, results = <<>>
    PROVE  cancelled /\ reads = [d \in Dir |-> 0]
  BY DEF WaitsForARead
<1>1. outstanding = 0
  BY FS_EmptySet DEF PullInv, ReadInv, CountInv
<1>2. Filled \/ (cancelled /\ NoReads)
  BY DEF PullInv, LoopInv, FillInv
<1>3. CASE Filled
  <2>1. queued = <<>>
    BY <1>1, <1>3 DEF Filled
  <2>2. InLoop /\ Awaiting /\ ~scheduleError
    BY DEF InLoop, Awaiting, PullInv, LoopInv, ErrorInv
  <2>3. target \in Dir
    BY <2>2 DEF PullInv, LoopInv, RootInv, TypeInv, CoordinatorType
  <2>4. Coming(target)
    BY <2>2, <2>3 DEF PullInv, LoopInv, FrameInv, Current
  <2>5. ~Kept(target)
    BY DEF PullInv, LoopInv, AwaitInv, Kept
  <2>6. ~Waiting(target) /\ ~Answered(target)
    BY <2>1 DEF Waiting, Answered
  <2> QED BY <2>4, <2>5, <2>6 DEF Coming
<1>4. CASE cancelled /\ NoReads
  <2>1. reads \in [Dir -> 0 .. 1]
    BY DEF PullInv, ReadInv, FlightInv
  <2> QED BY <1>4, <2>1 DEF NoReads
<1> QED BY <1>2, <1>3, <1>4

\* The iterator's bookkeeping: types, at most one read of a directory, the count of the
\* reads under way, no read after the coordinator, and a read for every wait.
THEOREM PullReadsAreAccounted == Spec => []ReadsAreAccounted
<1>1. PullInv => ReadsAreAccounted
  BY PullTypes, PullReadsEnd, PullWaits
     DEF ReadsAreAccounted, OutstandingIsExact, PullInv, ReadInv, CountInv
<1> QED BY <1>1, PullInvariant, PTL

-----------------------------------------------------------------------------
(* The numbering: facts about the tree alone *)

LEMMA TreeFacts ==
  /\ Item \in SUBSET Nat /\ IsFiniteSet(Item) /\ Root \in Item /\ Dir \in SUBSET Item
  /\ Errors \in SUBSET Item /\ Root \notin Errors /\ \A d \in Dir : d \notin Errors
  /\ \A d \in Dir : Entries[d] \in SUBSET Item
  /\ \A d \in Dir : \A i \in Entries[d] : d < i /\ i # Root
BY TreeAssumption, NumberingAssumption

LEMMA OneParent ==
  ASSUME NEW d \in Dir, NEW e \in Dir, NEW i \in Entries[d], i \in Entries[e]
  PROVE  d = e
BY TreeAssumption

LEMMA HasParent ==
  ASSUME NEW i \in Item, i # Root
  PROVE  \E p \in Dir : i \in Entries[p] /\ p < i
BY TreeAssumption, NumberingAssumption

LEMMA LeastItem ==
  ASSUME NEW S \in SUBSET Item, S # {}
  PROVE  \E m \in S : \A x \in S : ~(x < m)
<1>1. S \in SUBSET Nat /\ IsFiniteSet(S)
  BY TreeFacts, FS_Subset
<1>2. Cardinality(S) \in Nat /\ Cardinality(S) # 0
  BY <1>1, FS_CardinalityType, FS_EmptySet
<1>3. PICK m \in S : Cardinality(Earlier(S, m)) = 0
  BY <1>1, <1>2, EarlierOnto
<1>4. Earlier(S, m) = {}
  BY <1>1, <1>3, EarlierBounds, FS_EmptySet
<1> QED BY <1>4 DEF Earlier

LEMMA RootIsFirst == \A x \in Item : Root <= x
<1>1. PICK m \in Item : \A x \in Item : ~(x < m)
  BY TreeFacts, LeastItem
<1>2. m = Root
  BY <1>1, HasParent, TreeFacts
<1> QED BY <1>1, <1>2, TreeFacts

LEMMA BelowIsClosed ==
  ASSUME NEW d \in Dir
  PROVE  Below[d] \in SUBSET Item /\ ClosedBelow(d, Below[d])
<1>1. Below[d] = {i \in Item : \A S \in SUBSET Item : ClosedBelow(d, S) => i \in S}
  BY DEF Below
<1>2. ASSUME NEW e \in {d} \cup (Below[d] \cap Dir), NEW i \in Entries[e] PROVE i \in Below[d]
  <2>1. e \in Dir /\ i \in Item
    BY TreeFacts
  <2>2. ASSUME NEW S \in SUBSET Item, ClosedBelow(d, S) PROVE i \in S
    <3>1. e \in {d} \cup (S \cap Dir)
      BY <1>1, <2>1, <2>2
    <3> QED BY <2>2, <3>1 DEF ClosedBelow
  <2> QED BY <1>1, <2>1, <2>2
<1> QED BY <1>1, <1>2 DEF ClosedBelow

LEMMA BelowIsLeast ==
  ASSUME NEW d \in Dir, NEW S \in SUBSET Item, ClosedBelow(d, S)
  PROVE  Below[d] \in SUBSET S
BY DEF Below

LEMMA BelowEntries ==
  ASSUME NEW d \in Dir
  PROVE  /\ Entries[d] \in SUBSET Below[d]
         /\ \A e \in Below[d] \cap Dir : Entries[e] \in SUBSET Below[d]
BY BelowIsClosed DEF ClosedBelow

LEMMA BelowIsAfter ==
  ASSUME NEW d \in Dir, NEW x \in Below[d]
  PROVE  x \in Item /\ d < x
<1> DEFINE S == {i \in Item : d < i}
<1>1. ClosedBelow(d, S)
  BY TreeFacts DEF ClosedBelow
<1> QED BY <1>1, BelowIsLeast

\* The parent of what is below a directory is that directory or below it.
LEMMA BelowParent ==
  ASSUME NEW d \in Dir, NEW p \in Dir, NEW x \in Below[d], x \in Entries[p]
  PROVE  p = d \/ p \in Below[d]
<1> DEFINE S == {i \in Below[d] : \E e \in Dir : i \in Entries[e] /\ (e = d \/ e \in Below[d])}
<1>1. ClosedBelow(d, S)
  BY BelowEntries DEF ClosedBelow
<1>2. S \in SUBSET Item
  BY BelowIsClosed
<1>3. x \in S
  BY <1>1, <1>2, BelowIsLeast
<1> QED BY <1>3, OneParent

LEMMA BelowIsTransitive ==
  ASSUME NEW d \in Dir, NEW e \in Below[d] \cap Dir
  PROVE  Below[e] \in SUBSET Below[d]
<1>1. ClosedBelow(e, Below[d])
  BY BelowEntries DEF ClosedBelow
<1> QED BY <1>1, BelowIsLeast, BelowIsClosed

\* What is below a directory is one of its entries or below one of them.
LEMMA BelowAnEntry ==
  ASSUME NEW d \in Dir, NEW x \in Below[d], x \notin Entries[d]
  PROVE  \E c \in Entries[d] \cap Dir : x \in Below[c]
<1> DEFINE S == {i \in Item : i \in Entries[d] \/ \E c \in Entries[d] \cap Dir : i \in Below[c]}
<1>1. ASSUME NEW e \in S \cap Dir, NEW i \in Entries[e] PROVE i \in S
  <2>1. i \in Item
    BY TreeFacts
  <2>2. CASE e \in Entries[d]
    BY <2>1, <2>2, BelowEntries
  <2>3. ASSUME NEW c \in Entries[d] \cap Dir, e \in Below[c] PROVE i \in S
    BY <2>1, <2>3, BelowEntries
  <2> QED BY <2>2, <2>3
<1>2. ClosedBelow(d, S)
  BY <1>1, TreeFacts DEF ClosedBelow
<1>3. x \in S
  BY <1>2, BelowIsLeast
<1> QED BY <1>3

\* No entry of a directory is below another one.
LEMMA SiblingsApart ==
  ASSUME NEW d \in Dir, NEW c \in Entries[d] \cap Dir, NEW x \in Below[c]
  PROVE  x \notin Entries[d]
<1> SUFFICES ASSUME x \in Entries[d] PROVE FALSE
  OBVIOUS
<1>1. d = c \/ d \in Below[c]
  BY BelowParent
<1>2. d < c /\ d \in Nat /\ c \in Nat /\ c \in Dir
  BY TreeFacts
<1>3. d \in Below[c] => c < d
  BY <1>2, BelowIsAfter
<1> QED BY <1>1, <1>2, <1>3

\* Everything is below the root.
LEMMA BelowRoot ==
  ASSUME NEW x \in Item, x # Root
  PROVE  Root \in Dir /\ x \in Below[Root]
<1> DEFINE Out == {i \in Item : i # Root /\ ~(Root \in Dir /\ i \in Below[Root])}
<1> SUFFICES ASSUME Out # {} PROVE FALSE
  OBVIOUS
<1>1. PICK m \in Out : \A i \in Out : ~(i < m)
  BY LeastItem
<1>2. PICK p \in Dir : m \in Entries[p] /\ p < m
  BY <1>1, HasParent
<1>3. p \in Item /\ (p = Root \/ (Root \in Dir /\ p \in Below[Root]))
  BY <1>1, <1>2, TreeFacts
<1>4. Root \in Dir /\ m \in Below[Root]
  BY <1>2, <1>3, BelowEntries
<1> QED BY <1>1, <1>4

\* Whatever lies between a directory and an item below it is below it as well.
LEMMA BelowIsConvex ==
  ASSUME NEW d \in Dir, NEW x \in Below[d], NEW i \in Item, d < i, i < x
  PROVE  i \in Below[d]
<1> DEFINE Out == {j \in Item : d < j /\ j < x /\ j \notin Below[d]}
<1> SUFFICES ASSUME Out # {} PROVE FALSE
  OBVIOUS
<1>x. x \in Item /\ d \in Item /\ Item \in SUBSET Nat
  BY BelowIsAfter, TreeFacts
<1>1. PICK m \in Out : \A j \in Out : ~(j < m)
  BY LeastItem
<1>2. m # Root
  BY <1>1, <1>x, RootIsFirst
<1>3. PICK p \in Dir : m \in Entries[p] /\ p < m
  BY <1>1, <1>2, HasParent
<1>4. p \in Item
  BY TreeFacts
<1>5. CASE p = d
  BY <1>1, <1>3, <1>5, BelowEntries
<1>6. CASE d < p
  <2>1. p \in Below[d]
    BY <1>1, <1>3, <1>4, <1>6, <1>x
  <2> QED BY <1>1, <1>3, <2>1, BelowEntries
<1>7. CASE p < d
  <2> DEFINE S == {j \in Item : d < j /\ j < m}
  <2>1. ASSUME NEW e \in {d} \cup (S \cap Dir), NEW j \in Entries[e] PROVE j \in S
    <3>1. e \in Dir /\ j \in Item /\ e < j /\ e \in Item
      BY TreeFacts
    <3>2. d <= e /\ e < m
      BY <1>1, <1>x
    <3>3. p < e
      <4>1. p \in Nat /\ d \in Nat /\ e \in Nat
        BY <1>4, <1>x, <3>1
      <4> QED BY <1>7, <3>2, <4>1
    <3>4. j < m
      BY <1>3, <3>1, <3>2, <3>3, NumberingAssumption
    <3> QED BY <1>x, <3>1, <3>2, <3>4
  <2>2. ClosedBelow(d, S)
    BY <2>1 DEF ClosedBelow
  <2>3. x < m
    BY <2>2, BelowIsLeast
  <2> QED BY <1>1, <1>x, <2>3
<1>8. p \in Nat /\ d \in Nat
  BY <1>4, <1>x
<1> QED BY <1>5, <1>6, <1>7, <1>8

-----------------------------------------------------------------------------
(* The frames hold what is left of the open directories, in path order *)

LEMMA OptionsKept ==
  [Next]_vars => /\ iterator' = iterator /\ (cancelled => cancelled')
                 /\ Promised' = Promised /\ Invisible' = Invisible
                 /\ AbortPolicy' = AbortPolicy /\ Reentrant' = Reentrant
<1> SUFFICES ASSUME [Next]_vars PROVE iterator' = iterator /\ (cancelled => cancelled')
  BY DEF Promised, Invisible, AbortPolicy, Reentrant
<1> USE DEF control, scheduler, executor
<1>1. CASE Sent \/ SendFailed \/ Start \/ Rooted \/ Accept \/ Reject \/ RefillEnds
  BY <1>1 DEF Sent, SendFailed, Start, Rooted, Accept, Reject, RefillEnds, StartDrain
<1>2. CASE Wait \/ Receive \/ Matched \/ Other
  BY <1>2 DEF Wait, Receive, Matched, Other, StartDrain
<1>3. CASE Drive \/ Emitted \/ DrainOne \/ DrainEnds \/ SerialStart \/ SerialNext
  BY <1>3 DEF Drive, Emitted, DrainOne, DrainEnds, SerialStart, SerialNext, StartDrain
<1>4. CASE Consumer \/ CallNext \/ DropReceiver \/ UNCHANGED vars
  BY <1>4, ConsumerSteps DEF ConsumerStep
<1>5. ASSUME NEW d \in Dir, Read(d) PROVE iterator' = iterator /\ (cancelled => cancelled')
  BY <1>5 DEF Read
<1> QED BY <1>1, <1>2, <1>3, <1>4, <1>5 DEF Next, Coordinator

Ascending ==
  \A i, j \in DOMAIN frames : \A k \in DOMAIN frames[i], l \in DOMAIN frames[j] :
     j < i \/ (i = j /\ k < l) => frames[i][k] < frames[j][l]

LEMMA PushKeepsOrder ==
  ASSUME TypeInv, NEW s \in Seq(Item), frames' = Append(frames, s)
  PROVE  /\ \A x \in Item : Framed(x)' <=> Framed(x) \/ \E k \in DOMAIN s : s[k] = x
         /\ /\ Ascending
            /\ \A k, l \in DOMAIN s : k < l => s[k] < s[l]
            /\ \A x \in Item : Framed(x) => \A k \in DOMAIN s : s[k] < x
            => Ascending'
<1> DEFINE n == Len(frames) + 1
<1>1. frames \in Seq(Seq(Item)) /\ n \in Nat
  BY DEF TypeInv, CoordinatorType
<1>2. /\ n \in DOMAIN frames' /\ frames'[n] = s
      /\ \A i \in DOMAIN frames : i \in DOMAIN frames' /\ frames'[i] = frames[i] /\ i < n /\ i \in Nat
      /\ \A i \in DOMAIN frames' : i \in DOMAIN frames \/ i = n
  BY <1>1, AppendFacts
<1>3. \A i \in DOMAIN frames : \A k \in DOMAIN frames[i] : frames[i][k] \in Item
  BY <1>1
<1> HIDE DEF n
<1>4. ASSUME NEW x \in Item PROVE Framed(x)' <=> Framed(x) \/ \E k \in DOMAIN s : s[k] = x
  <2>1. ASSUME Framed(x)' PROVE Framed(x) \/ \E k \in DOMAIN s : s[k] = x
    BY <1>2, <2>1 DEF Framed
  <2>2. ASSUME Framed(x) PROVE Framed(x)'
    BY <1>2, <2>2 DEF Framed
  <2>3. ASSUME NEW k \in DOMAIN s, s[k] = x PROVE Framed(x)'
    BY <1>2, <2>3 DEF Framed
  <2> QED BY <2>1, <2>2, <2>3
<1>5. ASSUME Ascending, \A k, l \in DOMAIN s : k < l => s[k] < s[l],
             \A x \in Item : Framed(x) => \A k \in DOMAIN s : s[k] < x,
             NEW i \in DOMAIN frames', NEW j \in DOMAIN frames',
             NEW k \in DOMAIN frames'[i], NEW l \in DOMAIN frames'[j], j < i \/ (i = j /\ k < l)
      PROVE  frames'[i][k] < frames'[j][l]
  <2>1. CASE i \in DOMAIN frames /\ j \in DOMAIN frames
    BY <1>2, <1>5, <2>1 DEF Ascending
  <2>2. CASE i = n /\ j = n
    <3>1. k < l
      BY <1>1, <1>5, <2>2
    <3> QED BY <1>2, <1>5, <2>2, <3>1
  <2>3. CASE i = n /\ j \in DOMAIN frames
    <3>1. frames'[j][l] \in Item /\ Framed(frames'[j][l])
      BY <1>2, <1>3, <2>3 DEF Framed
    <3>2. k \in DOMAIN s /\ frames'[i][k] = s[k]
      BY <1>2, <2>3
    <3> QED BY <1>5, <3>1, <3>2
  <2>4. CASE i \in DOMAIN frames /\ j = n
    <3>1. i < n /\ i \in Nat
      BY <1>2, <2>4
    <3> QED BY <1>1, <1>5, <2>4, <3>1
  <2> QED BY <1>2, <2>1, <2>2, <2>3, <2>4
<1>6. /\ Ascending
      /\ \A k, l \in DOMAIN s : k < l => s[k] < s[l]
      /\ \A x \in Item : Framed(x) => \A k \in DOMAIN s : s[k] < x
      => Ascending'
  BY <1>5 DEF Ascending
<1> QED BY <1>4, <1>6

LEMMA PopKeepsOrder ==
  ASSUME TypeInv, frames # <<>>, Last(frames) = <<>>, frames' = Front(frames)
  PROVE  /\ \A x \in Item : Framed(x)' <=> Framed(x)
         /\ Ascending => Ascending'
<1>1. frames \in Seq(Seq(Item))
  BY DEF TypeInv, CoordinatorType
<1>2. \A i \in DOMAIN frames' : i \in DOMAIN frames /\ frames'[i] = frames[i]
  BY <1>1, FrontFacts
<1>3. \A i \in DOMAIN frames : i = Len(frames) \/ i \in DOMAIN frames'
  <2>1. Len(Front(frames)) = Len(frames) - 1 /\ Front(frames) \in Seq(Seq(Item))
    BY <1>1, FrontFacts
  <2>2. DOMAIN frames' = 1 .. Len(frames) - 1
    BY <2>1
  <2> QED BY <1>1, <2>2
<1>4. DOMAIN frames[Len(frames)] = {}
  <2>1. frames[Len(frames)] = <<>>
    BY <1>1, FrontFacts
  <2> QED BY <2>1
<1>5. ASSUME NEW x \in Item PROVE Framed(x)' <=> Framed(x)
  BY <1>2, <1>3, <1>4 DEF Framed
<1>6. Ascending => Ascending'
  BY <1>2 DEF Ascending
<1> QED BY <1>5, <1>6

LEMMA TakeKeepsOrder ==
  ASSUME TypeInv, Ascending, frames # <<>>, Last(frames) # <<>>,
         frames' = Append(Front(frames), Tail(Last(frames))), NEW item, item = Head(Last(frames))
  PROVE  /\ item \in Item /\ Framed(item)
         /\ \A x \in Item : Framed(x)' => Framed(x) /\ item < x
         /\ \A x \in Item : Framed(x) => (x = item \/ Framed(x)') /\ item <= x
         /\ Ascending'
<1> DEFINE top == Last(frames)
           n == Len(frames)
<1>1. /\ top \in Seq(Item) /\ Front(frames) \in Seq(Seq(Item)) /\ Len(Front(frames)) = n - 1
      /\ n \in DOMAIN frames /\ frames[n] = top /\ n \in Nat
      /\ \A i \in DOMAIN Front(frames) : i \in DOMAIN frames /\ Front(frames)[i] = frames[i] /\ i < n
  <2>1. frames \in Seq(Seq(Item))
    BY DEF TypeInv, CoordinatorType
  <2>2. Len(frames) \in Nat /\ \A i \in DOMAIN frames : i \in Nat /\ i <= Len(frames)
    BY <2>1
  <2>3. /\ top \in Seq(Item) /\ Front(frames) \in Seq(Seq(Item)) /\ Len(Front(frames)) = n - 1
        /\ n \in DOMAIN frames /\ frames[n] = top
        /\ \A i \in DOMAIN Front(frames) : i \in DOMAIN frames /\ i # n /\ Front(frames)[i] = frames[i]
    BY <2>1, FrontFacts
  <2> HIDE DEF top
  <2> QED BY <2>2, <2>3
<1>2. /\ Tail(top) \in Seq(Item) /\ 1 \in DOMAIN top /\ top[1] = item /\ item \in Item
      /\ \A k \in DOMAIN Tail(top) : k + 1 \in DOMAIN top /\ Tail(top)[k] = top[k + 1]
      /\ \A k \in DOMAIN top : k # 1 => k - 1 \in DOMAIN Tail(top) /\ Tail(top)[k - 1] = top[k]
  BY <1>1, TailFacts
<1>s. \A k \in DOMAIN top : k \in Nat /\ k >= 1
  BY <1>1
<1>t. \A k \in DOMAIN Tail(top) : k \in Nat /\ k >= 1
  BY <1>2
<1>d. \A i \in DOMAIN frames : i \in Nat /\ (i = n \/ i \in DOMAIN Front(frames))
  <2>1. frames \in Seq(Seq(Item)) /\ DOMAIN Front(frames) = 1 .. n - 1
    BY <1>1 DEF TypeInv, CoordinatorType
  <2> QED BY <2>1
<1>r. \A i \in DOMAIN frames : \A k \in DOMAIN frames[i] : frames[i][k] \in Item /\ frames[i][k] \in Nat
  <2>1. frames \in Seq(Seq(Item))
    BY DEF TypeInv, CoordinatorType
  <2>2. \A i \in DOMAIN frames : frames[i] \in Seq(Item)
    BY <2>1
  <2>3. \A q \in Seq(Item) : \A k \in DOMAIN q : q[k] \in Item
    OBVIOUS
  <2>4. \A i \in DOMAIN frames : \A k \in DOMAIN frames[i] : frames[i][k] \in Item
    BY <2>2, <2>3
  <2> QED BY <2>4, TreeFacts
<1> HIDE DEF top
<1>3. /\ n \in DOMAIN frames' /\ frames'[n] = Tail(top)
      /\ \A i \in DOMAIN Front(frames) : i \in DOMAIN frames' /\ frames'[i] = frames[i]
      /\ \A i \in DOMAIN frames' : i \in DOMAIN Front(frames) \/ i = n
  BY <1>1, <1>2, AppendFacts DEF top
<1> HIDE DEF n
<1>4. Framed(item)
  BY <1>1, <1>2 DEF Framed
<1>5. ASSUME NEW i \in DOMAIN frames', NEW k \in DOMAIN frames'[i]
      PROVE  /\ i \in DOMAIN frames /\ item < frames'[i][k]
             /\ \E m \in DOMAIN frames[i] : frames[i][m] = frames'[i][k] /\ m = IF i = n THEN k + 1 ELSE k
  <2>1. CASE i = n
    <3>1. k + 1 \in DOMAIN top /\ frames'[i][k] = top[k + 1] /\ 1 < k + 1
      BY <1>2, <1>3, <1>t, <2>1
    <3>2. top[1] < top[k + 1]
      BY <1>1, <1>2, <3>1 DEF Ascending
    <3> QED BY <1>1, <1>2, <2>1, <3>1, <3>2
  <2>2. CASE i \in DOMAIN Front(frames)
    <3>1. i \in DOMAIN frames /\ frames'[i] = frames[i] /\ i < n /\ i # n
      BY <1>1, <1>3, <1>d, <2>2
    <3>2. frames[n][1] < frames[i][k]
      BY <1>1, <1>2, <3>1 DEF Ascending
    <3> QED BY <1>1, <1>2, <3>1, <3>2
  <2> QED BY <1>3, <2>1, <2>2
<1>6. ASSUME NEW x \in Item, Framed(x)' PROVE Framed(x) /\ item < x
  <2>1. PICK i \in DOMAIN frames' : \E k \in DOMAIN frames'[i] : frames'[i][k] = x
    BY <1>6 DEF Framed
  <2>2. PICK k \in DOMAIN frames'[i] : frames'[i][k] = x
    BY <2>1
  <2> QED BY <1>5, <2>2 DEF Framed
<1>7. ASSUME NEW x \in Item, Framed(x) PROVE (x = item \/ Framed(x)') /\ item <= x
  <2>0. PICK i \in DOMAIN frames : \E k \in DOMAIN frames[i] : frames[i][k] = x
    BY <1>7 DEF Framed
  <2>1. PICK k \in DOMAIN frames[i] : frames[i][k] = x
    BY <2>0
  <2>2. CASE i = n /\ k = 1
    BY <1>1, <1>2, <1>r, <2>1, <2>2
  <2>3. CASE i = n /\ k # 1
    <3>1. k - 1 \in DOMAIN Tail(top) /\ Tail(top)[k - 1] = x
      BY <1>1, <1>2, <2>1, <2>3
    <3>2. Framed(x)'
      BY <1>3, <3>1 DEF Framed
    <3> QED BY <1>2, <1>6, <3>2, TreeFacts
  <2>4. CASE i \in DOMAIN Front(frames)
    <3>1. Framed(x)'
      BY <1>3, <2>1, <2>4 DEF Framed
    <3> QED BY <1>2, <1>6, <3>1, TreeFacts
  <2> QED BY <1>d, <2>2, <2>3, <2>4
<1>8. Ascending'
  <2> SUFFICES ASSUME NEW i \in DOMAIN frames', NEW j \in DOMAIN frames',
                      NEW k \in DOMAIN frames'[i], NEW l \in DOMAIN frames'[j],
                      j < i \/ (i = j /\ k < l)
               PROVE  frames'[i][k] < frames'[j][l]
    BY DEF Ascending
  <2>1. PICK m \in DOMAIN frames[i] : frames[i][m] = frames'[i][k] /\ m = IF i = n THEN k + 1 ELSE k
    BY <1>5
  <2>2. PICK o \in DOMAIN frames[j] : frames[j][o] = frames'[j][l] /\ o = IF j = n THEN l + 1 ELSE l
    BY <1>5
  <2>3. i \in DOMAIN frames /\ j \in DOMAIN frames
    BY <1>5
  <2>4. i = j /\ k < l => m < o
    <3>1. k \in Nat /\ l \in Nat
      <4>1. frames'[i] \in Seq(Item) /\ frames'[j] \in Seq(Item)
        BY <1>1, <1>2, <1>3 DEF top
      <4> QED BY <4>1
    <3> QED BY <2>1, <2>2, <3>1
  <2>5. j < i \/ (i = j /\ m < o)
    BY <2>4
  <2> QED BY <2>1, <2>2, <2>3, <2>5 DEF Ascending
<1> QED BY <1>2, <1>4, <1>6, <1>7, <1>8

\* A read that the token does not cut short delivers the whole directory.
WholeInv ==
  ~cancelled =>
    /\ \A b \in ready : b.entries = Entries[b.dir]
    /\ \A i \in DOMAIN results : results[i].panicked \/ results[i].entries = Entries[results[i].dir]

LEMMA StepWhole == TypeInv /\ WholeInv /\ [Next]_vars => WholeInv'
<1> SUFFICES ASSUME TypeInv, WholeInv, [Next]_vars, ~cancelled' PROVE
      /\ \A b \in ready' : b.entries = Entries[b.dir]
      /\ \A i \in DOMAIN results' : results'[i].panicked \/ results'[i].entries = Entries[results'[i].dir]
  BY DEF WholeInv
<1> USE DEF control, scheduler, executor
<1>c. ~cancelled
  BY OptionsKept
<1>t. results \in Seq(ResultType)
  BY DEF TypeInv, ReadsType
<1>w. /\ \A b \in ready : b.entries = Entries[b.dir]
      /\ \A i \in DOMAIN results : results[i].panicked \/ results[i].entries = Entries[results[i].dir]
  BY <1>c DEF WholeInv
<1>p. results' = Tail(results) /\ results # <<>> =>
        \A i \in DOMAIN results' : results'[i].panicked \/ results'[i].entries = Entries[results'[i].dir]
  BY <1>t, <1>w, TailFacts
<1>1. CASE Sent \/ SendFailed \/ Start \/ Rooted \/ Accept \/ Reject \/ RefillEnds
  BY <1>1, <1>w DEF Sent, SendFailed, Start, Rooted, Accept, Reject, RefillEnds
<1>2. CASE Other \/ Drive \/ Emitted \/ DrainEnds \/ SerialStart \/ SerialNext
  BY <1>2, <1>w DEF Other, Drive, Emitted, DrainEnds, SerialStart, SerialNext
<1>3. CASE Wait \/ Matched
  <2>1. results' = results /\ ready' \subseteq ready
    BY <1>3 DEF Wait, Matched
  <2> QED BY <1>w, <2>1
<1>4. CASE Receive
  <2> DEFINE r == Head(results)
  <2>1. results # <<>> /\ results' = Tail(results)
    BY <1>4 DEF Receive
  <2>2. r.panicked \/ r.entries = Entries[r.dir]
    BY <1>t, <1>w, <2>1, TailFacts
  <2>3. ready' = ready \/ (~r.panicked /\ ready' = ready \cup {Batch(r.dir, r.entries)})
    BY <1>4 DEF Receive
  <2>4. Batch(r.dir, r.entries).dir = r.dir /\ Batch(r.dir, r.entries).entries = r.entries
    BY DEF Batch
  <2> HIDE DEF r
  <2> QED BY <1>p, <1>w, <2>1, <2>2, <2>3, <2>4
<1>5. CASE DrainOne
  BY <1>5, <1>p, <1>w DEF DrainOne
<1>6. CASE Consumer \/ CallNext \/ DropReceiver \/ UNCHANGED vars
  BY <1>6, <1>w, ConsumerSteps DEF ConsumerStep
<1>7. ASSUME NEW d \in Dir, Read(d) PROVE
      /\ \A b \in ready' : b.entries = Entries[b.dir]
      /\ \A i \in DOMAIN results' : results'[i].panicked \/ results'[i].entries = Entries[results'[i].dir]
  <2>1. PICK r \in ResultType : Finished(d, r) /\ (r.panicked \/ r.entries = Entries[r.dir])
    <3>1. CASE results' = Append(results, Result(d, FALSE, Entries[d]))
      <4>1. Entries[d] \in SUBSET Item
        BY TreeFacts
      <4>2. Result(d, FALSE, Entries[d]) \in ResultType
        BY <4>1 DEF Result, ResultType
      <4>3. Result(d, FALSE, Entries[d]).dir = d /\ Result(d, FALSE, Entries[d]).entries = Entries[d]
        BY DEF Result
      <4> QED BY <1>7, <3>1, <4>2, <4>3 DEF Read, Finished
    <3>2. CASE results' = Append(results, Result(d, TRUE, {}))
      <4>1. Result(d, TRUE, {}) \in ResultType /\ Result(d, TRUE, {}).dir = d /\ Result(d, TRUE, {}).panicked
        BY DEF Result, ResultType
      <4> QED BY <1>7, <3>2, <4>1 DEF Read, Finished
    <3> QED BY <1>7, <1>c, <3>1, <3>2 DEF Read, Batches
  <2>2. results' = Append(results, r) /\ ready' = ready
    BY <2>1 DEF Finished
  <2>3. \A i \in DOMAIN results' : (i \in DOMAIN results /\ results'[i] = results[i]) \/ results'[i] = r
    BY <1>t, <2>2, AppendFacts
  <2> QED BY <1>w, <2>1, <2>2, <2>3
<1> QED BY <1>1, <1>2, <1>3, <1>4, <1>5, <1>6, <1>7 DEF Next, Coordinator

\* `offer` is where the traversal is: the root, then the item last taken from a frame.
Early == pc \in {"start", "rooted"} \/ (pc = "offer" /\ after = "rooted")
RootedInv ==
  Early => /\ offer = Root
           /\ pc = "offer" => Root \notin Invisible
           /\ sent = IF pc = "rooted" /\ Root \notin Invisible THEN <<Root>> ELSE <<>>

\* Until the frame of the directory it has reached is pushed, that directory is closed.
Closed == Sending \/ Awaiting
Opened(d) == d < offer \/ (d = offer /\ ~Closed)

\* The frames list what follows in the directories already opened, the next item first.
FramesInOrder ==
  /\ offer \in Item /\ (Awaiting => target = offer)
  /\ \A x \in Item : Framed(x) => offer < x /\ \E p \in Dir : x \in Entries[p] /\ Opened(p)
  /\ Ascending
  /\ \A d \in Dir : Opened(d) => \A x \in Entries[d] : offer < x => Framed(x)
OrderInv == InLoop /\ ~cancelled => FramesInOrder

LEMMA StepRooted == TypeInv /\ RootedInv /\ [Next]_vars => RootedInv'
<1> SUFFICES ASSUME TypeInv, RootedInv, [Next]_vars, Early' PROVE
      /\ offer' = Root
      /\ pc' = "offer" => Root \notin Invisible
      /\ sent' = IF pc' = "rooted" /\ Root \notin Invisible THEN <<Root>> ELSE <<>>
  BY OptionsKept DEF RootedInv
<1> USE DEF scheduler, executor, control, RootedInv
<1>r. ReturnsOK
  BY DEF TypeInv, CoordinatorType
<1>1. CASE Sent
  <2>1. /\ pc = "offer" /\ after = "rooted" /\ pc' = "rooted" /\ offer' = offer
        /\ sent' = Append(sent, offer)
    BY <1>1, <1>r DEF Sent, Early, ReturnsOK
  <2>2. sent = <<>> /\ offer = Root /\ Root \notin Invisible
    BY <2>1 DEF Early
  <2>3. Append(<<>>, Root) = <<Root>>
    OBVIOUS
  <2> QED BY <2>1, <2>2, <2>3
<1>2. CASE Start
  BY <1>2 DEF Start, Early, Goto, Offer
<1>3. CASE SendFailed \/ Rooted \/ Reject \/ RefillEnds \/ Other
  BY <1>r, <1>3 DEF SendFailed, Rooted, Reject, RefillEnds, Other, StartDrain, Goto, ReturnsOK, Early
<1>4. CASE Drive \/ Emitted \/ DrainEnds
  BY <1>r, <1>4 DEF Drive, Emitted, DrainEnds, StartDrain, Goto, Offer, ReturnsOK, Early
<1>5. CASE SerialStart \/ SerialNext
  BY <1>5 DEF SerialStart, SerialNext, Goto, Offer, Early
<1>6. CASE Accept \/ DrainOne
  BY <1>6 DEF Accept, DrainOne, Early
<1>7. CASE Wait \/ Receive \/ Matched
  <2>1. pc' \in {"refill", "drain", "receive"}
    BY <1>7 DEF Wait, Receive, Matched, PrepareFrame, StartDrain, Goto
  <2> QED BY <2>1 DEF Early
<1>8. CASE Consumer \/ CallNext \/ DropReceiver \/ UNCHANGED vars
  <2>1. sent' = sent
    BY <1>8 DEF Consumer, Take, TakeEnd, CancelToken, JoinCoordinator, CallNext, DropReceiver, vars
  <2> QED BY <1>8, <2>1, ConsumerSteps DEF ConsumerStep, Early
<1>9. ASSUME NEW d \in Dir, Read(d) PROVE
      /\ offer' = Root
      /\ pc' = "offer" => Root \notin Invisible
      /\ sent' = IF pc' = "rooted" /\ Root \notin Invisible THEN <<Root>> ELSE <<>>
  BY <1>9 DEF Read, Early
<1> QED BY <1>1, <1>2, <1>3, <1>4, <1>5, <1>6, <1>7, <1>8, <1>9 DEF Next, Coordinator

\* Whatever follows in path order is framed, or something framed comes before it.
LEMMA FramedFirst ==
  ASSUME FramesInOrder, ~Closed, NEW x \in Item, offer < x
  PROVE  \E y \in Item : Framed(y) /\ y <= x
<1> DEFINE Out == {i \in Item : offer < i /\ \A y \in Item : Framed(y) => ~(y <= i)}
<1> SUFFICES ASSUME Out # {} PROVE FALSE
  OBVIOUS
<1>1. PICK m \in Out : \A i \in Out : ~(i < m)
  BY LeastItem
<1>2. m \in Nat /\ offer \in Nat /\ m \in Item /\ offer < m
  BY TreeFacts DEF FramesInOrder
<1>3. m # Root
  BY <1>2, RootIsFirst DEF FramesInOrder
<1>4. PICK p \in Dir : m \in Entries[p] /\ p < m
  BY <1>2, <1>3, HasParent
<1>5. p \in Item /\ p \in Nat
  BY TreeFacts
<1>6. CASE offer < p
  <2>1. PICK y \in Item : Framed(y) /\ y <= p
    BY <1>1, <1>4, <1>5, <1>6
  <2>2. y <= m
    BY <1>2, <1>4, <1>5, <2>1, TreeFacts
  <2> QED BY <2>1, <2>2
<1>7. CASE ~(offer < p)
  <2>1. Opened(p)
    BY <1>2, <1>5, <1>7 DEF Opened
  <2>2. Framed(m)
    BY <1>2, <1>4, <2>1 DEF FramesInOrder
  <2> QED BY <1>2, <2>2
<1> QED BY <1>6, <1>7

LEMMA SameFrames ==
  ASSUME FramesInOrder, offer' = offer, Awaiting' => target' = offer', Ascending',
         \A x \in Item : Framed(x)' <=> Framed(x), \A d \in Dir : Opened(d)' <=> Opened(d)
  PROVE  FramesInOrder'
<1>1. \A x \in Item : Framed(x)' => offer' < x /\ \E p \in Dir : x \in Entries[p] /\ Opened(p)'
  BY DEF FramesInOrder
<1>2. \A d \in Dir : Opened(d)' => \A x \in Entries[d] : offer' < x => Framed(x)'
  BY TreeFacts DEF FramesInOrder
<1> QED BY <1>1, <1>2 DEF FramesInOrder

LEMMA OrderKept ==
  ASSUME OrderInv, UNCHANGED <<frames, offer>>, cancelled => cancelled',
         InLoop' => InLoop /\ (Closed' <=> Closed),
         Awaiting' => (Awaiting /\ target' = target) \/ target' = offer
  PROVE  OrderInv'
<1> SUFFICES ASSUME InLoop', ~cancelled' PROVE FramesInOrder'
  BY DEF OrderInv
<1>1. FramesInOrder
  BY DEF OrderInv
<1>2. \A x \in Item : Framed(x)' <=> Framed(x)
  BY DEF Framed
<1>3. Ascending'
  BY <1>1 DEF FramesInOrder, Ascending
<1>4. \A d \in Dir : Opened(d)' <=> Opened(d)
  BY DEF Opened
<1>5. offer' = offer /\ (Awaiting' => target' = offer')
  BY <1>1 DEF FramesInOrder
<1> QED BY <1>1, <1>2, <1>3, <1>4, <1>5, SameFrames

\* The whole batch of the directory reached becomes the top frame.
LEMMA OrderPushed ==
  ASSUME TypeInv, WholeInv, OrderInv, Awaiting, ~cancelled,
         NEW b \in ready, Prepared(b), b.dir = target
  PROVE  FramesInOrder'
<1> DEFINE E == Entries[offer]
           s == InPathOrder(E)
<1>1. FramesInOrder /\ target = offer /\ Closed
  BY DEF OrderInv, InLoop, FramesInOrder, Closed
<1>2. offer \in Dir /\ b.entries = E
  BY <1>1 DEF WholeInv, TypeInv, SchedulerType, BatchType
<1>3. E \in SUBSET Nat /\ IsFiniteSet(E) /\ E \in SUBSET Item /\ offer \in Nat
  BY <1>2, TreeFacts, FS_Subset
<1>4. frames' = Append(frames, s) /\ offer' = offer /\ pc' = "refill" /\ after' = "drive"
  BY <1>2 DEF Prepared
<1>e. \A x \in E : offer < x /\ x \in Entries[offer]
  BY <1>2, TreeFacts
<1>n. \A p \in Dir : p < offer => \A x \in Entries[p], y \in E : offer < x => y < x
  BY <1>2, NumberingAssumption
<1> HIDE DEF E
<1>5. /\ s \in Seq(E) /\ (\A x \in E : \E k \in DOMAIN s : s[k] = x)
      /\ \A k, l \in DOMAIN s : k < l => s[k] < s[l]
  BY <1>3, PathOrder
<1> HIDE DEF s
<1>6. s \in Seq(Item) /\ \A k \in DOMAIN s : s[k] \in E
  BY <1>3, <1>5, SeqMonotone
<1>7. ~Awaiting' /\ ~Closed' /\ offer' \in Item
  BY <1>1, <1>4 DEF Closed, Awaiting, Sending, FramesInOrder
<1>8. \A d \in Dir : Opened(d)' <=> Opened(d) \/ d = offer
  BY <1>1, <1>4, <1>7 DEF Opened
<1>9. ASSUME NEW x \in Item, Framed(x), NEW k \in DOMAIN s PROVE s[k] < x
  <2>1. PICK p \in Dir : x \in Entries[p] /\ Opened(p) /\ offer < x
    BY <1>1, <1>9 DEF FramesInOrder
  <2>2. p < offer
    BY <1>1, <2>1 DEF Opened
  <2> QED BY <1>6, <1>n, <2>1, <2>2
<1>10. Ascending' /\ \A x \in Item : Framed(x)' <=> Framed(x) \/ x \in E
  <2>1. \A x \in Item : Framed(x)' <=> Framed(x) \/ \E k \in DOMAIN s : s[k] = x
    BY <1>4, <1>6, PushKeepsOrder
  <2>2. Ascending'
    BY <1>1, <1>4, <1>5, <1>6, <1>9, PushKeepsOrder DEF FramesInOrder
  <2> QED BY <1>5, <1>6, <2>1, <2>2
<1>11. \A x \in Item : Framed(x)' => offer' < x /\ \E p \in Dir : x \in Entries[p] /\ Opened(p)'
  BY <1>1, <1>2, <1>4, <1>8, <1>10, <1>e DEF FramesInOrder
<1>12. \A d \in Dir : Opened(d)' => \A x \in Entries[d] : offer' < x => Framed(x)'
  <2> SUFFICES ASSUME NEW d \in Dir, Opened(d)', NEW x \in Entries[d], offer < x PROVE Framed(x)'
    BY <1>4
  <2>1. x \in Item
    BY TreeFacts
  <2>2. CASE d = offer
    BY <1>10, <2>1, <2>2 DEF E
  <2>3. CASE Opened(d)
    BY <1>1, <1>10, <2>1, <2>3 DEF FramesInOrder
  <2> QED BY <1>8, <2>2, <2>3
<1> QED BY <1>7, <1>10, <1>11, <1>12 DEF FramesInOrder

\* The next item is the first that follows, whatever its directory.
LEMMA OrderTaken ==
  ASSUME TypeInv, FramesInOrder, ~Closed, frames # <<>>, Last(frames) # <<>>,
         frames' = Append(Front(frames), Tail(Last(frames))),
         NEW item, item = Head(Last(frames)), offer' = item, Sending', ~Awaiting'
  PROVE  /\ FramesInOrder' /\ item \in Item /\ offer < item
         /\ \A x \in Item : offer < x => item <= x
<1>1. Ascending /\ offer \in Item
  BY DEF FramesInOrder
<1>2. /\ item \in Item /\ Framed(item) /\ Ascending'
      /\ \A x \in Item : Framed(x)' => Framed(x) /\ item < x
      /\ \A x \in Item : Framed(x) => (x = item \/ Framed(x)') /\ item <= x
  BY <1>1, TakeKeepsOrder
<1>3. offer < item
  BY <1>2 DEF FramesInOrder
<1>n. Item \in SUBSET Nat /\ offer \in Nat /\ item \in Nat
  BY <1>1, <1>2, TreeFacts
<1>4. ASSUME NEW x \in Item, offer < x PROVE item <= x
  <2>1. PICK y \in Item : Framed(y) /\ y <= x
    BY <1>4, FramedFirst
  <2>2. item <= y
    BY <1>2, <2>1
  <2> QED BY <1>n, <2>1, <2>2
<1>5. \A d \in Dir : Opened(d)' <=> d < item
  <2>1. Closed'
    BY DEF Closed
  <2> QED BY <2>1 DEF Opened
<1>6. \A d \in Dir : Opened(d) <=> d < item
  <2> SUFFICES ASSUME NEW d \in Dir PROVE Opened(d) <=> d < item
    OBVIOUS
  <2>1. d \in Item /\ d \in Nat
    BY TreeFacts
  <2>2. Opened(d) <=> d <= offer
    BY <1>n, <2>1 DEF Opened
  <2>3. d < item => d <= offer
    BY <1>4, <1>n, <2>1
  <2>4. d <= offer => d < item
    BY <1>3, <1>n, <2>1
  <2> QED BY <2>2, <2>3, <2>4
<1>7. \A x \in Item : Framed(x)' => offer' < x /\ \E p \in Dir : x \in Entries[p] /\ Opened(p)'
  BY <1>2, <1>5, <1>6 DEF FramesInOrder
<1>8. \A d \in Dir : Opened(d)' => \A x \in Entries[d] : offer' < x => Framed(x)'
  <2> SUFFICES ASSUME NEW d \in Dir, Opened(d)', NEW x \in Entries[d], item < x PROVE Framed(x)'
    OBVIOUS
  <2>1. x \in Item /\ x \in Nat
    BY TreeFacts
  <2>2. offer < x /\ x # item
    BY <1>3, <1>n, <2>1
  <2>3. Opened(d)
    BY <1>5, <1>6
  <2>4. Framed(x)
    BY <2>2, <2>3 DEF FramesInOrder
  <2> QED BY <1>2, <2>1, <2>2, <2>4
<1> QED BY <1>2, <1>3, <1>4, <1>7, <1>8 DEF FramesInOrder

LEMMA StepOrder ==
  TypeInv /\ EarlyInv /\ RootedInv /\ WholeInv /\ OrderInv /\ [Next]_vars => OrderInv'
<1> SUFFICES ASSUME TypeInv, EarlyInv, RootedInv, WholeInv, OrderInv, [Next]_vars PROVE OrderInv'
  OBVIOUS
<1> USE DEF scheduler, executor, control
<1>r. ReturnsOK
  BY DEF TypeInv, CoordinatorType
<1>l. ~InLoop' \/ cancelled' => OrderInv'
  BY DEF OrderInv
<1>c. cancelled => cancelled'
  BY OptionsKept
<1>1. CASE Sent
  <2>1. UNCHANGED <<frames, target, offer, after>> /\ pc = "offer" /\ pc' = after
    BY <1>1 DEF Sent
  <2>2. CASE after = "emitted"
    <3>1. InLoop /\ Closed /\ Closed' /\ ~Awaiting'
      BY <2>1, <2>2 DEF Sending, InLoop, Awaiting, Closed
    <3> QED BY <1>c, <2>1, <3>1, OrderKept
  <2>3. CASE after # "emitted"
    <3>1. ~InLoop'
      BY <1>r, <2>1, <2>3 DEF InLoop, Sending, Awaiting, ReturnsOK
    <3> QED BY <1>l, <3>1
  <2> QED BY <2>2, <2>3
<1>2. CASE SendFailed \/ Start \/ DrainOne \/ DrainEnds \/ SerialStart \/ SerialNext
  <2>1. ~InLoop'
    <3>1. CASE SendFailed \/ Start
      BY <3>1 DEF SendFailed, Start, StartDrain, Goto, Offer, InLoop, Sending, Awaiting
    <3>2. CASE DrainOne \/ DrainEnds
      BY <1>r, <3>2 DEF DrainOne, DrainEnds, Goto, Offer, InLoop, Sending, Awaiting, ReturnsOK
    <3>3. CASE SerialStart \/ SerialNext
      BY <3>3 DEF SerialStart, SerialNext, Goto, Offer, InLoop, Sending, Awaiting
    <3> QED BY <1>2, <3>1, <3>2, <3>3
  <2> QED BY <1>l, <2>1
<1>3. CASE Rooted
  <2>1. /\ target' = Root /\ frames' = <<>> /\ offer' = Root
        /\ pc' = "ended" \/ (pc' = "refill" /\ after' = "wait")
    BY <1>3 DEF Rooted, Goto, EarlyInv, RootedInv, Early
  <2>2. CASE pc' = "ended"
    BY <1>l, <2>2 DEF InLoop, Sending, Awaiting
  <2>3. CASE pc' = "refill" /\ after' = "wait"
    <3>1. Closed'
      BY <2>3 DEF Closed, Awaiting
    <3>2. \A x \in Item : ~Framed(x)'
      BY <2>1 DEF Framed
    <3>3. Ascending'
      BY <2>1 DEF Ascending
    <3>4. \A d \in Dir : ~Opened(d)'
      <4> SUFFICES ASSUME NEW d \in Dir PROVE ~(d < Root)
        BY <2>1, <3>1 DEF Opened
      <4>1. d \in Item /\ d \in Nat /\ Root \in Nat
        BY TreeFacts
      <4> QED BY <4>1, RootIsFirst
    <3>5. offer' \in Item /\ (Awaiting' => target' = offer')
      BY <2>1, TreeFacts
    <3>6. FramesInOrder'
      BY <3>2, <3>3, <3>4, <3>5 DEF FramesInOrder
    <3> QED BY <3>6 DEF OrderInv
  <2> QED BY <2>1, <2>2, <2>3
<1>4. CASE Accept
  <2>1. UNCHANGED <<pc, after, frames, target, offer>>
    BY <1>4 DEF Accept
  <2> QED BY <1>c, <2>1, OrderKept DEF InLoop, Sending, Awaiting, Closed
<1>5. CASE Reject
  BY <1>5, <1>l DEF Reject
<1>6. CASE RefillEnds
  <2>1. UNCHANGED <<after, frames, target, offer>> /\ pc = "refill" /\ pc' = after
    BY <1>6 DEF RefillEnds, Goto
  <2>2. InLoop /\ (Closed' <=> Closed) /\ (Awaiting' => Awaiting)
    BY <1>r, <2>1 DEF InLoop, Sending, Awaiting, Closed, ReturnsOK
  <2> QED BY <1>c, <2>1, <2>2, OrderKept
<1>7. CASE Wait \/ Matched
  <2>1. Awaiting /\ InLoop /\ target' = target
    BY <1>7 DEF Wait, Matched, Awaiting, InLoop
  <2>2. CASE pc' = "drain"
    BY <1>l, <2>2 DEF InLoop, Sending, Awaiting
  <2>3. CASE pc' = "receive"
    <3>1. UNCHANGED <<frames, offer>>
      BY <1>7, <2>3 DEF Wait, Matched, PrepareFrame, StartDrain, Goto
    <3>2. Closed /\ Closed'
      BY <2>1, <2>3 DEF Closed, Awaiting
    <3> QED BY <1>c, <2>1, <3>1, <3>2, OrderKept
  <2>4. CASE \E b \in ready : b.dir = target /\ PrepareFrame(b)
    <3>1. PICK b \in ready : b.dir = target /\ PrepareFrame(b)
      BY <2>4
    <3>2. Prepared(b)
      BY <3>1, PreparedType
    <3>3. CASE cancelled
      BY <1>c, <1>l, <3>3
    <3>4. CASE ~cancelled
      BY <2>1, <3>1, <3>2, <3>4, OrderPushed DEF OrderInv
    <3> QED BY <3>3, <3>4
  <2> QED BY <1>7, <2>2, <2>3, <2>4 DEF Wait, Matched, StartDrain, Goto
<1>8. CASE Receive \/ Other
  <2>1. /\ Awaiting /\ UNCHANGED <<frames, target, offer>>
        /\ pc' \in {"drain", "receive"} \/ (pc' = "refill" /\ after' # "drive")
    BY <1>8 DEF Receive, Other, StartDrain, Goto, Awaiting
  <2>2. CASE pc' = "drain"
    BY <1>l, <2>2 DEF InLoop, Sending, Awaiting
  <2>3. CASE pc' # "drain"
    <3>1. InLoop /\ Closed /\ Closed'
      BY <2>1, <2>3 DEF InLoop, Awaiting, Closed
    <3> QED BY <1>c, <2>1, <3>1, OrderKept
  <2> QED BY <2>2, <2>3
<1>9. CASE Drive
  <2>1. CASE cancelled \/ frames = <<>>
    BY <1>l, <1>9, <2>1 DEF Drive, StartDrain, InLoop, Sending, Awaiting
  <2>2. CASE ~cancelled /\ frames # <<>>
    <3>1. pc = "drive" /\ ~Closed /\ target' = target
      BY <1>9 DEF Drive, Closed, Sending, Awaiting
    <3>2. FramesInOrder
      BY <2>2, <3>1 DEF OrderInv, InLoop
    <3>3. CASE Last(frames) = <<>>
      <4>1. frames' = Front(frames) /\ pc' = "drive" /\ offer' = offer
        BY <1>9, <2>2, <3>3 DEF Drive, Goto
      <4>2. Ascending' /\ \A x \in Item : Framed(x)' <=> Framed(x)
        BY <2>2, <3>2, <3>3, <4>1, PopKeepsOrder DEF FramesInOrder
      <4>3. ~Closed' /\ ~Awaiting' /\ \A d \in Dir : Opened(d)' <=> Opened(d)
        BY <3>1, <4>1 DEF Closed, Sending, Awaiting, Opened
      <4> QED BY <3>2, <4>1, <4>2, <4>3, SameFrames DEF OrderInv
    <3>4. CASE Last(frames) # <<>>
      <4> DEFINE item == Head(Last(frames))
      <4>1. /\ frames' = Append(Front(frames), Tail(Last(frames)))
            /\ offer' = item /\ pc' \in {"emitted", "offer"} /\ after' = "emitted"
        BY <1>9, <2>2, <3>4 DEF Drive, Offer
      <4>2. Sending' /\ ~Awaiting'
        BY <4>1 DEF Sending, Awaiting
      <4> HIDE DEF item
      <4>3. FramesInOrder'
        BY <2>2, <3>1, <3>2, <3>4, <4>1, <4>2, OrderTaken DEF item
      <4> QED BY <4>3 DEF OrderInv
    <3> QED BY <3>3, <3>4
  <2> QED BY <2>1, <2>2
<1>10. CASE Emitted
  <2>1. CASE pc' = "drain"
    BY <1>l, <2>1 DEF InLoop, Sending, Awaiting
  <2>2. CASE pc' # "drain"
    <3>1. /\ pc = "emitted" /\ UNCHANGED <<frames, offer>>
          /\ (pc' = "wait" /\ target' = offer) \/ (pc' = "drive" /\ offer \notin Dir)
      BY <1>10, <2>2 DEF Emitted, StartDrain, Goto
    <3>2. InLoop /\ Closed
      BY <3>1 DEF InLoop, Closed, Sending
    <3>3. CASE pc' = "wait" /\ target' = offer
      <4>1. Closed'
        BY <3>3 DEF Closed, Awaiting
      <4> QED BY <1>c, <3>1, <3>2, <3>3, <4>1, OrderKept
    <3>4. CASE pc' = "drive" /\ offer \notin Dir /\ ~cancelled'
      <4>1. FramesInOrder
        BY <1>c, <3>2, <3>4 DEF OrderInv
      <4>2. ~Awaiting' /\ \A d \in Dir : Opened(d)' <=> Opened(d)
        BY <3>1, <3>4 DEF Opened, Closed, Awaiting, Sending
      <4>3. \A x \in Item : Framed(x)' <=> Framed(x)
        BY <3>1 DEF Framed
      <4>4. Ascending'
        BY <3>1, <4>1 DEF FramesInOrder, Ascending
      <4> QED BY <3>1, <4>1, <4>2, <4>3, <4>4, SameFrames DEF OrderInv
    <3> QED BY <1>l, <3>1, <3>3, <3>4
  <2> QED BY <2>1, <2>2
<1>11. CASE Consumer \/ CallNext \/ DropReceiver \/ UNCHANGED vars
  <2>1. UNCHANGED <<pc, after, frames, target, offer>>
    BY <1>11, ConsumerSteps DEF ConsumerStep
  <2> QED BY <1>c, <2>1, OrderKept DEF InLoop, Sending, Awaiting, Closed
<1>12. ASSUME NEW d \in Dir, Read(d) PROVE OrderInv'
  <2>1. UNCHANGED <<pc, after, frames, target, offer>>
    BY <1>12 DEF Read
  <2> QED BY <1>c, <2>1, OrderKept DEF InLoop, Sending, Awaiting, Closed
<1> QED BY <1>1, <1>2, <1>3, <1>4, <1>5, <1>6, <1>7, <1>8, <1>9, <1>10, <1>11, <1>12
        DEF Next, Coordinator

-----------------------------------------------------------------------------
(* What has been sent, and what may still be *)

\* The owner has dropped the iterator.
Gone == consumer \in {"closed", "dropping", "dropped", "panicked"}

LEMMA SentSteps ==
  [Next]_vars => (Sent \/ sent' = sent) /\ (Gone => Gone') /\ (pc = "ended" => pc' = "ended")
<1> SUFFICES ASSUME [Next]_vars
             PROVE  (Sent \/ sent' = sent) /\ (Gone => Gone') /\ (pc = "ended" => pc' = "ended")
  OBVIOUS
<1>1. CASE Sent
  BY <1>1 DEF Sent, Gone
<1>2. CASE SendFailed \/ Start \/ Rooted \/ Accept \/ Reject \/ RefillEnds
  BY <1>2 DEF SendFailed, Start, Rooted, Accept, Reject, RefillEnds, Gone
<1>3. CASE Wait \/ Receive \/ Matched \/ Other
  BY <1>3 DEF Wait, Receive, Matched, Other, Gone
<1>4. CASE Drive \/ Emitted \/ DrainOne \/ DrainEnds \/ SerialStart \/ SerialNext
  BY <1>4 DEF Drive, Emitted, DrainOne, DrainEnds, SerialStart, SerialNext, Gone, control
<1>5. CASE Consumer \/ CallNext \/ DropReceiver \/ UNCHANGED vars
  BY <1>5 DEF Consumer, Take, TakeEnd, CancelToken, JoinCoordinator, CallNext, DropReceiver, vars, Joined,
              Gone, control
<1>6. ASSUME NEW d \in Dir, Read(d)
      PROVE  (Sent \/ sent' = sent) /\ (Gone => Gone') /\ (pc = "ended" => pc' = "ended")
  BY <1>6 DEF Read, Gone, control
<1> QED BY <1>1, <1>2, <1>3, <1>4, <1>5, <1>6 DEF Next, Coordinator

\* Who cancels: the owner's drop, a rejected job, and the end of the traversal itself.
Ending == pc \in {"drain", "ended", "unwound"} \/ (pc = "offer" /\ after = "ended")
CancelInv ==
  /\ cancelled => Gone \/ scheduleError \/ Ending
  /\ cancelled /\ (Early \/ pc = "offer") /\ ~Ending => consumer = "dropping"

LEMMA StepCancel == TypeInv /\ CancelInv /\ [Next]_vars => CancelInv'
<1> SUFFICES ASSUME TypeInv, CancelInv, [Next]_vars, cancelled' PROVE
      /\ Gone' \/ scheduleError' \/ Ending'
      /\ (Early' \/ pc' = "offer") /\ ~Ending' => consumer' = "dropping"
  BY DEF CancelInv
<1> USE DEF scheduler, executor, control
<1>r. ReturnsOK /\ scheduleError \in BOOLEAN
  BY DEF TypeInv, CoordinatorType, SchedulerType
<1>g. Gone => Gone'
  BY SentSteps
<1>1. CASE Sent
  <2>1. ~(cancelled /\ (Early \/ pc = "offer") /\ ~Ending) /\ pc = "offer"
    BY <1>1 DEF CancelInv, Sent, ReceiverGone
  <2>2. Ending /\ after = "ended"
    BY <1>1, <2>1 DEF Sent, Ending
  <2> QED BY <1>1, <2>2 DEF Sent, Ending
<1>2. CASE SendFailed \/ Start \/ Rooted
  <2>1. CASE SendFailed
    BY <2>1 DEF SendFailed, Goto, StartDrain, Ending
  <2>2. CASE Start
    BY <1>g, <2>2 DEF Start, Goto, Offer, Ending, Early, CancelInv
  <2>3. CASE Rooted
    BY <1>g, <2>3 DEF Rooted, Goto, Ending, Early, CancelInv
  <2> QED BY <1>2, <2>1, <2>2, <2>3
<1>3. CASE Accept \/ Reject \/ RefillEnds
  <2>1. ~Early' /\ pc' # "offer"
    BY <1>3, <1>r DEF Accept, Reject, RefillEnds, Goto, Early, ReturnsOK
  <2>2. CASE Reject
    BY <2>1, <2>2 DEF Reject
  <2>3. CASE Accept \/ RefillEnds
    BY <1>g, <2>1, <2>3 DEF Accept, RefillEnds, Goto, Ending, CancelInv
  <2> QED BY <1>3, <2>2, <2>3
<1>4. CASE Wait \/ Receive \/ Matched \/ Other
  <2>1. ~Early' /\ pc' # "offer" /\ ~Ending /\ (pc' # "drain" => cancelled' = cancelled)
    BY <1>4 DEF Wait, Receive, Matched, Other, StartDrain, PrepareFrame, Goto, Early, Ending
  <2>2. pc' = "drain" \/ scheduleError' = scheduleError \/ ~scheduleError \/ ~cancelled
    BY <1>4, <1>r DEF Wait, Receive, Matched, Other, StopWaiting, StartDrain, PrepareFrame, Goto
  <2> QED BY <1>g, <2>1, <2>2 DEF Ending, CancelInv
<1>5. CASE Drive \/ Emitted
  <2>1. ~Early' /\ ~Ending /\ scheduleError' = scheduleError
    BY <1>5 DEF Drive, Emitted, StartDrain, Offer, Goto, Early, Ending
  <2>2. pc' = "drain" \/ (cancelled' = cancelled /\ (pc' = "offer" => ~cancelled))
    BY <1>5 DEF Drive, Emitted, StartDrain, Offer, Goto
  <2> QED BY <1>g, <2>1, <2>2 DEF Ending, CancelInv
<1>6. CASE DrainOne \/ DrainEnds
  BY <1>6, <1>r DEF DrainOne, DrainEnds, Offer, Goto, Ending, ReturnsOK
<1>7. CASE SerialStart \/ SerialNext
  <2>1. CASE SerialStart
    BY <1>g, <2>1 DEF SerialStart, Goto, Offer, Ending, Early, CancelInv
  <2>2. CASE SerialNext
    <3>1. pc = "serial" /\ UNCHANGED <<cancelled, scheduleError>>
      BY <2>2 DEF SerialNext
    <3>2. ~Early'
      BY <2>2 DEF SerialNext, Goto, Offer, Early
    <3>3. pc' = "offer" => ~cancelled
      BY <2>2 DEF SerialNext, Goto
    <3>4. ~Ending
      BY <3>1 DEF Ending
    <3> QED BY <1>g, <3>1, <3>2, <3>3, <3>4 DEF CancelInv
  <2> QED BY <1>7, <2>1, <2>2
<1>8. CASE Consumer \/ CallNext \/ DropReceiver \/ UNCHANGED vars
  <2>1. UNCHANGED <<pc, after, scheduleError>>
    BY <1>8, ConsumerSteps DEF ConsumerStep
  <2>2. \/ cancelled' = cancelled /\ (consumer = "dropping" => consumer' = "dropping" \/ CoordinatorOver)
        \/ consumer' = "dropping"
    BY <1>8 DEF Consumer, Take, TakeEnd, CancelToken, JoinCoordinator, CallNext, DropReceiver, vars
  <2>3. CoordinatorOver => Ending
    BY DEF CoordinatorOver, Ending
  <2>4. Gone' \/ cancelled' = cancelled
    BY <2>2 DEF Gone
  <2> QED BY <1>g, <2>1, <2>2, <2>3, <2>4 DEF CancelInv, Early, Ending
<1>9. ASSUME NEW d \in Dir, Read(d) PROVE
      /\ Gone' \/ scheduleError' \/ Ending'
      /\ (Early' \/ pc' = "offer") /\ ~Ending' => consumer' = "dropping"
  BY <1>9, <1>g DEF Read, CancelInv, Early, Ending
<1> QED BY <1>1, <1>2, <1>3, <1>4, <1>5, <1>6, <1>7, <1>8, <1>9 DEF Next, Coordinator

\* Up to where the traversal is, everything promised has been sent.
Moving == pc = "rooted" \/ (pc = "offer" /\ after = "rooted") \/ InLoop
SoFar == {x \in Promised : x < offer \/ (x = offer /\ pc # "offer")}
AllSentSoFar ==
  /\ offer \in Item
  /\ Len(sent) = Cardinality(SoFar)
  /\ pc = "offer" => offer \notin Invisible
  /\ AbortPolicy => \A e \in Errors : offer <= e /\ (e = offer => Sending)
ProgressInv == Moving /\ ~cancelled => AllSentSoFar

LEMMA PromisedFacts ==
  /\ Promised \in SUBSET Item /\ Promised \in SUBSET Nat /\ IsFiniteSet(Promised)
  /\ SoFar \in SUBSET Promised /\ IsFiniteSet(SoFar)
<1>1. Promised \in SUBSET Item /\ SoFar \in SUBSET Promised
  BY DEF Promised, SoFar
<1> QED BY <1>1, TreeFacts, FS_Subset

LEMMA ProgressKept ==
  ASSUME ProgressInv, UNCHANGED <<sent, offer>>, Promised' = Promised, Invisible' = Invisible,
         AbortPolicy' = AbortPolicy, cancelled => cancelled', Moving' => Moving,
         pc' = "offer" <=> pc = "offer",
         Moving' /\ Sending => Sending' \/ (AbortPolicy => offer \notin Errors)
  PROVE  ProgressInv'
<1> SUFFICES ASSUME Moving', ~cancelled' PROVE AllSentSoFar'
  BY DEF ProgressInv
<1>1. AllSentSoFar
  BY DEF ProgressInv
<1>2. SoFar' = SoFar
  BY DEF SoFar
<1> QED BY <1>1, <1>2 DEF AllSentSoFar

\* The item sent is the next one promised.
LEMMA OfferIsNext ==
  ASSUME TypeInv, ProgressInv, CancelInv, Sent, after \in {"rooted", "emitted"}
  PROVE  /\ AllSentSoFar /\ ~cancelled /\ offer \in Promised
         /\ SoFar = Earlier(Promised, offer) /\ Cardinality(Earlier(Promised, offer)) = Len(sent)
<1>1. pc = "offer" /\ ~ReceiverGone
  BY DEF Sent
<1>2. Moving /\ ~Ending
  BY <1>1 DEF Moving, InLoop, Sending, Ending
<1>3. ~cancelled
  BY <1>1, <1>2 DEF CancelInv, ReceiverGone
<1>4. AllSentSoFar
  BY <1>2, <1>3 DEF ProgressInv
<1>5. offer \in Promised
  BY <1>1, <1>4 DEF AllSentSoFar, Promised
<1>6. SoFar = Earlier(Promised, offer)
  BY <1>1 DEF SoFar, Earlier
<1> QED BY <1>3, <1>4, <1>5, <1>6 DEF AllSentSoFar
LEMMA ProgressSent ==
  ASSUME TypeInv, ProgressInv, CancelInv, Sent, after \in {"rooted", "emitted"}, Promised' = Promised,
         AbortPolicy' = AbortPolicy
  PROVE  AllSentSoFar'
<1>1. /\ AllSentSoFar /\ offer \in Promised
      /\ SoFar = Earlier(Promised, offer)
  BY OfferIsNext
<1>2. /\ pc = "offer" /\ pc' = after /\ sent' = Append(sent, offer)
      /\ offer' = offer
  BY DEF Sent
<1>3. SoFar' = SoFar \cup {offer} /\ offer \notin SoFar
  <2>1. pc' # "offer"
    BY <1>2
  <2>2. SoFar' = {x \in Promised : x < offer \/ x = offer}
    BY <1>2, <2>1 DEF SoFar
  <2>3. SoFar = {x \in Promised : x < offer} /\ offer \in Nat
    BY <1>1, PromisedFacts DEF Earlier
  <2> QED BY <1>1, <2>2, <2>3
<1>4. Cardinality(SoFar \cup {offer}) = Cardinality(SoFar) + 1
  BY <1>3, PromisedFacts, FS_AddElement
<1>5. sent \in Seq(Sendable) /\ offer \in Sendable
  BY DEF TypeInv, ConsumerType, CoordinatorType
<1>6. Len(sent') = Len(sent) + 1
  BY <1>2, <1>5
<1>7. Sending => Sending'
  BY <1>2 DEF Sending
<1> QED BY <1>1, <1>2, <1>3, <1>4, <1>6, <1>7 DEF AllSentSoFar

LEMMA ProgressTaken ==
  ASSUME AllSentSoFar, pc = "drive", UNCHANGED sent, Promised' = Promised, Invisible' = Invisible,
         AbortPolicy' = AbortPolicy, NEW item \in Item, offer' = item, offer < item,
         \A x \in Item : offer < x => item <= x, Sending',
         IF item \in Invisible THEN pc' = "emitted" ELSE pc' = "offer"
  PROVE  AllSentSoFar'
<1>1. offer \in Nat /\ item \in Nat /\ offer \in Item
  BY TreeFacts DEF AllSentSoFar
<1>2. ASSUME NEW x \in Promised PROVE x \in SoFar <=> x \in SoFar'
  <2>1. x \in Nat /\ x \in Item
    BY PromisedFacts
  <2>2. x \in SoFar <=> x <= offer
    BY <1>1, <2>1 DEF SoFar
  <2>3. x \in SoFar' <=> x < item
    <3>1. CASE item \in Invisible
      BY <3>1 DEF SoFar, Promised
    <3>2. CASE item \notin Invisible
      BY <3>2 DEF SoFar
    <3> QED BY <3>1, <3>2
  <2>4. x < item <=> x <= offer
    BY <1>1, <2>1
  <2> QED BY <2>2, <2>3, <2>4
<1>3. SoFar' = SoFar
  <2>1. SoFar \in SUBSET Promised /\ SoFar' \in SUBSET Promised
    BY DEF SoFar
  <2> QED BY <1>2, <2>1
<1>4. ~Sending
  BY DEF Sending
<1>5. ASSUME AbortPolicy, NEW e \in Errors PROVE item <= e
  <2>1. offer <= e /\ e # offer /\ e \in Item /\ e \in Nat
    BY <1>4, <1>5, TreeFacts DEF AllSentSoFar
  <2> QED BY <1>1, <2>1
<1> QED BY <1>3, <1>5 DEF AllSentSoFar

LEMMA StepProgress ==
  TypeInv /\ EarlyInv /\ RootedInv /\ WholeInv /\ OrderInv /\ CancelInv /\ ProgressInv /\ [Next]_vars
    => ProgressInv'
<1> SUFFICES ASSUME TypeInv, EarlyInv, RootedInv, WholeInv, OrderInv, CancelInv, ProgressInv,
                    [Next]_vars
             PROVE  ProgressInv'
  OBVIOUS
<1> USE DEF scheduler, executor, control
<1>r. ReturnsOK
  BY DEF TypeInv, CoordinatorType
<1>l. ~Moving' \/ cancelled' => ProgressInv'
  BY DEF ProgressInv
<1>c. /\ cancelled => cancelled'
      /\ Promised' = Promised /\ Invisible' = Invisible /\ AbortPolicy' = AbortPolicy
  BY OptionsKept
<1>1. CASE Sent
  <2>1. CASE after \in {"rooted", "emitted"}
    BY <1>1, <1>c, <2>1, ProgressSent DEF ProgressInv
  <2>2. CASE after \notin {"rooted", "emitted"}
    <3>1. ~Moving'
      BY <1>1, <1>r, <2>2 DEF Sent, Moving, InLoop, Sending, Awaiting, ReturnsOK
    <3> QED BY <1>l, <3>1
  <2> QED BY <2>1, <2>2
<1>2. CASE SendFailed \/ DrainOne \/ DrainEnds \/ SerialStart \/ SerialNext
  <2>1. CASE SendFailed
    BY <1>l, <2>1 DEF SendFailed, StartDrain, Goto, Moving, InLoop, Sending, Awaiting
  <2>2. CASE DrainOne \/ DrainEnds
    <3>1. ~Moving'
      BY <1>r, <2>2 DEF DrainOne, DrainEnds, Goto, Offer, Moving, InLoop, Sending, Awaiting, ReturnsOK
    <3> QED BY <1>l, <3>1
  <2>3. CASE SerialStart \/ SerialNext
    <3>1. ~Moving'
      BY <2>3 DEF SerialStart, SerialNext, Goto, Offer, Moving, InLoop, Sending, Awaiting
    <3> QED BY <1>l, <3>1
  <2> QED BY <1>2, <2>1, <2>2, <2>3
<1>3. CASE Start
  <2>1. CASE after' = "ended" /\ pc' = "offer"
    BY <1>l, <2>1 DEF Moving, InLoop, Sending, Awaiting
  <2>2. CASE ~(after' = "ended" /\ pc' = "offer")
    <3>1. /\ pc = "start" /\ sent' = sent /\ sent = <<>> /\ offer' = Root
          /\ \/ pc' = "offer" /\ Root \notin Invisible
             \/ pc' = "rooted" /\ Root \in Invisible
      BY <1>3, <2>2 DEF Start, Offer, Goto, RootedInv, Early
    <3>2. SoFar' = {}
      <4> SUFFICES ASSUME NEW x \in SoFar' PROVE FALSE
        OBVIOUS
      <4>1. x \in Promised /\ x \in Item /\ x \in Nat /\ Root \in Nat /\ Root <= x
        BY <1>c, PromisedFacts, RootIsFirst, TreeFacts DEF SoFar
      <4>2. x = Root /\ pc' # "offer"
        BY <3>1, <4>1 DEF SoFar
      <4> QED BY <3>1, <4>1, <4>2 DEF Promised
    <3>3. Len(sent') = Cardinality(SoFar')
      BY <3>1, <3>2, FS_EmptySet
    <3>4. \A e \in Errors : Root <= e /\ e # Root
      BY TreeFacts, RootIsFirst
    <3>5. Root \in Item
      BY TreeFacts
    <3> QED BY <1>c, <3>1, <3>3, <3>4, <3>5 DEF AllSentSoFar, ProgressInv
  <2> QED BY <2>1, <2>2
<1>4. CASE Rooted
  <2>1. pc = "rooted" /\ pc' \in {"ended", "refill"} /\ UNCHANGED <<sent, offer>>
    BY <1>4 DEF Rooted, Goto
  <2>2. Moving /\ ~Sending /\ pc # "offer" /\ pc' # "offer"
    BY <2>1 DEF Moving, Sending
  <2> QED BY <1>c, <2>1, <2>2, ProgressKept
<1>5. CASE Reject
  BY <1>5, <1>l DEF Reject
<1>6. CASE Accept \/ RefillEnds
  <2>1. /\ pc = "refill" /\ pc' \in {"refill", "wait", "matched", "other", "drive"}
        /\ UNCHANGED <<sent, offer>>
    BY <1>6, <1>r DEF Accept, RefillEnds, Goto, ReturnsOK
  <2>2. Moving /\ ~Sending /\ pc # "offer" /\ pc' # "offer"
    BY <2>1 DEF Moving, Sending, InLoop
  <2> QED BY <1>c, <2>1, <2>2, ProgressKept
<1>7. CASE Wait \/ Receive \/ Matched \/ Other
  <2>1. /\ Moving /\ ~Sending /\ pc # "offer" /\ pc' # "offer"
    BY <1>7 DEF Wait, Receive, Matched, Other, Moving, InLoop, Awaiting, Sending, StartDrain, PrepareFrame, Goto
  <2>2. UNCHANGED <<sent, offer>>
    BY <1>7 DEF Wait, Receive, Matched, Other, StartDrain, PrepareFrame, Goto
  <2> QED BY <1>c, <2>1, <2>2, ProgressKept
<1>8. CASE Drive
  <2>1. pc = "drive" /\ sent' = sent /\ Moving /\ ~Sending /\ ~Closed /\ InLoop
    BY <1>8 DEF Drive, Moving, InLoop, Sending, Closed, Awaiting
  <2>2. CASE cancelled \/ frames = <<>>
    BY <1>8, <1>l, <2>2 DEF Drive, StartDrain
  <2>3. CASE ~cancelled /\ frames # <<>> /\ Last(frames) = <<>>
    BY <1>8, <1>c, <2>1, <2>3, ProgressKept DEF Drive, Goto
  <2>4. CASE ~cancelled /\ frames # <<>> /\ Last(frames) # <<>>
    <3> DEFINE item == Head(Last(frames))
    <3>1. /\ frames' = Append(Front(frames), Tail(Last(frames)))
          /\ offer' = item /\ after' = "emitted"
          /\ IF item \in Invisible THEN pc' = "emitted" ELSE pc' = "offer"
      BY <1>8, <2>4 DEF Drive, Offer
    <3>2. Sending' /\ ~Awaiting'
      BY <3>1 DEF Sending, Awaiting
    <3> HIDE DEF item
    <3>3. item \in Item /\ offer < item /\ \A x \in Item : offer < x => item <= x
      BY <2>1, <2>4, <3>1, <3>2, OrderTaken DEF item, OrderInv
    <3>4. AllSentSoFar
      BY <2>1, <2>4 DEF ProgressInv
    <3>5. AllSentSoFar'
      BY <1>c, <2>1, <3>1, <3>2, <3>3, <3>4, ProgressTaken
    <3> QED BY <3>5 DEF ProgressInv
  <2> QED BY <2>2, <2>3, <2>4
<1>9. CASE Emitted
  <2>1. CASE Aborts(offer)
    BY <1>9, <1>l, <2>1 DEF Emitted, StartDrain
  <2>2. CASE ~Aborts(offer)
    <3>1. pc = "emitted" /\ pc' \in {"wait", "drive"} /\ UNCHANGED <<sent, offer>>
      BY <1>9, <2>2 DEF Emitted, Goto
    <3>2. Moving /\ (AbortPolicy => offer \notin Errors)
      BY <2>2, <3>1 DEF Moving, InLoop, Sending, Aborts
    <3> QED BY <1>c, <3>1, <3>2, ProgressKept
  <2> QED BY <2>1, <2>2
<1>10. CASE Consumer \/ CallNext \/ DropReceiver \/ UNCHANGED vars
  <2>1. UNCHANGED <<pc, after, offer>> /\ sent' = sent
    BY <1>10, ConsumerSteps, SentSteps
       DEF ConsumerStep, Consumer, Take, TakeEnd, CancelToken, JoinCoordinator, CallNext, DropReceiver, vars
  <2> QED BY <1>c, <2>1, ProgressKept DEF Moving, InLoop, Sending, Awaiting
<1>11. ASSUME NEW d \in Dir, Read(d) PROVE ProgressInv'
  <2>1. UNCHANGED <<pc, after, offer, sent>>
    BY <1>11 DEF Read
  <2> QED BY <1>c, <2>1, ProgressKept DEF Moving, InLoop, Sending, Awaiting
<1> QED BY <1>1, <1>2, <1>3, <1>4, <1>5, <1>6, <1>7, <1>8, <1>9, <1>10, <1>11 DEF Next, Coordinator

\* Outside the serial fallback only an error that ends the traversal is offered after the loop.
LoopOnly ==
  ~Reentrant =>
    /\ pc # "serial" /\ ~(pc = "offer" /\ after = "serial")
    /\ pc = "offer" /\ after = "ended" => offer \in {RootError, ScheduleError}

\* The item sent last, when nothing may follow it.
NothingFollows(item) ==
  \/ pc = "ended"
  \/ item \in Errors /\ pc = "drain" /\ after = "ended"
  \/ item \in Errors /\ pc = "emitted" /\ item = offer
SentInv ==
  ~Reentrant =>
    /\ SortedOrder /\ StopsAtError
    /\ \A x \in ToSet(sent) : x \notin Item \/ (AbortPolicy /\ x \in Errors) => NothingFollows(x)

LEMMA StepLoopOnly == TypeInv /\ LoopOnly /\ [Next]_vars => LoopOnly'
<1> SUFFICES ASSUME TypeInv, LoopOnly, [Next]_vars, ~Reentrant PROVE
       /\ pc' # "serial" /\ ~(pc' = "offer" /\ after' = "serial")
       /\ pc' = "offer" /\ after' = "ended" => offer' \in {RootError, ScheduleError}
  BY OptionsKept DEF LoopOnly
<1> USE DEF scheduler, executor, control, LoopOnly
<1>r. ReturnsOK
  BY DEF TypeInv, CoordinatorType
<1>1. CASE Sent \/ SendFailed \/ Start \/ Rooted \/ Accept \/ Reject \/ RefillEnds
  BY <1>1, <1>r DEF Sent, SendFailed, Start, Rooted, Accept, Reject, RefillEnds, StartDrain, Offer, Goto, ReturnsOK
<1>2. CASE Wait \/ Receive \/ Matched \/ Other
  BY <1>2 DEF Wait, Receive, Matched, Other, StartDrain, PrepareFrame, Goto
<1>3. CASE Drive \/ Emitted \/ DrainOne \/ DrainEnds \/ SerialStart \/ SerialNext
  BY <1>3, <1>r DEF Drive, Emitted, DrainOne, DrainEnds, SerialStart, SerialNext, StartDrain, Offer, Goto, ReturnsOK
<1>4. CASE Consumer \/ CallNext \/ DropReceiver \/ UNCHANGED vars
  BY <1>4, ConsumerSteps DEF ConsumerStep
<1>5. ASSUME NEW d \in Dir, Read(d) PROVE
       /\ pc' # "serial" /\ ~(pc' = "offer" /\ after' = "serial")
       /\ pc' = "offer" /\ after' = "ended" => offer' \in {RootError, ScheduleError}
  BY <1>5 DEF Read
<1> QED BY <1>1, <1>2, <1>3, <1>4, <1>5 DEF Next, Coordinator

LEMMA NothingFollowsKept ==
  ASSUME TypeInv, [Next]_vars, NEW item, AbortPolicy \/ pc = "ended", NothingFollows(item)
  PROVE  NothingFollows(item)' /\ ~Sent
<1> USE DEF scheduler, executor, control, NothingFollows
<1>1. pc # "offer" /\ ~Sent
  BY DEF Sent
<1>2. CASE Emitted
  BY <1>1, <1>2 DEF Emitted, Aborts, StartDrain
<1>3. CASE DrainOne \/ DrainEnds
  BY <1>1, <1>3 DEF DrainOne, DrainEnds, Goto
<1>4. CASE Consumer \/ CallNext \/ DropReceiver \/ UNCHANGED vars
  BY <1>1, <1>4, ConsumerSteps DEF ConsumerStep
<1>5. ASSUME NEW d \in Dir, Read(d) PROVE NothingFollows(item)'
  BY <1>5 DEF Read
<1>6. ~(Sent \/ SendFailed \/ Start \/ Rooted \/ Accept \/ Reject \/ RefillEnds)
  BY DEF Sent, SendFailed, Start, Rooted, Accept, Reject, RefillEnds
<1>7. ~(Wait \/ Receive \/ Matched \/ Other \/ Drive \/ SerialStart \/ SerialNext)
  BY DEF Wait, Receive, Matched, Other, Drive, SerialStart, SerialNext
<1> QED BY <1>1, <1>2, <1>3, <1>4, <1>5, <1>6, <1>7 DEF Next, Coordinator

LEMMA StepSent ==
  TypeInv /\ RootedInv /\ CancelInv /\ ProgressInv /\ LoopOnly /\ SentInv /\ [Next]_vars => SentInv'
<1> SUFFICES ASSUME TypeInv, RootedInv, CancelInv, ProgressInv, LoopOnly, SentInv, [Next]_vars,
                    ~Reentrant
             PROVE  SentInv'
  BY OptionsKept DEF SentInv
<1>o. Promised' = Promised /\ AbortPolicy' = AbortPolicy
  BY OptionsKept
<1>a. /\ SortedOrder /\ StopsAtError
      /\ \A x \in ToSet(sent) : x \notin Item \/ (AbortPolicy /\ x \in Errors) => NothingFollows(x)
  BY DEF SentInv
<1>t. sent \in Seq(Sendable) /\ offer \in Sendable
  BY DEF TypeInv, ConsumerType, CoordinatorType
<1>b. \A x \in ToSet(sent) : x \notin Item \/ (AbortPolicy /\ x \in Errors) =>
           NothingFollows(x)' /\ ~Sent
  <2> SUFFICES ASSUME NEW x \in ToSet(sent), x \notin Item \/ (AbortPolicy /\ x \in Errors)
               PROVE  NothingFollows(x)' /\ ~Sent
    OBVIOUS
  <2>1. NothingFollows(x) /\ (AbortPolicy \/ pc = "ended")
    BY <1>a, TreeFacts DEF NothingFollows
  <2> QED BY <2>1, NothingFollowsKept
<1>1. CASE sent' = sent
  <2>1. SortedOrder' /\ StopsAtError'
    BY <1>1, <1>a, <1>o DEF SortedOrder, StopsAtError
  <2> QED BY <1>1, <1>b, <1>o, <2>1 DEF SentInv
<1>2. CASE Sent
  <2> DEFINE n == Len(sent) + 1
  <2>1. sent' = Append(sent, offer) /\ pc = "offer" /\ pc' = after /\ offer' = offer
    BY <1>2 DEF Sent
  <2>2. /\ n \in DOMAIN sent' /\ sent'[n] = offer /\ n = Len(sent')
        /\ \A k \in DOMAIN sent' : (k \in DOMAIN sent /\ sent'[k] = sent[k]) \/ k = n
    BY <1>t, <2>1
  <2>3. \A k \in DOMAIN sent : sent[k] \in Item /\ ~(AbortPolicy /\ sent[k] \in Errors)
    BY <1>2, <1>b DEF ToSet
  <2>s. \A x \in ToSet(sent') : x \in ToSet(sent) \/ x = offer
    BY <2>2 DEF ToSet
  <2>4. \A k \in DOMAIN sent : sent[k] \in Promised /\ Cardinality(Earlier(Promised, sent[k])) = k - 1
    BY <1>a, <2>3 DEF SortedOrder, Earlier
  <2>r. after \in {"rooted", "emitted", "ended"}
    BY <2>1 DEF TypeInv, CoordinatorType, ReturnsOK, LoopOnly
  <2>5. CASE after = "ended"
    <3>1. offer \notin Item /\ offer \notin Errors
      BY <2>1, <2>5, OptionsAssumption, TreeFacts DEF LoopOnly
    <3>2. SortedOrder' /\ StopsAtError'
      BY <1>o, <2>2, <2>3, <2>4, <3>1 DEF SortedOrder, StopsAtError, Earlier
    <3>3. pc' = "ended"
      BY <2>1, <2>5
    <3> QED BY <3>2, <3>3 DEF SentInv, NothingFollows
  <2>6. CASE after \in {"rooted", "emitted"}
    <3>1. offer \in Promised /\ Cardinality(Earlier(Promised, offer)) = n - 1 /\ AllSentSoFar
      BY <1>t, <1>2, <2>6, OfferIsNext
    <3>2. offer \in Item
      BY <3>1, PromisedFacts
    <3>3. SortedOrder'
      BY <1>o, <2>2, <2>4, <3>1, PromisedFacts DEF SortedOrder, Earlier
    <3>4. StopsAtError'
      BY <2>2, <2>3, <1>o DEF StopsAtError
    <3>5. AbortPolicy /\ offer \in Errors => pc' = "emitted" /\ offer' = offer
      BY <2>1, <2>6, <3>1 DEF AllSentSoFar, Sending
    <3>6. \A x \in ToSet(sent') : x \notin Item \/ (AbortPolicy' /\ x \in Errors) => NothingFollows(x)'
      <4> SUFFICES ASSUME NEW x \in ToSet(sent'), x \notin Item \/ (AbortPolicy /\ x \in Errors)
                   PROVE  NothingFollows(x)'
        BY <1>o
      <4>1. x = offer /\ x \in Errors /\ pc' = "emitted" /\ x = offer'
        BY <1>b, <1>2, <2>s, <3>2, <3>5
      <4> QED BY <4>1 DEF NothingFollows
    <3> QED BY <3>3, <3>4, <3>6 DEF SentInv
  <2> QED BY <2>r, <2>5, <2>6
<1> QED BY <1>1, <1>2, SentSteps

\* An order without gaps is depth-first.
LEMMA SortedIsWhole ==
  ASSUME SortedOrder, sent \in Seq(Sendable)
  PROVE  DirectoriesAreWhole
<1> SUFFICES ASSUME NEW i \in DOMAIN sent, NEW k \in DOMAIN sent, sent[i] \in Dir, sent[k] \in Below[sent[i]]
             PROVE  i < k /\ \A j \in i + 1 .. k : sent[j] \in Below[sent[i]]
  BY DEF DirectoriesAreWhole
<1> DEFINE rank(x) == Cardinality(Earlier(Promised, x))
<1>1. \A j \in DOMAIN sent : sent[j] \in Item => sent[j] \in Promised /\ rank(sent[j]) = j - 1
  BY DEF SortedOrder, Earlier
<1>2. \A j \in DOMAIN sent : sent[j] \notin Item => j = Len(sent)
  BY DEF SortedOrder
<1>3. sent[i] \in Item /\ sent[k] \in Item /\ sent[i] < sent[k]
  BY TreeFacts, BelowIsAfter
<1>4. \A x, y \in Promised : x < y => rank(x) < rank(y)
  BY PromisedFacts, EarlierGrows
<1>n. \A x \in Promised : x \in Nat /\ x \in Item
  BY PromisedFacts
<1> HIDE DEF rank
<1>5. i < k
  BY <1>1, <1>3, <1>4
<1>6. ASSUME NEW j \in i + 1 .. k PROVE sent[j] \in Below[sent[i]]
  <2>1. j \in DOMAIN sent /\ (j < k => j # Len(sent))
    OBVIOUS
  <2>2. sent[j] \in Item
    BY <1>2, <1>3, <2>1
  <2>3. CASE j = k
    BY <2>3
  <2>4. CASE j < k
    <3>1. ~(sent[j] < sent[i]) /\ sent[j] # sent[i]
      BY <1>1, <1>3, <1>4, <2>1, <2>2
    <3>2. ~(sent[k] < sent[j]) /\ sent[j] # sent[k]
      BY <1>1, <1>3, <1>4, <2>1, <2>2, <2>4
    <3>3. sent[i] \in Nat /\ sent[j] \in Nat /\ sent[k] \in Nat
      BY <1>3, <2>2, TreeFacts
    <3>4. sent[i] < sent[j] /\ sent[j] < sent[k]
      BY <3>1, <3>2, <3>3
    <3> QED BY <2>2, <3>4, BelowIsConvex
  <2> QED BY <2>3, <2>4
<1> QED BY <1>5, <1>6

\* How a traversal that was not dropped gets to its end.
Failed == ToSet(sent) \cap {RootError, ScheduleError} # {}
Complete == Len(sent) = Cardinality(Promised)
EndInv ==
  ~Reentrant /\ (pc = "ended" \/ (pc = "drain" /\ after = "ended")) =>
    Gone \/ Failed \/ scheduleError \/ Complete
ExhaustedInv == consumer = "exhausted" => pc = "ended"

LEMMA NothingIsLeft ==
  ASSUME AllSentSoFar, pc # "offer", \A x \in Promised : ~(offer < x)
  PROVE  Complete
<1>1. ASSUME NEW x \in Promised PROVE x \in SoFar
  <2>1. x \in Nat /\ offer \in Nat
    BY PromisedFacts, TreeFacts DEF AllSentSoFar
  <2> QED BY <2>1 DEF SoFar
<1>2. SoFar = Promised
  BY <1>1 DEF SoFar
<1> QED BY <1>2 DEF AllSentSoFar, Complete

LEMMA StepEnd ==
  /\ TypeInv /\ RootedInv /\ OrderInv /\ CancelInv /\ ProgressInv /\ LoopOnly /\ EndInv
  /\ [Next]_vars
  => EndInv'
<1> DEFINE Explained == Gone \/ Failed \/ scheduleError \/ Complete
<1> SUFFICES ASSUME TypeInv, RootedInv, OrderInv, CancelInv, ProgressInv, LoopOnly, EndInv,
                    [Next]_vars, ~Reentrant, pc' = "ended" \/ (pc' = "drain" /\ after' = "ended")
             PROVE  Explained'
  BY OptionsKept DEF EndInv
<1> USE DEF scheduler, executor, control
<1>r. ReturnsOK /\ sent \in Seq(Sendable)
  BY DEF TypeInv, CoordinatorType, ConsumerType
<1>g. (Gone => Gone') /\ Promised' = Promised
  BY SentSteps, OptionsKept
<1>s. sent' = sent => (Failed' <=> Failed) /\ (Complete' <=> Complete)
  BY <1>g DEF Failed, Complete
<1>k. Explained /\ sent' = sent /\ (scheduleError => scheduleError') => Explained'
  BY <1>g, <1>s
<1>1. CASE Sent
  <2>1. sent' = Append(sent, offer) /\ pc = "offer" /\ after = "ended"
    BY <1>1, <1>r DEF Sent, ReturnsOK
  <2>2. offer \in {RootError, ScheduleError} /\ sent'[Len(sent) + 1] = offer /\ Len(sent) + 1 \in DOMAIN sent'
    BY <1>r, <2>1 DEF LoopOnly
  <2>3. Failed'
    BY <2>2 DEF Failed, ToSet
  <2> QED BY <2>3
<1>2. CASE SendFailed
  BY <1>2, <1>g DEF SendFailed, ReceiverGone, Gone
<1>3. CASE Start \/ Reject \/ RefillEnds \/ Accept \/ Wait \/ Matched \/ Receive
  <2>1. CASE Start \/ Reject \/ RefillEnds \/ Accept
    BY <1>r, <2>1 DEF Start, Reject, RefillEnds, Accept, Offer, Goto, ReturnsOK
  <2>2. CASE Wait \/ Matched \/ Receive
    BY <2>2 DEF Wait, Matched, Receive, Goto, StartDrain, PrepareFrame
  <2> QED BY <1>3, <2>1, <2>2
<1>4. CASE Rooted
  <2>1. pc = "rooted" /\ sent' = sent /\ scheduleError' = scheduleError /\ (Root \notin Dir \/ cancelled)
    BY <1>4 DEF Rooted, StopsAtRoot, Goto
  <2>2. CASE cancelled
    <3>1. Gone
      BY <2>1, <2>2 DEF CancelInv, Early, Ending, Gone
    <3> QED BY <1>g, <3>1
  <2>3. CASE ~cancelled /\ Root \notin Dir
    <3>1. AllSentSoFar /\ offer = Root
      BY <2>1, <2>3 DEF ProgressInv, Moving, RootedInv, Early
    <3>2. \A x \in Promised : ~(Root < x)
      BY <2>3, BelowRoot, PromisedFacts, TreeFacts
    <3>3. Complete
      BY <2>1, <3>1, <3>2, NothingIsLeft
    <3> QED BY <1>k, <2>1, <3>3
  <2> QED BY <2>1, <2>2, <2>3
<1>5. CASE Other
  <2>1. pc = "other" /\ cancelled /\ ~scheduleError
    BY <1>5 DEF Other, StartDrain, StopWaiting, DrainReason, Goto
  <2>2. Gone
    BY <2>1 DEF CancelInv, Ending
  <2> QED BY <1>g, <2>2
<1>6. CASE Drive
  <2>1. pc = "drive" /\ sent' = sent /\ scheduleError' = scheduleError /\ (cancelled \/ frames = <<>>)
    BY <1>6 DEF Drive, Goto, Offer, StartDrain
  <2>2. CASE cancelled
    <3>1. Gone \/ scheduleError
      BY <2>1, <2>2 DEF CancelInv, Ending
    <3> QED BY <1>k, <2>1, <3>1
  <2>3. CASE ~cancelled /\ frames = <<>>
    <3>1. FramesInOrder /\ AllSentSoFar /\ ~Closed
      BY <2>1, <2>3 DEF OrderInv, ProgressInv, Moving, InLoop, Closed, Sending, Awaiting
    <3>2. \A x \in Item : ~Framed(x)
      BY <2>3 DEF Framed
    <3>3. \A x \in Promised : ~(offer < x)
      BY <3>1, <3>2, FramedFirst, PromisedFacts
    <3>4. Complete
      BY <2>1, <3>1, <3>3, NothingIsLeft
    <3> QED BY <1>k, <2>1, <3>4
  <2> QED BY <2>1, <2>2, <2>3
<1>7. CASE Emitted
  <2>1. pc = "emitted" /\ sent' = sent /\ scheduleError' = scheduleError /\ AbortPolicy /\ offer \in Errors
    BY <1>7 DEF Emitted, Goto, StartDrain, Aborts
  <2>2. CASE cancelled
    <3>1. Gone \/ scheduleError
      BY <2>1, <2>2 DEF CancelInv, Ending
    <3> QED BY <1>k, <2>1, <3>1
  <2>3. CASE ~cancelled
    <3>1. AllSentSoFar
      BY <2>1, <2>3 DEF ProgressInv, Moving, InLoop, Sending
    <3>2. ASSUME NEW x \in Promised PROVE ~(offer < x)
      <4>1. x <= offer
        BY <2>1 DEF Promised
      <4>2. x \in Nat /\ offer \in Nat
        BY <3>1, PromisedFacts, TreeFacts DEF AllSentSoFar
      <4> QED BY <4>1, <4>2
    <3>3. Complete
      BY <2>1, <3>1, <3>2, NothingIsLeft
    <3> QED BY <1>k, <2>1, <3>3
  <2> QED BY <2>2, <2>3
<1>8. CASE DrainOne \/ DrainEnds
  <2>1. pc = "drain" /\ after = "ended" /\ sent' = sent /\ scheduleError' = scheduleError
    BY <1>8, <1>r DEF DrainOne, DrainEnds, Goto, Offer, ReturnsOK
  <2> QED BY <1>k, <2>1 DEF EndInv
<1>9. CASE SerialStart \/ SerialNext
  BY <1>9 DEF SerialStart, SerialNext, LoopOnly
<1>10. CASE Consumer \/ CallNext \/ DropReceiver \/ UNCHANGED vars
  <2>1. UNCHANGED <<pc, after, scheduleError>>
    BY <1>10, ConsumerSteps DEF ConsumerStep
  <2>2. sent' = sent
    BY <1>10 DEF Consumer, Take, TakeEnd, CancelToken, JoinCoordinator, CallNext, DropReceiver, vars
  <2>3. Explained
    BY <2>1 DEF EndInv
  <2> QED BY <1>k, <2>1, <2>2, <2>3
<1>11. ASSUME NEW d \in Dir, Read(d) PROVE Explained'
  <2>1. UNCHANGED <<pc, after, scheduleError, sent>>
    BY <1>11 DEF Read
  <2>2. Explained
    BY <2>1 DEF EndInv
  <2> QED BY <1>k, <2>1, <2>2
<1> QED BY <1>1, <1>2, <1>3, <1>4, <1>5, <1>6, <1>7, <1>8, <1>9, <1>10, <1>11 DEF Next, Coordinator

LEMMA StepExhausted == ExhaustedInv /\ [Next]_vars => ExhaustedInv'
<1> SUFFICES ASSUME ExhaustedInv, [Next]_vars, consumer' = "exhausted" PROVE pc' = "ended"
  BY DEF ExhaustedInv
<1>1. CASE consumer = "exhausted"
  BY <1>1, SentSteps DEF ExhaustedInv
<1>2. CASE consumer # "exhausted"
  <2>1. ~(Sent \/ SendFailed \/ Start \/ Rooted \/ Accept \/ Reject \/ RefillEnds)
    BY <1>2 DEF Sent, SendFailed, Start, Rooted, Accept, Reject, RefillEnds
  <2>2. ~(Wait \/ Receive \/ Matched \/ Other \/ Drive \/ Emitted)
    BY <1>2 DEF Wait, Receive, Matched, Other, Drive, Emitted
  <2>3. ~(DrainOne \/ DrainEnds \/ SerialStart \/ SerialNext \/ UNCHANGED vars)
    BY <1>2 DEF DrainOne, DrainEnds, SerialStart, SerialNext, vars
  <2>4. CASE Consumer \/ CallNext \/ DropReceiver
    BY <1>2, <2>4 DEF Consumer, Take, TakeEnd, CancelToken, JoinCoordinator, CallNext, DropReceiver,
                      Joined, CoordinatorOver, control
  <2>5. ASSUME NEW d \in Dir PROVE ~Read(d)
    BY <1>2 DEF Read
  <2> QED BY <2>1, <2>2, <2>3, <2>4, <2>5 DEF Next, Coordinator
<1> QED BY <1>1, <1>2

\* As many items as are promised, each with its rank: they are the promised ones.
LEMMA CompleteIsAll ==
  ASSUME SortedOrder, Complete, ~Failed, sent \in Seq(Sendable)
  PROVE  ToSet(sent) = Promised
<1> DEFINE rank(x) == Cardinality(Earlier(Promised, x))
<1>1. \A k \in DOMAIN sent : sent[k] \in Item
  BY DEF Failed, ToSet, Sendable
<1>2. \A k \in DOMAIN sent : sent[k] \in Promised /\ rank(sent[k]) = k - 1
  BY <1>1 DEF SortedOrder, Earlier
<1>3. ASSUME NEW x \in Promised PROVE x \in ToSet(sent)
  <2>1. rank(x) \in 0 .. Cardinality(Promised) - 1
    BY PromisedFacts, EarlierBounds
  <2>2. Cardinality(Promised) = Len(sent)
    BY DEF Complete
  <2> DEFINE k == rank(x) + 1
  <2>3. k \in DOMAIN sent /\ k - 1 = rank(x)
    BY <2>1, <2>2
  <2>4. rank(sent[k]) = rank(x) /\ sent[k] \in Promised
    BY <1>2, <2>3
  <2>5. \A y \in Promised : x < y \/ y < x => rank(x) # rank(y)
    <3> SUFFICES ASSUME NEW y \in Promised, x < y \/ y < x PROVE rank(x) # rank(y)
      OBVIOUS
    <3>1. rank(x) < rank(y) \/ rank(y) < rank(x)
      BY PromisedFacts, EarlierGrows
    <3>2. rank(x) \in Nat /\ rank(y) \in Nat
      BY PromisedFacts, EarlierBounds, FS_CardinalityType
    <3> QED BY <3>1, <3>2
  <2>6. sent[k] \in Nat /\ x \in Nat
    BY <2>4, PromisedFacts
  <2> HIDE DEF rank
  <2>7. sent[k] = x
    BY <2>4, <2>5, <2>6
  <2> QED BY <2>3, <2>7 DEF ToSet
<1> QED BY <1>2, <1>3 DEF ToSet

-----------------------------------------------------------------------------
(* The serial fallback: stacks of frames in no particular order *)

LEMMA RemoveAtFacts ==
  ASSUME NEW S, NEW q \in Seq(S), NEW i \in DOMAIN q
  PROVE  /\ RemoveAt(q, i) \in Seq(S)
         /\ \A k \in DOMAIN RemoveAt(q, i) :
              \/ k < i /\ k \in DOMAIN q /\ RemoveAt(q, i)[k] = q[k]
              \/ ~(k < i) /\ k + 1 \in DOMAIN q /\ RemoveAt(q, i)[k] = q[k + 1]
         /\ \A k \in DOMAIN q :
              \/ k < i /\ k \in DOMAIN RemoveAt(q, i) /\ RemoveAt(q, i)[k] = q[k]
              \/ k = i
              \/ k - 1 \in DOMAIN RemoveAt(q, i) /\ RemoveAt(q, i)[k - 1] = q[k]
<1> DEFINE a == SubSeq(q, 1, i - 1)
           b == SubSeq(q, i + 1, Len(q))
<1>1. /\ a \in Seq(S) /\ Len(a) = i - 1 /\ \A k \in DOMAIN a : a[k] = q[k]
      /\ b \in Seq(S) /\ Len(b) = Len(q) - i /\ \A k \in DOMAIN b : b[k] = q[i + k]
  <2>1. i \in 1 .. Len(q)
    OBVIOUS
  <2> QED BY <2>1
<1>2. RemoveAt(q, i) = a \o b
  BY DEF RemoveAt
<1> DEFINE n == Len(q)
<1>3. n \in Nat /\ i \in 1 .. n /\ DOMAIN q = 1 .. n
  OBVIOUS
<1> HIDE DEF a, b, n
<1>4. DOMAIN a = 1 .. i - 1 /\ DOMAIN b = 1 .. n - i
  BY <1>1, <1>3 DEF n
<1>c. /\ a \o b \in Seq(S) /\ Len(a \o b) = Len(a) + Len(b)
      /\ \A k \in DOMAIN a : (a \o b)[k] = a[k]
      /\ \A k \in DOMAIN b : (a \o b)[k + Len(a)] = b[k]
  <2>1. a \in Seq(S) /\ b \in Seq(S)
    BY <1>1
  <2> QED BY <2>1, ConcatFacts
<1>5. DOMAIN (a \o b) = 1 .. n - 1
  <2>1. Len(a \o b) = n - 1
    BY <1>1, <1>3, <1>c DEF n
  <2> QED BY <1>c, <2>1
<1>6. ASSUME NEW k \in 1 .. n - 1
      PROVE  \/ k < i /\ (a \o b)[k] = q[k]
             \/ ~(k < i) /\ (a \o b)[k] = q[k + 1]
  <2>1. CASE k < i
    <3>1. k \in DOMAIN a
      BY <1>3, <1>4, <2>1
    <3> QED BY <1>1, <1>c, <2>1, <3>1
  <2>2. CASE ~(k < i)
    <3> DEFINE m == k - (i - 1)
    <3>1. m \in DOMAIN b /\ m + (i - 1) = k /\ i + m = k + 1
      BY <1>3, <1>4, <2>2
    <3> HIDE DEF m
    <3>2. (a \o b)[m + (i - 1)] = b[m] /\ b[m] = q[i + m]
      BY <1>1, <1>c, <3>1
    <3> QED BY <2>2, <3>1, <3>2
  <2> QED BY <2>1, <2>2
<1>7. ASSUME NEW k \in 1 .. n
      PROVE  \/ k < i /\ k \in 1 .. n - 1 /\ (a \o b)[k] = q[k]
             \/ k = i
             \/ k - 1 \in 1 .. n - 1 /\ (a \o b)[k - 1] = q[k]
  <2>1. CASE k < i
    <3>1. k \in 1 .. n - 1
      BY <1>3, <2>1
    <3> QED BY <1>6, <2>1, <3>1
  <2>2. CASE i < k
    <3>1. k - 1 \in 1 .. n - 1 /\ ~(k - 1 < i) /\ (k - 1) + 1 = k
      BY <1>3, <2>2
    <3> QED BY <1>6, <3>1
  <2>3. k < i \/ k = i \/ i < k
    BY <1>3
  <2> QED BY <2>1, <2>2, <2>3
<1>8. \A k \in 1 .. n - 1 : (k < i => k \in 1 .. n) /\ k + 1 \in 1 .. n
  BY <1>3
<1> QED BY <1>2, <1>3, <1>c, <1>5, <1>6, <1>7, <1>8

Holds(F, x) == \E f \in DOMAIN F : \E k \in DOMAIN F[f] : F[f][k] = x

\* Every item is in one place only.
Apart(F) ==
  \A f, g \in DOMAIN F : \A k \in DOMAIN F[f], l \in DOMAIN F[g] :
     F[f][k] = F[g][l] => f = g /\ k = l

\* Once an item of a frame is below a directory, so is whatever lies on top of it.
Nested(F) ==
  \A d \in Dir : \A f, g \in DOMAIN F : \A k \in DOMAIN F[f], l \in DOMAIN F[g] :
     f <= g /\ F[f][k] \in Below[d] => F[g][l] \in Below[d]

LEMMA StackPop ==
  ASSUME NEW F \in Seq(Seq(Item)), F # <<>>, Last(F) = <<>>
  PROVE  /\ \A x \in Item : Holds(Front(F), x) <=> Holds(F, x)
         /\ Apart(F) => Apart(Front(F))
         /\ Nested(F) => Nested(Front(F))
<1>1. \A f \in DOMAIN Front(F) : f \in DOMAIN F /\ Front(F)[f] = F[f]
  BY FrontFacts
<1>2. \A f \in DOMAIN F : f = Len(F) \/ f \in DOMAIN Front(F)
  <2>1. Len(Front(F)) = Len(F) - 1 /\ Front(F) \in Seq(Seq(Item))
    BY FrontFacts
  <2>2. DOMAIN Front(F) = 1 .. Len(F) - 1
    BY <2>1
  <2> QED BY <2>2
<1>3. DOMAIN F[Len(F)] = {}
  <2>1. F[Len(F)] = <<>>
    BY FrontFacts
  <2> QED BY <2>1
<1>4. ASSUME NEW x \in Item PROVE Holds(Front(F), x) <=> Holds(F, x)
  BY <1>1, <1>2, <1>3 DEF Holds
<1>5. (Apart(F) => Apart(Front(F))) /\ (Nested(F) => Nested(Front(F)))
  BY <1>1 DEF Apart, Nested
<1> QED BY <1>4, <1>5

LEMMA StackPush ==
  ASSUME NEW F \in Seq(Seq(Item)), NEW s \in Seq(Item)
  PROVE  /\ \A x \in Item : Holds(Append(F, s), x) <=> Holds(F, x) \/ \E k \in DOMAIN s : s[k] = x
         /\ /\ Apart(F) /\ \A k, l \in DOMAIN s : s[k] = s[l] => k = l
            /\ \A k \in DOMAIN s : ~Holds(F, s[k])
            => Apart(Append(F, s))
         /\ /\ Nested(F)
            /\ \A d \in Dir : \A k, l \in DOMAIN s : s[k] \in Below[d] => s[l] \in Below[d]
            /\ \A d \in Dir : \A x \in Below[d] : Holds(F, x) => \A l \in DOMAIN s : s[l] \in Below[d]
            => Nested(Append(F, s))
<1> DEFINE n == Len(F) + 1
           G == Append(F, s)
<1>1. /\ n \in DOMAIN G /\ G[n] = s /\ n \in Nat
      /\ \A f \in DOMAIN F : f \in DOMAIN G /\ G[f] = F[f] /\ ~(n <= f) /\ f # n
      /\ \A f \in DOMAIN G : f \in DOMAIN F \/ f = n
  BY AppendFacts
<1> HIDE DEF n, G
<1>2. ASSUME NEW x \in Item PROVE Holds(G, x) <=> Holds(F, x) \/ \E k \in DOMAIN s : s[k] = x
  <2>1. ASSUME Holds(G, x) PROVE Holds(F, x) \/ \E k \in DOMAIN s : s[k] = x
    BY <1>1, <2>1 DEF Holds
  <2>2. ASSUME Holds(F, x) PROVE Holds(G, x)
    BY <1>1, <2>2 DEF Holds
  <2>3. ASSUME NEW k \in DOMAIN s, s[k] = x PROVE Holds(G, x)
    BY <1>1, <2>3 DEF Holds
  <2> QED BY <2>1, <2>2, <2>3
<1>3. ASSUME Apart(F), \A k, l \in DOMAIN s : s[k] = s[l] => k = l, \A k \in DOMAIN s : ~Holds(F, s[k])
      PROVE  Apart(G)
  <2> SUFFICES ASSUME NEW f \in DOMAIN G, NEW g \in DOMAIN G, NEW k \in DOMAIN G[f], NEW l \in DOMAIN G[g],
                      G[f][k] = G[g][l]
               PROVE  f = g /\ k = l
    BY DEF Apart
  <2>1. CASE f \in DOMAIN F /\ g \in DOMAIN F
    BY <1>1, <1>3, <2>1 DEF Apart
  <2>2. CASE f = n /\ g = n
    BY <1>1, <1>3, <2>2
  <2>3. CASE f = n /\ g \in DOMAIN F
    BY <1>1, <1>3, <2>3 DEF Holds
  <2>4. CASE f \in DOMAIN F /\ g = n
    BY <1>1, <1>3, <2>4 DEF Holds
  <2> QED BY <1>1, <2>1, <2>2, <2>3, <2>4
<1>4. ASSUME Nested(F), \A d \in Dir : \A k, l \in DOMAIN s : s[k] \in Below[d] => s[l] \in Below[d],
             \A d \in Dir : \A x \in Below[d] : Holds(F, x) => \A l \in DOMAIN s : s[l] \in Below[d]
      PROVE  Nested(G)
  <2> SUFFICES ASSUME NEW d \in Dir, NEW f \in DOMAIN G, NEW g \in DOMAIN G, NEW k \in DOMAIN G[f],
                      NEW l \in DOMAIN G[g], f <= g, G[f][k] \in Below[d]
               PROVE  G[g][l] \in Below[d]
    BY DEF Nested
  <2>1. CASE f \in DOMAIN F /\ g \in DOMAIN F
    BY <1>1, <1>4, <2>1 DEF Nested
  <2>2. CASE f = n /\ g = n
    BY <1>1, <1>4, <2>2
  <2>3. CASE f = n /\ g \in DOMAIN F
    BY <1>1, <2>3
  <2>4. CASE f \in DOMAIN F /\ g = n
    BY <1>1, <1>4, <2>4 DEF Holds
  <2> QED BY <1>1, <2>1, <2>2, <2>3, <2>4
<1> QED BY <1>2, <1>3, <1>4 DEF G

\* One item of the top frame is taken, wherever it is.
Rest(F, i) == Append(Front(F), RemoveAt(Last(F), i))
LEMMA StackTake ==
  ASSUME NEW F \in Seq(Seq(Item)), F # <<>>, NEW i \in DOMAIN Last(F), Apart(F),
         NEW item, item = Last(F)[i]
  PROVE  /\ item \in Item /\ Holds(F, item) /\ Rest(F, i) \in Seq(Seq(Item))
         /\ \A x \in Item : Holds(Rest(F, i), x) <=> Holds(F, x) /\ x # item
         /\ Apart(Rest(F, i)) /\ (Nested(F) => Nested(Rest(F, i)))
         /\ Nested(F) => \A d \in Dir : \A x \in Below[d] : Holds(F, x) => item \in Below[d]
<1> DEFINE top == Last(F)
           n == Len(F)
           cut == RemoveAt(top, i)
           lower == Front(F)
           rest == Rest(F, i)
<1>1. /\ top \in Seq(Item) /\ lower \in Seq(Seq(Item)) /\ Len(lower) = n - 1
      /\ n \in DOMAIN F /\ F[n] = top
      /\ \A f \in DOMAIN lower : f \in DOMAIN F /\ f # n /\ lower[f] = F[f]
  BY FrontFacts
<1>2. n \in Nat /\ \A f \in DOMAIN F : f \in Nat /\ f <= n /\ (f = n \/ f \in DOMAIN lower)
  <2>1. DOMAIN lower = 1 .. n - 1
    BY <1>1
  <2> QED BY <2>1
<1> HIDE DEF top, lower
<1>3. /\ cut \in Seq(Item)
      /\ \A k \in DOMAIN cut :
           \/ k < i /\ k \in DOMAIN top /\ cut[k] = top[k]
           \/ ~(k < i) /\ k + 1 \in DOMAIN top /\ cut[k] = top[k + 1]
      /\ \A k \in DOMAIN top :
           \/ k < i /\ k \in DOMAIN cut /\ cut[k] = top[k]
           \/ k = i
           \/ k - 1 \in DOMAIN cut /\ cut[k - 1] = top[k]
  <2>1. i \in DOMAIN top
    BY DEF top
  <2> QED BY <1>1, <2>1, RemoveAtFacts
<1>s. /\ \A k \in DOMAIN top : k \in Nat /\ top[k] \in Item
      /\ \A k \in DOMAIN cut : k \in Nat
      /\ i \in DOMAIN top /\ item = top[i]
  BY <1>1, <1>3 DEF top
<1> HIDE DEF cut
<1>4. /\ n \in DOMAIN rest /\ rest[n] = cut /\ rest \in Seq(Seq(Item))
      /\ \A f \in DOMAIN lower : f \in DOMAIN rest /\ rest[f] = F[f]
      /\ \A f \in DOMAIN rest : f \in DOMAIN lower \/ f = n
  <2>1. rest = Append(lower, cut)
    BY DEF Rest, lower, cut, top
  <2>2. Len(lower) + 1 = n
    BY <1>1, <1>2
  <2> QED BY <1>1, <1>3, <2>1, <2>2, AppendFacts
<1> HIDE DEF n, rest
\* Where an item of the rest was before.
<1> DEFINE Was(f, k) == IF f = n /\ ~(k < i) THEN k + 1 ELSE k
<1>5. ASSUME NEW f \in DOMAIN rest, NEW k \in DOMAIN rest[f]
      PROVE  /\ f \in DOMAIN F /\ Was(f, k) \in DOMAIN F[f] /\ F[f][Was(f, k)] = rest[f][k]
             /\ ~(f = n /\ Was(f, k) = i)
  <2>1. CASE f = n
    <3>1. k \in DOMAIN cut /\ rest[f][k] = cut[k] /\ k \in Nat /\ i \in Nat
      BY <1>4, <1>s, <2>1
    <3>2. CASE k < i
      BY <1>1, <1>3, <2>1, <3>1, <3>2
    <3>3. CASE ~(k < i)
      <4>1. k + 1 \in DOMAIN top /\ cut[k] = top[k + 1] /\ k + 1 # i
        BY <1>3, <3>1, <3>3
      <4> QED BY <1>1, <2>1, <3>1, <3>3, <4>1
    <3> QED BY <3>2, <3>3
  <2>2. CASE f \in DOMAIN lower
    BY <1>1, <1>4, <2>2
  <2> QED BY <1>4, <2>1, <2>2
<1>6. ASSUME NEW f \in DOMAIN rest, NEW k \in DOMAIN rest[f], NEW l \in DOMAIN rest[f], Was(f, k) = Was(f, l)
      PROVE  k = l
  <2>1. CASE f = n
    <3>1. k \in Nat /\ l \in Nat /\ i \in Nat
      BY <1>4, <1>s, <2>1
    <3> QED BY <1>6, <2>1, <3>1
  <2>2. CASE f # n
    BY <1>6, <2>2
  <2> QED BY <2>1, <2>2
<1> HIDE DEF Was
<1>7. item \in Item /\ Holds(F, item)
  BY <1>1, <1>s DEF Holds
<1>8. ASSUME NEW x \in Item PROVE Holds(rest, x) <=> Holds(F, x) /\ x # item
  <2>1. ASSUME Holds(rest, x) PROVE Holds(F, x) /\ x # item
    <3>1. PICK f \in DOMAIN rest : \E k \in DOMAIN rest[f] : rest[f][k] = x
      BY <2>1 DEF Holds
    <3>2. PICK k \in DOMAIN rest[f] : rest[f][k] = x
      BY <3>1
    <3>3. f \in DOMAIN F /\ Was(f, k) \in DOMAIN F[f] /\ F[f][Was(f, k)] = x /\ ~(f = n /\ Was(f, k) = i)
      BY <1>5, <3>2
    <3>4. x # item
      BY <1>1, <1>s, <3>3 DEF Apart
    <3> QED BY <3>3, <3>4 DEF Holds
  <2>2. ASSUME Holds(F, x), x # item PROVE Holds(rest, x)
    <3>1. PICK f \in DOMAIN F : \E k \in DOMAIN F[f] : F[f][k] = x
      BY <2>2 DEF Holds
    <3>2. PICK k \in DOMAIN F[f] : F[f][k] = x
      BY <3>1
    <3>3. CASE f = n
      <4>1. \E l \in DOMAIN cut : cut[l] = x
        BY <1>1, <1>3, <1>s, <2>2, <3>2, <3>3
      <4> QED BY <1>4, <4>1 DEF Holds
    <3>4. CASE f \in DOMAIN lower
      BY <1>4, <3>2, <3>4 DEF Holds
    <3> QED BY <1>2, <3>3, <3>4
  <2> QED BY <2>1, <2>2
<1>9. Apart(rest)
  <2> SUFFICES ASSUME NEW f \in DOMAIN rest, NEW g \in DOMAIN rest, NEW k \in DOMAIN rest[f],
                      NEW l \in DOMAIN rest[g], rest[f][k] = rest[g][l]
               PROVE  f = g /\ k = l
    BY DEF Apart
  <2>1. f = g /\ Was(f, k) = Was(g, l)
    BY <1>5 DEF Apart
  <2> QED BY <1>6, <2>1
<1>10. ASSUME Nested(F) PROVE Nested(rest)
  <2> SUFFICES ASSUME NEW d \in Dir, NEW f \in DOMAIN rest, NEW g \in DOMAIN rest, NEW k \in DOMAIN rest[f],
                      NEW l \in DOMAIN rest[g], f <= g, rest[f][k] \in Below[d]
               PROVE  rest[g][l] \in Below[d]
    BY DEF Nested
  <2> QED BY <1>5, <1>10 DEF Nested
<1>11. ASSUME Nested(F), NEW d \in Dir, NEW x \in Below[d], Holds(F, x) PROVE item \in Below[d]
  <2>1. PICK f \in DOMAIN F : \E k \in DOMAIN F[f] : F[f][k] = x
    BY <1>11 DEF Holds
  <2>2. PICK k \in DOMAIN F[f] : F[f][k] = x
    BY <2>1
  <2>3. f <= n
    BY <1>2
  <2> QED BY <1>1, <1>s, <1>11, <2>2, <2>3 DEF Nested
<1> QED BY <1>4, <1>7, <1>8, <1>9, <1>10, <1>11 DEF rest

\* What is still in the frames, and everything below it, has not been shown.
Fresh(F, s) ==
  \A x \in Item : Holds(F, x) =>
    /\ x \notin ToSet(s)
    /\ x \in Dir => \A z \in Below[x] : ~Holds(F, z) /\ z \notin ToSet(s)

Whole(s) ==
  \A i, k \in DOMAIN s :
    s[i] \in Dir /\ s[k] \in Below[s[i]] => i < k /\ \A j \in i + 1 .. k : s[j] \in Below[s[i]]

\* While something below a directory is left, nothing else is shown.
Unfinished(F, s) ==
  \A i \in DOMAIN s :
    s[i] \in Dir /\ (\E x \in Below[s[i]] : Holds(F, x)) => \A j \in i + 1 .. Len(s) : s[j] \in Below[s[i]]

DepthFirst(F, s) == Apart(F) /\ Nested(F) /\ Fresh(F, s) /\ Whole(s) /\ Unfinished(F, s)

\* Every item to show has been shown, or is in the frames or below one of their directories.
Covers(F, s, V) ==
  \A x \in V : x \in ToSet(s) \/ Holds(F, x) \/ \E d \in Dir : Holds(F, d) /\ x \in Below[d]

LEMMA OpenedFrame ==
  ASSUME NEW F \in Seq(Seq(Item)), F # <<>>, NEW i \in DOMAIN Last(F), NEW s, Apart(F), Nested(F),
         Fresh(F, s), NEW y, y = Last(F)[i],
         NEW G, G = Open(Rest(F, i), y)
  PROVE  /\ y \in Item /\ Holds(F, y) /\ Apart(G) /\ Nested(G)
         /\ \A x \in Item : Holds(G, x) <=> (Holds(F, x) /\ x # y) \/ (y \in Dir /\ x \in Entries[y])
         /\ \A d \in Dir : \A x \in Below[d] : Holds(F, x) => y \in Below[d]
<1> DEFINE rest == Rest(F, i)
<1>1. /\ y \in Item /\ Holds(F, y) /\ rest \in Seq(Seq(Item))
      /\ \A x \in Item : Holds(rest, x) <=> Holds(F, x) /\ x # y
      /\ Apart(rest) /\ Nested(rest)
      /\ \A d \in Dir : \A x \in Below[d] : Holds(F, x) => y \in Below[d]
  BY StackTake
<1>2. G = Open(rest, y)
  OBVIOUS
<1> HIDE DEF rest
<1>3. CASE y \notin Dir
  <2>1. G = rest
    BY <1>2, <1>3 DEF Open
  <2> QED BY <1>1, <1>3, <2>1
<1>4. CASE y \in Dir
  <2> DEFINE E == Entries[y]
             q == InPathOrder(E)
  <2>1. G = Append(rest, q)
    BY <1>2, <1>4 DEF Open
  <2>2. E \in SUBSET Nat /\ IsFiniteSet(E) /\ E \in SUBSET Item /\ E \in SUBSET Below[y]
    BY <1>4, EntriesFinite, TreeFacts, BelowEntries
  <2> HIDE DEF E
  <2>3. /\ q \in Seq(E) /\ (\A x \in E : \E k \in DOMAIN q : q[k] = x)
        /\ \A k, l \in DOMAIN q : q[k] = q[l] => k = l
    BY <2>2, PathOrder
  <2> HIDE DEF q
  <2>4. q \in Seq(Item) /\ \A k \in DOMAIN q : q[k] \in E
    BY <2>2, <2>3, SeqMonotone
  <2>5. \A x \in E : ~Holds(F, x)
    BY <1>1, <1>4, <2>2 DEF Fresh
  <2>6. \A k \in DOMAIN q : ~Holds(rest, q[k])
    BY <1>1, <2>2, <2>4, <2>5
  <2>7. \A d \in Dir : \A k, l \in DOMAIN q : q[k] \in Below[d] => q[l] \in Below[d]
    <3> SUFFICES ASSUME NEW d \in Dir, NEW x \in E, NEW z \in E, x \in Below[d] PROVE z \in Below[d]
      BY <2>4
    <3>1. y = d \/ y \in Below[d]
      BY <1>4, BelowParent DEF E
    <3> QED BY <1>4, <3>1, BelowEntries DEF E
  <2>8. \A d \in Dir : \A x \in Below[d] : Holds(rest, x) => \A l \in DOMAIN q : q[l] \in Below[d]
    <3> SUFFICES ASSUME NEW d \in Dir, NEW x \in Below[d], Holds(rest, x), NEW z \in E PROVE z \in Below[d]
      BY <2>4
    <3>1. y \in Below[d]
      BY <1>1, BelowIsAfter
    <3> QED BY <1>4, <3>1, BelowEntries DEF E
  <2>9. \A x \in Item : Holds(G, x) <=> Holds(rest, x) \/ x \in E
    <3>1. \A x \in Item : Holds(G, x) <=> Holds(rest, x) \/ \E k \in DOMAIN q : q[k] = x
      BY <1>1, <2>1, <2>4, StackPush
    <3> QED BY <2>3, <2>4, <3>1
  <2>10. Apart(G)
    BY <1>1, <2>1, <2>3, <2>4, <2>6, StackPush
  <2>11. Nested(G)
    BY <1>1, <2>1, <2>4, <2>7, <2>8, StackPush
  <2> QED BY <1>1, <1>4, <2>9, <2>10, <2>11 DEF E
<1> QED BY <1>3, <1>4

LEMMA TakeKeepsDepthFirst ==
  ASSUME NEW F \in Seq(Seq(Item)), F # <<>>, NEW i \in DOMAIN Last(F), NEW s \in Seq(Sendable),
         DepthFirst(F, s), NEW y, y = Last(F)[i],
         NEW G, G = Open(Rest(F, i), y),
         NEW t, t = s \/ t = Append(s, y)
  PROVE  DepthFirst(G, t) /\ y \in Item /\ y \notin ToSet(s)
<1>1. /\ y \in Item /\ Holds(F, y) /\ Apart(G) /\ Nested(G)
      /\ \A x \in Item : Holds(G, x) <=> (Holds(F, x) /\ x # y) \/ (y \in Dir /\ x \in Entries[y])
      /\ \A d \in Dir : \A x \in Below[d] : Holds(F, x) => y \in Below[d]
  BY OpenedFrame DEF DepthFirst
<1>f. Fresh(F, s) /\ Whole(s) /\ Unfinished(F, s)
  BY DEF DepthFirst
<1>2. /\ y \notin ToSet(s)
      /\ y \in Dir => \A z \in Below[y] : ~Holds(F, z) /\ z \notin ToSet(s)
  BY <1>1, <1>f DEF Fresh
<1> DEFINE n == Len(s)
           p == Len(t)
<1>n. n \in Nat /\ p \in {n, n + 1} /\ DOMAIN s = 1 .. n /\ DOMAIN t = 1 .. p
  <2>1. y \in Sendable
    BY <1>1 DEF Sendable
  <2> QED BY <2>1
<1>3. (\A k \in 1 .. n : t[k] = s[k]) /\ (p = n + 1 => t[n + 1] = y)
  <2>1. y \in Sendable
    BY <1>1 DEF Sendable
  <2> QED BY <2>1, AppendFacts
<1> HIDE DEF n, p
<1>k. \A k \in 1 .. p : k \in 1 .. n \/ (k = n + 1 /\ p = n + 1)
  BY <1>n
<1>4. \A x : x \in ToSet(t) => x \in ToSet(s) \/ x = y
  BY <1>3, <1>k, <1>n DEF ToSet
\* No item in the frames is below another one, or above the item taken.
<1>5. \A x \in Dir : Holds(F, x) => y \notin Below[x]
  BY <1>1, <1>f, TreeFacts DEF Fresh
<1>6. Fresh(G, t)
  <2> SUFFICES ASSUME NEW x \in Item, Holds(G, x)
               PROVE  /\ x \notin ToSet(t)
                      /\ x \in Dir => \A z \in Below[x] : ~Holds(G, z) /\ z \notin ToSet(t)
    BY DEF Fresh
  <2>1. CASE Holds(F, x) /\ x # y
    <3>1. /\ x \notin ToSet(s)
          /\ x \in Dir => \A z \in Below[x] : ~Holds(F, z) /\ z \notin ToSet(s)
      BY <1>f, <2>1 DEF Fresh
    <3>2. x \notin ToSet(t)
      BY <1>4, <2>1, <3>1
    <3>3. ASSUME x \in Dir, NEW z \in Below[x] PROVE ~Holds(G, z) /\ z \notin ToSet(t)
      <4>1. z # y /\ z \in Item /\ ~Holds(F, z) /\ z \notin ToSet(s)
        BY <1>5, <2>1, <3>1, <3>3, BelowIsAfter
      <4>2. ~(y \in Dir /\ z \in Entries[y])
        BY <1>5, <2>1, <3>3, BelowParent
      <4> QED BY <1>1, <1>4, <4>1, <4>2
    <3> QED BY <3>2, <3>3
  <2>2. CASE y \in Dir /\ x \in Entries[y]
    <3>1. x \in Below[y] /\ y \in Nat /\ x \in Nat /\ y < x
      BY <1>1, <2>2, BelowEntries, TreeFacts
    <3>2. x \notin ToSet(t)
      BY <1>2, <1>4, <2>2, <3>1
    <3>3. ASSUME x \in Dir, NEW z \in Below[x] PROVE ~Holds(G, z) /\ z \notin ToSet(t)
      <4>1. z \in Item /\ z \in Below[y] /\ z \notin Entries[y]
        BY <2>2, <3>1, <3>3, BelowIsTransitive, BelowIsAfter, SiblingsApart
      <4>2. z # y
        <5>1. y < z /\ y \in Nat /\ z \in Nat
          BY <2>2, <3>1, <4>1, BelowIsAfter, TreeFacts
        <5> QED BY <5>1
      <4> QED BY <1>1, <1>2, <1>4, <2>2, <4>1, <4>2
    <3> QED BY <3>2, <3>3
  <2> QED BY <1>1, <2>1, <2>2
\* Whatever is left below a directory already shown, the item taken is below it too.
<1>7. ASSUME NEW m \in DOMAIN s, s[m] \in Dir, NEW x \in Below[s[m]], Holds(G, x)
      PROVE  y \in Below[s[m]]
  <2>1. x \in Item /\ s[m] # y
    BY <1>2, <1>7, BelowIsAfter DEF ToSet
  <2>2. CASE Holds(F, x)
    BY <1>1, <1>7, <2>2
  <2>3. CASE y \in Dir /\ x \in Entries[y]
    BY <1>7, <2>1, <2>3, BelowParent
  <2> QED BY <1>1, <1>7, <2>1, <2>2, <2>3
<1>8. ASSUME NEW m \in DOMAIN s, s[m] \in Dir, y \in Below[s[m]]
      PROVE  \A j \in m + 1 .. p : t[j] \in Below[s[m]]
  <2> SUFFICES ASSUME NEW j \in m + 1 .. p PROVE t[j] \in Below[s[m]]
    OBVIOUS
  <2>1. \A k \in m + 1 .. n : s[k] \in Below[s[m]]
    BY <1>1, <1>f, <1>8 DEF Unfinished, n
  <2>m. m \in 1 .. n
    BY <1>n
  <2>2. j \in m + 1 .. n \/ (j = n + 1 /\ p = n + 1)
    BY <1>n, <2>m
  <2>3. m + 1 .. n \subseteq 1 .. n
    BY <1>n, <2>m
  <2> QED BY <1>3, <1>8, <2>1, <2>2, <2>3
<1>9. Unfinished(G, t)
  <2> SUFFICES ASSUME NEW m \in DOMAIN t, t[m] \in Dir, NEW x \in Below[t[m]], Holds(G, x),
                      NEW j \in m + 1 .. p
               PROVE  t[j] \in Below[t[m]]
    BY DEF Unfinished, p
  <2>1. m \in 1 .. n
    <3>1. m \in 1 .. p
      BY <1>n
    <3> QED BY <1>n, <3>1
  <2>2. m \in DOMAIN s /\ t[m] = s[m]
    BY <1>3, <1>n, <2>1
  <2> QED BY <1>7, <1>8, <2>2
<1>10. Whole(t)
  <2> SUFFICES ASSUME NEW m \in 1 .. p, NEW k \in 1 .. p, t[m] \in Dir, t[k] \in Below[t[m]]
               PROVE  m < k /\ \A j \in m + 1 .. k : t[j] \in Below[t[m]]
    BY <1>n DEF Whole
  <2>1. CASE m \in 1 .. n /\ k \in 1 .. n
    <3>1. m < k /\ \A j \in m + 1 .. k : s[j] \in Below[s[m]]
      BY <1>3, <1>n, <1>f, <2>1 DEF Whole
    <3>2. m + 1 .. k \subseteq 1 .. n
      BY <1>n, <2>1
    <3> QED BY <1>3, <2>1, <3>1, <3>2
  <2>2. CASE m \in 1 .. n /\ k \notin 1 .. n
    <3>1. k = n + 1 /\ p = n + 1
      BY <1>k, <2>2
    <3>2. t[k] = y /\ t[m] = s[m] /\ m \in DOMAIN s /\ k = p
      BY <1>3, <1>n, <2>2, <3>1
    <3>3. m < k
      BY <1>n, <2>2, <3>1
    <3> QED BY <1>8, <3>2, <3>3
  <2>3. CASE m \notin 1 .. n
    <3>1. t[m] = y
      BY <1>3, <1>k, <2>3
    <3>2. t[k] # y
      <4>1. y < t[k] /\ t[k] \in Item /\ y \in Item
        BY <1>1, <3>1, BelowIsAfter
      <4> QED BY <4>1, TreeFacts
    <3>3. k \in DOMAIN s /\ t[k] = s[k]
      BY <1>3, <1>k, <1>n, <3>2
    <3> QED BY <1>2, <3>1, <3>3 DEF ToSet
  <2> QED BY <2>1, <2>2, <2>3
<1> QED BY <1>1, <1>2, <1>6, <1>9, <1>10 DEF DepthFirst

LEMMA TakeKeepsCover ==
  ASSUME NEW F \in Seq(Seq(Item)), F # <<>>, NEW i \in DOMAIN Last(F), NEW s \in Seq(Sendable),
         DepthFirst(F, s), NEW y, y = Last(F)[i], NEW V \in SUBSET Item, Covers(F, s, V),
         NEW G, G = Open(Rest(F, i), y),
         NEW t, t = IF y \in V THEN Append(s, y) ELSE s
  PROVE  Covers(G, t, V)
<1>1. /\ y \in Item /\ Holds(F, y)
      /\ \A x \in Item : Holds(G, x) <=> (Holds(F, x) /\ x # y) \/ (y \in Dir /\ x \in Entries[y])
  BY OpenedFrame DEF DepthFirst
<1>2. ToSet(s) \subseteq ToSet(t) /\ (y \in V => y \in ToSet(t))
  <2>1. y \in Sendable
    BY <1>1 DEF Sendable
  <2>2. CASE y \in V
    BY <2>1, <2>2, AppendFacts DEF ToSet
  <2> QED BY <2>2
<1> SUFFICES ASSUME NEW x \in V, x \notin ToSet(t)
             PROVE  Holds(G, x) \/ \E d \in Dir : Holds(G, d) /\ x \in Below[d]
  BY DEF Covers
<1>3. Holds(F, x) \/ \E d \in Dir : Holds(F, d) /\ x \in Below[d]
  BY <1>2 DEF Covers
<1>4. CASE Holds(F, x)
  BY <1>1, <1>2, <1>4
<1>5. ASSUME NEW d \in Dir, Holds(F, d), x \in Below[d]
      PROVE  Holds(G, x) \/ \E e \in Dir : Holds(G, e) /\ x \in Below[e]
  <2>1. CASE d # y
    BY <1>1, <1>5, <2>1, TreeFacts
  <2>2. CASE d = y /\ x \in Entries[y]
    BY <1>1, <1>5, <2>2
  <2>3. CASE d = y /\ x \notin Entries[y]
    <3>1. PICK c \in Entries[y] \cap Dir : x \in Below[c]
      BY <1>5, <2>3, BelowAnEntry
    <3> QED BY <1>1, <1>5, <2>3, <3>1, TreeFacts
  <2> QED BY <2>1, <2>2, <2>3
<1> QED BY <1>3, <1>4, <1>5
LEMMA SameHolds ==
  ASSUME NEW F, NEW s, NEW V \in SUBSET Item, NEW G, Apart(G), Nested(G),
         \A x \in Item : Holds(G, x) <=> Holds(F, x)
  PROVE  /\ DepthFirst(F, s) => DepthFirst(G, s)
         /\ Covers(F, s, V) => Covers(G, s, V)
<1>1. Fresh(F, s) => Fresh(G, s)
  BY BelowIsAfter DEF Fresh
<1>2. Unfinished(F, s) => Unfinished(G, s)
  BY BelowIsAfter DEF Unfinished
<1>3. Covers(F, s, V) => Covers(G, s, V)
  BY TreeFacts DEF Covers
<1> QED BY <1>1, <1>2, <1>3 DEF DepthFirst

LEMMA CutKeepsDepthFirst ==
  ASSUME NEW F, NEW s \in Seq(Sendable), NEW x \in Sendable, DepthFirst(F, Append(s, x))
  PROVE  DepthFirst(F, s)
<1> DEFINE t == Append(s, x)
<1>1. /\ \A k \in DOMAIN s : k \in DOMAIN t /\ t[k] = s[k]
      /\ Len(t) = Len(s) + 1 /\ DOMAIN s = 1 .. Len(s) /\ Len(s) \in Nat
  BY AppendFacts
<1>2. Apart(F) /\ Nested(F) /\ Fresh(F, t) /\ Whole(t) /\ Unfinished(F, t)
  BY DEF DepthFirst
<1> HIDE DEF t
<1>3. ToSet(s) \subseteq ToSet(t)
  BY <1>1 DEF ToSet
<1>4. Fresh(F, s)
  BY <1>2, <1>3 DEF Fresh
<1>5. \A i \in DOMAIN s : \A k \in DOMAIN s \cup {Len(s)} : \A j \in i + 1 .. k : j \in DOMAIN s
  BY <1>1
<1>6. Whole(s)
  <2> SUFFICES ASSUME NEW i \in DOMAIN s, NEW k \in DOMAIN s, s[i] \in Dir, s[k] \in Below[s[i]]
               PROVE  i < k /\ \A j \in i + 1 .. k : s[j] \in Below[s[i]]
    BY DEF Whole
  <2>1. i < k /\ \A j \in i + 1 .. k : t[j] \in Below[s[i]]
    BY <1>1, <1>2 DEF Whole
  <2> QED BY <1>1, <1>5, <2>1
<1>7. Unfinished(F, s)
  <2> SUFFICES ASSUME NEW i \in DOMAIN s, s[i] \in Dir, NEW z \in Below[s[i]], Holds(F, z),
                      NEW j \in i + 1 .. Len(s)
               PROVE  s[j] \in Below[s[i]]
    BY DEF Unfinished
  <2>1. j \in i + 1 .. Len(t) /\ j \in DOMAIN s
    <3>1. i \in 1 .. Len(s)
      BY <1>1
    <3> QED BY <1>1, <3>1
  <2>2. i \in DOMAIN t /\ t[i] = s[i] /\ t[j] = s[j]
    BY <1>1, <2>1
  <2> QED BY <1>2, <2>1, <2>2 DEF Unfinished
<1> QED BY <1>2, <1>4, <1>6, <1>7 DEF DepthFirst

LEMMA RootAlone ==
  /\ DepthFirst(<<<<Root>>>>, <<>>) /\ Covers(<<<<Root>>>>, <<>>, Item)
  /\ DepthFirst(<<>>, <<RootError>>) /\ DepthFirst(<<>>, <<>>)
<1> DEFINE F == <<<<Root>>>>
<1>1. /\ 1 \in DOMAIN F /\ 1 \in DOMAIN F[1] /\ F[1][1] = Root
      /\ \A f \in DOMAIN F : f = 1 /\ \A k \in DOMAIN F[f] : k = 1
  OBVIOUS
<1> HIDE DEF F
<1>2. \A x : Holds(F, x) <=> x = Root
  BY <1>1 DEF Holds
<1>3. Apart(F) /\ Nested(F)
  BY <1>1 DEF Apart, Nested
<1>4. ToSet(<<>>) = {}
  BY DEF ToSet
<1>5. Root \in Dir => \A z \in Below[Root] : z # Root
  <2> SUFFICES ASSUME Root \in Dir, Root \in Below[Root] PROVE FALSE
    OBVIOUS
  <2>1. Root < Root /\ Root \in Nat
    BY BelowIsAfter, TreeFacts
  <2> QED BY <2>1
<1>6. Fresh(F, <<>>)
  BY <1>2, <1>4, <1>5 DEF Fresh
<1>7. Whole(<<>>) /\ Unfinished(F, <<>>) /\ Unfinished(<<>>, <<>>)
  BY DEF Whole, Unfinished
<1>8. Covers(F, <<>>, Item)
  BY <1>2, BelowRoot DEF Covers
<1>9. Apart(<<>>) /\ Nested(<<>>) /\ Fresh(<<>>, <<>>) /\ Fresh(<<>>, <<RootError>>)
  BY DEF Apart, Nested, Fresh, Holds
<1>10. Whole(<<RootError>>) /\ Unfinished(<<>>, <<RootError>>)
  <2>1. RootError \notin Dir
    BY OptionsAssumption, TreeFacts
  <2>2. \A i \in DOMAIN <<RootError>> : <<RootError>>[i] \notin Dir
    BY <2>1
  <2> QED BY <2>2 DEF Whole, Unfinished
<1> QED BY <1>3, <1>6, <1>7, <1>8, <1>9, <1>10 DEF DepthFirst, F

\* What the serial walk has sent or is sending, and whether it goes on afterwards.
Shown == IF pc = "offer" THEN Append(sent, offer) ELSE sent
GoesOn == pc = "serial" \/ (pc = "offer" /\ after = "serial")
Visible == Item \ Invisible
Stopped == AbortPolicy /\ Shown # <<>> /\ Last(Shown) \in Errors

SerialShape ==
  Reentrant =>
    /\ pc \in {"start", "serial", "offer", "ended"} /\ (pc = "offer" => after \in {"serial", "ended"})
    /\ pc = "start" => frames = <<>> /\ sent = <<>>
    /\ ~scheduleError

SerialKept == frames' = frames /\ Shown' = Shown /\ (GoesOn' <=> GoesOn) /\ (pc' = "start" <=> pc = "start")
SerialCut == frames' = frames /\ Shown = Append(sent, offer) /\ Shown' = sent /\ Gone' /\ ~GoesOn' /\ pc' # "start"
SerialBegun ==
  /\ pc = "start" /\ frames = <<>> /\ sent = <<>>
  /\ \/ frames' = <<>> /\ Shown' = <<RootError>> /\ ~GoesOn'
     \/ frames' = <<<<Root>>>> /\ Shown' = <<>> /\ GoesOn'
SerialOver ==
  GoesOn /\ pc = "serial" /\ pc' = "ended" /\ frames' = frames /\ Shown' = Shown /\ (cancelled \/ frames = <<>>)
SerialPopped ==
  /\ GoesOn /\ GoesOn' /\ frames # <<>> /\ Last(frames) = <<>> /\ frames' = Front(frames) /\ Shown' = Shown
  /\ pc' # "start"
SerialTaken(i) ==
  /\ GoesOn /\ frames # <<>> /\ pc' # "start"
  /\ frames' = Open(Rest(frames, i), Last(frames)[i])
  /\ Shown' = IF Last(frames)[i] \in Visible THEN Append(Shown, Last(frames)[i]) ELSE Shown
  /\ GoesOn' <=> ~Aborts(Last(frames)[i])
SerialKinds ==
  \/ SerialKept \/ SerialCut \/ SerialBegun \/ SerialOver \/ SerialPopped
  \/ \E i \in DOMAIN Last(frames) : SerialTaken(i)

LEMMA SerialSteps ==
  TypeInv /\ SerialShape /\ Reentrant /\ [Next]_vars => SerialShape' /\ SerialKinds
<1> SUFFICES ASSUME TypeInv, SerialShape, Reentrant, [Next]_vars PROVE SerialShape' /\ SerialKinds
  OBVIOUS
<1> USE DEF scheduler, executor, control
<1>r. Reentrant' = Reentrant
  BY OptionsKept
<1>t. sent \in Seq(Sendable) /\ offer \in Sendable /\ frames \in Seq(Seq(Item))
  BY DEF TypeInv, CoordinatorType, ConsumerType
<1>s. /\ pc \in {"start", "serial", "offer", "ended"} /\ (pc = "offer" => after \in {"serial", "ended"})
      /\ (pc = "start" => frames = <<>> /\ sent = <<>>) /\ ~scheduleError
  BY DEF SerialShape
<1>1. CASE Sent
  <2>1. /\ pc = "offer" /\ pc' = after /\ sent' = Append(sent, offer) /\ scheduleError' = scheduleError
        /\ frames' = frames
    BY <1>1 DEF Sent
  <2>2. SerialKept
    BY <1>s, <2>1 DEF SerialKept, Shown, GoesOn
  <2> QED BY <1>s, <2>1, <2>2 DEF SerialShape, SerialKinds
<1>2. CASE SendFailed
  <2>1. /\ pc = "offer" /\ pc' = "ended" /\ sent' = sent /\ scheduleError' = scheduleError
        /\ frames' = frames /\ Gone'
    BY <1>s, <1>2 DEF SendFailed, Goto, ReceiverGone, Gone
  <2>2. SerialCut
    BY <2>1 DEF SerialCut, Shown, GoesOn
  <2> QED BY <1>s, <2>1, <2>2 DEF SerialShape, SerialKinds
<1>3. CASE SerialStart
  <2>1. pc = "start" /\ sent' = sent /\ scheduleError' = scheduleError
    BY <1>3 DEF SerialStart
  <2>2. CASE Offer(RootError, "ended") /\ frames' = frames
    <3>1. Shown' = <<RootError>>
      BY <1>s, <2>1, <2>2 DEF Offer, Shown
    <3>2. SerialBegun
      BY <1>s, <2>1, <2>2, <3>1 DEF SerialBegun, Offer, GoesOn
    <3> QED BY <1>s, <2>1, <2>2, <3>2 DEF SerialShape, SerialKinds, Offer
  <2>3. CASE Goto("serial") /\ frames' = <<<<Root>>>>
    <3>1. SerialBegun
      BY <1>s, <2>1, <2>3 DEF SerialBegun, Goto, GoesOn, Shown
    <3> QED BY <1>s, <2>1, <2>3, <3>1 DEF SerialShape, SerialKinds, Goto
  <2> QED BY <1>3, <2>2, <2>3 DEF SerialStart
<1>4. CASE SerialNext
  <2>1. pc = "serial" /\ sent' = sent /\ scheduleError' = scheduleError /\ GoesOn /\ Shown = sent
    BY <1>4 DEF SerialNext, GoesOn, Shown
  <2>2. CASE cancelled \/ frames = <<>>
    <3>1. pc' = "ended" /\ frames' = frames
      BY <1>4, <2>2 DEF SerialNext, Goto
    <3>2. SerialOver
      BY <2>1, <2>2, <3>1 DEF SerialOver, Shown
    <3> QED BY <1>s, <2>1, <3>1, <3>2 DEF SerialShape, SerialKinds
  <2>3. CASE ~(cancelled \/ frames = <<>>) /\ Last(frames) = <<>>
    <3>1. pc' = "serial" /\ frames' = Front(frames)
      BY <1>4, <2>3 DEF SerialNext, Goto
    <3>2. SerialPopped
      BY <2>1, <2>3, <3>1 DEF SerialPopped, Shown, GoesOn
    <3> QED BY <1>s, <2>1, <3>1, <3>2 DEF SerialShape, SerialKinds
  <2>4. CASE ~(cancelled \/ frames = <<>>) /\ Last(frames) # <<>>
    <3>1. PICK i \in DOMAIN Last(frames) :
            /\ frames' = Open(Rest(frames, i), Last(frames)[i])
            /\ LET next == IF Aborts(Last(frames)[i]) THEN "ended" ELSE "serial" IN
               IF Last(frames)[i] \in Invisible
               THEN pc' = next /\ offer' = Last(frames)[i] /\ after' = next
               ELSE Offer(Last(frames)[i], next)
      BY <1>4, <2>4 DEF SerialNext, Rest
    <3> DEFINE y == Last(frames)[i]
    <3>2. y \in Item
      <4>1. Last(frames) \in Seq(Item)
        BY <1>t, <2>4, FrontFacts
      <4> QED BY <4>1
    <3>3. CASE y \in Invisible
      <4>1. /\ pc' = after' /\ after' = IF Aborts(y) THEN "ended" ELSE "serial"
            /\ y \notin Visible
        BY <3>1, <3>3 DEF Visible
      <4>2. Shown' = Shown /\ (GoesOn' <=> ~Aborts(y)) /\ pc' # "start"
        BY <2>1, <4>1 DEF Shown, GoesOn
      <4>3. SerialTaken(i)
        BY <2>1, <2>4, <3>1, <4>1, <4>2 DEF SerialTaken
      <4> QED BY <1>s, <2>1, <4>1, <4>3 DEF SerialShape, SerialKinds
    <3>4. CASE y \notin Invisible
      <4>1. /\ pc' = "offer" /\ after' = (IF Aborts(y) THEN "ended" ELSE "serial") /\ offer' = y
            /\ y \in Visible
        BY <3>1, <3>2, <3>4 DEF Visible, Offer
      <4>2. Shown' = Append(Shown, y) /\ (GoesOn' <=> ~Aborts(y)) /\ pc' # "start"
        BY <2>1, <4>1 DEF Shown, GoesOn
      <4>3. SerialTaken(i)
        BY <2>1, <2>4, <3>1, <4>1, <4>2 DEF SerialTaken
      <4> QED BY <1>s, <2>1, <4>1, <4>3 DEF SerialShape, SerialKinds
    <3> QED BY <3>3, <3>4
  <2> QED BY <2>2, <2>3, <2>4
<1>5. ~(Start \/ Rooted \/ Accept \/ Reject \/ RefillEnds \/ Wait \/ Receive)
  BY <1>s DEF Start, Rooted, Accept, Reject, RefillEnds, Wait, Receive
<1>6. ~(Matched \/ Other \/ Drive \/ Emitted \/ DrainOne \/ DrainEnds)
  BY <1>s DEF Matched, Other, Drive, Emitted, DrainOne, DrainEnds
<1>7. UNCHANGED <<pc, after, offer, frames, scheduleError, sent>> => SerialShape' /\ SerialKinds
  <2> SUFFICES ASSUME UNCHANGED <<pc, after, offer, frames, scheduleError, sent>>
               PROVE  SerialShape' /\ SerialKinds
    OBVIOUS
  <2>1. SerialKept
    BY DEF SerialKept, Shown, GoesOn
  <2> QED BY <1>s, <2>1 DEF SerialShape, SerialKinds
<1>8. CASE Consumer \/ CallNext \/ DropReceiver \/ UNCHANGED vars
  <2>1. sent' = sent
    BY <1>8 DEF Consumer, Take, TakeEnd, CancelToken, JoinCoordinator, CallNext, DropReceiver, vars
  <2> QED BY <1>7, <1>8, <2>1, ConsumerSteps DEF ConsumerStep
<1>9. ASSUME NEW d \in Dir, Read(d) PROVE SerialShape' /\ SerialKinds
  BY <1>7, <1>9 DEF Read
<1> QED BY <1>1, <1>2, <1>3, <1>4, <1>5, <1>6, <1>8, <1>9 DEF Next, Coordinator
SerialCovered ==
  \/ pc = "start" \/ Gone \/ RootError \in ToSet(Shown) \/ Stopped
  \/ Covers(frames, Shown, Visible) /\ (GoesOn \/ frames = <<>>)
ErrorIsLast == AbortPolicy => \A k \in DOMAIN Shown : Shown[k] \in Errors => k = Len(Shown) /\ ~GoesOn
ShowsVisible == ToSet(Shown) \subseteq Visible \cup {RootError}

SerialInv == Reentrant => DepthFirst(frames, Shown) /\ ShowsVisible /\ ErrorIsLast /\ SerialCovered

LEMMA ShownType == TypeInv => Shown \in Seq(Sendable) /\ Visible \in SUBSET Item
<1> SUFFICES ASSUME TypeInv PROVE Shown \in Seq(Sendable)
  BY DEF Visible
<1>1. sent \in Seq(Sendable) /\ offer \in Sendable
  BY DEF TypeInv, ConsumerType, CoordinatorType
<1> QED BY <1>1 DEF Shown

\* The frames lose an empty one, or nothing at all.
LEMMA SerialSame ==
  ASSUME TypeInv, SerialInv, Reentrant, SerialKept \/ SerialOver \/ SerialPopped, [Next]_vars,
         CancelInv, SerialShape
  PROVE  SerialInv'
<1>o. Visible' = Visible /\ AbortPolicy' = AbortPolicy /\ (Gone => Gone')
  BY OptionsKept, SentSteps DEF Visible
<1>1. Shown' = Shown /\ (GoesOn' => GoesOn) /\ (pc' = "start" <=> pc = "start")
  BY DEF SerialKept, SerialOver, SerialPopped, GoesOn
<1>2. DepthFirst(frames, Shown) /\ ShowsVisible /\ ErrorIsLast /\ SerialCovered
  BY DEF SerialInv
<1>3. /\ DepthFirst(frames', Shown)
      /\ Covers(frames, Shown, Visible) => Covers(frames', Shown, Visible)
  <2>1. CASE frames' = frames
    BY <1>2, <2>1
  <2>2. CASE SerialPopped
    <3>1. frames \in Seq(Seq(Item)) /\ frames # <<>> /\ Last(frames) = <<>> /\ frames' = Front(frames)
      BY <2>2 DEF SerialPopped, TypeInv, CoordinatorType
    <3>2. Apart(frames) /\ Nested(frames)
      BY <1>2 DEF DepthFirst
    <3>3. /\ \A x \in Item : Holds(frames', x) <=> Holds(frames, x)
          /\ Apart(frames') /\ Nested(frames')
      BY <3>1, <3>2, StackPop
    <3> QED BY <1>2, <3>3, SameHolds, ShownType
  <2> QED BY <2>1, <2>2 DEF SerialKept, SerialOver
<1>4. ShowsVisible' /\ ErrorIsLast'
  BY <1>o, <1>1, <1>2 DEF ShowsVisible, ErrorIsLast
<1>5. SerialCovered'
  <2>1. Stopped => Stopped'
    BY <1>o, <1>1 DEF Stopped
  <2>2. CASE pc = "start" \/ Gone \/ RootError \in ToSet(Shown) \/ Stopped
    BY <1>o, <1>1, <2>1, <2>2 DEF SerialCovered
  <2>3. CASE Covers(frames, Shown, Visible) /\ (GoesOn \/ frames = <<>>)
    <3>1. Covers(frames', Shown', Visible')
      BY <1>o, <1>1, <1>3, <2>3
    <3>2. GoesOn' \/ frames' = <<>> \/ Gone'
      <4>1. CASE SerialKept \/ SerialPopped
        BY <2>3, <4>1 DEF SerialKept, SerialPopped
      <4>2. CASE SerialOver
        <5>1. cancelled => Gone
          BY <4>2 DEF SerialOver, CancelInv, SerialShape, Ending
        <5> QED BY <1>o, <4>2, <5>1 DEF SerialOver
      <4> QED BY <4>1, <4>2
    <3> QED BY <3>1, <3>2 DEF SerialCovered
  <2> QED BY <1>2, <2>2, <2>3 DEF SerialCovered
<1> QED BY <1>1, <1>3, <1>4, <1>5 DEF SerialInv

LEMMA StepSerial ==
  TypeInv /\ CancelInv /\ SerialShape /\ SerialInv /\ [Next]_vars => SerialInv'
<1> SUFFICES ASSUME TypeInv, CancelInv, SerialShape, SerialInv, [Next]_vars, Reentrant
             PROVE  SerialInv'
  BY OptionsKept DEF SerialInv
<1>o. Visible' = Visible /\ AbortPolicy' = AbortPolicy /\ (Gone => Gone')
  BY OptionsKept, SentSteps DEF Visible
<1>2. DepthFirst(frames, Shown) /\ ShowsVisible /\ ErrorIsLast /\ SerialCovered
  BY DEF SerialInv
<1>t. /\ Shown \in Seq(Sendable) /\ Visible \in SUBSET Item /\ frames \in Seq(Seq(Item))
      /\ sent \in Seq(Sendable) /\ offer \in Sendable
  BY ShownType DEF TypeInv, CoordinatorType, ConsumerType
<1>3. CASE SerialKept \/ SerialOver \/ SerialPopped
  BY <1>3, SerialSame
<1>4. CASE SerialCut
  <2>1. Shown = Append(sent, offer) /\ Shown' = sent /\ frames' = frames /\ Gone' /\ ~GoesOn'
    BY <1>4 DEF SerialCut
  <2>2. DepthFirst(frames, sent)
    BY <1>2, <1>t, <2>1, CutKeepsDepthFirst
  <2>3. /\ \A k \in DOMAIN sent : k \in DOMAIN Shown /\ Shown[k] = sent[k] /\ k # Len(Shown)
    BY <1>t, <2>1
  <2>4. ShowsVisible'
    BY <1>2, <1>o, <2>1, <2>3 DEF ShowsVisible, ToSet
  <2>5. ErrorIsLast'
    BY <1>2, <1>o, <2>1, <2>3 DEF ErrorIsLast
  <2> QED BY <2>1, <2>2, <2>4, <2>5 DEF SerialInv, SerialCovered
<1>5. CASE SerialBegun
  <2>1. CASE frames' = <<>> /\ Shown' = <<RootError>> /\ ~GoesOn'
    <3>1. ToSet(<<RootError>>) = {RootError}
      BY DEF ToSet
    <3>2. ShowsVisible' /\ SerialCovered'
      BY <2>1, <3>1 DEF ShowsVisible, SerialCovered
    <3>3. ErrorIsLast'
      BY <2>1 DEF ErrorIsLast
    <3> QED BY <2>1, <3>2, <3>3, RootAlone DEF SerialInv
  <2>2. CASE frames' = <<<<Root>>>> /\ Shown' = <<>> /\ GoesOn'
    <3>1. ToSet(<<>>) = {}
      BY DEF ToSet
    <3>2. Covers(frames', Shown', Visible')
      BY <1>o, <1>t, <2>2, RootAlone DEF Covers
    <3>3. ShowsVisible' /\ SerialCovered'
      BY <2>2, <3>1, <3>2 DEF ShowsVisible, SerialCovered
    <3>4. ErrorIsLast'
      BY <2>2 DEF ErrorIsLast
    <3> QED BY <2>2, <3>3, <3>4, RootAlone DEF SerialInv
  <2> QED BY <1>5, <2>1, <2>2 DEF SerialBegun
<1>6. ASSUME NEW i \in DOMAIN Last(frames), SerialTaken(i) PROVE SerialInv'
  <2>1. PICK y : y = Last(frames)[i]
    OBVIOUS
  <2>2. /\ GoesOn /\ frames # <<>> /\ pc' # "start" /\ pc # "start"
        /\ frames' = Open(Rest(frames, i), y)
        /\ Shown' = IF y \in Visible THEN Append(Shown, y) ELSE Shown
        /\ GoesOn' <=> ~Aborts(y)
    BY <1>6, <2>1 DEF SerialTaken, GoesOn
  <2>3. DepthFirst(frames', Shown') /\ y \in Item
    BY <1>2, <1>t, <2>1, <2>2, TakeKeepsDepthFirst
  <2>4. Covers(frames, Shown, Visible) => Covers(frames', Shown', Visible')
    BY <1>2, <1>o, <1>t, <2>1, <2>2, TakeKeepsCover
  <2>s. y \in Sendable
    BY <2>3 DEF Sendable
  <2>5. /\ \A k \in DOMAIN Shown : k \in DOMAIN Shown' /\ Shown'[k] = Shown[k]
        /\ \A k \in DOMAIN Shown' : k \in DOMAIN Shown \/ (y \in Visible /\ k = Len(Shown') /\ Shown'[k] = y)
    BY <1>t, <2>2, <2>s
  <2>6. ShowsVisible'
    BY <1>2, <1>o, <2>5 DEF ShowsVisible, ToSet
  <2>7. AbortPolicy => \A k \in DOMAIN Shown : Shown[k] \notin Errors
    BY <1>2, <2>2 DEF ErrorIsLast
  <2>8. ErrorIsLast'
    BY <1>o, <2>2, <2>5, <2>7 DEF ErrorIsLast, Aborts
  <2>9. RootError \in ToSet(Shown) => RootError \in ToSet(Shown')
    BY <2>5 DEF ToSet
  <2>10. ~Stopped
    <3> SUFFICES ASSUME AbortPolicy, Shown # <<>> PROVE Last(Shown) \notin Errors
      BY DEF Stopped
    <3>1. Len(Shown) \in DOMAIN Shown /\ Shown[Len(Shown)] = Last(Shown)
      BY <1>t, FrontFacts
    <3> QED BY <2>7, <3>1
  <2>11. GoesOn' \/ Stopped'
    <3> SUFFICES ASSUME AbortPolicy, y \in Errors PROVE Stopped'
      BY <2>2 DEF Aborts
    <3>1. y \in Visible
      BY <2>3, OptionsAssumption DEF Visible, Invisible, TypeInv, ConsumerType
    <3>2. Shown' = Append(Shown, y)
      BY <2>2, <3>1
    <3>3. Append(Shown, y) # <<>> /\ Last(Append(Shown, y)) = y
      <4>1. Append(Shown, y) \in Seq(Sendable) /\ Len(Append(Shown, y)) = Len(Shown) + 1
            /\ Append(Shown, y)[Len(Shown) + 1] = y
        BY <1>t, <2>s
      <4> QED BY <1>t, <4>1 DEF Last
    <3> QED BY <1>o, <3>2, <3>3 DEF Stopped
  <2>12. SerialCovered'
    BY <1>2, <1>o, <2>2, <2>4, <2>9, <2>10, <2>11 DEF SerialCovered
  <2> QED BY <2>3, <2>6, <2>8, <2>12 DEF SerialInv
<1> QED BY <1>3, <1>4, <1>5, <1>6, SerialSteps DEF SerialKinds

-----------------------------------------------------------------------------
(* The order of the items sent, and what the end of the iterator means *)

OrderedInv ==
  /\ PullInv /\ RootedInv /\ WholeInv /\ OrderInv /\ CancelInv /\ ProgressInv
  /\ LoopOnly /\ SentInv /\ EndInv /\ ExhaustedInv /\ SerialShape /\ SerialInv

LEMMA InitOrdered == Init => OrderedInv
<1> SUFFICES ASSUME Init PROVE OrderedInv
  OBVIOUS
<1>1. PullInv
  BY InitPull
<1>2. /\ pc = "start" /\ offer = Root /\ sent = <<>> /\ frames = <<>> /\ ~cancelled /\ ready = {}
      /\ results = <<>> /\ consumer = "idle" /\ ~scheduleError
  BY DEF Init
<1>3. RootedInv /\ WholeInv /\ CancelInv /\ ExhaustedInv
  BY <1>2 DEF RootedInv, WholeInv, CancelInv, ExhaustedInv
<1>4. OrderInv /\ ProgressInv /\ LoopOnly /\ EndInv
  BY <1>2 DEF OrderInv, ProgressInv, LoopOnly, EndInv, Moving, InLoop, Sending, Awaiting
<1>5. SentInv
  BY <1>2 DEF SentInv, SortedOrder, StopsAtError, ToSet
<1>6. SerialShape
  BY <1>2 DEF SerialShape
<1>7. SerialInv
  <2>1. Shown = <<>>
    BY <1>2 DEF Shown
  <2> QED BY <1>2, <2>1, RootAlone DEF SerialInv, ShowsVisible, ErrorIsLast, SerialCovered, ToSet
<1> QED BY <1>1, <1>3, <1>4, <1>5, <1>6, <1>7 DEF OrderedInv

LEMMA StepOrdered == OrderedInv /\ [Next]_vars => OrderedInv'
<1> SUFFICES ASSUME OrderedInv, [Next]_vars PROVE OrderedInv'
  OBVIOUS
<1>1. TypeInv /\ EarlyInv
  BY DEF OrderedInv, PullInv, LoopInv
<1>2. PullInv'
  BY StepPull DEF OrderedInv
<1>3. RootedInv' /\ WholeInv' /\ OrderInv' /\ CancelInv' /\ ProgressInv'
  BY <1>1, StepRooted, StepWhole, StepOrder, StepCancel, StepProgress DEF OrderedInv
<1>4. LoopOnly' /\ SentInv' /\ EndInv' /\ ExhaustedInv'
  BY <1>1, StepLoopOnly, StepSent, StepEnd, StepExhausted DEF OrderedInv
<1>5. SerialShape' /\ SerialInv'
  <2>1. SerialShape'
    BY <1>1, SerialSteps, OptionsKept DEF OrderedInv, SerialShape
  <2>2. SerialInv'
    BY <1>1, StepSerial DEF OrderedInv
  <2> QED BY <2>1, <2>2
<1> QED BY <1>2, <1>3, <1>4, <1>5 DEF OrderedInv

THEOREM OrderedInvariant == Spec => []OrderedInv
BY InitOrdered, StepOrdered, PTL DEF Spec

LEMMA OrderedIsDepthFirst == OrderedInv => DepthFirstOrder
<1> SUFFICES ASSUME OrderedInv PROVE DepthFirstOrder
  OBVIOUS
<1>1. sent \in Seq(Sendable) /\ offer \in Sendable
  BY DEF OrderedInv, PullInv, TypeInv, ConsumerType, CoordinatorType
<1>2. CASE ~Reentrant
  BY <1>1, <1>2, SortedIsWhole DEF OrderedInv, SentInv, DepthFirstOrder
<1>3. CASE Reentrant
  <2>1. DepthFirst(frames, Shown) /\ ErrorIsLast
    BY <1>3 DEF OrderedInv, SerialInv
  <2>2. Shown = sent \/ Shown = Append(sent, offer)
    BY DEF Shown
  <2>3. DepthFirst(frames, sent)
    BY <1>1, <2>1, <2>2, CutKeepsDepthFirst
  <2>4. DirectoriesAreWhole
    BY <2>3 DEF DepthFirst, Whole, DirectoriesAreWhole
  <2>5. StopsAtError
    <3>1. CASE Shown = sent
      BY <2>1, <3>1 DEF ErrorIsLast, StopsAtError
    <3>2. CASE Shown = Append(sent, offer)
      <4>1. \A k \in DOMAIN sent : k \in DOMAIN Shown /\ Shown[k] = sent[k] /\ k # Len(Shown)
        BY <1>1, <3>2
      <4> QED BY <2>1, <4>1 DEF ErrorIsLast, StopsAtError
    <3> QED BY <2>2, <3>1, <3>2
  <2> QED BY <1>3, <2>4, <2>5 DEF DepthFirstOrder
<1> QED BY <1>2, <1>3

\* Whatever the order in which the reads finish, the consumer gets the promised items in
\* depth-first path order, and the serial fallback keeps every directory together.
THEOREM PullDepthFirstOrder == Spec => []DepthFirstOrder
BY OrderedInvariant, OrderedIsDepthFirst, PTL

LEMMA OrderedEnd == OrderedInv => EndIsExplained
<1> SUFFICES ASSUME OrderedInv, consumer = "exhausted", ~Failed, ~scheduleError
             PROVE  \/ ~Reentrant /\ ToSet(sent) = Promised
                    \/ Reentrant /\ ToSet(sent) = Item \ Invisible
                    \/ Reentrant /\ AbortPolicy /\ sent # <<>> /\ Last(sent) \in Errors
  BY DEF EndIsExplained, Failed
<1>1. pc = "ended" /\ ~Gone /\ sent \in Seq(Sendable)
  BY DEF OrderedInv, ExhaustedInv, Gone, PullInv, TypeInv, ConsumerType
<1>2. CASE ~Reentrant
  <2>1. SortedOrder /\ Complete
    BY <1>1, <1>2 DEF OrderedInv, SentInv, EndInv
  <2> QED BY <1>1, <1>2, <2>1, CompleteIsAll
<1>3. CASE Reentrant
  <2>1. Shown = sent /\ ~GoesOn
    BY <1>1 DEF Shown, GoesOn
  <2>2. SerialCovered /\ ShowsVisible
    BY <1>3 DEF OrderedInv, SerialInv
  <2>3. RootError \notin ToSet(sent)
    BY DEF Failed
  <2>4. CASE Stopped
    BY <1>3, <2>1, <2>4 DEF Stopped
  <2>5. CASE Covers(frames, sent, Visible) /\ frames = <<>>
    <3>1. \A x \in Visible : x \in ToSet(sent)
      BY <2>5 DEF Covers, Holds
    <3> QED BY <1>3, <2>1, <2>2, <2>3, <3>1 DEF ShowsVisible, Visible
  <2> QED BY <1>1, <2>1, <2>2, <2>3, <2>4, <2>5 DEF SerialCovered
<1> QED BY <1>2, <1>3

\* A consumer that reaches the end has seen everything promised, or an error in its place, or
\* a job was rejected.
THEOREM PullEndIsExplained == Spec => []EndIsExplained
BY OrderedInvariant, OrderedEnd, PTL
=============================================================================
