------------------------- MODULE StatefulWalkProofs -------------------------
(***************************************************************************)
(* Proof that the scheduler of the stateful walk holds exactly the         *)
(* directories the output still has to go through (DirectoriesAreAccounted *)
(* of StatefulWalk), for every tree, every callback and every builder.     *)
(*                                                                         *)
(* The invariant has four layers.  TypeInv says what the data are: every   *)
(* task is the path of a directory, so that there is a listing to read.    *)
(* PhaseInv follows the coordinator: which loop it is in, what comes after *)
(* it, and where no result can be outstanding.  CountInv says that the     *)
(* scheduler counts the jobs that run and the results not yet received.    *)
(* HoldInv, as long as nothing is cancelled, is the account itself: a      *)
(* directory is named by its number, the numbers of the frames are         *)
(* distinct and smaller than the next one, each is in one place only, and  *)
(* the awaited one is no longer in a frame.                                *)
(***************************************************************************)
EXTENDS StatefulWalk, SequenceFacts

Items == {x \in [ok : BOOLEAN, path : Seq(Nat), state : Seq(Nat), reads : BOOLEAN] :
            x.reads => x.path # <<>> /\ Last(x.path) \in Directory}
Tasks == {t \in [id : Nat, path : Seq(Nat), ancestors : SUBSET Nat, state : Seq(Nat)] :
            t.path # <<>> /\ Last(t.path) \in Directory}
Batches == [items : Seq(Items), state : Seq(Nat), ancestors : SUBSET Nat]
Results == [id : Nat, panicked : BOOLEAN, batch : Batches]
Prepared == {p \in [item : Items, child : Nat] : p.child # NoChild => p.item.reads}

DataOK ==
  /\ offer \in Items /\ nextId > 0
  /\ pending \in Seq(Tasks) /\ queued \in Seq(Tasks)
  /\ reading \in SUBSET Tasks /\ IsFiniteSet(reading)
  /\ results \in Seq(Results)
  /\ ready \in SUBSET Results /\ IsFiniteSet(ready)
  /\ builder.reentrant => frames \in Seq(Batches)
  /\ ~builder.reentrant => frames \in Seq(Seq(Prepared))

TypeInv == TypeOK /\ DataOK

-----------------------------------------------------------------------------
(* What the callback is given and what it leaves *)

LEMMA TreeFacts ==
  /\ Directory \in SUBSET Nat /\ Root \in Nat /\ NoChild = 0
  /\ \A d \in Directory : Listing[d] \in Seq(Nat)
BY TreeAssumption DEF NoChild

LEMMA AppendLast ==
  ASSUME NEW p \in Seq(Nat), NEW n \in Nat
  PROVE  Append(p, n) \in Seq(Nat) /\ Append(p, n) # <<>> /\ Last(Append(p, n)) = n
BY DEF Last

LEMMA EntryIsItem ==
  ASSUME NEW p \in Seq(Nat), NEW s \in Seq(Nat)
  PROVE  /\ Entry(p, s, FALSE) \in Items /\ Entry(p, s, FALSE).path = p
         /\ p # <<>> /\ Last(p) \in Directory => Entry(p, s, TRUE) \in Items
         /\ Entry(p, s, TRUE).path = p
BY DEF Entry, Items

LEMMA ErrorIsItem ==
  ASSUME NEW p \in Seq(Nat)
  PROVE  Error(p) \in Items /\ Error(p).path = p
BY DEF Error, Items

\* What is listed in a directory: every item names its node, and only directories are read.
LEMMA ListedType ==
  ASSUME NEW task \in Tasks, NEW nodes \in Seq(Nat)
  PROVE  /\ Listed(task, nodes) \in Seq(Items)
         /\ \A i \in DOMAIN Listed(task, nodes) :
              Listed(task, nodes)[i].path # <<>> /\ Last(Listed(task, nodes)[i].path) \in Nat
<1> DEFINE L == Listed(task, nodes)
<1>1. task.path \in Seq(Nat)
  BY DEF Tasks
<1>2. DOMAIN L = 1 .. Len(nodes) /\ Len(nodes) \in Nat
  BY DEF Listed
<1>3. ASSUME NEW i \in 1 .. Len(nodes)
      PROVE  L[i] \in Items /\ L[i].path = Append(task.path, nodes[i])
  <2>1. nodes[i] \in Nat
    OBVIOUS
  <2>2. /\ Append(task.path, nodes[i]) \in Seq(Nat) /\ Append(task.path, nodes[i]) # <<>>
        /\ Last(Append(task.path, nodes[i])) = nodes[i]
    BY <1>1, <2>1, AppendLast
  <2>3. Descends(task, nodes[i]) \in BOOLEAN
        /\ (Descends(task, nodes[i]) => nodes[i] \in Directory)
    BY DEF Descends
  <2>4. <<>> \in Seq(Nat)
    OBVIOUS
  <2>5. L[i] = IF nodes[i] \in Failing THEN Error(Append(task.path, nodes[i]))
               ELSE Entry(Append(task.path, nodes[i]), <<>>, Descends(task, nodes[i]))
    BY DEF Listed
  <2>6. CASE nodes[i] \in Failing
    BY <2>2, <2>5, <2>6, ErrorIsItem
  <2>7. CASE nodes[i] \notin Failing
    <3> DEFINE p == Append(task.path, nodes[i])
               r == Descends(task, nodes[i])
    <3>1. p \in Seq(Nat) /\ r \in BOOLEAN /\ (r => p # <<>> /\ Last(p) \in Directory)
      BY <2>2, <2>3
    <3>2. L[i] = Entry(p, <<>>, r)
      BY <2>5, <2>7
    <3> HIDE DEF p, r, L
    <3>3. r = TRUE \/ r = FALSE
      BY <3>1
    <3>4. L[i] \in Items /\ L[i].path = p
      <4>1. CASE r = TRUE
        BY <2>4, <3>1, <3>2, <4>1, EntryIsItem, Zenon
      <4>2. CASE r = FALSE
        BY <2>4, <3>1, <3>2, <4>2, EntryIsItem, Zenon
      <4> QED BY <3>3, <4>1, <4>2
    <3> QED BY <3>4 DEF p
  <2> QED BY <2>6, <2>7
<1>4. L \in Seq(Items)
  <2>1. L = [i \in 1 .. Len(nodes) |-> L[i]]
    BY DEF Listed
  <2> QED BY <1>2, <1>3, <2>1
<1>5. \A i \in DOMAIN L : L[i].path # <<>> /\ Last(L[i].path) \in Nat
  <2>1. SUFFICES ASSUME NEW i \in 1 .. Len(nodes) PROVE L[i].path # <<>> /\ Last(L[i].path) \in Nat
    BY <1>2
  <2>2. nodes[i] \in Nat
    OBVIOUS
  <2>3. L[i].path = Append(task.path, nodes[i])
    BY <1>3
  <2> HIDE DEF L
  <2> QED BY <1>1, <2>2, <2>3, AppendLast
<1> QED BY <1>4, <1>5

LEMMA NewStateType ==
  ASSUME NEW task \in Tasks
  PROVE  NewState(task) \in Seq(Nat)
<1>1. task.state \in Seq(Nat) /\ Last(task.path) \in Directory
  BY DEF Tasks
<1>2. Last(task.path) \in Nat
  BY <1>1, TreeFacts
<1>3. Append(task.state, Last(task.path)) \in Seq(Nat)
  BY <1>1, <1>2, AppendFacts
<1> QED BY <1>3 DEF NewState

\* The callback puts each item it keeps in one place: the k-th place is taken, whether the
\* items are sorted or left in their order.
LEMMA ProcessType ==
  ASSUME NEW task \in Tasks, NEW items \in Seq(Items),
         \A i \in DOMAIN items : Last(items[i].path) \in Nat
  PROVE  Process(task, items) \in Seq(Items)
<1> DEFINE kept == {i \in DOMAIN items : Last(items[i].path) \notin builder.removes}
           Key(i) == IF builder.sorts THEN Last(items[i].path) ELSE i
           keys == {Key(i) : i \in kept}
           Item(k) == items[CHOOSE i \in kept : Cardinality({x \in keys : x < Key(i)}) = k - 1]
           P(k) == IF Item(k).ok
                   THEN Entry(Item(k).path, NewState(task),
                              Item(k).reads /\ Last(Item(k).path) \notin builder.prunes)
                   ELSE Item(k)
<1>1. DOMAIN items = 1 .. Len(items) /\ Len(items) \in Nat
  OBVIOUS
<1>2. IsFiniteSet(kept)
  <2>1. IsFiniteSet(1 .. Len(items))
    BY <1>1, FS_Interval
  <2>2. kept \in SUBSET (1 .. Len(items))
    BY <1>1
  <2> HIDE DEF kept
  <2> QED BY <2>1, <2>2, FS_Subset
<1>3. IsFiniteSet(keys)
  <2> DEFINE f == [i \in kept |-> Key(i)]
  <2>1. keys = {f[i] : i \in kept}
    OBVIOUS
  <2>2. IsFiniteSet({f[i] : i \in kept})
    <3> HIDE DEF f, kept
    <3> QED BY <1>2, ImageFacts
  <2> QED BY <2>1, <2>2
<1>4. keys \in SUBSET Nat
  BY <1>1
<1>5. Cardinality(keys) \in Nat
  BY <1>3, FS_CardinalityType
<1>6. ASSUME NEW k \in 1 .. Cardinality(keys) PROVE Item(k) \in Items
  <2>1. k - 1 \in 0 .. Cardinality(keys) - 1
    BY <1>5
  <2>2. PICK y \in keys : Cardinality(Earlier(keys, y)) = k - 1
    BY <1>3, <1>4, <2>1, EarlierOnto
  <2>3. PICK i \in kept : y = Key(i)
    OBVIOUS
  <2>4. Cardinality({x \in keys : x < Key(i)}) = k - 1
    BY <2>2, <2>3 DEF Earlier
  <2>5. (CHOOSE j \in kept : Cardinality({x \in keys : x < Key(j)}) = k - 1) \in kept
    BY <2>4
  <2> QED BY <2>5
<1>7. ASSUME NEW k \in 1 .. Cardinality(keys) PROVE P(k) \in Items
  <2> DEFINE x == Item(k)
             r == x.reads /\ Last(x.path) \notin builder.prunes
  <2>1. x \in Items /\ NewState(task) \in Seq(Nat)
    BY <1>6, NewStateType
  <2>2. P(k) = IF x.ok THEN Entry(x.path, NewState(task), r) ELSE x
    OBVIOUS
  <2>3. /\ x.path \in Seq(Nat) /\ (r = TRUE \/ r = FALSE)
        /\ r => x.path # <<>> /\ Last(x.path) \in Directory
    BY <2>1 DEF Items
  <2> HIDE DEF x, r, P
  <2>4. CASE r = TRUE
    BY <2>1, <2>2, <2>3, <2>4, EntryIsItem, Zenon
  <2>5. CASE r = FALSE
    BY <2>1, <2>2, <2>3, <2>5, EntryIsItem, Zenon
  <2> QED BY <2>3, <2>4, <2>5
<1>8. Process(task, items) = [k \in 1 .. Cardinality(keys) |-> P(k)]
  BY DEF Process
<1> HIDE DEF P, keys
<1> QED BY <1>5, <1>7, <1>8

LEMMA BatchType ==
  ASSUME NEW task \in Tasks, NEW nodes \in Seq(Nat)
  PROVE  Batch(task, nodes) \in Batches
<1>1. Process(task, Listed(task, nodes)) \in Seq(Items)
  BY ListedType, ProcessType
<1>2. task.ancestors \in SUBSET Nat /\ NewState(task) \in Seq(Nat)
  BY NewStateType DEF Tasks
<1> QED BY <1>1, <1>2 DEF Batch, Batches

-----------------------------------------------------------------------------
(* The frame of a batch: the directories to read are numbered from nextId, each once, *)
(* and the tasks of the batch are these directories, in the order of their numbers    *)

Framed(frame, tasks) ==
  /\ frame \in Seq(Prepared) /\ tasks \in Seq(Tasks)
  /\ \A i, j \in DOMAIN frame :
       frame[i].child = frame[j].child /\ frame[i].child # NoChild => i = j
  /\ \A i \in DOMAIN frame : frame[i].child # NoChild =>
       frame[i].child >= nextId /\ frame[i].child < nextId + Len(tasks)
  /\ \A k \in DOMAIN tasks :
       tasks[k].id = nextId + k - 1 /\ \E i \in DOMAIN frame : frame[i].child = tasks[k].id

LEMMA PreparedFrame ==
  ASSUME NEW batch \in Batches, nextId \in Nat, nextId > 0, PrepareFrame(batch)
  PROVE  \E frame, tasks :
           /\ Framed(frame, tasks)
           /\ frames' = Append(frames, frame) /\ nextId' = nextId + Len(tasks)
           /\ queued' = tasks \o queued
           /\ pc' = "refill" /\ after' = "drive" /\ UNCHANGED <<offer, child>>
<1> DEFINE items == batch.items
           n == Len(items)
           reads == {i \in 1 .. n : items[i].reads}
           frame == Prepare(batch)
           announced == {i \in DOMAIN frame : frame[i].child # NoChild}
           Numbered(id) == frame[CHOOSE i \in announced : frame[i].child = id]
           tasks == [k \in 1 .. Cardinality(announced) |-> ChildTask(batch, Numbered(nextId + k - 1))]
<1>1. items \in Seq(Items) /\ batch.ancestors \in SUBSET Nat /\ batch.state \in Seq(Nat)
  BY DEF Batches
<1>2. n \in Nat /\ DOMAIN items = 1 .. n /\ \A i \in 1 .. n : items[i] \in Items
  BY <1>1
<1>3. reads \in SUBSET Nat /\ IsFiniteSet(reads) /\ Cardinality(reads) \in Nat
  <2>1. IsFiniteSet(1 .. n) /\ reads \in SUBSET (1 .. n)
    BY <1>2, FS_Interval
  <2>2. n \in Nat /\ \A i \in 1 .. n : i \in Nat
    BY <1>2
  <2> HIDE DEF reads, n
  <2>3. IsFiniteSet(reads)
    BY <2>1, FS_Subset
  <2>4. Cardinality(reads) \in Nat
    BY <2>3, FS_CardinalityType
  <2> QED BY <2>1, <2>2, <2>3, <2>4
<1>4. ASSUME NEW i \in 1 .. n
      PROVE  /\ i \in DOMAIN frame /\ frame[i].item = items[i]
             /\ i \in reads => frame[i].child = nextId + Cardinality(Earlier(reads, i))
             /\ i \notin reads => frame[i].child = NoChild
  <2>1. {j \in 1 .. i - 1 : items[j].reads} = Earlier(reads, i)
    BY <1>2 DEF Earlier
  <2>2. DOMAIN frame = 1 .. n
    BY <1>2 DEF Prepare
  <2>3. frame[i] = [item |-> items[i],
                    child |-> IF items[i].reads
                              THEN nextId + Cardinality({j \in 1 .. i - 1 : items[j].reads})
                              ELSE NoChild]
    BY <1>2 DEF Prepare
  <2>4. Cardinality({j \in 1 .. i - 1 : items[j].reads}) = Cardinality(Earlier(reads, i))
    BY <2>1
  <2>5. frame[i].child = IF items[i].reads THEN nextId + Cardinality(Earlier(reads, i)) ELSE NoChild
    BY <2>3, <2>4
  <2>6. frame[i].item = items[i]
    BY <2>3
  <2>7. i \in reads <=> items[i].reads
    OBVIOUS
  <2> HIDE DEF frame, reads
  <2> QED BY <2>2, <2>5, <2>6, <2>7
<1>5. DOMAIN frame = 1 .. n /\ frame = [i \in 1 .. n |-> frame[i]]
  BY <1>2 DEF Prepare
<1> HIDE DEF frame
<1>6. ASSUME NEW i \in 1 .. n
      PROVE  /\ i \in reads =>
                  /\ Cardinality(Earlier(reads, i)) \in Nat
                  /\ Cardinality(Earlier(reads, i)) < Cardinality(reads)
                  /\ frame[i].child # NoChild
             /\ frame[i].child \in Nat
  <2> HIDE DEF reads
  <2>1. i \in reads => Cardinality(Earlier(reads, i)) \in 0 .. Cardinality(reads) - 1
    BY <1>3, EarlierBounds
  <2> QED BY <1>3, <1>4, <2>1 DEF NoChild
<1>7. announced = reads
  BY <1>4, <1>5, <1>6
<1>8. frame \in Seq(Prepared)
  <2>1. ASSUME NEW i \in 1 .. n PROVE frame[i] \in Prepared
    <3>1. frame[i].child # NoChild => items[i].reads
      BY <1>4
    <3>2. frame[i] \in [item : Items, child : Nat]
      <4>1. frame[i] = [item |-> frame[i].item, child |-> frame[i].child]
        BY <1>2 DEF frame, Prepare
      <4> QED BY <1>2, <1>4, <1>6, <4>1
    <3>3. frame[i].item = items[i]
      BY <1>4
    <3> QED BY <3>1, <3>2, <3>3 DEF Prepared
  <2> QED BY <1>2, <1>5, <2>1
<1>9. ASSUME NEW i \in 1 .. n, NEW j \in 1 .. n,
             frame[i].child = frame[j].child, frame[i].child # NoChild
      PROVE  i = j
  <2>1. i \in reads /\ j \in reads
    BY <1>4, <1>9
  <2> HIDE DEF reads
  <2>2. Cardinality(Earlier(reads, i)) = Cardinality(Earlier(reads, j))
    BY <1>4, <1>6, <1>9, <2>1
  <2> QED BY <1>3, <2>1, <2>2, EarlierInjective
<1>10. ASSUME NEW k \in 1 .. Cardinality(reads)
       PROVE  \E i \in announced : frame[i].child = nextId + k - 1
  <2> HIDE DEF reads, announced
  <2>1. k - 1 \in 0 .. Cardinality(reads) - 1
    BY <1>3
  <2>2. PICK i \in reads : Cardinality(Earlier(reads, i)) = k - 1
    BY <1>3, <2>1, EarlierOnto
  <2>3. i \in 1 .. n
    BY DEF reads
  <2> QED BY <1>4, <1>7, <2>1, <2>2, <2>3
<1>11. ASSUME NEW k \in 1 .. Cardinality(reads)
       PROVE  /\ \E i \in 1 .. n : Numbered(nextId + k - 1) = frame[i] /\ i \in reads
              /\ Numbered(nextId + k - 1).child = nextId + k - 1
  <2> DEFINE i == CHOOSE i \in announced : frame[i].child = nextId + k - 1
  <2>1. i \in announced /\ frame[i].child = nextId + k - 1
    BY <1>10
  <2>2. Numbered(nextId + k - 1) = frame[i]
    OBVIOUS
  <2> HIDE DEF i
  <2>3. i \in reads /\ i \in 1 .. n
    BY <1>7, <2>1
  <2> QED BY <2>1, <2>2, <2>3
<1>12. ASSUME NEW k \in 1 .. Cardinality(reads)
       PROVE  tasks[k] \in Tasks /\ tasks[k].id = nextId + k - 1
  <2> DEFINE p == Numbered(nextId + k - 1)
  <2>1. p.child = nextId + k - 1
    BY <1>11
  <2>2. PICK i \in 1 .. n : p = frame[i] /\ i \in reads
    BY <1>11
  <2>3. p.item \in Items /\ p.item.reads
    BY <1>2, <1>4, <2>2
  <2>4. tasks[k] = ChildTask(batch, p)
    BY <1>7
  <2> HIDE DEF p, tasks, reads
  <2>5. p.item.path \in Seq(Nat) /\ p.item.path # <<>> /\ Last(p.item.path) \in Directory
    BY <2>3 DEF Items
  <2>6. Last(p.item.path) \in Nat
    BY <2>5, TreeFacts
  <2>7. batch.ancestors \cup {Last(p.item.path)} \in SUBSET Nat /\ p.child \in Nat
    BY <1>1, <1>3, <2>1, <2>6
  <2>8. tasks[k] = [id |-> p.child, path |-> p.item.path,
                    ancestors |-> batch.ancestors \cup {Last(p.item.path)}, state |-> batch.state]
    BY <2>4 DEF ChildTask, Task, ChildAncestors, ChildState
  <2> QED BY <1>1, <2>1, <2>5, <2>7, <2>8 DEF Tasks
<1>13. tasks \in Seq(Tasks) /\ Len(tasks) = Cardinality(reads) /\ DOMAIN tasks = 1 .. Cardinality(reads)
  <2>1. tasks = [k \in 1 .. Cardinality(reads) |-> tasks[k]]
    <3> HIDE DEF reads, announced, Numbered
    <3> QED BY <1>7
  <2> HIDE DEF tasks, reads
  <2> QED BY <1>3, <1>12, <2>1
<1>14. /\ frames' = Append(frames, frame) /\ nextId' = nextId + Cardinality(announced)
       /\ queued' = tasks \o queued
       /\ pc' = "refill" /\ after' = "drive" /\ UNCHANGED <<offer, child>>
  BY DEF PrepareFrame, Enqueue, frame
<1> HIDE DEF tasks, reads, announced
<1>15. Framed(frame, tasks)
  <2>1. ASSUME NEW i \in DOMAIN frame, frame[i].child # NoChild
        PROVE  frame[i].child >= nextId /\ frame[i].child < nextId + Len(tasks)
    <3>1. i \in 1 .. n /\ i \in reads
      BY <1>4, <1>5, <2>1
    <3> QED BY <1>3, <1>4, <1>6, <1>13, <3>1
  <2>2. ASSUME NEW k \in DOMAIN tasks
        PROVE  tasks[k].id = nextId + k - 1 /\ \E i \in DOMAIN frame : frame[i].child = tasks[k].id
    <3>1. PICK i \in announced : frame[i].child = nextId + k - 1
      BY <1>10, <1>13
    <3>2. i \in DOMAIN frame
      BY DEF announced
    <3> QED BY <1>12, <1>13, <3>1, <3>2
  <2> QED BY <1>5, <1>8, <1>9, <1>13, <2>1, <2>2 DEF Framed
<1> QED BY <1>7, <1>13, <1>14, <1>15
-----------------------------------------------------------------------------
(* Where the coordinator is *)

Idle == pc \in {"start", "rooted", "ended", "unwound"} \/ (pc = "offer" /\ after \in {"rooted", "ended"})
Early == pc \in {"start", "rooted"} \/ (pc = "offer" /\ after = "rooted")

PhaseInv ==
  /\ pc = "refill" => after \in {"wait", "matched", "other", "drive"}
  /\ pc = "offer" => after \in {"rooted", "ended", "emitted", "serial"}
  /\ pc = "emitted" => after = "emitted"
  /\ pc = "drain" => cancelled /\ after \in {"ended", "report", "unwound"}
  /\ builder.reentrant =>
       /\ pc \in {"start", "offer", "serial", "ended", "unwound"}
       /\ pc = "offer" => after \in {"ended", "serial"}
       /\ outstanding = 0
  /\ ~builder.reentrant => pc # "serial" /\ (pc = "offer" => after # "serial")
  /\ Idle => outstanding = 0
  /\ Early => queued = <<>> /\ frames = <<>> /\ ready = {} /\ target = 0

\* The scheduler counts the jobs it handed out and whose result it has not received.
CountInv == outstanding = Cardinality(reading) + Len(results)

LEMMA RootFacts ==
  /\ RootEntry \in Items /\ RootError \in Items /\ ScheduleError \in Items
  /\ RootReads => RootTask \in Tasks
<1>1. <<Root>> \in Seq(Nat) /\ <<>> \in Seq(Nat) /\ <<Root, Root>> \in Seq(Nat) /\ {Root} \in SUBSET Nat
      /\ <<Root>> # <<>> /\ Last(<<Root>>) = Root
  BY TreeFacts DEF Last
<1>2. RootReads \in BOOLEAN /\ (RootReads => Root \in Directory)
  BY DEF RootReads
<1>3. RootEntry \in Items
  <2>1. CASE RootReads = TRUE
    BY <1>1, <1>2, <2>1, EntryIsItem, Zenon DEF RootEntry
  <2>2. CASE RootReads = FALSE
    BY <1>1, <1>2, <2>2, EntryIsItem, Zenon DEF RootEntry
  <2> QED BY <1>2, <2>1, <2>2
<1>4. RootError \in Items /\ ScheduleError \in Items
  BY <1>1, ErrorIsItem, Zenon DEF RootError, ScheduleError
<1>5. RootReads => RootTask \in Tasks
  BY <1>1, <1>2 DEF RootTask, Task, Tasks
<1> QED BY <1>3, <1>4, <1>5

\* The frame of a batch and its tasks keep the data typed.
LEMMA FrameTyped ==
  ASSUME TypeInv, ~builder.reentrant, NEW batch \in Batches, PrepareFrame(batch)
  PROVE  /\ frames' \in Seq(Seq(Prepared)) /\ queued' \in Seq(Tasks)
         /\ nextId' \in Nat /\ nextId' > 0
         /\ pc' = "refill" /\ after' = "drive" /\ UNCHANGED <<offer, child>>
<1>1. /\ nextId \in Nat /\ nextId > 0 /\ queued \in Seq(Tasks)
      /\ frames \in Seq(Seq(Prepared))
  BY DEF TypeInv, TypeOK, DataOK
<1>2. PICK frame, tasks :
        /\ Framed(frame, tasks)
        /\ frames' = Append(frames, frame) /\ nextId' = nextId + Len(tasks)
        /\ queued' = tasks \o queued
        /\ pc' = "refill" /\ after' = "drive" /\ UNCHANGED <<offer, child>>
  BY <1>1, PreparedFrame
<1>3. frame \in Seq(Prepared) /\ tasks \in Seq(Tasks) /\ Len(tasks) \in Nat
  BY <1>2 DEF Framed
<1>4. frames' \in Seq(Seq(Prepared))
  BY <1>1, <1>2, <1>3, AppendFacts
<1>5. queued' \in Seq(Tasks)
  BY <1>1, <1>2, <1>3, ConcatFacts
<1> QED BY <1>1, <1>2, <1>3, <1>4, <1>5

LEMMA ReadyResult ==
  ASSUME NEW r \in Results
  PROVE  r.id \in Nat /\ r.batch \in Batches /\ r.panicked \in BOOLEAN
BY DEF Results

LEMMA SmallerReady ==
  ASSUME TypeInv, NEW r
  PROVE  ready \ {r} \in SUBSET Results /\ IsFiniteSet(ready \ {r})
BY FS_RemoveElement DEF TypeInv, DataOK

LEMMA TypeStep ==
  ASSUME TypeInv, PhaseInv, CountInv, [Next]_vars
  PROVE  TypeInv'
<1> USE DEF control, scheduler, executor, channel, Goto, Offer, StartDrain
<1>a. /\ offer \in Items /\ nextId > 0
      /\ pending \in Seq(Tasks) /\ queued \in Seq(Tasks)
      /\ reading \in SUBSET Tasks /\ IsFiniteSet(reading)
      /\ results \in Seq(Results)
      /\ ready \in SUBSET Results /\ IsFiniteSet(ready)
      /\ builder.reentrant => frames \in Seq(Batches)
      /\ ~builder.reentrant => frames \in Seq(Seq(Prepared))
      /\ TypeOK
  BY DEF TypeInv, DataOK
<1>b. outstanding \in Nat /\ Cardinality(reading) \in Nat /\ Len(results) \in Nat
      /\ outstanding = Cardinality(reading) + Len(results)
  BY <1>a, FS_CardinalityType DEF CountInv, TypeOK
<1>c. <<>> \in Seq(Tasks) /\ Len(<<>>) = 0
  OBVIOUS
<1>1. CASE Sent
  <2>1. sent' = Append(sent, offer) /\ taken' = taken /\ Len(sent) - taken < Capacity
    BY <1>1 DEF Sent
  <2>2. pc' \in {"rooted", "ended", "emitted", "serial"}
    BY <1>1 DEF Sent, PhaseInv
  <2>3. TypeOK'
    BY <1>1, <1>a, <2>1, <2>2 DEF Sent, TypeOK, Place
  <2>4. DataOK'
    BY <1>1, <1>a DEF Sent, DataOK
  <2> QED BY <2>3, <2>4 DEF TypeInv
<1>2. CASE SendFailed
  <2>1. TypeOK'
    BY <1>2, <1>a DEF SendFailed, TypeOK, Place
  <2>2. DataOK'
    BY <1>2, <1>a, <1>c DEF SendFailed, DataOK
  <2> QED BY <2>1, <2>2 DEF TypeInv
<1>3. CASE Start
  <2>1. TypeOK'
    BY <1>3, <1>a DEF Start, TypeOK, Place
  <2>2. DataOK'
    BY <1>3, <1>a, RootFacts DEF Start, DataOK
  <2> QED BY <2>1, <2>2 DEF TypeInv
<1>4. CASE Rooted
  <2>1. TypeOK'
    BY <1>4, <1>a DEF Rooted, TypeOK, Place
  <2>2. queued' \in Seq(Tasks)
    <3>1. queued' = queued \/ (RootReads /\ queued' = <<RootTask>>)
      BY <1>4 DEF Rooted, StopsAtRoot
    <3>2. RootReads => <<RootTask>> \in Seq(Tasks)
      BY RootFacts
    <3> QED BY <1>a, <3>1, <3>2, Zenon
  <2>3. DataOK'
    BY <1>4, <1>a, <2>2 DEF Rooted, DataOK
  <2> QED BY <2>1, <2>3 DEF TypeInv
<1>5. CASE Accept
  <2>1. TypeOK'
    BY <1>5, <1>a DEF Accept, TypeOK, Place
  <2>2. queued # <<>>
    BY <1>5 DEF Accept, RefillGoesOn
  <2>3. Head(queued) \in Tasks /\ Tail(queued) \in Seq(Tasks)
    BY <1>a, <2>2, TailFacts
  <2>4. reading' \in SUBSET Tasks /\ IsFiniteSet(reading')
    BY <1>5, <1>a, <2>3, FS_AddElement DEF Accept
  <2>5. DataOK'
    BY <1>5, <1>a, <2>3, <2>4 DEF Accept, DataOK
  <2> QED BY <2>1, <2>5 DEF TypeInv
<1>6. CASE Reject
  <2>1. TypeOK'
    BY <1>6, <1>a DEF Reject, TypeOK, Place, PhaseInv
  <2>2. DataOK'
    BY <1>6, <1>a, <1>c DEF Reject, DataOK, PhaseInv
  <2> QED BY <2>1, <2>2 DEF TypeInv
<1>7. CASE RefillEnds
  <2>1. TypeOK'
    BY <1>7, <1>a DEF RefillEnds, TypeOK, Place, PhaseInv
  <2>2. DataOK'
    BY <1>7, <1>a DEF RefillEnds, DataOK, PhaseInv
  <2> QED BY <2>1, <2>2 DEF TypeInv
<1>8. CASE Wait
  <2>0. ~builder.reentrant
    BY <1>8 DEF Wait, PhaseInv
  <2>1. CASE \E result \in ready :
               /\ result.id = target /\ ready' = ready \ {result}
               /\ PrepareFrame(result.batch) /\ UNCHANGED <<scheduleError, cancelled>>
    <3>1. PICK result \in ready : /\ ready' = ready \ {result} /\ PrepareFrame(result.batch)
                                  /\ UNCHANGED <<scheduleError, cancelled>>
      BY <2>1
    <3>2. result.batch \in Batches
      BY <1>a, ReadyResult
    <3>3. /\ frames' \in Seq(Seq(Prepared)) /\ queued' \in Seq(Tasks)
          /\ nextId' \in Nat /\ nextId' > 0
          /\ pc' = "refill" /\ after' = "drive" /\ UNCHANGED <<offer, child>>
      BY <2>0, <3>1, <3>2, FrameTyped
    <3>4. ready' \in SUBSET Results /\ IsFiniteSet(ready')
      BY <3>1, SmallerReady
    <3>5. TypeOK'
      BY <1>8, <1>a, <3>1, <3>3 DEF Wait, TypeOK, Place
    <3>6. DataOK'
      BY <1>8, <1>a, <2>0, <3>3, <3>4 DEF Wait, DataOK
    <3> QED BY <3>5, <3>6 DEF TypeInv
  <2>2. CASE /\ UNCHANGED <<ready, frames, nextId>> /\ scheduleError' = FALSE
             /\ IF scheduleError
                THEN StartDrain("report")
                ELSE Goto("receive") /\ UNCHANGED <<cancelled, queued>>
    <3>1. TypeOK'
      BY <1>8, <1>a, <2>2 DEF Wait, TypeOK, Place
    <3>2. DataOK'
      BY <1>8, <1>a, <1>c, <2>2 DEF Wait, DataOK
    <3> QED BY <3>1, <3>2 DEF TypeInv
  <2> QED BY <1>8, <2>1, <2>2 DEF Wait
<1>9. CASE Receive
  <2>1. Head(results) \in Results /\ Tail(results) \in Seq(Results) /\ Len(results) > 0
    BY <1>9, <1>a, TailFacts DEF Receive
  <2>2. outstanding' \in Nat
    BY <1>9, <1>b, <2>1 DEF Receive, AfterResult
  <2>3. TypeOK'
    BY <1>9, <1>a, <2>2 DEF Receive, TypeOK, Place
  <2>4. ready' \in SUBSET Results /\ IsFiniteSet(ready')
    <3>1. ready' = ready \/ ready' = ready \cup {Head(results)}
      BY <1>9 DEF Receive
    <3>2. ready \cup {Head(results)} \in SUBSET Results /\ IsFiniteSet(ready \cup {Head(results)})
      BY <1>a, <2>1, FS_AddElement
    <3> QED BY <1>a, <3>1, <3>2, Zenon
  <2>5. queued' \in Seq(Tasks)
    BY <1>9, <1>a, <1>c DEF Receive
  <2>6. DataOK'
    BY <1>9, <1>a, <2>1, <2>4, <2>5 DEF Receive, DataOK
  <2> QED BY <2>3, <2>6 DEF TypeInv
<1>10. CASE Matched
  <2>0. ~builder.reentrant
    BY <1>10 DEF Matched, PhaseInv
  <2>1. PICK result \in ready :
          /\ ready' = ready \ {result}
          /\ IF scheduleError
             THEN StartDrain("report") /\ UNCHANGED <<frames, nextId>>
             ELSE PrepareFrame(result.batch) /\ cancelled' = cancelled
    BY <1>10 DEF Matched
  <2>2. ready' \in SUBSET Results /\ IsFiniteSet(ready')
    BY <2>1, SmallerReady
  <2>3. CASE scheduleError
    <3>1. TypeOK'
      BY <1>10, <1>a, <2>1, <2>3 DEF Matched, TypeOK, Place
    <3>2. DataOK'
      BY <1>10, <1>a, <1>c, <2>1, <2>2, <2>3 DEF Matched, DataOK
    <3> QED BY <3>1, <3>2 DEF TypeInv
  <2>4. CASE ~scheduleError
    <3>1. PrepareFrame(result.batch) /\ cancelled' = cancelled
      BY <2>1, <2>4
    <3>2. result.batch \in Batches
      BY <1>a, ReadyResult
    <3>3. /\ frames' \in Seq(Seq(Prepared)) /\ queued' \in Seq(Tasks)
          /\ nextId' \in Nat /\ nextId' > 0
          /\ pc' = "refill" /\ after' = "drive" /\ UNCHANGED <<offer, child>>
      BY <2>0, <3>1, <3>2, FrameTyped
    <3>4. TypeOK'
      BY <1>10, <1>a, <3>1, <3>3 DEF Matched, TypeOK, Place
    <3>5. DataOK'
      BY <1>10, <1>a, <2>0, <2>2, <3>3 DEF Matched, DataOK
    <3> QED BY <3>4, <3>5 DEF TypeInv
  <2> QED BY <2>3, <2>4
<1>11. CASE Other
  <2>1. TypeOK'
    BY <1>11, <1>a DEF Other, TypeOK, Place
  <2>2. DataOK'
    BY <1>11, <1>a, <1>c DEF Other, DataOK
  <2> QED BY <2>1, <2>2 DEF TypeInv
<1>12. CASE Drive
  <2>0. ~builder.reentrant
    BY <1>12 DEF Drive, PhaseInv
  <2>1. CASE cancelled \/ frames = <<>>
    <3>1. TypeOK'
      BY <1>12, <1>a, <2>1 DEF Drive, TypeOK, Place
    <3>2. DataOK'
      BY <1>12, <1>a, <1>c, <2>1 DEF Drive, DataOK
    <3> QED BY <3>1, <3>2 DEF TypeInv
  <2>2. CASE ~cancelled /\ frames # <<>> /\ Last(frames) = <<>>
    <3>1. Front(frames) \in Seq(Seq(Prepared))
      BY <1>a, <2>0, <2>2, FrontFacts
    <3>2. TypeOK'
      BY <1>12, <1>a, <2>2 DEF Drive, TypeOK, Place
    <3>3. DataOK'
      BY <1>12, <1>a, <2>0, <2>2, <3>1 DEF Drive, DataOK
    <3> QED BY <3>2, <3>3 DEF TypeInv
  <2>3. CASE ~cancelled /\ frames # <<>> /\ Last(frames) # <<>>
    <3>1. Front(frames) \in Seq(Seq(Prepared)) /\ Last(frames) \in Seq(Prepared)
      BY <1>a, <2>0, <2>3, FrontFacts
    <3>2. Head(Last(frames)) \in Prepared /\ Tail(Last(frames)) \in Seq(Prepared)
      BY <2>3, <3>1, TailFacts
    <3>3. /\ frames' = Append(Front(frames), Tail(Last(frames)))
          /\ pc' = IF Visible(Head(Last(frames)).item) THEN "offer" ELSE "emitted"
          /\ offer' = Head(Last(frames)).item /\ child' = Head(Last(frames)).child
          /\ after' = "emitted"
      BY <1>12, <2>3 DEF Drive
    <3>4. frames' \in Seq(Seq(Prepared))
      BY <3>1, <3>2, <3>3, AppendFacts
    <3>5. offer' \in Items /\ child' \in Nat
      BY <3>2, <3>3 DEF Prepared
    <3>6. TypeOK'
      BY <1>12, <1>a, <3>3, <3>5 DEF Drive, TypeOK, Place
    <3>7. DataOK'
      BY <1>12, <1>a, <2>0, <2>3, <3>4, <3>5 DEF Drive, DataOK
    <3> QED BY <3>6, <3>7 DEF TypeInv
  <2> QED BY <2>1, <2>2, <2>3
<1>13. CASE Emitted
  <2>1. TypeOK'
    BY <1>13, <1>a DEF Emitted, TypeOK, Place
  <2>2. DataOK'
    BY <1>13, <1>a, <1>c DEF Emitted, DataOK
  <2> QED BY <2>1, <2>2 DEF TypeInv
<1>14. CASE DrainOne
  <2>1. Tail(results) \in Seq(Results) /\ Len(results) > 0
    BY <1>14, <1>a, TailFacts DEF DrainOne
  <2>2. outstanding' \in Nat
    BY <1>14, <1>b, <2>1 DEF DrainOne, AfterResult
  <2>3. TypeOK'
    BY <1>14, <1>a, <2>2 DEF DrainOne, TypeOK, Place
  <2>4. DataOK'
    BY <1>14, <1>a, <2>1 DEF DrainOne, DataOK
  <2> QED BY <2>3, <2>4 DEF TypeInv
<1>15. CASE DrainEnds
  <2>1. TypeOK'
    BY <1>15, <1>a DEF DrainEnds, TypeOK, Place, PhaseInv
  <2>2. DataOK'
    BY <1>15, <1>a, RootFacts DEF DrainEnds, DataOK, PhaseInv
  <2> QED BY <2>1, <2>2 DEF TypeInv
<1>16. CASE SerialStart
  <2>1. pending' \in Seq(Tasks) /\ Len(pending') <= 1
    <3>1. pending' = pending \/ pending' = <<>> \/ (RootReads /\ pending' = <<RootTask>>)
      BY <1>16 DEF SerialStart
    <3>2. RootReads => <<RootTask>> \in Seq(Tasks)
      BY RootFacts
    <3>3. pending' \in Seq(Tasks)
      BY <1>a, <1>c, <3>1, <3>2, Zenon
    <3>4. Len(pending) <= 1 /\ Len(<<>>) <= 1 /\ Len(<<RootTask>>) <= 1
      BY <1>a DEF TypeOK
    <3>5. Len(pending') <= 1
      BY <3>1, <3>4, Zenon
    <3> QED BY <3>3, <3>5
  <2>2. TypeOK'
    BY <1>16, <1>a, <2>1 DEF SerialStart, TypeOK, Place
  <2>3. DataOK'
    BY <1>16, <1>a, <2>1, RootFacts DEF SerialStart, DataOK
  <2> QED BY <2>2, <2>3 DEF TypeInv
<1>17. CASE SerialRead
  <2>0. builder.reentrant
    BY <1>17 DEF SerialRead, PhaseInv
  <2>1. Head(pending) \in Tasks
    BY <1>17, <1>a, TailFacts DEF SerialRead
  <2>2. WholeBatch(Head(pending)) \in Batches
    <3>1. Last(Head(pending).path) \in Directory
      BY <2>1 DEF Tasks
    <3>2. Listing[Last(Head(pending).path)] \in Seq(Nat)
      BY <3>1, TreeFacts
    <3> QED BY <2>1, <3>2, BatchType DEF WholeBatch
  <2>3. frames' \in Seq(Batches)
    <3>1. frames' = frames \/ frames' = Append(frames, WholeBatch(Head(pending)))
      BY <1>17 DEF SerialRead
    <3>2. Append(frames, WholeBatch(Head(pending))) \in Seq(Batches)
      BY <1>a, <2>0, <2>2, AppendFacts
    <3> QED BY <1>a, <2>0, <3>1, <3>2, Zenon
  <2>4. TypeOK'
    BY <1>17, <1>a, <1>c DEF SerialRead, TypeOK, Place
  <2>5. DataOK'
    BY <1>17, <1>a, <1>c, <2>0, <2>3 DEF SerialRead, DataOK
  <2> QED BY <2>4, <2>5 DEF TypeInv
<1>18. CASE SerialNext
  <2>0. builder.reentrant
    BY <1>18 DEF SerialNext, PhaseInv
  <2>1. CASE frames = <<>>
    <3>1. TypeOK'
      BY <1>18, <1>a, <2>1 DEF SerialNext, TypeOK, Place
    <3>2. DataOK'
      BY <1>18, <1>a, <2>1 DEF SerialNext, DataOK
    <3> QED BY <3>1, <3>2 DEF TypeInv
  <2>2. CASE frames # <<>> /\ Last(frames).items = <<>>
    <3>1. Front(frames) \in Seq(Batches)
      BY <1>a, <2>0, <2>2, FrontFacts
    <3>2. TypeOK'
      BY <1>18, <1>a, <2>2 DEF SerialNext, TypeOK, Place
    <3>3. DataOK'
      BY <1>18, <1>a, <2>0, <2>2, <3>1 DEF SerialNext, DataOK
    <3> QED BY <3>2, <3>3 DEF TypeInv
  <2>3. CASE frames # <<>> /\ Last(frames).items # <<>>
    <3> DEFINE batch == Last(frames)
               item == Head(batch.items)
               next == Task(0, item.path, ChildAncestors(batch.ancestors, item.path),
                            ChildState(batch, item))
    <3>1. Front(frames) \in Seq(Batches) /\ batch \in Batches
      BY <1>a, <2>0, <2>3, FrontFacts
    <3>2. /\ batch.items \in Seq(Items) /\ batch.ancestors \in SUBSET Nat /\ batch.state \in Seq(Nat)
      BY <3>1 DEF Batches
    <3>3. item \in Items /\ Tail(batch.items) \in Seq(Items)
      BY <2>3, <3>2, TailFacts
    <3>4. /\ frames' = Append(Front(frames), [batch EXCEPT !.items = Tail(@)])
          /\ pending' = IF item.reads THEN <<next>> ELSE <<>>
          /\ \/ pc' \in {"serial", "ended"} /\ UNCHANGED <<after, offer, child>>
             \/ pc' = "offer" /\ offer' = item /\ after' = "serial" /\ UNCHANGED child
      BY <1>18, <2>3 DEF SerialNext
    <3>5. [batch EXCEPT !.items = Tail(@)] \in Batches
      BY <3>1, <3>3 DEF Batches
    <3>6. frames' \in Seq(Batches)
      BY <3>1, <3>4, <3>5, AppendFacts
    <3>7. item.reads => next \in Tasks
      <4>1. ASSUME item.reads PROVE next \in Tasks
        <5>1. item.path \in Seq(Nat) /\ item.path # <<>> /\ Last(item.path) \in Directory
          BY <3>3, <4>1 DEF Items
        <5>2. Last(item.path) \in Nat
          BY <5>1, TreeFacts
        <5>3. batch.ancestors \cup {Last(item.path)} \in SUBSET Nat
          BY <3>2, <5>2
        <5>4. next = [id |-> 0, path |-> item.path,
                      ancestors |-> batch.ancestors \cup {Last(item.path)}, state |-> batch.state]
          BY DEF Task, ChildAncestors, ChildState
        <5> HIDE DEF item, batch, next
        <5> QED BY <3>2, <5>1, <5>3, <5>4 DEF Tasks
      <4> QED BY <4>1
    <3> HIDE DEF item, batch, next
    <3>8. pending' \in Seq(Tasks) /\ Len(pending') <= 1
      BY <3>4, <3>7
    <3>9. TypeOK'
      BY <1>18, <1>a, <3>4, <3>8 DEF SerialNext, TypeOK, Place
    <3>10. DataOK'
      BY <1>18, <1>a, <2>0, <3>3, <3>4, <3>6, <3>8 DEF SerialNext, DataOK
    <3> QED BY <3>9, <3>10 DEF TypeInv
  <2> QED BY <2>1, <2>2, <2>3
<1>19. CASE Executor
  <2>1. PICK task \in reading : Read(task)
    BY <1>19 DEF Executor
  <2>2. task \in Tasks
    BY <1>a
  <2>3. task.id \in Nat /\ Last(task.path) \in Directory
    BY <2>2 DEF Tasks
  <2>4. Listing[Last(task.path)] \in Seq(Nat)
    BY <2>3, TreeFacts
  <2>5. PICK nodes \in Seq(Nat), panicked \in BOOLEAN :
          results' = Append(results, Result(task.id, panicked, Batch(task, nodes)))
    <3>1. \A nodes \in Cuts(Listing[Last(task.path)]) : nodes \in Seq(Nat)
      BY <2>4 DEF Cuts
    <3>2. <<>> \in Seq(Nat)
      OBVIOUS
    <3>3. \/ \E nodes \in Cuts(Listing[Last(task.path)]) :
               results' = Append(results, Result(task.id, FALSE, Batch(task, nodes)))
          \/ results' = Append(results, Result(task.id, TRUE, Batch(task, <<>>)))
      BY <2>1 DEF Read
    <3> QED BY <3>1, <3>2, <3>3, Zenon
  <2>6. Result(task.id, panicked, Batch(task, nodes)) \in Results
    BY <2>2, <2>3, BatchType DEF Result, Results
  <2>7. results' \in Seq(Results)
    BY <1>a, <2>5, <2>6, AppendFacts
  <2>8. reading' \in SUBSET Tasks /\ IsFiniteSet(reading')
    BY <1>a, <2>1, FS_RemoveElement DEF Read
  <2>9. TypeOK'
    BY <2>1, <1>a DEF Read, TypeOK
  <2>10. DataOK'
    BY <2>1, <1>a, <2>7, <2>8 DEF Read, DataOK
  <2> QED BY <2>9, <2>10 DEF TypeInv
<1>20. CASE Consumer \/ CallNext \/ DropReceiver
  <2>1. /\ UNCHANGED <<builder, control, frames, pending, target, scheduler, executor, sent>>
        /\ taken' = taken \/ (taken' = taken + 1 /\ taken < Len(sent))
        /\ cancelled' \in {cancelled, TRUE}
        /\ consumer' \in {"idle", "next", "closed", "dropping", "dropped", "exhausted", "panicked"}
    BY <1>20 DEF Consumer, CallNext, DropReceiver, Take, TakeEnd, CancelToken, JoinCoordinator, Joined
  <2>2. taken' \in 0 .. Len(sent')
    BY <1>a, <2>1 DEF TypeOK
  <2>3. TypeOK'
    BY <1>a, <2>1, <2>2 DEF TypeOK
  <2>4. DataOK'
    BY <1>a, <2>1 DEF DataOK
  <2> QED BY <2>3, <2>4 DEF TypeInv
<1>21. CASE UNCHANGED vars
  <2>1. TypeOK'
    BY <1>21, <1>a DEF vars, TypeOK
  <2>2. DataOK'
    BY <1>21, <1>a DEF vars, DataOK
  <2> QED BY <2>1, <2>2 DEF TypeInv
<1> QED BY <1>1, <1>2, <1>3, <1>4, <1>5, <1>6, <1>7, <1>8, <1>9, <1>10, <1>11, <1>12, <1>13, <1>14,
           <1>15, <1>16, <1>17, <1>18, <1>19, <1>20, <1>21 DEF Next, Coordinator
LEMMA PhaseStep ==
  ASSUME PhaseInv, TypeOK, [Next]_vars
  PROVE  PhaseInv'
<1> USE DEF control, scheduler, executor, channel, Goto, Offer, StartDrain, PhaseInv, Idle, Early
<1>1. CASE Sent
  BY <1>1 DEF Sent
<1>2. CASE SendFailed
  BY <1>2 DEF SendFailed
<1>3. CASE Start
  BY <1>3 DEF Start
<1>4. CASE Rooted
  BY <1>4 DEF Rooted
<1>5. CASE Accept
  BY <1>5 DEF Accept, RefillGoesOn
<1>6. CASE Reject
  BY <1>6 DEF Reject, RefillGoesOn
<1>7. CASE RefillEnds
  BY <1>7 DEF RefillEnds
<1>8. CASE Wait
  BY <1>8 DEF Wait, PrepareFrame
<1>9. CASE Receive
  BY <1>9 DEF Receive
<1>10. CASE Matched
  BY <1>10 DEF Matched, PrepareFrame
<1>11. CASE Other
  BY <1>11 DEF Other
<1>12. CASE Drive
  BY <1>12 DEF Drive
<1>13. CASE Emitted
  BY <1>13 DEF Emitted
<1>14. CASE DrainOne
  BY <1>14 DEF DrainOne
<1>15. CASE DrainEnds
  BY <1>15 DEF DrainEnds, Drained
<1>16. CASE SerialStart
  BY <1>16 DEF SerialStart
<1>17. CASE SerialRead
  BY <1>17 DEF SerialRead
<1>18. CASE SerialNext
  BY <1>18 DEF SerialNext
<1>19. CASE Executor
  BY <1>19 DEF Executor, Read
<1>20. CASE Consumer \/ CallNext \/ DropReceiver
  <2>1. /\ UNCHANGED <<builder, control, frames, pending, target, scheduler, executor>>
        /\ cancelled' = cancelled \/ cancelled' = TRUE
    BY <1>20 DEF Consumer, CallNext, DropReceiver, Take, TakeEnd, CancelToken, JoinCoordinator
  <2> QED BY <2>1
<1>21. CASE UNCHANGED vars
  BY <1>21 DEF vars
<1> QED BY <1>1, <1>2, <1>3, <1>4, <1>5, <1>6, <1>7, <1>8, <1>9, <1>10, <1>11, <1>12, <1>13, <1>14,
           <1>15, <1>16, <1>17, <1>18, <1>19, <1>20, <1>21 DEF Next, Coordinator
-----------------------------------------------------------------------------
(* The numbers in a list, in a set and in the frames *)

OnList(q, x) == \E i \in DOMAIN q : q[i].id = x
OnceOnList(q) == \A i, j \in DOMAIN q : q[i].id = q[j].id => i = j

InSet(S, x) == \E t \in S : t.id = x
OnceInSet(S) == \A s, t \in S : s.id = t.id => s = t

OnFrame(f, x) == x # NoChild /\ \E k \in DOMAIN f : f[k].child = x
OnceOnFrame(f) == \A k, l \in DOMAIN f : f[k].child = f[l].child /\ f[k].child # NoChild => k = l

OnFrames(fs, x) == \E i \in DOMAIN fs : OnFrame(fs[i], x)
OnceOnFrames(fs) ==
  /\ \A i \in DOMAIN fs : OnceOnFrame(fs[i])
  /\ \A i, j \in DOMAIN fs : \A x : OnFrame(fs[i], x) /\ OnFrame(fs[j], x) => i = j

LEMMA ListTail ==
  ASSUME NEW S, NEW q \in Seq(S), q # <<>>
  PROVE  /\ \A x : OnList(q, x) <=> x = Head(q).id \/ OnList(Tail(q), x)
         /\ OnceOnList(q) => OnceOnList(Tail(q)) /\ ~OnList(Tail(q), Head(q).id)
<1>1. /\ 1 \in DOMAIN q /\ q[1] = Head(q) /\ DOMAIN q = 1 .. Len(q)
      /\ \A i \in DOMAIN Tail(q) : i + 1 \in DOMAIN q /\ Tail(q)[i] = q[i + 1] /\ i >= 1 /\ i \in Nat
      /\ \A i \in DOMAIN q : i # 1 => i - 1 \in DOMAIN Tail(q) /\ Tail(q)[i - 1] = q[i]
  BY TailFacts
<1>2. \A x : OnList(q, x) <=> x = Head(q).id \/ OnList(Tail(q), x)
  BY <1>1 DEF OnList
<1>3. ASSUME OnceOnList(q) PROVE OnceOnList(Tail(q)) /\ ~OnList(Tail(q), Head(q).id)
  <2>1. OnceOnList(Tail(q))
    BY <1>1, <1>3 DEF OnceOnList
  <2>2. ASSUME NEW i \in DOMAIN Tail(q), Tail(q)[i].id = Head(q).id PROVE FALSE
    BY <1>1, <1>3, <2>2 DEF OnceOnList
  <2> QED BY <2>1, <2>2 DEF OnList
<1> QED BY <1>2, <1>3

LEMMA ListAppend ==
  ASSUME NEW S, NEW q \in Seq(S), NEW e \in S
  PROVE  /\ \A x : OnList(Append(q, e), x) <=> x = e.id \/ OnList(q, x)
         /\ OnceOnList(q) /\ ~OnList(q, e.id) => OnceOnList(Append(q, e))
<1>1. /\ Len(q) + 1 \in DOMAIN Append(q, e) /\ Append(q, e)[Len(q) + 1] = e
      /\ \A i \in DOMAIN q : i \in DOMAIN Append(q, e) /\ Append(q, e)[i] = q[i]
      /\ \A i \in DOMAIN Append(q, e) : i \in DOMAIN q \/ i = Len(q) + 1
  BY AppendFacts
<1>2. \A x : OnList(Append(q, e), x) <=> x = e.id \/ OnList(q, x)
  BY <1>1 DEF OnList
<1>3. OnceOnList(q) /\ ~OnList(q, e.id) => OnceOnList(Append(q, e))
  BY <1>1 DEF OnceOnList, OnList
<1> QED BY <1>2, <1>3

LEMMA ListConcat ==
  ASSUME NEW S, NEW r \in Seq(S), NEW q \in Seq(S)
  PROVE  /\ \A x : OnList(r \o q, x) <=> OnList(r, x) \/ OnList(q, x)
         /\ OnceOnList(r) /\ OnceOnList(q) /\ (\A x : ~(OnList(r, x) /\ OnList(q, x))) => OnceOnList(r \o q)
<1>1. /\ \A i \in DOMAIN (r \o q) :
           \/ i \in DOMAIN r /\ (r \o q)[i] = r[i]
           \/ i \notin DOMAIN r /\ i - Len(r) \in DOMAIN q /\ (r \o q)[i] = q[i - Len(r)]
      /\ \A i \in DOMAIN r : i \in DOMAIN (r \o q) /\ (r \o q)[i] = r[i]
      /\ \A i \in DOMAIN q : i + Len(r) \in DOMAIN (r \o q) /\ (r \o q)[i + Len(r)] = q[i]
      /\ Len(r) \in Nat /\ DOMAIN (r \o q) \in SUBSET Nat
  BY ConcatFacts
<1>2. \A x : OnList(r \o q, x) <=> OnList(r, x) \/ OnList(q, x)
  BY <1>1 DEF OnList
<1>3. ASSUME OnceOnList(r), OnceOnList(q), \A x : ~(OnList(r, x) /\ OnList(q, x)),
             NEW i \in DOMAIN (r \o q), NEW j \in DOMAIN (r \o q), (r \o q)[i].id = (r \o q)[j].id
      PROVE  i = j
  <2>1. CASE i \in DOMAIN r /\ j \in DOMAIN r
    BY <1>1, <1>3, <2>1 DEF OnceOnList
  <2>2. CASE i \notin DOMAIN r /\ j \notin DOMAIN r
    <3>1. i - Len(r) = j - Len(r)
      BY <1>1, <1>3, <2>2 DEF OnceOnList
    <3> QED BY <1>1, <3>1
  <2>3. CASE i \in DOMAIN r /\ j \notin DOMAIN r
    BY <1>1, <1>3, <2>3 DEF OnList
  <2>4. CASE i \notin DOMAIN r /\ j \in DOMAIN r
    BY <1>1, <1>3, <2>4 DEF OnList
  <2> QED BY <2>1, <2>2, <2>3, <2>4
<1> QED BY <1>2, <1>3 DEF OnceOnList

LEMMA SetRemove ==
  ASSUME NEW S, OnceInSet(S), NEW t \in S
  PROVE  /\ \A x : InSet(S \ {t}, x) <=> InSet(S, x) /\ x # t.id
         /\ OnceInSet(S \ {t}) /\ InSet(S, t.id)
BY DEF OnceInSet, InSet

LEMMA SetAdd ==
  ASSUME NEW S, NEW t
  PROVE  /\ \A x : InSet(S \cup {t}, x) <=> InSet(S, x) \/ x = t.id
         /\ OnceInSet(S) /\ ~InSet(S, t.id) => OnceInSet(S \cup {t})
BY DEF OnceInSet, InSet

LEMMA FrameTail ==
  ASSUME NEW S, NEW f \in Seq(S), f # <<>>
  PROVE  /\ \A x : OnFrame(f, x) <=> (x # NoChild /\ x = Head(f).child) \/ OnFrame(Tail(f), x)
         /\ OnceOnFrame(f) => OnceOnFrame(Tail(f)) /\ ~OnFrame(Tail(f), Head(f).child)
<1>1. /\ 1 \in DOMAIN f /\ f[1] = Head(f) /\ DOMAIN f = 1 .. Len(f)
      /\ \A i \in DOMAIN Tail(f) : i + 1 \in DOMAIN f /\ Tail(f)[i] = f[i + 1] /\ i >= 1 /\ i \in Nat
      /\ \A i \in DOMAIN f : i # 1 => i - 1 \in DOMAIN Tail(f) /\ Tail(f)[i - 1] = f[i]
  BY TailFacts
<1>2. \A x : OnFrame(f, x) <=> (x # NoChild /\ x = Head(f).child) \/ OnFrame(Tail(f), x)
  BY <1>1 DEF OnFrame
<1>3. ASSUME OnceOnFrame(f) PROVE OnceOnFrame(Tail(f)) /\ ~OnFrame(Tail(f), Head(f).child)
  <2>1. OnceOnFrame(Tail(f))
    BY <1>1, <1>3 DEF OnceOnFrame
  <2>2. ASSUME NEW i \in DOMAIN Tail(f), Tail(f)[i].child = Head(f).child, Head(f).child # NoChild
        PROVE  FALSE
    BY <1>1, <1>3, <2>2 DEF OnceOnFrame
  <2> QED BY <2>1, <2>2 DEF OnFrame
<1> QED BY <1>2, <1>3

LEMMA FramesFront ==
  ASSUME NEW S, NEW fs \in Seq(S), fs # <<>>
  PROVE  /\ \A x : OnFrames(fs, x) <=> OnFrames(Front(fs), x) \/ OnFrame(Last(fs), x)
         /\ OnceOnFrames(fs) => /\ OnceOnFrames(Front(fs)) /\ OnceOnFrame(Last(fs))
                                /\ \A x : ~(OnFrames(Front(fs), x) /\ OnFrame(Last(fs), x))
<1>1. /\ Len(fs) \in DOMAIN fs /\ fs[Len(fs)] = Last(fs)
      /\ \A i \in DOMAIN Front(fs) : i \in DOMAIN fs /\ i # Len(fs) /\ Front(fs)[i] = fs[i]
      /\ DOMAIN Front(fs) = 1 .. Len(fs) - 1 /\ DOMAIN fs = 1 .. Len(fs) /\ Len(fs) \in Nat
  BY FrontFacts
<1>2. \A i \in DOMAIN fs : i = Len(fs) \/ (i \in DOMAIN Front(fs) /\ Front(fs)[i] = fs[i])
  BY <1>1
<1>3. \A x : OnFrames(fs, x) <=> OnFrames(Front(fs), x) \/ OnFrame(Last(fs), x)
  BY <1>1, <1>2 DEF OnFrames
<1>4. ASSUME OnceOnFrames(fs)
      PROVE  /\ OnceOnFrames(Front(fs)) /\ OnceOnFrame(Last(fs))
             /\ \A x : ~(OnFrames(Front(fs), x) /\ OnFrame(Last(fs), x))
  BY <1>1, <1>4 DEF OnceOnFrames, OnFrames
<1> QED BY <1>3, <1>4

LEMMA FramesAppend ==
  ASSUME NEW S, NEW fs \in Seq(S), NEW f \in S
  PROVE  /\ \A x : OnFrames(Append(fs, f), x) <=> OnFrames(fs, x) \/ OnFrame(f, x)
         /\ OnceOnFrames(fs) /\ OnceOnFrame(f) /\ (\A x : ~(OnFrames(fs, x) /\ OnFrame(f, x)))
              => OnceOnFrames(Append(fs, f))
<1>1. /\ Len(fs) + 1 \in DOMAIN Append(fs, f) /\ Append(fs, f)[Len(fs) + 1] = f
      /\ \A i \in DOMAIN fs : i \in DOMAIN Append(fs, f) /\ Append(fs, f)[i] = fs[i]
      /\ \A i \in DOMAIN Append(fs, f) : i \in DOMAIN fs \/ i = Len(fs) + 1
  BY AppendFacts
<1>2. \A x : OnFrames(Append(fs, f), x) <=> OnFrames(fs, x) \/ OnFrame(f, x)
  BY <1>1 DEF OnFrames
<1>3. OnceOnFrames(fs) /\ OnceOnFrame(f) /\ (\A x : ~(OnFrames(fs, x) /\ OnFrame(f, x)))
        => OnceOnFrames(Append(fs, f))
  BY <1>1 DEF OnceOnFrames, OnFrames
<1> QED BY <1>2, <1>3
-----------------------------------------------------------------------------
(* Every number in one place, as long as nothing is cancelled *)

HeldNumber(x) == OnList(queued, x) \/ InSet(reading, x) \/ OnList(results, x) \/ InSet(ready, x)
AwaitedNumber(x) == (Awaiting /\ x = target) \/ (Announcing /\ x = child)

InOnePlace(x) ==
  /\ ~(OnList(queued, x) /\ InSet(reading, x)) /\ ~(OnList(queued, x) /\ OnList(results, x))
  /\ ~(OnList(queued, x) /\ InSet(ready, x)) /\ ~(InSet(reading, x) /\ OnList(results, x))
  /\ ~(InSet(reading, x) /\ InSet(ready, x)) /\ ~(OnList(results, x) /\ InSet(ready, x))

Account ==
  /\ OnceOnList(queued) /\ OnceInSet(reading) /\ OnceOnList(results) /\ OnceInSet(ready)
  /\ OnceOnFrames(frames)
  /\ \A x : /\ InOnePlace(x)
            /\ HeldNumber(x) <=> OnFrames(frames, x) \/ AwaitedNumber(x)
            /\ HeldNumber(x) => x \in Nat /\ x < nextId
            /\ ~(OnFrames(frames, x) /\ AwaitedNumber(x))

HoldInv == ~cancelled /\ ~builder.reentrant => Account

\* A batch becomes the top frame: its number leaves the ready batches, and the numbers of
\* its directories, all of them new, enter the queue and the frame.
LEMMA FrameAccount ==
  ASSUME TypeInv, Account, ~builder.reentrant, NEW r \in ready, r.id = target, Awaiting,
         ready' = ready \ {r}, PrepareFrame(r.batch), UNCHANGED <<reading, results, target>>
  PROVE  Account'
<1>1. /\ nextId \in Nat /\ nextId > 0 /\ r.batch \in Batches /\ r.id \in Nat
      /\ queued \in Seq(Tasks) /\ frames \in Seq(Seq(Prepared))
  <2>1. ready \in SUBSET Results
    BY DEF TypeInv, DataOK
  <2> QED BY <2>1, ReadyResult DEF TypeInv, DataOK, TypeOK
<1>2. PICK frame, tasks :
        /\ Framed(frame, tasks)
        /\ frames' = Append(frames, frame) /\ nextId' = nextId + Len(tasks)
        /\ queued' = tasks \o queued
        /\ pc' = "refill" /\ after' = "drive" /\ UNCHANGED <<offer, child>>
  BY <1>1, PreparedFrame
<1>3. /\ frame \in Seq(Prepared) /\ tasks \in Seq(Tasks) /\ Len(tasks) \in Nat
      /\ DOMAIN tasks = 1 .. Len(tasks)
  BY <1>2 DEF Framed
<1>4. \A x : OnList(tasks, x) <=> OnFrame(frame, x)
  <2>1. ASSUME NEW x, OnList(tasks, x) PROVE OnFrame(frame, x)
    <3>1. PICK k \in DOMAIN tasks : tasks[k].id = x
      BY <2>1 DEF OnList
    <3>2. x = nextId + k - 1 /\ k \in Nat /\ k >= 1 /\ \E i \in DOMAIN frame : frame[i].child = x
      BY <1>2, <1>3, <3>1 DEF Framed
    <3> QED BY <1>1, <3>2 DEF OnFrame, NoChild
  <2>2. ASSUME NEW x, OnFrame(frame, x) PROVE OnList(tasks, x)
    <3>1. PICK i \in DOMAIN frame : frame[i].child = x /\ x # NoChild
      BY <2>2 DEF OnFrame
    <3>2. frame[i] \in Prepared
      BY <1>3
    <3>3. x \in Nat /\ x >= nextId /\ x < nextId + Len(tasks)
      BY <1>2, <3>1, <3>2 DEF Framed, Prepared
    <3>4. x - nextId + 1 \in DOMAIN tasks /\ nextId + (x - nextId + 1) - 1 = x
      BY <1>1, <1>3, <3>3
    <3>5. tasks[x - nextId + 1].id = nextId + (x - nextId + 1) - 1
      BY <1>2, <3>4 DEF Framed
    <3> QED BY <3>4, <3>5 DEF OnList
  <2> QED BY <2>1, <2>2
<1>5. \A x : OnList(tasks, x) => x \in Nat /\ x >= nextId /\ x < nextId'
  <2>1. ASSUME NEW x, OnList(tasks, x) PROVE x \in Nat /\ x >= nextId /\ x < nextId'
    <3>1. PICK k \in DOMAIN tasks : tasks[k].id = x
      BY <2>1 DEF OnList
    <3>2. x = nextId + k - 1 /\ k \in Nat /\ k >= 1 /\ k <= Len(tasks)
      BY <1>2, <1>3, <3>1 DEF Framed
    <3> QED BY <1>1, <1>2, <1>3, <3>2
  <2> QED BY <2>1
<1>6. OnceOnList(tasks) /\ OnceOnFrame(frame)
  <2>1. ASSUME NEW k \in DOMAIN tasks, NEW l \in DOMAIN tasks, tasks[k].id = tasks[l].id PROVE k = l
    <3>1. nextId + k - 1 = nextId + l - 1 /\ k \in Nat /\ l \in Nat
      BY <1>2, <1>3, <2>1 DEF Framed
    <3> QED BY <1>1, <3>1
  <2> QED BY <1>2, <2>1 DEF OnceOnList, OnceOnFrame, Framed
<1>7. \A x : OnList(tasks, x) => ~HeldNumber(x) /\ ~OnFrames(frames, x)
  BY <1>1, <1>5 DEF Account
<1>8. /\ \A x : OnList(queued', x) <=> OnList(tasks, x) \/ OnList(queued, x)
      /\ OnceOnList(queued')
  <2>1. \A x : ~(OnList(tasks, x) /\ OnList(queued, x))
    BY <1>7 DEF HeldNumber
  <2> QED BY <1>1, <1>2, <1>3, <1>6, <2>1, ListConcat DEF Account
<1>9. /\ \A x : OnFrames(frames', x) <=> OnFrames(frames, x) \/ OnList(tasks, x)
      /\ OnceOnFrames(frames')
  <2>1. \A x : ~(OnFrames(frames, x) /\ OnFrame(frame, x))
    BY <1>4, <1>7
  <2> QED BY <1>1, <1>2, <1>3, <1>4, <1>6, <2>1, FramesAppend DEF Account
<1>10. /\ \A x : InSet(ready', x) <=> InSet(ready, x) /\ x # target
       /\ OnceInSet(ready') /\ InSet(ready, target)
  <2>1. OnceInSet(ready)
    BY DEF Account
  <2> QED BY <2>1, SetRemove
<1>11. ~Awaiting' /\ ~Announcing' /\ ~Announcing
  BY <1>2 DEF Awaiting, Announcing
<1>12. ASSUME NEW x
       PROVE  /\ InOnePlace(x)'
              /\ HeldNumber(x)' <=> OnFrames(frames, x)' \/ AwaitedNumber(x)'
              /\ HeldNumber(x)' => x \in Nat /\ x < nextId'
              /\ ~(OnFrames(frames, x)' /\ AwaitedNumber(x)')
  <2>1. /\ InOnePlace(x) /\ InOnePlace(target)
        /\ HeldNumber(x) <=> OnFrames(frames, x) \/ AwaitedNumber(x)
        /\ HeldNumber(x) => x \in Nat /\ x < nextId
        /\ ~(OnFrames(frames, x) /\ AwaitedNumber(x))
    BY DEF Account
  <2>2. AwaitedNumber(x) <=> x = target
    BY <1>11 DEF AwaitedNumber
  <2>3. ~AwaitedNumber(x)'
    BY <1>11 DEF AwaitedNumber
  <2>4. OnList(tasks, x) => ~HeldNumber(x)
    BY <1>7
  <2>5. InOnePlace(x)'
    BY <1>8, <1>10, <2>1, <2>4 DEF InOnePlace, HeldNumber
  <2>6. HeldNumber(x)' <=> OnList(tasks, x) \/ (HeldNumber(x) /\ x # target)
    BY <1>8, <1>10, <2>1 DEF InOnePlace, HeldNumber
  <2>7. x \in Nat /\ x < nextId => x < nextId'
    BY <1>1, <1>2, <1>3
  <2>8. OnFrames(frames', x) <=> OnFrames(frames, x) \/ OnList(tasks, x)
    BY <1>9
  <2> QED BY <1>5, <2>1, <2>2, <2>3, <2>5, <2>6, <2>7, <2>8
<1> QED BY <1>8, <1>9, <1>10, <1>12 DEF Account
\* Nothing moves, and the awaited number is the same.
LEMMA SameAccount ==
  ASSUME Account, UNCHANGED <<queued, reading, results, ready, frames, nextId, target, child>>,
         Awaiting' <=> Awaiting, Announcing' <=> Announcing
  PROVE  Account'
<1>1. \A x : AwaitedNumber(x)' <=> AwaitedNumber(x)
  BY DEF AwaitedNumber
<1>2. \A x : HeldNumber(x)' <=> HeldNumber(x)
  BY DEF HeldNumber
<1>3. \A x : InOnePlace(x)' <=> InOnePlace(x)
  BY DEF InOnePlace
<1> QED BY <1>1, <1>2, <1>3 DEF Account

LEMMA HoldStep ==
  ASSUME TypeInv, PhaseInv, CountInv, HoldInv, [Next]_vars
  PROVE  HoldInv'
<1> USE DEF control, scheduler, executor, channel, Goto, Offer, StartDrain
<1>a. /\ pending \in Seq(Tasks) /\ queued \in Seq(Tasks)
      /\ reading \in SUBSET Tasks /\ IsFiniteSet(reading)
      /\ results \in Seq(Results)
      /\ ready \in SUBSET Results
      /\ ~builder.reentrant => frames \in Seq(Seq(Prepared))
      /\ nextId \in Nat /\ nextId > 0 /\ child \in Nat /\ target \in Nat
  BY DEF TypeInv, DataOK, TypeOK
<1>b. builder' = builder /\ (cancelled => cancelled')
  <2>1. ASSUME Coordinator PROVE builder' = builder /\ (cancelled => cancelled')
    BY <2>1 DEF Coordinator, Sent, SendFailed, Start, Rooted, Accept, Reject, RefillEnds, Wait, Receive,
       Matched, Other, Drive, Emitted, DrainOne, DrainEnds, SerialStart, SerialRead, SerialNext
  <2>2. ASSUME Executor PROVE builder' = builder /\ (cancelled => cancelled')
    BY <2>2 DEF Executor, Read
  <2>3. ASSUME Consumer \/ CallNext \/ DropReceiver PROVE builder' = builder /\ (cancelled => cancelled')
    BY <2>3 DEF Consumer, CallNext, DropReceiver, Take, TakeEnd, CancelToken, JoinCoordinator
  <2>4. ASSUME UNCHANGED vars PROVE builder' = builder /\ (cancelled => cancelled')
    BY <2>4 DEF vars
  <2> QED BY <2>1, <2>2, <2>3, <2>4 DEF Next
<1> SUFFICES ASSUME ~cancelled', ~builder'.reentrant PROVE Account'
  BY DEF HoldInv
<1>c. Account /\ ~cancelled /\ ~builder.reentrant /\ frames \in Seq(Seq(Prepared))
  BY <1>a, <1>b DEF HoldInv
<1>d. /\ OnceOnList(queued) /\ OnceInSet(reading) /\ OnceOnList(results) /\ OnceInSet(ready)
      /\ OnceOnFrames(frames)
      /\ \A x : /\ InOnePlace(x)
                /\ HeldNumber(x) <=> OnFrames(frames, x) \/ AwaitedNumber(x)
                /\ HeldNumber(x) => x \in Nat /\ x < nextId
                /\ ~(OnFrames(frames, x) /\ AwaitedNumber(x))
  BY <1>c DEF Account
<1>1. CASE Sent
  <2>1. /\ UNCHANGED <<queued, reading, results, ready, frames, nextId, target, child>>
        /\ Awaiting' <=> Awaiting
        /\ Announcing' <=> Announcing
    BY <1>1 DEF Sent, PhaseInv, Awaiting, Announcing
  <2> QED BY <1>c, <2>1, SameAccount
<1>2. CASE SendFailed
  <2>1. /\ UNCHANGED <<queued, reading, results, ready, frames, nextId, target, child>>
        /\ Awaiting' <=> Awaiting
        /\ Announcing' <=> Announcing
    BY <1>2 DEF SendFailed, PhaseInv, Awaiting, Announcing
  <2> QED BY <1>c, <2>1, SameAccount
<1>3. CASE Start
  <2>1. /\ UNCHANGED <<queued, reading, results, ready, frames, nextId, target, child>>
        /\ Awaiting' <=> Awaiting
        /\ Announcing' <=> Announcing
    BY <1>3 DEF Start, PhaseInv, Awaiting, Announcing
  <2> QED BY <1>c, <2>1, SameAccount
<1>4. CASE Rooted
  <2>1. CASE ~RootReads \/ cancelled
    <3>1. /\ UNCHANGED <<queued, reading, results, ready, frames, nextId, target, child>>
          /\ Awaiting' <=> Awaiting
          /\ Announcing' <=> Announcing
      BY <1>4, <2>1 DEF Rooted, StopsAtRoot, PhaseInv, Awaiting, Announcing
    <3> QED BY <1>c, <3>1, SameAccount
  <2>2. CASE RootReads /\ ~cancelled
    <3>1. /\ pc' = "refill" /\ after' = "wait" /\ queued' = <<RootTask>>
          /\ UNCHANGED <<frames, target, nextId, ready, reading, results, child>>
      BY <1>4, <2>2 DEF Rooted, StopsAtRoot
    <3>2. frames = <<>> /\ ready = {} /\ target = 0 /\ outstanding = 0
      BY <1>4 DEF Rooted, PhaseInv, Early, Idle
    <3>3. reading = {} /\ results = <<>>
      <4>1. Cardinality(reading) \in Nat /\ Len(results) \in Nat
        BY <1>a, FS_CardinalityType
      <4>2. Cardinality(reading) = 0 /\ Len(results) = 0
        BY <3>2, <4>1 DEF CountInv
      <4> QED BY <1>a, <4>2, FS_EmptySet
    <3>4. \A x : ~OnList(<<>>, x) /\ ~InSet({}, x) /\ ~OnFrames(<<>>, x)
      BY DEF OnList, InSet, OnFrames
    <3>5. OnceOnList(<<>>) /\ OnceInSet({}) /\ OnceOnFrames(<<>>)
      BY DEF OnceOnList, OnceInSet, OnceOnFrames
    <3>6. OnceOnList(<<RootTask>>) /\ \A x : OnList(<<RootTask>>, x) <=> x = 0
      BY DEF OnceOnList, OnList, RootTask, Task
    <3>7. Awaiting' /\ ~Announcing'
      BY <3>1 DEF Awaiting, Announcing
    <3>8. \A x : AwaitedNumber(x)' <=> x = 0
      BY <3>1, <3>2, <3>7 DEF AwaitedNumber
    <3>9. \A x : HeldNumber(x)' <=> x = 0
      BY <3>1, <3>2, <3>3, <3>4, <3>6 DEF HeldNumber
    <3>10. \A x : InOnePlace(x)'
      BY <3>1, <3>2, <3>3, <3>4 DEF InOnePlace
    <3>11. \A x : ~OnFrames(frames', x)
      BY <3>1, <3>2, <3>4
    <3>12. 0 \in Nat /\ 0 < nextId'
      BY <1>a, <3>1
    <3>13. /\ OnceOnList(queued') /\ OnceInSet(reading') /\ OnceOnList(results') /\ OnceInSet(ready')
           /\ OnceOnFrames(frames')
      BY <3>1, <3>2, <3>3, <3>5, <3>6
    <3> QED BY <3>8, <3>9, <3>10, <3>11, <3>12, <3>13 DEF Account
  <2> QED BY <2>1, <2>2
<1>5. CASE Accept
  <2> DEFINE t == Head(queued)
  <2>1. /\ queued # <<>> /\ queued' = Tail(queued) /\ reading' = reading \cup {t}
        /\ UNCHANGED <<frames, target, nextId, ready, results, child, pc, after>>
    BY <1>5 DEF Accept, RefillGoesOn
  <2>2. /\ \A x : OnList(queued, x) <=> x = t.id \/ OnList(queued', x)
        /\ OnceOnList(queued') /\ ~OnList(queued', t.id)
    BY <1>a, <1>d, <2>1, ListTail
  <2>3. ~InSet(reading, t.id)
    BY <1>d, <2>2 DEF InOnePlace
  <2>4. /\ \A x : InSet(reading', x) <=> InSet(reading, x) \/ x = t.id
        /\ OnceInSet(reading')
    BY <1>d, <2>1, <2>3, SetAdd
  <2> HIDE DEF t
  <2>5. \A x : HeldNumber(x)' <=> HeldNumber(x)
    BY <2>1, <2>2, <2>4 DEF HeldNumber
  <2>6. ASSUME NEW x PROVE InOnePlace(x)'
    <3>1. InOnePlace(x)
      BY <1>d
    <3> QED BY <2>1, <2>2, <2>4, <3>1 DEF InOnePlace
  <2>7. \A x : AwaitedNumber(x)' <=> AwaitedNumber(x)
    BY <2>1 DEF AwaitedNumber, Awaiting, Announcing
  <2> QED BY <1>d, <2>1, <2>2, <2>4, <2>5, <2>6, <2>7 DEF Account
<1>6. CASE Reject
  BY <1>6 DEF Reject
<1>7. CASE RefillEnds
  <2>1. /\ UNCHANGED <<queued, reading, results, ready, frames, nextId, target, child>>
        /\ Awaiting' <=> Awaiting
        /\ Announcing' <=> Announcing
    BY <1>7 DEF RefillEnds, PhaseInv, Awaiting, Announcing
  <2> QED BY <1>c, <2>1, SameAccount
<1>8. CASE Wait
  <2>1. CASE \E result \in ready :
               /\ result.id = target /\ ready' = ready \ {result}
               /\ PrepareFrame(result.batch) /\ UNCHANGED <<scheduleError, cancelled>>
    <3>1. PICK r \in ready : r.id = target /\ ready' = ready \ {r} /\ PrepareFrame(r.batch)
      BY <2>1
    <3>2. Awaiting /\ UNCHANGED <<reading, results, target>>
      BY <1>8 DEF Wait, Awaiting
    <3> QED BY <1>c, <3>1, <3>2, FrameAccount
  <2>2. CASE /\ UNCHANGED <<ready, frames, nextId>>
             /\ IF scheduleError
                THEN StartDrain("report")
                ELSE Goto("receive") /\ UNCHANGED <<cancelled, queued>>
    <3>1. /\ UNCHANGED <<queued, reading, results, ready, frames, nextId, target, child>>
          /\ Awaiting' <=> Awaiting
          /\ Announcing' <=> Announcing
      BY <1>8, <2>2 DEF Wait, Awaiting, Announcing
    <3> QED BY <1>c, <3>1, SameAccount
  <2> QED BY <1>8, <2>1, <2>2 DEF Wait
<1>9. CASE Receive
  <2> DEFINE r == Head(results)
  <2>1. /\ results # <<>> /\ results' = Tail(results) /\ ready' = ready \cup {r}
        /\ pc = "receive" /\ pc' = "refill" /\ after' \in {"matched", "other"}
        /\ UNCHANGED <<frames, target, nextId, reading, queued, child>>
    BY <1>9 DEF Receive
  <2>2. /\ \A x : OnList(results, x) <=> x = r.id \/ OnList(results', x)
        /\ OnceOnList(results') /\ ~OnList(results', r.id)
    BY <1>a, <1>d, <2>1, ListTail
  <2>3. ~InSet(ready, r.id)
    BY <1>d, <2>2 DEF InOnePlace
  <2>4. /\ \A x : InSet(ready', x) <=> InSet(ready, x) \/ x = r.id
        /\ OnceInSet(ready')
    BY <1>d, <2>1, <2>3, SetAdd
  <2> HIDE DEF r
  <2>5. \A x : HeldNumber(x)' <=> HeldNumber(x)
    BY <2>1, <2>2, <2>4 DEF HeldNumber
  <2>6. ASSUME NEW x PROVE InOnePlace(x)'
    <3>1. InOnePlace(x)
      BY <1>d
    <3> QED BY <2>1, <2>2, <2>4, <3>1 DEF InOnePlace
  <2>7. \A x : AwaitedNumber(x)' <=> AwaitedNumber(x)
    BY <2>1 DEF AwaitedNumber, Awaiting, Announcing
  <2> QED BY <1>d, <2>1, <2>2, <2>4, <2>5, <2>6, <2>7 DEF Account
<1>10. CASE Matched
  <2>1. PICK r \in ready :
          /\ r.id = target /\ ready' = ready \ {r}
          /\ IF scheduleError
             THEN StartDrain("report") /\ UNCHANGED <<frames, nextId>>
             ELSE PrepareFrame(r.batch) /\ cancelled' = cancelled
    BY <1>10 DEF Matched
  <2>2. PrepareFrame(r.batch)
    BY <2>1
  <2>3. Awaiting /\ UNCHANGED <<reading, results, target>>
    BY <1>10 DEF Matched, Awaiting
  <2> QED BY <1>c, <2>1, <2>2, <2>3, FrameAccount
<1>11. CASE Other
  <2>1. /\ UNCHANGED <<queued, reading, results, ready, frames, nextId, target, child>>
        /\ Awaiting' <=> Awaiting
        /\ Announcing' <=> Announcing
    BY <1>11 DEF Other, Awaiting, Announcing
  <2> QED BY <1>c, <2>1, SameAccount
<1>12. CASE Drive
  <2>1. /\ frames # <<>> /\ pc = "drive"
        /\ UNCHANGED <<queued, reading, results, ready, nextId, target>>
    BY <1>12 DEF Drive
  <2>2. /\ \A x : OnFrames(frames, x) <=> OnFrames(Front(frames), x) \/ OnFrame(Last(frames), x)
        /\ OnceOnFrames(Front(frames)) /\ OnceOnFrame(Last(frames))
        /\ \A x : ~(OnFrames(Front(frames), x) /\ OnFrame(Last(frames), x))
    BY <1>c, <1>d, <2>1, FramesFront
  <2>3. Last(frames) \in Seq(Prepared) /\ Front(frames) \in Seq(Seq(Prepared))
    BY <1>c, <2>1, FrontFacts
  <2>4. ~Awaiting /\ ~Announcing /\ \A x : ~AwaitedNumber(x)
    BY <2>1 DEF Awaiting, Announcing, AwaitedNumber
  <2>5. (\A x : HeldNumber(x)' <=> HeldNumber(x)) /\ (\A x : InOnePlace(x)' <=> InOnePlace(x))
    BY <2>1 DEF HeldNumber, InOnePlace
  <2>6. CASE Last(frames) = <<>>
    <3>1. frames' = Front(frames) /\ pc' = "drive"
      BY <1>12, <2>6 DEF Drive
    <3>2. \A x : ~OnFrame(<<>>, x)
      BY DEF OnFrame
    <3>3. \A x : OnFrames(frames', x) <=> OnFrames(frames, x)
      BY <2>2, <2>6, <3>1, <3>2
    <3>4. \A x : ~AwaitedNumber(x)'
      BY <3>1 DEF Awaiting, Announcing, AwaitedNumber
    <3> QED BY <1>d, <2>1, <2>2, <2>4, <2>5, <3>1, <3>3, <3>4 DEF Account
  <2>7. CASE Last(frames) # <<>>
    <3> DEFINE top == Last(frames)
               front == Front(frames)
    <3>1. /\ frames' = Append(front, Tail(top)) /\ child' = Head(top).child
          /\ pc' \in {"offer", "emitted"} /\ after' = "emitted"
      BY <1>12, <2>7 DEF Drive
    <3> HIDE DEF top, front
    <3>2. /\ top \in Seq(Prepared) /\ top # <<>> /\ front \in Seq(Seq(Prepared))
          /\ \A x : OnFrames(frames, x) <=> OnFrames(front, x) \/ OnFrame(top, x)
          /\ OnceOnFrames(front) /\ OnceOnFrame(top)
          /\ \A x : ~(OnFrames(front, x) /\ OnFrame(top, x))
      BY <2>2, <2>3, <2>7 DEF top, front
    <3>3. /\ \A x : OnFrame(top, x) <=> (x # NoChild /\ x = child') \/ OnFrame(Tail(top), x)
          /\ OnceOnFrame(Tail(top)) /\ ~OnFrame(Tail(top), child')
      BY <3>1, <3>2, FrameTail
    <3>4. Tail(top) \in Seq(Prepared)
      BY <3>2, TailFacts
    <3>5. /\ \A x : OnFrames(frames', x) <=> OnFrames(front, x) \/ OnFrame(Tail(top), x)
          /\ OnceOnFrames(frames')
      BY <3>1, <3>2, <3>3, <3>4, FramesAppend
    <3>6. \A x : AwaitedNumber(x)' <=> x # NoChild /\ x = child'
      BY <3>1 DEF Awaiting, Announcing, AwaitedNumber
    <3>7. \A x : OnFrames(frames, x) <=> OnFrames(frames', x) \/ AwaitedNumber(x)'
      BY <3>2, <3>3, <3>5, <3>6
    <3>8. \A x : ~(OnFrames(frames', x) /\ AwaitedNumber(x)')
      BY <3>2, <3>3, <3>5, <3>6
    <3> QED BY <1>d, <2>1, <2>4, <2>5, <3>5, <3>7, <3>8 DEF Account
  <2> QED BY <2>6, <2>7
<1>13. CASE Emitted
  <2>1. /\ UNCHANGED <<queued, reading, results, ready, frames, nextId, child>>
        /\ pc = "emitted" /\ after = "emitted" /\ after' = after
        /\ IF child # NoChild THEN pc' = "wait" /\ target' = child ELSE pc' = "drive" /\ target' = target
    BY <1>13 DEF Emitted, PhaseInv
  <2>2. \A x : AwaitedNumber(x)' <=> AwaitedNumber(x)
    BY <2>1 DEF AwaitedNumber, Awaiting, Announcing
  <2>3. (\A x : HeldNumber(x)' <=> HeldNumber(x)) /\ (\A x : InOnePlace(x)' <=> InOnePlace(x))
    BY <2>1 DEF HeldNumber, InOnePlace
  <2> QED BY <1>d, <2>1, <2>2, <2>3 DEF Account
<1>14. CASE DrainOne \/ DrainEnds
  BY <1>c, <1>14 DEF DrainOne, DrainEnds, PhaseInv
<1>15. CASE SerialStart \/ SerialRead \/ SerialNext
  BY <1>c, <1>15 DEF SerialStart, SerialRead, SerialNext, PhaseInv
<1>16. CASE Executor
  <2>1. PICK task \in reading : Read(task)
    BY <1>16 DEF Executor
  <2>2. /\ reading' = reading \ {task}
        /\ UNCHANGED <<queued, ready, frames, nextId, target, child, pc, after>>
    BY <2>1 DEF Read
  <2>3. PICK r : r.id = task.id /\ results' = Append(results, r)
    <3>1. \/ \E nodes \in Cuts(Listing[Last(task.path)]) :
               results' = Append(results, Result(task.id, FALSE, Batch(task, nodes)))
          \/ results' = Append(results, Result(task.id, TRUE, Batch(task, <<>>)))
      BY <2>1 DEF Read
    <3>2. PICK b, batch : results' = Append(results, Result(task.id, b, batch))
      BY <3>1, Zenon
    <3>3. Result(task.id, b, batch).id = task.id
      BY DEF Result
    <3> QED BY <3>2, <3>3, Zenon
  <2>4. /\ \A x : InSet(reading', x) <=> InSet(reading, x) /\ x # task.id
        /\ OnceInSet(reading') /\ InSet(reading, task.id)
    BY <1>d, <2>2, SetRemove
  <2>5. ~OnList(results, task.id)
    BY <1>d, <2>4 DEF InOnePlace
  <2>6. /\ \A x : OnList(results', x) <=> x = task.id \/ OnList(results, x)
        /\ OnceOnList(results')
    <3>1. results \in Seq(Results \cup {r})
      BY <1>a
    <3> QED BY <1>d, <2>3, <2>5, <3>1, ListAppend
  <2>7. \A x : HeldNumber(x)' <=> HeldNumber(x)
    BY <2>2, <2>4, <2>6 DEF HeldNumber
  <2>8. ASSUME NEW x PROVE InOnePlace(x)'
    <3>1. InOnePlace(x)
      BY <1>d
    <3> QED BY <2>2, <2>4, <2>6, <3>1 DEF InOnePlace
  <2>9. \A x : AwaitedNumber(x)' <=> AwaitedNumber(x)
    BY <2>2 DEF AwaitedNumber, Awaiting, Announcing
  <2> QED BY <1>d, <2>2, <2>4, <2>6, <2>7, <2>8, <2>9 DEF Account
<1>17. CASE Consumer \/ CallNext \/ DropReceiver
  <2>1. UNCHANGED <<queued, reading, results, ready, frames, nextId, target, child, pc, after>>
    BY <1>17 DEF Consumer, CallNext, DropReceiver, Take, TakeEnd, CancelToken, JoinCoordinator
  <2> QED BY <1>c, <2>1, SameAccount DEF Awaiting, Announcing
<1>18. CASE UNCHANGED vars
  <2>1. UNCHANGED <<queued, reading, results, ready, frames, nextId, target, child, pc, after>>
    BY <1>18 DEF vars
  <2> QED BY <1>c, <2>1, SameAccount DEF Awaiting, Announcing
<1> QED BY <1>1, <1>2, <1>3, <1>4, <1>5, <1>6, <1>7, <1>8, <1>9, <1>10, <1>11, <1>12, <1>13, <1>14,
           <1>15, <1>16, <1>17, <1>18 DEF Next, Coordinator
-----------------------------------------------------------------------------
(* The count, and what the account says of the sets Held and Promised *)

LEMMA CountStep ==
  ASSUME TypeInv, PhaseInv, CountInv, HoldInv, [Next]_vars
  PROVE  CountInv'
<1> USE DEF control, scheduler, executor, channel, Goto, Offer, StartDrain
<1>a. /\ queued \in Seq(Tasks) /\ IsFiniteSet(reading) /\ results \in Seq(Results)
      /\ outstanding \in Nat /\ Cardinality(reading) \in Nat /\ Len(results) \in Nat
      /\ outstanding = Cardinality(reading) + Len(results)
  BY FS_CardinalityType DEF TypeInv, DataOK, TypeOK, CountInv
<1>1. CASE Accept
  <2> DEFINE t == Head(queued)
  <2>1. /\ queued # <<>> /\ ~cancelled /\ reading' = reading \cup {t} /\ results' = results
        /\ outstanding' = outstanding + 1 /\ pc = "refill"
    BY <1>1 DEF Accept, RefillGoesOn
  <2>2. ~builder.reentrant
    BY <2>1 DEF PhaseInv
  <2>3. \A x : ~(OnList(queued, x) /\ InSet(reading, x))
    BY <2>1, <2>2 DEF HoldInv, Account, InOnePlace
  <2>4. OnList(queued, t.id)
    BY <1>a, <2>1, ListTail
  <2>5. t \notin reading
    BY <2>3, <2>4 DEF InSet
  <2> HIDE DEF t
  <2>6. Cardinality(reading') = Cardinality(reading) + 1
    BY <1>a, <2>1, <2>5, FS_AddElement
  <2> QED BY <1>a, <2>1, <2>6 DEF CountInv
<1>2. CASE Receive \/ DrainOne
  <2>1. results # <<>> /\ results' = Tail(results) /\ reading' = reading /\ outstanding' = outstanding - 1
    BY <1>2 DEF Receive, DrainOne, AfterResult
  <2>2. Len(results') = Len(results) - 1
    BY <1>a, <2>1, TailFacts
  <2> QED BY <1>a, <2>1, <2>2 DEF CountInv
<1>3. CASE Executor
  <2>1. PICK task \in reading : Read(task)
    BY <1>3 DEF Executor
  <2>2. reading' = reading \ {task} /\ outstanding' = outstanding /\ \E r : results' = Append(results, r)
    <3>1. reading' = reading \ {task} /\ outstanding' = outstanding
      BY <2>1 DEF Read
    <3>2. \/ \E nodes \in Cuts(Listing[Last(task.path)]) :
               results' = Append(results, Result(task.id, FALSE, Batch(task, nodes)))
          \/ results' = Append(results, Result(task.id, TRUE, Batch(task, <<>>)))
      BY <2>1 DEF Read
    <3>3. \E r : results' = Append(results, r)
      BY <3>2, Zenon
    <3> QED BY <3>1, <3>3
  <2>3. PICK r : results' = Append(results, r)
    BY <2>2
  <2>4. Len(results') = Len(results) + 1
    BY <1>a, <2>3
  <2>5. Cardinality(reading') = Cardinality(reading) - 1
    BY <1>a, <2>1, <2>2, FS_RemoveElement
  <2> QED BY <1>a, <2>2, <2>4, <2>5 DEF CountInv
<1>4. CASE UNCHANGED <<outstanding, reading, results>>
  BY <1>a, <1>4 DEF CountInv
<1>5. CASE Coordinator /\ ~Accept /\ ~Receive /\ ~DrainOne
  <2>1. UNCHANGED <<outstanding, reading, results>>
    BY <1>5 DEF Coordinator, Sent, SendFailed, Start, Rooted, Reject, RefillEnds, Wait, PrepareFrame,
       Matched, Other, Drive, Emitted, DrainEnds, SerialStart, SerialRead, SerialNext
  <2> QED BY <2>1, <1>4
<1>6. CASE Consumer \/ CallNext \/ DropReceiver \/ UNCHANGED vars
  <2>1. UNCHANGED <<outstanding, reading, results>>
    BY <1>6 DEF Consumer, CallNext, DropReceiver, Take, TakeEnd, CancelToken, JoinCoordinator, vars
  <2> QED BY <2>1, <1>4
<1> QED BY <1>1, <1>2, <1>3, <1>5, <1>6 DEF Next

LEMMA ListCount ==
  ASSUME NEW S, NEW q \in Seq(S), OnceOnList(q)
  PROVE  /\ IsFiniteSet({q[i].id : i \in DOMAIN q})
         /\ Cardinality({q[i].id : i \in DOMAIN q}) = Len(q)
<1> DEFINE n == Len(q)
           f == [i \in 1 .. n |-> q[i].id]
<1>1. n \in Nat /\ DOMAIN q = 1 .. n
  OBVIOUS
<1>2. IsFiniteSet(1 .. n) /\ Cardinality(1 .. n) = n
  BY <1>1, FS_Interval
<1>3. \A i, j \in 1 .. n : f[i] = f[j] => i = j
  BY <1>1 DEF OnceOnList
<1>4. {q[i].id : i \in DOMAIN q} = {f[i] : i \in 1 .. n}
  BY <1>1
<1> DEFINE I == 1 .. n
<1> HIDE DEF f, n, I
<1>5. IsFiniteSet(I) /\ Cardinality(I) = n /\ \A i, j \in I : f[i] = f[j] => i = j
  BY <1>2, <1>3 DEF I
<1>6. IsFiniteSet({f[i] : i \in I}) /\ Cardinality({f[i] : i \in I}) = n
  BY <1>5, ImageFacts
<1> QED BY <1>4, <1>6 DEF n, I

LEMMA SetCount ==
  ASSUME NEW S, IsFiniteSet(S), OnceInSet(S)
  PROVE  IsFiniteSet({t.id : t \in S}) /\ Cardinality({t.id : t \in S}) = Cardinality(S)
<1> DEFINE f == [t \in S |-> t.id]
<1>1. \A s, t \in S : f[s] = f[t] => s = t
  BY DEF OnceInSet
<1>2. {t.id : t \in S} = {f[t] : t \in S}
  OBVIOUS
<1> HIDE DEF f
<1>3. IsFiniteSet({f[t] : t \in S}) /\ Cardinality({f[t] : t \in S}) = Cardinality(S)
  BY <1>1, ImageFacts
<1> QED BY <1>2, <1>3

LEMMA DisjointUnion ==
  ASSUME NEW S, NEW T, IsFiniteSet(S), IsFiniteSet(T), \A x : ~(x \in S /\ x \in T)
  PROVE  IsFiniteSet(S \cup T) /\ Cardinality(S \cup T) = Cardinality(S) + Cardinality(T)
<1>1. S \cap T = {}
  OBVIOUS
<1>2. /\ IsFiniteSet(S \cup T)
      /\ Cardinality(S \cup T) = Cardinality(S) + Cardinality(T) - Cardinality(S \cap T)
  BY FS_Union
<1>3. Cardinality(S) \in Nat /\ Cardinality(T) \in Nat /\ Cardinality({}) = 0
  BY FS_CardinalityType, FS_EmptySet
<1>4. Cardinality(S \cap T) = 0
  BY <1>1, <1>3
<1> QED BY <1>2, <1>3, <1>4

LEMMA AccountOfSets ==
  ASSUME TypeInv, CountInv, HoldInv
  PROVE  HoldsWhatIsPromised
<1> SUFFICES ASSUME ~cancelled /\ ~builder.reentrant
             PROVE  /\ Held = Promised
                    /\ Cardinality(Held) =
                         Len(queued) + Cardinality(reading) + Len(results) + Cardinality(ready)
                    /\ outstanding = Cardinality(reading) + Len(results)
  BY DEF HoldsWhatIsPromised
<1>0. /\ queued \in Seq(Tasks) /\ results \in Seq(Results) /\ IsFiniteSet(reading) /\ IsFiniteSet(ready)
      /\ frames \in Seq(Seq(Prepared))
  BY DEF TypeInv, DataOK
<1>1. /\ OnceOnList(queued) /\ OnceInSet(reading) /\ OnceOnList(results) /\ OnceInSet(ready)
      /\ \A x : /\ InOnePlace(x)
                /\ HeldNumber(x) <=> OnFrames(frames, x) \/ AwaitedNumber(x)
  BY DEF HoldInv, Account
<1> DEFINE Q == {queued[i].id : i \in DOMAIN queued}
           R == {t.id : t \in reading}
           S == {results[i].id : i \in DOMAIN results}
           D == {t.id : t \in ready}
<1>2. \A x : /\ x \in Q <=> OnList(queued, x)
             /\ x \in R <=> InSet(reading, x)
             /\ x \in S <=> OnList(results, x)
             /\ x \in D <=> InSet(ready, x)
  BY DEF OnList, InSet
<1>3. /\ IsFiniteSet(Q) /\ Cardinality(Q) = Len(queued)
      /\ IsFiniteSet(R) /\ Cardinality(R) = Cardinality(reading)
      /\ IsFiniteSet(S) /\ Cardinality(S) = Len(results)
      /\ IsFiniteSet(D) /\ Cardinality(D) = Cardinality(ready)
  <2>1. IsFiniteSet(Q) /\ Cardinality(Q) = Len(queued) /\ IsFiniteSet(S) /\ Cardinality(S) = Len(results)
    BY <1>0, <1>1, ListCount
  <2>2. /\ IsFiniteSet(R) /\ Cardinality(R) = Cardinality(reading)
        /\ IsFiniteSet(D) /\ Cardinality(D) = Cardinality(ready)
    BY <1>0, <1>1, SetCount
  <2> QED BY <2>1, <2>2
<1>4. Held = ((Q \cup R) \cup S) \cup D
  BY DEF Held, Range
<1> HIDE DEF Q, R, S, D
<1>5. \A x : x \in Held <=> HeldNumber(x)
  BY <1>2, <1>4 DEF HeldNumber
<1>6. Cardinality(Held) = Len(queued) + Cardinality(reading) + Len(results) + Cardinality(ready)
  <2>1. /\ \A x : ~(x \in Q /\ x \in R) /\ ~(x \in Q \cup R /\ x \in S) /\ ~(x \in (Q \cup R) \cup S /\ x \in D)
    BY <1>1, <1>2 DEF InOnePlace
  <2>2. IsFiniteSet(Q \cup R) /\ Cardinality(Q \cup R) = Cardinality(Q) + Cardinality(R)
    BY <1>3, <2>1, DisjointUnion
  <2>3. /\ IsFiniteSet((Q \cup R) \cup S)
        /\ Cardinality((Q \cup R) \cup S) = Cardinality(Q \cup R) + Cardinality(S)
    BY <1>3, <2>1, <2>2, DisjointUnion
  <2>4. Cardinality(((Q \cup R) \cup S) \cup D) = Cardinality((Q \cup R) \cup S) + Cardinality(D)
    BY <1>3, <2>1, <2>3, DisjointUnion
  <2> QED BY <1>3, <1>4, <2>2, <2>3, <2>4
<1>7. Held = Promised
  <2>1. \A x : x \in Promised <=> OnFrames(frames, x) \/ AwaitedNumber(x)
    <3>1. \A x : x \in ((UNION {{p.child : p \in Range(frames[i])} : i \in DOMAIN frames}) \ {NoChild})
                   <=> OnFrames(frames, x)
      BY DEF OnFrames, OnFrame, Range
    <3>2. \A x : x \in (IF Awaiting THEN {target} ELSE {}) \cup (IF Announcing THEN {child} ELSE {})
                   <=> AwaitedNumber(x)
      BY DEF AwaitedNumber
    <3> QED BY <3>1, <3>2 DEF Promised
  <2> QED BY <1>1, <1>5, <2>1
<1> QED BY <1>6, <1>7 DEF CountInv

-----------------------------------------------------------------------------
(* Results *)

StatefulInv == TypeInv /\ PhaseInv /\ CountInv /\ HoldInv

LEMMA InitInv ==
  ASSUME Init
  PROVE  StatefulInv
<1> USE DEF Init
<1>0. <<>> \in Seq(Tasks) /\ <<>> \in Seq(Results) /\ <<>> \in Seq(Batches) /\ <<>> \in Seq(Seq(Prepared))
      /\ Len(<<>>) = 0
  OBVIOUS
<1>1. IsFiniteSet({}) /\ Cardinality({}) = 0
  BY FS_EmptySet
<1>2. TypeOK
  <2>1. Len(pending) <= 1 /\ taken \in 0 .. Len(sent)
    BY <1>0
  <2> QED BY <2>1 DEF TypeOK, Place, NoChild
<1>3. DataOK
  BY <1>0, <1>1, RootFacts DEF DataOK
<1>4. PhaseInv
  BY DEF PhaseInv, Idle, Early
<1>5. CountInv
  BY <1>0, <1>1 DEF CountInv
<1>6. Account
  <2>1. \A x : ~OnList(<<>>, x) /\ ~InSet({}, x) /\ ~OnFrames(<<>>, x)
    BY DEF OnList, InSet, OnFrames
  <2>2. OnceOnList(<<>>) /\ OnceInSet({}) /\ OnceOnFrames(<<>>)
    BY DEF OnceOnList, OnceInSet, OnceOnFrames
  <2>3. \A x : ~AwaitedNumber(x)
    BY DEF AwaitedNumber, Awaiting, Announcing
  <2>4. \A x : ~HeldNumber(x) /\ InOnePlace(x)
    BY <2>1 DEF HeldNumber, InOnePlace
  <2> QED BY <2>1, <2>2, <2>3, <2>4 DEF Account
<1> QED BY <1>2, <1>3, <1>4, <1>5, <1>6 DEF StatefulInv, TypeInv, HoldInv

(* The invariant is inductive, and so holds in every state of every stateful walk: the    *)
(* data of StatefulScheduler are typed, its outstanding counter is the number of jobs and *)
(* results it has not received, and every directory is in one place.                      *)
THEOREM StatefulInvariant == Spec => []StatefulInv
<1>1. Init => StatefulInv
  BY InitInv
<1>2. StatefulInv /\ [Next]_vars => StatefulInv'
  <2>1. ASSUME StatefulInv, [Next]_vars PROVE StatefulInv'
    <3>1. TypeInv /\ PhaseInv /\ CountInv /\ HoldInv /\ TypeOK
      BY <2>1 DEF StatefulInv, TypeInv
    <3>2. TypeInv'
      BY <2>1, <3>1, TypeStep
    <3>3. PhaseInv'
      BY <2>1, <3>1, PhaseStep
    <3>4. CountInv'
      BY <2>1, <3>1, CountStep
    <3>5. HoldInv'
      BY <2>1, <3>1, HoldStep
    <3> QED BY <3>2, <3>3, <3>4, <3>5 DEF StatefulInv
  <2> QED BY <2>1
<1> QED BY <1>1, <1>2, PTL DEF Spec

(* For every tree, callback and builder of the stateful walk: while nothing is cancelled  *)
(* wait_for never waits for a directory that nobody reads, no directory is read twice,    *)
(* none is read that the callback pruned, and whatever ends the coordinator, no job of    *)
(* the walk, and so no callback, is left running on the executor (cancel_and_drain).      *)
THEOREM StatefulAccounts == Spec => []DirectoriesAreAccounted
<1>1. StatefulInv => DirectoriesAreAccounted
  <2>1. ASSUME StatefulInv PROVE DirectoriesAreAccounted
    <3>1. TypeInv /\ PhaseInv /\ CountInv /\ HoldInv /\ TypeOK
      BY <2>1 DEF StatefulInv, TypeInv
    <3>2. HoldsWhatIsPromised
      BY <3>1, AccountOfSets
    <3>3. ASSUME CoordinatorOver PROVE reading = {}
      <4>1. outstanding = 0
        BY <3>1, <3>3 DEF CoordinatorOver, PhaseInv, Idle
      <4>2. IsFiniteSet(reading) /\ Cardinality(reading) \in Nat /\ Len(results) \in Nat
        BY <3>1, FS_CardinalityType DEF TypeInv, DataOK
      <4>3. Cardinality(reading) = 0
        BY <3>1, <4>1, <4>2 DEF CountInv
      <4> QED BY <4>2, <4>3, FS_EmptySet
    <3> QED BY <3>1, <3>2, <3>3 DEF DirectoriesAreAccounted, JobsEndFirst
  <2> QED BY <2>1
<1> QED BY <1>1, StatefulInvariant, PTL
=============================================================================
