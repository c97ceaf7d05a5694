---------------------------- MODULE SessionProofs ----------------------------
(***************************************************************************)
(* Proofs about the two ways a scan is used again and again: the content   *)
(* visit, for every number of files and jobs, every capacity and batch     *)
(* size and every kind of call; and the session, for every tree, every     *)
(* options, every sequence of changes and every page size.                 *)
(***************************************************************************)
EXTENDS ContentVisit, WatchSession, FiniteSetTheorems, TLAPS

-----------------------------------------------------------------------------
(* Sequences and numbers *)

FilesIn(s) == {s[i] : i \in DOMAIN s}

LEMMA NoFilesIn == FilesIn(<<>>) = {}
BY DEF FilesIn

LEMMA OneFile == ASSUME NEW f PROVE FilesIn(<<f>>) = {f}
BY DEF FilesIn

LEMMA TailFacts ==
  ASSUME NEW S, NEW q \in Seq(S), q # <<>>
  PROVE  /\ Head(q) \in S /\ Tail(q) \in Seq(S) /\ Len(Tail(q)) = Len(q) - 1
         /\ FilesIn(q) = {Head(q)} \cup FilesIn(Tail(q))
<1>1. /\ Head(q) \in S /\ Tail(q) \in Seq(S) /\ Len(Tail(q)) = Len(q) - 1
      /\ \A i \in DOMAIN Tail(q) : i + 1 \in DOMAIN q /\ Tail(q)[i] = q[i + 1]
      /\ 1 \in DOMAIN q /\ q[1] = Head(q)
  OBVIOUS
<1>2. ASSUME NEW i \in DOMAIN q PROVE q[i] = Head(q) \/ \E j \in DOMAIN Tail(q) : q[i] = Tail(q)[j]
  <2>1. CASE i = 1
    BY <2>1
  <2>2. CASE i # 1
    <3>1. i - 1 \in DOMAIN Tail(q) /\ Tail(q)[i - 1] = q[i]
      BY <2>2
    <3> QED BY <3>1
  <2> QED BY <2>1, <2>2
<1>3. FilesIn(q) \subseteq {Head(q)} \cup FilesIn(Tail(q))
  BY <1>2, Zenon DEF FilesIn
<1>4. Head(q) \in FilesIn(q)
  BY <1>1, Zenon DEF FilesIn
<1>5. ASSUME NEW j \in DOMAIN Tail(q) PROVE Tail(q)[j] \in FilesIn(q)
  <2>1. j + 1 \in DOMAIN q /\ Tail(q)[j] = q[j + 1]
    BY <1>1
  <2> QED BY <2>1, Zenon DEF FilesIn
<1>6. FilesIn(Tail(q)) \subseteq FilesIn(q)
  BY <1>5, Zenon DEF FilesIn
<1> QED BY <1>1, <1>3, <1>4, <1>6

LEMMA AppendFacts ==
  ASSUME NEW S, NEW q \in Seq(S), NEW f \in S
  PROVE  /\ Append(q, f) \in Seq(S) /\ Len(Append(q, f)) = Len(q) + 1
         /\ FilesIn(Append(q, f)) = FilesIn(q) \cup {f}
<1>1. /\ Append(q, f) \in Seq(S) /\ Len(Append(q, f)) = Len(q) + 1
      /\ \A i \in DOMAIN q : i \in DOMAIN Append(q, f) /\ Append(q, f)[i] = q[i]
      /\ Len(q) + 1 \in DOMAIN Append(q, f) /\ Append(q, f)[Len(q) + 1] = f
      /\ \A i \in DOMAIN Append(q, f) : i \in DOMAIN q \/ i = Len(q) + 1
  OBVIOUS
<1>2. FilesIn(Append(q, f)) \subseteq FilesIn(q) \cup {f}
  BY <1>1 DEF FilesIn
<1>3. FilesIn(q) \subseteq FilesIn(Append(q, f)) /\ f \in FilesIn(Append(q, f))
  BY <1>1, Zenon DEF FilesIn
<1> QED BY <1>1, <1>2, <1>3

LEMMA ListedFacts ==
  ASSUME NEW n \in 0 .. FileCount, NEW q, q = [i \in 1 .. n |-> i]
  PROVE  q \in Seq(File) /\ FilesIn(q) = 1 .. n /\ (n = 0 => q = <<>>)
<1>1. n \in Nat /\ \A i \in 1 .. n : i \in File
  BY ContentAssumption DEF File
<1>2. q \in Seq(File)
  BY <1>1
<1>3. FilesIn(q) = 1 .. n
  BY <1>1 DEF FilesIn
<1>4. n = 0 => q = <<>>
  BY <1>1
<1> QED BY <1>2, <1>3, <1>4

\* Every set of jobs has a first one.
LEMMA FirstOf ==
  ASSUME NEW S \in SUBSET Worker, S # {}
  PROVE  \E n \in S : \A m \in S : n <= m
<1> DEFINE R == StrictSubsetOrdering(Worker)
           T == {1 .. n : n \in S}
<1>1. IsWellFoundedOn(R, FiniteSubsetsOf(Worker))
  BY FS_StrictSubsetOrderingWellFounded
<1>2. IsFiniteSet(Worker)
  BY FS_Interval, ContentAssumption DEF Worker
<1>3. \A n \in S : n \in Nat /\ n <= WorkerCount /\ 1 .. n \subseteq Worker
  BY ContentAssumption DEF Worker
<1>4. T \subseteq FiniteSubsetsOf(Worker) /\ T # {}
  BY <1>2, <1>3, FS_FiniteSubsetsOfFinite
<1>5. PICK x \in T : \A y \in T : ~(<<y, x>> \in R)
  <2> HIDE DEF R, T
  <2> QED BY <1>1, <1>4, WFMin
<1>6. PICK n \in S : x = 1 .. n
  OBVIOUS
<1>7. ASSUME NEW m \in S, m < n PROVE FALSE
  <2>1. 1 .. m \subseteq 1 .. n /\ n \in 1 .. n /\ n \notin 1 .. m
    BY <1>3, <1>6, <1>7 DEF Worker
  <2>2. <<1 .. m, 1 .. n>> \in R
    BY <1>3, <2>1 DEF StrictSubsetOrdering
  <2> QED BY <1>5, <1>6, <2>2
<1> QED BY <1>3, <1>7

-----------------------------------------------------------------------------
(* Type correctness *)

Working == {"reading", "skipping", "ending"}
Idle == {"none", "queued", "fetching", "closing", "over"}
Place == {"none", "queued", "fetching", "filling", "checking", "reading", "skipping", "ending", "closing", "over"}
Reason == {"none", "cancelled", "timeout"}

CallerType ==
  /\ call \in Calls
  /\ pc \in {"listing", "submitting", "discovering", "offering", "sending", "collecting", "done"}
  /\ submitted \in 0 .. WorkerCount /\ refused \in BOOLEAN /\ next \in 0 .. FileCount
  /\ end \in {"none", "cancelled", "timeout", "max_entries", "max_total_bytes"}
  /\ fault \in {"none", "walk", "broken_pipe"} /\ marred \in BOOLEAN
  /\ received \subseteq Worker /\ cancelled \in BOOLEAN /\ expired \in BOOLEAN
  /\ pc = "listing" => ~Direct
  /\ pc \in {"discovering", "offering", "sending"} => Direct
  /\ pc \in {"offering", "sending"} => next < FileCount
ChannelType == channel \in Seq(File) /\ (Direct => Len(channel) <= Capacity)
\* A job that works on a file holds it, one that is between batches holds none.
JobsType ==
  /\ place \in [Worker -> Place] /\ outcome \in [Worker -> {"none", "report", "error", "panic"}]
  /\ batch \in [Worker -> Seq(File)]
  /\ \A w \in Worker : /\ Direct => Len(batch[w]) <= BatchMax
                       /\ place[w] \in Working => batch[w] # <<>>
                       /\ place[w] \in Idle => batch[w] = <<>>
                       /\ place[w] = "none" <=> w > submitted
ReportsType ==
  /\ stopped \in [Worker -> Reason] /\ quit \subseteq Worker /\ warned \subseteq Worker
  /\ ended \subseteq File
ResultType ==
  result \in [kind : {"none", "report", "error", "panic", "full_rescan"},
              termination : {"none", "cancelled", "timeout", "max_entries", "max_total_bytes"},
              complete : BOOLEAN]
TypeInv == CallerType /\ ChannelType /\ JobsType /\ ReportsType /\ ResultType

LEMMA TypeInvImpliesTypeOK == TypeInv => TypeOK
BY DEF TypeInv, CallerType, ChannelType, JobsType, ReportsType, ResultType, TypeOK, Place, Reason

LEMMA CallIsFixed == ASSUME [Next]_vars PROVE call' = call
BY DEF Next, Caller, List, ListFails, Submit, Refuse, Submitted, Discover, WalkError, Offer, Send, SendFails,
       Collect, Return, Job, Start, Fetch, TryReceive, NothingLeft, Open, StopBefore, BatchDone, Read,
       Interrupted, End, Close, Interruption, vars, control

LEMMA ReasonType == ASSUME TypeInv PROVE StopReason \in Reason
BY DEF StopReason, Reason

LEMMA JobsBound == ASSUME TypeInv PROVE Jobs \in 0 .. WorkerCount
BY ContentAssumption DEF TypeInv, CallerType, Jobs

\* The reason of the first job, by number, that did not come to its end.
LEMMA FirstTerminationFacts ==
  ASSUME TypeInv
  PROVE  \/ FirstTermination = "none" /\ \A w \in Worker : stopped[w] = "none"
         \/ FirstTermination # "none" /\ \E w \in Worker : FirstTermination = stopped[w]
<1> DEFINE partial == {w \in Worker : stopped[w] # "none"}
           first == CHOOSE w \in partial : \A v \in partial : w <= v
<1>1. CASE partial = {}
  BY <1>1 DEF FirstTermination
<1>2. CASE partial # {}
  <2>1. \E w \in partial : \A v \in partial : w <= v
    BY <1>2, FirstOf
  <2>2. first \in partial
    BY <2>1
  <2>3. FirstTermination = stopped[first]
    BY <1>2 DEF FirstTermination
  <2> QED BY <2>2, <2>3
<1> QED BY <1>1, <1>2

LEMMA TerminationType ==
  ASSUME TypeInv PROVE Termination \in {"none", "cancelled", "timeout", "max_entries", "max_total_bytes"}
<1>1. FirstTermination \in Reason
  BY FirstTerminationFacts DEF TypeInv, ReportsType, Reason
<1> QED BY <1>1, ReasonType DEF Termination, Reason, TypeInv, CallerType

LEMMA InitType == Init => TypeInv
<1> SUFFICES ASSUME Init PROVE TypeInv
  OBVIOUS
<1> USE ContentAssumption DEF Init
<1>1. CallerType
  <2>1. pc = "submitting" \/ (pc = "listing" /\ ~Direct)
    OBVIOUS
  <2>2. submitted \in 0 .. WorkerCount /\ next \in 0 .. FileCount
    OBVIOUS
  <2> QED BY <2>1, <2>2 DEF CallerType
<1>2. ChannelType
  BY DEF ChannelType
<1>3. JobsType
  BY DEF JobsType, Place, Working, Idle
<1>4. ReportsType
  BY DEF ReportsType, Reason
<1>5. ResultType
  BY DEF ResultType, Without
<1> QED BY <1>1, <1>2, <1>3, <1>4, <1>5 DEF TypeInv

LEMMA StaysTyped ==
  ASSUME TypeInv, UNCHANGED <<call, submitted, channel, jobs, reports, ended>>, CallerType', ResultType'
  PROVE  TypeInv'
<1>1. ChannelType' /\ JobsType' /\ ReportsType'
  BY DEF TypeInv, ChannelType, JobsType, ReportsType, jobs, reports, Direct
<1> QED BY <1>1 DEF TypeInv

LEMMA CallerTyped == ASSUME TypeInv, Caller PROVE TypeInv'
<1> USE DEF Direct
<1>1. CASE List
  <2>1. next' \in 0 .. FileCount /\ channel' \in Seq(File)
    BY <1>1, ListedFacts DEF List
  <2>2. end' \in {"none", "cancelled", "timeout", "max_entries", "max_total_bytes"}
    BY <1>1, ReasonType DEF List, Reason
  <2>3. marred' \in BOOLEAN
    BY <1>1 DEF List
  <2>4. CallerType' /\ ChannelType'
    BY <1>1, <2>1, <2>2, <2>3 DEF List, TypeInv, CallerType, ChannelType
  <2>5. JobsType' /\ ReportsType' /\ ResultType'
    BY <1>1 DEF List, TypeInv, JobsType, ReportsType, ResultType, jobs, reports
  <2> QED BY <2>4, <2>5 DEF TypeInv
<1>2. CASE ListFails
  <2>1. ResultType'
    BY <1>2 DEF ListFails, ResultType, Without
  <2>2. CallerType'
    BY <1>2 DEF ListFails, TypeInv, CallerType, discovery
  <2> QED BY <1>2, <2>1, <2>2, StaysTyped DEF ListFails
<1>3. CASE Submit
  <2>1. submitted' \in Worker /\ submitted' \in 0 .. WorkerCount
    BY <1>3, JobsBound, ContentAssumption DEF Submit, TypeInv, CallerType, Worker
  <2>2. CallerType'
    BY <1>3, <2>1 DEF Submit, TypeInv, CallerType, discovery
  <2>3. /\ place' \in [Worker -> Place]
        /\ \A v \in Worker : place'[v] = IF v = submitted' THEN "queued" ELSE place[v]
    BY <1>3, <2>1 DEF Submit, TypeInv, JobsType, Place
  <2>4. submitted' = submitted + 1 /\ place[submitted'] = "none"
    BY <1>3, <2>1, ContentAssumption DEF Submit, TypeInv, JobsType, CallerType, Worker
  <2>5. \A v \in Worker : v > submitted' <=> v > submitted /\ v # submitted'
    BY <2>1, <2>4, ContentAssumption DEF TypeInv, CallerType, Worker
  <2>6. UNCHANGED <<call, channel, batch, outcome, reports, ended, result>>
    BY <1>3 DEF Submit
  <2>7. JobsType'
    BY <2>3, <2>4, <2>5, <2>6 DEF TypeInv, JobsType, Working, Idle
  <2>8. ChannelType' /\ ReportsType' /\ ResultType'
    BY <2>6 DEF TypeInv, ChannelType, ReportsType, ResultType, reports
  <2> QED BY <2>2, <2>7, <2>8 DEF TypeInv
<1>4. CASE Refuse
  <2>1. CallerType'
    BY <1>4 DEF Refuse, TypeInv, CallerType, discovery
  <2> QED BY <1>4, <2>1, StaysTyped DEF Refuse, TypeInv, ResultType
<1>5. CASE Submitted
  <2>1. CallerType'
    BY <1>5 DEF Submitted, TypeInv, CallerType, discovery
  <2> QED BY <1>5, <2>1, StaysTyped DEF Submitted, TypeInv, ResultType
<1>6. CASE Discover \/ WalkError \/ Offer \/ SendFails
  <2>1. end' \in {"none", "cancelled", "timeout", "max_entries", "max_total_bytes"}
    BY <1>6, ReasonType DEF Discover, WalkError, Offer, SendFails, EndDiscovery, BeforeNext, Reason, TypeInv, CallerType
  <2>2. cancelled' \in BOOLEAN
    BY <1>6 DEF Discover, WalkError, Offer, SendFails, EndDiscovery, TypeInv, CallerType
  <2>3. pc \in {"discovering", "offering", "sending"}
        /\ pc' \in {"discovering", "offering", "sending", "collecting"} /\ fault' \in {"none", "walk", "broken_pipe"}
    BY <1>6 DEF Discover, WalkError, Offer, SendFails, EndDiscovery, TypeInv, CallerType
  <2>7. pc' \in {"offering", "sending"} => next < FileCount
    BY <1>6, ContentAssumption DEF Discover, WalkError, Offer, SendFails, EndDiscovery, TypeInv, CallerType
  <2>4. marred' \in BOOLEAN
    BY <1>6 DEF Discover, WalkError, Offer, SendFails, TypeInv, CallerType
  <2>5. UNCHANGED <<call, submitted, refused, next, channel, jobs, reports, received, expired, ended, result>>
    BY <1>6 DEF Discover, WalkError, Offer, SendFails
  <2>6. CallerType'
    BY <2>1, <2>2, <2>3, <2>4, <2>5, <2>7 DEF TypeInv, CallerType
  <2> QED BY <2>5, <2>6, StaysTyped DEF TypeInv, ResultType
<1>7. CASE Send
  <2>1. next' \in 0 .. FileCount /\ next' \in File
    BY <1>7, ContentAssumption DEF Send, TypeInv, CallerType, File
  <2>2. CallerType'
    BY <1>7, <2>1 DEF Send, TypeInv, CallerType
  <2>3. ChannelType'
    BY <1>7, <2>1, AppendFacts, ContentAssumption DEF Send, HasRoom, TypeInv, ChannelType
  <2> QED BY <1>7, <2>2, <2>3 DEF Send, TypeInv, JobsType, ReportsType, ResultType, jobs, reports
<1>8. ASSUME NEW w \in Worker, Collect(w) PROVE TypeInv'
  <2>1. cancelled' \in BOOLEAN
    BY <1>8 DEF Collect, TypeInv, CallerType
  <2>2. CallerType'
    BY <1>8, <2>1 DEF Collect, TypeInv, CallerType, discovery
  <2> QED BY <1>8, <2>2, StaysTyped DEF Collect, TypeInv, ResultType
<1>9. CASE Return
  <2>1. ResultType'
    <3>1. Report \in [kind : {"report"}, termination : {"none", "cancelled", "timeout", "max_entries", "max_total_bytes"},
                      complete : BOOLEAN]
      BY TerminationType DEF Report
    <3>2. Verdict \in {Without("panic"), Without("error"), Report}
      BY DEF Verdict
    <3>3. Without("panic") \in [kind : {"panic"}, termination : {"none"}, complete : BOOLEAN]
          /\ Without("error") \in [kind : {"error"}, termination : {"none"}, complete : BOOLEAN]
      BY DEF Without
    <3>4. Verdict \in [kind : {"report", "error", "panic"},
                       termination : {"none", "cancelled", "timeout", "max_entries", "max_total_bytes"},
                       complete : BOOLEAN]
      <4> HIDE DEF Report
      <4> QED BY <3>1, <3>2, <3>3
    <3> QED BY <1>9, <3>4 DEF Return, ResultType
  <2>2. CallerType'
    BY <1>9 DEF Return, TypeInv, CallerType, discovery
  <2> QED BY <1>9, <2>1, <2>2, StaysTyped DEF Return
<1> QED BY <1>1, <1>2, <1>3, <1>4, <1>5, <1>6, <1>7, <1>8, <1>9 DEF Caller

-----------------------------------------------------------------------------
(* The steps of a job, by what they do to what the job holds *)

Moves(w) ==
  /\ UNCHANGED <<channel, batch, outcome, reports, cancelled, ended>>
  /\ \E p \in Place :
       /\ place' = [place EXCEPT ![w] = p]
       /\ \/ place[w] = "queued" /\ p = "fetching"
          \/ place[w] = "filling" /\ p = "checking"
          \/ place[w] = "checking" /\ batch[w] = <<>> /\ p = "fetching" /\ ~Inline
          \/ place[w] = "checking" /\ batch[w] # <<>> /\ p \in Working
          \/ place[w] \in Working /\ p \in Working

Takes(w) ==
  /\ UNCHANGED <<outcome, reports, cancelled, ended>>
  /\ channel # <<>> /\ place[w] \in {"fetching", "filling"}
  /\ \E p \in {"filling", "checking"}, b \in Seq(File) :
       /\ place' = [place EXCEPT ![w] = p] /\ batch' = [batch EXCEPT ![w] = b]
       /\ (Direct => Len(b) <= BatchMax)
       /\ FilesIn(channel) \cup FilesIn(batch[w]) = FilesIn(channel') \cup FilesIn(b)
       /\ channel' \in Seq(File) /\ Len(channel') < Len(channel)
       /\ (Inline /\ place[w] = "fetching" => channel' = <<>>)

Drops(w) ==
  /\ place[w] \in Working \cup {"checking"} /\ batch[w] # <<>>
  /\ FileDone(w) /\ UNCHANGED <<channel, stopped, quit, cancelled>>
  /\ \/ ended' = ended \cup {Head(batch[w])} /\ warned' = warned
     \/ ended' = ended /\ warned' = warned \cup {w}

Gives(w, why) ==
  /\ Closing(w, "report") /\ stopped' = [stopped EXCEPT ![w] = why]
  /\ \/ UNCHANGED <<quit, cancelled>>
     \/ quit' = quit \cup {w} /\ cancelled' = TRUE /\ why = "cancelled"
  /\ (why = "cancelled" => cancelled') /\ (why = "timeout" => expired)
  /\ warned' \in {warned, warned \cup {w}}
  /\ \/ ended' = ended
     \/ batch[w] # <<>> /\ ended' = ended \cup {Head(batch[w])}

Closes(w) ==
  /\ place[w] \in Working \cup {"queued", "fetching", "checking"} /\ channel' = channel
  /\ \/ Closing(w, "panic") /\ UNCHANGED <<reports, cancelled, ended>>
     \/ Closing(w, "error") /\ UNCHANGED <<reports, ended>> /\ cancelled' \in {cancelled, TRUE}
     \/ /\ Closing(w, "report") /\ UNCHANGED <<reports, cancelled, ended>> /\ batch[w] = <<>>
        /\ \/ place[w] = "fetching" /\ channel = <<>> /\ ~SenderOpen
           \/ place[w] = "checking" /\ Inline
     \/ \E why \in {"cancelled", "timeout"} : Gives(w, why)

LEMMA JobKinds ==
  ASSUME TypeInv, NEW w \in Worker, Job(w)
  PROVE  /\ UNCHANGED <<control, expired>>
         /\ Moves(w) \/ Takes(w) \/ Drops(w) \/ Closes(w) \/ Close(w)
<1> USE DEF Working, Place
<1>1. batch[w] \in Seq(File) /\ channel \in Seq(File)
  BY DEF TypeInv, JobsType, ChannelType
<1>2. /\ place[w] \in Working => batch[w] # <<>>
      /\ place[w] \in {"queued", "fetching"} => batch[w] = <<>>
      /\ Direct => Len(batch[w]) <= BatchMax
  BY DEF TypeInv, JobsType, Idle
<1>3. CASE Start(w)
  <2>1. CASE Panics(w)
    BY <1>3, <2>1 DEF Start, Panics, Closes
  <2>2. CASE ~Panics(w)
    BY <1>3, <2>2 DEF Start, Moves
  <2> QED BY <1>3, <2>1, <2>2 DEF Start
<1>4. CASE Fetch(w)
  <2>1. FilesIn(batch[w]) = {}
    BY <1>2, <1>4, NoFilesIn DEF Fetch
  <2>2. CASE Inline
    <3>1. FilesIn(channel') = {} /\ Len(channel') < Len(channel) /\ channel' \in Seq(File) /\ channel' = <<>>
      BY <1>1, <1>4, <2>2, NoFilesIn DEF Fetch
    <3>2. batch' = [batch EXCEPT ![w] = channel]
      BY <1>4, <2>2 DEF Fetch
    <3> QED BY <1>1, <1>4, <2>1, <2>2, <3>1, <3>2 DEF Fetch, Takes, Inline
  <2>3. CASE ~Inline
    <3> DEFINE b == <<Head(channel)>>
    <3>1. channel # <<>> /\ channel' = Tail(channel) /\ batch' = [batch EXCEPT ![w] = b]
      BY <1>4, <2>3 DEF Fetch
    <3>2. /\ Head(channel) \in File /\ channel' \in Seq(File) /\ Len(channel') = Len(channel) - 1
          /\ FilesIn(channel) = {Head(channel)} \cup FilesIn(channel')
      BY <1>1, <3>1, TailFacts
    <3>3. b \in Seq(File) /\ Len(b) = 1 /\ FilesIn(b) = {Head(channel)}
      BY <3>2, OneFile
    <3>4. Len(b) <= BatchMax /\ Len(channel') < Len(channel)
      BY <1>1, <3>2, <3>3, ContentAssumption
    <3> HIDE DEF b
    <3> QED BY <1>4, <2>1, <2>3, <3>1, <3>2, <3>3, <3>4 DEF Fetch, Takes
  <2> QED BY <1>4, <2>2, <2>3 DEF Fetch
<1>5. CASE TryReceive(w)
  <2>1. CASE Len(batch[w]) < BatchMax /\ channel # <<>>
    <3> DEFINE b == Append(batch[w], Head(channel))
    <3>1. channel' = Tail(channel) /\ batch' = [batch EXCEPT ![w] = b] /\ place' = place
      BY <1>5, <2>1 DEF TryReceive
    <3>2. /\ Head(channel) \in File /\ channel' \in Seq(File) /\ Len(channel') = Len(channel) - 1
          /\ FilesIn(channel) = {Head(channel)} \cup FilesIn(channel')
      BY <1>1, <2>1, <3>1, TailFacts
    <3>3. b \in Seq(File) /\ Len(b) = Len(batch[w]) + 1 /\ FilesIn(b) = FilesIn(batch[w]) \cup {Head(channel)}
      BY <1>1, <3>2, AppendFacts
    <3>4. Len(b) <= BatchMax /\ Len(channel') < Len(channel)
      BY <1>1, <2>1, <3>2, <3>3, ContentAssumption
    <3>5. place[w] = "filling" /\ place' = [place EXCEPT ![w] = "filling"]
      BY <1>5, <3>1 DEF TryReceive, TypeInv, JobsType
    <3> HIDE DEF b
    <3> QED BY <1>5, <2>1, <3>1, <3>2, <3>3, <3>4, <3>5 DEF TryReceive, Takes
  <2>2. CASE ~(Len(batch[w]) < BatchMax /\ channel # <<>>)
    BY <1>5, <2>2 DEF TryReceive, Moves
  <2> QED BY <1>5, <2>1, <2>2 DEF TryReceive
<1>6. CASE NothingLeft(w)
  BY <1>2, <1>6 DEF NothingLeft, Closes
<1>7. CASE Open(w)
  <2>1. ASSUME NEW p \in Working, Proceeds(w, p) PROVE Moves(w)
    BY <1>7, <2>1 DEF Open, Proceeds, Moves
  <2>2. CASE Quits(w, FALSE) /\ ended' = ended
    BY <1>7, <2>2 DEF Open, Quits, Closes, Gives
  <2>3. CASE Panics(w)
    BY <1>7, <2>3 DEF Open, Panics, Closes
  <2>4. CASE Failed(w)
    BY <1>7, <2>4 DEF Open, Failed, Closes, Drops, reports
  <2> QED BY <1>7, <2>1, <2>2, <2>3, <2>4 DEF Open, Skipping
<1>8. CASE StopBefore(w) \/ Interrupted(w)
  <2>1. StopReason \in {"cancelled", "timeout"} /\ StopsFor(w, StopReason)
    BY <1>8 DEF StopBefore, Interrupted, StopReason
  <2>2. Gives(w, StopReason)
    BY <1>8, <2>1 DEF StopBefore, Interrupted, StopsFor, Gives, StopReason
  <2> QED BY <1>8, <2>1, <2>2 DEF StopBefore, Interrupted, Closes
<1>9. CASE BatchDone(w)
  BY <1>9 DEF BatchDone, Closes, Moves
<1>10. CASE Read(w)
  <2>1. ASSUME NEW p \in Working, Proceeds(w, p) PROVE Moves(w)
    BY <1>10, <2>1 DEF Read, Proceeds, Moves
  <2>2. CASE Quits(w, FALSE) /\ ended' = ended
    BY <1>10, <2>2 DEF Read, Quits, Closes, Gives
  <2>3. CASE Panics(w)
    BY <1>10, <2>3 DEF Read, Panics, Closes
  <2>4. CASE Failed(w)
    BY <1>2, <1>10, <2>4 DEF Read, Failed, Closes, Drops, reports
  <2> QED BY <1>10, <2>1, <2>2, <2>3, <2>4 DEF Read, Skipping
<1>11. CASE End(w)
  <2>1. CASE FileDone(w) /\ ended' = ended \cup {Head(batch[w])} /\ UNCHANGED <<reports, cancelled>>
    BY <1>2, <1>11, <2>1 DEF End, Drops, reports
  <2>2. CASE Quits(w, FALSE) /\ ended' = ended \cup {Head(batch[w])}
    BY <1>2, <1>11, <2>2 DEF End, Quits, Closes, Gives
  <2>3. CASE Failed(w)
    BY <1>2, <1>11, <2>3 DEF End, Failed, Closes, Drops, reports
  <2>4. CASE Quits(w, TRUE) /\ ended' = ended
    BY <1>11, <2>4 DEF End, Quits, Closes, Gives
  <2>5. CASE Panics(w)
    BY <1>11, <2>5 DEF End, Panics, Closes
  <2> QED BY <1>11, <2>1, <2>2, <2>3, <2>4, <2>5 DEF End
<1>12. CASE Close(w)
  BY <1>12 DEF Close
<1> QED BY <1>3, <1>4, <1>5, <1>6, <1>7, <1>8, <1>9, <1>10, <1>11, <1>12
      DEF Job, Start, Fetch, TryReceive, NothingLeft, Open, StopBefore, BatchDone, Read, Interrupted, End, Close

Answer == {"none", "report", "error", "panic"}

\* What a job may turn into, for the part of the type that says what it holds.
LEMMA JobChange ==
  ASSUME TypeInv, NEW w \in Worker, UNCHANGED <<call, submitted>>, place[w] # "none",
         NEW p \in Place \ {"none"}, NEW b \in Seq(File), NEW o \in Answer,
         place' = [place EXCEPT ![w] = p], batch' = [batch EXCEPT ![w] = b],
         outcome' = [outcome EXCEPT ![w] = o],
         Direct => Len(b) <= BatchMax, p \in Working => b # <<>>, p \in Idle => b = <<>>
  PROVE  JobsType'
<1>1. place' \in [Worker -> Place] /\ \A v \in Worker : place'[v] = IF v = w THEN p ELSE place[v]
  BY DEF TypeInv, JobsType
<1>2. batch' \in [Worker -> Seq(File)] /\ \A v \in Worker : batch'[v] = IF v = w THEN b ELSE batch[v]
  BY DEF TypeInv, JobsType
<1>3. outcome' \in [Worker -> Answer]
  BY DEF TypeInv, JobsType, Answer
<1>4. ASSUME NEW v \in Worker
      PROVE  /\ Direct' => Len(batch'[v]) <= BatchMax
             /\ place'[v] \in Working => batch'[v] # <<>>
             /\ place'[v] \in Idle => batch'[v] = <<>>
             /\ place'[v] = "none" <=> v > submitted'
  <2>1. CASE v = w
    BY <1>1, <1>2, <2>1 DEF TypeInv, JobsType, Direct
  <2>2. CASE v # w
    BY <1>1, <1>2, <2>2 DEF TypeInv, JobsType, Direct
  <2> QED BY <2>1, <2>2
<1> QED BY <1>1, <1>2, <1>3, <1>4 DEF JobsType, Answer

LEMMA ClosingType ==
  ASSUME TypeInv, NEW w \in Worker, NEW how \in Answer, Closing(w, how), UNCHANGED <<call, submitted>>,
         place[w] # "none"
  PROVE  JobsType'
<1>1. <<>> \in Seq(File) /\ Len(<<>>) <= BatchMax
  BY ContentAssumption
<1> QED BY <1>1, JobChange DEF Closing, Working, Idle, Place

LEMMA JobTyped == ASSUME TypeInv, NEW w \in Worker, Job(w) PROVE TypeInv'
<1>1. UNCHANGED <<control, expired>>
  BY JobKinds
<1>2. UNCHANGED <<call, pc, submitted, refused, next, end, fault, marred, received, expired, result>>
  BY <1>1 DEF control, discovery
<1>3. ResultType' /\ (cancelled' \in BOOLEAN => CallerType')
  BY <1>2 DEF TypeInv, ResultType, CallerType, Direct
<1>4. /\ batch[w] \in Seq(File) /\ outcome[w] \in Answer /\ (Direct => Len(batch[w]) <= BatchMax)
      /\ batch = [batch EXCEPT ![w] = batch[w]] /\ outcome = [outcome EXCEPT ![w] = outcome[w]]
  BY DEF TypeInv, JobsType, Answer
<1>5. batch[w] # <<>> => Head(batch[w]) \in File /\ Tail(batch[w]) \in Seq(File) /\ Len(Tail(batch[w])) = Len(batch[w]) - 1
  BY <1>4, TailFacts
<1>6. cancelled \in BOOLEAN /\ ended \subseteq File /\ quit \subseteq Worker /\ warned \subseteq Worker
      /\ stopped \in [Worker -> Reason]
  BY DEF TypeInv, CallerType, ReportsType
<1>7. CASE Moves(w)
  <2>1. PICK p \in Place \ {"none"} : /\ place' = [place EXCEPT ![w] = p] /\ place[w] # "none"
                                      /\ p \in Working => batch[w] # <<>>
                                      /\ p \in Idle => batch[w] = <<>>
    BY <1>7 DEF Moves, TypeInv, JobsType, Working, Idle, Place
  <2>2. UNCHANGED <<channel, batch, outcome, reports, cancelled, ended>>
    BY <1>7 DEF Moves
  <2>3. JobsType'
    BY <1>2, <1>4, <2>1, <2>2, JobChange
  <2> QED BY <1>2, <1>3, <2>2, <2>3 DEF TypeInv, CallerType, ChannelType, ReportsType, reports, Direct
<1>8. CASE Takes(w)
  <2>1. PICK p \in {"filling", "checking"}, b \in Seq(File) :
          /\ place' = [place EXCEPT ![w] = p] /\ batch' = [batch EXCEPT ![w] = b]
          /\ Direct => Len(b) <= BatchMax
    BY <1>8 DEF Takes
  <2>2. UNCHANGED <<outcome, reports, cancelled, ended>> /\ place[w] # "none"
        /\ channel' \in Seq(File) /\ Len(channel') < Len(channel)
    BY <1>8 DEF Takes
  <2>3. p \in Place \ {"none"} /\ p \notin Working /\ p \notin Idle
    BY DEF Place, Working, Idle
  <2>4. JobsType'
    BY <1>2, <1>4, <2>1, <2>2, <2>3, JobChange
  <2>5. ChannelType'
    BY <1>2, <2>2, ContentAssumption DEF TypeInv, ChannelType, Direct
  <2> QED BY <1>2, <1>3, <2>2, <2>4, <2>5 DEF TypeInv, CallerType, ReportsType, reports
<1>9. CASE Drops(w)
  <2>1. /\ place[w] # "none" /\ place' = [place EXCEPT ![w] = "checking"]
        /\ batch' = [batch EXCEPT ![w] = Tail(batch[w])] /\ outcome' = outcome
    BY <1>9 DEF Drops, FileDone, Working
  <2>2. /\ UNCHANGED <<channel, stopped, quit, cancelled>> /\ batch[w] # <<>>
        /\ ended' \in {ended, ended \cup {Head(batch[w])}} /\ warned' \in {warned, warned \cup {w}}
    BY <1>9 DEF Drops
  <2>3. Direct => Len(Tail(batch[w])) <= BatchMax
    BY <1>4, <1>5, <2>2, ContentAssumption
  <2>4. JobsType'
    BY <1>2, <1>4, <1>5, <2>1, <2>2, <2>3, JobChange DEF Place, Working, Idle
  <2> QED BY <1>2, <1>3, <1>5, <1>6, <2>2, <2>4 DEF TypeInv, ChannelType, ReportsType, Direct
<1>10. CASE Closes(w)
  <2>1. place[w] # "none" /\ channel' = channel
    BY <1>10 DEF Closes, Working
  <2>2. JobsType'
    BY <1>2, <1>10, <2>1, ClosingType DEF Closes, Gives, Answer
  <2>3. cancelled' \in BOOLEAN /\ ended' \subseteq File /\ quit' \subseteq Worker /\ warned' \subseteq Worker
    BY <1>5, <1>6, <1>10 DEF Closes, Gives, reports
  <2>4. stopped' \in [Worker -> Reason]
    <3>1. \A why \in {"cancelled", "timeout"} : [stopped EXCEPT ![w] = why] \in [Worker -> Reason]
      BY <1>6 DEF Reason
    <3> QED BY <1>6, <1>10, <3>1 DEF Closes, Gives, reports
  <2> QED BY <1>2, <1>3, <2>1, <2>2, <2>3, <2>4 DEF TypeInv, ChannelType, ReportsType, Direct
<1>11. CASE Close(w)
  <2>1. place[w] = "closing" /\ place' = [place EXCEPT ![w] = "over"] /\ UNCHANGED <<channel, batch, outcome, reports, ended>>
    BY <1>11 DEF Close
  <2>2. cancelled' \in BOOLEAN
    BY <1>6, <1>11 DEF Close
  <2>3. batch[w] = <<>>
    BY <2>1 DEF TypeInv, JobsType, Idle
  <2>4. JobsType'
    BY <1>2, <1>4, <2>1, <2>3, JobChange DEF Place, Working, Idle
  <2> QED BY <1>2, <1>3, <2>1, <2>2, <2>4 DEF TypeInv, ChannelType, ReportsType, reports, Direct
<1> QED BY <1>7, <1>8, <1>9, <1>10, <1>11, JobKinds

LEMMA StepType == TypeInv /\ [Next]_vars => TypeInv'
<1> SUFFICES ASSUME TypeInv, [Next]_vars PROVE TypeInv'
  OBVIOUS
<1>1. CASE Interruption
  <2>1. cancelled' \in BOOLEAN /\ expired' \in BOOLEAN /\ UNCHANGED <<control, channel, jobs, reports, ended>>
    BY <1>1 DEF Interruption, Cancel, Expire, TypeInv, CallerType
  <2>2. CallerType' /\ ResultType'
    BY <2>1 DEF TypeInv, CallerType, ResultType, control, discovery, Direct
  <2> QED BY <2>1, <2>2, StaysTyped DEF control
<1>2. CASE UNCHANGED vars
  <2>1. CallerType' /\ ResultType'
    BY <1>2 DEF TypeInv, CallerType, ResultType, vars, control, discovery, Direct
  <2> QED BY <1>2, <2>1, StaysTyped DEF vars, control
<1> QED BY <1>1, <1>2, CallerTyped, JobTyped DEF Next

(* The states of a visit are well-formed, whatever the number of files, jobs and batches. *)
THEOREM VisitTypeCorrect == Spec => []TypeOK
<1>1. Init => TypeInv
  BY InitType
<1>2. TypeInv /\ [Next]_vars => TypeInv'
  BY StepType
<1>3. TypeInv => TypeOK
  BY TypeInvImpliesTypeOK
<1> QED BY <1>1, <1>2, <1>3, PTL DEF Spec

-----------------------------------------------------------------------------
(* What the jobs have recorded *)

OutcomeOnce == \A w \in Worker : outcome[w] = "none" <=> place[w] \notin {"closing", "over"}
ReceivedAreOver == \A w \in received : place[w] = "over"
StopsAreExplained ==
  /\ \A w \in Worker : (stopped[w] = "cancelled" => cancelled) /\ (stopped[w] = "timeout" => expired)
  /\ quit # {} => cancelled
  /\ (end = "cancelled" => cancelled) /\ (end = "timeout" => expired)
FailureCancels == Direct => \A w \in Worker : place[w] = "over" /\ outcome[w] \in {"error", "panic"} => cancelled
RecordInv == OutcomeOnce /\ ReceivedAreOver /\ StopsAreExplained /\ FailureCancels

LEMMA CallerEffect ==
  ASSUME TypeInv, Caller
  PROVE  /\ UNCHANGED <<call, batch, outcome, reports, expired, ended>> /\ (cancelled => cancelled')
         /\ \A v \in Worker : place'[v] = place[v] \/ (place[v] = "none" /\ place'[v] = "queued")
         /\ \A v \in received' : v \in received \/ place[v] = "over"
         /\ pc # "done" /\ (pc' = "done" => Return \/ ListFails)
<1> USE DEF jobs
<1>0. (cancelled \in BOOLEAN) /\ (cancelled' \in BOOLEAN)
  BY CallerTyped DEF TypeInv, CallerType
<1>1. CASE List \/ ListFails \/ Refuse \/ Submitted \/ Return
  <2>1. UNCHANGED <<call, jobs, reports, received, expired, ended>>
    BY <1>1 DEF List, ListFails, Refuse, Submitted, Return
  <2>3. cancelled' \in {cancelled, TRUE}
    BY <1>1 DEF List, ListFails, Refuse, Submitted, Return
  <2>2. pc # "done" /\ (pc' = "done" => Return \/ ListFails)
    BY <1>1 DEF List, ListFails, Refuse, Submitted, Return
  <2> QED BY <1>0, <2>1, <2>2, <2>3
<1>2. CASE Submit
  <2>1. submitted' \in Worker /\ submitted' > submitted
    BY <1>2, JobsBound, ContentAssumption DEF Submit, TypeInv, CallerType, Worker
  <2>2. \A v \in Worker : place'[v] = IF v = submitted' THEN "queued" ELSE place[v]
    BY <1>2, <2>1 DEF Submit, TypeInv, JobsType
  <2>3. place[submitted'] = "none"
    BY <2>1 DEF TypeInv, JobsType
  <2> QED BY <1>2, <2>2, <2>3 DEF Submit
<1>3. CASE Discover \/ WalkError \/ Offer \/ SendFails
  <2>1. pc # "done" /\ pc' # "done"
    BY <1>3 DEF Discover, WalkError, Offer, SendFails, EndDiscovery
  <2>3. cancelled => cancelled'
    BY <1>0, <1>3, Zenon DEF Discover, WalkError, Offer, SendFails, EndDiscovery
  <2>2. UNCHANGED <<call, jobs, reports, received, expired, ended>>
    BY <1>3 DEF Discover, WalkError, Offer, SendFails
  <2> QED BY <2>1, <2>2, <2>3
<1>4. CASE Send
  BY <1>4 DEF Send
<1>5. ASSUME NEW w \in Worker, Collect(w)
      PROVE  /\ UNCHANGED <<call, batch, outcome, place, reports, expired, ended, pc>> /\ (cancelled => cancelled')
             /\ received' = received \cup {w} /\ place[w] = "over" /\ pc = "collecting"
  BY <1>5 DEF Collect
<1> QED BY <1>1, <1>2, <1>3, <1>4, <1>5 DEF Caller

\* A job changes what it records itself, and it hands its outcome in once.
LEMMA JobEffect ==
  ASSUME TypeInv, OutcomeOnce, NEW w \in Worker, Job(w)
  PROVE  /\ UNCHANGED <<control, expired>> /\ (cancelled => cancelled')
         /\ \A v \in Worker \ {w} : /\ place'[v] = place[v] /\ batch'[v] = batch[v]
                                    /\ outcome'[v] = outcome[v] /\ stopped'[v] = stopped[v]
         /\ place[w] \notin {"none", "over"} /\ place'[w] # "none" /\ OutcomeOnce'
         /\ place'[w] = "over" => Close(w)
         /\ place[w] = "closing" => outcome'[w] = outcome[w] /\ stopped'[w] = stopped[w]
         /\ (quit' = quit \/ cancelled')
         /\ stopped'[w] = stopped[w] \/ (stopped'[w] = "cancelled" /\ cancelled') \/ (stopped'[w] = "timeout" /\ expired)
<1> USE DEF Working, Idle, Place, OutcomeOnce, reports
<1>0. /\ place \in [Worker -> Place] /\ batch \in [Worker -> Seq(File)]
      /\ outcome \in [Worker -> Answer] /\ stopped \in [Worker -> Reason]
  BY DEF TypeInv, JobsType, ReportsType, Answer
<1>1. CASE Moves(w)
  <2>1. PICK p \in Place : /\ \A v \in Worker : place'[v] = IF v = w THEN p ELSE place[v]
                           /\ p \notin {"closing", "over", "none"} /\ place[w] \notin {"closing", "over", "none"}
    BY <1>0, <1>1 DEF Moves
  <2> QED BY <1>1, <2>1, JobKinds DEF Moves
<1>2. CASE Takes(w)
  <2>1. PICK p \in {"filling", "checking"}, b \in Seq(File) : /\ \A v \in Worker : place'[v] = IF v = w THEN p ELSE place[v]
                                                /\ \A v \in Worker : batch'[v] = IF v = w THEN b ELSE batch[v]
    BY <1>0, <1>2 DEF Takes
  <2>2. place[w] \in {"fetching", "filling"} /\ UNCHANGED <<outcome, reports, cancelled, ended>>
    BY <1>2 DEF Takes
  <2> QED BY <2>1, <2>2, JobKinds
<1>3. CASE Drops(w)
  <2>1. /\ \A v \in Worker : place'[v] = IF v = w THEN "checking" ELSE place[v]
        /\ \A v \in Worker : batch'[v] = IF v = w THEN Tail(batch[w]) ELSE batch[v]
    BY <1>0, <1>3 DEF Drops, FileDone
  <2>2. place[w] \notin {"none", "closing", "over"} /\ UNCHANGED <<outcome, stopped, quit, cancelled>>
    BY <1>3 DEF Drops, FileDone
  <2> QED BY <2>1, <2>2, JobKinds
<1>4. CASE Closes(w)
  <2>1. PICK how \in Answer \ {"none"} : Closing(w, how)
    BY <1>4 DEF Closes, Gives, Answer
  <2>2. /\ \A v \in Worker : place'[v] = IF v = w THEN "closing" ELSE place[v]
        /\ \A v \in Worker : batch'[v] = IF v = w THEN <<>> ELSE batch[v]
        /\ \A v \in Worker : outcome'[v] = IF v = w THEN how ELSE outcome[v]
    BY <1>0, <2>1 DEF Closing
  <2>3. place[w] \notin {"none", "closing", "over"}
    BY <1>4 DEF Closes
  <2>4. OutcomeOnce'
    BY <2>2, <2>3
  <2>5. /\ (cancelled => cancelled') /\ (quit' = quit \/ cancelled')
        /\ \/ stopped' = stopped
           \/ \E why \in {"cancelled", "timeout"} :
                /\ stopped' = [stopped EXCEPT ![w] = why]
                /\ (why = "cancelled" => cancelled') /\ (why = "timeout" => expired)
    <3>1. CASE UNCHANGED reports /\ cancelled' \in {cancelled, TRUE}
      BY <3>1 DEF TypeInv, CallerType
    <3>2. ASSUME NEW why \in {"cancelled", "timeout"}, Gives(w, why)
          PROVE  /\ (cancelled => cancelled') /\ (quit' = quit \/ cancelled')
                 /\ stopped' = [stopped EXCEPT ![w] = why]
                 /\ (why = "cancelled" => cancelled') /\ (why = "timeout" => expired)
      BY <3>2 DEF Gives
    <3> QED BY <1>4, <3>1, <3>2 DEF Closes
  <2>6. /\ \A v \in Worker \ {w} : stopped'[v] = stopped[v]
        /\ stopped'[w] = stopped[w] \/ (stopped'[w] = "cancelled" /\ cancelled') \/ (stopped'[w] = "timeout" /\ expired)
    BY <1>0, <2>5
  <2> HIDE DEF OutcomeOnce
  <2> QED BY <2>2, <2>3, <2>4, <2>5, <2>6, JobKinds
<1>5. CASE Close(w)
  <2>1. \A v \in Worker : place'[v] = IF v = w THEN "over" ELSE place[v]
    BY <1>0, <1>5 DEF Close
  <2>2. place[w] = "closing" /\ UNCHANGED <<batch, outcome, reports>> /\ (cancelled => cancelled')
    BY <1>5 DEF Close
  <2> QED BY <1>5, <2>1, <2>2, JobKinds
<1> HIDE DEF OutcomeOnce, reports
<1> QED BY <1>1, <1>2, <1>3, <1>4, <1>5, JobKinds

LEMMA DiscoveryStops ==
  ASSUME TypeInv, Caller, end' # end
  PROVE  (end' = "cancelled" => cancelled) /\ (end' = "timeout" => expired)
<1>1. CASE List
  BY <1>1 DEF List, StopReason
<1>2. CASE Discover \/ WalkError \/ Offer \/ SendFails
  BY <1>2 DEF Discover, WalkError, Offer, SendFails, EndDiscovery, BeforeNext, StopReason
<1> QED BY <1>1, <1>2 DEF Caller, ListFails, Submit, Refuse, Submitted, Send, Collect, Return, discovery

LEMMA InitRecord == Init => RecordInv
BY DEF Init, RecordInv, OutcomeOnce, ReceivedAreOver, StopsAreExplained, FailureCancels

LEMMA StepRecord == TypeInv /\ RecordInv /\ [Next]_vars => RecordInv'
<1> SUFFICES ASSUME TypeInv, RecordInv, [Next]_vars PROVE RecordInv'
  OBVIOUS
<1> USE DEF RecordInv
<1>1. CASE Caller
  <2>1. OutcomeOnce'
    BY <1>1, CallerEffect DEF OutcomeOnce
  <2>2. ReceivedAreOver'
    <3>1. \A v \in received' : v \in Worker /\ place[v] = "over"
      BY <1>1, CallerEffect, CallerTyped DEF ReceivedAreOver, TypeInv, CallerType
    <3>2. \A v \in Worker : place[v] = "over" => place'[v] = "over"
      BY <1>1, CallerEffect
    <3> QED BY <3>1, <3>2 DEF ReceivedAreOver
  <2>3. StopsAreExplained'
    <3>1. (end' = "cancelled" => cancelled') /\ (end' = "timeout" => expired')
      BY <1>1, CallerEffect, DiscoveryStops DEF StopsAreExplained
    <3> QED BY <1>1, <3>1, CallerEffect DEF StopsAreExplained, reports
  <2>4. FailureCancels'
    BY <1>1, CallerEffect DEF FailureCancels, OutcomeOnce, Direct
  <2> QED BY <2>1, <2>2, <2>3, <2>4
<1>2. ASSUME NEW w \in Worker, Job(w) PROVE RecordInv'
  <2>1. UNCHANGED <<call, received, end, expired>> /\ (cancelled => cancelled') /\ OutcomeOnce'
    BY <1>2, JobEffect DEF control, discovery
  <2>2. ReceivedAreOver'
    BY <1>2, <2>1, JobEffect DEF ReceivedAreOver, TypeInv, CallerType
  <2>3. StopsAreExplained'
    BY <1>2, <2>1, JobEffect DEF StopsAreExplained
  <2>4. FailureCancels'
    <3>1. Close(w) /\ Direct /\ outcome[w] \in {"error", "panic"} => cancelled'
      BY DEF Close
    <3>2. Close(w) => outcome' = outcome
      BY DEF Close
    <3> QED BY <1>2, <2>1, <3>1, <3>2, JobEffect DEF FailureCancels, Direct
  <2> QED BY <2>1, <2>2, <2>3, <2>4
<1>3. CASE Interruption \/ UNCHANGED vars
  <2>1. UNCHANGED <<control, channel, jobs, reports, ended>> /\ (cancelled => cancelled') /\ (expired => expired')
    BY <1>3 DEF Interruption, Cancel, Expire, vars
  <2> QED BY <2>1 DEF control, discovery, jobs, reports, OutcomeOnce, ReceivedAreOver, StopsAreExplained, FailureCancels, Direct
<1> QED BY <1>1, <1>2, <1>3 DEF Next

(* In direct mode a job cancels the others before it hands in a panic, so that nobody    *)
(* reads on: for every number of jobs and files.                                         *)
THEOREM VisitPanicCancels == Spec => []DirectPanicCancels
<1>1. Init => TypeInv /\ RecordInv
  BY InitType, InitRecord
<1>2. TypeInv /\ RecordInv /\ [Next]_vars => (TypeInv /\ RecordInv)'
  BY StepType, StepRecord
<1>3. RecordInv => DirectPanicCancels
  BY DEF RecordInv, FailureCancels, DirectPanicCancels, PanicCancels
<1> QED BY <1>1, <1>2, <1>3, PTL DEF Spec

-----------------------------------------------------------------------------
(* Where the call is, and where the files are *)

Discovering == {"discovering", "offering", "sending"}
\* A discovery that came to its end without a reason to stop found every file.
Covered ==
  (pc = "collecting" \/ (pc = "submitting" /\ ~Direct))
  /\ end = "none" /\ fault = "none" /\ ~marred /\ ~refused => next = FileCount
PhaseInv ==
  /\ pc = "listing" => submitted = 0
  /\ pc \in Discovering => submitted > 0
  /\ pc = "collecting" /\ ~refused /\ submitted = 0 => next = 0
  /\ Covered
  /\ pc # "done" => result.kind = "none"
  /\ pc = "done" => \A w \in Worker : place[w] \in {"none", "over"}

\* The one job of an inline call takes the whole queue.
InlineTakesAll == Inline => \A w \in Worker : place[w] \in {"filling", "checking"} \cup Working => channel = <<>>
\* A job that ends its loop in order found the channel empty and closed.
Drained ==
  \A w \in Worker :
    outcome[w] = "report" /\ stopped[w] = "none" => channel = <<>> /\ ~SenderOpen /\ pc # "listing"
Spoiled == warned # {} \/ \E w \in Worker : stopped[w] # "none" \/ outcome[w] \in {"error", "panic"}
Seen == FilesIn(channel) \cup ended \cup UNION {FilesIn(batch[w]) : w \in Worker}
\* No file is lost, unless a report or an outcome says so.
NothingLost == Spoiled \/ 1 .. next \subseteq Seen
FlowInv == InlineTakesAll /\ Drained /\ NothingLost

LEMMA AllReceived ==
  ASSUME TypeInv, RecordInv, Cardinality(received) = submitted
  PROVE  \A w \in Worker : place[w] \in {"none", "over"}
<1>1. submitted \in Nat /\ submitted <= WorkerCount /\ WorkerCount \in Nat
  BY ContentAssumption DEF TypeInv, CallerType
<1>2. received \subseteq 1 .. submitted
  <2>1. \A w \in received : w \in Worker /\ place[w] = "over"
    BY DEF TypeInv, CallerType, RecordInv, ReceivedAreOver
  <2>2. \A w \in received : w \in Worker /\ ~(w > submitted)
    BY <2>1 DEF TypeInv, JobsType
  <2> QED BY <1>1, <2>2 DEF Worker
<1>3. received = 1 .. submitted
  <2>1. IsFiniteSet(1 .. submitted) /\ Cardinality(1 .. submitted) = submitted
    BY <1>1, FS_Interval
  <2> QED BY <1>2, <2>1, FS_Subset
<1>4. ASSUME NEW w \in Worker PROVE place[w] \in {"none", "over"}
  <2>1. CASE w > submitted
    BY <2>1 DEF TypeInv, JobsType
  <2>2. CASE ~(w > submitted)
    <3>1. w \in received
      BY <1>1, <1>3, <2>2 DEF Worker
    <3> QED BY <3>1 DEF RecordInv, ReceivedAreOver
  <2> QED BY <2>1, <2>2
<1> QED BY <1>4

LEMMA NoJobYet ==
  ASSUME TypeInv, submitted = 0, NEW w \in Worker
  PROVE  place[w] = "none" /\ batch[w] = <<>>
<1>1. w > submitted
  BY ContentAssumption DEF Worker
<1> QED BY <1>1 DEF TypeInv, JobsType, Idle

LEMMA InitPhase == Init => PhaseInv
BY DEF Init, PhaseInv, Covered, Discovering, Direct, Without

LEMMA CallerPhase == ASSUME TypeInv, RecordInv, PhaseInv, Caller PROVE PhaseInv'
<1> USE DEF PhaseInv, Covered, Discovering, Direct
<1>0. (marred \in BOOLEAN) /\ (refused \in BOOLEAN) /\ submitted \in Nat /\ next \in Nat /\ next <= FileCount
  BY ContentAssumption DEF TypeInv, CallerType
<1>1. CASE List
  <2>1. pc = "listing" /\ pc' = "submitting" /\ UNCHANGED <<call, submitted, refused, fault, result>>
    BY <1>1 DEF List
  <2>2. end' = "none" /\ ~marred' => next' = FileCount
    BY <1>1, ContentAssumption DEF List
  <2> QED BY <2>1, <2>2
<1>2. CASE ListFails
  <2>1. \A w \in Worker : place'[w] = "none"
    BY <1>2, NoJobYet DEF ListFails, jobs
  <2> QED BY <1>2, <2>1 DEF ListFails
<1>3. CASE Submit
  <2>1. pc = "submitting" /\ submitted' > 0 /\ UNCHANGED <<call, refused, next, end, fault, marred, result>>
    BY <1>0, <1>3 DEF Submit, discovery
  <2>2. pc' = "submitting" \/ (pc' = "collecting" /\ ~Direct)
    BY <1>3 DEF Submit, Inline
  <2> QED BY <1>0, <2>1, <2>2
<1>4. CASE Refuse
  BY <1>4 DEF Refuse
<1>5. CASE Submitted
  <2>1. pc = "submitting" /\ submitted = Jobs /\ UNCHANGED <<call, submitted, refused, next, end, fault, marred, result>>
    BY <1>5 DEF Submitted, discovery
  <2>2. pc' = IF Direct THEN "discovering" ELSE "collecting"
    BY <1>5 DEF Submitted
  <2>3. CASE Direct
    BY <2>1, <2>2, <2>3, ContentAssumption DEF Jobs
  <2>4. CASE ~Direct
    <3>1. submitted = 0 => next = 0
      BY <1>0, <2>1, <2>4, ContentAssumption DEF Jobs
    <3> QED BY <2>1, <2>2, <2>4, <3>1
  <2> QED BY <2>3, <2>4
<1>6. CASE Discover \/ WalkError \/ Offer \/ SendFails
  <2>1. /\ pc \in Discovering /\ UNCHANGED <<call, submitted, refused, next, result>>
        /\ marred' = marred \/ pc' \notin {"submitting", "collecting"}
    BY <1>6 DEF Discover, WalkError, Offer, SendFails, EndDiscovery
  <2>2. \/ pc' \in Discovering
        \/ pc' = "collecting" /\ (end' # "none" \/ fault' # "none" \/ next = FileCount)
    BY <1>6 DEF Discover, WalkError, Offer, SendFails, EndDiscovery
  <2> QED BY <1>0, <2>1, <2>2
<1>7. CASE Send
  BY <1>7 DEF Send
<1>8. ASSUME NEW w \in Worker, Collect(w) PROVE PhaseInv'
  BY <1>8 DEF Collect, discovery
<1>9. CASE Return
  <2>1. pc' = "done" /\ place' = place
    BY <1>9 DEF Return, jobs
  <2> QED BY <1>9, <2>1, AllReceived DEF Return
<1> QED BY <1>1, <1>2, <1>3, <1>4, <1>5, <1>6, <1>7, <1>8, <1>9 DEF Caller

LEMMA StepPhase == TypeInv /\ RecordInv /\ PhaseInv /\ [Next]_vars => PhaseInv'
<1> SUFFICES ASSUME TypeInv, RecordInv, PhaseInv, [Next]_vars PROVE PhaseInv'
  OBVIOUS
<1>1. ASSUME NEW w \in Worker, Job(w) PROVE PhaseInv'
  <2>1. UNCHANGED control /\ place[w] \notin {"none", "over"}
    BY <1>1, JobEffect DEF RecordInv
  <2> QED BY <2>1 DEF control, discovery, PhaseInv, Covered, Direct
<1>2. CASE Interruption \/ UNCHANGED vars
  <2>1. UNCHANGED <<control, jobs>>
    BY <1>2 DEF Interruption, vars
  <2> QED BY <2>1 DEF control, discovery, jobs, PhaseInv, Covered, Direct
<1> QED BY <1>1, <1>2, CallerPhase DEF Next

\* After the call has returned nothing changes.
LEMMA QuietStep ==
  ASSUME TypeInv, RecordInv, PhaseInv, pc = "done", [Next]_vars
  PROVE  UNCHANGED vars
<1>1. ~Caller
  BY CallerEffect
<1>2. \A w \in Worker : ~Job(w)
  BY JobEffect DEF PhaseInv, RecordInv
<1>3. ~Interruption
  BY DEF Interruption
<1> QED BY <1>1, <1>2, <1>3 DEF Next

LEMMA InitFlow == Init => FlowInv
<1> SUFFICES ASSUME Init PROVE FlowInv
  OBVIOUS
<1>1. next = 0 /\ 1 .. 0 = {}
  BY DEF Init
<1> QED BY <1>1 DEF Init, FlowInv, InlineTakesAll, Drained, NothingLost, Working

\* Only the listing and the discovery put files into the channel.
LEMMA CallerChannel ==
  ASSUME TypeInv, PhaseInv, Caller
  PROVE  /\ List \/ Send \/ UNCHANGED <<channel, next>>
         /\ ~SenderOpen /\ pc # "listing" => ~SenderOpen' /\ ~Send /\ ~List
         /\ pc' # "listing" \/ pc = "listing"
<1>1. CASE List \/ Send
  BY <1>1 DEF List, Send, SenderOpen, TypeInv, CallerType
<1>5. CASE ListFails \/ Submit \/ Refuse \/ Submitted \/ Return
  <2>1. UNCHANGED <<channel, next, call>> /\ pc \in {"listing", "submitting", "collecting"}
    BY <1>5 DEF ListFails, Submit, Refuse, Submitted, Return, discovery
  <2>2. pc' # "listing" /\ (pc # "submitting" => pc' \in {"collecting", "done"})
    BY <1>5 DEF ListFails, Submit, Refuse, Submitted, Return
  <2> QED BY <2>1, <2>2 DEF SenderOpen, Direct, Send, List
<1>2. CASE Discover \/ WalkError \/ Offer \/ SendFails
  <2>1. pc \in Discovering /\ pc' # "listing" /\ UNCHANGED <<channel, next>>
    BY <1>2 DEF Discover, WalkError, Offer, SendFails, EndDiscovery, Discovering
  <2>2. Direct
    BY <2>1 DEF TypeInv, CallerType, Discovering
  <2> QED BY <2>1, <2>2 DEF SenderOpen, Discovering
<1>3. ASSUME NEW w \in Worker, Collect(w)
      PROVE  UNCHANGED <<channel, next, call, pc>> /\ pc = "collecting"
  BY <1>3 DEF Collect, discovery
<1>4. CASE \E w \in Worker : Collect(w)
  BY <1>3, <1>4 DEF SenderOpen, Direct, Send, List
<1> QED BY <1>1, <1>2, <1>4, <1>5 DEF Caller

LEMMA CallerFlow == ASSUME TypeInv, RecordInv, PhaseInv, FlowInv, Caller PROVE FlowInv'
<1>0. /\ UNCHANGED <<call, batch, outcome, ended, stopped, warned>>
      /\ \A v \in Worker : place'[v] \in {place[v], "queued"}
  BY CallerEffect DEF reports
<1>1. Spoiled => Spoiled'
  BY <1>0 DEF Spoiled
<1>2. CASE List
  <2>1. \A w \in Worker : place[w] = "none" /\ outcome[w] = "none"
    BY <1>2, NoJobYet DEF List, PhaseInv, RecordInv, OutcomeOnce
  <2>2. InlineTakesAll' /\ Drained'
    BY <1>0, <2>1 DEF InlineTakesAll, Drained, Working
  <2>3. FilesIn(channel') = 1 .. next'
    BY <1>2, ListedFacts DEF List
  <2> QED BY <2>2, <2>3 DEF FlowInv, NothingLost, Seen
<1>3. CASE Send
  <2>1. Direct /\ Direct'
    BY <1>0, <1>3 DEF Send, TypeInv, CallerType, Direct
  <2>2. InlineTakesAll'
    BY <2>1 DEF InlineTakesAll, Inline
  <2>3. Drained'
    <3>1. SenderOpen
      BY <1>3, <2>1 DEF Send, SenderOpen
    <3> QED BY <1>0, <3>1 DEF FlowInv, Drained
  <2>4. next \in Nat /\ next' = next + 1 /\ next' \in File /\ channel' = Append(channel, next') /\ channel \in Seq(File)
    BY <1>3, ContentAssumption DEF Send, TypeInv, CallerType, ChannelType, File
  <2>5. FilesIn(channel') = FilesIn(channel) \cup {next'}
    BY <2>4, AppendFacts
  <2>6. 1 .. next' = (1 .. next) \cup {next'}
    BY <2>4
  <2>7. NothingLost'
    BY <1>0, <1>1, <2>5, <2>6 DEF FlowInv, NothingLost, Seen
  <2> QED BY <2>2, <2>3, <2>7 DEF FlowInv
<1>4. CASE UNCHANGED <<channel, next>>
  <2>1. Inline' = Inline
    BY <1>0, <1>4 DEF Inline, Jobs, Direct
  <2>2. InlineTakesAll'
    BY <1>0, <1>4, <2>1 DEF FlowInv, InlineTakesAll, Working
  <2>3. Drained'
    BY <1>0, <1>4, CallerChannel DEF FlowInv, Drained
  <2>4. Seen' = Seen
    BY <1>0, <1>4 DEF Seen
  <2>5. NothingLost'
    BY <1>1, <1>4, <2>4 DEF FlowInv, NothingLost
  <2> QED BY <2>2, <2>3, <2>5 DEF FlowInv
<1> QED BY <1>2, <1>3, <1>4, CallerChannel

\* What a job held is taken over by its next state, or a report says that it is not.
LEMMA JobKeepsFiles ==
  ASSUME TypeInv, RecordInv, NEW w \in Worker, Job(w)
  PROVE  Spoiled' \/ (~Spoiled /\ Seen \subseteq Seen')
<1>0. /\ batch \in [Worker -> Seq(File)] /\ outcome \in [Worker -> Answer] /\ stopped \in [Worker -> Reason]
  BY DEF TypeInv, JobsType, ReportsType, Answer
<1>1. \A v \in Worker \ {w} : batch'[v] = batch[v]
  BY JobEffect DEF RecordInv
<1>2. Spoiled => Spoiled'
  <2>1. warned \subseteq warned'
    BY JobKinds DEF Moves, Takes, Drops, Closes, Close, Gives, reports
  <2>2. \A v \in Worker : stopped[v] # "none" => stopped'[v] # "none"
    BY JobEffect DEF RecordInv
  <2>3. \A v \in Worker : outcome[v] \in {"error", "panic"} => outcome'[v] = outcome[v]
    BY JobEffect DEF RecordInv, OutcomeOnce
  <2> QED BY <2>1, <2>2, <2>3 DEF Spoiled
<1>3. ASSUME FilesIn(channel) \cup ended \cup FilesIn(batch[w]) \subseteq FilesIn(channel') \cup ended' \cup FilesIn(batch'[w])
      PROVE  Seen \subseteq Seen'
  BY <1>1, <1>3 DEF Seen
<1>4. CASE Moves(w)
  BY <1>2, <1>3, <1>4 DEF Moves
<1>5. CASE Takes(w)
  <2>1. PICK b \in Seq(File) : batch' = [batch EXCEPT ![w] = b]
                               /\ FilesIn(channel) \cup FilesIn(batch[w]) = FilesIn(channel') \cup FilesIn(b)
    BY <1>5 DEF Takes
  <2>2. batch'[w] = b /\ ended' = ended
    BY <1>0, <1>5, <2>1 DEF Takes
  <2> QED BY <1>2, <1>3, <2>1, <2>2
<1>6. CASE Drops(w)
  <2>1. CASE ended' = ended \cup {Head(batch[w])}
    <3>1. batch'[w] = Tail(batch[w]) /\ channel' = channel /\ batch[w] # <<>>
      BY <1>0, <1>6 DEF Drops, FileDone
    <3>2. FilesIn(batch[w]) = {Head(batch[w])} \cup FilesIn(batch'[w])
      BY <1>0, <3>1, TailFacts
    <3> QED BY <1>2, <1>3, <2>1, <3>1, <3>2
  <2>2. CASE warned' = warned \cup {w}
    BY <2>2 DEF Spoiled
  <2> QED BY <1>6, <2>1, <2>2 DEF Drops
<1>7. CASE Closes(w)
  <2>1. CASE Closing(w, "panic") \/ Closing(w, "error")
    <3>1. outcome'[w] \in {"error", "panic"}
      BY <1>0, <2>1 DEF Closing
    <3> QED BY <3>1 DEF Spoiled
  <2>2. ASSUME NEW why \in {"cancelled", "timeout"}, Gives(w, why) PROVE Spoiled'
    <3>1. stopped'[w] # "none"
      BY <1>0, <2>2 DEF Gives
    <3> QED BY <3>1 DEF Spoiled
  <2>3. CASE Closing(w, "report") /\ batch[w] = <<>> /\ UNCHANGED <<reports, cancelled, ended>>
    BY <1>0, <1>2, <1>3, <1>7, <2>3 DEF Closes, Closing
  <2> QED BY <1>7, <2>1, <2>2, <2>3 DEF Closes
<1>8. CASE Close(w)
  BY <1>2, <1>3, <1>8 DEF Close
<1> QED BY <1>4, <1>5, <1>6, <1>7, <1>8, JobKinds

LEMMA JobFlow == ASSUME TypeInv, RecordInv, PhaseInv, FlowInv, NEW w \in Worker, Job(w) PROVE FlowInv'
<1> USE DEF RecordInv
<1>0. /\ UNCHANGED <<call, pc, next, submitted>> /\ place[w] \notin {"none", "over"}
      /\ \A v \in Worker \ {w} : place'[v] = place[v] /\ outcome'[v] = outcome[v] /\ stopped'[v] = stopped[v]
  BY JobEffect DEF control, discovery
<1>1. pc # "listing"
  BY <1>0, NoJobYet DEF PhaseInv
<1>2. Inline' = Inline /\ SenderOpen' = SenderOpen
  BY <1>0 DEF Inline, Jobs, SenderOpen, Direct
<1>3. channel = <<>> => channel' = <<>>
  BY JobKinds DEF Moves, Takes, Drops, Closes, Close
<1>4. NothingLost'
  BY <1>0, JobKeepsFiles DEF FlowInv, NothingLost
<1>5. /\ place \in [Worker -> Place] /\ outcome \in [Worker -> Answer] /\ stopped \in [Worker -> Reason]
      /\ batch \in [Worker -> Seq(File)]
  BY DEF TypeInv, JobsType, ReportsType, Answer
<1>6. InlineTakesAll'
  <2>1. ASSUME Inline, place'[w] \in {"filling", "checking"} \cup Working PROVE channel' = <<>>
    <3>1. CASE Moves(w)
      <4>1. place[w] \in {"filling", "checking"} \cup Working
        BY <1>5, <2>1, <3>1 DEF Moves, Working
      <4> QED BY <1>3, <2>1, <4>1 DEF FlowInv, InlineTakesAll
    <3>2. CASE Takes(w)
      <4>1. place[w] = "filling" => channel = <<>>
        BY <2>1 DEF FlowInv, InlineTakesAll
      <4> QED BY <2>1, <3>2, <4>1 DEF Takes
    <3>3. CASE Drops(w)
      <4>1. place[w] \in {"filling", "checking"} \cup Working
        BY <3>3 DEF Drops
      <4> QED BY <1>3, <2>1, <4>1 DEF FlowInv, InlineTakesAll
    <3>4. CASE Closes(w) \/ Close(w)
      <4>1. place'[w] \in {"closing", "over"}
        BY <1>5, <3>4 DEF Closes, Close, Gives, Closing
      <4> QED BY <2>1, <4>1 DEF Working
    <3> QED BY <3>1, <3>2, <3>3, <3>4, JobKinds
  <2>2. ASSUME Inline, NEW v \in Worker \ {w}, place'[v] \in {"filling", "checking"} \cup Working
        PROVE  channel' = <<>>
    BY <1>0, <1>3, <2>2 DEF FlowInv, InlineTakesAll
  <2> QED BY <1>2, <2>1, <2>2 DEF InlineTakesAll
<1>7. Drained'
  <2>1. ASSUME outcome'[w] = "report", stopped'[w] = "none" PROVE channel' = <<>> /\ ~SenderOpen
    <3>1. CASE outcome[w] = "report"
      <4>1. stopped[w] = "none"
        BY <2>1, JobEffect
      <4> QED BY <1>3, <3>1, <4>1 DEF FlowInv, Drained
    <3>2. CASE outcome[w] # "report"
      <4>1. Closes(w)
        BY <2>1, <3>2, JobKinds DEF Moves, Takes, Drops, FileDone, Close
      <4>2. ~(Closing(w, "panic") \/ Closing(w, "error"))
        BY <1>5, <2>1 DEF Closing
      <4>3. \A why \in {"cancelled", "timeout"} : ~Gives(w, why)
        BY <1>5, <2>1 DEF Gives
      <4>4. CASE place[w] = "fetching" /\ channel = <<>> /\ ~SenderOpen
        BY <1>3, <4>4
      <4>5. CASE place[w] = "checking" /\ Inline
        BY <1>3, <4>5 DEF FlowInv, InlineTakesAll, Inline, SenderOpen
      <4> QED BY <4>1, <4>2, <4>3, <4>4, <4>5 DEF Closes
    <3> QED BY <3>1, <3>2
  <2>2. ASSUME NEW v \in Worker \ {w}, outcome'[v] = "report", stopped'[v] = "none"
        PROVE  channel' = <<>> /\ ~SenderOpen
    BY <1>0, <1>3, <2>2 DEF FlowInv, Drained
  <2> QED BY <1>0, <1>1, <1>2, <2>1, <2>2 DEF Drained
<1> QED BY <1>4, <1>6, <1>7 DEF FlowInv

LEMMA StepFlow == TypeInv /\ RecordInv /\ PhaseInv /\ FlowInv /\ [Next]_vars => FlowInv'
<1> SUFFICES ASSUME TypeInv, RecordInv, PhaseInv, FlowInv, [Next]_vars PROVE FlowInv'
  OBVIOUS
<1>1. CASE Interruption \/ UNCHANGED vars
  <2>1. UNCHANGED <<control, channel, jobs, reports, ended>>
    BY <1>1 DEF Interruption, vars
  <2>2. UNCHANGED <<call, pc, next, channel, place, batch, outcome, stopped, warned, ended>>
    BY <2>1 DEF control, discovery, jobs, reports
  <2> QED BY <2>2 DEF FlowInv, InlineTakesAll, Inline, Jobs, Drained, SenderOpen, NothingLost, Spoiled, Seen, Direct
<1> QED BY <1>1, CallerFlow, JobFlow DEF Next

-----------------------------------------------------------------------------
(* What the call answers *)

VisitInv == TypeInv /\ RecordInv /\ PhaseInv /\ FlowInv
AnswerInv == CompleteReport /\ StopIsReported /\ FailureReachesCaller

\* With nothing to report, every file was read to its verdict.
LEMMA AllAreRead ==
  ASSUME VisitInv, pc = "collecting", Cardinality(received) = submitted,
         ~refused, fault = "none", end = "none", ~marred, ~Spoiled
  PROVE  ended = File
<1> USE DEF VisitInv
<1>1. next = FileCount
  BY DEF PhaseInv, Covered
<1>2. ASSUME NEW w \in Worker PROVE batch[w] = <<>>
  BY AllReceived DEF TypeInv, JobsType, Idle
<1>3. UNION {FilesIn(batch[w]) : w \in Worker} = {}
  BY <1>2, NoFilesIn
<1>4. CASE submitted = 0
  <2>1. File = {}
    BY <1>1, <1>4 DEF PhaseInv, File
  <2> QED BY <2>1 DEF TypeInv, ReportsType
<1>5. CASE submitted # 0
  <2>1. 1 \in Worker /\ ~(1 > submitted)
    BY <1>5, ContentAssumption DEF Worker, TypeInv, CallerType
  <2>2. place[1] = "over"
    BY <2>1, AllReceived DEF TypeInv, JobsType
  <2>3. outcome[1] = "report" /\ stopped[1] = "none"
    <3>1. outcome[1] \in {"report", "error", "panic"}
      BY <2>1, <2>2 DEF RecordInv, OutcomeOnce, TypeInv, JobsType
    <3> QED BY <2>1, <3>1 DEF Spoiled
  <2>4. channel = <<>>
    BY <2>1, <2>3 DEF FlowInv, Drained
  <2>5. 1 .. FileCount \subseteq ended
    BY <1>1, <1>3, <2>4, NoFilesIn DEF FlowInv, NothingLost, Seen
  <2> QED BY <2>5 DEF File, TypeInv, ReportsType
<1> QED BY <1>4, <1>5

LEMMA ReportIsRight ==
  ASSUME VisitInv, pc = "collecting", Cardinality(received) = submitted, Verdict.kind = "report"
  PROVE  /\ Verdict.complete => ended = File
         /\ quit # {} => Verdict.termination = "cancelled"
         /\ Verdict.termination = "cancelled" => cancelled
         /\ Verdict.termination = "timeout" => expired
         /\ \A w \in Worker : outcome[w] # "panic" /\ outcome[w] # "error"
         /\ ~refused /\ fault = "none"
<1> USE DEF VisitInv
<1>1. /\ \A w \in Worker : outcome[w] # "panic" /\ outcome[w] # "error"
      /\ ~refused /\ fault = "none" /\ Verdict = Report
  <2>1. Without("panic").kind = "panic" /\ Without("error").kind = "error"
    BY DEF Without
  <2> HIDE DEF Report, Without
  <2> QED BY <2>1 DEF Verdict
<1>2. /\ Verdict.termination = Termination
      /\ Verdict.complete => Termination = "none" /\ ~marred /\ warned = {}
  BY <1>1 DEF Report
<1>3. \/ FirstTermination = "none" /\ \A w \in Worker : stopped[w] = "none"
      \/ \E w \in Worker : FirstTermination = stopped[w]
  BY FirstTerminationFacts
<1>4. (Termination = "cancelled" => cancelled) /\ (Termination = "timeout" => expired)
  BY <1>3 DEF Termination, StopReason, RecordInv, StopsAreExplained
<1>5. quit # {} => Termination = "cancelled"
  BY DEF Termination
<1>6. ASSUME Termination = "none", ~marred, warned = {} PROVE ended = File
  <2>1. end = "none" /\ FirstTermination = "none"
    BY <1>6 DEF Termination
  <2>2. \A w \in Worker : stopped[w] = "none"
    BY <2>1, FirstTerminationFacts
  <2>3. ~Spoiled
    BY <1>1, <1>6, <2>2 DEF Spoiled
  <2> QED BY <1>1, <1>6, <2>1, <2>3, AllAreRead
<1> QED BY <1>1, <1>2, <1>4, <1>5, <1>6

LEMMA StepAnswer == VisitInv /\ AnswerInv /\ [Next]_vars => AnswerInv'
<1> SUFFICES ASSUME VisitInv, AnswerInv, [Next]_vars PROVE AnswerInv'
  OBVIOUS
<1> USE DEF VisitInv
<1>1. CASE pc = "done"
  <2>1. UNCHANGED vars
    BY <1>1, QuietStep
  <2>2. UNCHANGED <<pc, refused, fault, result, ended, quit, cancelled, expired, outcome>>
    BY <2>1 DEF vars, control, discovery, jobs, reports
  <2> QED BY <2>2 DEF AnswerInv, CompleteReport, StopIsReported, FailureReachesCaller
<1>2. CASE pc' # "done"
  <2>1. result'.kind = "none"
    BY <1>2, StepPhase DEF PhaseInv
  <2> QED BY <1>2, <2>1 DEF AnswerInv, CompleteReport, StopIsReported, FailureReachesCaller
<1>3. CASE pc # "done" /\ pc' = "done"
  <2>1. Return \/ ListFails
    <3>1. Caller
      <4>1. \A w \in Worker : ~Job(w)
        BY <1>3, JobKinds DEF control
      <4> QED BY <1>3, <4>1 DEF Next, Interruption, control, vars
    <3> QED BY <1>3, <3>1, CallerEffect
  <2>2. CASE ListFails
    <3>1. result'.kind # "report" /\ outcome' = outcome
      BY <2>2 DEF ListFails, Without, jobs
    <3>2. \A w \in Worker : outcome[w] = "none"
      BY <2>2, NoJobYet DEF ListFails, PhaseInv, RecordInv, OutcomeOnce
    <3> QED BY <3>1, <3>2 DEF AnswerInv, CompleteReport, StopIsReported, FailureReachesCaller
  <2>3. CASE Return
    <3>1. /\ pc = "collecting" /\ Cardinality(received) = submitted /\ result' = Verdict
          /\ UNCHANGED <<refused, fault, ended, quit, cancelled, expired, outcome>>
      BY <2>3 DEF Return, discovery, jobs, reports
    <3>2. (\E w \in Worker : outcome[w] = "panic") => Verdict.kind = "panic"
      BY DEF Verdict, Without
    <3>3. CompleteReport' /\ StopIsReported'
      BY <3>1, ReportIsRight DEF CompleteReport, StopIsReported
    <3>4. FailureReachesCaller'
      BY <3>1, <3>2, ReportIsRight DEF FailureReachesCaller
    <3> QED BY <3>3, <3>4 DEF AnswerInv
  <2> QED BY <2>1, <2>2, <2>3
<1> QED BY <1>1, <1>2, <1>3

LEMMA VisitInvariant == Spec => [](VisitInv /\ AnswerInv)
<1>1. Init => VisitInv /\ AnswerInv
  <2>1. Init => AnswerInv
    BY DEF Init, AnswerInv, CompleteReport, StopIsReported, FailureReachesCaller, Without
  <2> QED BY <2>1, InitType, InitRecord, InitPhase, InitFlow DEF VisitInv
<1>2. VisitInv /\ AnswerInv /\ [Next]_vars => (VisitInv /\ AnswerInv)'
  <2>1. VisitInv /\ [Next]_vars => VisitInv'
    BY StepType, StepRecord, StepPhase, StepFlow DEF VisitInv
  <2> QED BY <2>1, StepAnswer
<1> QED BY <1>1, <1>2, PTL DEF Spec

(* However many files, jobs and batches: a report that says `complete` stands for every  *)
(* selected file read to its verdict, none left in the channel or in a batch.            *)
THEOREM CompleteMeansAll == Spec => []CompleteReport
BY VisitInvariant, PTL DEF AnswerInv

(* A partial report names a reason that holds, and a visitor's Quit goes before the      *)
(* others, whatever the order in which the jobs stop.                                    *)
THEOREM VisitStopIsReported == Spec => []StopIsReported
BY VisitInvariant, PTL DEF AnswerInv

(* No panic, no error and no refused job is turned into a report, in whatever order the  *)
(* outcomes arrive and whatever else went wrong.                                         *)
THEOREM VisitFailureIsReturned == Spec => []FailureReachesCaller
BY VisitInvariant, PTL DEF AnswerInv

(* The three together: what a job comes to is what the caller is told.                   *)
THEOREM VisitOutcomeIsReported == Spec => []OutcomeIsReported
BY VisitStopIsReported, VisitFailureIsReturned, VisitPanicCancels, PTL DEF OutcomeIsReported

-----------------------------------------------------------------------------
(* Positions in a manifest *)

Before(files, p) == {q \in Present(files) : Rank[q] < Rank[p]}

\* A manifest lists finitely many files.
LEMMA PresentFinite ==
  ASSUME NEW files
  PROVE  /\ IsFiniteSet(Present(files)) /\ Cardinality(Present(files)) \in Nat
         /\ Present(files) \subseteq Path
<1>1. Present(files) \in SUBSET Path
  BY DEF Present
<1>2. IsFiniteSet(Present(files))
  BY <1>1, WatchAssumption, FS_Subset
<1> QED BY <1>1, <1>2, FS_CardinalityType

\* A file stands before the end of its manifest.
LEMMA PositionType ==
  ASSUME NEW files, NEW p \in Present(files)
  PROVE  Position(files, p) \in 0 .. Cardinality(Present(files)) - 1
<1>1. Position(files, p) = Cardinality(Before(files, p))
  BY DEF Position, Before
<1>2. Before(files, p) \subseteq Present(files) /\ p \notin Before(files, p)
  BY PresentFinite, WatchAssumption DEF Before
<1>3. Before(files, p) \in SUBSET Present(files) /\ Before(files, p) # Present(files)
  BY <1>2
<1>4. /\ IsFiniteSet(Before(files, p))
      /\ Cardinality(Before(files, p)) <= Cardinality(Present(files))
      /\ Cardinality(Before(files, p)) # Cardinality(Present(files))
  BY <1>3, PresentFinite, FS_Subset
<1>5. Cardinality(Before(files, p)) \in Nat
  BY <1>4, FS_CardinalityType
<1> QED BY <1>1, <1>4, <1>5, PresentFinite

\* Positions follow the sorted order of the paths.
LEMMA PositionGrows ==
  ASSUME NEW files, NEW p \in Present(files), NEW q \in Present(files), Rank[q] < Rank[p]
  PROVE  Position(files, q) < Position(files, p)
<1>1. /\ Position(files, p) = Cardinality(Before(files, p))
      /\ Position(files, q) = Cardinality(Before(files, q))
  BY DEF Position, Before
<1>2. \A r \in Present(files) : Rank[r] \in Int
  BY PresentFinite, WatchAssumption
<1>3. /\ Before(files, q) \in SUBSET Before(files, p)
      /\ q \in Before(files, p) /\ q \notin Before(files, q)
  BY <1>2 DEF Before
<1>4. Before(files, p) \in SUBSET Present(files)
  BY DEF Before
<1>5. IsFiniteSet(Before(files, p))
  BY <1>4, PresentFinite, FS_Subset
<1>6. /\ IsFiniteSet(Before(files, q))
      /\ Cardinality(Before(files, q)) <= Cardinality(Before(files, p))
      /\ Cardinality(Before(files, q)) # Cardinality(Before(files, p))
  BY <1>3, <1>5, FS_Subset
<1>7. Cardinality(Before(files, q)) \in Nat /\ Cardinality(Before(files, p)) \in Nat
  BY <1>5, <1>6, FS_CardinalityType
<1> QED BY <1>1, <1>6, <1>7

\* No two files have one position.
LEMMA PositionInjective ==
  ASSUME NEW files, NEW p \in Present(files), NEW q \in Present(files),
         Position(files, p) = Position(files, q)
  PROVE  p = q
<1>1. p \in Path /\ q \in Path /\ Rank[p] \in Nat /\ Rank[q] \in Nat
  BY PresentFinite, WatchAssumption
<1>2. Position(files, p) \in Int /\ Position(files, q) \in Int
  BY PositionType, PresentFinite
<1>3. ~(Rank[p] < Rank[q]) /\ ~(Rank[q] < Rank[p])
  BY <1>2, PositionGrows
<1>4. Rank[p] = Rank[q]
  BY <1>1, <1>3
<1> QED BY <1>1, <1>4, WatchAssumption

\* Every position below the number of files is that of a file.
LEMMA PositionOnto ==
  ASSUME NEW files, NEW n \in 0 .. Cardinality(Present(files)) - 1
  PROVE  \E p \in Present(files) : Position(files, p) = n
<1> DEFINE S == Present(files)
           T == 0 .. Cardinality(S) - 1
           f == [p \in S |-> Position(files, p)]
<1>1. \A p \in S : Position(files, p) \in T
  BY PositionType
<1>2. \A p, q \in S : Position(files, p) = Position(files, q) => p = q
  BY PositionInjective
<1>3. Cardinality(S) \in Nat /\ IsFiniteSet(S)
  BY PresentFinite
<1>4. IsFiniteSet(T) /\ Cardinality(T) = Cardinality(S)
  <2>1. Cardinality(S) - 1 \in Int /\ 0 \in Int
    BY <1>3
  <2>2. IsFiniteSet(T) /\ Cardinality(T) = IF 0 > Cardinality(S) - 1 THEN 0 ELSE Cardinality(S) - 1 - 0 + 1
    BY <2>1, FS_Interval
  <2> QED BY <2>2, <1>3
<1>5. f \in Injection(S, T)
  BY <1>1, <1>2 DEF Injection, IsInjective
<1>6. f \in Surjection(S, T)
  BY <1>4, <1>5, FS_Injection
<1>7. \E p \in S : f[p] = n
  BY <1>6 DEF Surjection
<1> QED BY <1>7

OnPage(files, from, to, s) ==
  \E p \in Present(files) : Position(files, p) \in from .. to - 1 /\ s = <<p, files[p]>>

\* What is on a page, without the set construction.
LEMMA SliceMember ==
  ASSUME NEW files, NEW from, NEW to, NEW s
  PROVE  s \in Slice(files, from, to) <=> OnPage(files, from, to, s)
<1> DEFINE R == {q \in Present(files) : Position(files, q) \in from .. to - 1}
<1>1. s \in Slice(files, from, to) <=> \E p \in R : s = <<p, files[p]>>
  BY Zenon DEF Slice
<1> QED BY <1>1, Zenon DEF OnPage

\* A page holds as many files as there are left, up to its size.
LEMMA PageLength ==
  ASSUME NEW files, NEW from \in 0 .. Cardinality(Present(files))
  PROVE  LET n == Cardinality(Present(files))
             to == IF from + PageSize < n THEN from + PageSize ELSE n
         IN Cardinality(Slice(files, from, from + PageSize)) = to - from
<1> DEFINE S == Present(files)
           n == Cardinality(S)
           to == IF from + PageSize < n THEN from + PageSize ELSE n
           P == Slice(files, from, from + PageSize)
           T == from .. to - 1
           f == [s \in P |-> Position(files, s[1])]
<1>1. n \in Nat /\ from \in Nat /\ from <= n /\ PageSize \in Nat /\ PageSize > 0
  BY PresentFinite, WatchAssumption
<1>2. /\ to \in Nat /\ from <= to
      /\ \A k \in 0 .. n - 1 : k \in from .. (from + PageSize) - 1 <=> k \in T
  BY <1>1
<1>3. IsFiniteSet(T) /\ Cardinality(T) = to - from
  <2>1. to - 1 \in Int /\ from \in Int
    BY <1>1, <1>2
  <2>2. IsFiniteSet(T) /\ Cardinality(T) = IF from > to - 1 THEN 0 ELSE to - 1 - from + 1
    BY <2>1, FS_Interval
  <2> QED BY <2>2, <1>1, <1>2
<1>m. \A s : s \in P <=> \E p \in S : /\ Position(files, p) \in from .. (from + PageSize) - 1
                                       /\ s = <<p, files[p]>>
  <2>1. \A s : s \in P <=> OnPage(files, from, from + PageSize, s)
    BY SliceMember, Zenon
  <2>2. \A s : OnPage(files, from, from + PageSize, s)
                <=> \E p \in S : Position(files, p) \in from .. (from + PageSize) - 1 /\ s = <<p, files[p]>>
    BY Zenon DEF OnPage
  <2> QED BY <2>1, <2>2, Zenon
<1>4. \A s \in P : /\ s[1] \in S /\ s = <<s[1], files[s[1]]>>
                   /\ Position(files, s[1]) \in from .. (from + PageSize) - 1
  <2> SUFFICES ASSUME NEW s \in P
               PROVE  /\ s[1] \in S /\ s = <<s[1], files[s[1]]>>
                      /\ Position(files, s[1]) \in from .. (from + PageSize) - 1
    OBVIOUS
  <2>1. PICK p \in S : Position(files, p) \in from .. (from + PageSize) - 1 /\ s = <<p, files[p]>>
    BY <1>m, Zenon
  <2>2. s[1] = p
    BY <2>1
  <2> QED BY <2>1, <2>2, Zenon
<1>5. \A s \in P : Position(files, s[1]) \in T
  BY <1>2, <1>4, PositionType
<1>6. \A s, t \in P : Position(files, s[1]) = Position(files, t[1]) => s = t
  <2> SUFFICES ASSUME NEW s \in P, NEW t \in P, Position(files, s[1]) = Position(files, t[1])
               PROVE  s = t
    OBVIOUS
  <2>1. s[1] = t[1]
    BY <1>4, PositionInjective
  <2> QED BY <2>1, <1>4
<1>7. f \in Injection(P, T)
  <2>1. f \in [P -> T] /\ \A s \in P : f[s] = Position(files, s[1])
    BY <1>5, Zenon
  <2>2. \A s, t \in P : f[s] = f[t] => s = t
    BY <2>1, <1>6, Zenon
  <2> HIDE DEF f, P, T
  <2> QED BY <2>1, <2>2 DEF Injection, IsInjective
<1>8. ASSUME NEW k \in T PROVE \E s \in P : f[s] = k
  <2>1. k \in 0 .. n - 1 /\ k \in from .. (from + PageSize) - 1
    BY <1>1, <1>2
  <2>2. PICK p \in S : Position(files, p) = k
    BY <2>1, PositionOnto
  <2>3. <<p, files[p]>> \in P
    BY <2>1, <2>2, <1>m, Zenon
  <2>4. f[<<p, files[p]>>] = Position(files, <<p, files[p]>>[1])
    BY <2>3, Zenon
  <2>5. <<p, files[p]>>[1] = p
    OBVIOUS
  <2> QED BY <2>2, <2>3, <2>4, <2>5, Zenon
<1>9. f \in Surjection(P, T)
  BY <1>5, <1>8 DEF Surjection
<1>10. IsFiniteSet(P) /\ (Cardinality(P) = Cardinality(T) <=> f \in Surjection(P, T))
  BY <1>3, <1>7, FS_Injection
<1> QED BY <1>3, <1>9, <1>10

\* A page read at the offset extends what has been read by exactly its files.
LEMMA SliceGrows ==
  ASSUME NEW files, NEW from \in 0 .. Cardinality(Present(files))
  PROVE  LET page == Slice(files, from, from + PageSize)
             to == from + Cardinality(page)
         IN /\ Cardinality(page) \in Nat /\ to <= Cardinality(Present(files))
            /\ Slice(files, 0, from) \cup page = Slice(files, 0, to)
<1> DEFINE n == Cardinality(Present(files))
           page == Slice(files, from, from + PageSize)
           to == from + Cardinality(page)
<1>1. n \in Nat /\ from \in Nat /\ from <= n /\ PageSize \in Nat /\ PageSize > 0
  BY PresentFinite, WatchAssumption
<1>2. to = IF from + PageSize < n THEN from + PageSize ELSE n
  BY <1>1, PageLength
<1>3. Cardinality(page) \in Nat /\ to <= n
  BY <1>1, <1>2, PageLength
<1>4. \A p \in Present(files) :
        Position(files, p) \in 0 .. to - 1
          <=> Position(files, p) \in 0 .. from - 1 \/ Position(files, p) \in from .. (from + PageSize) - 1
  <2> SUFFICES ASSUME NEW p \in Present(files)
               PROVE  Position(files, p) \in 0 .. to - 1
                       <=> \/ Position(files, p) \in 0 .. from - 1
                           \/ Position(files, p) \in from .. (from + PageSize) - 1
    OBVIOUS
  <2>1. Position(files, p) \in 0 .. n - 1
    BY PositionType
  <2> QED BY <2>1, <1>1, <1>2
<1>5. ASSUME NEW s
      PROVE  s \in Slice(files, 0, to) <=> s \in Slice(files, 0, from) \/ s \in page
  <2>1. \A a, b : s \in Slice(files, a, b) <=> OnPage(files, a, b, s)
    BY SliceMember, Zenon
  <2>2. OnPage(files, 0, to, s) <=> OnPage(files, 0, from, s) \/ OnPage(files, from, from + PageSize, s)
    <3>1. ASSUME OnPage(files, 0, to, s)
          PROVE  OnPage(files, 0, from, s) \/ OnPage(files, from, from + PageSize, s)
      <4>1. PICK p \in Present(files) : Position(files, p) \in 0 .. to - 1 /\ s = <<p, files[p]>>
        BY <3>1, Zenon DEF OnPage
      <4>2. CASE Position(files, p) \in 0 .. from - 1
        BY <4>1, <4>2, Zenon DEF OnPage
      <4>3. CASE Position(files, p) \in from .. (from + PageSize) - 1
        BY <4>1, <4>3, Zenon DEF OnPage
      <4> QED BY <4>1, <4>2, <4>3, <1>4, Zenon
    <3>2. ASSUME OnPage(files, 0, from, s) PROVE OnPage(files, 0, to, s)
      <4>1. PICK p \in Present(files) : Position(files, p) \in 0 .. from - 1 /\ s = <<p, files[p]>>
        BY <3>2, Zenon DEF OnPage
      <4>2. Position(files, p) \in 0 .. to - 1
        BY <4>1, <1>4, Zenon
      <4> QED BY <4>1, <4>2, Zenon DEF OnPage
    <3>3. ASSUME OnPage(files, from, from + PageSize, s) PROVE OnPage(files, 0, to, s)
      <4>1. PICK p \in Present(files) :
              Position(files, p) \in from .. (from + PageSize) - 1 /\ s = <<p, files[p]>>
        BY <3>3, Zenon DEF OnPage
      <4>2. Position(files, p) \in 0 .. to - 1
        BY <4>1, <1>4, Zenon
      <4> QED BY <4>1, <4>2, Zenon DEF OnPage
    <3> QED BY <3>1, <3>2, <3>3, Zenon
  <2> QED BY <2>1, <2>2, Zenon
<1> QED BY <1>3, <1>5, Zenon

-----------------------------------------------------------------------------
(* The tree, the events and the budget *)

Disk0 == Files \cup {Nothing, Folder}
TreeOK ==
  /\ disk \in [Path -> Disk0] /\ clock \in 0 .. MaxChanges
  /\ budget \in Budgets /\ budget.changes + clock <= MaxChanges
  /\ pending \in Plans

\* The environment spends its budget, never more.
LEMMA SpendFacts ==
  ASSUME budget \in Budgets, NEW what \in {"changes", "cancels", "rescans", "reads"}, Spend(what)
  PROVE  /\ budget' \in Budgets /\ budget'.changes <= budget.changes
         /\ what = "changes" => budget'.changes = budget.changes - 1 /\ budget.changes > 0
<1>1. CASE what = "changes"
  BY <1>1, WatchAssumption DEF Spend, Budgets
<1>2. CASE what = "cancels"
  BY <1>2, WatchAssumption DEF Spend, Budgets
<1>3. CASE what = "rescans"
  BY <1>3, WatchAssumption DEF Spend, Budgets
<1>4. CASE what = "reads"
  BY <1>4, WatchAssumption DEF Spend, Budgets
<1> QED BY <1>1, <1>2, <1>3, <1>4

LEMMA EventsType ==
  ASSUME NEW events \in Plans, NEW p \in Path
  PROVE  Rescan(events) \in Plans /\ Changed(events, p) \in Plans /\ Removed(events, p) \in Plans
BY DEF Plans, Rescan, Changed, Removed

\* One change: the clock and the budget of changes stay within the bound together.
LEMMA ChangeKeepsTree ==
  ASSUME TreeOK, NEW after, NEW events, Change(after, events),
         budget.changes > 0 => after \in [Path -> Disk0], events \in Plans
  PROVE  TreeOK'
<1>1. /\ budget' \in Budgets /\ budget'.changes = budget.changes - 1 /\ budget.changes > 0
  BY SpendFacts DEF Change, TreeOK
<1>2. clock' = clock + 1 /\ disk' = after /\ pending' = events
  BY DEF Change
<1>3. budget.changes \in Nat /\ MaxChanges \in Nat
  BY WatchAssumption DEF TreeOK, Budgets
<1>4. clock' \in 0 .. MaxChanges /\ budget'.changes + clock' <= MaxChanges
  BY <1>1, <1>2, <1>3 DEF TreeOK
<1>5. disk' \in [Path -> Disk0]
  BY <1>1, <1>2
<1> QED BY <1>1, <1>2, <1>4, <1>5 DEF TreeOK

LEMMA NewFileType ==
  ASSUME TreeOK, budget.changes > 0, NEW c \in Content
  PROVE  NewFile(c) \in Files /\ NewFile(c) \in Disk0
<1>1. budget.changes \in Nat /\ MaxChanges \in Nat
  BY WatchAssumption DEF TreeOK, Budgets
<1>2. clock + 2 \in 1 .. MaxChanges + 1
  BY <1>1 DEF TreeOK
<1>3. NewFile(c) \in Files
  BY <1>2 DEF NewFile, Files
<1> QED BY <1>3 DEF Disk0

LEMMA GoneType ==
  ASSUME TreeOK, NEW d
  PROVE  Gone(d) \in [Path -> Disk0]
BY DEF TreeOK, Gone, Disk0

\* Every kind of change.
LEMMA TreeChangesKeepTree ==
  ASSUME TreeOK, TreeChanges
  PROVE  TreeOK'
<1>t. disk \in [Path -> Disk0] /\ pending \in Plans /\ Nothing \in Disk0 /\ Folder \in Disk0
  BY DEF TreeOK, Disk0
<1>1. ASSUME NEW p \in Path, NEW c \in Content, WriteFile(p, c) PROVE TreeOK'
  <2> DEFINE after == [disk EXCEPT ![p] = NewFile(c)]
  <2>1. Change(after, Changed(pending, p))
    BY <1>1 DEF WriteFile
  <2>2. budget.changes > 0 => after \in [Path -> Disk0]
    BY <1>t, NewFileType
  <2>3. Changed(pending, p) \in Plans
    BY <1>t, EventsType
  <2> QED BY <2>1, <2>2, <2>3, ChangeKeepsTree
<1>2. ASSUME NEW p \in Path, NEW c \in Content, MoveIn(p, c) PROVE TreeOK'
  <2> DEFINE after == [q \in Path |-> IF q = p THEN Folder
                                      ELSE IF q \in Below(p) THEN NewFile(c) ELSE disk[q]]
  <2>1. Change(after, Changed(pending, p))
    BY <1>2, Zenon DEF MoveIn
  <2>2. budget.changes > 0 => after \in [Path -> Disk0]
    BY <1>t, NewFileType
  <2>3. Changed(pending, p) \in Plans
    BY <1>t, EventsType
  <2> QED BY <2>1, <2>2, <2>3, ChangeKeepsTree
<1>3. ASSUME NEW p \in Path, NEW q \in Path, RenameFile(p, q) PROVE TreeOK'
  <2> DEFINE after == [disk EXCEPT ![p] = Nothing, ![q] = NewFile(disk[p].content)]
  <2>1. Change(after, Changed(Removed(pending, p), q)) /\ disk[p] \notin {Nothing, Folder}
    BY <1>3 DEF RenameFile, IsFile
  <2>2. disk[p] \in Files
    BY <1>t, <2>1 DEF Disk0
  <2>3. disk[p].content \in Content
    BY <2>2 DEF Files
  <2>4. budget.changes > 0 => after \in [Path -> Disk0]
    BY <1>t, <2>3, NewFileType
  <2>5. Changed(Removed(pending, p), q) \in Plans
    BY <1>t, EventsType
  <2> QED BY <2>1, <2>4, <2>5, ChangeKeepsTree
<1>4. ASSUME NEW p \in Path, RemoveFile(p) PROVE TreeOK'
  <2> DEFINE after == [disk EXCEPT ![p] = Nothing]
  <2>1. Change(after, Removed(pending, p))
    BY <1>4 DEF RemoveFile
  <2>2. after \in [Path -> Disk0] /\ Removed(pending, p) \in Plans
    BY <1>t, EventsType
  <2> QED BY <2>1, <2>2, ChangeKeepsTree
<1>5. ASSUME NEW p \in Path, MakeFolder(p) PROVE TreeOK'
  <2> DEFINE after == [disk EXCEPT ![p] = Folder]
  <2>1. Change(after, Rescan(pending))
    BY <1>5 DEF MakeFolder
  <2>2. after \in [Path -> Disk0] /\ Rescan(pending) \in Plans
    BY <1>t, EventsType
  <2> QED BY <2>1, <2>2, ChangeKeepsTree
<1>6. ASSUME NEW p \in Path, RemoveFolder(p) \/ MoveOut(p) PROVE TreeOK'
  <2>1. Change(Gone(p), Rescan(pending)) \/ Change(Gone(p), Removed(pending, p))
    BY <1>6 DEF RemoveFolder, MoveOut
  <2>2. Gone(p) \in [Path -> Disk0] /\ Rescan(pending) \in Plans /\ Removed(pending, p) \in Plans
    BY <1>t, GoneType, EventsType
  <2> QED BY <2>1, <2>2, ChangeKeepsTree
<1> QED BY <1>1, <1>2, <1>3, <1>4, <1>5, <1>6, Zenon DEF TreeChanges

\* The session never writes to the tree.
LEMMA OthersKeepTree ==
  ASSUME TreeOK, OpenSession \/ RescanCall \/ ApplyPlan \/ Step \/ CancelUpdate \/ FileCursor \/ FilesPage
  PROVE  TreeOK'
<1>1. ASSUME disk' = disk, clock' = clock, pending' \in Plans,
             budget' = budget \/ \E what \in {"changes", "cancels", "rescans", "reads"} : Spend(what)
      PROVE  TreeOK'
  <2>1. budget' \in Budgets /\ budget'.changes <= budget.changes
    <3>1. CASE budget' = budget
      BY <3>1, WatchAssumption DEF TreeOK, Budgets
    <3>2. CASE budget' # budget
      BY <1>1, <3>2, SpendFacts DEF TreeOK
    <3> QED BY <3>1, <3>2
  <2>2. budget'.changes + clock' <= MaxChanges
    BY <1>1, <2>1, WatchAssumption DEF TreeOK, Budgets
  <2> QED BY <1>1, <2>1, <2>2 DEF TreeOK
<1>2. NoEvents \in Plans /\ pending \in Plans
  BY DEF NoEvents, Plans, TreeOK
<1>3. CASE RescanCall \/ CancelUpdate \/ FileCursor
  BY <1>1, <1>2, <1>3 DEF RescanCall, CancelUpdate, FileCursor, tree
<1>4. CASE OpenSession \/ ApplyPlan \/ FilesPage
  BY <1>1, <1>2, <1>4 DEF OpenSession, ApplyPlan, FilesPage, tree
<1>5. CASE Step
  BY <1>1, <1>2, <1>5 DEF Step, CheckPath, CompareSources, ListFolder, DecideBatch, StopWalk, EndWalk,
    InspectFile, Install, elsewhere, tree
<1> QED BY <1>3, <1>4, <1>5

-----------------------------------------------------------------------------
(* Reports *)

Kinds == {"Ignored", "IoError", "ScanLimit", "Binary", "ConcurrentModification"}

\* Every way a report is built up keeps its type.
LEMMA ReportSteps ==
  ASSUME NEW r \in Reports
  PROVE  /\ \A kind \in Kinds, paths \in SUBSET (Path \cup {Root}) : Skip(r, kind, paths) \in Reports
         /\ \A why \in {"MaxTotalBytes", "Cancelled"} : Terminate(r, why) \in Reports
         /\ \A kind \in Kinds, p \in Path \cup {Root} : FailedAt(r, kind, p) \in Reports
         /\ \A p \in Plans : Retained(r, p) \in Reports
         /\ \A f \in [Path -> Files \cup {Nothing}] : [r EXCEPT !.files = f] \in Reports
         /\ \A c \in BOOLEAN : [r EXCEPT !.complete = c] \in Reports
         /\ \A s \in SUBSET (IgnoreFile \X Content) : [r EXCEPT !.sources = s] \in Reports
         /\ r.files \in [Path -> Files \cup {Nothing}] /\ r.complete \in BOOLEAN
<1>1. \A s \in SUBSET ((Path \cup {Root}) \X Kinds) : [r EXCEPT !.skipped = s] \in Reports
  BY DEF Reports, Kinds
<1>2. \A c \in BOOLEAN : [r EXCEPT !.complete = c] \in Reports
  BY DEF Reports
<1>3. ASSUME NEW kind \in Kinds, NEW paths \in SUBSET (Path \cup {Root})
      PROVE  Skip(r, kind, paths) \in Reports
  <2>1. r.skipped \in SUBSET ((Path \cup {Root}) \X Kinds)
    BY DEF Reports, Kinds
  <2>2. {<<p, kind>> : p \in paths} \subseteq (Path \cup {Root}) \X Kinds
    OBVIOUS
  <2>3. r.skipped \cup {<<p, kind>> : p \in paths} \in SUBSET ((Path \cup {Root}) \X Kinds)
    BY <2>1, <2>2
  <2> QED BY <1>1, <2>3 DEF Skip
<1>4. ASSUME NEW why \in {"MaxTotalBytes", "Cancelled"} PROVE Terminate(r, why) \in Reports
  BY DEF Terminate, Reports
<1>5. ASSUME NEW kind \in Kinds, NEW p \in Path \cup {Root} PROVE FailedAt(r, kind, p) \in Reports
  <2>1. PICK q : q = Skip(r, kind, {p})
    OBVIOUS
  <2>2. q \in Reports
    BY <1>3, <2>1
  <2>3. [q EXCEPT !.complete = FALSE] \in Reports
    BY <2>2 DEF Reports
  <2> QED BY <2>1, <2>3 DEF FailedAt
<1>6. ASSUME NEW p \in Plans PROVE Retained(r, p) \in Reports
  <2>1. [f \in Path |-> IF Within(f, Coverage(p)) THEN Nothing ELSE r.files[f]]
          \in [Path -> Files \cup {Nothing}]
    BY DEF Reports
  <2>2. {s \in r.skipped : ~Within(s[1], Coverage(p))} \in SUBSET ((Path \cup {Root}) \X Kinds)
    BY DEF Reports, Kinds
  <2> QED BY <2>1, <2>2 DEF Retained, Reports, Kinds
<1>7. \A f \in [Path -> Files \cup {Nothing}] : [r EXCEPT !.files = f] \in Reports
  BY DEF Reports
<1>8. \A s \in SUBSET (IgnoreFile \X Content) : [r EXCEPT !.sources = s] \in Reports
  BY DEF Reports
<1>9. r.files \in [Path -> Files \cup {Nothing}] /\ r.complete \in BOOLEAN
  BY DEF Reports
<1> QED BY <1>2, <1>3, <1>4, <1>5, <1>6, <1>7, <1>8, <1>9

LEMMA LimitedType ==
  ASSUME NEW r \in Reports, NEW cut \in SUBSET Path
  PROVE  Limited(r, cut) \in Reports
<1>1. Skip(r, "ScanLimit", cut) \in Reports
  BY ReportSteps DEF Kinds
<1>2. Terminate(Skip(r, "ScanLimit", cut), "MaxTotalBytes") \in Reports
  BY <1>1, ReportSteps
<1> QED BY <1>2 DEF Limited

LEMMA CutIsPart == ASSUME NEW sizes, NEW paths PROVE Cut(sizes, paths) \subseteq paths
BY Zenon DEF Cut

LEMMA NoReport == EmptyReport \in Reports /\ NoFiles \in [Path -> Files \cup {Nothing}]
BY DEF EmptyReport, NoFiles, Reports

-----------------------------------------------------------------------------
(* The session and the update under way *)

Reasons == {"none", "Incremental", "StructuralChange", "IncompletePreviousState", "IgnoreInputChanged"}
SessionOK ==
  /\ options \in Policies /\ report \in Reports /\ generation \in Nat /\ reason \in Reasons
  /\ interrupted \in BOOLEAN

Places == Path \cup {Root}
Found0 == [Path -> Files \cup {Nothing}]
RulesOK(m) == m.ready \subseteq Places /\ m.sources \subseteq IgnoreFile \X Content
BatchOK(b) ==
  /\ b.folder \in Places /\ DOMAIN b.entries \subseteq Path
  /\ \A p \in DOMAIN b.entries : b.entries[p] \in Disk0
UpdateOK ==
  /\ stage \in {"idle", "check", "walk", "inspect"} /\ plan \in Plans
  /\ todo \subseteq Places /\ (stage = "check" => todo \subseteq Path)
  /\ \A b \in listing : BatchOK(b)
  /\ RulesOK(matcher) /\ draft \in Reports /\ found \in Found0
  /\ reuse \in BOOLEAN /\ cancelling \in BOOLEAN

LEMMA FileType ==
  ASSUME TreeOK, NEW p \in Path, IsFile(p)
  PROVE  disk[p] \in Files /\ disk[p].content \in Content
BY DEF TreeOK, Disk0, IsFile, Files

\* Rules are read from files only, so their contents are contents.
LEMMA PreparedType ==
  ASSUME TreeOK, NEW m, RulesOK(m), NEW directories \in SUBSET Places, NEW names \in SUBSET IgnoreFile
  PROVE  RulesOK(Prepared(m, directories, names))
<1> DEFINE read == {n \in names : Parent(n) \in directories \ m.ready /\ IsFile(n)}
           new == {<<i, disk[i].content>> : i \in read}
<1>1. \A i \in read : i \in IgnoreFile /\ disk[i].content \in Content
  BY FileType, WatchAssumption
<1>2. new \subseteq IgnoreFile \X Content
  BY <1>1
<1>3. /\ Prepared(m, directories, names).ready = m.ready \cup directories
      /\ Prepared(m, directories, names).sources = m.sources \cup new
  BY DEF Prepared
<1> QED BY <1>2, <1>3 DEF RulesOK

LEMMA NothingPrepared == RulesOK(NoMatcher)
BY DEF RulesOK, NoMatcher

LEMMA EnterKeeps ==
  ASSUME NEW where \in {"check", "walk"}, NEW first \in SUBSET Places, NEW base \in Reports,
         NEW cache \in BOOLEAN, Enter(where, first, NoFiles, base, cache),
         where = "check" => first \subseteq Path,
         RulesOK(matcher)', plan' \in Plans, cancelling' \in BOOLEAN
  PROVE  UpdateOK'
<1>1. NoFiles \in Found0
  BY NoReport DEF Found0
<1> QED BY <1>1 DEF Enter, UpdateOK

\* A scan starts over, whatever was under way.
LEMMA BeginScanKeeps ==
  ASSUME TreeOK, NEW why \in Reasons, NEW cache \in BOOLEAN, BeginScan(why, cache),
         plan' \in Plans, cancelling' \in BOOLEAN
  PROVE  UpdateOK' /\ reason' \in Reasons
<1>1. RulesOK(matcher')
  <2>1. {Root} \in SUBSET Places
    BY DEF Places
  <2>2. RulesOK(Prepared(NoMatcher, {Root}, IgnoreFile))
    BY <2>1, PreparedType, NothingPrepared
  <2> QED BY <2>2 DEF BeginScan
<1>2. {Root} \in SUBSET Places /\ EmptyReport \in Reports
  BY NoReport DEF Places
<1> QED BY <1>1, <1>2, EnterKeeps DEF BeginScan, RulesOK

LEMMA BeginKeeps ==
  ASSUME TreeOK, SessionOK, UpdateOK, OpenSession \/ RescanCall \/ ApplyPlan
  PROVE  UpdateOK' /\ SessionOK'
<1>1. NoEvents \in Plans /\ pending \in Plans
  BY DEF NoEvents, Plans, TreeOK
<1>2. CASE OpenSession
  <2>1. UpdateOK' /\ reason' \in Reasons
    BY <1>1, <1>2, BeginScanKeeps DEF OpenSession, Begin, Reasons
  <2> QED BY <1>2, <2>1 DEF OpenSession, SessionOK
<1>3. CASE RescanCall
  <2>1. UpdateOK' /\ reason' \in Reasons
    BY <1>1, <1>3, BeginScanKeeps DEF RescanCall, Begin, Reasons
  <2> QED BY <1>3, <2>1 DEF RescanCall, SessionOK
<1>4. CASE ApplyPlan
  <2> DEFINE why == EarlyReason(report, pending)
  <2>1. why \in Reasons
    BY DEF EarlyReason, Reasons
  <2>2. CASE why # "none"
    <3>1. UpdateOK' /\ reason' \in Reasons
      BY <1>1, <1>4, <2>1, <2>2, BeginScanKeeps DEF ApplyPlan, Begin
    <3> QED BY <1>4, <3>1 DEF ApplyPlan, SessionOK
  <2>3. CASE why = "none"
    <3>1. /\ Enter("check", pending.changed, NoFiles, Retained(report, pending), FALSE)
          /\ matcher' = Prepared(NoMatcher, {Root}, IgnoreFile) /\ reason' = "Incremental"
          /\ plan' = pending /\ cancelling' = FALSE
      BY <1>4, <2>3 DEF ApplyPlan, Begin
    <3>2. /\ pending.changed \in SUBSET Places /\ pending.changed \subseteq Path
          /\ Retained(report, pending) \in Reports
      BY <1>1, ReportSteps DEF SessionOK, Plans, Places
    <3>3. RulesOK(Prepared(NoMatcher, {Root}, IgnoreFile))
      BY PreparedType, NothingPrepared DEF Places
    <3>4. RulesOK(matcher)'
      BY <3>1, <3>3 DEF RulesOK
    <3>5. UpdateOK'
      BY <1>1, <3>1, <3>2, <3>4, EnterKeeps
    <3> QED BY <1>4, <3>1, <3>5 DEF ApplyPlan, SessionOK, Reasons
  <2> QED BY <2>2, <2>3
<1> QED BY <1>2, <1>3, <1>4

\* The rules read on the way down to a changed path.
LEMMA DescendedType ==
  ASSUME TreeOK, UpdateOK, NEW p \in Path
  PROVE  RulesOK(Descended(p))
<1> DEFINE all == Prepared(matcher, {Root} \cup Above[p], IgnoreFile)
           way == {Root} \cup {q \in Above[p] : Selected(all, q)}
<1>1. Above[p] \in SUBSET Path
  BY WatchAssumption
<1>2. way \in SUBSET Places
  BY <1>1 DEF Places
<1> HIDE DEF way
<1>3. RulesOK(Prepared(matcher, way, IgnoreFile))
  BY <1>2, PreparedType DEF UpdateOK
<1> QED BY <1>3 DEF Descended, way

LEMMA CheckPathKeeps ==
  ASSUME TreeOK, SessionOK, UpdateOK, CheckPath
  PROVE  UpdateOK' /\ SessionOK'
<1>1. plan' \in Plans /\ cancelling' \in BOOLEAN
  BY DEF CheckPath, elsewhere, UpdateOK
<1>2. PICK p \in todo :
        IF disk[p] = Folder THEN BeginScan("StructuralChange", TRUE)
        ELSE /\ todo' = todo \ {p}
             /\ matcher' = IF IsFile(p) THEN Descended(p) ELSE matcher
             /\ draft' = IF \E q \in Above[p] : IsFile(q) THEN FailedAt(draft, "IoError", p)
                         ELSE IF IsFile(p) /\ ~Selected(matcher', p) THEN Skip(draft, "Ignored", {p})
                         ELSE draft
             /\ found' = IF IsFile(p) /\ Selected(matcher', p) THEN [found EXCEPT ![p] = disk[p]]
                         ELSE found
             /\ UNCHANGED <<stage, listing, reuse, reason>>
  BY Zenon DEF CheckPath
<1>3. UNCHANGED <<options, report, generation, interrupted, plan, cancelling>>
  BY DEF CheckPath, elsewhere
<1>4. CASE disk[p] = Folder
  <2>1. UpdateOK' /\ reason' \in Reasons
    BY <1>1, <1>2, <1>4, BeginScanKeeps DEF Reasons
  <2> QED BY <1>3, <2>1 DEF SessionOK
<1>5. CASE disk[p] # Folder
  <2>1. p \in Path /\ p \in Places
    BY DEF UpdateOK, CheckPath, Places
  <2>2. todo' \subseteq Places /\ todo' \subseteq Path
    BY <1>2, <1>5 DEF UpdateOK, CheckPath
  <2>3. /\ FailedAt(draft, "IoError", p) \in Reports /\ Skip(draft, "Ignored", {p}) \in Reports
        /\ draft \in Reports
    BY <2>1, ReportSteps DEF UpdateOK, Places, Kinds
  <2>4. draft' \in Reports
    BY <1>2, <1>5, <2>3
  <2>5. RulesOK(matcher')
    BY <1>2, <1>5, <2>1, DescendedType DEF UpdateOK
  <2>6. found' \in Found0
    <3>1. CASE IsFile(p)
      BY <1>2, <1>5, <2>1, <3>1, FileType DEF UpdateOK, Found0
    <3>2. CASE ~IsFile(p)
      BY <1>2, <1>5, <3>2 DEF UpdateOK
    <3> QED BY <3>1, <3>2
  <2> QED BY <1>2, <1>3, <1>5, <2>2, <2>4, <2>5, <2>6 DEF UpdateOK, SessionOK, RulesOK
<1> QED BY <1>4, <1>5

LEMMA CompareSourcesKeeps ==
  ASSUME TreeOK, SessionOK, UpdateOK, CompareSources
  PROVE  UpdateOK' /\ SessionOK'
<1>1. plan' \in Plans /\ cancelling' \in BOOLEAN
  BY DEF CompareSources, elsewhere, UpdateOK
<1>2. UNCHANGED <<options, report, generation, interrupted, plan, cancelling>>
  BY DEF CompareSources, elsewhere
<1>3. CASE SourcesChanged
  <2>1. UpdateOK' /\ reason' \in Reasons
    BY <1>1, <1>3, BeginScanKeeps DEF Reasons, CompareSources
  <2> QED BY <1>2, <2>1 DEF SessionOK
<1>4. CASE ~SourcesChanged
  BY <1>2, <1>4 DEF CompareSources, UpdateOK, SessionOK, RulesOK
<1> QED BY <1>3, <1>4

LEMMA ListFolderKeeps ==
  ASSUME TreeOK, SessionOK, UpdateOK, ListFolder
  PROVE  UpdateOK' /\ SessionOK'
<1>1. PICK d \in todo :
        /\ todo' = todo \ {d}
        /\ IF IsFolder(d)
           THEN /\ listing' = listing \cup {[folder |-> d, entries |->
                     [p \in {q \in Path : Parent(q) = d /\ disk[q] # Nothing} |-> disk[p]]]}
                /\ UNCHANGED draft
           ELSE draft' = FailedAt(draft, "IoError", d) /\ UNCHANGED listing
  BY Zenon DEF ListFolder
<1> DEFINE new == [folder |-> d, entries |->
                     [p \in {q \in Path : Parent(q) = d /\ disk[q] # Nothing} |-> disk[p]]]
<1>2. UNCHANGED <<options, report, generation, interrupted, plan, cancelling, stage, matcher, found,
                  reuse, reason>>
  BY DEF ListFolder, elsewhere
<1>3. d \in Places
  BY DEF UpdateOK
<1>4. BatchOK(new)
  BY <1>3 DEF BatchOK, TreeOK
<1>5. \A b \in listing' : BatchOK(b)
  <2> HIDE DEF new
  <2> QED BY <1>1, <1>4 DEF UpdateOK, new
<1>6. draft' \in Reports
  BY <1>1, <1>3, ReportSteps DEF UpdateOK, Places, Kinds
<1>7. todo' \subseteq Places /\ stage' # "check"
  BY <1>1, <1>2 DEF UpdateOK, ListFolder
<1> QED BY <1>2, <1>5, <1>6, <1>7 DEF UpdateOK, SessionOK, RulesOK

LEMMA DecideBatchKeeps ==
  ASSUME TreeOK, SessionOK, UpdateOK, DecideBatch
  PROVE  UpdateOK' /\ SessionOK'
<1>1. PICK b \in listing :
        LET names == DOMAIN b.entries
            m == Prepared(matcher, {b.folder}, IgnoreFile \cap names)
            rejected == {p \in names : Rejects(m, p)} IN
        /\ listing' = listing \ {b} /\ matcher' = m
        /\ draft' = [Skip(draft, "Ignored", rejected) EXCEPT !.complete = @ /\ Unreadable(names) = {}]
        /\ found' = [p \in Path |-> IF p \in FilesOf(b) \ rejected THEN b.entries[p] ELSE found[p]]
        /\ todo' = todo \cup (FoldersOf(b) \ rejected)
  BY Zenon DEF DecideBatch
<1> DEFINE names == DOMAIN b.entries
           m == Prepared(matcher, {b.folder}, IgnoreFile \cap names)
           rejected == {p \in names : Rejects(m, p)}
<1>2. UNCHANGED <<options, report, generation, interrupted, plan, cancelling, stage, reuse, reason>>
  BY DEF DecideBatch, elsewhere
<1>3. /\ BatchOK(b) /\ names \subseteq Path /\ rejected \in SUBSET Places
      /\ \A c \in listing' : BatchOK(c)
  BY <1>1 DEF UpdateOK, BatchOK, Places
<1>4. RulesOK(matcher')
  <2>1. {b.folder} \in SUBSET Places /\ IgnoreFile \cap names \in SUBSET IgnoreFile
    BY <1>3 DEF BatchOK
  <2>2. RulesOK(m)
    BY <2>1, PreparedType DEF UpdateOK
  <2> QED BY <1>1, <2>2
<1> HIDE DEF m, rejected, names
<1>5. draft' \in Reports
  <2>1. PICK r : r = Skip(draft, "Ignored", rejected)
    OBVIOUS
  <2>2. r \in Reports
    BY <1>3, <2>1, ReportSteps DEF UpdateOK, Places, Kinds
  <2>3. draft' = [r EXCEPT !.complete = @ /\ Unreadable(names) = {}]
    BY <1>1, <2>1, Zenon DEF rejected, names, m
  <2>4. PICK c : c = (r.complete /\ Unreadable(names) = {})
    OBVIOUS
  <2>5. c \in BOOLEAN
    BY <2>4, <2>2, ReportSteps, Zenon
  <2>6. draft' = [r EXCEPT !.complete = c]
    BY <2>3, <2>4, Zenon
  <2> QED BY <2>2, <2>5, <2>6, ReportSteps
<1>6. found' \in Found0
  <2>1. \A p \in FilesOf(b) : b.entries[p] \in Files \cup {Nothing}
    BY <1>3 DEF BatchOK, FilesOf, Disk0
  <2>2. found' = [p \in Path |-> IF p \in FilesOf(b) \ rejected THEN b.entries[p] ELSE found[p]]
    BY <1>1, Zenon DEF rejected, names, m
  <2> QED BY <2>1, <2>2 DEF UpdateOK, Found0
<1>7. todo' \subseteq Places /\ stage' # "check"
  <2>1. FoldersOf(b) \subseteq Places
    BY <1>3 DEF FoldersOf, BatchOK, Places
  <2>2. todo' = todo \cup (FoldersOf(b) \ rejected)
    BY <1>1, Zenon DEF rejected, names, m
  <2> QED BY <1>2, <2>1, <2>2 DEF UpdateOK, DecideBatch
<1> QED BY <1>2, <1>3, <1>4, <1>5, <1>6, <1>7 DEF UpdateOK, SessionOK, RulesOK

LEMMA StopWalkKeeps ==
  ASSUME TreeOK, SessionOK, UpdateOK, StopWalk
  PROVE  UpdateOK' /\ SessionOK'
<1>1. Terminate(draft, "Cancelled") \in Reports
  BY ReportSteps DEF UpdateOK
<1> QED BY <1>1 DEF StopWalk, elsewhere, UpdateOK, SessionOK, RulesOK

LEMMA EndWalkKeeps ==
  ASSUME TreeOK, SessionOK, UpdateOK, EndWalk
  PROVE  UpdateOK' /\ SessionOK'
<1> DEFINE cut == Cut(Sizes(found), Present(found))
           halted == IF cancelling THEN Terminate(draft, "Cancelled") ELSE draft
<1>1. /\ found' = [p \in Path |-> IF p \in cut THEN Nothing ELSE found[p]]
      /\ draft' = Limited([halted EXCEPT !.sources = matcher.sources], cut)
  BY Zenon DEF EndWalk
<1>2. UNCHANGED <<options, report, generation, interrupted, plan, cancelling, todo, listing, matcher,
                  reuse, reason>> /\ stage' = "inspect"
  BY DEF EndWalk, elsewhere
<1>3. cut \in SUBSET Path
  BY CutIsPart, PresentFinite
<1>4. halted \in Reports
  BY ReportSteps DEF UpdateOK
<1> HIDE DEF cut, halted
<1>5. [halted EXCEPT !.sources = matcher.sources] \in Reports
  BY <1>4, ReportSteps DEF UpdateOK, RulesOK
<1>6. draft' \in Reports
  BY <1>1, <1>3, <1>5, LimitedType
<1>7. found' \in Found0
  BY <1>1 DEF UpdateOK, Found0
<1> QED BY <1>2, <1>6, <1>7 DEF UpdateOK, SessionOK, RulesOK

\* Every outcome of an inspection is a report.
LEMMA InspectedType ==
  ASSUME TreeOK, SessionOK, UpdateOK, NEW p \in Path
  PROVE  Inspected(p) \in Reports
<1>1. draft \in Reports /\ {p} \in SUBSET (Path \cup {Root}) /\ p \in Path \cup {Root}
  BY DEF UpdateOK
<1>2. \A kind \in Kinds : Skip(draft, kind, {p}) \in Reports /\ FailedAt(draft, kind, p) \in Reports
  BY <1>1, ReportSteps
<1>3. Terminate(Skip(draft, "ScanLimit", {p}), "Cancelled") \in Reports
  <2>1. Skip(draft, "ScanLimit", {p}) \in Reports
    BY <1>2 DEF Kinds
  <2> QED BY <2>1, ReportSteps
<1>4. report.files[p] \in Files \cup {Nothing} /\ found[p] \in Files \cup {Nothing}
  BY ReportSteps DEF SessionOK, UpdateOK, Found0
<1>5. ASSUME NEW f \in Files \cup {Nothing} PROVE [draft EXCEPT !.files[p] = f] \in Reports
  <2>1. [draft.files EXCEPT ![p] = f] \in [Path -> Files \cup {Nothing}]
    BY <1>1, ReportSteps
  <2>2. [draft EXCEPT !.files = [draft.files EXCEPT ![p] = f]] \in Reports
    BY <1>1, <2>1, ReportSteps
  <2>3. [draft EXCEPT !.files[p] = f] = [draft EXCEPT !.files = [draft.files EXCEPT ![p] = f]]
    OBVIOUS
  <2> QED BY <2>2, <2>3
<1>6. /\ [draft EXCEPT !.files[p] = report.files[p]] \in Reports
      /\ [draft EXCEPT !.files[p] = found[p]] \in Reports
  BY <1>4, <1>5
<1> QED BY <1>2, <1>3, <1>6 DEF Inspected, Kinds

LEMMA InspectFileKeeps ==
  ASSUME TreeOK, SessionOK, UpdateOK, InspectFile
  PROVE  UpdateOK' /\ SessionOK'
<1>1. PICK p \in Present(found) : found' = [found EXCEPT ![p] = Nothing] /\ draft' = Inspected(p)
  BY Zenon DEF InspectFile
<1>2. UNCHANGED <<options, report, generation, interrupted, plan, cancelling, stage, todo, listing,
                  matcher, reuse, reason>>
  BY DEF InspectFile, elsewhere
<1>3. p \in Path
  BY PresentFinite
<1>4. draft' \in Reports
  BY <1>1, <1>3, InspectedType
<1>5. found' \in Found0
  BY <1>1, <1>3 DEF UpdateOK, Found0
<1> QED BY <1>2, <1>4, <1>5 DEF UpdateOK, SessionOK, RulesOK

LEMMA FinishedType ==
  ASSUME SessionOK, UpdateOK
  PROVE  Finished \in Reports
<1> DEFINE cut == Cut(Sizes(draft.files), Present(draft.files))
           files == [p \in Path |-> IF p \in cut THEN Nothing ELSE draft.files[p]]
           r == [draft EXCEPT !.files = files]
<1>1. cut \in SUBSET Path
  BY CutIsPart, PresentFinite
<1>2. draft \in Reports /\ draft.files \in [Path -> Files \cup {Nothing}]
  BY ReportSteps DEF UpdateOK
<1>3. Finished = IF reason # "Incremental" THEN draft ELSE Limited(r, cut)
  BY Zenon DEF Finished
<1> HIDE DEF cut
<1>4. files \in [Path -> Files \cup {Nothing}]
  BY <1>2
<1> HIDE DEF files
<1>5. r \in Reports
  BY <1>2, <1>4, ReportSteps
<1> HIDE DEF r
<1>6. Limited(r, cut) \in Reports
  BY <1>1, <1>5, LimitedType
<1> QED BY <1>2, <1>3, <1>6

LEMMA InstallKeeps ==
  ASSUME TreeOK, SessionOK, UpdateOK, Install
  PROVE  UpdateOK' /\ SessionOK'
<1>1. report' \in Reports /\ EmptyReport \in Reports /\ NoEvents \in Plans
  BY FinishedType, NoReport DEF Install, NoEvents, Plans
<1>2. generation' = generation + 1
  BY DEF Install, NextGeneration
<1>3. UNCHANGED <<options, reason, todo, listing, found>>
  BY DEF Install
<1>4. /\ stage' = "idle" /\ draft' = EmptyReport /\ matcher' = NoMatcher /\ plan' = NoEvents
      /\ reuse' = FALSE /\ cancelling' = FALSE /\ interrupted' = cancelling
  BY DEF Install
<1>5. UpdateOK'
  BY <1>1, <1>3, <1>4, NothingPrepared DEF UpdateOK, RulesOK
<1>6. SessionOK'
  BY <1>1, <1>2, <1>3, <1>4 DEF SessionOK, UpdateOK
<1> QED BY <1>5, <1>6

\* All the steps of the session and of the update together.
LEMMA SessionKept ==
  ASSUME TreeOK, SessionOK, UpdateOK, SessionNext
  PROVE  UpdateOK' /\ SessionOK'
<1>1. CASE TreeChanges
  <2>1. UNCHANGED <<options, session, update, cancelling>>
    BY <1>1 DEF TreeChanges, WriteFile, MoveIn, RenameFile, RemoveFile, MakeFolder, RemoveFolder,
      MoveOut, Change
  <2> QED BY <2>1 DEF session, update, UpdateOK, SessionOK, RulesOK
<1>2. CASE OpenSession \/ RescanCall \/ ApplyPlan
  BY <1>2, BeginKeeps
<1>3. CASE Step
  BY <1>3, CheckPathKeeps, CompareSourcesKeeps, ListFolderKeeps, DecideBatchKeeps, StopWalkKeeps,
    EndWalkKeeps, InspectFileKeeps, InstallKeeps DEF Step
<1>4. CASE CancelUpdate \/ FileCursor \/ FilesPage
  BY <1>4 DEF CancelUpdate, FileCursor, FilesPage, session, update, UpdateOK, SessionOK, RulesOK
<1> QED BY <1>1, <1>2, <1>3, <1>4 DEF SessionNext

-----------------------------------------------------------------------------
(* The reader *)

\* A cursor that is not stale is over the report that is installed: reports change only
\* together with the generation.
ReaderOK ==
  /\ reader = [generation |-> reader.generation, count |-> reader.count, offset |-> reader.offset,
               seen |-> reader.seen, base |-> reader.base]
  /\ reader.generation \in 0 .. generation /\ reader.base \in Found0
  /\ reader.count = Cardinality(Present(reader.base)) /\ reader.offset \in 0 .. reader.count
  /\ reader.generation = generation /\ reader.count > 0 => reader.base = report.files
  /\ PagesOfOneReport

\* A cursor has read nothing at first.
LEMMA NothingRead ==
  ASSUME NEW files
  PROVE  Slice(files, 0, 0) = {}
<1>1. \A s : s \in Slice(files, 0, 0) <=> OnPage(files, 0, 0, s)
  BY SliceMember, Zenon
<1>2. ASSUME NEW s, OnPage(files, 0, 0, s) PROVE FALSE
  <2>1. PICK p \in Present(files) : Position(files, p) \in 0 .. 0 - 1
    BY <1>2, Zenon DEF OnPage
  <2> QED BY <2>1
<1> QED BY <1>1, <1>2

LEMMA NoFilesToRead ==
  /\ NoFiles \in Found0
  /\ Cardinality(Present(NoFiles)) = 0
  /\ Slice(NoFiles, 0, 0) = {}
<1>1. Present(NoFiles) = {}
  BY DEF Present, NoFiles
<1>2. Cardinality(Present(NoFiles)) = 0
  BY <1>1, FS_EmptySet
<1> QED BY <1>2, NothingRead, NoReport DEF Found0

LEMMA FileCursorKeeps ==
  ASSUME SessionOK, FileCursor
  PROVE  ReaderOK'
<1>1. /\ reader' = [generation |-> generation, count |-> Cardinality(Present(report.files)),
                    offset |-> 0, seen |-> {}, base |-> report.files]
      /\ generation' = generation /\ report' = report
  BY DEF FileCursor, session
<1>2. report.files \in Found0 /\ generation \in Nat
  BY ReportSteps DEF SessionOK, Found0
<1>3. Cardinality(Present(report.files)) \in Nat
  BY PresentFinite
<1>4. Slice(report.files, 0, 0) = {}
  BY NothingRead
<1>5. PagesOfOneReport'
  BY <1>1, <1>4 DEF PagesOfOneReport
<1> QED BY <1>1, <1>2, <1>3, <1>5 DEF ReaderOK

LEMMA FilesPageKeeps ==
  ASSUME SessionOK, ReaderOK, FilesPage
  PROVE  ReaderOK'
<1>1. generation' = generation /\ report' = report /\ reader.offset < reader.count /\ generation \in Nat
  BY DEF FilesPage, session, SessionOK
<1>2. CASE reader.generation # generation
  <2>1. reader' = NoReader
    BY <1>2 DEF FilesPage
  <2> QED BY <1>1, <2>1, NoFilesToRead DEF ReaderOK, NoReader, PagesOfOneReport
<1>3. CASE reader.generation = generation
  <2> DEFINE page == Slice(reader.base, reader.offset, reader.offset + PageSize)
             to == reader.offset + Cardinality(page)
  <2>1. /\ reader.base = report.files /\ reader.count \in Nat
        /\ reader.count = Cardinality(Present(reader.base))
    BY <1>1, <1>3, PresentFinite DEF ReaderOK
  <2>2. reader.offset \in 0 .. reader.count /\ reader.seen = Slice(reader.base, 0, reader.offset)
    BY DEF ReaderOK, PagesOfOneReport
  <2>3. /\ Cardinality(page) \in Nat /\ to <= reader.count
        /\ reader.seen \cup page = Slice(reader.base, 0, to)
    BY <2>1, <2>2, SliceGrows
  <2>4. reader' = [reader EXCEPT !.seen = @ \cup page, !.offset = @ + Cardinality(page)]
    BY <1>3, <2>1 DEF FilesPage
  <2> HIDE DEF page
  <2>5. reader' = [generation |-> reader.generation, count |-> reader.count, offset |-> to,
                   seen |-> reader.seen \cup page, base |-> reader.base]
    BY <2>4 DEF ReaderOK
  <2>6. PagesOfOneReport'
    BY <2>3, <2>5 DEF PagesOfOneReport
  <2>7. to \in 0 .. reader.count
    BY <2>1, <2>2, <2>3
  <2> QED BY <1>1, <1>3, <2>1, <2>5, <2>6, <2>7 DEF ReaderOK
<1> QED BY <1>2, <1>3

\* An update makes the cursor stale, everything else leaves it alone.
LEMMA ReaderKept ==
  ASSUME SessionOK, ReaderOK, SessionNext
  PROVE  ReaderOK'
<1>1. CASE Install
  <2>1. reader' = reader /\ generation' = generation + 1 /\ generation \in Nat
    BY <1>1 DEF Install, NextGeneration, SessionOK
  <2>2. reader'.generation \in 0 .. generation' /\ reader'.generation # generation'
    BY <2>1 DEF ReaderOK
  <2> QED BY <2>1, <2>2 DEF ReaderOK, PagesOfOneReport
<1>2. CASE UNCHANGED <<reader, generation, report>>
  BY <1>2 DEF ReaderOK, PagesOfOneReport
<1>3. CASE TreeChanges
  BY <1>2, <1>3 DEF TreeChanges, WriteFile, MoveIn, RenameFile, RemoveFile, MakeFolder, RemoveFolder,
    MoveOut, Change, session
<1>4. CASE OpenSession \/ RescanCall \/ ApplyPlan
  BY <1>2, <1>4 DEF OpenSession, RescanCall, ApplyPlan
<1>5. CASE Step /\ ~Install
  BY <1>2, <1>5 DEF Step, CheckPath, CompareSources, ListFolder, DecideBatch, StopWalk, EndWalk,
    InspectFile, elsewhere
<1>6. CASE CancelUpdate
  BY <1>2, <1>6 DEF CancelUpdate, session
<1> QED BY <1>1, <1>3, <1>4, <1>5, <1>6, FileCursorKeeps, FilesPageKeeps DEF SessionNext, Step

-----------------------------------------------------------------------------
(* The theorems *)

IInv == TreeOK /\ SessionOK /\ UpdateOK /\ ReaderOK

LEMMA InitEstablishes ==
  ASSUME SessionInit
  PROVE  IInv
<1>1. PICK start \in Starts :
        disk = [p \in Path |-> IF Below(p) # {} THEN Folder ELSE [content |-> start[p], version |-> 1]]
  BY Zenon DEF SessionInit
<1>2. PICK s \in Scenarios : options = s.options /\ budget = s.budget
  BY DEF SessionInit
<1>3. disk \in [Path -> Disk0]
  <2>1. start \in [Path -> Content] /\ 1 \in 1 .. MaxChanges + 1
    BY WatchAssumption
  <2>2. \A p \in Path : [content |-> start[p], version |-> 1] \in Files
    BY <2>1 DEF Files
  <2> QED BY <1>1, <2>2 DEF Disk0
<1>4. s \in [options : Policies, budget : Budgets]
  BY WatchAssumption
<1>5. options \in Policies /\ budget \in Budgets
  BY <1>2, <1>4
<1>6. NoEvents \in Plans
  BY DEF NoEvents, Plans
<1>7. TreeOK
  <2>1. clock = 0 /\ pending = NoEvents
    BY DEF SessionInit
  <2>2. budget.changes \in 0 .. MaxChanges /\ MaxChanges \in Nat
    BY <1>5, WatchAssumption DEF Budgets
  <2> QED BY <1>3, <1>5, <1>6, <2>1, <2>2 DEF TreeOK
<1>8. SessionOK
  BY <1>5, NoReport DEF SessionInit, SessionOK, Reasons
<1>9. UpdateOK
  BY <1>6, NoReport, NothingPrepared DEF SessionInit, UpdateOK, Found0, RulesOK
<1>10. ReaderOK
  BY NoFilesToRead DEF SessionInit, ReaderOK, NoReader, PagesOfOneReport
<1> QED BY <1>7, <1>8, <1>9, <1>10 DEF IInv

LEMMA StepKeeps ==
  ASSUME IInv, [SessionNext]_sessionVars
  PROVE  IInv'
<1>1. CASE SessionNext
  <2>1. TreeOK'
    BY <1>1, TreeChangesKeepTree, OthersKeepTree DEF IInv, SessionNext
  <2> QED BY <1>1, <2>1, SessionKept, ReaderKept DEF IInv
<1>2. CASE UNCHANGED sessionVars
  <2>1. UNCHANGED <<tree, options, session, update, cancelling, budget, reader>>
    BY <1>2 DEF sessionVars
  <2>2. TreeOK'
    BY <2>1 DEF IInv, TreeOK, tree
  <2>3. SessionOK' /\ UpdateOK'
    BY <2>1 DEF IInv, SessionOK, UpdateOK, RulesOK, session, update
  <2>4. ReaderOK'
    BY <2>1 DEF IInv, ReaderOK, PagesOfOneReport, session
  <2> QED BY <2>2, <2>3, <2>4 DEF IInv
<1> QED BY <1>1, <1>2

LEMMA SessionInvariant == SessionSpec => []IInv
BY InitEstablishes, StepKeeps, PTL DEF SessionSpec

LEMMA InvariantImpliesTypes ==
  ASSUME IInv
  PROVE  SessionTypeOK
<1>1. \A b \in listing : b.folder \in Path \cup {Root} /\ DOMAIN b.entries \subseteq Path
  BY DEF IInv, UpdateOK, BatchOK, Places
<1> QED BY <1>1 DEF IInv, SessionTypeOK, TreeOK, SessionOK, UpdateOK, ReaderOK, Disk0, Found0,
    Reasons, Places, RulesOK

\* Whatever the tree does while an update reads it, the session, the update, the
\* matcher and the budgets keep their types, and no reader is ahead of the generation
\* of the session (ScanSession and WatcherEventAdapter).
THEOREM SessionTypeCorrect == SessionSpec => []SessionTypeOK
BY SessionInvariant, InvariantImpliesTypes, PTL

\* Pages read under one cursor are the first entries of one manifest, without a gap or
\* a repetition, however many updates are installed between the pages
\* (ScanSession::files refuses a stale cursor).
THEOREM SessionPagesOfOneReport == SessionSpec => []PagesOfOneReport
<1>1. IInv => PagesOfOneReport
  BY DEF IInv, ReaderOK
<1> QED BY <1>1, SessionInvariant, PTL
=============================================================================
