----------------------------- MODULE WalkProofs -----------------------------
(***************************************************************************)
(* Proofs about the walks a caller waits for: a serial walk of any tree,   *)
(* the walks and visits of any number of roots, and the two executors that *)
(* run the jobs of a walk, the crate's own pool with any number of workers *)
(* and the Rayon adapter with any nesting and any number of threads.       *)
(***************************************************************************)
EXTENDS SerialWalk, MultiRoot, ThreadPool, SequenceFacts

-----------------------------------------------------------------------------
(***************************************************************************)
(* The serial walker never loses count of its open handles and never opens *)
(* a directory inside itself.                                              *)
(***************************************************************************)

(* A stable sort *)

Ahead(key, S, i) == {j \in S : key[j] < key[i] \/ (key[j] = key[i] /\ j < i)}

LEMMA AheadBounds ==
  ASSUME NEW S \in SUBSET Nat, IsFiniteSet(S), NEW key \in [S -> Nat], NEW i \in S
  PROVE  /\ IsFiniteSet(Ahead(key, S, i))
         /\ Cardinality(Ahead(key, S, i)) \in 0 .. Cardinality(S) - 1
<1>1. Ahead(key, S, i) \in SUBSET S /\ Ahead(key, S, i) # S
  <2>1. i \notin Ahead(key, S, i)
    BY DEF Ahead
  <2> QED BY <2>1 DEF Ahead
<1>2. /\ IsFiniteSet(Ahead(key, S, i))
      /\ Cardinality(Ahead(key, S, i)) <= Cardinality(S)
      /\ Cardinality(Ahead(key, S, i)) # Cardinality(S)
  BY <1>1, FS_Subset
<1> QED BY <1>2, FS_CardinalityType

LEMMA AheadGrows ==
  ASSUME NEW S \in SUBSET Nat, IsFiniteSet(S), NEW key \in [S -> Nat], NEW i \in S, NEW j \in S,
         i \in Ahead(key, S, j)
  PROVE  Cardinality(Ahead(key, S, i)) < Cardinality(Ahead(key, S, j))
<1>1. Ahead(key, S, i) \in SUBSET Ahead(key, S, j) /\ Ahead(key, S, i) # Ahead(key, S, j)
  <2>1. i \notin Ahead(key, S, i)
    BY DEF Ahead
  <2>2. \A k \in Ahead(key, S, i) : k \in Ahead(key, S, j)
    <3> TAKE k \in Ahead(key, S, i)
    <3>1. k \in S /\ i \in Nat /\ j \in Nat /\ k \in Nat /\ key[i] \in Nat /\ key[j] \in Nat /\ key[k] \in Nat
      BY DEF Ahead
    <3> QED BY <3>1 DEF Ahead
  <2> QED BY <2>1, <2>2
<1>2. /\ Cardinality(Ahead(key, S, i)) <= Cardinality(Ahead(key, S, j))
      /\ Cardinality(Ahead(key, S, i)) # Cardinality(Ahead(key, S, j))
  BY <1>1, AheadBounds, FS_Subset
<1> QED BY <1>2, AheadBounds

LEMMA AheadOnto ==
  ASSUME NEW S \in SUBSET Nat, IsFiniteSet(S), NEW key \in [S -> Nat], NEW n \in 0 .. Cardinality(S) - 1
  PROVE  \E i \in S : Cardinality(Ahead(key, S, i)) = n
<1> DEFINE T == 0 .. Cardinality(S) - 1
           f == [i \in S |-> Cardinality(Ahead(key, S, i))]
<1>1. \A i \in S : Cardinality(Ahead(key, S, i)) \in T
  BY AheadBounds
<1>2. \A i, j \in S : f[i] = f[j] => i = j
  <2> TAKE i, j \in S
  <2>1. i # j => i \in Ahead(key, S, j) \/ j \in Ahead(key, S, i)
    BY DEF Ahead
  <2> QED BY <2>1, <1>1, AheadGrows
<1>3. Cardinality(S) \in Nat
  BY FS_CardinalityType
<1>4. IsFiniteSet(T) /\ Cardinality(T) = Cardinality(S)
  <2>1. Cardinality(S) - 1 \in Int /\ 0 \in Int
    BY <1>3
  <2>2. IsFiniteSet(T) /\ Cardinality(T) = IF 0 > Cardinality(S) - 1 THEN 0 ELSE Cardinality(S) - 1 - 0 + 1
    BY <2>1, FS_Interval
  <2> QED BY <2>2, <1>3
<1>5. f \in Injection(S, T)
  BY <1>1, <1>2 DEF Injection, IsInjective
<1>6. f \in Surjection(S, T)
  BY <1>4, <1>5, FS_Injection
<1>7. \E i \in S : f[i] = n
  BY <1>6 DEF Surjection
<1> QED BY <1>7

\* The element at each place of a sorted list is one of the list, and every one has a place.
LEMMA SortedByFacts ==
  ASSUME NEW S, NEW list \in Seq(S), NEW key \in [DOMAIN list -> Nat]
  PROVE  /\ SortedBy(list, key) \in Seq(S) /\ DOMAIN SortedBy(list, key) = DOMAIN list
         /\ \A k \in DOMAIN list : \E i \in DOMAIN list :
               SortedBy(list, key)[k] = list[i] /\ Cardinality(Ahead(key, DOMAIN list, i)) = k - 1
<1> DEFINE D == DOMAIN list
           s == SortedBy(list, key)
<1>1. D = 1 .. Len(list) /\ Len(list) \in Nat /\ D \in SUBSET Nat /\ IsFiniteSet(D) /\ Cardinality(D) = Len(list)
  <2>1. D = 1 .. Len(list) /\ Len(list) \in Nat
    OBVIOUS
  <2>2. IsFiniteSet(1 .. Len(list)) /\ Cardinality(1 .. Len(list)) = Len(list)
    <3>1. 1 \in Int /\ Len(list) \in Int
      BY <2>1
    <3>2. /\ IsFiniteSet(1 .. Len(list))
          /\ Cardinality(1 .. Len(list)) = IF 1 > Len(list) THEN 0 ELSE Len(list) - 1 + 1
      BY <3>1, FS_Interval
    <3> QED BY <3>2, <2>1
  <2> QED BY <2>1, <2>2
<1>2. s = [k \in D |-> list[CHOOSE i \in D : Cardinality(Ahead(key, D, i)) = k - 1]]
  BY DEF SortedBy, Ahead
<1>3. ASSUME NEW k \in D
      PROVE  \E i \in D : s[k] = list[i] /\ Cardinality(Ahead(key, D, i)) = k - 1
  <2>1. k - 1 \in 0 .. Cardinality(D) - 1
    BY <1>1
  <2>2. \E i \in D : Cardinality(Ahead(key, D, i)) = k - 1
    BY <1>1, <2>1, AheadOnto
  <2>3. s[k] = list[CHOOSE i \in D : Cardinality(Ahead(key, D, i)) = k - 1]
    BY <1>2
  <2> HIDE DEF s, D
  <2> QED BY <2>2, <2>3
<1>4. DOMAIN s = D
  BY <1>2
<1> HIDE DEF s
<1>5. s = [k \in 1 .. Len(list) |-> s[k]]
  BY <1>2, <1>1
<1>6. \A k \in 1 .. Len(list) : s[k] \in S
  <2>1. \A i \in D : list[i] \in S
    OBVIOUS
  <2> QED BY <2>1, <1>1, <1>3
<1>7. s \in Seq(S)
  <2>1. s \in [1 .. Len(list) -> S]
    BY <1>5, <1>6
  <2> QED BY <2>1, <1>1
<1> QED BY <1>3, <1>4, <1>7 DEF s

-----------------------------------------------------------------------------
(* The stack of frames *)

OpenAt(fs) == {i \in DOMAIN fs : fs[i].open}
Named(fs)  == {i \in DOMAIN fs : fs[i].identity # None}

Handles(fs, n, limit) == n = Cardinality(OpenAt(fs)) /\ n <= limit

Nested(fs, active, root) ==
    /\ active = {fs[i].identity[1] : i \in Named(fs)}
    /\ \A i, j \in Named(fs) : fs[i].identity = fs[j].identity => i = j
    /\ \A i \in Named(fs) : fs[i].identity[1] \in Beneath[root]

\* What a directory may be entered with.
Enterable(identity, active, root) ==
    identity # None => identity[1] \notin active /\ identity[1] \in Beneath[root]

LEMMA StackFacts ==
  ASSUME NEW fs \in Seq(Frame)
  PROVE  /\ DOMAIN fs = 1 .. Len(fs) /\ Len(fs) \in Nat
         /\ IsFiniteSet(OpenAt(fs)) /\ Cardinality(OpenAt(fs)) \in Nat
         /\ OpenAt(fs) \in SUBSET (1 .. Len(fs))
         /\ \A i \in DOMAIN fs : /\ fs[i] \in Frame /\ fs[i].open \in BOOLEAN
                                 /\ fs[i].identity \in Optional(Nodes)
<1>1. DOMAIN fs = 1 .. Len(fs) /\ Len(fs) \in Nat
  OBVIOUS
<1>2. OpenAt(fs) \in SUBSET (1 .. Len(fs))
  BY <1>1 DEF OpenAt
<1>3. IsFiniteSet(1 .. Len(fs))
  BY <1>1, FS_Interval
<1>4. IsFiniteSet(OpenAt(fs))
  BY <1>2, <1>3, FS_Subset
<1>5. \A i \in DOMAIN fs : fs[i] \in Frame
  OBVIOUS
<1>6. \A f \in Frame : f.open \in BOOLEAN /\ f.identity \in Optional(Nodes)
  BY DEF Frame
<1> QED BY <1>1, <1>2, <1>4, <1>5, <1>6, FS_CardinalityType

LEMMA NoFrames ==
  ASSUME NEW limit \in Nat, NEW root
  PROVE  << >> \in Seq(Frame) /\ Handles(<< >>, 0, limit) /\ Nested(<< >>, {}, root)
<1>1. << >> \in Seq(Frame) /\ OpenAt(<< >>) = {} /\ Named(<< >>) = {}
  BY DEF OpenAt, Named
<1> QED BY <1>1, FS_EmptySet DEF Handles, Nested

LEMMA PushHandles ==
  ASSUME NEW fs \in Seq(Frame), NEW f \in Frame, NEW n, NEW limit \in Nat, Handles(fs, n, limit)
  PROVE  /\ f.open = FALSE => Handles(Append(fs, f), n, limit)
         /\ f.open = TRUE /\ n < limit => Handles(Append(fs, f), n + 1, limit)
<1> DEFINE gs == Append(fs, f)
<1>1. DOMAIN gs = DOMAIN fs \cup {Len(fs) + 1} /\ gs[Len(fs) + 1] = f /\ Len(fs) + 1 \notin DOMAIN fs
      /\ \A i \in DOMAIN fs : gs[i] = fs[i]
  OBVIOUS
<1> HIDE DEF gs
<1>2. CASE f.open = FALSE
  <2>1. OpenAt(gs) = OpenAt(fs)
    BY <1>1, <1>2 DEF OpenAt
  <2> QED BY <1>2, <2>1 DEF Handles, gs
<1>3. CASE f.open = TRUE
  <2>1. OpenAt(gs) = OpenAt(fs) \cup {Len(fs) + 1}
    BY <1>1, <1>3 DEF OpenAt
  <2>2. Len(fs) + 1 \notin OpenAt(fs)
    BY <1>1 DEF OpenAt
  <2>3. Cardinality(OpenAt(gs)) = Cardinality(OpenAt(fs)) + 1
    BY <2>1, <2>2, StackFacts, FS_AddElement
  <2> QED BY <1>3, <2>3, StackFacts DEF Handles, gs
<1> QED BY <1>2, <1>3 DEF Frame

LEMMA PopHandles ==
  ASSUME NEW fs \in Seq(Frame), fs # << >>, NEW n, NEW limit \in Nat, Handles(fs, n, limit)
  PROVE  /\ fs[Len(fs)].open = FALSE => Handles(Front(fs), n, limit)
         /\ fs[Len(fs)].open = TRUE => Handles(Front(fs), n - 1, limit) /\ n > 0 /\ n \in Nat
<1> DEFINE gs == Front(fs)
           l == Len(fs)
<1>1. gs \in Seq(Frame) /\ l \in DOMAIN fs /\ DOMAIN gs = DOMAIN fs \ {l} /\ \A i \in DOMAIN gs : gs[i] = fs[i]
  <2>1. gs \in Seq(Frame) /\ Len(gs) = l - 1 /\ l \in DOMAIN fs /\ \A i \in DOMAIN gs : gs[i] = fs[i]
    BY FrontFacts
  <2>2. DOMAIN gs = 1 .. l - 1 /\ DOMAIN fs = 1 .. l /\ l \in Nat
    BY <2>1
  <2> QED BY <2>1, <2>2
<1> HIDE DEF gs, l
<1>2. CASE fs[l].open = FALSE
  <2>1. OpenAt(gs) = OpenAt(fs)
    BY <1>1, <1>2 DEF OpenAt
  <2> QED BY <1>2, <2>1 DEF Handles, gs, l
<1>3. CASE fs[l].open = TRUE
  <2>1. OpenAt(gs) = OpenAt(fs) \ {l} /\ l \in OpenAt(fs)
    BY <1>1, <1>3 DEF OpenAt
  <2>2. Cardinality(OpenAt(gs)) = Cardinality(OpenAt(fs)) - 1
    BY <2>1, StackFacts, FS_RemoveElement
  <2>3. Cardinality(OpenAt(gs)) \in Nat /\ Cardinality(OpenAt(fs)) \in Nat
    BY <1>1, StackFacts
  <2> QED BY <1>3, <2>2, <2>3 DEF Handles, gs, l
<1> QED BY <1>1, <1>2, <1>3, StackFacts DEF l

LEMMA CloseHandles ==
  ASSUME NEW fs \in Seq(Frame), NEW i \in OpenAt(fs), NEW n, NEW limit \in Nat, Handles(fs, n, limit)
  PROVE  /\ [fs EXCEPT ![i].open = FALSE] \in Seq(Frame)
         /\ Handles([fs EXCEPT ![i].open = FALSE], n - 1, limit) /\ n > 0 /\ n \in Nat
<1>0. PICK gs : gs = [fs EXCEPT ![i].open = FALSE]
  OBVIOUS
<1>1. i \in DOMAIN fs /\ DOMAIN gs = DOMAIN fs /\ gs[i] = [fs[i] EXCEPT !.open = FALSE]
      /\ \A j \in DOMAIN fs : j # i => gs[j] = fs[j]
  BY <1>0 DEF OpenAt
<1>2. gs[i].open = FALSE /\ gs[i] \in Frame
  <2>1. fs[i] \in Frame
    BY <1>1, StackFacts
  <2> QED BY <1>1, <2>1 DEF Frame
<1>3. gs \in Seq(Frame)
  <2>1. \A j \in DOMAIN fs : gs[j] \in Frame
    BY <1>1, <1>2, StackFacts
  <2>2. gs = [j \in 1 .. Len(fs) |-> gs[j]]
    BY <1>0, <1>1, StackFacts
  <2>3. gs \in [1 .. Len(fs) -> Frame]
    BY <2>1, <2>2, StackFacts
  <2> QED BY <2>3, StackFacts
<1>4. OpenAt(gs) = OpenAt(fs) \ {i}
  BY <1>1, <1>2 DEF OpenAt
<1>5. Cardinality(OpenAt(gs)) = Cardinality(OpenAt(fs)) - 1
  BY <1>4, StackFacts, FS_RemoveElement
<1>6. Cardinality(OpenAt(gs)) \in Nat /\ Cardinality(OpenAt(fs)) \in Nat
  BY <1>3, StackFacts
<1> QED BY <1>0, <1>3, <1>5, <1>6 DEF Handles

\* A stack that differs in nothing but what its frames have left to read.
SameStack(fs, gs) ==
    /\ DOMAIN gs = DOMAIN fs
    /\ \A i \in DOMAIN fs : gs[i].open = fs[i].open /\ gs[i].identity = fs[i].identity

LEMMA SameHandles ==
  ASSUME NEW fs, NEW gs, SameStack(fs, gs), NEW n, NEW limit, Handles(fs, n, limit)
  PROVE  Handles(gs, n, limit)
<1>1. OpenAt(gs) = OpenAt(fs)
  BY DEF SameStack, OpenAt
<1> QED BY <1>1 DEF Handles

LEMMA SameNested ==
  ASSUME NEW fs, NEW gs, NEW active, NEW root, Nested(fs, active, root), DOMAIN gs = DOMAIN fs,
         \A i \in DOMAIN fs : gs[i].identity = fs[i].identity
  PROVE  Nested(gs, active, root)
<1>1. Named(gs) = Named(fs) /\ \A i \in Named(fs) : gs[i].identity = fs[i].identity
  BY DEF Named
<1>2. {gs[i].identity[1] : i \in Named(gs)} = {fs[i].identity[1] : i \in Named(fs)}
  BY <1>1
<1> QED BY <1>1, <1>2 DEF Nested

LEMMA OptionalFacts ==
  ASSUME NEW S, NEW s \in Optional(S)
  PROVE  /\ s = None => ToSet(s) = {} /\ s = << >>
         /\ s # None => s[1] \in S /\ ToSet(s) = {s[1]} /\ s = Some(s[1])
<1>1. s \in Seq(S) /\ Len(s) <= 1
  BY DEF Optional
<1>2. CASE s = None
  BY <1>2 DEF None, ToSet
<1>3. CASE s # None
  <2>1. Len(s) = 1
    <3>1. Len(s) # 0
      BY <1>1, <1>3, NothingThere DEF None
    <3>2. Len(s) \in Nat
      BY <1>1
    <3>3. PICK n \in Nat : n = Len(s)
      BY <3>2
    <3>4. n # 0 /\ n <= 1
      BY <1>1, <3>1, <3>3
    <3>5. n = 1
      BY <3>4
    <3> QED BY <3>3, <3>5
  <2>3. DOMAIN s = 1 .. 1 /\ 1 .. 1 = {1}
    BY <1>1, <2>1
  <2>4. DOMAIN s = {1} /\ s[1] \in S
    BY <1>1, <2>3
  <2>2. s = << s[1] >>
    BY <1>1, <2>1
  <2> QED BY <1>3, <2>4, <2>2 DEF ToSet, Some
<1> QED BY <1>2, <1>3

LEMMA SomeFacts ==
  ASSUME NEW S, NEW x \in S
  PROVE  Some(x) \in Optional(S) /\ Some(x)[1] = x /\ Some(x) # None /\ None \in Optional(S)
         /\ ToSet(Some(x)) = {x}
BY DEF Some, None, Optional, ToSet

LEMMA PushNested ==
  ASSUME NEW fs \in Seq(Frame), NEW f \in Frame, NEW active, NEW root, Nested(fs, active, root),
         Enterable(f.identity, active, root)
  PROVE  Nested(Append(fs, f), active \cup ToSet(f.identity), root)
<1> DEFINE gs == Append(fs, f)
           l == Len(fs) + 1
<1>1. DOMAIN gs = DOMAIN fs \cup {l} /\ gs[l] = f /\ l \notin DOMAIN fs
      /\ \A i \in DOMAIN fs : gs[i] = fs[i]
  OBVIOUS
<1>2. f.identity \in Optional(Nodes)
  BY DEF Frame
<1> HIDE DEF gs, l
<1>3. CASE f.identity = None
  <2>1. Named(gs) = Named(fs) /\ \A i \in Named(fs) : gs[i] = fs[i]
    BY <1>1, <1>3 DEF Named
  <2>2. active \cup ToSet(f.identity) = active
    BY <1>2, <1>3, OptionalFacts
  <2>3. {gs[i].identity[1] : i \in Named(gs)} = {fs[i].identity[1] : i \in Named(fs)}
    BY <2>1
  <2> QED BY <2>1, <2>2, <2>3 DEF Nested, gs
<1>4. CASE f.identity # None
  <2>1. Named(gs) = Named(fs) \cup {l} /\ l \notin Named(fs) /\ \A i \in Named(fs) : gs[i] = fs[i]
    BY <1>1, <1>4 DEF Named
  <2>2. ToSet(f.identity) = {f.identity[1]}
    BY <1>2, <1>4, OptionalFacts
  <2>3. {gs[i].identity[1] : i \in Named(gs)} = {fs[i].identity[1] : i \in Named(fs)} \cup {f.identity[1]}
    BY <2>1, <1>1
  <2>4. f.identity[1] \notin active /\ f.identity[1] \in Beneath[root]
    BY <1>4 DEF Enterable
  <2>5. \A i \in Named(fs) : fs[i].identity # f.identity
    BY <2>4 DEF Nested
  <2> QED BY <1>1, <2>1, <2>2, <2>3, <2>4, <2>5 DEF Nested, gs
<1> QED BY <1>3, <1>4

LEMMA PopNested ==
  ASSUME NEW fs \in Seq(Frame), fs # << >>, NEW active, NEW root, Nested(fs, active, root)
  PROVE  Nested(Front(fs), active \ ToSet(fs[Len(fs)].identity), root)
<1> DEFINE gs == Front(fs)
           l == Len(fs)
<1>1. gs \in Seq(Frame) /\ l \in DOMAIN fs /\ DOMAIN gs = DOMAIN fs \ {l} /\ \A i \in DOMAIN gs : gs[i] = fs[i]
  <2>1. gs \in Seq(Frame) /\ Len(gs) = l - 1 /\ l \in DOMAIN fs /\ \A i \in DOMAIN gs : gs[i] = fs[i]
    BY FrontFacts
  <2>2. DOMAIN gs = 1 .. l - 1 /\ DOMAIN fs = 1 .. l /\ l \in Nat
    BY <2>1
  <2> QED BY <2>1, <2>2
<1>2. fs[l].identity \in Optional(Nodes)
  BY <1>1, StackFacts
<1> HIDE DEF gs, l
<1>3. CASE fs[l].identity = None
  <2>1. Named(gs) = Named(fs) /\ \A i \in Named(fs) : gs[i] = fs[i]
    BY <1>1, <1>3 DEF Named
  <2>2. active \ ToSet(fs[l].identity) = active
    BY <1>2, <1>3, OptionalFacts
  <2>3. {gs[i].identity[1] : i \in Named(gs)} = {fs[i].identity[1] : i \in Named(fs)}
    BY <2>1
  <2> QED BY <2>1, <2>2, <2>3 DEF Nested, gs, l
<1>4. CASE fs[l].identity # None
  <2>1. Named(gs) = Named(fs) \ {l} /\ l \in Named(fs) /\ \A i \in Named(gs) : gs[i] = fs[i]
    BY <1>1, <1>4 DEF Named
  <2>2. ToSet(fs[l].identity) = {fs[l].identity[1]}
    BY <1>2, <1>4, OptionalFacts
  <2>3. \A i \in Named(gs) : fs[i].identity[1] # fs[l].identity[1]
    <3> TAKE i \in Named(gs)
    <3>1. i \in DOMAIN fs /\ fs[i].identity # None /\ i # l /\ i \in Named(fs)
      BY <1>1, <2>1 DEF Named
    <3>2. fs[i].identity = Some(fs[i].identity[1])
      BY <3>1, StackFacts, OptionalFacts
    <3>3. fs[l].identity = Some(fs[l].identity[1])
      BY <1>2, <1>4, OptionalFacts
    <3>4. fs[i].identity # fs[l].identity
      BY <3>1, <2>1 DEF Nested
    <3> QED BY <3>2, <3>3, <3>4
  <2>4. {gs[i].identity[1] : i \in Named(gs)} = {fs[i].identity[1] : i \in Named(fs)} \ {fs[l].identity[1]}
    BY <2>1, <2>3
  <2>5. active = {fs[i].identity[1] : i \in Named(fs)}
    BY DEF Nested
  <2>6. /\ \A i, j \in Named(gs) : gs[i].identity = gs[j].identity => i = j
        /\ \A i \in Named(gs) : gs[i].identity[1] \in Beneath[root]
    BY <2>1 DEF Nested
  <2> QED BY <2>2, <2>4, <2>5, <2>6 DEF Nested, gs, l
<1> QED BY <1>3, <1>4 DEF l
-----------------------------------------------------------------------------
(* The tree *)

\* What every set with n in it that holds the children of its members has to hold.
Lower(n) ==
    {m \in Nodes : \A S \in SUBSET Nodes :
        n \in S /\ (\A x \in S : ToSet(Listing[x]) \subseteq S) => m \in S}

LEMMA LowerFacts ==
  ASSUME NEW n \in Nodes
  PROVE  Lower(n) = {n} \cup UNION {Lower(c) : c \in ToSet(Listing[n])}
<1>1. \A x \in Nodes : ToSet(Listing[x]) \subseteq Nodes
  BY TreeAssumption DEF ToSet
<1>2. \A x \in Nodes : x \in Lower(x)
  BY DEF Lower
<1>3. \A c \in ToSet(Listing[n]) : Lower(c) \subseteq Lower(n)
  BY <1>1 DEF Lower
<1>4. ASSUME NEW m \in Lower(n), m # n
      PROVE  \E c \in ToSet(Listing[n]) : m \in Lower(c)
  <2> DEFINE S == {n} \cup UNION {Lower(c) : c \in ToSet(Listing[n])}
  <2>1. S \in SUBSET Nodes /\ n \in S
    BY DEF Lower
  <2>2. ASSUME NEW x \in S PROVE ToSet(Listing[x]) \subseteq S
    <3>1. CASE x = n
      BY <1>1, <1>2, <3>1
    <3>2. CASE \E c \in ToSet(Listing[n]) : x \in Lower(c)
      <4>1. PICK c \in ToSet(Listing[n]) : x \in Lower(c)
        BY <3>2
      <4>2. x \in Nodes /\ \A d \in ToSet(Listing[x]) : d \in Nodes
        BY <1>1, <4>1 DEF Lower
      <4>3. \A d \in ToSet(Listing[x]) : d \in Lower(c)
        BY <4>1, <4>2 DEF Lower
      <4> QED BY <4>1, <4>3
    <3> QED BY <3>1, <3>2
  <2>3. m \in S
    <3> HIDE DEF S
    <3> QED BY <1>4, <2>1, <2>2 DEF Lower
  <2> QED BY <1>4, <2>3
<1> QED BY <1>2, <1>3, <1>4

LEMMA BeneathItself ==
  \A n \in Nodes : n \in Beneath[n]
<1> DEFINE Equation(f) == f = [n \in Nodes |-> {n} \cup UNION {f[c] : c \in ToSet(Listing[n])}]
<1>1. \E f : Equation(f)
  <2>1. PICK f : f = [n \in Nodes |-> Lower(n)]
    OBVIOUS
  <2>2. \A n \in Nodes : \A c \in ToSet(Listing[n]) : f[c] = Lower(c)
    BY <2>1, TreeAssumption DEF ToSet
  <2>3. \A n \in Nodes : {f[c] : c \in ToSet(Listing[n])} = {Lower(c) : c \in ToSet(Listing[n])}
    BY <2>2
  <2>4. \A n \in Nodes : f[n] = {n} \cup UNION {f[c] : c \in ToSet(Listing[n])}
    BY <2>1, <2>3, LowerFacts
  <2> QED BY <2>1, <2>4
<1>2. Beneath = CHOOSE f : Equation(f)
  BY DEF Beneath
<1>3. Equation(Beneath)
  <2> HIDE DEF Equation
  <2> QED BY <1>1, <1>2
<1>4. \A n \in Nodes : Beneath[n] = {n} \cup UNION {Beneath[c] : c \in ToSet(Listing[n])}
  BY <1>3
<1> QED BY <1>4

-----------------------------------------------------------------------------
(* What holds of a walker after every turn *)

FramesSound(w) ==
    /\ Handles(w.frames, w.open_handles, w.options.max_open)
    /\ Nested(w.frames, w.active_directories, w.root)
    /\ \A i \in DOMAIN w.frames : w.frames[i].path # << >>

\* A directory about to be entered exists, and is neither open already nor outside the root.
CanEnter(p, w) ==
    /\ p.path # << >> /\ Real(Last(p.path)) \in Nodes
    /\ Enterable(p.identity, w.active_directories, w.root)

PendingSound(w) == w.pending_directory # None => CanEnter(w.pending_directory[1], w)

\* The root has been resolved.
RootSound(w) ==
    /\ w.options.max_open > 0 /\ Kind[w.root] # "link"
    /\ w.root_path # << >> /\ Real(Last(w.root_path)) = w.root

Sound(w) ==
    /\ w \in Walkers /\ FramesSound(w) /\ PendingSound(w) /\ RootSound(w)
    /\ w.yield_root => w.frames = << >> /\ w.pending_directory = None

TurnOK(turn) == Sound(turn.walker) /\ turn.item \in Optional(Item)

LEMMA WalkerFields ==
  ASSUME NEW w \in Walkers
  PROVE  /\ w.root \in Nodes /\ w.root_path \in Seq(Nodes) /\ w.options \in Options
         /\ w.frames \in Seq(Frame) /\ w.open_handles \in Nat /\ w.yield_root \in BOOLEAN
         /\ w.pending_directory \in Optional(PendingDirectory) /\ w.skip_pending \in BOOLEAN
         /\ w.active_directories \in SUBSET Nodes /\ w.finished \in BOOLEAN
         /\ w.deferred_entry \in Optional(Item) /\ w.plain_entries \in BOOLEAN
         /\ w.options.max_open \in Nat
<1>1. w.options \in Options
  BY DEF Walkers
<1>2. w.options.max_open \in Nat
  BY <1>1 DEF Options
<1> QED BY <1>2 DEF Walkers

\* The configuration of a walker never changes, nor do its open directories here.
SameFrames(w, v) ==
    /\ v \in Walkers
    /\ v.root = w.root /\ v.root_path = w.root_path /\ v.options = w.options
    /\ v.frames = w.frames /\ v.open_handles = w.open_handles
    /\ v.active_directories = w.active_directories

LEMMA SoundWithPending ==
  ASSUME NEW w, Sound(w), NEW v, SameFrames(w, v),
         v.yield_root => w.yield_root /\ v.pending_directory = None,
         \/ v.pending_directory = w.pending_directory
         \/ v.pending_directory = None
         \/ v.pending_directory # None /\ CanEnter(v.pending_directory[1], w)
  PROVE  Sound(v)
<1>1. FramesSound(v) /\ RootSound(v)
  BY DEF Sound, FramesSound, RootSound, SameFrames
<1>2. PendingSound(v)
  BY DEF Sound, PendingSound, CanEnter, SameFrames
<1> QED BY <1>1, <1>2 DEF Sound, SameFrames

LEMMA YieldErrorSound ==
  ASSUME NEW w, Sound(w), NEW e \in Item
  PROVE  TurnOK(yield_error(w, e))
<1>1. w \in Walkers /\ w.options.max_open \in Nat
  BY WalkerFields DEF Sound
<1>2. yield_error(w, e).item \in Optional(Item)
  BY SomeFacts DEF yield_error, Returns
<1>3. CASE w.options.abort
  <2>1. PICK v : v = [w EXCEPT !.finished = TRUE, !.frames = <<>>, !.open_handles = 0,
                               !.pending_directory = None, !.active_directories = {}]
    OBVIOUS
  <2>2. << >> \in Seq(Frame) /\ None \in Optional(PendingDirectory)
    BY DEF Optional, None
  <2>3. /\ v \in Walkers /\ v.frames = << >> /\ v.open_handles = 0 /\ v.pending_directory = None
        /\ v.active_directories = {} /\ v.options = w.options /\ v.root = w.root
        /\ v.root_path = w.root_path
    BY <1>1, <2>1, <2>2 DEF Walkers
  <2>4. FramesSound(v)
    BY <1>1, <2>3, NoFrames DEF FramesSound
  <2>5. Sound(v)
    BY <2>3, <2>4 DEF Sound, PendingSound, RootSound
  <2> QED BY <1>2, <1>3, <2>1, <2>5 DEF yield_error, Returns, TurnOK
<1>4. CASE ~w.options.abort
  BY <1>2, <1>4 DEF yield_error, Returns, TurnOK
<1> QED BY <1>3, <1>4

LEMMA TakeDeferredSound ==
  ASSUME NEW w, Sound(w), HasDeferred(w)
  PROVE  TurnOK(TakeDeferred(w))
<1>1. w \in Walkers /\ w.deferred_entry # None /\ w.deferred_entry \in Optional(Item)
  BY WalkerFields DEF Sound, HasDeferred
<1>2. Some(w.deferred_entry[1]) \in Optional(Item)
  BY <1>1, OptionalFacts, SomeFacts
<1>3. PICK v : v = [w EXCEPT !.deferred_entry = None]
  OBVIOUS
<1>4. None \in Optional(Item)
  BY DEF Optional, None
<1>5. SameFrames(w, v) /\ v.pending_directory = w.pending_directory /\ v.yield_root = w.yield_root
  BY <1>1, <1>3, <1>4 DEF Walkers, SameFrames
<1>6. Sound(v)
  BY <1>5, SoundWithPending DEF Sound
<1> QED BY <1>2, <1>3, <1>6 DEF TakeDeferred, Returns, TurnOK

LEMMA SkipSound ==
  ASSUME NEW w, Sound(w)
  PROVE  /\ Sound(skip_current_dir(w))
         /\ skip_current_dir(w).pending_directory = w.pending_directory
         /\ skip_current_dir(w).yield_root = w.yield_root
<1>1. PICK v : v = [w EXCEPT !.skip_pending = TRUE]
  OBVIOUS
<1>2. SameFrames(w, v) /\ v.pending_directory = w.pending_directory /\ v.yield_root = w.yield_root
  BY <1>1 DEF Sound, Walkers, SameFrames
<1>3. Sound(v)
  BY <1>2, SoundWithPending DEF Sound
<1> QED BY <1>1, <1>2, <1>3 DEF skip_current_dir
\* An entry is prepared with its directory already waiting to be entered.
LEMMA PrepareSound ==
  ASSUME NEW w, Sound(w), NEW entry \in Item,
         IsDir(entry) /\ entry.skip = "none" => w.pending_directory # None
  PROVE  TurnOK(prepare_entry(w, entry))
<1> DEFINE o == w.options
           node == Last(entry.path)
<1>1. TurnOK(GoesOn(w)) /\ TurnOK(Returns(w, entry))
  <2>1. None \in Optional(Item)
    BY DEF Optional, None
  <2> QED BY <2>1, SomeFacts DEF GoesOn, Returns, TurnOK
<1>2. CASE entry.kind = "file" /\ Real(node) \in o.stdout
  BY <1>1, <1>2 DEF prepare_entry
<1>3. CASE ~(entry.kind = "file" /\ Real(node) \in o.stdout) /\ node \in o.filter
  <2>1. prepare_entry(w, entry) =
          GoesOn(IF IsDir(entry)
                 THEN [skip_current_dir(w) EXCEPT !.finished = @ \/ entry.depth = 0]
                 ELSE w)
    BY <1>3 DEF prepare_entry
  <2>2. PICK s : s = skip_current_dir(w)
    OBVIOUS
  <2>3. PICK b \in BOOLEAN : b = (s.finished \/ entry.depth = 0)
    OBVIOUS
  <2>4. PICK v : v = [s EXCEPT !.finished = b]
    OBVIOUS
  <2>5. Sound(s)
    BY <2>2, SkipSound
  <2>6. SameFrames(s, v) /\ v.pending_directory = s.pending_directory /\ v.yield_root = s.yield_root
    BY <2>4, <2>5 DEF Sound, Walkers, SameFrames
  <2>7. Sound(v)
    BY <2>5, <2>6, SoundWithPending DEF Sound
  <2>8. [skip_current_dir(w) EXCEPT !.finished = @ \/ entry.depth = 0] = v
    BY <2>2, <2>3, <2>4
  <2>9. None \in Optional(Item)
    BY DEF Optional, None
  <2> QED BY <1>1, <2>1, <2>7, <2>8, <2>9 DEF GoesOn, TurnOK
<1>4. CASE ~(entry.kind = "file" /\ Real(node) \in o.stdout) /\ node \notin o.filter
  <2>1. CASE o.contents_first /\ IsDir(entry) /\ entry.skip = "none"
    <3>1. prepare_entry(w, entry) =
            GoesOn(IF entry.depth >= o.min_depth
                   THEN [w EXCEPT !.pending_directory[1].post_entry = Some(entry)]
                   ELSE w)
      BY <1>4, <2>1 DEF prepare_entry
    <3>2. w \in Walkers /\ w.pending_directory # None /\ w.pending_directory \in Optional(PendingDirectory)
      BY <2>1, WalkerFields DEF Sound
    <3>3. PICK p \in PendingDirectory : p = w.pending_directory[1] /\ w.pending_directory = Some(p)
      BY <3>2, OptionalFacts
    <3>4. PICK q : q = [p EXCEPT !.post_entry = Some(entry)]
      OBVIOUS
    <3>5. q \in PendingDirectory /\ q.path = p.path /\ q.identity = p.identity
      BY <3>4, SomeFacts DEF PendingDirectory
    <3>6. PICK v : v = [w EXCEPT !.pending_directory[1].post_entry = Some(entry)]
      OBVIOUS
    <3>7. v = [w EXCEPT !.pending_directory = Some(q)]
      <4>1. [w.pending_directory EXCEPT ![1] = q] = Some(q)
        BY <3>3 DEF Some
      <4> QED BY <3>3, <3>4, <3>6, <4>1
    <3>8. Some(q) \in Optional(PendingDirectory) /\ Some(q) # None /\ Some(q)[1] = q
      BY <3>5, SomeFacts
    <3>9. SameFrames(w, v) /\ v.pending_directory = Some(q) /\ v.yield_root = w.yield_root
      BY <3>2, <3>7, <3>8 DEF Walkers, SameFrames
    <3>10. CanEnter(q, w) /\ w.yield_root = FALSE
      BY <3>2, <3>3, <3>5, WalkerFields DEF Sound, PendingSound, CanEnter
    <3>11. Sound(v)
      BY <3>8, <3>9, <3>10, SoundWithPending
    <3>12. None \in Optional(Item)
      BY DEF Optional, None
    <3> QED BY <1>1, <3>1, <3>6, <3>11, <3>12 DEF GoesOn, TurnOK
  <2>2. CASE ~(o.contents_first /\ IsDir(entry) /\ entry.skip = "none")
    <3>1. prepare_entry(w, entry) = IF entry.depth >= o.min_depth THEN Returns(w, entry) ELSE GoesOn(w)
      BY <1>4, <2>2 DEF prepare_entry
    <3> QED BY <1>1, <3>1
  <2> QED BY <2>1, <2>2
<1> QED BY <1>2, <1>3, <1>4

\* A directory that may be entered becomes the one that waits.
LEMMA PendSound ==
  ASSUME NEW w, Sound(w), w.yield_root = FALSE, NEW path \in Seq(Nodes), NEW depth \in Nat,
         NEW identity \in Optional(Nodes), CanEnter(Pending(path, depth, identity), w)
  PROVE  /\ Sound([w EXCEPT !.pending_directory = Some(Pending(path, depth, identity))])
         /\ [w EXCEPT !.pending_directory = Some(Pending(path, depth, identity))].pending_directory # None
<1>1. PICK p : p = Pending(path, depth, identity)
  OBVIOUS
<1>2. p \in PendingDirectory
  <2>1. None \in Optional(Item)
    BY DEF Optional, None
  <2> QED BY <1>1, <2>1 DEF Pending, PendingDirectory
<1>3. Some(p) \in Optional(PendingDirectory) /\ Some(p) # None /\ Some(p)[1] = p
  BY <1>2, SomeFacts
<1>4. PICK v : v = [w EXCEPT !.pending_directory = Some(p)]
  OBVIOUS
<1>5. SameFrames(w, v) /\ v.pending_directory = Some(p) /\ v.yield_root = FALSE
  BY <1>3, <1>4 DEF Sound, Walkers, SameFrames
<1>6. Sound(v)
  BY <1>1, <1>3, <1>5, SoundWithPending
<1> QED BY <1>1, <1>3, <1>4, <1>5, <1>6

LEMMA VisitPlainSound ==
  ASSUME NEW w, Sound(w), w.yield_root = FALSE, NEW path \in Seq(Nodes), path # << >>,
         NEW depth \in Nat, NEW node \in Nodes, Real(Last(path)) = Real(node)
  PROVE  TurnOK(visit_plain(w, path, depth, node))
<1>1. Entry(path, depth, Kind[node], "none") \in Item
  BY TreeAssumption DEF Entry, Item
<1>2. Some(Entry(path, depth, Kind[node], "none")) \in Optional(Item)
  BY <1>1, SomeFacts
<1>3. CASE Kind[node] = "dir"
  <2>1. Real(Last(path)) \in Nodes
    BY <1>3, TreeAssumption DEF Real
  <2>2. None \in Optional(Nodes)
    BY DEF Optional, None
  <2>3. CanEnter(Pending(path, depth, None), w)
    BY <2>1 DEF CanEnter, Pending, Enterable
  <2>4. Sound([w EXCEPT !.pending_directory = Some(Pending(path, depth, None))])
    BY <2>2, <2>3, PendSound
  <2> QED BY <1>2, <1>3, <2>4 DEF visit_plain, Returns, TurnOK
<1>4. CASE Kind[node] # "dir"
  BY <1>2, <1>4 DEF visit_plain, Returns, TurnOK
<1> QED BY <1>3, <1>4
\* What the facts of an entry say when none of them failed.
FactsOK(facts, w, depth, node) ==
    /\ facts.kind \in {"file", "dir", "link"}
    /\ facts.skip \in {"none", "PathEscape", "FileSystemBoundary"}
    /\ facts.identity \in Optional(Nodes)
    /\ facts.kind = "dir" => Real(node) \in Nodes
    /\ facts.identity # None => facts.identity[1] = Real(node)
    /\ facts.identity # None /\ depth # 0 => Real(node) \in Beneath[w.root]

LEMMA EntryFactsSound ==
  ASSUME NEW w, Sound(w), NEW path \in Seq(Nodes), NEW depth \in Nat, NEW node \in Nodes
  PROVE  /\ entry_facts(w, path, depth, node).error \in Optional(Item)
         /\ entry_facts(w, path, depth, node).error = None =>
               FactsOK(entry_facts(w, path, depth, node), w, depth, node)
<1> DEFINE o       == w.options
           is_link == Kind[node] = "link"
           broken  == is_link /\ o.follow_links
                      /\ (Real(node) = Gone \/ Fails(o, Real(node), "ReadMetadata"))
           kind    == IF is_link /\ ~o.follow_links THEN "link"
                      ELSE IF broken THEN "none" ELSE Kind[Real(node)]
           looks   == \/ is_link /\ o.follow_links
                      \/ kind = "dir" /\ (o.same_file_system \/ o.follow_links)
           skip    == IF looks /\ ~broken THEN Boundary(w, depth, Real(node)) ELSE "none"
           failure == IF broken THEN "ReadMetadata"
                      ELSE IF looks /\ depth # 0 /\ Fails(o, node, "Canonicalize") THEN "Canonicalize"
                      ELSE IF looks /\ skip # "PathEscape" /\ kind = "dir"
                              /\ Fails(o, Real(node), "ReadMetadata") THEN "ReadMetadata"
                      ELSE "none"
           facts   == entry_facts(w, path, depth, node)
<1>1. /\ facts.error = IF failure = "none" THEN None ELSE Some(Error(path, depth, failure))
      /\ facts.kind = kind /\ facts.skip = skip
      /\ facts.identity = IF o.follow_links /\ kind = "dir" /\ skip # "PathEscape"
                          THEN Some(Real(node)) ELSE None
  BY DEF entry_facts
<1>2. failure \in {"ReadMetadata", "Canonicalize", "none"} /\ (broken => failure = "ReadMetadata")
  OBVIOUS
<1>3. ~broken => kind \in {"file", "dir", "link"} /\ (kind = "dir" => Real(node) \in Nodes)
  BY TreeAssumption DEF Real
<1>4. kind = "dir" => ~broken
  OBVIOUS
<1>5. skip \in {"none", "PathEscape", "FileSystemBoundary"}
  BY DEF Boundary
<1>6. kind = "dir" /\ o.follow_links /\ skip # "PathEscape" /\ depth # 0 => Real(node) \in Beneath[w.root]
  BY <1>4 DEF Boundary
<1> HIDE DEF failure, skip, looks, kind, broken, facts
<1>7. facts.error \in Optional(Item) /\ (facts.error = None => ~broken)
  <2>1. \A f \in {"ReadMetadata", "Canonicalize"} : Error(path, depth, f) \in Item
    BY DEF Error, Item, Operations
  <2>2. \A f \in {"ReadMetadata", "Canonicalize"} :
          Some(Error(path, depth, f)) \in Optional(Item) /\ Some(Error(path, depth, f)) # None
    BY <2>1, SomeFacts
  <2>3. None \in Optional(Item)
    BY DEF Optional, None
  <2> QED BY <1>1, <1>2, <2>2, <2>3
<1>8. ASSUME ~broken PROVE FactsOK(facts, w, depth, node)
  <2>1. CASE o.follow_links /\ kind = "dir" /\ skip # "PathEscape"
    <3>1. facts.identity = Some(Real(node)) /\ Real(node) \in Nodes
      BY <1>1, <1>3, <1>8, <2>1
    <3>2. facts.identity \in Optional(Nodes) /\ facts.identity[1] = Real(node)
      BY <3>1, SomeFacts
    <3> QED BY <1>1, <1>3, <1>5, <1>6, <1>8, <2>1, <3>1, <3>2 DEF FactsOK
  <2>2. CASE ~(o.follow_links /\ kind = "dir" /\ skip # "PathEscape")
    <3>1. facts.identity = None /\ None \in Optional(Nodes)
      BY <1>1, <2>2 DEF Optional, None
    <3> QED BY <1>1, <1>3, <1>5, <1>8, <3>1 DEF FactsOK
  <2> QED BY <2>1, <2>2
<1> QED BY <1>7, <1>8 DEF facts

LEMMA VisitSound ==
  ASSUME NEW w, Sound(w), w.yield_root = FALSE, NEW path \in Seq(Nodes), path # << >>,
         NEW depth \in Nat, NEW node \in Nodes, Real(Last(path)) = Real(node),
         depth = 0 => w.active_directories = {} /\ Real(node) = w.root,
         NEW facts, FactsOK(facts, w, depth, node)
  PROVE  /\ Sound(visit(w, path, depth, facts).walker)
         /\ visit(w, path, depth, facts).entry \in Item
         /\ IsDir(visit(w, path, depth, facts).entry) /\ visit(w, path, depth, facts).entry.skip = "none" =>
               visit(w, path, depth, facts).walker.pending_directory # None
<1>1. PICK skip : skip = SkipReason(w, facts, depth)
  OBVIOUS
<1>2. skip \in {"none", "PathEscape", "FileSystemBoundary", "MaxDepth", "SymlinkLoop"}
  BY <1>1 DEF SkipReason, FactsOK
<1>3. PICK e : e = Entry(path, depth, facts.kind, skip)
  OBVIOUS
<1>4. e \in Item /\ e.kind = facts.kind /\ e.skip = skip
  BY <1>2, <1>3 DEF Entry, Item, FactsOK
<1>5. CASE facts.kind = "dir" /\ skip = "none"
  <2>1. facts.skip = "none" /\ (depth # 0 => ToSet(facts.identity) \cap w.active_directories = {})
    BY <1>1, <1>5 DEF SkipReason
  <2>2. Enterable(facts.identity, w.active_directories, w.root)
    <3> SUFFICES ASSUME facts.identity # None
                 PROVE  facts.identity[1] \notin w.active_directories /\ facts.identity[1] \in Beneath[w.root]
      BY DEF Enterable
    <3>1. facts.identity \in Optional(Nodes) /\ facts.identity[1] = Real(node)
      BY DEF FactsOK
    <3>2. ToSet(facts.identity) = {Real(node)}
      BY <3>1, OptionalFacts
    <3>3. CASE depth = 0
      <4>1. w.root \in Nodes
        BY WalkerFields DEF Sound
      <4> QED BY <3>1, <3>3, <4>1, BeneathItself
    <3>4. CASE depth # 0
      BY <2>1, <3>1, <3>2, <3>4 DEF FactsOK
    <3> QED BY <3>3, <3>4
  <2>3. CanEnter(Pending(path, depth, facts.identity), w)
    BY <1>5, <2>2 DEF CanEnter, Pending, FactsOK
  <2>4. PICK v : v = [w EXCEPT !.pending_directory = Some(Pending(path, depth, facts.identity))]
    OBVIOUS
  <2>5. Sound(v) /\ v.pending_directory # None
    BY <2>3, <2>4, PendSound DEF FactsOK
  <2>6. visit(w, path, depth, facts).walker = v /\ visit(w, path, depth, facts).entry = e
    BY <1>1, <1>3, <1>5, <2>4 DEF visit
  <2> QED BY <1>4, <2>5, <2>6
<1>6. CASE ~(facts.kind = "dir" /\ skip = "none")
  <2>1. visit(w, path, depth, facts).walker = w /\ visit(w, path, depth, facts).entry = e
    BY <1>1, <1>3, <1>6 DEF visit
  <2> QED BY <1>4, <1>6, <2>1 DEF IsDir
<1> QED BY <1>5, <1>6

LEMMA VisitAndPrepareSound ==
  ASSUME NEW w, Sound(w), w.yield_root = FALSE, NEW path \in Seq(Nodes), path # << >>,
         NEW depth \in Nat, NEW node \in Nodes, Real(Last(path)) = Real(node),
         depth = 0 => w.active_directories = {} /\ Real(node) = w.root
  PROVE  TurnOK(VisitAndPrepare(w, path, depth, node))
<1>1. PICK facts : facts = entry_facts(w, path, depth, node)
  OBVIOUS
<1>2. facts.error \in Optional(Item) /\ (facts.error = None => FactsOK(facts, w, depth, node))
  BY <1>1, EntryFactsSound
<1>3. VisitAndPrepare(w, path, depth, node) = VisitWith(w, path, depth, facts)
  BY <1>1 DEF VisitAndPrepare
<1>4. CASE facts.error # None
  <2>1. facts.error[1] \in Item
    BY <1>2, <1>4, OptionalFacts
  <2> QED BY <1>3, <1>4, <2>1, YieldErrorSound DEF VisitWith
<1>5. CASE facts.error = None
  <2>1. PICK seen : seen = visit(w, path, depth, facts)
    OBVIOUS
  <2>2. /\ Sound(seen.walker) /\ seen.entry \in Item
        /\ IsDir(seen.entry) /\ seen.entry.skip = "none" => seen.walker.pending_directory # None
    BY <1>2, <1>5, <2>1, VisitSound
  <2>3. VisitAndPrepare(w, path, depth, node) = prepare_entry(seen.walker, seen.entry)
    BY <1>3, <1>5, <2>1 DEF VisitWith, Prepared
  <2> QED BY <2>2, <2>3, PrepareSound
<1> QED BY <1>4, <1>5

LEMMA TakeRootSound ==
  ASSUME NEW w, Sound(w), AtRoot(w)
  PROVE  TurnOK(take_root_entry(w))
<1>1. PICK v : v = [w EXCEPT !.yield_root = FALSE]
  OBVIOUS
<1>2. w \in Walkers /\ w.yield_root
  BY DEF Sound, AtRoot
<1>3. w.frames = << >> /\ w.pending_directory = None
  BY <1>2 DEF Sound
<1>4. SameFrames(w, v) /\ v.pending_directory = None /\ v.yield_root = FALSE
  BY <1>1, <1>2, <1>3 DEF Walkers, SameFrames
<1>5. Sound(v)
  BY <1>4, SoundWithPending
<1>6. /\ w.root \in Nodes /\ w.root_path \in Seq(Nodes) /\ w.root_path # << >>
      /\ Real(Last(w.root_path)) = w.root /\ Real(w.root) = w.root
  <2>1. w.root \in Nodes /\ w.root_path \in Seq(Nodes)
    BY <1>2, WalkerFields
  <2> QED BY <2>1, TreeAssumption DEF Sound, RootSound, Real
<1>7. v.active_directories = {} /\ v.root = w.root
  <2>1. Named(w.frames) = {}
    BY <1>3 DEF Named
  <2>2. w.active_directories = {}
    BY <2>1 DEF Sound, FramesSound, Nested
  <2> QED BY <1>4, <2>2 DEF SameFrames
<1>8. TurnOK(visit_plain(v, w.root_path, 0, w.root))
  BY <1>4, <1>5, <1>6, VisitPlainSound
<1>9. TurnOK(VisitAndPrepare(v, w.root_path, 0, w.root))
  BY <1>4, <1>5, <1>6, <1>7, VisitAndPrepareSound
<1> QED BY <1>1, <1>8, <1>9 DEF take_root_entry
\* Between two entries no directory waits, and the frame on top says where to go on.
LEMMA InFramesFacts ==
  ASSUME NEW w, Sound(w), InFrames(w)
  PROVE  /\ w \in Walkers /\ w.frames \in Seq(Frame) /\ w.frames # << >>
         /\ w.pending_directory = None /\ w.yield_root = FALSE
         /\ Len(w.frames) \in DOMAIN w.frames /\ Top(w) = w.frames[Len(w.frames)] /\ Top(w) \in Frame
         /\ Top(w).path # << >> /\ Top(w).path \in Seq(Nodes) /\ Top(w).depth \in Nat
         /\ Top(w).entries \in Seq(Nodes) /\ Top(w).open \in BOOLEAN
         /\ Top(w).identity \in Optional(Nodes) /\ Top(w).post_entry \in Optional(Item)
<1>1. w \in Walkers /\ w.frames # << >> /\ w.pending_directory = None /\ w.yield_root \in BOOLEAN /\ ~w.yield_root
  BY WalkerFields DEF Sound, InFrames
<1>2. w.frames \in Seq(Frame)
  BY <1>1, WalkerFields
<1>3. Len(w.frames) \in DOMAIN w.frames
  BY <1>1, <1>2, FrontFacts
<1>4. Top(w) = w.frames[Len(w.frames)] /\ Top(w) \in Frame /\ Top(w).path # << >>
  BY <1>2, <1>3, StackFacts DEF Top, Sound, FramesSound
<1>5. \A f \in Frame : /\ f.path \in Seq(Nodes) /\ f.depth \in Nat /\ f.entries \in Seq(Nodes)
                       /\ f.open \in BOOLEAN /\ f.identity \in Optional(Nodes)
                       /\ f.post_entry \in Optional(Item)
  BY DEF Frame
<1> QED BY <1>1, <1>2, <1>3, <1>4, <1>5

LEMMA FrameEndsSound ==
  ASSUME NEW w, Sound(w), InFrames(w)
  PROVE  TurnOK(frame_ends(w))
<1> DEFINE frame == Top(w)
<1>0. /\ w \in Walkers /\ w.frames \in Seq(Frame) /\ w.frames # << >>
      /\ w.pending_directory = None /\ w.yield_root = FALSE
      /\ Len(w.frames) \in DOMAIN w.frames /\ Top(w) = w.frames[Len(w.frames)] /\ Top(w) \in Frame
      /\ Top(w).path # << >> /\ Top(w).path \in Seq(Nodes) /\ Top(w).depth \in Nat
      /\ Top(w).entries \in Seq(Nodes) /\ Top(w).open \in BOOLEAN
      /\ Top(w).identity \in Optional(Nodes) /\ Top(w).post_entry \in Optional(Item)
  BY InFramesFacts
<1>1. PICK h : h = IF frame.open THEN w.open_handles - 1 ELSE w.open_handles
  OBVIOUS
<1>2. /\ Handles(w.frames, w.open_handles, w.options.max_open)
      /\ Nested(w.frames, w.active_directories, w.root) /\ w.open_handles \in Nat
      /\ w.options.max_open \in Nat
  BY WalkerFields, <1>0 DEF Sound, FramesSound
<1>3. Handles(Front(w.frames), h, w.options.max_open) /\ h \in Nat
  <2>1. frame.open = FALSE => Handles(Front(w.frames), w.open_handles, w.options.max_open)
    BY <1>2, <1>0, PopHandles
  <2>2. frame.open = TRUE => /\ Handles(Front(w.frames), w.open_handles - 1, w.options.max_open)
                             /\ w.open_handles > 0
    BY <1>2, <1>0, PopHandles
  <2>3. frame.open = TRUE \/ frame.open = FALSE
    BY <1>0
  <2> HIDE DEF frame
  <2> QED BY <1>1, <1>2, <2>1, <2>2, <2>3
<1>4. PICK active : active = w.active_directories \ ToSet(frame.identity)
  OBVIOUS
<1>5. Nested(Front(w.frames), active, w.root) /\ active \in SUBSET Nodes
  BY <1>2, <1>4, <1>0, PopNested, WalkerFields
<1>6. Front(w.frames) \in Seq(Frame) /\ \A i \in DOMAIN Front(w.frames) : Front(w.frames)[i].path # << >>
  <2>1. \A i \in DOMAIN w.frames : w.frames[i].path # << >>
    BY DEF Sound, FramesSound
  <2>2. /\ Front(w.frames) \in Seq(Frame)
        /\ \A i \in DOMAIN Front(w.frames) : i \in DOMAIN w.frames /\ Front(w.frames)[i] = w.frames[i]
    BY <1>0, FrontFacts
  <2> QED BY <2>1, <2>2
<1>7. PICK v : v = [w EXCEPT !.frames = Front(@), !.open_handles = h, !.active_directories = active]
  OBVIOUS
<1>8. /\ v \in Walkers /\ v.frames = Front(w.frames) /\ v.open_handles = h
      /\ v.active_directories = active /\ v.root = w.root /\ v.root_path = w.root_path
      /\ v.options = w.options /\ v.pending_directory = None /\ v.yield_root = FALSE
  BY <1>3, <1>5, <1>6, <1>7, <1>0 DEF Walkers
<1>9. Sound(v)
  <2>1. FramesSound(v)
    BY <1>3, <1>5, <1>6, <1>8 DEF FramesSound
  <2>2. PendingSound(v) /\ RootSound(v)
    BY <1>8 DEF PendingSound, RootSound, Sound
  <2> QED BY <1>8, <2>1, <2>2 DEF Sound
<1>10. frame_ends(w) = IF frame.post_entry # None THEN Returns(v, frame.post_entry[1]) ELSE GoesOn(v)
  <2>1. v = [w EXCEPT !.frames = Front(@),
                      !.open_handles = IF frame.open THEN @ - 1 ELSE @,
                      !.active_directories = @ \ ToSet(frame.identity)]
    BY <1>1, <1>4, <1>7
  <2> QED BY <2>1 DEF frame_ends
<1>11. None \in Optional(Item) /\ (frame.post_entry # None => Some(frame.post_entry[1]) \in Optional(Item))
  <2>1. None \in Optional(Item)
    BY DEF Optional, None
  <2>2. frame.post_entry # None => frame.post_entry[1] \in Item
    BY <1>0, OptionalFacts
  <2> QED BY <2>1, <2>2, SomeFacts
<1> QED BY <1>9, <1>10, <1>11 DEF Returns, GoesOn, TurnOK

LEMMA ReadEntrySound ==
  ASSUME NEW w, Sound(w), InFrames(w), Top(w).entries # << >>
  PROVE  TurnOK(read_entry(w))
<1> DEFINE o     == w.options
           frame == Top(w)
           node  == Head(frame.entries)
           path  == Append(frame.path, node)
           depth == frame.depth + 1
<1>0. /\ w \in Walkers /\ w.frames \in Seq(Frame) /\ w.frames # << >>
      /\ w.pending_directory = None /\ w.yield_root = FALSE
      /\ Len(w.frames) \in DOMAIN w.frames /\ Top(w) = w.frames[Len(w.frames)] /\ Top(w) \in Frame
      /\ Top(w).path # << >> /\ Top(w).path \in Seq(Nodes) /\ Top(w).depth \in Nat
      /\ Top(w).entries \in Seq(Nodes) /\ Top(w).open \in BOOLEAN
      /\ Top(w).identity \in Optional(Nodes) /\ Top(w).post_entry \in Optional(Item)
  BY InFramesFacts
<1>1. /\ node \in Nodes /\ Tail(frame.entries) \in Seq(Nodes) /\ path \in Seq(Nodes) /\ path # << >>
      /\ Last(path) = node /\ depth \in Nat /\ depth # 0 /\ frame.path \in Seq(Nodes)
  <2>1. node \in Nodes /\ Tail(frame.entries) \in Seq(Nodes)
    BY <1>0, TailFacts
  <2>2. path \in Seq(Nodes) /\ Len(path) = Len(frame.path) + 1 /\ path[Len(frame.path) + 1] = node
    BY <2>1, <1>0, AppendFacts
  <2>3. Last(path) = node /\ path # << >>
    BY <2>2, <1>0 DEF Last
  <2> QED BY <2>1, <2>2, <2>3, <1>0
<1>2. PICK l : l = Len(w.frames)
  OBVIOUS
<1>3. PICK f : f = [frame EXCEPT !.entries = Tail(frame.entries)]
  OBVIOUS
<1>4. f \in Frame /\ f.open = frame.open /\ f.identity = frame.identity /\ f.path = frame.path
  BY <1>1, <1>3, <1>0 DEF Frame
<1>5. PICK fs : fs = [w.frames EXCEPT ![l] = f]
  OBVIOUS
<1>6. /\ DOMAIN fs = DOMAIN w.frames /\ l \in DOMAIN fs /\ fs[l] = f /\ w.frames[l] = frame
      /\ \A i \in DOMAIN fs : i # l => fs[i] = w.frames[i]
  BY <1>2, <1>5, <1>0
<1>7. fs \in Seq(Frame)
  <2>1. \A i \in 1 .. Len(w.frames) : fs[i] \in Frame
    BY <1>4, <1>6, <1>0, StackFacts
  <2>2. fs = [i \in 1 .. Len(w.frames) |-> fs[i]]
    BY <1>5, <1>6, <1>0, StackFacts
  <2>3. fs \in [1 .. Len(w.frames) -> Frame]
    BY <2>1, <2>2
  <2>4. Len(w.frames) \in Nat
    BY <1>0
  <2> QED BY <2>3, <2>4
<1>8. SameStack(w.frames, fs) /\ \A i \in DOMAIN fs : fs[i].path # << >>
  BY <1>4, <1>6 DEF SameStack, Sound, FramesSound
<1>9. PICK rest : rest = [w EXCEPT !.frames[Len(w.frames)].entries = Tail(@)]
  OBVIOUS
<1>10. rest = [w EXCEPT !.frames = fs]
  <2>1. w.frames[l] = frame
    BY <1>6
  <2> HIDE DEF frame
  <2> QED BY <1>2, <1>3, <1>5, <1>9, <2>1
<1>11. /\ rest \in Walkers /\ rest.frames = fs /\ rest.open_handles = w.open_handles
       /\ rest.active_directories = w.active_directories /\ rest.root = w.root
       /\ rest.root_path = w.root_path /\ rest.options = w.options
       /\ rest.pending_directory = None /\ rest.yield_root = FALSE
  BY <1>7, <1>10, <1>0 DEF Walkers
<1>12. Sound(rest)
  <2>1. Handles(fs, w.open_handles, w.options.max_open)
    BY <1>8, SameHandles DEF Sound, FramesSound
  <2>2. Nested(fs, w.active_directories, w.root)
    BY <1>6, <1>8, SameNested DEF Sound, FramesSound, SameStack
  <2>3. FramesSound(rest)
    BY <1>8, <1>11, <2>1, <2>2 DEF FramesSound
  <2>4. PendingSound(rest) /\ RootSound(rest)
    BY <1>11 DEF PendingSound, RootSound, Sound
  <2> QED BY <1>11, <2>3, <2>4 DEF Sound
<1>13. Error(frame.path, depth, "ReadEntry") \in Item /\ Error(path, depth, "ReadMetadata") \in Item
  BY <1>1 DEF Error, Item, Operations
<1> HIDE DEF depth, path, node, frame
<1>14. TurnOK(visit_plain(rest, path, depth, node)) /\ TurnOK(VisitAndPrepare(rest, path, depth, node))
  BY <1>1, <1>11, <1>12, VisitPlainSound, VisitAndPrepareSound
<1>15. /\ TurnOK(yield_error(rest, Error(frame.path, depth, "ReadEntry")))
       /\ TurnOK(yield_error(rest, Error(path, depth, "ReadMetadata")))
  BY <1>12, <1>13, YieldErrorSound
<1>16. \/ read_entry(w) = yield_error(rest, Error(frame.path, depth, "ReadEntry"))
       \/ read_entry(w) = yield_error(rest, Error(path, depth, "ReadMetadata"))
       \/ read_entry(w) = visit_plain(rest, path, depth, node)
       \/ read_entry(w) = VisitAndPrepare(rest, path, depth, node)
  BY <1>9 DEF read_entry, depth, path, node, frame
<1> QED BY <1>14, <1>15, <1>16
\* Buffering the oldest open directory makes room for one more.
LEMMA BufferSound ==
  ASSUME NEW w, Sound(w), w.pending_directory = None, w.open_handles >= w.options.max_open
  PROVE  LET v == buffer_oldest_open_directory(w)
         IN  /\ Sound(v) /\ v.pending_directory = None /\ v.open_handles < v.options.max_open
             /\ v.options = w.options /\ v.root = w.root /\ v.active_directories = w.active_directories
             /\ v.yield_root = w.yield_root
<1> DEFINE open == {i \in DOMAIN w.frames : w.frames[i].open}
<1>1. /\ w \in Walkers /\ w.frames \in Seq(Frame) /\ w.open_handles \in Nat /\ w.options.max_open \in Nat
      /\ w.options.max_open > 0 /\ Handles(w.frames, w.open_handles, w.options.max_open)
      /\ Nested(w.frames, w.active_directories, w.root)
      /\ \A i \in DOMAIN w.frames : w.frames[i].path # << >>
  BY WalkerFields DEF Sound, FramesSound, RootSound
<1>2. open = OpenAt(w.frames)
  BY DEF OpenAt
<1> HIDE DEF open
<1>3. w.open_handles = w.options.max_open /\ open # {}
  <2>1. w.open_handles = Cardinality(OpenAt(w.frames)) /\ w.open_handles <= w.options.max_open
    BY <1>1 DEF Handles
  <2>2. Cardinality({}) = 0
    BY FS_EmptySet
  <2>3. w.open_handles = w.options.max_open /\ w.open_handles # 0
    BY <1>1, <2>1
  <2> QED BY <1>2, <2>1, <2>2, <2>3
<1>4. PICK m \in open : m = Min(open)
  <2>1. PICK n \in Nat : n = Len(w.frames)
    BY <1>1
  <2>2. open \in SUBSET (1 .. n)
    BY <1>1, <1>2, <2>1, StackFacts
  <2>3. PICK k \in open : \A x \in open : ~(x < k)
    BY <1>3, <2>2, LeastNumber
  <2>4. \A x \in open : k <= x
    BY <2>2, <2>3
  <2> QED BY <2>3, <2>4 DEF Min
<1>5. PICK fs : fs = [w.frames EXCEPT ![m].open = FALSE]
  OBVIOUS
<1>6. /\ fs \in Seq(Frame) /\ Handles(fs, w.open_handles - 1, w.options.max_open)
      /\ w.open_handles - 1 \in Nat
  <2>1. m \in OpenAt(w.frames)
    BY <1>2
  <2>2. /\ fs \in Seq(Frame) /\ Handles(fs, w.open_handles - 1, w.options.max_open)
        /\ w.open_handles > 0
    BY <1>1, <1>5, <2>1, CloseHandles
  <2> QED BY <1>1, <2>2
<1>7. /\ DOMAIN fs = DOMAIN w.frames
      /\ \A i \in DOMAIN fs : fs[i].identity = w.frames[i].identity /\ fs[i].path = w.frames[i].path
  <2>1. m \in DOMAIN w.frames /\ w.frames[m] \in Frame
    BY <1>1, <1>2, StackFacts DEF OpenAt
  <2>2. DOMAIN fs = DOMAIN w.frames /\ fs[m] = [w.frames[m] EXCEPT !.open = FALSE]
        /\ \A i \in DOMAIN fs : i # m => fs[i] = w.frames[i]
    BY <1>5, <2>1
  <2>3. fs[m].identity = w.frames[m].identity /\ fs[m].path = w.frames[m].path
    BY <2>1, <2>2 DEF Frame
  <2> QED BY <2>2, <2>3
<1>8. Nested(fs, w.active_directories, w.root)
  BY <1>1, <1>7, SameNested
<1>9. PICK v : v = [w EXCEPT !.frames = fs, !.open_handles = w.open_handles - 1]
  OBVIOUS
<1>10. v = buffer_oldest_open_directory(w)
  <2>1. v = [w EXCEPT !.frames[Min(open)].open = FALSE, !.open_handles = @ - 1]
    BY <1>4, <1>5, <1>9
  <2> QED BY <1>3, <2>1 DEF buffer_oldest_open_directory, open
<1>11. /\ v \in Walkers /\ v.frames = fs /\ v.open_handles = w.open_handles - 1
       /\ v.active_directories = w.active_directories /\ v.root = w.root /\ v.root_path = w.root_path
       /\ v.options = w.options /\ v.pending_directory = None /\ v.yield_root = w.yield_root
  BY <1>1, <1>6, <1>9 DEF Walkers
<1>12. FramesSound(v) /\ PendingSound(v) /\ RootSound(v)
  <2>1. FramesSound(v)
    BY <1>1, <1>6, <1>7, <1>8, <1>11 DEF FramesSound
  <2>2. PendingSound(v) /\ RootSound(v)
    BY <1>11 DEF PendingSound, RootSound, Sound
  <2> QED BY <2>1, <2>2
<1>13. v.yield_root => v.frames = << >>
  <2>1. w.yield_root => w.frames = << >>
    BY DEF Sound
  <2>2. w.frames # << >>
    BY <1>3 DEF open
  <2> QED BY <1>11, <2>1, <2>2
<1>14. Sound(v)
  BY <1>11, <1>12, <1>13 DEF Sound
<1>15. v.open_handles < v.options.max_open
  BY <1>1, <1>3, <1>11
<1> QED BY <1>10, <1>11, <1>14, <1>15

\* Opening a directory pushes its frame.
LEMMA PushSound ==
  ASSUME NEW w, Sound(w), w.pending_directory = None, w.yield_root = FALSE,
         w.open_handles < w.options.max_open,
         NEW f \in Frame, f.path # << >>, Enterable(f.identity, w.active_directories, w.root),
         NEW h, h = IF f.open THEN w.open_handles + 1 ELSE w.open_handles
  PROVE  Sound([w EXCEPT !.frames = Append(@, f), !.open_handles = h,
                         !.active_directories = @ \cup ToSet(f.identity)])
<1>1. /\ w \in Walkers /\ w.frames \in Seq(Frame) /\ w.open_handles \in Nat /\ w.options.max_open \in Nat
      /\ Handles(w.frames, w.open_handles, w.options.max_open)
      /\ Nested(w.frames, w.active_directories, w.root) /\ w.active_directories \in SUBSET Nodes
      /\ \A i \in DOMAIN w.frames : w.frames[i].path # << >>
  BY WalkerFields DEF Sound, FramesSound
<1>2. f.open \in BOOLEAN /\ f.identity \in Optional(Nodes)
  BY DEF Frame
<1>3. PICK fs : fs = Append(w.frames, f)
  OBVIOUS
<1>4. /\ fs \in Seq(Frame) /\ \A i \in DOMAIN fs : fs[i].path # << >>
  <2>1. /\ fs \in Seq(Frame) /\ fs[Len(w.frames) + 1] = f
        /\ \A i \in DOMAIN w.frames : fs[i] = w.frames[i]
        /\ \A i \in DOMAIN fs : i \in DOMAIN w.frames \/ i = Len(w.frames) + 1
    BY <1>1, <1>3, AppendFacts
  <2> QED BY <1>1, <2>1
<1>5. Handles(fs, h, w.options.max_open) /\ h \in Nat
  <2>1. f.open = FALSE => Handles(fs, w.open_handles, w.options.max_open)
    BY <1>1, <1>3, PushHandles
  <2>2. f.open = TRUE => Handles(fs, w.open_handles + 1, w.options.max_open)
    BY <1>1, <1>3, PushHandles
  <2> QED BY <1>1, <1>2, <2>1, <2>2
<1>6. PICK active : active = w.active_directories \cup ToSet(f.identity)
  OBVIOUS
<1>7. Nested(fs, active, w.root) /\ active \in SUBSET Nodes
  <2>1. Nested(fs, active, w.root)
    BY <1>1, <1>3, <1>6, PushNested
  <2>2. ToSet(f.identity) \in SUBSET Nodes
    BY <1>2, OptionalFacts
  <2> QED BY <1>1, <1>6, <2>1, <2>2
<1>8. PICK v : v = [w EXCEPT !.frames = fs, !.open_handles = h, !.active_directories = active]
  OBVIOUS
<1>9. /\ v \in Walkers /\ v.frames = fs /\ v.open_handles = h /\ v.active_directories = active
      /\ v.root = w.root /\ v.root_path = w.root_path /\ v.options = w.options
      /\ v.pending_directory = None /\ v.yield_root = FALSE
  BY <1>1, <1>4, <1>5, <1>7, <1>8 DEF Walkers
<1>10. FramesSound(v)
  BY <1>4, <1>5, <1>7, <1>9 DEF FramesSound
<1>11. PendingSound(v) /\ RootSound(v)
  BY <1>9 DEF PendingSound, RootSound, Sound
<1>12. Sound(v)
  BY <1>9, <1>10, <1>11 DEF Sound
<1> QED BY <1>3, <1>6, <1>8, <1>12
LEMMA ScheduleSound ==
  ASSUME NEW w, Sound(w), HasPending(w)
  PROVE  TurnOK(schedule_pending_directory(w))
<1> DEFINE o == w.options
<1>1. /\ w \in Walkers /\ w.pending_directory # None /\ w.pending_directory \in Optional(PendingDirectory)
      /\ w.yield_root = FALSE /\ o \in Options
  BY WalkerFields DEF Sound, HasPending
<1>2. PICK pending \in PendingDirectory : pending = w.pending_directory[1]
  BY <1>1, OptionalFacts
<1>3. CanEnter(pending, w)
  BY <1>1, <1>2 DEF Sound, PendingSound
<1>4. /\ pending.path \in Seq(Nodes) /\ pending.depth \in Nat /\ pending.identity \in Optional(Nodes)
      /\ pending.post_entry \in Optional(Item)
  BY DEF PendingDirectory
<1>5. PICK node \in Nodes : node = Real(Last(pending.path))
  BY <1>3 DEF CanEnter
<1>6. PICK taken : taken = [w EXCEPT !.pending_directory = None, !.skip_pending = FALSE]
  OBVIOUS
<1>7. None \in Optional(PendingDirectory) /\ None \in Optional(Item)
  BY DEF Optional, None
<1>8. SameFrames(w, taken) /\ taken.pending_directory = None /\ taken.yield_root = FALSE
  BY <1>1, <1>6, <1>7 DEF Walkers, SameFrames
<1>9. Sound(taken)
  BY <1>8, SoundWithPending
<1>10. PICK room : room = IF w.open_handles >= o.max_open THEN buffer_oldest_open_directory(taken) ELSE taken
  OBVIOUS
<1>11. /\ Sound(room) /\ room.pending_directory = None /\ room.yield_root = FALSE
       /\ room.open_handles < room.options.max_open
       /\ room.options = w.options /\ room.root = w.root /\ room.active_directories = w.active_directories
  <2>1. taken.options = w.options /\ taken.open_handles = w.open_handles /\ taken.root = w.root
        /\ taken.active_directories = w.active_directories
    BY <1>8 DEF SameFrames
  <2>2. CASE w.open_handles >= o.max_open
    BY <1>8, <1>9, <1>10, <2>1, <2>2, BufferSound
  <2>3. CASE ~(w.open_handles >= o.max_open)
    <3>1. w.open_handles \in Nat /\ w.options.max_open \in Nat
      BY <1>1, WalkerFields
    <3> QED BY <1>8, <1>9, <1>10, <2>1, <2>3, <3>1
  <2> QED BY <2>2, <2>3
<1>12. room \in Walkers
  BY <1>11 DEF Sound
<1>13. CASE w.skip_pending
  <2>1. schedule_pending_directory(w) = GoesOn(taken)
    BY <1>6, <1>13 DEF schedule_pending_directory
  <2> QED BY <1>7, <1>9, <2>1 DEF GoesOn, TurnOK
<1>14. CASE ~w.skip_pending /\ Fails(o, node, "ReadDirectory")
  <2>1. PICK e : e = Error(pending.path, pending.depth, "ReadDirectory")
    OBVIOUS
  <2>2. e \in Item
    BY <1>4, <2>1 DEF Error, Item, Operations
  <2>3. PICK v : v = [room EXCEPT !.deferred_entry = pending.post_entry]
    OBVIOUS
  <2>4. SameFrames(room, v) /\ v.pending_directory = room.pending_directory /\ v.yield_root = room.yield_root
    BY <1>4, <1>12, <2>3 DEF Walkers, SameFrames
  <2>5. Sound(v)
    BY <1>11, <2>4, SoundWithPending
  <2>6. schedule_pending_directory(w) = yield_error(v, e)
    BY <1>2, <1>5, <1>6, <1>10, <1>14, <2>1, <2>3 DEF schedule_pending_directory
  <2> QED BY <2>2, <2>5, <2>6, YieldErrorSound
<1>15. CASE ~w.skip_pending /\ ~Fails(o, node, "ReadDirectory")
  <2>1. PICK opened \in BOOLEAN : opened = ~o.sorted
    OBVIOUS
  <2>2. PICK entries : entries = IF o.sorted THEN SortedListing(o, node) ELSE Listing[node]
    OBVIOUS
  <2>3. entries \in Seq(Nodes)
    <3>1. Listing[node] \in Seq(Nodes)
      BY TreeAssumption
    <3>2. SortedListing(o, node) \in Seq(Nodes)
      <4>1. PICK key : key = [i \in DOMAIN Listing[node] |->
                                IF Fails(o, Listing[node][i], "ReadEntry") THEN 0
                                ELSE Rank[Listing[node][i]] + 1]
        OBVIOUS
      <4>2. \A i \in DOMAIN Listing[node] : Listing[node][i] \in Nodes
        BY <3>1
      <4>3. \A n \in Nodes : Rank[n] + 1 \in Nat
        BY TreeAssumption
      <4>4. key \in [DOMAIN Listing[node] -> Nat]
        BY <4>1, <4>2, <4>3
      <4>5. SortedListing(o, node) = SortedBy(Listing[node], key)
        BY <4>1 DEF SortedListing
      <4> QED BY <3>1, <4>4, <4>5, SortedByFacts
    <3> QED BY <2>2, <3>1, <3>2
  <2>4. PICK f : f = [path       |-> pending.path,
                      depth      |-> pending.depth,
                      entries    |-> entries,
                      open       |-> opened,
                      identity   |-> pending.identity,
                      post_entry |-> pending.post_entry]
    OBVIOUS
  <2>5. /\ f \in Frame /\ f.path = pending.path /\ f.identity = pending.identity /\ f.open = opened
    BY <1>4, <2>3, <2>4 DEF Frame
  <2>6. PICK h : h = IF f.open THEN room.open_handles + 1 ELSE room.open_handles
    OBVIOUS
  <2>7. PICK v : v = [room EXCEPT !.frames = Append(@, f), !.open_handles = h,
                                  !.active_directories = @ \cup ToSet(f.identity)]
    OBVIOUS
  <2>8. f.path # << >> /\ Enterable(f.identity, room.active_directories, room.root)
    BY <1>3, <1>11, <2>5 DEF CanEnter
  <2>9. Sound(v)
    BY <1>11, <2>5, <2>6, <2>7, <2>8, PushSound
  <2>10. h = IF o.sorted THEN room.open_handles ELSE room.open_handles + 1
    BY <2>1, <2>5, <2>6
  <2>11. v = [room EXCEPT !.frames = Append(@, f),
                          !.open_handles = IF o.sorted THEN @ ELSE @ + 1,
                          !.active_directories = @ \cup ToSet(pending.identity)]
    BY <2>5, <2>7, <2>10
  <2>12. f = [path       |-> pending.path,
              depth      |-> pending.depth,
              entries    |-> IF o.sorted THEN SortedListing(o, node) ELSE Listing[node],
              open       |-> ~o.sorted,
              identity   |-> pending.identity,
              post_entry |-> pending.post_entry]
    BY <2>1, <2>2, <2>4
  <2>13. schedule_pending_directory(w) = GoesOn(v)
    BY <1>2, <1>5, <1>6, <1>10, <1>15, <2>11, <2>12 DEF schedule_pending_directory
  <2> QED BY <1>7, <2>9, <2>13 DEF GoesOn, TurnOK
<1> QED BY <1>13, <1>14, <1>15

-----------------------------------------------------------------------------
(* Construction *)

LEMMA NormalizedFacts ==
  ASSUME NEW o \in Options
  PROVE  normalized(o) \in Options /\ normalized(o).max_open > 0
<1>1. o.max_open \in Nat /\ o.min_depth \in Nat /\ o.max_depth \in Optional(Nat)
  BY DEF Options
<1>2. PICK m : m = IF o.max_open = 0 THEN 1 ELSE o.max_open
  OBVIOUS
<1>3. PICK d : d = IF o.max_depth # None /\ o.min_depth > o.max_depth[1] THEN o.max_depth[1] ELSE o.min_depth
  OBVIOUS
<1>4. m \in Nat /\ m > 0
  BY <1>1, <1>2
<1>5. d \in Nat
  BY <1>1, <1>3, OptionalFacts
<1>6. normalized(o) = [o EXCEPT !.max_open = m, !.min_depth = d]
  BY <1>2, <1>3 DEF normalized
<1> QED BY <1>4, <1>5, <1>6 DEF Options

LEMMA ConstructionSound ==
  ASSUME NEW start, NEW s \in Nodes, start = << s >>, NEW opts \in Options,
         RootError(start, opts) = None
  PROVE  Sound(with_behavior(start, opts))
<1>1. Last(start) = s /\ Front(start) = << >>
  BY DEF Last, Front
<1>2. PICK r : r = Real(s)
  OBVIOUS
<1>3. r \in Nodes /\ Kind[r] # "link" /\ Real(r) = r
  <2>1. r # Gone
    <3>1. \A e : Some(e) # None
      BY DEF Some, None
    <3> QED BY <1>1, <1>2, <3>1 DEF RootError
  <2> QED BY <1>2, <2>1, TreeAssumption DEF Real
<1>4. PICK o : o = normalized(opts)
  OBVIOUS
<1>5. o \in Options /\ o.max_open > 0 /\ o.max_open \in Nat
  <2>1. o \in Options /\ o.max_open > 0
    BY <1>4, NormalizedFacts
  <2> QED BY <2>1 DEF Options
<1>6. PICK w : w = with_behavior(start, opts)
  OBVIOUS
<1>7. PICK path : path = IF o.follow_links \/ o.same_file_system THEN << r >> ELSE << s >>
  OBVIOUS
<1>8. path \in Seq(Nodes) /\ path # << >> /\ Real(Last(path)) = r
  BY <1>2, <1>3, <1>7 DEF Last
<1>9. PICK plain \in BOOLEAN : plain = (/\ ~(o.follow_links \/ o.same_file_system) /\ ~o.collect_metadata
                                        /\ o.max_depth = None /\ o.min_depth = 0
                                        /\ o.filter = {} /\ o.stdout = {} /\ ~o.contents_first)
  OBVIOUS
<1>10. w = [root               |-> r,
            root_path          |-> path,
            options            |-> o,
            frames             |-> << >>,
            open_handles       |-> 0,
            yield_root         |-> TRUE,
            pending_directory  |-> None,
            skip_pending       |-> FALSE,
            active_directories |-> {},
            finished           |-> FALSE,
            deferred_entry     |-> None,
            plain_entries      |-> plain]
  <2>1. Append(Front(start), r) = << r >>
    BY <1>1
  <2>2. path = IF o.follow_links \/ o.same_file_system THEN Append(Front(start), r) ELSE start
    BY <1>7, <2>1
  <2> QED BY <1>1, <1>2, <1>4, <1>6, <1>9, <2>2 DEF with_behavior
<1>11. None \in Optional(PendingDirectory) /\ None \in Optional(Item) /\ << >> \in Seq(Frame)
  BY DEF Optional, None
<1>12. w \in Walkers
  BY <1>3, <1>5, <1>8, <1>10, <1>11 DEF Walkers
<1>13. FramesSound(w)
  BY <1>5, <1>10, NoFrames DEF FramesSound
<1>14. PendingSound(w) /\ RootSound(w)
  BY <1>3, <1>5, <1>8, <1>10 DEF PendingSound, RootSound
<1> QED BY <1>6, <1>10, <1>12, <1>13, <1>14 DEF Sound

-----------------------------------------------------------------------------
(* The caller *)

SoundInv ==
    /\ Sound(walker)
    /\ returned \in Seq(Item) /\ skipped \subseteq ToSet(returned) /\ fresh \in BOOLEAN
    /\ fresh => returned # << >>

LEMMA ReturnedMore ==
  ASSUME NEW q \in Seq(Item), NEW item \in Optional(Item)
  PROVE  /\ q \o item \in Seq(Item) /\ ToSet(q) \subseteq ToSet(q \o item)
         /\ item # None => q \o item # << >>
<1>1. item \in Seq(Item) /\ (item # None => Len(item) # 0)
  <2>1. item \in Seq(Item)
    BY DEF Optional
  <2> QED BY <2>1, NothingThere DEF None
<1>2. q \o item \in Seq(Item) /\ Len(q \o item) = Len(q) + Len(item)
      /\ \A i \in DOMAIN q : i \in DOMAIN (q \o item) /\ (q \o item)[i] = q[i]
  BY <1>1, ConcatFacts
<1>3. item # None => q \o item # << >>
  <2>1. Len(q) \in Nat /\ Len(item) \in Nat /\ Len(<< >>) = 0
    BY <1>1
  <2> QED BY <1>1, <1>2, <2>1
<1> QED BY <1>2, <1>3 DEF ToSet

LEMMA TakesSound ==
  ASSUME SoundInv, NEW turn, TurnOK(turn), Takes(turn)
  PROVE  SoundInv'
<1>1. turn.item \in Optional(Item) /\ Sound(turn.walker) /\ returned \in Seq(Item)
  BY DEF SoundInv, TurnOK
<1>2. walker' = turn.walker /\ returned' = returned \o turn.item /\ fresh' = (turn.item # None)
      /\ skipped' = skipped
  BY DEF Takes
<1>3. Sound(walker)'
  BY <1>1, <1>2
<1>4. returned' \in Seq(Item) /\ skipped' \subseteq ToSet(returned') /\ fresh' \in BOOLEAN
      /\ (fresh' => returned' # << >>)
  BY <1>1, <1>2, ReturnedMore DEF SoundInv
<1> QED BY <1>3, <1>4 DEF SoundInv

LEMMA SkipStepSound ==
  ASSUME SoundInv, SkipCurrentDir
  PROVE  SoundInv'
<1>1. walker' = skip_current_dir(walker) /\ skipped' = skipped \cup {Last(returned)} /\ fresh' = FALSE
      /\ returned' = returned /\ fresh
  BY DEF SkipCurrentDir
<1>2. Sound(walker')
  BY <1>1, SkipSound DEF SoundInv
<1>3. Last(returned) \in ToSet(returned)
  <2>1. returned \in Seq(Item) /\ returned # << >>
    BY <1>1 DEF SoundInv
  <2>2. Len(returned) \in DOMAIN returned /\ returned[Len(returned)] = Last(returned)
    BY <2>1, FrontFacts
  <2> QED BY <2>2 DEF ToSet
<1> QED BY <1>1, <1>2, <1>3 DEF SoundInv

LEMMA SoundStart == SerialInit => SoundInv
<1> SUFFICES ASSUME SerialInit PROVE SoundInv
  OBVIOUS
<1>1. PICK start \in Starts, o \in OptionSets : RootError(start, o) = None /\ walker = with_behavior(start, o)
  BY DEF SerialInit
<1>2. PICK s \in Nodes : start = << s >>
  BY CallerAssumption
<1>3. o \in Options
  BY CallerAssumption
<1>4. Sound(walker)
  BY <1>1, <1>2, <1>3, ConstructionSound
<1>5. returned = << >> /\ skipped = {} /\ fresh = FALSE
  BY DEF SerialInit
<1>6. << >> \in Seq(Item) /\ {} \subseteq ToSet(returned)
  OBVIOUS
<1> QED BY <1>4, <1>5, <1>6 DEF SoundInv

LEMMA SoundStep == SoundInv /\ [SerialNext]_serialVars => SoundInv'
<1> SUFFICES ASSUME SoundInv, [SerialNext]_serialVars PROVE SoundInv'
  OBVIOUS
<1>1. CASE YieldDeferred
  BY <1>1, TakeDeferredSound, TakesSound DEF YieldDeferred, SoundInv
<1>2. CASE YieldRoot
  BY <1>2, TakeRootSound, TakesSound DEF YieldRoot, SoundInv
<1>3. CASE ScheduleDirectory
  BY <1>3, ScheduleSound, TakesSound DEF ScheduleDirectory, SoundInv
<1>4. CASE FrameEnds
  BY <1>4, FrameEndsSound, TakesSound DEF FrameEnds, SoundInv
<1>5. CASE ReadEntry
  BY <1>5, ReadEntrySound, TakesSound DEF ReadEntry, SoundInv
<1>6. CASE SkipCurrentDir
  BY <1>6, SkipStepSound
<1>7. CASE UNCHANGED serialVars
  BY <1>7 DEF serialVars, SoundInv
<1> QED BY <1>1, <1>2, <1>3, <1>4, <1>5, <1>6, <1>7 DEF SerialNext

LEMMA SoundIsAccounted == SoundInv => FramesAreAccounted
<1> SUFFICES ASSUME SoundInv PROVE FramesAreAccounted
  OBVIOUS
<1>1. TypeOK
  BY DEF SoundInv, TypeOK, Sound
<1>2. HandlesAreOpenFrames
  BY DEF SoundInv, Sound, FramesSound, Handles, OpenAt, HandlesAreOpenFrames
<1>3. NoDirectoryInsideItself
  BY DEF SoundInv, Sound, FramesSound, Nested, Named, NoDirectoryInsideItself
<1> QED BY <1>1, <1>2, <1>3 DEF FramesAreAccounted

\* The walker's frames, its count of open handles and its set of active directories agree
\* after every turn of `next`, whatever the tree, the options, the failures and the skips
\* of the caller: the handles stay within max_open, no directory is open inside itself,
\* and none is entered outside the root.
THEOREM FramesStayAccounted == SerialSpec => []FramesAreAccounted
<1>1. SerialInit => SoundInv
  BY SoundStart
<1>2. SoundInv /\ [SerialNext]_serialVars => SoundInv'
  BY SoundStep
<1>3. SoundInv => FramesAreAccounted
  BY SoundIsAccounted
<1> QED BY <1>1, <1>2, <1>3, PTL DEF SerialSpec

-----------------------------------------------------------------------------
(***************************************************************************)
(* Collected walks and visits of several roots: when they may answer, with *)
(* what, and how soon after a Quit or an error.                            *)
(***************************************************************************)

(* The walk of one root *)

\* The record of a walk has its fields, whatever they hold.
WalksOf(P, H, T, L, U, Z) ==
    [phase : P, shallow : H, tasks : T, lanes : L, submitted : U, result : Z]
WalkRecord(w) == \E P, H, T, L, U, Z : w \in WalksOf(P, H, T, L, U, Z)

IsAnswer(x) == x.ok \in BOOLEAN
NamesRefusal(x) == x.ok = FALSE /\ x.error[1].error = "ScheduleWorker"
Answered(w) == \E x : w.result = Some(x) /\ IsAnswer(x)

AllSent(w) == \A l \in DOMAIN w.lanes : w.lanes[l].state = "sent"
Refused(w) == NamesRefusal(w.result[1])

WalkSound(w) ==
    /\ WalkRecord(w) /\ w.phase \in {"idle", "submitting", "collecting", "returned"}
    /\ w.phase = "idle" => w.lanes = << >>
    /\ w.phase = "returned" => Answered(w) /\ (AllSent(w) \/ Refused(w))

WalksInv == walk = [r \in Roots |-> walk[r]] /\ \A r \in Roots : WalkSound(walk[r])

\* A step of one walk leaves the others alone, and never takes back an answer.
WalkMoves(r) ==
    /\ \A q \in Roots : q # r => walk'[q] = walk[q]
    /\ walk[r].phase = "returned" => walk'[r].phase = "returned" /\ walk'[r].result = walk[r].result
    /\ walk[r].phase # "idle" => walk'[r].phase # "idle"

LEMMA ResultShapes ==
  /\ \A x : Ok(x).ok = TRUE
  /\ \A x : Err(x).ok = FALSE /\ Err(x).error = Some(x)
  /\ \A x : Finished(x).ok \in BOOLEAN
BY DEF Ok, Err, Finished

LEMMA SomeIs == \A x : Some(x)[1] = x /\ Some(x) # None
BY DEF Some, None

LEMMA ReturnedFacts ==
  ASSUME NEW w, WalkRecord(w), NEW x
  PROVE  /\ WalkRecord(Returned(w, x)) /\ Returned(w, x).phase = "returned"
         /\ Returned(w, x).result = Some(x) /\ Returned(w, x).lanes = w.lanes
         /\ Returned(w, x).tasks = w.tasks /\ Returned(w, x).shallow = w.shallow
         /\ Returned(w, x).submitted = w.submitted
<1>1. PICK P, H, T, L, U, Z : w \in WalksOf(P, H, T, L, U, Z)
  BY DEF WalkRecord
<1>2. /\ Returned(w, x) \in WalksOf({"returned"}, H, T, L, U, {Some(x)})
      /\ Returned(w, x).lanes = w.lanes /\ Returned(w, x).tasks = w.tasks
      /\ Returned(w, x).shallow = w.shallow /\ Returned(w, x).submitted = w.submitted
      /\ Returned(w, x).phase = "returned" /\ Returned(w, x).result = Some(x)
  BY <1>1 DEF WalksOf, Returned
<1>3. WalkRecord(Returned(w, x))
  BY <1>2 DEF WalkRecord
<1> QED BY <1>2, <1>3

LEMMA ReturnedSound ==
  ASSUME NEW w, WalkRecord(w), NEW x, IsAnswer(x), AllSent(w) \/ NamesRefusal(x)
  PROVE  WalkSound(Returned(w, x))
<1>1. PICK v : v = Returned(w, x)
  OBVIOUS
<1>2. WalkRecord(v) /\ v.phase = "returned" /\ v.result = Some(x) /\ v.lanes = w.lanes
  BY <1>1, ReturnedFacts
<1>3. v.result[1] = x
  BY <1>2, SomeIs
<1>4. Answered(v)
  BY <1>2 DEF Answered
<1>5. AllSent(v) \/ Refused(v)
  BY <1>2, <1>3 DEF AllSent, Refused
<1> QED BY <1>1, <1>2, <1>4, <1>5 DEF WalkSound

\* One walk is replaced.
LEMMA WalkReplaced ==
  ASSUME WalksInv, NEW r \in Roots, NEW v, WalkSound(v), walk' = [walk EXCEPT ![r] = v],
         walk[r].phase = "returned" => v.phase = "returned" /\ v.result = walk[r].result,
         walk[r].phase # "idle" => v.phase # "idle"
  PROVE  WalksInv' /\ WalkMoves(r)
<1>1. walk'[r] = v /\ \A q \in Roots : q # r => walk'[q] = walk[q]
  BY DEF WalksInv
<1>2. walk' = [q \in Roots |-> walk'[q]]
  <2>1. DOMAIN walk = Roots
    BY DEF WalksInv
  <2> QED BY <2>1
<1>3. \A q \in Roots : WalkSound(walk'[q])
  BY <1>1 DEF WalksInv
<1> QED BY <1>1, <1>2, <1>3 DEF WalksInv, WalkMoves

LEMMA StartWalkSound ==
  ASSUME WalksInv, NEW r \in Roots, StartWalk(r)
  PROVE  WalksInv' /\ WalkMoves(r)
<1>1. walk[r].phase = "idle" /\ WalkRecord(walk[r]) /\ walk[r].lanes = << >>
  BY DEF WalksInv, WalkSound, StartWalk
<1>2. PICK first, plan :
        walk' = [walk EXCEPT ![r] =
            IF caller.on_worker THEN Returned(@, collect_serial(r))
            ELSE IF RootError(RootPath[r], Inner(options)) # None
            THEN Returned(@, Err(RootError(RootPath[r], Inner(options))[1]))
            ELSE IF options.abort /\ first.report.errors # <<>>
            THEN Returned(@, Err(Head(first.report.errors)))
            ELSE IF plan.tasks = <<>> THEN Returned(@, Ok(without_stdout(plan.report, options.stdout)))
            ELSE [@ EXCEPT !.phase = "submitting", !.shallow = plan.report, !.tasks = plan.tasks,
                           !.lanes = Lanes(plan.tasks)]]
  BY DEF StartWalk
<1>3. PICK v : v = IF caller.on_worker THEN Returned(walk[r], collect_serial(r))
            ELSE IF RootError(RootPath[r], Inner(options)) # None
            THEN Returned(walk[r], Err(RootError(RootPath[r], Inner(options))[1]))
            ELSE IF options.abort /\ first.report.errors # <<>>
            THEN Returned(walk[r], Err(Head(first.report.errors)))
            ELSE IF plan.tasks = <<>> THEN Returned(walk[r], Ok(without_stdout(plan.report, options.stdout)))
            ELSE [walk[r] EXCEPT !.phase = "submitting", !.shallow = plan.report, !.tasks = plan.tasks,
                           !.lanes = Lanes(plan.tasks)]
  OBVIOUS
<1>4. walk' = [walk EXCEPT ![r] = v]
  BY <1>2, <1>3
<1>5. AllSent(walk[r])
  BY <1>1 DEF AllSent
<1>6. collect_serial(r).ok \in BOOLEAN
  BY ResultShapes DEF collect_serial
<1>7. PICK s : s = [walk[r] EXCEPT !.phase = "submitting", !.shallow = plan.report, !.tasks = plan.tasks,
                           !.lanes = Lanes(plan.tasks)]
  OBVIOUS
<1>8. WalkRecord(s) /\ s.phase = "submitting"
  <2>1. PICK P, H, T, L, U, Z : walk[r] \in WalksOf(P, H, T, L, U, Z)
    BY <1>1 DEF WalkRecord
  <2>2. /\ s \in WalksOf({"submitting"}, {plan.report}, {plan.tasks}, {Lanes(plan.tasks)}, U, Z)
        /\ s.phase = "submitting"
    BY <1>7, <2>1 DEF WalksOf
  <2>3. WalkRecord(s)
    BY <2>2 DEF WalkRecord
  <2> QED BY <2>2, <2>3
<1>9. WalkSound(s)
  BY <1>8 DEF WalkSound
<1>10. PICK e, f, g, h : /\ e = collect_serial(r)
                        /\ f = Err(RootError(RootPath[r], Inner(options))[1])
                        /\ g = Err(Head(first.report.errors))
                        /\ h = Ok(without_stdout(plan.report, options.stdout))
  OBVIOUS
<1>11. v = s \/ \E x \in {e, f, g, h} : v = Returned(walk[r], x)
  BY <1>3, <1>7, <1>10
<1>12. \A x \in {e, f, g, h} : IsAnswer(x)
  BY <1>6, <1>10, ResultShapes DEF IsAnswer
<1>13. ASSUME NEW x \in {e, f, g, h}
       PROVE  WalkSound(Returned(walk[r], x)) /\ Returned(walk[r], x).phase = "returned"
  <2>1. IsAnswer(x)
    BY <1>12
  <2>2. WalkSound(Returned(walk[r], x))
    BY <1>1, <1>5, <2>1, ReturnedSound
  <2>3. Returned(walk[r], x).phase = "returned"
    BY <1>1, ReturnedFacts
  <2> QED BY <2>2, <2>3
<1>14. WalkSound(v) /\ v.phase # "idle"
  BY <1>8, <1>9, <1>11, <1>13
<1> QED BY <1>1, <1>4, <1>14, WalkReplaced

LEMMA CallerStepSound ==
  ASSUME WalksInv, NEW r \in Roots, CallerStep(r)
  PROVE  WalksInv' /\ WalkMoves(r)
<1>1. WalkRecord(walk[r])
  BY DEF WalksInv, WalkSound
<1>2. CASE SubmitLane(r)
  <2>1. PICK v : v = [walk[r] EXCEPT !.submitted = walk[r].submitted + 1,
                                     !.lanes[walk[r].submitted + 1].state = "queued",
                                     !.phase = IF walk[r].submitted + 1 = Len(walk[r].lanes)
                                               THEN "collecting" ELSE @]
    OBVIOUS
  <2>2. walk[r].phase = "submitting" /\ walk' = [walk EXCEPT ![r] = v]
    BY <1>2, <2>1 DEF SubmitLane, WalksInv
  <2>3. WalkRecord(v) /\ v.phase \in {"submitting", "collecting"}
    <3>1. PICK P, H, T, L, U, Z : walk[r] \in WalksOf(P, H, T, L, U, Z)
      BY <1>1 DEF WalkRecord
    <3>2. PICK n : n = walk[r].submitted + 1
      OBVIOUS
    <3>3. PICK e : e = IF n = Len(walk[r].lanes) THEN "collecting" ELSE "submitting"
      OBVIOUS
    <3>4. PICK m : m = [walk[r].lanes EXCEPT ![n].state = "queued"]
      OBVIOUS
    <3>5. v = [walk[r] EXCEPT !.submitted = n, !.lanes = m, !.phase = e]
      BY <2>1, <2>2, <3>1, <3>2, <3>3, <3>4 DEF WalksOf
    <3>6. v \in WalksOf({e}, H, T, {m}, {n}, Z) /\ v.phase = e
      BY <3>1, <3>5 DEF WalksOf
    <3>7. WalkRecord(v)
      BY <3>6 DEF WalkRecord
    <3> QED BY <3>3, <3>6, <3>7
  <2>4. WalkSound(v)
    BY <2>3 DEF WalkSound
  <2> QED BY <2>2, <2>3, <2>4, WalkReplaced
<1>3. CASE RejectLane(r)
  <2>0. PICK e : e = Error(RootPath[r], 0, "ScheduleWorker")
    OBVIOUS
  <2>1. PICK x : x = Err(e)
    OBVIOUS
  <2>2. walk[r].phase = "submitting" /\ walk' = [walk EXCEPT ![r] = Returned(walk[r], x)]
    BY <1>3, <2>0, <2>1 DEF RejectLane
  <2>3. IsAnswer(x) /\ NamesRefusal(x)
    <3>1. e.error = "ScheduleWorker"
      BY <2>0 DEF Error
    <3>2. x.ok = FALSE /\ x.error = Some(e)
      BY <2>1, ResultShapes
    <3>3. x.error[1] = e
      BY <3>2, SomeIs
    <3> QED BY <3>1, <3>2, <3>3 DEF IsAnswer, NamesRefusal
  <2>4. WalkSound(Returned(walk[r], x))
    BY <1>1, <2>3, ReturnedSound
  <2>5. Returned(walk[r], x).phase = "returned"
    BY <1>1, ReturnedFacts
  <2> QED BY <2>2, <2>4, <2>5, WalkReplaced
<1>4. CASE MergeLanes(r)
  <2>1. PICK x : x = Finished(MergeSegments(walk[r].lanes, Len(walk[r].tasks), walk[r].shallow))
    OBVIOUS
  <2>2. walk[r].phase = "collecting" /\ walk' = [walk EXCEPT ![r] = Returned(walk[r], x)]
    BY <1>4, <2>1 DEF MergeLanes
  <2>3. IsAnswer(x) /\ AllSent(walk[r])
    BY <1>4, <2>1, ResultShapes DEF MergeLanes, AllSent, IsAnswer
  <2>4. WalkSound(Returned(walk[r], x))
    BY <1>1, <2>3, ReturnedSound
  <2>5. Returned(walk[r], x).phase = "returned"
    BY <1>1, ReturnedFacts
  <2> QED BY <2>2, <2>4, <2>5, WalkReplaced
<1> QED BY <1>2, <1>3, <1>4 DEF CallerStep

LEMMA LaneStepSound ==
  ASSUME WalksInv, NEW r \in Roots, LaneStep(r)
  PROVE  WalksInv' /\ WalkMoves(r)
<1>1. PICK l \in DOMAIN walk[r].lanes : RunTask(r, l) \/ SendReport(r, l)
  BY DEF LaneStep
<1>2. PICK lane : walk' = [walk EXCEPT ![r].lanes[l] = lane]
  <2>1. CASE RunTask(r, l)
    <3>1. PICK lane : lane = WithTask(walk[r].lanes[l], TaskReport(r, Head(walk[r].lanes[l].tasks)))
      OBVIOUS
    <3>2. walk' = [walk EXCEPT ![r].lanes[l] = lane]
      BY <2>1, <3>1 DEF RunTask
    <3> QED BY <3>2
  <2>2. CASE SendReport(r, l)
    <3>1. PICK lane : lane = [walk[r].lanes[l] EXCEPT !.state = "sent"]
      OBVIOUS
    <3>2. walk' = [walk EXCEPT ![r].lanes[l] = lane]
      BY <2>2, <3>1 DEF SendReport
    <3> QED BY <3>2
  <2> QED BY <1>1, <2>1, <2>2
<1>3. walk[r].lanes[l].state = "queued"
  BY <1>1 DEF RunTask, SendReport
<1>4. PICK v : v = [walk[r] EXCEPT !.lanes[l] = lane]
  OBVIOUS
<1>5. walk' = [walk EXCEPT ![r] = v]
  BY <1>2, <1>4
<1>6. WalkRecord(walk[r]) /\ WalkSound(walk[r])
  BY DEF WalksInv, WalkSound
<1>7. WalkRecord(v) /\ v.phase = walk[r].phase /\ v.result = walk[r].result
  <2>1. PICK P, H, T, L, U, Z : walk[r] \in WalksOf(P, H, T, L, U, Z)
    BY <1>6 DEF WalkRecord
  <2>2. PICK m : m = [walk[r].lanes EXCEPT ![l] = lane]
    OBVIOUS
  <2>3. v \in WalksOf(P, H, T, {m}, U, Z) /\ v.phase = walk[r].phase /\ v.result = walk[r].result
    BY <1>4, <2>1, <2>2 DEF WalksOf
  <2>4. WalkRecord(v)
    BY <2>3 DEF WalkRecord
  <2> QED BY <2>3, <2>4
<1>8. ~AllSent(walk[r]) /\ walk[r].phase # "idle"
  BY <1>3, <1>6 DEF AllSent, WalkSound
<1>9. WalkSound(v)
  BY <1>6, <1>7, <1>8 DEF WalkSound, Answered, Refused
<1> QED BY <1>5, <1>7, <1>9, WalkReplaced

LEMMA WalksStart == Init => WalksInv
<1> SUFFICES ASSUME Init PROVE WalksInv
  OBVIOUS
<1>1. walk = [r \in Roots |-> Idle]
  BY DEF Init, WalkInit
<1>2. WalkSound(Idle)
  <2>1. Idle \in WalksOf({Idle.phase}, {Idle.shallow}, {Idle.tasks}, {Idle.lanes},
                         {Idle.submitted}, {Idle.result})
    BY DEF Idle, WalksOf
  <2>2. WalkRecord(Idle)
    BY <2>1 DEF WalkRecord
  <2> QED BY <2>2 DEF Idle, WalkSound
<1> QED BY <1>1, <1>2 DEF WalksInv

LEMMA WalkIsStepped ==
  ASSUME [Next]_vars
  PROVE  UNCHANGED walk \/ \E r \in Roots : StartWalk(r) \/ CallerStep(r) \/ LaneStep(r)
<1>1. CASE \E t, r \in Roots : BeginWalk(t, r)
  BY <1>1 DEF BeginWalk
<1>2. CASE \E r \in Roots : ContinueWalk(r) \/ ContinueLane(r)
  BY <1>2 DEF ContinueWalk, ContinueLane
<1>3. CASE \E t, r \in Roots : BeginVisit(t, r) \/ FinishRoot(t, r)
  BY <1>3 DEF BeginVisit, FinishRoot, walkVars
<1>4. CASE \E r \in Roots : VisitStep(r)
  BY <1>4 DEF VisitStep, TakeItem, Deliver, EndVisit, walkVars
<1>5. CASE JoinThreads \/ AfterTheCall \/ UNCHANGED vars
  BY <1>5 DEF JoinThreads, AfterTheCall, vars, walkVars
<1> QED BY <1>1, <1>2, <1>3, <1>4, <1>5 DEF Next

LEMMA WalksStep ==
  ASSUME WalksInv, [Next]_vars
  PROVE  /\ WalksInv'
         /\ \A r \in Roots : /\ walk[r].phase = "returned" =>
                                  walk'[r].phase = "returned" /\ walk'[r].result = walk[r].result
                             /\ walk[r].phase # "idle" => walk'[r].phase # "idle"
<1>1. CASE UNCHANGED walk
  BY <1>1 DEF WalksInv
<1>2. CASE \E r \in Roots : StartWalk(r) \/ CallerStep(r) \/ LaneStep(r)
  <2>1. PICK r \in Roots : WalksInv' /\ WalkMoves(r)
    BY <1>2, StartWalkSound, CallerStepSound, LaneStepSound
  <2> QED BY <2>1 DEF WalkMoves
<1>3. UNCHANGED walk \/ \E r \in Roots : StartWalk(r) \/ CallerStep(r) \/ LaneStep(r)
  BY WalkIsStepped
<1> QED BY <1>1, <1>2, <1>3

LEMMA WalksInvHolds == Spec => []WalksInv
<1>1. WalksInv /\ [Next]_vars => WalksInv'
  BY WalksStep
<1> QED BY WalksStart, <1>1, PTL DEF Spec

\* A collected walk never answers while one of its lanes may still read the tree, whatever
\* the plan, the number of lanes and the order of their steps; only a lane the runtime
\* refused makes it answer early.
THEOREM LanesEndBeforeTheAnswer == Spec => []LanesEndFirst
<1>1. WalksInv => LanesEndFirst
  <2> SUFFICES ASSUME WalksInv, NEW r \in Roots, WalkIsOver(r),
                      walk[r].result[1].ok \/ walk[r].result[1].error[1].error # "ScheduleWorker"
               PROVE  AllSent(walk[r])
    BY DEF LanesEndFirst, AllSent
  <2> QED BY DEF WalksInv, WalkSound, WalkIsOver, Refused, NamesRefusal
<1> QED BY <1>1, WalksInvHolds, PTL
-----------------------------------------------------------------------------
(* The visits: what may be delivered after the token is cancelled *)

VisitsOf(P, I, D, F, S, L, Q, A, Z) ==
    [phase : P, items : I, delivered : D, in_flight : F, skipped : S, late : L,
     quit : Q, failed : A, result : Z]

\* The record of a visit has its fields, whatever they hold.
VisitRecord(v) == \E P, I, D, F, S, L, Q, A, Z : v \in VisitsOf(P, I, D, F, S, L, Q, A, Z)

Phases == {"idle", "visiting", "returned"}
Width == IF caller.on_worker THEN 1 ELSE TraversalWorkers

\* A visit that is over has an answer; what is in flight is all that may come late; a quit has cancelled the token.
Counted(v, cancelled, width) ==
    /\ VisitRecord(v) /\ v.phase \in Phases
    /\ v.phase = "returned" => IsAnswer(v.result[1])
    /\ IsFiniteSet(v.in_flight) /\ v.late \in Nat
    /\ v.late + Cardinality(v.in_flight) <= width
    /\ cancelled = FALSE => v.late = 0 /\ v.quit = FALSE

CountedInv ==
    /\ token \in BOOLEAN /\ Width \in Nat \ {0}
    /\ visit_of = [r \in Roots |-> visit_of[r]]
    /\ \A r \in Roots : Counted(visit_of[r], token, Width)

LEMMA VisitReplaced ==
  ASSUME CountedInv, NEW r \in Roots, NEW v, Counted(v, token', Width),
         visit_of' = [visit_of EXCEPT ![r] = v], token' \in BOOLEAN, token => token',
         UNCHANGED caller
  PROVE  CountedInv'
<1>1. visit_of'[r] = v /\ \A q \in Roots : q # r => visit_of'[q] = visit_of[q]
  BY DEF CountedInv
<1>2. visit_of' = [q \in Roots |-> visit_of'[q]]
  <2>1. DOMAIN visit_of = Roots
    BY DEF CountedInv
  <2> QED BY <2>1
<1>3. Width' = Width
  BY DEF Width
<1>4. PICK new : new = token'
  OBVIOUS
<1>5. ASSUME NEW q \in Roots
      PROVE  Counted(visit_of'[q], new, Width)
  <2>1. CASE q = r
    BY <1>1, <1>4, <2>1
  <2>2. CASE q # r
    <3>1. Counted(visit_of[q], token, Width) /\ visit_of'[q] = visit_of[q]
      BY <1>1, <2>2 DEF CountedInv
    <3>2. new = FALSE => token = FALSE
      BY <1>4 DEF CountedInv
    <3>3. Counted(visit_of[q], new, Width)
      BY <3>1, <3>2 DEF Counted
    <3> QED BY <3>1, <3>3
  <2> QED BY <2>1, <2>2
<1>6. \A q \in Roots : Counted(visit_of'[q], token', Width')
  BY <1>3, <1>4, <1>5
<1>7. Width' \in Nat \ {0}
  BY <1>3 DEF CountedInv
<1> QED BY <1>2, <1>6, <1>7 DEF CountedInv

\* The visits after each kind of step, field by field.
BegunWith(v, items) == [v EXCEPT !.phase = "visiting", !.items = items]
EndedWith(v, x) == [v EXCEPT !.phase = "returned", !.result = Some(x)]
WithTaken(v, item) == [v EXCEPT !.in_flight = @ \cup {item}]
WithDelivered(v, item, late, skips, quit, failed) ==
    [v EXCEPT !.in_flight = @ \ {item}, !.delivered = @ \cup {item}, !.late = late,
              !.skipped = skips, !.quit = quit, !.failed = failed]

\* Two visits agree but for their phase, items and result.
SameDeliveries(v, w) ==
    /\ w.delivered = v.delivered /\ w.in_flight = v.in_flight /\ w.skipped = v.skipped
    /\ w.late = v.late /\ w.quit = v.quit /\ w.failed = v.failed

LEMMA BegunFacts ==
  ASSUME NEW v, VisitRecord(v), NEW items
  PROVE  /\ VisitRecord(BegunWith(v, items)) /\ SameDeliveries(v, BegunWith(v, items))
         /\ BegunWith(v, items).phase = "visiting" /\ BegunWith(v, items).items = items
         /\ BegunWith(v, items).result = v.result
<1>1. PICK P, I, D, F, S, L, Q, A, Z : v \in VisitsOf(P, I, D, F, S, L, Q, A, Z)
  BY DEF VisitRecord
<1>2. /\ BegunWith(v, items) \in VisitsOf({"visiting"}, {items}, D, F, S, L, Q, A, Z)
      /\ SameDeliveries(v, BegunWith(v, items))
      /\ BegunWith(v, items).phase = "visiting" /\ BegunWith(v, items).items = items
      /\ BegunWith(v, items).result = v.result
  BY <1>1 DEF VisitsOf, BegunWith, SameDeliveries
<1>3. VisitRecord(BegunWith(v, items))
  BY <1>2 DEF VisitRecord
<1> QED BY <1>2, <1>3

LEMMA EndedFacts ==
  ASSUME NEW v, VisitRecord(v), NEW x
  PROVE  /\ VisitRecord(EndedWith(v, x)) /\ SameDeliveries(v, EndedWith(v, x))
         /\ EndedWith(v, x).phase = "returned" /\ EndedWith(v, x).items = v.items
         /\ EndedWith(v, x).result = Some(x)
<1>1. PICK P, I, D, F, S, L, Q, A, Z : v \in VisitsOf(P, I, D, F, S, L, Q, A, Z)
  BY DEF VisitRecord
<1>2. /\ EndedWith(v, x) \in VisitsOf({"returned"}, I, D, F, S, L, Q, A, {Some(x)})
      /\ SameDeliveries(v, EndedWith(v, x))
      /\ EndedWith(v, x).phase = "returned" /\ EndedWith(v, x).items = v.items
      /\ EndedWith(v, x).result = Some(x)
  BY <1>1 DEF VisitsOf, EndedWith, SameDeliveries
<1>3. VisitRecord(EndedWith(v, x))
  BY <1>2 DEF VisitRecord
<1> QED BY <1>2, <1>3

LEMMA TakenFacts ==
  ASSUME NEW v, VisitRecord(v), NEW item
  PROVE  LET w == WithTaken(v, item)
         IN  /\ VisitRecord(w) /\ w.in_flight = v.in_flight \cup {item}
             /\ w.phase = v.phase /\ w.items = v.items /\ w.delivered = v.delivered
             /\ w.skipped = v.skipped /\ w.late = v.late /\ w.quit = v.quit
             /\ w.failed = v.failed /\ w.result = v.result
<1>1. PICK P, I, D, F, S, L, Q, A, Z : v \in VisitsOf(P, I, D, F, S, L, Q, A, Z)
  BY DEF VisitRecord
<1>2. PICK f : f = v.in_flight \cup {item}
  OBVIOUS
<1>3. PICK w : w = [v EXCEPT !.in_flight = f]
  OBVIOUS
<1>4. WithTaken(v, item) = w
  BY <1>2, <1>3 DEF WithTaken
<1>5. /\ w \in VisitsOf(P, I, D, {f}, S, L, Q, A, Z) /\ w.in_flight = f
      /\ w.phase = v.phase /\ w.items = v.items /\ w.delivered = v.delivered
      /\ w.skipped = v.skipped /\ w.late = v.late /\ w.quit = v.quit
      /\ w.failed = v.failed /\ w.result = v.result
  BY <1>1, <1>3 DEF VisitsOf
<1>6. VisitRecord(w)
  BY <1>5 DEF VisitRecord
<1> QED BY <1>2, <1>4, <1>5, <1>6

\* What the delivery of an item makes of a visit.
DeliveredAs(v, w, item, control, cancelled) ==
    \E late, failed, skips, quit :
        /\ w = WithDelivered(v, item, late, skips, quit, failed)
        /\ v.quit = FALSE /\ control # "Quit" => quit = FALSE
        /\ late = IF cancelled THEN v.late + 1 ELSE v.late
        /\ skips = IF control = "Skip" /\ IsDir(item) THEN v.skipped \cup {item} ELSE v.skipped

LEMMA DeliveredFacts ==
  ASSUME NEW v, VisitRecord(v), NEW item, NEW late, NEW skips, NEW quit, NEW failed
  PROVE  LET w == WithDelivered(v, item, late, skips, quit, failed)
         IN  /\ VisitRecord(w)
             /\ w.in_flight = v.in_flight \ {item} /\ w.delivered = v.delivered \cup {item}
             /\ w.late = late /\ w.skipped = skips /\ w.quit = quit
             /\ w.phase = v.phase /\ w.items = v.items /\ w.result = v.result
<1>1. PICK P, I, D, F, S, L, Q, A, Z : v \in VisitsOf(P, I, D, F, S, L, Q, A, Z)
  BY DEF VisitRecord
<1>2. PICK f, d : f = v.in_flight \ {item} /\ d = v.delivered \cup {item}
  OBVIOUS
<1>3. PICK w : w = [v EXCEPT !.in_flight = f, !.delivered = d, !.late = late,
                             !.skipped = skips, !.quit = quit, !.failed = failed]
  OBVIOUS
<1>4. WithDelivered(v, item, late, skips, quit, failed) = w
  BY <1>2, <1>3 DEF WithDelivered
<1>5. /\ w \in VisitsOf(P, I, {d}, {f}, {skips}, {late}, {quit}, {failed}, Z)
      /\ w.in_flight = f /\ w.delivered = d /\ w.late = late /\ w.skipped = skips
      /\ w.quit = quit /\ w.phase = v.phase /\ w.items = v.items /\ w.result = v.result
  BY <1>1, <1>3 DEF VisitsOf
<1>6. VisitRecord(w)
  BY <1>5 DEF VisitRecord
<1> QED BY <1>2, <1>4, <1>5, <1>6

\* The step a visit takes, as one of the four.
VisitBegins(r) ==
    \/ /\ visit_of' = [visit_of EXCEPT ![r] = BegunWith(visit_of[r], ItemsOf(r))]
       /\ token' = token
    \/ /\ visit_of' = [visit_of EXCEPT
              ![r] = EndedWith(visit_of[r], Err(RootError(RootPath[r], VisitOptions)[1]))]
       /\ token' = TRUE

LEMMA BeginVisitIs ==
  ASSUME token \in BOOLEAN, NEW t, NEW r, BeginVisit(t, r)
  PROVE  VisitBegins(r) /\ visit_of[r].phase = "idle" /\ UNCHANGED <<caller, answers, outcome>>
<1>1. visit_of[r].phase = "idle" /\ UNCHANGED <<caller, answers, outcome>>
  BY DEF BeginVisit, walkVars
<1>2. PICK e : e = RootError(RootPath[r], VisitOptions)
  OBVIOUS
<1>3. PICK x : x = Err(e[1])
  OBVIOUS
<1>4. CASE e = None
  <2>1. /\ visit_of' = [visit_of EXCEPT ![r] = BegunWith(visit_of[r], ItemsOf(r))]
        /\ token' = token
    BY <1>2, <1>4 DEF BeginVisit, BegunWith
  <2> QED BY <1>1, <2>1 DEF VisitBegins
<1>5. CASE e # None
  <2>1. /\ visit_of' = [visit_of EXCEPT ![r] = EndedWith(visit_of[r], x)]
        /\ token' = TRUE
    BY <1>2, <1>3, <1>5 DEF BeginVisit, EndedWith
  <2>2. VisitBegins(r)
    BY <1>2, <1>3, <2>1 DEF VisitBegins
  <2> QED BY <1>1, <2>2
<1> QED BY <1>4, <1>5

LEMMA BeginVisitCounted ==
  ASSUME CountedInv, NEW t, NEW r \in Roots, BeginVisit(t, r)
  PROVE  CountedInv'
<1>1. Counted(visit_of[r], token, Width) /\ token \in BOOLEAN
  BY DEF CountedInv
<1>2. VisitBegins(r) /\ UNCHANGED caller
  BY <1>1, BeginVisitIs
<1>3. VisitRecord(visit_of[r])
  BY <1>1 DEF Counted
<1>4. PICK items, x : items = ItemsOf(r) /\ x = Err(RootError(RootPath[r], VisitOptions)[1])
  OBVIOUS
<1>5. CASE /\ visit_of' = [visit_of EXCEPT ![r] = BegunWith(visit_of[r], items)]
           /\ token' = token
  <2>1. PICK v : v = BegunWith(visit_of[r], items)
    OBVIOUS
  <2>2. VisitRecord(v) /\ SameDeliveries(visit_of[r], v) /\ v.phase = "visiting"
    BY <1>3, <2>1, BegunFacts
  <2>3. Counted(v, token, Width)
    BY <1>1, <2>2 DEF Counted, SameDeliveries, Phases
  <2> QED BY <1>1, <1>2, <1>5, <2>1, <2>3, VisitReplaced
<1>6. CASE /\ visit_of' = [visit_of EXCEPT ![r] = EndedWith(visit_of[r], x)]
           /\ token' = TRUE
  <2>1. PICK v : v = EndedWith(visit_of[r], x)
    OBVIOUS
  <2>2. /\ VisitRecord(v) /\ SameDeliveries(visit_of[r], v) /\ v.phase = "returned"
        /\ v.result = Some(x)
    BY <1>3, <2>1, EndedFacts
  <2>3. IsAnswer(v.result[1])
    <3>1. v.result[1] = x
      BY <2>2, SomeIs
    <3>2. x.ok = FALSE
      BY <1>4, ResultShapes
    <3> QED BY <3>1, <3>2 DEF IsAnswer
  <2>4. Counted(v, TRUE, Width)
    BY <1>1, <2>2, <2>3 DEF Counted, SameDeliveries, Phases
  <2> QED BY <1>1, <1>2, <1>6, <2>1, <2>4, VisitReplaced
<1> QED BY <1>2, <1>4, <1>5, <1>6 DEF VisitBegins

LEMMA TakeItemIs ==
  ASSUME token \in BOOLEAN, NEW r, TakeItem(r)
  PROVE  /\ visit_of[r].phase = "visiting" /\ token = FALSE
         /\ Cardinality(visit_of[r].in_flight) < Width
         /\ UNCHANGED <<caller, token, answers, outcome>>
         /\ \E item \in Ready(r) \ visit_of[r].in_flight :
                visit_of' = [visit_of EXCEPT ![r] = WithTaken(visit_of[r], item)]
<1>1. PICK item \in Ready(r) \ visit_of[r].in_flight :
        visit_of' = [visit_of EXCEPT ![r].in_flight = @ \cup {item}]
  BY DEF TakeItem
<1>2. visit_of' = [visit_of EXCEPT ![r] = WithTaken(visit_of[r], item)]
  BY <1>1 DEF WithTaken
<1>3. /\ visit_of[r].phase = "visiting" /\ token = FALSE
      /\ UNCHANGED <<caller, token, answers, outcome>>
  BY DEF TakeItem, walkVars
<1>4. Cardinality(visit_of[r].in_flight) < Width
  BY DEF TakeItem, Width
<1> QED BY <1>1, <1>2, <1>3, <1>4

LEMMA TakeItemCounted ==
  ASSUME CountedInv, NEW r \in Roots, TakeItem(r)
  PROVE  CountedInv'
<1>1. Counted(visit_of[r], token, Width) /\ token \in BOOLEAN /\ Width \in Nat
  BY DEF CountedInv
<1>2. /\ token = FALSE /\ Cardinality(visit_of[r].in_flight) < Width
      /\ UNCHANGED <<caller, token>> /\ visit_of[r].phase = "visiting"
      /\ \E item \in Ready(r) \ visit_of[r].in_flight :
             visit_of' = [visit_of EXCEPT ![r] = WithTaken(visit_of[r], item)]
  BY <1>1, TakeItemIs
<1>3. PICK item \in Ready(r) \ visit_of[r].in_flight :
        visit_of' = [visit_of EXCEPT ![r] = WithTaken(visit_of[r], item)]
  BY <1>2
<1>4. PICK v : v = WithTaken(visit_of[r], item)
  OBVIOUS
<1>5. /\ VisitRecord(v) /\ v.in_flight = visit_of[r].in_flight \cup {item}
      /\ v.phase = visit_of[r].phase /\ v.late = visit_of[r].late /\ v.quit = visit_of[r].quit
  <2>1. VisitRecord(visit_of[r])
    BY <1>1 DEF Counted
  <2> QED BY <1>4, <2>1, TakenFacts
<1>6. IsFiniteSet(visit_of[r].in_flight) /\ item \notin visit_of[r].in_flight
  BY <1>1, <1>3 DEF Counted
<1>7. PICK f : f = visit_of[r].in_flight
  OBVIOUS
<1>8. /\ IsFiniteSet(f \cup {item}) /\ Cardinality(f \cup {item}) = Cardinality(f) + 1
      /\ Cardinality(f) \in Nat
  BY <1>6, <1>7, FS_AddElement, FS_CardinalityType
<1>9. visit_of[r].late = 0
  BY <1>1, <1>2 DEF Counted
<1>10. v.late + Cardinality(v.in_flight) <= Width
  BY <1>1, <1>2, <1>5, <1>7, <1>8, <1>9
<1>11. Counted(v, token, Width)
  BY <1>1, <1>2, <1>5, <1>7, <1>8, <1>10 DEF Counted
<1> QED BY <1>1, <1>2, <1>3, <1>4, <1>11, VisitReplaced

LEMMA DeliverIs ==
  ASSUME NEW r, NEW item, NEW control, Deliver(r, item, control), token \in BOOLEAN
  PROVE  /\ visit_of[r].phase = "visiting" /\ item \in visit_of[r].in_flight
         /\ \E w : /\ DeliveredAs(visit_of[r], w, item, control, token)
                 /\ visit_of' = [visit_of EXCEPT ![r] = w]
         /\ token' \in BOOLEAN /\ (token => token')
         /\ token' = FALSE <=> token = FALSE /\ control # "Quit"
         /\ UNCHANGED <<caller, outcome>>
<1>1. PICK o : o = visit_of[r]
  OBVIOUS
<1>2. PICK late, failed, skips, quit :
        /\ late = IF token THEN o.late + 1 ELSE o.late
        /\ skips = IF control = "Skip" /\ IsDir(item) THEN o.skipped \cup {item} ELSE o.skipped
        /\ quit = (o.quit \/ control = "Quit")
        /\ failed = IF IsError(item) /\ options.abort /\ o.failed = None THEN Some(item) ELSE o.failed
  OBVIOUS
<1>3. PICK v : v = WithDelivered(o, item, late, skips, quit, failed)
  OBVIOUS
<1>4. visit_of' = [visit_of EXCEPT ![r] = v]
  BY <1>1, <1>2, <1>3 DEF Deliver, WithDelivered
<1>6. o.quit = FALSE /\ control # "Quit" => quit = FALSE
  BY <1>2
<1>7. /\ visit_of[r].phase = "visiting" /\ item \in visit_of[r].in_flight
      /\ token' = (token \/ control = "Quit") /\ UNCHANGED <<caller, outcome>>
  BY DEF Deliver, walkVars
<1>8. DeliveredAs(o, v, item, control, token)
  BY <1>2, <1>3, <1>6 DEF DeliveredAs
<1>9. \E w : /\ DeliveredAs(visit_of[r], w, item, control, token)
             /\ visit_of' = [visit_of EXCEPT ![r] = w]
  BY <1>1, <1>4, <1>8
<1>10. token' \in BOOLEAN /\ (token => token') /\ (token' = FALSE <=> token = FALSE /\ control # "Quit")
  BY <1>7
<1> QED BY <1>7, <1>9, <1>10

LEMMA DeliverCounted ==
  ASSUME CountedInv, NEW r \in Roots, NEW item, NEW control, Deliver(r, item, control)
  PROVE  CountedInv'
<1>1. /\ Counted(visit_of[r], token, Width) /\ token \in BOOLEAN /\ Width \in Nat
      /\ VisitRecord(visit_of[r])
  BY DEF CountedInv, Counted
<1>2. PICK v : /\ DeliveredAs(visit_of[r], v, item, control, token)
               /\ visit_of' = [visit_of EXCEPT ![r] = v]
  BY <1>1, DeliverIs
<1>3. /\ visit_of[r].phase = "visiting" /\ item \in visit_of[r].in_flight /\ UNCHANGED caller
      /\ token' \in BOOLEAN /\ (token => token')
      /\ token' = FALSE => token = FALSE /\ control # "Quit"
  BY <1>1, DeliverIs
<1>4. PICK late, failed, skips, quit :
        /\ v = WithDelivered(visit_of[r], item, late, skips, quit, failed)
        /\ visit_of[r].quit = FALSE /\ control # "Quit" => quit = FALSE
        /\ late = IF token THEN visit_of[r].late + 1 ELSE visit_of[r].late
  BY <1>2 DEF DeliveredAs
<1>5. /\ VisitRecord(v) /\ v.in_flight = visit_of[r].in_flight \ {item}
      /\ v.late = late /\ v.quit = quit /\ v.phase = visit_of[r].phase
  BY <1>1, <1>4, DeliveredFacts
<1>6. PICK f, l : f = visit_of[r].in_flight /\ l = visit_of[r].late
  OBVIOUS
<1>7. IsFiniteSet(f) /\ item \in f /\ l \in Nat /\ l + Cardinality(f) <= Width
  BY <1>1, <1>3, <1>6 DEF Counted
<1>8. /\ IsFiniteSet(f \ {item}) /\ Cardinality(f \ {item}) = Cardinality(f) - 1
      /\ Cardinality(f) \in Nat
  BY <1>7, FS_RemoveElement, FS_CardinalityType
<1>9. PICK new : new = token'
  OBVIOUS
<1>10. v.late \in Nat /\ v.late + Cardinality(v.in_flight) <= Width
  <2>1. PICK c, m, n : c = Cardinality(f) /\ m = Width /\ n = late
    OBVIOUS
  <2>2. c \in Nat /\ m \in Nat /\ l \in Nat /\ l + c <= m
    BY <1>1, <1>7, <1>8, <2>1
  <2>3. n = l + 1 \/ n = l
    BY <1>1, <1>4, <1>6, <2>1
  <2>4. Cardinality(v.in_flight) = c - 1 /\ v.late = n
    BY <1>5, <1>6, <1>8, <2>1
  <2>5. n \in Nat /\ n + (c - 1) <= m
    BY <2>2, <2>3
  <2> QED BY <2>1, <2>4, <2>5
<1>11. new = FALSE => v.late = 0 /\ v.quit = FALSE
  BY <1>1, <1>3, <1>4, <1>5, <1>9 DEF Counted
<1>12. Counted(v, new, Width)
  BY <1>1, <1>3, <1>5, <1>6, <1>8, <1>10, <1>11 DEF Counted
<1> QED BY <1>2, <1>3, <1>9, <1>12, VisitReplaced

\* What a visit answers with.
Answer(v) == IF v.failed # None THEN Err(v.failed[1])
             ELSE Ok(Collected(SelectSeq(v.items, LAMBDA i : i \in v.delivered)))

LEMMA AnswerIs ==
  ASSUME NEW v
  PROVE  IsAnswer(Answer(v)) /\ Answer(v).ok = (v.failed = None)
<1>1. PICK x : x = Answer(v)
  OBVIOUS
<1>2. v.failed # None => x.ok = FALSE
  BY <1>1, ResultShapes DEF Answer
<1>3. v.failed = None => x.ok = TRUE
  <2>1. PICK y : y = Collected(SelectSeq(v.items, LAMBDA i : i \in v.delivered))
    OBVIOUS
  <2>2. v.failed = None => x = Ok(y)
    BY <1>1, <2>1 DEF Answer
  <2> QED BY <2>2, ResultShapes
<1>4. x.ok = (v.failed = None)
  BY <1>2, <1>3
<1> QED BY <1>1, <1>4 DEF IsAnswer

LEMMA EndVisitIs ==
  ASSUME NEW r, EndVisit(r)
  PROVE  /\ visit_of[r].phase = "visiting" /\ visit_of[r].in_flight = {}
         /\ token \/ visit_of[r].quit \/ visit_of[r].failed # None \/ Unseen(r) = {}
         /\ visit_of' = [visit_of EXCEPT ![r] = EndedWith(visit_of[r], Answer(visit_of[r]))]
         /\ token' = (token \/ visit_of[r].failed # None)
         /\ UNCHANGED <<caller, outcome>>
<1>1. PICK x : x = Answer(visit_of[r])
  OBVIOUS
<1>2. visit_of' = [visit_of EXCEPT ![r].phase = "returned", ![r].result = Some(x)]
  BY <1>1 DEF EndVisit, Answer
<1>3. visit_of' = [visit_of EXCEPT ![r] = EndedWith(visit_of[r], x)]
  BY <1>2 DEF EndedWith
<1>4. /\ visit_of[r].phase = "visiting" /\ visit_of[r].in_flight = {}
      /\ token \/ visit_of[r].quit \/ visit_of[r].failed # None \/ Unseen(r) = {}
      /\ token' = (token \/ visit_of[r].failed # None)
      /\ UNCHANGED <<caller, outcome>>
  BY DEF EndVisit, walkVars
<1> QED BY <1>1, <1>3, <1>4

LEMMA EndVisitCounted ==
  ASSUME CountedInv, NEW r \in Roots, EndVisit(r)
  PROVE  CountedInv'
<1>1. Counted(visit_of[r], token, Width) /\ token \in BOOLEAN
  BY DEF CountedInv
<1>2. PICK x : x = Answer(visit_of[r])
  OBVIOUS
<1>3. PICK v : v = EndedWith(visit_of[r], x)
  OBVIOUS
<1>4. /\ visit_of' = [visit_of EXCEPT ![r] = v] /\ UNCHANGED caller
      /\ token' = (token \/ visit_of[r].failed # None)
  BY <1>2, <1>3, EndVisitIs
<1>5. /\ VisitRecord(v) /\ SameDeliveries(visit_of[r], v) /\ v.phase = "returned"
      /\ IsAnswer(v.result[1])
  <2>1. VisitRecord(visit_of[r])
    BY <1>1 DEF Counted
  <2>2. v.result = Some(x)
    BY <1>3, <2>1, EndedFacts
  <2>3. v.result[1] = x
    BY <2>2, SomeIs
  <2> QED BY <1>2, <1>3, <2>1, <2>3, EndedFacts, AnswerIs
<1>6. PICK new : new = token'
  OBVIOUS
<1>7. new \in BOOLEAN /\ (token => new) /\ (new = FALSE => token = FALSE)
  BY <1>1, <1>4, <1>6
<1>8. Counted(v, new, Width)
  BY <1>1, <1>5, <1>7 DEF Counted, SameDeliveries, Phases
<1> QED BY <1>4, <1>6, <1>7, <1>8, VisitReplaced

LEMMA CountedStart == Init => CountedInv
<1> SUFFICES ASSUME Init PROVE CountedInv
  OBVIOUS
<1>1. visit_of = [r \in Roots |-> NoVisit] /\ token = FALSE
  BY DEF Init
<1>2. Width \in Nat \ {0}
  BY MultiRootAssumption DEF Width
<1>3. VisitRecord(NoVisit)
  <2>1. NoVisit \in VisitsOf({"idle"}, {<<>>}, {{}}, {{}}, {{}}, {0}, {FALSE}, {None}, {None})
    BY DEF NoVisit, VisitsOf
  <2> QED BY <2>1 DEF VisitRecord
<1>4. Counted(NoVisit, FALSE, Width)
  <2>1. IsFiniteSet({}) /\ Cardinality({}) = 0
    BY FS_EmptySet
  <2>2. /\ NoVisit.phase = "idle" /\ NoVisit.in_flight = {} /\ NoVisit.late = 0
        /\ NoVisit.quit = FALSE
    BY DEF NoVisit
  <2> QED BY <1>2, <1>3, <2>1, <2>2 DEF Counted, Phases
<1> QED BY <1>1, <1>2, <1>4 DEF CountedInv

\* What a step does to the visits.
LEMMA VisitsMove ==
  ASSUME [Next]_vars
  PROVE  \/ UNCHANGED <<caller, visit_of, token>>
         \/ \E t, r \in Roots : BeginVisit(t, r)
         \/ \E r \in Roots : TakeItem(r)
         \/ \E r \in Roots : \E item, control : Deliver(r, item, control)
         \/ \E r \in Roots : EndVisit(r)
<1>1. CASE \E t, r \in Roots : BeginWalk(t, r)
  BY <1>1 DEF BeginWalk, StartWalk, multiVars
<1>2. CASE \E r \in Roots : ContinueWalk(r)
  BY <1>2 DEF ContinueWalk, CallerStep, SubmitLane, RejectLane, MergeLanes, multiVars
<1>3. CASE \E r \in Roots : ContinueLane(r)
  BY <1>3 DEF ContinueLane, LaneStep, RunTask, SendReport, multiVars
<1>4. CASE \E t, r \in Roots : BeginVisit(t, r)
  BY <1>4
<1>5. CASE \E t, r \in Roots : FinishRoot(t, r)
  BY <1>5 DEF FinishRoot, walkVars
<1>6. CASE \E r \in Roots : VisitStep(r)
  BY <1>6 DEF VisitStep
<1>7. CASE JoinThreads \/ AfterTheCall \/ UNCHANGED vars
  BY <1>7 DEF JoinThreads, AfterTheCall, vars, walkVars, multiVars
<1> QED BY <1>1, <1>2, <1>3, <1>4, <1>5, <1>6, <1>7 DEF Next

LEMMA CountedStep == CountedInv /\ [Next]_vars => CountedInv'
<1> SUFFICES ASSUME CountedInv, [Next]_vars PROVE CountedInv'
  OBVIOUS
<1>1. CASE UNCHANGED <<caller, visit_of, token>>
  BY <1>1 DEF CountedInv, Width
<1> QED BY <1>1, VisitsMove, BeginVisitCounted, TakeItemCounted, DeliverCounted, EndVisitCounted

LEMMA CountedHolds == Spec => []CountedInv
BY CountedStart, CountedStep, PTL DEF Spec

LEMMA CountedBounds == CountedInv => QuitStopsEveryRoot
<1> SUFFICES ASSUME CountedInv, NEW r \in Roots
             PROVE  visit_of[r].late <= Width
  BY DEF QuitStopsEveryRoot, Width
<1>1. /\ IsFiniteSet(visit_of[r].in_flight) /\ visit_of[r].late \in Nat
      /\ visit_of[r].late + Cardinality(visit_of[r].in_flight) <= Width /\ Width \in Nat
  BY DEF CountedInv, Counted
<1>2. PICK c : c = Cardinality(visit_of[r].in_flight)
  OBVIOUS
<1>3. c \in Nat
  BY <1>1, <1>2, FS_CardinalityType
<1> QED BY <1>1, <1>2, <1>3

\* Whatever the number of roots and of workers: once one root has quit or failed, every
\* root still delivers at most what its workers had taken.
THEOREM QuitReachesEveryRoot == Spec => []QuitStopsEveryRoot
BY CountedBounds, CountedHolds, PTL

-----------------------------------------------------------------------------
(* The visits: what is delivered *)

LEMMA AtLeastOneRoot ==
  /\ NumRoots \in Nat \ {0} /\ Roots = 1 .. NumRoots
  /\ \A n \in Nat : root_worker_count(n) \in 1 .. NumRoots
<1>1. NumRoots \in Nat /\ NumRoots # 0
  BY RootsAssumption, FS_CardinalityType, FS_EmptySet DEF NumRoots
<1>2. \A n, m \in Nat : m # 0 => AtLeastOne(AtMost(n, m)) \in 1 .. m
  BY DEF AtLeastOne, AtMost
<1> QED BY <1>1, <1>2, RootsAssumption DEF NumRoots, root_worker_count

\* What Pruned and Unseen say of a visit.
PrunedIn(v, item) == \E s \in v.skipped : IsPrefixPath(s.path, item.path)
                                          \/ (IsError(item) /\ s.path = item.path)
UnseenOf(v) == {item \in ToSet(v.items) : ~PrunedIn(v, item)} \ v.delivered

LEMMA UnseenIs == \A r : Unseen(r) = UnseenOf(visit_of[r])
BY DEF Unseen, UnseenOf, Pruned, PrunedIn

\* What is above an item a visit has taken was delivered to it, and not skipped; what
\* it answers with is whole.
WholeSoFar(v, cancelled) ==
    /\ v.in_flight \subseteq ToSet(v.items) /\ v.delivered \subseteq ToSet(v.items)
    /\ v.in_flight \cap v.delivered = {}
    /\ \A s \in v.skipped : s \in v.delivered /\ IsDir(s)
    /\ \A x \in v.in_flight \cup v.delivered : \A s \in ToSet(v.items) : Above(s, x) => s \in v.delivered
    /\ \A x \in v.in_flight \cup v.delivered : ~PrunedIn(v, x)
    /\ v.phase = "idle" => v.in_flight = {} /\ v.delivered = {} /\ v.skipped = {}
    /\ v.phase = "returned" /\ v.result[1].ok = TRUE /\ cancelled = FALSE => UnseenOf(v) = {}

WholeInv ==
    /\ CountedInv /\ root_workers \in 1 .. NumRoots /\ caller.on_worker \in BOOLEAN
    /\ \A r \in Roots : WholeSoFar(visit_of[r], token)

LEMMA ToSetIs ==
  ASSUME NEW items
  PROVE  ToSet(items) = {items[i] : i \in DOMAIN items}
BY DEF ToSet

LEMMA PrefixIs ==
  ASSUME NEW p \in Seq(Nodes), NEW q \in Seq(Nodes)
  PROVE  IsPrefixPath(p, q) <=> Len(p) < Len(q) /\ \A i \in 1 .. Len(p) : q[i] = p[i]
<1>1. PICK m \in Nat, n \in Nat : m = Len(p) /\ n = Len(q) /\ DOMAIN p = 1 .. m /\ DOMAIN q = 1 .. n
  OBVIOUS
<1>2. ASSUME m < n
      PROVE  SubSeq(q, 1, m) = p <=> \A i \in 1 .. m : q[i] = p[i]
  <2>1. /\ SubSeq(q, 1, m) \in Seq(Nodes) /\ Len(SubSeq(q, 1, m)) = m
        /\ \A i \in 1 .. m : SubSeq(q, 1, m)[i] = q[i]
    BY <1>1, <1>2
  <2>2. PICK s : s = SubSeq(q, 1, m)
    OBVIOUS
  <2>3. s \in Seq(Nodes) /\ Len(s) = m /\ \A i \in 1 .. m : s[i] = q[i]
    BY <2>1, <2>2
  <2>4. s = p <=> \A i \in 1 .. m : s[i] = p[i]
    BY <1>1, <2>3
  <2> QED BY <2>2, <2>3, <2>4
<1> QED BY <1>1, <1>2 DEF IsPrefixPath

LEMMA PrefixesCompose ==
  ASSUME NEW p \in Seq(Nodes), NEW q \in Seq(Nodes), NEW s \in Seq(Nodes),
         IsPrefixPath(p, q), IsPrefixPath(q, s)
  PROVE  IsPrefixPath(p, s)
<1>1. PICK l \in Nat, m \in Nat, n \in Nat : l = Len(p) /\ m = Len(q) /\ n = Len(s)
  OBVIOUS
<1>2. l < m /\ m < n
  BY <1>1, PrefixIs
<1>3. /\ \A i \in 1 .. l : q[i] = p[i]
      /\ \A i \in 1 .. m : s[i] = q[i]
  BY <1>1, PrefixIs
<1>4. l < n /\ \A i \in 1 .. l : s[i] = p[i]
  BY <1>2, <1>3
<1> QED BY <1>1, <1>4, PrefixIs

\* What is ready is unseen, and nothing above it is.
LEMMA ReadyIsTopmost ==
  ASSUME NEW r, TopDown(visit_of[r].items), NEW x \in Ready(r)
  PROVE  /\ x \in Unseen(r)
         /\ \A s \in ToSet(visit_of[r].items) : Above(s, x) => s \notin Unseen(r)
<1>1. PICK items, left : items = visit_of[r].items /\ left = Unseen(r)
  OBVIOUS
<1>2. left \subseteq ToSet(items)
  BY <1>1 DEF Unseen
<1>3. CASE caller.on_worker
  <2>1. PICK i \in DOMAIN items : /\ x = items[i] /\ items[i] \in left
                                  /\ \A k \in DOMAIN items : items[k] \in left => i <= k
    BY <1>1, <1>3 DEF Ready
  <2>2. ASSUME NEW s \in ToSet(items), Above(s, x), s \in left
        PROVE  FALSE
    <3>1. PICK j \in DOMAIN items : s = items[j]
      BY ToSetIs
    <3>2. j < i
      BY <1>1, <2>1, <2>2, <3>1 DEF TopDown
    <3>3. i <= j
      BY <2>1, <2>2, <3>1
    <3>4. i \in Nat /\ j \in Nat
      BY <1>1, <2>1, <3>1 DEF TopDown
    <3> QED BY <3>2, <3>3, <3>4
  <2> QED BY <1>1, <2>1, <2>2
<1>4. CASE ~caller.on_worker
  <2>1. x \in left /\ ~\E above \in left : Above(above, x)
    BY <1>1, <1>4 DEF Ready
  <2> QED BY <1>1, <2>1
<1> QED BY <1>3, <1>4

\* What is above an unseen item and is seen itself was delivered.
LEMMA SeenAboveUnseen ==
  ASSUME NEW v, TopDown(v.items), NEW x \in UnseenOf(v), NEW s \in ToSet(v.items),
         Above(s, x), s \notin UnseenOf(v), \A z \in v.skipped : z \in ToSet(v.items)
  PROVE  s \in v.delivered
<1>1. SUFFICES ASSUME PrunedIn(v, s) PROVE FALSE
  BY DEF UnseenOf
<1>2. ~IsError(s) /\ (IsPrefixPath(s.path, x.path) \/ (IsError(x) /\ s.path = x.path))
  BY DEF Above
<1>3. PICK z \in v.skipped : IsPrefixPath(z.path, s.path)
  BY <1>1, <1>2 DEF PrunedIn
<1>4. x.path \in Seq(Nodes) /\ s.path \in Seq(Nodes) /\ z.path \in Seq(Nodes)
  <2>1. \A i \in ToSet(v.items) : i \in Item
    BY ToSetIs DEF TopDown
  <2>2. \A i \in Item : i.path \in Seq(Nodes)
    BY DEF Item
  <2>3. x \in ToSet(v.items) /\ z \in ToSet(v.items)
    BY <1>3 DEF UnseenOf
  <2> QED BY <2>1, <2>2, <2>3
<1>5. IsPrefixPath(z.path, x.path)
  BY <1>2, <1>3, <1>4, PrefixesCompose
<1>6. PrunedIn(v, x)
  BY <1>3, <1>5 DEF PrunedIn
<1> QED BY <1>6 DEF UnseenOf

LEMMA WholeReplaced ==
  ASSUME WholeInv, CountedInv', NEW r \in Roots, NEW v, WholeSoFar(v, token'),
         visit_of' = [visit_of EXCEPT ![r] = v], token => token',
         UNCHANGED <<caller, root_workers>>
  PROVE  WholeInv'
<1>1. visit_of'[r] = v /\ \A q \in Roots : q # r => visit_of'[q] = visit_of[q]
  BY DEF WholeInv, CountedInv
<1>2. token \in BOOLEAN /\ token' \in BOOLEAN
  BY DEF WholeInv, CountedInv
<1>3. PICK old, new : old = token /\ new = token' /\ (new = FALSE => old = FALSE)
  BY <1>2
<1>4. ASSUME NEW q \in Roots
      PROVE  WholeSoFar(visit_of'[q], new)
  <2>1. CASE q = r
    BY <1>1, <1>3, <2>1
  <2>2. CASE q # r
    <3>1. WholeSoFar(visit_of[q], old) /\ visit_of'[q] = visit_of[q]
      BY <1>1, <1>3, <2>2 DEF WholeInv
    <3>2. PICK o : o = visit_of[q]
      OBVIOUS
    <3>3. WholeSoFar(o, new)
      BY <1>3, <3>1, <3>2 DEF WholeSoFar
    <3> QED BY <3>1, <3>2, <3>3
  <2> QED BY <2>1, <2>2
<1>5. \A q \in Roots : WholeSoFar(visit_of'[q], token')
  BY <1>3, <1>4
<1>6. root_workers' \in 1 .. NumRoots /\ caller'.on_worker \in BOOLEAN
  BY DEF WholeInv
<1> QED BY <1>5, <1>6 DEF WholeInv
LEMMA TakeItemWhole ==
  ASSUME WholeInv, CountedInv', NEW r \in Roots, TakeItem(r), TopDown(visit_of[r].items)
  PROVE  WholeInv'
<1>1. /\ WholeSoFar(visit_of[r], token) /\ VisitRecord(visit_of[r]) /\ token \in BOOLEAN
  BY DEF WholeInv, CountedInv, Counted
<1>2. /\ visit_of[r].phase = "visiting" /\ UNCHANGED <<caller, token, root_workers>>
      /\ \E item \in Ready(r) \ visit_of[r].in_flight :
             visit_of' = [visit_of EXCEPT ![r] = WithTaken(visit_of[r], item)]
  BY <1>1, TakeItemIs DEF TakeItem
<1>3. PICK x \in Ready(r) : visit_of' = [visit_of EXCEPT ![r] = WithTaken(visit_of[r], x)]
  BY <1>2
<1>4. PICK o : o = visit_of[r]
  OBVIOUS
<1>5. PICK v : v = WithTaken(o, x)
  OBVIOUS
<1>6. /\ v.in_flight = o.in_flight \cup {x} /\ v.phase = "visiting" /\ v.items = o.items
      /\ v.delivered = o.delivered /\ v.skipped = o.skipped
  BY <1>1, <1>2, <1>4, <1>5, TakenFacts
<1>7. /\ x \in UnseenOf(o)
      /\ \A s \in ToSet(o.items) : Above(s, x) => s \notin UnseenOf(o)
  BY <1>4, ReadyIsTopmost, UnseenIs
<1>8. PICK c : c = token
  OBVIOUS
<1>9. WholeSoFar(o, c) /\ TopDown(o.items)
  BY <1>1, <1>4, <1>8
<1>10. \A z \in o.skipped : z \in ToSet(o.items)
  BY <1>9 DEF WholeSoFar
<1>11. \A s \in ToSet(o.items) : Above(s, x) => s \in o.delivered
  BY <1>7, <1>9, <1>10, SeenAboveUnseen
<1>12. x \in ToSet(o.items) /\ ~PrunedIn(o, x) /\ x \notin o.delivered
  BY <1>7 DEF UnseenOf
<1>13. \A y : PrunedIn(v, y) <=> PrunedIn(o, y)
  BY <1>6 DEF PrunedIn
<1>14. WholeSoFar(v, c)
  BY <1>6, <1>9, <1>11, <1>12, <1>13 DEF WholeSoFar
<1> QED BY <1>2, <1>3, <1>4, <1>5, <1>8, <1>14, WholeReplaced

LEMMA DeliverWhole ==
  ASSUME WholeInv, CountedInv', NEW r \in Roots, NEW item, NEW control,
         Deliver(r, item, control), TopDown(visit_of[r].items)
  PROVE  WholeInv'
<1>1. /\ WholeSoFar(visit_of[r], token) /\ VisitRecord(visit_of[r]) /\ token \in BOOLEAN
  BY DEF WholeInv, CountedInv, Counted
<1>2. /\ visit_of[r].phase = "visiting" /\ item \in visit_of[r].in_flight
      /\ UNCHANGED <<caller, root_workers>> /\ (token => token') /\ token' \in BOOLEAN
      /\ \E w : /\ DeliveredAs(visit_of[r], w, item, control, token)
                /\ visit_of' = [visit_of EXCEPT ![r] = w]
  <2>1. UNCHANGED root_workers
    BY DEF Deliver
  <2> QED BY <1>1, <2>1, DeliverIs
<1>3. PICK v : /\ DeliveredAs(visit_of[r], v, item, control, token)
               /\ visit_of' = [visit_of EXCEPT ![r] = v]
  BY <1>2
<1>4. PICK o, old, new : o = visit_of[r] /\ old = token /\ new = token'
  OBVIOUS
<1>5. PICK late, failed, skips, quit :
        /\ v = WithDelivered(o, item, late, skips, quit, failed)
        /\ skips = IF control = "Skip" /\ IsDir(item) THEN o.skipped \cup {item} ELSE o.skipped
  BY <1>3, <1>4 DEF DeliveredAs
<1>6. /\ v.in_flight = o.in_flight \ {item} /\ v.delivered = o.delivered \cup {item}
      /\ v.skipped = skips /\ v.phase = "visiting" /\ v.items = o.items
  BY <1>1, <1>2, <1>4, <1>5, DeliveredFacts
<1>7. WholeSoFar(o, old) /\ TopDown(o.items) /\ item \in o.in_flight
  BY <1>1, <1>2, <1>4
<1>8. item \in ToSet(o.items) /\ item \notin o.delivered
  BY <1>7 DEF WholeSoFar
<1>9. IsDir(item) => ~IsError(item)
  BY <1>7, <1>8, ToSetIs DEF TopDown
<1>10. \A s \in skips : s \in v.delivered /\ IsDir(s)
  BY <1>5, <1>6, <1>7 DEF WholeSoFar
<1>11. v.in_flight \cup v.delivered = o.in_flight \cup o.delivered
  BY <1>6, <1>7
<1>12. ASSUME NEW x \in o.in_flight \cup o.delivered, PrunedIn(v, x)
       PROVE  FALSE
  <2>1. PICK s \in skips : IsPrefixPath(s.path, x.path) \/ (IsError(x) /\ s.path = x.path)
    BY <1>6, <1>12 DEF PrunedIn
  <2>2. s \notin o.skipped
    <3>1. ~PrunedIn(o, x)
      BY <1>7 DEF WholeSoFar
    <3> QED BY <2>1, <3>1 DEF PrunedIn
  <2>3. s = item /\ IsDir(item)
    BY <1>5, <2>1, <2>2
  <2>4. Above(item, x)
    BY <1>9, <2>1, <2>3 DEF Above
  <2>5. item \in o.delivered
    BY <1>7, <1>8, <2>4 DEF WholeSoFar
  <2> QED BY <1>8, <2>5
<1>13. \A x \in v.in_flight \cup v.delivered : ~PrunedIn(v, x)
  BY <1>11, <1>12
<1>14. \A x \in v.in_flight \cup v.delivered : \A s \in ToSet(v.items) : Above(s, x) => s \in v.delivered
  BY <1>6, <1>7, <1>11 DEF WholeSoFar
<1>15. /\ v.in_flight \subseteq ToSet(v.items) /\ v.delivered \subseteq ToSet(v.items)
       /\ v.in_flight \cap v.delivered = {}
  BY <1>6, <1>7, <1>8 DEF WholeSoFar
<1>16. WholeSoFar(v, new)
  BY <1>6, <1>10, <1>13, <1>14, <1>15 DEF WholeSoFar
<1> QED BY <1>2, <1>3, <1>4, <1>16, WholeReplaced

\* A visit with the deliveries of another.
LEMMA SameDeliveriesWhole ==
  ASSUME NEW o, NEW v, NEW old, NEW new, WholeSoFar(o, old), SameDeliveries(o, v),
         v.items = o.items \/ o.phase = "idle",
         v.phase # "idle",
         v.phase = "returned" /\ v.result[1].ok = TRUE /\ new = FALSE => UnseenOf(o) = {} /\ v.items = o.items
  PROVE  WholeSoFar(v, new)
<1>1. \A y : PrunedIn(v, y) <=> PrunedIn(o, y)
  BY DEF SameDeliveries, PrunedIn
<1>2. v.items = o.items => UnseenOf(v) = UnseenOf(o)
  BY <1>1 DEF SameDeliveries, UnseenOf
<1>3. CASE v.items = o.items
  BY <1>1, <1>2, <1>3 DEF WholeSoFar, SameDeliveries
<1>4. CASE v.items # o.items
  <2>1. v.in_flight = {} /\ v.delivered = {} /\ v.skipped = {}
    BY <1>4 DEF WholeSoFar, SameDeliveries
  <2>2. ~(v.phase = "returned" /\ v.result[1].ok = TRUE /\ new = FALSE)
    BY <1>4
  <2> QED BY <2>1, <2>2 DEF WholeSoFar
<1> QED BY <1>3, <1>4

LEMMA BeginVisitWhole ==
  ASSUME WholeInv, CountedInv', NEW t, NEW r \in Roots, BeginVisit(t, r)
  PROVE  WholeInv'
<1>1. /\ WholeSoFar(visit_of[r], token) /\ VisitRecord(visit_of[r]) /\ token \in BOOLEAN
  BY DEF WholeInv, CountedInv, Counted
<1>2. VisitBegins(r) /\ UNCHANGED <<caller, root_workers>> /\ visit_of[r].phase = "idle"
  <2>1. UNCHANGED root_workers
    BY DEF BeginVisit
  <2> QED BY <1>1, <2>1, BeginVisitIs
<1>3. PICK items, x : items = ItemsOf(r) /\ x = Err(RootError(RootPath[r], VisitOptions)[1])
  OBVIOUS
<1>4. PICK o, old : o = visit_of[r] /\ old = token
  OBVIOUS
<1>5. CASE /\ visit_of' = [visit_of EXCEPT ![r] = BegunWith(visit_of[r], items)]
           /\ token' = token
  <2>1. PICK v : v = BegunWith(o, items)
    OBVIOUS
  <2>2. SameDeliveries(o, v) /\ v.phase = "visiting"
    BY <1>1, <1>4, <2>1, BegunFacts
  <2>3. WholeSoFar(v, old)
    BY <1>1, <1>2, <1>4, <2>2, SameDeliveriesWhole
  <2> QED BY <1>2, <1>4, <1>5, <2>1, <2>3, WholeReplaced
<1>6. CASE /\ visit_of' = [visit_of EXCEPT ![r] = EndedWith(visit_of[r], x)]
           /\ token' = TRUE
  <2>1. PICK v : v = EndedWith(o, x)
    OBVIOUS
  <2>2. SameDeliveries(o, v) /\ v.phase = "returned" /\ v.result = Some(x) /\ v.items = o.items
    BY <1>1, <1>4, <2>1, EndedFacts
  <2>3. v.result[1].ok = FALSE
    BY <1>3, <2>2, ResultShapes, SomeIs
  <2>4. WholeSoFar(v, TRUE)
    BY <1>1, <1>4, <2>2, <2>3, SameDeliveriesWhole
  <2> QED BY <1>2, <1>4, <1>6, <2>1, <2>4, WholeReplaced
<1> QED BY <1>2, <1>3, <1>5, <1>6 DEF VisitBegins

LEMMA EndVisitWhole ==
  ASSUME WholeInv, CountedInv', NEW r \in Roots, EndVisit(r)
  PROVE  WholeInv'
<1>1. /\ WholeSoFar(visit_of[r], token) /\ VisitRecord(visit_of[r]) /\ token \in BOOLEAN
      /\ token = FALSE => visit_of[r].quit = FALSE
  BY DEF WholeInv, CountedInv, Counted
<1>2. PICK o, x, old, new : o = visit_of[r] /\ x = Answer(o) /\ old = token /\ new = token'
  OBVIOUS
<1>3. PICK v : v = EndedWith(o, x)
  OBVIOUS
<1>4. /\ visit_of' = [visit_of EXCEPT ![r] = v] /\ UNCHANGED <<caller, root_workers>>
      /\ token' = (token \/ o.failed # None)
      /\ token \/ o.quit \/ o.failed # None \/ Unseen(r) = {}
  <2>1. UNCHANGED root_workers
    BY DEF EndVisit
  <2> QED BY <1>2, <1>3, <2>1, EndVisitIs
<1>5. SameDeliveries(o, v) /\ v.phase = "returned" /\ v.result = Some(x) /\ v.items = o.items
  BY <1>1, <1>2, <1>3, EndedFacts
<1>6. v.result[1] = x /\ x.ok = (o.failed = None)
  BY <1>2, <1>5, AnswerIs, SomeIs
<1>7. new = FALSE => UnseenOf(o) = {}
  BY <1>1, <1>2, <1>4, UnseenIs
<1>9. WholeSoFar(o, old)
  BY <1>1, <1>2
<1>10. WholeSoFar(v, new)
  BY <1>5, <1>7, <1>9, SameDeliveriesWhole
<1>11. token => token'
  BY <1>4
<1> QED BY <1>2, <1>4, <1>10, <1>11, WholeReplaced

LEMMA WholeStart == Init => WholeInv
<1> SUFFICES ASSUME Init PROVE WholeInv
  OBVIOUS
<1>1. CountedInv
  BY CountedStart
<1>2. root_workers \in 1 .. NumRoots
  BY AtLeastOneRoot, MultiRootAssumption DEF Init
<1>3. caller.on_worker \in BOOLEAN
  BY RootsAssumption DEF Init, WalkInit
<1>4. WholeSoFar(NoVisit, FALSE)
  <2>1. NoVisit.phase = "idle" /\ NoVisit.in_flight = {} /\ NoVisit.delivered = {} /\ NoVisit.skipped = {}
    BY DEF NoVisit
  <2> QED BY <2>1 DEF WholeSoFar
<1>5. \A r \in Roots : visit_of[r] = NoVisit /\ token = FALSE
  BY DEF Init
<1> QED BY <1>1, <1>2, <1>3, <1>4, <1>5 DEF WholeInv

LEMMA WholeStep == WholeInv /\ ItemsComeTopDown /\ [Next]_vars => WholeInv'
<1> SUFFICES ASSUME WholeInv, ItemsComeTopDown, [Next]_vars PROVE WholeInv'
  OBVIOUS
<1>1. CountedInv'
  BY CountedStep DEF WholeInv
<1>2. \A r \in Roots : TopDown(visit_of[r].items)
  BY DEF ItemsComeTopDown
<1>3. CASE UNCHANGED <<caller, visit_of, token>>
  <2>1. UNCHANGED root_workers
    BY <1>3 DEF Next, vars, multiVars, BeginWalk, ContinueWalk, ContinueLane, BeginVisit, FinishRoot,
                VisitStep, TakeItem, Deliver, EndVisit, JoinThreads, AfterTheCall
  <2> QED BY <1>1, <1>3, <2>1 DEF WholeInv
<1> QED BY <1>1, <1>2, <1>3, VisitsMove, BeginVisitWhole, TakeItemWhole, DeliverWhole, EndVisitWhole

\* Whatever the roots, the workers and the order of the deliveries: nothing below a skipped
\* directory is delivered, a visit nobody quit delivers all the rest, and a quit ends every
\* visit.  What a walker lists is taken top down; TLC checks that it is.
THEOREM VisitsDeliverUntilQuit == Spec /\ []ItemsComeTopDown => []DeliversUntilQuit
<1>1. WholeInv /\ ItemsComeTopDown => DeliversUntilQuit
  <2> SUFFICES ASSUME WholeInv, ItemsComeTopDown PROVE DeliversUntilQuit
    OBVIOUS
  <2>1. MultiTypeOK
    BY DEF WholeInv, CountedInv, Counted, MultiTypeOK, Phases
  <2>2. VisitsAllButSkipped
    <3>1. ASSUME NEW r \in Roots
          PROVE  \A item \in visit_of[r].delivered : ~Pruned(r, item)
      BY DEF WholeInv, WholeSoFar, Pruned, PrunedIn
    <3>2. ASSUME NEW r \in Roots, Over(r), mode = "visit", ResultOf(r).ok, ~token
          PROVE  Unseen(r) = {}
      <4>1. visit_of[r].phase = "returned" /\ ResultOf(r) = visit_of[r].result[1]
        BY <3>2 DEF Over, ResultOf
      <4>2. WholeSoFar(visit_of[r], token) /\ token = FALSE
        BY <3>2 DEF WholeInv, CountedInv
      <4>3. PICK o, c : o = visit_of[r] /\ c = token
        OBVIOUS
      <4>4. IsAnswer(o.result[1])
        BY <4>1, <4>3 DEF WholeInv, CountedInv, Counted
      <4>5. o.result[1].ok = TRUE
        BY <3>2, <4>1, <4>3, <4>4 DEF IsAnswer
      <4>6. UnseenOf(o) = {}
        BY <4>1, <4>2, <4>3, <4>5 DEF WholeSoFar
      <4> QED BY <4>3, <4>6, UnseenIs
    <3> QED BY <3>1, <3>2 DEF VisitsAllButSkipped
  <2>3. QuitStopsEveryRoot
    BY CountedBounds DEF WholeInv
  <2> QED BY <2>1, <2>2, <2>3 DEF DeliversUntilQuit
<1>2. WholeInv /\ ItemsComeTopDown /\ [Next]_vars => WholeInv'
  BY WholeStep
<1> QED BY <1>1, <1>2, WholeStart, PTL DEF Spec
-----------------------------------------------------------------------------
(* The threads: what each has done and has left to do *)

\* The roots after a, up to b.
Run(a, b) == [i \in 1 .. (b - a) |-> a + i]

\* What a run is, said of a sequence.
RunsFrom(s, a, n) == s \in Seq(Nat) /\ Len(s) = n /\ \A i \in 1 .. n : s[i] = a + i

LEMMA RunIs ==
  ASSUME NEW a \in Nat, NEW b \in Nat, NEW n \in Nat, b = a + n
  PROVE  RunsFrom(Run(a, b), a, n)
<1>1. b - a = n
  OBVIOUS
<1> QED BY <1>1 DEF Run, RunsFrom

LEMMA SameRun ==
  ASSUME NEW s, NEW t, NEW a \in Nat, NEW n \in Nat, RunsFrom(s, a, n), RunsFrom(t, a, n)
  PROVE  s = t
<1>1. s \in Seq(Nat) /\ t \in Seq(Nat) /\ Len(s) = Len(t) /\ \A i \in 1 .. Len(s) : s[i] = t[i]
  BY DEF RunsFrom
<1> QED BY <1>1

LEMMA RunsOn ==
  ASSUME NEW s, NEW t, NEW a \in Nat, NEW n \in Nat, NEW k \in Nat, NEW c \in Nat, c = a + n,
         RunsFrom(s, a, n), RunsFrom(t, c, k)
  PROVE  RunsFrom(s \o t, a, n + k)
<1>1. PICK u : u = s \o t
  OBVIOUS
<1>2. s \in Seq(Nat) /\ t \in Seq(Nat) /\ Len(s) = n /\ Len(t) = k
  BY DEF RunsFrom
<1>3. DOMAIN s = 1 .. n /\ DOMAIN t = 1 .. k
  BY <1>2
<1>4. u \in Seq(Nat) /\ Len(u) = n + k
  BY <1>1, <1>2, ConcatFacts
<1>5. DOMAIN u = 1 .. (n + k)
  BY <1>4
<1>6. \A i \in DOMAIN u : \/ i \in DOMAIN s /\ u[i] = s[i]
                          \/ i \notin DOMAIN s /\ i - n \in DOMAIN t /\ u[i] = t[i - n]
  BY <1>1, <1>2, ConcatFacts
<1>7. ASSUME NEW i \in 1 .. (n + k)
      PROVE  u[i] = a + i
  <2>1. CASE i \in DOMAIN s /\ u[i] = s[i]
    BY <1>3, <2>1 DEF RunsFrom
  <2>2. CASE i \notin DOMAIN s /\ i - n \in DOMAIN t /\ u[i] = t[i - n]
    <3>1. PICK j \in 1 .. k : j = i - n
      BY <1>3, <2>2
    <3>2. u[i] = c + j
      BY <2>2, <3>1 DEF RunsFrom
    <3> QED BY <3>1, <3>2
  <2> QED BY <1>5, <1>6, <2>1, <2>2
<1> QED BY <1>1, <1>4, <1>7 DEF RunsFrom

LEMMA RunFacts ==
  ASSUME NEW a \in Nat, NEW b \in Nat, a <= b
  PROVE  /\ Run(a, b) \in Seq(Nat) /\ Len(Run(a, b)) = b - a
         /\ \A i \in 1 .. (b - a) : Run(a, b)[i] = a + i
         /\ Run(a, b) = <<>> <=> a = b
         /\ a < b => Run(a, b) # <<>> /\ Head(Run(a, b)) = a + 1 /\ Tail(Run(a, b)) = Run(a + 1, b)
         /\ Append(Run(a, b), b + 1) = Run(a, b + 1)
<1>1. Run(a, b) \in Seq(Nat) /\ Len(Run(a, b)) = b - a /\ \A i \in 1 .. (b - a) : Run(a, b)[i] = a + i
  BY DEF Run
<1>2. PICK s : s = Run(a, b)
  OBVIOUS
<1>3. s = <<>> <=> a = b
  BY <1>1, <1>2
<1>4. ASSUME a < b
      PROVE  Head(s) = a + 1 /\ Tail(s) = Run(a + 1, b)
  <2>1. PICK u : u = Run(a + 1, b)
    OBVIOUS
  <2>2. u \in Seq(Nat) /\ Len(u) = b - (a + 1) /\ \A i \in 1 .. (b - (a + 1)) : u[i] = (a + 1) + i
    BY <1>4, <2>1 DEF Run
  <2>3. s # <<>>
    BY <1>3, <1>4
  <2>4. /\ Head(s) = s[1] /\ Tail(s) \in Seq(Nat) /\ Len(Tail(s)) = Len(s) - 1
        /\ \A i \in 1 .. (Len(s) - 1) : Tail(s)[i] = s[i + 1]
    BY <1>1, <1>2, <2>3
  <2>5. Tail(s) = u
    <3>1. PICK t : t = Tail(s)
      OBVIOUS
    <3>2. t \in Seq(Nat) /\ Len(t) = Len(u) /\ \A i \in 1 .. Len(u) : t[i] = u[i]
      BY <1>1, <1>2, <1>4, <2>2, <2>4, <3>1
    <3>3. t = u
      BY <2>2, <3>2
    <3> QED BY <3>1, <3>3
  <2> QED BY <1>1, <1>2, <1>4, <2>1, <2>4, <2>5
<1>5. Append(s, b + 1) = Run(a, b + 1)
  <2>1. PICK n \in Nat : b = a + n /\ b + 1 = a + (n + 1) /\ n + 1 \in Nat
    <3>1. b - a \in Nat /\ b = a + (b - a) /\ b + 1 = a + ((b - a) + 1)
      OBVIOUS
    <3> QED BY <3>1
  <2>2. PICK t : t = Append(s, b + 1)
    OBVIOUS
  <2>3. s \in Seq(Nat) /\ Len(s) = n /\ \A i \in 1 .. n : s[i] = a + i
    <3>1. RunsFrom(Run(a, b), a, n)
      BY <2>1, RunIs
    <3> QED BY <1>2, <3>1 DEF RunsFrom
  <2>4. DOMAIN s = 1 .. n
    BY <2>3
  <2>5. /\ t \in Seq(Nat) /\ Len(t) = n + 1 /\ t[n + 1] = b + 1
        /\ \A i \in DOMAIN s : t[i] = s[i]
    BY <2>2, <2>3, AppendFacts
  <2>6. ASSUME NEW i \in 1 .. (n + 1)
        PROVE  t[i] = a + i
    <3>1. i \in 1 .. n \/ i = n + 1
      BY <2>1
    <3>2. a + (n + 1) = b + 1
      BY <2>1
    <3> QED BY <2>3, <2>4, <2>5, <3>1, <3>2
  <2>7. RunsFrom(t, a, n + 1)
    BY <2>5, <2>6 DEF RunsFrom
  <2>8. RunsFrom(Run(a, b + 1), a, n + 1)
    BY <2>1, RunIs
  <2> QED BY <2>1, <2>2, <2>7, <2>8, SameRun
<1> QED BY <1>1, <1>2, <1>3, <1>4, <1>5

LEMMA RunEnds ==
  ASSUME NEW a \in Nat, NEW b \in Nat
  PROVE  /\ Run(a, a) = <<>>
         /\ a < b => Run(a, b) # <<>> /\ Head(Run(a, b)) = a + 1 /\ Tail(Run(a, b)) = Run(a + 1, b)
         /\ a <= b => Append(Run(a, b), b + 1) = Run(a, b + 1)
<1>1. a <= a
  OBVIOUS
<1>2. Run(a, a) = <<>>
  BY <1>1, RunFacts
<1>3. a <= b => /\ a < b => Run(a, b) # <<>> /\ Head(Run(a, b)) = a + 1 /\ Tail(Run(a, b)) = Run(a + 1, b)
                /\ Append(Run(a, b), b + 1) = Run(a, b + 1)
  BY RunFacts
<1> QED BY <1>2, <1>3

LEMMA RunsJoin ==
  ASSUME NEW a \in Nat, NEW b \in Nat, NEW c \in Nat, a <= b, b <= c
  PROVE  Run(a, b) \o Run(b, c) = Run(a, c)
<1>1. PICK n \in Nat : b = a + n
  <2> WITNESS b - a \in Nat
  <2> QED OBVIOUS
<1>2. PICK k \in Nat : c = b + k
  <2> WITNESS c - b \in Nat
  <2> QED OBVIOUS
<1>3. n + k \in Nat /\ c = a + (n + k)
  BY <1>1, <1>2
<1>4. RunsFrom(Run(a, b), a, n) /\ RunsFrom(Run(b, c), b, k) /\ RunsFrom(Run(a, c), a, n + k)
  BY <1>1, <1>2, <1>3, RunIs
<1>5. RunsFrom(Run(a, b) \o Run(b, c), a, n + k)
  BY <1>1, <1>4, RunsOn
<1> QED BY <1>3, <1>4, <1>5, SameRun

\* The roots a thread is given, when there are w threads: those after From, up to To.
SizeFor(w) == (NumRoots + w - 1) \div w
From(w, t) == IF w <= 1 THEN IF t = 1 THEN 0 ELSE NumRoots ELSE AtMost((t - 1) * SizeFor(w), NumRoots)
To(w, t) == IF w <= 1 THEN NumRoots ELSE AtMost(t * SizeFor(w), NumRoots)

LEMMA ShareFacts ==
  ASSUME NEW w \in 1 .. NumRoots
  PROVE  /\ \A t \in Roots : From(w, t) \in 0 .. NumRoots /\ To(w, t) \in 0 .. NumRoots
         /\ \A t \in Roots : From(w, t) <= To(w, t)
         /\ From(w, 1) = 0 /\ To(w, NumRoots) = NumRoots
         /\ \A t, u \in Roots : t < u => To(w, t) <= From(w, u)
         /\ w > 1 => \A t \in Roots : t + 1 \in Roots => From(w, t + 1) = To(w, t)
<1>1. PICK n \in Nat \ {0} : n = NumRoots /\ Roots = 1 .. n
  BY AtLeastOneRoot
<1>2. CASE w <= 1
  BY <1>1, <1>2 DEF From, To
<1>3. CASE w > 1
  <2>1. PICK c : c = SizeFor(w)
    OBVIOUS
  <2>2. c \in Nat /\ c > 0
    <3>1. PICK a \in Nat : a = n + w - 1 /\ a >= w
      BY <1>1, <1>3
    <3>2. PICK q : q = a \div w
      OBVIOUS
    <3>3. q \in Nat /\ a < (q * w) + w
      BY <1>3, <3>1, <3>2, QuotientFacts
    <3>4. q # 0
      BY <1>3, <3>1, <3>3
    <3> QED BY <1>1, <2>1, <3>1, <3>2, <3>3, <3>4 DEF SizeFor
  <2>3. \A t \in Roots : /\ From(w, t) = AtMost((t - 1) * c, n)
                         /\ To(w, t) = AtMost(t * c, n)
    BY <1>1, <1>3, <2>1 DEF From, To
  <2>4. ASSUME NEW a \in Nat, NEW b \in Nat, a <= b
        PROVE  /\ AtMost(a * c, n) \in 0 .. n /\ AtMost(b * c, n) \in 0 .. n
               /\ AtMost(a * c, n) <= AtMost(b * c, n)
    <3>1. PICK x \in Nat, y \in Nat : x = a * c /\ y = b * c /\ x <= y
      BY <2>2, <2>4, TimesFacts
    <3> QED BY <1>1, <3>1 DEF AtMost
  <2>5. AtMost(0 * c, n) = 0 /\ AtMost(n * c, n) = n
    <3>1. 0 * c = 0
      BY <2>2
    <3>2. PICK y \in Nat : y = n * c /\ 1 * n <= c * n
      BY <1>1, <2>2, TimesFacts
    <3>3. y >= n
      BY <1>1, <2>2, <3>2
    <3> QED BY <1>1, <3>1, <3>2, <3>3 DEF AtMost
  <2>6. ASSUME NEW t \in Roots
        PROVE  /\ From(w, t) \in 0 .. n /\ To(w, t) \in 0 .. n /\ From(w, t) <= To(w, t)
               /\ t + 1 \in Roots => From(w, t + 1) = To(w, t)
    <3>1. t - 1 \in Nat /\ t \in Nat /\ (t + 1) - 1 = t
      BY <1>1
    <3> QED BY <2>3, <2>4, <3>1
  <2>7. ASSUME NEW t \in Roots, NEW u \in Roots, t < u
        PROVE  To(w, t) <= From(w, u)
    <3>1. t \in Nat /\ u - 1 \in Nat /\ t <= u - 1
      BY <1>1, <2>7
    <3> QED BY <2>3, <2>4, <3>1
  <2>8. From(w, 1) = 0 /\ To(w, n) = n
    <3>1. 1 \in Roots /\ n \in Roots /\ 1 - 1 = 0
      BY <1>1
    <3> QED BY <2>3, <2>5, <3>1
  <2> QED BY <1>1, <2>6, <2>7, <2>8
<1> QED BY <1>1, <1>2, <1>3

\* The runs of the threads, joined, are one run.
LEMMA RunsFlatten ==
  ASSUME NEW n \in Nat \ {0}, NEW c \in [1 .. n -> Nat], NEW s, Len(s) = n,
         s[1] = Run(0, c[1]),
         \A t \in 1 .. n : t + 1 \in 1 .. n => c[t] <= c[t + 1] /\ s[t + 1] = Run(c[t], c[t + 1])
  PROVE  FlattenSeq(s) = Run(0, c[n])
<1>1. PICK g : Joins(s, n, g) /\ FlattenSeq(s) = g[n]
  BY FlattenIs
<1>2. \A i \in 1 .. n : g[i] = IF i = 1 THEN s[i] ELSE g[i - 1] \o s[i]
  BY <1>1 DEF Joins
<1> DEFINE Bad == {i \in 1 .. n : g[i] # Run(0, c[i])}
<1>3. Bad = {}
  <2> SUFFICES ASSUME Bad # {} PROVE FALSE
    OBVIOUS
  <2>1. PICK m \in Bad : \A x \in Bad : ~(x < m)
    BY LeastNumber
  <2>2. m \in 1 .. n /\ g[m] # Run(0, c[m])
    OBVIOUS
  <2>3. m # 1
    BY <1>2, <2>2
  <2>4. PICK k \in Nat : k = m - 1 /\ k \in 1 .. n /\ k + 1 = m /\ k < m
    BY <2>2, <2>3
  <2>5. g[k] = Run(0, c[k])
    BY <2>1, <2>4
  <2>6. g[m] = g[k] \o s[m]
    BY <1>2, <2>2, <2>3, <2>4
  <2>7. c[k] <= c[m] /\ s[m] = Run(c[k], c[m]) /\ c[k] \in Nat /\ c[m] \in Nat
    BY <2>2, <2>4
  <2>8. PICK x \in Nat, y \in Nat : x = c[k] /\ y = c[m] /\ x <= y
    BY <2>7
  <2>9. Run(0, x) \o Run(x, y) = Run(0, y)
    <3>1. PICK z \in Nat : z = 0 /\ z <= x
      BY <2>8
    <3>2. Run(z, x) \o Run(x, y) = Run(z, y)
      BY <2>8, <3>1, RunsJoin
    <3> QED BY <3>1, <3>2
  <2>10. g[m] = Run(0, x) \o Run(x, y)
    BY <2>5, <2>6, <2>7, <2>8
  <2>11. g[m] = Run(0, c[m])
    BY <2>8, <2>9, <2>10
  <2> QED BY <2>2, <2>11
<1> QED BY <1>1, <1>3

\* Sorting a run leaves it as it is.
LEMMA RunIsSorted ==
  ASSUME NEW m \in Nat
  PROVE  Sorted(Run(0, m)) = Run(0, m)
<1>1. PICK s : s = Run(0, m)
  OBVIOUS
<1>2. DOMAIN s = 1 .. m /\ \A i \in 1 .. m : s[i] = i
  BY <1>1 DEF Run
<1> DEFINE Before(i) == {j \in DOMAIN s : s[j] < s[i] \/ (s[j] = s[i] /\ j < i)}
<1>3. ASSUME NEW i \in 1 .. m
      PROVE  Cardinality(Before(i)) = i - 1
  <2>1. Before(i) = 1 .. (i - 1)
    BY <1>2
  <2>2. Cardinality(1 .. (i - 1)) = i - 1
    <3>1. 1 \in Int /\ i - 1 \in Int
      OBVIOUS
    <3>2. Cardinality(1 .. (i - 1)) = IF 1 > i - 1 THEN 0 ELSE i - 1 - 1 + 1
      BY <3>1, FS_Interval
    <3> QED BY <3>2
  <2> QED BY <2>1, <2>2
<1>4. Sorted(s) = [k \in DOMAIN s |-> s[CHOOSE i \in DOMAIN s : Cardinality(Before(i)) = k - 1]]
  BY DEF Sorted, SortedBy
<1>5. \A i \in 1 .. m : Cardinality(Before(i)) = i - 1
  BY <1>3
<1> HIDE DEF Before
<1>6. ASSUME NEW k \in 1 .. m
      PROVE  s[CHOOSE i \in DOMAIN s : Cardinality(Before(i)) = k - 1] = k
  <2>1. PICK j : j = CHOOSE i \in DOMAIN s : Cardinality(Before(i)) = k - 1
    OBVIOUS
  <2>2. \E i \in DOMAIN s : Cardinality(Before(i)) = k - 1
    BY <1>2, <1>5
  <2>3. j \in DOMAIN s /\ Cardinality(Before(j)) = k - 1
    BY <2>1, <2>2
  <2>4. j = k
    BY <1>2, <1>5, <2>3
  <2> QED BY <1>2, <2>1, <2>4
<1>7. Sorted(s) = [k \in 1 .. m |-> k]
  BY <1>2, <1>4, <1>6
<1>8. s = [k \in 1 .. m |-> k]
  BY <1>1 DEF Run
<1> QED BY <1>1, <1>7, <1>8
-----------------------------------------------------------------------------
(* The threads: a root that is over stays as it is *)

\* A visit that is replaced: what a step of the visit of r does to the phases.
VisitMoves(r) ==
    /\ \A q \in Roots : q # r => visit_of'[q] = visit_of[q]
    /\ visit_of[r].phase # "returned" /\ visit_of'[r].phase # "idle"

LEMMA VisitMovesTo ==
  ASSUME CountedInv, NEW r \in Roots, NEW v, visit_of' = [visit_of EXCEPT ![r] = v],
         visit_of[r].phase # "returned", v.phase # "idle"
  PROVE  VisitMoves(r)
<1>1. DOMAIN visit_of = Roots
  BY DEF CountedInv
<1>2. visit_of'[r] = v /\ \A q \in Roots : q # r => visit_of'[q] = visit_of[q]
  BY <1>1
<1> QED BY <1>2 DEF VisitMoves

LEMMA VisitPhases ==
  ASSUME CountedInv, [Next]_vars
  PROVE  \/ UNCHANGED visit_of
         \/ \E r \in Roots : /\ VisitMoves(r)
                             /\ visit_of[r].phase # "idle" \/ \E t \in Roots : BeginVisit(t, r)
<1>1. token \in BOOLEAN /\ \A r \in Roots : VisitRecord(visit_of[r])
  BY DEF CountedInv, Counted
<1>2. ASSUME NEW t \in Roots, NEW r \in Roots, BeginVisit(t, r)
      PROVE  VisitMoves(r)
  <2>1. VisitBegins(r) /\ visit_of[r].phase = "idle"
    BY <1>1, <1>2, BeginVisitIs
  <2>2. PICK v : /\ visit_of' = [visit_of EXCEPT ![r] = v]
                 /\ \/ v = BegunWith(visit_of[r], ItemsOf(r))
                    \/ v = EndedWith(visit_of[r], Err(RootError(RootPath[r], VisitOptions)[1]))
    BY <2>1 DEF VisitBegins
  <2>3. v.phase # "idle"
    BY <1>1, <2>2, BegunFacts, EndedFacts
  <2> QED BY <2>1, <2>2, <2>3, VisitMovesTo
<1>3. ASSUME NEW r \in Roots, TakeItem(r)
      PROVE  VisitMoves(r) /\ visit_of[r].phase # "idle"
  <2>1. /\ visit_of[r].phase = "visiting"
        /\ \E item \in Ready(r) \ visit_of[r].in_flight :
              visit_of' = [visit_of EXCEPT ![r] = WithTaken(visit_of[r], item)]
    BY <1>1, <1>3, TakeItemIs
  <2>2. PICK item : visit_of' = [visit_of EXCEPT ![r] = WithTaken(visit_of[r], item)]
    BY <2>1
  <2>3. WithTaken(visit_of[r], item).phase # "idle"
    BY <1>1, <2>1, TakenFacts
  <2> QED BY <2>1, <2>2, <2>3, VisitMovesTo
<1>4. ASSUME NEW r \in Roots, NEW item, NEW control, Deliver(r, item, control)
      PROVE  VisitMoves(r) /\ visit_of[r].phase # "idle"
  <2>1. PICK v : /\ visit_of[r].phase = "visiting"
                 /\ DeliveredAs(visit_of[r], v, item, control, token)
                 /\ visit_of' = [visit_of EXCEPT ![r] = v]
    BY <1>1, <1>4, DeliverIs
  <2>2. PICK late, failed, skips, quit :
          v = WithDelivered(visit_of[r], item, late, skips, quit, failed)
    BY <2>1 DEF DeliveredAs
  <2>3. v.phase # "idle"
    BY <1>1, <2>1, <2>2, DeliveredFacts
  <2> QED BY <2>1, <2>3, VisitMovesTo
<1>5. ASSUME NEW r \in Roots, EndVisit(r)
      PROVE  VisitMoves(r) /\ visit_of[r].phase # "idle"
  <2>1. /\ visit_of[r].phase = "visiting"
        /\ visit_of' = [visit_of EXCEPT ![r] = EndedWith(visit_of[r], Answer(visit_of[r]))]
    BY <1>5, EndVisitIs
  <2>2. EndedWith(visit_of[r], Answer(visit_of[r])).phase # "idle"
    BY <1>1, EndedFacts
  <2> QED BY <2>1, <2>2, VisitMovesTo
<1> QED BY <1>2, <1>3, <1>4, <1>5, VisitsMove

\* A walk begins only on the thread that has its root at the head of its list.
LEMMA WalkBegins ==
  ASSUME WalksInv, [Next]_vars, NEW r \in Roots, walk[r].phase = "idle", walk'[r].phase # "idle"
  PROVE  mode = "walk" /\ outcome = None /\ \E t \in Roots : Current(t, r)
<1>1. CASE \E t, q \in Roots : BeginWalk(t, q)
  <2>1. PICK t \in Roots, q \in Roots : BeginWalk(t, q)
    BY <1>1
  <2>2. WalkMoves(q) /\ mode = "walk" /\ outcome = None /\ Current(t, q)
    BY <2>1, StartWalkSound DEF BeginWalk
  <2>3. q = r
    BY <2>2 DEF WalkMoves
  <2> QED BY <2>2, <2>3
<1>2. ASSUME NEW q \in Roots, CallerStep(q) \/ LaneStep(q)
      PROVE  FALSE
  <2>1. WalkMoves(q)
    BY <1>2, CallerStepSound, LaneStepSound
  <2>2. walk[q].phase # "idle"
    <3>1. CASE CallerStep(q)
      BY <3>1 DEF CallerStep, SubmitLane, RejectLane, MergeLanes
    <3>2. CASE LaneStep(q)
      <4>1. \E l : l \in DOMAIN walk[q].lanes
        BY <3>2 DEF LaneStep
      <4>2. walk[q].lanes # <<>>
        BY <4>1
      <4> QED BY <4>2 DEF WalksInv, WalkSound
    <3> QED BY <1>2, <3>1, <3>2
  <2> QED BY <2>1, <2>2 DEF WalkMoves
<1>3. CASE UNCHANGED walk
  BY <1>3
<1>4. \/ UNCHANGED walk \/ \E t, q \in Roots : BeginWalk(t, q)
      \/ \E q \in Roots : CallerStep(q) \/ LaneStep(q)
  <2>1. CASE \E q \in Roots : ContinueWalk(q) \/ ContinueLane(q)
    BY <2>1 DEF ContinueWalk, ContinueLane
  <2>2. CASE \E t, q \in Roots : BeginVisit(t, q) \/ FinishRoot(t, q)
    BY <2>2 DEF BeginVisit, FinishRoot, walkVars
  <2>3. CASE \E q \in Roots : VisitStep(q)
    BY <2>3 DEF VisitStep, TakeItem, Deliver, EndVisit, walkVars
  <2>4. CASE JoinThreads \/ AfterTheCall \/ UNCHANGED vars
    BY <2>4 DEF JoinThreads, AfterTheCall, vars, walkVars
  <2> QED BY <2>1, <2>2, <2>3, <2>4 DEF Next
<1> QED BY <1>1, <1>2, <1>3, <1>4

LEMMA CallerStays == [Next]_vars => UNCHANGED <<caller, root_workers>>
<1> SUFFICES ASSUME [Next]_vars PROVE UNCHANGED <<caller, root_workers>>
  OBVIOUS
<1>1. CASE \E t, r \in Roots : BeginWalk(t, r) \/ BeginVisit(t, r) \/ FinishRoot(t, r)
  BY <1>1 DEF BeginWalk, StartWalk, BeginVisit, FinishRoot, walkVars, multiVars
<1>2. CASE \E r \in Roots : ContinueWalk(r)
  BY <1>2 DEF ContinueWalk, CallerStep, SubmitLane, RejectLane, MergeLanes, multiVars
<1>3. CASE \E r \in Roots : ContinueLane(r)
  BY <1>3 DEF ContinueLane, LaneStep, RunTask, SendReport, multiVars
<1>4. CASE \E r \in Roots : VisitStep(r)
  BY <1>4 DEF VisitStep, TakeItem, Deliver, EndVisit, walkVars
<1>5. CASE JoinThreads \/ AfterTheCall \/ UNCHANGED vars
  BY <1>5 DEF JoinThreads, AfterTheCall, vars, walkVars, multiVars
<1> QED BY <1>1, <1>2, <1>3, <1>4, <1>5 DEF Next

\* What a step may do to the roots: one that is over stays as it is, one that is started
\* stays started, and one that starts is at the head of the list of a thread.
RootsMove ==
    /\ \A r \in Roots : Over(r) => Started(r) /\ ResultOf(r).ok \in BOOLEAN
    /\ \A r \in Roots : Over(r) => Over(r)' /\ ResultOf(r)' = ResultOf(r)
    /\ \A r \in Roots : Started(r) => Started(r)'
    /\ \A r \in Roots : Started(r)' /\ ~Started(r) =>
           outcome = None /\ \E t \in Roots : Current(t, r)

LEMMA EveryStepMoves ==
  ASSUME WalksInv, CountedInv, [Next]_vars
  PROVE  RootsMove
<1>1. mode' = mode
  BY CallerStays DEF mode
<1>2. CASE mode = "walk"
  <2>1. \A r \in Roots : /\ Over(r) <=> walk[r].phase = "returned"
                         /\ Started(r) <=> walk[r].phase # "idle"
                         /\ ResultOf(r) = walk[r].result[1]
                         /\ Over(r)' <=> walk'[r].phase = "returned"
                         /\ Started(r)' <=> walk'[r].phase # "idle"
                         /\ ResultOf(r)' = walk'[r].result[1]
    BY <1>1, <1>2 DEF Over, Started, ResultOf, WalkIsOver
  <2>2. ASSUME NEW r \in Roots, walk[r].phase = "returned"
        PROVE  walk[r].result[1].ok \in BOOLEAN
    <3>1. PICK x : walk[r].result = Some(x) /\ IsAnswer(x)
      BY <2>2 DEF WalksInv, WalkSound, Answered
    <3> QED BY <3>1, SomeIs DEF IsAnswer
  <2>3. \A r \in Roots : /\ walk[r].phase = "returned" =>
                               walk'[r].phase = "returned" /\ walk'[r].result = walk[r].result
                         /\ walk[r].phase # "idle" => walk'[r].phase # "idle"
    BY WalksStep
  <2>4. \A r \in Roots : walk[r].phase = "idle" /\ walk'[r].phase # "idle" =>
                             outcome = None /\ \E t \in Roots : Current(t, r)
    BY WalkBegins
  <2> QED BY <2>1, <2>2, <2>3, <2>4 DEF RootsMove
<1>3. CASE mode # "walk"
  <2>1. \A r \in Roots : /\ Over(r) <=> visit_of[r].phase = "returned"
                         /\ Started(r) <=> visit_of[r].phase # "idle"
                         /\ ResultOf(r) = visit_of[r].result[1]
                         /\ Over(r)' <=> visit_of'[r].phase = "returned"
                         /\ Started(r)' <=> visit_of'[r].phase # "idle"
                         /\ ResultOf(r)' = visit_of'[r].result[1]
    BY <1>1, <1>3 DEF Over, Started, ResultOf
  <2>2. \A r \in Roots : visit_of[r].phase = "returned" => visit_of[r].result[1].ok \in BOOLEAN
    BY DEF CountedInv, Counted, IsAnswer
  <2>3. CASE UNCHANGED visit_of
    BY <2>1, <2>2, <2>3 DEF RootsMove
  <2>4. CASE \E q \in Roots : /\ VisitMoves(q)
                              /\ visit_of[q].phase # "idle" \/ \E t \in Roots : BeginVisit(t, q)
    <3>1. PICK q \in Roots : /\ VisitMoves(q)
                             /\ visit_of[q].phase # "idle" \/ \E t \in Roots : BeginVisit(t, q)
      BY <2>4
    <3>2. visit_of[q].phase = "idle" => outcome = None /\ \E t \in Roots : Current(t, q)
      BY <3>1 DEF BeginVisit
    <3>3. \A r \in Roots : visit_of[r].phase = "returned" => visit_of'[r] = visit_of[r]
      BY <3>1 DEF VisitMoves
    <3>4. \A r \in Roots : visit_of[r].phase # "idle" => visit_of'[r].phase # "idle"
      BY <3>1 DEF VisitMoves
    <3>5. \A r \in Roots : visit_of[r].phase = "idle" /\ visit_of'[r].phase # "idle" => r = q
      BY <3>1 DEF VisitMoves
    <3> QED BY <2>1, <2>2, <3>2, <3>3, <3>4, <3>5 DEF RootsMove
  <2> QED BY <2>3, <2>4, VisitPhases
<1> QED BY <1>2, <1>3
-----------------------------------------------------------------------------
(* The threads: where each one is in its list *)

\* A thread that is to take the roots after a, up to b, has done those up to m.
AtPlace(h, a, m, b) ==
    a <= m /\ m <= b /\ h.done = Run(a, m) /\ (h.todo = Run(m, b) \/ h.todo = <<>>)

\* Only the single thread of a sequential call leaves roots, after one that failed.
Left(t, m) == root_workers <= 1 /\ t = 1 /\ m \in Roots /\ Started(m) /\ ~ResultOf(m).ok

Progress(t, m) ==
    LET a == From(root_workers, t)
        b == To(root_workers, t)
    IN  /\ AtPlace(thread[t], a, m, b)
        /\ thread[t].todo = <<>> => m = b \/ Left(t, m)
        /\ \A r \in Roots : a < r /\ r <= m => Over(r)
        /\ \A r \in Roots : m < r /\ r <= b /\ Started(r) => Current(t, r)

ThreadsInv ==
    /\ root_workers \in 1 .. NumRoots
    /\ thread = [t \in Roots |-> thread[t]]
    /\ \A t \in Roots : \E m \in 0 .. NumRoots : Progress(t, m)

LEMMA Shares ==
  ASSUME ThreadsInv
  PROVE  /\ \A t \in Roots : /\ From(root_workers, t) \in Nat /\ To(root_workers, t) \in Nat
                            /\ From(root_workers, t) <= To(root_workers, t)
                            /\ To(root_workers, t) <= NumRoots
         /\ \A t, u \in Roots : t < u => To(root_workers, t) <= From(root_workers, u)
<1>1. PICK n \in Nat \ {0} : n = NumRoots /\ Roots = 1 .. n
  BY AtLeastOneRoot
<1>2. PICK w \in 1 .. n : w = root_workers
  BY <1>1 DEF ThreadsInv
<1>3. /\ \A t \in Roots : From(w, t) \in 0 .. n /\ To(w, t) \in 0 .. n
      /\ \A t \in Roots : From(w, t) <= To(w, t)
      /\ \A t, u \in Roots : t < u => To(w, t) <= From(w, u)
  BY <1>1, ShareFacts
<1> QED BY <1>1, <1>2, <1>3

\* The root at the head of the list of a thread is the next one of its share.
LEMMA CurrentIsNext ==
  ASSUME ThreadsInv, NEW t \in Roots, NEW m \in 0 .. NumRoots, Progress(t, m),
         NEW r \in Roots, Current(t, r)
  PROVE  /\ From(root_workers, t) <= m /\ m < To(root_workers, t) /\ r = m + 1
         /\ thread[t].todo = Run(m, To(root_workers, t))
<1>1. PICK a, b : a = From(root_workers, t) /\ b = To(root_workers, t)
  OBVIOUS
<1>2. PICK n \in Nat \ {0} : n = NumRoots /\ Roots = 1 .. n
  BY AtLeastOneRoot
<1>3. a \in Nat /\ b \in Nat /\ m \in Nat
  BY <1>1, <1>2, Shares
<1>4. AtPlace(thread[t], a, m, b) /\ thread[t].todo # <<>> /\ Head(thread[t].todo) = r
  BY <1>1 DEF Progress, Current
<1>5. a <= m /\ m <= b /\ thread[t].todo = Run(m, b)
  BY <1>4 DEF AtPlace
<1>6. m < b
  <2>1. m = b => Run(m, b) = <<>>
    BY <1>3, RunEnds
  <2> QED BY <1>3, <1>4, <1>5, <2>1
<1>7. Head(Run(m, b)) = m + 1
  BY <1>3, <1>6, RunEnds
<1> QED BY <1>1, <1>4, <1>5, <1>6, <1>7

\* No root is on the list of two threads.
LEMMA OneOwner ==
  ASSUME ThreadsInv, NEW t \in Roots, NEW u \in Roots, NEW r \in Roots, Current(u, r),
         From(root_workers, t) < r, r <= To(root_workers, t)
  PROVE  u = t
<1>1. PICK m \in 0 .. NumRoots : Progress(u, m)
  BY DEF ThreadsInv
<1>2. PICK a, b, c, d : /\ a = From(root_workers, t) /\ b = To(root_workers, t)
                        /\ c = From(root_workers, u) /\ d = To(root_workers, u)
  OBVIOUS
<1>3. PICK n \in Nat \ {0} : n = NumRoots /\ Roots = 1 .. n
  BY AtLeastOneRoot
<1>4. /\ a \in Nat /\ b \in Nat /\ c \in Nat /\ d \in Nat
      /\ (t < u => b <= c) /\ (u < t => d <= a)
  BY <1>2, Shares
<1>5. c <= m /\ m < d /\ r = m + 1
  BY <1>1, <1>2, CurrentIsNext
<1>6. ~(t < u) /\ ~(u < t)
  BY <1>2, <1>3, <1>4, <1>5
<1> QED BY <1>3, <1>6

LEMMA ThreadsStart == Init => ThreadsInv
<1> SUFFICES ASSUME Init PROVE ThreadsInv
  OBVIOUS
<1>1. PICK n \in Nat \ {0} : n = NumRoots /\ Roots = 1 .. n
  BY AtLeastOneRoot
<1>2. root_workers \in 1 .. n
  <2>1. PICK k \in Nat : root_workers = root_worker_count(k)
    BY MultiRootAssumption DEF Init
  <2> QED BY <1>1, <2>1 DEF root_worker_count, AtLeastOne, AtMost
<1>3. \A r \in Roots : ~Started(r)
  <2>1. walk = [r \in Roots |-> Idle] /\ visit_of = [r \in Roots |-> NoVisit]
    BY DEF Init, WalkInit
  <2> QED BY <2>1 DEF Started, Idle, NoVisit
<1>4. PICK w \in 1 .. n : w = root_workers
  BY <1>2
<1>5. \A t \in Roots : /\ From(w, t) \in Nat /\ To(w, t) \in Nat /\ From(w, t) <= To(w, t)
                       /\ From(w, t) \in 0 .. n
  BY <1>1, ShareFacts
<1>6. ASSUME NEW t \in Roots
      PROVE  thread[t].todo = Run(From(w, t), To(w, t)) /\ thread[t].done = <<>>
  <2>1. /\ thread[t].todo = IF w <= 1 THEN IF t = 1 THEN [i \in Roots |-> i] ELSE <<>> ELSE Chunk(t)
        /\ thread[t].done = <<>>
    BY <1>4 DEF Init, Sequential
  <2>2. CASE w > 1
    <3>1. ChunkSize = SizeFor(w)
      BY <1>4 DEF ChunkSize, SizeFor
    <3>2. PICK a, b : a = AtMost((t - 1) * ChunkSize, NumRoots) /\ b = AtMost(t * ChunkSize, NumRoots)
      OBVIOUS
    <3>3. From(w, t) = a /\ To(w, t) = b
      BY <2>2, <3>1, <3>2 DEF From, To
    <3>4. Chunk(t) = Run(a, b)
      BY <3>2 DEF Chunk, Run
    <3> QED BY <2>1, <2>2, <3>3, <3>4
  <2>3. CASE w <= 1 /\ t = 1
    <3>1. From(w, t) = 0 /\ To(w, t) = n
      BY <1>1, <2>3 DEF From, To
    <3>2. Run(0, n) = [i \in 1 .. n |-> i]
      BY DEF Run
    <3> QED BY <1>1, <2>1, <2>3, <3>1, <3>2
  <2>4. CASE w <= 1 /\ t # 1
    <3>1. From(w, t) = n /\ To(w, t) = n
      BY <1>1, <2>4 DEF From, To
    <3>2. Run(n, n) = <<>>
      BY RunEnds
    <3> QED BY <2>1, <2>4, <3>1, <3>2
  <2> QED BY <1>4, <2>1, <2>2, <2>3, <2>4
<1>7. ASSUME NEW t \in Roots
      PROVE  Progress(t, From(w, t))
  <2>1. PICK a \in Nat, b \in Nat : a = From(w, t) /\ b = To(w, t) /\ a <= b
    BY <1>5
  <2>2. Run(a, a) = <<>> /\ (Run(a, b) = <<>> => a = b)
    <3>1. Run(a, a) = <<>> /\ (a < b => Run(a, b) # <<>>)
      BY RunEnds
    <3> QED BY <2>1, <3>1
  <2>3. AtPlace(thread[t], a, a, b) /\ (thread[t].todo = <<>> => a = b)
    BY <1>6, <2>1, <2>2 DEF AtPlace
  <2>4. \A r \in Roots : ~(a < r /\ r <= a)
    BY <1>1, <2>1
  <2> QED BY <1>3, <1>4, <2>1, <2>3, <2>4 DEF Progress
<1>8. thread = [t \in Roots |-> thread[t]]
  BY DEF Init
<1> QED BY <1>1, <1>2, <1>4, <1>5, <1>7, <1>8 DEF ThreadsInv

\* A thread that did not move is still where it was.
LEMMA StillAtPlace ==
  ASSUME ThreadsInv, RootsMove, NEW t \in Roots, NEW m \in 0 .. NumRoots, Progress(t, m),
         UNCHANGED <<root_workers, caller>>, thread'[t] = thread[t]
  PROVE  Progress(t, m)'
<1>1. PICK a, b, h : a = From(root_workers, t) /\ b = To(root_workers, t) /\ h = thread[t]
  OBVIOUS
<1>2. From(root_workers, t)' = a /\ To(root_workers, t)' = b /\ thread'[t] = h
  BY <1>1 DEF From, To, SizeFor
<1>3. AtPlace(h, a, m, b) /\ (h.todo = <<>> => m = b \/ Left(t, m))
  BY <1>1 DEF Progress
<1>4. m \in Roots /\ a < m => Over(m)
  BY <1>1, <1>3 DEF Progress, AtPlace
<1>5. Left(t, m) => Left(t, m)'
  <2> SUFFICES ASSUME Left(t, m) PROVE Left(t, m)'
    OBVIOUS
  <2>1. root_workers <= 1 /\ t = 1 /\ m \in Roots /\ Started(m) /\ ~ResultOf(m).ok
    BY DEF Left
  <2>2. a = 0
    BY <1>1, <2>1 DEF From
  <2>3. Over(m)
    BY <1>4, <2>1, <2>2, AtLeastOneRoot
  <2>4. Started(m)' /\ ResultOf(m)' = ResultOf(m)
    BY <2>1, <2>3 DEF RootsMove
  <2> QED BY <2>1, <2>4 DEF Left
<1>6. \A r \in Roots : a < r /\ r <= m => Over(r)'
  BY <1>1 DEF Progress, RootsMove
<1>7. ASSUME NEW r \in Roots, m < r, r <= b, Started(r)'
      PROVE  Current(t, r)
  <2>1. CASE Started(r)
    BY <1>1, <1>7, <2>1 DEF Progress
  <2>2. CASE ~Started(r)
    <3>1. PICK u \in Roots : Current(u, r)
      BY <1>7, <2>2 DEF RootsMove
    <3>2. a < r
      <4>1. PICK n \in Nat \ {0} : n = NumRoots /\ Roots = 1 .. n
        BY AtLeastOneRoot
      <4>2. a \in Nat /\ a <= m /\ m \in Nat /\ r \in Nat
        BY <1>1, <1>3, <4>1, Shares DEF AtPlace
      <4> QED BY <1>7, <4>2
    <3> QED BY <1>1, <1>7, <3>1, <3>2, OneOwner
  <2> QED BY <2>1, <2>2
<1>8. \A r : Current(t, r) => Current(t, r)'
  BY DEF Current
<1> QED BY <1>2, <1>3, <1>5, <1>6, <1>7, <1>8 DEF Progress
\* A thread that records the result of a root is at the next place.
LEMMA FinishAtPlace ==
  ASSUME ThreadsInv, RootsMove, NEW t \in Roots, NEW m \in 0 .. NumRoots, Progress(t, m),
         NEW r \in Roots, FinishRoot(t, r)
  PROVE  m + 1 \in 0 .. NumRoots /\ Progress(t, m + 1)'
<1>1. PICK n \in Nat \ {0} : n = NumRoots /\ Roots = 1 .. n
  BY AtLeastOneRoot
<1>2. PICK a \in Nat, b \in Nat :
        a = From(root_workers, t) /\ b = To(root_workers, t) /\ a <= b /\ b <= n
  BY <1>1, Shares
<1>3. a <= m /\ m < b /\ r = m + 1 /\ thread[t].todo = Run(m, b) /\ Current(t, r) /\ Over(r)
  BY <1>2, CurrentIsNext DEF FinishRoot
<1>4. PICK k \in Nat : k = m + 1 /\ a < k /\ k <= b /\ k = r /\ k \in 0 .. n /\ a <= m /\ m \in Nat
  BY <1>1, <1>2, <1>3
<1>5. UNCHANGED <<caller, walk, visit_of, root_workers>>
  BY DEF FinishRoot, walkVars
<1>6. From(root_workers, t)' = a /\ To(root_workers, t)' = b
  BY <1>2, <1>5 DEF From, To, SizeFor
<1>7. \A q \in Roots : /\ Over(q)' <=> Over(q)
                       /\ Started(q)' <=> Started(q)
                       /\ ResultOf(q)' = ResultOf(q)
  BY <1>5 DEF Over, Started, ResultOf, WalkIsOver, mode
<1>8. PICK h : /\ thread'[t] = h /\ h.done = Append(thread[t].done, r)
               /\ h.todo = IF Sequential /\ ~ResultOf(r).ok THEN <<>> ELSE Tail(thread[t].todo)
  <2>1. PICK todo, done :
          /\ done = Append(thread[t].done, r)
          /\ todo = IF Sequential /\ ~ResultOf(r).ok THEN <<>> ELSE Tail(thread[t].todo)
    OBVIOUS
  <2>2. PICK h : h = [todo |-> todo, done |-> done]
    OBVIOUS
  <2>3. thread' = [thread EXCEPT ![t] = h]
    BY <2>1, <2>2 DEF FinishRoot
  <2>4. thread'[t] = h
    BY <2>3 DEF ThreadsInv
  <2>5. h.todo = todo /\ h.done = done
    BY <2>2
  <2> QED BY <2>1, <2>4, <2>5
<1>9. h.done = Run(a, k)
  <2>1. thread[t].done = Run(a, m)
    BY <1>2 DEF Progress, AtPlace
  <2>2. Append(Run(a, m), m + 1) = Run(a, m + 1)
    BY <1>4, RunEnds
  <2> QED BY <1>4, <1>8, <2>1, <2>2
<1>10. Tail(thread[t].todo) = Run(k, b)
  <2>1. Tail(Run(m, b)) = Run(m + 1, b)
    BY <1>2, <1>3, <1>4, RunEnds
  <2> QED BY <1>3, <1>4, <2>1
<1>11. AtPlace(h, a, k, b)
  BY <1>4, <1>8, <1>9, <1>10 DEF AtPlace
<1>12. h.todo = <<>> => k = b \/ Left(t, k)'
  <2>1. CASE Sequential /\ ~ResultOf(r).ok
    <3>1. root_workers <= 1
      BY <2>1 DEF Sequential
    <3>2. t = 1
      BY <1>1, <1>2, <1>3, <3>1 DEF From, To
    <3>3. Started(k)' /\ ~ResultOf(k)'.ok /\ k \in Roots
      BY <1>3, <1>4, <1>7, <2>1 DEF RootsMove
    <3> QED BY <1>5, <3>1, <3>2, <3>3 DEF Left
  <2>2. CASE ~(Sequential /\ ~ResultOf(r).ok)
    <3>1. h.todo = Run(k, b)
      BY <1>8, <1>10, <2>2
    <3>2. k < b => Run(k, b) # <<>>
      BY <1>2, RunEnds
    <3> QED BY <1>2, <1>4, <3>1, <3>2
  <2> QED BY <2>1, <2>2
<1>13. ASSUME NEW q \in Roots, a < q, q <= k
       PROVE  Over(q)'
  <2>1. q <= m \/ q = r
    BY <1>1, <1>4, <1>13
  <2> QED BY <1>2, <1>3, <1>7, <1>13, <2>1 DEF Progress
<1>14. ASSUME NEW q \in Roots, k < q, q <= b, Started(q)'
       PROVE  FALSE
  <2>1. m < q
    BY <1>1, <1>4, <1>14
  <2>2. Current(t, q)
    BY <1>2, <1>7, <1>14, <2>1 DEF Progress
  <2>3. q = r
    BY <1>3, <2>2 DEF Current
  <2> QED BY <1>1, <1>4, <1>14, <2>3
<1>15. Progress(t, k)'
  BY <1>6, <1>8, <1>11, <1>12, <1>13, <1>14 DEF Progress
<1> QED BY <1>1, <1>4, <1>15

LEMMA ThreadsStep ==
  ASSUME ThreadsInv, RootsMove, [Next]_vars
  PROVE  ThreadsInv'
<1>1. UNCHANGED <<caller, root_workers>>
  BY CallerStays
<1>2. CASE UNCHANGED thread
  <2>1. \A t \in Roots : \E m \in 0 .. NumRoots : Progress(t, m)'
    BY <1>1, <1>2, StillAtPlace DEF ThreadsInv
  <2> QED BY <1>1, <1>2, <2>1 DEF ThreadsInv
<1>3. CASE \E t, r \in Roots : FinishRoot(t, r)
  <2>1. PICK t \in Roots, r \in Roots : FinishRoot(t, r)
    BY <1>3
  <2>2. PICK h : thread' = [thread EXCEPT ![t] = h]
    BY <2>1 DEF FinishRoot
  <2>3. \A u \in Roots : u # t => thread'[u] = thread[u]
    BY <2>2 DEF ThreadsInv
  <2>4. ASSUME NEW u \in Roots
        PROVE  \E m \in 0 .. NumRoots : Progress(u, m)'
    <3>1. PICK m \in 0 .. NumRoots : Progress(u, m)
      BY DEF ThreadsInv
    <3>2. CASE u = t
      BY <2>1, <3>1, <3>2, FinishAtPlace
    <3>3. CASE u # t
      BY <1>1, <2>3, <3>1, <3>3, StillAtPlace
    <3> QED BY <3>2, <3>3
  <2>5. thread' = [u \in Roots |-> thread'[u]]
    BY <2>2 DEF ThreadsInv
  <2> QED BY <1>1, <2>4, <2>5 DEF ThreadsInv
<1>4. UNCHANGED thread \/ \E t, r \in Roots : FinishRoot(t, r)
  <2>1. CASE \E t, r \in Roots : BeginWalk(t, r) \/ BeginVisit(t, r)
    BY <2>1 DEF BeginWalk, BeginVisit, multiVars
  <2>2. CASE \E r \in Roots : ContinueWalk(r) \/ ContinueLane(r)
    BY <2>2 DEF ContinueWalk, ContinueLane, multiVars
  <2>3. CASE \E r \in Roots : VisitStep(r)
    BY <2>3 DEF VisitStep, TakeItem, Deliver, EndVisit
  <2>4. CASE JoinThreads \/ AfterTheCall \/ UNCHANGED vars
    BY <2>4 DEF JoinThreads, AfterTheCall, vars, multiVars
  <2> QED BY <2>1, <2>2, <2>3, <2>4 DEF Next
<1> QED BY <1>2, <1>3, <1>4
-----------------------------------------------------------------------------
(* The join *)

\* What the call did, as far as place M: every root up to it is over, none after it is
\* started, and only a single thread ends before the last root, at one that failed.
DoneUpTo(M) ==
    /\ \A r \in Roots : r <= M => Over(r)
    /\ \A r \in Roots : Started(r) => r <= M
    /\ M = NumRoots \/ (root_workers <= 1 /\ M \in Roots /\ Started(M) /\ ~ResultOf(M).ok)

LEMMA ThreadsJoin ==
  ASSUME ThreadsInv, \A t \in Roots : thread[t].todo = <<>>
  PROVE  \E M \in 0 .. NumRoots : Flattened = Run(0, M) /\ DoneUpTo(M)
<1>1. PICK n \in Nat \ {0} : n = NumRoots /\ Roots = 1 .. n
  BY AtLeastOneRoot
<1>2. PICK w \in 1 .. n : w = root_workers
  BY <1>1 DEF ThreadsInv
<1>3. PICK s : s = [t \in Roots |-> thread[t].done]
  OBVIOUS
<1>4. Len(s) = n /\ Flattened = FlattenSeq(s)
  BY <1>1, <1>3 DEF Flattened
<1>5. /\ \A t \in Roots : From(w, t) \in 0 .. n /\ To(w, t) \in 0 .. n /\ From(w, t) <= To(w, t)
      /\ From(w, 1) = 0 /\ To(w, n) = n
      /\ w > 1 => \A t \in Roots : t + 1 \in Roots => From(w, t + 1) = To(w, t)
  BY <1>1, ShareFacts
<1>6. ASSUME NEW t \in Roots, NEW m \in 0 .. n, Progress(t, m)
      PROVE  /\ From(w, t) <= m /\ m <= To(w, t) /\ s[t] = Run(From(w, t), m)
             /\ m = To(w, t) \/ Left(t, m)
             /\ \A r \in Roots : From(w, t) < r /\ r <= m => Over(r)
             /\ \A r \in Roots : m < r /\ r <= To(w, t) => ~Started(r)
  BY <1>2, <1>3, <1>6 DEF Progress, AtPlace, Current
<1>7. CASE w > 1
  <2>1. ASSUME NEW t \in Roots
        PROVE  /\ s[t] = Run(From(w, t), To(w, t))
               /\ \A r \in Roots : From(w, t) < r /\ r <= To(w, t) => Over(r)
    <3>1. PICK m \in 0 .. n : Progress(t, m)
      BY <1>1 DEF ThreadsInv
    <3>2. m = To(w, t)
      BY <1>2, <1>6, <1>7, <3>1 DEF Left
    <3> QED BY <1>6, <3>1, <3>2
  <2>2. PICK c : c = [t \in 1 .. n |-> To(w, t)]
    OBVIOUS
  <2>3. c \in [1 .. n -> Nat] /\ c[n] = n
    BY <1>1, <1>5, <2>2
  <2>4. s[1] = Run(0, c[1])
    BY <1>1, <1>5, <2>1, <2>2
  <2>5. \A t \in 1 .. n : t + 1 \in 1 .. n => c[t] <= c[t + 1] /\ s[t + 1] = Run(c[t], c[t + 1])
    BY <1>1, <1>5, <1>7, <2>1, <2>2
  <2>6. FlattenSeq(s) = Run(0, n)
    BY <1>4, <2>3, <2>4, <2>5, RunsFlatten
  <2>7. ASSUME NEW r \in Roots
        PROVE  Over(r)
    <3> DEFINE Reached == {t \in 1 .. n : r <= To(w, t)}
    <3>1. n \in Reached
      BY <1>1, <1>5
    <3>2. PICK t \in Reached : \A x \in Reached : ~(x < t)
      <4>1. Reached # {} /\ Reached \in SUBSET (1 .. n)
        BY <3>1
      <4> QED BY <4>1, LeastNumber
    <3>3. t \in Roots /\ r <= To(w, t)
      BY <1>1
    <3>4. From(w, t) < r
      <4>1. CASE t = 1
        BY <1>1, <1>5, <4>1
      <4>2. CASE t # 1
        <5>1. PICK u \in 1 .. n : u + 1 = t /\ u < t
          <6>1. t - 1 \in 1 .. n /\ (t - 1) + 1 = t /\ t - 1 < t
            BY <4>2
          <6> QED BY <6>1
        <5>2. ~(r <= To(w, u))
          BY <3>2, <5>1
        <5>3. From(w, t) = To(w, u)
          BY <1>1, <1>5, <1>7, <3>3, <5>1
        <5>4. To(w, u) \in Nat /\ r \in Nat
          BY <1>1, <1>5
        <5> QED BY <5>2, <5>3, <5>4
      <4> QED BY <4>1, <4>2
    <3> QED BY <2>1, <3>3, <3>4
  <2>8. DoneUpTo(n)
    BY <1>1, <2>7 DEF DoneUpTo
  <2> QED BY <1>1, <1>4, <2>6, <2>8
<1>8. CASE w <= 1
  <2>1. /\ From(w, 1) = 0 /\ \A t \in Roots : To(w, t) = n
        /\ \A t \in Roots : t # 1 => From(w, t) = n
    BY <1>1, <1>8 DEF From, To
  <2>2. PICK M \in 0 .. n : Progress(1, M)
    BY <1>1 DEF ThreadsInv
  <2>3. 1 \in Roots
    BY <1>1
  <2>4. /\ s[1] = Run(0, M) /\ (M = n \/ Left(1, M))
        /\ \A r \in Roots : 0 < r /\ r <= M => Over(r)
        /\ \A r \in Roots : M < r /\ r <= n => ~Started(r)
    BY <1>6, <2>1, <2>2, <2>3
  <2>5. ASSUME NEW t \in Roots, t # 1
        PROVE  s[t] = <<>>
    <3>1. PICK m \in 0 .. n : Progress(t, m)
      BY <1>1 DEF ThreadsInv
    <3>2. n <= m /\ s[t] = Run(n, m)
      BY <1>6, <2>1, <2>5, <3>1
    <3>3. m = n
      BY <3>2
    <3> QED BY <3>2, <3>3, RunEnds
  <2>6. PICK c : c = [t \in 1 .. n |-> M]
    OBVIOUS
  <2>7. c \in [1 .. n -> Nat] /\ c[n] = M /\ c[1] = M
    BY <2>6
  <2>8. \A t \in 1 .. n : t + 1 \in 1 .. n => c[t] <= c[t + 1] /\ s[t + 1] = Run(c[t], c[t + 1])
    <3> SUFFICES ASSUME NEW t \in 1 .. n, t + 1 \in 1 .. n
                 PROVE  c[t] <= c[t + 1] /\ s[t + 1] = Run(c[t], c[t + 1])
      OBVIOUS
    <3>1. Run(M, M) = <<>>
      BY RunEnds
    <3>2. c[t] = M /\ c[t + 1] = M
      BY <2>6
    <3>3. s[t + 1] = <<>>
      BY <1>1, <2>5
    <3> QED BY <3>1, <3>2, <3>3
  <2>9. FlattenSeq(s) = Run(0, M)
    <3>1. s[1] = Run(0, c[1])
      BY <2>4, <2>7
    <3>2. FlattenSeq(s) = Run(0, c[n])
      BY <1>4, <2>7, <2>8, <3>1, RunsFlatten
    <3> QED BY <2>7, <3>2
  <2>10. DoneUpTo(M)
    BY <1>1, <2>4 DEF DoneUpTo, Left
  <2> QED BY <1>1, <1>4, <2>9, <2>10
<1> QED BY <1>7, <1>8

\* What FirstErrorInOrder says of an answer.
FailedRoots == {r \in Roots : Started(r) /\ ~ResultOf(r).ok}
Settles(x) ==
    /\ \A r \in Roots : Started(r) => Over(r)
    /\ x.ok <=> FailedRoots = {}
    /\ FailedRoots = {} \/ ~(root_workers <= 1) => \A r \in Roots : Started(r)
    /\ FailedRoots # {} => x.error = ResultOf(Min(FailedRoots)).error
    /\ FailedRoots = {} => x.reports = [r \in Roots |-> ResultOf(r)]

LEMMA JoinSettles ==
  ASSUME ThreadsInv, RootsMove, JoinThreads
  PROVE  \E x : outcome' = Some(x) /\ Settles(x)
<1>1. PICK n \in Nat \ {0} : n = NumRoots /\ Roots = 1 .. n
  BY AtLeastOneRoot
<1>2. PICK M \in 0 .. n : Flattened = Run(0, M) /\ DoneUpTo(M)
  BY <1>1, ThreadsJoin DEF JoinThreads
<1>3. PICK order : order = Sorted(Flattened)
  OBVIOUS
<1>4. DOMAIN order = 1 .. M /\ \A k \in 1 .. M : order[k] = k
  <2>1. order = Run(0, M)
    BY <1>2, <1>3, RunIsSorted
  <2> QED BY <2>1 DEF Run
<1>5. \A r \in Roots : Started(r) <=> r <= M
  BY <1>2 DEF DoneUpTo, RootsMove
<1>6. PICK failed : failed = {k \in DOMAIN order : ~ResultOf(order[k]).ok}
  OBVIOUS
<1>7. failed = FailedRoots
  <2>1. failed = {k \in 1 .. M : ~ResultOf(k).ok}
    BY <1>4, <1>6
  <2>2. \A k : k \in 1 .. M <=> k \in Roots /\ Started(k)
    BY <1>1, <1>5
  <2> QED BY <2>1, <2>2 DEF FailedRoots
<1>8. PICK x : /\ outcome' = Some(x)
               /\ x = IF failed = {}
                      THEN [ok |-> TRUE, reports |-> [i \in DOMAIN order |-> ResultOf(order[i])], error |-> None]
                      ELSE [ok |-> FALSE, reports |-> <<>>, error |-> ResultOf(order[Min(failed)]).error]
  BY <1>3, <1>6 DEF JoinThreads
<1>9. \A r \in Roots : Started(r) => Over(r)
  BY <1>2, <1>5 DEF DoneUpTo
<1>10. FailedRoots = {} \/ ~(root_workers <= 1) => \A r \in Roots : Started(r)
  <2>1. M = n \/ (root_workers <= 1 /\ M \in FailedRoots)
    BY <1>1, <1>2 DEF DoneUpTo, FailedRoots
  <2>2. M = n => \A r \in Roots : Started(r)
    BY <1>1, <1>5
  <2> QED BY <2>1, <2>2
<1>11. CASE FailedRoots = {}
  <2>1. M = n
    BY <1>1, <1>2, <1>11 DEF DoneUpTo, FailedRoots
  <2>2. PICK reports : reports = [i \in DOMAIN order |-> ResultOf(order[i])]
    OBVIOUS
  <2>3. x = [ok |-> TRUE, reports |-> reports, error |-> None]
    BY <1>7, <1>8, <1>11, <2>2
  <2>4. x.ok = TRUE /\ x.reports = reports
    BY <2>3
  <2>5. reports = [r \in Roots |-> ResultOf(r)]
    BY <1>1, <1>4, <2>1, <2>2
  <2>6. Settles(x)
    BY <1>9, <1>10, <1>11, <2>4, <2>5 DEF Settles
  <2> QED BY <1>8, <2>6
<1>12. CASE FailedRoots # {}
  <2>1. PICK k : k = Min(failed)
    OBVIOUS
  <2>2. k \in failed
    <3>1. failed \in SUBSET (1 .. n) /\ failed # {}
      BY <1>1, <1>7, <1>12 DEF FailedRoots
    <3>2. PICK m \in failed : \A y \in failed : ~(y < m)
      BY <3>1, LeastNumber
    <3>3. \A y \in failed : m <= y
      BY <3>1, <3>2
    <3> QED BY <2>1, <3>3 DEF Min
  <2>3. order[k] = k
    BY <1>4, <1>6, <2>2
  <2>4. PICK e : e = ResultOf(k).error
    OBVIOUS
  <2>5. x = [ok |-> FALSE, reports |-> <<>>, error |-> e]
    BY <1>7, <1>8, <1>12, <2>1, <2>3, <2>4
  <2>6. x.ok = FALSE /\ x.error = e
    BY <2>5
  <2>7. e = ResultOf(Min(FailedRoots)).error
    BY <1>7, <2>1, <2>4
  <2>8. Settles(x)
    BY <1>9, <1>10, <1>12, <2>6, <2>7 DEF Settles
  <2> QED BY <1>8, <2>8
<1> QED BY <1>11, <1>12

\* An answer stands while no root starts any more.
LEMMA AnswerStands ==
  ASSUME RootsMove, UNCHANGED <<caller, root_workers>>, NEW x, Settles(x),
         \A r \in Roots : Started(r)' => Started(r)
  PROVE  Settles(x)'
<1>1. \A r \in Roots : (Started(r)' <=> Started(r)) /\ (Over(r) => Over(r)')
  BY DEF RootsMove
<1>2. \A r \in Roots : Started(r) => Over(r) /\ ResultOf(r)' = ResultOf(r)
  BY DEF RootsMove, Settles
<1>3. FailedRoots' = FailedRoots
  BY <1>1, <1>2 DEF FailedRoots
<1>4. CASE FailedRoots = {}
  <2>1. \A r \in Roots : Started(r)
    BY <1>4 DEF Settles
  <2>2. [r \in Roots |-> ResultOf(r)]' = [r \in Roots |-> ResultOf(r)]
    BY <1>2, <2>1
  <2> QED BY <1>1, <1>2, <1>3, <1>4, <2>1, <2>2 DEF Settles
<1>5. CASE FailedRoots # {}
  <2>1. PICK k : k = Min(FailedRoots)
    OBVIOUS
  <2>2. Min(FailedRoots)' = k
    BY <1>3, <2>1 DEF Min
  <2>3. k \in FailedRoots
    <3>1. PICK n \in Nat \ {0} : n = NumRoots /\ Roots = 1 .. n
      BY AtLeastOneRoot
    <3>2. FailedRoots \in SUBSET (1 .. n)
      BY <3>1 DEF FailedRoots
    <3>3. PICK m \in FailedRoots : \A y \in FailedRoots : ~(y < m)
      BY <1>5, <3>2, LeastNumber
    <3>4. \A y \in FailedRoots : m <= y
      BY <3>2, <3>3
    <3> QED BY <2>1, <3>4 DEF Min
  <2>4. ResultOf(k)' = ResultOf(k)
    BY <1>2, <2>3 DEF FailedRoots
  <2> QED BY <1>1, <1>2, <1>3, <1>5, <2>1, <2>2, <2>4 DEF Settles
<1> QED BY <1>4, <1>5
AnswerInv == outcome = None \/ \E x : outcome = Some(x) /\ Settles(x)
CallInv == WalksInv /\ CountedInv /\ ThreadsInv /\ AnswerInv

LEMMA OutcomeMoves == [Next]_vars => UNCHANGED outcome \/ JoinThreads
<1> SUFFICES ASSUME [Next]_vars PROVE UNCHANGED outcome \/ JoinThreads
  OBVIOUS
<1>1. CASE \E t, r \in Roots : BeginWalk(t, r) \/ BeginVisit(t, r) \/ FinishRoot(t, r)
  BY <1>1 DEF BeginWalk, BeginVisit, FinishRoot, multiVars
<1>2. CASE \E r \in Roots : ContinueWalk(r) \/ ContinueLane(r)
  BY <1>2 DEF ContinueWalk, ContinueLane, multiVars
<1>3. CASE \E r \in Roots : VisitStep(r)
  BY <1>3 DEF VisitStep, TakeItem, Deliver, EndVisit
<1>4. CASE JoinThreads \/ AfterTheCall \/ UNCHANGED vars
  BY <1>4 DEF AfterTheCall, vars, multiVars
<1> QED BY <1>1, <1>2, <1>3, <1>4 DEF Next

LEMMA AnswerStep ==
  ASSUME ThreadsInv, RootsMove, AnswerInv, [Next]_vars
  PROVE  AnswerInv'
<1>1. UNCHANGED <<caller, root_workers>>
  BY CallerStays
<1>2. CASE JoinThreads
  <2>1. PICK x : outcome' = Some(x) /\ Settles(x)
    BY <1>2, JoinSettles
  <2>2. \A r \in Roots : Started(r)' => Started(r)
    BY <1>2 DEF JoinThreads, walkVars, Started, mode
  <2>3. Settles(x)'
    BY <1>1, <2>1, <2>2, AnswerStands
  <2> QED BY <2>1, <2>3 DEF AnswerInv
<1>3. CASE UNCHANGED outcome
  <2>1. CASE outcome = None
    BY <1>3, <2>1 DEF AnswerInv
  <2>2. CASE outcome # None
    <3>1. PICK x : outcome = Some(x) /\ Settles(x)
      BY <2>2 DEF AnswerInv
    <3>2. \A r \in Roots : Started(r)' => Started(r)
      BY <2>2 DEF RootsMove
    <3>3. Settles(x)'
      BY <1>1, <3>1, <3>2, AnswerStands
    <3> QED BY <1>3, <3>1, <3>3 DEF AnswerInv
  <2> QED BY <2>1, <2>2
<1> QED BY <1>2, <1>3, OutcomeMoves

\* Whatever the number of roots and of root workers and the order in which their threads
\* end: the call answers when every root it started is over, with the reports in insertion
\* order or the error of the first root that failed, and only a single thread stops early.
THEOREM TheFirstErrorIsReported == Spec => []FirstErrorInOrder
<1>1. Init => CallInv
  BY WalksStart, CountedStart, ThreadsStart DEF CallInv, AnswerInv, Init
<1>2. CallInv /\ [Next]_vars => CallInv'
  <2> SUFFICES ASSUME CallInv, [Next]_vars PROVE CallInv'
    OBVIOUS
  <2>1. RootsMove
    BY EveryStepMoves DEF CallInv
  <2> QED BY <2>1, WalksStep, CountedStep, ThreadsStep, AnswerStep DEF CallInv
<1>3. CallInv => FirstErrorInOrder
  <2> SUFFICES ASSUME CallInv, outcome # None PROVE FirstErrorInOrder
    BY DEF FirstErrorInOrder
  <2>1. PICK x : outcome = Some(x) /\ Settles(x)
    BY DEF CallInv, AnswerInv
  <2>2. outcome[1] = x
    BY <2>1, SomeIs
  <2> QED BY <2>1, <2>2 DEF FirstErrorInOrder, Settles, FailedRoots, Sequential
<1> QED BY <1>1, <1>2, <1>3, PTL DEF Spec

-----------------------------------------------------------------------------
(***************************************************************************)
(* Collected walks: what the lanes carry, and that the merge puts it in    *)
(* task order.                                                             *)
(***************************************************************************)

(* A sequence put together from pieces *)

\* s is the elements of p, joined; f[i] is where the first i of them end.
EndsAt(s, p, f) ==
    /\ f \in [0 .. Len(p) -> 0 .. Len(s)] /\ f[0] = 0 /\ f[Len(p)] = Len(s)
    /\ \A i \in 1 .. Len(p) : f[i] = f[i - 1] + Len(p[i])
    /\ \A i, j \in 0 .. Len(p) : i <= j => f[i] <= f[j]
    /\ \A i \in 1 .. Len(p) : \A j \in 1 .. Len(p[i]) : s[f[i - 1] + j] = p[i][j]

Pieces(s, p) == \E f : EndsAt(s, p, f)

LEMMA NoPieces == Pieces(<< >>, << >>)
<1> PICK f : f = [i \in 0 .. 0 |-> 0]
  OBVIOUS
<1>1. Len(<< >>) = 0 /\ 1 .. 0 = {} /\ 0 .. 0 = {0}
  OBVIOUS
<1>2. EndsAt(<< >>, << >>, f)
  BY <1>1 DEF EndsAt
<1> QED BY <1>2 DEF Pieces

LEMMA AppendPiece ==
  ASSUME NEW S, NEW s \in Seq(S), NEW p \in Seq(Seq(S)), NEW x \in Seq(S), Pieces(s, p)
  PROVE  Pieces(s \o x, Append(p, x))
<1>1. PICK f : EndsAt(s, p, f)
  BY DEF Pieces
<1> PICK n \in Nat : n = Len(p)
  OBVIOUS
<1>q. PICK q : q = Append(p, x)
  OBVIOUS
<1>t. PICK t : t = s \o x
  OBVIOUS
<1>2. Len(q) = n + 1 /\ q[n + 1] = x /\ \A i \in 1 .. n : q[i] = p[i]
  BY <1>q
<1>3. /\ Len(t) = Len(s) + Len(x) /\ \A i \in 1 .. Len(s) : t[i] = s[i]
      /\ \A j \in 1 .. Len(x) : t[Len(s) + j] = x[j]
  BY <1>t, ConcatFacts
<1>4. Len(s) \in Nat /\ Len(x) \in Nat
  OBVIOUS
<1>g. PICK g : g = [i \in 0 .. (n + 1) |-> IF i = n + 1 THEN Len(t) ELSE f[i]]
  OBVIOUS
<1>5. \A i \in 0 .. n : g[i] = f[i] /\ f[i] \in 0 .. Len(s)
  <2>1. \A i \in 0 .. n : f[i] \in 0 .. Len(s)
    BY <1>1 DEF EndsAt
  <2>2. \A i \in 0 .. n : i \in 0 .. (n + 1) /\ i # n + 1
    OBVIOUS
  <2> QED BY <1>g, <2>1, <2>2
<1>6. g[n + 1] = Len(t) /\ g[n] = Len(s)
  <2>1. n \in 0 .. n /\ n + 1 \in 0 .. (n + 1) /\ f[n] = Len(s)
    BY <1>1 DEF EndsAt
  <2>2. g[n] = f[n]
    BY <1>5, <2>1
  <2> QED BY <1>g, <2>1, <2>2
<1>7. g \in [0 .. Len(q) -> 0 .. Len(t)]
  <2>1. \A i \in 0 .. (n + 1) : g[i] \in 0 .. Len(t)
    <3> SUFFICES ASSUME NEW i \in 0 .. (n + 1) PROVE g[i] \in 0 .. Len(t)
      OBVIOUS
    <3>1. CASE i = n + 1
      BY <1>3, <1>4, <1>6, <3>1
    <3>2. CASE i # n + 1
      <4>1. i \in 0 .. n
        BY <3>2
      <4>2. g[i] \in 0 .. Len(s)
        BY <1>5, <4>1
      <4> QED BY <1>3, <1>4, <4>2
    <3> QED BY <3>1, <3>2
  <2> QED BY <1>2, <1>g, <2>1
<1>8. g[0] = 0 /\ g[Len(q)] = Len(t)
  BY <1>1, <1>2, <1>5, <1>6 DEF EndsAt
<1>9. ASSUME NEW i \in 1 .. Len(q)
      PROVE  g[i] = g[i - 1] + Len(q[i]) /\ \A j \in 1 .. Len(q[i]) : t[g[i - 1] + j] = q[i][j]
  <2>1. CASE i = n + 1
    <3>1. i - 1 = n /\ q[i] = x
      BY <1>2, <2>1
    <3>2. g[i] = Len(t) /\ g[i - 1] = Len(s) /\ Len(q[i]) = Len(x)
      BY <1>6, <2>1, <3>1
    <3> QED BY <1>3, <3>1, <3>2
  <2>2. CASE i # n + 1
    <3>1. i \in 1 .. n /\ i - 1 \in 0 .. n
      BY <1>2, <2>2
    <3>2. q[i] = p[i] /\ g[i] = f[i] /\ g[i - 1] = f[i - 1] /\ f[i] = f[i - 1] + Len(p[i])
      BY <1>1, <1>2, <1>5, <3>1 DEF EndsAt
    <3>3. Len(p[i]) \in Nat /\ f[i] \in 0 .. Len(s) /\ f[i - 1] \in 0 .. Len(s)
      <4>1. p[i] \in Seq(S)
        BY <3>1
      <4>2. i \in 0 .. n /\ i - 1 \in 0 .. n
        BY <3>1
      <4> QED BY <1>5, <4>1, <4>2
    <3>4. ASSUME NEW j \in 1 .. Len(p[i]) PROVE t[f[i - 1] + j] = p[i][j]
      <4>1. f[i - 1] + j \in 1 .. Len(s)
        <5>1. PICK a \in Nat, b \in Nat, c \in Nat, m \in Nat :
                a = f[i - 1] /\ b = f[i] /\ c = Len(p[i]) /\ m = Len(s)
          BY <1>4, <3>3
        <5>2. b = a + c /\ b <= m /\ j \in 1 .. c
          BY <3>2, <3>3, <5>1
        <5>3. a + j \in 1 .. m
          BY <5>2
        <5> QED BY <5>1, <5>3
      <4>2. s[f[i - 1] + j] = p[i][j]
        BY <1>1, <3>1 DEF EndsAt
      <4> QED BY <1>3, <4>1, <4>2
    <3> QED BY <3>2, <3>4
  <2> QED BY <2>1, <2>2
<1>10. ASSUME NEW i \in 0 .. Len(q), NEW j \in 0 .. Len(q), i <= j PROVE g[i] <= g[j]
  <2>1. CASE j = n + 1
    <3>1. g[i] \in 0 .. Len(t) /\ g[j] = Len(t)
      BY <1>6, <1>7, <2>1
    <3> QED BY <1>3, <1>4, <3>1
  <2>2. CASE j # n + 1
    <3>1. i \in 0 .. n /\ j \in 0 .. n
      BY <1>2, <1>10, <2>2
    <3> QED BY <1>1, <1>5, <1>10, <3>1 DEF EndsAt
  <2> QED BY <2>1, <2>2
<1>11. EndsAt(t, q, g)
  BY <1>7, <1>8, <1>9, <1>10 DEF EndsAt
<1> QED BY <1>11, <1>q, <1>t DEF Pieces

LEMMA WithinThePiece ==
  ASSUME NEW a \in Nat, NEW b \in Nat, NEW e \in Nat, NEW h \in Nat, NEW k \in Nat,
         NEW m \in Nat, m <= a, b <= e, b = a + k, 1 <= h, h <= k
  PROVE  (a - m) + h \in 1 .. (e - m) /\ m + ((a - m) + h) = a + h
OBVIOUS

\* The first piece is at the beginning, and what follows it is the others.
LEMMA FirstPiece ==
  ASSUME NEW S, NEW s \in Seq(S), NEW p \in Seq(Seq(S)), p # << >>, Pieces(s, p)
  PROVE  /\ SubSeq(s, 1, Len(Head(p))) = Head(p)
         /\ SubSeq(s, Len(Head(p)) + 1, Len(s)) \in Seq(S)
         /\ Pieces(SubSeq(s, Len(Head(p)) + 1, Len(s)), Tail(p))
<1>1. PICK f : EndsAt(s, p, f)
  BY DEF Pieces
<1> PICK n \in Nat : n = Len(p) /\ n # 0
  OBVIOUS
<1> PICK m \in Nat : m = Len(Head(p))
  OBVIOUS
<1> PICK e \in Nat : e = Len(s)
  OBVIOUS
<1>2. Head(p) = p[1] /\ 1 \in 1 .. n /\ p[1] \in Seq(S)
  OBVIOUS
<1>3. f[0] = 0 /\ f[1] = m /\ f[n] = e /\ m <= e /\ \A i \in 0 .. n : f[i] \in 0 .. e
  <2>1. f[0] = 0 /\ f[n] = e /\ (\A i \in 0 .. n : f[i] \in 0 .. e) /\ f[1] = f[1 - 1] + Len(p[1])
    BY <1>1, <1>2 DEF EndsAt
  <2>2. f[1] = m
    BY <1>2, <2>1
  <2> QED BY <2>1, <2>2
<1>4. SubSeq(s, 1, m) = Head(p)
  <2>1. \A j \in 1 .. m : s[j] = p[1][j]
    <3> SUFFICES ASSUME NEW j \in 1 .. m PROVE s[j] = p[1][j]
      OBVIOUS
    <3>1. s[f[1 - 1] + j] = p[1][j]
      BY <1>1, <1>2 DEF EndsAt
    <3>2. f[1 - 1] + j = j
      BY <1>3
    <3> QED BY <3>1, <3>2
  <2>2. Len(SubSeq(s, 1, m)) = m /\ SubSeq(s, 1, m) \in Seq(S) /\ \A j \in 1 .. m : SubSeq(s, 1, m)[j] = s[j]
    BY <1>3
  <2> QED BY <1>2, <2>1, <2>2
<1>t. PICK t : t = SubSeq(s, m + 1, e)
  OBVIOUS
<1>5. t \in Seq(S) /\ Len(t) = e - m /\ \A j \in 1 .. (e - m) : t[j] = s[m + j]
  <2>1. m + 1 \in Nat \ {0} /\ e \in Int /\ e <= Len(s)
    OBVIOUS
  <2>2. Len(t) = e - m
    BY <1>3, <1>t
  <2>3. t \in Seq(S) /\ \A j \in DOMAIN t : t[j] = s[(m + 1) + j - 1]
    <3>1. PICK a \in Nat \ {0} : a = m + 1
      BY <2>1
    <3>2. PICK b \in Int : b = e /\ b <= Len(s)
      BY <2>1
    <3>3. SubSeq(s, a, b) \in Seq(S) /\ \A k \in DOMAIN SubSeq(s, a, b) : SubSeq(s, a, b)[k] = s[a + k - 1]
      BY <3>2, PartFacts
    <3> QED BY <1>t, <3>1, <3>2, <3>3
  <2>4. DOMAIN t = 1 .. (e - m)
    BY <2>2, <2>3
  <2>5. \A j \in 1 .. (e - m) : (m + 1) + j - 1 = m + j
    OBVIOUS
  <2> QED BY <2>2, <2>3, <2>4, <2>5
<1>q. PICK q : q = Tail(p)
  OBVIOUS
<1>6. q \in Seq(Seq(S)) /\ Len(q) = n - 1 /\ \A i \in 1 .. (n - 1) : q[i] = p[i + 1]
  BY <1>q
<1>g. PICK g : g = [i \in 0 .. (n - 1) |-> f[i + 1] - m]
  OBVIOUS
<1>7. \A i \in 0 .. (n - 1) : /\ i + 1 \in 0 .. n /\ i + 1 \in 1 .. n
                             /\ f[i + 1] \in Nat /\ m <= f[i + 1] /\ f[i + 1] <= e
                             /\ g[i] = f[i + 1] - m
  <2> SUFFICES ASSUME NEW i \in 0 .. (n - 1)
               PROVE  /\ i + 1 \in 0 .. n /\ i + 1 \in 1 .. n
                      /\ f[i + 1] \in Nat /\ m <= f[i + 1] /\ f[i + 1] <= e
                      /\ g[i] = f[i + 1] - m
    OBVIOUS
  <2>1. i + 1 \in 0 .. n /\ i + 1 \in 1 .. n /\ 1 \in 0 .. n /\ 1 <= i + 1
    OBVIOUS
  <2>2. f[1] <= f[i + 1]
    BY <1>1, <2>1 DEF EndsAt
  <2> QED BY <1>3, <1>g, <2>1, <2>2
<1>8. g \in [0 .. (n - 1) -> 0 .. (e - m)]
  <2>1. \A i \in 0 .. (n - 1) : g[i] \in 0 .. (e - m)
    <3> SUFFICES ASSUME NEW i \in 0 .. (n - 1) PROVE g[i] \in 0 .. (e - m)
      OBVIOUS
    <3>1. f[i + 1] \in Nat /\ m <= f[i + 1] /\ f[i + 1] <= e /\ g[i] = f[i + 1] - m
      BY <1>7
    <3> QED BY <3>1
  <2> QED BY <1>g, <2>1
<1>9. g[0] = 0 /\ g[n - 1] = e - m
  <2>1. 0 \in 0 .. (n - 1) /\ n - 1 \in 0 .. (n - 1) /\ 0 + 1 = 1 /\ (n - 1) + 1 = n
    OBVIOUS
  <2>2. g[0] = f[0 + 1] - m /\ g[n - 1] = f[(n - 1) + 1] - m
    BY <1>7, <2>1
  <2> QED BY <1>3, <2>1, <2>2
<1>10. ASSUME NEW i \in 1 .. (n - 1)
       PROVE  g[i] = g[i - 1] + Len(q[i]) /\ \A j \in 1 .. Len(q[i]) : t[g[i - 1] + j] = q[i][j]
  <2>1. i \in 0 .. (n - 1) /\ i - 1 \in 0 .. (n - 1) /\ (i - 1) + 1 = i /\ i + 1 \in 1 .. n /\ (i + 1) - 1 = i
    OBVIOUS
  <2>2. g[i] = f[i + 1] - m /\ g[i - 1] = f[i] - m /\ f[i] \in Nat /\ m <= f[i] /\ f[i + 1] \in Nat /\ f[i + 1] <= e
    BY <1>7, <2>1
  <2>3. q[i] = p[i + 1] /\ Len(q[i]) \in Nat
    <3>1. q[i] = p[i + 1] /\ q[i] \in Seq(S)
      BY <1>6
    <3> QED BY <3>1
  <2>4. f[i + 1] = f[i] + Len(q[i])
    BY <1>1, <2>1, <2>3 DEF EndsAt
  <2>5. ASSUME NEW j \in 1 .. Len(q[i]) PROVE t[g[i - 1] + j] = q[i][j]
    <3>1. s[f[i] + j] = q[i][j]
      BY <1>1, <2>1, <2>3 DEF EndsAt
    <3>2. g[i - 1] + j \in 1 .. (e - m) /\ m + (g[i - 1] + j) = f[i] + j
      <4>1. PICK k \in Nat : k = Len(q[i])
        BY <2>3
      <4>2. PICK h \in Nat : h = j /\ 1 <= h /\ h <= k
        BY <4>1
      <4>3. PICK a \in Nat : a = f[i]
        BY <2>2
      <4>4. PICK b \in Nat : b = f[i + 1]
        BY <2>2
      <4>5. m <= a /\ b <= e /\ b = a + k /\ g[i - 1] = a - m
        BY <2>2, <2>4, <4>1, <4>3, <4>4
      <4>6. (a - m) + h \in 1 .. (e - m) /\ m + ((a - m) + h) = a + h
        BY <4>2, <4>5, WithinThePiece
      <4> QED BY <4>2, <4>3, <4>5, <4>6
    <3> QED BY <1>5, <3>1, <3>2
  <2>6. g[i] = g[i - 1] + Len(q[i])
    <3>1. PICK k \in Nat : k = Len(q[i])
      BY <2>3
    <3> QED BY <2>2, <2>4, <3>1
  <2> QED BY <2>5, <2>6
<1>11. ASSUME NEW i \in 0 .. (n - 1), NEW j \in 0 .. (n - 1), i <= j PROVE g[i] <= g[j]
  <2>1. i + 1 <= j + 1
    BY <1>11
  <2>2. f[i + 1] <= f[j + 1]
    BY <1>1, <1>7, <2>1 DEF EndsAt
  <2> QED BY <1>7, <2>2
<1>12. EndsAt(t, q, g)
  BY <1>5, <1>6, <1>8, <1>9, <1>10, <1>11 DEF EndsAt
<1>13. Pieces(t, q)
  BY <1>12 DEF Pieces
<1> QED BY <1>4, <1>5, <1>13, <1>q, <1>t

-----------------------------------------------------------------------------
(* What a lane carries: the reports of the tasks it has done, as one report *)

EntriesIn(P) == [i \in 1 .. Len(P) |-> P[i].entries]
ErrorsIn(P)  == [i \in 1 .. Len(P) |-> P[i].errors]

SegmentOf(d) == [entries |-> Len(d.entries), errors |-> Len(d.errors)]
Segments == [entries : Nat, errors : Nat]

LaneStates == {"waiting", "queued", "sent"}
LaneRecords == [state : LaneStates, tasks : Seq(Tasks), report : Reports, segments : Seq(Segments)]

Carries(lane, P) ==
    /\ Len(lane.segments) = Len(P) /\ \A i \in 1 .. Len(P) : lane.segments[i] = SegmentOf(P[i])
    /\ Pieces(lane.report.entries, EntriesIn(P))
    /\ Pieces(lane.report.errors, ErrorsIn(P))

LEMMA ReportFacts ==
  /\ NoReport \in Reports
  /\ \A a \in Reports : a.entries \in Seq(Item) /\ a.errors \in Seq(Item)
  /\ \A e, f \in Seq(Item) : Report(e, f) \in Reports /\ Report(e, f).entries = e /\ Report(e, f).errors = f
  /\ \A a \in Reports : a = Report(a.entries, a.errors) /\ SegmentOf(a) \in Segments
BY DEF NoReport, Reports, Report, SegmentOf, Segments

LEMMA JoinFacts ==
  ASSUME NEW a \in Reports, NEW b \in Reports
  PROVE  /\ Join(a, b) \in Reports /\ Join(a, b).entries = a.entries \o b.entries
         /\ Join(a, b).errors = a.errors \o b.errors
<1>1. a.entries \o b.entries \in Seq(Item) /\ a.errors \o b.errors \in Seq(Item)
  BY ReportFacts, ConcatFacts
<1> QED BY <1>1, ReportFacts DEF Join

\* The parts of a list of reports.
LEMMA PartsOf ==
  ASSUME NEW P \in Seq(Reports)
  PROVE  /\ EntriesIn(P) \in Seq(Seq(Item)) /\ ErrorsIn(P) \in Seq(Seq(Item))
         /\ Len(EntriesIn(P)) = Len(P) /\ Len(ErrorsIn(P)) = Len(P)
         /\ \A i \in 1 .. Len(P) : EntriesIn(P)[i] = P[i].entries /\ ErrorsIn(P)[i] = P[i].errors
<1>1. \A i \in 1 .. Len(P) : P[i] \in Reports
  OBVIOUS
<1>2. \A i \in 1 .. Len(P) : P[i].entries \in Seq(Item) /\ P[i].errors \in Seq(Item)
  BY <1>1, ReportFacts
<1> QED BY <1>2 DEF EntriesIn, ErrorsIn

LEMMA PartsMore ==
  ASSUME NEW P \in Seq(Reports), NEW d \in Reports
  PROVE  /\ EntriesIn(Append(P, d)) = Append(EntriesIn(P), d.entries)
         /\ ErrorsIn(Append(P, d)) = Append(ErrorsIn(P), d.errors)
<1> PICK Q : Q = Append(P, d)
  OBVIOUS
<1>1. /\ Q \in Seq(Reports) /\ Len(Q) = Len(P) + 1 /\ Q[Len(P) + 1] = d
      /\ \A i \in 1 .. Len(P) : Q[i] = P[i]
  OBVIOUS
<1>2. /\ Len(EntriesIn(Q)) = Len(P) + 1 /\ EntriesIn(Q) \in Seq(Seq(Item))
      /\ EntriesIn(Q)[Len(P) + 1] = d.entries
      /\ \A i \in 1 .. Len(P) : EntriesIn(Q)[i] = EntriesIn(P)[i]
      /\ Len(ErrorsIn(Q)) = Len(P) + 1 /\ ErrorsIn(Q) \in Seq(Seq(Item))
      /\ ErrorsIn(Q)[Len(P) + 1] = d.errors
      /\ \A i \in 1 .. Len(P) : ErrorsIn(Q)[i] = ErrorsIn(P)[i]
  <2>1. Len(P) \in Nat /\ \A i \in 1 .. Len(P) : i \in 1 .. Len(Q)
    BY <1>1
  <2>2. Len(P) + 1 \in 1 .. Len(Q)
    BY <1>1, <2>1
  <2>3. /\ EntriesIn(Q) \in Seq(Seq(Item)) /\ ErrorsIn(Q) \in Seq(Seq(Item))
        /\ Len(EntriesIn(Q)) = Len(Q) /\ Len(ErrorsIn(Q)) = Len(Q)
        /\ \A i \in 1 .. Len(Q) : EntriesIn(Q)[i] = Q[i].entries /\ ErrorsIn(Q)[i] = Q[i].errors
    BY <1>1, PartsOf
  <2>4. \A i \in 1 .. Len(P) : EntriesIn(P)[i] = P[i].entries /\ ErrorsIn(P)[i] = P[i].errors
    BY PartsOf
  <2> QED BY <1>1, <2>1, <2>2, <2>3, <2>4
<1>3. d.entries \in Seq(Item) /\ d.errors \in Seq(Item)
  BY ReportFacts
<1>4. /\ Append(EntriesIn(P), d.entries) \in Seq(Seq(Item))
      /\ Append(ErrorsIn(P), d.errors) \in Seq(Seq(Item))
      /\ Len(Append(EntriesIn(P), d.entries)) = Len(P) + 1
      /\ Len(Append(ErrorsIn(P), d.errors)) = Len(P) + 1
      /\ Append(EntriesIn(P), d.entries)[Len(P) + 1] = d.entries
      /\ Append(ErrorsIn(P), d.errors)[Len(P) + 1] = d.errors
      /\ \A i \in 1 .. Len(P) : Append(EntriesIn(P), d.entries)[i] = EntriesIn(P)[i]
      /\ \A i \in 1 .. Len(P) : Append(ErrorsIn(P), d.errors)[i] = ErrorsIn(P)[i]
  BY <1>3, PartsOf
<1>5. ASSUME NEW s \in Seq(Seq(Item)), NEW t \in Seq(Seq(Item)), NEW n \in Nat,
             Len(s) = n + 1, Len(t) = n + 1, s[n + 1] = t[n + 1], \A i \in 1 .. n : s[i] = t[i]
      PROVE  s = t
  <2>1. \A i \in 1 .. (n + 1) : i \in 1 .. n \/ i = n + 1
    OBVIOUS
  <2>2. \A i \in 1 .. (n + 1) : s[i] = t[i]
    BY <1>5, <2>1
  <2> QED BY <1>5, <2>2
<1>6. EntriesIn(Q) = Append(EntriesIn(P), d.entries)
  BY <1>2, <1>4, <1>5
<1>7. ErrorsIn(Q) = Append(ErrorsIn(P), d.errors)
  BY <1>2, <1>4, <1>5
<1> QED BY <1>6, <1>7

LEMMA SameSequence ==
  ASSUME NEW S, NEW s \in Seq(S), NEW t \in Seq(S), NEW n \in Nat, Len(s) = n, Len(t) = n,
         \A i \in 1 .. n : s[i] = t[i]
  PROVE  s = t
OBVIOUS

LEMMA TailIs ==
  ASSUME NEW S, NEW s \in Seq(S), NEW t \in Seq(S), s # << >>, Len(t) = Len(s) - 1,
         \A i \in 1 .. Len(t) : t[i] = s[i + 1]
  PROVE  t = Tail(s)
<1>1. PICK u \in Seq(S) : u = Tail(s) /\ Len(u) = Len(s) - 1 /\ \A i \in DOMAIN u : u[i] = s[i + 1]
  BY TailFacts
<1>2. Len(u) = Len(t) /\ \A i \in 1 .. Len(t) : t[i] = u[i]
  BY <1>1
<1>3. t = u
  BY <1>2
<1> QED BY <1>1, <1>3

LEMMA PartsLess ==
  ASSUME NEW P \in Seq(Reports), P # << >>
  PROVE  /\ EntriesIn(P) # << >> /\ ErrorsIn(P) # << >>
         /\ Head(EntriesIn(P)) = Head(P).entries /\ Head(ErrorsIn(P)) = Head(P).errors
         /\ EntriesIn(Tail(P)) = Tail(EntriesIn(P)) /\ ErrorsIn(Tail(P)) = Tail(ErrorsIn(P))
         /\ Head(P) \in Reports /\ Tail(P) \in Seq(Reports)
<1>1. Len(P) # 0 /\ Head(P) = P[1] /\ Head(P) \in Reports /\ Tail(P) \in Seq(Reports) /\ 1 \in 1 .. Len(P)
  OBVIOUS
<1>2. EntriesIn(P) # << >> /\ ErrorsIn(P) # << >>
  BY <1>1, PartsOf
<1>3. Head(EntriesIn(P)) = Head(P).entries /\ Head(ErrorsIn(P)) = Head(P).errors
  <2>1. Head(EntriesIn(P)) = EntriesIn(P)[1] /\ Head(ErrorsIn(P)) = ErrorsIn(P)[1]
    BY <1>2, PartsOf
  <2> QED BY <1>1, <2>1, PartsOf
<1> PICK Q : Q = Tail(P)
  OBVIOUS
<1>4. Q \in Seq(Reports) /\ Len(Q) = Len(P) - 1 /\ \A i \in 1 .. Len(Q) : Q[i] = P[i + 1] /\ i + 1 \in 1 .. Len(P)
  <2>1. Len(P) \in Nat /\ Q \in Seq(Reports) /\ Len(Q) = Len(P) - 1
    BY <1>1, TailFacts
  <2> QED BY <1>1, <2>1
<1>5. ASSUME NEW s \in Seq(Seq(Item)), NEW t \in Seq(Seq(Item)), s # << >>, Len(t) = Len(s) - 1,
             \A i \in 1 .. Len(t) : t[i] = s[i + 1]
      PROVE  t = Tail(s)
  BY <1>5, TailIs
<1>6. EntriesIn(Q) = Tail(EntriesIn(P))
  <2>1. \A i \in 1 .. Len(Q) : EntriesIn(Q)[i] = EntriesIn(P)[i + 1]
    <3>1. \A i \in 1 .. Len(Q) : Q[i] = P[i + 1] /\ i + 1 \in 1 .. Len(P)
      BY <1>4
    <3>2. \A i \in 1 .. Len(Q) : EntriesIn(Q)[i] = Q[i].entries
      BY <1>4, PartsOf
    <3>3. \A i \in 1 .. Len(P) : EntriesIn(P)[i] = P[i].entries
      BY PartsOf
    <3> QED BY <3>1, <3>2, <3>3
  <2>2. EntriesIn(Q) \in Seq(Seq(Item)) /\ Len(EntriesIn(Q)) = Len(Q)
    BY <1>4, PartsOf
  <2>3. EntriesIn(P) \in Seq(Seq(Item)) /\ Len(EntriesIn(P)) = Len(P)
    BY PartsOf
  <2> QED BY <1>2, <1>4, <1>5, <2>1, <2>2, <2>3
<1>7. ErrorsIn(Q) = Tail(ErrorsIn(P))
  <2>1. \A i \in 1 .. Len(Q) : ErrorsIn(Q)[i] = ErrorsIn(P)[i + 1]
    <3>1. \A i \in 1 .. Len(Q) : Q[i] = P[i + 1] /\ i + 1 \in 1 .. Len(P)
      BY <1>4
    <3>2. \A i \in 1 .. Len(Q) : ErrorsIn(Q)[i] = Q[i].errors
      BY <1>4, PartsOf
    <3>3. \A i \in 1 .. Len(P) : ErrorsIn(P)[i] = P[i].errors
      BY PartsOf
    <3> QED BY <3>1, <3>2, <3>3
  <2>2. ErrorsIn(Q) \in Seq(Seq(Item)) /\ Len(ErrorsIn(Q)) = Len(Q)
    BY <1>4, PartsOf
  <2>3. ErrorsIn(P) \in Seq(Seq(Item)) /\ Len(ErrorsIn(P)) = Len(P)
    BY PartsOf
  <2> QED BY <1>2, <1>4, <1>5, <2>1, <2>2, <2>3
<1> QED BY <1>1, <1>2, <1>3, <1>6, <1>7

\* A lane that has done nothing carries nothing.
LEMMA CarriesNothing ==
  ASSUME NEW lane, lane.segments = << >>, lane.report = NoReport
  PROVE  Carries(lane, << >>)
<1>1. NoReport.entries = << >> /\ NoReport.errors = << >>
  BY DEF NoReport, Report
<1>2. Len(<< >>) = 0 /\ 1 .. 0 = {}
  OBVIOUS
<1>3. EntriesIn(<< >>) = << >> /\ ErrorsIn(<< >>) = << >>
  BY <1>2 DEF EntriesIn, ErrorsIn
<1> QED BY <1>1, <1>2, <1>3, NoPieces DEF Carries

\* One more task.
LEMMA CarriesMore ==
  ASSUME NEW lane \in LaneRecords, lane.tasks # << >>, NEW d \in Reports, NEW P \in Seq(Reports),
         Carries(lane, P)
  PROVE  /\ WithTask(lane, d) \in LaneRecords /\ WithTask(lane, d).state = lane.state
         /\ WithTask(lane, d).tasks = Tail(lane.tasks)
         /\ Carries(WithTask(lane, d), Append(P, d))
<1> PICK j : j = Join(lane.report, d)
  OBVIOUS
<1> PICK g : g = Append(lane.segments, SegmentOf(d))
  OBVIOUS
<1> PICK t : t = Tail(lane.tasks)
  OBVIOUS
<1> PICK v : v = WithTask(lane, d)
  OBVIOUS
<1>1. /\ lane.report \in Reports /\ lane.segments \in Seq(Segments) /\ lane.tasks \in Seq(Tasks)
      /\ lane.state \in LaneStates
  BY DEF LaneRecords
<1>2. j \in Reports /\ j.entries = lane.report.entries \o d.entries /\ j.errors = lane.report.errors \o d.errors
  BY <1>1, JoinFacts
<1>3. /\ g \in Seq(Segments) /\ Len(g) = Len(P) + 1 /\ g[Len(P) + 1] = SegmentOf(d)
      /\ \A i \in 1 .. Len(P) : g[i] = SegmentOf(P[i])
  <2>1. Len(lane.segments) = Len(P) /\ \A i \in 1 .. Len(P) : lane.segments[i] = SegmentOf(P[i])
    BY DEF Carries
  <2>2. SegmentOf(d) \in Segments
    BY ReportFacts
  <2> QED BY <1>1, <2>1, <2>2, AppendFacts
<1>4. t \in Seq(Tasks)
  BY <1>1, TailFacts
<1>5. v = [lane EXCEPT !.tasks = t, !.report = j, !.segments = g]
  BY <1>1 DEF WithTask, LaneRecords, SegmentOf
<1>6. v \in LaneRecords /\ v.state = lane.state /\ v.tasks = t /\ v.report = j /\ v.segments = g
  BY <1>1, <1>2, <1>3, <1>4, <1>5 DEF LaneRecords
<1>7. Pieces(j.entries, EntriesIn(Append(P, d))) /\ Pieces(j.errors, ErrorsIn(Append(P, d)))
  <2>1. Pieces(lane.report.entries, EntriesIn(P)) /\ Pieces(lane.report.errors, ErrorsIn(P))
    BY DEF Carries
  <2>2. /\ lane.report.entries \in Seq(Item) /\ lane.report.errors \in Seq(Item)
        /\ d.entries \in Seq(Item) /\ d.errors \in Seq(Item)
        /\ EntriesIn(P) \in Seq(Seq(Item)) /\ ErrorsIn(P) \in Seq(Seq(Item))
    BY <1>1, ReportFacts, PartsOf
  <2>3. Pieces(lane.report.entries \o d.entries, Append(EntriesIn(P), d.entries))
    BY <2>1, <2>2, AppendPiece
  <2>4. Pieces(lane.report.errors \o d.errors, Append(ErrorsIn(P), d.errors))
    BY <2>1, <2>2, AppendPiece
  <2> QED BY <1>2, <2>3, <2>4, PartsMore
<1>8. Carries(v, Append(P, d))
  <2> PICK Q : Q = Append(P, d)
    OBVIOUS
  <2>1. Len(Q) = Len(P) + 1 /\ Q[Len(P) + 1] = d /\ \A i \in 1 .. Len(P) : Q[i] = P[i]
    OBVIOUS
  <2>2. \A i \in 1 .. Len(Q) : i \in 1 .. Len(P) \/ i = Len(P) + 1
    BY <2>1
  <2>3. \A i \in 1 .. Len(Q) : g[i] = SegmentOf(Q[i])
    BY <1>3, <2>1, <2>2
  <2> QED BY <1>3, <1>6, <1>7, <2>1, <2>3 DEF Carries
<1> QED BY <1>6, <1>8

\* The first of the reports a lane carries, and the lane without it.
FirstOf(lane) ==
    Report(SubSeq(lane.report.entries, 1, Head(lane.segments).entries),
           SubSeq(lane.report.errors, 1, Head(lane.segments).errors))

RestOf(lane) ==
    [lane EXCEPT !.segments = Tail(lane.segments),
                 !.report = Report(SubSeq(lane.report.entries, Head(lane.segments).entries + 1,
                                          Len(lane.report.entries)),
                                   SubSeq(lane.report.errors, Head(lane.segments).errors + 1,
                                          Len(lane.report.errors)))]

LEMMA CarriesRest ==
  ASSUME NEW lane \in LaneRecords, NEW P \in Seq(Reports), P # << >>, Carries(lane, P)
  PROVE  FirstOf(lane) = Head(P) /\ RestOf(lane) \in LaneRecords /\ Carries(RestOf(lane), Tail(P))
<1>1. PICK x \in Seq(Item), y \in Seq(Item) : x = lane.report.entries /\ y = lane.report.errors
  <2>1. lane.report \in Reports
    BY DEF LaneRecords
  <2> QED BY <2>1, ReportFacts
<1>2. PICK h \in Seq(Segments) : h = lane.segments
  BY DEF LaneRecords
<1>3. PICK n \in Nat : n = Len(P) /\ n # 0
  OBVIOUS
<1>4. /\ Len(h) = n /\ \A i \in 1 .. n : h[i] = SegmentOf(P[i])
      /\ Pieces(x, EntriesIn(P)) /\ Pieces(y, ErrorsIn(P))
  BY <1>1, <1>2, <1>3 DEF Carries
<1>5. PICK q \in Seq(Reports) : q = Tail(P) /\ Len(q) = n - 1 /\ \A i \in 1 .. (n - 1) : q[i] = P[i + 1]
  <2>1. PICK q : q = Tail(P)
    OBVIOUS
  <2>2. q \in Seq(Reports) /\ Len(q) = Len(P) - 1 /\ \A i \in DOMAIN q : q[i] = P[i + 1]
    BY <2>1, TailFacts
  <2>3. DOMAIN q = 1 .. (n - 1)
    BY <1>3, <2>2
  <2> QED BY <1>3, <2>1, <2>2, <2>3
<1>6. h # << >>
  BY <1>3, <1>4
<1>7. PICK g \in Seq(Segments) : g = Tail(h) /\ Len(g) = n - 1 /\ \A i \in 1 .. (n - 1) : g[i] = h[i + 1]
  <2>1. PICK g : g = Tail(h)
    OBVIOUS
  <2>2. g \in Seq(Segments) /\ Len(g) = Len(h) - 1 /\ \A i \in DOMAIN g : g[i] = h[i + 1]
    BY <1>6, <2>1, TailFacts
  <2>3. DOMAIN g = 1 .. (n - 1)
    BY <1>4, <2>2
  <2> QED BY <1>4, <2>1, <2>2, <2>3
<1>8. PICK first \in Reports : first = Head(P)
  BY PartsLess
<1>9. Head(h) = SegmentOf(first)
  <2>1. first = P[1] /\ Head(h) = h[1] /\ 1 \in 1 .. n
    BY <1>3, <1>6, <1>8
  <2> QED BY <1>4, <2>1
<1>10. PICK a, b : /\ a = Head(lane.segments).entries /\ a = Len(first.entries)
                  /\ b = Head(lane.segments).errors /\ b = Len(first.errors)
  BY <1>2, <1>9 DEF SegmentOf
<1>11. PICK p \in Seq(Seq(Item)) : p = EntriesIn(P) /\ p # << >> /\ Head(p) = first.entries /\ EntriesIn(q) = Tail(p)
  BY <1>5, <1>8, PartsOf, PartsLess
<1>12. PICK r \in Seq(Seq(Item)) : r = ErrorsIn(P) /\ r # << >> /\ Head(r) = first.errors /\ ErrorsIn(q) = Tail(r)
  BY <1>5, <1>8, PartsOf, PartsLess
<1>13. SubSeq(x, 1, a) = first.entries /\ \E t \in Seq(Item) : t = SubSeq(x, a + 1, Len(x)) /\ Pieces(t, EntriesIn(q))
  <2>1. Pieces(x, p) /\ a = Len(Head(p))
    BY <1>4, <1>10, <1>11
  <2>2. /\ SubSeq(x, 1, Len(Head(p))) = Head(p) /\ SubSeq(x, Len(Head(p)) + 1, Len(x)) \in Seq(Item)
        /\ Pieces(SubSeq(x, Len(Head(p)) + 1, Len(x)), Tail(p))
    BY <1>11, <2>1, FirstPiece
  <2> QED BY <1>11, <2>1, <2>2
<1>14. SubSeq(y, 1, b) = first.errors /\ \E t \in Seq(Item) : t = SubSeq(y, b + 1, Len(y)) /\ Pieces(t, ErrorsIn(q))
  <2>1. Pieces(y, r) /\ b = Len(Head(r))
    BY <1>4, <1>10, <1>12
  <2>2. /\ SubSeq(y, 1, Len(Head(r))) = Head(r) /\ SubSeq(y, Len(Head(r)) + 1, Len(y)) \in Seq(Item)
        /\ Pieces(SubSeq(y, Len(Head(r)) + 1, Len(y)), Tail(r))
    BY <1>12, <2>1, FirstPiece
  <2> QED BY <1>12, <2>1, <2>2
<1>15. PICK e \in Seq(Item), f \in Seq(Item) : /\ e = SubSeq(x, a + 1, Len(x)) /\ Pieces(e, EntriesIn(q))
                                              /\ f = SubSeq(y, b + 1, Len(y)) /\ Pieces(f, ErrorsIn(q))
  BY <1>13, <1>14
<1>16. PICK rest \in Reports : rest = Report(e, f) /\ rest.entries = e /\ rest.errors = f
  BY ReportFacts
<1>17. PICK v : v = RestOf(lane)
  OBVIOUS
<1>18. v = [lane EXCEPT !.segments = g, !.report = rest]
  BY <1>1, <1>2, <1>7, <1>10, <1>15, <1>16, <1>17 DEF RestOf
<1>19. v \in LaneRecords /\ v.segments = g /\ v.report = rest
  BY <1>18 DEF LaneRecords
<1>20. \A i \in 1 .. (n - 1) : g[i] = SegmentOf(q[i])
  <2>1. \A i \in 1 .. (n - 1) : i + 1 \in 1 .. n
    BY <1>3
  <2> QED BY <1>4, <1>5, <1>7, <2>1
<1>21. Carries(v, q)
  BY <1>5, <1>7, <1>15, <1>16, <1>19, <1>20 DEF Carries
<1>22. FirstOf(lane) = first
  BY <1>1, <1>10, <1>13, <1>14, ReportFacts DEF FirstOf
<1> QED BY <1>5, <1>8, <1>17, <1>19, <1>21, <1>22

\* The turn of the merge that takes the segment of task k from its lane.
TurnTakes(turn, lanes, merged, P, l) ==
    /\ turn.merged = Join(merged, Head(P))
    /\ turn.lanes \in Seq(LaneRecords) /\ Len(turn.lanes) = Len(lanes)
    /\ Carries(turn.lanes[l], Tail(P))
    /\ \A i \in DOMAIN lanes : i # l => turn.lanes[i] = lanes[i]

LEMMA TakeSegmentIs ==
  ASSUME NEW lanes \in Seq(LaneRecords), NEW k \in Nat \ {0}, NEW merged \in Reports,
         NEW P \in Seq(Reports), P # << >>, NEW l \in DOMAIN lanes,
         l = 1 + ((k - 1) % Len(lanes)), Carries(lanes[l], P)
  PROVE  TurnTakes(TakeSegment(lanes, k, merged), lanes, merged, P, l)
<1>1. PICK lane \in LaneRecords : lane = lanes[l]
  OBVIOUS
<1>2. PICK v, first : v = RestOf(lane) /\ first = FirstOf(lane)
  OBVIOUS
<1>3. PICK m : m = [lanes EXCEPT ![l] = v]
  OBVIOUS
<1>4. PICK turn : turn = TakeSegment(lanes, k, merged)
  OBVIOUS
<1>5. turn = [lanes |-> m, merged |-> Join(merged, first)]
  BY <1>1, <1>2, <1>3, <1>4 DEF TakeSegment, FirstOf, RestOf
<1>6. first = Head(P) /\ v \in LaneRecords /\ Carries(v, Tail(P))
  BY <1>1, <1>2, CarriesRest
<1>7. m \in Seq(LaneRecords) /\ Len(m) = Len(lanes) /\ m[l] = v /\ \A i \in DOMAIN lanes : i # l => m[i] = lanes[i]
  BY <1>3, <1>6
<1>8. turn.lanes = m /\ turn.merged = Join(merged, Head(P))
  BY <1>5, <1>6
<1>9. TurnTakes(turn, lanes, merged, P, l)
  BY <1>6, <1>7, <1>8 DEF TurnTakes
<1> QED BY <1>4, <1>9

-----------------------------------------------------------------------------
(* The tasks of a lane: every n-th of them, from the l-th on *)

\* Of the numbers l, n + l, 2 * n + l, ..., the first m are at most k.
CountIs(k, n, l, m) == m \in Nat /\ \A q \in Nat : q < m <=> q * n + l <= k

EveryNth(s, n, l, a, b) == [i \in 1 .. (b - a) |-> s[(a + i - 1) * n + l]]

LEMMA RemainderFacts ==
  ASSUME NEW a \in Nat, NEW n \in Nat, n > 0
  PROVE  a \div n \in Nat /\ a % n \in 0 .. (n - 1) /\ a = (a \div n) * n + (a % n)
OBVIOUS

LEMMA SameRemainder ==
  ASSUME NEW n \in Nat, n > 0, NEW q \in Nat, NEW p \in Nat, NEW l \in 1 .. n, NEW h \in 1 .. n,
         q * n + l = p * n + h
  PROVE  q = p /\ l = h
<1>1. q * n \in Nat /\ p * n \in Nat /\ (q + 1) * n = q * n + n /\ (p + 1) * n = p * n + n
  BY TimesFacts
<1>2. CASE q < p
  <2>1. (q + 1) * n <= p * n
    BY <1>2, TimesFacts
  <2> QED BY <1>1, <2>1
<1>3. CASE p < q
  <2>1. (p + 1) * n <= q * n
    BY <1>3, TimesFacts
  <2> QED BY <1>1, <2>1
<1> QED BY <1>1, <1>2, <1>3

LEMMA CountExists ==
  ASSUME NEW k \in Nat, NEW n \in Nat, n > 0, NEW l \in 1 .. n
  PROVE  \E m : CountIs(k, n, l, m)
<1>1. PICK x \in Nat : x = k + n - l
  OBVIOUS
<1>2. PICK m \in Nat : m = x \div n /\ m * n <= x /\ x < m * n + n
  BY QuotientFacts
<1>3. ASSUME NEW q \in Nat PROVE q < m <=> q * n + l <= k
  <2>1. q * n \in Nat /\ m * n \in Nat /\ (q + 1) * n = q * n + n /\ (m + 1) * n = m * n + n
    BY TimesFacts
  <2>2. q < m => (q + 1) * n <= m * n
    BY TimesFacts
  <2>3. ~(q < m) => m * n <= q * n
    BY TimesFacts
  <2> QED BY <1>1, <1>2, <2>1, <2>2, <2>3
<1> QED BY <1>2, <1>3 DEF CountIs

\* As many numbers up to k have the remainder of l.
LEMMA CountIsSize ==
  ASSUME NEW k \in Nat, NEW n \in Nat, n > 0, NEW l \in 1 .. n, NEW m, CountIs(k, n, l, m)
  PROVE  Cardinality({i \in 1 .. k : (i - 1) % n = l - 1}) = m
<1> DEFINE T == {i \in 1 .. k : (i - 1) % n = l - 1}
<1>1. m \in Nat /\ \A q \in Nat : q < m <=> q * n + l <= k
  BY DEF CountIs
<1>2. PICK f : f = [i \in 1 .. m |-> (i - 1) * n + l]
  OBVIOUS
<1>3. ASSUME NEW i \in 1 .. m PROVE f[i] \in T
  <2>1. PICK q \in Nat : q = i - 1 /\ q < m
    BY <1>1
  <2>2. q * n \in Nat /\ q * n + l <= k /\ f[i] = q * n + l
    BY <1>1, <1>2, <2>1, TimesFacts
  <2>3. PICK j \in Nat : j = f[i] - 1
    BY <2>2
  <2>4. j = (j \div n) * n + (j % n) /\ j \div n \in Nat /\ j % n \in 0 .. (n - 1)
    BY RemainderFacts
  <2>5. PICK p \in Nat, h \in 1 .. n : p = j \div n /\ h = (j % n) + 1
    BY <2>4
  <2>6. q * n + l = p * n + h
    BY <2>2, <2>3, <2>4, <2>5
  <2>7. l = h
    BY <2>6, SameRemainder
  <2> QED BY <2>2, <2>3, <2>5, <2>7
<1>4. ASSUME NEW x \in T PROVE \E i \in 1 .. m : f[i] = x
  <2>1. PICK j \in Nat : j = x - 1 /\ j % n = l - 1 /\ x <= k
    OBVIOUS
  <2>2. PICK q \in Nat : q = j \div n /\ j = q * n + (j % n)
    BY RemainderFacts
  <2>3. x = q * n + l /\ q * n \in Nat
    BY <2>1, <2>2, TimesFacts
  <2>4. q < m
    BY <1>1, <2>1, <2>3
  <2>5. q + 1 \in 1 .. m /\ (q + 1) - 1 = q
    BY <1>1, <2>4
  <2>6. f[q + 1] = x
    BY <1>2, <2>3, <2>5
  <2> QED BY <2>5, <2>6
<1>5. T = {f[i] : i \in 1 .. m}
  BY <1>3, <1>4
<1>6. \A i, j \in 1 .. m : f[i] = f[j] => i = j
  <2> SUFFICES ASSUME NEW i \in 1 .. m, NEW j \in 1 .. m, f[i] = f[j] PROVE i = j
    OBVIOUS
  <2>1. PICK q \in Nat, p \in Nat : q = i - 1 /\ p = j - 1
    BY <1>1
  <2>2. q * n + l = p * n + l
    BY <1>2, <2>1
  <2>3. q = p
    BY <2>2, SameRemainder
  <2> QED BY <1>1, <2>1, <2>3
<1>7. IsFiniteSet(1 .. m) /\ Cardinality(1 .. m) = m
  <2>1. IsFiniteSet(1 .. m) /\ Cardinality(1 .. m) = IF 1 > m THEN 0 ELSE m - 1 + 1
    BY <1>1, FS_Interval
  <2> QED BY <1>1, <2>1
<1>8. Cardinality({f[i] : i \in 1 .. m}) = Cardinality(1 .. m)
  <2>1. PICK J : J = 1 .. m
    OBVIOUS
  <2>2. IsFiniteSet(J) /\ \A i, j \in J : f[i] = f[j] => i = j
    BY <1>6, <1>7, <2>1
  <2>3. Cardinality({f[i] : i \in J}) = Cardinality(J)
    BY <2>2, ImageFacts
  <2> QED BY <2>1, <2>3
<1> QED BY <1>5, <1>7, <1>8

\* The number after k is in the share of its own remainder only.
LEMMA CountNext ==
  ASSUME NEW k \in Nat, NEW n \in Nat, n > 0, NEW l \in 1 .. n, NEW a, CountIs(k, n, l, a)
  PROVE  /\ l = 1 + (k % n) => k + 1 = a * n + l /\ CountIs(k + 1, n, l, a + 1)
         /\ l # 1 + (k % n) => CountIs(k + 1, n, l, a)
<1>1. a \in Nat /\ \A q \in Nat : q < a <=> q * n + l <= k
  BY DEF CountIs
<1>2. PICK p \in Nat, h \in 1 .. n : p = k \div n /\ h = 1 + (k % n) /\ k + 1 = p * n + h
  <2>1. k \div n \in Nat /\ k % n \in 0 .. (n - 1) /\ k = (k \div n) * n + (k % n)
    BY RemainderFacts
  <2>2. (k \div n) * n \in Nat
    BY <2>1, TimesFacts
  <2> QED BY <2>1, <2>2
<1>3. p * n \in Nat /\ a * n \in Nat
  BY <1>1, TimesFacts
<1>4. ASSUME l = h PROVE k + 1 = a * n + l /\ CountIs(k + 1, n, l, a + 1)
  <2>1. ~(p < a)
    BY <1>1, <1>2, <1>3, <1>4
  <2>2. ~(a < p)
    <3> SUFFICES ASSUME a < p PROVE FALSE
      OBVIOUS
    <3>1. (a + 1) * n = a * n + n /\ (a + 1) * n <= p * n
      BY <1>1, TimesFacts
    <3>2. a * n + l <= k
      BY <1>2, <1>3, <1>4, <3>1
    <3> QED BY <1>1, <3>2
  <2>3. p = a
    BY <1>1, <2>1, <2>2
  <2>4. ASSUME NEW q \in Nat PROVE q < a + 1 <=> q * n + l <= k + 1
    <3>1. q * n \in Nat /\ (q <= a => q * n <= a * n) /\ (a * n < q * n => a < q) /\ (a + 1) * n = a * n + n
      BY <1>1, TimesFacts
    <3>2. a < q => (a + 1) * n <= q * n
      BY <1>1, TimesFacts
    <3>3. PICK x \in Nat, y \in Nat : x = q * n /\ y = a * n
      BY <1>3, <3>1
    <3>4. k + 1 = y + l
      BY <1>2, <1>4, <2>3, <3>3
    <3>5. CASE q <= a
      BY <1>1, <3>1, <3>3, <3>4, <3>5
    <3>6. CASE a < q
      BY <1>1, <3>1, <3>2, <3>3, <3>4, <3>6
    <3> QED BY <1>1, <3>5, <3>6
  <2> QED BY <1>1, <1>2, <1>4, <2>3, <2>4 DEF CountIs
<1>5. ASSUME l # h PROVE CountIs(k + 1, n, l, a)
  <2>1. ASSUME NEW q \in Nat PROVE q < a <=> q * n + l <= k + 1
    <3>1. q * n + l # k + 1
      <4>1. ASSUME q * n + l = p * n + h PROVE FALSE
        BY <1>5, <4>1, SameRemainder
      <4> QED BY <1>2, <4>1
    <3>2. q * n \in Nat
      BY TimesFacts
    <3> QED BY <1>1, <3>1, <3>2
  <2> QED BY <1>1, <2>1 DEF CountIs
<1> QED BY <1>2, <1>4, <1>5

\* What such a share is, said of a sequence.
NthOf(e, S, s, n, l, a, b) ==
    e \in Seq(S) /\ Len(e) = b - a /\ \A i \in 1 .. (b - a) : e[i] = s[(a + i - 1) * n + l]

LEMMA NthType ==
  ASSUME NEW S, NEW s \in Seq(S), NEW n \in Nat, n > 0, NEW l \in 1 .. n, NEW m, CountIs(Len(s), n, l, m),
         NEW a \in Nat, NEW b \in Nat, a <= b, b <= m
  PROVE  NthOf(EveryNth(s, n, l, a, b), S, s, n, l, a, b)
<1>1. PICK e : e = EveryNth(s, n, l, a, b)
  OBVIOUS
<1>2. PICK d \in Nat : d = b - a
  OBVIOUS
<1>3. e = [i \in 1 .. d |-> s[(a + i - 1) * n + l]]
  BY <1>1, <1>2 DEF EveryNth
<1>4. ASSUME NEW i \in 1 .. d PROVE e[i] = s[(a + i - 1) * n + l] /\ e[i] \in S
  <2>1. PICK q \in Nat : q = a + i - 1
    OBVIOUS
  <2>2. m \in Nat /\ q < m
    BY <1>2, <2>1 DEF CountIs
  <2>3. q * n + l <= Len(s) /\ q * n \in Nat
    BY <2>2, TimesFacts DEF CountIs
  <2>4. PICK x \in Nat : x = q * n + l /\ x \in 1 .. Len(s)
    BY <2>3
  <2>5. e[i] = s[x]
    BY <1>3, <2>1, <2>4
  <2> QED BY <2>1, <2>4, <2>5
<1>5. e \in Seq(S) /\ Len(e) = d
  <2>1. e \in [1 .. d -> S]
    BY <1>3, <1>4
  <2> QED BY <2>1
<1> QED BY <1>1, <1>2, <1>4, <1>5 DEF NthOf

LEMMA NthNone == \A s, n, l : \A a \in Nat : EveryNth(s, n, l, a, a) = << >>
<1> SUFFICES ASSUME NEW s, NEW n, NEW l, NEW a \in Nat PROVE EveryNth(s, n, l, a, a) = << >>
  OBVIOUS
<1>1. 1 .. (a - a) = {}
  OBVIOUS
<1> QED BY <1>1 DEF EveryNth

LEMMA NthMore ==
  ASSUME NEW S, NEW s \in Seq(S), NEW n \in Nat, n > 0, NEW l \in 1 .. n, NEW m, CountIs(Len(s), n, l, m),
         NEW a \in Nat, NEW b \in Nat, a <= b, b < m
  PROVE  /\ b * n + l \in DOMAIN s
         /\ Append(EveryNth(s, n, l, a, b), s[b * n + l]) = EveryNth(s, n, l, a, b + 1)
<1>1. PICK x \in Nat : x = b * n + l /\ x \in DOMAIN s
  <2>1. b * n \in Nat /\ b * n + l <= Len(s)
    BY TimesFacts DEF CountIs
  <2>2. b * n + l \in Nat /\ 1 <= b * n + l
    BY <2>1
  <2> QED BY <2>1, <2>2
<1>2. m \in Nat /\ b <= m /\ b + 1 <= m /\ a <= b + 1
  BY DEF CountIs
<1>3. PICK d \in Nat : d = b - a /\ (b + 1) - a = d + 1
  OBVIOUS
<1>4. PICK e \in Seq(S) : e = EveryNth(s, n, l, a, b) /\ Len(e) = d /\ \A i \in 1 .. d : e[i] = s[(a + i - 1) * n + l]
  <2>1. NthOf(EveryNth(s, n, l, a, b), S, s, n, l, a, b)
    BY <1>2, NthType
  <2> QED BY <1>3, <2>1 DEF NthOf
<1>5. PICK f \in Seq(S) : /\ f = EveryNth(s, n, l, a, b + 1) /\ Len(f) = d + 1
                         /\ \A i \in 1 .. (d + 1) : f[i] = s[(a + i - 1) * n + l]
  <2>1. b + 1 \in Nat
    OBVIOUS
  <2>2. NthOf(EveryNth(s, n, l, a, b + 1), S, s, n, l, a, b + 1)
    BY <1>2, <2>1, NthType
  <2> QED BY <1>3, <2>2 DEF NthOf
<1>6. PICK y \in S : y = s[x]
  BY <1>1
<1>7. /\ Append(e, y) \in Seq(S) /\ Len(Append(e, y)) = d + 1 /\ Append(e, y)[d + 1] = y
      /\ \A i \in 1 .. d : Append(e, y)[i] = e[i]
  BY <1>4
<1>8. \A i \in 1 .. (d + 1) : Append(e, y)[i] = f[i]
  <2> SUFFICES ASSUME NEW i \in 1 .. (d + 1) PROVE Append(e, y)[i] = f[i]
    OBVIOUS
  <2>1. CASE i = d + 1
    <3>1. a + i - 1 = b
      BY <1>3, <2>1
    <3>2. f[i] = s[b * n + l]
      BY <1>5, <3>1
    <3> QED BY <1>1, <1>6, <1>7, <2>1, <3>2
  <2>2. CASE i # d + 1
    <3>1. i \in 1 .. d
      BY <2>2
    <3> QED BY <1>4, <1>5, <1>7, <3>1
  <2> QED BY <2>1, <2>2
<1>9. Append(e, y) = f
  <2>1. PICK h \in Seq(S) : h = Append(e, y)
    BY <1>7
  <2>2. PICK c \in Nat : c = d + 1
    OBVIOUS
  <2>3. Len(h) = c /\ Len(f) = c /\ \A i \in 1 .. c : h[i] = f[i]
    BY <1>5, <1>7, <1>8, <2>1, <2>2
  <2>4. h = f
    BY <2>3, SameSequence
  <2> QED BY <2>1, <2>4
<1> QED BY <1>1, <1>4, <1>5, <1>6, <1>9

LEMMA NthLess ==
  ASSUME NEW S, NEW s \in Seq(S), NEW n \in Nat, n > 0, NEW l \in 1 .. n, NEW m, CountIs(Len(s), n, l, m),
         NEW a \in Nat, NEW b \in Nat, a < b, b <= m
  PROVE  /\ a * n + l \in DOMAIN s
         /\ EveryNth(s, n, l, a, b) # << >> /\ Head(EveryNth(s, n, l, a, b)) = s[a * n + l]
         /\ Tail(EveryNth(s, n, l, a, b)) = EveryNth(s, n, l, a + 1, b)
<1>1. a * n + l \in DOMAIN s
  <2>1. m \in Nat /\ a < m
    BY DEF CountIs
  <2>2. a * n \in Nat /\ a * n + l <= Len(s)
    BY <2>1, TimesFacts DEF CountIs
  <2>3. a * n + l \in Nat /\ 1 <= a * n + l
    BY <2>2
  <2> QED BY <2>2, <2>3
<1>2. PICK d \in Nat : d = b - a /\ d # 0 /\ b - (a + 1) = d - 1
  OBVIOUS
<1>3. PICK e \in Seq(S) : e = EveryNth(s, n, l, a, b) /\ Len(e) = d /\ \A i \in 1 .. d : e[i] = s[(a + i - 1) * n + l]
  <2>1. NthOf(EveryNth(s, n, l, a, b), S, s, n, l, a, b)
    <3>1. a <= b
      OBVIOUS
    <3> QED BY <3>1, NthType
  <2> QED BY <1>2, <2>1 DEF NthOf
<1>4. PICK f \in Seq(S) : /\ f = EveryNth(s, n, l, a + 1, b) /\ Len(f) = d - 1
                         /\ \A i \in 1 .. (d - 1) : f[i] = s[((a + 1) + i - 1) * n + l]
  <2>1. a + 1 \in Nat /\ a + 1 <= b
    OBVIOUS
  <2>2. NthOf(EveryNth(s, n, l, a + 1, b), S, s, n, l, a + 1, b)
    BY <2>1, NthType
  <2> QED BY <1>2, <2>2 DEF NthOf
<1>5. e # << >> /\ Head(e) = e[1] /\ e[1] = s[a * n + l]
  <2>1. 1 \in 1 .. d /\ a + 1 - 1 = a
    BY <1>2
  <2>2. e[1] = s[a * n + l]
    BY <1>3, <2>1
  <2> QED BY <1>2, <1>3, <2>2
<1>6. \A i \in 1 .. Len(f) : f[i] = e[i + 1]
  <2> SUFFICES ASSUME NEW i \in 1 .. (d - 1) PROVE f[i] = e[i + 1]
    BY <1>4
  <2>1. i + 1 \in 1 .. d /\ (a + 1) + i - 1 = a + (i + 1) - 1
    BY <1>2
  <2> QED BY <1>3, <1>4, <2>1
<1>7. Len(f) = Len(e) - 1
  BY <1>3, <1>4
<1>8. f = Tail(e)
  BY <1>5, <1>6, <1>7, TailIs
<1> QED BY <1>1, <1>3, <1>4, <1>5, <1>8

-----------------------------------------------------------------------------
(* The merge *)

\* The reports in D joined to the first one, k of them, one after the other.
InOrder(first, D, n, g) ==
    g = [k \in 0 .. n |-> IF k = 0 THEN first ELSE Join(g[k - 1], D[k])]

\* The turns of the merge.
MergeTurns(lanes, first, n, g) ==
    g = [k \in 0 .. n |-> IF k = 0 THEN [lanes |-> lanes, merged |-> first]
                          ELSE TakeSegment(g[k - 1].lanes, k, g[k - 1].merged)]

LEMMA InOrderExists ==
  ASSUME NEW first, NEW D, NEW n \in Nat
  PROVE  \E g : InOrder(first, D, n, g)
<1> DEFINE Bad == {k \in 1 .. n : ~ \E g : InOrder(first, D, k, g)}
<1>1. \E g : InOrder(first, D, 0, g)
  <2> PICK g : g = [k \in 0 .. 0 |-> first]
    OBVIOUS
  <2>1. 0 .. 0 = {0}
    OBVIOUS
  <2> QED BY <2>1 DEF InOrder
<1>2. ASSUME NEW k \in Nat, NEW g, InOrder(first, D, k, g) PROVE \E h : InOrder(first, D, k + 1, h)
  <2> PICK h : h = [i \in 0 .. (k + 1) |-> IF i = k + 1 THEN Join(g[k], D[i]) ELSE g[i]]
    OBVIOUS
  <2>1. \A i \in 0 .. k : g[i] = IF i = 0 THEN first ELSE Join(g[i - 1], D[i])
    BY <1>2 DEF InOrder
  <2>2. \A i \in 0 .. k : h[i] = g[i]
    OBVIOUS
  <2>3. ASSUME NEW i \in 0 .. (k + 1)
        PROVE  h[i] = IF i = 0 THEN first ELSE Join(h[i - 1], D[i])
    <3>1. CASE i = k + 1
      <4>1. h[i] = Join(g[k], D[i]) /\ i # 0 /\ i - 1 = k /\ k \in 0 .. k
        BY <3>1
      <4> QED BY <2>2, <4>1
    <3>2. CASE i # k + 1
      <4>1. i \in 0 .. k /\ (i # 0 => i - 1 \in 0 .. k)
        BY <3>2
      <4> QED BY <2>1, <2>2, <4>1
    <3> QED BY <3>1, <3>2
  <2>4. InOrder(first, D, k + 1, h)
    BY <2>3 DEF InOrder
  <2> QED BY <2>4
<1>3. Bad = {}
  <2> SUFFICES ASSUME Bad # {} PROVE FALSE
    OBVIOUS
  <2>1. PICK m \in Bad : \A x \in Bad : ~(x < m)
    BY LeastNumber
  <2>2. m \in 1 .. n /\ m - 1 \in Nat /\ (m - 1) + 1 = m
    OBVIOUS
  <2>3. \E g : InOrder(first, D, m - 1, g)
    <3>1. CASE m = 1
      BY <1>1, <3>1
    <3>2. CASE m # 1
      <4>1. m - 1 \in 1 .. n /\ m - 1 < m
        BY <2>2, <3>2
      <4> QED BY <2>1, <4>1
    <3> QED BY <3>1, <3>2
  <2>4. \E g : InOrder(first, D, m, g)
    BY <1>2, <2>2, <2>3
  <2> QED BY <2>4
<1> QED
  <2>1. CASE n = 0
    BY <1>1, <2>1
  <2>2. CASE n # 0
    <3>1. n \in 1 .. n
      BY <2>2
    <3> QED BY <1>3, <3>1
  <2> QED BY <2>1, <2>2

LEMMA MergeTurnsExist ==
  ASSUME NEW lanes, NEW first, NEW n \in Nat
  PROVE  \E g : MergeTurns(lanes, first, n, g)
<1> DEFINE Bad == {k \in 1 .. n : ~ \E g : MergeTurns(lanes, first, k, g)}
<1>0. PICK start : start = [lanes |-> lanes, merged |-> first]
  OBVIOUS
<1>1. \E g : MergeTurns(lanes, first, 0, g)
  <2> PICK g : g = [k \in 0 .. 0 |-> start]
    OBVIOUS
  <2>1. 0 .. 0 = {0}
    OBVIOUS
  <2> QED BY <1>0, <2>1 DEF MergeTurns
<1>2. ASSUME NEW k \in Nat, NEW g, MergeTurns(lanes, first, k, g)
      PROVE  \E h : MergeTurns(lanes, first, k + 1, h)
  <2>0. PICK last : last = TakeSegment(g[k].lanes, k + 1, g[k].merged)
    OBVIOUS
  <2> PICK h : h = [i \in 0 .. (k + 1) |-> IF i = k + 1 THEN last ELSE g[i]]
    OBVIOUS
  <2>1. \A i \in 0 .. k : g[i] = IF i = 0 THEN start ELSE TakeSegment(g[i - 1].lanes, i, g[i - 1].merged)
    BY <1>0, <1>2 DEF MergeTurns
  <2>2. \A i \in 0 .. k : h[i] = g[i]
    OBVIOUS
  <2>3. ASSUME NEW i \in 0 .. (k + 1)
        PROVE  h[i] = IF i = 0 THEN start ELSE TakeSegment(h[i - 1].lanes, i, h[i - 1].merged)
    <3>1. CASE i = k + 1
      <4>1. h[i] = last /\ i # 0 /\ i - 1 = k /\ k \in 0 .. k
        BY <3>1
      <4>2. h[i - 1] = g[k]
        BY <2>2, <4>1
      <4> QED BY <2>0, <3>1, <4>1, <4>2
    <3>2. CASE i # k + 1
      <4>1. i \in 0 .. k /\ (i # 0 => i - 1 \in 0 .. k)
        BY <3>2
      <4>2. h[i] = g[i] /\ (i # 0 => h[i - 1] = g[i - 1])
        BY <2>2, <4>1
      <4> QED BY <2>1, <4>1, <4>2
    <3> QED BY <3>1, <3>2
  <2>4. MergeTurns(lanes, first, k + 1, h)
    BY <1>0, <2>3 DEF MergeTurns
  <2> QED BY <2>4
<1>3. Bad = {}
  <2> SUFFICES ASSUME Bad # {} PROVE FALSE
    OBVIOUS
  <2>1. PICK m \in Bad : \A x \in Bad : ~(x < m)
    BY LeastNumber
  <2>2. m \in 1 .. n /\ m - 1 \in Nat /\ (m - 1) + 1 = m
    OBVIOUS
  <2>3. \E g : MergeTurns(lanes, first, m - 1, g)
    <3>1. CASE m = 1
      BY <1>1, <3>1
    <3>2. CASE m # 1
      <4>1. m - 1 \in 1 .. n /\ m - 1 < m
        BY <2>2, <3>2
      <4> QED BY <2>1, <4>1
    <3> QED BY <3>1, <3>2
  <2>4. \E g : MergeTurns(lanes, first, m, g)
    BY <1>2, <2>2, <2>3
  <2> QED BY <2>4
<1> QED
  <2>1. CASE n = 0
    BY <1>1, <2>1
  <2>2. CASE n # 0
    <3>1. n \in 1 .. n
      BY <2>2
    <3> QED BY <1>3, <3>1
  <2> QED BY <2>1, <2>2

LEMMA MergeIs ==
  ASSUME NEW lanes, NEW first, NEW n \in Nat
  PROVE  \E g : MergeTurns(lanes, first, n, g) /\ MergeSegments(lanes, n, first) = g[n].merged
<1> DEFINE g == CHOOSE h : MergeTurns(lanes, first, n, h)
<1>1. MergeTurns(lanes, first, n, g)
  BY MergeTurnsExist
<1>2. MergeSegments(lanes, n, first) = g[n].merged
  BY DEF MergeSegments, MergeTurns
<1> HIDE DEF g
<1> QED BY <1>1, <1>2

\* What every lane still carries after k turns: those of its tasks that come after k.
AtTurn(lanes, D, n, k) ==
    /\ lanes \in Seq(LaneRecords) /\ Len(lanes) = n
    /\ \A l \in 1 .. n : \E a, m : /\ CountIs(k, n, l, a) /\ CountIs(Len(D), n, l, m)
                                 /\ Carries(lanes[l], EveryNth(D, n, l, a, m))

LEMMA CountGrows ==
  ASSUME NEW n \in Nat, n > 0, NEW l \in 1 .. n, NEW k \in Nat, NEW j \in Nat, k <= j,
         NEW a, CountIs(k, n, l, a), NEW m, CountIs(j, n, l, m)
  PROVE  a \in Nat /\ m \in Nat /\ a <= m
<1>1. a \in Nat /\ m \in Nat
  BY DEF CountIs
<1>2. ~(m < a)
  <2> SUFFICES ASSUME m < a PROVE FALSE
    OBVIOUS
  <2>1. m * n + l <= k /\ m * n \in Nat
    BY <1>1, TimesFacts DEF CountIs
  <2>2. m * n + l <= j
    BY <2>1
  <2>3. m < m
    BY <1>1, <2>2 DEF CountIs
  <2> QED BY <1>1, <2>3
<1> QED BY <1>1, <1>2

JoinsNext(turn, D, n, k, merged) ==
    turn.merged = Join(merged, D[k + 1]) /\ AtTurn(turn.lanes, D, n, k + 1)

LEMMA MergeTurn ==
  ASSUME NEW D \in Seq(Reports), NEW n \in Nat, n > 0, NEW k \in Nat, k < Len(D),
         NEW lanes, AtTurn(lanes, D, n, k), NEW merged \in Reports
  PROVE  JoinsNext(TakeSegment(lanes, k + 1, merged), D, n, k, merged)
<1>1. lanes \in Seq(LaneRecords) /\ Len(lanes) = n /\ DOMAIN lanes = 1 .. n
  BY DEF AtTurn
<1>2. PICK l \in 1 .. n : l = 1 + (k % n)
  BY RemainderFacts
<1>3. PICK a, m : /\ CountIs(k, n, l, a) /\ CountIs(Len(D), n, l, m)
                 /\ Carries(lanes[l], EveryNth(D, n, l, a, m))
  BY DEF AtTurn
<1>4. Len(D) \in Nat /\ k + 1 \in Nat /\ k + 1 <= Len(D)
  OBVIOUS
<1>5. k + 1 = a * n + l /\ CountIs(k + 1, n, l, a + 1)
  BY <1>2, <1>3, CountNext
<1>6. a \in Nat /\ m \in Nat /\ a + 1 <= m
  <2>1. a \in Nat /\ m \in Nat /\ a + 1 <= m
    BY <1>3, <1>4, <1>5, CountGrows DEF CountIs
  <2> QED BY <2>1
<1>7. PICK P \in Seq(Reports) : /\ P = EveryNth(D, n, l, a, m) /\ P # << >> /\ Head(P) = D[k + 1]
                               /\ Tail(P) = EveryNth(D, n, l, a + 1, m)
  <2>1. a <= m /\ a < m
    BY <1>6
  <2>2. NthOf(EveryNth(D, n, l, a, m), Reports, D, n, l, a, m)
    BY <1>3, <1>6, <2>1, NthType
  <2>3. /\ EveryNth(D, n, l, a, m) # << >> /\ Head(EveryNth(D, n, l, a, m)) = D[a * n + l]
        /\ Tail(EveryNth(D, n, l, a, m)) = EveryNth(D, n, l, a + 1, m)
    BY <1>3, <1>6, <2>1, NthLess
  <2> QED BY <1>5, <2>2, <2>3 DEF NthOf
<1>8. PICK j \in Nat \ {0} : j = k + 1 /\ l = 1 + ((j - 1) % Len(lanes)) /\ l \in DOMAIN lanes
  BY <1>1, <1>2
<1>9. PICK turn : turn = TakeSegment(lanes, j, merged)
  OBVIOUS
<1>t. /\ turn.merged = Join(merged, Head(P))
      /\ turn.lanes \in Seq(LaneRecords) /\ Len(turn.lanes) = Len(lanes)
      /\ Carries(turn.lanes[l], Tail(P))
      /\ \A i \in DOMAIN lanes : i # l => turn.lanes[i] = lanes[i]
  <2>1. Carries(lanes[l], P)
    BY <1>3, <1>7
  <2>2. TurnTakes(TakeSegment(lanes, j, merged), lanes, merged, P, l)
    BY <1>1, <1>7, <1>8, <2>1, TakeSegmentIs
  <2> QED BY <1>9, <2>2 DEF TurnTakes
<1>10. ASSUME NEW i \in 1 .. n
       PROVE  \E b, c : /\ CountIs(k + 1, n, i, b) /\ CountIs(Len(D), n, i, c)
                        /\ Carries(turn.lanes[i], EveryNth(D, n, i, b, c))
  <2>1. CASE i = l
    BY <1>3, <1>5, <1>7, <1>t, <2>1
  <2>2. CASE i # l
    <3>1. PICK b, c : /\ CountIs(k, n, i, b) /\ CountIs(Len(D), n, i, c)
                     /\ Carries(lanes[i], EveryNth(D, n, i, b, c))
      BY DEF AtTurn
    <3>2. CountIs(k + 1, n, i, b)
      BY <1>2, <2>2, <3>1, CountNext
    <3>3. turn.lanes[i] = lanes[i]
      BY <1>1, <1>t, <2>2
    <3> QED BY <3>1, <3>2, <3>3
  <2> QED BY <2>1, <2>2
<1>11. AtTurn(turn.lanes, D, n, k + 1)
  BY <1>1, <1>t, <1>10 DEF AtTurn
<1> QED BY <1>7, <1>8, <1>9, <1>t, <1>11 DEF JoinsNext

\* The merge joins the reports of the tasks in their order.
LEMMA MergeInOrder ==
  ASSUME NEW D \in Seq(Reports), NEW n \in Nat, n > 0, NEW lanes, AtTurn(lanes, D, n, 0),
         NEW first \in Reports, NEW g, InOrder(first, D, Len(D), g)
  PROVE  MergeSegments(lanes, Len(D), first) = g[Len(D)]
<1>1. PICK N \in Nat : N = Len(D)
  OBVIOUS
<1>2. PICK h : MergeTurns(lanes, first, N, h) /\ MergeSegments(lanes, N, first) = h[N].merged
  BY MergeIs
<1> DEFINE Good(k) == h[k].merged = g[k] /\ g[k] \in Reports /\ AtTurn(h[k].lanes, D, n, k)
           Bad == {k \in 1 .. N : ~Good(k)}
<1>3. Good(0)
  <2>1. 0 \in 0 .. N
    OBVIOUS
  <2>2. h[0] = [lanes |-> lanes, merged |-> first]
    BY <1>2, <2>1 DEF MergeTurns
  <2>3. g[0] = first
    BY <1>1, <2>1 DEF InOrder
  <2> QED BY <2>2, <2>3
<1>4. ASSUME NEW k \in Nat, k < N, Good(k) PROVE Good(k + 1)
  <2>1. k + 1 \in 0 .. N /\ k + 1 # 0 /\ (k + 1) - 1 = k /\ k + 1 \in DOMAIN D
    BY <1>1, <1>4
  <2>2. PICK a \in Reports : a = g[k]
    BY <1>4
  <2>3. PICK L : L = h[k].lanes
    OBVIOUS
  <2>4. AtTurn(L, D, n, k) /\ h[k].merged = a
    BY <1>4, <2>2, <2>3
  <2>5. PICK b \in Reports : b = D[k + 1]
    BY <2>1
  <2>6. PICK turn : turn = TakeSegment(L, k + 1, a)
    OBVIOUS
  <2>7. turn.merged = Join(a, b) /\ AtTurn(turn.lanes, D, n, k + 1)
    <3>1. k < Len(D)
      BY <1>1, <1>4
    <3>2. JoinsNext(TakeSegment(L, k + 1, a), D, n, k, a)
      BY <2>4, <3>1, MergeTurn
    <3> QED BY <2>5, <2>6, <3>2 DEF JoinsNext
  <2>8. h[k + 1] = turn
    <3>1. h[k + 1] = TakeSegment(h[k].lanes, k + 1, h[k].merged)
      BY <1>2, <2>1 DEF MergeTurns
    <3> QED BY <2>3, <2>4, <2>6, <3>1
  <2>9. g[k + 1] = Join(a, b)
    <3>1. g[k + 1] = Join(g[k], D[k + 1])
      BY <1>1, <2>1 DEF InOrder
    <3> QED BY <2>2, <2>5, <3>1
  <2>10. Join(a, b) \in Reports
    BY JoinFacts
  <2> QED BY <2>7, <2>8, <2>9, <2>10
<1>5. Bad = {}
  <2> SUFFICES ASSUME Bad # {} PROVE FALSE
    OBVIOUS
  <2>1. PICK m \in Bad : \A x \in Bad : ~(x < m)
    BY LeastNumber
  <2>2. m \in 1 .. N /\ ~Good(m)
    OBVIOUS
  <2>3. PICK k \in Nat : k = m - 1 /\ k < N /\ k + 1 = m
    BY <2>2
  <2>4. Good(k)
    <3>1. CASE k = 0
      BY <1>3, <3>1
    <3>2. CASE k # 0
      <4>1. k \in 1 .. N /\ k < m
        BY <2>2, <2>3, <3>2
      <4> QED BY <2>1, <4>1
    <3> QED BY <3>1, <3>2
  <2> QED BY <1>4, <2>2, <2>3, <2>4
<1>6. Good(N)
  <2>1. CASE N = 0
    BY <1>3, <2>1
  <2>2. CASE N # 0
    <3>1. N \in 1 .. N
      BY <2>2
    <3> QED BY <1>5, <3>1
  <2> QED BY <2>1, <2>2
<1> QED BY <1>1, <1>2, <1>6

-----------------------------------------------------------------------------
(* The lanes: what each has done and has left to do *)

\* Lane l of n has done the first tasks of its share, and has the others left.
LaneFollows(lane, T, D, n, l) ==
    \E d, m : /\ d \in Nat /\ CountIs(Len(T), n, l, m) /\ d <= m
              /\ lane.tasks = EveryNth(T, n, l, d, m)
              /\ Carries(lane, EveryNth(D, n, l, 0, d))
              /\ lane.state = "sent" => lane.tasks = << >>

\* What holds of a walk whose tasks have the reports D.
Follows(w, D) ==
    /\ w.phase = "idle" => w.tasks = << >> /\ w.submitted = 0
    /\ w.tasks = << >> => w.lanes = << >> /\ w.phase \in {"idle", "returned"}
    /\ w.tasks # << >> =>
           /\ w.lanes \in Seq(LaneRecords) /\ Len(w.lanes) > 0 /\ w.submitted \in Nat
           /\ w.phase = "submitting" => w.submitted < Len(w.lanes)
           /\ \A l \in 1 .. Len(w.lanes) : LaneFollows(w.lanes[l], w.tasks, D, Len(w.lanes), l)

LEMMA StateOfLane ==
  ASSUME NEW lane \in LaneRecords, NEW s \in LaneStates, NEW P
  PROVE  /\ [lane EXCEPT !.state = s] \in LaneRecords /\ [lane EXCEPT !.state = s].state = s
         /\ [lane EXCEPT !.state = s].tasks = lane.tasks
         /\ Carries(lane, P) => Carries([lane EXCEPT !.state = s], P)
<1>1. PICK v : v = [lane EXCEPT !.state = s]
  OBVIOUS
<1>2. /\ v \in LaneRecords /\ v.state = s /\ v.tasks = lane.tasks
      /\ v.report = lane.report /\ v.segments = lane.segments
  BY <1>1 DEF LaneRecords
<1>3. Carries(lane, P) => Carries(v, P)
  BY <1>2 DEF Carries
<1> QED BY <1>1, <1>2, <1>3

\* A lane that enters another state, with nothing left when it has sent.
LEMMA LaneTurns ==
  ASSUME NEW T, NEW D, NEW n, NEW l, NEW lane \in LaneRecords, LaneFollows(lane, T, D, n, l),
         NEW s \in LaneStates, s = "sent" => lane.tasks = << >>
  PROVE  LaneFollows([lane EXCEPT !.state = s], T, D, n, l)
<1>1. PICK d, m : /\ d \in Nat /\ CountIs(Len(T), n, l, m) /\ d <= m
                  /\ lane.tasks = EveryNth(T, n, l, d, m)
                  /\ Carries(lane, EveryNth(D, n, l, 0, d))
  BY DEF LaneFollows
<1>2. PICK v : v = [lane EXCEPT !.state = s]
  OBVIOUS
<1>3. PICK P : P = EveryNth(D, n, l, 0, d)
  OBVIOUS
<1>4. v.state = s /\ v.tasks = lane.tasks /\ Carries(v, P)
  <2>1. Carries(lane, P)
    BY <1>1, <1>3
  <2> QED BY <1>2, <2>1, StateOfLane
<1>5. LaneFollows(v, T, D, n, l)
  BY <1>1, <1>3, <1>4 DEF LaneFollows
<1> QED BY <1>2, <1>5

\* The reports of a list of tasks.
Reported(D, T) == D \in Seq(Reports) /\ Len(D) = Len(T)

\* A lane that does the first task it has left.
LEMMA LaneRuns ==
  ASSUME NEW T \in Seq(Tasks), NEW D, Reported(D, T), NEW n \in Nat, n > 0, NEW l \in 1 .. n,
         NEW lane \in LaneRecords, LaneFollows(lane, T, D, n, l), lane.tasks # << >>, lane.state # "sent"
  PROVE  \E i \in DOMAIN T : /\ Head(lane.tasks) = T[i]
                             /\ WithTask(lane, D[i]) \in LaneRecords
                             /\ LaneFollows(WithTask(lane, D[i]), T, D, n, l)
<1>1. PICK d, m : /\ d \in Nat /\ CountIs(Len(T), n, l, m) /\ d <= m
                  /\ lane.tasks = EveryNth(T, n, l, d, m)
                  /\ Carries(lane, EveryNth(D, n, l, 0, d))
  BY DEF LaneFollows
<1>2. m \in Nat
  BY <1>1 DEF CountIs
<1>3. d < m
  <2>1. d # m
    BY <1>1, NthNone
  <2> QED BY <1>1, <1>2, <2>1
<1>4. PICK i \in DOMAIN T : /\ i = d * n + l /\ Head(lane.tasks) = T[i]
                           /\ Tail(lane.tasks) = EveryNth(T, n, l, d + 1, m)
  <2>1. /\ d * n + l \in DOMAIN T /\ Head(EveryNth(T, n, l, d, m)) = T[d * n + l]
        /\ Tail(EveryNth(T, n, l, d, m)) = EveryNth(T, n, l, d + 1, m)
    BY <1>1, <1>2, <1>3, NthLess
  <2> QED BY <1>1, <2>1
<1>5. D \in Seq(Reports) /\ Len(D) = Len(T)
  BY DEF Reported
<1>6. CountIs(Len(D), n, l, m)
  BY <1>1, <1>5
<1>7. PICK b \in Reports : b = D[i]
  BY <1>4, <1>5
<1>8. PICK P \in Seq(Reports) : P = EveryNth(D, n, l, 0, d)
  <2>1. 0 <= d
    BY <1>1
  <2>2. NthOf(EveryNth(D, n, l, 0, d), Reports, D, n, l, 0, d)
    BY <1>1, <1>5, <1>6, <2>1, NthType
  <2> QED BY <2>2 DEF NthOf
<1>9. Append(P, b) = EveryNth(D, n, l, 0, d + 1)
  <2>1. 0 <= d
    BY <1>1
  <2>2. Append(EveryNth(D, n, l, 0, d), D[d * n + l]) = EveryNth(D, n, l, 0, d + 1)
    BY <1>1, <1>3, <1>5, <1>6, <2>1, NthMore
  <2> QED BY <1>4, <1>7, <1>8, <2>2
<1>10. PICK v : v = WithTask(lane, b)
  OBVIOUS
<1>11. /\ v \in LaneRecords /\ v.state = lane.state /\ v.tasks = Tail(lane.tasks)
       /\ Carries(v, Append(P, b))
  <2>1. Carries(lane, P)
    BY <1>1, <1>8
  <2> QED BY <1>10, <2>1, CarriesMore
<1>12. LaneFollows(v, T, D, n, l)
  <2>1. d + 1 \in Nat /\ d + 1 <= m
    BY <1>1, <1>2, <1>3
  <2>2. v.tasks = EveryNth(T, n, l, d + 1, m) /\ v.state # "sent"
    BY <1>4, <1>11
  <2>3. Carries(v, EveryNth(D, n, l, 0, d + 1))
    BY <1>9, <1>11
  <2> QED BY <1>1, <2>1, <2>2, <2>3 DEF LaneFollows
<1> QED BY <1>4, <1>7, <1>10, <1>11, <1>12

\* The number of lanes.
LEMMA WorkersFacts ==
  ASSUME caller \in Callers, NEW n \in Nat
  PROVE  parallel_worker_count(n) \in Nat /\ parallel_worker_count(n) > 0
<1>1. caller.parallelism \in Nat /\ caller.available \in Nat /\ caller.options \in Options
  BY RootsAssumption
<1>2. \A a, b \in Nat : AtMost(a, b) \in Nat
  BY DEF AtMost
<1>3. \A a \in Nat : AtLeastOne(a) \in Nat /\ AtLeastOne(a) > 0
  BY DEF AtLeastOne
<1>4. options.max_open \in Nat
  <2>1. options \in Options
    BY <1>1, NormalizedFacts DEF options
  <2> QED BY <2>1 DEF Options
<1>5. requested_workers \in Nat
  <2>1. PICK x : x = IF caller.parallelism = 0 THEN AtMost(caller.available, DefaultTraversalWorkers)
                     ELSE AtMost(caller.parallelism, caller.available)
    OBVIOUS
  <2>2. x \in Nat
    BY <1>1, <1>2, <2>1 DEF DefaultTraversalWorkers
  <2>3. AtMost(x, options.max_open) \in Nat
    BY <1>2, <1>4, <2>2
  <2>4. requested_workers = AtLeastOne(AtMost(x, options.max_open))
    BY <2>1 DEF requested_workers
  <2> QED BY <1>3, <2>3, <2>4
<1>6. AtMost(requested_workers, n) \in Nat
  BY <1>2, <1>5
<1> QED BY <1>3, <1>6 DEF parallel_worker_count

\* The lanes a list of tasks is dealt to: the share of each is every n-th task.
LEMMA LanesFollow ==
  ASSUME caller \in Callers, NEW T \in Seq(Tasks), NEW D
  PROVE  /\ Lanes(T) \in Seq(LaneRecords) /\ Len(Lanes(T)) > 0
         /\ \A l \in 1 .. Len(Lanes(T)) : LaneFollows(Lanes(T)[l], T, D, Len(Lanes(T)), l)
<1>1. PICK n \in Nat : n = parallel_worker_count(Len(T)) /\ n > 0
  BY WorkersFacts
<1>2. PICK k \in Nat : k = Len(T) /\ DOMAIN T = 1 .. k
  OBVIOUS
<1>3. PICK z : z = Lanes(T)
  OBVIOUS
<1>4. z = [l \in 1 .. n |-> [state    |-> "waiting",
                            tasks    |-> [i \in 1 .. Cardinality({j \in DOMAIN T : (j - 1) % n = l - 1})
                                              |-> T[(i - 1) * n + l]],
                            report   |-> NoReport,
                            segments |-> << >>]]
  BY <1>1, <1>3 DEF Lanes
<1>5. ASSUME NEW l \in 1 .. n PROVE z[l] \in LaneRecords /\ LaneFollows(z[l], T, D, n, l)
  <2>1. PICK m \in Nat : CountIs(k, n, l, m)
    BY <1>1, CountExists DEF CountIs
  <2>2. Cardinality({j \in 1 .. k : (j - 1) % n = l - 1}) = m
    BY <1>1, <2>1, CountIsSize
  <2>3. PICK e : e = EveryNth(T, n, l, 0, m)
    OBVIOUS
  <2>4. e = [i \in 1 .. m |-> T[(i - 1) * n + l]]
    <3>1. m - 0 = m /\ \A i \in 1 .. m : 0 + i - 1 = i - 1
      OBVIOUS
    <3> QED BY <2>3, <3>1 DEF EveryNth
  <2>5. z[l] = [state |-> "waiting", tasks |-> e, report |-> NoReport, segments |-> << >>]
    BY <1>2, <1>4, <2>2, <2>4
  <2>6. e \in Seq(Tasks)
    <3>1. 0 <= m /\ m <= m
      OBVIOUS
    <3>2. NthOf(EveryNth(T, n, l, 0, m), Tasks, T, n, l, 0, m)
      BY <1>1, <1>2, <2>1, <3>1, NthType
    <3> QED BY <2>3, <3>2 DEF NthOf
  <2>7. NoReport \in Reports /\ << >> \in Seq(Segments) /\ "waiting" \in LaneStates /\ "waiting" # "sent"
    BY ReportFacts DEF LaneStates
  <2>8. PICK v \in LaneRecords : /\ v = z[l] /\ v.state # "sent" /\ v.tasks = e
                                 /\ v.report = NoReport /\ v.segments = << >>
    <3>1. PICK q \in Seq(Segments), w \in LaneStates, x \in Reports : q = << >> /\ w = "waiting" /\ x = NoReport
      BY <2>7
    <3>2. PICK v : v = [state |-> w, tasks |-> e, report |-> x, segments |-> q]
      OBVIOUS
    <3>3. v \in LaneRecords /\ v.state = w /\ v.tasks = e /\ v.report = x /\ v.segments = q
      BY <2>6, <3>2 DEF LaneRecords
    <3> QED BY <2>5, <2>7, <3>1, <3>2, <3>3
  <2>9. Carries(v, << >>)
    BY <2>8, CarriesNothing
  <2>10. EveryNth(D, n, l, 0, 0) = << >>
    BY NthNone
  <2>11. LaneFollows(v, T, D, n, l)
    <3>1. 0 \in Nat /\ 0 <= m
      OBVIOUS
    <3> QED BY <1>2, <2>1, <2>3, <2>8, <2>9, <2>10, <3>1 DEF LaneFollows
  <2> QED BY <2>8, <2>11
<1>6. z \in Seq(LaneRecords) /\ Len(z) = n
  <2>1. z \in [1 .. n -> LaneRecords]
    BY <1>4, <1>5
  <2> QED BY <2>1
<1> QED BY <1>1, <1>3, <1>5, <1>6

\* When every lane has sent, its segments are the reports of its whole share.
LEMMA LanesAreDone ==
  ASSUME NEW T \in Seq(Tasks), NEW D, Reported(D, T), NEW lanes \in Seq(LaneRecords), NEW n \in Nat,
         n > 0, Len(lanes) = n, \A l \in 1 .. n : LaneFollows(lanes[l], T, D, n, l),
         \A l \in 1 .. n : lanes[l].state = "sent"
  PROVE  AtTurn(lanes, D, n, 0)
<1>1. D \in Seq(Reports) /\ Len(D) = Len(T)
  BY DEF Reported
<1>2. ASSUME NEW l \in 1 .. n
      PROVE  \E a, m : /\ CountIs(0, n, l, a) /\ CountIs(Len(D), n, l, m)
                       /\ Carries(lanes[l], EveryNth(D, n, l, a, m))
  <2>1. PICK d, m : /\ d \in Nat /\ CountIs(Len(T), n, l, m) /\ d <= m
                    /\ lanes[l].tasks = EveryNth(T, n, l, d, m)
                    /\ Carries(lanes[l], EveryNth(D, n, l, 0, d))
                    /\ lanes[l].tasks = << >>
    BY DEF LaneFollows
  <2>2. m \in Nat
    BY <2>1 DEF CountIs
  <2>3. d = m
    <3> SUFFICES ASSUME d # m PROVE FALSE
      OBVIOUS
    <3>1. d < m /\ m <= m
      BY <2>1, <2>2
    <3>2. EveryNth(T, n, l, d, m) # << >>
      <4>1. CountIs(Len(T), n, l, m) /\ d \in Nat
        BY <2>1
      <4> QED BY <2>2, <3>1, <4>1, NthLess
    <3> QED BY <2>1, <3>2
  <2>4. CountIs(0, n, l, 0)
    <3>1. ASSUME NEW q \in Nat PROVE q < 0 <=> q * n + l <= 0
      <4>1. q * n \in Nat
        BY TimesFacts
      <4> QED BY <4>1
    <3> QED BY <3>1 DEF CountIs
  <2> QED BY <1>1, <2>1, <2>3, <2>4
<1> QED BY <1>2 DEF AtTurn
\* The reports of the tasks of the walk of root r, in task order.
ReportsIn(r) == [k \in DOMAIN walk[r].tasks |-> TaskReport(r, walk[r].tasks[k])]

\* The answer of a walk with all its lanes.
Answers(w, D) ==
    w.phase = "returned" /\ w.tasks # << >> /\ w.submitted = Len(w.lanes) =>
        \A g : InOrder(w.shallow, D, Len(w.tasks), g) => w.result[1] = Finished(g[Len(w.tasks)])

LanesInv ==
    /\ caller \in Callers
    /\ \A r \in Roots : Follows(walk[r], ReportsIn(r)) /\ Answers(walk[r], ReportsIn(r))

LEMMA SameCaller ==
  ASSUME UNCHANGED caller
  PROVE  /\ \A r, t : TaskReport(r, t)' = TaskReport(r, t)
         /\ \A x : Finished(x)' = Finished(x)
<1>1. options' = options
  BY DEF options
<1>2. \A t : LaneOptions(t)' = LaneOptions(t)
  BY <1>1 DEF LaneOptions
<1>4. \A r, t : TaskReport(r, t)' = TaskReport(r, t)
  BY <1>1, <1>2 DEF TaskReport
<1>5. \A x : Finished(x)' = Finished(x)
  BY <1>1 DEF Finished
<1> QED BY <1>4, <1>5

LEMMA ReportsTyped ==
  ASSUME ReportsAreTyped, NEW r \in Roots
  PROVE  /\ walk[r].tasks \in Seq(Tasks) /\ walk[r].shallow \in Reports
         /\ Reported(ReportsIn(r), walk[r].tasks)
<1>1. PICK T \in Seq(Tasks) : T = walk[r].tasks
  BY DEF ReportsAreTyped
<1>2. \A k \in DOMAIN T : TaskReport(r, T[k]) \in Reports
  BY <1>1 DEF ReportsAreTyped
<1>3. PICK D : D = [k \in DOMAIN T |-> TaskReport(r, T[k])]
  OBVIOUS
<1>4. D \in Seq(Reports) /\ Len(D) = Len(T)
  <2>1. PICK n \in Nat : n = Len(T) /\ DOMAIN T = 1 .. n
    OBVIOUS
  <2>2. D \in [1 .. n -> Reports]
    BY <1>2, <1>3, <2>1
  <2> QED BY <2>1, <2>2
<1>5. ReportsIn(r) = D
  BY <1>1, <1>3 DEF ReportsIn
<1> QED BY <1>1, <1>4, <1>5 DEF ReportsAreTyped, Reported

\* One walk is replaced.
LEMMA LanesReplaced ==
  ASSUME WalksInv, LanesInv, NEW r \in Roots, NEW v, walk' = [walk EXCEPT ![r] = v], UNCHANGED caller,
         NEW D, D = [k \in DOMAIN v.tasks |-> TaskReport(r, v.tasks[k])], Follows(v, D), Answers(v, D)
  PROVE  LanesInv'
<1>1. walk'[r] = v /\ \A q \in Roots : q # r => walk'[q] = walk[q]
  BY DEF WalksInv
<1>2. \A q, t : TaskReport(q, t)' = TaskReport(q, t)
  BY SameCaller
<1>3. \A x : Finished(x)' = Finished(x)
  BY SameCaller
<1>4. ASSUME NEW q \in Roots PROVE (Follows(walk[q], ReportsIn(q)) /\ Answers(walk[q], ReportsIn(q)))'
  <2>1. PICK w, E : /\ w = walk'[q] /\ E = [k \in DOMAIN w.tasks |-> TaskReport(q, w.tasks[k])]
                    /\ Follows(w, E) /\ Answers(w, E)
    <3>1. CASE q = r
      BY <1>1, <3>1
    <3>2. CASE q # r
      BY <1>1, <3>2 DEF LanesInv, ReportsIn
    <3> QED BY <3>1, <3>2
  <2>2. ReportsIn(q)' = E
    BY <1>2, <2>1 DEF ReportsIn
  <2>3. Follows(walk[q], ReportsIn(q))'
    <3>1. Follows(walk'[q], ReportsIn(q)')
      BY <2>1, <2>2
    <3> QED BY <3>1 DEF Follows
  <2>4. Answers(walk[q], ReportsIn(q))'
    BY <1>3, <2>1, <2>2 DEF Answers
  <2> QED BY <2>3, <2>4
<1> QED BY <1>4 DEF LanesInv

\* A walk that answers with nothing to deal out.
LEMMA NothingToDeal ==
  ASSUME NEW w, w.tasks = << >>, w.lanes = << >>, w.phase = "returned", NEW D
  PROVE  Follows(w, D) /\ Answers(w, D)
BY DEF Follows, Answers

LEMMA StartWalkLanes ==
  ASSUME WalksInv, LanesInv, ReportsAreTyped', NEW r \in Roots, StartWalk(r)
  PROVE  LanesInv'
<1>1. /\ walk[r].phase = "idle" /\ WalkRecord(walk[r]) /\ walk[r].lanes = << >> /\ walk[r].tasks = << >>
      /\ walk[r].submitted = 0 /\ UNCHANGED caller
  BY DEF WalksInv, WalkSound, StartWalk, LanesInv, Follows
<1>2. PICK first, plan :
        walk' = [walk EXCEPT ![r] =
            IF caller.on_worker THEN Returned(@, collect_serial(r))
            ELSE IF RootError(RootPath[r], Inner(options)) # None
            THEN Returned(@, Err(RootError(RootPath[r], Inner(options))[1]))
            ELSE IF options.abort /\ first.report.errors # <<>>
            THEN Returned(@, Err(Head(first.report.errors)))
            ELSE IF plan.tasks = <<>> THEN Returned(@, Ok(without_stdout(plan.report, options.stdout)))
            ELSE [@ EXCEPT !.phase = "submitting", !.shallow = plan.report, !.tasks = plan.tasks,
                           !.lanes = Lanes(plan.tasks)]]
  BY DEF StartWalk
<1>3. PICK T : T = plan.tasks
  OBVIOUS
<1>4. PICK s : s = [walk[r] EXCEPT !.phase = "submitting", !.shallow = plan.report, !.tasks = T,
                           !.lanes = Lanes(T)]
  OBVIOUS
<1>5. PICK v : /\ walk' = [walk EXCEPT ![r] = v]
              /\ \/ v = s /\ T # << >>
                 \/ \E x : v = Returned(walk[r], x)
  <2>1. PICK e, f, g, h : /\ e = collect_serial(r)
                          /\ f = Err(RootError(RootPath[r], Inner(options))[1])
                          /\ g = Err(Head(first.report.errors))
                          /\ h = Ok(without_stdout(plan.report, options.stdout))
    OBVIOUS
  <2>2. PICK v : v = IF caller.on_worker THEN Returned(walk[r], e)
            ELSE IF RootError(RootPath[r], Inner(options)) # None THEN Returned(walk[r], f)
            ELSE IF options.abort /\ first.report.errors # <<>> THEN Returned(walk[r], g)
            ELSE IF T = <<>> THEN Returned(walk[r], h)
            ELSE s
    OBVIOUS
  <2>3. walk' = [walk EXCEPT ![r] = v]
    BY <1>2, <1>3, <1>4, <2>1, <2>2
  <2>4. (v = s /\ T # << >>) \/ \E x : v = Returned(walk[r], x)
    BY <2>2
  <2> QED BY <2>3, <2>4
<1>6. PICK D : D = [k \in DOMAIN v.tasks |-> TaskReport(r, v.tasks[k])]
  OBVIOUS
<1>7. CASE v = s /\ T # << >>
  <2>1. /\ s.phase = "submitting" /\ s.tasks = T /\ s.lanes = Lanes(T) /\ s.submitted = 0
    <3>1. PICK P, H, U, L, M, Z : walk[r] \in WalksOf(P, H, U, L, M, Z)
      BY <1>1 DEF WalkRecord
    <3> QED BY <1>1, <1>4, <3>1 DEF WalksOf
  <2>2. T \in Seq(Tasks)
    <3>1. walk'[r] = v
      BY <1>5 DEF WalksInv
    <3>2. walk'[r].tasks \in Seq(Tasks)
      BY DEF ReportsAreTyped
    <3> QED BY <1>7, <2>1, <3>1, <3>2
  <2>3. caller \in Callers
    BY DEF LanesInv
  <2>4. PICK z : z = Lanes(T)
    OBVIOUS
  <2>5. /\ z \in Seq(LaneRecords) /\ Len(z) > 0
        /\ \A l \in 1 .. Len(z) : LaneFollows(z[l], T, D, Len(z), l)
    BY <2>2, <2>3, <2>4, LanesFollow
  <2>6. Follows(v, D) /\ Answers(v, D)
    BY <1>7, <2>1, <2>4, <2>5 DEF Follows, Answers
  <2> QED BY <1>1, <1>5, <1>6, <2>6, LanesReplaced
<1>8. CASE \E x : v = Returned(walk[r], x)
  <2>1. v.tasks = << >> /\ v.lanes = << >> /\ v.phase = "returned"
    BY <1>1, <1>8, ReturnedFacts
  <2>2. Follows(v, D) /\ Answers(v, D)
    BY <2>1, NothingToDeal
  <2> QED BY <1>1, <1>5, <1>6, <2>2, LanesReplaced
<1> QED BY <1>5, <1>7, <1>8
\* The lane of a walk that is running.
LEMMA LaneFacts ==
  ASSUME NEW w, NEW D, Follows(w, D), NEW l \in DOMAIN w.lanes
  PROVE  /\ w.tasks # << >> /\ w.lanes \in Seq(LaneRecords) /\ Len(w.lanes) \in Nat /\ Len(w.lanes) > 0
         /\ l \in 1 .. Len(w.lanes) /\ w.lanes[l] \in LaneRecords /\ w.phase # "idle"
         /\ LaneFollows(w.lanes[l], w.tasks, D, Len(w.lanes), l)
BY DEF Follows

\* A walk with one of its lanes replaced.
FollowsOn(v, w, D) == Follows(v, D) /\ Answers(v, D) /\ v.tasks = w.tasks

LEMMA LaneReplaced ==
  ASSUME NEW w, WalkRecord(w), NEW D, Follows(w, D), Answers(w, D), NEW l \in DOMAIN w.lanes,
         NEW lane \in LaneRecords, LaneFollows(lane, w.tasks, D, Len(w.lanes), l),
         NEW v, v = [w EXCEPT !.lanes[l] = lane]
  PROVE  FollowsOn(v, w, D)
<1>1. PICK z : z = [w.lanes EXCEPT ![l] = lane]
  OBVIOUS
<1>2. /\ v.lanes = z /\ v.tasks = w.tasks /\ v.phase = w.phase /\ v.submitted = w.submitted
      /\ v.shallow = w.shallow /\ v.result = w.result
  <2>1. PICK P, H, T, L, U, Z : w \in WalksOf(P, H, T, L, U, Z)
    BY DEF WalkRecord
  <2> QED BY <1>1, <2>1 DEF WalksOf
<1>3. /\ w.tasks # << >> /\ w.lanes \in Seq(LaneRecords) /\ Len(w.lanes) \in Nat
      /\ l \in 1 .. Len(w.lanes) /\ w.phase # "idle"
  BY LaneFacts
<1>4. /\ z \in Seq(LaneRecords) /\ Len(z) = Len(w.lanes) /\ z[l] = lane
      /\ \A i \in 1 .. Len(w.lanes) : i # l => z[i] = w.lanes[i]
  BY <1>1, <1>3
<1>5. ASSUME NEW i \in 1 .. Len(z) PROVE LaneFollows(z[i], w.tasks, D, Len(z), i)
  <2>1. CASE i = l
    BY <1>4, <2>1
  <2>2. CASE i # l
    BY <1>3, <1>4, <2>2 DEF Follows
  <2> QED BY <2>1, <2>2
<1>6. Follows(v, D)
  BY <1>2, <1>3, <1>4, <1>5 DEF Follows
<1>7. Answers(v, D)
  BY <1>2, <1>4 DEF Answers
<1> QED BY <1>2, <1>6, <1>7 DEF FollowsOn

\* What holds of the walk of a root before one of its steps.
LEMMA WalkIsTyped ==
  ASSUME WalksInv, LanesInv, ReportsAreTyped, NEW r \in Roots
  PROVE  \E w, T, D : /\ w = walk[r] /\ T \in Seq(Tasks) /\ T = w.tasks /\ WalkRecord(w) /\ WalkSound(w)
                     /\ D = ReportsIn(r) /\ D = [k \in DOMAIN T |-> TaskReport(r, T[k])] /\ Reported(D, T)
                     /\ w.shallow \in Reports /\ Follows(w, D) /\ Answers(w, D)
<1>1. walk[r].tasks \in Seq(Tasks) /\ walk[r].shallow \in Reports /\ Reported(ReportsIn(r), walk[r].tasks)
  BY ReportsTyped
<1>2. WalkRecord(walk[r]) /\ WalkSound(walk[r])
  BY DEF WalksInv, WalkSound
<1>3. Follows(walk[r], ReportsIn(r)) /\ Answers(walk[r], ReportsIn(r))
  BY DEF LanesInv
<1>4. ReportsIn(r) = [k \in DOMAIN walk[r].tasks |-> TaskReport(r, walk[r].tasks[k])]
  BY DEF ReportsIn
<1> QED BY <1>1, <1>2, <1>3, <1>4

LEMMA LaneStepLanes ==
  ASSUME WalksInv, LanesInv, ReportsAreTyped, NEW r \in Roots, LaneStep(r)
  PROVE  LanesInv'
<1>1. PICK w, T, D :
         /\ w = walk[r] /\ T \in Seq(Tasks) /\ T = w.tasks /\ WalkRecord(w)
         /\ D = ReportsIn(r) /\ D = [k \in DOMAIN T |-> TaskReport(r, T[k])] /\ Reported(D, T)
         /\ Follows(w, D) /\ Answers(w, D)
  BY WalkIsTyped
<1>2. PICK l \in DOMAIN w.lanes : RunTask(r, l) \/ SendReport(r, l)
  BY <1>1 DEF LaneStep
<1>3. PICK n \in Nat : n = Len(w.lanes) /\ n > 0 /\ l \in 1 .. n
  BY <1>1, LaneFacts
<1>4. PICK lane \in LaneRecords : lane = w.lanes[l] /\ LaneFollows(lane, T, D, n, l)
  BY <1>1, <1>3, LaneFacts
<1>5. \E m \in LaneRecords : walk' = [walk EXCEPT ![r].lanes[l] = m] /\ LaneFollows(m, T, D, n, l)
  <2>1. CASE RunTask(r, l)
    <3>1. lane.state = "queued" /\ lane.tasks # << >>
      BY <1>1, <1>4, <2>1 DEF RunTask
    <3>2. PICK i \in DOMAIN T : /\ Head(lane.tasks) = T[i] /\ WithTask(lane, D[i]) \in LaneRecords
                                /\ LaneFollows(WithTask(lane, D[i]), T, D, n, l)
      <4>1. lane.state # "sent"
        BY <3>1
      <4> QED BY <1>1, <1>3, <1>4, <3>1, <4>1, LaneRuns
    <3>3. PICK m \in LaneRecords : m = WithTask(lane, D[i]) /\ LaneFollows(m, T, D, n, l)
      BY <3>2
    <3>4. D[i] = TaskReport(r, Head(lane.tasks))
      BY <1>1, <3>2
    <3>5. walk' = [walk EXCEPT ![r].lanes[l] = m]
      BY <1>1, <1>4, <2>1, <3>3, <3>4 DEF RunTask
    <3> QED BY <3>3, <3>5
  <2>2. CASE SendReport(r, l)
    <3>1. lane.tasks = << >>
      BY <1>1, <1>4, <2>2 DEF SendReport
    <3>2. PICK m : m = [lane EXCEPT !.state = "sent"]
      OBVIOUS
    <3>3. "sent" \in LaneStates
      BY DEF LaneStates
    <3>4. PICK s \in LaneStates : s = "sent"
      BY <3>3
    <3>5. m \in LaneRecords /\ LaneFollows(m, T, D, n, l)
      BY <1>4, <3>1, <3>2, <3>4, StateOfLane, LaneTurns
    <3>6. walk' = [walk EXCEPT ![r].lanes[l] = m]
      BY <1>1, <1>4, <2>2, <3>2 DEF SendReport
    <3> QED BY <3>5, <3>6
  <2> QED BY <1>2, <2>1, <2>2
<1>6. PICK m \in LaneRecords : walk' = [walk EXCEPT ![r].lanes[l] = m] /\ LaneFollows(m, T, D, n, l)
  BY <1>5
<1>7. PICK v : v = [w EXCEPT !.lanes[l] = m]
  OBVIOUS
<1>8. walk' = [walk EXCEPT ![r] = v]
  BY <1>1, <1>6, <1>7
<1>9. Follows(v, D) /\ Answers(v, D) /\ v.tasks = T
  <2>1. LaneFollows(m, w.tasks, D, Len(w.lanes), l)
    BY <1>1, <1>3, <1>6
  <2>2. WalkRecord(w) /\ Follows(w, D) /\ Answers(w, D) /\ T = w.tasks
    BY <1>1
  <2>3. FollowsOn(v, w, D)
    BY <1>7, <2>1, <2>2, LaneReplaced
  <2> QED BY <2>2, <2>3 DEF FollowsOn
<1>10. UNCHANGED caller
  BY <1>2 DEF RunTask, SendReport
<1>11. D = [k \in DOMAIN v.tasks |-> TaskReport(r, v.tasks[k])]
  BY <1>1, <1>9
<1> QED BY <1>8, <1>9, <1>10, <1>11, LanesReplaced

LEMMA CallerStepLanes ==
  ASSUME WalksInv, LanesInv, ReportsAreTyped, NEW r \in Roots, CallerStep(r)
  PROVE  LanesInv'
<1>1. PICK w, T, D :
         /\ w = walk[r] /\ T \in Seq(Tasks) /\ T = w.tasks /\ WalkRecord(w) /\ w.shallow \in Reports
         /\ D = ReportsIn(r) /\ D = [k \in DOMAIN T |-> TaskReport(r, T[k])] /\ Reported(D, T)
         /\ Follows(w, D) /\ Answers(w, D)
  BY WalkIsTyped
<1>2. w.phase \in {"submitting", "collecting"} /\ UNCHANGED caller
  BY <1>1 DEF CallerStep, SubmitLane, RejectLane, MergeLanes
<1>3. T # << >> /\ w.lanes \in Seq(LaneRecords) /\ w.submitted \in Nat
  BY <1>1, <1>2 DEF Follows
<1>4. PICK L \in Seq(LaneRecords), n \in Nat : /\ L = w.lanes /\ n = Len(L) /\ n > 0 /\ DOMAIN L = 1 .. n
                                              /\ \A l \in 1 .. n : LaneFollows(L[l], T, D, n, l)
  <2>1. PICK L \in Seq(LaneRecords), n \in Nat : L = w.lanes /\ n = Len(L) /\ DOMAIN L = 1 .. n
    BY <1>3
  <2>2. n > 0 /\ \A l \in 1 .. n : LaneFollows(L[l], w.tasks, D, n, l)
    BY <1>1, <1>3, <2>1 DEF Follows
  <2>3. w.tasks = T
    BY <1>1
  <2> QED BY <2>1, <2>2, <2>3
<1>5. CASE SubmitLane(r)
  <2>1. PICK i \in Nat : i = w.submitted + 1 /\ i \in 1 .. n
    <3>1. w.submitted < n
      BY <1>1, <1>3, <1>4, <1>5 DEF Follows, SubmitLane
    <3> QED BY <1>3, <3>1
  <2>2. PICK m \in LaneRecords : m = [L[i] EXCEPT !.state = "queued"] /\ LaneFollows(m, T, D, n, i)
    <3>1. PICK s \in LaneStates : s = "queued" /\ s # "sent"
      BY DEF LaneStates
    <3>2. PICK lane \in LaneRecords : lane = L[i] /\ LaneFollows(lane, T, D, n, i)
      BY <1>4, <2>1
    <3>3. PICK m : m = [lane EXCEPT !.state = s]
      OBVIOUS
    <3>4. m \in LaneRecords /\ LaneFollows(m, T, D, n, i)
      BY <3>1, <3>2, <3>3, StateOfLane, LaneTurns
    <3> QED BY <3>1, <3>2, <3>3, <3>4
  <2>3. PICK z : z = [L EXCEPT ![i] = m]
    OBVIOUS
  <2>4. PICK e : e = IF i = n THEN "collecting" ELSE "submitting"
    OBVIOUS
  <2>5. PICK v : v = [w EXCEPT !.submitted = i, !.lanes = z, !.phase = e]
    OBVIOUS
  <2>6. walk' = [walk EXCEPT ![r] = v]
    <3>0. PICK u : u = [walk[r] EXCEPT !.submitted = walk[r].submitted + 1,
                                       !.lanes[walk[r].submitted + 1].state = "queued",
                                       !.phase = IF walk[r].submitted + 1 = Len(walk[r].lanes)
                                                 THEN "collecting" ELSE @]
      OBVIOUS
    <3>1. w = walk[r]
      BY <1>1
    <3>2. /\ w.phase = "submitting" /\ walk' = [walk EXCEPT ![r] = u]
          /\ u = [w EXCEPT !.submitted = w.submitted + 1,
                           !.lanes[w.submitted + 1].state = "queued",
                           !.phase = IF w.submitted + 1 = Len(w.lanes) THEN "collecting" ELSE @]
      <4>1. walk[r].phase = "submitting" /\ walk' = [walk EXCEPT ![r] = u]
        BY <1>5, <3>0 DEF SubmitLane, WalksInv
      <4> QED BY <3>0, <3>1, <4>1
    <3>3. PICK P, H, U, M, S, Z : w \in WalksOf(P, H, U, M, S, Z)
      BY <1>1 DEF WalkRecord
    <3>4. u = v
      BY <1>4, <2>1, <2>2, <2>3, <2>4, <2>5, <3>2, <3>3 DEF WalksOf
    <3> QED BY <3>2, <3>4
  <2>7. v.phase = e /\ v.tasks = T /\ v.lanes = z /\ v.submitted = i
    <3>1. PICK P, H, U, M, S, Z : w \in WalksOf(P, H, U, M, S, Z)
      BY <1>1 DEF WalkRecord
    <3> QED BY <1>1, <2>5, <3>1 DEF WalksOf
  <2>8. /\ z \in Seq(LaneRecords) /\ Len(z) = n
        /\ \A l \in 1 .. n : LaneFollows(z[l], T, D, n, l)
    <3>1. z \in Seq(LaneRecords) /\ Len(z) = n
      BY <1>4, <2>1, <2>3
    <3>2. ASSUME NEW l \in 1 .. n PROVE LaneFollows(z[l], T, D, n, l)
      <4>1. CASE l = i
        <5>1. z[i] = m
          BY <1>4, <2>1, <2>3
        <5> QED BY <2>2, <4>1, <5>1
      <4>2. CASE l # i
        <5>1. z[l] = L[l]
          BY <1>4, <2>3, <4>2
        <5> QED BY <1>4, <5>1
      <4> QED BY <4>1, <4>2
    <3> QED BY <3>1, <3>2
  <2>9. e # "idle" /\ e # "returned" /\ (e = "submitting" => i < n)
    BY <1>4, <2>1, <2>4
  <2>10. Follows(v, D) /\ Answers(v, D)
    BY <1>3, <1>4, <2>1, <2>7, <2>8, <2>9 DEF Follows, Answers
  <2>11. D = [k \in DOMAIN v.tasks |-> TaskReport(r, v.tasks[k])]
    BY <1>1, <2>7
  <2> QED BY <1>2, <2>6, <2>10, <2>11, LanesReplaced
<1>6. ASSUME NEW x, walk' = [walk EXCEPT ![r] = Returned(w, x)],
             w.submitted = n => \A g : InOrder(w.shallow, D, Len(T), g) => x = Finished(g[Len(T)])
      PROVE  LanesInv'
  <2>1. PICK v : v = Returned(w, x)
    OBVIOUS
  <2>2. /\ v.phase = "returned" /\ v.tasks = T /\ v.lanes = L /\ v.submitted = w.submitted
        /\ v.shallow = w.shallow /\ v.result = Some(x)
    BY <1>1, <1>4, <2>1, ReturnedFacts
  <2>3. v.result[1] = x
    BY <2>2, SomeIs
  <2>4. Answers(v, D)
    BY <1>4, <1>6, <2>2, <2>3 DEF Answers
  <2>5. Follows(v, D)
    BY <1>3, <1>4, <2>2 DEF Follows
  <2>6. D = [k \in DOMAIN v.tasks |-> TaskReport(r, v.tasks[k])]
    BY <1>1, <2>2
  <2> QED BY <1>2, <1>6, <2>1, <2>4, <2>5, <2>6, LanesReplaced
<1>7. CASE RejectLane(r)
  <2>1. PICK x : x = Err(Error(RootPath[r], 0, "ScheduleWorker"))
    OBVIOUS
  <2>2. walk' = [walk EXCEPT ![r] = Returned(w, x)]
    BY <1>1, <1>7, <2>1 DEF RejectLane
  <2>3. w.submitted # n
    BY <1>1, <1>3, <1>4, <1>7 DEF RejectLane, Follows
  <2> QED BY <1>6, <2>2, <2>3
<1>8. CASE MergeLanes(r)
  <2>1. PICK N \in Nat : N = Len(T) /\ N = Len(D) /\ D \in Seq(Reports)
    <3>1. PICK N \in Nat : N = Len(T)
      <4>1. T \in Seq(Tasks)
        BY <1>1
      <4> QED BY <4>1
    <3>2. Reported(D, T)
      BY <1>1
    <3> QED BY <3>1, <3>2 DEF Reported
  <2>2. PICK a \in Reports : a = w.shallow
    BY <1>1
  <2>3. PICK x : x = Finished(MergeSegments(L, N, a))
    OBVIOUS
  <2>4. walk' = [walk EXCEPT ![r] = Returned(w, x)]
    BY <1>1, <1>4, <1>8, <2>1, <2>2, <2>3 DEF MergeLanes
  <2>5. \A l \in 1 .. n : L[l].state = "sent"
    BY <1>1, <1>4, <1>8 DEF MergeLanes
  <2>6. AtTurn(L, D, n, 0)
    BY <1>1, <1>4, <2>5, LanesAreDone
  <2>7. ASSUME NEW g, InOrder(a, D, N, g) PROVE x = Finished(g[N])
    <3>1. InOrder(a, D, Len(D), g)
      BY <2>1, <2>7
    <3>2. MergeSegments(L, Len(D), a) = g[Len(D)]
      BY <1>4, <2>1, <2>6, <3>1, MergeInOrder
    <3> QED BY <2>1, <2>3, <3>2
  <2> QED BY <1>6, <2>1, <2>2, <2>4, <2>7
<1> QED BY <1>5, <1>7, <1>8 DEF CallerStep

LEMMA LanesStart == Init => LanesInv
<1> SUFFICES ASSUME Init PROVE LanesInv
  OBVIOUS
<1>1. caller \in Callers /\ \A r \in Roots : walk[r] = Idle
  BY DEF Init, WalkInit
<1>2. ASSUME NEW D PROVE Follows(Idle, D) /\ Answers(Idle, D)
  BY DEF Follows, Answers, Idle
<1> QED BY <1>1, <1>2 DEF LanesInv

LEMMA LanesStep ==
  ASSUME WalksInv, LanesInv, ReportsAreTyped, ReportsAreTyped', [Next]_vars
  PROVE  LanesInv'
<1>1. CASE UNCHANGED walk
  <2>1. UNCHANGED caller
    BY CallerStays
  <2>2. \A q, t : TaskReport(q, t)' = TaskReport(q, t)
    BY <2>1, SameCaller
  <2>3. \A x : Finished(x)' = Finished(x)
    BY <2>1, SameCaller
  <2>4. \A r \in Roots : ReportsIn(r)' = ReportsIn(r)
    BY <1>1, <2>2 DEF ReportsIn
  <2>5. \A r \in Roots : Follows(walk[r], ReportsIn(r))'
    <3>1. \A r \in Roots : Follows(walk'[r], ReportsIn(r)')
      BY <1>1, <2>4 DEF LanesInv
    <3> QED BY <3>1 DEF Follows
  <2>6. \A r \in Roots : Answers(walk[r], ReportsIn(r))'
    <3> SUFFICES ASSUME NEW r \in Roots PROVE Answers(walk[r], ReportsIn(r))'
      OBVIOUS
    <3>1. PICK w, D : w = walk[r] /\ D = ReportsIn(r) /\ Answers(w, D)
      BY DEF LanesInv
    <3>2. walk'[r] = w /\ ReportsIn(r)' = D
      BY <1>1, <2>4, <3>1
    <3> QED BY <2>3, <3>1, <3>2 DEF Answers
  <2> QED BY <2>1, <2>5, <2>6 DEF LanesInv
<1>2. CASE \E r \in Roots : StartWalk(r) \/ CallerStep(r) \/ LaneStep(r)
  BY <1>2, StartWalkLanes, CallerStepLanes, LaneStepLanes
<1>3. UNCHANGED walk \/ \E r \in Roots : StartWalk(r) \/ CallerStep(r) \/ LaneStep(r)
  BY WalkIsStepped
<1> QED BY <1>1, <1>2, <1>3

\* The reports of a walk in task order, as the merge has them.
LEMMA TaskOrderIs ==
  ASSUME ReportsAreTyped, NEW r \in Roots
  PROVE  \E g : /\ InOrder(walk[r].shallow, ReportsIn(r), Len(walk[r].tasks), g)
                /\ InTaskOrder(r) = g[Len(walk[r].tasks)]
<1>1. PICK T \in Seq(Tasks), n \in Nat : T = walk[r].tasks /\ n = Len(T) /\ DOMAIN T = 1 .. n
  BY DEF ReportsAreTyped
<1>2. PICK D, a : D = ReportsIn(r) /\ a = walk[r].shallow
  OBVIOUS
<1>3. \A k \in 1 .. n : D[k] = TaskReport(r, T[k])
  BY <1>1, <1>2 DEF ReportsIn
<1> DEFINE Adds(h) == h = [k \in 0 .. n |-> IF k = 0 THEN a ELSE Join(h[k - 1], TaskReport(r, T[k]))]
           g == CHOOSE h : Adds(h)
<1>4. InTaskOrder(r) = g[n]
  BY <1>1, <1>2 DEF InTaskOrder
<1>5. \A h : Adds(h) <=> InOrder(a, D, n, h)
  <2> SUFFICES ASSUME NEW h PROVE Adds(h) <=> InOrder(a, D, n, h)
    OBVIOUS
  <2>1. [k \in 0 .. n |-> IF k = 0 THEN a ELSE Join(h[k - 1], TaskReport(r, T[k]))]
        = [k \in 0 .. n |-> IF k = 0 THEN a ELSE Join(h[k - 1], D[k])]
    <3>1. \A k \in 0 .. n : k # 0 => D[k] = TaskReport(r, T[k])
      BY <1>3
    <3> QED BY <3>1
  <2> QED BY <2>1 DEF InOrder
<1>6. \E h : Adds(h)
  <2>1. PICK h : InOrder(a, D, n, h)
    BY InOrderExists
  <2> QED BY <1>5, <2>1
<1>7. Adds(g)
  BY <1>6
<1> HIDE DEF g
<1>8. InOrder(a, D, n, g)
  BY <1>5, <1>7
<1> QED BY <1>1, <1>2, <1>4, <1>8

\* What a collected walk with all its lanes answers is the reports of its tasks in task
\* order, whatever the number of lanes and the order in which they run and end.
THEOREM TheScheduleDoesNotShow == Spec /\ []ReportsAreTyped => []IndependentOfSchedule
<1>1. Init => WalksInv /\ LanesInv
  BY WalksStart, LanesStart
<1>2. WalksInv /\ LanesInv /\ ReportsAreTyped /\ ReportsAreTyped' /\ [Next]_vars
      => WalksInv' /\ LanesInv'
  BY WalksStep, LanesStep
<1>3. WalksInv /\ LanesInv /\ ReportsAreTyped => IndependentOfSchedule
  <2> SUFFICES ASSUME LanesInv, ReportsAreTyped, NEW r \in Roots,
                      WalkIsOver(r), walk[r].tasks # << >>, walk[r].submitted = Len(walk[r].lanes)
               PROVE  walk[r].result[1] = Finished(InTaskOrder(r))
    BY DEF IndependentOfSchedule
  <2>1. PICK w, D : w = walk[r] /\ D = ReportsIn(r) /\ Answers(w, D)
    BY DEF LanesInv
  <2>2. PICK g : InOrder(w.shallow, D, Len(w.tasks), g) /\ InTaskOrder(r) = g[Len(w.tasks)]
    BY <2>1, TaskOrderIs
  <2>3. w.result[1] = Finished(g[Len(w.tasks)])
    BY <2>1, <2>2 DEF Answers, WalkIsOver
  <2> QED BY <2>1, <2>2, <2>3
<1> QED BY <1>1, <1>2, <1>3, PTL DEF Spec

-----------------------------------------------------------------------------
(***************************************************************************)
(* The executors: every accepted job runs once, and a pool that goes away  *)
(* leaves nothing behind.                                                  *)
(***************************************************************************)

(* Sequences *)

LEMMA QueueTail ==
  ASSUME NEW S, NEW q \in Seq(S), q # <<>>
  PROVE  /\ Head(q) \in S /\ Tail(q) \in Seq(S)
         /\ 1 \in DOMAIN q /\ Head(q) = q[1]
         /\ Len(Tail(q)) = Len(q) - 1
         /\ \A i \in DOMAIN Tail(q) : i + 1 \in DOMAIN q /\ i + 1 # 1 /\ Tail(q)[i] = q[i + 1]
         /\ \A i \in DOMAIN q : i # 1 => i - 1 \in DOMAIN Tail(q) /\ Tail(q)[i - 1] = q[i]
OBVIOUS

LEMMA QueueAppend ==
  ASSUME NEW S, NEW q \in Seq(S), NEW x \in S
  PROVE  /\ Append(q, x) \in Seq(S)
         /\ Len(Append(q, x)) = Len(q) + 1
         /\ \A i \in DOMAIN q : i \in DOMAIN Append(q, x) /\ Append(q, x)[i] = q[i]
         /\ Len(q) + 1 \in DOMAIN Append(q, x) /\ Append(q, x)[Len(q) + 1] = x
         /\ Len(q) + 1 \notin DOMAIN q
         /\ \A i \in DOMAIN Append(q, x) : i \in DOMAIN q \/ i = Len(q) + 1
OBVIOUS

-----------------------------------------------------------------------------
(* The inductive invariant *)

\* An accepted job is queued or has been run, never both, and is queued at most once.
Queued(j) == \E i \in DOMAIN jobs : jobs[i] = j
QueueInv ==
  /\ \A i, k \in DOMAIN jobs : jobs[i] = jobs[k] => i = k
  /\ \A i \in DOMAIN jobs : jobs[i] \in accepted
  /\ \A j \in Job : runs[j] = IF j \in accepted /\ ~Queued(j) THEN 1 ELSE 0
  /\ notifying \subseteq accepted

\* The queue is closed exactly from the owner's shutdown on, and jobs come in only before.
OwnerInv ==
  /\ shutdown <=> owner \notin {"starting", "open"}
  /\ owner \in {"starting", "failing", "joining_failed", "failed"} => accepted = {}
  /\ owner \in {"open", "closing", "joining", "dropped"} => spawned = Size
  /\ owner \in {"dropped", "failed"} => joined = spawned
  /\ joined <= spawned

\* A worker leaves only an empty, closed queue; only those that left are joined.
WorkerInv ==
  /\ \A w \in Worker : pc[w] = "unborn" <=> w > spawned
  /\ \A w \in Worker : w <= joined => pc[w] = "exited"
  /\ \A w \in Worker : pc[w] = "exited" => shutdown /\ jobs = <<>>

PoolInv == PoolTypeOK /\ QueueInv /\ OwnerInv /\ WorkerInv /\ EnoughAwake /\ NoSleeperToJoin

-----------------------------------------------------------------------------
(* Type correctness *)

LEMMA InitTypeOK == PoolInit => PoolTypeOK
<1> SUFFICES ASSUME PoolInit PROVE PoolTypeOK
  OBVIOUS
<1>1. jobs \in Seq(Job) /\ shutdown \in BOOLEAN
  <2>1. jobs = <<>> /\ shutdown = FALSE BY DEF PoolInit
  <2>2. jobs \in Seq(Job) BY <2>1
  <2> QED BY <2>1, <2>2, Zenon
<1>2. pc \in [Worker -> Place] /\ job \in [Worker -> Job \cup {NoJob}] BY DEF PoolInit, Place
<1>3. owner \in OwnerPlace /\ spawned \in 0 .. Size /\ joined \in 0 .. Size
  BY PoolAssumption DEF PoolInit, OwnerPlace
<1>4. notifying \subseteq Job /\ accepted \subseteq Job /\ runs \in [Job -> Nat] BY DEF PoolInit
<1> QED BY <1>1, <1>2, <1>3, <1>4 DEF PoolTypeOK

LEMMA StepTypeOK == PoolTypeOK /\ [PoolNext]_poolVars => PoolTypeOK'
<1> SUFFICES ASSUME PoolTypeOK, [PoolNext]_poolVars PROVE PoolTypeOK'
  OBVIOUS
<1> USE PoolAssumption DEF PoolTypeOK, Worker, Place, OwnerPlace
<1>1. CASE Spawn BY <1>1 DEF Spawn, state, history
<1>2. CASE SpawnFails BY <1>2 DEF SpawnFails, workers, history
<1>3. CASE AllSpawned BY <1>3 DEF AllSpawned, state, workers, history
<1>4. CASE Close BY <1>4 DEF Close, workers, history
<1>5. CASE TellAll BY <1>5 DEF TellAll, NotifyAll, state, history
<1>6. CASE JoinWorker
  <2>1. joined' \in 0 .. Size BY <1>6 DEF JoinWorker
  <2> QED BY <1>6, <2>1 DEF JoinWorker, state, workers, history
<1>7. CASE PoolGone BY <1>7 DEF PoolGone, state, workers, history
<1>8. ASSUME NEW j \in Job, Execute(j) PROVE PoolTypeOK'
  <2>1. jobs' \in Seq(Job) BY <1>8, QueueAppend DEF Execute
  <2> QED BY <1>8, <2>1 DEF Execute, workers
<1>9. ASSUME NEW j \in Job, Notify(j) PROVE PoolTypeOK'
  <2>1. pc' \in [Worker -> Place] BY <1>9 DEF Notify, NotifyOne, Waiting
  <2> QED BY <1>9, <2>1 DEF Notify, state, history
<1>10. ASSUME NEW w \in Worker, TakeJob(w) PROVE PoolTypeOK'
  <2>1. jobs' \in Seq(Job) /\ Head(jobs) \in Job BY <1>10, QueueTail DEF TakeJob, Rest
  <2>2. runs' \in [Job -> Nat] BY <1>10, <2>1 DEF TakeJob
  <2> QED BY <1>10, <2>1, <2>2 DEF TakeJob
<1>11. ASSUME NEW w \in Worker, Sleep(w) PROVE PoolTypeOK' BY <1>11 DEF Sleep, state, history
<1>12. ASSUME NEW w \in Worker, Exit(w) PROVE PoolTypeOK' BY <1>12 DEF Exit, state, history
<1>13. ASSUME NEW w \in Worker, EndJob(w) PROVE PoolTypeOK' BY <1>13 DEF EndJob, AfterPanic, state, history
<1>14. ASSUME NEW w \in Worker, SpuriousWakeup(w) PROVE PoolTypeOK'
  BY <1>14 DEF SpuriousWakeup, state, history
<1>15. CASE UNCHANGED poolVars BY <1>15 DEF poolVars, state, workers, history
<1> QED
  BY <1>1, <1>2, <1>3, <1>4, <1>5, <1>6, <1>7, <1>8, <1>9, <1>10, <1>11, <1>12, <1>13, <1>14, <1>15
  DEF PoolNext, Owner, Starting, WorkerStep, PoolOver

-----------------------------------------------------------------------------
(* The queue *)

LEMMA StepQueueInv == PoolInv /\ [PoolNext]_poolVars => QueueInv'
<1> SUFFICES ASSUME PoolInv, [PoolNext]_poolVars PROVE QueueInv'
  OBVIOUS
<1> USE DEF PoolInv
<1>1. ASSUME jobs' = jobs, runs' = runs, accepted' = accepted, notifying' \subseteq notifying
      PROVE  QueueInv'
  BY <1>1 DEF QueueInv, Queued
<1>2. ASSUME NEW j \in Job, Execute(j) PROVE QueueInv'
  <2>1. /\ j \notin accepted /\ jobs' = Append(jobs, j) /\ runs' = runs
        /\ accepted' = accepted \cup {j} /\ notifying' = notifying \cup {j}
    BY <1>2 DEF Execute
  <2>2. jobs \in Seq(Job) BY DEF PoolTypeOK
  <2>3. /\ \A i \in DOMAIN jobs : i \in DOMAIN jobs' /\ jobs'[i] = jobs[i]
        /\ Len(jobs) + 1 \in DOMAIN jobs' /\ jobs'[Len(jobs) + 1] = j
        /\ Len(jobs) + 1 \notin DOMAIN jobs
        /\ \A i \in DOMAIN jobs' : i \in DOMAIN jobs \/ i = Len(jobs) + 1
    BY <2>1, <2>2, QueueAppend
  <2>4. \A k \in Job : Queued(k)' <=> Queued(k) \/ k = j BY <2>3 DEF Queued
  <2>5. ~Queued(j) BY <2>1 DEF QueueInv, Queued
  <2>6. \A k \in Job : runs'[k] = IF k \in accepted' /\ ~Queued(k)' THEN 1 ELSE 0
    BY <2>1, <2>4, <2>5 DEF QueueInv
  <2>7. \A i, k \in DOMAIN jobs' : jobs'[i] = jobs'[k] => i = k
    BY <2>1, <2>3 DEF QueueInv
  <2>8. \A i \in DOMAIN jobs' : jobs'[i] \in accepted' BY <2>1, <2>3 DEF QueueInv
  <2> QED BY <2>1, <2>6, <2>7, <2>8 DEF QueueInv
<1>3. ASSUME NEW w \in Worker, TakeJob(w) PROVE QueueInv'
  <2>0. PICK first : first = Head(jobs) OBVIOUS
  <2>1. /\ jobs # <<>> /\ jobs' = Tail(jobs) /\ runs' = [runs EXCEPT ![first] = @ + 1]
        /\ accepted' = accepted /\ notifying' = notifying
    BY <1>3, <2>0 DEF TakeJob, Rest
  <2>2. jobs \in Seq(Job) /\ runs \in [Job -> Nat] BY DEF PoolTypeOK
  <2>3. /\ first \in Job /\ 1 \in DOMAIN jobs /\ first = jobs[1]
        /\ \A i \in DOMAIN jobs' : i + 1 \in DOMAIN jobs /\ i + 1 # 1 /\ jobs'[i] = jobs[i + 1]
        /\ \A i \in DOMAIN jobs : i # 1 => i - 1 \in DOMAIN jobs' /\ jobs'[i - 1] = jobs[i]
    BY <2>0, <2>1, <2>2, QueueTail
  <2>4. Queued(first) /\ ~Queued(first)' BY <2>3 DEF Queued, QueueInv
  <2>5. \A k \in Job : k # first => (Queued(k)' <=> Queued(k)) BY <2>3 DEF Queued
  <2>6. first \in accepted /\ runs[first] = 0 BY <2>3, <2>4 DEF QueueInv
  <2>7. \A k \in Job : runs'[k] = IF k = first THEN 1 ELSE runs[k] BY <2>1, <2>2, <2>3, <2>6
  <2>8. \A k \in Job : runs'[k] = IF k \in accepted' /\ ~Queued(k)' THEN 1 ELSE 0
    BY <2>1, <2>4, <2>5, <2>6, <2>7 DEF QueueInv
  <2>9. jobs' \in Seq(Job) BY <2>1, <2>2, QueueTail
  <2>10. \A i, k \in DOMAIN jobs' : jobs'[i] = jobs'[k] => i = k
    <3> SUFFICES ASSUME NEW i \in DOMAIN jobs', NEW k \in DOMAIN jobs', jobs'[i] = jobs'[k]
                 PROVE  i = k
      OBVIOUS
    <3>1. jobs[i + 1] = jobs[k + 1] /\ i + 1 \in DOMAIN jobs /\ k + 1 \in DOMAIN jobs BY <2>3
    <3>2. i + 1 = k + 1 BY <3>1 DEF QueueInv
    <3>3. i \in Nat /\ k \in Nat BY <2>9
    <3> QED BY <3>2, <3>3
  <2>11. \A i \in DOMAIN jobs' : jobs'[i] \in accepted' BY <2>1, <2>3 DEF QueueInv
  <2> QED BY <2>1, <2>8, <2>10, <2>11 DEF QueueInv
<1>4. CASE Owner \/ Close \/ PoolOver \/ UNCHANGED poolVars
  BY <1>1, <1>4 DEF Owner, Starting, Spawn, SpawnFails, AllSpawned, Close, TellAll, JoinWorker, PoolGone, PoolOver,
                    poolVars, state, workers, history
<1>5. ASSUME NEW j \in Job, Notify(j) PROVE QueueInv' BY <1>1, <1>5 DEF Notify, state, history
<1>6. ASSUME NEW w \in Worker, Sleep(w) \/ Exit(w) \/ EndJob(w) \/ SpuriousWakeup(w) PROVE QueueInv'
  BY <1>1, <1>6 DEF Sleep, Exit, EndJob, SpuriousWakeup, state, history
<1> QED BY <1>2, <1>3, <1>4, <1>5, <1>6 DEF PoolNext, WorkerStep

-----------------------------------------------------------------------------
(* The owner and the workers *)

LEMMA StepOwnerInv == PoolInv /\ [PoolNext]_poolVars => OwnerInv'
<1> SUFFICES ASSUME PoolInv, [PoolNext]_poolVars PROVE OwnerInv'
  OBVIOUS
<1> USE DEF PoolInv, PoolTypeOK, OwnerInv, OwnerPlace
<1>1. ASSUME UNCHANGED <<shutdown, owner, spawned, joined, accepted>> PROVE OwnerInv'
  BY <1>1
<1>2. CASE Spawn BY <1>2 DEF Spawn, state, history
<1>3. CASE SpawnFails BY <1>3 DEF SpawnFails, history
<1>4. CASE AllSpawned BY <1>4 DEF AllSpawned, state, history
<1>5. CASE Close BY <1>5 DEF Close, history
<1>6. CASE TellAll BY <1>6 DEF TellAll, state, history
<1>7. CASE JoinWorker BY <1>7 DEF JoinWorker, state, history
<1>8. CASE PoolGone BY <1>8 DEF PoolGone, state, history
<1>9. ASSUME NEW j \in Job, Execute(j) PROVE OwnerInv' BY <1>9 DEF Execute
<1>10. ASSUME NEW j \in Job, Notify(j) PROVE OwnerInv' BY <1>1, <1>10 DEF Notify, state, history
<1>11. ASSUME NEW w \in Worker, WorkerStep(w) \/ SpuriousWakeup(w) PROVE OwnerInv'
  BY <1>1, <1>11 DEF WorkerStep, TakeJob, Sleep, Exit, EndJob, SpuriousWakeup, state, history
<1>12. CASE PoolOver \/ UNCHANGED poolVars BY <1>1, <1>12 DEF PoolOver, poolVars, state, history
<1> QED
  BY <1>2, <1>3, <1>4, <1>5, <1>6, <1>7, <1>8, <1>9, <1>10, <1>11, <1>12 DEF PoolNext, Owner, Starting

LEMMA StepWorkerInv == PoolInv /\ [PoolNext]_poolVars => WorkerInv'
<1> SUFFICES ASSUME PoolInv, [PoolNext]_poolVars PROVE WorkerInv'
  OBVIOUS
<1> USE PoolAssumption DEF PoolInv, PoolTypeOK, OwnerInv, WorkerInv, Worker
<1>1. ASSUME UNCHANGED <<jobs, pc, spawned, joined>>, shutdown' = shutdown \/ shutdown'
      PROVE  WorkerInv'
  BY <1>1
<1>2. CASE Spawn
  <2>1. /\ spawned' = spawned + 1 /\ spawned + 1 \in Worker /\ joined' = joined
        /\ pc' = [pc EXCEPT ![spawned + 1] = "looking"] /\ jobs' = jobs /\ shutdown' = shutdown
    BY <1>2 DEF Spawn, state
  <2>2. \A w \in Worker : pc'[w] = IF w = spawned + 1 THEN "looking" ELSE pc[w] BY <2>1
  <2> QED BY <2>1, <2>2
<1>3. CASE SpawnFails \/ AllSpawned \/ Close \/ PoolGone \/ PoolOver \/ UNCHANGED poolVars
  BY <1>1, <1>3 DEF SpawnFails, AllSpawned, Close, PoolGone, PoolOver, poolVars, state, workers
<1>4. CASE TellAll
  <2>1. \A w \in Worker : pc'[w] = IF pc[w] = "waiting" THEN "looking" ELSE pc[w]
    BY <1>4 DEF TellAll, NotifyAll
  <2> QED BY <1>4, <2>1 DEF TellAll, state
<1>5. CASE JoinWorker BY <1>5 DEF JoinWorker, state, workers
<1>6. ASSUME NEW j \in Job, Execute(j) PROVE WorkerInv'
  <2>1. \A w \in Worker : pc[w] # "exited" BY <1>6 DEF Execute
  <2> QED BY <1>6, <2>1 DEF Execute, workers
<1>7. ASSUME NEW j \in Job, Notify(j) PROVE WorkerInv'
  <2>1. \A w \in Worker : pc'[w] = pc[w] \/ (pc[w] = "waiting" /\ pc'[w] = "looking")
    BY <1>7 DEF Notify, NotifyOne, Waiting
  <2> QED BY <1>7, <2>1 DEF Notify, state
<1>8. ASSUME NEW w \in Worker, TakeJob(w) PROVE WorkerInv'
  <2>1. \A v \in Worker : pc[v] # "exited" BY <1>8 DEF TakeJob
  <2>2. \A v \in Worker : pc'[v] = IF v = w THEN "running" ELSE pc[v] BY <1>8 DEF TakeJob
  <2> QED BY <1>8, <2>1, <2>2 DEF TakeJob
<1>9. ASSUME NEW w \in Worker, Sleep(w) PROVE WorkerInv'
  <2>1. \A v \in Worker : pc'[v] = IF v = w THEN "waiting" ELSE pc[v] BY <1>9 DEF Sleep
  <2> QED BY <1>9, <2>1 DEF Sleep, state
<1>10. ASSUME NEW w \in Worker, Exit(w) PROVE WorkerInv'
  <2>1. \A v \in Worker : pc'[v] = IF v = w THEN "exited" ELSE pc[v] BY <1>10 DEF Exit
  <2> QED BY <1>10, <2>1 DEF Exit, MayExit, state
<1>11. ASSUME NEW w \in Worker, EndJob(w) \/ SpuriousWakeup(w) PROVE WorkerInv'
  <2>1. /\ pc[w] \in {"running", "waiting"} /\ jobs' = jobs /\ shutdown' = shutdown
        /\ spawned' = spawned /\ joined' = joined
    BY <1>11 DEF EndJob, SpuriousWakeup, state
  <2>2. \A v \in Worker : pc'[v] = IF v = w THEN "looking" ELSE pc[v]
    BY <1>11 DEF EndJob, AfterPanic, SpuriousWakeup
  <2> QED BY <2>1, <2>2
<1> QED
  BY <1>2, <1>3, <1>4, <1>5, <1>6, <1>7, <1>8, <1>9, <1>10, <1>11 DEF PoolNext, Owner, Starting, WorkerStep

LEMMA StepNoSleeper == PoolInv /\ [PoolNext]_poolVars => NoSleeperToJoin'
<1> SUFFICES ASSUME PoolInv, [PoolNext]_poolVars PROVE NoSleeperToJoin'
  OBVIOUS
<1> USE DEF PoolInv, PoolTypeOK, OwnerInv, OwnerPlace, NoSleeperToJoin, Waiting
<1>1. ASSUME owner' = owner, \A w \in Worker : pc'[w] = "waiting" => pc[w] = "waiting"
      PROVE  NoSleeperToJoin'
  BY <1>1
<1>2. CASE Starting \/ Close
  BY <1>2 DEF Starting, Spawn, SpawnFails, AllSpawned, Close
<1>3. CASE TellAll BY <1>3 DEF TellAll, NotifyAll
<1>4. CASE JoinWorker \/ PoolGone BY <1>4 DEF JoinWorker, PoolGone, workers
<1>5. ASSUME NEW j \in Job, Execute(j) \/ Notify(j) PROVE NoSleeperToJoin'
  BY <1>1, <1>5 DEF Execute, Notify, NotifyOne, workers
<1>6. ASSUME NEW w \in Worker, TakeJob(w) \/ Exit(w) \/ EndJob(w) \/ SpuriousWakeup(w)
      PROVE  NoSleeperToJoin'
  BY <1>1, <1>6 DEF TakeJob, Exit, EndJob, AfterPanic, SpuriousWakeup
<1>7. ASSUME NEW w \in Worker, Sleep(w) PROVE NoSleeperToJoin'
  BY <1>7 DEF Sleep
<1>8. CASE PoolOver \/ UNCHANGED poolVars BY <1>1, <1>8 DEF PoolOver, poolVars, workers
<1> QED BY <1>2, <1>3, <1>4, <1>5, <1>6, <1>7, <1>8 DEF PoolNext, Owner, WorkerStep

-----------------------------------------------------------------------------
(* Enough workers are awake *)

LEMMA FiniteParts == PoolInv => /\ IsFiniteSet(Worker) /\ IsFiniteSet(Looking) /\ IsFiniteSet(notifying)
                                /\ Cardinality(Looking) \in Nat /\ Cardinality(notifying) \in Nat
                                /\ Len(jobs) \in Nat
<1> SUFFICES ASSUME PoolInv PROVE /\ IsFiniteSet(Worker) /\ IsFiniteSet(Looking) /\ IsFiniteSet(notifying)
                                  /\ Cardinality(Looking) \in Nat /\ Cardinality(notifying) \in Nat
                                  /\ Len(jobs) \in Nat
  OBVIOUS
<1>1. IsFiniteSet(Worker) BY PoolAssumption, FS_Interval DEF Worker
<1>2. IsFiniteSet(Looking)
  <2>1. Looking \in SUBSET Worker BY DEF Looking
  <2> QED BY <1>1, <2>1, FS_Subset
<1>3. IsFiniteSet(notifying)
  <2>1. notifying \in SUBSET Job BY DEF PoolInv, PoolTypeOK
  <2> QED BY <2>1, PoolAssumption, FS_Subset
<1> QED BY <1>1, <1>2, <1>3, FS_CardinalityType DEF PoolInv, PoolTypeOK

\* A worker that joins the looking ones makes one more.
LEMMA OneMoreLooking ==
  ASSUME PoolInv, NEW w \in Worker, pc[w] # "looking",
         \A v \in Worker : (pc'[v] = "looking") <=> (v = w \/ pc[v] = "looking")
  PROVE  Cardinality(Looking') = Cardinality(Looking) + 1
<1>1. Looking' = Looking \cup {w} /\ w \notin Looking BY DEF Looking
<1> QED BY <1>1, FiniteParts, FS_AddElement

LEMMA OneLessLooking ==
  ASSUME PoolInv, NEW w \in Worker, pc[w] = "looking",
         \A v \in Worker : (pc'[v] = "looking") <=> (v # w /\ pc[v] = "looking")
  PROVE  Cardinality(Looking') = Cardinality(Looking) - 1
<1>1. Looking' = Looking \ {w} /\ w \in Looking BY DEF Looking
<1> QED BY <1>1, FiniteParts, FS_RemoveElement

LEMMA StepEnoughAwake == PoolInv /\ [PoolNext]_poolVars => EnoughAwake'
<1> SUFFICES ASSUME PoolInv, [PoolNext]_poolVars PROVE EnoughAwake'
  OBVIOUS
<1>0. /\ IsFiniteSet(notifying) /\ Cardinality(Looking) \in Nat /\ Cardinality(notifying) \in Nat
      /\ Len(jobs) \in Nat
      /\ Waiting # {} => Len(jobs) <= Cardinality(Looking) + Cardinality(notifying)
  BY FiniteParts DEF PoolInv, EnoughAwake
<1>p. pc \in [Worker -> Place] /\ jobs \in Seq(Job) BY DEF PoolInv, PoolTypeOK
<1>1. ASSUME UNCHANGED <<jobs, pc, notifying>> PROVE EnoughAwake'
  <2>1. Looking' = Looking /\ Waiting' = Waiting BY <1>1 DEF Looking, Waiting
  <2> QED BY <1>0, <1>1, <2>1 DEF EnoughAwake
<1>2. CASE Spawn
  <2>1. /\ spawned + 1 \in Worker /\ jobs' = jobs /\ notifying' = notifying
        /\ pc' = [pc EXCEPT ![spawned + 1] = "looking"] /\ pc[spawned + 1] = "unborn"
    BY <1>2, PoolAssumption DEF Spawn, state, PoolInv, PoolTypeOK, WorkerInv, Worker
  <2>2. Waiting' = Waiting BY <1>p, <2>1 DEF Waiting
  <2>3. Cardinality(Looking') = Cardinality(Looking) + 1 BY <1>p, <2>1, OneMoreLooking
  <2> QED BY <1>0, <2>1, <2>2, <2>3 DEF EnoughAwake
<1>3. CASE SpawnFails \/ AllSpawned \/ Close \/ JoinWorker \/ PoolGone \/ PoolOver \/ UNCHANGED poolVars
  BY <1>1, <1>3 DEF SpawnFails, AllSpawned, Close, JoinWorker, PoolGone, PoolOver, poolVars, state, workers
<1>4. CASE TellAll
  <2>1. Waiting' = {} BY <1>4 DEF TellAll, NotifyAll, Waiting
  <2> QED BY <2>1 DEF EnoughAwake
<1>5. ASSUME NEW j \in Job, Execute(j) PROVE EnoughAwake'
  <2>1. j \notin notifying BY <1>5 DEF Execute, PoolInv, QueueInv
  <2>2. Cardinality(notifying') = Cardinality(notifying) + 1
    BY <1>0, <1>5, <2>1, FS_AddElement DEF Execute
  <2>3. Len(jobs') = Len(jobs) + 1 BY <1>5, <1>p, QueueAppend DEF Execute
  <2>4. Looking' = Looking /\ Waiting' = Waiting BY <1>5 DEF Execute, workers, Looking, Waiting
  <2> QED BY <1>0, <2>2, <2>3, <2>4 DEF EnoughAwake
<1>6. ASSUME NEW j \in Job, Notify(j) PROVE EnoughAwake'
  <2>1. CASE Waiting = {}
    <3>1. Waiting' = {} BY <1>6, <2>1 DEF Notify, NotifyOne, Waiting
    <3> QED BY <3>1 DEF EnoughAwake
  <2>2. CASE Waiting # {}
    <3>1. PICK w \in Waiting : pc' = [pc EXCEPT ![w] = "looking"] BY <1>6, <2>2 DEF Notify, NotifyOne
    <3>2. w \in Worker /\ pc[w] = "waiting" BY DEF Waiting
    <3>3. Cardinality(Looking') = Cardinality(Looking) + 1 BY <1>p, <3>1, <3>2, OneMoreLooking
    <3>4. Cardinality(notifying') = Cardinality(notifying) - 1
      BY <1>0, <1>6, FS_RemoveElement DEF Notify
    <3>5. jobs' = jobs BY <1>6 DEF Notify, state
    <3> QED BY <1>0, <2>2, <3>3, <3>4, <3>5 DEF EnoughAwake
  <2> QED BY <2>1, <2>2
<1>7. ASSUME NEW w \in Worker, TakeJob(w) PROVE EnoughAwake'
  <2>1. pc[w] = "looking" /\ pc' = [pc EXCEPT ![w] = "running"] BY <1>7 DEF TakeJob
  <2>2. Cardinality(Looking') = Cardinality(Looking) - 1 BY <1>p, <2>1, OneLessLooking
  <2>3. Waiting' = Waiting BY <1>p, <2>1 DEF Waiting
  <2>4. Len(jobs') = Len(jobs) - 1 BY <1>7, <1>p, QueueTail DEF TakeJob, Rest
  <2>5. notifying' = notifying BY <1>7 DEF TakeJob
  <2> QED BY <1>0, <2>2, <2>3, <2>4, <2>5 DEF EnoughAwake
<1>8. ASSUME NEW w \in Worker, Sleep(w) PROVE EnoughAwake'
  <2>1. /\ pc[w] = "looking" /\ pc' = [pc EXCEPT ![w] = "waiting"]
        /\ jobs' = <<>> /\ notifying' = notifying
    BY <1>8 DEF Sleep, state
  <2>2. Cardinality(Looking') = Cardinality(Looking) - 1 /\ Cardinality(Looking') \in Nat
    <3>1. Looking' \in SUBSET Worker BY DEF Looking
    <3>2. IsFiniteSet(Looking') BY <3>1, FiniteParts, FS_Subset
    <3> QED BY <1>p, <2>1, <3>2, OneLessLooking, FS_CardinalityType
  <2>3. Len(jobs') = 0 BY <2>1
  <2> QED BY <1>0, <2>1, <2>2, <2>3 DEF EnoughAwake
<1>9. ASSUME NEW w \in Worker, Exit(w) PROVE EnoughAwake'
  <2>1. /\ pc[w] = "looking" /\ pc' = [pc EXCEPT ![w] = "exited"]
        /\ jobs' = <<>> /\ notifying' = notifying
    BY <1>9 DEF Exit, MayExit, state
  <2>2. Cardinality(Looking') \in Nat
    <3>1. Looking' \in SUBSET Worker BY DEF Looking
    <3>2. IsFiniteSet(Looking') BY <3>1, FiniteParts, FS_Subset
    <3> QED BY <3>2, FS_CardinalityType
  <2>3. Len(jobs') = 0 BY <2>1
  <2> QED BY <1>0, <2>1, <2>2, <2>3 DEF EnoughAwake
<1>10. ASSUME NEW w \in Worker, EndJob(w) \/ SpuriousWakeup(w) PROVE EnoughAwake'
  <2>1. /\ pc[w] \in {"running", "waiting"} /\ pc' = [pc EXCEPT ![w] = "looking"]
        /\ jobs' = jobs /\ notifying' = notifying
    BY <1>10 DEF EndJob, AfterPanic, SpuriousWakeup, state
  <2>2. Cardinality(Looking') = Cardinality(Looking) + 1 BY <1>p, <2>1, OneMoreLooking
  <2>3. Waiting' \subseteq Waiting BY <1>p, <2>1 DEF Waiting
  <2> QED BY <1>0, <2>1, <2>2, <2>3 DEF EnoughAwake
<1> QED
  BY <1>2, <1>3, <1>4, <1>5, <1>6, <1>7, <1>8, <1>9, <1>10 DEF PoolNext, Owner, Starting, WorkerStep

-----------------------------------------------------------------------------
(* The theorems *)

LEMMA InitPoolInv == PoolInit => PoolInv
<1> SUFFICES ASSUME PoolInit PROVE PoolInv
  OBVIOUS
<1>1. PoolTypeOK BY InitTypeOK
<1>2. QueueInv BY DEF PoolInit, QueueInv, Queued
<1>3. OwnerInv BY DEF PoolInit, OwnerInv
<1>4. WorkerInv BY PoolAssumption DEF PoolInit, WorkerInv, Worker
<1>5. Waiting = {} BY DEF PoolInit, Waiting
<1> QED BY <1>1, <1>2, <1>3, <1>4, <1>5 DEF PoolInv, EnoughAwake, NoSleeperToJoin

LEMMA InvariantHolds == PoolSpec => []PoolInv
<1>1. PoolInv /\ [PoolNext]_poolVars => PoolInv'
  BY StepTypeOK, StepQueueInv, StepOwnerInv, StepWorkerInv, StepNoSleeper, StepEnoughAwake DEF PoolInv
<1> QED BY InitPoolInv, <1>1, PTL DEF PoolSpec

(* Every variable of the pool keeps its type.                                            *)
THEOREM PoolTypeCorrect == PoolSpec => []PoolTypeOK
<1>1. PoolInv => PoolTypeOK BY DEF PoolInv
<1> QED BY <1>1, InvariantHolds, PTL

(* For any number of workers and submissions, waking one sleeper per job is enough: no   *)
(* job waits in the queue for a running worker while another worker sleeps unnotified.   *)
THEOREM OneWakeupIsEnough == PoolSpec => []EnoughAwake
<1>1. PoolInv => EnoughAwake BY DEF PoolInv
<1> QED BY <1>1, InvariantHolds, PTL

(* No job is run twice, and none is run that was not accepted.                           *)
THEOREM JobsRunOnce == PoolSpec => []RunsOnce
<1>1. PoolInv => RunsOnce BY DEF PoolInv, QueueInv, Queued, RunsOnce
<1> QED BY <1>1, InvariantHolds, PTL

(* A join never waits for a sleeping worker.                                             *)
THEOREM JoinFindsNoSleeper == PoolSpec => []NoSleeperToJoin
<1>1. PoolInv => NoSleeperToJoin BY DEF PoolInv
<1> QED BY <1>1, InvariantHolds, PTL

(* When the drop or the failed constructor returns, every worker that was started is     *)
(* over and every accepted job has been run exactly once.                                *)
THEOREM PoolIsDrained == PoolSpec => []NothingLeftBehind
<1>1. PoolInv => NothingLeftBehind
  <2> SUFFICES ASSUME PoolInv, owner \in {"dropped", "failed"}
               PROVE  /\ \A w \in Worker : pc[w] \in {"unborn", "exited"}
                      /\ \A j \in accepted : runs[j] = 1
    BY DEF NothingLeftBehind
  <2>1. \A w \in Worker : pc[w] \in {"unborn", "exited"}
    BY DEF PoolInv, PoolTypeOK, OwnerInv, WorkerInv, Worker
  <2>2. CASE owner = "failed" BY <2>1, <2>2 DEF PoolInv, OwnerInv
  <2>3. CASE owner = "dropped"
    <3>1. 1 \in Worker /\ pc[1] = "exited"
      BY <2>3, PoolAssumption DEF PoolInv, PoolTypeOK, OwnerInv, WorkerInv, Worker
    <3>2. jobs = <<>> BY <3>1 DEF PoolInv, WorkerInv
    <3>3. \A j \in Job : ~Queued(j) BY <3>2 DEF Queued
    <3>4. \A j \in accepted : runs[j] = 1 BY <3>3 DEF PoolInv, PoolTypeOK, QueueInv
    <3> QED BY <2>1, <3>4
  <2> QED BY <2>2, <2>3
<1> QED BY <1>1, InvariantHolds, PTL

-----------------------------------------------------------------------------
(* The contract of an executor *)

\* A worker holds a job exactly while it runs it, and nobody else holds it.
JobInv ==
  /\ \A w \in Worker : pc[w] = "running" <=> job[w] # NoJob
  /\ \A w, v \in Worker : job[w] = job[v] /\ job[w] # NoJob => w = v
  /\ \A w \in Worker : job[w] # NoJob => runs[job[w]] = 1

\* The steps that leave the queue's head and the running jobs alone.
LEMMA JobsUntouched ==
  ASSUME PoolTypeOK, JobInv, job' = job, runs' = runs,
         \A w \in Worker : pc'[w] = "running" <=> pc[w] = "running"
  PROVE  JobInv'
BY DEF JobInv

LEMMA StepJobInv == PoolInv /\ JobInv /\ [PoolNext]_poolVars => JobInv'
<1> SUFFICES ASSUME PoolInv, JobInv, [PoolNext]_poolVars PROVE JobInv'
  OBVIOUS
<1>t. PoolTypeOK /\ QueueInv BY DEF PoolInv
<1>1. CASE Spawn
  <2>1. pc[spawned + 1] = "unborn" /\ spawned + 1 \in Worker
    BY <1>1, PoolAssumption DEF Spawn, PoolInv, PoolTypeOK, WorkerInv, Worker
  <2> QED BY <1>t, <1>1, <2>1, JobsUntouched DEF Spawn, PoolTypeOK, history
<1>2. CASE SpawnFails \/ AllSpawned \/ Close \/ JoinWorker \/ PoolGone \/ PoolOver \/ UNCHANGED poolVars
 
    BY <1>t, <1>2, JobsUntouched
       DEF SpawnFails, AllSpawned, Close, JoinWorker, PoolGone, PoolOver, poolVars, workers, history
<1>3. CASE TellAll BY <1>t, <1>3, JobsUntouched DEF TellAll, NotifyAll, history
<1>4. ASSUME NEW j \in Job, Execute(j) \/ Notify(j) PROVE JobInv'
  <2>1. job' = job /\ runs' = runs BY <1>4 DEF Execute, Notify, workers, history
  <2>2. \A w \in Worker : pc'[w] = "running" <=> pc[w] = "running"
    BY <1>t, <1>4 DEF Execute, Notify, NotifyOne, Waiting, workers, PoolTypeOK
  <2> QED BY <1>t, <2>1, <2>2, JobsUntouched
<1>5. ASSUME NEW w \in Worker, TakeJob(w) PROVE JobInv'
  <2>1. PICK first : first = Head(jobs) OBVIOUS
  <2>2. /\ pc[w] = "looking" /\ pc' = [pc EXCEPT ![w] = "running"]
        /\ job' = [job EXCEPT ![w] = first] /\ runs' = [runs EXCEPT ![first] = @ + 1]
    BY <1>5, <2>1 DEF TakeJob
  <2>3. first \in Job /\ first # NoJob /\ 1 \in DOMAIN jobs /\ first = jobs[1]
    BY <1>t, <1>5, <2>1, QueueTail, PoolAssumption DEF TakeJob, PoolTypeOK
  <2>4. runs[first] = 0 BY <1>t, <2>3 DEF QueueInv, Queued
  <2>5. \A v \in Worker : job[v] # first BY <2>3, <2>4 DEF JobInv
  <2>6. \A v \in Worker : /\ pc'[v] = IF v = w THEN "running" ELSE pc[v]
                          /\ job'[v] = IF v = w THEN first ELSE job[v]
    BY <1>t, <2>2 DEF PoolTypeOK
  <2>7. \A k \in Job : runs'[k] = IF k = first THEN 1 ELSE runs[k] BY <1>t, <2>2, <2>3, <2>4 DEF PoolTypeOK
  <2> QED BY <1>t, <2>3, <2>5, <2>6, <2>7, SMTT(30) DEF JobInv, PoolTypeOK
<1>6. ASSUME NEW w \in Worker, Sleep(w) \/ Exit(w) \/ SpuriousWakeup(w) PROVE JobInv'
  BY <1>t, <1>6, JobsUntouched DEF Sleep, Exit, SpuriousWakeup, PoolTypeOK, history
<1>7. ASSUME NEW w \in Worker, EndJob(w) PROVE JobInv'
  <2>1. \A v \in Worker : /\ pc'[v] = IF v = w THEN "looking" ELSE pc[v]
                          /\ job'[v] = IF v = w THEN NoJob ELSE job[v]
    BY <1>t, <1>7 DEF EndJob, AfterPanic, PoolTypeOK
  <2>2. runs' = runs BY <1>7 DEF EndJob, history
  <2> QED BY <2>1, <2>2 DEF JobInv
<1> QED
  BY <1>1, <1>2, <1>3, <1>4, <1>5, <1>6, <1>7 DEF PoolNext, Owner, Starting, WorkerStep

LEMMA StepKeepsContract == PoolInv /\ JobInv /\ [PoolNext]_poolVars => [Contract!Next]_<<ExecuteAnswer, Fate>>
<1> SUFFICES ASSUME PoolInv, JobInv, [PoolNext]_poolVars PROVE Contract!Next \/ UNCHANGED <<ExecuteAnswer, Fate>>
  OBVIOUS
<1>t. PoolTypeOK /\ QueueInv BY DEF PoolInv
<1>1. ASSUME UNCHANGED <<job, accepted, runs>> PROVE UNCHANGED <<ExecuteAnswer, Fate>>
  BY <1>1 DEF ExecuteAnswer, Fate
<1>2. CASE Owner \/ Close \/ PoolOver \/ UNCHANGED poolVars
  BY <1>1, <1>2 DEF Owner, Starting, Spawn, SpawnFails, AllSpawned, Close, TellAll, JoinWorker, PoolGone, PoolOver,
                    poolVars, workers, history
<1>3. ASSUME NEW j \in Job, Notify(j) PROVE UNCHANGED <<ExecuteAnswer, Fate>>
  BY <1>1, <1>3 DEF Notify, history
<1>4. ASSUME NEW w \in Worker, Sleep(w) \/ Exit(w) \/ SpuriousWakeup(w) PROVE UNCHANGED <<ExecuteAnswer, Fate>>
  BY <1>1, <1>4 DEF Sleep, Exit, SpuriousWakeup, history
<1>5. ASSUME NEW j \in Job, Execute(j) PROVE Contract!Next
  <2>1. j \notin accepted /\ accepted' = accepted \cup {j} /\ runs' = runs /\ job' = job
    BY <1>5 DEF Execute, workers
  <2>2. runs[j] = 0 BY <1>t, <2>1 DEF QueueInv
  <2>3. ExecuteAnswer[j] = "none" /\ Fate[j] = "held" BY <2>1, <2>2 DEF ExecuteAnswer, Fate
  <2>4. ExecuteAnswer' = [ExecuteAnswer EXCEPT ![j] = "ok"] BY <2>1 DEF ExecuteAnswer
  <2>5. Fate' = Fate BY <2>1 DEF Fate
  <2>6. Contract!Accept(j) BY <2>3, <2>4, <2>5 DEF Contract!Accept
  <2> QED BY <2>6 DEF Contract!Next
<1>6. ASSUME NEW w \in Worker, TakeJob(w) PROVE Contract!Next
  <2>1. PICK first : first = Head(jobs) OBVIOUS
  <2>2. /\ job' = [job EXCEPT ![w] = first] /\ runs' = [runs EXCEPT ![first] = @ + 1]
        /\ accepted' = accepted /\ pc[w] = "looking"
    BY <1>6, <2>1 DEF TakeJob
  <2>3. first \in Job /\ first = jobs[1] /\ 1 \in DOMAIN jobs
    BY <1>t, <1>6, <2>1, QueueTail DEF TakeJob, PoolTypeOK
  <2>4. runs[first] = 0 BY <1>t, <2>3 DEF QueueInv, Queued
  <2>5. /\ \A k \in Job : runs'[k] = IF k = first THEN 1 ELSE runs[k]
        /\ \A v \in Worker : job'[v] = IF v = w THEN first ELSE job[v]
    BY <1>t, <2>2, <2>3, <2>4 DEF PoolTypeOK
  <2>6. job[w] = NoJob BY <2>2 DEF JobInv
  <2>7. Fate[first] = "held" BY <2>3, <2>4 DEF Fate
  <2>8. \A k \in Job : (\E v \in Worker : job'[v] = k) <=> (k = first \/ \E v \in Worker : job[v] = k)
    BY <2>5, <2>6, PoolAssumption
  <2>9. \A k \in Job : Fate'[k] = IF k = first THEN "started" ELSE Fate[k]
    BY <2>3, <2>5, <2>8 DEF Fate
  <2>10. Fate' = [Fate EXCEPT ![first] = "started"] BY <2>9 DEF Fate
  <2>11. ExecuteAnswer' = ExecuteAnswer BY <2>2 DEF ExecuteAnswer
  <2>12. Contract!StartJob(first) BY <2>7, <2>10, <2>11 DEF Contract!StartJob
  <2> QED BY <2>3, <2>12 DEF Contract!Next
<1>7. ASSUME NEW w \in Worker, EndJob(w) PROVE Contract!Next
  <2>1. PICK j \in Job : j = job[w] BY <1>t, <1>7 DEF EndJob, PoolTypeOK, JobInv
  <2>2. j # NoJob /\ runs[j] = 1 BY <2>1, PoolAssumption DEF JobInv
  <2>3. \A v \in Worker : job'[v] = IF v = w THEN NoJob ELSE job[v] BY <1>t, <1>7 DEF EndJob, PoolTypeOK
  <2>4. runs' = runs /\ accepted' = accepted BY <1>7 DEF EndJob, history
  <2>5. ~\E v \in Worker : job'[v] = j BY <2>1, <2>2, <2>3 DEF JobInv
  <2>6. \A k \in Job : k # j => ((\E v \in Worker : job'[v] = k) <=> \E v \in Worker : job[v] = k)
    BY <2>1, <2>3, PoolAssumption
  <2>7. Fate[j] = "started" BY <2>1, <2>2 DEF Fate
  <2>8. \A k \in Job : Fate'[k] = IF k = j THEN "done" ELSE Fate[k] BY <2>2, <2>4, <2>5, <2>6 DEF Fate
  <2>9. Fate' = [Fate EXCEPT ![j] = "done"] BY <2>8 DEF Fate
  <2>10. ExecuteAnswer' = ExecuteAnswer BY <2>4 DEF ExecuteAnswer
  <2>11. Contract!EndJob(j) BY <2>7, <2>9, <2>10 DEF Contract!EndJob
  <2> QED BY <2>11 DEF Contract!Next
<1> QED BY <1>2, <1>3, <1>4, <1>5, <1>6, <1>7 DEF PoolNext, WorkerStep

(* Every step of the pool is a step of the executor contract, or invisible to it: an     *)
(* accepted job is started once and ended once, whoever runs it.                         *)
THEOREM PoolKeepsContract == PoolSpec => Contract!Safety
<1>1. PoolInit => JobInv BY DEF PoolInit, JobInv
<1>2. PoolInit => Contract!Init BY DEF PoolInit, Contract!Init, ExecuteAnswer, Fate
<1> QED BY <1>1, <1>2, InvariantHolds, StepJobInv, StepKeepsContract, PTL DEF PoolSpec, Contract!Safety

-----------------------------------------------------------------------------
(* The Rayon adapter: the same jobs, given to a pool that is not the crate's.            *)

CONSTANTS Parent, Threads, Patient, PoolDrops   \* those of RayonExecutor
VARIABLES calls, closure, pending, ran         \* and its variables
Adapter == INSTANCE RayonExecutor WITH caller <- calls

(* The job is in the mutex exactly until one of the two sides takes it, and the side     *)
(* that took it decides.                                                                 *)
Decided(j) ==
  /\ calls[j] = "idle" => closure[j] = "none"
  /\ calls[j] \in {"receiving", "timed_out"} => closure[j] \in {"queued", "dropped", "announcing"}
  /\ calls[j] = "rejected" => closure[j] \in {"queued", "dropped", "over"}
  /\ calls[j] = "accepted" => closure[j] \notin {"none", "queued", "dropped"}
  /\ j \in ran <=> closure[j] = "running" \/ (closure[j] = "over" /\ calls[j] # "rejected")
  /\ j \in pending <=> calls[j] \in {"receiving", "timed_out"} /\ closure[j] \in {"queued", "dropped"}

AdapterInv == Adapter!TypeOK /\ \A j \in Job : Decided(j)

-----------------------------------------------------------------------------
(* The invariant of the adapter *)

\* A step of one submission leaves the others alone.
LEMMA OthersUndisturbed ==
  ASSUME NEW j \in Job, \A k \in Job : Decided(k),
         \A k \in Job \ {j} : /\ calls'[k] = calls[k] /\ closure'[k] = closure[k]
                              /\ k \in pending' <=> k \in pending
                              /\ k \in ran' <=> k \in ran,
         Decided(j)'
  PROVE  \A k \in Job : Decided(k)'
BY DEF Decided

LEMMA AdapterStepInv == AdapterInv /\ [Adapter!Next]_Adapter!vars => AdapterInv'
<1> SUFFICES ASSUME AdapterInv, [Adapter!Next]_Adapter!vars PROVE AdapterInv'
  OBVIOUS
<1> USE DEF AdapterInv
<1>1. ASSUME NEW j \in Job, Adapter!Call(j) PROVE AdapterInv'
  <2>1. Adapter!TypeOK' BY <1>1 DEF Adapter!Call, Adapter!MayCall, Adapter!TypeOK, Decided
  <2>2. Decided(j)' BY <1>1 DEF Adapter!Call, Adapter!MayCall, Adapter!TypeOK, Decided
  <2>3. \A k \in Job : Decided(k)'
    BY <1>1, <2>2, OthersUndisturbed DEF Adapter!Call, Adapter!MayCall, Adapter!TypeOK
  <2> QED BY <2>1, <2>3
<1>2. ASSUME NEW j \in Job, Adapter!CallWithoutTimeout(j) PROVE AdapterInv'
  <2>1. Adapter!TypeOK' BY <1>2 DEF Adapter!CallWithoutTimeout, Adapter!MayCall, Adapter!TypeOK, Decided
  <2>2. Decided(j)' BY <1>2 DEF Adapter!CallWithoutTimeout, Adapter!MayCall, Adapter!TypeOK, Decided
  <2>3. \A k \in Job : Decided(k)'
    BY <1>2, <2>2, OthersUndisturbed DEF Adapter!CallWithoutTimeout, Adapter!MayCall, Adapter!TypeOK
  <2> QED BY <2>1, <2>3
<1>3. ASSUME NEW j \in Job, Adapter!StartJob(j) PROVE AdapterInv'
  <2>1. Adapter!TypeOK' BY <1>3 DEF Adapter!StartJob, Adapter!TypeOK, Decided
  <2>2. Decided(j)' BY <1>3 DEF Adapter!StartJob, Adapter!TypeOK, Decided
  <2>3. \A k \in Job : Decided(k)' BY <1>3, <2>2, OthersUndisturbed DEF Adapter!StartJob, Adapter!TypeOK
  <2> QED BY <2>1, <2>3
<1>4. ASSUME NEW j \in Job, Adapter!Claim(j) PROVE AdapterInv'
  <2>1. Adapter!TypeOK' BY <1>4 DEF Adapter!Claim, Adapter!Emptied, Adapter!TypeOK, Decided
  <2>2. Decided(j)' BY <1>4 DEF Adapter!Claim, Adapter!Emptied, Adapter!TypeOK, Decided
  <2>3. \A k \in Job : Decided(k)'
    BY <1>4, <2>2, OthersUndisturbed DEF Adapter!Claim, Adapter!Emptied, Adapter!TypeOK
  <2> QED BY <2>1, <2>3
<1>5. ASSUME NEW j \in Job, Adapter!Announce(j) PROVE AdapterInv'
  <2>1. Adapter!TypeOK' BY <1>5 DEF Adapter!Announce, Adapter!TypeOK, Decided
  <2>2. Decided(j)' BY <1>5 DEF Adapter!Announce, Adapter!TypeOK, Decided
  <2>3. \A k \in Job : Decided(k)' BY <1>5, <2>2, OthersUndisturbed DEF Adapter!Announce, Adapter!TypeOK
  <2> QED BY <2>1, <2>3
<1>6. ASSUME NEW j \in Job, Adapter!EndJob(j) PROVE AdapterInv'
  <2>1. Adapter!TypeOK' BY <1>6 DEF Adapter!EndJob, Adapter!TypeOK, Decided
  <2>2. Decided(j)' BY <1>6 DEF Adapter!EndJob, Adapter!TypeOK, Decided
  <2>3. \A k \in Job : Decided(k)' BY <1>6, <2>2, OthersUndisturbed DEF Adapter!EndJob, Adapter!TypeOK
  <2> QED BY <2>1, <2>3
<1>7. ASSUME NEW j \in Job, Adapter!DropClosure(j) PROVE AdapterInv'
  <2>1. Adapter!TypeOK' BY <1>7 DEF Adapter!DropClosure, Adapter!TypeOK, Decided
  <2>2. Decided(j)' BY <1>7 DEF Adapter!DropClosure, Adapter!TypeOK, Decided
  <2>3. \A k \in Job : Decided(k)'
    BY <1>7, <2>2, OthersUndisturbed DEF Adapter!DropClosure, Adapter!TypeOK
  <2> QED BY <2>1, <2>3
<1>8. ASSUME NEW j \in Job, Adapter!Timeout(j) PROVE AdapterInv'
  <2>1. Adapter!TypeOK' BY <1>8 DEF Adapter!Timeout, Adapter!TypeOK, Decided
  <2>2. Decided(j)' BY <1>8 DEF Adapter!Timeout, Adapter!TypeOK, Decided
  <2>3. \A k \in Job : Decided(k)' BY <1>8, <2>2, OthersUndisturbed DEF Adapter!Timeout, Adapter!TypeOK
  <2> QED BY <2>1, <2>3
<1>9. ASSUME NEW j \in Job, Adapter!TakeBack(j) PROVE AdapterInv'
  <2>1. Adapter!TypeOK' BY <1>9 DEF Adapter!TakeBack, Adapter!Verdict, Adapter!TypeOK, Decided
  <2>2. Decided(j)' BY <1>9 DEF Adapter!TakeBack, Adapter!Verdict, Adapter!TypeOK, Decided
  <2>3. \A k \in Job : Decided(k)'
    BY <1>9, <2>2, OthersUndisturbed DEF Adapter!TakeBack, Adapter!Verdict, Adapter!TypeOK
  <2> QED BY <2>1, <2>3
<1>10. ASSUME NEW j \in Job, Adapter!Disconnected(j) PROVE AdapterInv'
  <2>1. Adapter!TypeOK' BY <1>10 DEF Adapter!Disconnected, Adapter!TypeOK, Decided
  <2>2. Decided(j)' BY <1>10 DEF Adapter!Disconnected, Adapter!TypeOK, Decided
  <2>3. \A k \in Job : Decided(k)'
    BY <1>10, <2>2, OthersUndisturbed DEF Adapter!Disconnected, Adapter!TypeOK
  <2> QED BY <2>1, <2>3
<1>11. CASE UNCHANGED Adapter!vars BY <1>11 DEF Adapter!vars, Adapter!TypeOK, Decided
<1> QED
  BY <1>1, <1>2, <1>3, <1>4, <1>5, <1>6, <1>7, <1>8, <1>9, <1>10, <1>11
     DEF Adapter!Next, Adapter!Pool, Adapter!Answering

LEMMA AdapterInvariant == Adapter!Spec => []AdapterInv
<1>1. Adapter!Init => AdapterInv BY DEF Adapter!Init, AdapterInv, Adapter!TypeOK, Decided
<1> QED BY <1>1, AdapterStepInv, PTL DEF Adapter!Spec

(* Every variable of the adapter keeps its type, and a job is in the mutex only while    *)
(* its closure has not been called.                                                      *)
THEOREM ExecutorTypeCorrect == Adapter!Spec => []Adapter!TypeOK
<1>1. AdapterInv => Adapter!TypeOK BY DEF AdapterInv
<1> QED BY <1>1, AdapterInvariant, PTL

(* A submission that was reported as failed is never run, in any race between the        *)
(* deadline and the pool.                                                                *)
THEOREM RefusedJobsNeverRun == Adapter!Spec => []Adapter!RejectedNeverRuns
<1>1. AdapterInv => Adapter!RejectedNeverRuns BY DEF AdapterInv, Decided, Adapter!RejectedNeverRuns
<1> QED BY <1>1, AdapterInvariant, PTL

-----------------------------------------------------------------------------
(* The adapter keeps the contract *)

LEMMA OnlyAnswers ==
  ASSUME NEW j \in Job, NEW a, \A k \in Job : Adapter!Answer'[k] = IF k = j THEN a ELSE Adapter!Answer[k]
  PROVE  Adapter!Answer' = [Adapter!Answer EXCEPT ![j] = a]
BY DEF Adapter!Answer

LEMMA OnlyMoves ==
  ASSUME NEW j \in Job, NEW f, \A k \in Job : Adapter!Fate'[k] = IF k = j THEN f ELSE Adapter!Fate[k]
  PROVE  Adapter!Fate' = [Adapter!Fate EXCEPT ![j] = f]
BY DEF Adapter!Fate

LEMMA AdapterStepKeepsContract == AdapterInv /\ [Adapter!Next]_Adapter!vars
  => [Adapter!Contract!Next]_<<Adapter!Answer, Adapter!Fate>>
<1> SUFFICES ASSUME AdapterInv, [Adapter!Next]_Adapter!vars
             PROVE  Adapter!Contract!Next \/ UNCHANGED <<Adapter!Answer, Adapter!Fate>>
  OBVIOUS
<1> USE DEF AdapterInv
<1>1. ASSUME NEW j \in Job, Adapter!Call(j) PROVE UNCHANGED <<Adapter!Answer, Adapter!Fate>>
  <2>1. \A k \in Job : Adapter!Answer'[k] = Adapter!Answer[k] /\ Adapter!Fate'[k] = Adapter!Fate[k]
    BY <1>1 DEF Adapter!Call, Adapter!MayCall, Adapter!TypeOK, Decided, Adapter!Answer, Adapter!Fate
  <2> QED BY <2>1 DEF Adapter!Answer, Adapter!Fate
<1>2. ASSUME NEW j \in Job, Adapter!Claim(j) PROVE UNCHANGED <<Adapter!Answer, Adapter!Fate>>
  <2>1. \A k \in Job : Adapter!Answer'[k] = Adapter!Answer[k] /\ Adapter!Fate'[k] = Adapter!Fate[k]
    BY <1>2 DEF Adapter!Claim, Adapter!Emptied, Adapter!TypeOK, Decided, Adapter!Answer, Adapter!Fate
  <2> QED BY <2>1 DEF Adapter!Answer, Adapter!Fate
<1>3. ASSUME NEW j \in Job, Adapter!DropClosure(j) PROVE UNCHANGED <<Adapter!Answer, Adapter!Fate>>
  <2>1. \A k \in Job : Adapter!Answer'[k] = Adapter!Answer[k] /\ Adapter!Fate'[k] = Adapter!Fate[k]
    BY <1>3 DEF Adapter!DropClosure, Adapter!TypeOK, Decided, Adapter!Answer, Adapter!Fate
  <2> QED BY <2>1 DEF Adapter!Answer, Adapter!Fate
<1>4. ASSUME NEW j \in Job, Adapter!Timeout(j) PROVE UNCHANGED <<Adapter!Answer, Adapter!Fate>>
  <2>1. \A k \in Job : Adapter!Answer'[k] = Adapter!Answer[k] /\ Adapter!Fate'[k] = Adapter!Fate[k]
    BY <1>4 DEF Adapter!Timeout, Adapter!TypeOK, Decided, Adapter!Answer, Adapter!Fate
  <2> QED BY <2>1 DEF Adapter!Answer, Adapter!Fate
<1>5. ASSUME NEW j \in Job, Adapter!CallWithoutTimeout(j) PROVE Adapter!Contract!Next
  <2>1. Adapter!Answer[j] = "none" /\ Adapter!Fate[j] = "held"
   
      BY <1>5
         DEF Adapter!CallWithoutTimeout, Adapter!MayCall, Adapter!TypeOK, Decided, Adapter!Answer, Adapter!Fate
  <2>2. \A k \in Job : Adapter!Answer'[k] = IF k = j THEN "ok" ELSE Adapter!Answer[k]
    BY <1>5 DEF Adapter!CallWithoutTimeout, Adapter!TypeOK, Adapter!Answer
  <2>3. Adapter!Fate' = Adapter!Fate
    <3>1. \A k \in Job : Adapter!Fate'[k] = Adapter!Fate[k]
      BY <1>5 DEF Adapter!CallWithoutTimeout, Adapter!MayCall, Adapter!TypeOK, Decided, Adapter!Fate
    <3> QED BY <3>1 DEF Adapter!Fate
  <2>4. Adapter!Contract!Accept(j) BY <2>1, <2>2, <2>3, OnlyAnswers DEF Adapter!Contract!Accept
  <2> QED BY <2>4 DEF Adapter!Contract!Next
<1>6. ASSUME NEW j \in Job, Adapter!StartJob(j) PROVE Adapter!Contract!Next
  <2>1. Adapter!Fate[j] = "held" BY <1>6 DEF Adapter!StartJob, Adapter!TypeOK, Decided, Adapter!Fate
  <2>2. \A k \in Job : Adapter!Fate'[k] = IF k = j THEN "started" ELSE Adapter!Fate[k]
    BY <1>6 DEF Adapter!StartJob, Adapter!TypeOK, Decided, Adapter!Fate
  <2>3. Adapter!Answer' = Adapter!Answer BY <1>6 DEF Adapter!StartJob, Adapter!Answer
  <2>4. Adapter!Contract!StartJob(j) BY <2>1, <2>2, <2>3, OnlyMoves DEF Adapter!Contract!StartJob
  <2> QED BY <2>4 DEF Adapter!Contract!Next
<1>7. ASSUME NEW j \in Job, Adapter!Announce(j) PROVE Adapter!Contract!Next
  <2>1. Adapter!Fate[j] = "held" BY <1>7 DEF Adapter!Announce, Adapter!TypeOK, Decided, Adapter!Fate
  <2>2. \A k \in Job : Adapter!Fate'[k] = IF k = j THEN "started" ELSE Adapter!Fate[k]
    BY <1>7 DEF Adapter!Announce, Adapter!TypeOK, Decided, Adapter!Fate
  <2>3. CASE calls[j] = "receiving"
    <3>1. Adapter!Answer[j] = "none" BY <2>3 DEF Adapter!Answer
    <3>2. \A k \in Job : Adapter!Answer'[k] = IF k = j THEN "ok" ELSE Adapter!Answer[k]
      BY <1>7, <2>3 DEF Adapter!Announce, Adapter!TypeOK, Adapter!Answer
    <3>3. Adapter!Answer' =
             [Adapter!Answer EXCEPT ![j] = IF Adapter!Answer[j] = "none" THEN "ok" ELSE Adapter!Answer[j]]
      BY <3>1, <3>2, OnlyAnswers
    <3>4. Adapter!Contract!StartJob(j) BY <2>1, <2>2, <3>3, OnlyMoves DEF Adapter!Contract!StartJob
    <3> QED BY <3>4 DEF Adapter!Contract!Next
  <2>4. CASE calls[j] # "receiving"
    <3>1. Adapter!Answer' = Adapter!Answer BY <1>7, <2>4 DEF Adapter!Announce, Adapter!Answer
    <3>2. Adapter!Contract!StartJob(j) BY <2>1, <2>2, <3>1, OnlyMoves DEF Adapter!Contract!StartJob
    <3> QED BY <3>2 DEF Adapter!Contract!Next
  <2> QED BY <2>3, <2>4
<1>8. ASSUME NEW j \in Job, Adapter!EndJob(j) PROVE Adapter!Contract!Next
  <2>1. Adapter!Fate[j] = "started" BY <1>8 DEF Adapter!EndJob, Adapter!TypeOK, Decided, Adapter!Fate
  <2>2. \A k \in Job : Adapter!Fate'[k] = IF k = j THEN "done" ELSE Adapter!Fate[k]
    BY <1>8 DEF Adapter!EndJob, Adapter!TypeOK, Decided, Adapter!Fate
  <2>3. Adapter!Answer' = Adapter!Answer BY <1>8 DEF Adapter!EndJob, Adapter!Answer
  <2>4. Adapter!Contract!EndJob(j) BY <2>1, <2>2, <2>3, OnlyMoves DEF Adapter!Contract!EndJob
  <2> QED BY <2>4 DEF Adapter!Contract!Next
<1>9. ASSUME NEW j \in Job, Adapter!TakeBack(j) PROVE Adapter!Contract!Next
  <2>1. Adapter!Answer[j] = "none" BY <1>9 DEF Adapter!TakeBack, Adapter!Answer
  <2>2. CASE j \in pending
    <3>1. \A k \in Job : Adapter!Answer'[k] = IF k = j THEN "error" ELSE Adapter!Answer[k]
      BY <1>9, <2>2 DEF Adapter!TakeBack, Adapter!Verdict, Adapter!TypeOK, Adapter!Answer
    <3>2. \A k \in Job : Adapter!Fate'[k] = IF k = j THEN "discarded" ELSE Adapter!Fate[k]
      BY <1>9, <2>2 DEF Adapter!TakeBack, Adapter!Verdict, Adapter!TypeOK, Decided, Adapter!Fate
    <3>3. Adapter!Fate[j] = "held"
      BY <1>9, <2>2 DEF Adapter!TakeBack, Adapter!TypeOK, Decided, Adapter!Fate
    <3>4. Adapter!Contract!Reject(j)
      BY <2>1, <3>1, <3>2, <3>3, OnlyAnswers, OnlyMoves DEF Adapter!Contract!Reject
    <3> QED BY <3>4 DEF Adapter!Contract!Next
  <2>3. CASE j \notin pending
    <3>1. \A k \in Job : Adapter!Answer'[k] = IF k = j THEN "ok" ELSE Adapter!Answer[k]
      BY <1>9, <2>3 DEF Adapter!TakeBack, Adapter!Verdict, Adapter!TypeOK, Adapter!Answer
    <3>2. \A k \in Job : Adapter!Fate'[k] = Adapter!Fate[k]
      BY <1>9, <2>3 DEF Adapter!TakeBack, Adapter!Verdict, Adapter!TypeOK, Decided, Adapter!Fate
    <3>3. Adapter!Fate' = Adapter!Fate BY <3>2 DEF Adapter!Fate
    <3>4. Adapter!Fate[j] # "discarded"
      BY <1>9, <2>3 DEF Adapter!TakeBack, Adapter!TypeOK, Decided, Adapter!Fate
    <3>5. Adapter!Contract!Accept(j) BY <2>1, <3>1, <3>3, <3>4, OnlyAnswers DEF Adapter!Contract!Accept
    <3> QED BY <3>5 DEF Adapter!Contract!Next
  <2> QED BY <2>2, <2>3
<1>10. ASSUME NEW j \in Job, Adapter!Disconnected(j) PROVE Adapter!Contract!Next
  <2>1. Adapter!Answer[j] = "none" BY <1>10 DEF Adapter!Disconnected, Adapter!Answer
  <2>2. \A k \in Job : Adapter!Answer'[k] = IF k = j THEN "error" ELSE Adapter!Answer[k]
    BY <1>10 DEF Adapter!Disconnected, Adapter!TypeOK, Adapter!Answer
  <2>3. Adapter!Fate[j] = "held"
    BY <1>10 DEF Adapter!Disconnected, Adapter!TypeOK, Decided, Adapter!Fate
  <2>4. \A k \in Job : Adapter!Fate'[k] = IF k = j THEN "discarded" ELSE Adapter!Fate[k]
    BY <1>10 DEF Adapter!Disconnected, Adapter!TypeOK, Decided, Adapter!Fate
  <2>5. Adapter!Contract!Reject(j)
    BY <2>1, <2>2, <2>3, <2>4, OnlyAnswers, OnlyMoves DEF Adapter!Contract!Reject
  <2> QED BY <2>5 DEF Adapter!Contract!Next
<1>11. CASE UNCHANGED Adapter!vars BY <1>11 DEF Adapter!vars, Adapter!Answer, Adapter!Fate
<1> QED
 
    BY <1>1, <1>2, <1>3, <1>4, <1>5, <1>6, <1>7, <1>8, <1>9, <1>10, <1>11
       DEF Adapter!Next, Adapter!Pool, Adapter!Answering

(* Every step of the adapter is a step of the executor contract, or invisible to it: a   *)
(* job is accepted and run once, or refused and given back.                              *)
THEOREM AdapterKeepsContract == Adapter!Spec => Adapter!Contract!Safety
<1>1. Adapter!Init => Adapter!Contract!Init
  BY DEF Adapter!Init, Adapter!Contract!Init, Adapter!Answer, Adapter!Fate
<1> QED
  BY <1>1, AdapterInvariant, AdapterStepKeepsContract, PTL DEF Adapter!Spec, Adapter!Contract!Safety
=============================================================================
