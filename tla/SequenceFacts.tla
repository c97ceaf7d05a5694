--------------------------- MODULE SequenceFacts ---------------------------
(***************************************************************************)
(* Facts about sequences, finite sets of numbers and products that the     *)
(* proofs of several components rest on.                                   *)
(***************************************************************************)
EXTENDS Integers, Sequences, SequencesExt, FiniteSetTheorems, TLAPS

-----------------------------------------------------------------------------
(* Sequences *)

LEMMA TailFacts ==
  ASSUME NEW S, NEW q \in Seq(S), q # <<>>
  PROVE  /\ Head(q) \in S /\ Tail(q) \in Seq(S) /\ Len(Tail(q)) = Len(q) - 1
         /\ 1 \in DOMAIN q /\ q[1] = Head(q) /\ Len(q) > 0
         /\ \A i \in DOMAIN Tail(q) : i + 1 \in DOMAIN q /\ Tail(q)[i] = q[i + 1]
         /\ \A i \in DOMAIN q : i # 1 => i - 1 \in DOMAIN Tail(q) /\ Tail(q)[i - 1] = q[i]
OBVIOUS

LEMMA AppendFacts ==
  ASSUME NEW S, NEW q \in Seq(S), NEW x \in S
  PROVE  /\ Append(q, x) \in Seq(S) /\ Len(Append(q, x)) = Len(q) + 1
         /\ Len(q) + 1 \in DOMAIN Append(q, x) /\ Append(q, x)[Len(q) + 1] = x
         /\ \A i \in DOMAIN q : i \in DOMAIN Append(q, x) /\ Append(q, x)[i] = q[i]
         /\ \A i \in DOMAIN Append(q, x) : i \in DOMAIN q \/ i = Len(q) + 1
OBVIOUS

LEMMA ConcatFacts ==
  ASSUME NEW S, NEW q \in Seq(S), NEW r \in Seq(S)
  PROVE  /\ q \o r \in Seq(S) /\ Len(q \o r) = Len(q) + Len(r)
         /\ \A i \in DOMAIN (q \o r) :
              \/ i \in DOMAIN q /\ (q \o r)[i] = q[i]
              \/ i \notin DOMAIN q /\ i - Len(q) \in DOMAIN r /\ (q \o r)[i] = r[i - Len(q)]
         /\ \A i \in DOMAIN q : i \in DOMAIN (q \o r) /\ (q \o r)[i] = q[i]
         /\ \A i \in DOMAIN r : i + Len(q) \in DOMAIN (q \o r) /\ (q \o r)[i + Len(q)] = r[i]
OBVIOUS

LEMMA FrontFacts ==
  ASSUME NEW S, NEW q \in Seq(S), q # <<>>
  PROVE  /\ Last(q) \in S /\ Front(q) \in Seq(S) /\ Len(Front(q)) = Len(q) - 1
         /\ Len(q) \in DOMAIN q /\ q[Len(q)] = Last(q)
         /\ \A i \in DOMAIN Front(q) : i \in DOMAIN q /\ i # Len(q) /\ Front(q)[i] = q[i]
<1>1. Len(q) \in Nat /\ Len(q) > 0 /\ DOMAIN q = 1 .. Len(q) /\ \A i \in 1 .. Len(q) : q[i] \in S
  OBVIOUS
<1>2. Len(q) \in DOMAIN q /\ q[Len(q)] = Last(q) /\ Last(q) \in S
  BY <1>1 DEF Last
<1>3. Front(q) = [i \in 1 .. Len(q) - 1 |-> q[i]]
  BY <1>1 DEF Front
<1>4. Front(q) \in [1 .. Len(q) - 1 -> S]
  BY <1>1, <1>3
<1>5. \A n \in Nat : \A f \in [1 .. n -> S] : f \in Seq(S) /\ Len(f) = n
  OBVIOUS
<1>6. Front(q) \in Seq(S) /\ Len(Front(q)) = Len(q) - 1
  <2>1. Len(q) - 1 \in Nat
    BY <1>1
  <2> QED BY <1>4, <1>5, <2>1
<1> QED BY <1>1, <1>2, <1>3, <1>6

LEMMA NothingThere ==
  ASSUME NEW S, NEW s \in Seq(S), Len(s) = 0
  PROVE  s = << >>
OBVIOUS

\* A part of a sequence holds its elements, wherever the part ends.
LEMMA PartFacts ==
  ASSUME NEW S, NEW s \in Seq(S), NEW m \in Nat \ {0}, NEW e \in Int, e <= Len(s)
  PROVE  /\ SubSeq(s, m, e) \in Seq(S)
         /\ \A k \in DOMAIN SubSeq(s, m, e) :
              m + k - 1 \in DOMAIN s /\ SubSeq(s, m, e)[k] = s[m + k - 1]
<1>1. CASE e >= m - 1
  BY <1>1
<1>2. CASE e < m - 1
  BY <1>2
<1> QED BY <1>1, <1>2

LEMMA RemoveAtType ==
  ASSUME NEW S, NEW q \in Seq(S), NEW i \in DOMAIN q
  PROVE  RemoveAt(q, i) \in Seq(S)
<1>1. i \in 1 .. Len(q)
  OBVIOUS
<1>2. SubSeq(q, 1, i - 1) \in Seq(S) /\ SubSeq(q, i + 1, Len(q)) \in Seq(S)
  BY <1>1
<1> QED BY <1>2 DEF RemoveAt

-----------------------------------------------------------------------------
(* The place of a number among the smaller ones of a set *)

Earlier(S, i) == {j \in S : j < i}

LEMMA EarlierBounds ==
  ASSUME NEW S \in SUBSET Nat, IsFiniteSet(S), NEW i \in S
  PROVE  /\ IsFiniteSet(Earlier(S, i))
         /\ Cardinality(Earlier(S, i)) \in 0 .. Cardinality(S) - 1
<1>1. Earlier(S, i) \in SUBSET S /\ Earlier(S, i) # S
  <2>1. i \notin Earlier(S, i)
    BY DEF Earlier
  <2> QED BY <2>1 DEF Earlier
<1>2. /\ IsFiniteSet(Earlier(S, i))
      /\ Cardinality(Earlier(S, i)) <= Cardinality(S)
      /\ Cardinality(Earlier(S, i)) # Cardinality(S)
  BY <1>1, FS_Subset
<1> QED BY <1>2, FS_CardinalityType

LEMMA EarlierGrows ==
  ASSUME NEW S \in SUBSET Nat, IsFiniteSet(S), NEW i \in S, NEW j \in S, i < j
  PROVE  Cardinality(Earlier(S, i)) < Cardinality(Earlier(S, j))
<1>1. Earlier(S, i) \in SUBSET Earlier(S, j) /\ Earlier(S, i) # Earlier(S, j)
  <2>1. i \in Earlier(S, j) /\ i \notin Earlier(S, i)
    BY DEF Earlier
  <2>2. \A k \in Earlier(S, i) : k \in Earlier(S, j)
    BY DEF Earlier
  <2> QED BY <2>1, <2>2
<1>2. /\ Cardinality(Earlier(S, i)) <= Cardinality(Earlier(S, j))
      /\ Cardinality(Earlier(S, i)) # Cardinality(Earlier(S, j))
  BY <1>1, EarlierBounds, FS_Subset
<1> QED BY <1>2, EarlierBounds

LEMMA EarlierInjective ==
  ASSUME NEW S \in SUBSET Nat, IsFiniteSet(S), NEW i \in S, NEW j \in S,
         Cardinality(Earlier(S, i)) = Cardinality(Earlier(S, j))
  PROVE  i = j
<1>1. ~(i < j) /\ ~(j < i)
  BY EarlierGrows, EarlierBounds
<1> QED BY <1>1

\* Every place below the size of the set is that of one of its numbers.
LEMMA EarlierOnto ==
  ASSUME NEW S \in SUBSET Nat, IsFiniteSet(S), NEW n \in 0 .. Cardinality(S) - 1
  PROVE  \E i \in S : Cardinality(Earlier(S, i)) = n
<1> DEFINE T == 0 .. Cardinality(S) - 1
           f == [i \in S |-> Cardinality(Earlier(S, i))]
<1>1. \A i \in S : Cardinality(Earlier(S, i)) \in T
  BY EarlierBounds
<1>2. \A i, j \in S : f[i] = f[j] => i = j
  BY EarlierInjective
<1>3. Cardinality(S) \in Nat
  BY FS_CardinalityType
<1>4. IsFiniteSet(T) /\ Cardinality(T) = Cardinality(S)
  <2>1. Cardinality(S) - 1 \in Int /\ 0 \in Int
    BY <1>3
  <2>2. IsFiniteSet(T) /\ Cardinality(T) = IF 0 > Cardinality(S) - 1 THEN 0 ELSE Cardinality(S) - 1 - 0 + 1
    BY <2>1, FS_Interval
  <2> QED BY <2>2, <1>3
<1>5. f \in Injection(S, T)
  BY <1>1, <1>2 DEF Injection, IsInjective
<1>6. f \in Surjection(S, T)
  BY <1>4, <1>5, FS_Injection
<1>7. \E i \in S : f[i] = n
  BY <1>6 DEF Surjection
<1> QED BY <1>7

LEMMA LeastNumber ==
  ASSUME NEW n \in Nat, NEW S \in SUBSET (1 .. n), S # {}
  PROVE  \E m \in S : \A x \in S : ~(x < m)
<1>1. S \in SUBSET Nat /\ IsFiniteSet(S)
  <2>1. IsFiniteSet(1 .. n)
    BY FS_Interval
  <2>2. IsFiniteSet(S)
    BY <2>1, FS_Subset
  <2> QED BY <2>2
<1>2. Cardinality(S) \in Nat /\ Cardinality(S) # 0
  BY <1>1, FS_CardinalityType, FS_EmptySet
<1>3. PICK m \in S : Cardinality(Earlier(S, m)) = 0
  BY <1>1, <1>2, EarlierOnto
<1>4. Earlier(S, m) = {}
  BY <1>1, <1>3, EarlierBounds, FS_EmptySet
<1> QED BY <1>4 DEF Earlier

-----------------------------------------------------------------------------
(* The values of a function over a finite set *)

LEMMA ImageFacts ==
  ASSUME NEW S, IsFiniteSet(S), NEW f
  PROVE  /\ IsFiniteSet({f[x] : x \in S})
         /\ (\A x, y \in S : f[x] = f[y] => x = y) => Cardinality({f[x] : x \in S}) = Cardinality(S)
<1> DEFINE T == {f[x] : x \in S}
           g == [x \in S |-> f[x]]
<1>1. g \in Surjection(S, T)
  BY DEF Surjection
<1>2. IsFiniteSet(T) /\ (Cardinality(T) = Cardinality(S) <=> g \in Injection(S, T))
  BY <1>1, FS_Surjection
<1>3. (\A x, y \in S : f[x] = f[y] => x = y) => g \in Injection(S, T)
  BY DEF Injection, IsInjective
<1> QED BY <1>2, <1>3
\* The first n pieces joined, one after the other.
Joins(s, n, g) ==
    g = [i \in 1 .. n |-> IF i = 1 THEN s[i] ELSE g[i - 1] \o s[i]]

LEMMA JoinExists ==
  ASSUME NEW s, NEW n \in Nat
  PROVE  \E g : Joins(s, n, g)
<1> DEFINE Bad == {k \in 1 .. n : ~ \E g : Joins(s, k, g)}
<1>1. \E g : Joins(s, 0, g)
  <2> PICK g : g = [i \in 1 .. 0 |-> s[i]]
    OBVIOUS
  <2>1. 1 .. 0 = {}
    OBVIOUS
  <2> QED BY <2>1 DEF Joins
<1>2. ASSUME NEW k \in Nat, NEW g, Joins(s, k, g) PROVE \E h : Joins(s, k + 1, h)
  <2> PICK h : h = [i \in 1 .. (k + 1) |-> IF i = 1 THEN s[i]
                                           ELSE IF i = k + 1 THEN g[k] \o s[i] ELSE g[i]]
    OBVIOUS
  <2>1. \A i \in 1 .. k : g[i] = IF i = 1 THEN s[i] ELSE g[i - 1] \o s[i]
    BY <1>2 DEF Joins
  <2>2. \A i \in 1 .. k : h[i] = g[i]
    BY <2>1
  <2>3. ASSUME NEW i \in 1 .. (k + 1)
        PROVE  h[i] = IF i = 1 THEN s[i] ELSE h[i - 1] \o s[i]
    <3>1. CASE i = 1
      BY <3>1
    <3>2. CASE i # 1 /\ i = k + 1
      <4>1. h[i] = g[k] \o s[i]
        BY <3>2
      <4>2. i - 1 = k /\ k \in 1 .. k
        BY <3>2
      <4>3. h[i - 1] = g[k]
        BY <2>2, <4>2
      <4> QED BY <3>2, <4>1, <4>3
    <3>3. CASE i # 1 /\ i # k + 1
      <4>1. i \in 1 .. k /\ i - 1 \in 1 .. k
        BY <3>3
      <4> QED BY <2>1, <2>2, <3>3, <4>1
    <3> QED BY <3>1, <3>2, <3>3
  <2>4. Joins(s, k + 1, h)
    BY <2>3 DEF Joins
  <2> QED BY <2>4
<1>3. Bad = {}
  <2> SUFFICES ASSUME Bad # {} PROVE FALSE
    OBVIOUS
  <2>1. PICK m \in Bad : \A x \in Bad : ~(x < m)
    BY LeastNumber
  <2>2. m \in 1 .. n /\ m - 1 \in Nat /\ (m - 1) + 1 = m
    OBVIOUS
  <2>3. \E g : Joins(s, m - 1, g)
    <3>1. CASE m = 1
      BY <1>1, <3>1
    <3>2. CASE m # 1
      <4>1. m - 1 \in 1 .. n /\ m - 1 < m
        BY <2>2, <3>2
      <4> QED BY <2>1, <4>1
    <3> QED BY <3>1, <3>2
  <2>4. \E g : Joins(s, m, g)
    BY <1>2, <2>2, <2>3
  <2> QED BY <2>4
<1> QED
  <2>1. CASE n = 0
    BY <1>1, <2>1
  <2>2. CASE n # 0
    <3>1. n \in 1 .. n
      BY <2>2
    <3> QED BY <1>3, <3>1
  <2> QED BY <2>1, <2>2

LEMMA FlattenIs ==
  ASSUME NEW s, Len(s) \in Nat, Len(s) # 0
  PROVE  \E g : Joins(s, Len(s), g) /\ FlattenSeq(s) = g[Len(s)]
<1> DEFINE g == CHOOSE h : Joins(s, Len(s), h)
<1>1. Joins(s, Len(s), g)
  BY JoinExists
<1>2. FlattenSeq(s) = g[Len(s)]
  BY DEF FlattenSeq, Joins
<1> HIDE DEF g
<1> QED BY <1>1, <1>2
-----------------------------------------------------------------------------
(* Products and quotients *)

LEMMA QuotientFacts ==
  ASSUME NEW a \in Nat, NEW b \in Nat, b > 0
  PROVE  /\ a \div b \in Nat /\ (a \div b) * b <= a /\ a < ((a \div b) * b) + b
OBVIOUS

LEMMA TimesFacts ==
  ASSUME NEW a \in Nat, NEW b \in Nat, NEW s \in Nat, s > 0
  PROVE  /\ a * s \in Nat /\ (a + 1) * s = (a * s) + s
         /\ a <= b => a * s <= b * s
         /\ a * s < b * s => a < b
<1>1. a * s \in Nat /\ b * s \in Nat
  OBVIOUS
<1>2. (a + 1) * s = (a * s) + s
  OBVIOUS
<1>3. ASSUME a <= b PROVE a * s <= b * s
  <2> PICK d \in Nat : d = b - a
    BY <1>3
  <2>1. b * s = (a * s) + (d * s) /\ d * s \in Nat
    <3>1. b = a + d
      OBVIOUS
    <3> QED BY <3>1
  <2> QED BY <1>1, <2>1
<1>4. ASSUME b <= a PROVE b * s <= a * s
  <2> PICK d \in Nat : d = a - b
    BY <1>4
  <2>1. a * s = (b * s) + (d * s) /\ d * s \in Nat
    <3>1. a = b + d
      OBVIOUS
    <3> QED BY <3>1
  <2> QED BY <1>1, <2>1
<1> QED BY <1>1, <1>2, <1>3, <1>4
=============================================================================
