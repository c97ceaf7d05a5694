--------------------------- MODULE DiscoveryProofs ---------------------------
(***************************************************************************)
(* Proofs about module Discovery: for every tree, every rule files and     *)
(* overrides, every plan and every order of delivery, a scan selects what  *)
(* the policy selects, and its report explains every file of the tree.     *)
(*                                                                         *)
(* The inductive invariant has a part for each thing the proofs rest on:   *)
(*   TypeInv      the variables have their types;                          *)
(*   PreparedInv  the matcher has prepared what an entry to come needs;    *)
(*   OnceInv      no entry is come to twice, nor after one below it;       *)
(*   CoverInv     a file that is not selected is skipped, below something  *)
(*                skipped, or still to come;                               *)
(*   ReportInv    reported, chunk and rest share the files selected;       *)
(*   PolicyInv    the rules prepared for a directory are the rules of the  *)
(*                directory, so that what is selected and what is still to *)
(*                come make up the policy's files.                         *)
(* PolicyInv says nothing of the fallback: there the rules prepared depend *)
(* on the first entry delivered, and the scan may select other files.      *)
(* UncutInv adds that no budget has taken any of them from a full scan     *)
(* that reports no reason to terminate; with it the scan is compared with  *)
(* the matcher that decides a path on its own.                             *)
(***************************************************************************)
EXTENDS Discovery, SequenceFacts

Files == ToSet(FilesInOrder)
Dirs  == {d \in DOMAIN Tree : IsDir(d)}

\* The directories above an entry, from the scan root down.
Over(e) == IF e = ScanRoot THEN {} ELSE Between(e) \cup {ScanRoot}

ItemSet == [path : DOMAIN Tree, failed : BOOLEAN]

InFrames(frames) == UNION {frames[k] : k \in DOMAIN frames}

FramesOK(frames) ==
    /\ frames \in Seq(SUBSET ItemSet)
    /\ \A j, k \in DOMAIN frames : j # k => frames[j] \cap frames[k] = {}

Waiting == {e \in DOMAIN Tree : Item(e) \in InFrames(todo)}
Unread  == {d \in DOMAIN Tree : FailedItem(d) \in InFrames(todo)}

SkippedPaths == {s.path : s \in skipped}
Touched      == selected \cup SkippedPaths

-----------------------------------------------------------------------------
(* Types *)

WalkKinds == {"StandardDirectory", "Extension", "Oversized", "Symlink", "MaxDepth",
              "Ignored", "Override", "Hidden", "IoError"}
Kinds     == WalkKinds \cup {"ScanLimit"}

AllRules  == UNION {ToSet(RulesOfFile[file]) : file \in DOMAIN RuleFiles}
AllLayers == [base : Seq(STRING), rules : Seq(AllRules)]
             \cup UNION {ToSet(StaticRules[rank]) : rank \in Ranks}
RulesTyped(rules) == \A rank \in Ranks : rules[rank] \in Seq(AllLayers)

TypeInv ==
    /\ plan \in Plans
    /\ stage \in {"walks", "walked", "inspects", "ended"}
    /\ found \subseteq Dirs
    /\ entries \in Nat
    /\ selected \subseteq Files
    /\ skipped \subseteq [path : DOMAIN Tree, kind : Kinds]
    /\ termination \in {None, "Interrupted", "MaxEntries", "MaxTotalBytes"}
    /\ cancelled \in BOOLEAN /\ warned \in BOOLEAN /\ error \in BOOLEAN /\ stopped \in BOOLEAN
    /\ stage = "walks" => termination = None
    /\ stage # "ended" => ~error

\* What is known of the rule files on the way to an entry.
WaysTo == {SubSeq(ScanRoot, 1, n) : n \in 0 .. Len(ScanRoot)}

Ready(e) ==
    \/ e = ScanRoot
    \/ plan.mode # "fallback" /\ Parent(e) \in DOMAIN prepared
    \/ plan.mode = "fallback" /\ (Parent(e) = ScanRoot \/ Parent(Parent(e)) \in DOMAIN prepared)

PreparedInv ==
    /\ WaysTo \subseteq DOMAIN prepared
    /\ DOMAIN prepared \subseteq WaysTo \cup Dirs
    /\ \A d \in DOMAIN prepared : RulesTyped(prepared[d])
    /\ stage = "walks" =>
        /\ \A e \in Waiting : Ready(e)
        /\ \A d \in found : d = ScanRoot \/ Parent(d) \in DOMAIN prepared

-----------------------------------------------------------------------------
(* No entry is come to twice *)

\* Of what is still to come - entries waiting, directories that failed, directories
\* found - none is above another or above what has been handled.
Apart(waiting, unread, kept, touched) ==
    /\ unread \subseteq Dirs /\ waiting \cap unread = {}
    /\ \A a, b \in waiting \cup unread \cup kept : a \notin Over(b)
    /\ touched \cap waiting = {}
    /\ \A t \in touched : \A a \in waiting \cup unread \cup kept : a \notin Over(t)

OnceInv ==
    /\ stage = "walks" =>
        /\ FramesOK(todo)
        /\ plan.mode # "parallel" => found = {}
        /\ Apart(Waiting, Unread, found, Touched)
    /\ stage \in {"walks", "walked"} => selected \cap SkippedPaths = {}

(* No entry is left out *)

SkipTold(e) == \E s \in skipped : s.path = e \/ s.path \in Over(e)

Known(e) == e \in selected \/ SkipTold(e) \/ Depth(e) < EffectiveMinDepth

Expected(e) ==
    \/ \E a \in Waiting : a = e \/ a \in Over(e)
    \/ \E a \in found \cup Unread : a \in Over(e)

Complete == plan.api \in {"full", "compact"}

CoverInv ==
    Complete =>
        /\ stage = "walks" => \A e \in DOMAIN Tree : ~IsDir(e) => Known(e) \/ Expected(e)
        /\ stage = "walked" /\ WalkedAll /\ ~cancelled =>
              \A e \in DOMAIN Tree : ~IsDir(e) => Known(e)
        /\ stage \in {"inspects", "ended"} /\ WalkedAll /\ ~error =>
              \A e \in DOMAIN Tree : ~IsDir(e) => Known(e)

-----------------------------------------------------------------------------
(* The report *)

Listed == reported \cup chunk \cup rest

ReportInv ==
    /\ stage \in {"walks", "walked"} =>
        /\ Listed = {} /\ ~stopped
        /\ \A s \in skipped : s.kind # "ScanLimit"
        /\ termination # "MaxTotalBytes"
    /\ stage = "inspects" => plan.api # "paths"
    /\ stage = "ended" /\ error => Listed \subseteq selected
    /\ chunk \cap reported = {} /\ rest \cap (chunk \cup reported) = {}
    /\ termination = "Interrupted" => cancelled
    /\ stage \in {"inspects", "ended"} /\ ~error =>
        /\ Listed \subseteq selected
        /\ ~cancelled /\ ~stopped /\ ~CutsShort => selected \subseteq Listed
        /\ Complete => selected \subseteq Listed \cup SkippedPaths
        /\ (\E s \in skipped : s.kind = "ScanLimit") => termination # None
        /\ SkippedPaths \cap Listed = {}
        /\ stopped => plan.api = "stream"
        /\ plan.api = "compact" /\ ~plan.inspects /\ chunk # {} => rest = {}
        /\ stage = "ended" => chunk = {} /\ rest = {}

-----------------------------------------------------------------------------
(* The policy *)

\* The walk may come to an entry: all that is above it is read and descended into.
Reached(e) == \A a \in Over(e) : PolicyDecision(a) = "Descend" /\ a \notin plan.unreadable

PolicyInv ==
    plan.mode # "fallback" =>
        /\ \A d \in DOMAIN prepared : prepared[d] = RulesOf(d)
        /\ stage = "walks" =>
            /\ \A e \in Waiting : Reached(e)
            /\ \A d \in found : Reached(d) /\ PolicyDecision(d) = "Descend"
            /\ \A e \in Policy :
                 \/ e \in selected
                 \/ \E a \in Waiting : a = e \/ a \in Over(e)
                 \/ \E a \in found : a \in Over(e)
        /\ selected \subseteq Policy
        /\ stage = "walked" /\ WalkedAll /\ ~cancelled => selected = Policy
        /\ stage \in {"inspects", "ended"} /\ ~error /\ WalkedAll /\ ~cancelled => selected = Manifest

-----------------------------------------------------------------------------
(* Paths *)

Pre(e, n) == SubSeq(e, 1, n)

LEMMA PreFacts ==
  ASSUME NEW S, NEW e \in Seq(S), NEW n \in 0 .. Len(e)
  PROVE  /\ Pre(e, n) \in Seq(S) /\ Len(Pre(e, n)) = n
         /\ \A i \in 1 .. n : Pre(e, n)[i] = e[i]
         /\ \A m \in 0 .. n : Pre(Pre(e, n), m) = Pre(e, m)
         /\ n = Len(e) => Pre(e, n) = e
BY DEF Pre

LEMMA EntryFacts ==
  ASSUME NEW e \in DOMAIN Tree
  PROVE  /\ e \in Seq(STRING) /\ Len(e) \in Nat /\ Len(ScanRoot) \in Nat /\ ScanRoot \in Seq(STRING)
         /\ Len(ScanRoot) <= Len(e) /\ Pre(e, Len(ScanRoot)) = ScanRoot
         /\ e # ScanRoot => Len(ScanRoot) < Len(e) /\ Parent(e) \in Dirs /\ Parent(e) = Pre(e, Len(e) - 1)
<1>1. e \in Seq(STRING) /\ ScanRoot \in Seq(STRING) /\ ScanRoot \in DOMAIN Tree
  BY DiscoveryConstants
<1>2. CASE e = ScanRoot
  BY <1>1, <1>2, PreFacts
<1>3. CASE e # ScanRoot
  <2>1. Candidate(e, ScanRoot) /\ Parent(e) \in Dirs
    BY <1>3, DiscoveryConstants DEF Dirs, IsDir, Kind
  <2>2. Len(ScanRoot) < Len(e) /\ Pre(ScanRoot, Len(ScanRoot)) = Pre(e, Len(ScanRoot))
    BY <1>1, <2>1 DEF Candidate, IsPrefix, Pre
  <2>3. Pre(e, Len(ScanRoot)) = ScanRoot
    <3>1. Len(ScanRoot) \in 0 .. Len(ScanRoot)
      BY <1>1
    <3> QED BY <1>1, <2>2, <3>1, PreFacts
  <2>4. Parent(e) = Pre(e, Len(e) - 1)
    BY DEF Parent, Pre
  <2> QED BY <1>1, <2>1, <2>2, <2>3, <2>4
<1> QED BY <1>2, <1>3

\* Every directory on the way from the scan root to an entry is one of the tree.
LEMMA WayFacts ==
  ASSUME NEW e \in DOMAIN Tree, NEW n \in Len(ScanRoot) .. Len(e)
  PROVE  Pre(e, n) \in DOMAIN Tree /\ (n < Len(e) => Pre(e, n) \in Dirs)
<1>1. e \in Seq(STRING) /\ Len(e) \in Nat /\ Len(ScanRoot) \in Nat /\ Len(ScanRoot) <= Len(e)
  BY EntryFacts
<1> DEFINE Good(m) == Pre(e, m) \in DOMAIN Tree /\ (m < Len(e) => Pre(e, m) \in Dirs)
           Bad     == {d \in 1 .. (Len(e) + 1) : Len(e) + 1 - d \in Len(ScanRoot) .. Len(e) /\ ~Good(Len(e) + 1 - d)}
<1>2. Bad = {}
  <2> SUFFICES ASSUME Bad # {} PROVE FALSE
    OBVIOUS
  <2>1. PICK d \in Bad : \A x \in Bad : ~(x < d)
    <3>1. Bad \in SUBSET (1 .. (Len(e) + 1)) /\ Len(e) + 1 \in Nat
      BY <1>1
    <3> HIDE DEF Bad
    <3> QED BY <3>1, LeastNumber
  <2>2. PICK m \in Len(ScanRoot) .. Len(e) : m = Len(e) + 1 - d
    OBVIOUS
  <2>3. ~Good(m) /\ d \in 1 .. (Len(e) + 1)
    BY <2>2
  <2>4. m # Len(e)
    <3>1. Good(Len(e))
      <4>1. Len(e) \in 0 .. Len(e)
        BY <1>1
      <4>2. Pre(e, Len(e)) = e
        BY <1>1, <4>1, PreFacts
      <4> QED BY <4>2
    <3> QED BY <2>3, <3>1
  <2>5. d - 1 \in 1 .. (Len(e) + 1) /\ Len(e) + 1 - (d - 1) = m + 1 /\ m + 1 \in Len(ScanRoot) .. Len(e)
    BY <1>1, <2>2, <2>3, <2>4
  <2>6. Good(m + 1)
    <3>1. d - 1 < d
      BY <2>3
    <3>2. d - 1 \notin Bad
      <4> HIDE DEF Bad
      <4> QED BY <2>1, <3>1
    <3> QED BY <2>5, <3>2
  <2>7. Pre(e, m + 1) \in DOMAIN Tree /\ Len(Pre(e, m + 1)) = m + 1 /\ Pre(Pre(e, m + 1), m) = Pre(e, m)
    <3>1. PICK k \in 0 .. Len(e) : k = m + 1 /\ m \in 0 .. k
      <4>1. m + 1 \in 0 .. Len(e) /\ m \in 0 .. (m + 1)
        BY <1>1, <2>2, <2>5
      <4> QED BY <4>1
    <3>2. Len(Pre(e, k)) = k /\ Pre(Pre(e, k), m) = Pre(e, m)
      BY <1>1, <3>1, PreFacts
    <3> QED BY <2>6, <3>1, <3>2
  <2>8. Pre(e, m + 1) # ScanRoot
    BY <1>1, <2>2, <2>7
  <2>9. Parent(Pre(e, m + 1)) \in Dirs /\ Parent(Pre(e, m + 1)) = Pre(e, m)
    BY <1>1, <2>2, <2>7, <2>8, EntryFacts
  <2> QED BY <2>3, <2>9 DEF Dirs
<1>3. Len(e) + 1 - n \in 1 .. (Len(e) + 1) /\ Len(e) + 1 - (Len(e) + 1 - n) = n
  BY <1>1
<1>4. Good(n)
  BY <1>2, <1>3
<1> QED BY <1>4

LEMMA OverIs ==
  ASSUME NEW e \in DOMAIN Tree
  PROVE  Over(e) = {Pre(e, n) : n \in Len(ScanRoot) .. (Len(e) - 1)}
<1>1. e \in Seq(STRING) /\ Len(e) \in Nat /\ Len(ScanRoot) \in Nat /\ Len(ScanRoot) <= Len(e)
      /\ Pre(e, Len(ScanRoot)) = ScanRoot
  BY EntryFacts
<1>2. CASE e = ScanRoot
  <2>1. Len(ScanRoot) .. (Len(e) - 1) = {}
    BY <1>1, <1>2
  <2> QED BY <1>2, <2>1 DEF Over
<1>3. CASE e # ScanRoot
  <2>1. Len(ScanRoot) < Len(e)
    BY <1>3, EntryFacts
  <2>2. \A n \in 1 .. Len(e) - 1 : SubSeq(e, 1, n) = Pre(e, n) /\ Len(Pre(e, n)) = n
    BY <1>1, PreFacts DEF Pre
  <2>3. Between(e) = {Pre(e, n) : n \in (Len(ScanRoot) + 1) .. (Len(e) - 1)}
    <3>1. ASSUME NEW a \in Between(e) PROVE \E n \in (Len(ScanRoot) + 1) .. (Len(e) - 1) : a = Pre(e, n)
      <4>1. PICK n \in 1 .. Len(e) - 1 : a = SubSeq(e, 1, n)
        BY DEF Between, Ancestors
      <4>2. a = Pre(e, n) /\ Len(a) = n /\ Len(a) > Len(ScanRoot)
        BY <2>2, <4>1 DEF Between
      <4>3. n \in (Len(ScanRoot) + 1) .. (Len(e) - 1)
        BY <1>1, <4>2
      <4> QED BY <4>2, <4>3
    <3>2. ASSUME NEW n \in (Len(ScanRoot) + 1) .. (Len(e) - 1) PROVE Pre(e, n) \in Between(e)
      <4>1. n \in 1 .. Len(e) - 1 /\ n > Len(ScanRoot)
        BY <1>1
      <4>2. Pre(e, n) \in Ancestors(e) /\ Len(Pre(e, n)) > Len(ScanRoot)
        BY <2>2, <4>1 DEF Ancestors
      <4> QED BY <4>2 DEF Between
    <3> QED BY <3>1, <3>2
  <2>4. Over(e) = Between(e) \cup {Pre(e, Len(ScanRoot))}
    BY <1>1, <1>3 DEF Over
  <2>5. Len(ScanRoot) .. (Len(e) - 1) = {Len(ScanRoot)} \cup ((Len(ScanRoot) + 1) .. (Len(e) - 1))
    BY <1>1, <2>1
  <2> QED BY <2>3, <2>4, <2>5
<1> QED BY <1>2, <1>3

LEMMA OverFacts ==
  ASSUME NEW e \in DOMAIN Tree
  PROVE  /\ Over(e) \subseteq Dirs /\ e \notin Over(e)
         /\ e # ScanRoot => /\ Parent(e) \in Dirs /\ Parent(e) # e
                            /\ Over(e) = Over(Parent(e)) \cup {Parent(e)}
         /\ \A a \in Over(e) : Over(a) \subseteq Over(e) /\ e \notin Over(a)
         /\ \A a \in Over(e) : \E c \in Children(a) : c = e \/ c \in Over(e)
<1>1. e \in Seq(STRING) /\ Len(e) \in Nat /\ Len(ScanRoot) \in Nat /\ Len(ScanRoot) <= Len(e)
  BY EntryFacts
<1>2. \A n \in Len(ScanRoot) .. Len(e) : /\ n \in 0 .. Len(e) /\ Pre(e, n) \in DOMAIN Tree
                                         /\ Len(Pre(e, n)) = n /\ (n < Len(e) => Pre(e, n) \in Dirs)
                                         /\ \A m \in 0 .. n : Pre(Pre(e, n), m) = Pre(e, m)
  BY <1>1, WayFacts, PreFacts
<1>3. Over(e) = {Pre(e, n) : n \in Len(ScanRoot) .. (Len(e) - 1)}
  BY OverIs
<1>4. ASSUME NEW a \in Over(e)
      PROVE  \E n \in Len(ScanRoot) .. (Len(e) - 1) :
               a = Pre(e, n) /\ a \in Dirs /\ Len(a) = n /\ Over(a) = {Pre(e, m) : m \in Len(ScanRoot) .. (n - 1)}
  <2>1. PICK n \in Len(ScanRoot) .. (Len(e) - 1) : a = Pre(e, n)
    BY <1>3
  <2>2. n \in Len(ScanRoot) .. Len(e) /\ n < Len(e)
    BY <1>1
  <2>3. a \in DOMAIN Tree /\ Len(a) = n /\ a \in Dirs
    BY <1>2, <2>1, <2>2
  <2>4. Over(a) = {Pre(a, m) : m \in Len(ScanRoot) .. (n - 1)}
    BY <2>3, OverIs
  <2>5. \A m \in Len(ScanRoot) .. (n - 1) : Pre(a, m) = Pre(e, m)
    <3> TAKE m \in Len(ScanRoot) .. (n - 1)
    <3>1. m \in 0 .. n
      BY <1>1, <2>2
    <3> QED BY <1>2, <2>1, <2>2, <3>1
  <2> QED BY <2>1, <2>3, <2>4, <2>5
<1>5. Over(e) \subseteq Dirs
  BY <1>4
<1>6. e \notin Over(e)
  BY <1>1, <1>4
<1>7. ASSUME e # ScanRoot
      PROVE  Parent(e) \in Dirs /\ Parent(e) # e /\ Over(e) = Over(Parent(e)) \cup {Parent(e)}
  <2>1. Len(ScanRoot) < Len(e) /\ Parent(e) \in Dirs /\ Parent(e) = Pre(e, Len(e) - 1)
    BY <1>7, EntryFacts
  <2>2. Len(e) - 1 \in Len(ScanRoot) .. (Len(e) - 1)
    BY <1>1, <2>1
  <2>3. Parent(e) \in Over(e)
    BY <1>3, <2>1, <2>2
  <2>4. PICK n \in Len(ScanRoot) .. (Len(e) - 1) :
            Len(Parent(e)) = n /\ Over(Parent(e)) = {Pre(e, m) : m \in Len(ScanRoot) .. (n - 1)}
    BY <1>4, <2>3
  <2>5. Len(Parent(e)) = Len(e) - 1
    BY <1>1, <1>2, <2>1, <2>2
  <2>6. Len(ScanRoot) .. (Len(e) - 1) = (Len(ScanRoot) .. (n - 1)) \cup {n} /\ n = Len(e) - 1
    BY <1>1, <2>1, <2>4, <2>5
  <2>7. Over(e) = Over(Parent(e)) \cup {Pre(e, n)}
    BY <1>3, <2>4, <2>6
  <2> QED BY <1>6, <2>1, <2>3, <2>6, <2>7
<1>8. ASSUME NEW a \in Over(e) PROVE Over(a) \subseteq Over(e) /\ e \notin Over(a)
  <2>1. PICK n \in Len(ScanRoot) .. (Len(e) - 1) : Over(a) = {Pre(e, m) : m \in Len(ScanRoot) .. (n - 1)}
    BY <1>4
  <2>2. \A m \in Len(ScanRoot) .. (n - 1) : m \in Len(ScanRoot) .. (Len(e) - 1)
    BY <1>1
  <2> QED BY <1>3, <1>6, <2>1, <2>2
<1>9. ASSUME NEW a \in Over(e) PROVE \E c \in Children(a) : c = e \/ c \in Over(e)
  <2>1. PICK n \in Len(ScanRoot) .. (Len(e) - 1) : a = Pre(e, n) /\ Len(a) = n
    BY <1>4
  <2>2. n + 1 \in Len(ScanRoot) .. Len(e) /\ n \in 0 .. (n + 1)
    BY <1>1
  <2>3. PICK c : c = Pre(e, n + 1)
    OBVIOUS
  <2>4. c \in DOMAIN Tree /\ Len(c) = n + 1 /\ Pre(c, n) = a
    BY <1>2, <2>1, <2>2, <2>3
  <2>5. c # ScanRoot
    BY <1>1, <2>4
  <2>6. Parent(c) = Pre(c, Len(c) - 1)
    BY <2>4, <2>5, EntryFacts
  <2>7. Parent(c) = a
    BY <1>1, <2>4, <2>6
  <2>8. c \in Children(a)
    BY <2>4, <2>5, <2>7 DEF Children
  <2>9. CASE n + 1 = Len(e)
    BY <1>1, <2>3, <2>8, <2>9, PreFacts
  <2>10. CASE n + 1 # Len(e)
    <3>1. n + 1 \in Len(ScanRoot) .. (Len(e) - 1)
      BY <1>1, <2>10
    <3> QED BY <1>3, <2>3, <2>8, <3>1
  <2> QED BY <2>9, <2>10
<1> QED BY <1>5, <1>6, <1>7, <1>8, <1>9

-----------------------------------------------------------------------------
(* The open frames *)

LEMMA ItemFacts ==
  /\ \A e, f : Item(e) = Item(f) => e = f
  /\ \A e, f : FailedItem(e) = FailedItem(f) => e = f
  /\ \A e, f : Item(e) # FailedItem(f)
  /\ \A e \in DOMAIN Tree : Item(e) \in ItemSet /\ FailedItem(e) \in ItemSet
  /\ \A i \in ItemSet : i.path \in DOMAIN Tree /\ i = IF i.failed THEN FailedItem(i.path) ELSE Item(i.path)
<1>1. \A e, f : Item(e) = Item(f) => e = f
  <2> TAKE e, f
  <2>1. Item(e).path = e /\ Item(f).path = f
    BY DEF Item
  <2> QED BY <2>1
<1>2. \A e, f : FailedItem(e) = FailedItem(f) => e = f
  <2> TAKE e, f
  <2>1. FailedItem(e).path = e /\ FailedItem(f).path = f
    BY DEF FailedItem
  <2> QED BY <2>1
<1>3. \A e, f : Item(e) # FailedItem(f)
  <2> TAKE e, f
  <2>1. Item(e).failed = FALSE /\ FailedItem(f).failed = TRUE
    BY DEF Item, FailedItem
  <2> QED BY <2>1
<1> QED BY <1>1, <1>2, <1>3 DEF Item, FailedItem, ItemSet

LEMMA OneAlone == ASSUME NEW S, NEW x \in S PROVE <<x>> \in Seq(S)
OBVIOUS

LEMMA OpenedFacts ==
  ASSUME NEW t, FramesOK(t), NEW items \in SUBSET ItemSet, items \cap InFrames(t) = {}
  PROVE  FramesOK(Opened(items, t)) /\ InFrames(Opened(items, t)) = items \cup InFrames(t)
<1>1. t \in Seq(SUBSET ItemSet) /\ \A j, k \in DOMAIN t : j # k => t[j] \cap t[k] = {}
  BY DEF FramesOK
<1>2. CASE items = {}
  BY <1>2 DEF Opened
<1>3. CASE items # {}
  <2>1. PICK u \in Seq(SUBSET ItemSet) : u = <<items>> \o t
    <3> PICK S : S = SUBSET ItemSet
      OBVIOUS
    <3>1. PICK v \in Seq(S) : v = <<items>>
      BY OneAlone
    <3>2. v \o t \in Seq(S)
      BY <1>1, <3>1, ConcatFacts
    <3> QED BY <3>1, <3>2
  <2>2. u = Opened(items, t)
    BY <1>3, <2>1 DEF Opened
  <2>3. /\ DOMAIN u = 1 .. (Len(t) + 1) /\ u[1] = items /\ Len(t) \in Nat
        /\ \A k \in DOMAIN t : k + 1 \in DOMAIN u /\ u[k + 1] = t[k]
        /\ \A k \in DOMAIN u : k # 1 => k - 1 \in DOMAIN t /\ u[k] = t[k - 1]
    BY <1>1, <2>1
  <2>4. 1 \in DOMAIN u
    BY <2>3
  <2>5. \A k \in DOMAIN t : items \cap t[k] = {}
    BY DEF InFrames
  <2>6. InFrames(u) = items \cup InFrames(t)
    <3>1. \A k \in DOMAIN u : u[k] \subseteq items \cup InFrames(t)
      <4> TAKE k \in DOMAIN u
      <4>1. CASE k = 1
        BY <2>3, <4>1
      <4>2. CASE k # 1
        BY <2>3, <4>2 DEF InFrames
      <4> QED BY <4>1, <4>2
    <3>2. \A k \in DOMAIN t : t[k] \subseteq InFrames(u)
      BY <2>3 DEF InFrames
    <3>3. items \subseteq InFrames(u)
      BY <2>3, <2>4 DEF InFrames
    <3> QED BY <3>1, <3>2, <3>3 DEF InFrames
  <2>7. ASSUME NEW j \in DOMAIN u, NEW k \in DOMAIN u, j # k PROVE u[j] \cap u[k] = {}
    <3>1. CASE j = 1
      BY <2>3, <2>5, <2>7, <3>1
    <3>2. CASE k = 1
      BY <2>3, <2>5, <2>7, <3>2
    <3>3. CASE j # 1 /\ k # 1
      <4>1. j - 1 # k - 1
        BY <2>3, <2>7
      <4> QED BY <1>1, <2>3, <3>3, <4>1
    <3> QED BY <3>1, <3>2, <3>3
  <2> QED BY <2>1, <2>2, <2>6, <2>7 DEF FramesOK
<1> QED BY <1>2, <1>3

LEMMA WithoutFacts ==
  ASSUME FramesOK(todo), todo # << >>, NEW item \in Head(todo)
  PROVE  /\ item \in InFrames(todo) /\ item \in ItemSet
         /\ FramesOK(Without(item)) /\ InFrames(Without(item)) = InFrames(todo) \ {item}
<1>1. todo \in Seq(SUBSET ItemSet) /\ \A j, k \in DOMAIN todo : j # k => todo[j] \cap todo[k] = {}
  BY DEF FramesOK
<1>2. PICK h \in SUBSET ItemSet, t \in Seq(SUBSET ItemSet) : h = Head(todo) /\ t = Tail(todo)
  <2> PICK S : S = SUBSET ItemSet
    OBVIOUS
  <2>1. PICK q \in Seq(S) : q = todo /\ q # << >>
    BY <1>1
  <2>2. Head(q) \in S /\ Tail(q) \in Seq(S)
    BY <2>1, TailFacts
  <2> QED BY <2>1, <2>2
<1>3. /\ 1 \in DOMAIN todo /\ todo[1] = h
      /\ \A i \in DOMAIN t : i + 1 \in DOMAIN todo /\ t[i] = todo[i + 1] /\ i + 1 # 1 /\ i \in Nat
      /\ \A i \in DOMAIN todo : i # 1 => i - 1 \in DOMAIN t /\ t[i - 1] = todo[i]
  <2>1. \A i \in DOMAIN t : i \in Nat /\ i + 1 # 1
    BY <1>2
  <2>2. PICK q \in Seq(SUBSET ItemSet) : q = todo /\ q # << >> /\ h = Head(q) /\ t = Tail(q)
    BY <1>1, <1>2
  <2>3. /\ 1 \in DOMAIN q /\ q[1] = Head(q)
        /\ \A i \in DOMAIN Tail(q) : i + 1 \in DOMAIN q /\ Tail(q)[i] = q[i + 1]
        /\ \A i \in DOMAIN q : i # 1 => i - 1 \in DOMAIN Tail(q) /\ Tail(q)[i - 1] = q[i]
    BY <2>2, TailFacts
  <2> QED BY <2>1, <2>2, <2>3
<1>4. FramesOK(t)
  <2>1. ASSUME NEW j \in DOMAIN t, NEW k \in DOMAIN t, j # k PROVE t[j] \cap t[k] = {}
    <3>1. j + 1 # k + 1 /\ j + 1 \in DOMAIN todo /\ k + 1 \in DOMAIN todo
      BY <1>3, <2>1
    <3>2. todo[j + 1] \cap todo[k + 1] = {}
      BY <1>1, <3>1
    <3> QED BY <1>3, <3>2
  <2> QED BY <1>2, <2>1 DEF FramesOK
<1>5. h \cap InFrames(t) = {}
  <2>1. \A k \in DOMAIN t : h \cap t[k] = {}
    BY <1>1, <1>3
  <2> QED BY <2>1 DEF InFrames
<1>6. InFrames(todo) = h \cup InFrames(t)
  <2>1. \A k \in DOMAIN todo : todo[k] \subseteq h \cup InFrames(t)
    BY <1>3 DEF InFrames
  <2>2. h \subseteq InFrames(todo) /\ InFrames(t) \subseteq InFrames(todo)
    BY <1>3 DEF InFrames
  <2> QED BY <2>1, <2>2 DEF InFrames
<1>7. (h \ {item}) \in SUBSET ItemSet /\ (h \ {item}) \cap InFrames(t) = {}
  BY <1>5
<1>8. PICK g \in SUBSET ItemSet : g = h \ {item} /\ g \cap InFrames(t) = {}
  BY <1>7
<1>9. FramesOK(Opened(g, t)) /\ InFrames(Opened(g, t)) = g \cup InFrames(t)
  BY <1>4, <1>8, OpenedFacts
<1>10. Without(item) = Opened(g, t)
  BY <1>2, <1>8 DEF Without
<1>11. item \in h
  BY <1>2
<1> QED BY <1>5, <1>6, <1>8, <1>9, <1>10, <1>11

-----------------------------------------------------------------------------
(* The matcher: what it answers *)

LEMMA FlattenType ==
  ASSUME NEW S, NEW s \in Seq(Seq(S))
  PROVE  FlattenSeq(s) \in Seq(S)
<1>1. CASE Len(s) = 0
  <2>1. FlattenSeq(s) = s
    BY <1>1 DEF FlattenSeq
  <2> PICK T : T = Seq(S)
    OBVIOUS
  <2>2. s = << >>
    BY <1>1, NothingThere
  <2>3. << >> \in Seq(S)
    OBVIOUS
  <2> QED BY <2>1, <2>2, <2>3
<1>2. CASE Len(s) # 0
  <2>1. PICK n \in Nat : n = Len(s) /\ n # 0 /\ \A i \in 1 .. n : s[i] \in Seq(S)
    BY <1>2
  <2>2. PICK g : Joins(s, n, g) /\ FlattenSeq(s) = g[n]
    BY <2>1, FlattenIs
  <2>3. \A i \in 1 .. n : g[i] = IF i = 1 THEN s[i] ELSE g[i - 1] \o s[i]
    BY <2>2 DEF Joins
  <2> DEFINE Bad == {i \in 1 .. n : g[i] \notin Seq(S)}
  <2>4. Bad = {}
    <3> SUFFICES ASSUME Bad # {} PROVE FALSE
      OBVIOUS
    <3>1. PICK m \in Bad : \A x \in Bad : ~(x < m)
      BY <2>1, LeastNumber
    <3>2. m \in 1 .. n /\ g[m] \notin Seq(S)
      OBVIOUS
    <3>3. m # 1
      BY <2>1, <2>3, <3>2
    <3>4. m - 1 \in 1 .. n /\ m - 1 < m
      BY <2>1, <3>2, <3>3
    <3>5. g[m - 1] \in Seq(S)
      BY <3>1, <3>4
    <3>6. g[m] = g[m - 1] \o s[m] /\ s[m] \in Seq(S)
      BY <2>1, <2>3, <3>2, <3>3
    <3>7. g[m - 1] \o s[m] \in Seq(S)
      BY <3>5, <3>6, ConcatFacts
    <3> QED BY <3>2, <3>6, <3>7
  <2>5. n \in 1 .. n
    BY <2>1
  <2>6. g[n] \in Seq(S)
    BY <2>4, <2>5
  <2> QED BY <2>2, <2>6
<1> QED BY <1>1, <1>2

LEMMA RulesOfFileType ==
  ASSUME NEW file \in DOMAIN RuleFiles
  PROVE  RulesOfFile[file] \in Seq(AllRules)
<1>1. PICK T, lines : T = ToSet(RuleFiles[file]) /\ lines = RuleFiles[file]
  OBVIOUS
<1>2. lines \in Seq(T)
  BY <1>1, RuleConstants
<1>3. PICK r : r = RulesOfFile[file] /\ r = [k \in DOMAIN lines |-> ParseRule(lines[k])]
  BY <1>1 DEF RulesOfFile, ParseFile
<1>4. \A k \in DOMAIN r : r[k] \in AllRules
  <2>1. ToSet(RulesOfFile[file]) \subseteq AllRules
    BY DEF AllRules
  <2>2. \A k \in DOMAIN r : r[k] \in ToSet(r)
    BY DEF ToSet
  <2> QED BY <1>3, <2>1, <2>2
<1>5. PICK n \in Nat : DOMAIN lines = 1 .. n
  BY <1>2
<1>6. r \in [1 .. n -> AllRules]
  BY <1>3, <1>4, <1>5
<1> QED BY <1>3, <1>6

LEMMA RuleActions == \A rule \in AllRules : rule.action \in {"Ignore", "Include"}
<1> TAKE rule \in AllRules
<1> PICK file \in DOMAIN RuleFiles : rule \in ToSet(RulesOfFile[file])
  BY DEF AllRules
<1>1. PICK k \in DOMAIN RulesOfFile[file] : rule = RulesOfFile[file][k]
  BY DEF ToSet
<1>2. RulesOfFile[file] = [j \in DOMAIN RuleFiles[file] |-> ParseRule(RuleFiles[file][j])]
  BY DEF RulesOfFile, ParseFile
<1>3. rule = ParseRule(RuleFiles[file][k])
  BY <1>1, <1>2
<1> QED BY <1>3 DEF ParseRule

LEMMA AllRulesAreRules == \A rules \in Seq(AllRules) : IsRules(rules)
<1> TAKE rules \in Seq(AllRules)
<1>1. ToSet(rules) \subseteq AllRules
  BY DEF ToSet
<1>2. PICK n \in Nat : DOMAIN rules = 1 .. n /\ rules \in [1 .. n -> AllRules]
  OBVIOUS
<1>3. PICK T : T = ToSet(rules) /\ \A i \in 1 .. n : rules[i] \in T
  BY <1>2 DEF ToSet
<1>4. rules \in [1 .. n -> T]
  BY <1>2, <1>3
<1>5. rules \in Seq(T)
  BY <1>4
<1> QED BY <1>1, <1>3, <1>5, RuleActions DEF IsRules

LEMMA LayersHoldRules == \A layer \in AllLayers : IsRules(layer.rules)
<1> TAKE layer \in AllLayers
<1>1. CASE layer \in [base : Seq(STRING), rules : Seq(AllRules)]
  BY <1>1, AllRulesAreRules
<1>2. CASE \E rank \in Ranks : layer \in ToSet(StaticRules[rank])
  BY <1>2, RuleConstants DEF IsLayers
<1> QED BY <1>1, <1>2 DEF AllLayers

LEMMA OwnRulesType ==
  ASSUME NEW d, NEW names, NEW rank
  PROVE  OwnRules(d, names, rank) \in Seq(AllRules)
<1> DEFINE Adds(name) ==
             IF name \in names /\ RankOf(name) = rank /\ Append(d, name) \in DOMAIN RuleFiles
             THEN RulesOfFile[Append(d, name)] ELSE << >>
<1>1. PICK s : s = [k \in DOMAIN IgnoreFiles |-> Adds(IgnoreFiles[k])]
  OBVIOUS
<1>2. \A name : Adds(name) \in Seq(AllRules)
  BY RulesOfFileType
<1>3. PICK n \in Nat : DOMAIN IgnoreFiles = 1 .. n
  BY RuleConstants
<1>4. s \in [1 .. n -> Seq(AllRules)]
  BY <1>1, <1>2, <1>3
<1>5. s \in Seq(Seq(AllRules))
  BY <1>4
<1>6. OwnRules(d, names, rank) = FlattenSeq(s)
  BY <1>1 DEF OwnRules
<1> QED BY <1>5, <1>6, FlattenType

LEMMA LayersOnTop ==
  ASSUME NEW d \in Seq(STRING), NEW own \in Seq(AllRules), NEW layers \in Seq(AllLayers)
  PROVE  <<[base |-> d, rules |-> own]>> \o layers \in Seq(AllLayers)
<1>1. PICK l \in AllLayers : l = [base |-> d, rules |-> own]
  BY DEF AllLayers
<1>2. PICK one \in Seq(AllLayers) : one = <<l>>
  BY OneAlone
<1>3. one \o layers \in Seq(AllLayers)
  BY ConcatFacts
<1> QED BY <1>1, <1>2, <1>3

LEMMA ChildRulesType ==
  ASSUME NEW d \in Seq(STRING), NEW names, NEW inherited, RulesTyped(inherited)
  PROVE  RulesTyped(ChildRules(d, names, inherited))
<1>1. ASSUME NEW rank \in Ranks
      PROVE  ChildRules(d, names, inherited)[rank] \in Seq(AllLayers)
  <2>1. PICK own \in Seq(AllRules) : own = OwnRules(d, names, rank)
    BY OwnRulesType
  <2>2. inherited[rank] \in Seq(AllLayers)
    BY DEF RulesTyped
  <2>3. ChildRules(d, names, inherited)[rank] =
          IF own = << >> THEN inherited[rank] ELSE <<[base |-> d, rules |-> own]>> \o inherited[rank]
    BY <2>1 DEF ChildRules
  <2> QED BY <2>2, <2>3, LayersOnTop
<1> QED BY <1>1 DEF RulesTyped

LEMMA BaseRulesType == RulesTyped(BaseRules)
<1>2. ASSUME NEW rank \in Ranks PROVE StaticRules[rank] \in Seq(AllLayers)
  <2>1. PICK s, T : s = StaticRules[rank] /\ T = ToSet(s)
    OBVIOUS
  <2>2. s \in Seq(T) /\ T \subseteq AllLayers
    BY <2>1, RuleConstants DEF IsLayers, AllLayers
  <2>3. PICK n \in Nat : s \in [1 .. n -> T]
    BY <2>2
  <2>4. s \in [1 .. n -> AllLayers]
    BY <2>2, <2>3
  <2> QED BY <2>1, <2>4
<1> QED BY <1>2 DEF BaseRules, RulesTyped

Answers == {"Ignore", "Include", None}

LEMMA LastIsThere ==
  ASSUME NEW n \in Nat, NEW I \in SUBSET (1 .. n), I # {}
  PROVE  Max(I) \in I
<1> PICK J : J = {n + 1 - i : i \in I}
  OBVIOUS
<1>1. J \in SUBSET (1 .. n) /\ J # {}
  <2>1. \A i \in I : n + 1 - i \in 1 .. n
    OBVIOUS
  <2> QED BY <2>1
<1>2. PICK m \in J : \A x \in J : ~(x < m)
  BY <1>1, LeastNumber
<1>3. PICK i \in I : m = n + 1 - i
  OBVIOUS
<1>4. \A j \in I : i >= j
  <2> TAKE j \in I
  <2>1. ~(n + 1 - j < m)
    BY <1>2
  <2> QED BY <1>3, <2>1
<1>5. \E x \in I : \A y \in I : x >= y
  BY <1>4
<1> QED BY <1>5 DEF Max

LEMMA FirstIsThere ==
  ASSUME NEW n \in Nat, NEW I \in SUBSET (1 .. n), I # {}
  PROVE  Min(I) \in I
<1>1. PICK m \in I : \A x \in I : ~(x < m)
  BY LeastNumber
<1>2. \A y \in I : m <= y
  BY <1>1
<1>3. \E x \in I : \A y \in I : x <= y
  BY <1>2
<1> QED BY <1>3 DEF Min

LEMMA MatchesExactType ==
  ASSUME NEW rules, IsRules(rules), NEW path, NEW isDirectory
  PROVE  MatchesExact(rules, path, isDirectory) \in Answers
<1>1. PICK n \in Nat : n = Len(rules) /\ DOMAIN rules = 1 .. n
  BY DEF IsRules
<1>2. \A k \in 1 .. n : rules[k].action \in {"Ignore", "Include"}
  BY <1>1 DEF IsRules, ToSet
<1>3. PICK I : I = {i \in 1 .. n : RuleMatches(rules[i], path, isDirectory)}
  OBVIOUS
<1>4. PICK k : k = IF I # {} THEN Max(I) ELSE 0
  OBVIOUS
<1>5. k \in 0 .. n
  <2>1. I # {} => Max(I) \in I
    BY <1>3, LastIsThere
  <2> QED BY <1>3, <1>4, <2>1
<1>6. MatchesExact(rules, path, isDirectory) = ActionAt(rules)[k]
  BY <1>1, <1>3, <1>4 DEF MatchesExact, SelectLastInSeq
<1>7. ActionAt(rules)[k] = IF k = 0 THEN None ELSE rules[k].action
  BY <1>1, <1>5 DEF ActionAt
<1>8. k # 0 => k \in 1 .. n
  BY <1>5
<1> QED BY <1>2, <1>6, <1>7, <1>8 DEF Answers

LEMMA InOrderType ==
  ASSUME NEW rules, RulesTyped(rules)
  PROVE  InOrder(rules) \in Seq(AllLayers)
<1>1. PICK a \in Seq(AllLayers), b \in Seq(AllLayers), c \in Seq(AllLayers),
           d \in Seq(AllLayers), e \in Seq(AllLayers), f \in Seq(AllLayers) :
        a = rules[0] /\ b = rules[1] /\ c = rules[2] /\ d = rules[3] /\ e = rules[4] /\ f = rules[5]
  <2>1. {0, 1, 2, 3, 4, 5} \subseteq Ranks
    BY DEF Ranks
  <2> QED BY <2>1 DEF RulesTyped
<1>2. PICK g \in Seq(AllLayers) : g = f \o e
  BY ConcatFacts
<1>3. PICK h \in Seq(AllLayers) : h = g \o d
  BY ConcatFacts
<1>4. PICK i \in Seq(AllLayers) : i = h \o c
  BY ConcatFacts
<1>5. PICK j \in Seq(AllLayers) : j = i \o b
  BY ConcatFacts
<1>6. j \o a \in Seq(AllLayers)
  BY ConcatFacts
<1>7. InOrder(rules) = j \o a
  BY <1>1, <1>2, <1>3, <1>4, <1>5 DEF InOrder
<1> QED BY <1>6, <1>7

LEMMA MatchPreparedType ==
  ASSUME NEW rules, RulesTyped(rules), NEW path, NEW isDirectory
  PROVE  MatchPreparedRules(path, isDirectory, rules) \in Answers
<1>1. PICK layers \in Seq(AllLayers) : layers = InOrder(rules)
  BY InOrderType
<1>2. PICK n \in Nat : n = Len(layers) /\ \A k \in 1 .. n : layers[k] \in AllLayers
  OBVIOUS
<1>3. PICK I : I = {i \in 1 .. n : LayerAction(layers[i], path, isDirectory) # None}
  OBVIOUS
<1>4. PICK k : k = IF I # {} THEN Min(I) ELSE 0
  OBVIOUS
<1>5. k \in 0 .. n
  <2>1. I # {} => Min(I) \in I
    BY <1>3, FirstIsThere
  <2> QED BY <1>3, <1>4, <2>1
<1>6. MatchPreparedRules(path, isDirectory, rules)
        = [i \in 0 .. n |-> IF i = 0 THEN None ELSE LayerAction(layers[i], path, isDirectory)][k]
  BY <1>1, <1>2, <1>3, <1>4 DEF MatchPreparedRules, SelectInSeq
<1>7. MatchPreparedRules(path, isDirectory, rules) = IF k = 0 THEN None ELSE LayerAction(layers[k], path, isDirectory)
  BY <1>5, <1>6
<1>8. ASSUME k # 0 PROVE LayerAction(layers[k], path, isDirectory) \in Answers
  <2>1. k \in 1 .. n
    BY <1>5, <1>8
  <2>2. IsRules(layers[k].rules)
    BY <1>2, <2>1, LayersHoldRules
  <2>3. \A p : MatchesExact(layers[k].rules, p, isDirectory) \in Answers
    BY <2>2, MatchesExactType
  <2> QED BY <2>3 DEF LayerAction, Answers
<1> QED BY <1>7, <1>8 DEF Answers

Outcomes == {"Ignore", "OverrideIgnore", "Hidden", "Include", "OverrideInclude", None}

LEMMA MatchedType ==
  ASSUME NEW overrides, IsRules(overrides), NEW rules, RulesTyped(rules), NEW path, NEW isDirectory
  PROVE  MatchedWithRules(overrides, path, isDirectory, rules, TRUE) \in Outcomes
<1>1. PICK byRules \in Answers : byRules = MatchPreparedRules(path, isDirectory, rules)
  BY MatchPreparedType
<1>2. PICK relative : relative = Below(path, ScanRoot)
  OBVIOUS
<1>3. PICK byOverrides \in Answers : byOverrides = MatchesExact(overrides, relative, isDirectory)
  BY MatchesExactType
<1>4. PICK unmatched \in {"OverrideIgnore", None} :
        unmatched = IF HasIncludes(overrides) /\ ~isDirectory THEN "OverrideIgnore" ELSE None
  OBVIOUS
<1>5. PICK override : override = OverrideMatch(overrides, relative, isDirectory)
  OBVIOUS
<1>6. override = CASE byOverrides = "Ignore"  -> "OverrideInclude"
                   [] byOverrides = "Include" -> "OverrideIgnore"
                   [] byOverrides = None      -> unmatched
  BY <1>3, <1>4, <1>5 DEF OverrideMatch, Answers
<1>7. override \in {"OverrideIgnore", "OverrideInclude", None}
  BY <1>6 DEF Answers
<1>8. PICK behind \in Outcomes : behind = IF byRules = None THEN Unmatched(path) ELSE byRules
  BY DEF Unmatched, Answers, Outcomes
<1>9. MatchedWithRules(overrides, path, isDirectory, rules, TRUE)
        = [o \in {"OverrideIgnore", "OverrideInclude", None} |-> IF o = None THEN behind ELSE o][override]
  BY <1>1, <1>2, <1>5, <1>8 DEF MatchedWithRules, Answers
<1> QED BY <1>7, <1>9 DEF Outcomes

\* What process_entry decides of an entry below the scan root.
Verdicts == WalkKinds \cup {"Select", "Descend", "Pass"}

LEMMA FilteredFacts ==
  ASSUME NEW e \in DOMAIN Tree, Kind(e) # "symlink", NEW named \in BOOLEAN
  PROVE  /\ Filtered(e, named) \in Verdicts \ {"Pass"}
         /\ Filtered(e, named) = "Select" => Kind(e) = "file"
         /\ Filtered(e, named) = "Descend" => IsDir(e)
<1>1. Kind(e) \in {"dir", "file"}
  BY DiscoveryConstants DEF Kind
<1>2. CASE IsDir(e)
  <2>1. Filtered(e, named) = IF ~named /\ Name(e) \in StandardSkips THEN "StandardDirectory" ELSE "Descend"
    BY <1>2 DEF Filtered
  <2> QED BY <1>2, <2>1 DEF Verdicts, WalkKinds
<1>3. CASE ~IsDir(e)
  <2>1. Filtered(e, named) = IF ~named /\ Name(e) \notin Extensions THEN "Extension"
                             ELSE IF plan.api # "paths" /\ Tree[e].bytes > plan.maxFileBytes THEN "Oversized"
                             ELSE "Select"
    BY <1>3 DEF Filtered
  <2>2. Kind(e) = "file"
    BY <1>1, <1>3 DEF IsDir
  <2> QED BY <2>1, <2>2 DEF Verdicts, WalkKinds
<1> QED BY <1>2, <1>3

LEMMA DecisionFacts ==
  ASSUME plan \in Plans, NEW e \in DOMAIN Tree, e # ScanRoot, NEW rules, RulesTyped(rules)
  PROVE  /\ Decision(e, rules) \in Verdicts
         /\ Decision(e, rules) = "Select" => Kind(e) = "file"
         /\ Decision(e, rules) = "Descend" => IsDir(e)
         /\ Decision(e, rules) = "Pass" => ~IsDir(e) /\ Depth(e) < EffectiveMinDepth
<1>1. IsRules(plan.overrides)
  BY DiscoveryConstants DEF PlanOK
<1>2. PICK match \in Outcomes : match = MatchedWithRules(plan.overrides, e, IsDir(e), rules, TRUE)
  <2>1. PICK overrides, isDirectory : overrides = plan.overrides /\ isDirectory = IsDir(e)
    OBVIOUS
  <2>2. IsRules(overrides)
    BY <1>1, <2>1
  <2>3. MatchedWithRules(overrides, e, isDirectory, rules, TRUE) \in Outcomes
    BY <2>2, MatchedType
  <2> QED BY <2>1, <2>3
<1>3. DOMAIN SkipKind = Outcomes /\ \A m \in Outcomes : SkipKind[m] \in {"Ignored", "Override", "Hidden", None}
  BY DEF SkipKind, Outcomes
<1>4. PICK verdict : verdict = IF SkipKind[match] # None THEN SkipKind[match] ELSE Filtered(e, match = "OverrideInclude")
  OBVIOUS
<1>5. Decision(e, rules) = IF Depth(e) < EffectiveMinDepth /\ ~IsDir(e) THEN "Pass"
                           ELSE IF Kind(e) = "symlink" THEN "Symlink"
                           ELSE IF IsDir(e) /\ Depth(e) >= plan.maxDepth THEN "MaxDepth"
                           ELSE verdict
  BY <1>2, <1>3, <1>4 DEF Decision, DecisionOn
<1>6. CASE Kind(e) = "symlink"
  BY <1>5, <1>6 DEF Verdicts, WalkKinds, IsDir
<1>7. CASE Kind(e) # "symlink"
  <2>1. CASE SkipKind[match] # None
    <3>1. verdict \in {"Ignored", "Override", "Hidden"}
      BY <1>3, <1>4, <2>1
    <3> QED BY <1>5, <1>7, <3>1 DEF Verdicts, WalkKinds
  <2>2. CASE SkipKind[match] = None
    <3>1. PICK named \in BOOLEAN : named = (match = "OverrideInclude")
      OBVIOUS
    <3>2. verdict = Filtered(e, named)
      BY <1>4, <2>2, <3>1
    <3>3. /\ verdict \in Verdicts \ {"Pass"}
          /\ verdict = "Select" => Kind(e) = "file"
          /\ verdict = "Descend" => IsDir(e)
      BY <1>7, <3>2, FilteredFacts
    <3> QED BY <1>5, <1>7, <3>3 DEF Verdicts, WalkKinds
  <2> QED BY <2>1, <2>2
<1> QED BY <1>6, <1>7

-----------------------------------------------------------------------------
(* The matcher: what it has prepared *)

Associates(S) == \A a, b, c \in Seq(S) : b \o c \in Seq(S) /\ (a \o b) \o c = a \o (b \o c)

LEMMA JoinedTwice == \A S : Associates(S)
BY DEF Associates

LEMMA NothingJoined == \A S : \A a \in Seq(S) : << >> \o a = a
OBVIOUS

LEMMA FlattenCons ==
  ASSUME NEW S, NEW s, NEW t, NEW n \in Nat, n # 0, Len(t) = n, Len(s) = n + 1,
         \A i \in 1 .. (n + 1) : s[i] \in Seq(S),
         \A k \in 1 .. n : t[k] = s[k + 1]
  PROVE  FlattenSeq(s) = s[1] \o FlattenSeq(t)
<1>0. Associates(S)
  BY JoinedTwice
<1>1. \A i \in 1 .. (n + 1) : s[i] \in Seq(S)
  OBVIOUS
<1>2. PICK g : Joins(s, n + 1, g) /\ FlattenSeq(s) = g[n + 1]
  <2>1. Len(s) \in Nat /\ Len(s) # 0
    OBVIOUS
  <2> QED BY <2>1, FlattenIs
<1>3. PICK h : Joins(t, n, h) /\ FlattenSeq(t) = h[n]
  BY FlattenIs
<1>4. \A i \in 1 .. (n + 1) : g[i] = IF i = 1 THEN s[i] ELSE g[i - 1] \o s[i]
  BY <1>2 DEF Joins
<1>5. \A i \in 1 .. n : h[i] = IF i = 1 THEN t[i] ELSE h[i - 1] \o t[i]
  BY <1>3 DEF Joins
<1> DEFINE Bad == {i \in 1 .. n : ~(h[i] \in Seq(S) /\ g[i + 1] = s[1] \o h[i])}
<1>6. Bad = {}
  <2> SUFFICES ASSUME Bad # {} PROVE FALSE
    OBVIOUS
  <2>1. PICK m \in Bad : \A x \in Bad : ~(x < m)
    BY LeastNumber
  <2>2. m \in 1 .. n /\ ~(h[m] \in Seq(S) /\ g[m + 1] = s[1] \o h[m])
    OBVIOUS
  <2>3. m + 1 \in 1 .. (n + 1) /\ m + 1 # 1 /\ (m + 1) - 1 = m /\ t[m] = s[m + 1] /\ 1 \in 1 .. (n + 1)
    BY <2>2
  <2>4. g[m + 1] = g[m] \o t[m] /\ t[m] \in Seq(S)
    BY <1>1, <1>4, <2>3
  <2>5. CASE m = 1
    <3>1. g[1] = s[1] /\ h[1] = t[1]
      BY <1>4, <1>5, <2>2, <2>3, <2>5
    <3> QED BY <2>2, <2>4, <2>5, <3>1
  <2>6. CASE m # 1
    <3>1. m - 1 \in 1 .. n /\ m - 1 < m /\ (m - 1) + 1 = m
      BY <2>2, <2>6
    <3>2. h[m - 1] \in Seq(S) /\ g[m] = s[1] \o h[m - 1]
      BY <2>1, <3>1
    <3>3. h[m] = h[m - 1] \o t[m]
      BY <1>5, <2>2, <2>6
    <3>4. PICK a \in Seq(S), b \in Seq(S), c \in Seq(S) : a = s[1] /\ b = h[m - 1] /\ c = t[m]
      BY <1>1, <2>3, <2>4, <3>2
    <3>5. b \o c \in Seq(S) /\ (a \o b) \o c = a \o (b \o c)
      BY <1>0 DEF Associates
    <3> QED BY <2>2, <2>4, <3>2, <3>3, <3>4, <3>5
  <2> QED BY <2>5, <2>6
<1>7. n \in 1 .. n
  OBVIOUS
<1>8. g[n + 1] = s[1] \o h[n]
  BY <1>6, <1>7
<1> QED BY <1>2, <1>3, <1>8

\* The layer that a directory adds, and those from it up to the match root.
OwnLayer(d, rank) ==
    LET own == OwnRules(d, Configured, rank)
    IN  IF own = << >> THEN << >> ELSE <<[base |-> d, rules |-> own]>>

Chain(d, rank) == [k \in 1 .. Len(d) + 1 |-> OwnLayer(Pre(d, Len(d) - (k - 1)), rank)]

LEMMA OwnLayerType ==
  ASSUME NEW d \in Seq(STRING), NEW rank
  PROVE  OwnLayer(d, rank) \in Seq(AllLayers)
<1>1. PICK own \in Seq(AllRules) : own = OwnRules(d, Configured, rank)
  BY OwnRulesType
<1>2. CASE own = << >>
  BY <1>1, <1>2 DEF OwnLayer
<1>3. CASE own # << >>
  <2>1. PICK l \in AllLayers : l = [base |-> d, rules |-> own]
    BY DEF AllLayers
  <2>2. <<l>> \in Seq(AllLayers)
    BY OneAlone
  <2> QED BY <1>1, <1>3, <2>1, <2>2 DEF OwnLayer
<1> QED BY <1>2, <1>3

LEMMA ChildIsOnTop ==
  ASSUME NEW d, NEW inherited, NEW rank \in Ranks, NEW layers \in Seq(AllLayers), inherited[rank] = layers
  PROVE  ChildRules(d, Configured, inherited)[rank] = OwnLayer(d, rank) \o layers
<1>1. PICK own : own = OwnRules(d, Configured, rank)
  OBVIOUS
<1>2. ChildRules(d, Configured, inherited)[rank] =
        IF own = << >> THEN layers ELSE <<[base |-> d, rules |-> own]>> \o layers
  BY <1>1 DEF ChildRules
<1>3. OwnLayer(d, rank) = IF own = << >> THEN << >> ELSE <<[base |-> d, rules |-> own]>>
  BY <1>1 DEF OwnLayer
<1>4. << >> \o layers = layers
  BY NothingJoined
<1> QED BY <1>2, <1>3, <1>4

LEMMA RulesAre ==
  ASSUME NEW d, NEW rank \in Ranks
  PROVE  RulesOf(d)[rank] = FlattenSeq(Chain(d, rank)) \o StaticRules[rank]
BY DEF RulesOf, Chain, OwnLayer, Pre

LEMMA ChainType ==
  ASSUME NEW d \in Seq(STRING), NEW rank
  PROVE  \A k \in 1 .. Len(d) + 1 : Chain(d, rank)[k] \in Seq(AllLayers) /\ Chain(d, rank)[k] = OwnLayer(Pre(d, Len(d) - (k - 1)), rank)
<1>1. PICK n \in Nat : n = Len(d)
  OBVIOUS
<1>2. ASSUME NEW k \in 1 .. n + 1 PROVE Chain(d, rank)[k] \in Seq(AllLayers) /\ Chain(d, rank)[k] = OwnLayer(Pre(d, n - (k - 1)), rank)
  <2>1. PICK m \in 0 .. n : m = n - (k - 1)
    BY <1>2
  <2>2. Chain(d, rank)[k] = OwnLayer(Pre(d, m), rank)
    BY <1>1, <2>1 DEF Chain
  <2>3. Pre(d, m) \in Seq(STRING)
    BY <1>1, PreFacts
  <2>4. OwnLayer(Pre(d, m), rank) \in Seq(AllLayers)
    BY <2>3, OwnLayerType
  <2> QED BY <2>1, <2>2, <2>4
<1> QED BY <1>1, <1>2

\* The reference is what the matcher comes to, directory by directory.
LEMMA RulesStart == RulesOf(<< >>) = ChildRules(<< >>, Configured, BaseRules)
<1>1. << >> \in Seq(STRING) /\ Len(<< >>) = 0
  OBVIOUS
<1>2. PICK d \in Seq(STRING) : d = << >> /\ Len(d) = 0
  BY <1>1
<1>3. ASSUME NEW rank \in Ranks PROVE RulesOf(d)[rank] = ChildRules(d, Configured, BaseRules)[rank]
  <2>1. PICK s : s = Chain(d, rank)
    OBVIOUS
  <2>2. Len(s) = 1 /\ s = [k \in 1 .. 1 |-> OwnLayer(Pre(d, Len(d) - (k - 1)), rank)]
    BY <1>2, <2>1 DEF Chain
  <2>3. Pre(d, 0) = d
    BY <1>2 DEF Pre
  <2>4. s[1] = OwnLayer(d, rank)
    BY <1>2, <2>2, <2>3
  <2>5. FlattenSeq(s) = s[1]
    <3>1. Len(s) \in Nat /\ Len(s) # 0 /\ Len(s) = 1
      BY <2>2
    <3>2. PICK g : Joins(s, Len(s), g) /\ FlattenSeq(s) = g[Len(s)]
      BY <3>1, FlattenIs
    <3> QED BY <3>1, <3>2 DEF Joins
  <2>6. BaseRules[rank] = StaticRules[rank] /\ StaticRules[rank] \in Seq(AllLayers)
    BY BaseRulesType DEF BaseRules, RulesTyped
  <2>7. ChildRules(d, Configured, BaseRules)[rank] = OwnLayer(d, rank) \o StaticRules[rank]
    BY <2>6, ChildIsOnTop
  <2> QED BY <2>1, <2>4, <2>5, <2>7, RulesAre
<1>4. RulesOf(d) = [rank \in Ranks |-> RulesOf(d)[rank]]
  BY DEF RulesOf
<1>5. PICK g, h : g = RulesOf(d) /\ h = ChildRules(d, Configured, BaseRules)
  OBVIOUS
<1>6. h = [rank \in Ranks |-> h[rank]]
  BY <1>5 DEF ChildRules
<1>7. g = h
  BY <1>3, <1>4, <1>5, <1>6
<1> QED BY <1>2, <1>5, <1>7

LEMMA RulesTypedOf ==
  ASSUME NEW d \in Seq(STRING)
  PROVE  RulesTyped(RulesOf(d))
<1> SUFFICES ASSUME NEW rank \in Ranks PROVE RulesOf(d)[rank] \in Seq(AllLayers)
  BY DEF RulesTyped
<1>1. PICK s : s = Chain(d, rank)
  OBVIOUS
<1>2. PICK n \in Nat : n = Len(d) + 1 /\ DOMAIN s = 1 .. n
  BY <1>1 DEF Chain
<1>3. PICK T : T = Seq(AllLayers)
  OBVIOUS
<1>4. \A k \in 1 .. n : s[k] \in T
  BY <1>1, <1>2, <1>3, ChainType
<1>5. s \in [1 .. n -> T]
  <2>1. s = [k \in 1 .. n |-> s[k]]
    BY <1>1, <1>2 DEF Chain
  <2> QED BY <1>4, <2>1
<1>6. s \in Seq(T)
  BY <1>5
<1>7. FlattenSeq(s) \in Seq(AllLayers)
  BY <1>3, <1>6, FlattenType
<1>8. StaticRules[rank] \in Seq(AllLayers)
  BY BaseRulesType DEF BaseRules, RulesTyped
<1>9. FlattenSeq(s) \o StaticRules[rank] \in Seq(AllLayers)
  BY <1>7, <1>8, ConcatFacts
<1> QED BY <1>1, <1>9, RulesAre

LEMMA ParentFacts ==
  ASSUME NEW d \in Seq(STRING), d # << >>
  PROVE  /\ Parent(d) \in Seq(STRING) /\ Len(d) \in Nat /\ Len(d) # 0 /\ Len(Parent(d)) = Len(d) - 1
         /\ \A m \in 0 .. Len(d) - 1 : Pre(Parent(d), m) = Pre(d, m)
<1>1. PICK n \in Nat : n = Len(d) - 1 /\ n \in 0 .. Len(d) /\ Len(d) = n + 1
  <2>1. Len(d) \in Nat /\ Len(d) # 0
    BY NothingThere
  <2>2. Len(d) - 1 \in Nat /\ Len(d) - 1 \in 0 .. Len(d) /\ Len(d) = (Len(d) - 1) + 1
    BY <2>1
  <2> QED BY <2>2
<1>2. Parent(d) = Pre(d, n)
  BY <1>1 DEF Parent, Pre
<1> QED BY <1>1, <1>2, PreFacts

LEMMA RulesStep ==
  ASSUME NEW d \in Seq(STRING), d # << >>
  PROVE  RulesOf(d) = ChildRules(d, Configured, RulesOf(Parent(d)))
<1>1. PICK p \in Seq(STRING), n \in Nat : /\ p = Parent(d) /\ Len(p) = n /\ Len(d) = n + 1
                                          /\ \A m \in 0 .. n : Pre(p, m) = Pre(d, m)
  <2>1. PICK n \in Nat : n = Len(d) - 1
    BY ParentFacts
  <2> QED BY <2>1, ParentFacts
<1>2. ASSUME NEW rank \in Ranks PROVE RulesOf(d)[rank] = ChildRules(d, Configured, RulesOf(p))[rank]
  <2>1. PICK s, t : s = Chain(d, rank) /\ t = Chain(p, rank)
    OBVIOUS
  <2>2. PICK c \in Nat : c = n + 1 /\ c # 0
    OBVIOUS
  <2>3. Len(s) = c + 1 /\ Len(t) = c
    BY <1>1, <2>1, <2>2 DEF Chain
  <2>4. \A i \in 1 .. (c + 1) : s[i] \in Seq(AllLayers) /\ s[i] = OwnLayer(Pre(d, c - (i - 1)), rank)
    BY <1>1, <2>1, <2>2, ChainType
  <2>5. \A i \in 1 .. c : t[i] \in Seq(AllLayers) /\ t[i] = OwnLayer(Pre(p, n - (i - 1)), rank)
    BY <1>1, <2>1, <2>2, ChainType
  <2>6. ASSUME NEW k \in 1 .. c PROVE t[k] = s[k + 1]
    <3>1. PICK m \in 0 .. n : m = n - (k - 1) /\ m = c - ((k + 1) - 1) /\ k + 1 \in 1 .. (c + 1)
      BY <2>2
    <3>2. s[k + 1] = OwnLayer(Pre(d, m), rank)
      BY <2>4, <3>1
    <3>3. t[k] = OwnLayer(Pre(p, m), rank)
      BY <2>5, <3>1
    <3> QED BY <1>1, <3>2, <3>3
  <2>7. s[1] = OwnLayer(d, rank)
    <3>1. 1 \in 1 .. (c + 1) /\ c - (1 - 1) = c /\ c = Len(d) /\ c \in 0 .. Len(d)
      BY <1>1, <2>2
    <3>2. Pre(d, c) = d
      BY <3>1, PreFacts
    <3>3. s[1] = OwnLayer(Pre(d, c - (1 - 1)), rank)
      BY <2>4, <3>1
    <3> QED BY <3>1, <3>2, <3>3
  <2>8. FlattenSeq(s) = s[1] \o FlattenSeq(t)
    <3>1. \A i \in 1 .. (c + 1) : s[i] \in Seq(AllLayers)
      BY <2>4
    <3> QED BY <2>2, <2>3, <2>6, <3>1, FlattenCons
  <2>9. RulesOf(p)[rank] = FlattenSeq(t) \o StaticRules[rank] /\ RulesOf(d)[rank] = FlattenSeq(s) \o StaticRules[rank]
    BY <2>1, RulesAre
  <2>10. PICK a \in Seq(AllLayers) : a = s[1]
    <3>1. 1 \in 1 .. (c + 1)
      BY <2>2
    <3> QED BY <2>4, <3>1
  <2>11. PICK b \in Seq(AllLayers) : b = FlattenSeq(t)
    <3>1. PICK T : T = Seq(AllLayers)
      OBVIOUS
    <3>2. t \in [1 .. c -> T]
      <4>1. t = [k \in 1 .. c |-> t[k]]
        BY <1>1, <2>1, <2>2 DEF Chain
      <4> QED BY <2>5, <3>1, <4>1
    <3>3. t \in Seq(T)
      BY <3>2
    <3>4. FlattenSeq(t) \in Seq(AllLayers)
      BY <3>1, <3>3, FlattenType
    <3> QED BY <3>4
  <2>12. PICK z \in Seq(AllLayers) : z = StaticRules[rank]
    BY BaseRulesType DEF BaseRules, RulesTyped
  <2>13. PICK l \in Seq(AllLayers) : l = b \o z
    BY ConcatFacts
  <2>14. RulesOf(d)[rank] = (a \o b) \o z /\ RulesOf(p)[rank] = l
    BY <2>8, <2>9, <2>10, <2>11, <2>12, <2>13
  <2>15. (a \o b) \o z = a \o l
    <3>1. Associates(AllLayers)
      BY JoinedTwice
    <3>2. (a \o b) \o z = a \o (b \o z)
      BY <3>1 DEF Associates
    <3> QED BY <2>13, <3>2
  <2>16. ChildRules(d, Configured, RulesOf(p))[rank] = OwnLayer(d, rank) \o l
    BY <2>14, ChildIsOnTop
  <2> QED BY <2>7, <2>10, <2>14, <2>15, <2>16
<1>3. RulesOf(d) = [rank \in Ranks |-> RulesOf(d)[rank]]
  BY DEF RulesOf
<1>4. PICK g, h : g = RulesOf(d) /\ h = ChildRules(d, Configured, RulesOf(p))
  OBVIOUS
<1>5. h = [rank \in Ranks |-> h[rank]]
  BY <1>4 DEF ChildRules
<1>6. g = h
  BY <1>2, <1>3, <1>4, <1>5
<1> QED BY <1>1, <1>4, <1>6

-----------------------------------------------------------------------------
(* The matcher: what it starts with *)

WayTo(n)       == {Pre(ScanRoot, k) : k \in 0 .. n}
KnownDownTo(n) == [x \in WayTo(n) |-> RulesOf(x)]

LEMMA WayToFacts ==
  /\ ScanRoot \in Seq(STRING) /\ Len(ScanRoot) \in Nat /\ WaysTo = WayTo(Len(ScanRoot))
  /\ \A n \in 0 .. Len(ScanRoot) : Pre(ScanRoot, n) \in WayTo(n) /\ WayTo(n) \subseteq Seq(STRING)
  /\ ScanRoot \in WaysTo
<1>1. ScanRoot \in Seq(STRING) /\ Len(ScanRoot) \in Nat
  BY DiscoveryConstants
<1>2. WaysTo = WayTo(Len(ScanRoot))
  BY DEF WaysTo, WayTo, Pre
<1>3. \A n \in 0 .. Len(ScanRoot) : Pre(ScanRoot, n) \in WayTo(n)
  <2> TAKE n \in 0 .. Len(ScanRoot)
  <2>1. n \in 0 .. n
    BY <1>1
  <2> QED BY <2>1 DEF WayTo
<1>4. \A n \in 0 .. Len(ScanRoot) : WayTo(n) \subseteq Seq(STRING)
  <2> TAKE n \in 0 .. Len(ScanRoot)
  <2>1. \A k \in 0 .. n : k \in 0 .. Len(ScanRoot)
    BY <1>1
  <2>2. \A k \in 0 .. n : Pre(ScanRoot, k) \in Seq(STRING)
    BY <1>1, <2>1, PreFacts
  <2> QED BY <2>2 DEF WayTo
<1>5. Len(ScanRoot) \in 0 .. Len(ScanRoot) /\ Pre(ScanRoot, Len(ScanRoot)) = ScanRoot
  <2>1. Len(ScanRoot) \in 0 .. Len(ScanRoot)
    BY <1>1
  <2> QED BY <1>1, <2>1, PreFacts
<1> QED BY <1>1, <1>2, <1>3, <1>4, <1>5

LEMMA DownStep ==
  ASSUME NEW n \in 0 .. Len(ScanRoot), NEW base,
         base = IF n = 0 THEN << >> ELSE KnownDownTo(n - 1)
  PROVE  PreparedWith(base, Pre(ScanRoot, n), Configured) = KnownDownTo(n)
<1>1. ScanRoot \in Seq(STRING) /\ Len(ScanRoot) \in Nat /\ n \in Nat
  BY WayToFacts
<1>2. PICK d \in Seq(STRING) : d = Pre(ScanRoot, n) /\ Len(d) = n
  BY <1>1, PreFacts
<1>3. CASE n = 0
  <2>1. d = << >>
    BY <1>2, <1>3, NothingThere
  <2>2. WayTo(n) = {d}
    BY <1>2, <1>3 DEF WayTo
  <2>3. DOMAIN base = {}
    BY <1>3
  <2>4. PreparedWith(base, d, Configured) = [x \in {d} |-> ChildRules(d, Configured, BaseRules)]
    BY <2>1, <2>3 DEF PreparedWith
  <2>5. RulesOf(d) = ChildRules(d, Configured, BaseRules)
    BY <2>1, RulesStart
  <2> QED BY <1>2, <2>2, <2>4, <2>5 DEF KnownDownTo
<1>4. CASE n # 0
  <2>1. PICK m \in 0 .. Len(ScanRoot) : m = n - 1 /\ m \in 0 .. n /\ m + 1 = n /\ 0 .. n = (0 .. m) \cup {n}
    <3>1. n - 1 \in 0 .. Len(ScanRoot) /\ n - 1 \in 0 .. n /\ (n - 1) + 1 = n /\ 0 .. n = (0 .. (n - 1)) \cup {n}
      BY <1>1, <1>4
    <3> QED BY <3>1
  <2>2. d # << >> /\ Len(d) # 0
    BY <1>2, <1>4
  <2>3. Parent(d) = Pre(ScanRoot, m)
    <3>1. Parent(d) = Pre(d, m)
      BY <1>2, <2>1 DEF Parent, Pre
    <3> QED BY <1>1, <1>2, <2>1, <3>1, PreFacts
  <2>4. RulesOf(d) = ChildRules(d, Configured, RulesOf(Parent(d)))
    BY <2>2, RulesStep
  <2>5. base = [x \in WayTo(m) |-> RulesOf(x)]
    BY <1>4, <2>1 DEF KnownDownTo
  <2>6. Parent(d) \in WayTo(m)
    BY <2>1, <2>3, WayToFacts
  <2>7. WayTo(n) = WayTo(m) \cup {d}
    BY <1>2, <2>1 DEF WayTo
  <2>8. PreparedWith(base, d, Configured)
          = [x \in WayTo(m) \cup {d} |-> IF x \in WayTo(m) THEN RulesOf(x) ELSE RulesOf(d)]
    BY <2>2, <2>4, <2>5, <2>6 DEF PreparedWith
  <2> QED BY <1>2, <2>7, <2>8 DEF KnownDownTo
<1> QED BY <1>3, <1>4

LEMMA StartPrepared == PreparedDownTo[Len(ScanRoot)] = KnownDownTo(Len(ScanRoot))
<1> DEFINE Base(g, n) == IF n = 0 THEN << >> ELSE g[n - 1]
           Good(g)    == g = [n \in 0 .. Len(ScanRoot) |-> PreparedWith(Base(g, n), Pre(ScanRoot, n), Configured)]
<1>1. Len(ScanRoot) \in Nat
  BY WayToFacts
<1>2. \E g : Good(g)
  <2>1. PICK h : h = [n \in 0 .. Len(ScanRoot) |-> KnownDownTo(n)]
    OBVIOUS
  <2>2. \A n \in 0 .. Len(ScanRoot) : KnownDownTo(n) = PreparedWith(Base(h, n), Pre(ScanRoot, n), Configured)
    <3> TAKE n \in 0 .. Len(ScanRoot)
    <3>1. Base(h, n) = IF n = 0 THEN << >> ELSE KnownDownTo(n - 1)
      <4>1. n # 0 => n - 1 \in 0 .. Len(ScanRoot)
        BY <1>1
      <4> QED BY <2>1, <4>1
    <3> QED BY <3>1, DownStep
  <2>3. Good(h)
    BY <2>1, <2>2
  <2> QED BY <2>3
<1>3. PICK g : g = PreparedDownTo /\ Good(g)
  <2>1. PreparedDownTo = CHOOSE g : Good(g)
    BY DEF PreparedDownTo, Pre
  <2> QED BY <1>2, <2>1
<1> DEFINE Bad == {i \in 1 .. (Len(ScanRoot) + 1) : g[i - 1] # KnownDownTo(i - 1)}
<1>4. Bad = {}
  <2> SUFFICES ASSUME Bad # {} PROVE FALSE
    OBVIOUS
  <2>1. PICK i \in Bad : \A x \in Bad : ~(x < i)
    <3>1. Bad \in SUBSET (1 .. (Len(ScanRoot) + 1)) /\ Len(ScanRoot) + 1 \in Nat
      BY <1>1
    <3> HIDE DEF Bad
    <3> QED BY <3>1, LeastNumber
  <2>2. PICK n \in 0 .. Len(ScanRoot) : n = i - 1 /\ g[n] # KnownDownTo(n)
    <3>1. i - 1 \in 0 .. Len(ScanRoot) /\ g[i - 1] # KnownDownTo(i - 1)
      BY <1>1
    <3> QED BY <3>1
  <2>3. g[n] = PreparedWith(Base(g, n), Pre(ScanRoot, n), Configured)
    <3>1. DOMAIN g = 0 .. Len(ScanRoot)
      BY <1>3
    <3> QED BY <1>3, <2>2
  <2>4. Base(g, n) = IF n = 0 THEN << >> ELSE KnownDownTo(n - 1)
    <3>1. CASE n = 0
      BY <3>1
    <3>2. CASE n # 0
      <4>1. n \in 1 .. (Len(ScanRoot) + 1) /\ n < i
        BY <1>1, <2>2, <3>2
      <4>2. n \notin Bad
        <5> HIDE DEF Bad
        <5> QED BY <2>1, <4>1
      <4>3. g[n - 1] = KnownDownTo(n - 1)
        BY <4>1, <4>2
      <4> QED BY <3>2, <4>3
    <3> QED BY <3>1, <3>2
  <2>5. g[n] = KnownDownTo(n)
    <3> HIDE DEF Base
    <3> QED BY <2>3, <2>4, DownStep
  <2> QED BY <2>2, <2>5
<1>5. Len(ScanRoot) + 1 \in 1 .. (Len(ScanRoot) + 1) /\ (Len(ScanRoot) + 1) - 1 = Len(ScanRoot)
  BY <1>1
<1>6. g[Len(ScanRoot)] = KnownDownTo(Len(ScanRoot))
  BY <1>4, <1>5
<1> QED BY <1>3, <1>6

-----------------------------------------------------------------------------
(* The matcher: the names that a listing has are all it needs *)

LEMMA AppendPre ==
  ASSUME NEW S, NEW d \in Seq(S), NEW x \in S
  PROVE  /\ Append(d, x) \in Seq(S) /\ Len(Append(d, x)) = Len(d) + 1
         /\ \A n \in 0 .. Len(d) : Pre(Append(d, x), n) = Pre(d, n)
         /\ Parent(Append(d, x)) = d /\ Name(Append(d, x)) = x
<1>1. Append(d, x) \in Seq(S) /\ Len(Append(d, x)) = Len(d) + 1
  OBVIOUS
<1>2. \A n \in 0 .. Len(d) : Pre(Append(d, x), n) = Pre(d, n)
  BY DEF Pre
<1>3. Parent(Append(d, x)) = d
  <2>1. Len(d) \in 0 .. Len(d) /\ Len(Append(d, x)) - 1 = Len(d)
    BY <1>1
  <2>2. Parent(Append(d, x)) = Pre(Append(d, x), Len(d))
    BY <2>1 DEF Parent, Pre
  <2> QED BY <1>2, <2>1, <2>2, PreFacts
<1>4. Name(Append(d, x)) = x
  BY DEF Name
<1> QED BY <1>1, <1>2, <1>3, <1>4

LEMMA RuleFileIsListed ==
  ASSUME NEW d \in Dirs, NEW name \in Configured, Append(d, name) \in DOMAIN RuleFiles
  PROVE  name \in NamesIn(Children(d))
<1>1. /\ d \in DOMAIN Tree /\ d \in Seq(STRING) /\ Len(d) \in Nat /\ Len(ScanRoot) \in Nat
      /\ ScanRoot \in Seq(STRING) /\ Len(ScanRoot) <= Len(d) /\ Pre(d, Len(ScanRoot)) = ScanRoot
  BY EntryFacts DEF Dirs
<1>2. name \in STRING
  BY RuleConstants DEF Configured, ToSet
<1>3. PICK f : f = Append(d, name)
  OBVIOUS
<1>4. /\ f \in Seq(STRING) /\ Len(f) = Len(d) + 1 /\ Parent(f) = d /\ Name(f) = name
      /\ \A n \in 0 .. Len(d) : Pre(f, n) = Pre(d, n)
  BY <1>1, <1>2, <1>3, AppendPre
<1>5. Len(ScanRoot) \in 0 .. Len(d) /\ Len(ScanRoot) \in 0 .. Len(ScanRoot)
  BY <1>1
<1>6. Pre(f, Len(ScanRoot)) = ScanRoot /\ Pre(ScanRoot, Len(ScanRoot)) = ScanRoot
  BY <1>1, <1>4, <1>5, PreFacts
<1>7. Candidate(f, ScanRoot)
  BY <1>1, <1>4, <1>6 DEF Candidate, IsPrefix, Pre
<1>8. f \in DOMAIN Tree /\ f # ScanRoot
  BY <1>1, <1>3, <1>4, <1>7, DiscoveryConstants
<1>9. f \in Children(d)
  BY <1>4, <1>8 DEF Children
<1> QED BY <1>4, <1>9 DEF NamesIn

LEMMA NamesAreEnough ==
  ASSUME NEW d \in Dirs, NEW inherited
  PROVE  ChildRules(d, NamesIn(Children(d)), inherited) = ChildRules(d, Configured, inherited)
<1> DEFINE Adds(names, name, rank) ==
             IF name \in names /\ RankOf(name) = rank /\ Append(d, name) \in DOMAIN RuleFiles
             THEN RulesOfFile[Append(d, name)] ELSE << >>
<1>1. PICK N : N = NamesIn(Children(d)) /\ N \subseteq Configured
  BY DEF NamesIn
<1>2. \A k \in DOMAIN IgnoreFiles : IgnoreFiles[k] \in Configured
  BY DEF Configured, ToSet
<1>3. \A rank, name : name \in Configured => Adds(N, name, rank) = Adds(Configured, name, rank)
  BY <1>1, RuleFileIsListed
<1>4. ASSUME NEW rank PROVE OwnRules(d, N, rank) = OwnRules(d, Configured, rank)
  <2>1. OwnRules(d, N, rank) = FlattenSeq([k \in DOMAIN IgnoreFiles |-> Adds(N, IgnoreFiles[k], rank)])
    BY DEF OwnRules
  <2>2. OwnRules(d, Configured, rank) = FlattenSeq([k \in DOMAIN IgnoreFiles |-> Adds(Configured, IgnoreFiles[k], rank)])
    BY DEF OwnRules
  <2>3. [k \in DOMAIN IgnoreFiles |-> Adds(N, IgnoreFiles[k], rank)]
          = [k \in DOMAIN IgnoreFiles |-> Adds(Configured, IgnoreFiles[k], rank)]
    <3> HIDE DEF Adds
    <3> QED BY <1>2, <1>3
  <2> QED BY <2>1, <2>2, <2>3
<1> QED BY <1>1, <1>4 DEF ChildRules

-----------------------------------------------------------------------------
(* The tree below a directory *)

LEMMA PlanFacts ==
  ASSUME plan \in Plans
  PROVE  /\ plan.mode \in {"serial", "parallel", "fallback"}
         /\ plan.api \in {"full", "compact", "stream", "paths"}
         /\ plan.abort \in BOOLEAN /\ plan.inspects \in BOOLEAN
BY DiscoveryConstants DEF PlanOK

LEMMA RootFacts ==
  /\ ScanRoot \in DOMAIN Tree /\ ScanRoot \in Dirs /\ Over(ScanRoot) = {}
  /\ \A e \in DOMAIN Tree : e # ScanRoot => e # << >>
<1>1. ScanRoot \in DOMAIN Tree /\ ScanRoot \in Dirs /\ Over(ScanRoot) = {}
  BY DiscoveryConstants DEF Dirs, IsDir, Kind, Over
<1>2. ASSUME NEW e \in DOMAIN Tree, e # ScanRoot PROVE e # << >>
  <2>1. Len(ScanRoot) \in Nat /\ Len(ScanRoot) < Len(e)
    BY <1>2, EntryFacts
  <2> QED BY <2>1
<1> QED BY <1>1, <1>2

LEMMA ChildFacts ==
  ASSUME NEW d \in Dirs, NEW c \in Children(d)
  PROVE  /\ c \in DOMAIN Tree /\ c # ScanRoot /\ Parent(c) = d
         /\ Over(c) = Over(d) \cup {d} /\ c \notin Over(d) /\ c # d
         /\ \A x \in Children(d) : c \notin Over(x)
<1>1. c \in DOMAIN Tree /\ c # ScanRoot /\ Parent(c) = d
  BY DEF Children
<1>2. Over(c) = Over(d) \cup {d} /\ c # d
  BY <1>1, OverFacts
<1>3. d \in DOMAIN Tree /\ d \notin Over(d) /\ \A a \in Over(d) : Over(a) \subseteq Over(d)
  BY OverFacts DEF Dirs
<1>4. c \notin Over(d)
  BY <1>2, <1>3
<1>5. ASSUME NEW x \in Children(d) PROVE c \notin Over(x)
  <2>1. x \in DOMAIN Tree /\ x # ScanRoot /\ Parent(x) = d
    BY DEF Children
  <2>2. Over(x) = Over(d) \cup {d}
    BY <2>1, OverFacts
  <2> QED BY <1>2, <1>4, <2>2
<1> QED BY <1>1, <1>2, <1>4, <1>5

LEMMA ListingFacts ==
  ASSUME NEW d \in Dirs
  PROVE  /\ Listing(d) \in SUBSET ItemSet
         /\ \A x \in DOMAIN Tree : Item(x) \in Listing(d) <=> d \notin plan.unreadable /\ x \in Children(d)
         /\ \A x \in DOMAIN Tree : FailedItem(x) \in Listing(d) <=> d \in plan.unreadable /\ x = d
<1>1. d \in DOMAIN Tree /\ Children(d) \subseteq DOMAIN Tree
  BY DEF Dirs, Children
<1>2. CASE d \in plan.unreadable
  <2>1. Listing(d) = {FailedItem(d)}
    BY <1>2 DEF Listing
  <2> QED BY <1>1, <1>2, <2>1, ItemFacts
<1>3. CASE d \notin plan.unreadable
  <2>1. Listing(d) = {Item(c) : c \in Children(d)}
    BY <1>3 DEF Listing
  <2>2. Listing(d) \in SUBSET ItemSet
    BY <1>1, <2>1, ItemFacts
  <2> QED BY <1>1, <1>3, <2>1, <2>2, ItemFacts
<1> QED BY <1>2, <1>3

-----------------------------------------------------------------------------
(* What a step makes of the frames *)

In(t)     == {e \in DOMAIN Tree : Item(e) \in InFrames(t)}
Failing(t) == {d \in DOMAIN Tree : FailedItem(d) \in InFrames(t)}

LEMMA WaitingIs == Waiting = In(todo) /\ Unread = Failing(todo)
BY DEF Waiting, Unread, In, Failing

LEMMA HeadItem ==
  ASSUME FramesOK(todo), todo # << >>, NEW item \in Head(todo)
  PROVE  /\ item \in InFrames(todo) /\ item.path \in DOMAIN Tree
         /\ item.failed => item = FailedItem(item.path) /\ item.path \in Unread
         /\ ~item.failed => item = Item(item.path) /\ item.path \in Waiting
<1>1. item \in InFrames(todo) /\ item \in ItemSet
  BY WithoutFacts
<1>2. item.path \in DOMAIN Tree /\ item = IF item.failed THEN FailedItem(item.path) ELSE Item(item.path)
  BY <1>1, ItemFacts
<1> QED BY <1>1, <1>2 DEF Waiting, Unread

LEMMA EmptyFrames == FramesOK(<< >>) /\ InFrames(<< >>) = {} /\ In(<< >>) = {} /\ Failing(<< >>) = {}
<1>1. InFrames(<< >>) = {}
  BY DEF InFrames
<1>2. FramesOK(<< >>)
  <2> PICK S : S = SUBSET ItemSet
    OBVIOUS
  <2>1. << >> \in Seq(S) /\ DOMAIN << >> = {}
    OBVIOUS
  <2> QED BY <2>1 DEF FramesOK
<1> QED BY <1>1, <1>2 DEF In, Failing

\* One item has been handled.
LEMMA HandledFrames ==
  ASSUME FramesOK(todo), todo # << >>, NEW e \in DOMAIN Tree
  PROVE  /\ Item(e) \in Head(todo) =>
              /\ FramesOK(Without(Item(e))) /\ InFrames(Without(Item(e))) = InFrames(todo) \ {Item(e)}
              /\ In(Without(Item(e))) = Waiting \ {e} /\ Failing(Without(Item(e))) = Unread
         /\ FailedItem(e) \in Head(todo) =>
              /\ FramesOK(Without(FailedItem(e)))
              /\ In(Without(FailedItem(e))) = Waiting /\ Failing(Without(FailedItem(e))) = Unread \ {e}
<1>1. ASSUME Item(e) \in Head(todo)
      PROVE  /\ FramesOK(Without(Item(e))) /\ InFrames(Without(Item(e))) = InFrames(todo) \ {Item(e)}
             /\ In(Without(Item(e))) = Waiting \ {e} /\ Failing(Without(Item(e))) = Unread
  <2>1. PICK item \in Head(todo) : item = Item(e)
    BY <1>1
  <2>2. FramesOK(Without(item)) /\ InFrames(Without(item)) = InFrames(todo) \ {item}
    BY WithoutFacts
  <2> QED BY <2>1, <2>2, ItemFacts DEF In, Failing, Waiting, Unread
<1>2. ASSUME FailedItem(e) \in Head(todo)
      PROVE  /\ FramesOK(Without(FailedItem(e)))
             /\ In(Without(FailedItem(e))) = Waiting /\ Failing(Without(FailedItem(e))) = Unread \ {e}
  <2>1. PICK item \in Head(todo) : item = FailedItem(e)
    BY <1>2
  <2>2. FramesOK(Without(item)) /\ InFrames(Without(item)) = InFrames(todo) \ {item}
    BY WithoutFacts
  <2> QED BY <2>1, <2>2, ItemFacts DEF In, Failing, Waiting, Unread
<1> QED BY <1>1, <1>2

\* What is listed of a directory, and what fails of it.
Shown(d)  == IF d \in plan.unreadable THEN {} ELSE Children(d)
Missing(d) == IF d \in plan.unreadable THEN {d} ELSE {}

LEMMA ListedFrames ==
  ASSUME NEW t, FramesOK(t), NEW d \in Dirs,
         \A c \in Children(d) : c \notin In(t),
         d \notin Failing(t)
  PROVE  LET u == Opened(Listing(d), t)
         IN  FramesOK(u) /\ In(u) = In(t) \cup Shown(d) /\ Failing(u) = Failing(t) \cup Missing(d)
<1>1. PICK items \in SUBSET ItemSet : items = Listing(d)
  BY ListingFacts
<1>2. d \in DOMAIN Tree /\ Children(d) \subseteq DOMAIN Tree
  BY DEF Dirs, Children
<1>3. /\ \A x \in DOMAIN Tree : Item(x) \in items <=> x \in Shown(d)
      /\ \A x \in DOMAIN Tree : FailedItem(x) \in items <=> x \in Missing(d)
      /\ Shown(d) \subseteq Children(d) /\ Missing(d) \subseteq {d}
  BY <1>1, ListingFacts DEF Shown, Missing
<1>4. items \cap InFrames(t) = {}
  <2> SUFFICES ASSUME NEW i \in items PROVE i \notin InFrames(t)
    OBVIOUS
  <2>1. i.path \in DOMAIN Tree /\ i = IF i.failed THEN FailedItem(i.path) ELSE Item(i.path)
    BY ItemFacts
  <2>2. CASE i.failed
    <3>1. i = FailedItem(i.path) /\ i.path \in Missing(d)
      BY <1>3, <2>1, <2>2
    <3> QED BY <1>2, <1>3, <3>1 DEF Failing
  <2>3. CASE ~i.failed
    <3>1. i = Item(i.path) /\ i.path \in Shown(d)
      BY <1>3, <2>1, <2>3
    <3> QED BY <1>2, <1>3, <3>1 DEF In
  <2> QED BY <2>2, <2>3
<1>5. PICK u : u = Opened(items, t)
  OBVIOUS
<1>6. FramesOK(u) /\ InFrames(u) = items \cup InFrames(t)
  BY <1>4, <1>5, OpenedFacts
<1>7. In(u) = In(t) \cup Shown(d) /\ Failing(u) = Failing(t) \cup Missing(d)
  <2>1. Shown(d) \subseteq DOMAIN Tree /\ Missing(d) \subseteq DOMAIN Tree
    BY <1>2, <1>3
  <2> QED BY <1>3, <1>6, <2>1 DEF In, Failing
<1> QED BY <1>1, <1>5, <1>6, <1>7

-----------------------------------------------------------------------------
(* What a visit has the matcher prepare *)

LEMMA PreparedMore ==
  ASSUME PreparedInv, NEW d \in Dirs, NEW names,
         d \in DOMAIN prepared \/ d = ScanRoot \/ Parent(d) \in DOMAIN prepared
  PROVE  LET known == PreparedWith(prepared, d, names)
         IN  /\ DOMAIN known = DOMAIN prepared \cup {d}
             /\ \A x \in DOMAIN prepared : known[x] = prepared[x]
             /\ \A x \in DOMAIN known : RulesTyped(known[x])
             /\ d \notin DOMAIN prepared =>
                  /\ d # ScanRoot /\ Parent(d) \in DOMAIN prepared
                  /\ known[d] = ChildRules(d, names, prepared[Parent(d)])
<1> PICK known : known = PreparedWith(prepared, d, names)
  OBVIOUS
<1>0. /\ DOMAIN known = DOMAIN prepared \cup {d}
      /\ \A x \in DOMAIN known :
            known[x] = IF x \in DOMAIN prepared THEN prepared[x]
                       ELSE ChildRules(d, names, IF d = << >> THEN BaseRules ELSE prepared[Parent(d)])
  BY DEF PreparedWith
<1>1. DOMAIN known = DOMAIN prepared \cup {d} /\ \A x \in DOMAIN prepared : known[x] = prepared[x]
  BY <1>0
<1>2. \A x \in DOMAIN prepared : RulesTyped(prepared[x])
  BY DEF PreparedInv
<1>3. d \in DOMAIN Tree /\ d \in Seq(STRING)
  BY EntryFacts DEF Dirs
<1>4. ASSUME d \notin DOMAIN prepared
      PROVE  /\ d # ScanRoot /\ Parent(d) \in DOMAIN prepared
             /\ known[d] = ChildRules(d, names, prepared[Parent(d)]) /\ RulesTyped(known[d])
  <2>1. d # ScanRoot
    BY <1>4, WayToFacts DEF PreparedInv
  <2>2. Parent(d) \in DOMAIN prepared /\ d # << >>
    BY <1>3, <1>4, <2>1, RootFacts
  <2>3. known[d] = ChildRules(d, names, prepared[Parent(d)])
    BY <1>0, <1>4, <2>2
  <2>4. PICK inherited : inherited = prepared[Parent(d)] /\ RulesTyped(inherited)
    BY <1>2, <2>2
  <2>5. RulesTyped(ChildRules(d, names, inherited))
    BY <1>3, <2>4, ChildRulesType
  <2> QED BY <2>1, <2>2, <2>3, <2>4, <2>5
<1>5. \A x \in DOMAIN known : RulesTyped(known[x])
  BY <1>1, <1>2, <1>4
<1> QED BY <1>1, <1>4, <1>5

AskedFor(e) == Prepares(e, IF plan.mode = "serial" THEN Decision(e, prepared[Parent(e)]) ELSE None)

\* What is known of the rules, and decided of the entry, when it is delivered.
Judged(e, known, decision) ==
    /\ DOMAIN prepared \subseteq DOMAIN known /\ DOMAIN known \subseteq WaysTo \cup Dirs
    /\ \A x \in DOMAIN prepared : known[x] = prepared[x]
    /\ \A x \in DOMAIN known : RulesTyped(known[x])
    /\ e # ScanRoot => Parent(e) \in DOMAIN known
    /\ decision = Decision(e, known[Parent(e)]) /\ decision \in Verdicts
    /\ decision = "Select" => e \in Files
    /\ decision = "Descend" => e \in Dirs
    /\ decision = "Pass" => ~IsDir(e) /\ Depth(e) < EffectiveMinDepth
    /\ e = ScanRoot => decision = PolicyDecision(e)
    /\ plan.mode = "serial" /\ decision = "Descend" => e \in DOMAIN known
    /\ plan.mode # "fallback" => \A x \in DOMAIN known :
          \/ x \in DOMAIN prepared
          \/ /\ x # ScanRoot /\ x \in Dirs /\ Parent(x) \in DOMAIN prepared
             /\ known[x] = ChildRules(x, Configured, prepared[Parent(x)])

LEMMA VisitKnown ==
  ASSUME TypeInv, PreparedInv, stage = "walks", NEW e \in Waiting,
         NEW asked, asked = AskedFor(e),
         NEW known, known = PreparedWith(prepared, asked[1], asked[2]),
         NEW decision, decision = Decision(e, known[Parent(e)])
  PROVE  Judged(e, known, decision)
<1>1. e \in DOMAIN Tree /\ (e # ScanRoot => Parent(e) \in Dirs)
  BY EntryFacts DEF Waiting
<1>2. Ready(e)
  BY DEF PreparedInv
<1>3. plan \in Plans /\ plan.mode \in {"serial", "parallel", "fallback"}
  BY PlanFacts DEF TypeInv
<1>4. ScanRoot \in DOMAIN prepared /\ DOMAIN prepared \subseteq WaysTo \cup Dirs
  BY WayToFacts DEF PreparedInv
<1>5. e = ScanRoot => \A rules : /\ Decision(e, rules) \in {"MaxDepth", "Descend"}
                                  /\ Decision(e, rules) = PolicyDecision(e)
  BY DEF Decision, PolicyDecision
<1>6. \A rules : RulesTyped(rules) /\ e # ScanRoot =>
        /\ Decision(e, rules) \in Verdicts
        /\ Decision(e, rules) = "Select" => Kind(e) = "file"
        /\ Decision(e, rules) = "Descend" => IsDir(e)
        /\ Decision(e, rules) = "Pass" => ~IsDir(e) /\ Depth(e) < EffectiveMinDepth
  BY <1>1, <1>3, DecisionFacts
<1>7. plan.mode # "fallback" /\ e # ScanRoot => Parent(e) \in DOMAIN prepared
  BY <1>2 DEF Ready
<1>8. PICK d, names :
        /\ d \in Dirs
        /\ asked = <<d, names>>
        /\ d \in DOMAIN prepared \/ d = ScanRoot \/ Parent(d) \in DOMAIN prepared
        /\ plan.mode = "serial" /\ Decision(e, prepared[Parent(e)]) = "Descend" => d = e
        /\ plan.mode # "fallback" => d \in DOMAIN prepared \/ names = Configured
        /\ plan.mode = "fallback" /\ e # ScanRoot => d = Parent(e)
  <2>1. CASE plan.mode = "serial" /\ Decision(e, prepared[Parent(e)]) = "Descend"
    <3>1. asked = <<e, Configured>>
      BY <2>1 DEF AskedFor, Prepares
    <3>2. e \in Dirs
      <4>1. CASE e = ScanRoot
        BY <4>1, RootFacts
      <4>2. CASE e # ScanRoot
        <5>1. RulesTyped(prepared[Parent(e)])
          BY <1>7, <2>1, <4>2 DEF PreparedInv
        <5> QED BY <1>1, <1>6, <2>1, <4>2, <5>1 DEF Dirs
      <4> QED BY <4>1, <4>2
    <3> QED BY <1>7, <2>1, <3>1, <3>2
  <2>2. CASE plan.mode = "fallback" /\ e # ScanRoot
    <3>1. asked = <<Parent(e), NamesIn({e})>>
      BY <2>2 DEF AskedFor, Prepares
    <3>2. Parent(e) = ScanRoot \/ Parent(Parent(e)) \in DOMAIN prepared
      BY <1>2, <2>2 DEF Ready
    <3> QED BY <1>1, <2>2, <3>1, <3>2
  <2>3. CASE ~(plan.mode = "serial" /\ Decision(e, prepared[Parent(e)]) = "Descend")
             /\ ~(plan.mode = "fallback" /\ e # ScanRoot)
    <3>1. asked = <<ScanRoot, {}>>
      BY <1>3, <2>3 DEF AskedFor, Prepares
    <3> QED BY <1>4, <2>3, <3>1, RootFacts
  <2> QED BY <2>1, <2>2, <2>3
<1>9. known = PreparedWith(prepared, d, names)
  BY <1>8
<1>10. /\ DOMAIN known = DOMAIN prepared \cup {d}
       /\ \A x \in DOMAIN prepared : known[x] = prepared[x]
       /\ \A x \in DOMAIN known : RulesTyped(known[x])
       /\ d \notin DOMAIN prepared => /\ d # ScanRoot /\ Parent(d) \in DOMAIN prepared
                                      /\ known[d] = ChildRules(d, names, prepared[Parent(d)])
  BY <1>8, <1>9, PreparedMore
<1>11. e # ScanRoot => Parent(e) \in DOMAIN known
  BY <1>3, <1>7, <1>8, <1>10
<1>12. /\ decision \in Verdicts
       /\ decision = "Select" => e \in Files
       /\ decision = "Descend" => e \in Dirs
       /\ decision = "Pass" => ~IsDir(e) /\ Depth(e) < EffectiveMinDepth
       /\ e = ScanRoot => decision = PolicyDecision(e)
  <2>1. CASE e = ScanRoot
    BY <1>5, <2>1, RootFacts DEF Verdicts, WalkKinds
  <2>2. CASE e # ScanRoot
    <3>1. RulesTyped(known[Parent(e)])
      BY <1>10, <1>11, <2>2
    <3>2. Kind(e) = "file" => e \in Files
      BY <1>1, DiscoveryConstants DEF Files, Kind
    <3> QED BY <1>1, <1>6, <2>2, <3>1, <3>2 DEF Dirs
  <2> QED BY <2>1, <2>2
<1>13. ASSUME plan.mode = "serial", decision = "Descend" PROVE e \in DOMAIN known
  <2>1. CASE e = ScanRoot
    BY <1>4, <1>10, <2>1
  <2>2. CASE e # ScanRoot
    <3>1. known[Parent(e)] = prepared[Parent(e)]
      BY <1>7, <1>10, <1>13, <2>2
    <3> QED BY <1>8, <1>10, <1>13, <3>1
  <2> QED BY <2>1, <2>2
<1>14. plan.mode # "fallback" => \A x \in DOMAIN known :
               \/ x \in DOMAIN prepared
               \/ /\ x # ScanRoot /\ x \in Dirs /\ Parent(x) \in DOMAIN prepared
                  /\ known[x] = ChildRules(x, Configured, prepared[Parent(x)])
  BY <1>8, <1>10
<1> QED BY <1>4, <1>8, <1>10, <1>11, <1>12, <1>13, <1>14 DEF Judged

-----------------------------------------------------------------------------
(* A step keeps the entries apart *)

LEMMA ApartLess ==
  ASSUME NEW W, NEW U, NEW F, NEW T, Apart(W, U, F, T),
         NEW W2 \in SUBSET W, NEW U2 \in SUBSET U, NEW F2 \in SUBSET F, NEW T2 \in SUBSET T
  PROVE  Apart(W2, U2, F2, T2)
BY DEF Apart

\* An entry or a directory is handled for good.
LEMMA ApartHandled ==
  ASSUME NEW W, NEW U, NEW F, NEW T, Apart(W, U, F, T), NEW e \in W \cup U
  PROVE  Apart(W \ {e}, U \ {e}, F, T \cup {e})
BY DEF Apart

\* A parallel walk keeps a directory for later.
LEMMA ApartKept ==
  ASSUME NEW W, NEW U, NEW F, NEW T, Apart(W, U, F, T), NEW e \in W
  PROVE  Apart(W \ {e}, U, F \cup {e}, T)
BY DEF Apart

\* A directory gives way to what is listed in it.
LEMMA ApartOpened ==
  ASSUME NEW W, NEW U, NEW F, NEW T, Apart(W, U, F, T), NEW d \in W \cup F,
         W \in SUBSET DOMAIN Tree, F \in SUBSET DOMAIN Tree, T \in SUBSET DOMAIN Tree,
         d \in Dirs, d \notin U
  PROVE  /\ Apart((W \ {d}) \cup Shown(d), U \cup Missing(d), F \ {d}, T)
         /\ \A c \in Children(d) : c \notin W
<1> DEFINE A == W \cup U \cup F
<1>1. /\ U \subseteq Dirs /\ W \cap U = {} /\ \A a, b \in A : a \notin Over(b)
      /\ T \cap W = {} /\ \A t \in T : \A a \in A : a \notin Over(t)
  BY DEF Apart
<1>2. Dirs \subseteq DOMAIN Tree /\ A \subseteq DOMAIN Tree /\ d \in A
  BY <1>1 DEF Dirs
<1>3. ASSUME NEW c \in Children(d)
      PROVE  /\ c \in DOMAIN Tree /\ d \in Over(c) /\ c # d /\ Over(c) = Over(d) \cup {d}
             /\ \A x \in Children(d) : c \notin Over(x)
  BY ChildFacts
<1>4. \A c \in Children(d) : c \notin A /\ c \notin T
  BY <1>1, <1>2, <1>3
<1>5. \A c \in Children(d) : \A x \in DOMAIN Tree : c \in Over(x) => d \in Over(x)
  <2> TAKE c \in Children(d)
  <2> TAKE x \in DOMAIN Tree
  <2>1. c \in Over(x) => Over(c) \subseteq Over(x)
    BY OverFacts
  <2> QED BY <1>3, <2>1
<1>6. \A c \in Children(d) : \A x \in A \cup T : c \notin Over(x)
  BY <1>1, <1>2, <1>5
<1>7. \A c \in Children(d) : \A x \in A : x # d => x \notin Over(c)
  BY <1>1, <1>2, <1>3
<1>8. Shown(d) \subseteq Children(d) /\ Missing(d) \subseteq {d} /\ (Shown(d) = {} \/ Missing(d) = {})
  BY DEF Shown, Missing
<1> DEFINE W2 == (W \ {d}) \cup Shown(d)
           U2 == U \cup Missing(d)
           F2 == F \ {d}
           A2 == W2 \cup U2 \cup F2
<1>9. W2 \cap U2 = {} /\ U2 \subseteq Dirs /\ T \cap W2 = {}
  BY <1>1, <1>4, <1>8
<1>10. \A a \in A2 : (a \in A /\ (a = d => Shown(d) = {})) \/ (a \in Children(d) /\ Missing(d) = {} /\ d \notin A2)
  BY <1>2, <1>3, <1>8
<1>12. \A a, b \in A2 : a \notin Over(b)
  BY <1>1, <1>3, <1>6, <1>7, <1>10
<1>13. \A t \in T : \A a \in A2 : a \notin Over(t)
  BY <1>1, <1>6, <1>10
<1> QED BY <1>4, <1>9, <1>12, <1>13 DEF Apart

-----------------------------------------------------------------------------
(* What an entry delivered changes *)

Moved(e, decision) ==
    /\ FramesOK(todo')
    /\ \/ /\ decision # "Descend"
          /\ In(todo') = Waiting \ {e} /\ Failing(todo') = Unread /\ found' = found
       \/ /\ decision = "Descend" /\ plan.mode = "parallel"
          /\ In(todo') = Waiting \ {e} /\ Failing(todo') = Unread /\ found' = found \cup {e}
       \/ /\ decision = "Descend" /\ plan.mode # "parallel"
          /\ In(todo') = (Waiting \ {e}) \cup Shown(e) /\ Failing(todo') = Unread \cup Missing(e)
          /\ found' = found

LEMMA PlacesAre ==
  /\ Waiting \subseteq DOMAIN Tree /\ Unread \subseteq DOMAIN Tree /\ Dirs \subseteq DOMAIN Tree
  /\ TypeInv => found \subseteq DOMAIN Tree /\ Touched \subseteq DOMAIN Tree
<1>1. Waiting \subseteq DOMAIN Tree /\ Unread \subseteq DOMAIN Tree /\ Dirs \subseteq DOMAIN Tree
  BY DEF Waiting, Unread, Dirs
<1>2. Files \subseteq DOMAIN Tree
  BY DiscoveryConstants DEF Files
<1>3. ASSUME TypeInv PROVE found \subseteq DOMAIN Tree /\ Touched \subseteq DOMAIN Tree
  <2>1. found \subseteq Dirs /\ selected \subseteq Files
    BY <1>3 DEF TypeInv
  <2>2. skipped \subseteq [path : DOMAIN Tree, kind : Kinds]
    BY <1>3 DEF TypeInv
  <2>3. SkippedPaths \subseteq DOMAIN Tree
    BY <2>2 DEF SkippedPaths
  <2> QED BY <1>1, <1>2, <2>1, <2>3 DEF Touched
<1> QED BY <1>1, <1>3

LEMMA VisitMoves ==
  ASSUME TypeInv, PreparedInv, OnceInv, stage = "walks", todo # << >>,
         NEW e \in Waiting, Item(e) \in Head(todo), Visits(e)
  PROVE  \/ Fails
         \/ \E known, decision :
               /\ Judged(e, known, decision) /\ Moved(e, decision)
               /\ prepared' = known /\ entries' = entries + 1 /\ Records(e, decision)
               /\ warned' \in BOOLEAN /\ UNCHANGED <<stage, termination, error>>
<1>1. PICK asked, known, decision :
        /\ asked = AskedFor(e) /\ known = PreparedWith(prepared, asked[1], asked[2])
        /\ decision = Decision(e, known[Parent(e)])
        /\ \/ Fails
           \/ /\ prepared' = known /\ entries' = entries + 1 /\ Records(e, decision)
              /\ IF plan.mode = "parallel"
                 THEN /\ todo' = Without(Item(e))
                      /\ found' = IF decision = "Descend" THEN found \cup {e} ELSE found
                 ELSE /\ todo' = Opened(IF decision = "Descend" THEN Listing(e) ELSE {}, Without(Item(e)))
                      /\ found' = found
              /\ warned' \in BOOLEAN /\ UNCHANGED <<stage, termination, error>>
  <2>1. warned \in BOOLEAN
    BY DEF TypeInv
  <2> QED BY <2>1 DEF Visits, AskedFor
<1>2. Judged(e, known, decision)
  BY <1>1, VisitKnown
<1>3. CASE Fails
  BY <1>3
<1>4. CASE ~Fails
  <2>1. e \in DOMAIN Tree /\ FramesOK(todo) /\ Apart(Waiting, Unread, found, Touched)
        /\ (plan.mode # "parallel" => found = {})
    BY PlacesAre DEF OnceInv
  <2>2. PICK t : /\ t = Without(Item(e)) /\ FramesOK(t)
                 /\ In(t) = Waiting \ {e} /\ Failing(t) = Unread
    BY <2>1, HandledFrames
  <2>3. Opened({}, t) = t
    BY DEF Opened
  <2>4. Moved(e, decision)
    <3>1. CASE decision # "Descend"
      BY <1>1, <1>4, <2>2, <2>3, <3>1 DEF Moved
    <3>2. CASE decision = "Descend" /\ plan.mode = "parallel"
      BY <1>1, <1>4, <2>2, <3>2 DEF Moved
    <3>3. CASE decision = "Descend" /\ plan.mode # "parallel"
      <4>1. e \in Dirs /\ e \notin Unread
        BY <1>2, <2>1, <3>3 DEF Judged, Apart
      <4>2. PICK W, U, F, T : /\ W = Waiting /\ U = Unread /\ F = found /\ T = Touched
        OBVIOUS
      <4>3. Apart(W, U, F, T) /\ e \in W \cup F /\ e \notin U
        BY <2>1, <4>1, <4>2
      <4>4. W \in SUBSET DOMAIN Tree /\ F \in SUBSET DOMAIN Tree /\ T \in SUBSET DOMAIN Tree
        BY <4>2, PlacesAre
      <4>5. \A c \in Children(e) : c \notin W
        BY <4>1, <4>3, <4>4, ApartOpened
      <4>6. \A c \in Children(e) : c \notin In(t)
        BY <2>2, <4>2, <4>5
      <4>7. e \notin Failing(t)
        BY <2>2, <4>1
      <4>8. PICK u : u = Opened(Listing(e), t)
        OBVIOUS
      <4>9. FramesOK(u) /\ In(u) = In(t) \cup Shown(e) /\ Failing(u) = Failing(t) \cup Missing(e)
        BY <2>2, <4>1, <4>6, <4>7, <4>8, ListedFrames
      <4> QED BY <1>1, <1>4, <2>2, <3>3, <4>8, <4>9 DEF Moved
    <3> QED BY <3>1, <3>2, <3>3
  <2> QED BY <1>1, <1>2, <1>4, <2>4
<1> QED BY <1>3, <1>4

-----------------------------------------------------------------------------
(* How a scan starts *)

LEMMA InitFrames ==
  ASSUME todo = <<{Item(ScanRoot)}>>
  PROVE  FramesOK(todo) /\ Waiting = {ScanRoot} /\ Unread = {}
<1> PICK S : S = SUBSET ItemSet
  OBVIOUS
<1>1. PICK x \in S : x = {Item(ScanRoot)}
  BY RootFacts, ItemFacts
<1>2. PICK q \in Seq(S) : q = <<x>>
  BY OneAlone
<1>3. todo = q /\ DOMAIN q = {1} /\ q[1] = x
  BY <1>1, <1>2
<1>4. FramesOK(todo) /\ InFrames(todo) = {Item(ScanRoot)}
  BY <1>1, <1>3 DEF FramesOK, InFrames
<1> QED BY <1>4, RootFacts, ItemFacts DEF Waiting, Unread

LEMMA InitPrepared ==
  ASSUME Init
  PROVE  DOMAIN prepared = WaysTo /\ \A d \in WaysTo : prepared[d] = RulesOf(d) /\ RulesTyped(prepared[d])
<1>1. prepared = [x \in WaysTo |-> RulesOf(x)]
  BY StartPrepared, WayToFacts DEF Init, KnownDownTo
<1>2. WaysTo \subseteq Seq(STRING)
  <2>1. Len(ScanRoot) \in 0 .. Len(ScanRoot)
    BY WayToFacts
  <2> QED BY <2>1, WayToFacts
<1> QED BY <1>1, <1>2, RulesTypedOf

LEMMA InitTyped == ASSUME Init PROVE TypeInv
<1>1. plan \in Plans /\ plan.abort \in BOOLEAN
  BY PlanFacts DEF Init
<1>2. error \in BOOLEAN /\ stage = IF error THEN "ended" ELSE "walks"
  BY <1>1 DEF Init, RootIsBroken, BrokenIn
<1>3. warned \in BOOLEAN
  BY DEF Init, RootIsBroken, BrokenIn
<1> QED BY <1>1, <1>2, <1>3 DEF Init, TypeInv

LEMMA InitOfRest ==
  ASSUME Init
  PROVE  PreparedInv /\ OnceInv /\ CoverInv /\ ReportInv /\ PolicyInv
<1>1. FramesOK(todo) /\ Waiting = {ScanRoot} /\ Unread = {}
  BY InitFrames DEF Init
<1>2. /\ stage = (IF error THEN "ended" ELSE "walks") /\ found = {} /\ selected = {} /\ skipped = {}
      /\ cancelled = FALSE /\ stopped = FALSE /\ termination = None
      /\ rest = {} /\ chunk = {} /\ reported = {}
  BY DEF Init
<1>3. DOMAIN prepared = WaysTo /\ \A d \in WaysTo : prepared[d] = RulesOf(d) /\ RulesTyped(prepared[d])
  BY InitPrepared
<1>4. SkippedPaths = {} /\ Touched = {} /\ Listed = {}
  BY <1>2 DEF SkippedPaths, Touched, Listed
<1>5. stage \in {"walks", "ended"} /\ (stage = "ended" => error)
  <2>1. error \in BOOLEAN
    BY InitTyped DEF TypeInv
  <2> QED BY <1>2, <2>1
<1>6. \A e \in DOMAIN Tree : e # ScanRoot => ScanRoot \in Over(e)
  BY DEF Over
<1>7. PreparedInv
  BY <1>1, <1>2, <1>3 DEF PreparedInv, Ready
<1>8. OnceInv
  <2>1. Apart(Waiting, Unread, found, Touched)
    BY <1>1, <1>2, <1>4, RootFacts DEF Apart
  <2> QED BY <1>1, <1>2, <1>4, <2>1 DEF OnceInv
<1>9. CoverInv
  <2>1. \A e \in DOMAIN Tree : ~IsDir(e) => Expected(e)
    <3> TAKE e \in DOMAIN Tree
    <3>1. IsDir(ScanRoot)
      BY RootFacts DEF Dirs
    <3> QED BY <1>1, <1>6, <3>1 DEF Expected
  <2> QED BY <1>5, <2>1 DEF CoverInv
<1>10. ReportInv
  <2>1. None \notin {"Interrupted", "MaxEntries", "MaxTotalBytes"}
    BY DiscoveryConstants
  <2> QED BY <1>2, <1>4, <1>5, <2>1 DEF ReportInv
<1>11. PolicyInv
  <2>1. \A e \in Policy : e \in DOMAIN Tree /\ ScanRoot \in Over(e)
    BY <1>6 DEF Policy
  <2>2. Reached(ScanRoot)
    BY RootFacts DEF Reached
  <2> QED BY <1>1, <1>2, <1>3, <1>5, <2>1, <2>2 DEF PolicyInv
<1> QED BY <1>7, <1>8, <1>9, <1>10, <1>11

-----------------------------------------------------------------------------
(* The steps: types *)

LEMMA SkipFacts ==
  ASSUME plan \in Plans, NEW S, NEW kind
  PROVE  /\ \A s \in SkipAll(S, kind) : s.path \in S /\ s.kind = kind
         /\ plan.api # "paths" => \A e \in S : \E s \in SkipAll(S, kind) : s.path = e
         /\ S \subseteq DOMAIN Tree /\ kind \in Kinds => SkipAll(S, kind) \subseteq [path : DOMAIN Tree, kind : Kinds]
<1>1. CASE plan.api = "paths"
  <2>1. SkipAll(S, kind) = {}
    BY <1>1 DEF SkipAll
  <2> QED BY <1>1, <2>1
<1>2. CASE plan.api # "paths"
  <2>1. SkipAll(S, kind) = {[path |-> e, kind |-> kind] : e \in S}
    BY <1>2 DEF SkipAll, Skip
  <2>2. \A s \in SkipAll(S, kind) : s.path \in S /\ s.kind = kind
    BY <2>1
  <2>3. \A e \in S : \E s \in SkipAll(S, kind) : s.path = e
    <3> TAKE e \in S
    <3>1. PICK s : s = [path |-> e, kind |-> kind]
      OBVIOUS
    <3>2. s \in SkipAll(S, kind) /\ s.path = e
      BY <2>1, <3>1
    <3> QED BY <3>2
  <2>4. S \subseteq DOMAIN Tree /\ kind \in Kinds => SkipAll(S, kind) \subseteq [path : DOMAIN Tree, kind : Kinds]
    BY <2>1
  <2> QED BY <2>2, <2>3, <2>4
<1> QED BY <1>1, <1>2

\* One item of the walk is handled, or the walk fails on it.
LEMMA ItemSteps ==
  ASSUME TypeInv, PreparedInv, OnceInv, HandlesItem
  PROVE  /\ stage = "walks" /\ UNCHANGED <<plan, cancelled, inspection>>
         /\ \/ Fails
            \/ \E d \in Unread :
                 /\ FramesOK(todo') /\ In(todo') = Waiting /\ Failing(todo') = Unread \ {d}
                 /\ entries' = entries + 1 /\ warned' \in BOOLEAN
                 /\ skipped' = skipped \cup SkipAll({d}, "IoError")
                 /\ UNCHANGED <<stage, prepared, found, selected, termination, error>>
            \/ \E e \in Waiting : \E known, decision :
                 /\ Judged(e, known, decision) /\ Moved(e, decision)
                 /\ prepared' = known /\ entries' = entries + 1 /\ Records(e, decision)
                 /\ warned' \in BOOLEAN /\ UNCHANGED <<stage, termination, error>>
<1>1. stage = "walks" /\ todo # << >> /\ UNCHANGED <<plan, cancelled, inspection>> /\ FramesOK(todo)
  BY DEF HandlesItem, OnceInv
<1>2. PICK item \in Head(todo) : IF item.failed THEN FailsToRead(item.path) ELSE Visits(item.path)
  BY DEF HandlesItem
<1>3. /\ item.path \in DOMAIN Tree
      /\ item.failed => item = FailedItem(item.path) /\ item.path \in Unread
      /\ ~item.failed => item = Item(item.path) /\ item.path \in Waiting
  BY <1>1, HeadItem
<1>4. CASE item.failed
  <2>1. PICK d \in Unread : d = item.path /\ FailedItem(d) \in Head(todo) /\ FailsToRead(d)
    BY <1>2, <1>3, <1>4
  <2>2. CASE plan.abort
    BY <1>1, <2>1, <2>2 DEF FailsToRead
  <2>3. CASE ~plan.abort
    <3>1. d \in DOMAIN Tree
      BY <1>3, <2>1
    <3>2. PICK t : /\ t = Without(FailedItem(d)) /\ FramesOK(t)
                   /\ In(t) = Waiting /\ Failing(t) = Unread \ {d}
      BY <1>1, <2>1, <3>1, HandledFrames
    <3>3. warned' \in BOOLEAN
      BY <2>1, <2>3 DEF FailsToRead, TypeInv
    <3>4. /\ todo' = t /\ entries' = entries + 1 /\ skipped' = skipped \cup SkipAll({d}, "IoError")
          /\ UNCHANGED <<stage, prepared, found, selected, termination, error>>
      BY <2>1, <2>3, <3>2 DEF FailsToRead
    <3> QED BY <1>1, <3>2, <3>3, <3>4
  <2> QED BY <2>2, <2>3
<1>5. CASE ~item.failed
  <2>1. PICK e \in Waiting : e = item.path /\ Item(e) \in Head(todo) /\ Visits(e)
    BY <1>2, <1>3, <1>5
  <2> QED BY <1>1, <2>1, VisitMoves
<1> QED BY <1>4, <1>5

\* A worker takes a directory found.
LEMMA BatchSteps ==
  ASSUME TypeInv, PreparedInv, OnceInv, TakesBatch
  PROVE  /\ stage = "walks" /\ plan.mode = "parallel" /\ ~cancelled /\ Waiting = {} /\ Unread = {}
         /\ UNCHANGED <<plan, cancelled, entries, selected, skipped, termination, inspection>>
         /\ \E d \in found :
              /\ d \in Dirs /\ found' = found \ {d}
              /\ FramesOK(todo') /\ In(todo') = Shown(d) /\ Failing(todo') = Missing(d)
              /\ \/ stage' = "ended" /\ error' = TRUE /\ UNCHANGED <<prepared, warned>>
                 \/ /\ UNCHANGED <<stage, error>> /\ warned' \in BOOLEAN
                    /\ \/ prepared' = prepared /\ Shown(d) = {}
                       \/ prepared' = PreparedWith(prepared, d, NamesIn(Children(d)))
<1>1. /\ stage = "walks" /\ plan.mode = "parallel" /\ ~cancelled /\ todo = << >>
      /\ UNCHANGED <<plan, cancelled, entries, selected, skipped, termination, inspection>>
  BY DEF TakesBatch
<1>2. Waiting = {} /\ Unread = {}
  BY <1>1, EmptyFrames, WaitingIs
<1>3. PICK d \in found : found' = found \ {d} /\ todo' = Opened(Listing(d), << >>) /\ PreparesBatch(d)
  BY DEF TakesBatch
<1>4. d \in Dirs
  BY DEF TypeInv
<1>5. PICK u : u = Opened(Listing(d), << >>)
  OBVIOUS
<1>6. FramesOK(u) /\ In(u) = Shown(d) /\ Failing(u) = Missing(d)
  <2> PICK t : t = << >>
    OBVIOUS
  <2>1. FramesOK(t) /\ In(t) = {} /\ Failing(t) = {}
    BY EmptyFrames
  <2>2. FramesOK(u) /\ In(u) = In(t) \cup Shown(d) /\ Failing(u) = Failing(t) \cup Missing(d)
    BY <1>4, <1>5, <2>1, ListedFrames
  <2> QED BY <2>1, <2>2
<1>7. \/ stage' = "ended" /\ error' = TRUE /\ UNCHANGED <<prepared, warned>>
      \/ /\ UNCHANGED <<stage, error>> /\ warned' \in BOOLEAN
         /\ \/ prepared' = prepared /\ Shown(d) = {}
            \/ prepared' = PreparedWith(prepared, d, NamesIn(Children(d)))
  <2>1. warned \in BOOLEAN
    BY DEF TypeInv
  <2>2. d \in plan.unreadable \/ Children(d) = {} => Shown(d) = {}
    BY DEF Shown
  <2> QED BY <1>3, <2>1, <2>2 DEF PreparesBatch
<1> QED BY <1>1, <1>2, <1>3, <1>4, <1>5, <1>6, <1>7

\* A file of the chunk is inspected, or left out because the scan was interrupted;
\* with the last one of a chunk the rest may be given up.
LEMMA FileSteps ==
  ASSUME TypeInv, InspectsFile
  PROVE  /\ stage = "inspects" /\ UNCHANGED <<plan, stage, walk, cancelled, selected, warned, error>>
         /\ \E f \in chunk : \E left \in SUBSET {f}, dropped \in SUBSET rest :
              /\ chunk' = chunk \ {f} /\ reported' = reported \cup ({f} \ left)
              /\ skipped' = skipped \cup SkipAll(left, "ScanLimit") \cup SkipAll(dropped, "ScanLimit")
              /\ \/ rest' = rest
                 \/ rest' = {} /\ plan.api # "full" /\ (termination' # None \/ stopped')
              /\ left # {} => cancelled /\ termination' # None
              /\ dropped # {} => rest' = {} /\ termination' # None
              /\ rest' # rest /\ plan.api = "compact" /\ plan.inspects => dropped = rest
              /\ \/ termination' = termination
                 \/ cancelled /\ termination' = Terminated("Interrupted")
              /\ stopped' \in BOOLEAN /\ (stopped => stopped') /\ (stopped' => stopped \/ plan.api = "stream")
<1>1. stage = "inspects" /\ stopped \in BOOLEAN
  BY DEF InspectsFile, TypeInv
<1>2. PICK f \in chunk : Inspects(f) \/ LeavesOut(f)
  BY DEF InspectsFile
<1>3. SkipAll({}, "ScanLimit") = {}
  BY DEF SkipAll
<1>4. UNCHANGED <<plan, stage, walk, cancelled, selected, warned, error>>
  BY <1>2 DEF Inspects, LeavesOut, AfterFile
<1>5. CASE AfterFile(f, termination, TRUE, FALSE)
  <2>1. /\ chunk' = chunk \ {f} /\ reported' = reported \cup {f} /\ termination' = termination
        /\ stopped' = stopped
        /\ \/ rest' = rest /\ skipped' = skipped
           \/ rest' = {} /\ termination # None /\ plan.api # "full"
              /\ skipped' = skipped \cup (IF plan.inspects /\ plan.api = "compact" THEN SkipAll(rest, "ScanLimit") ELSE {})
    BY <1>1, <1>5 DEF AfterFile, GoesOn
  <2>2. PICK left \in SUBSET {f} : left = {}
    OBVIOUS
  <2>3. PICK dropped \in SUBSET rest :
          dropped = IF rest' # rest /\ plan.inspects /\ plan.api = "compact" THEN rest ELSE {}
    OBVIOUS
  <2> QED BY <1>1, <1>3, <1>4, <2>1, <2>2, <2>3
<1>6. CASE plan.api = "stream" /\ AfterFile(f, termination, TRUE, TRUE)
  <2>1. /\ chunk' = chunk \ {f} /\ reported' = reported \cup {f} /\ termination' = termination
        /\ stopped' = TRUE /\ skipped' = skipped
        /\ rest' = rest \/ rest' = {}
    BY <1>1, <1>6 DEF AfterFile
  <2>2. PICK left \in SUBSET {f} : left = {}
    OBVIOUS
  <2>3. PICK dropped \in SUBSET rest : dropped = {}
    OBVIOUS
  <2> QED BY <1>1, <1>3, <1>4, <1>6, <2>1, <2>2, <2>3
<1>7. CASE plan.inspects /\ cancelled /\ AfterFile(f, Terminated("Interrupted"), FALSE, FALSE)
  <2>1. Terminated("Interrupted") # None
    BY DiscoveryConstants DEF Terminated
  <2>2. /\ chunk' = chunk \ {f} /\ reported' = reported /\ termination' = Terminated("Interrupted")
        /\ stopped' = stopped
        /\ \/ rest' = rest /\ skipped' = skipped \cup SkipAll({f}, "ScanLimit")
           \/ rest' = {} /\ plan.api # "full"
              /\ skipped' = skipped \cup SkipAll({f}, "ScanLimit")
                             \cup (IF plan.inspects /\ plan.api = "compact" THEN SkipAll(rest, "ScanLimit") ELSE {})
    BY <1>1, <1>7, <2>1 DEF AfterFile, GoesOn
  <2>3. PICK left \in SUBSET {f} : left = {f}
    OBVIOUS
  <2>4. PICK dropped \in SUBSET rest :
          dropped = IF rest' # rest /\ plan.inspects /\ plan.api = "compact" THEN rest ELSE {}
    OBVIOUS
  <2> QED BY <1>1, <1>3, <1>4, <1>7, <2>1, <2>2, <2>3, <2>4
<1> QED BY <1>2, <1>5, <1>6, <1>7 DEF Inspects, LeavesOut

LEMMA StepTyped ==
  ASSUME TypeInv, PreparedInv, OnceInv, ReportInv, [Next]_vars
  PROVE  TypeInv'
<1>1. /\ plan \in Plans
      /\ stage \in {"walks", "walked", "inspects", "ended"}
      /\ found \subseteq Dirs /\ entries \in Nat /\ selected \subseteq Files
      /\ skipped \subseteq [path : DOMAIN Tree, kind : Kinds]
      /\ termination \in {None, "Interrupted", "MaxEntries", "MaxTotalBytes"}
      /\ cancelled \in BOOLEAN /\ warned \in BOOLEAN /\ error \in BOOLEAN /\ stopped \in BOOLEAN
      /\ (stage = "walks" => termination = None) /\ (stage # "ended" => ~error)
  BY DEF TypeInv
<1>2. Files \subseteq DOMAIN Tree /\ Dirs \subseteq DOMAIN Tree /\ Waiting \subseteq DOMAIN Tree
      /\ Unread \subseteq DOMAIN Tree
  BY PlacesAre, DiscoveryConstants DEF Files
<1>3. \A S, kind : S \subseteq DOMAIN Tree /\ kind \in Kinds => SkipAll(S, kind) \subseteq [path : DOMAIN Tree, kind : Kinds]
  BY <1>1, SkipFacts
<1>4. WalkKinds \subseteq Kinds /\ "IoError" \in Kinds /\ "ScanLimit" \in Kinds
  BY DEF Kinds, WalkKinds
<1>5. CASE Cancel
  BY <1>1, <1>5 DEF Cancel, walk, evidence, inspection, TypeInv
<1>6. CASE StopsBefore
  <2>1. BeforeNext \in {None, "Interrupted", "MaxEntries"}
    BY DEF BeforeNext
  <2> QED BY <1>1, <1>6, <2>1 DEF StopsBefore, Fails, Terminated, walk, inspection, TypeInv
<1>7. CASE HandlesItem
  <2>1. UNCHANGED <<plan, cancelled, stopped>> /\ stage = "walks"
    BY <1>7, ItemSteps DEF inspection
  <2>2. CASE Fails
    BY <1>1, <2>1, <2>2 DEF Fails, walk, TypeInv
  <2>3. CASE \E d \in Unread :
                 /\ entries' = entries + 1 /\ warned' \in BOOLEAN
                 /\ skipped' = skipped \cup SkipAll({d}, "IoError")
                 /\ UNCHANGED <<stage, found, selected, termination, error>>
    <3>1. PICK d \in Unread :
                 /\ entries' = entries + 1 /\ warned' \in BOOLEAN
                 /\ skipped' = skipped \cup SkipAll({d}, "IoError")
                 /\ UNCHANGED <<stage, found, selected, termination, error>>
      BY <2>3
    <3>2. skipped' \subseteq [path : DOMAIN Tree, kind : Kinds]
      BY <1>1, <1>2, <1>3, <1>4, <3>1
    <3>3. entries' \in Nat
      BY <1>1, <3>1
    <3> QED BY <1>1, <2>1, <3>1, <3>2, <3>3 DEF TypeInv
  <2>4. CASE \E e \in Waiting : \E known, decision :
                 /\ Judged(e, known, decision) /\ Moved(e, decision)
                 /\ entries' = entries + 1 /\ Records(e, decision)
                 /\ warned' \in BOOLEAN /\ UNCHANGED <<stage, termination, error>>
    <3>0. PICK e \in Waiting : \E known, decision :
                 /\ Judged(e, known, decision) /\ Moved(e, decision)
                 /\ entries' = entries + 1 /\ Records(e, decision)
                 /\ warned' \in BOOLEAN /\ UNCHANGED <<stage, termination, error>>
      BY <2>4
    <3>1. PICK known, decision :
                 /\ Judged(e, known, decision) /\ Moved(e, decision)
                 /\ entries' = entries + 1 /\ Records(e, decision)
                 /\ warned' \in BOOLEAN /\ UNCHANGED <<stage, termination, error>>
      BY <3>0
    <3>2. /\ decision \in Verdicts /\ (decision = "Select" => e \in Files) /\ (decision = "Descend" => e \in Dirs)
      BY <3>1 DEF Judged
    <3>3. found' \subseteq Dirs
      BY <1>1, <3>1, <3>2 DEF Moved
    <3>4. selected' \subseteq Files
      BY <1>1, <3>1, <3>2 DEF Records
    <3>5. skipped' \subseteq [path : DOMAIN Tree, kind : Kinds]
      <4>1. decision \notin {"Select", "Descend", "Pass"} => decision \in Kinds
        BY <1>4, <3>2 DEF Verdicts
      <4>2. decision \notin {"Select", "Descend", "Pass"} => SkipAll({e}, decision) \subseteq [path : DOMAIN Tree, kind : Kinds]
        BY <1>2, <1>3, <4>1
      <4> QED BY <1>1, <3>1, <4>2 DEF Records
    <3> QED BY <1>1, <2>1, <3>1, <3>3, <3>4, <3>5 DEF TypeInv
  <2> QED BY <1>7, <2>2, <2>3, <2>4, ItemSteps
<1>8. CASE TakesBatch
  <2>1. PICK d \in found :
          /\ found' = found \ {d} /\ warned' \in BOOLEAN
          /\ \/ stage' = "ended" /\ error' = TRUE
             \/ UNCHANGED <<stage, error>>
    BY <1>1, <1>8, BatchSteps
  <2>2. UNCHANGED <<plan, cancelled, entries, selected, skipped, termination, stopped>> /\ stage = "walks"
    BY <1>8, BatchSteps DEF inspection
  <2>3. CASE stage' = "ended" /\ error' = TRUE
    BY <1>1, <2>1, <2>2, <2>3 DEF TypeInv
  <2>4. CASE UNCHANGED <<stage, error>>
    BY <1>1, <2>1, <2>2, <2>4 DEF TypeInv
  <2> QED BY <2>1, <2>3, <2>4
<1>9. CASE WalkEnds
  BY <1>1, <1>9 DEF WalkEnds, walk, evidence, inspection, TypeInv
<1>10. CASE Discovered
  <2>1. UNCHANGED <<plan, found, entries, cancelled, warned, stopped>> /\ stage = "walked"
    BY <1>10 DEF Discovered, walk
  <2>2. CASE plan.api = "paths"
    BY <1>1, <1>10, <2>1, <2>2 DEF Discovered, TypeInv
  <2>3. CASE plan.api # "paths"
    <3>1. PICK truncated : truncated = Truncated(selected)
      OBVIOUS
    <3>2. truncated \subseteq selected
      BY <3>1 DEF Truncated
    <3>3. skipped' = skipped \cup SkipAll(truncated, "ScanLimit") /\ selected' = selected \ truncated
          /\ stage' = "inspects" /\ error' = error
          /\ termination' \in {None, "Interrupted", "MaxEntries", "MaxTotalBytes"}
      BY <1>1, <1>10, <2>3, <3>1 DEF Discovered, Terminated
    <3>4. skipped' \subseteq [path : DOMAIN Tree, kind : Kinds]
      BY <1>1, <1>2, <1>3, <1>4, <3>2, <3>3
    <3> QED BY <1>1, <2>1, <3>3, <3>4 DEF TypeInv
  <2> QED BY <2>2, <2>3
<1>11. CASE TakesChunk
  BY <1>1, <1>11 DEF TakesChunk, walk, evidence, TypeInv
<1>12. CASE InspectsFile
  <2>1. UNCHANGED <<plan, stage, found, entries, cancelled, selected, warned, error>> /\ stage = "inspects"
    BY <1>12, FileSteps DEF walk
  <2>2. PICK f \in chunk : \E left \in SUBSET {f}, dropped \in SUBSET rest :
              /\ skipped' = skipped \cup SkipAll(left, "ScanLimit") \cup SkipAll(dropped, "ScanLimit")
              /\ termination' = termination \/ termination' = Terminated("Interrupted")
              /\ stopped' \in BOOLEAN
    BY <1>12, FileSteps
  <2>3. PICK left \in SUBSET {f}, dropped \in SUBSET rest :
              /\ skipped' = skipped \cup SkipAll(left, "ScanLimit") \cup SkipAll(dropped, "ScanLimit")
              /\ termination' = termination \/ termination' = Terminated("Interrupted")
              /\ stopped' \in BOOLEAN
    BY <2>2
  <2>4. chunk \cup rest \subseteq selected
    BY <1>1, <2>1 DEF ReportInv, Listed
  <2>5. skipped' \subseteq [path : DOMAIN Tree, kind : Kinds]
    <3>1. left \subseteq DOMAIN Tree /\ dropped \subseteq DOMAIN Tree
      BY <1>1, <1>2, <2>4
    <3> QED BY <1>1, <1>3, <1>4, <2>3, <3>1
  <2>6. termination' \in {None, "Interrupted", "MaxEntries", "MaxTotalBytes"}
    BY <1>1, <2>3 DEF Terminated
  <2> QED BY <1>1, <2>1, <2>3, <2>5, <2>6 DEF TypeInv
<1>13. CASE Reports
  BY <1>1, <1>13 DEF Reports, walk, evidence, inspection, TypeInv
<1>14. CASE UNCHANGED vars
  BY <1>1, <1>14 DEF vars, walk, evidence, inspection, TypeInv
<1> QED BY <1>5, <1>6, <1>7, <1>8, <1>9, <1>10, <1>11, <1>12, <1>13, <1>14 DEF Next, Steps

-----------------------------------------------------------------------------
(* The steps: what the matcher has prepared *)

LEMMA QuietSteps ==
  ASSUME [Next]_vars, ~HandlesItem, ~TakesBatch
  PROVE  /\ UNCHANGED <<plan, prepared, todo, found>> /\ (stage' = "walks" => stage = "walks")
         /\ stage' \in {"walks", "walked"} => UNCHANGED <<selected, skipped>> /\ stage \in {"walks", "walked"}
<1>1. CASE Cancel
  BY <1>1 DEF Cancel, walk, evidence
<1>2. CASE StopsBefore
  BY <1>2 DEF StopsBefore, Fails, walk
<1>3. CASE WalkEnds
  BY <1>3 DEF WalkEnds, walk, evidence
<1>4. CASE Discovered
  BY <1>4 DEF Discovered, walk
<1>5. CASE TakesChunk
  BY <1>5 DEF TakesChunk, walk
<1>6. CASE InspectsFile
  BY <1>6 DEF InspectsFile, Inspects, LeavesOut, AfterFile, walk
<1>7. CASE Reports
  BY <1>7 DEF Reports, walk
<1>8. CASE UNCHANGED vars
  BY <1>8 DEF vars, walk, evidence
<1> QED BY <1>1, <1>2, <1>3, <1>4, <1>5, <1>6, <1>7, <1>8 DEF Next, Steps

LEMMA NextPlaces == Waiting' = In(todo') /\ Unread' = Failing(todo')
BY DEF Waiting, Unread, In, Failing

LEMMA StepPrepared ==
  ASSUME TypeInv, PreparedInv, OnceInv, [Next]_vars
  PROVE  PreparedInv'
<1>1. /\ WaysTo \subseteq DOMAIN prepared /\ DOMAIN prepared \subseteq WaysTo \cup Dirs
      /\ \A d \in DOMAIN prepared : RulesTyped(prepared[d])
      /\ stage = "walks" =>
        /\ \A e \in Waiting : Ready(e)
        /\ \A d \in found : d = ScanRoot \/ Parent(d) \in DOMAIN prepared
  BY DEF PreparedInv
<1>2. Waiting' = In(todo')
  BY NextPlaces
<1>3. ASSUME UNCHANGED <<plan, prepared, todo, found>>, stage' = "walks" => stage = "walks"
      PROVE  PreparedInv'
  <2>1. Waiting' = Waiting /\ \A e : Ready(e)' <=> Ready(e)
    BY <1>3 DEF Waiting, Ready
  <2> QED BY <1>1, <1>3, <2>1 DEF PreparedInv
<1>4. CASE HandlesItem
  <2>1. stage = "walks" /\ plan' = plan
    BY <1>4, ItemSteps
  <2>2. CASE Fails
    BY <1>3, <2>1, <2>2 DEF Fails, walk
  <2>3. CASE \E d \in Unread : In(todo') = Waiting /\ UNCHANGED <<stage, prepared, found>>
    <3>1. \A e : Ready(e)' <=> Ready(e)
      BY <2>1, <2>3 DEF Ready
    <3> QED BY <1>1, <1>2, <2>3, <3>1 DEF PreparedInv
  <2>4. CASE \E e \in Waiting : \E known, decision :
                 Judged(e, known, decision) /\ Moved(e, decision) /\ prepared' = known /\ stage' = stage
    <3>0. PICK e \in Waiting : \E known, decision :
                 Judged(e, known, decision) /\ Moved(e, decision) /\ prepared' = known /\ stage' = stage
      BY <2>4
    <3>1. PICK known, decision :
                 Judged(e, known, decision) /\ Moved(e, decision) /\ prepared' = known /\ stage' = stage
      BY <3>0
    <3>2. /\ DOMAIN prepared \subseteq DOMAIN known /\ DOMAIN known \subseteq WaysTo \cup Dirs
          /\ \A x \in DOMAIN known : RulesTyped(known[x])
          /\ e # ScanRoot => Parent(e) \in DOMAIN known
          /\ decision = "Descend" => e \in Dirs
          /\ plan.mode = "serial" /\ decision = "Descend" => e \in DOMAIN known
      BY <3>1 DEF Judged
    <3>3. \A x \in Waiting : Ready(x)'
      BY <1>1, <2>1, <3>1, <3>2 DEF Ready
    <3>4. \A d \in found : d = ScanRoot \/ Parent(d) \in DOMAIN known
      BY <1>1, <2>1, <3>2
    <3>5. ASSUME decision = "Descend", plan.mode # "parallel", NEW c \in Shown(e) PROVE Ready(c)'
      <4>1. e \in Dirs /\ c \in Children(e)
        BY <3>2, <3>5 DEF Shown
      <4>2. Parent(c) = e
        BY <4>1, ChildFacts
      <4>3. plan.mode \in {"serial", "fallback"}
        BY <3>5, PlanFacts DEF TypeInv
      <4>4. CASE plan.mode = "serial"
        BY <2>1, <3>1, <3>2, <3>5, <4>2, <4>4 DEF Ready
      <4>5. CASE plan.mode = "fallback"
        BY <2>1, <3>1, <3>2, <4>2, <4>5 DEF Ready
      <4> QED BY <4>3, <4>4, <4>5
    <3>6. \A x \in In(todo') : Ready(x)'
      BY <3>1, <3>3, <3>5 DEF Moved
    <3>7. \A d \in found' : d = ScanRoot \/ Parent(d) \in DOMAIN known
      BY <3>1, <3>2, <3>4 DEF Moved
    <3> QED BY <1>1, <1>2, <3>1, <3>2, <3>6, <3>7 DEF PreparedInv
  <2> QED BY <1>4, <2>2, <2>3, <2>4, ItemSteps
<1>5. CASE TakesBatch
  <2>1. stage = "walks" /\ plan' = plan /\ plan.mode = "parallel"
    BY <1>5, BatchSteps
  <2>2. PICK d \in found :
              /\ d \in Dirs /\ found' = found \ {d} /\ In(todo') = Shown(d)
              /\ \/ stage' = "ended" /\ prepared' = prepared
                 \/ prepared' = prepared /\ Shown(d) = {}
                 \/ prepared' = PreparedWith(prepared, d, NamesIn(Children(d)))
    BY <1>5, BatchSteps
  <2>3. d = ScanRoot \/ Parent(d) \in DOMAIN prepared
    BY <1>1, <2>1
  <2>4. CASE stage' = "ended" /\ prepared' = prepared
    BY <1>1, <2>4 DEF PreparedInv
  <2>5. CASE prepared' = prepared /\ Shown(d) = {}
    BY <1>1, <1>2, <2>1, <2>2, <2>5 DEF PreparedInv
  <2>6. CASE prepared' = PreparedWith(prepared, d, NamesIn(Children(d)))
    <3>1. PICK names, known : names = NamesIn(Children(d)) /\ known = PreparedWith(prepared, d, names)
      OBVIOUS
    <3>2. DOMAIN known = DOMAIN prepared \cup {d} /\ \A x \in DOMAIN known : RulesTyped(known[x])
      BY <2>2, <2>3, <3>1, PreparedMore
    <3>3. \A x \in found' : x = ScanRoot \/ Parent(x) \in DOMAIN known
      BY <1>1, <2>1, <2>2, <3>2
    <3>4. ASSUME NEW c \in Shown(d) PROVE Ready(c)'
      <4>1. c \in Children(d)
        BY DEF Shown
      <4>2. Parent(c) = d
        BY <2>2, <4>1, ChildFacts
      <4> QED BY <2>1, <2>6, <3>1, <3>2, <4>2 DEF Ready
    <3> QED BY <1>1, <1>2, <2>2, <2>6, <3>1, <3>2, <3>3, <3>4 DEF PreparedInv
  <2> QED BY <2>2, <2>4, <2>5, <2>6
<1> QED BY <1>3, <1>4, <1>5, QuietSteps

-----------------------------------------------------------------------------
(* The steps: no entry is come to twice *)

LEMMA FilesAreNoDirs == Files \cap Dirs = {}
BY DiscoveryConstants DEF Files, Dirs, IsDir, Kind

\* What the visit of an entry records of it.
LEMMA RecordFacts ==
  ASSUME plan \in Plans, NEW e, NEW decision, Records(e, decision)
  PROVE  /\ decision = "Select" => selected' = selected \cup {e} /\ SkippedPaths' = SkippedPaths
         /\ decision # "Select" => selected' = selected
         /\ decision \in {"Select", "Descend", "Pass"} => skipped' = skipped /\ SkippedPaths' = SkippedPaths
         /\ SkippedPaths \subseteq SkippedPaths' /\ SkippedPaths' \subseteq SkippedPaths \cup {e}
         /\ skipped \subseteq skipped'
         /\ decision \notin {"Select", "Descend", "Pass"} =>
              /\ skipped' = skipped \cup SkipAll({e}, decision)
              /\ plan.api # "paths" => e \in SkippedPaths'
<1>1. \A s \in SkipAll({e}, decision) : s.path \in {e}
  BY SkipFacts
<1>2. plan.api # "paths" => \E s \in SkipAll({e}, decision) : s.path = e
  BY SkipFacts
<1> QED BY <1>1, <1>2 DEF Records, SkippedPaths

LEMMA StepOnce ==
  ASSUME TypeInv, PreparedInv, OnceInv, [Next]_vars
  PROVE  OnceInv'
<1>1. /\ stage = "walks" => FramesOK(todo) /\ (plan.mode # "parallel" => found = {})
                            /\ Apart(Waiting, Unread, found, Touched)
      /\ stage \in {"walks", "walked"} => selected \cap SkippedPaths = {}
  BY DEF OnceInv
<1>2. plan \in Plans /\ selected \subseteq Files /\ Waiting' = In(todo') /\ Unread' = Failing(todo')
  BY NextPlaces DEF TypeInv
<1>3. PICK W, U, F, T : W = Waiting /\ U = Unread /\ F = found /\ T = Touched
  OBVIOUS
<1>4. W \in SUBSET DOMAIN Tree /\ F \in SUBSET DOMAIN Tree /\ T \in SUBSET DOMAIN Tree
  BY <1>3, PlacesAre
<1>5. CASE /\ UNCHANGED <<plan, prepared, todo, found>> /\ (stage' = "walks" => stage = "walks")
           /\ stage' \in {"walks", "walked"} => UNCHANGED <<selected, skipped>> /\ stage \in {"walks", "walked"}
  <2>1. Waiting' = Waiting /\ Unread' = Unread
    BY <1>5 DEF Waiting, Unread
  <2>2. stage' \in {"walks", "walked"} => Touched' = Touched /\ SkippedPaths' = SkippedPaths
    BY <1>5 DEF Touched, SkippedPaths
  <2> QED BY <1>1, <1>5, <2>1, <2>2 DEF OnceInv
<1>6. CASE HandlesItem
  <2>1. stage = "walks" /\ plan' = plan
    BY <1>6, ItemSteps
  <2>2. CASE Fails
    BY <2>2 DEF Fails, OnceInv
  <2>3. CASE \E d \in Unread :
                 /\ FramesOK(todo') /\ In(todo') = Waiting /\ Failing(todo') = Unread \ {d}
                 /\ skipped' = skipped \cup SkipAll({d}, "IoError") /\ UNCHANGED <<found, selected>>
    <3>1. PICK d \in U :
                 /\ FramesOK(todo') /\ In(todo') = W /\ Failing(todo') = U \ {d}
                 /\ skipped' = skipped \cup SkipAll({d}, "IoError") /\ UNCHANGED <<found, selected>>
      BY <1>3, <2>3
    <3>2. \A s \in SkipAll({d}, "IoError") : s.path \in {d}
      BY <1>2, SkipFacts
    <3>3. SkippedPaths' \subseteq SkippedPaths \cup {d}
      BY <3>1, <3>2 DEF SkippedPaths
    <3>4. PICK T2 \in SUBSET (T \cup {d}) : T2 = Touched'
      BY <1>3, <3>1, <3>3 DEF Touched
    <3>5. Apart(W, U, F, T) /\ d \in Dirs /\ W \cap U = {}
      BY <1>1, <1>3, <2>1, <3>1 DEF Apart
    <3>6. Apart(W \ {d}, U \ {d}, F, T \cup {d})
      BY <3>1, <3>5, ApartHandled
    <3>7. Apart(W, U \ {d}, F, T \cup {d})
      <4>1. W \ {d} = W
        BY <3>1, <3>5
      <4> QED BY <3>6, <4>1
    <3>8. Apart(W, U \ {d}, F, T2)
      <4>1. W \in SUBSET W /\ U \ {d} \in SUBSET (U \ {d}) /\ F \in SUBSET F
        OBVIOUS
      <4> QED BY <3>4, <3>7, <4>1, ApartLess
    <3>9. (selected \cap SkippedPaths)' = {}
      BY <1>1, <1>2, <2>1, <3>1, <3>3, <3>5, FilesAreNoDirs
    <3> QED BY <1>1, <1>2, <1>3, <2>1, <3>1, <3>4, <3>8, <3>9 DEF OnceInv
  <2>4. CASE \E e \in Waiting : \E known, decision :
                 Judged(e, known, decision) /\ Moved(e, decision) /\ Records(e, decision)
    <3>0. PICK e \in Waiting : \E known, decision :
                 Judged(e, known, decision) /\ Moved(e, decision) /\ Records(e, decision)
      BY <2>4
    <3>1. PICK known, decision :
                 Judged(e, known, decision) /\ Moved(e, decision) /\ Records(e, decision)
      BY <3>0
    <3>2. /\ FramesOK(todo) /\ (plan.mode # "parallel" => F = {}) /\ Apart(W, U, F, T) /\ e \in W
          /\ W \cap U = {} /\ T \cap W = {} /\ selected \cap SkippedPaths = {}
      BY <1>1, <1>3, <2>1, <3>1 DEF Apart
    <3>3. /\ decision = "Select" => selected' = selected \cup {e} /\ SkippedPaths' = SkippedPaths
          /\ decision # "Select" => selected' = selected
          /\ decision \in {"Select", "Descend", "Pass"} => SkippedPaths' = SkippedPaths
          /\ SkippedPaths' \subseteq SkippedPaths \cup {e}
      BY <1>2, <3>1, RecordFacts
    <3>4. PICK T2 \in SUBSET (T \cup {e}) : T2 = Touched' /\ (decision = "Descend" => T2 = T)
      BY <1>3, <3>3 DEF Touched
    <3>5. (selected \cap SkippedPaths)' = {}
      <4>1. e \notin selected /\ e \notin SkippedPaths
        BY <1>3, <3>2 DEF Touched
      <4> QED BY <3>2, <3>3, <4>1
    <3>6. FramesOK(todo') /\ (plan.mode # "parallel" => found' = {})
      BY <1>3, <3>1, <3>2 DEF Moved
    <3>7. Apart(In(todo'), Failing(todo'), found', T2)
      <4>1. CASE decision # "Descend"
        <5>1. In(todo') = W \ {e} /\ Failing(todo') = U /\ found' = F
          BY <1>3, <3>1, <4>1 DEF Moved
        <5>2. Apart(W \ {e}, U \ {e}, F, T \cup {e})
          BY <3>2, ApartHandled
        <5>3. U \ {e} = U /\ W \ {e} \in SUBSET (W \ {e}) /\ U \in SUBSET U /\ F \in SUBSET F
          BY <3>2
        <5>4. Apart(W \ {e}, U, F, T2)
          BY <3>4, <5>2, <5>3, ApartLess
        <5> QED BY <5>1, <5>4
      <4>2. CASE decision = "Descend" /\ plan.mode = "parallel"
        <5>1. In(todo') = W \ {e} /\ Failing(todo') = U /\ found' = F \cup {e}
          BY <1>3, <3>1, <4>2 DEF Moved
        <5>2. Apart(W \ {e}, U, F \cup {e}, T)
          BY <3>2, ApartKept
        <5> QED BY <3>4, <4>2, <5>1, <5>2
      <4>3. CASE decision = "Descend" /\ plan.mode # "parallel"
        <5>1. In(todo') = (W \ {e}) \cup Shown(e) /\ Failing(todo') = U \cup Missing(e) /\ found' = F
          BY <1>3, <3>1, <4>3 DEF Moved
        <5>2. e \in Dirs /\ e \notin U /\ e \in W \cup F
          BY <3>1, <3>2, <4>3 DEF Judged
        <5>3. Apart((W \ {e}) \cup Shown(e), U \cup Missing(e), F \ {e}, T)
          BY <1>4, <3>2, <5>2, ApartOpened
        <5>4. F \ {e} = F
          BY <3>2, <4>3
        <5> QED BY <3>4, <4>3, <5>1, <5>3, <5>4
      <4> QED BY <4>1, <4>2, <4>3
    <3> QED BY <1>2, <2>1, <3>4, <3>5, <3>6, <3>7 DEF OnceInv
  <2> QED BY <1>6, <2>2, <2>3, <2>4, ItemSteps
<1>7. CASE TakesBatch
  <2>1. /\ stage = "walks" /\ plan.mode = "parallel" /\ Waiting = {} /\ Unread = {}
        /\ UNCHANGED <<plan, selected, skipped>>
    BY <1>7, BatchSteps
  <2>2. PICK d \in F :
              /\ d \in Dirs /\ found' = F \ {d}
              /\ FramesOK(todo') /\ In(todo') = Shown(d) /\ Failing(todo') = Missing(d)
    BY <1>3, <1>7, BatchSteps
  <2>3. Touched' = T /\ SkippedPaths' = SkippedPaths
    BY <1>3, <2>1 DEF Touched, SkippedPaths
  <2>4. Apart((W \ {d}) \cup Shown(d), U \cup Missing(d), F \ {d}, T)
    <3>1. Apart(W, U, F, T) /\ d \in W \cup F /\ d \notin U
      BY <1>1, <1>3, <2>1
    <3> QED BY <1>4, <2>2, <3>1, ApartOpened
  <2>5. (W \ {d}) \cup Shown(d) = Shown(d) /\ U \cup Missing(d) = Missing(d)
    BY <1>3, <2>1
  <2> QED BY <1>1, <1>2, <2>1, <2>2, <2>3, <2>4, <2>5 DEF OnceInv
<1> QED BY <1>5, <1>6, <1>7, QuietSteps

-----------------------------------------------------------------------------
(* The steps: no entry is left out *)

LEMMA ToldIs ==
  ASSUME NEW e
  PROVE  SkipTold(e) <=> e \in SkippedPaths \/ Over(e) \cap SkippedPaths # {}
BY DEF SkipTold, SkippedPaths

\* What is known of a file stays known.
LEMMA KnownStays ==
  ASSUME plan' = plan, SkippedPaths \subseteq SkippedPaths', selected \subseteq selected' \cup SkippedPaths'
  PROVE  \A e : Known(e) => Known(e)'
<1> TAKE e
<1>1. EffectiveMinDepth' = EffectiveMinDepth
  BY DEF EffectiveMinDepth
<1>2. SkipTold(e)' <=> e \in SkippedPaths' \/ Over(e) \cap SkippedPaths' # {}
  BY DEF SkipTold, SkippedPaths
<1>3. SkipTold(e) <=> e \in SkippedPaths \/ Over(e) \cap SkippedPaths # {}
  BY ToldIs
<1> QED BY <1>1, <1>2, <1>3 DEF Known

LEMMA SkipsGrow ==
  ASSUME skipped \subseteq skipped'
  PROVE  SkippedPaths \subseteq SkippedPaths'
BY DEF SkippedPaths

AllKnown == \A e \in DOMAIN Tree : ~IsDir(e) => Known(e)

LEMMA AllKnownStays ==
  ASSUME AllKnown, plan' = plan, SkippedPaths \subseteq SkippedPaths', selected \subseteq selected' \cup SkippedPaths'
  PROVE  AllKnown'
BY KnownStays DEF AllKnown, IsDir, Kind

LEMMA OpenedIsExpected ==
  ASSUME NEW d \in Dirs, NEW e \in DOMAIN Tree, d \in Over(e)
  PROVE  \/ d \in plan.unreadable /\ d \in Missing(d)
         \/ \E c \in Shown(d) : c = e \/ c \in Over(e)
<1>1. \E c \in Children(d) : c = e \/ c \in Over(e)
  BY OverFacts
<1> QED BY <1>1 DEF Shown, Missing

LEMMA WalkCovers ==
  ASSUME TypeInv, PreparedInv, OnceInv, CoverInv, Complete, stage = "walks", HandlesItem \/ TakesBatch,
         ~error',
         NEW e \in DOMAIN Tree, ~IsDir(e)
  PROVE  Known(e)' \/ Expected(e)'
<1>1. Known(e) \/ Expected(e)
  BY DEF CoverInv
<1>2. plan \in Plans /\ plan' = plan /\ plan.api # "paths"
  BY ItemSteps, BatchSteps DEF TypeInv, Complete
<1>3. Expected(e)' <=> \/ \E a \in In(todo') : a = e \/ a \in Over(e)
                       \/ \E a \in found' \cup Failing(todo') : a \in Over(e)
  BY NextPlaces DEF Expected
<1>4. Over(e) \subseteq Dirs /\ e \notin Dirs
  BY OverFacts DEF Dirs
<1>5. SkipTold(e)' <=> e \in SkippedPaths' \/ Over(e) \cap SkippedPaths' # {}
  BY DEF SkipTold, SkippedPaths
<1>6. CASE HandlesItem
  <2>1. CASE Fails
    BY <2>1 DEF Fails
  <2>2. CASE \E d \in Unread :
                 /\ In(todo') = Waiting /\ Failing(todo') = Unread \ {d}
                 /\ skipped' = skipped \cup SkipAll({d}, "IoError") /\ UNCHANGED <<found, selected>>
    <3>1. PICK d \in Unread :
                 /\ In(todo') = Waiting /\ Failing(todo') = Unread \ {d}
                 /\ skipped' = skipped \cup SkipAll({d}, "IoError") /\ UNCHANGED <<found, selected>>
      BY <2>2
    <3>2. SkippedPaths \subseteq SkippedPaths' /\ d \in SkippedPaths'
      <4>1. \E s \in SkipAll({d}, "IoError") : s.path = d
        BY <1>2, SkipFacts
      <4> QED BY <3>1, <4>1 DEF SkippedPaths
    <3>3. Known(e) => Known(e)'
      BY <1>2, <3>1, <3>2, KnownStays
    <3>4. d \in Over(e) => Known(e)'
      BY <1>5, <3>2 DEF Known
    <3>5. Expected(e) /\ d \notin Over(e) => Expected(e)'
      BY <1>3, <3>1 DEF Expected
    <3> QED BY <1>1, <3>3, <3>4, <3>5
  <2>3. CASE \E x \in Waiting : \E known, decision :
                 Judged(x, known, decision) /\ Moved(x, decision) /\ Records(x, decision)
    <3>0. PICK x \in Waiting : \E known, decision :
                 Judged(x, known, decision) /\ Moved(x, decision) /\ Records(x, decision)
      BY <2>3
    <3>1. PICK known, decision :
                 Judged(x, known, decision) /\ Moved(x, decision) /\ Records(x, decision)
      BY <3>0
    <3>2. /\ decision = "Select" => selected' = selected \cup {x}
          /\ decision # "Select" => selected' = selected
          /\ SkippedPaths \subseteq SkippedPaths'
          /\ decision \notin {"Select", "Descend", "Pass"} => x \in SkippedPaths'
      BY <1>2, <3>1, RecordFacts
    <3>3. /\ decision = "Select" => x \in Files
          /\ decision = "Descend" => x \in Dirs
          /\ decision = "Pass" => ~IsDir(x) /\ Depth(x) < EffectiveMinDepth
      BY <3>1 DEF Judged
    <3>4. Known(e) => Known(e)'
      BY <1>2, <3>2, KnownStays
    <3>5. CASE decision = "Descend"
      <4>1. x # e /\ x \in Dirs
        BY <1>4, <3>3, <3>5
      <4>2. x \in Over(e) => Expected(e)'
        <5>1. CASE plan.mode = "parallel"
          BY <1>3, <3>1, <3>5, <5>1 DEF Moved
        <5>2. CASE plan.mode # "parallel"
          <6>1. In(todo') = (Waiting \ {x}) \cup Shown(x) /\ Failing(todo') = Unread \cup Missing(x)
            BY <3>1, <3>5, <5>2 DEF Moved
          <6> QED BY <1>3, <4>1, <6>1, OpenedIsExpected
        <5> QED BY <5>1, <5>2
      <4>3. Expected(e) /\ x \notin Over(e) => Expected(e)'
        BY <1>3, <3>1, <4>1 DEF Moved, Expected
      <4> QED BY <1>1, <3>4, <4>2, <4>3
    <3>6. CASE decision # "Descend"
      <4>1. In(todo') = Waiting \ {x} /\ Failing(todo') = Unread /\ found' = found
        BY <3>1, <3>6 DEF Moved
      <4>2. x = e => Known(e)'
        <5>1. EffectiveMinDepth' = EffectiveMinDepth
          BY <1>2 DEF EffectiveMinDepth
        <5> QED BY <1>5, <3>2, <3>3, <3>6, <5>1 DEF Known
      <4>3. x \in Over(e) => Known(e)'
        <5>1. x \in Over(e) => IsDir(x) /\ x \notin Files
          BY <1>4, FilesAreNoDirs DEF Dirs
        <5> QED BY <1>5, <3>2, <3>3, <3>6, <5>1 DEF Known
      <4>4. Expected(e) /\ x # e /\ x \notin Over(e) => Expected(e)'
        BY <1>3, <4>1 DEF Expected
      <4> QED BY <1>1, <3>4, <4>2, <4>3, <4>4
    <3> QED BY <3>5, <3>6
  <2> QED BY <1>6, <2>1, <2>2, <2>3, ItemSteps
<1>7. CASE TakesBatch
  <2>1. Waiting = {} /\ Unread = {} /\ UNCHANGED <<selected, skipped>>
    BY <1>7, BatchSteps
  <2>2. PICK d \in found : d \in Dirs /\ found' = found \ {d} /\ In(todo') = Shown(d) /\ Failing(todo') = Missing(d)
    BY <1>7, BatchSteps
  <2>3. Known(e) => Known(e)'
    BY <1>2, <2>1, KnownStays DEF SkippedPaths
  <2>4. d \in Over(e) => Expected(e)'
    BY <1>3, <2>2, OpenedIsExpected
  <2>5. Expected(e) /\ d \notin Over(e) => Expected(e)'
    BY <1>3, <2>1, <2>2 DEF Expected
  <2> QED BY <1>1, <2>3, <2>4, <2>5
<1> QED BY <1>6, <1>7

\* What the budget leaves out, and what the scan then says of its end.
LEMMA DiscoveredFacts ==
  ASSUME TypeInv, ReportInv, Discovered
  PROVE  /\ stage = "walked" /\ ~error /\ UNCHANGED <<plan, walk, cancelled, warned, chunk, stopped>>
         /\ plan.api = "paths" =>
              /\ stage' = "ended" /\ error' = cancelled /\ reported' = selected
              /\ UNCHANGED <<selected, skipped, termination, rest>>
         /\ plan.api # "paths" =>
              /\ stage' = "inspects" /\ selected' = selected \ Truncated(selected) /\ rest' = selected'
              /\ Truncated(selected) \subseteq selected /\ UNCHANGED <<error, reported>>
              /\ skipped' = skipped \cup SkipAll(Truncated(selected), "ScanLimit")
              /\ SkippedPaths' = SkippedPaths \cup Truncated(selected)
              /\ Truncated(selected) # {} => termination' # None
              /\ termination' = "Interrupted" => cancelled
              /\ WalkedAll' => WalkedAll /\ ~cancelled
<1>1. /\ plan \in Plans /\ stage = "walked" /\ ~error
      /\ UNCHANGED <<plan, walk, cancelled, warned, chunk, stopped>>
  BY DEF Discovered, TypeInv
<1>2. plan.api = "paths" =>
              /\ stage' = "ended" /\ error' = cancelled /\ reported' = selected
              /\ UNCHANGED <<selected, skipped, termination, rest>>
  BY DEF Discovered
<1>3. ASSUME plan.api # "paths"
      PROVE  /\ stage' = "inspects" /\ selected' = selected \ Truncated(selected) /\ rest' = selected'
             /\ Truncated(selected) \subseteq selected /\ UNCHANGED <<error, reported>>
             /\ skipped' = skipped \cup SkipAll(Truncated(selected), "ScanLimit")
             /\ SkippedPaths' = SkippedPaths \cup Truncated(selected)
             /\ Truncated(selected) # {} => termination' # None
             /\ termination' = "Interrupted" => cancelled
             /\ WalkedAll' => WalkedAll /\ ~cancelled
  <2>1. PICK truncated : truncated = Truncated(selected) /\ truncated \subseteq selected
    BY DEF Truncated
  <2>2. PICK known : known = IF cancelled THEN Terminated("Interrupted") ELSE termination
    OBVIOUS
  <2>3. /\ stage' = "inspects" /\ selected' = selected \ truncated /\ rest' = selected \ truncated
        /\ UNCHANGED <<error, reported>> /\ skipped' = skipped \cup SkipAll(truncated, "ScanLimit")
        /\ termination' = IF truncated # {} /\ known = None THEN "MaxTotalBytes" ELSE known
    BY <1>3, <2>1, <2>2 DEF Discovered
  <2>4. SkippedPaths' = SkippedPaths \cup truncated
    <3>1. \A s \in SkipAll(truncated, "ScanLimit") : s.path \in truncated
      BY <1>1, SkipFacts
    <3>2. \A e \in truncated : \E s \in SkipAll(truncated, "ScanLimit") : s.path = e
      BY <1>1, <1>3, SkipFacts
    <3> QED BY <2>3, <3>1, <3>2 DEF SkippedPaths
  <2>5. None \notin {"Interrupted", "MaxEntries", "MaxTotalBytes"}
    BY DiscoveryConstants
  <2>6. termination \in {None, "Interrupted", "MaxEntries"} /\ (termination = "Interrupted" => cancelled)
    BY <1>1 DEF TypeInv, ReportInv
  <2>7. truncated # {} => termination' # None
    BY <2>3, <2>5
  <2>8. termination' = "Interrupted" => cancelled
    BY <2>2, <2>3, <2>6
  <2>9. WalkedAll' => WalkedAll /\ ~cancelled
    BY <2>2, <2>3, <2>5, <2>6 DEF WalkedAll, Terminated
  <2> QED BY <2>1, <2>3, <2>4, <2>7, <2>8, <2>9
<1> QED BY <1>1, <1>2, <1>3

LEMMA StepCover ==
  ASSUME TypeInv, PreparedInv, OnceInv, CoverInv, ReportInv, [Next]_vars
  PROVE  CoverInv'
<1> SUFFICES ASSUME Complete' PROVE
        /\ (stage = "walks")' => \A e \in DOMAIN Tree : ~IsDir(e) => Known(e)' \/ Expected(e)'
        /\ (stage = "walked" /\ WalkedAll /\ ~cancelled)' => AllKnown'
        /\ (stage \in {"inspects", "ended"} /\ WalkedAll /\ ~error)' => AllKnown'
  BY DEF CoverInv, AllKnown, IsDir, Kind
<1>1. plan' = plan
  BY QuietSteps, ItemSteps, BatchSteps
<1>2. Complete /\ plan.api # "paths"
  BY <1>1 DEF Complete
<1>3. /\ stage = "walks" => \A e \in DOMAIN Tree : ~IsDir(e) => Known(e) \/ Expected(e)
      /\ stage = "walked" /\ WalkedAll /\ ~cancelled => AllKnown
      /\ stage \in {"inspects", "ended"} /\ WalkedAll /\ ~error => AllKnown
  BY <1>2 DEF CoverInv, AllKnown
<1>4. cancelled \in BOOLEAN /\ error \in BOOLEAN /\ stage \in {"walks", "walked", "inspects", "ended"}
      /\ (stage = "walks" => termination = None) /\ (stage # "ended" => ~error)
  BY DEF TypeInv
<1>5. ASSUME UNCHANGED <<selected, skipped, todo, found>>
      PROVE  /\ \A e : Known(e) => Known(e)'
             /\ \A e : Expected(e) => Expected(e)'
             /\ AllKnown => AllKnown'
  <2>1. SkippedPaths' = SkippedPaths
    BY <1>5 DEF SkippedPaths
  <2>2. \A e : Known(e) => Known(e)'
    BY <1>1, <1>5, <2>1, KnownStays
  <2>3. AllKnown => AllKnown'
    BY <1>1, <1>5, <2>1, AllKnownStays
  <2> QED BY <1>5, <2>2, <2>3 DEF Expected, Waiting, Unread
<1>6. CASE Cancel
  BY <1>3, <1>4, <1>5, <1>6 DEF Cancel, walk, evidence, WalkedAll
<1>7. CASE StopsBefore
  <2>1. CASE Fails
    BY <2>1 DEF Fails
  <2>2. CASE ~Fails
    <3>1. stage' = "walked" /\ termination' = BeforeNext /\ BeforeNext # None
      BY <1>4, <1>7, <2>2 DEF StopsBefore, Terminated
    <3>2. BeforeNext \in {None, "Interrupted", "MaxEntries"}
      BY DEF BeforeNext
    <3> QED BY <3>1, <3>2 DEF WalkedAll
  <2> QED BY <2>1, <2>2
<1>8. CASE HandlesItem \/ TakesBatch
  <2>1. stage = "walks"
    BY <1>8, ItemSteps, BatchSteps
  <2>2. CASE error'
    <3>1. stage' = "ended"
      BY <1>4, <1>8, <2>1, <2>2, ItemSteps, BatchSteps DEF Fails
    <3> QED BY <2>2, <3>1
  <2>3. CASE ~error'
    <3>1. stage' = "walks"
      BY <1>4, <1>8, <2>1, <2>3, ItemSteps, BatchSteps DEF Fails
    <3> QED BY <1>2, <1>8, <2>1, <2>3, <3>1, WalkCovers
  <2> QED BY <2>2, <2>3
<1>9. CASE WalkEnds
  <2>1. stage = "walks" /\ stage' = "walked" /\ todo = << >> /\ (found = {} \/ cancelled)
        /\ UNCHANGED <<selected, skipped, todo, found, cancelled>>
    BY <1>9 DEF WalkEnds, walk, evidence
  <2>2. ~cancelled => \A e : ~Expected(e)
    BY <2>1, EmptyFrames, WaitingIs DEF Expected
  <2>3. ~cancelled => AllKnown
    BY <1>3, <2>1, <2>2 DEF AllKnown
  <2> QED BY <1>5, <2>1, <2>3
<1>10. CASE Discovered
  <2>1. stage = "walked" /\ stage' = "inspects" /\ (WalkedAll' => WalkedAll /\ ~cancelled)
        /\ selected' = selected \ Truncated(selected) /\ SkippedPaths' = SkippedPaths \cup Truncated(selected)
    BY <1>2, <1>10, DiscoveredFacts
  <2>2. WalkedAll' => AllKnown
    BY <1>3, <2>1
  <2>3. SkippedPaths \subseteq SkippedPaths' /\ selected \subseteq selected' \cup SkippedPaths'
    BY <2>1
  <2> QED BY <1>1, <2>1, <2>2, <2>3, AllKnownStays
<1>11. CASE TakesChunk
  BY <1>3, <1>5, <1>11 DEF TakesChunk, walk, evidence, WalkedAll
<1>12. CASE InspectsFile
  <2>1. /\ stage = "inspects" /\ stage' = "inspects" /\ selected' = selected /\ error' = error
        /\ skipped \subseteq skipped'
        /\ termination' = termination \/ termination' = Terminated("Interrupted")
    BY <1>12, FileSteps
  <2>2. WalkedAll' => WalkedAll
    BY <2>1 DEF WalkedAll, Terminated
  <2>3. SkippedPaths \subseteq SkippedPaths'
    BY <2>1, SkipsGrow
  <2> QED BY <1>1, <1>3, <2>1, <2>2, <2>3, AllKnownStays
<1>13. CASE Reports
  BY <1>3, <1>5, <1>13 DEF Reports, walk, evidence, WalkedAll
<1>14. CASE UNCHANGED vars
  BY <1>3, <1>5, <1>14 DEF vars, walk, evidence, WalkedAll
<1> QED BY <1>6, <1>7, <1>8, <1>9, <1>10, <1>11, <1>12, <1>13, <1>14 DEF Next, Steps

-----------------------------------------------------------------------------
(* The steps: the report *)

LEMMA WholeChunk ==
  ASSUME NEW S \in SUBSET Files
  PROVE  First(Len(FilesInOrder), S) = S
<1>1. PICK n \in Nat : n = Len(FilesInOrder) /\ DOMAIN FilesInOrder = 1 .. n
  BY DiscoveryConstants
<1>2. ASSUME NEW k \in 1 .. n PROVE Cardinality(UpTo(k, S)) <= n
  <2>1. PICK I : I = 1 .. k
    OBVIOUS
  <2>2. IsFiniteSet(I) /\ Cardinality(I) = k
    BY <2>1, FS_Interval
  <2>3. PICK F : F = FilesInOrder
    OBVIOUS
  <2>4. \A x, y \in I : F[x] = F[y] => x = y
    <3>1. \A x \in I : x \in DOMAIN FilesInOrder
      BY <1>1, <2>1
    <3> QED BY <2>3, <3>1, DiscoveryConstants
  <2>5. PICK T : T = {F[x] : x \in I}
    OBVIOUS
  <2>6. IsFiniteSet(T) /\ Cardinality(T) = k
    BY <2>2, <2>4, <2>5, ImageFacts
  <2>7. UpTo(k, S) \subseteq T
    BY <2>1, <2>3, <2>5 DEF UpTo
  <2>8. IsFiniteSet(UpTo(k, S)) /\ Cardinality(UpTo(k, S)) <= k
    BY <2>6, <2>7, FS_Subset
  <2>9. Cardinality(UpTo(k, S)) \in Nat
    BY <2>8, FS_CardinalityType
  <2> QED BY <2>8, <2>9
<1>3. ASSUME NEW f \in S PROVE f \in First(n, S)
  <2>1. PICK k \in DOMAIN FilesInOrder : f = FilesInOrder[k]
    BY DEF Files, ToSet
  <2>2. Cardinality(UpTo(k, S)) <= n
    BY <1>1, <1>2, <2>1
  <2> QED BY <2>1, <2>2 DEF First
<1>4. First(n, S) \subseteq S
  BY DEF First
<1> QED BY <1>1, <1>3, <1>4

LEMMA StepReportQuietly ==
  ASSUME TypeInv, ReportInv,
         UNCHANGED <<plan, selected, skipped, termination, inspection>>, cancelled => cancelled',
         \/ UNCHANGED <<stage, error>>
         \/ stage = "walks" /\ stage' \in {"walks", "walked"}
         \/ stage \in {"walks", "walked"} /\ stage' = "ended" /\ error' = TRUE
  PROVE  ReportInv'
<1>1. Listed' = Listed /\ SkippedPaths' = SkippedPaths
  BY DEF Listed, SkippedPaths, inspection
<1>2. cancelled \in BOOLEAN /\ error \in BOOLEAN
  BY DEF TypeInv
<1>3. UNCHANGED <<rest, chunk, reported, stopped, plan, selected, skipped, termination>>
  BY DEF inspection
<1>4. CASE UNCHANGED <<stage, error>>
  BY <1>1, <1>2, <1>3, <1>4 DEF ReportInv, CutsShort, Complete
<1>5. CASE stage = "walks" /\ stage' \in {"walks", "walked"}
  BY <1>1, <1>2, <1>3, <1>5 DEF ReportInv
<1>6. CASE stage \in {"walks", "walked"} /\ stage' = "ended" /\ error' = TRUE
  BY <1>1, <1>2, <1>3, <1>6 DEF ReportInv
<1> QED BY <1>4, <1>5, <1>6

\* While the walk lasts, nothing is reported, and no skip is the budget's.
LEMMA StepReportWalking ==
  ASSUME TypeInv, ReportInv, stage = "walks", UNCHANGED <<plan, inspection>>,
         \/ stage' \in {"walks", "walked"}
         \/ stage' = "ended" /\ error' = TRUE,
         \A s \in skipped' : s \in skipped \/ s.kind # "ScanLimit",
         termination' # "MaxTotalBytes", termination' = "Interrupted" => cancelled'
  PROVE  ReportInv'
<1>1. Listed = {} /\ ~stopped /\ \A s \in skipped : s.kind # "ScanLimit"
  BY DEF ReportInv
<1>2. Listed' = {} /\ stopped' = stopped /\ chunk' = {} /\ rest' = {} /\ reported' = {}
  BY <1>1 DEF Listed, inspection
<1>3. \A s \in skipped' : s.kind # "ScanLimit"
  BY <1>1
<1>4. stage' \in {"walks", "walked"} \/ (stage' = "ended" /\ error')
  OBVIOUS
<1> QED BY <1>1, <1>2, <1>3, <1>4 DEF ReportInv

\* A file of a chunk is inspected.
LEMMA FileReport ==
  ASSUME TypeInv, ReportInv, InspectsFile
  PROVE  ReportInv'
<1>1. /\ stage = "inspects" /\ stage' = "inspects" /\ UNCHANGED <<plan, cancelled, selected, error>>
      /\ plan \in Plans /\ ~error
  BY FileSteps DEF TypeInv
<1>0. PICK f \in chunk : \E left \in SUBSET {f}, dropped \in SUBSET rest :
              /\ chunk' = chunk \ {f} /\ reported' = reported \cup ({f} \ left)
              /\ skipped' = skipped \cup SkipAll(left, "ScanLimit") \cup SkipAll(dropped, "ScanLimit")
              /\ \/ rest' = rest
                 \/ rest' = {} /\ plan.api # "full" /\ (termination' # None \/ stopped')
              /\ left # {} => cancelled /\ termination' # None
              /\ dropped # {} => rest' = {} /\ termination' # None
              /\ rest' # rest /\ plan.api = "compact" /\ plan.inspects => dropped = rest
              /\ \/ termination' = termination
                 \/ cancelled /\ termination' = Terminated("Interrupted")
              /\ stopped' \in BOOLEAN /\ (stopped => stopped') /\ (stopped' => stopped \/ plan.api = "stream")
  BY FileSteps
<1>2. PICK left \in SUBSET {f}, dropped \in SUBSET rest :
              /\ chunk' = chunk \ {f} /\ reported' = reported \cup ({f} \ left)
              /\ skipped' = skipped \cup SkipAll(left, "ScanLimit") \cup SkipAll(dropped, "ScanLimit")
              /\ \/ rest' = rest
                 \/ rest' = {} /\ plan.api # "full" /\ (termination' # None \/ stopped')
              /\ left # {} => cancelled /\ termination' # None
              /\ dropped # {} => rest' = {} /\ termination' # None
              /\ rest' # rest /\ plan.api = "compact" /\ plan.inspects => dropped = rest
              /\ \/ termination' = termination
                 \/ cancelled /\ termination' = Terminated("Interrupted")
              /\ stopped' \in BOOLEAN /\ (stopped => stopped') /\ (stopped' => stopped \/ plan.api = "stream")
  BY <1>0
<1>3. /\ chunk \cap reported = {} /\ rest \cap (chunk \cup reported) = {}
      /\ termination = "Interrupted" => cancelled
      /\ Listed \subseteq selected /\ plan.api # "paths"
      /\ ~cancelled /\ ~stopped /\ ~CutsShort => selected \subseteq Listed
      /\ Complete => selected \subseteq Listed \cup SkippedPaths
      /\ (\E s \in skipped : s.kind = "ScanLimit") => termination # None
      /\ SkippedPaths \cap Listed = {}
      /\ stopped => plan.api = "stream"
      /\ plan.api = "compact" /\ ~plan.inspects /\ chunk # {} => rest = {}
  BY <1>1 DEF ReportInv
<1>4. SkippedPaths' \subseteq SkippedPaths \cup left \cup dropped /\ SkippedPaths \subseteq SkippedPaths'
  <2>1. \A s \in SkipAll(left, "ScanLimit") : s.path \in left
    BY <1>1, SkipFacts
  <2>2. \A s \in SkipAll(dropped, "ScanLimit") : s.path \in dropped
    BY <1>1, SkipFacts
  <2> QED BY <1>2, <2>1, <2>2 DEF SkippedPaths
<1>5. left \cup dropped \subseteq SkippedPaths'
  <2>1. \A e \in left : \E s \in SkipAll(left, "ScanLimit") : s.path = e
    BY <1>1, <1>3, SkipFacts
  <2>2. \A e \in dropped : \E s \in SkipAll(dropped, "ScanLimit") : s.path = e
    BY <1>1, <1>3, SkipFacts
  <2> QED BY <1>2, <2>1, <2>2 DEF SkippedPaths
<1>6. termination' = termination \/ (termination = None /\ cancelled /\ termination' = "Interrupted")
  BY <1>2 DEF Terminated
<1>7. None # "Interrupted"
  BY DiscoveryConstants
<1>8. termination # None => termination' # None
  BY <1>6, <1>7
<1>9. Listed' \subseteq Listed
  BY <1>2 DEF Listed
<1>10. \A e \in Listed : e \in Listed' \/ e \in left \/ (e \in rest /\ rest' = {} /\ rest' # rest)
  BY <1>2 DEF Listed
<1>11. (chunk \cap reported)' = {} /\ (rest \cap (chunk \cup reported))' = {}
  BY <1>2, <1>3
<1>12. ASSUME ~cancelled', ~stopped', ~CutsShort' PROVE selected' \subseteq Listed'
  <2>1. left = {} /\ ~cancelled /\ ~stopped /\ termination' = termination
    BY <1>1, <1>2, <1>12
  <2>2. ~CutsShort
    BY <1>1, <1>12, <2>1 DEF CutsShort
  <2>3. rest' = rest
    <3>1. plan.api \in {"full", "compact", "stream", "paths"}
      BY <1>1, PlanFacts
    <3> QED BY <1>1, <1>2, <1>3, <1>12, <3>1 DEF CutsShort
  <2> QED BY <1>1, <1>3, <1>10, <2>1, <2>2, <2>3
<1>13. ASSUME Complete' PROVE selected' \subseteq Listed' \cup SkippedPaths'
  <2>1. Complete
    BY <1>1, <1>13 DEF Complete
  <2>2. rest' # rest => dropped = rest
    <3>1. rest' # rest => plan.api = "compact"
      BY <1>2, <1>3, <2>1 DEF Complete
    <3>2. plan.api = "compact" /\ ~plan.inspects => rest = {}
      BY <1>2, <1>3
    <3>3. plan.inspects \in BOOLEAN
      BY <1>1, PlanFacts
    <3> QED BY <1>2, <3>1, <3>2, <3>3
  <2> QED BY <1>1, <1>3, <1>4, <1>5, <1>10, <2>1, <2>2
<1>14. (\E s \in skipped' : s.kind = "ScanLimit") => termination' # None
  <2>1. left = {} => SkipAll(left, "ScanLimit") = {}
    BY DEF SkipAll
  <2>2. dropped = {} => SkipAll(dropped, "ScanLimit") = {}
    BY DEF SkipAll
  <2> QED BY <1>2, <1>3, <1>8, <2>1, <2>2
<1>15. (SkippedPaths \cap Listed)' = {}
  <2>1. left \cap Listed' = {}
    BY <1>2, <1>3 DEF Listed
  <2>2. dropped \cap Listed' = {}
    BY <1>2, <1>3 DEF Listed
  <2> QED BY <1>3, <1>4, <1>9, <2>1, <2>2
<1>16. plan'.api = "compact" /\ ~plan'.inspects /\ chunk' # {} => rest' = {}
  BY <1>1, <1>2, <1>3
<1>17. stopped' => plan'.api = "stream"
  BY <1>1, <1>2, <1>3
<1>18. termination' = "Interrupted" => cancelled'
  BY <1>1, <1>3, <1>6
<1>19. Listed' \subseteq selected'
  BY <1>1, <1>3, <1>9
<1> QED BY <1>1, <1>3, <1>11, <1>12, <1>13, <1>14, <1>15, <1>16, <1>17, <1>18, <1>19 DEF ReportInv

LEMMA StepReport ==
  ASSUME TypeInv, PreparedInv, OnceInv, ReportInv, [Next]_vars
  PROVE  ReportInv'
<1>1. /\ plan \in Plans /\ cancelled \in BOOLEAN /\ error \in BOOLEAN /\ (stage # "ended" => ~error)
      /\ (stage = "walks" => termination = None) /\ selected \subseteq Files
  BY DEF TypeInv
<1>2. None \notin {"Interrupted", "MaxEntries", "MaxTotalBytes"}
  BY DiscoveryConstants
<1>3. "ScanLimit" \notin WalkKinds /\ "IoError" # "ScanLimit"
  BY DEF WalkKinds
<1>4. \A S, kind : \A s \in SkipAll(S, kind) : s.kind = kind
  BY <1>1, SkipFacts
<1>5. stage = "walks" => termination # "MaxTotalBytes" /\ termination # "Interrupted"
  BY <1>1, <1>2
<1>6. CASE Cancel
  BY <1>6, StepReportQuietly DEF Cancel, evidence
<1>7. CASE StopsBefore
  <2>1. BeforeNext \in {None, "Interrupted", "MaxEntries"} /\ (BeforeNext = "Interrupted" => cancelled)
    BY <1>1, <1>2 DEF BeforeNext
  <2>2. termination' # "MaxTotalBytes" /\ (termination' = "Interrupted" => cancelled')
    <3>1. stage = "walks" /\ cancelled' = cancelled /\ termination = None
      BY <1>1, <1>7 DEF StopsBefore
    <3>2. termination' = termination \/ termination' = BeforeNext
      BY <1>7, <3>1 DEF StopsBefore, Fails, Terminated
    <3> QED BY <1>2, <2>1, <3>1, <3>2
  <2>3. /\ stage = "walks" /\ UNCHANGED <<plan, inspection, skipped>>
        /\ stage' = "walked" \/ (stage' = "ended" /\ error' = TRUE)
    BY <1>7 DEF StopsBefore, Fails
  <2> QED BY <2>2, <2>3, StepReportWalking
<1>8. CASE HandlesItem
  <2>1. stage = "walks" /\ UNCHANGED <<plan, cancelled, inspection>>
    BY <1>8, ItemSteps
  <2>2. CASE Fails
    BY <1>5, <2>1, <2>2, StepReportWalking DEF Fails
  <2>3. CASE \E d \in Unread : skipped' = skipped \cup SkipAll({d}, "IoError") /\ UNCHANGED <<stage, termination>>
    <3>1. \A s \in skipped' : s \in skipped \/ s.kind # "ScanLimit"
      BY <1>3, <1>4, <2>3
    <3> QED BY <1>5, <2>1, <2>3, <3>1, StepReportWalking
  <2>4. CASE \E e \in Waiting : \E known, decision :
                 Judged(e, known, decision) /\ Records(e, decision) /\ UNCHANGED <<stage, termination>>
    <3>0. PICK e \in Waiting : \E known, decision :
                 Judged(e, known, decision) /\ Records(e, decision) /\ UNCHANGED <<stage, termination>>
      BY <2>4
    <3>1. PICK known, decision :
                 Judged(e, known, decision) /\ Records(e, decision) /\ UNCHANGED <<stage, termination>>
      BY <3>0
    <3>2. decision # "ScanLimit"
      BY <1>3, <3>1 DEF Judged, Verdicts
    <3>3. \A s \in skipped' : s \in skipped \/ s.kind # "ScanLimit"
      BY <1>4, <3>1, <3>2 DEF Records
    <3> QED BY <1>5, <2>1, <3>1, <3>3, StepReportWalking
  <2> QED BY <1>8, <2>2, <2>3, <2>4, ItemSteps
<1>9. CASE TakesBatch
  <2>1. stage = "walks" /\ UNCHANGED <<plan, cancelled, inspection, skipped, termination>>
    BY <1>9, BatchSteps
  <2>2. stage' = stage \/ (stage' = "ended" /\ error' = TRUE)
    BY <1>9, BatchSteps
  <2> QED BY <1>5, <2>1, <2>2, StepReportWalking
<1>10. CASE WalkEnds
  BY <1>10, StepReportQuietly DEF WalkEnds, evidence
<1>11. CASE Discovered
  <2>1. /\ stage = "walked" /\ ~error /\ UNCHANGED <<plan, cancelled, chunk, stopped>>
        /\ chunk = {} /\ rest = {} /\ reported = {} /\ ~stopped
        /\ \A s \in skipped : s.kind # "ScanLimit"
        /\ termination # "MaxTotalBytes" /\ (termination = "Interrupted" => cancelled)
    BY <1>11, DiscoveredFacts DEF ReportInv, Listed
  <2>2. selected \cap SkippedPaths = {}
    BY <2>1 DEF OnceInv
  <2>3. CASE plan.api = "paths"
    <3>1. /\ stage' = "ended" /\ error' = cancelled /\ reported' = selected
          /\ UNCHANGED <<selected, skipped, termination, rest>>
      BY <1>11, <2>3, DiscoveredFacts
    <3>2. Listed' = selected /\ SkippedPaths' = SkippedPaths
      BY <2>1, <3>1 DEF Listed, SkippedPaths
    <3> QED BY <1>1, <2>1, <2>2, <2>3, <3>1, <3>2 DEF ReportInv, Complete
  <2>4. CASE plan.api # "paths"
    <3>1. PICK T : T = Truncated(selected)
      OBVIOUS
    <3>2. /\ stage' = "inspects" /\ selected' = selected \ T /\ rest' = selected'
          /\ T \subseteq selected /\ UNCHANGED <<error, reported>>
          /\ skipped' = skipped \cup SkipAll(T, "ScanLimit")
          /\ SkippedPaths' = SkippedPaths \cup T
          /\ T # {} => termination' # None
          /\ termination' = "Interrupted" => cancelled
      BY <1>11, <2>4, <3>1, DiscoveredFacts
    <3>3. Listed' = selected'
      BY <2>1, <3>2 DEF Listed
    <3>4. T = {} => SkipAll(T, "ScanLimit") = {}
      BY DEF SkipAll
    <3>5. (\E s \in skipped' : s.kind = "ScanLimit") => termination' # None
      BY <2>1, <3>2, <3>4
    <3> QED BY <1>1, <2>1, <2>2, <2>4, <3>2, <3>3, <3>5 DEF ReportInv
  <2> QED BY <2>3, <2>4
<1>12. CASE TakesChunk
  <2>1. /\ stage = "inspects" /\ chunk = {} /\ chunk' = First(ChunkLength, rest) /\ rest' = rest \ chunk'
        /\ UNCHANGED <<plan, stage, cancelled, selected, skipped, termination, error, reported, stopped>>
    BY <1>12 DEF TakesChunk, evidence
  <2>2. chunk' \subseteq rest
    BY <2>1 DEF First
  <2>3. rest \subseteq Files
    BY <1>1, <2>1 DEF ReportInv, Listed
  <2>4. plan.api = "compact" /\ ~plan.inspects => rest' = {}
    <3>1. plan.api = "compact" /\ ~plan.inspects => ChunkLength = Len(FilesInOrder)
      BY DEF ChunkLength
    <3>2. PICK R \in SUBSET Files : R = rest
      BY <2>3
    <3>3. First(Len(FilesInOrder), R) = R
      BY WholeChunk
    <3> QED BY <2>1, <3>1, <3>2, <3>3
  <2>5. Listed' = Listed /\ SkippedPaths' = SkippedPaths
    BY <2>1, <2>2 DEF Listed, SkippedPaths
  <2>6. (CutsShort' <=> CutsShort) /\ (Complete' <=> Complete)
    BY <2>1 DEF CutsShort, Complete
  <2> QED BY <1>1, <2>1, <2>2, <2>4, <2>5, <2>6 DEF ReportInv
<1>13. CASE InspectsFile
  BY <1>13, FileReport
<1>14. CASE Reports
  <2>1. /\ stage = "inspects" /\ chunk = {} /\ rest = {} /\ stage' = "ended"
        /\ UNCHANGED <<plan, cancelled, selected, skipped, termination, error, rest, chunk, reported, stopped>>
    BY <1>14 DEF Reports, evidence, inspection
  <2>2. Listed' = Listed /\ SkippedPaths' = SkippedPaths
    BY <2>1 DEF Listed, SkippedPaths
  <2>3. (CutsShort' <=> CutsShort) /\ (Complete' <=> Complete)
    BY <2>1 DEF CutsShort, Complete
  <2> QED BY <1>1, <2>1, <2>2, <2>3 DEF ReportInv
<1>15. CASE UNCHANGED vars
  BY <1>15, StepReportQuietly DEF vars, evidence
<1> QED BY <1>6, <1>7, <1>8, <1>9, <1>10, <1>11, <1>12, <1>13, <1>14, <1>15 DEF Next, Steps

-----------------------------------------------------------------------------
(* The steps: the policy *)

\* What the options select does not change during a scan.
LEMMA PlanStays ==
  ASSUME plan' = plan
  PROVE  /\ \A e : PolicyDecision(e)' = PolicyDecision(e)
         /\ \A e : Reached(e)' <=> Reached(e)
         /\ Policy' = Policy /\ Manifest' = Manifest
<1>1. \A e : PolicyDecision(e)' = PolicyDecision(e)
  <2> TAKE e
  <2>1. EffectiveMinDepth' = EffectiveMinDepth
    BY DEF EffectiveMinDepth
  <2>2. \A named : Filtered(e, named)' = Filtered(e, named)
    BY DEF Filtered
  <2>3. \A match : DecisionOn(e, match)' = DecisionOn(e, match)
    BY <2>1, <2>2 DEF DecisionOn
  <2> QED BY <2>3 DEF PolicyDecision, Decision
<1>2. \A e : Reached(e)' <=> Reached(e)
  BY <1>1 DEF Reached
<1>3. Policy' = Policy
  BY <1>1 DEF Policy, Reachable
<1>4. \A S : Truncated(S)' = Truncated(S)
  BY DEF Truncated
<1> QED BY <1>1, <1>2, <1>3, <1>4 DEF Manifest

LEMMA PolicyDecides ==
  ASSUME NEW e \in DOMAIN Tree
  PROVE  PolicyDecision(e) = Decision(e, RulesOf(Parent(e)))
<1>1. RulesIn[Parent(e)] = RulesOf(Parent(e))
  BY DEF RulesIn
<1> QED BY <1>1 DEF PolicyDecision

LEMMA PolicyIs ==
  ASSUME NEW e \in DOMAIN Tree
  PROVE  e \in Policy <=> e # ScanRoot /\ Reached(e) /\ PolicyDecision(e) = "Select"
<1>1. e # ScanRoot => (Reached(e) <=> Reachable(e))
  BY DEF Reached, Reachable, Over
<1> QED BY <1>1 DEF Policy

\* With the rules of every directory known, the decision is the policy's.
LEMMA DecidesAsPolicy ==
  ASSUME plan.mode # "fallback", \A d \in DOMAIN prepared : prepared[d] = RulesOf(d),
         NEW e \in DOMAIN Tree, NEW known, NEW decision, Judged(e, known, decision)
  PROVE  /\ \A d \in DOMAIN known : known[d] = RulesOf(d)
         /\ decision = PolicyDecision(e)
<1>1. ASSUME NEW d \in DOMAIN known PROVE known[d] = RulesOf(d)
  <2>1. CASE d \in DOMAIN prepared
    BY <2>1 DEF Judged
  <2>2. CASE d \notin DOMAIN prepared
    <3>1. /\ d # ScanRoot /\ d \in Dirs /\ Parent(d) \in DOMAIN prepared
          /\ known[d] = ChildRules(d, Configured, prepared[Parent(d)])
      BY <2>2 DEF Judged
    <3>2. d \in Seq(STRING) /\ d # << >>
      BY <3>1, EntryFacts, RootFacts DEF Dirs
    <3> QED BY <3>1, <3>2, RulesStep
  <2> QED BY <2>1, <2>2
<1>2. CASE e = ScanRoot
  BY <1>1, <1>2 DEF Judged
<1>3. CASE e # ScanRoot
  <2>1. Parent(e) \in DOMAIN known /\ decision = Decision(e, known[Parent(e)])
    BY <1>3 DEF Judged
  <2> QED BY <1>1, <1>3, <2>1, PolicyDecides
<1> QED BY <1>1, <1>2, <1>3

LEMMA ChildReached ==
  ASSUME NEW d \in Dirs, Reached(d), PolicyDecision(d) = "Descend", NEW c \in Shown(d)
  PROVE  Reached(c)
<1>1. c \in Children(d) /\ d \notin plan.unreadable
  BY DEF Shown
<1>2. Over(c) = Over(d) \cup {d}
  BY <1>1, ChildFacts
<1> QED BY <1>1, <1>2 DEF Reached

LEMMA StepPolicyQuietly ==
  ASSUME PolicyInv, UNCHANGED <<plan, prepared, todo, found, selected>>,
         stage' = "walks" => stage = "walks",
         (stage = "walked" /\ WalkedAll /\ ~cancelled)' => stage = "walked" /\ WalkedAll /\ ~cancelled,
         (stage \in {"inspects", "ended"} /\ ~error /\ WalkedAll /\ ~cancelled)'
           => stage \in {"inspects", "ended"} /\ ~error /\ WalkedAll /\ ~cancelled
  PROVE  PolicyInv'
<1>1. Waiting' = Waiting
  BY DEF Waiting
<1>2. /\ \A e : PolicyDecision(e)' = PolicyDecision(e)
      /\ \A e : Reached(e)' <=> Reached(e)
      /\ Policy' = Policy /\ Manifest' = Manifest
  BY PlanStays
<1> QED BY <1>1, <1>2 DEF PolicyInv

\* An entry is delivered, or a directory is taken.
LEMMA StepPolicyWalking ==
  ASSUME TypeInv, PreparedInv, OnceInv, PolicyInv, plan.mode # "fallback", HandlesItem \/ TakesBatch
  PROVE  PolicyInv'
<1>1. /\ \A d \in DOMAIN prepared : prepared[d] = RulesOf(d)
      /\ stage = "walks" =>
          /\ \A e \in Waiting : Reached(e)
          /\ \A d \in found : Reached(d) /\ PolicyDecision(d) = "Descend"
          /\ \A e \in Policy : \/ e \in selected
                               \/ \E a \in Waiting : a = e \/ a \in Over(e)
                               \/ \E a \in found : a \in Over(e)
      /\ selected \subseteq Policy
  BY DEF PolicyInv
<1>2. stage = "walks" /\ plan' = plan /\ ~error /\ Waiting' = In(todo') /\ stage' \in {"walks", "ended"}
      /\ (stage' = "ended" => error' = TRUE)
  <2>1. stage = "walks" /\ plan' = plan /\ ~error
    BY ItemSteps, BatchSteps DEF TypeInv
  <2>2. CASE HandlesItem
    BY <2>1, <2>2, ItemSteps, NextPlaces DEF Fails
  <2>3. CASE TakesBatch
    BY <2>1, <2>3, BatchSteps, NextPlaces
  <2> QED BY <2>1, <2>2, <2>3
<1>3. /\ \A e : PolicyDecision(e)' = PolicyDecision(e)
      /\ \A e : Reached(e)' <=> Reached(e)
      /\ Policy' = Policy
  BY <1>2, PlanStays
<1>4. Waiting \subseteq DOMAIN Tree /\ Policy \subseteq DOMAIN Tree
  BY PlacesAre DEF Policy
<1>5. ASSUME \A d \in DOMAIN prepared' : prepared'[d] = RulesOf(d), selected' \subseteq Policy,
             stage' = "walks" =>
               /\ \A e \in In(todo') : Reached(e)
               /\ \A d \in found' : Reached(d) /\ PolicyDecision(d) = "Descend"
               /\ \A e \in Policy : \/ e \in selected'
                                    \/ \E a \in In(todo') : a = e \/ a \in Over(e)
                                    \/ \E a \in found' : a \in Over(e)
      PROVE  PolicyInv'
  BY <1>2, <1>3, <1>5 DEF PolicyInv
<1>6. CASE HandlesItem
  <2>1. CASE Fails
    <3>1. stage' = "ended" /\ UNCHANGED <<prepared, selected>>
      BY <2>1 DEF Fails, walk
    <3> QED BY <1>1, <1>5, <3>1
  <2>2. CASE \E d \in Unread : In(todo') = Waiting /\ UNCHANGED <<stage, prepared, found, selected>>
    BY <1>1, <1>2, <1>5, <2>2
  <2>3. CASE \E e \in Waiting : \E known, decision :
                 Judged(e, known, decision) /\ Moved(e, decision) /\ prepared' = known /\ Records(e, decision)
    <3>0. PICK e \in Waiting : \E known, decision :
                 Judged(e, known, decision) /\ Moved(e, decision) /\ prepared' = known /\ Records(e, decision)
      BY <2>3
    <3>1. PICK known, decision :
                 Judged(e, known, decision) /\ Moved(e, decision) /\ prepared' = known /\ Records(e, decision)
      BY <3>0
    <3>2. e \in DOMAIN Tree /\ Reached(e)
      BY <1>1, <1>2, <1>4
    <3>3. (\A d \in DOMAIN known : known[d] = RulesOf(d)) /\ decision = PolicyDecision(e)
      BY <1>1, <3>1, <3>2, DecidesAsPolicy
    <3>4. decision = "Descend" => e \in Dirs
      BY <3>1 DEF Judged
    <3>5. selected' \subseteq Policy /\ selected \subseteq selected' /\ (decision = "Select" => e \in selected')
      <4>1. decision = "Select" => e \in Policy
        <5>1. decision = "Select" => e # ScanRoot
          BY <3>1, FilesAreNoDirs, RootFacts DEF Judged
        <5> QED BY <3>2, <3>3, <5>1, PolicyIs
      <4> QED BY <1>1, <3>1, <4>1 DEF Records
    <3>6. decision = "Descend" => \A c \in Shown(e) : Reached(c)
      BY <3>2, <3>3, <3>4, ChildReached
    <3>7. \A x \in In(todo') : Reached(x)
      BY <1>1, <1>2, <3>1, <3>6 DEF Moved
    <3>8. \A d \in found' : Reached(d) /\ PolicyDecision(d) = "Descend"
      BY <1>1, <1>2, <3>1, <3>2, <3>3 DEF Moved
    <3>9. ASSUME NEW p \in Policy
          PROVE  \/ p \in selected'
                 \/ \E a \in In(todo') : a = p \/ a \in Over(p)
                 \/ \E a \in found' : a \in Over(p)
      <4>1. p \in DOMAIN Tree /\ p # ScanRoot /\ Reached(p) /\ PolicyDecision(p) = "Select"
        BY <1>4, PolicyIs
      <4>2. \/ p \in selected
            \/ \E a \in Waiting : a = p \/ a \in Over(p)
            \/ \E a \in found : a \in Over(p)
        BY <1>1, <1>2
      <4>3. Waiting \ {e} \subseteq In(todo') /\ found \subseteq found'
        BY <3>1 DEF Moved
      <4>4. CASE e = p
        BY <3>3, <3>5, <4>1, <4>4
      <4>5. CASE e \in Over(p)
        <5>1. decision = "Descend" /\ e \notin plan.unreadable
          BY <3>3, <4>1, <4>5 DEF Reached
        <5>2. CASE plan.mode = "parallel"
          <6>1. e \in found'
            BY <3>1, <5>1, <5>2 DEF Moved
          <6> QED BY <4>5, <6>1
        <5>3. CASE plan.mode # "parallel"
          <6>1. Shown(e) \subseteq In(todo')
            BY <3>1, <5>1, <5>3 DEF Moved
          <6>2. \E c \in Shown(e) : c = p \/ c \in Over(p)
            BY <3>4, <4>1, <4>5, <5>1, OpenedIsExpected
          <6> QED BY <6>1, <6>2
        <5> QED BY <5>2, <5>3
      <4>6. CASE e # p /\ e \notin Over(p)
        BY <3>5, <4>2, <4>3, <4>6
      <4> QED BY <4>4, <4>5, <4>6
    <3> QED BY <1>5, <3>1, <3>3, <3>5, <3>7, <3>8, <3>9
  <2> QED BY <1>6, <2>1, <2>2, <2>3, ItemSteps
<1>7. CASE TakesBatch
  <2>1. Waiting = {} /\ selected' = selected
    BY <1>7, BatchSteps
  <2>2. PICK d \in found :
              /\ d \in Dirs /\ found' = found \ {d} /\ In(todo') = Shown(d)
              /\ \/ prepared' = prepared
                 \/ prepared' = PreparedWith(prepared, d, NamesIn(Children(d)))
    BY <1>7, BatchSteps
  <2>3. Reached(d) /\ PolicyDecision(d) = "Descend"
    BY <1>1, <1>2
  <2>4. \A e \in In(todo') : Reached(e)
    BY <2>2, <2>3, ChildReached
  <2>5. \A x \in DOMAIN prepared' : prepared'[x] = RulesOf(x)
    <3>1. CASE prepared' = prepared
      BY <1>1, <3>1
    <3>2. CASE prepared' = PreparedWith(prepared, d, NamesIn(Children(d)))
      <4>1. PICK names : names = NamesIn(Children(d))
        OBVIOUS
      <4>2. d = ScanRoot \/ Parent(d) \in DOMAIN prepared
        BY <1>2 DEF PreparedInv
      <4>3. PICK known : known = PreparedWith(prepared, d, names)
        OBVIOUS
      <4>4. /\ DOMAIN known = DOMAIN prepared \cup {d}
            /\ \A x \in DOMAIN prepared : known[x] = prepared[x]
            /\ d \notin DOMAIN prepared =>
                  /\ d # ScanRoot /\ Parent(d) \in DOMAIN prepared
                  /\ known[d] = ChildRules(d, names, prepared[Parent(d)])
        BY <2>2, <4>2, <4>3, PreparedMore
      <4>5. ASSUME d \notin DOMAIN prepared PROVE known[d] = RulesOf(d)
        <5>1. d \in Seq(STRING) /\ d # << >>
          BY <2>2, <4>4, <4>5, EntryFacts, RootFacts DEF Dirs
        <5>2. PICK inherited : inherited = prepared[Parent(d)] /\ inherited = RulesOf(Parent(d))
          BY <1>1, <4>4, <4>5
        <5>3. known[d] = ChildRules(d, Configured, inherited)
          BY <2>2, <4>1, <4>4, <4>5, <5>2, NamesAreEnough
        <5> QED BY <5>1, <5>2, <5>3, RulesStep
      <4> QED BY <1>1, <3>2, <4>1, <4>3, <4>4, <4>5
    <3> QED BY <2>2, <3>1, <3>2
  <2>6. ASSUME NEW p \in Policy
        PROVE  \/ p \in selected'
               \/ \E a \in In(todo') : a = p \/ a \in Over(p)
               \/ \E a \in found' : a \in Over(p)
    <3>1. p \in DOMAIN Tree /\ Reached(p)
      BY <1>4, PolicyIs
    <3>2. p \in selected \/ \E a \in found : a \in Over(p)
      BY <1>1, <1>2, <2>1
    <3>3. CASE d \in Over(p)
      <4>1. d \notin plan.unreadable
        BY <3>1, <3>3 DEF Reached
      <4> QED BY <2>2, <3>1, <3>3, <4>1, OpenedIsExpected
    <3>4. CASE d \notin Over(p)
      BY <2>1, <2>2, <3>2, <3>4
    <3> QED BY <3>3, <3>4
  <2> QED BY <1>1, <1>5, <2>1, <2>2, <2>4, <2>5, <2>6, <1>2
<1> QED BY <1>6, <1>7

LEMMA StepPolicy ==
  ASSUME TypeInv, PreparedInv, OnceInv, ReportInv, PolicyInv, [Next]_vars
  PROVE  PolicyInv'
<1>1. plan' = plan
  BY QuietSteps, ItemSteps, BatchSteps
<1>2. CASE plan.mode = "fallback"
  BY <1>1, <1>2 DEF PolicyInv
<1>3. CASE plan.mode # "fallback"
  <2>1. /\ None \notin {"Interrupted", "MaxEntries", "MaxTotalBytes"}
        /\ stage = "walks" => termination = None
        /\ cancelled \in BOOLEAN /\ error \in BOOLEAN /\ (stage # "ended" => ~error)
    BY DiscoveryConstants DEF TypeInv
  <2>2. CASE Cancel
    BY <2>1, <2>2, StepPolicyQuietly DEF Cancel, walk, evidence
  <2>3. CASE StopsBefore
    <3>1. stage = "walks" /\ UNCHANGED <<plan, prepared, todo, found, selected>>
      BY <2>3 DEF StopsBefore, Fails, walk
    <3>2. CASE Fails
      BY <2>1, <3>1, <3>2, StepPolicyQuietly DEF Fails
    <3>3. CASE ~Fails
      <4>1. stage' = "walked" /\ termination' = BeforeNext /\ BeforeNext # None
        BY <2>1, <2>3, <3>1, <3>3 DEF StopsBefore, Terminated
      <4>2. BeforeNext \in {None, "Interrupted", "MaxEntries"}
        BY DEF BeforeNext
      <4>3. ~WalkedAll'
        BY <4>1, <4>2 DEF WalkedAll
      <4> QED BY <3>1, <4>1, <4>3, StepPolicyQuietly
    <3> QED BY <3>2, <3>3
  <2>4. CASE HandlesItem \/ TakesBatch
    BY <1>3, <2>4, StepPolicyWalking
  <2>5. ASSUME plan' = plan
        PROVE  Policy' = Policy /\ Manifest' = Manifest
    BY <2>5, PlanStays
  <2>6. CASE WalkEnds
    <3>1. /\ stage = "walks" /\ stage' = "walked" /\ todo = << >> /\ (found = {} \/ cancelled)
          /\ UNCHANGED <<prepared, todo, found, selected, cancelled>>
      BY <2>6 DEF WalkEnds, walk, evidence
    <3>2. Waiting = {}
      BY <3>1, EmptyFrames, WaitingIs
    <3>3. ~cancelled => selected = Policy
      BY <1>3, <3>1, <3>2 DEF PolicyInv
    <3> QED BY <1>1, <1>3, <2>5, <3>1, <3>3 DEF PolicyInv
  <2>7. CASE Discovered
    <3>1. /\ stage = "walked" /\ UNCHANGED <<prepared, todo, found, cancelled>>
          /\ stage' \in {"inspects", "ended"} /\ selected' \subseteq selected
      BY <2>7, DiscoveredFacts DEF walk
    <3>2. selected \subseteq Policy /\ (WalkedAll /\ ~cancelled => selected = Policy)
      BY <1>3, <3>1 DEF PolicyInv
    <3>3. ASSUME ~error', WalkedAll', ~cancelled' PROVE selected' = Manifest
      <4>1. CASE plan.api = "paths"
        <5>1. selected' = selected /\ termination' = termination /\ error' = cancelled
          BY <2>7, <4>1, DiscoveredFacts
        <5>2. WalkedAll
          BY <3>3, <5>1 DEF WalkedAll
        <5>3. Truncated({}) = {}
          BY DEF Truncated
        <5> QED BY <3>1, <3>2, <3>3, <4>1, <5>1, <5>2, <5>3 DEF Manifest
      <4>2. CASE plan.api # "paths"
        <5>1. selected' = selected \ Truncated(selected) /\ WalkedAll /\ ~cancelled
          BY <2>7, <3>3, <4>2, DiscoveredFacts
        <5> QED BY <3>2, <4>2, <5>1 DEF Manifest
      <4> QED BY <4>1, <4>2
    <3> QED BY <1>1, <1>3, <2>5, <3>1, <3>2, <3>3 DEF PolicyInv
  <2>8. CASE TakesChunk
    BY <2>8, StepPolicyQuietly DEF TakesChunk, walk, evidence, WalkedAll
  <2>9. CASE InspectsFile
    <3>1. /\ stage = "inspects" /\ UNCHANGED <<plan, stage, walk, cancelled, selected, error>>
          /\ termination' = termination \/ termination' = Terminated("Interrupted")
      BY <2>9, FileSteps
    <3>2. WalkedAll' => WalkedAll
      BY <3>1 DEF WalkedAll, Terminated
    <3> QED BY <3>1, <3>2, StepPolicyQuietly DEF walk
  <2>10. CASE Reports
    BY <2>1, <2>10, StepPolicyQuietly DEF Reports, walk, evidence, WalkedAll
  <2>11. CASE UNCHANGED vars
    BY <2>11, StepPolicyQuietly DEF vars, walk, evidence, WalkedAll
  <2> QED BY <2>2, <2>3, <2>4, <2>6, <2>7, <2>8, <2>9, <2>10, <2>11 DEF Next, Steps
<1> QED BY <1>2, <1>3

-----------------------------------------------------------------------------
(* A path on its own: the layers one after the other *)

AllNone(layers, path, isDirectory) ==
    \A k \in DOMAIN layers : LayerAction(layers[k], path, isDirectory) = None

FirstSays(layers, path, isDirectory, k) ==
    /\ k \in DOMAIN layers /\ LayerAction(layers[k], path, isDirectory) # None
    /\ \A j \in DOMAIN layers : j < k => LayerAction(layers[j], path, isDirectory) = None

\* What the first layer says that has something to say.
Says(layers, path, isDirectory, answer) ==
    \/ AllNone(layers, path, isDirectory) /\ answer = None
    \/ \E k : FirstSays(layers, path, isDirectory, k) /\ answer = LayerAction(layers[k], path, isDirectory)

LEMMA LayerFacts ==
  ASSUME NEW layer \in AllLayers
  PROVE  /\ layer.base \in Seq(STRING) /\ IsRules(layer.rules)
         /\ \A path, isDirectory : LayerAction(layer, path, isDirectory) \in Answers
<1>1. layer.base \in Seq(STRING)
  <2>1. CASE layer \in [base : Seq(STRING), rules : Seq(AllRules)]
    BY <2>1
  <2>2. CASE \E rank \in Ranks : layer \in ToSet(StaticRules[rank])
    BY <2>2, RuleConstants DEF IsLayers
  <2> QED BY <2>1, <2>2 DEF AllLayers
<1>2. IsRules(layer.rules)
  BY LayersHoldRules
<1>3. ASSUME NEW path, NEW isDirectory PROVE LayerAction(layer, path, isDirectory) \in Answers
  <2>1. MatchesExact(layer.rules, Below(path, layer.base), isDirectory) \in Answers
    BY <1>2, MatchesExactType
  <2> QED BY <2>1 DEF LayerAction, Answers
<1> QED BY <1>1, <1>2, <1>3

LEMMA SaysOnce ==
  ASSUME NEW layers \in Seq(AllLayers), NEW path, NEW isDirectory, NEW a, NEW b,
         Says(layers, path, isDirectory, a), Says(layers, path, isDirectory, b)
  PROVE  a = b
<1>1. DOMAIN layers \subseteq Nat
  OBVIOUS
<1>2. CASE AllNone(layers, path, isDirectory)
  BY <1>2 DEF Says, AllNone, FirstSays
<1>3. CASE ~AllNone(layers, path, isDirectory)
  <2>1. PICK j : FirstSays(layers, path, isDirectory, j) /\ a = LayerAction(layers[j], path, isDirectory)
    BY <1>3 DEF Says
  <2>2. PICK k : FirstSays(layers, path, isDirectory, k) /\ b = LayerAction(layers[k], path, isDirectory)
    BY <1>3 DEF Says
  <2>3. j \in Nat /\ k \in Nat /\ ~(j < k) /\ ~(k < j)
    BY <1>1, <2>1, <2>2 DEF FirstSays
  <2>4. j = k
    BY <2>3
  <2> QED BY <2>1, <2>2, <2>4
<1> QED BY <1>2, <1>3

LEMMA SomeoneSays ==
  ASSUME NEW layers \in Seq(AllLayers), NEW path, NEW isDirectory, ~AllNone(layers, path, isDirectory)
  PROVE  \E k : FirstSays(layers, path, isDirectory, k)
<1>1. PICK n \in Nat : DOMAIN layers = 1 .. n
  OBVIOUS
<1>2. PICK I : I = {k \in 1 .. n : LayerAction(layers[k], path, isDirectory) # None}
  OBVIOUS
<1>3. I \in SUBSET (1 .. n) /\ I # {}
  BY <1>1, <1>2 DEF AllNone
<1>4. PICK k \in I : \A x \in I : ~(x < k)
  BY <1>3, LeastNumber
<1> QED BY <1>1, <1>2, <1>4 DEF FirstSays

LEMMA PreparedSays ==
  ASSUME NEW rules, RulesTyped(rules), NEW path, NEW isDirectory
  PROVE  Says(InOrder(rules), path, isDirectory, MatchPreparedRules(path, isDirectory, rules))
<1>1. PICK layers \in Seq(AllLayers) : layers = InOrder(rules)
  BY InOrderType
<1>2. PICK n \in Nat : n = Len(layers) /\ DOMAIN layers = 1 .. n
  OBVIOUS
<1>3. PICK I : I = {i \in 1 .. n : LayerAction(layers[i], path, isDirectory) # None}
  OBVIOUS
<1>4. PICK k : k = IF I # {} THEN Min(I) ELSE 0
  OBVIOUS
<1>5. MatchPreparedRules(path, isDirectory, rules)
        = [i \in 0 .. n |-> IF i = 0 THEN None ELSE LayerAction(layers[i], path, isDirectory)][k]
  BY <1>1, <1>2, <1>3, <1>4 DEF MatchPreparedRules, SelectInSeq
<1>6. CASE I = {}
  <2>1. MatchPreparedRules(path, isDirectory, rules) = None
    BY <1>4, <1>5, <1>6
  <2>2. AllNone(layers, path, isDirectory)
    BY <1>2, <1>3, <1>6 DEF AllNone
  <2> QED BY <1>1, <2>1, <2>2 DEF Says
<1>7. CASE I # {}
  <2>1. PICK m \in I : \A x \in I : ~(x < m)
    BY <1>3, <1>7, LeastNumber
  <2>2. Min(I) \in I /\ \A y \in I : Min(I) <= y
    <3>1. \A y \in I : m <= y
      BY <1>3, <2>1
    <3>2. \E x \in I : \A y \in I : x <= y
      BY <3>1
    <3> QED BY <3>2 DEF Min
  <2>3. k \in I /\ k \in 1 .. n /\ \A y \in I : k <= y
    BY <1>3, <1>4, <1>7, <2>2
  <2>4. MatchPreparedRules(path, isDirectory, rules) = LayerAction(layers[k], path, isDirectory)
    BY <1>5, <2>3
  <2>5. FirstSays(layers, path, isDirectory, k)
    BY <1>2, <1>3, <2>3 DEF FirstSays
  <2> QED BY <1>1, <2>4, <2>5 DEF Says
<1> QED BY <1>6, <1>7

LEMMA SaysJoined ==
  ASSUME NEW s \in Seq(AllLayers), NEW t \in Seq(AllLayers), NEW path, NEW isDirectory, NEW a, NEW b,
         Says(s, path, isDirectory, a), Says(t, path, isDirectory, b)
  PROVE  Says(s \o t, path, isDirectory, IF a = None THEN b ELSE a)
<1>0. PICK m \in Nat, n \in Nat : m = Len(s) /\ n = Len(t) /\ DOMAIN s = 1 .. m /\ DOMAIN t = 1 .. n
  OBVIOUS
<1>1. PICK u \in Seq(AllLayers) :
        /\ u = s \o t /\ DOMAIN s = 1 .. m /\ DOMAIN t = 1 .. n /\ DOMAIN u = 1 .. (m + n)
        /\ \A i \in 1 .. m : u[i] = s[i]
        /\ \A i \in 1 .. n : u[i + m] = t[i]
  <2>1. PICK u \in Seq(AllLayers) : u = s \o t
    BY ConcatFacts
  <2>2. Len(u) = m + n /\ DOMAIN u = 1 .. (m + n)
    BY <1>0, <2>1, ConcatFacts
  <2>3. \A i \in DOMAIN s : u[i] = s[i]
    BY <2>1, ConcatFacts
  <2>4. \A i \in DOMAIN t : u[i + m] = t[i]
    BY <1>0, <2>1, ConcatFacts
  <2> QED BY <1>0, <2>1, <2>2, <2>3, <2>4
<1>2. \A i \in 1 .. (m + n) : i \in 1 .. m \/ (i - m \in 1 .. n /\ i = (i - m) + m)
  OBVIOUS
<1>3. CASE a = None
  <2>1. \A i \in 1 .. m : LayerAction(u[i], path, isDirectory) = None
    BY <1>1, <1>3 DEF Says, AllNone, FirstSays
  <2>2. CASE AllNone(t, path, isDirectory)
    <3>1. b = None
      BY <2>2 DEF Says, AllNone, FirstSays
    <3>2. AllNone(u, path, isDirectory)
      <4> SUFFICES ASSUME NEW i \in 1 .. (m + n) PROVE LayerAction(u[i], path, isDirectory) = None
        BY <1>1 DEF AllNone
      <4>1. CASE i \in 1 .. m
        BY <2>1, <4>1
      <4>2. CASE i \notin 1 .. m
        <5>1. PICK j \in 1 .. n : i = j + m
          BY <1>2, <4>2
        <5>2. u[i] = t[j] /\ LayerAction(t[j], path, isDirectory) = None
          BY <1>1, <2>2, <5>1 DEF AllNone
        <5> QED BY <5>2
      <4> QED BY <4>1, <4>2
    <3> QED BY <1>1, <1>3, <3>1, <3>2 DEF Says
  <2>3. CASE ~AllNone(t, path, isDirectory)
    <3>1. PICK k : FirstSays(t, path, isDirectory, k) /\ b = LayerAction(t[k], path, isDirectory)
      BY <2>3 DEF Says
    <3>2. k \in 1 .. n /\ k + m \in 1 .. (m + n) /\ u[k + m] = t[k]
      <4>1. k \in 1 .. n
        BY <1>1, <3>1 DEF FirstSays
      <4> QED BY <1>1, <4>1
    <3>3. ASSUME NEW i \in 1 .. (m + n), i < k + m PROVE LayerAction(u[i], path, isDirectory) = None
      <4>1. CASE i \in 1 .. m
        BY <2>1, <4>1
      <4>2. CASE i \notin 1 .. m
        <5>1. PICK j \in 1 .. n : i = j + m
          BY <1>2, <4>2
        <5>2. j < k
          BY <3>2, <3>3, <5>1
        <5>3. u[i] = t[j] /\ LayerAction(t[j], path, isDirectory) = None
          BY <1>1, <3>1, <5>1, <5>2 DEF FirstSays
        <5> QED BY <5>3
      <4> QED BY <4>1, <4>2
    <3>4. FirstSays(u, path, isDirectory, k + m)
      BY <1>1, <3>1, <3>2, <3>3 DEF FirstSays
    <3> QED BY <1>1, <1>3, <3>1, <3>2, <3>4 DEF Says
  <2> QED BY <2>2, <2>3
<1>4. CASE a # None
  <2>1. PICK k : FirstSays(s, path, isDirectory, k) /\ a = LayerAction(s[k], path, isDirectory)
    BY <1>4 DEF Says
  <2>2. k \in 1 .. m /\ k \in 1 .. (m + n) /\ u[k] = s[k]
    <3>1. k \in 1 .. m
      BY <1>1, <2>1 DEF FirstSays
    <3> QED BY <1>1, <3>1
  <2>3. ASSUME NEW i \in 1 .. (m + n), i < k PROVE LayerAction(u[i], path, isDirectory) = None
    <3>1. i \in 1 .. m
      BY <2>2, <2>3
    <3>2. u[i] = s[i] /\ LayerAction(s[i], path, isDirectory) = None
      BY <1>1, <2>1, <2>3, <3>1 DEF FirstSays
    <3> QED BY <3>2
  <2>4. FirstSays(u, path, isDirectory, k)
    BY <1>1, <2>1, <2>2, <2>3 DEF FirstSays
  <2> QED BY <1>1, <1>4, <2>1, <2>2, <2>4 DEF Says
<1> QED BY <1>3, <1>4

Later(a, b) == IF a = None THEN b ELSE a

LEMMA SaysOfRanks ==
  ASSUME NEW rules, RulesTyped(rules), NEW path, NEW isDirectory, NEW v,
         \A rank \in Ranks : Says(rules[rank], path, isDirectory, v[rank])
  PROVE  Says(InOrder(rules), path, isDirectory,
              Later(Later(Later(Later(Later(v[5], v[4]), v[3]), v[2]), v[1]), v[0]))
<1>1. {0, 1, 2, 3, 4, 5} \subseteq Ranks
  BY DEF Ranks
<1>2. PICK a \in Seq(AllLayers), b \in Seq(AllLayers), c \in Seq(AllLayers),
           d \in Seq(AllLayers), e \in Seq(AllLayers), f \in Seq(AllLayers) :
        a = rules[0] /\ b = rules[1] /\ c = rules[2] /\ d = rules[3] /\ e = rules[4] /\ f = rules[5]
  BY <1>1 DEF RulesTyped
<1>3. /\ Says(a, path, isDirectory, v[0]) /\ Says(b, path, isDirectory, v[1]) /\ Says(c, path, isDirectory, v[2])
      /\ Says(d, path, isDirectory, v[3]) /\ Says(e, path, isDirectory, v[4]) /\ Says(f, path, isDirectory, v[5])
  BY <1>1, <1>2
<1>4. ASSUME NEW s \in Seq(AllLayers), NEW t \in Seq(AllLayers), NEW x, NEW y,
             Says(s, path, isDirectory, x), Says(t, path, isDirectory, y)
      PROVE  Says(s \o t, path, isDirectory, Later(x, y))
  BY <1>4, SaysJoined DEF Later
<1>5. PICK x4, x3, x2, x1, x0 : /\ x4 = Later(v[5], v[4]) /\ x3 = Later(x4, v[3]) /\ x2 = Later(x3, v[2])
                                /\ x1 = Later(x2, v[1]) /\ x0 = Later(x1, v[0])
  OBVIOUS
<1>6. PICK g \in Seq(AllLayers) : g = f \o e
  BY ConcatFacts
<1>7. PICK h \in Seq(AllLayers) : h = g \o d
  BY ConcatFacts
<1>8. PICK i \in Seq(AllLayers) : i = h \o c
  BY ConcatFacts
<1>9. PICK j \in Seq(AllLayers) : j = i \o b
  BY ConcatFacts
<1>10. InOrder(rules) = j \o a
  BY <1>2, <1>6, <1>7, <1>8, <1>9 DEF InOrder
<1>11. Says(g, path, isDirectory, x4)
  BY <1>3, <1>4, <1>5, <1>6
<1>12. Says(h, path, isDirectory, x3)
  BY <1>3, <1>4, <1>5, <1>7, <1>11
<1>13. Says(i, path, isDirectory, x2)
  BY <1>3, <1>4, <1>5, <1>8, <1>12
<1>14. Says(j, path, isDirectory, x1)
  BY <1>3, <1>4, <1>5, <1>9, <1>13
<1>15. Says(j \o a, path, isDirectory, x0)
  BY <1>3, <1>4, <1>5, <1>14
<1> QED BY <1>5, <1>10, <1>15

\* Rules that say the same rank by rank decide the same.
LEMMA SameAnswer ==
  ASSUME NEW r, RulesTyped(r), NEW s, RulesTyped(s), NEW path, NEW isDirectory, NEW v,
         \A rank \in Ranks : Says(r[rank], path, isDirectory, v[rank]) /\ Says(s[rank], path, isDirectory, v[rank])
  PROVE  MatchPreparedRules(path, isDirectory, r) = MatchPreparedRules(path, isDirectory, s)
<1>1. PICK w : w = Later(Later(Later(Later(Later(v[5], v[4]), v[3]), v[2]), v[1]), v[0])
  OBVIOUS
<1>2. Says(InOrder(r), path, isDirectory, w)
  BY <1>1, SaysOfRanks
<1>3. Says(InOrder(s), path, isDirectory, w)
  BY <1>1, SaysOfRanks
<1>4. InOrder(r) \in Seq(AllLayers) /\ InOrder(s) \in Seq(AllLayers)
  BY InOrderType
<1>5. MatchPreparedRules(path, isDirectory, r) = w
  BY <1>2, <1>4, PreparedSays, SaysOnce
<1>6. MatchPreparedRules(path, isDirectory, s) = w
  BY <1>3, <1>4, PreparedSays, SaysOnce
<1> QED BY <1>5, <1>6

\* The rules of a directory say nothing of what is not below it.
LEMMA OwnLayerSilent ==
  ASSUME NEW d \in Seq(STRING), NEW rank, NEW path, ~Candidate(path, d), NEW isDirectory
  PROVE  Says(OwnLayer(d, rank), path, isDirectory, None)
<1>1. PICK own : own = OwnRules(d, Configured, rank)
  OBVIOUS
<1>2. OwnLayer(d, rank) = IF own = << >> THEN << >> ELSE <<[base |-> d, rules |-> own]>>
  BY <1>1 DEF OwnLayer
<1>3. CASE own = << >>
  <2>1. DOMAIN << >> = {}
    OBVIOUS
  <2> QED BY <1>2, <1>3, <2>1 DEF Says, AllNone
<1>4. CASE own # << >>
  <2>1. PICK l : l = [base |-> d, rules |-> own]
    OBVIOUS
  <2>2. LayerAction(l, path, isDirectory) = None
    BY <2>1 DEF LayerAction
  <2>3. \A k \in DOMAIN <<l>> : <<l>>[k] = l
    OBVIOUS
  <2> QED BY <1>2, <1>4, <2>1, <2>2, <2>3 DEF Says, AllNone
<1> QED BY <1>3, <1>4

LEMMA StepAbove ==
  ASSUME NEW d \in Seq(STRING), d # << >>, NEW path, ~Candidate(path, d), NEW isDirectory
  PROVE  MatchPreparedRules(path, isDirectory, RulesOf(d)) = MatchPreparedRules(path, isDirectory, RulesOf(Parent(d)))
<1>1. Parent(d) \in Seq(STRING)
  BY ParentFacts
<1>2. PICK r, s : /\ r = RulesOf(d) /\ s = RulesOf(Parent(d))
                  /\ RulesTyped(r) /\ RulesTyped(s) /\ r = ChildRules(d, Configured, s)
  BY <1>1, RulesTypedOf, RulesStep
<1>3. \A rank \in Ranks : \E x : Says(s[rank], path, isDirectory, x)
  <2> TAKE rank \in Ranks
  <2>1. s[rank] \in Seq(AllLayers)
    BY <1>2 DEF RulesTyped
  <2>2. CASE AllNone(s[rank], path, isDirectory)
    BY <2>2 DEF Says
  <2>3. CASE ~AllNone(s[rank], path, isDirectory)
    <3>1. PICK k : FirstSays(s[rank], path, isDirectory, k)
      BY <2>1, <2>3, SomeoneSays
    <3> QED BY <3>1 DEF Says
  <2> QED BY <2>2, <2>3
<1>4. PICK v : v = [rank \in Ranks |-> CHOOSE x : Says(s[rank], path, isDirectory, x)]
  OBVIOUS
<1>5. ASSUME NEW rank \in Ranks
      PROVE  Says(s[rank], path, isDirectory, v[rank]) /\ Says(r[rank], path, isDirectory, v[rank])
  <2>1. Says(s[rank], path, isDirectory, v[rank])
    BY <1>3, <1>4
  <2>2. PICK layers \in Seq(AllLayers), own \in Seq(AllLayers) : layers = s[rank] /\ own = OwnLayer(d, rank)
    <3>1. s[rank] \in Seq(AllLayers)
      BY <1>2 DEF RulesTyped
    <3> QED BY <3>1, OwnLayerType
  <2>3. r[rank] = own \o layers
    <3>1. s[rank] = layers
      BY <2>2
    <3>2. ChildRules(d, Configured, s)[rank] = OwnLayer(d, rank) \o layers
      BY <3>1, ChildIsOnTop
    <3> QED BY <1>2, <2>2, <3>2
  <2>4. Says(own, path, isDirectory, None)
    BY <2>2, OwnLayerSilent
  <2>5. PICK x : x = v[rank]
    OBVIOUS
  <2>6. Says(own \o layers, path, isDirectory, IF None = None THEN x ELSE None)
    BY <2>1, <2>2, <2>4, <2>5, SaysJoined
  <2> QED BY <2>1, <2>3, <2>5, <2>6
<1> QED BY <1>2, <1>5, SameAnswer

\* What lies below a directory has no say over the directory.
LEMMA SameAbove ==
  ASSUME NEW d \in Seq(STRING), NEW path \in Seq(STRING), NEW n \in 0 .. Len(d), Len(path) <= n + 1,
         NEW isDirectory
  PROVE  MatchPreparedRules(path, isDirectory, RulesOf(d)) = MatchPreparedRules(path, isDirectory, RulesOf(Pre(d, n)))
<1> DEFINE Good(m) == MatchPreparedRules(path, isDirectory, RulesOf(Pre(d, m)))
                        = MatchPreparedRules(path, isDirectory, RulesOf(Pre(d, n)))
           Bad     == {m \in 1 .. Len(d) : m > n /\ ~Good(m)}
<1>1. Len(d) \in Nat /\ Len(path) \in Nat
  OBVIOUS
<1>2. Bad = {}
  <2> SUFFICES ASSUME Bad # {} PROVE FALSE
    OBVIOUS
  <2>1. PICK m \in Bad : \A x \in Bad : ~(x < m)
    <3>1. Bad \in SUBSET (1 .. Len(d))
      OBVIOUS
    <3> HIDE DEF Bad
    <3> QED BY <1>1, <3>1, LeastNumber
  <2>2. m \in 1 .. Len(d) /\ m > n /\ ~Good(m)
    OBVIOUS
  <2>3. Good(m - 1)
    <3>1. CASE m - 1 = n
      BY <3>1
    <3>2. CASE m - 1 # n
      <4>1. m - 1 \in 1 .. Len(d) /\ m - 1 > n /\ m - 1 < m
        BY <1>1, <2>2, <3>2
      <4>2. m - 1 \notin Bad
        <5> HIDE DEF Bad
        <5> QED BY <2>1, <4>1
      <4> QED BY <4>1, <4>2
    <3> QED BY <3>1, <3>2
  <2>4. PICK x \in Seq(STRING) : x = Pre(d, m) /\ Len(x) = m
    <3>1. m \in 0 .. Len(d)
      BY <1>1, <2>2
    <3> QED BY <3>1, PreFacts
  <2>5. x # << >> /\ Parent(x) = Pre(d, m - 1)
    <3>1. m \in 0 .. Len(d) /\ m - 1 \in 0 .. m
      BY <1>1, <2>2
    <3>2. Pre(Pre(d, m), m - 1) = Pre(d, m - 1)
      BY <3>1, PreFacts
    <3> QED BY <2>2, <2>4, <3>2 DEF Parent, Pre
  <2>6. ~Candidate(path, x)
    BY <1>1, <2>2, <2>4 DEF Candidate
  <2>7. MatchPreparedRules(path, isDirectory, RulesOf(x)) = MatchPreparedRules(path, isDirectory, RulesOf(Parent(x)))
    BY <2>4, <2>5, <2>6, StepAbove
  <2> QED BY <2>2, <2>3, <2>4, <2>5, <2>7
<1>3. Good(Len(d))
  <2>1. CASE Len(d) = n
    BY <2>1
  <2>2. CASE Len(d) # n
    BY <1>1, <1>2, <2>2
  <2> QED BY <2>1, <2>2
<1>4. Pre(d, Len(d)) = d
  <2>1. Len(d) \in 0 .. Len(d)
    BY <1>1
  <2> QED BY <2>1, PreFacts
<1> QED BY <1>3, <1>4

-----------------------------------------------------------------------------
(* Match above a path *)

LEMMA GreatestNumber ==
  ASSUME NEW n \in Nat, NEW I \in SUBSET (1 .. n), I # {}
  PROVE  \E m \in I : \A x \in I : x <= m
<1> PICK J : J = {n + 1 - i : i \in I}
  OBVIOUS
<1>1. J \in SUBSET (1 .. n) /\ J # {}
  <2>1. \A i \in I : n + 1 - i \in 1 .. n
    OBVIOUS
  <2> QED BY <2>1
<1>2. PICK m \in J : \A x \in J : ~(x < m)
  BY <1>1, LeastNumber
<1>3. PICK i \in I : m = n + 1 - i
  OBVIOUS
<1>4. \A j \in I : j <= i
  <2> TAKE j \in I
  <2>1. ~(n + 1 - j < m)
    BY <1>2
  <2> QED BY <1>3, <2>1
<1> QED BY <1>4

LEMMA AncestorsAre ==
  ASSUME NEW q \in Seq(STRING)
  PROVE  Ancestors(q) = {Pre(q, n) : n \in 1 .. Len(q) - 1}
BY DEF Ancestors, Pre

LEMMA AfterFacts ==
  ASSUME NEW S, NEW s \in Seq(S), NEW b \in 0 .. Len(s)
  PROVE  /\ SubSeq(s, b + 1, Len(s)) \in Seq(S) /\ Len(SubSeq(s, b + 1, Len(s))) = Len(s) - b
         /\ \A i \in 1 .. Len(s) - b : SubSeq(s, b + 1, Len(s))[i] = s[b + i]
OBVIOUS

LEMMA BelowFacts ==
  ASSUME NEW q \in Seq(STRING), NEW base \in Seq(STRING), Candidate(q, base)
  PROVE  /\ Len(base) < Len(q) /\ Below(q, base) \in Seq(STRING) /\ Len(Below(q, base)) = Len(q) - Len(base)
         /\ \A m \in 1 .. Len(q) - Len(base) :
              /\ Candidate(Pre(q, Len(base) + m), base)
              /\ Below(Pre(q, Len(base) + m), base) = Pre(Below(q, base), m)
<1>1. PICK b \in Nat, n \in Nat : b = Len(base) /\ n = Len(q) /\ b < n /\ Pre(base, b) = Pre(q, b)
  <2>1. Len(base) \in Nat /\ Len(q) \in Nat
    OBVIOUS
  <2> QED BY <2>1 DEF Candidate, IsPrefix, Pre
<1>2. PICK w \in Seq(STRING) : w = Below(q, base) /\ Len(w) = n - b /\ \A i \in 1 .. n - b : w[i] = q[b + i]
  <2>1. b \in 0 .. Len(q)
    BY <1>1
  <2>2. PICK w : w = SubSeq(q, b + 1, Len(q))
    OBVIOUS
  <2>3. w \in Seq(STRING) /\ Len(w) = Len(q) - b /\ \A i \in 1 .. Len(q) - b : w[i] = q[b + i]
    BY <2>1, <2>2, AfterFacts
  <2> QED BY <1>1, <2>2, <2>3 DEF Below
<1>3. ASSUME NEW m \in 1 .. n - b
      PROVE  Candidate(Pre(q, b + m), base) /\ Below(Pre(q, b + m), base) = Pre(w, m)
  <2>1. b + m \in 0 .. Len(q) /\ b \in 0 .. (b + m)
    BY <1>1
  <2>2. PICK p \in Seq(STRING) : p = Pre(q, b + m) /\ Len(p) = b + m /\ Pre(p, b) = Pre(q, b)
                                 /\ \A i \in 1 .. b + m : p[i] = q[i]
    BY <2>1, PreFacts
  <2>3. Candidate(p, base)
    BY <1>1, <2>2 DEF Candidate, IsPrefix, Pre
  <2>4. PICK x \in Seq(STRING) : x = Below(p, base) /\ Len(x) = m /\ \A i \in 1 .. m : x[i] = p[b + i]
    <3>1. b \in 0 .. Len(p) /\ Len(p) - b = m
      BY <1>1, <2>2
    <3>2. PICK x : x = SubSeq(p, b + 1, Len(p))
      OBVIOUS
    <3>3. x \in Seq(STRING) /\ Len(x) = Len(p) - b /\ \A i \in 1 .. Len(p) - b : x[i] = p[b + i]
      BY <3>1, <3>2, AfterFacts
    <3> QED BY <1>1, <3>1, <3>2, <3>3 DEF Below
  <2>5. PICK y \in Seq(STRING) : y = Pre(w, m) /\ Len(y) = m /\ \A i \in 1 .. m : y[i] = w[i]
    <3>1. m \in 0 .. Len(w)
      BY <1>2
    <3> QED BY <3>1, PreFacts
  <2>6. \A i \in 1 .. m : x[i] = y[i]
    <3> TAKE i \in 1 .. m
    <3>1. b + i \in 1 .. b + m /\ i \in 1 .. n - b
      BY <1>1
    <3> QED BY <1>2, <2>2, <2>4, <2>5, <3>1
  <2>7. x = y
    BY <2>4, <2>5, <2>6
  <2> QED BY <2>2, <2>3, <2>4, <2>5, <2>7
<1> QED BY <1>1, <1>2, <1>3

LEMMA AboveFacts ==
  ASSUME NEW q \in Seq(STRING), NEW base \in Seq(STRING), NEW n \in 0 .. Len(q), Candidate(Pre(q, n), base)
  PROVE  Candidate(q, base) /\ n > Len(base)
<1>1. Len(Pre(q, n)) = n /\ Len(base) \in Nat
  BY PreFacts
<1>2. n > Len(base) /\ Pre(base, Len(base)) = Pre(Pre(q, n), Len(base))
  BY <1>1 DEF Candidate, IsPrefix, Pre
<1>3. Pre(Pre(q, n), Len(base)) = Pre(q, Len(base))
  <2>1. Len(base) \in 0 .. n
    BY <1>1, <1>2
  <2> QED BY <2>1, PreFacts
<1>4. Len(q) > Len(base)
  BY <1>1, <1>2
<1> QED BY <1>1, <1>2, <1>3, <1>4 DEF Candidate, IsPrefix, Pre

\* What a layer knows of a path, it knows from a rule for the path or for one of
\* the directories above it.
LEMMA HitIs ==
  ASSUME NEW layer \in AllLayers, NEW q \in Seq(STRING), Candidate(q, layer.base), NEW isDirectory, NEW hit,
         hit = Matches(layer.rules, Below(q, layer.base), isDirectory)
  PROVE  /\ LayerAction(layer, q, isDirectory) # None =>
              hit.exact = TRUE /\ hit.action = LayerAction(layer, q, isDirectory)
         /\ LayerAction(layer, q, isDirectory) = None =>
              /\ hit.exact = FALSE /\ hit.action \in Answers
              /\ hit.action # None => \E a \in Ancestors(q) : LayerAction(layer, a, TRUE) = hit.action
              /\ \A a \in Ancestors(q) : LayerAction(layer, a, TRUE) # None => hit.action # None
<1>0. PICK rules : rules = layer.rules /\ IsRules(rules)
  BY LayerFacts
<1>1. PICK base \in Seq(STRING) : base = layer.base /\ rules = layer.rules /\ IsRules(rules)
  BY <1>0, LayerFacts
<1>2. PICK below \in Seq(STRING), b \in Nat, n \in Nat :
        /\ below = Below(q, base) /\ b = Len(base) /\ n = Len(q) /\ b < n /\ Len(below) = n - b
        /\ \A m \in 1 .. n - b : Candidate(Pre(q, b + m), base) /\ Below(Pre(q, b + m), base) = Pre(below, m)
  <2>1. Candidate(q, base) /\ Len(base) \in Nat /\ Len(q) \in Nat
    BY <1>1
  <2>2. PICK below, b, n : below = Below(q, base) /\ b = Len(base) /\ n = Len(q)
    OBVIOUS
  <2>3. /\ b \in Nat /\ n \in Nat /\ b < n /\ below \in Seq(STRING) /\ Len(below) = n - b
        /\ \A m \in 1 .. n - b : Candidate(Pre(q, b + m), base) /\ Below(Pre(q, b + m), base) = Pre(below, m)
    BY <2>1, <2>2, BelowFacts
  <2> QED BY <2>2, <2>3
<1>3. PICK own : own = MatchesExact(rules, below, isDirectory) /\ own = LayerAction(layer, q, isDirectory)
  BY <1>1, <1>2 DEF LayerAction
<1>4. PICK decided : decided = {a \in Ancestors(below) : MatchesExact(rules, a, TRUE) # None}
  OBVIOUS
<1>5. PICK nearest : nearest = CHOOSE a \in decided : \A x \in decided : Len(x) <= Len(a)
  OBVIOUS
<1>6. hit = IF own # None THEN [exact |-> TRUE, action |-> own]
            ELSE [exact |-> FALSE, action |-> IF decided = {} THEN None ELSE MatchesExact(rules, nearest, TRUE)]
  BY <1>1, <1>2, <1>3, <1>4, <1>5 DEF Matches
<1>7. PICK top \in Nat : top = n - b - 1
  <2>1. n \in Nat /\ b \in Nat /\ b < n
    BY <1>2
  <2>2. n - b - 1 \in Nat
    BY <2>1
  <2> QED BY <2>2
<1>8. \A m \in 1 .. top : Pre(below, m) \in Seq(STRING) /\ Len(Pre(below, m)) = m
  <2> TAKE m \in 1 .. top
  <2>1. m \in 0 .. Len(below)
    BY <1>2, <1>7
  <2> QED BY <2>1, PreFacts
<1>9. Ancestors(below) = {Pre(below, m) : m \in 1 .. top}
  BY <1>2, <1>7, AncestorsAre
<1>10. ASSUME decided # {} PROVE nearest \in decided
  <2>1. PICK I : I = {m \in 1 .. top : MatchesExact(rules, Pre(below, m), TRUE) # None}
    OBVIOUS
  <2>2. decided = {Pre(below, m) : m \in I}
    BY <1>4, <1>9, <2>1
  <2>3. I \in SUBSET (1 .. top) /\ I # {}
    BY <1>10, <2>1, <2>2
  <2>4. PICK m \in I : \A x \in I : x <= m
    BY <2>3, GreatestNumber
  <2>5. Pre(below, m) \in decided /\ \A x \in decided : Len(x) <= Len(Pre(below, m))
    BY <1>8, <2>2, <2>3, <2>4
  <2> QED BY <1>5, <2>5
<1>11. ASSUME NEW m \in 1 .. top
       PROVE  /\ Pre(q, b + m) \in Ancestors(q)
              /\ LayerAction(layer, Pre(q, b + m), TRUE) = MatchesExact(rules, Pre(below, m), TRUE)
  <2>1. m \in 1 .. n - b /\ b + m \in 1 .. n - 1
    BY <1>2, <1>7
  <2>2. Candidate(Pre(q, b + m), base) /\ Below(Pre(q, b + m), base) = Pre(below, m)
    BY <1>2, <2>1
  <2>3. Pre(q, b + m) \in Ancestors(q)
    BY <1>2, <2>1, AncestorsAre
  <2> QED BY <1>1, <2>2, <2>3 DEF LayerAction
<1>12. ASSUME NEW a \in Ancestors(q), LayerAction(layer, a, TRUE) # None PROVE decided # {}
  <2>1. PICK i \in 1 .. n - 1 : a = Pre(q, i)
    BY <1>2, AncestorsAre
  <2>2. Candidate(Pre(q, i), base)
    BY <1>1, <1>12, <2>1 DEF LayerAction
  <2>3. i \in 0 .. Len(q)
    BY <1>2
  <2>4. i > b
    BY <1>2, <2>2, <2>3, AboveFacts
  <2>5. PICK m \in 1 .. top : i = b + m
    <3>1. i - b \in 1 .. top /\ i = b + (i - b)
      BY <1>2, <1>7, <2>4
    <3> QED BY <3>1
  <2>6. MatchesExact(rules, Pre(below, m), TRUE) # None
    BY <1>11, <1>12, <2>1, <2>5
  <2> QED BY <1>4, <1>9, <2>6
<1>13. MatchesExact(rules, nearest, TRUE) \in Answers /\ None \in Answers
  BY <1>1, MatchesExactType DEF Answers
<1>14. CASE own # None
  BY <1>3, <1>6, <1>14
<1>15. CASE own = None
  <2>1. hit.exact = FALSE /\ hit.action = IF decided = {} THEN None ELSE MatchesExact(rules, nearest, TRUE)
    BY <1>6, <1>15
  <2>2. ASSUME hit.action # None PROVE \E a \in Ancestors(q) : LayerAction(layer, a, TRUE) = hit.action
    <3>1. nearest \in decided
      BY <1>10, <2>1, <2>2
    <3>2. PICK m \in 1 .. top : nearest = Pre(below, m)
      BY <1>4, <1>9, <3>1
    <3>3. hit.action = MatchesExact(rules, Pre(below, m), TRUE)
      BY <2>1, <2>2, <3>2
    <3> QED BY <1>11, <3>3
  <2>3. ASSUME NEW a \in Ancestors(q), LayerAction(layer, a, TRUE) # None PROVE hit.action # None
    <3>1. decided # {}
      BY <1>12, <2>3
    <3>2. nearest \in decided
      BY <1>10, <3>1
    <3> QED BY <1>4, <2>1, <3>1, <3>2
  <2> QED BY <1>3, <1>13, <1>15, <2>1, <2>2, <2>3
<1> QED BY <1>14, <1>15

\* match_rules agrees with match_prepared_rules on a path none of whose ancestors
\* the layers ignore, but for an Include that comes from above.
LEMMA MatchersAgree ==
  ASSUME NEW rules, RulesTyped(rules), NEW q \in Seq(STRING), NEW isDirectory,
         \A a \in Ancestors(q) : MatchPreparedRules(a, TRUE, rules) # "Ignore"
  PROVE  \/ MatchRules(q, isDirectory, rules) = MatchPreparedRules(q, isDirectory, rules)
         \/ /\ MatchPreparedRules(q, isDirectory, rules) = None
            /\ MatchRules(q, isDirectory, rules) = "Include"
<1> DEFINE layers == InOrder(rules)
           Hit(k) == Matches(layers[k].rules, Below(q, layers[k].base), isDirectory)
           hits   == {k \in DOMAIN layers : Candidate(q, layers[k].base) /\ Hit(k).action # None}
           IncludedBefore(k) ==
             \E j \in hits : j < k /\ ~Hit(j).exact /\ Hit(j).action = "Include"
           decisive ==
             {k \in hits : Hit(k).exact \/ (Hit(k).action = "Ignore" /\ ~IncludedBefore(k))}
           Own(k) == LayerAction(layers[k], q, isDirectory)
<1>1. MatchRules(q, isDirectory, rules) =
        IF decisive # {} THEN Hit(Min(decisive)).action ELSE IF hits # {} THEN "Include" ELSE None
  BY DEF MatchRules
<1>2. layers \in Seq(AllLayers)
  BY InOrderType
<1>3. PICK n \in Nat : DOMAIN layers = 1 .. n /\ \A k \in 1 .. n : layers[k] \in AllLayers
  BY <1>2
<1>4. None \notin {"Ignore", "Include"}
  BY RuleConstants
<1>5. ASSUME NEW k \in 1 .. n, Candidate(q, layers[k].base)
      PROVE  /\ Own(k) # None => Hit(k).exact = TRUE /\ Hit(k).action = Own(k)
             /\ Own(k) = None =>
                  /\ Hit(k).exact = FALSE /\ Hit(k).action \in Answers
                  /\ Hit(k).action # None => \E a \in Ancestors(q) : LayerAction(layers[k], a, TRUE) = Hit(k).action
                  /\ \A a \in Ancestors(q) : LayerAction(layers[k], a, TRUE) # None => Hit(k).action # None
  <2>0. PICK layer \in AllLayers : layer = layers[k]
    BY <1>3
  <2>1. PICK hit : layer = layers[k] /\ hit = Hit(k)
    BY <2>0
  <2>2. hit = Matches(layer.rules, Below(q, layer.base), isDirectory) /\ Candidate(q, layer.base)
    BY <1>5, <2>1
  <2>3. /\ LayerAction(layer, q, isDirectory) # None =>
              hit.exact = TRUE /\ hit.action = LayerAction(layer, q, isDirectory)
        /\ LayerAction(layer, q, isDirectory) = None =>
              /\ hit.exact = FALSE /\ hit.action \in Answers
              /\ hit.action # None => \E a \in Ancestors(q) : LayerAction(layer, a, TRUE) = hit.action
              /\ \A a \in Ancestors(q) : LayerAction(layer, a, TRUE) # None => hit.action # None
    BY <2>2, HitIs
  <2> HIDE DEF Hit, layers
  <2> QED BY <2>1, <2>3
<1>6. hits \subseteq 1 .. n /\ \A k \in hits : Candidate(q, layers[k].base) /\ Hit(k).action # None
  BY <1>3
<1>7. \A k \in 1 .. n : Candidate(q, layers[k].base) /\ Hit(k).action # None => k \in hits
  BY <1>3
<1>8. \A k \in 1 .. n : Own(k) # None => Candidate(q, layers[k].base)
  BY DEF LayerAction
<1>9. \A k \in decisive : k \in hits /\ (Hit(k).exact \/ (Hit(k).action = "Ignore" /\ ~IncludedBefore(k)))
  OBVIOUS
<1>10. \A k \in hits : Hit(k).exact => k \in decisive
  OBVIOUS
<1>11. \A k, j : j \in hits /\ j < k /\ ~Hit(j).exact /\ Hit(j).action = "Include" => IncludedBefore(k)
  OBVIOUS
<1>12. \A a : Says(layers, a, TRUE, MatchPreparedRules(a, TRUE, rules))
  BY PreparedSays
<1>13. PICK v : v = MatchPreparedRules(q, isDirectory, rules) /\ Says(layers, q, isDirectory, v)
  BY PreparedSays
<1> HIDE DEF layers, Hit, hits, IncludedBefore, decisive
<1> DEFINE Outdone(k) == \E j \in hits : j < k /\ (Hit(j).exact \/ Hit(j).action = "Include")
           Bad == {k \in hits : ~Hit(k).exact /\ Hit(k).action = "Ignore" /\ ~Outdone(k)}
<1>14. Bad = {}
  <2> SUFFICES ASSUME Bad # {} PROVE FALSE
    OBVIOUS
  <2>1. PICK k \in Bad : \A x \in Bad : ~(x < k)
    <3>1. Bad \in SUBSET (1 .. n)
      BY <1>6
    <3> HIDE DEF Bad
    <3> QED BY <3>1, LeastNumber
  <2>2. k \in hits /\ k \in 1 .. n /\ ~Hit(k).exact /\ Hit(k).action = "Ignore" /\ ~Outdone(k)
    BY <1>6
  <2>3. Candidate(q, layers[k].base) /\ Own(k) = None
    BY <1>5, <1>6, <2>2
  <2>4. PICK a \in Ancestors(q) : LayerAction(layers[k], a, TRUE) = "Ignore"
    BY <1>4, <1>5, <2>2, <2>3
  <2>5. PICK j : FirstSays(layers, a, TRUE, j) /\ MatchPreparedRules(a, TRUE, rules) = LayerAction(layers[j], a, TRUE)
    <3>1. ~AllNone(layers, a, TRUE)
      BY <1>3, <1>4, <2>2, <2>4 DEF AllNone
    <3>2. Says(layers, a, TRUE, MatchPreparedRules(a, TRUE, rules))
      BY <1>12
    <3> QED BY <3>1, <3>2 DEF Says
  <2>6. LayerAction(layers[j], a, TRUE) # "Ignore" /\ LayerAction(layers[j], a, TRUE) # None /\ j \in 1 .. n /\ j < k
    <3>1. LayerAction(layers[j], a, TRUE) # "Ignore" /\ LayerAction(layers[j], a, TRUE) # None /\ j \in 1 .. n
      BY <1>3, <2>5 DEF FirstSays
    <3>2. ~(k < j)
      BY <1>3, <1>4, <2>2, <2>4, <2>5 DEF FirstSays
    <3>3. j # k
      BY <2>4, <3>1
    <3>4. k \in 1 .. n
      BY <2>2
    <3>5. j < k
      BY <3>1, <3>2, <3>3, <3>4
    <3> QED BY <3>1, <3>5
  <2>7. Candidate(q, layers[j].base)
    <3>1. PICK i \in 1 .. Len(q) - 1 : a = Pre(q, i)
      BY AncestorsAre
    <3>2. i \in 0 .. Len(q)
      OBVIOUS
    <3>3. PICK base \in Seq(STRING) : base = layers[j].base
      BY <1>3, <2>6, LayerFacts
    <3>4. Candidate(Pre(q, i), base)
      BY <2>6, <3>1, <3>3 DEF LayerAction
    <3>5. Candidate(q, base)
      BY <3>2, <3>4, AboveFacts
    <3> QED BY <3>3, <3>5
  <2>8. Hit(j).action # None
    <3>1. CASE Own(j) # None
      BY <1>5, <2>6, <2>7, <3>1
    <3>2. CASE Own(j) = None
      BY <1>5, <2>6, <2>7, <3>2
    <3> QED BY <3>1, <3>2
  <2>9. j \in hits
    BY <1>7, <2>6, <2>7, <2>8
  <2>10. ~Hit(j).exact /\ Hit(j).action # "Include"
    BY <2>2, <2>6, <2>9
  <2>11. Hit(j).action = "Ignore"
    <3>1. Hit(j).action \in Answers
      BY <1>5, <2>6, <2>7, <2>10
    <3> QED BY <2>8, <2>10, <3>1 DEF Answers
  <2>12. Outdone(j)
    <3>1. j \notin Bad
      <4> HIDE DEF Bad
      <4> QED BY <2>1, <2>6
    <3> QED BY <2>9, <2>10, <2>11, <3>1
  <2>13. PICK i \in hits : i < j /\ (Hit(i).exact \/ Hit(i).action = "Include")
    BY <2>12
  <2>14. i < k
    BY <1>6, <2>2, <2>6, <2>13
  <2> QED BY <2>2, <2>13, <2>14
<1>15. \A k \in hits : ~Hit(k).exact /\ Hit(k).action = "Ignore" => Outdone(k)
  BY <1>14
<1> HIDE DEF Bad
\* A layer that decides before all that know the path itself would be outdone.
<1>16. ASSUME NEW k \in decisive, \A j \in 1 .. n : j <= k => Own(j) = None
       PROVE  FALSE
  <2>1. k \in hits /\ k \in 1 .. n /\ (Hit(k).exact \/ (Hit(k).action = "Ignore" /\ ~IncludedBefore(k)))
    BY <1>6, <1>9
  <2>2. \A j \in hits : j <= k => ~Hit(j).exact
    <3> SUFFICES ASSUME NEW j \in hits, j <= k PROVE ~Hit(j).exact
      OBVIOUS
    <3>1. j \in 1 .. n /\ Candidate(q, layers[j].base)
      BY <1>6
    <3>2. Own(j) = None
      BY <1>16, <3>1
    <3> QED BY <1>5, <3>1, <3>2
  <2>3. ~Hit(k).exact /\ Hit(k).action = "Ignore" /\ ~IncludedBefore(k)
    BY <2>1, <2>2
  <2>4. PICK j \in hits : j < k /\ (Hit(j).exact \/ Hit(j).action = "Include")
    BY <1>15, <2>1, <2>3
  <2>5. ~Hit(j).exact
    BY <1>6, <2>1, <2>2, <2>4
  <2> QED BY <1>11, <2>3, <2>4, <2>5
<1>17. CASE AllNone(layers, q, isDirectory)
  <2>1. \A k \in 1 .. n : Own(k) = None
    BY <1>3, <1>17 DEF AllNone
  <2>2. decisive = {}
    BY <1>16, <2>1
  <2>3. v = None
    BY <1>13, <1>17 DEF Says, AllNone, FirstSays
  <2> QED BY <1>1, <1>13, <2>2, <2>3
<1>18. CASE ~AllNone(layers, q, isDirectory)
  <2>1. PICK k : FirstSays(layers, q, isDirectory, k) /\ v = Own(k)
    BY <1>13, <1>18 DEF Says
  <2>2. k \in 1 .. n /\ Own(k) # None /\ \A j \in 1 .. n : j < k => Own(j) = None
    BY <1>3, <2>1 DEF FirstSays
  <2>3. Candidate(q, layers[k].base) /\ Hit(k).exact = TRUE /\ Hit(k).action = v
    BY <1>5, <1>8, <2>1, <2>2
  <2>4. k \in decisive
    <3>1. k \in hits
      BY <1>7, <2>1, <2>2, <2>3
    <3> QED BY <1>10, <2>3, <3>1
  <2>5. \A m \in decisive : m \in 1 .. n /\ k <= m
    <3> SUFFICES ASSUME NEW m \in decisive PROVE m \in 1 .. n /\ k <= m
      OBVIOUS
    <3>1. m \in 1 .. n
      BY <1>6, <1>9
    <3>2. ~(m < k)
      <4> SUFFICES ASSUME m < k PROVE FALSE
        OBVIOUS
      <4>1. \A j \in 1 .. n : j <= m => Own(j) = None
        BY <2>2, <3>1
      <4> QED BY <1>16, <4>1
    <3> QED BY <2>2, <3>1, <3>2
  <2>6. Min(decisive) = k
    <3>1. \E x \in decisive : \A y \in decisive : x <= y
      BY <2>4, <2>5
    <3>2. Min(decisive) \in decisive /\ \A y \in decisive : Min(decisive) <= y
      BY <3>1 DEF Min
    <3>3. Min(decisive) \in 1 .. n /\ k <= Min(decisive) /\ Min(decisive) <= k
      BY <2>4, <2>5, <3>2
    <3> QED BY <2>2, <3>3
  <2> QED BY <1>1, <1>13, <2>3, <2>4, <2>6
<1> QED BY <1>17, <1>18

-----------------------------------------------------------------------------
(* The matcher and the policy *)

LEMMA MatchIs ==
  ASSUME NEW overrides, IsRules(overrides), NEW path, NEW isDirectory, NEW rules, NEW prep \in BOOLEAN,
         NEW byRules \in Answers,
         byRules = IF prep THEN MatchPreparedRules(path, isDirectory, rules) ELSE MatchRules(path, isDirectory, rules),
         NEW override, override = OverrideMatch(overrides, Below(path, ScanRoot), isDirectory)
  PROVE  /\ override \in {"OverrideIgnore", "OverrideInclude", None}
         /\ MatchedWithRules(overrides, path, isDirectory, rules, prep)
              = IF override # None THEN override ELSE IF byRules = None THEN Unmatched(path) ELSE byRules
<1>1. PICK relative : relative = Below(path, ScanRoot)
  OBVIOUS
<1>2. PICK byOverrides \in Answers : byOverrides = MatchesExact(overrides, relative, isDirectory)
  BY MatchesExactType
<1>3. PICK unmatched \in {"OverrideIgnore", None} :
        unmatched = IF HasIncludes(overrides) /\ ~isDirectory THEN "OverrideIgnore" ELSE None
  OBVIOUS
<1>4. override = CASE byOverrides = "Ignore"  -> "OverrideInclude"
                   [] byOverrides = "Include" -> "OverrideIgnore"
                   [] byOverrides = None      -> unmatched
  BY <1>1, <1>2, <1>3 DEF OverrideMatch, Answers
<1>5. override \in {"OverrideIgnore", "OverrideInclude", None}
  BY <1>4 DEF Answers
<1>6. PICK behind : behind = IF byRules = None THEN Unmatched(path) ELSE byRules
  OBVIOUS
<1>7. MatchedWithRules(overrides, path, isDirectory, rules, prep)
        = [o \in {"OverrideIgnore", "OverrideInclude", None} |-> IF o = None THEN behind ELSE o][override]
  BY <1>1, <1>6 DEF MatchedWithRules, Answers
<1> QED BY <1>5, <1>6, <1>7

LEMMA SkipsAre ==
  /\ SkipKind["Ignore"] # None /\ SkipKind["OverrideIgnore"] # None /\ SkipKind["Hidden"] # None
  /\ SkipKind["Ignore"] = "Ignored" /\ SkipKind["OverrideIgnore"] = "Override"
  /\ SkipKind["Include"] = None /\ SkipKind["OverrideInclude"] = None /\ SkipKind[None] = None
BY RuleConstants DEF SkipKind

LEMMA DecisionIs ==
  ASSUME NEW e, NEW match \in Outcomes
  PROVE  DecisionOn(e, match) = IF Depth(e) < EffectiveMinDepth /\ ~IsDir(e) THEN "Pass"
                                ELSE IF Kind(e) = "symlink" THEN "Symlink"
                                ELSE IF IsDir(e) /\ Depth(e) >= plan.maxDepth THEN "MaxDepth"
                                ELSE IF SkipKind[match] # None THEN SkipKind[match]
                                ELSE Filtered(e, match = "OverrideInclude")
<1>1. match \in DOMAIN SkipKind
  BY DEF SkipKind, Outcomes
<1> QED BY <1>1 DEF DecisionOn

LEMMA WalkMatchIs ==
  ASSUME plan \in Plans, NEW e \in DOMAIN Tree, e # ScanRoot, NEW rules, rules = RulesOf(Parent(e)),
         NEW override, override = OverrideMatch(plan.overrides, Below(e, ScanRoot), IsDir(e)),
         NEW byRules, byRules = MatchPreparedRules(e, IsDir(e), rules)
  PROVE  /\ IsRules(plan.overrides) /\ RulesTyped(rules) /\ RulesIn[Parent(e)] = rules
         /\ override \in {"OverrideIgnore", "OverrideInclude", None} /\ byRules \in Answers
         /\ WalkMatch(e) = IF override # None THEN override ELSE IF byRules = None THEN Unmatched(e) ELSE byRules
         /\ WalkMatch(e) \in Outcomes
         /\ PolicyDecision(e) = DecisionOn(e, WalkMatch(e))
<1>1. IsRules(plan.overrides)
  BY DiscoveryConstants DEF PlanOK
<1>2. Parent(e) \in Seq(STRING)
  BY EntryFacts DEF Dirs
<1>3. RulesTyped(rules) /\ RulesIn[Parent(e)] = rules
  BY <1>2, RulesTypedOf DEF RulesIn
<1>4. byRules \in Answers
  BY <1>3, MatchPreparedType
<1>5. PICK overrides, isDirectory : overrides = plan.overrides /\ isDirectory = IsDir(e)
  OBVIOUS
<1>6. WalkMatch(e) = MatchedWithRules(overrides, e, isDirectory, rules, TRUE)
  BY <1>3, <1>5 DEF WalkMatch
<1>7. /\ override \in {"OverrideIgnore", "OverrideInclude", None}
      /\ MatchedWithRules(overrides, e, isDirectory, rules, TRUE)
           = IF override # None THEN override ELSE IF byRules = None THEN Unmatched(e) ELSE byRules
  <2>1. IsRules(overrides) /\ override = OverrideMatch(overrides, Below(e, ScanRoot), isDirectory)
        /\ byRules = MatchPreparedRules(e, isDirectory, rules)
    BY <1>1, <1>2, <1>5
  <2>2. PICK known \in Answers, prep \in BOOLEAN : known = byRules /\ prep = TRUE
    BY <1>4
  <2>3. known = IF prep THEN MatchPreparedRules(e, isDirectory, rules) ELSE MatchRules(e, isDirectory, rules)
    BY <2>1, <2>2
  <2>4. /\ override \in {"OverrideIgnore", "OverrideInclude", None}
        /\ MatchedWithRules(overrides, e, isDirectory, rules, prep)
             = IF override # None THEN override ELSE IF known = None THEN Unmatched(e) ELSE known
    BY <2>1, <2>3, MatchIs
  <2> QED BY <2>2, <2>4
<1>8. WalkMatch(e) \in Outcomes
  BY <1>4, <1>6, <1>7 DEF Answers, Outcomes, Unmatched
<1>9. PolicyDecision(e) = DecisionOn(e, WalkMatch(e))
  BY <1>3, PolicyDecides DEF Decision, WalkMatch
<1> QED BY <1>1, <1>3, <1>4, <1>6, <1>7, <1>8, <1>9

\* A directory that the walk descends into is not ignored, but for an override.
LEMMA NotIgnored ==
  ASSUME plan \in Plans, NEW a \in Dirs, a # ScanRoot, PolicyDecision(a) = "Descend", ~OverriddenIgnore(a)
  PROVE  MatchPreparedRules(a, TRUE, RulesOf(Parent(a))) # "Ignore"
<1>1. a \in DOMAIN Tree /\ IsDir(a) = TRUE
  BY DEF Dirs, IsDir
<1>2. PICK rules, override, byRules :
        /\ rules = RulesOf(Parent(a)) /\ override = OverrideMatch(plan.overrides, Below(a, ScanRoot), IsDir(a))
        /\ byRules = MatchPreparedRules(a, IsDir(a), rules)
  OBVIOUS
<1>3. /\ RulesIn[Parent(a)] = rules /\ override \in {"OverrideIgnore", "OverrideInclude", None}
      /\ WalkMatch(a) = IF override # None THEN override ELSE IF byRules = None THEN Unmatched(a) ELSE byRules
      /\ WalkMatch(a) \in Outcomes /\ PolicyDecision(a) = DecisionOn(a, WalkMatch(a))
  BY <1>1, <1>2, WalkMatchIs
<1>4. SUFFICES ASSUME byRules = "Ignore" PROVE FALSE
  BY <1>1, <1>2
<1>5. None # "Ignore" /\ None # "OverrideIgnore" /\ None # "OverrideInclude"
  BY RuleConstants
<1>6. CASE override = "OverrideInclude"
  <2>1. WalkMatch(a) = "OverrideInclude"
    BY <1>3, <1>5, <1>6
  <2>2. MatchPreparedRules(a, TRUE, RulesIn[Parent(a)]) = "Ignore"
    BY <1>1, <1>2, <1>3, <1>4
  <2> QED BY <2>1, <2>2 DEF OverriddenIgnore
<1>7. CASE override # "OverrideInclude"
  <2>1. WalkMatch(a) \in {"Ignore", "OverrideIgnore"}
    BY <1>3, <1>4, <1>5, <1>7
  <2>2. SkipKind[WalkMatch(a)] # None /\ SkipKind[WalkMatch(a)] \in {"Ignored", "Override"}
    BY <2>1, SkipsAre
  <2>3. DecisionOn(a, WalkMatch(a)) # "Descend"
    BY <1>3, <2>2, DecisionIs
  <2> QED BY <1>3, <2>3
<1> QED BY <1>6, <1>7

\* Nothing above a path is ignored by the rules of the path's own directory.
LEMMA NoneIgnoredAbove ==
  ASSUME plan \in Plans, NEW q \in DOMAIN Tree, q # ScanRoot,
         \A a \in Over(q) : PolicyDecision(a) = "Descend",
         ~RootIsIgnored, \A a \in Between(q) : ~OverriddenIgnore(a)
  PROVE  \A a \in Ancestors(q) : MatchPreparedRules(a, TRUE, RulesOf(Parent(q))) # "Ignore"
<1>1. /\ q \in Seq(STRING) /\ Len(q) \in Nat /\ Len(ScanRoot) \in Nat /\ ScanRoot \in Seq(STRING)
      /\ Len(ScanRoot) < Len(q) /\ Pre(q, Len(ScanRoot)) = ScanRoot /\ Parent(q) = Pre(q, Len(q) - 1)
  BY EntryFacts
<1>2. PICK p \in Seq(STRING) : p = Parent(q) /\ Len(p) = Len(q) - 1 /\ \A m \in 0 .. Len(q) - 1 : Pre(p, m) = Pre(q, m)
  <2>1. Len(q) - 1 \in 0 .. Len(q)
    BY <1>1
  <2> QED BY <1>1, <2>1, PreFacts
<1> SUFFICES ASSUME NEW a \in Ancestors(q) PROVE MatchPreparedRules(a, TRUE, RulesOf(p)) # "Ignore"
  BY <1>2
<1>3. PICK i \in 1 .. Len(q) - 1 : a = Pre(q, i)
  BY <1>1, AncestorsAre
<1>4. i \in 0 .. Len(q) /\ a \in Seq(STRING) /\ Len(a) = i
  BY <1>1, <1>3, PreFacts
<1> DEFINE Ask(x) == MatchPreparedRules(a, TRUE, RulesOf(x))
<1>5. ASSUME NEW n \in 0 .. Len(p), Len(a) <= n + 1 PROVE Ask(p) = Ask(Pre(p, n))
  <2>1. PICK path \in Seq(STRING), isDirectory \in BOOLEAN : path = a /\ isDirectory = TRUE
    BY <1>4
  <2>2. Len(path) <= n + 1
    BY <1>5, <2>1
  <2>3. MatchPreparedRules(path, isDirectory, RulesOf(p)) = MatchPreparedRules(path, isDirectory, RulesOf(Pre(p, n)))
    BY <2>2, SameAbove
  <2> QED BY <2>1, <2>3
<1>6. CASE i <= Len(ScanRoot)
  <2>1. Len(ScanRoot) \in 0 .. Len(p) /\ Len(a) <= Len(ScanRoot) + 1 /\ Pre(p, Len(ScanRoot)) = ScanRoot
    BY <1>1, <1>2, <1>4, <1>6
  <2>2. MatchPreparedRules(a, TRUE, RulesOf(p)) = MatchPreparedRules(a, TRUE, RulesOf(ScanRoot))
    <3>1. PICK n \in 0 .. Len(p) : n = Len(ScanRoot)
      BY <2>1
    <3>2. MatchPreparedRules(a, TRUE, RulesOf(p)) = MatchPreparedRules(a, TRUE, RulesOf(Pre(p, n)))
      BY <1>5, <2>1, <3>1
    <3> QED BY <2>1, <3>1, <3>2
  <2>3. a = Pre(ScanRoot, i)
    <3>1. Len(ScanRoot) \in 0 .. Len(q) /\ i \in 0 .. Len(ScanRoot)
      BY <1>1, <1>4, <1>6
    <3>2. Pre(Pre(q, Len(ScanRoot)), i) = Pre(q, i)
      BY <1>1, <3>1, PreFacts
    <3> QED BY <1>1, <1>3, <3>2
  <2>4. a \in Ancestors(ScanRoot) \cup {ScanRoot}
    <3>1. CASE i = Len(ScanRoot)
      BY <1>1, <1>3, <3>1
    <3>2. CASE i # Len(ScanRoot)
      <4>1. i \in 1 .. Len(ScanRoot) - 1
        BY <1>1, <1>6, <3>2
      <4> QED BY <1>1, <2>3, <4>1, AncestorsAre
    <3> QED BY <3>1, <3>2
  <2> QED BY <2>2, <2>4 DEF RootIsIgnored
<1>7. CASE ~(i <= Len(ScanRoot))
  <2>1. a \in Between(q) /\ a # ScanRoot /\ a \in Over(q)
    BY <1>1, <1>4, <1>7 DEF Between, Over
  <2>2. a \in Dirs
    BY <2>1, OverFacts
  <2>3. PICK n \in 0 .. Len(p) : n = i - 1 /\ Len(a) <= n + 1
    <3>1. i - 1 \in 0 .. Len(p) /\ Len(a) <= (i - 1) + 1
      BY <1>1, <1>2, <1>4
    <3> QED BY <3>1
  <2>4. Pre(p, n) = Parent(a)
    <3>1. n \in 0 .. Len(q) - 1 /\ n \in 0 .. i
      BY <1>1, <1>2, <1>4, <2>3
    <3>2. Pre(a, n) = Pre(q, n)
      BY <1>1, <1>3, <1>4, <3>1, PreFacts
    <3> QED BY <1>2, <1>4, <2>3, <3>1, <3>2 DEF Parent, Pre
  <2>5. MatchPreparedRules(a, TRUE, RulesOf(p)) = MatchPreparedRules(a, TRUE, RulesOf(Pre(p, n)))
    BY <1>5, <2>3
  <2>6. MatchPreparedRules(a, TRUE, RulesOf(Parent(a))) # "Ignore"
    BY <2>1, <2>2, NotIgnored
  <2> QED BY <2>4, <2>5, <2>6
<1> QED BY <1>6, <1>7

\* A path below directories that the walk descends into is decided alike.
LEMMA MatcherDecides ==
  ASSUME plan \in Plans, NEW q \in DOMAIN Tree, q # ScanRoot,
         \A a \in Over(q) : PolicyDecision(a) = "Descend",
         ~RootIsIgnored, \A a \in Between(q) : ~OverriddenIgnore(a), ~HiddenBelowIncluded(q)
  PROVE  Classified(q) = PolicyDecision(q)
<1>1. q \in Seq(STRING) /\ Parent(q) \in Dirs
  BY EntryFacts
<1>2. PICK rules, override, byRules, isDirectory :
        /\ rules = RulesOf(Parent(q)) /\ override = OverrideMatch(plan.overrides, Below(q, ScanRoot), IsDir(q))
        /\ byRules = MatchPreparedRules(q, IsDir(q), rules) /\ isDirectory = IsDir(q)
  OBVIOUS
<1>3. /\ IsRules(plan.overrides) /\ RulesTyped(rules) /\ RulesIn[Parent(q)] = rules
      /\ override \in {"OverrideIgnore", "OverrideInclude", None} /\ byRules \in Answers
      /\ WalkMatch(q) = IF override # None THEN override ELSE IF byRules = None THEN Unmatched(q) ELSE byRules
      /\ WalkMatch(q) \in Outcomes
      /\ PolicyDecision(q) = DecisionOn(q, WalkMatch(q))
  BY <1>2, WalkMatchIs
<1>4. PICK alone : alone = MatchRules(q, isDirectory, rules)
  OBVIOUS
<1>5. alone = byRules \/ (byRules = None /\ alone = "Include")
  <2>1. \A a \in Ancestors(q) : MatchPreparedRules(a, TRUE, rules) # "Ignore"
    BY <1>2, NoneIgnoredAbove
  <2>2. \/ MatchRules(q, isDirectory, rules) = MatchPreparedRules(q, isDirectory, rules)
        \/ MatchPreparedRules(q, isDirectory, rules) = None /\ MatchRules(q, isDirectory, rules) = "Include"
    BY <1>1, <1>3, <2>1, MatchersAgree
  <2> QED BY <1>2, <1>4, <2>2
<1>6. alone \in Answers
  BY <1>3, <1>5 DEF Answers
<1>7. StandaloneMatch(q) = IF override # None THEN override ELSE IF alone = None THEN Unmatched(q) ELSE alone
  <2>1. PICK overrides : overrides = plan.overrides
    OBVIOUS
  <2>2. IsRules(overrides) /\ override = OverrideMatch(overrides, Below(q, ScanRoot), isDirectory)
    BY <1>2, <1>3, <2>1
  <2>3. MatchedWithRules(overrides, q, isDirectory, rules, FALSE)
          = IF override # None THEN override ELSE IF alone = None THEN Unmatched(q) ELSE alone
    <3>1. PICK known \in Answers, prep \in BOOLEAN : known = alone /\ prep = FALSE
      BY <1>6
    <3>2. known = IF prep THEN MatchPreparedRules(q, isDirectory, rules) ELSE MatchRules(q, isDirectory, rules)
      BY <1>4, <3>1
    <3>3. MatchedWithRules(overrides, q, isDirectory, rules, prep)
            = IF override # None THEN override ELSE IF known = None THEN Unmatched(q) ELSE known
      BY <2>2, <3>2, MatchIs
    <3> QED BY <3>1, <3>3
  <2> QED BY <1>2, <1>3, <2>1, <2>3 DEF StandaloneMatch
<1>8. ~(Depth(q) > plan.maxDepth)
  <2>1. PICK d : d = Parent(q) /\ d \in Dirs /\ d \in Over(q) /\ d \in DOMAIN Tree /\ IsDir(d)
    BY OverFacts DEF Dirs
  <2>2. Len(q) \in Nat /\ Len(d) = Len(q) - 1 /\ Len(ScanRoot) \in Nat
    <3>1. q # << >>
      BY EntryFacts
    <3> QED BY <1>1, <2>1, <3>1, ParentFacts, EntryFacts
  <2>3. plan.maxDepth \in Nat /\ PolicyDecision(d) = "Descend"
    BY <2>1, DiscoveryConstants DEF PlanOK
  <2>4. CASE d = ScanRoot
    <3>1. plan.maxDepth # 0
      BY <2>1, <2>3, <2>4, PolicyDecides DEF Decision
    <3>2. Depth(q) = 1
      BY <2>2, <2>4 DEF Depth
    <3> QED BY <2>3, <3>1, <3>2
  <2>5. CASE d # ScanRoot
    <3>1. WalkMatch(d) \in Outcomes /\ PolicyDecision(d) = DecisionOn(d, WalkMatch(d))
      BY <2>1, <2>5, WalkMatchIs
    <3>2. ~(Depth(d) >= plan.maxDepth)
      BY <2>1, <2>3, <3>1, DecisionIs
    <3>3. Depth(q) = Depth(d) + 1 /\ Depth(d) \in Int
      BY <2>2 DEF Depth
    <3> QED BY <2>3, <3>2, <3>3
  <2> QED BY <2>4, <2>5
<1>9. Classified(q) = DecisionOn(q, StandaloneMatch(q))
  BY <1>8 DEF Classified
<1>10. CASE StandaloneMatch(q) = WalkMatch(q)
  BY <1>3, <1>9, <1>10
<1>11. CASE StandaloneMatch(q) # WalkMatch(q)
  <2>1. None # "Include" /\ None # "Hidden"
    BY RuleConstants
  <2>2. override = None /\ byRules = None /\ alone = "Include"
    BY <1>3, <1>5, <1>7, <1>11
  <2>3. StandaloneMatch(q) = "Include" /\ WalkMatch(q) = Unmatched(q)
    BY <1>3, <1>7, <2>1, <2>2
  <2>4. WalkMatch(q) # "Hidden"
    BY <2>3 DEF HiddenBelowIncluded
  <2>5. WalkMatch(q) = None
    BY <2>3, <2>4 DEF Unmatched
  <2>6. DecisionOn(q, "Include") = DecisionOn(q, None)
    <3>1. "Include" \in Outcomes /\ None \in Outcomes
      BY DEF Outcomes
    <3>2. SkipKind["Include"] = None /\ SkipKind[None] = None
      BY SkipsAre
    <3>3. ("Include" = "OverrideInclude") = (None = "OverrideInclude")
      BY RuleConstants
    <3> QED BY <3>1, <3>2, <3>3, DecisionIs
  <2> QED BY <1>3, <1>9, <2>3, <2>5, <2>6
<1> QED BY <1>10, <1>11

\* What the matcher says of the directories above a file is what the walk says.
LEMMA MatchedIsPolicy ==
  ASSUME plan \in Plans, plan.unreadable = {}, NEW e \in DOMAIN Tree, ~IsDir(e), ~MatchersPart(e)
  PROVE  e \in Policy <=> Matched(e)
<1>1. e # ScanRoot /\ e \in Seq(STRING) /\ Len(e) \in Nat /\ Len(ScanRoot) \in Nat /\ Len(ScanRoot) < Len(e)
  BY EntryFacts, RootFacts DEF Dirs
<1>2. Over(e) = Between(e) \cup {ScanRoot} /\ Over(e) \subseteq Dirs
  BY <1>1, OverFacts DEF Over
<1>3. /\ ~RootIsIgnored /\ \A a \in Between(e) : ~OverriddenIgnore(a)
      /\ \A a \in Between(e) \cup {e} : ~HiddenBelowIncluded(a)
  BY DEF MatchersPart
<1>4. \A a \in Between(e) : a # ScanRoot
  BY <1>1 DEF Between
<1>5. ASSUME NEW a \in Between(e) \cup {e}, \A x \in Over(a) : PolicyDecision(x) = "Descend"
      PROVE  Classified(a) = PolicyDecision(a)
  <2>1. a \in DOMAIN Tree /\ a # ScanRoot /\ Over(a) \subseteq Over(e)
    BY <1>1, <1>2, <1>4, OverFacts DEF Dirs
  <2>2. Between(a) \subseteq Between(e)
    <3>1. Over(a) = Between(a) \cup {ScanRoot} /\ ScanRoot \notin Between(a)
      BY <1>1, <2>1 DEF Over, Between
    <3> QED BY <1>2, <2>1, <3>1
  <2>3. ~RootIsIgnored /\ (\A x \in Between(a) : ~OverriddenIgnore(x)) /\ ~HiddenBelowIncluded(a)
    BY <1>3, <2>2
  <2> QED BY <1>5, <2>1, <2>3, MatcherDecides
<1>6. e \in Policy <=> (\A a \in Over(e) : PolicyDecision(a) = "Descend") /\ PolicyDecision(e) = "Select"
  BY <1>1, PolicyIs DEF Reached
<1>7. ASSUME e \in Policy PROVE Matched(e)
  <2>1. \A a \in Between(e) : \A x \in Over(a) : x \in Over(e)
    BY <1>2, OverFacts
  <2>2. \A a \in Between(e) : Classified(a) = "Descend"
    BY <1>2, <1>5, <1>6, <1>7, <2>1
  <2>3. Classified(e) = "Select"
    BY <1>5, <1>6, <1>7
  <2> QED BY <2>2, <2>3 DEF Matched
<1>8. ASSUME Matched(e) PROVE e \in Policy
  <2>1. (\A a \in Between(e) : Classified(a) = "Descend") /\ Classified(e) = "Select"
    BY <1>8 DEF Matched
  <2>2. PolicyDecision(ScanRoot) = "Descend"
    <3>1. plan.maxDepth \in Nat
      BY DiscoveryConstants DEF PlanOK
    <3>2. ~(Depth(e) > plan.maxDepth)
      BY <2>1 DEF Classified
    <3>3. plan.maxDepth # 0
      BY <1>1, <3>1, <3>2 DEF Depth
    <3> QED BY <3>3, RootFacts, PolicyDecides DEF Decision, Dirs
  <2> DEFINE Bad == {n \in 1 .. Len(e) : n \in Len(ScanRoot) .. (Len(e) - 1) /\ PolicyDecision(Pre(e, n)) # "Descend"}
  <2>3. Over(e) = {Pre(e, n) : n \in Len(ScanRoot) .. (Len(e) - 1)}
    BY OverIs
  <2>4. Bad = {}
    <3> SUFFICES ASSUME Bad # {} PROVE FALSE
      OBVIOUS
    <3>1. PICK n \in Bad : \A x \in Bad : ~(x < n)
      <4>1. Bad \in SUBSET (1 .. Len(e))
        OBVIOUS
      <4> HIDE DEF Bad
      <4> QED BY <1>1, <4>1, LeastNumber
    <3>2. n \in 1 .. Len(e) /\ n \in Len(ScanRoot) .. (Len(e) - 1) /\ PolicyDecision(Pre(e, n)) # "Descend"
      OBVIOUS
    <3>3. PICK a : a = Pre(e, n)
      OBVIOUS
    <3>4. a \in Over(e) /\ a \in DOMAIN Tree
      BY <1>2, <2>3, <3>2, <3>3 DEF Dirs
    <3>5. a \in Between(e)
      BY <1>2, <2>2, <3>2, <3>3, <3>4
    <3>6. Len(a) = n /\ \A m \in 0 .. n : Pre(a, m) = Pre(e, m)
      <4>1. n \in 0 .. Len(e)
        BY <1>1, <3>2
      <4> QED BY <1>1, <3>3, <4>1, PreFacts
    <3>7. \A x \in Over(a) : PolicyDecision(x) = "Descend"
      <4> SUFFICES ASSUME NEW x \in Over(a) PROVE PolicyDecision(x) = "Descend"
        OBVIOUS
      <4>1. PICK m \in Len(ScanRoot) .. (n - 1) : x = Pre(a, m)
        BY <3>4, <3>6, OverIs
      <4>2. m \in 0 .. n /\ m \in Len(ScanRoot) .. (Len(e) - 1) /\ m < n
        BY <1>1, <3>2
      <4>3. x = Pre(e, m)
        BY <3>6, <4>1, <4>2
      <4>4. CASE m = 0
        <5>1. x = ScanRoot
          <6>1. Len(ScanRoot) = 0
            BY <1>1, <4>2, <4>4
          <6>2. Pre(e, Len(ScanRoot)) = ScanRoot
            BY EntryFacts
          <6> QED BY <4>3, <4>4, <6>1, <6>2
        <5> QED BY <2>2, <5>1
      <4>5. CASE m # 0
        <5>1. m \in 1 .. Len(e)
          BY <1>1, <4>2, <4>5
        <5>2. m \notin Bad
          <6> HIDE DEF Bad
          <6> QED BY <3>1, <4>2
        <5> QED BY <4>2, <4>3, <5>1, <5>2
      <4> QED BY <4>4, <4>5
    <3>8. Classified(a) = PolicyDecision(a)
      BY <1>5, <3>5, <3>7
    <3> QED BY <2>1, <3>2, <3>3, <3>5, <3>8
  <2>5. \A a \in Over(e) : PolicyDecision(a) = "Descend"
    <3> SUFFICES ASSUME NEW a \in Over(e) PROVE PolicyDecision(a) = "Descend"
      OBVIOUS
    <3>1. PICK n \in Len(ScanRoot) .. (Len(e) - 1) : a = Pre(e, n)
      BY <2>3
    <3>2. CASE n = 0
      <4>1. Len(ScanRoot) = 0
        BY <1>1, <3>2
      <4>2. Pre(e, Len(ScanRoot)) = ScanRoot
        BY EntryFacts
      <4> QED BY <2>2, <3>1, <3>2, <4>1, <4>2
    <3>3. CASE n # 0
      <4>1. n \in 1 .. Len(e)
        BY <1>1, <3>1, <3>3
      <4> QED BY <2>4, <3>1, <4>1
    <3> QED BY <3>2, <3>3
  <2>6. PolicyDecision(e) = "Select"
    BY <1>5, <2>1, <2>5
  <2> QED BY <1>6, <2>5, <2>6
<1> QED BY <1>7, <1>8


-----------------------------------------------------------------------------
(* The theorems *)

Inv == TypeInv /\ PreparedInv /\ OnceInv /\ CoverInv /\ ReportInv /\ PolicyInv

LEMMA InvInit == ASSUME Init PROVE Inv
BY InitTyped, InitOfRest DEF Inv

LEMMA InvNext == ASSUME Inv, [Next]_vars PROVE Inv'
BY StepTyped, StepPrepared, StepOnce, StepCover, StepReport, StepPolicy DEF Inv

LEMMA InvPolicy == ASSUME Inv PROVE SelectionIsThePolicy
BY DEF Inv, PolicyInv, SelectionIsThePolicy

LEMMA InvTypes == ASSUME Inv PROVE TypeOK
<1>1. TypeInv /\ PreparedInv /\ ReportInv
  BY DEF Inv
<1>2. selected \cup reported \cup chunk \cup rest \subseteq ToSet(FilesInOrder)
  <2>1. Listed \subseteq selected /\ selected \subseteq Files
    BY <1>1 DEF TypeInv, ReportInv
  <2> QED BY <2>1 DEF Listed, Files
<1>3. ASSUME NEW d \in DOMAIN prepared PROVE d = << >> \/ IsPrefix(d, ScanRoot) \/ IsDir(d)
  <2>1. CASE d \in Dirs
    BY <2>1 DEF Dirs
  <2>2. CASE d \in WaysTo
    <3>1. PICK n \in 0 .. Len(ScanRoot) : d = Pre(ScanRoot, n)
      BY <2>2 DEF WaysTo, Pre
    <3>2. ScanRoot \in Seq(STRING) /\ Len(ScanRoot) \in Nat
      BY RootFacts, EntryFacts
    <3>3. d \in Seq(STRING) /\ Len(d) = n /\ n <= Len(ScanRoot) /\ Pre(d, n) = d
      <4>1. d \in Seq(STRING) /\ Len(d) = n /\ n <= Len(ScanRoot) /\ n \in 0 .. n
        BY <3>1, <3>2, PreFacts
      <4>2. Pre(Pre(ScanRoot, n), n) = Pre(ScanRoot, n)
        BY <3>1, <3>2, <4>1, PreFacts
      <4> QED BY <3>1, <4>1, <4>2
    <3>4. IsPrefix(d, ScanRoot)
      BY <3>1, <3>2, <3>3 DEF IsPrefix, Pre
    <3> QED BY <3>4
  <2> QED BY <1>1, <2>1, <2>2 DEF PreparedInv
<1>4. /\ stage \in {"walks", "walked", "inspects", "ended"} /\ entries \in Nat
      /\ found \subseteq {e \in DOMAIN Tree : IsDir(e)}
      /\ termination \in {None, "Interrupted", "MaxEntries", "MaxTotalBytes"}
  BY <1>1 DEF TypeInv, Dirs
<1>5. chunk \cap reported = {} /\ rest \cap (chunk \cup reported) = {}
  BY <1>1 DEF ReportInv
<1> QED BY <1>2, <1>3, <1>4, <1>5 DEF TypeOK

LEMMA InvExplains == ASSUME Inv PROVE ReportIsExplained
<1>1. TypeOK
  BY InvTypes
<1>2. ASSUME Ended
      PROVE  /\ reported \subseteq selected
             /\ ~cancelled /\ ~stopped /\ ~CutsShort => reported = selected
             /\ plan.api \in {"full", "compact"} /\ WalkedAll =>
                   \A e \in DOMAIN Tree : ~IsDir(e) => Explained(e)
             /\ (\E s \in skipped : s.kind = "ScanLimit") => termination # None
             /\ termination = "Interrupted" => cancelled
             /\ {s.path : s \in skipped} \cap reported = {}
  <2>1. stage = "ended" /\ ~error /\ ReportInv /\ CoverInv
    BY <1>2 DEF Ended, Inv
  <2>2. Listed = reported
    BY <2>1 DEF ReportInv, Listed
  <2>3. /\ reported \subseteq selected
        /\ ~cancelled /\ ~stopped /\ ~CutsShort => selected \subseteq reported
        /\ Complete => selected \subseteq reported \cup SkippedPaths
        /\ (\E s \in skipped : s.kind = "ScanLimit") => termination # None
        /\ SkippedPaths \cap reported = {}
        /\ termination = "Interrupted" => cancelled
    BY <2>1, <2>2 DEF ReportInv
  <2>4. ASSUME Complete, WalkedAll, NEW e \in DOMAIN Tree, ~IsDir(e) PROVE Explained(e)
    <3>1. Known(e)
      BY <2>1, <2>4 DEF CoverInv
    <3>2. e # ScanRoot
      BY <2>4, RootFacts DEF Dirs
    <3>3. Over(e) = Between(e) \cup {ScanRoot}
      BY <3>2 DEF Over
    <3>4. e \in selected => e \in reported \/ SkipTold(e)
      BY <2>3, <2>4 DEF SkippedPaths, SkipTold
    <3> QED BY <3>1, <3>3, <3>4 DEF Known, SkipTold, Explained
  <2> QED BY <2>3, <2>4 DEF Complete, SkippedPaths
<1> QED BY <1>1, <1>2 DEF ReportIsExplained

\* A full scan that nothing cut has selected the policy's files, all of them: the
\* budget, too, would have left a reason to terminate.
UncutInv ==
    /\ plan.mode # "fallback" /\ plan.api = "full" /\ stage \in {"inspects", "ended"}
    /\ ~error /\ ~cancelled /\ termination = None
    => selected = Policy

LEMMA InitUncut == ASSUME Init PROVE UncutInv
BY DEF Init, UncutInv

LEMMA StepUncut ==
  ASSUME Inv, UncutInv, [Next]_vars
  PROVE  UncutInv'
<1>1. TypeInv /\ PreparedInv /\ OnceInv /\ ReportInv /\ PolicyInv
  BY DEF Inv
<1>2. plan' = plan
  BY <1>1, QuietSteps, ItemSteps, BatchSteps
<1>3. Policy' = Policy
  BY <1>2, PlanStays
<1>4. /\ stage \in {"walks", "walked", "inspects", "ended"} /\ cancelled \in BOOLEAN
      /\ None \notin {"Interrupted", "MaxEntries", "MaxTotalBytes"}
  BY <1>1, DiscoveryConstants DEF TypeInv
<1>5. ASSUME (plan.mode # "fallback" /\ plan.api = "full" /\ stage \in {"inspects", "ended"}
                /\ ~error /\ ~cancelled /\ termination = None)'
      PROVE  selected' = Policy
  <2>1. plan.mode # "fallback" /\ plan.api = "full"
    BY <1>2, <1>5
  <2>2. ASSUME stage \in {"inspects", "ended"}, ~error, ~cancelled, termination = None, selected' = selected
        PROVE  selected' = Policy
    BY <2>1, <2>2 DEF UncutInv
  <2>3. CASE Cancel
    BY <1>5, <2>3 DEF Cancel
  <2>4. CASE StopsBefore
    BY <1>5, <2>4 DEF StopsBefore, Fails
  <2>5. CASE HandlesItem
    <3>1. stage = "walks" /\ (Fails \/ stage' = stage)
      BY <1>1, <2>5, ItemSteps
    <3> QED BY <1>5, <3>1 DEF Fails
  <2>6. CASE TakesBatch
    <3>1. stage = "walks" /\ (error' = TRUE \/ stage' = stage)
      BY <1>1, <2>6, BatchSteps
    <3> QED BY <1>5, <3>1
  <2>7. CASE WalkEnds
    BY <1>5, <2>7 DEF WalkEnds
  <2>8. CASE Discovered
    <3>1. /\ stage = "walked" /\ UNCHANGED cancelled
          /\ selected' = selected \ Truncated(selected)
          /\ Truncated(selected) # {} => termination' # None
          /\ WalkedAll' => WalkedAll /\ ~cancelled
      BY <1>1, <2>1, <2>8, DiscoveredFacts
    <3>2. WalkedAll'
      BY <1>4, <1>5 DEF WalkedAll
    <3>3. selected = Policy
      BY <1>1, <2>1, <3>1, <3>2 DEF PolicyInv
    <3> QED BY <1>5, <3>1, <3>3
  <2>9. CASE TakesChunk
    BY <1>5, <2>2, <2>9 DEF TakesChunk, evidence
  <2>10. CASE InspectsFile
    <3>1. /\ stage = "inspects" /\ UNCHANGED <<cancelled, selected, error>>
          /\ termination' = termination \/ (cancelled /\ termination' = Terminated("Interrupted"))
      BY <1>1, <2>10, FileSteps
    <3> QED BY <1>5, <2>2, <3>1
  <2>11. CASE Reports
    BY <1>5, <2>2, <2>11, <1>1 DEF Reports, evidence, TypeInv
  <2>12. CASE UNCHANGED vars
    BY <1>5, <2>2, <2>12 DEF vars, evidence
  <2> QED BY <2>3, <2>4, <2>5, <2>6, <2>7, <2>8, <2>9, <2>10, <2>11, <2>12 DEF Next, Steps
<1> QED BY <1>3, <1>5 DEF UncutInv

LEMMA InvMatcher ==
  ASSUME Inv, UncutInv
  PROVE  MatcherAgrees
<1> SUFFICES ASSUME UncutScan, NEW e \in DOMAIN Tree, ~IsDir(e), ~MatchersPart(e)
             PROVE  e \in reported <=> Matched(e)
  BY DEF MatcherAgrees
<1>1. /\ stage = "ended" /\ ~error /\ plan.api = "full" /\ plan.mode # "fallback"
      /\ plan.unreadable = {} /\ ~cancelled /\ termination = None
  BY DEF UncutScan, Ended
<1>2. selected = Policy
  BY <1>1 DEF UncutInv
<1>3. plan \in Plans /\ ~stopped
  BY <1>1 DEF Inv, TypeInv, ReportInv
<1>4. reported = selected
  BY <1>1, <1>3, InvExplains DEF ReportIsExplained, Ended, CutsShort
<1>5. e \in Policy <=> Matched(e)
  BY <1>1, <1>3, MatchedIsPolicy
<1> QED BY <1>2, <1>4, <1>5


THEOREM SpecInv == Spec => []Inv
BY InvInit, InvNext, PTL DEF Spec

\* No engine, no order of delivery and no interruption makes a scan select a file
\* that the ignore files, the overrides and the filters leave out, and a walk that
\* was not cut selects all the others: the batches of a parallel walk and the
\* descent of the serial one ask the matcher (ignore/repository_source.rs) for the
\* same rules (scanner/entry.rs, scanner/batch.rs).
THEOREM SelectsThePolicy == Spec => []SelectionIsThePolicy
BY SpecInv, InvPolicy, PTL

\* A report (scanner/discovery.rs, compact/inspection.rs, stream.rs) holds files
\* selected and all of them, unless the scan was interrupted, stopped by its sink or
\* cut short; each file of the tree that it lacks has its reason in it; and no file
\* is both reported and skipped.
THEOREM ExplainsTheReport == Spec => []ReportIsExplained
BY SpecInv, InvExplains, PTL

\* SelectionMatcher and the update of a watched session (selection/classification.rs,
\* watch_update/mod.rs) look upwards from one path with match_rules; a scan comes down
\* to it with match_prepared_rules.  A full scan that nothing cut reports a file exactly
\* when the matcher selects it, whatever the tree, the rule files and the overrides:
\* the three cases named in MatchersPart are the only ones where they part.
THEOREM TheMatcherAgrees == Spec => []MatcherAgrees
<1>1. Init => Inv /\ UncutInv
  BY InvInit, InitUncut
<1>2. (Inv /\ UncutInv) /\ [Next]_vars => (Inv /\ UncutInv)'
  BY InvNext, StepUncut
<1>3. Inv /\ UncutInv => MatcherAgrees
  BY InvMatcher
<1> QED BY <1>1, <1>2, <1>3, PTL DEF Spec
=============================================================================
