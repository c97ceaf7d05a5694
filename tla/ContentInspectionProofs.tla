----------------------- MODULE ContentInspectionProofs -----------------------
(***************************************************************************)
(* Proofs about the batch inspection, for every set of files, every        *)
(* sequence of scan options, any number of scans and any number of writes: *)
(* the evidence a report or a cache holds is of the version it names, no   *)
(* file is called changed that was not, and a report accounts for every    *)
(* selected file once and for the reason it stopped, if it did.            *)
(***************************************************************************)
EXTENDS ContentInspection, SequenceFacts, FiniteSetTheorems, TLAPS

-----------------------------------------------------------------------------
(* Versions and the history of the files *)

Full  == [modified : Nat, changed : Nat, identity : Nat]
Told  == [modified : Nat, changed : Nat \cup {None}, identity : Nat \cup {None}]
Inode == [blocks : Seq(Blocks), modified : Nat, changed : Nat]
HistoryRecord == [path : Paths, version : Full, blocks : Seq(Blocks)]

\* The time of the last write, as far as a version tells it.
Stamp(v) == IF platform = "unix" THEN v.changed ELSE v.modified

\* A version as a handle or the walk obtains it: it tells its stamp.
Tells(v) == v \in Told /\ (platform = "unix" => v.changed \in Nat)

\* What a handle tells of a full version.
ToldOf(v) ==
    [ v EXCEPT !.changed  = IF platform = "unix" THEN @ ELSE None,
               !.identity = IF platform = "other" THEN None ELSE @ ]

\* The record of the file a path names now.
Now(p) == [path |-> p, version |-> Version(at[p], inodes[at[p]]), blocks |-> inodes[at[p]].blocks]

DiskType ==
    /\ platform \in {"unix", "windows", "other"}
    /\ inodes \in Seq(Inode)
    /\ at \in [Paths -> Nat \cup {None}]
    /\ \A p \in Paths : at[p] # None => at[p] \in DOMAIN inodes
    /\ clock \in Nat
    /\ history \in SUBSET HistoryRecord

TimesOK ==
    /\ \A h \in history : /\ h.version.changed <= clock
                          /\ h.version.identity \in DOMAIN inodes
                          /\ platform # "unix" => h.version.modified = h.version.changed

\* A file is written under one path, and a path has one content at a time.
OneOwner ==
    \A g, h \in history : g.version.identity = h.version.identity => g.path = h.path
OneVersion ==
    \A g, h \in history : g.path = h.path /\ g.version.changed = h.version.changed => g = h

Recorded ==
    /\ \A i \in DOMAIN inodes : \E h \in history : /\ h.version = Version(i, inodes[i])
                                                   /\ h.blocks = inodes[i].blocks
    /\ \A p \in Paths : at[p] # None => Now(p) \in history

DiskInv == DiskType /\ TimesOK /\ OneOwner /\ OneVersion /\ Recorded

\* What any step leaves of the files: they grow older, and what is written is
\* younger than everything before it.
Grows ==
    /\ platform' = platform /\ plan' = plan /\ scan' = scan /\ input' = input
    /\ clock' \in Nat /\ clock <= clock'
    /\ history \subseteq history'
    /\ \A h \in history' : h \in history \/ h.version.changed > clock
    /\ \A i \in DOMAIN inodes : /\ i \in DOMAIN inodes'
                                /\ inodes'[i] = inodes[i] \/ inodes'[i].changed > clock
    /\ \A p \in Paths :
        /\ at[p] = None => at'[p] = None
        /\ at'[p] = at[p] \/ at'[p] = None \/ inodes'[at'[p]].changed > clock

LEMMA NoneIsNoTime == None \notin Nat
BY InspectionConstants

LEMMA FileType ==
  ASSUME DiskInv, NEW i \in DOMAIN inodes
  PROVE  /\ i \in Nat /\ inodes[i] \in Inode
         /\ Version(i, inodes[i]) \in Full
         /\ Snapshot(i) = ToldOf(Version(i, inodes[i]))
         /\ inodes[i].changed <= clock
         /\ platform # "unix" => inodes[i].modified = inodes[i].changed
<1>1. i \in Nat /\ inodes[i] \in Inode
  BY DEF DiskInv, DiskType
<1>2. Version(i, inodes[i]) \in Full
  BY <1>1 DEF Version, Full, Inode
<1>3. Snapshot(i) = ToldOf(Version(i, inodes[i]))
  BY DEF Snapshot, ToldOf
<1>4. PICK h \in history : h.version = Version(i, inodes[i])
  BY DEF DiskInv, Recorded
<1>5. h.version.changed = inodes[i].changed /\ h.version.modified = inodes[i].modified
  BY <1>4 DEF Version
<1> QED BY <1>1, <1>2, <1>3, <1>5 DEF DiskInv, TimesOK

LEMMA RecordType ==
  ASSUME DiskInv, NEW h \in history
  PROVE  /\ h.path \in Paths /\ h.version \in Full /\ h.blocks \in Seq(Blocks)
         /\ h.version.changed \in Nat /\ h.version.modified \in Nat /\ h.version.identity \in Nat
         /\ h.version.changed <= clock /\ h.version.identity \in DOMAIN inodes
         /\ platform # "unix" => h.version.modified = h.version.changed
<1>1. h \in HistoryRecord
  BY DEF DiskInv, DiskType
<1>2. h.path \in Paths /\ h.version \in Full /\ h.blocks \in Seq(Blocks)
  BY <1>1 DEF HistoryRecord
<1> QED BY <1>2 DEF DiskInv, TimesOK, Full

\* What a handle tells of a full version.
LEMMA ToldFacts ==
  ASSUME NEW v \in Full, platform # "unix" => v.modified = v.changed
  PROVE  /\ Tells(ToldOf(v)) /\ Stamp(ToldOf(v)) = v.changed
         /\ ToldOf(v).modified = v.modified
         /\ Reusable(v, ToldOf(v)) /\ Reusable(ToldOf(v), v) /\ Reusable(ToldOf(v), ToldOf(v))
         /\ \A w : Reusable(v, w) => Reusable(w, ToldOf(v)) /\ Reusable(ToldOf(v), w)
<1>1. /\ ToldOf(v) \in Told
      /\ ToldOf(v).modified = v.modified
      /\ ToldOf(v).changed = IF platform = "unix" THEN v.changed ELSE None
      /\ ToldOf(v).identity = IF platform = "other" THEN None ELSE v.identity
  BY DEF ToldOf, Full, Told
<1>2. v.changed \in Nat /\ v.modified \in Nat /\ v.identity \in Nat
  BY DEF Full
<1>3. Tells(ToldOf(v)) /\ Stamp(ToldOf(v)) = v.changed
  BY <1>1, <1>2 DEF Tells, Stamp
<1> QED BY <1>1, <1>2, <1>3 DEF Reusable, OptionalEqual

\* Versions that may stand for each other have the same stamp.
LEMMA SameStamp ==
  ASSUME NEW v, NEW w, Tells(v), Tells(w), Reusable(v, w)
  PROVE  Stamp(v) = Stamp(w) /\ Stamp(v) \in Nat
BY NoneIsNoTime DEF Tells, Told, Stamp, Reusable, OptionalEqual

LEMMA RecordStamp ==
  ASSUME DiskInv, NEW h \in history
  PROVE  Tells(h.version) /\ Stamp(h.version) = h.version.changed
BY RecordType DEF Tells, Told, Full, Stamp

\* A record that may stand for a version has its stamp.
LEMMA ReusableStamp ==
  ASSUME DiskInv, NEW h \in history, NEW v, Tells(v), Reusable(h.version, v) \/ Reusable(v, h.version)
  PROVE  Stamp(v) = h.version.changed
BY RecordStamp, SameStamp

\* The stamp of the file under a path decides which record it is.
LEMMA NowByStamp ==
  ASSUME DiskInv, NEW h \in history, at[h.path] # None,
         inodes[at[h.path]].changed = h.version.changed
  PROVE  /\ h.version = Version(at[h.path], inodes[at[h.path]])
         /\ h.blocks = inodes[at[h.path]].blocks
         /\ h.version.identity = at[h.path]
         /\ at[h.path] \in DOMAIN inodes
<1>1. h.path \in Paths
  BY RecordType
<1>2. Now(h.path) \in history
  BY <1>1 DEF DiskInv, Recorded
<1>3. Now(h.path).path = h.path /\ Now(h.path).version.changed = h.version.changed
  BY DEF Now, Version
<1>4. Now(h.path) = h
  BY <1>2, <1>3 DEF DiskInv, OneVersion
<1>5. at[h.path] \in DOMAIN inodes
  BY <1>1 DEF DiskInv, DiskType
<1> QED BY <1>4, <1>5 DEF Now, Version

\* So does the stamp of a file, for the records of the same file.
LEMMA FileByStamp ==
  ASSUME DiskInv, NEW h \in history, NEW g \in history,
         g.path = h.path,
         inodes[h.version.identity].changed = g.version.changed
  PROVE  /\ g.version = Version(h.version.identity, inodes[h.version.identity])
         /\ g.blocks = inodes[h.version.identity].blocks
<1> DEFINE i == h.version.identity
<1>1. i \in DOMAIN inodes
  BY RecordType
<1>2. PICK r \in history : r.version = Version(i, inodes[i]) /\ r.blocks = inodes[i].blocks
  BY <1>1 DEF DiskInv, Recorded
<1>3. r.version.identity = i /\ r.version.changed = inodes[i].changed
  BY <1>2 DEF Version
<1>4. r.path = h.path
  BY <1>3 DEF DiskInv, OneOwner
<1>5. r = g
  BY <1>3, <1>4 DEF DiskInv, OneVersion
<1> QED BY <1>2, <1>5

-----------------------------------------------------------------------------
(* The writers keep the history *)

LEMMA InitDisk == Init => DiskInv
<1> SUFFICES ASSUME Init PROVE DiskInv
  OBVIOUS
<1>1. Files \in Seq(Paths) /\ Original \in [Paths -> Seq(Blocks)] /\ \A i, j \in DOMAIN Files : Files[i] = Files[j] => i = j
  BY InspectionConstants
<1>2. \A i \in DOMAIN Files : Files[i] \in Paths
  BY <1>1
<1>3. \A p \in Paths : at[p] \in DOMAIN Files /\ Files[at[p]] = p
  <2>1. \A p \in Paths : \E i \in DOMAIN Files : Files[i] = p
    BY DEF Paths, ToSet
  <2>2. at = [p \in Paths |-> CHOOSE i \in DOMAIN Files : Files[i] = p]
    BY DEF Init, Paths
  <2> QED BY <2>1, <2>2
<1>4. DOMAIN inodes = DOMAIN Files /\ \A i \in DOMAIN Files : inodes[i] = [blocks |-> Original[Files[i]], modified |-> 0, changed |-> 0]
  BY DEF Init
<1>5. \A i \in DOMAIN inodes : inodes[i] \in Inode
  BY <1>1, <1>2, <1>4 DEF Inode
<1>6. inodes \in Seq(Inode)
  <2>1. inodes = [i \in 1 .. Len(Files) |-> inodes[i]] /\ Len(Files) \in Nat /\ DOMAIN inodes = 1 .. Len(Files)
    BY <1>1 DEF Init
  <2>2. inodes \in [1 .. Len(Files) -> Inode]
    BY <2>1, <1>5
  <2> QED BY <2>1, <2>2
<1>7. clock = 0 /\ platform \in {"unix", "windows", "other"}
  BY InspectionConstants DEF Init
<1>8. DOMAIN Files \subseteq Nat
  BY <1>1
<1>9. at \in [Paths -> Nat \cup {None}]
  BY <1>3, <1>8 DEF Init, Paths
<1>10. history = {[path |-> Files[i], version |-> Version(i, inodes[i]), blocks |-> inodes[i].blocks] : i \in DOMAIN Files}
  BY DEF Init
<1>11. \A h \in history : \E i \in DOMAIN Files :
          /\ h = [path |-> Files[i], version |-> Version(i, inodes[i]), blocks |-> inodes[i].blocks]
          /\ h.path = Files[i] /\ h.version.identity = i /\ h.version.changed = 0 /\ h.version.modified = 0
  BY <1>4, <1>10 DEF Version
<1>12. history \in SUBSET HistoryRecord
  BY <1>2, <1>5, <1>8, <1>4, <1>10 DEF HistoryRecord, Full, Version, Inode
<1>13. DiskType
  BY <1>3, <1>4, <1>6, <1>7, <1>9, <1>12 DEF DiskType
<1>14. TimesOK /\ OneOwner
  BY <1>4, <1>7, <1>11 DEF TimesOK, OneOwner
<1>15. OneVersion
  BY <1>1, <1>11 DEF OneVersion
<1>16. Recorded
  <2>1. \A i \in DOMAIN inodes : \E h \in history : h.version = Version(i, inodes[i]) /\ h.blocks = inodes[i].blocks
    <3> SUFFICES ASSUME NEW i \in DOMAIN Files
                 PROVE  \E h \in history : h.version = Version(i, inodes[i]) /\ h.blocks = inodes[i].blocks
      BY <1>4
    <3> DEFINE r == [path |-> Files[i], version |-> Version(i, inodes[i]), blocks |-> inodes[i].blocks]
    <3>1. r \in history
      BY <1>10
    <3> QED BY <3>1
  <2>2. \A p \in Paths : Now(p) \in history
    BY <1>3, <1>10 DEF Now
  <2> QED BY <2>1, <2>2 DEF Recorded
<1> QED BY <1>13, <1>14, <1>15, <1>16 DEF DiskInv

\* A write: the file i, now under p, is what it left, younger than all before.
LEMMA Writing ==
  ASSUME DiskInv, NEW p \in Paths, NEW i \in Nat, NEW f \in Inode, Records(p, i, f),
         f.changed = clock + 1, platform # "unix" => f.modified = clock + 1,
         inodes' \in Seq(Inode), i \in DOMAIN inodes', inodes'[i] = f,
         \A j \in DOMAIN inodes : j \in DOMAIN inodes' /\ (j # i => inodes'[j] = inodes[j]),
         \A j \in DOMAIN inodes' : j \in DOMAIN inodes \/ j = i,
         \A h \in history : h.version.identity = i => h.path = p,
         at[p] # None, at' \in [Paths -> Nat \cup {None}], at'[p] = i,
         \A q \in Paths : q # p => at'[q] = at[q]
  PROVE  DiskInv' /\ Grows
<1> DEFINE new == [path |-> p, version |-> Version(i, f), blocks |-> f.blocks]
<1>1. /\ platform' = platform /\ clock' = clock + 1 /\ history' = history \cup {new}
      /\ plan' = plan /\ scan' = scan /\ input' = input
  BY DEF Records, call
<1>2. clock \in Nat
  BY DEF DiskInv, DiskType
<1>3. /\ new \in HistoryRecord /\ new.path = p /\ new.version.identity = i /\ new.blocks = f.blocks
      /\ new.version = Version(i, f) /\ new.version.changed = clock + 1
      /\ new.version.modified = f.modified
  BY DEF HistoryRecord, Full, Version, Inode
<1> HIDE DEF new
<1>4. \A h \in history : /\ h.version.changed \in Nat /\ h.version.changed <= clock
                         /\ h.version.identity \in DOMAIN inodes
                         /\ platform # "unix" => h.version.modified = h.version.changed
  BY RecordType
<1>5. DiskType'
  <2>1. history' \in SUBSET HistoryRecord
    BY <1>1, <1>3 DEF DiskInv, DiskType
  <2>2. \A q \in Paths : at'[q] # None => at'[q] \in DOMAIN inodes'
    BY DEF DiskInv, DiskType
  <2>3. platform' \in {"unix", "windows", "other"} /\ clock' \in Nat
    BY <1>1, <1>2 DEF DiskInv, DiskType
  <2> QED BY <2>1, <2>2, <2>3 DEF DiskType
<1>6. TimesOK'
  <2> SUFFICES ASSUME NEW h \in history'
               PROVE  /\ h.version.changed <= clock'
                      /\ h.version.identity \in DOMAIN inodes'
                      /\ platform' # "unix" => h.version.modified = h.version.changed
    BY DEF TimesOK
  <2>1. CASE h \in history
    <3>1. /\ h.version.changed \in Nat /\ h.version.changed <= clock
          /\ h.version.identity \in DOMAIN inodes
          /\ platform # "unix" => h.version.modified = h.version.changed
      BY <2>1, <1>4, Zenon
    <3>2. h.version.identity \in DOMAIN inodes'
      BY <3>1, Zenon
    <3>3. h.version.changed <= clock'
      BY <3>1, <1>1, <1>2
    <3> QED BY <3>1, <3>2, <3>3, <1>1, Zenon
  <2>2. CASE h = new
    BY <2>2, <1>1, <1>2, <1>3
  <2>3. h \in history \/ h = new
    BY <1>1, Zenon
  <2> QED BY <2>1, <2>2, <2>3
<1>7. OneOwner'
  <2> SUFFICES ASSUME NEW g \in history', NEW h \in history', g.version.identity = h.version.identity
               PROVE  g.path = h.path
    BY DEF OneOwner
  <2>1. CASE g \in history /\ h \in history
    BY <2>1 DEF DiskInv, OneOwner
  <2>2. CASE g = new \/ h = new
    BY <2>2, <1>1, <1>3
  <2> QED BY <2>1, <2>2, <1>1
<1>8. OneVersion'
  <2> SUFFICES ASSUME NEW g \in history', NEW h \in history', g.path = h.path,
                      g.version.changed = h.version.changed
               PROVE  g = h
    BY DEF OneVersion
  <2>1. CASE g \in history /\ h \in history
    BY <2>1 DEF DiskInv, OneVersion
  <2>2. ASSUME NEW r \in history PROVE r.version.changed # new.version.changed
    <3>1. r.version.changed \in Nat /\ r.version.changed <= clock /\ new.version.changed = clock + 1
      BY <1>3, <1>4, Zenon
    <3> QED BY <3>1, <1>2
  <2>3. (g \in history \/ g = new) /\ (h \in history \/ h = new)
    BY <1>1, Zenon
  <2> QED BY <2>1, <2>2, <2>3, Zenon
<1>9. Recorded'
  <2>1. ASSUME NEW j \in DOMAIN inodes'
        PROVE  \E h \in history' : h.version = Version(j, inodes'[j]) /\ h.blocks = inodes'[j].blocks
    <3>1. CASE j = i
      BY <3>1, <1>1, <1>3
    <3>2. CASE j # i
      <4>1. j \in DOMAIN inodes /\ inodes'[j] = inodes[j]
        BY <3>2
      <4>2. PICK h \in history : h.version = Version(j, inodes[j]) /\ h.blocks = inodes[j].blocks
        BY <4>1 DEF DiskInv, Recorded
      <4> QED BY <4>1, <4>2, <1>1
    <3> QED BY <3>1, <3>2
  <2>2. ASSUME NEW q \in Paths, at'[q] # None
        PROVE  [path |-> q, version |-> Version(at'[q], inodes'[at'[q]]), blocks |-> inodes'[at'[q]].blocks] \in history'
    <3>1. CASE q = p
      BY <3>1, <1>1 DEF new
    <3>2. CASE q # p
      <4>1. at'[q] = at[q] /\ Now(q) \in history
        BY <3>2, <2>2 DEF DiskInv, Recorded
      <4>2. Now(q).version.identity = at[q] /\ Now(q).path = q
        BY DEF Now, Version
      <4>3. at[q] # i /\ at[q] \in DOMAIN inodes
        BY <3>2, <4>1, <4>2, <2>2 DEF DiskInv, DiskType
      <4> QED BY <4>1, <4>3, <1>1 DEF Now
    <3> QED BY <3>1, <3>2
  <2>3. \A q \in Paths : at'[q] # None => Now(q)' \in history'
    BY <2>2 DEF Now, Version
  <2>4. \A j \in DOMAIN inodes' : \E h \in history' : h.version = Version(j, inodes'[j]) /\ h.blocks = inodes'[j].blocks
    BY <2>1
  <2> QED BY <2>3, <2>4 DEF Recorded, Version
<1>10. Grows
  <2>1. clock' \in Nat /\ clock <= clock' /\ history \subseteq history'
    BY <1>1, <1>2
  <2>2. \A h \in history' : h \in history \/ h.version.changed > clock
    BY <1>1, <1>2, <1>3
  <2>3. \A j \in DOMAIN inodes : j \in DOMAIN inodes' /\ (inodes'[j] = inodes[j] \/ inodes'[j].changed > clock)
    BY <1>2
  <2>4. \A q \in Paths : /\ at[q] = None => at'[q] = None
                         /\ at'[q] = at[q] \/ at'[q] = None \/ inodes'[at'[q]].changed > clock
    BY <1>2
  <2>5. platform' = platform /\ plan' = plan /\ scan' = scan /\ input' = input
    BY <1>1, Zenon
  <2> QED BY <2>1, <2>2, <2>3, <2>4, <2>5, Zenon DEF Grows
<1> QED BY <1>5, <1>6, <1>7, <1>8, <1>9, <1>10 DEF DiskInv

\* A step that leaves the files alone.
LEMMA Still ==
  ASSUME DiskInv, platform' = platform, disk' = disk, plan' = plan, scan' = scan, input' = input
  PROVE  DiskInv' /\ Grows
<1>1. inodes' = inodes /\ at' = at /\ clock' = clock /\ history' = history
  BY DEF disk
<1>2. DiskInv'
  BY <1>1 DEF DiskInv, DiskType, TimesOK, OneOwner, OneVersion, Recorded, Now, Version
<1>3. clock \in Nat
  BY DEF DiskInv, DiskType
<1> QED BY <1>1, <1>2, <1>3 DEF Grows

LEMMA WrittenType ==
  ASSUME DiskInv, NEW p \in Paths, NEW blocks \in Contents, NEW kept \in BOOLEAN, MayWrite(p, kept)
  PROVE  LET f == Written(at[p], blocks, kept)
         IN  /\ f \in Inode /\ f.changed = clock + 1 /\ f.blocks = blocks
             /\ platform # "unix" => f.modified = clock + 1
             /\ at[p] # None /\ at[p] \in DOMAIN inodes /\ at[p] \in Nat
<1>1. at[p] # None /\ at[p] \in DOMAIN inodes /\ (kept => platform = "unix")
  BY DEF MayWrite, DiskInv, DiskType
<1>2. inodes[at[p]].modified \in Nat /\ at[p] \in Nat
  BY <1>1, FileType DEF Inode
<1>3. blocks \in Seq(Blocks) /\ clock \in Nat
  BY InspectionConstants DEF DiskInv, DiskType
<1> QED BY <1>1, <1>2, <1>3 DEF Written, Inode

LEMMA WritesKeep == ASSUME DiskInv, Writes PROVE DiskInv' /\ Grows
<1>1. PICK p \in Writable :
        \/ Removes(p)
        \/ \E blocks \in Contents, kept \in BOOLEAN : WritesInPlace(p, blocks, kept) \/ Replaces(p, blocks, kept)
  BY DEF Writes
<1>2. p \in Paths
  BY InspectionConstants
<1>3. inodes \in Seq(Inode) /\ clock \in Nat /\ at \in [Paths -> Nat \cup {None}]
  BY DEF DiskInv, DiskType
<1>4. CASE Removes(p)
  <2>1. /\ at' = [at EXCEPT ![p] = None] /\ clock' = clock + 1 /\ inodes' = inodes
        /\ history' = history /\ platform' = platform
        /\ plan' = plan /\ scan' = scan /\ input' = input
    BY <1>4 DEF Removes, call
  <2>2. \A q \in Paths : at'[q] = None \/ at'[q] = at[q]
    BY <1>3, <2>1
  <2>3. at' \in [Paths -> Nat \cup {None}]
    BY <1>3, <2>1
  <2>4. DiskType'
    BY <1>3, <2>1, <2>2, <2>3 DEF DiskInv, DiskType
  <2>5. TimesOK'
    BY <1>3, <2>1, RecordType DEF TimesOK
  <2>6. OneOwner' /\ OneVersion'
    BY <2>1 DEF DiskInv, OneOwner, OneVersion
  <2>7. Recorded'
    BY <2>1, <2>2 DEF DiskInv, Recorded, Now, Version
  <2>8. Grows
    BY <1>3, <2>1, <2>2 DEF Grows
  <2> QED BY <2>4, <2>5, <2>6, <2>7, <2>8 DEF DiskInv
<1>5. ASSUME NEW blocks \in Contents, NEW kept \in BOOLEAN, WritesInPlace(p, blocks, kept)
      PROVE  DiskInv' /\ Grows
  <2> DEFINE f == Written(at[p], blocks, kept)
             i == at[p]
  <2>1. /\ MayWrite(p, kept) /\ inodes' = [inodes EXCEPT ![i] = f] /\ Records(p, i, f) /\ at' = at
    BY <1>5 DEF WritesInPlace
  <2>2. /\ f \in Inode /\ f.changed = clock + 1 /\ (platform # "unix" => f.modified = clock + 1)
        /\ i # None /\ i \in DOMAIN inodes /\ i \in Nat
    BY <1>2, <2>1, WrittenType
  <2>3. \A h \in history : h.version.identity = i => h.path = p
    <3>1. Now(p) \in history /\ Now(p).path = p /\ Now(p).version.identity = i
      BY <1>2, <2>2 DEF DiskInv, Recorded, Now, Version
    <3> QED BY <3>1 DEF DiskInv, OneOwner
  <2> HIDE DEF f, i
  <2>4. /\ inodes' \in Seq(Inode) /\ DOMAIN inodes' = DOMAIN inodes /\ inodes'[i] = f
        /\ \A j \in DOMAIN inodes : j # i => inodes'[j] = inodes[j]
    BY <1>3, <2>1, <2>2
  <2>5. at'[p] = i /\ at[p] # None
    BY <2>1, <2>2 DEF i
  <2> QED BY <1>2, <1>3, <2>1, <2>2, <2>3, <2>4, <2>5, Writing
<1>6. ASSUME NEW blocks \in Contents, NEW kept \in BOOLEAN, Replaces(p, blocks, kept)
      PROVE  DiskInv' /\ Grows
  <2> DEFINE f == Written(at[p], blocks, kept)
             i == Len(inodes) + 1
  <2>1. /\ MayWrite(p, kept) /\ inodes' = Append(inodes, f) /\ Records(p, i, f)
        /\ at' = [at EXCEPT ![p] = i]
    BY <1>6 DEF Replaces
  <2>2. /\ f \in Inode /\ f.changed = clock + 1 /\ (platform # "unix" => f.modified = clock + 1)
        /\ at[p] # None
    BY <1>2, <2>1, WrittenType
  <2>3. i \in Nat /\ i \notin DOMAIN inodes
    BY <1>3
  <2>4. \A h \in history : h.version.identity = i => h.path = p
    BY <2>3, RecordType
  <2> HIDE DEF f
  <2>5. /\ inodes' \in Seq(Inode) /\ i \in DOMAIN inodes' /\ inodes'[i] = f
        /\ \A j \in DOMAIN inodes : j \in DOMAIN inodes' /\ (j # i => inodes'[j] = inodes[j])
        /\ \A j \in DOMAIN inodes' : j \in DOMAIN inodes \/ j = i
    BY <1>3, <2>1, <2>2
  <2>6. at' \in [Paths -> Nat \cup {None}] /\ at'[p] = i /\ \A q \in Paths : q # p => at'[q] = at[q]
    BY <1>2, <1>3, <2>1, <2>3
  <2> HIDE DEF i
  <2> QED BY <1>2, <2>1, <2>2, <2>3, <2>4, <2>5, <2>6, Writing
<1> QED BY <1>1, <1>4, <1>5, <1>6

-----------------------------------------------------------------------------
(* Files, evidence and workers *)

FileRec ==
    [path : Paths, bytes : Nat, version : Told, hash : Seq(Blocks) \cup {None},
     binary_checked : BOOLEAN, proven : BOOLEAN]

\* A file as it was at some time, which the walk of this scan saw.
FileOK(f) ==
    /\ f \in FileRec /\ Tells(f.version) /\ f.bytes <= MaxBlocks
    /\ \E h \in history : h.path = f.path /\ Reusable(h.version, f.version) /\ Len(h.blocks) = f.bytes
    /\ \E k \in DOMAIN input : input[k].path = f.path /\ Stamp(input[k].version) = Stamp(f.version)

\* What evidence says of a record.
Shows(h, e) ==
    /\ e.hash # None => h.blocks = e.hash
    /\ e.binary_checked => \A k \in DOMAIN h.blocks : h.blocks[k] = Nul => e.hash = None /\ k > Window

Sound(e) == e \in FileRec /\ Tells(e.version) /\ (e.proven => Evidence(e))

Skip == [path : Paths, kind : {"Binary", "ScanLimit", "IoError", "Concurrent"}]
OutRec ==
    [files : Seq(FileRec), skipped : Seq(Skip), warnings : Seq(Skip),
     termination : {None, "Cancelled", "Timeout"}, error : Skip \cup {None}]
WorkerRec ==
    [pc : {"takes", "publishes", "opens", "reads", "rechecks", "ended"},
     todo : Seq(FileRec), mode : {None, "validate", "inspect"}, inode : Nat \cup {None},
     before : Told \cup {None}, read : Seq(Blocks), own : {None, "Cancelled", "Timeout"}]

\* What has been read is the beginning of the file, while nobody wrote to it.
ReadSoFar(w) ==
    LET blocks == inodes[w.inode].blocks
    IN  /\ Len(w.read) <= Len(blocks)
        /\ \A k \in DOMAIN w.read : /\ w.read[k] = blocks[k]
                                    /\ w.mode = "inspect" /\ options.detect => w.read[k] # Nul
        /\ w.pc = "rechecks" =>
              \/ Len(w.read) = Len(blocks)
              \/ w.mode = "inspect" /\ ~options.hash /\ Len(w.read) >= Window

Reading(w) ==
    /\ w.inode \in DOMAIN inodes
    /\ Tells(w.before) /\ Reusable(w.todo[1].version, w.before)
    /\ \E h \in history : /\ h.path = w.todo[1].path /\ h.version.identity = w.inode
                          /\ w.before = ToldOf(h.version)
    /\ inodes[w.inode].changed = Stamp(w.before) => ReadSoFar(w)

WorkerOK(w) ==
    /\ w \in WorkerRec
    /\ \A k \in DOMAIN w.todo : FileOK(w.todo[k])
    /\ w.pc \in {"takes", "publishes"} => w.mode = None
    /\ w.pc \in {"publishes", "opens", "reads", "rechecks"} => w.todo # <<>>
    /\ w.pc \in {"opens", "reads", "rechecks"} => w.mode \in {"validate", "inspect"}
    /\ w.pc \in {"reads", "rechecks"} => Reading(w)

\* A path of the walk whose file changed since.
Warned(p) == (\E k \in DOMAIN input : input[k].path = p) /\ ChangedSince(p)

OutOK(o) ==
    /\ o \in OutRec
    /\ \A k \in DOMAIN o.files : Sound(o.files[k])
    /\ o.error # None => Warned(o.error.path)
    /\ \A k \in DOMAIN o.warnings : Warned(o.warnings[k].path)

InputOK ==
    /\ input \in Seq(FileRec)
    /\ \A k \in DOMAIN input : FileOK(input[k])
    /\ \A k, l \in DOMAIN input : input[k].path = input[l].path => k = l

CallOK ==
    /\ plan \in Seq(Option) /\ scan \in Nat
    /\ phase \in {"idle", "inspecting"}
    /\ phase = "inspecting" => scan \in DOMAIN plan
    /\ stop \in {None, "Cancelled", "Timeout"}
    /\ DOMAIN out = DOMAIN worker
    /\ phase = "idle" => DOMAIN worker = {}

WorkersOK == \A c \in Chunks : WorkerOK(worker[c]) /\ OutOK(out[c])
CacheOK   == \A e \in cache : Sound(e)

IInv == DiskInv /\ InputOK /\ CallOK /\ WorkersOK /\ CacheOK

LEMMA EvidenceIs ==
  ASSUME NEW e
  PROVE  Evidence(e) <=>
            /\ \E h \in history : h.path = e.path /\ Reusable(h.version, e.version)
            /\ \A h \in history : h.path = e.path /\ Reusable(h.version, e.version) => Shows(h, e)
BY DEF Evidence, Shows

LEMMA StampOfReusable ==
  ASSUME NEW v \in Full, platform # "unix" => v.modified = v.changed,
         NEW w, Tells(w), Reusable(v, w) \/ Reusable(w, v)
  PROVE  Stamp(w) = v.changed
<1>1. v.changed \in Nat /\ v.modified \in Nat
  BY DEF Full
<1>2. Tells(v) /\ Stamp(v) = v.changed
  BY <1>1 DEF Tells, Stamp, Full, Told
<1> QED BY <1>2, SameStamp

\* One record that may stand for the version and bears the evidence out is enough.
LEMMA EvidenceOfOne ==
  ASSUME DiskInv, NEW e, Tells(e.version), NEW h \in history,
         h.path = e.path, Reusable(h.version, e.version), Shows(h, e)
  PROVE  Evidence(e)
<1>1. ASSUME NEW g \in history, g.path = e.path, Reusable(g.version, e.version) PROVE g = h
  <2>1. g.version.changed = h.version.changed
    BY <1>1, ReusableStamp
  <2> QED BY <1>1, <2>1 DEF DiskInv, OneVersion
<1> QED BY <1>1, EvidenceIs

\* Evidence is of every record with its path and stamp.
LEMMA OneOfEvidence ==
  ASSUME DiskInv, NEW e, Tells(e.version), Evidence(e), NEW h \in history,
         h.path = e.path, h.version.changed = Stamp(e.version)
  PROVE  Shows(h, e)
<1>1. PICK g \in history : g.path = e.path /\ Reusable(g.version, e.version) /\ Shows(g, e)
  BY EvidenceIs
<1>2. g.version.changed = h.version.changed
  BY <1>1, ReusableStamp
<1>3. g = h
  BY <1>1, <1>2 DEF DiskInv, OneVersion
<1> QED BY <1>1, <1>3

\* The evidence of a version holds for a later version of the same file that
\* has the same stamp.
LEMMA EvidenceMoves ==
  ASSUME DiskInv, NEW e, NEW f, Tells(e.version), Tells(f.version), Evidence(e),
         f.path = e.path, Stamp(f.version) = Stamp(e.version),
         f.hash = e.hash, f.binary_checked = e.binary_checked,
         \E h \in history : h.path = f.path /\ Reusable(h.version, f.version)
  PROVE  Evidence(f)
<1>1. PICK h \in history : h.path = f.path /\ Reusable(h.version, f.version)
  OBVIOUS
<1>2. h.version.changed = Stamp(e.version)
  BY <1>1, ReusableStamp
<1>3. Shows(h, e)
  BY <1>1, <1>2, OneOfEvidence
<1>4. Shows(h, f)
  BY <1>3 DEF Shows
<1> QED BY <1>1, <1>4, EvidenceOfOne

-----------------------------------------------------------------------------
(* What lasts while the files change *)

LEMMA TellsLasts ==
  ASSUME Grows, NEW v PROVE Tells(v)' = Tells(v) /\ Stamp(v)' = Stamp(v) /\ ToldOf(v)' = ToldOf(v)
<1>1. platform' = platform
  BY DEF Grows
<1> QED BY <1>1 DEF Tells, Stamp, ToldOf

LEMMA LaterRecord ==
  ASSUME DiskInv', Grows, NEW h \in history'
  PROVE  h.version \in Full /\ (platform # "unix" => h.version.modified = h.version.changed)
<1>1. h \in HistoryRecord /\ platform' = platform
  BY DEF DiskInv, DiskType, Grows
<1> QED BY <1>1 DEF DiskInv, TimesOK, HistoryRecord

LEMMA FileLasts ==
  ASSUME Grows, NEW f, FileOK(f) PROVE FileOK(f)'
<1>1. history \subseteq history' /\ input' = input /\ platform' = platform
  BY DEF Grows
<1>2. PICK h \in history : h.path = f.path /\ Reusable(h.version, f.version) /\ Len(h.blocks) = f.bytes
  BY DEF FileOK
<1>3. \E g \in history' : g.path = f.path /\ Reusable(g.version, f.version) /\ Len(g.blocks) = f.bytes
  BY <1>1, <1>2
<1>4. PICK k \in DOMAIN input : input[k].path = f.path /\ Stamp(input[k].version) = Stamp(f.version)
  BY DEF FileOK
<1>5. (\E l \in DOMAIN input : input[l].path = f.path /\ Stamp(input[l].version) = Stamp(f.version))'
  BY <1>1, <1>4 DEF Stamp
<1>6. f \in FileRec /\ Tells(f.version)' /\ f.bytes <= MaxBlocks
  BY TellsLasts DEF FileOK
<1> QED BY <1>3, <1>5, <1>6 DEF FileOK

LEMMA EvidenceLasts ==
  ASSUME DiskInv, DiskInv', Grows, NEW e, Tells(e.version), Evidence(e) PROVE Evidence(e)'
<1>1. PICK h \in history : h.path = e.path /\ Reusable(h.version, e.version)
  BY EvidenceIs
<1>2. Stamp(e.version) = h.version.changed /\ h.version.changed <= clock
  BY <1>1, ReusableStamp, RecordType
<1>3. h \in history'
  BY DEF Grows
<1>4. ASSUME NEW g \in history', g.path = e.path, Reusable(g.version, e.version) PROVE Shows(g, e)
  <2>1. Stamp(e.version) = g.version.changed
    BY <1>4, LaterRecord, StampOfReusable
  <2>2. g.version.changed \in Nat /\ clock \in Nat
    BY LaterRecord DEF Full, DiskInv, DiskType
  <2>3. g \in history
    BY <1>2, <2>1, <2>2 DEF Grows
  <2> QED BY <1>4, <2>3, EvidenceIs
<1> QED BY <1>1, <1>3, <1>4 DEF Evidence, Shows

LEMMA SoundLasts ==
  ASSUME DiskInv, DiskInv', Grows, NEW e, Sound(e) PROVE Sound(e)'
<1>1. e \in FileRec /\ Tells(e.version) /\ (e.proven => Evidence(e))
  BY DEF Sound
<1>2. Tells(e.version)'
  BY <1>1, TellsLasts
<1>3. e.proven => Evidence(e)'
  BY <1>1, EvidenceLasts
<1> QED BY <1>1, <1>2, <1>3 DEF Sound

LEMMA ReadingLasts ==
  ASSUME DiskInv, Grows, NEW w, Reading(w) PROVE Reading(w)'
<1>1. /\ w.inode \in DOMAIN inodes /\ Tells(w.before) /\ Reusable(w.todo[1].version, w.before)
      /\ inodes[w.inode].changed = Stamp(w.before) => ReadSoFar(w)
  BY DEF Reading
<1>2. PICK h \in history : /\ h.path = w.todo[1].path /\ h.version.identity = w.inode
                           /\ w.before = ToldOf(h.version)
  BY DEF Reading
<1>3. h \in history' /\ w.before = ToldOf(h.version)'
  BY <1>2, TellsLasts DEF Grows
<1>4. Stamp(w.before) = h.version.changed /\ h.version.changed <= clock /\ h.version.changed \in Nat
  BY <1>2, RecordType, ToldFacts
<1>5. w.inode \in DOMAIN inodes' /\ (inodes'[w.inode] = inodes[w.inode] \/ inodes'[w.inode].changed > clock)
  BY <1>1 DEF Grows
<1>6. Tells(w.before)' /\ Stamp(w.before)' = Stamp(w.before)
  BY <1>1, TellsLasts
<1>7. ASSUME inodes'[w.inode].changed = Stamp(w.before) PROVE ReadSoFar(w)'
  <2>1. inodes'[w.inode] = inodes[w.inode]
    <3>1. clock \in Nat
      BY DEF DiskInv, DiskType
    <3> QED BY <1>4, <1>5, <1>7, <3>1
  <2>2. options' = options
    BY DEF Grows, options
  <2>3. ReadSoFar(w)
    BY <1>1, <1>7, <2>1
  <2> QED BY <2>1, <2>2, <2>3 DEF ReadSoFar
<1> QED BY <1>1, <1>2, <1>3, <1>5, <1>6, <1>7 DEF Reading

LEMMA WorkerLasts ==
  ASSUME DiskInv, Grows, NEW w, WorkerOK(w) PROVE WorkerOK(w)'
<1>1. \A k \in DOMAIN w.todo : FileOK(w.todo[k])'
  BY FileLasts DEF WorkerOK
<1>2. w.pc \in {"reads", "rechecks"} => Reading(w)'
  BY ReadingLasts DEF WorkerOK
<1> QED BY <1>1, <1>2 DEF WorkerOK

LEMMA SeenIs ==
  ASSUME InputOK, NEW k \in DOMAIN input, NEW p, input[k].path = p
  PROVE  SeenByTheWalk(p) = input[k]
<1> DEFINE j == CHOOSE l \in DOMAIN input : input[l].path = p
<1>1. j \in DOMAIN input /\ input[j].path = p
  OBVIOUS
<1>2. j = k
  BY <1>1 DEF InputOK
<1>3. SeenByTheWalk(p) = input[j]
  BY DEF SeenByTheWalk, Place
<1> HIDE DEF j
<1> QED BY <1>2, <1>3

\* A file the walk saw has the stamp of a record, which is not in the future.
LEMMA FileStamp ==
  ASSUME DiskInv, NEW f, FileOK(f)
  PROVE  /\ Tells(f.version) /\ Stamp(f.version) \in Nat /\ Stamp(f.version) <= clock
         /\ \E h \in history : /\ h.path = f.path /\ Reusable(h.version, f.version)
                               /\ Len(h.blocks) = f.bytes /\ h.version.changed = Stamp(f.version)
<1>1. PICK h \in history : h.path = f.path /\ Reusable(h.version, f.version) /\ Len(h.blocks) = f.bytes
  BY DEF FileOK
<1>2. Tells(f.version)
  BY DEF FileOK
<1>3. Stamp(f.version) = h.version.changed
  BY <1>1, <1>2, ReusableStamp
<1> QED BY <1>1, <1>2, <1>3, RecordType

\* A file that changed since the walk saw it has changed for good.
LEMMA ChangeLasts ==
  ASSUME DiskInv, DiskInv', Grows, InputOK, NEW k \in DOMAIN input, NEW p, input[k].path = p,
         ChangedSince(p)
  PROVE  ChangedSince(p)'
<1> PICK s : s = input[k]
  OBVIOUS
<1>1. SeenByTheWalk(p) = s /\ SeenByTheWalk(p)' = s
  <2>1. input' = input
    BY DEF Grows
  <2>2. SeenByTheWalk(p)' = SeenByTheWalk(p)
    BY <2>1 DEF SeenByTheWalk, Place
  <2> QED BY <2>2, SeenIs
<1>2. FileOK(s) /\ p \in Paths
  <2>1. FileOK(s)
    BY DEF InputOK
  <2>2. s.path \in Paths
    BY <2>1 DEF FileOK, FileRec
  <2> QED BY <2>1, <2>2
<1>3. Tells(s.version) /\ Stamp(s.version) \in Nat /\ Stamp(s.version) <= clock
  BY <1>2, FileStamp
<1>4. at[p] = None \/ ~Reusable(Version(at[p], inodes[at[p]]), s.version)
  BY <1>1 DEF ChangedSince
<1>5. CASE at'[p] = None
  BY <1>5 DEF ChangedSince
<1>6. CASE at'[p] # None
  <2>1. at[p] # None /\ (at'[p] = at[p] \/ inodes'[at'[p]].changed > clock)
    BY <1>2, <1>6 DEF Grows
  <2>2. at[p] \in DOMAIN inodes
    BY <1>2, <2>1 DEF DiskInv, DiskType
  <2>3. (inodes'[at'[p]] = inodes[at[p]] /\ at'[p] = at[p]) \/ inodes'[at'[p]].changed > clock
    BY <2>1, <2>2 DEF Grows
  <2> DEFINE v == Version(at'[p], inodes'[at'[p]])
  <2>4. ASSUME inodes'[at'[p]].changed > clock PROVE ~Reusable(v, s.version)
    <3>1. PICK r \in history' : r.version = v
      <4>1. (\A q \in Paths : at[q] # None => Now(q) \in history)'
        BY DEF DiskInv, Recorded
      <4>2. Now(p)' \in history'
        BY <1>2, <1>6, <4>1
      <4>3. Now(p)'.version = v
        BY DEF Now, Version
      <4> HIDE DEF v
      <4> QED BY <4>2, <4>3
    <3>2. v \in Full /\ (platform # "unix" => v.modified = v.changed)
      BY <3>1, LaterRecord
    <3>3. v.changed = inodes'[at'[p]].changed /\ v.changed \in Nat
      BY <3>2 DEF Version, Full
    <3> HIDE DEF v
    <3>4. SUFFICES ASSUME Reusable(v, s.version) PROVE FALSE
      OBVIOUS
    <3>5. Stamp(s.version) = v.changed
      BY <1>3, <3>2, <3>4, StampOfReusable
    <3>6. clock \in Nat
      BY DEF DiskInv, DiskType
    <3> QED BY <1>3, <2>4, <3>3, <3>5, <3>6
  <2>5. ~Reusable(v, s.version)
    BY <1>4, <2>1, <2>3, <2>4
  <2> HIDE DEF v
  <2>6. SeenByTheWalk(p)'.version = s.version
    BY <1>1
  <2>7. ~Reusable(Version(at[p], inodes[at[p]])', SeenByTheWalk(p)'.version)
    BY <2>5, <2>6 DEF v, Version
  <2> QED BY <2>7 DEF ChangedSince, Version, Reusable, OptionalEqual
<1> QED BY <1>5, <1>6

LEMMA WarnedLasts ==
  ASSUME DiskInv, DiskInv', Grows, InputOK, NEW p, Warned(p) PROVE Warned(p)'
<1>1. PICK k \in DOMAIN input : input[k].path = p
  BY DEF Warned
<1>2. ChangedSince(p)'
  BY <1>1, ChangeLasts DEF Warned
<1>3. input' = input
  BY DEF Grows
<1> QED BY <1>1, <1>2, <1>3 DEF Warned

LEMMA OutLasts ==
  ASSUME DiskInv, DiskInv', Grows, InputOK, NEW o, OutOK(o) PROVE OutOK(o)'
<1>1. \A k \in DOMAIN o.files : Sound(o.files[k])'
  BY SoundLasts DEF OutOK
<1>2. o.error # None => Warned(o.error.path)'
  BY WarnedLasts DEF OutOK
<1>3. \A k \in DOMAIN o.warnings : Warned(o.warnings[k].path)'
  BY WarnedLasts DEF OutOK
<1> QED BY <1>1, <1>2, <1>3 DEF OutOK

LEMMA InputLasts == ASSUME Grows, InputOK PROVE InputOK'
<1>1. input' = input
  BY DEF Grows
<1>2. ASSUME NEW k \in DOMAIN input PROVE FileOK(input[k])'
  <2> PICK f : f = input[k]
    OBVIOUS
  <2>1. FileOK(f)'
    BY FileLasts DEF InputOK
  <2> QED BY <1>1, <2>1
<1> QED BY <1>1, <1>2 DEF InputOK

LEMMA CacheLasts == ASSUME DiskInv, DiskInv', Grows, CacheOK PROVE \A e \in cache : Sound(e)'
BY SoundLasts DEF CacheOK

\* A step that leaves the workers and the cache alone.
LEMMA WorkersLast ==
  ASSUME IInv, DiskInv', Grows, UNCHANGED <<worker, out, cache, phase>>,
         stop' \in {None, "Cancelled", "Timeout"}
  PROVE  IInv'
<1>1. InputOK'
  BY InputLasts DEF IInv
<1>2. CallOK'
  BY DEF IInv, CallOK, Grows
<1>3. WorkersOK'
  <2> SUFFICES ASSUME NEW c \in Chunks PROVE WorkerOK(worker[c])' /\ OutOK(out[c])'
    BY DEF WorkersOK, Chunks
  <2>1. WorkerOK(worker[c]) /\ OutOK(out[c])
    BY DEF IInv, WorkersOK
  <2> DEFINE w == worker[c]
             o == out[c]
  <2>2. worker'[c] = w /\ out'[c] = o
    OBVIOUS
  <2> HIDE DEF w, o
  <2> QED BY <2>1, <2>2, WorkerLasts, OutLasts DEF IInv, w, o
<1>4. CacheOK'
  BY CacheLasts DEF IInv, CacheOK
<1> QED BY <1>1, <1>2, <1>3, <1>4 DEF IInv

-----------------------------------------------------------------------------
(* The caller *)

LEMMA InitInv == Init => IInv
<1> SUFFICES ASSUME Init PROVE IInv
  OBVIOUS
<1>1. DiskInv
  BY InitDisk
<1>2. InputOK
  BY DEF Init, InputOK
<1>3. DOMAIN worker = {} /\ DOMAIN out = {}
  BY DEF Init
<1>4. plan \in Seq(Option)
  BY PlansAssumption DEF Init
<1>5. CallOK
  BY <1>3, <1>4 DEF Init, CallOK
<1>6. WorkersOK /\ CacheOK
  BY <1>3 DEF Init, WorkersOK, CacheOK, Chunks
<1> QED BY <1>1, <1>2, <1>5, <1>6 DEF IInv

LEMMA NthFacts ==
  ASSUME NEW S \in SUBSET Nat, IsFiniteSet(S), NEW n \in 1 .. Cardinality(S)
  PROVE  Nth(S, n) \in S /\ Cardinality(Earlier(S, Nth(S, n))) = n - 1
<1>1. Cardinality(S) \in Nat
  BY FS_CardinalityType
<1>2. n - 1 \in 0 .. Cardinality(S) - 1
  BY <1>1
<1>3. \E k \in S : Cardinality(Earlier(S, k)) = n - 1
  BY <1>2, EarlierOnto
<1>4. Nth(S, n) = CHOOSE k \in S : Cardinality(Earlier(S, k)) = n - 1
  BY DEF Nth, Earlier
<1> QED BY <1>3, <1>4

LEMMA SeenFileOK ==
  ASSUME DiskInv, NEW p \in Paths, at[p] # None, Len(inodes[at[p]].blocks) <= MaxBlocks
  PROVE  /\ SeenFile(p) \in FileRec /\ SeenFile(p).path = p /\ SeenFile(p).bytes <= MaxBlocks
         /\ Tells(SeenFile(p).version)
         /\ \E h \in history : /\ h.path = p /\ Reusable(h.version, SeenFile(p).version)
                               /\ Len(h.blocks) = SeenFile(p).bytes
<1> DEFINE i == at[p]
           v == Version(i, inodes[i])
           m == Metadata(i)
<1>1. i \in DOMAIN inodes
  BY DEF DiskInv, DiskType
<1>2. v \in Full /\ inodes[i] \in Inode
  BY <1>1, FileType
<1>3. m = [v EXCEPT !.changed = IF platform = "unix" THEN @ ELSE None,
                    !.identity = IF platform = "unix" THEN @ ELSE None]
  BY DEF Metadata
<1> HIDE DEF m, v
<1>4. /\ m \in Told /\ m.modified = v.modified
      /\ m.changed = IF platform = "unix" THEN v.changed ELSE None
      /\ m.identity = IF platform = "unix" THEN v.identity ELSE None
  BY <1>2, <1>3 DEF Full, Told
<1>5. Tells(m) /\ Reusable(v, m)
  BY <1>2, <1>4 DEF Tells, Full, Reusable, OptionalEqual
<1>6. Now(p) \in history /\ Now(p).path = p /\ Now(p).version = v /\ Now(p).blocks = inodes[i].blocks
  BY DEF DiskInv, Recorded, Now, v
<1>7. SeenFile(p) = [path |-> p, bytes |-> Len(inodes[i].blocks), version |-> m,
                     hash |-> None, binary_checked |-> FALSE, proven |-> FALSE]
  BY DEF SeenFile, m
<1>8. Len(inodes[i].blocks) \in Nat
  BY <1>2 DEF Inode
<1>9. SeenFile(p) \in FileRec
  BY <1>4, <1>7, <1>8 DEF FileRec
<1>10. SeenFile(p).path = p /\ SeenFile(p).version = m /\ SeenFile(p).bytes = Len(inodes[i].blocks)
  BY <1>7
<1> QED BY <1>5, <1>6, <1>9, <1>10

\* The walk selects files as they are, each once.
LEMMA SelectedOK ==
  ASSUME DiskInv
  PROVE  /\ Selected \in Seq(FileRec)
         /\ \A k \in DOMAIN Selected :
              /\ Tells(Selected[k].version) /\ Selected[k].bytes <= MaxBlocks
              /\ \E h \in history : /\ h.path = Selected[k].path /\ Reusable(h.version, Selected[k].version)
                                    /\ Len(h.blocks) = Selected[k].bytes
         /\ \A k, l \in DOMAIN Selected : Selected[k].path = Selected[l].path => k = l
<1> DEFINE N == Cardinality(Present)
<1>1. Files \in Seq(Paths) /\ \A i, j \in DOMAIN Files : Files[i] = Files[j] => i = j
  BY InspectionConstants
<1>2. Present \in SUBSET DOMAIN Files /\ DOMAIN Files = 1 .. Len(Files) /\ Len(Files) \in Nat
  BY <1>1 DEF Present
<1>3. IsFiniteSet(1 .. Len(Files))
  BY <1>2, FS_Interval
<1>4. Present \in SUBSET Nat /\ IsFiniteSet(Present)
  BY <1>2, <1>3, FS_Subset
<1>5. N \in Nat
  BY <1>4, FS_CardinalityType
<1>6. ASSUME NEW n \in 1 .. N
      PROVE  /\ Nth(Present, n) \in Present /\ Cardinality(Earlier(Present, Nth(Present, n))) = n - 1
             /\ Files[Nth(Present, n)] \in Paths
  <2>1. Nth(Present, n) \in Present /\ Cardinality(Earlier(Present, Nth(Present, n))) = n - 1
    BY <1>4, NthFacts
  <2> QED BY <1>1, <1>2, <2>1
<1>7. ASSUME NEW n \in 1 .. N
      PROVE  LET f == SeenFile(Files[Nth(Present, n)])
             IN  /\ f \in FileRec /\ f.path = Files[Nth(Present, n)] /\ f.bytes <= MaxBlocks
                 /\ Tells(f.version)
                 /\ \E h \in history : /\ h.path = f.path /\ Reusable(h.version, f.version)
                                       /\ Len(h.blocks) = f.bytes
  <2> PICK p \in Paths : p = Files[Nth(Present, n)]
    BY <1>6
  <2>1. at[p] # None /\ Len(inodes[at[p]].blocks) <= MaxBlocks
    BY <1>6 DEF Present
  <2> QED BY <2>1, SeenFileOK
<1>8. Selected = [n \in 1 .. N |-> SeenFile(Files[Nth(Present, n)])]
  BY DEF Selected
<1>9. DOMAIN Selected = 1 .. N /\ \A n \in 1 .. N : Selected[n] = SeenFile(Files[Nth(Present, n)])
  BY <1>8
<1> HIDE DEF N
<1>10. Selected \in Seq(FileRec)
  <2>1. Selected \in [1 .. N -> FileRec]
    BY <1>7, <1>8
  <2> QED BY <1>5, <2>1
<1>11. ASSUME NEW k \in DOMAIN Selected
       PROVE  /\ Tells(Selected[k].version) /\ Selected[k].bytes <= MaxBlocks
              /\ \E h \in history : /\ h.path = Selected[k].path /\ Reusable(h.version, Selected[k].version)
                                    /\ Len(h.blocks) = Selected[k].bytes
  BY <1>7, <1>9
<1>12. ASSUME NEW k \in DOMAIN Selected, NEW l \in DOMAIN Selected, Selected[k].path = Selected[l].path
       PROVE  k = l
  <2>1. k \in 1 .. N /\ l \in 1 .. N
    BY <1>9
  <2>2. Files[Nth(Present, k)] = Files[Nth(Present, l)]
    BY <1>7, <1>9, <1>12, <2>1
  <2>3. Nth(Present, k) = Nth(Present, l)
    BY <1>1, <1>2, <1>6, <2>1, <2>2
  <2>4. k - 1 = l - 1
    BY <1>6, <2>1, <2>3
  <2> QED BY <2>1, <2>4
<1> QED BY <1>10, <1>11, <1>12

\* Every chunk holds files of the walk.
LEMMA ChunkFacts ==
  ASSUME NEW S, NEW files \in Seq(S), NEW requested \in Nat,
         NEW c \in DOMAIN ChunksOf(files, requested)
  PROVE  /\ ChunksOf(files, requested)[c] \in Seq(S)
         /\ \A k \in DOMAIN ChunksOf(files, requested)[c] :
              \E l \in DOMAIN files : ChunksOf(files, requested)[c][k] = files[l]
<1> DEFINE n == Len(files)
           workers == WorkerCount(requested, n)
           size == CeilDiv(n, workers)
           last == IF c * size < n THEN c * size ELSE n
<1>1. n \in Nat
  OBVIOUS
<1>2. CASE workers <= 1
  <2>1. ChunksOf(files, requested) = <<files>>
    BY <1>2 DEF ChunksOf
  <2>2. c = 1
    BY <2>1
  <2> QED BY <2>1, <2>2
<1>3. CASE ~(workers <= 1)
  <2>1. ChunksOf(files, requested) =
           [d \in 1 .. CeilDiv(n, size) |->
               SubSeq(files, ((d - 1) * size) + 1, IF d * size < n THEN d * size ELSE n)]
    BY <1>3 DEF ChunksOf
  <2>2. c \in Int /\ c >= 1
    BY <2>1
  <2>3. ChunksOf(files, requested)[c] = SubSeq(files, ((c - 1) * size) + 1, last)
    BY <2>1
  <2>4. workers \in Nat /\ workers > 1
    <3>1. FilesPerWorker \in Nat \ {0}
      BY InspectionConstants
    <3>2. CeilDiv(n, FilesPerWorker) \in Nat
      BY <1>1, <3>1 DEF CeilDiv
    <3> QED BY <1>3, <3>2 DEF WorkerCount
  <2> HIDE DEF workers
  <2>5. size \in Nat
    BY <1>1, <2>4 DEF CeilDiv
  <2> HIDE DEF size, n
  <2>6. c * size \in Nat /\ (c - 1) * size \in Nat
    BY <2>2, <2>5
  <2>7. last \in Int /\ last <= Len(files) /\ ((c - 1) * size) + 1 \in Nat \ {0}
    BY <1>1, <2>6 DEF n
  <2> HIDE DEF last
  <2> DEFINE first == ((c - 1) * size) + 1
  <2>8. first \in Nat \ {0}
    BY <2>7
  <2>9. ChunksOf(files, requested)[c] = SubSeq(files, first, last)
    BY <2>3
  <2> HIDE DEF first
  <2>10. /\ SubSeq(files, first, last) \in Seq(S)
         /\ \A k \in DOMAIN SubSeq(files, first, last) :
              first + k - 1 \in DOMAIN files /\ SubSeq(files, first, last)[k] = files[first + k - 1]
    BY <2>7, <2>8, PartFacts
  <2> QED BY <2>9, <2>10
<1> QED BY <1>2, <1>3

LEMMA FreshWorker ==
  ASSUME NEW todo \in Seq(FileRec), \A k \in DOMAIN todo : FileOK(todo[k])
  PROVE  WorkerOK(AtRest(todo))
<1>1. AtRest(todo) \in WorkerRec
  BY DEF AtRest, WorkerRec
<1>2. AtRest(todo).pc = "takes" /\ AtRest(todo).mode = None /\ AtRest(todo).todo = todo
  BY DEF AtRest
<1> QED BY <1>1, <1>2 DEF WorkerOK

LEMMA NothingOK == OutOK(Nothing)
BY DEF Nothing, OutOK, OutRec

LEMMA BeginsKeeps == ASSUME IInv, Begins PROVE IInv'
<1>1. /\ phase = "idle" /\ scan < Len(plan) /\ scan' = scan + 1 /\ input' = Selected /\ stop' = None
      /\ platform' = platform /\ plan' = plan
      /\ inodes' = inodes /\ at' = at /\ clock' = clock /\ history' = history
  BY DEF Begins, disk
<1>2. DiskInv' /\ \A v : Tells(v)' = Tells(v)
  <2>1. DiskInv'
    BY <1>1 DEF IInv, DiskInv, DiskType, TimesOK, OneOwner, OneVersion, Recorded, Now, Version
  <2>2. \A v : Tells(v)' = Tells(v)
    BY <1>1 DEF Tells
  <2> QED BY <2>1, <2>2
<1>3. /\ Selected \in Seq(FileRec)
      /\ \A k \in DOMAIN Selected :
           /\ Tells(Selected[k].version) /\ Selected[k].bytes <= MaxBlocks
           /\ \E h \in history : /\ h.path = Selected[k].path /\ Reusable(h.version, Selected[k].version)
                                 /\ Len(h.blocks) = Selected[k].bytes
      /\ \A k, l \in DOMAIN Selected : Selected[k].path = Selected[l].path => k = l
  BY SelectedOK DEF IInv
<1>4. ASSUME NEW k \in DOMAIN Selected, NEW f, f = Selected[k] PROVE FileOK(f)'
  <2>1. f \in FileRec /\ Tells(f.version)' /\ f.bytes <= MaxBlocks
    BY <1>2, <1>3, <1>4
  <2>2. \E h \in history' : h.path = f.path /\ Reusable(h.version, f.version) /\ Len(h.blocks) = f.bytes
    BY <1>1, <1>3, <1>4
  <2>3. (\E l \in DOMAIN input : input[l].path = f.path /\ Stamp(input[l].version) = Stamp(f.version))'
    BY <1>1, <1>4 DEF Stamp
  <2> QED BY <2>1, <2>2, <2>3 DEF FileOK
<1>5. InputOK'
  <2> SUFFICES ASSUME NEW k \in DOMAIN input' PROVE FileOK(input[k])'
    BY <1>1, <1>3 DEF InputOK
  <2> PICK f : f = Selected[k]
    OBVIOUS
  <2>1. FileOK(f)'
    BY <1>1, <1>4
  <2> QED BY <1>1, <2>1
<1>6. plan \in Seq(Option) /\ scan \in Nat /\ DOMAIN worker = {} /\ DOMAIN out = {}
  BY <1>1 DEF IInv, CallOK
<1>7. scan' \in DOMAIN plan /\ scan' \in Nat
  BY <1>1, <1>6
<1> DEFINE o == plan[scan + 1]
           chunks == ChunksOf(Selected, o.workers)
<1>8. o \in Option /\ o.workers \in Nat
  <2>1. plan[scan'] \in Option
    BY <1>6, <1>7
  <2>2. o \in Option
    BY <1>1, <2>1
  <2> HIDE DEF o
  <2> QED BY <2>2 DEF Option
<1>9. CASE o.hash \/ o.detect
  <2>1. /\ phase' = "inspecting" /\ cache' = cache
        /\ worker' = [c \in DOMAIN chunks |-> AtRest(chunks[c])]
        /\ out' = [c \in DOMAIN chunks |-> Nothing]
    BY <1>9 DEF Begins
  <2>2. CallOK'
    BY <1>1, <1>6, <1>7, <2>1 DEF CallOK
  <2>3. ASSUME NEW c \in DOMAIN chunks, NEW w, w = AtRest(chunks[c]) PROVE WorkerOK(w)'
    <3> PICK todo : todo = chunks[c]
      OBVIOUS
    <3>1. todo \in Seq(FileRec) /\ \A k \in DOMAIN todo : \E l \in DOMAIN Selected : todo[k] = Selected[l]
      BY <1>3, <1>8, ChunkFacts
    <3>2. \A k \in DOMAIN todo : FileOK(todo[k])'
      BY <1>4, <3>1
    <3>3. w \in WorkerRec /\ w.pc = "takes" /\ w.mode = None /\ w.todo = todo
      BY <2>3, <3>1 DEF AtRest, WorkerRec
    <3> QED BY <3>2, <3>3 DEF WorkerOK
  <2>4. OutOK(Nothing)'
    BY DEF Nothing, OutOK, OutRec
  <2>5. WorkersOK'
    <3> SUFFICES ASSUME NEW c \in DOMAIN chunks PROVE WorkerOK(worker[c])' /\ OutOK(out[c])'
      BY <2>1 DEF WorkersOK, Chunks
    <3> PICK w : w = AtRest(chunks[c])
      OBVIOUS
    <3>1. WorkerOK(w)' /\ worker'[c] = w
      BY <2>1, <2>3
    <3>2. out'[c] = Nothing
      BY <2>1
    <3> HIDE DEF chunks
    <3> QED BY <2>4, <3>1, <3>2
  <2>6. CacheOK'
    <3> SUFFICES ASSUME NEW e \in cache PROVE Sound(e)'
      BY <2>1 DEF CacheOK
    <3>1. Sound(e)
      BY DEF IInv, CacheOK
    <3>2. Evidence(e)' = Evidence(e)
      BY <1>1 DEF Evidence
    <3> QED BY <1>2, <3>1, <3>2 DEF Sound
  <2> QED BY <1>2, <1>5, <2>2, <2>5, <2>6 DEF IInv
<1>10. CASE ~(o.hash \/ o.detect)
  <2>1. cache' = {} /\ phase' = phase /\ worker' = worker /\ out' = out
    BY <1>10 DEF Begins
  <2>2. CallOK'
    BY <1>1, <1>6, <1>7, <2>1 DEF CallOK
  <2>3. WorkersOK' /\ CacheOK'
    BY <1>6, <2>1 DEF WorkersOK, CacheOK, Chunks
  <2> QED BY <1>2, <1>5, <2>2, <2>3 DEF IInv
<1> QED BY <1>9, <1>10

LEMMA ReturnsKeeps == ASSUME IInv, Returns PROVE IInv'
<1>1. /\ platform' = platform /\ disk' = disk /\ plan' = plan /\ scan' = scan /\ input' = input
      /\ stop' = stop /\ phase' = "idle" /\ worker' = <<>> /\ out' = <<>>
      /\ cache' = cache \/ cache' = FromReport(InspectedFiles)
  BY DEF Returns
<1>2. DiskInv' /\ Grows
  BY <1>1, Still DEF IInv
<1>3. InputOK'
  BY <1>2, InputLasts DEF IInv
<1>4. DOMAIN worker' = {} /\ DOMAIN out' = {}
  BY <1>1
<1>5. CallOK'
  BY <1>1, <1>4 DEF IInv, CallOK
<1>6. WorkersOK'
  BY <1>4 DEF WorkersOK, Chunks
<1>7. ASSUME NEW e \in FromReport(InspectedFiles) PROVE Sound(e)
  <2>1. PICK g \in InspectedFiles :
           e = [path |-> g.path, bytes |-> g.bytes, hash |-> g.hash, version |-> g.version,
                binary_checked |-> g.binary_checked, proven |-> g.proven]
    BY DEF FromReport
  <2>2. PICK c \in Chunks : g \in ToSet(out[c].files)
    BY DEF InspectedFiles
  <2>3. PICK k \in DOMAIN out[c].files : g = out[c].files[k]
    BY <2>2 DEF ToSet
  <2>4. Sound(g)
    BY <2>3 DEF IInv, WorkersOK, OutOK
  <2>5. g \in FileRec
    BY <2>4 DEF Sound
  <2>6. e = g
    BY <2>1, <2>5 DEF FileRec
  <2> QED BY <2>4, <2>6
<1>8. ASSUME NEW e \in cache' PROVE Sound(e)'
  <2>1. Sound(e)
    BY <1>1, <1>7 DEF IInv, CacheOK
  <2> QED BY <1>2, <2>1, SoundLasts DEF IInv
<1>9. CacheOK'
  BY <1>8 DEF CacheOK
<1> QED BY <1>2, <1>3, <1>5, <1>6, <1>9 DEF IInv

LEMMA OutsideKeeps == ASSUME IInv, Writes \/ Cancels \/ Expires PROVE IInv'
<1>1. CASE Writes
  <2>1. DiskInv' /\ Grows
    BY <1>1, WritesKeep DEF IInv
  <2>2. UNCHANGED <<worker, out, cache, phase, stop>>
    BY <1>1 DEF Writes, Removes, WritesInPlace, Replaces, Records, call
  <2>3. stop' \in {None, "Cancelled", "Timeout"}
    BY <2>2 DEF IInv, CallOK
  <2> QED BY <2>1, <2>2, <2>3, WorkersLast
<1>2. CASE Cancels \/ Expires
  <2>1. /\ platform' = platform /\ disk' = disk /\ plan' = plan /\ scan' = scan /\ input' = input
        /\ UNCHANGED <<worker, out, cache, phase, stop>>
    BY <1>2 DEF Cancels, Expires, call
  <2>2. DiskInv' /\ Grows
    BY <2>1, Still DEF IInv
  <2>3. stop' \in {None, "Cancelled", "Timeout"}
    BY <2>1 DEF IInv, CallOK
  <2> QED BY <2>1, <2>2, <2>3, WorkersLast
<1> QED BY <1>1, <1>2

-----------------------------------------------------------------------------
(* The workers *)

\* Only the worker c moves, and it and its results stay in order.
Moves(c) ==
    /\ DOMAIN worker' = DOMAIN worker
    /\ \A d \in Chunks : d # c => worker'[d] = worker[d]
    /\ WorkerOK(worker'[c])
Adds(c) ==
    /\ DOMAIN out' = DOMAIN out
    /\ \A d \in Chunks : d # c => out'[d] = out[d]
    /\ OutOK(out'[c])

LEMMA MoveKeeps ==
  ASSUME IInv, NEW c \in Chunks, OthersUnchanged, Moves(c), Adds(c),
         stop' \in {None, "Cancelled", "Timeout"}
  PROVE  IInv'
<1>1. /\ platform' = platform /\ disk' = disk /\ plan' = plan /\ scan' = scan /\ input' = input
      /\ phase' = phase /\ cache' = cache
  BY DEF OthersUnchanged, call
<1>2. DiskInv' /\ Grows
  BY <1>1, Still DEF IInv
<1>3. InputOK'
  BY <1>2, InputLasts DEF IInv
<1>4. CallOK'
  BY <1>1 DEF IInv, CallOK, Moves, Adds
<1>5. ASSUME NEW d \in Chunks PROVE WorkerOK(worker[d])' /\ OutOK(out[d])'
  <2> PICK w, o : w = worker'[d] /\ o = out'[d]
    OBVIOUS
  <2>1. WorkerOK(worker[d]) /\ OutOK(out[d])
    BY DEF IInv, WorkersOK
  <2>2. WorkerOK(w) /\ OutOK(o)
    BY <2>1 DEF Moves, Adds
  <2>3. WorkerOK(w)' /\ OutOK(o)'
    BY <1>2, <2>2, WorkerLasts, OutLasts DEF IInv
  <2> QED BY <2>3
<1>6. WorkersOK'
  BY <1>5 DEF WorkersOK, Chunks, Moves
<1>7. CacheOK'
  BY <1>1, <1>2, CacheLasts DEF IInv, CacheOK
<1> QED BY <1>2, <1>3, <1>4, <1>6, <1>7 DEF IInv

LEMMA CurrentFile ==
  ASSUME IInv, NEW c \in Chunks, worker[c].todo # <<>>
  PROVE  /\ worker[c] \in WorkerRec /\ worker[c].todo \in Seq(FileRec)
         /\ File(c) = worker[c].todo[1] /\ 1 \in DOMAIN worker[c].todo
         /\ FileOK(File(c)) /\ File(c) \in FileRec /\ File(c).path \in Paths
         /\ File(c).bytes \in Nat /\ File(c).bytes <= MaxBlocks
         /\ \E k \in DOMAIN input : input[k].path = File(c).path
<1>1. WorkerOK(worker[c])
  BY DEF IInv, WorkersOK
<1>2. worker[c].todo \in Seq(FileRec) /\ worker[c] \in WorkerRec
  BY <1>1 DEF WorkerOK, WorkerRec
<1>3. File(c) = worker[c].todo[1] /\ 1 \in DOMAIN worker[c].todo
  BY <1>2, TailFacts DEF File
<1>4. FileOK(File(c))
  BY <1>1, <1>3 DEF WorkerOK
<1>5. File(c) \in FileRec /\ File(c).bytes <= MaxBlocks
  BY <1>4 DEF FileOK
<1>6. File(c).path \in Paths /\ File(c).bytes \in Nat
  BY <1>5 DEF FileRec
<1> QED BY <1>2, <1>3, <1>4, <1>5, <1>6 DEF FileOK

LEMMA NextFileMoves ==
  ASSUME IInv, NEW c \in Chunks, worker[c].todo # <<>>, NextFile(c)
  PROVE  Moves(c)
<1>1. WorkerOK(worker[c]) /\ worker[c].todo \in Seq(FileRec)
  BY CurrentFile DEF IInv, WorkersOK
<1>2. /\ Tail(worker[c].todo) \in Seq(FileRec)
      /\ \A k \in DOMAIN Tail(worker[c].todo) : FileOK(Tail(worker[c].todo)[k])
  <2>1. /\ Tail(worker[c].todo) \in Seq(FileRec)
        /\ \A k \in DOMAIN Tail(worker[c].todo) :
             k + 1 \in DOMAIN worker[c].todo /\ Tail(worker[c].todo)[k] = worker[c].todo[k + 1]
    BY <1>1, TailFacts
  <2> QED BY <1>1, <2>1 DEF WorkerOK
<1>3. WorkerOK(AtRest(Tail(worker[c].todo)))
  BY <1>2, FreshWorker
<1>4. /\ DOMAIN worker' = DOMAIN worker /\ worker'[c] = AtRest(Tail(worker[c].todo))
      /\ \A d \in Chunks : d # c => worker'[d] = worker[d]
  BY DEF NextFile, Chunks
<1> QED BY <1>3, <1>4 DEF Moves

\* A worker that goes on in another state.
LEMMA Becomes ==
  ASSUME IInv, NEW c \in Chunks, NEW w, worker' = [worker EXCEPT ![c] = w], WorkerOK(w)
  PROVE  Moves(c)
BY DEF Moves, Chunks

LEMMA OutIs ==
  ASSUME IInv, NEW c \in Chunks
  PROVE  /\ OutOK(out[c]) /\ out[c] \in OutRec /\ c \in DOMAIN out
         /\ out[c].files \in Seq(FileRec) /\ out[c].skipped \in Seq(Skip) /\ out[c].warnings \in Seq(Skip)
<1>1. OutOK(out[c]) /\ out[c] \in OutRec /\ c \in DOMAIN out
  BY DEF IInv, WorkersOK, OutOK, CallOK, Chunks
<1> QED BY <1>1 DEF OutRec

LEMMA NoOutAdds ==
  ASSUME IInv, NEW c \in Chunks, out' = out PROVE Adds(c)
BY OutIs DEF Adds

\* The results of c after they have been extended.
LEMMA OutBecomes ==
  ASSUME IInv, NEW c \in Chunks, NEW o, out' = [out EXCEPT ![c] = o], OutOK(o)
  PROVE  Adds(c)
BY OutIs DEF Adds, Chunks, IInv, CallOK

LEMMA KeepsFine ==
  ASSUME IInv, NEW c \in Chunks, worker[c].todo # <<>>, NEW f, Sound(f), Keeps(c, f)
  PROVE  Moves(c) /\ Adds(c)
<1>1. Moves(c)
  BY NextFileMoves DEF Keeps
<1> DEFINE o == [out[c] EXCEPT !.files = Append(out[c].files, f)]
<1>2. out' = [out EXCEPT ![c] = o]
  BY DEF Keeps
<1>3. f \in FileRec
  BY DEF Sound
<1>4. Append(out[c].files, f) \in Seq(FileRec) /\ \A k \in DOMAIN Append(out[c].files, f) : Sound(Append(out[c].files, f)[k])
  BY <1>3, OutIs, AppendFacts DEF OutOK
<1>5. /\ o \in OutRec /\ o.files = Append(out[c].files, f) /\ o.warnings = out[c].warnings
      /\ o.error = out[c].error
  BY <1>4, OutIs DEF OutRec
<1> HIDE DEF o
<1>6. OutOK(o)
  BY <1>4, <1>5, OutIs DEF OutOK
<1> QED BY <1>1, <1>2, <1>6, OutBecomes

LEMMA SkipsType ==
  ASSUME IInv, NEW c \in Chunks, worker[c].todo # <<>>,
         NEW kind \in {"Binary", "ScanLimit", "IoError", "Concurrent"}
  PROVE  /\ Skips(c, kind) \in Seq(Skip)
         /\ Skipped(c, kind) \in Skip /\ Skipped(c, kind).path = File(c).path
<1>1. Skipped(c, kind) \in Skip /\ Skipped(c, kind).path = File(c).path
  BY CurrentFile DEF Skipped, Skip
<1>2. Append(out[c].skipped, Skipped(c, kind)) \in Seq(Skip)
  BY <1>1, OutIs, AppendFacts
<1> QED BY <1>1, <1>2, OutIs DEF Skips

LEMMA SkipsBinaryFine ==
  ASSUME IInv, NEW c \in Chunks, worker[c].todo # <<>>, SkipsBinary(c)
  PROVE  Moves(c) /\ Adds(c)
<1>1. Moves(c)
  BY NextFileMoves DEF SkipsBinary
<1> DEFINE o == [out[c] EXCEPT !.skipped = Skips(c, "Binary")]
<1>2. out' = [out EXCEPT ![c] = o]
  BY DEF SkipsBinary
<1>3. Skips(c, "Binary") \in Seq(Skip)
  BY SkipsType
<1>4. /\ o \in OutRec /\ o.files = out[c].files /\ o.warnings = out[c].warnings
      /\ o.error = out[c].error
  BY <1>3, OutIs DEF OutRec
<1> HIDE DEF o
<1>5. OutOK(o)
  BY <1>4, OutIs DEF OutOK
<1> QED BY <1>1, <1>2, <1>5, OutBecomes

LEMMA LimitSkipsFine ==
  ASSUME IInv, NEW c \in Chunks, worker[c].todo # <<>>,
         NEW reason \in {None, "Cancelled", "Timeout"}, LimitSkips(c, reason)
  PROVE  Moves(c) /\ Adds(c)
<1>1. Moves(c)
  BY NextFileMoves DEF LimitSkips
<1> DEFINE o == [out[c] EXCEPT !.skipped = Skips(c, "ScanLimit"), !.termination = reason]
<1>2. out' = [out EXCEPT ![c] = o]
  BY DEF LimitSkips
<1>3. Skips(c, "ScanLimit") \in Seq(Skip)
  BY SkipsType
<1>4. /\ o \in OutRec /\ o.files = out[c].files /\ o.warnings = out[c].warnings
      /\ o.error = out[c].error
  BY <1>3, OutIs DEF OutRec
<1> HIDE DEF o
<1>5. OutOK(o)
  BY <1>4, OutIs DEF OutOK
<1> QED BY <1>1, <1>2, <1>5, OutBecomes

LEMMA WarnsFine ==
  ASSUME IInv, NEW c \in Chunks, worker[c].todo # <<>>, NEW kind \in {"IoError", "Concurrent"},
         Warns(c, kind), ChangedSince(File(c).path)
  PROVE  Moves(c) /\ Adds(c)
<1>1. Warned(File(c).path)
  BY CurrentFile DEF Warned
<1>2. Skips(c, kind) \in Seq(Skip) /\ Skipped(c, kind) \in Skip /\ Warned(Skipped(c, kind).path)
  BY <1>1, SkipsType
<1>3. CASE options.abort
  <2> DEFINE o == [out[c] EXCEPT !.error = Skipped(c, kind)]
             w == [AtRest(<<>>) EXCEPT !.pc = "ended"]
  <2>1. out' = [out EXCEPT ![c] = o] /\ worker' = [worker EXCEPT ![c] = w]
    BY <1>3 DEF Warns
  <2>2. /\ o \in OutRec /\ o.files = out[c].files /\ o.warnings = out[c].warnings
        /\ o.error = Skipped(c, kind)
    BY <1>2, OutIs DEF OutRec
  <2>3. w \in WorkerRec /\ w.pc = "ended" /\ w.todo = <<>>
    <3> PICK r : r = AtRest(<<>>)
      OBVIOUS
    <3>1. WorkerOK(r)
      <4> PICK none : none = <<>>
        OBVIOUS
      <4>1. none \in Seq(FileRec) /\ DOMAIN none = {}
        OBVIOUS
      <4>2. WorkerOK(AtRest(none))
        BY <4>1, FreshWorker
      <4> QED BY <4>2
    <3>2. r \in WorkerRec /\ r.todo = <<>>
      BY <3>1 DEF WorkerOK, AtRest
    <3>3. w = [r EXCEPT !.pc = "ended"]
      OBVIOUS
    <3> HIDE DEF w
    <3> QED BY <3>2, <3>3 DEF WorkerRec
  <2> HIDE DEF o, w
  <2>4. OutOK(o)
    BY <1>2, <2>2, OutIs DEF OutOK
  <2>5. WorkerOK(w)
    BY <2>3 DEF WorkerOK
  <2> QED BY <2>1, <2>4, <2>5, OutBecomes, Becomes
<1>4. CASE ~options.abort
  <2> DEFINE o == [out[c] EXCEPT !.skipped = Skips(c, kind),
                                 !.warnings = Append(out[c].warnings, Skipped(c, kind))]
  <2>1. out' = [out EXCEPT ![c] = o] /\ Moves(c)
    BY <1>4, NextFileMoves DEF Warns
  <2>2. /\ Append(out[c].warnings, Skipped(c, kind)) \in Seq(Skip)
        /\ \A k \in DOMAIN Append(out[c].warnings, Skipped(c, kind)) :
             Warned(Append(out[c].warnings, Skipped(c, kind))[k].path)
    BY <1>2, OutIs, AppendFacts DEF OutOK
  <2>3. /\ o \in OutRec /\ o.files = out[c].files /\ o.error = out[c].error
        /\ o.warnings = Append(out[c].warnings, Skipped(c, kind))
    BY <1>2, <2>2, OutIs DEF OutRec
  <2> HIDE DEF o
  <2>4. OutOK(o)
    BY <2>2, <2>3, OutIs DEF OutOK
  <2> QED BY <2>1, <2>4, OutBecomes
<1> QED BY <1>3, <1>4

-----------------------------------------------------------------------------
(* What an unchanged file tells a worker *)

\* A path that did not change still names the file that was seen.
LEMMA StillThere ==
  ASSUME DiskInv, InputOK, NEW f, FileOK(f), ~ChangedSince(f.path)
  PROVE  /\ at[f.path] # None /\ at[f.path] \in DOMAIN inodes
         /\ inodes[at[f.path]].changed = Stamp(f.version)
         /\ Len(inodes[at[f.path]].blocks) = f.bytes
         /\ Reusable(Version(at[f.path], inodes[at[f.path]]), f.version)
<1> DEFINE i == at[f.path]
<1>1. PICK k \in DOMAIN input : input[k].path = f.path /\ Stamp(input[k].version) = Stamp(f.version)
  BY DEF FileOK
<1>2. SeenByTheWalk(f.path) = input[k] /\ Tells(input[k].version)
  BY <1>1, SeenIs DEF InputOK, FileOK
<1>3. i # None /\ Reusable(Version(i, inodes[i]), input[k].version)
  BY <1>2 DEF ChangedSince
<1>4. f.path \in Paths
  BY DEF FileOK, FileRec
<1>5. i \in DOMAIN inodes
  BY <1>3, <1>4 DEF DiskInv, DiskType
<1>6. Version(i, inodes[i]) \in Full /\ (platform # "unix" => inodes[i].modified = inodes[i].changed)
  BY <1>5, FileType
<1>7. /\ Version(i, inodes[i]).changed = inodes[i].changed
      /\ Version(i, inodes[i]).modified = inodes[i].modified
  BY DEF Version
<1>8. Stamp(input[k].version) = inodes[i].changed
  BY <1>2, <1>3, <1>6, <1>7, StampOfReusable
<1>9. PICK h \in history : /\ h.path = f.path /\ Reusable(h.version, f.version)
                           /\ Len(h.blocks) = f.bytes /\ h.version.changed = Stamp(f.version)
  BY FileStamp
<1>10. h.version = Version(i, inodes[i]) /\ h.blocks = inodes[i].blocks
  <2>1. inodes[at[h.path]].changed = h.version.changed /\ at[h.path] # None
    BY <1>1, <1>3, <1>8, <1>9
  <2> QED BY <1>9, <2>1, NowByStamp
<1> QED BY <1>1, <1>3, <1>5, <1>8, <1>9, <1>10

\* The file a worker has open is the record it began with, as long as its stamp
\* has not changed.
LEMMA OpenFile ==
  ASSUME DiskInv, NEW w, WorkerOK(w), w.pc \in {"reads", "rechecks"}
  PROVE  /\ w.inode \in DOMAIN inodes /\ inodes[w.inode] \in Inode /\ FileOK(w.todo[1])
         /\ Tells(w.before) /\ Stamp(w.before) = Stamp(w.todo[1].version)
         /\ inodes[w.inode].changed = Stamp(w.before) =>
               /\ ReadSoFar(w) /\ w.before = Snapshot(w.inode)
               /\ \E h \in history : /\ h.path = w.todo[1].path
                                     /\ h.version = Version(w.inode, inodes[w.inode])
                                     /\ h.blocks = inodes[w.inode].blocks
<1>1. Reading(w) /\ w.todo \in Seq(FileRec) /\ w.todo # <<>> /\ \A k \in DOMAIN w.todo : FileOK(w.todo[k])
  BY DEF WorkerOK, WorkerRec
<1>2. FileOK(w.todo[1])
  BY <1>1, TailFacts
<1>3. /\ w.inode \in DOMAIN inodes /\ Tells(w.before) /\ Reusable(w.todo[1].version, w.before)
      /\ inodes[w.inode].changed = Stamp(w.before) => ReadSoFar(w)
  BY <1>1 DEF Reading
<1>4. Stamp(w.before) = Stamp(w.todo[1].version)
  BY <1>2, <1>3, SameStamp DEF FileOK
<1>5. PICK h \in history : /\ h.path = w.todo[1].path /\ h.version.identity = w.inode
                           /\ w.before = ToldOf(h.version)
  BY <1>1 DEF Reading
<1>6. Stamp(w.before) = h.version.changed
  BY <1>5, RecordType, ToldFacts
<1>7. ASSUME inodes[w.inode].changed = Stamp(w.before)
      PROVE  h.version = Version(w.inode, inodes[w.inode]) /\ h.blocks = inodes[w.inode].blocks
  BY <1>5, <1>6, <1>7, FileByStamp
<1>8. Snapshot(w.inode) = ToldOf(Version(w.inode, inodes[w.inode])) /\ inodes[w.inode] \in Inode
  BY <1>3, FileType
<1> QED BY <1>2, <1>3, <1>4, <1>5, <1>7, <1>8

\* A worker whose path did not change has the file under that path open.
LEMMA ReadingStill ==
  ASSUME DiskInv, InputOK, NEW w, WorkerOK(w), w.pc \in {"reads", "rechecks"},
         ~ChangedSince(w.todo[1].path)
  PROVE  /\ Len(inodes[w.inode].blocks) = w.todo[1].bytes
         /\ ReadSoFar(w) /\ w.before = Snapshot(w.inode)
<1> DEFINE f == w.todo[1]
           i == at[f.path]
<1>1. FileOK(f) /\ Stamp(w.before) = Stamp(f.version)
  BY OpenFile
<1>2. i # None /\ inodes[i].changed = Stamp(f.version) /\ Len(inodes[i].blocks) = f.bytes
  BY <1>1, StillThere
<1>3. PICK h \in history : h.path = f.path /\ h.version.identity = w.inode /\ w.before = ToldOf(h.version)
  BY DEF WorkerOK, Reading
<1>4. Stamp(w.before) = h.version.changed
  BY <1>3, RecordType, ToldFacts
<1>5. h.version.identity = i
  BY <1>1, <1>2, <1>3, <1>4, NowByStamp
<1>6. w.inode = i /\ inodes[w.inode].changed = Stamp(w.before)
  BY <1>1, <1>2, <1>3, <1>5
<1> QED BY <1>2, <1>6, OpenFile

LEMMA HandleTells ==
  ASSUME DiskInv, NEW i \in DOMAIN inodes
  PROVE  /\ Tells(Snapshot(i)) /\ Stamp(Snapshot(i)) = inodes[i].changed
         /\ Reusable(Version(i, inodes[i]), Snapshot(i)) /\ Reusable(Snapshot(i), Snapshot(i))
         /\ \A w : Reusable(Version(i, inodes[i]), w) => Reusable(w, Snapshot(i)) /\ Reusable(Snapshot(i), w)
<1>1. /\ Version(i, inodes[i]) \in Full /\ Snapshot(i) = ToldOf(Version(i, inodes[i]))
      /\ platform # "unix" => inodes[i].modified = inodes[i].changed
  BY FileType
<1>2. Version(i, inodes[i]).changed = inodes[i].changed /\ Version(i, inodes[i]).modified = inodes[i].modified
  BY DEF Version
<1> QED BY <1>1, <1>2, ToldFacts

LEMMA SameSequence ==
  ASSUME NEW S, NEW s \in Seq(S), NEW t \in Seq(S), Len(s) = Len(t), \A k \in DOMAIN s : s[k] = t[k]
  PROVE  s = t
OBVIOUS

\* Cached evidence under a version of the file with the same stamp.
LEMMA CachedIsSound ==
  ASSUME IInv, NEW f, FileOK(f), NEW e \in Candidates(f), NEW v, Tells(v),
         Stamp(v) = Stamp(f.version),
         \E h \in history : h.path = f.path /\ Reusable(h.version, v)
  PROVE  Sound(WithCached([f EXCEPT !.version = v], e))
<1> DEFINE g == WithCached([f EXCEPT !.version = v], e)
<1>1. e \in cache /\ e.path = f.path /\ Reusable(e.version, f.version)
  BY DEF Candidates
<1>2. e \in FileRec /\ Tells(e.version) /\ (e.proven => Evidence(e))
  BY <1>1 DEF IInv, CacheOK, Sound
<1>3. f \in FileRec /\ Tells(f.version) /\ v \in Told
  BY DEF FileOK, Tells
<1>4. Stamp(e.version) = Stamp(f.version)
  BY <1>1, <1>2, <1>3, SameStamp
<1>5. /\ e.hash \in Seq(Blocks) \cup {None} /\ e.binary_checked \in BOOLEAN /\ e.proven \in BOOLEAN
  BY <1>2 DEF FileRec
<1>6. [f EXCEPT !.version = v] \in FileRec
  BY <1>3 DEF FileRec
<1>7. g \in FileRec
  BY <1>5, <1>6 DEF WithCached, FileRec
<1>8. /\ g.path = e.path /\ g.version = v /\ g.hash = e.hash
      /\ g.binary_checked = e.binary_checked /\ g.proven = e.proven
  BY <1>1, <1>3 DEF WithCached, FileRec
<1> HIDE DEF g
<1>9. ASSUME g.proven PROVE Evidence(g)
  <2>1. Evidence(e)
    BY <1>2, <1>8, <1>9
  <2>2. \E h \in history : h.path = g.path /\ Reusable(h.version, g.version)
    BY <1>1, <1>8
  <2> QED BY <1>2, <1>4, <1>8, <2>1, <2>2, EvidenceMoves DEF IInv
<1>10. Tells(g.version)
  BY <1>8
<1>11. Sound(g)
  BY <1>7, <1>9, <1>10 DEF Sound
<1> QED BY <1>11 DEF g

-----------------------------------------------------------------------------
(* The steps of a worker *)

LEMMA InterruptionType == Interruption \in {None, "Cancelled", "Timeout"}
BY DEF Interruption

LEMMA EndsKeeps == ASSUME IInv, NEW c \in Chunks, Ends(c) PROVE IInv'
<1>1. WorkerOK(worker[c]) /\ worker[c] \in WorkerRec
  BY DEF IInv, WorkersOK, WorkerOK
<1> PICK w : w = [worker[c] EXCEPT !.pc = "ended"]
  OBVIOUS
<1>2. w \in WorkerRec /\ w.pc = "ended" /\ w.todo = worker[c].todo
  BY <1>1 DEF WorkerRec
<1>3. WorkerOK(w)
  BY <1>1, <1>2 DEF WorkerOK
<1>4. worker' = [worker EXCEPT ![c] = w] /\ out' = out /\ stop' = stop /\ OthersUnchanged
  BY DEF Ends
<1>5. stop' \in {None, "Cancelled", "Timeout"}
  BY <1>4 DEF IInv, CallOK
<1> QED BY <1>3, <1>4, <1>5, Becomes, NoOutAdds, MoveKeeps

LEMMA OpeningMoves ==
  ASSUME IInv, NEW c \in Chunks, worker[c].todo # <<>>, NEW mode \in {"validate", "inspect"},
         Opening(c, mode)
  PROVE  Moves(c)
<1>1. WorkerOK(worker[c]) /\ worker[c] \in WorkerRec
  BY DEF IInv, WorkersOK, WorkerOK
<1> PICK w : w = [worker[c] EXCEPT !.pc = "opens", !.mode = mode]
  OBVIOUS
<1>2. w \in WorkerRec /\ w.pc = "opens" /\ w.mode = mode /\ w.todo = worker[c].todo
  BY <1>1 DEF WorkerRec
<1>3. WorkerOK(w)
  BY <1>1, <1>2 DEF WorkerOK
<1>4. worker' = [worker EXCEPT ![c] = w]
  BY DEF Opening
<1> QED BY <1>3, <1>4, Becomes

LEMMA TakesKeeps == ASSUME IInv, NEW c \in Chunks, Takes(c) PROVE IInv'
<1>1. worker[c].todo # <<>> /\ stop' = stop /\ OthersUnchanged
  BY DEF Takes
<1>2. stop \in {None, "Cancelled", "Timeout"} /\ stop' \in {None, "Cancelled", "Timeout"}
  BY <1>1 DEF IInv, CallOK
<1>3. CASE LimitSkips(c, stop)
  BY <1>1, <1>2, <1>3, LimitSkipsFine, MoveKeeps
<1>4. CASE /\ worker[c].pc = "takes" /\ out' = out
           /\ worker' = [worker EXCEPT ![c].pc = "publishes", ![c].own = Interruption]
  <2>1. WorkerOK(worker[c]) /\ worker[c] \in WorkerRec
    BY DEF IInv, WorkersOK, WorkerOK
  <2> PICK w : w = [worker[c] EXCEPT !.pc = "publishes", !.own = Interruption]
    OBVIOUS
  <2>2. /\ w \in WorkerRec /\ w.pc = "publishes" /\ w.mode = worker[c].mode
        /\ w.todo = worker[c].todo
    BY <2>1, InterruptionType DEF WorkerRec
  <2>3. WorkerOK(w)
    BY <1>1, <1>4, <2>1, <2>2 DEF WorkerOK
  <2>4. worker' = [worker EXCEPT ![c] = w]
    BY <1>4
  <2> QED BY <1>1, <1>2, <1>4, <2>3, <2>4, Becomes, NoOutAdds, MoveKeeps
<1>5. CASE out' = out /\ (Opening(c, "inspect") \/ Opening(c, "validate"))
  BY <1>1, <1>2, <1>5, OpeningMoves, NoOutAdds, MoveKeeps
<1>6. ASSUME NEW e \in Candidates(File(c)), Keeps(c, WithCached(File(c), e)) PROVE IInv'
  <2> PICK f : f = File(c)
    OBVIOUS
  <2>1. FileOK(f) /\ f \in FileRec
    BY <1>1, CurrentFile
  <2>2. /\ Tells(f.version)
        /\ \E h \in history : h.path = f.path /\ Reusable(h.version, f.version)
    BY <2>1 DEF FileOK
  <2>3. [f EXCEPT !.version = f.version] = f
    BY <2>1 DEF FileRec
  <2>4. Sound(WithCached([f EXCEPT !.version = f.version], e))
    BY <1>6, <2>1, <2>2, CachedIsSound
  <2>5. Sound(WithCached(File(c), e))
    BY <2>3, <2>4
  <2> QED BY <1>1, <1>2, <1>6, <2>5, KeepsFine, MoveKeeps
<1> QED BY <1>3, <1>4, <1>5, <1>6 DEF Takes

LEMMA PublishesKeeps == ASSUME IInv, NEW c \in Chunks, Publishes(c) PROVE IInv'
<1>1. WorkerOK(worker[c]) /\ worker[c] \in WorkerRec
  BY DEF IInv, WorkersOK, WorkerOK
<1>2. worker[c].todo # <<>> /\ worker[c].own \in {None, "Cancelled", "Timeout"}
  BY <1>1 DEF Publishes, WorkerOK, WorkerRec
<1>3. stop' \in {None, "Cancelled", "Timeout"}
  BY <1>2 DEF Publishes, Requests, IInv, CallOK
<1> PICK reason \in {None, "Cancelled", "Timeout"} : reason = stop'
  BY <1>3
<1>4. LimitSkips(c, reason) /\ OthersUnchanged
  BY DEF Publishes
<1> QED BY <1>2, <1>3, <1>4, LimitSkipsFine, MoveKeeps

\* What the open handle shows first has to be what the walk saw.
LEMMA OpensKeeps == ASSUME IInv, NEW c \in Chunks, Opens(c) PROVE IInv'
<1> PICK f : f = File(c)
  OBVIOUS
<1> PICK i : i = at[f.path]
  OBVIOUS
<1>1. WorkerOK(worker[c]) /\ worker[c].pc = "opens"
  BY DEF IInv, WorkersOK, Opens
<1>2. worker[c].todo # <<>>
  BY <1>1 DEF WorkerOK
<1>3. FileOK(f) /\ f.path \in Paths /\ f.bytes <= MaxBlocks /\ f = worker[c].todo[1]
  BY <1>2, CurrentFile
<1>4. stop' = stop /\ OthersUnchanged /\ stop' \in {None, "Cancelled", "Timeout"}
  BY DEF Opens, IInv, CallOK
<1>5. ASSUME i = None PROVE ChangedSince(f.path)
  BY <1>5 DEF ChangedSince
<1>6. ASSUME i # None,
             \/ Len(inodes[i].blocks) # f.bytes
             \/ ~Reusable(f.version, Snapshot(i))
             \/ worker[c].mode = "inspect" /\ f.bytes > MaxBlocks
      PROVE  ChangedSince(f.path)
  <2> SUFFICES ASSUME ~ChangedSince(f.path) PROVE FALSE
    OBVIOUS
  <2>1. /\ i \in DOMAIN inodes /\ Len(inodes[i].blocks) = f.bytes
        /\ Reusable(Version(i, inodes[i]), f.version)
    BY <1>3, StillThere DEF IInv
  <2>2. Reusable(f.version, Snapshot(i))
    BY <2>1, HandleTells DEF IInv
  <2>3. ~(f.bytes > MaxBlocks)
    BY <1>2, <1>3, CurrentFile, InspectionConstants
  <2> QED BY <1>6, <2>1, <2>2, <2>3
<1>7. CASE \/ i = None /\ Warns(c, "IoError")
           \/ /\ i # None /\ Warns(c, "Concurrent")
              /\ \/ Len(inodes[i].blocks) # f.bytes
                 \/ ~Reusable(f.version, Snapshot(i))
                 \/ worker[c].mode = "inspect" /\ f.bytes > MaxBlocks
  <2>1. ChangedSince(File(c).path)
    BY <1>5, <1>6, <1>7
  <2> QED BY <1>2, <1>4, <1>7, <2>1, WarnsFine, MoveKeeps
<1>8. CASE /\ i # None /\ out' = out
           /\ ~(\/ Len(inodes[i].blocks) # f.bytes \/ ~Reusable(f.version, Snapshot(i)))
           /\ worker' = [worker EXCEPT ![c].pc = "reads", ![c].inode = i,
                                       ![c].before = Snapshot(i), ![c].read = <<>>]
  <2> PICK w : w = [worker[c] EXCEPT !.pc = "reads", !.inode = i, !.before = Snapshot(i), !.read = <<>>]
    OBVIOUS
  <2>1. i \in DOMAIN inodes /\ i \in Nat
    BY <1>3, <1>8 DEF IInv, DiskInv, DiskType
  <2>2. Snapshot(i) \in Told /\ Tells(Snapshot(i)) /\ Snapshot(i) = ToldOf(Version(i, inodes[i]))
    BY <2>1, HandleTells, FileType DEF IInv, Tells
  <2> PICK before : before = Snapshot(i)
    OBVIOUS
  <2> PICK none : none = <<>>
    OBVIOUS
  <2>0. none \in Seq(Blocks) /\ Len(none) = 0 /\ DOMAIN none = {}
    OBVIOUS
  <2>3. worker[c] \in WorkerRec
    BY <1>1 DEF WorkerOK
  <2>4. /\ w \in WorkerRec /\ w.pc = "reads" /\ w.inode = i /\ w.before = before /\ w.read = none
        /\ w.todo = worker[c].todo /\ w.mode = worker[c].mode
    BY <2>0, <2>1, <2>2, <2>3 DEF WorkerRec
  <2>5. ReadSoFar(w)
    <3>1. Len(inodes[i].blocks) \in Nat
      BY <2>1, FileType DEF IInv, Inode
    <3> QED BY <2>0, <2>4, <3>1 DEF ReadSoFar
  <2>6. \E h \in history : h.path = f.path /\ h.version.identity = i /\ before = ToldOf(h.version)
    <3>1. Now(f.path) \in history
      BY <1>3, <1>8 DEF IInv, DiskInv, Recorded
    <3>2. /\ Now(f.path).path = f.path /\ Now(f.path).version = Version(i, inodes[i])
          /\ Now(f.path).version.identity = i
      BY DEF Now, Version
    <3> QED BY <2>2, <3>1, <3>2
  <2>7. Reading(w)
    BY <1>3, <1>8, <2>1, <2>2, <2>4, <2>5, <2>6 DEF Reading
  <2>8. WorkerOK(w)
    BY <1>1, <2>4, <2>7 DEF WorkerOK
  <2>9. worker' = [worker EXCEPT ![c] = w]
    BY <1>8
  <2> QED BY <1>4, <1>8, <2>8, <2>9, Becomes, NoOutAdds, MoveKeeps
<1> QED BY <1>7, <1>8 DEF Opens

\* A worker that read on.
LEMMA ReadsOn ==
  ASSUME DiskInv, NEW w, WorkerOK(w), w.pc = "reads", NEW v \in WorkerRec, v.pc \in {"reads", "rechecks"},
         v.todo = w.todo, v.mode = w.mode, v.inode = w.inode, v.before = w.before,
         inodes[w.inode].changed = Stamp(w.before) => ReadSoFar(v)
  PROVE  WorkerOK(v)
<1>1. Reading(w)
  BY DEF WorkerOK
<1>2. Reading(v)
  BY <1>1 DEF Reading
<1> QED BY <1>2 DEF WorkerOK

\* A worker that read one more block.
LEMMA ReadsMore ==
  ASSUME DiskInv, NEW w, WorkerOK(w), w.pc = "reads", NEW blocks, blocks = inodes[w.inode].blocks,
         Len(w.read) < Len(blocks), NEW block, block = blocks[Len(w.read) + 1],
         w.mode = "inspect" /\ options.detect => block # Nul,
         NEW pc \in {"reads", "rechecks"},
         pc = "rechecks" => w.mode = "inspect" /\ ~options.hash /\ Len(w.read) + 1 >= Window,
         NEW v, v = [w EXCEPT !.read = Append(w.read, block), !.pc = pc]
  PROVE  WorkerOK(v)
<1> PICK read : read = Append(w.read, block)
  OBVIOUS
<1>1. w \in WorkerRec /\ w.read \in Seq(Blocks)
  BY DEF WorkerOK, WorkerRec
<1>2. blocks \in Seq(Blocks)
  BY OpenFile DEF Inode
<1>3. block \in Blocks
  BY <1>1, <1>2
<1>4. /\ read \in Seq(Blocks) /\ Len(read) = Len(w.read) + 1
      /\ \A k \in DOMAIN read : k \in DOMAIN w.read \/ k = Len(w.read) + 1
      /\ \A k \in DOMAIN w.read : read[k] = w.read[k]
      /\ read[Len(w.read) + 1] = block
  BY <1>1, <1>3, AppendFacts
<1>5. Len(w.read) \in Nat /\ Len(blocks) \in Nat
  BY <1>1, <1>2
<1>6. v = [w EXCEPT !.read = read, !.pc = pc]
  OBVIOUS
<1>7. /\ v \in WorkerRec /\ v.pc = pc /\ v.todo = w.todo /\ v.mode = w.mode
      /\ v.inode = w.inode /\ v.before = w.before /\ v.read = read
  BY <1>1, <1>4, <1>6 DEF WorkerRec
<1>8. ASSUME inodes[w.inode].changed = Stamp(w.before) PROVE ReadSoFar(v)
  <2>1. ReadSoFar(w)
    BY <1>8, OpenFile
  <2>2. \A k \in DOMAIN w.read : /\ w.read[k] = blocks[k]
                                 /\ w.mode = "inspect" /\ options.detect => w.read[k] # Nul
    BY <2>1 DEF ReadSoFar
  <2>3. \A k \in DOMAIN read : /\ read[k] = blocks[k]
                               /\ w.mode = "inspect" /\ options.detect => read[k] # Nul
    <3> SUFFICES ASSUME NEW k \in DOMAIN read
                 PROVE  read[k] = blocks[k] /\ (w.mode = "inspect" /\ options.detect => read[k] # Nul)
      OBVIOUS
    <3>1. CASE k \in DOMAIN w.read
      BY <1>4, <2>2, <3>1
    <3>2. CASE k = Len(w.read) + 1
      BY <1>4, <3>2
    <3> QED BY <1>4, <3>1, <3>2
  <2>4. Len(read) <= Len(blocks)
    BY <1>4, <1>5
  <2>5. pc = "rechecks" => w.mode = "inspect" /\ ~options.hash /\ Len(read) >= Window
    BY <1>4
  <2> QED BY <1>7, <2>3, <2>4, <2>5 DEF ReadSoFar
<1>9. v.pc \in {"reads", "rechecks"}
  BY <1>7
<1> QED BY <1>7, <1>8, <1>9, ReadsOn

LEMMA ReadsKeeps == ASSUME IInv, NEW c \in Chunks, Reads(c) PROVE IInv'
<1> PICK w : w = worker[c]
  OBVIOUS
<1> PICK f : f = File(c)
  OBVIOUS
<1> PICK blocks : blocks = inodes[w.inode].blocks
  OBVIOUS
<1> PICK n : n = Len(w.read)
  OBVIOUS
<1> PICK limit : limit = IF f.bytes < MaxBlocks THEN f.bytes ELSE MaxBlocks
  OBVIOUS
<1>1. WorkerOK(w) /\ w.pc = "reads" /\ w \in WorkerRec
  BY DEF IInv, WorkersOK, WorkerOK, Reads
<1>2. w.todo # <<>> /\ w.read \in Seq(Blocks) /\ n \in Nat
  BY <1>1 DEF WorkerOK, WorkerRec
<1>3. FileOK(f) /\ f.bytes \in Nat /\ f.bytes <= MaxBlocks /\ f = w.todo[1] /\ MaxBlocks \in Nat
  BY <1>2, CurrentFile, InspectionConstants
<1>4. blocks \in Seq(Blocks) /\ Len(blocks) \in Nat
  <2>1. inodes[w.inode] \in Inode
    BY <1>1, OpenFile DEF IInv
  <2> QED BY <2>1 DEF Inode
<1>5. OthersUnchanged
  BY DEF Reads
<1>6. ASSUME ~ChangedSince(f.path) PROVE Len(blocks) = f.bytes /\ n <= Len(blocks)
  BY <1>1, <1>3, <1>6, ReadingStill DEF IInv, ReadSoFar
<1>7. CASE LimitSkips(c, Interruption) /\ Requests(Interruption)
  <2>1. stop' \in {None, "Cancelled", "Timeout"}
    BY <1>7, InterruptionType DEF Requests, IInv, CallOK
  <2> QED BY <1>2, <1>5, <1>7, <2>1, InterruptionType, LimitSkipsFine, MoveKeeps
<1>8. CASE stop' = stop
  <2>1. stop' \in {None, "Cancelled", "Timeout"}
    BY <1>8 DEF IInv, CallOK
  <2>2. CASE n >= Len(blocks) /\ n # f.bytes /\ Warns(c, "Concurrent")
    <3>1. ChangedSince(f.path)
      BY <1>2, <1>3, <1>4, <1>6, <2>2
    <3> QED BY <1>2, <1>5, <2>1, <2>2, <3>1, WarnsFine, MoveKeeps
  <2>3. CASE n < Len(blocks) /\ n = limit /\ Warns(c, "Concurrent")
    <3>1. limit = f.bytes
      BY <1>3
    <3>2. ChangedSince(f.path)
      BY <1>2, <1>3, <1>4, <1>6, <2>3, <3>1
    <3> QED BY <1>2, <1>5, <2>1, <2>3, <3>2, WarnsFine, MoveKeeps
  <2>4. CASE SkipsBinary(c)
    BY <1>2, <1>5, <2>1, <2>4, SkipsBinaryFine, MoveKeeps
  <2>5. CASE n >= Len(blocks) /\ worker' = [worker EXCEPT ![c].pc = "rechecks"] /\ out' = out
    <3> PICK v : v = [w EXCEPT !.pc = "rechecks"]
      OBVIOUS
    <3>1. /\ v \in WorkerRec /\ v.pc = "rechecks" /\ v.todo = w.todo /\ v.mode = w.mode
          /\ v.inode = w.inode /\ v.before = w.before /\ v.read = w.read
      BY <1>1 DEF WorkerRec
    <3>2. ASSUME inodes[w.inode].changed = Stamp(w.before) PROVE ReadSoFar(v)
      <4>1. ReadSoFar(w)
        BY <1>1, <3>2, OpenFile DEF IInv
      <4> QED BY <1>2, <1>4, <2>5, <3>1, <4>1 DEF ReadSoFar
    <3>3. WorkerOK(v)
      BY <1>1, <3>1, <3>2, ReadsOn DEF IInv
    <3>4. worker' = [worker EXCEPT ![c] = v]
      BY <2>5
    <3> QED BY <1>5, <2>1, <2>5, <3>3, <3>4, Becomes, NoOutAdds, MoveKeeps
  <2>6. CASE /\ n < Len(blocks) /\ out' = out
             /\ w.mode = "validate" \/ ~options.detect \/ blocks[n + 1] # Nul
             /\ worker' = [worker EXCEPT ![c].read = Append(w.read, blocks[n + 1]),
                              ![c].pc = IF ~WholeFile(c) /\ n + 1 >= Window THEN "rechecks" ELSE "reads"]
    <3> PICK block : block = blocks[n + 1]
      OBVIOUS
    <3> PICK pc : pc = IF ~WholeFile(c) /\ n + 1 >= Window THEN "rechecks" ELSE "reads"
      OBVIOUS
    <3> PICK v : v = [w EXCEPT !.read = Append(w.read, block), !.pc = pc]
      OBVIOUS
    <3>1. Len(w.read) < Len(blocks) /\ (w.mode = "inspect" /\ options.detect => block # Nul)
      BY <2>6
    <3>2. pc \in {"reads", "rechecks"}
      OBVIOUS
    <3>3. pc = "rechecks" => w.mode = "inspect" /\ ~options.hash /\ Len(w.read) + 1 >= Window
      <4>1. w.mode \in {"validate", "inspect"}
        BY <1>1 DEF WorkerOK
      <4> QED BY <4>1 DEF WholeFile
    <3>4. WorkerOK(v)
      BY <1>1, <3>1, <3>2, <3>3, ReadsMore DEF IInv
    <3>7. worker' = [worker EXCEPT ![c] = v]
      BY <2>6
    <3> QED BY <1>5, <2>1, <2>6, <3>4, <3>7, Becomes, NoOutAdds, MoveKeeps
  <2> QED BY <2>2, <2>3, <2>4, <2>5, <2>6, <1>7 DEF Reads
<1> QED BY <1>7, <1>8 DEF Reads

\* What an inspection under strict validation says is what it read.
LEMMA InspectedIsSound ==
  ASSUME IInv, NEW c \in Chunks, worker[c].pc = "rechecks", worker[c].mode = "inspect",
         NEW v, v = Snapshot(worker[c].inode) \/ v = worker[c].before,
         options.contentStrict =>
            /\ v = Snapshot(worker[c].inode)
            /\ Len(inodes[worker[c].inode].blocks) = File(c).bytes
            /\ Reusable(worker[c].before, v)
  PROVE  Sound(Inspected(c, v))
<1> PICK w : w = worker[c]
  OBVIOUS
<1> PICK f : f = File(c)
  OBVIOUS
<1> PICK i : i = w.inode
  OBVIOUS
<1> PICK g : g = Inspected(c, v)
  OBVIOUS
<1>1. WorkerOK(w) /\ w.todo # <<>> /\ w \in WorkerRec
  BY DEF IInv, WorkersOK, WorkerOK
<1>2. f \in FileRec /\ f = w.todo[1] /\ w.read \in Seq(Blocks)
  BY <1>1, CurrentFile DEF WorkerRec
<1>3. i \in DOMAIN inodes /\ inodes[i] \in Inode /\ Tells(w.before)
  BY <1>1, OpenFile DEF IInv
<1>4. Tells(v) /\ v \in Told
  BY <1>3, HandleTells DEF IInv, Tells
<1>5. options.detect \in BOOLEAN /\ options.contentStrict \in BOOLEAN
  <2>1. scan \in DOMAIN plan /\ plan \in Seq(Option)
    BY DEF IInv, CallOK, Chunks
  <2>2. options \in Option
    BY <2>1 DEF options
  <2> QED BY <2>2 DEF Option
<1> PICK hash : hash = IF options.hash THEN w.read ELSE None
  OBVIOUS
<1>6. hash \in Seq(Blocks) \cup {None}
  BY <1>2
<1>7. g = [f EXCEPT !.version = v, !.binary_checked = options.detect, !.hash = hash,
                    !.proven = options.contentStrict]
  BY DEF Inspected
<1>8. /\ g \in FileRec /\ g.path = f.path /\ g.version = v /\ g.hash = hash
      /\ g.binary_checked = options.detect /\ g.proven = options.contentStrict
  BY <1>2, <1>4, <1>5, <1>6, <1>7 DEF FileRec
<1>9. ASSUME options.contentStrict PROVE Evidence(g)
  <2> PICK blocks : blocks = inodes[i].blocks
    OBVIOUS
  <2>1. v = Snapshot(i) /\ Stamp(v) = inodes[i].changed /\ Stamp(w.before) = Stamp(v)
    BY <1>3, <1>4, <1>9, HandleTells, SameStamp DEF IInv
  <2>2. ReadSoFar(w)
    BY <1>1, <2>1, OpenFile DEF IInv
  <2>3. PICK h \in history : h.path = f.path /\ h.version = Version(i, inodes[i]) /\ h.blocks = blocks
    BY <1>1, <1>2, <2>1, OpenFile DEF IInv
  <2>4. Reusable(h.version, v)
    BY <1>3, <2>1, <2>3, HandleTells DEF IInv
  <2>5. blocks \in Seq(Blocks) /\ Len(blocks) \in Nat /\ Len(w.read) \in Nat
    BY <1>2, <1>3 DEF Inode
  <2>6. /\ Len(w.read) <= Len(blocks)
        /\ \A k \in DOMAIN w.read : w.read[k] = blocks[k] /\ (options.detect => w.read[k] # Nul)
        /\ Len(w.read) = Len(blocks) \/ (~options.hash /\ Len(w.read) >= Window)
    BY <2>2 DEF ReadSoFar
  <2>7. hash # None => blocks = hash
    <3> SUFFICES ASSUME hash # None PROVE blocks = hash
      OBVIOUS
    <3>1. options.hash /\ hash = w.read
      OBVIOUS
    <3>2. Len(w.read) = Len(blocks)
      BY <2>6, <3>1
    <3>3. w.read = blocks
      BY <1>2, <2>5, <2>6, <3>2, SameSequence
    <3> QED BY <3>1, <3>3
  <2>8. ASSUME options.detect, NEW k \in DOMAIN blocks, blocks[k] = Nul PROVE hash = None /\ k > Window
    <3>1. k \notin DOMAIN w.read
      BY <2>6, <2>8
    <3>2. k \in Nat /\ k > Len(w.read) /\ k <= Len(blocks)
      BY <1>2, <2>5, <3>1
    <3>3. ~options.hash /\ Len(w.read) >= Window
      BY <2>5, <2>6, <3>2
    <3>4. Window \in Nat
      BY InspectionConstants
    <3> QED BY <2>5, <3>2, <3>3, <3>4
  <2>9. Shows(h, g)
    BY <1>8, <2>3, <2>7, <2>8 DEF Shows
  <2> QED BY <1>4, <1>8, <2>3, <2>4, <2>9, EvidenceOfOne DEF IInv
<1>10. Sound(g)
  BY <1>4, <1>8, <1>9 DEF Sound
<1> QED BY <1>10

\* A worker that inspects its file again, under the version it has now.
LEMMA StartsOver ==
  ASSUME IInv, NEW w, WorkerOK(w), w.pc = "rechecks",
         NEW after, after = Snapshot(w.inode),
         Len(inodes[w.inode].blocks) = w.todo[1].bytes, Reusable(w.before, after),
         NEW v, v = [w EXCEPT !.pc = "opens", !.mode = "inspect", !.todo[1].version = after]
  PROVE  WorkerOK(v)
<1> PICK f : f = w.todo[1]
  OBVIOUS
<1> PICK g : g = [f EXCEPT !.version = after]
  OBVIOUS
<1> PICK todo : todo = [w.todo EXCEPT ![1] = g]
  OBVIOUS
<1>1. /\ w \in WorkerRec /\ w.todo \in Seq(FileRec) /\ w.todo # <<>>
      /\ \A k \in DOMAIN w.todo : FileOK(w.todo[k])
  BY DEF WorkerOK, WorkerRec
<1>2. 1 \in DOMAIN w.todo
  BY <1>1, TailFacts
<1>3. FileOK(f) /\ f \in FileRec
  BY <1>1, <1>2 DEF FileOK
<1>4. w.inode \in DOMAIN inodes /\ Tells(w.before) /\ Stamp(w.before) = Stamp(f.version)
  BY OpenFile DEF IInv
<1>5. Tells(after) /\ after \in Told /\ Stamp(after) = inodes[w.inode].changed
  BY <1>4, HandleTells DEF IInv, Tells
<1>6. Stamp(after) = Stamp(w.before)
  BY <1>4, <1>5, SameStamp
<1>7. g \in FileRec /\ g.path = f.path /\ g.bytes = f.bytes /\ g.version = after
  BY <1>3, <1>5 DEF FileRec
<1>8. FileOK(g)
  <2>1. PICK h \in history : /\ h.path = f.path /\ h.version = Version(w.inode, inodes[w.inode])
                             /\ h.blocks = inodes[w.inode].blocks
    BY <1>5, <1>6, OpenFile DEF IInv
  <2>2. Reusable(h.version, after) /\ Len(h.blocks) = g.bytes
    BY <1>4, <1>7, <2>1, HandleTells DEF IInv
  <2>3. \E k \in DOMAIN input : input[k].path = g.path /\ Stamp(input[k].version) = Stamp(g.version)
    <3>1. \E k \in DOMAIN input : input[k].path = f.path /\ Stamp(input[k].version) = Stamp(f.version)
      BY <1>3 DEF FileOK
    <3>2. Stamp(g.version) = Stamp(f.version)
      BY <1>4, <1>6, <1>7
    <3> QED BY <1>7, <3>1, <3>2
  <2>4. g.bytes <= MaxBlocks
    BY <1>3, <1>7 DEF FileOK
  <2> QED BY <1>5, <1>7, <2>1, <2>2, <2>3, <2>4 DEF FileOK
<1>9. /\ todo \in Seq(FileRec) /\ todo # <<>>
      /\ \A k \in DOMAIN todo : k \in DOMAIN w.todo /\ (todo[k] = g \/ todo[k] = w.todo[k])
  BY <1>1, <1>2, <1>7
<1>10. v = [w EXCEPT !.pc = "opens", !.mode = "inspect", !.todo = todo]
  OBVIOUS
<1>11. v \in WorkerRec /\ v.pc = "opens" /\ v.mode = "inspect" /\ v.todo = todo
  BY <1>1, <1>9, <1>10 DEF WorkerRec
<1>12. \A k \in DOMAIN todo : FileOK(todo[k])
  BY <1>1, <1>8, <1>9
<1> QED BY <1>9, <1>11, <1>12 DEF WorkerOK

LEMMA RechecksKeeps == ASSUME IInv, NEW c \in Chunks, Rechecks(c) PROVE IInv'
<1> PICK w : w = worker[c]
  OBVIOUS
<1> PICK f : f = File(c)
  OBVIOUS
<1> PICK after : after = Snapshot(w.inode)
  OBVIOUS
<1> DEFINE checked == w.mode = "validate" \/ options.contentStrict
           changed == Len(inodes[w.inode].blocks) # f.bytes \/ ~Reusable(w.before, after)
<1>1. WorkerOK(w) /\ w.pc = "rechecks" /\ w \in WorkerRec
  BY DEF IInv, WorkersOK, WorkerOK, Rechecks
<1>2. w.todo # <<>>
  BY <1>1 DEF WorkerOK
<1>3. FileOK(f) /\ f \in FileRec /\ f = w.todo[1]
  BY <1>2, CurrentFile
<1>4. w.inode \in DOMAIN inodes /\ Tells(w.before) /\ Stamp(w.before) = Stamp(f.version)
  BY <1>1, <1>3, OpenFile DEF IInv
<1>5. OthersUnchanged /\ stop' = stop
  BY DEF Rechecks
<1>6. stop' \in {None, "Cancelled", "Timeout"}
  BY <1>5 DEF IInv, CallOK
<1>7. CASE changed /\ Warns(c, "Concurrent")
  <2>1. ChangedSince(f.path)
    <3> SUFFICES ASSUME ~ChangedSince(f.path) PROVE FALSE
      OBVIOUS
    <3>1. Len(inodes[w.inode].blocks) = f.bytes /\ w.before = after
      BY <1>1, <1>3, ReadingStill DEF IInv
    <3>2. Reusable(after, after)
      BY <1>4, HandleTells DEF IInv
    <3> QED BY <1>7, <3>1, <3>2
  <2> QED BY <1>2, <1>5, <1>6, <1>7, <2>1, WarnsFine, MoveKeeps
<1>8. CASE /\ ~(checked /\ changed) /\ w.mode = "inspect"
           /\ Keeps(c, Inspected(c, IF checked THEN after ELSE w.before))
  <2> PICK v : v = IF checked THEN after ELSE w.before
    OBVIOUS
  <2>1. v = Snapshot(worker[c].inode) \/ v = worker[c].before
    OBVIOUS
  <2>2. options.contentStrict => /\ v = Snapshot(worker[c].inode)
                                 /\ Len(inodes[worker[c].inode].blocks) = File(c).bytes
                                 /\ Reusable(worker[c].before, v)
    BY <1>8
  <2>3. Sound(Inspected(c, v))
    BY <1>1, <1>8, <2>1, <2>2, InspectedIsSound
  <2>4. Keeps(c, Inspected(c, v))
    BY <1>8
  <2> QED BY <1>2, <1>5, <1>6, <2>3, <2>4, KeepsFine, MoveKeeps
<1>9. ASSUME ~changed, NEW e \in Candidates(f), Keeps(c, WithCached([f EXCEPT !.version = after], e))
      PROVE  IInv'
  <2>1. Tells(after) /\ Stamp(after) = inodes[w.inode].changed /\ Stamp(after) = Stamp(w.before)
    BY <1>4, <1>9, HandleTells, SameStamp DEF IInv
  <2>2. PICK h \in history : h.path = f.path /\ h.version = Version(w.inode, inodes[w.inode])
    BY <1>1, <1>3, <2>1, OpenFile DEF IInv
  <2>3. Reusable(h.version, after)
    BY <1>4, <2>2, HandleTells DEF IInv
  <2>4. Sound(WithCached([f EXCEPT !.version = after], e))
    BY <1>3, <1>4, <2>1, <2>2, <2>3, CachedIsSound
  <2> QED BY <1>2, <1>5, <1>6, <1>9, <2>4, KeepsFine, MoveKeeps
<1>10. CASE /\ ~changed /\ out' = out
            /\ worker' = [worker EXCEPT ![c].pc = "opens", ![c].mode = "inspect",
                                        ![c].todo[1].version = after]
  <2> PICK v : v = [w EXCEPT !.pc = "opens", !.mode = "inspect", !.todo[1].version = after]
    OBVIOUS
  <2>1. WorkerOK(v)
    BY <1>1, <1>3, <1>10, StartsOver
  <2>2. worker' = [worker EXCEPT ![c] = v]
    BY <1>10
  <2> QED BY <1>5, <1>6, <1>10, <2>1, <2>2, Becomes, NoOutAdds, MoveKeeps
<1> QED BY <1>7, <1>8, <1>9, <1>10 DEF Rechecks

-----------------------------------------------------------------------------
(* The theorems *)

LEMMA StutterKeeps == ASSUME IInv, UNCHANGED vars PROVE IInv'
<1>1. /\ platform' = platform /\ disk' = disk /\ plan' = plan /\ scan' = scan /\ input' = input
      /\ UNCHANGED <<worker, out, cache, phase, stop>>
  BY DEF vars, call
<1>2. DiskInv' /\ Grows
  BY <1>1, Still DEF IInv
<1>3. stop' \in {None, "Cancelled", "Timeout"}
  BY <1>1 DEF IInv, CallOK
<1> QED BY <1>1, <1>2, <1>3, WorkersLast

LEMMA StepInv == ASSUME IInv, [Next]_vars PROVE IInv'
<1>1. CASE Writes \/ Cancels \/ Expires
  BY <1>1, OutsideKeeps
<1>2. CASE Begins
  BY <1>2, BeginsKeeps
<1>3. CASE Returns
  BY <1>3, ReturnsKeeps
<1>4. ASSUME NEW c \in Chunks, WorkerStep(c) PROVE IInv'
  BY <1>4, EndsKeeps, TakesKeeps, PublishesKeeps, OpensKeeps, ReadsKeeps, RechecksKeeps DEF WorkerStep
<1>5. CASE UNCHANGED vars
  BY <1>5, StutterKeeps
<1> QED BY <1>1, <1>2, <1>3, <1>4, <1>5 DEF Next

\* The inductive invariant of the batch inspection.
LEMMA InspectionInvariant == Spec => []IInv
<1>1. Init => IInv
  BY InitInv
<1>2. IInv /\ [Next]_vars => IInv'
  BY StepInv
<1> QED BY <1>1, <1>2, PTL DEF Spec

\* Type correctness (inspect_chunk): the state of a file between two steps of
\* its worker is a state of the loop, and the published reason is one of the two.
THEOREM InspectionTypeCorrect == Spec => []TypeOK
<1>1. IInv => TypeOK
  <2> SUFFICES ASSUME IInv PROVE TypeOK
    OBVIOUS
  <2>1. phase \in {"idle", "inspecting"} /\ stop \in {None, "Cancelled", "Timeout"}
    BY DEF IInv, CallOK
  <2>2. ASSUME NEW c \in Chunks
        PROVE  /\ worker[c].pc \in {"takes", "publishes", "opens", "reads", "rechecks", "ended"}
               /\ worker[c].mode \in {None, "validate", "inspect"}
               /\ worker[c].pc \in {"takes", "publishes"} => worker[c].mode = None
    <3>1. WorkerOK(worker[c])
      BY DEF IInv, WorkersOK
    <3> QED BY <3>1 DEF WorkerOK, WorkerRec
  <2> QED BY <2>1, <2>2 DEF TypeOK
<1> QED BY <1>1, InspectionInvariant, PTL

\* Evidence is of its version (inspect, validate_cached, apply_cached): whatever
\* the writers do between any two steps, and over any number of scans that hand
\* their cache on, the hash a file has is of the content it had under the
\* version it is given, and a file checked for binaries is not one.
THEOREM EvidenceHolds == Spec => []EvidenceIsOfItsVersion
<1>1. IInv => EvidenceIsOfItsVersion
  BY DEF IInv, CacheOK, WorkersOK, OutOK, Sound, EvidenceIsOfItsVersion
<1> QED BY <1>1, InspectionInvariant, PTL

\* No false alarm (read_bounded, inspect, validate_cached): a file reported as
\* changed or unreadable was changed by a writer after the walk saw it.
THEOREM NoFalseAlarm == Spec => []ChangesAreReal
<1>1. IInv => ChangesAreReal
  BY DEF IInv, WorkersOK, OutOK, Warned, ChangesAreReal
<1> QED BY <1>1, InspectionInvariant, PTL
-----------------------------------------------------------------------------
(* What becomes of the files of a chunk *)

\* Where the walk has a path; Place(p) is At(input, p).
At(F, p) == CHOOSE k \in DOMAIN F : F[k].path = p

\* The paths are in the order of the walk; those of s all before those of r.
Rising(F, s)    == \A i, j \in DOMAIN s : i < j => At(F, s[i].path) < At(F, s[j].path)
Before(F, s, r) == \A i \in DOMAIN s, j \in DOMAIN r : At(F, s[i].path) < At(F, r[j].path)

Listed(F, A, todo, s) == PathsOf(s) \subseteq A /\ Rising(F, s) /\ Before(F, s, todo)

Errors  == {"IoError", "Concurrent"}
Limited(s) == OfKind(s, {"ScanLimit"})

\* The files of a chunk, whose paths are A, that are not still to do: each is
\* among the files or among those left out, those that a limit left out last.
AllTold(F, A, todo, o) ==
    /\ \A p \in A \ PathsOf(todo) : (p \in PathsOf(o.files)) # (p \in PathsOf(o.skipped))
    /\ PathsOf(o.warnings) = OfKind(o.skipped, Errors)
    /\ (o.termination # None) <=> (Limited(o.skipped) # {})
    /\ \A p \in Limited(o.skipped), q \in A \ PathsOf(todo) :
          At(F, p) < At(F, q) => q \in Limited(o.skipped)

Account(F, A, complete, todo, o) ==
    /\ PathsOf(todo) \subseteq A /\ Rising(F, todo)
    /\ Listed(F, A, todo, o.files) /\ Listed(F, A, todo, o.skipped) /\ Listed(F, A, todo, o.warnings)
    /\ complete => AllTold(F, A, todo, o)

\* A reason that is one of this scan.
Occurred(reason) == (reason = "Cancelled" => cancelled) /\ (reason = "Timeout" => expired)

\* A worker w with the results o leaves a file out because of a reason that is
\* published - s is what is -, and it takes no file up after that.
ReasonsOK(w, o, s) ==
    /\ Occurred(o.termination) /\ Occurred(w.own)
    /\ o.termination # None => s # None /\ w.pc \in {"takes", "ended"}
    /\ w.pc = "publishes" => w.own # None

ChunkPaths(c) == PathsOf(ChunksOf(input, options.workers)[c])

ChunkOK(c, w, o, s) ==
    /\ ReasonsOK(w, o, s)
    /\ w.pc = "ended" => w.todo = <<>>
    /\ o.error = None => Account(input, ChunkPaths(c), options.complete, w.todo, o)

ReportOK ==
    Reports => /\ InWalkOrder(result.files) /\ InWalkOrder(result.skipped)
               /\ InWalkOrder(result.warnings)
               /\ Occurred(result.termination)
               /\ options.complete =>
                    LET limited == Limited(result.skipped)
                        chunks  == ChunksOf(input, options.workers)
                    IN  /\ \A k \in DOMAIN input :
                             (input[k].path \in PathsOf(result.files))
                                # (input[k].path \in PathsOf(result.skipped))
                        /\ PathsOf(result.warnings) = OfKind(result.skipped, Errors)
                        /\ (result.termination # None) <=> (limited # {})
                        /\ \A c \in DOMAIN chunks : \A i, j \in DOMAIN chunks[c] :
                             i < j /\ chunks[c][i].path \in limited => chunks[c][j].path \in limited

AccountInv ==
    /\ Occurred(stop)
    /\ phase = "inspecting" => Chunks = DOMAIN ChunksOf(input, options.workers)
    /\ \A c \in Chunks : ChunkOK(c, worker[c], out[c], stop)
    /\ ReportOK


LEMMA PathsOfAppend ==
  ASSUME NEW S, NEW s \in Seq(S), NEW x \in S
  PROVE  PathsOf(Append(s, x)) = PathsOf(s) \cup {x.path}
<1>1. ASSUME NEW k \in DOMAIN Append(s, x) PROVE Append(s, x)[k].path \in PathsOf(s) \cup {x.path}
  BY AppendFacts DEF PathsOf
<1>2. \A k \in DOMAIN s : s[k].path \in PathsOf(Append(s, x))
  BY AppendFacts DEF PathsOf
<1>3. x.path \in PathsOf(Append(s, x))
  BY AppendFacts DEF PathsOf
<1> QED BY <1>1, <1>2, <1>3 DEF PathsOf

LEMMA OfKindAppend ==
  ASSUME NEW s \in Seq(Skip), NEW x \in Skip, NEW K
  PROVE  /\ x.kind \in K => OfKind(Append(s, x), K) = OfKind(s, K) \cup {x.path}
         /\ x.kind \notin K => OfKind(Append(s, x), K) = OfKind(s, K)
<1>1. ASSUME NEW k \in DOMAIN Append(s, x), Append(s, x)[k].kind \in K
      PROVE  Append(s, x)[k].path \in OfKind(s, K) \/ (x.kind \in K /\ Append(s, x)[k].path = x.path)
  BY <1>1, AppendFacts DEF OfKind
<1>2. ASSUME NEW k \in DOMAIN s, s[k].kind \in K PROVE s[k].path \in OfKind(Append(s, x), K)
  BY <1>2, AppendFacts DEF OfKind
<1>3. x.kind \in K => x.path \in OfKind(Append(s, x), K)
  BY AppendFacts DEF OfKind
<1>4. OfKind(s, K) \subseteq OfKind(Append(s, x), K)
  BY <1>2 DEF OfKind
<1>5. \A p \in OfKind(Append(s, x), K) : p \in OfKind(s, K) \/ (x.kind \in K /\ p = x.path)
  BY <1>1 DEF OfKind
<1> QED BY <1>3, <1>4, <1>5

\* The file at hand comes first of what is to do.
LEMMA HeadAndTail ==
  ASSUME NEW F, NEW A, \A p \in A : At(F, p) \in Nat,
         NEW todo \in Seq(FileRec), todo # <<>>, PathsOf(todo) \subseteq A, Rising(F, todo)
  PROVE  /\ Head(todo).path \in A /\ PathsOf(Tail(todo)) \subseteq A /\ Rising(F, Tail(todo))
         /\ PathsOf(todo) = {Head(todo).path} \cup PathsOf(Tail(todo))
         /\ Head(todo).path \notin PathsOf(Tail(todo))
         /\ \A i \in DOMAIN Tail(todo) : At(F, Head(todo).path) < At(F, Tail(todo)[i].path)
<1> DEFINE r == Tail(todo)
           h == Head(todo)
<1>1. /\ r \in Seq(FileRec) /\ 1 \in DOMAIN todo /\ todo[1] = h
      /\ \A i \in DOMAIN r : i \in Nat /\ i >= 1 /\ i + 1 \in DOMAIN todo /\ r[i] = todo[i + 1]
      /\ \A i \in DOMAIN todo : i # 1 => i - 1 \in DOMAIN r /\ r[i - 1] = todo[i]
  BY TailFacts
<1> HIDE DEF r, h
<1>2. \A i \in DOMAIN r : At(F, h.path) < At(F, r[i].path)
  <2> TAKE i \in DOMAIN r
  <2>1. i + 1 \in DOMAIN todo /\ 1 < i + 1 /\ r[i] = todo[i + 1]
    BY <1>1
  <2> QED BY <1>1, <2>1 DEF Rising
<1>3. PathsOf(todo) = {h.path} \cup PathsOf(r)
  <2>1. \A i \in DOMAIN todo : todo[i].path \in {h.path} \cup PathsOf(r)
    BY <1>1 DEF PathsOf
  <2>2. h.path \in PathsOf(todo) /\ \A i \in DOMAIN r : r[i].path \in PathsOf(todo)
    BY <1>1 DEF PathsOf
  <2> QED BY <2>1, <2>2 DEF PathsOf
<1>4. h.path \in A /\ PathsOf(r) \subseteq A /\ At(F, h.path) \in Nat
  BY <1>3
<1>5. h.path \notin PathsOf(r)
  BY <1>2, <1>4 DEF PathsOf
<1>6. Rising(F, r)
  <2> SUFFICES ASSUME NEW i \in DOMAIN r, NEW j \in DOMAIN r, i < j
               PROVE  At(F, r[i].path) < At(F, r[j].path)
    BY DEF Rising
  <2>1. i + 1 \in DOMAIN todo /\ j + 1 \in DOMAIN todo /\ i + 1 < j + 1
    BY <1>1
  <2> QED BY <1>1, <2>1 DEF Rising
<1> QED BY <1>2, <1>3, <1>4, <1>5, <1>6 DEF r, h

LEMMA ListedTail ==
  ASSUME NEW F, NEW A, NEW todo \in Seq(FileRec), todo # <<>>, NEW s, Listed(F, A, todo, s)
  PROVE  Listed(F, A, Tail(todo), s)
<1>1. \A i \in DOMAIN Tail(todo) : i + 1 \in DOMAIN todo /\ Tail(todo)[i] = todo[i + 1]
  BY TailFacts
<1> QED BY <1>1 DEF Listed, Before

LEMMA ListedAppend ==
  ASSUME NEW F, NEW A, \A p \in A : At(F, p) \in Nat,
         NEW todo \in Seq(FileRec), todo # <<>>, PathsOf(todo) \subseteq A, Rising(F, todo),
         NEW S, NEW s \in Seq(S), NEW x \in S, x.path = Head(todo).path,
         Listed(F, A, todo, s)
  PROVE  Listed(F, A, Tail(todo), Append(s, x))
<1> DEFINE r == Tail(todo)
           t == Append(s, x)
<1>1. /\ 1 \in DOMAIN todo /\ todo[1] = Head(todo)
      /\ \A i \in DOMAIN r : i + 1 \in DOMAIN todo /\ r[i] = todo[i + 1]
  BY TailFacts
<1>2. /\ DOMAIN s = 1 .. Len(s) /\ Len(s) \in Nat /\ DOMAIN t = 1 .. (Len(s) + 1)
      /\ t[Len(s) + 1] = x /\ \A i \in DOMAIN s : t[i] = s[i]
  OBVIOUS
<1>3. x.path \in A /\ \A i \in DOMAIN r : At(F, x.path) < At(F, r[i].path)
  BY HeadAndTail
<1>4. PathsOf(t) \subseteq A
  BY <1>3, PathsOfAppend DEF Listed
<1>5. \A i \in DOMAIN s : At(F, s[i].path) < At(F, x.path)
  BY <1>1 DEF Listed, Before
<1> HIDE DEF r, t
<1>6. Rising(F, t)
  <2> SUFFICES ASSUME NEW i \in DOMAIN t, NEW j \in DOMAIN t, i < j
               PROVE  At(F, t[i].path) < At(F, t[j].path)
    BY DEF Rising
  <2>1. i \in DOMAIN s /\ (j \in DOMAIN s \/ j = Len(s) + 1)
    BY <1>2
  <2> QED BY <1>2, <1>5, <2>1 DEF Listed, Rising
<1>7. Before(F, t, r)
  <2> SUFFICES ASSUME NEW i \in DOMAIN t, NEW j \in DOMAIN r
               PROVE  At(F, t[i].path) < At(F, r[j].path)
    BY DEF Before
  <2>1. CASE i \in DOMAIN s
    BY <1>1, <1>2, <2>1 DEF Listed, Before
  <2>2. CASE i = Len(s) + 1
    BY <1>2, <1>3, <2>2
  <2> QED BY <1>2, <2>1, <2>2
<1> QED BY <1>4, <1>6, <1>7 DEF Listed, r, t

\* What is told of the file at hand: nothing yet.
LEMMA NotYet ==
  ASSUME NEW F, NEW A, \A p \in A : At(F, p) \in Nat,
         NEW todo \in Seq(FileRec), todo # <<>>, NEW s, Listed(F, A, todo, s)
  PROVE  /\ Head(todo).path \notin PathsOf(s)
         /\ \A p \in PathsOf(s) : p \in A /\ At(F, p) < At(F, Head(todo).path)
<1>1. 1 \in DOMAIN todo /\ todo[1] = Head(todo)
  BY TailFacts
<1>2. \A i \in DOMAIN s : At(F, s[i].path) < At(F, Head(todo).path)
  BY <1>1 DEF Listed, Before
<1>3. \A p \in PathsOf(s) : p \in A /\ At(F, p) < At(F, Head(todo).path)
  BY <1>2 DEF Listed, PathsOf
<1> QED BY <1>3
-----------------------------------------------------------------------------
(* The file at hand is dealt with *)

\* It is kept: another one among the files.
LEMMA KeptIsTold ==
  ASSUME NEW F, NEW A, \A p \in A : At(F, p) \in Nat, NEW complete \in BOOLEAN,
         NEW todo \in Seq(FileRec), todo # <<>>, NEW o \in OutRec, NEW v \in OutRec,
         Account(F, A, complete, todo, o), o.termination = None,
         NEW f \in FileRec, f.path = Head(todo).path,
         v.files = Append(o.files, f), v.skipped = o.skipped, v.warnings = o.warnings,
         v.termination = o.termination
  PROVE  Account(F, A, complete, Tail(todo), v)
<1> DEFINE p == Head(todo).path
           r == Tail(todo)
<1>1. /\ PathsOf(todo) \subseteq A /\ Rising(F, todo)
      /\ Listed(F, A, todo, o.files) /\ Listed(F, A, todo, o.skipped) /\ Listed(F, A, todo, o.warnings)
  BY DEF Account
<1>2. o.files \in Seq(FileRec)
  BY DEF OutRec
<1>3. p \in A /\ PathsOf(r) \subseteq A /\ Rising(F, r) /\ PathsOf(todo) = {p} \cup PathsOf(r)
  BY <1>1, HeadAndTail
<1>4. Listed(F, A, r, v.skipped) /\ Listed(F, A, r, v.warnings)
  BY <1>1, ListedTail
<1>5. Listed(F, A, r, v.files)
  BY <1>1, <1>2, ListedAppend
<1>6. PathsOf(v.files) = PathsOf(o.files) \cup {p}
  BY <1>2, PathsOfAppend
<1>7. p \notin PathsOf(o.files) /\ p \notin PathsOf(o.skipped)
  BY <1>1, NotYet
<1> HIDE DEF p, r
<1>8. ASSUME complete PROVE AllTold(F, A, r, v)
  <2>1. AllTold(F, A, todo, o)
    BY <1>8 DEF Account
  <2>2. Limited(v.skipped) = {} /\ v.termination = None
    BY <2>1 DEF AllTold
  <2>3. \A q \in A \ PathsOf(r) : (q \in PathsOf(v.files)) # (q \in PathsOf(v.skipped))
    <3> TAKE q \in A \ PathsOf(r)
    <3>1. q = p \/ q \in A \ PathsOf(todo)
      BY <1>3
    <3>2. CASE q = p
      BY <1>6, <1>7, <3>2
    <3>3. CASE q \in A \ PathsOf(todo)
      <4>1. (q \in PathsOf(o.files)) # (q \in PathsOf(o.skipped))
        BY <2>1, <3>3 DEF AllTold
      <4>2. q # p
        BY <1>3, <3>3
      <4> QED BY <1>6, <4>1, <4>2
    <3> QED BY <3>1, <3>2, <3>3
  <2>4. PathsOf(v.warnings) = OfKind(v.skipped, Errors)
    BY <2>1 DEF AllTold
  <2> QED BY <2>2, <2>3, <2>4 DEF AllTold
<1> QED BY <1>3, <1>4, <1>5, <1>8 DEF Account, r

\* It is left out: the report says so if it is complete.  Errors come with a
\* warning, and a limit with the termination of the chunk.
LEMMA LeftOutIsTold ==
  ASSUME NEW F, NEW A, \A p \in A : At(F, p) \in Nat, NEW complete \in BOOLEAN,
         NEW todo \in Seq(FileRec), todo # <<>>, NEW o \in OutRec, NEW v \in OutRec,
         Account(F, A, complete, todo, o),
         NEW e \in Skip, e.path = Head(todo).path,
         v.files = o.files,
         v.skipped = IF complete THEN Append(o.skipped, e) ELSE o.skipped,
         v.warnings = IF e.kind \in Errors THEN Append(o.warnings, e) ELSE o.warnings,
         IF e.kind = "ScanLimit" THEN v.termination # None
                                 ELSE v.termination = None /\ o.termination = None
  PROVE  Account(F, A, complete, Tail(todo), v)
<1> DEFINE p == Head(todo).path
           r == Tail(todo)
<1>1. /\ PathsOf(todo) \subseteq A /\ Rising(F, todo)
      /\ Listed(F, A, todo, o.files) /\ Listed(F, A, todo, o.skipped) /\ Listed(F, A, todo, o.warnings)
  BY DEF Account
<1>2. o.skipped \in Seq(Skip) /\ o.warnings \in Seq(Skip)
  BY DEF OutRec
<1>3. p \in A /\ PathsOf(r) \subseteq A /\ Rising(F, r) /\ PathsOf(todo) = {p} \cup PathsOf(r)
  BY <1>1, HeadAndTail
<1>4. Listed(F, A, r, v.files)
  BY <1>1, ListedTail
<1>5. Listed(F, A, r, v.skipped)
  BY <1>1, <1>2, ListedTail, ListedAppend
<1>6. Listed(F, A, r, v.warnings)
  BY <1>1, <1>2, ListedTail, ListedAppend
<1>7. /\ p \notin PathsOf(o.files)
      /\ \A q \in PathsOf(o.files) \cup PathsOf(o.skipped) : q \in A /\ At(F, q) < At(F, p)
  BY <1>1, NotYet
<1>8. At(F, p) \in Nat
  BY <1>3
<1> HIDE DEF p, r
<1>9. ASSUME complete PROVE AllTold(F, A, r, v)
  <2>1. AllTold(F, A, todo, o)
    BY <1>9 DEF Account
  <2>2. PathsOf(v.skipped) = PathsOf(o.skipped) \cup {p}
    BY <1>2, <1>9, PathsOfAppend DEF p
  <2>3. \A q \in A \ PathsOf(r) : (q \in PathsOf(v.files)) # (q \in PathsOf(v.skipped))
    <3> TAKE q \in A \ PathsOf(r)
    <3>1. q = p \/ q \in A \ PathsOf(todo)
      BY <1>3
    <3>2. CASE q = p
      BY <1>7, <2>2, <3>2
    <3>3. CASE q \in A \ PathsOf(todo)
      <4>1. (q \in PathsOf(o.files)) # (q \in PathsOf(o.skipped))
        BY <2>1, <3>3 DEF AllTold
      <4>2. q # p
        BY <1>3, <3>3
      <4> QED BY <2>2, <4>1, <4>2
    <3> QED BY <3>1, <3>2, <3>3
  <2>4. PathsOf(v.warnings) = OfKind(v.skipped, Errors)
    <3>1. PathsOf(o.warnings) = OfKind(o.skipped, Errors)
      BY <2>1 DEF AllTold
    <3>2. CASE e.kind \in Errors
      <4>1. PathsOf(v.warnings) = PathsOf(o.warnings) \cup {e.path}
        BY <1>2, <3>2, PathsOfAppend
      <4>2. OfKind(v.skipped, Errors) = OfKind(o.skipped, Errors) \cup {e.path}
        BY <1>2, <1>9, <3>2, OfKindAppend
      <4> QED BY <3>1, <4>1, <4>2
    <3>3. CASE e.kind \notin Errors
      <4>1. OfKind(v.skipped, Errors) = OfKind(o.skipped, Errors)
        BY <1>2, <1>9, <3>3, OfKindAppend
      <4> QED BY <3>1, <3>3, <4>1
    <3> QED BY <3>2, <3>3
  <2>5. CASE e.kind = "ScanLimit"
    <3>1. Limited(v.skipped) = Limited(o.skipped) \cup {p}
      <4>1. OfKind(Append(o.skipped, e), {"ScanLimit"}) = OfKind(o.skipped, {"ScanLimit"}) \cup {e.path}
        BY <1>2, <2>5, OfKindAppend
      <4> QED BY <1>9, <4>1 DEF Limited, p
    <3>2. ASSUME NEW l \in Limited(v.skipped), NEW q \in A \ PathsOf(r), At(F, l) < At(F, q), q # p
          PROVE  q \in Limited(v.skipped)
      <4>1. q \in A \ PathsOf(todo)
        BY <1>3, <3>2
      <4>2. q \in PathsOf(o.files) \/ q \in PathsOf(o.skipped)
        BY <2>1, <4>1 DEF AllTold
      <4>3. At(F, q) < At(F, p) /\ At(F, q) \in Nat
        BY <1>7, <4>1, <4>2
      <4>4. l \in Limited(o.skipped)
        BY <1>8, <3>1, <3>2, <4>3
      <4> QED BY <2>1, <3>1, <3>2, <4>1, <4>4 DEF AllTold
    <3>3. v.termination # None
      BY <2>5
    <3> QED BY <2>3, <2>4, <3>1, <3>2, <3>3 DEF AllTold
  <2>6. CASE e.kind # "ScanLimit"
    <3>1. Limited(v.skipped) = Limited(o.skipped)
      <4>1. OfKind(Append(o.skipped, e), {"ScanLimit"}) = OfKind(o.skipped, {"ScanLimit"})
        BY <1>2, <2>6, OfKindAppend
      <4> QED BY <1>9, <4>1 DEF Limited
    <3>2. Limited(o.skipped) = {} /\ v.termination = None
      BY <2>1, <2>6 DEF AllTold
    <3> QED BY <2>3, <2>4, <3>1, <3>2 DEF AllTold
  <2> QED BY <2>5, <2>6
<1> QED BY <1>3, <1>4, <1>5, <1>6, <1>9 DEF Account, r

\* A worker goes on with the same files.
LEMMA SameTold ==
  ASSUME NEW F, NEW A, NEW complete \in BOOLEAN, NEW todo, NEW rest, NEW o,
         Account(F, A, complete, todo, o),
         DOMAIN rest = DOMAIN todo, \A k \in DOMAIN todo : rest[k].path = todo[k].path
  PROVE  Account(F, A, complete, rest, o)
<1>1. PathsOf(rest) = PathsOf(todo)
  BY DEF PathsOf
<1>2. Rising(F, todo) => Rising(F, rest)
  BY DEF Rising
<1>3. \A s : Listed(F, A, todo, s) => Listed(F, A, rest, s)
  BY DEF Listed, Before
<1>4. AllTold(F, A, todo, o) => AllTold(F, A, rest, o)
  BY <1>1 DEF AllTold
<1> QED BY <1>1, <1>2, <1>3, <1>4 DEF Account
-----------------------------------------------------------------------------
(* The steps of a worker *)

LEMMA InspectingFacts ==
  ASSUME IInv, AccountInv, NEW c \in Chunks
  PROVE  /\ phase = "inspecting" /\ options \in Option /\ options.complete \in BOOLEAN
         /\ options.workers \in Nat
         /\ c \in DOMAIN ChunksOf(input, options.workers)
         /\ ChunkOK(c, worker[c], out[c], stop)
         /\ \A p \in ChunkPaths(c) : At(input, p) \in Nat /\ At(input, p) \in DOMAIN input
<1>1. phase = "inspecting"
  BY DEF IInv, CallOK, Chunks
<1>2. options \in Option
  BY <1>1 DEF IInv, CallOK, options
<1>3. options.complete \in BOOLEAN /\ options.workers \in Nat
  BY <1>2 DEF Option
<1>4. c \in DOMAIN ChunksOf(input, options.workers) /\ ChunkOK(c, worker[c], out[c], stop)
  BY <1>1 DEF AccountInv
<1>5. ASSUME NEW p \in ChunkPaths(c) PROVE At(input, p) \in Nat /\ At(input, p) \in DOMAIN input
  <2>1. input \in Seq(FileRec)
    BY DEF IInv, InputOK
  <2>2. PICK k \in DOMAIN ChunksOf(input, options.workers)[c] :
           p = ChunksOf(input, options.workers)[c][k].path
    BY DEF ChunkPaths, PathsOf
  <2>3. \E l \in DOMAIN input : input[l].path = p
    BY <1>3, <1>4, <2>1, <2>2, ChunkFacts
  <2>4. At(input, p) \in DOMAIN input
    BY <2>3 DEF At
  <2> QED BY <2>1, <2>4
<1> QED BY <1>1, <1>2, <1>3, <1>4, <1>5

\* Only the worker c moves, from its results to the results o.
LEMMA WorkerMoves ==
  ASSUME IInv, AccountInv, NEW c \in Chunks, OthersUnchanged,
         NEW w, NEW o, NEW t,
         worker' = [worker EXCEPT ![c] = w],
         out'[c] = o, \A d \in Chunks : d # c => out'[d] = out[d],
         stop' = t, stop # None => t # None, Occurred(t),
         ChunkOK(c, w, o, t)
  PROVE  AccountInv'
<1>1. /\ input' = input /\ plan' = plan /\ scan' = scan /\ phase' = phase
      /\ cancelled' = cancelled /\ expired' = expired
  BY DEF OthersUnchanged, call
<1>2. phase = "inspecting" /\ Chunks = DOMAIN ChunksOf(input, options.workers)
  BY InspectingFacts DEF AccountInv
<1>3. Chunks' = Chunks /\ options' = options
  BY <1>1 DEF Chunks, options
<1>4. \A r : Occurred(r)' = Occurred(r)
  BY <1>1 DEF Occurred
<1>5. ASSUME NEW d \in Chunks, NEW v, v = worker'[d], NEW u, u = out'[d]
      PROVE  ChunkOK(d, v, u, t)
  <2>1. CASE d = c
    BY <1>5, <2>1 DEF Chunks
  <2>2. CASE d # c
    <3>1. v = worker[d] /\ u = out[d] /\ ChunkOK(d, v, u, stop)
      BY <1>5, <2>2 DEF Chunks, AccountInv
    <3> QED BY <3>1 DEF ChunkOK, ReasonsOK
  <2> QED BY <2>1, <2>2
<1>6. \A d, v, u, s : ChunkOK(d, v, u, s)' = ChunkOK(d, v, u, s)
  BY <1>1, <1>3, <1>4 DEF ChunkOK, ReasonsOK, ChunkPaths
<1>7. \A d \in Chunks' : ChunkOK(d, worker[d], out[d], stop)'
  <2> TAKE d \in Chunks'
  <2> PICK v, u : v = worker'[d] /\ u = out'[d]
    OBVIOUS
  <2>1. ChunkOK(d, v, u, t)'
    BY <1>3, <1>5, <1>6
  <2> QED BY <2>1
<1>8. Occurred(stop)'
  BY <1>4
<1>9. ReportOK'
  BY <1>1, <1>2 DEF ReportOK, Reports
<1>10. (phase = "inspecting" => Chunks = DOMAIN ChunksOf(input, options.workers))'
  BY <1>1, <1>2, <1>3
<1> QED BY <1>7, <1>8, <1>9, <1>10 DEF AccountInv
LEMMA NoReason == Occurred(None)
BY InspectionConstants DEF Occurred

\* A worker that takes the next file, its results being o now.
LEMMA NextCounts ==
  ASSUME IInv, AccountInv, NEW c \in Chunks, OthersUnchanged, NextFile(c),
         NEW o, NEW t,
         out'[c] = o, \A d \in Chunks : d # c => out'[d] = out[d],
         stop' = t, stop # None => t # None, Occurred(t),
         Occurred(o.termination), o.termination # None => t # None,
         o.error = None =>
             Account(input, ChunkPaths(c), options.complete, Tail(worker[c].todo), o)
  PROVE  AccountInv'
<1> PICK w : w = AtRest(Tail(worker[c].todo))
  OBVIOUS
<1>1. worker' = [worker EXCEPT ![c] = w]
  BY DEF NextFile
<1>2. w.pc = "takes" /\ w.own = None /\ w.todo = Tail(worker[c].todo)
  BY DEF AtRest
<1>3. ChunkOK(c, w, o, t)
  BY <1>2, NoReason DEF ChunkOK, ReasonsOK
<1> QED BY <1>1, <1>3, WorkerMoves

LEMMA KeepsCounts ==
  ASSUME IInv, AccountInv, NEW c \in Chunks, OthersUnchanged, stop' = stop,
         worker[c].todo # <<>>, out[c].termination = None,
         NEW f \in FileRec, f.path = File(c).path, Keeps(c, f)
  PROVE  AccountInv'
<1> PICK o : o = [out[c] EXCEPT !.files = Append(out[c].files, f)]
  OBVIOUS
<1>1. /\ out[c] \in OutRec /\ c \in DOMAIN out /\ out[c].files \in Seq(FileRec)
      /\ ChunkOK(c, worker[c], out[c], stop) /\ Occurred(stop)
  BY OutIs, InspectingFacts DEF AccountInv
<1>2. Append(out[c].files, f) \in Seq(FileRec)
  BY <1>1, AppendFacts
<1>3. /\ o \in OutRec /\ o.files = Append(out[c].files, f) /\ o.skipped = out[c].skipped
      /\ o.warnings = out[c].warnings /\ o.termination = out[c].termination
      /\ o.error = out[c].error
  BY <1>1, <1>2 DEF OutRec
<1>4. out' = [out EXCEPT ![c] = o] /\ NextFile(c)
  BY DEF Keeps
<1>5. out'[c] = o /\ \A d \in Chunks : d # c => out'[d] = out[d]
  BY <1>1, <1>4 DEF IInv, CallOK, Chunks
<1>6. worker[c].todo \in Seq(FileRec)
  BY CurrentFile
<1>7. ASSUME o.error = None
      PROVE  Account(input, ChunkPaths(c), options.complete, Tail(worker[c].todo), o)
  <2>1. Account(input, ChunkPaths(c), options.complete, worker[c].todo, out[c])
    BY <1>1, <1>3, <1>7 DEF ChunkOK
  <2> QED BY <1>1, <1>3, <1>6, <2>1, InspectingFacts, KeptIsTold DEF File
<1> QED BY <1>1, <1>3, <1>4, <1>5, <1>7, NoReason, NextCounts

\* A file left out, in the words of LeftOutIsTold.
LEMMA LeavesOut ==
  ASSUME IInv, AccountInv, NEW c \in Chunks, OthersUnchanged, NextFile(c),
         worker[c].todo # <<>>, NEW kind \in {"Binary", "ScanLimit", "IoError", "Concurrent"},
         NEW o \in OutRec, out' = [out EXCEPT ![c] = o],
         o.files = out[c].files, o.skipped = Skips(c, kind), o.error = out[c].error,
         o.warnings = IF kind \in Errors THEN Append(out[c].warnings, Skipped(c, kind))
                                         ELSE out[c].warnings,
         IF kind = "ScanLimit" THEN o.termination # None
                               ELSE o.termination = None /\ out[c].termination = None,
         Occurred(o.termination),
         NEW t, stop' = t, stop # None => t # None, Occurred(t), o.termination # None => t # None
  PROVE  AccountInv'
<1>1. /\ out[c] \in OutRec /\ c \in DOMAIN out
      /\ ChunkOK(c, worker[c], out[c], stop)
  BY OutIs, InspectingFacts DEF AccountInv
<1>2. out'[c] = o /\ \A d \in Chunks : d # c => out'[d] = out[d]
  BY <1>1 DEF IInv, CallOK, Chunks
<1>3. worker[c].todo \in Seq(FileRec)
  BY CurrentFile
<1> PICK e : e = Skipped(c, kind)
  OBVIOUS
<1>4. e \in Skip /\ e.path = Head(worker[c].todo).path /\ e.kind = kind
  BY SkipsType DEF Skipped, File
<1>5. o.skipped = IF options.complete THEN Append(out[c].skipped, e) ELSE out[c].skipped
  BY DEF Skips
<1>6. ASSUME o.error = None
      PROVE  Account(input, ChunkPaths(c), options.complete, Tail(worker[c].todo), o)
  <2>1. Account(input, ChunkPaths(c), options.complete, worker[c].todo, out[c])
    BY <1>1, <1>6 DEF ChunkOK
  <2>2. /\ options.complete \in BOOLEAN
        /\ \A p \in ChunkPaths(c) : At(input, p) \in Nat
    BY InspectingFacts
  <2>3. o.warnings = IF e.kind \in Errors THEN Append(out[c].warnings, e) ELSE out[c].warnings
    BY <1>4
  <2>4. IF e.kind = "ScanLimit" THEN o.termination # None
                                ELSE o.termination = None /\ out[c].termination = None
    BY <1>4
  <2> QED BY <1>1, <1>3, <1>4, <1>5, <2>1, <2>2, <2>3, <2>4, LeftOutIsTold
<1> QED BY <1>2, <1>6, NextCounts
LEMMA SkipsBinaryCounts ==
  ASSUME IInv, AccountInv, NEW c \in Chunks, OthersUnchanged, stop' = stop,
         worker[c].todo # <<>>, out[c].termination = None, SkipsBinary(c)
  PROVE  AccountInv'
<1> PICK o : o = [out[c] EXCEPT !.skipped = Skips(c, "Binary")]
  OBVIOUS
<1>1. Skips(c, "Binary") \in Seq(Skip)
  BY SkipsType
<1>2. /\ o \in OutRec /\ o.files = out[c].files /\ o.skipped = Skips(c, "Binary")
      /\ o.warnings = out[c].warnings /\ o.termination = out[c].termination
      /\ o.error = out[c].error
  BY <1>1, OutIs DEF OutRec
<1>3. out' = [out EXCEPT ![c] = o] /\ NextFile(c)
  BY DEF SkipsBinary
<1>4. "Binary" \notin Errors /\ Occurred(stop) /\ Occurred(o.termination)
  BY <1>2, NoReason DEF Errors, AccountInv
<1> QED BY <1>2, <1>3, <1>4, LeavesOut

LEMMA LimitSkipsCounts ==
  ASSUME IInv, AccountInv, NEW c \in Chunks, OthersUnchanged,
         worker[c].todo # <<>>, NEW reason \in {"Cancelled", "Timeout"}, Occurred(reason),
         LimitSkips(c, reason), NEW t, stop' = t, t # None, Occurred(t)
  PROVE  AccountInv'
<1> PICK o : o = [out[c] EXCEPT !.skipped = Skips(c, "ScanLimit"), !.termination = reason]
  OBVIOUS
<1>1. Skips(c, "ScanLimit") \in Seq(Skip)
  BY SkipsType
<1>2. /\ o \in OutRec /\ o.files = out[c].files /\ o.skipped = Skips(c, "ScanLimit")
      /\ o.warnings = out[c].warnings /\ o.termination = reason
      /\ o.error = out[c].error
  BY <1>1, OutIs DEF OutRec
<1>3. out' = [out EXCEPT ![c] = o] /\ NextFile(c)
  BY DEF LimitSkips
<1>4. "ScanLimit" \notin Errors /\ reason # None
  BY InspectionConstants DEF Errors
<1> QED BY <1>2, <1>3, <1>4, LeavesOut

LEMMA WarnsCounts ==
  ASSUME IInv, AccountInv, NEW c \in Chunks, OthersUnchanged, stop' = stop,
         worker[c].todo # <<>>, out[c].termination = None,
         NEW kind \in {"IoError", "Concurrent"}, Warns(c, kind)
  PROVE  AccountInv'
<1> PICK e : e = Skipped(c, kind)
  OBVIOUS
<1>1. /\ out[c] \in OutRec /\ c \in DOMAIN out /\ Occurred(stop)
      /\ out[c].warnings \in Seq(Skip)
  BY OutIs DEF AccountInv
<1>2. e \in Skip /\ Skips(c, kind) \in Seq(Skip)
  BY SkipsType
<1>3. CASE options.abort
  <2> PICK o : o = [out[c] EXCEPT !.error = e]
    OBVIOUS
  <2> PICK w : w = [AtRest(<<>>) EXCEPT !.pc = "ended"]
    OBVIOUS
  <2>1. worker' = [worker EXCEPT ![c] = w] /\ out' = [out EXCEPT ![c] = o]
    BY <1>3 DEF Warns
  <2>2. out'[c] = o /\ \A d \in Chunks : d # c => out'[d] = out[d]
    BY <1>1, <2>1 DEF IInv, CallOK, Chunks
  <2>3. o.error = e /\ o.termination = None
    BY <1>1 DEF OutRec
  <2>4. e # None
    <3>1. e \in [path : Paths, kind : {"IoError", "Concurrent"}]
      BY <1>2 DEF Skipped, Skip
    <3> QED BY <3>1, InspectionConstants
  <2>5. w.pc = "ended" /\ w.todo = <<>> /\ w.own = None
    BY DEF AtRest
  <2>6. ChunkOK(c, w, o, stop)
    BY <2>3, <2>4, <2>5, NoReason DEF ChunkOK, ReasonsOK
  <2> QED BY <1>1, <2>1, <2>2, <2>6, WorkerMoves
<1>4. CASE ~options.abort
  <2> PICK o : o = [out[c] EXCEPT !.skipped = Skips(c, kind), !.warnings = Append(out[c].warnings, e)]
    OBVIOUS
  <2>1. Append(out[c].warnings, e) \in Seq(Skip)
    BY <1>1, <1>2, AppendFacts
  <2>2. /\ o \in OutRec /\ o.files = out[c].files /\ o.skipped = Skips(c, kind)
        /\ o.warnings = Append(out[c].warnings, e) /\ o.termination = None
        /\ o.error = out[c].error
    BY <1>1, <1>2, <2>1 DEF OutRec
  <2>3. out' = [out EXCEPT ![c] = o] /\ NextFile(c)
    BY <1>4 DEF Warns
  <2>4. kind \in Errors /\ kind # "ScanLimit" /\ Occurred(o.termination)
    BY <2>2, NoReason DEF Errors
  <2>5. /\ kind \in {"Binary", "ScanLimit", "IoError", "Concurrent"}
        /\ o.warnings = IF kind \in Errors THEN Append(out[c].warnings, Skipped(c, kind))
                                            ELSE out[c].warnings
        /\ IF kind = "ScanLimit" THEN o.termination # None
                                 ELSE o.termination = None /\ out[c].termination = None
        /\ (stop # None => stop # None) /\ (o.termination # None => stop # None)
    BY <2>2, <2>4
  <2>6. CASE kind = "IoError"
    BY <1>1, <2>2, <2>3, <2>4, <2>5, <2>6, LeavesOut
  <2>7. CASE kind = "Concurrent"
    BY <1>1, <2>2, <2>3, <2>4, <2>5, <2>7, LeavesOut
  <2> QED BY <2>6, <2>7
<1> QED BY <1>3, <1>4

\* A worker that goes on with the same file.
LEMMA GoesOnCounts ==
  ASSUME IInv, AccountInv, NEW c \in Chunks, OthersUnchanged, UNCHANGED <<out, stop>>,
         NEW w, worker' = [worker EXCEPT ![c] = w], Occurred(w.own),
         DOMAIN w.todo = DOMAIN worker[c].todo,
         \A k \in DOMAIN worker[c].todo : w.todo[k].path = worker[c].todo[k].path,
         out[c].termination # None => w.pc \in {"takes", "ended"},
         w.pc = "ended" => w.todo = <<>>, w.pc = "publishes" => w.own # None
  PROVE  AccountInv'
<1> PICK o : o = out[c]
  OBVIOUS
<1>1. ChunkOK(c, worker[c], o, stop) /\ options.complete \in BOOLEAN /\ Occurred(stop)
  BY InspectingFacts DEF AccountInv
<1>2. ASSUME o.error = None
      PROVE  Account(input, ChunkPaths(c), options.complete, w.todo, o)
  <2>1. Account(input, ChunkPaths(c), options.complete, worker[c].todo, o)
    BY <1>1, <1>2 DEF ChunkOK
  <2> QED BY <1>1, <2>1, SameTold
<1>3. ChunkOK(c, w, o, stop)
  BY <1>1, <1>2 DEF ChunkOK, ReasonsOK
<1> QED BY <1>1, <1>3, WorkerMoves

\* In the midst of a file there is no limit reached yet in this chunk.
LEMMA NoLimitYet ==
  ASSUME IInv, AccountInv, NEW c \in Chunks
  PROVE  /\ worker[c].pc \notin {"takes", "ended"} => out[c].termination = None
         /\ stop = None => out[c].termination = None
         /\ Occurred(worker[c].own) /\ Occurred(stop)
         /\ worker[c].pc = "publishes" => worker[c].own # None
BY DEF AccountInv, ChunkOK, ReasonsOK
LEMMA EndsCounts == ASSUME IInv, AccountInv, NEW c \in Chunks, Ends(c) PROVE AccountInv'
<1>1. worker[c] \in WorkerRec
  BY DEF IInv, WorkersOK, WorkerOK
<1> PICK w : w = [worker[c] EXCEPT !.pc = "ended"]
  OBVIOUS
<1>2. w.pc = "ended" /\ w.todo = worker[c].todo /\ w.own = worker[c].own
  BY <1>1 DEF WorkerRec
<1>3. /\ worker' = [worker EXCEPT ![c] = w] /\ UNCHANGED <<out, stop>> /\ OthersUnchanged
      /\ worker[c].todo = <<>>
  BY DEF Ends
<1> QED BY <1>2, <1>3, NoLimitYet, GoesOnCounts

LEMMA OpeningCounts ==
  ASSUME IInv, AccountInv, NEW c \in Chunks, OthersUnchanged, UNCHANGED <<out, stop>>,
         stop = None, NEW mode, Opening(c, mode)
  PROVE  AccountInv'
<1>1. worker[c] \in WorkerRec
  BY DEF IInv, WorkersOK, WorkerOK
<1> PICK w : w = [worker[c] EXCEPT !.pc = "opens", !.mode = mode]
  OBVIOUS
<1>2. w.pc = "opens" /\ w.todo = worker[c].todo /\ w.own = worker[c].own
  BY <1>1 DEF WorkerRec
<1>3. worker' = [worker EXCEPT ![c] = w]
  BY DEF Opening
<1> QED BY <1>2, <1>3, NoLimitYet, GoesOnCounts

LEMMA Interrupted ==
  /\ Occurred(Interruption)
  /\ Interruption # None => Interruption \in {"Cancelled", "Timeout"}
BY NoReason DEF Interruption, Occurred

LEMMA CachedPath ==
  ASSUME NEW f \in FileRec, NEW e
  PROVE  WithCached(f, e).path = f.path
BY DEF WithCached, FileRec

LEMMA TakesCounts == ASSUME IInv, AccountInv, NEW c \in Chunks, Takes(c) PROVE AccountInv'
<1>1. worker[c].todo # <<>> /\ stop' = stop /\ OthersUnchanged
  BY DEF Takes
<1>2. stop \in {None, "Cancelled", "Timeout"} /\ worker[c] \in WorkerRec /\ Occurred(stop)
  BY NoLimitYet DEF IInv, CallOK, WorkersOK, WorkerOK
<1>3. CASE stop # None /\ LimitSkips(c, stop)
  BY <1>1, <1>2, <1>3, LimitSkipsCounts
<1>4. CASE /\ stop = None /\ Interruption # None /\ out' = out
           /\ worker' = [worker EXCEPT ![c].pc = "publishes", ![c].own = Interruption]
  <2> PICK w : w = [worker[c] EXCEPT !.pc = "publishes", !.own = Interruption]
    OBVIOUS
  <2>1. w.pc = "publishes" /\ w.own = Interruption /\ w.todo = worker[c].todo
    BY <1>2 DEF WorkerRec
  <2>2. worker' = [worker EXCEPT ![c] = w] /\ UNCHANGED <<out, stop>>
    BY <1>1, <1>4
  <2>3. /\ Occurred(w.own) /\ w.own # None /\ w.pc # "ended" /\ out[c].termination = None
        /\ DOMAIN w.todo = DOMAIN worker[c].todo
        /\ \A k \in DOMAIN worker[c].todo : w.todo[k].path = worker[c].todo[k].path
    BY <1>4, <2>1, Interrupted, NoLimitYet
  <2> QED BY <1>1, <2>2, <2>3, GoesOnCounts
<1>5. CASE stop = None /\ out' = out /\ (Opening(c, "inspect") \/ Opening(c, "validate"))
  BY <1>1, <1>5, OpeningCounts
<1>6. ASSUME stop = None, NEW e \in Candidates(File(c)), Keeps(c, WithCached(File(c), e))
      PROVE  AccountInv'
  <2>1. FileOK(File(c)) /\ File(c) \in FileRec
    BY <1>1, CurrentFile
  <2>2. Sound(WithCached(File(c), e))
    <3> PICK f : f = File(c)
      OBVIOUS
    <3>1. Tells(f.version) /\ \E h \in history : h.path = f.path /\ Reusable(h.version, f.version)
      BY <2>1 DEF FileOK
    <3>2. [f EXCEPT !.version = f.version] = f
      BY <2>1 DEF FileRec
    <3>3. Sound(WithCached([f EXCEPT !.version = f.version], e))
      BY <1>6, <2>1, <3>1, CachedIsSound
    <3> QED BY <3>2, <3>3
  <2>3. WithCached(File(c), e) \in FileRec /\ WithCached(File(c), e).path = File(c).path
    BY <2>1, <2>2, CachedPath DEF Sound
  <2> QED BY <1>1, <1>6, <2>3, NoLimitYet, KeepsCounts
<1> QED BY <1>3, <1>4, <1>5, <1>6 DEF Takes

LEMMA PublishesCounts == ASSUME IInv, AccountInv, NEW c \in Chunks, Publishes(c) PROVE AccountInv'
<1>1. WorkerOK(worker[c]) /\ worker[c] \in WorkerRec
  BY DEF IInv, WorkersOK, WorkerOK
<1>2. /\ worker[c].pc = "publishes" /\ worker[c].todo # <<>>
      /\ worker[c].own \in {"Cancelled", "Timeout"} /\ Occurred(worker[c].own)
  BY <1>1, NoLimitYet DEF Publishes, WorkerOK, WorkerRec
<1>3. stop \in {None, "Cancelled", "Timeout"} /\ Occurred(stop)
  BY NoLimitYet DEF IInv, CallOK
<1> PICK t : t = stop'
  OBVIOUS
<1>4. t = IF stop = None THEN worker[c].own ELSE stop
  BY DEF Publishes, Requests
<1>5. t \in {"Cancelled", "Timeout"} /\ Occurred(t)
  BY <1>2, <1>3, <1>4
<1>6. LimitSkips(c, t) /\ OthersUnchanged /\ t # None
  BY <1>5, InspectionConstants DEF Publishes
<1> QED BY <1>2, <1>5, <1>6, LimitSkipsCounts
LEMMA OpensCounts == ASSUME IInv, AccountInv, NEW c \in Chunks, Opens(c) PROVE AccountInv'
<1>1. WorkerOK(worker[c]) /\ worker[c] \in WorkerRec /\ worker[c].pc = "opens"
  BY DEF IInv, WorkersOK, WorkerOK, Opens
<1>2. /\ worker[c].todo # <<>> /\ out[c].termination = None /\ Occurred(worker[c].own)
      /\ stop' = stop /\ OthersUnchanged
  BY <1>1, NoLimitYet DEF WorkerOK, Opens
<1> PICK i : i = at[File(c).path]
  OBVIOUS
<1>3. CASE Warns(c, "IoError") \/ Warns(c, "Concurrent")
  BY <1>2, <1>3, WarnsCounts
<1>4. CASE /\ out' = out
           /\ worker' = [worker EXCEPT ![c].pc = "reads", ![c].inode = i,
                                       ![c].before = Snapshot(i), ![c].read = <<>>]
  <2> PICK w : w = [worker[c] EXCEPT !.pc = "reads", !.inode = i, !.before = Snapshot(i), !.read = <<>>]
    OBVIOUS
  <2>1. w.pc = "reads" /\ w.own = worker[c].own /\ w.todo = worker[c].todo
    BY <1>1 DEF WorkerRec
  <2>2. worker' = [worker EXCEPT ![c] = w] /\ UNCHANGED <<out, stop>>
    BY <1>2, <1>4
  <2> QED BY <1>2, <2>1, <2>2, GoesOnCounts
<1> QED BY <1>3, <1>4 DEF Opens

LEMMA ReadsCounts == ASSUME IInv, AccountInv, NEW c \in Chunks, Reads(c) PROVE AccountInv'
<1>1. WorkerOK(worker[c]) /\ worker[c] \in WorkerRec /\ worker[c].pc = "reads"
  BY DEF IInv, WorkersOK, WorkerOK, Reads
<1>2. /\ worker[c].todo # <<>> /\ out[c].termination = None /\ Occurred(worker[c].own)
      /\ Occurred(stop) /\ OthersUnchanged
  BY <1>1, NoLimitYet DEF WorkerOK, Reads
<1>3. CASE /\ Interruption # None /\ LimitSkips(c, Interruption) /\ Requests(Interruption)
  <2> PICK reason : reason = Interruption
    OBVIOUS
  <2> PICK t : t = stop'
    OBVIOUS
  <2>1. reason \in {"Cancelled", "Timeout"} /\ Occurred(reason)
    BY <1>3, Interrupted
  <2>2. t = IF stop = None THEN reason ELSE stop
    BY <1>3 DEF Requests
  <2>3. t # None /\ Occurred(t)
    BY <1>2, <1>3, <2>1, <2>2
  <2> QED BY <1>2, <1>3, <2>1, <2>3, LimitSkipsCounts
<1>4. CASE stop' = stop /\ (Warns(c, "Concurrent") \/ SkipsBinary(c))
  BY <1>2, <1>4, WarnsCounts, SkipsBinaryCounts
<1>5. CASE /\ UNCHANGED <<out, stop>>
           /\ \/ worker' = [worker EXCEPT ![c].pc = "rechecks"]
              \/ \E read, pc : /\ pc \in {"rechecks", "reads"}
                               /\ worker' = [worker EXCEPT ![c].read = read, ![c].pc = pc]
  <2>1. ASSUME NEW w, worker' = [worker EXCEPT ![c] = w], w.pc \in {"rechecks", "reads"},
               w.own = worker[c].own, w.todo = worker[c].todo
        PROVE  AccountInv'
    BY <1>2, <1>5, <2>1, GoesOnCounts
  <2>2. CASE worker' = [worker EXCEPT ![c].pc = "rechecks"]
    <3> PICK w : w = [worker[c] EXCEPT !.pc = "rechecks"]
      OBVIOUS
    <3>1. w.pc = "rechecks" /\ w.own = worker[c].own /\ w.todo = worker[c].todo
      BY <1>1 DEF WorkerRec
    <3> QED BY <2>1, <2>2, <3>1
  <2>3. ASSUME NEW read, NEW pc \in {"rechecks", "reads"},
               worker' = [worker EXCEPT ![c].read = read, ![c].pc = pc]
        PROVE  AccountInv'
    <3> PICK w : w = [worker[c] EXCEPT !.read = read, !.pc = pc]
      OBVIOUS
    <3>1. w.pc = pc /\ w.own = worker[c].own /\ w.todo = worker[c].todo
      BY <1>1 DEF WorkerRec
    <3>2. worker' = [worker EXCEPT ![c] = w]
      BY <2>3
    <3> QED BY <2>1, <3>1, <3>2
  <2> QED BY <1>5, <2>2, <2>3
<1> QED BY <1>3, <1>4, <1>5 DEF Reads

LEMMA RechecksCounts == ASSUME IInv, AccountInv, NEW c \in Chunks, Rechecks(c) PROVE AccountInv'
<1> PICK w : w = worker[c]
  OBVIOUS
<1> PICK f : f = File(c)
  OBVIOUS
<1> PICK after : after = Snapshot(w.inode)
  OBVIOUS
<1>1. WorkerOK(w) /\ w \in WorkerRec /\ w.pc = "rechecks"
  BY DEF IInv, WorkersOK, WorkerOK, Rechecks
<1>2. /\ w.todo # <<>> /\ out[c].termination = None /\ Occurred(w.own)
      /\ stop' = stop /\ OthersUnchanged
  BY <1>1, NoLimitYet DEF WorkerOK, Rechecks
<1>3. w.inode \in DOMAIN inodes /\ Tells(w.before) /\ f \in FileRec /\ w.todo \in Seq(FileRec)
      /\ f = w.todo[1] /\ 1 \in DOMAIN w.todo
  BY <1>1, <1>2, CurrentFile DEF WorkerOK, Reading
<1>4. after \in Told /\ w.before \in Told
  BY <1>3, HandleTells DEF IInv, Tells
<1>5. CASE Warns(c, "Concurrent")
  BY <1>2, <1>5, WarnsCounts
<1>6. CASE \E v \in {after, w.before} : Keeps(c, Inspected(c, v))
  <2> PICK v \in {after, w.before} : Keeps(c, Inspected(c, v))
    BY <1>6
  <2>1. options \in Option
    BY InspectingFacts
  <2>2. Inspected(c, v) \in FileRec /\ Inspected(c, v).path = f.path
    BY <1>1, <1>3, <1>4, <2>1 DEF Inspected, FileRec, WorkerRec, Option
  <2> QED BY <1>2, <2>2, KeepsCounts
<1>7. CASE \E e \in Candidates(f) : Keeps(c, WithCached([f EXCEPT !.version = after], e))
  <2> PICK e \in Candidates(f) : Keeps(c, WithCached([f EXCEPT !.version = after], e))
    BY <1>7
  <2> PICK g : g = [f EXCEPT !.version = after]
    OBVIOUS
  <2>1. g \in FileRec /\ g.path = f.path
    BY <1>3, <1>4 DEF FileRec
  <2>2. e \in FileRec
    BY DEF Candidates, IInv, CacheOK, Sound
  <2>3. WithCached(g, e) \in FileRec /\ WithCached(g, e).path = f.path
    BY <2>1, <2>2 DEF WithCached, FileRec
  <2> QED BY <1>2, <2>3, KeepsCounts
<1>8. CASE /\ out' = out
           /\ worker' = [worker EXCEPT ![c].pc = "opens", ![c].mode = "inspect",
                                       ![c].todo[1].version = after]
  <2> PICK g : g = [f EXCEPT !.version = after]
    OBVIOUS
  <2> PICK todo : todo = [w.todo EXCEPT ![1] = g]
    OBVIOUS
  <2> PICK v : v = [w EXCEPT !.pc = "opens", !.mode = "inspect", !.todo = todo]
    OBVIOUS
  <2>1. g.path = f.path
    BY <1>3 DEF FileRec
  <2>2. DOMAIN todo = DOMAIN w.todo /\ \A k \in DOMAIN w.todo : todo[k].path = w.todo[k].path
    BY <1>3, <2>1
  <2>3. v.pc = "opens" /\ v.todo = todo /\ v.own = w.own
    BY <1>1 DEF WorkerRec
  <2>4. v = [w EXCEPT !.pc = "opens", !.mode = "inspect", !.todo[1].version = after]
    BY <1>3
  <2>5. worker' = [worker EXCEPT ![c] = v]
    BY <1>8, <2>4
  <2>6. /\ DOMAIN v.todo = DOMAIN worker[c].todo
        /\ \A k \in DOMAIN worker[c].todo : v.todo[k].path = worker[c].todo[k].path
        /\ Occurred(v.own) /\ UNCHANGED <<out, stop>> /\ out[c].termination = None
        /\ v.pc # "ended" /\ v.pc # "publishes"
    BY <1>2, <1>8, <2>2, <2>3
  <2> QED BY <1>2, <2>5, <2>6, GoesOnCounts
<1> QED BY <1>5, <1>6, <1>7, <1>8 DEF Rechecks
-----------------------------------------------------------------------------
(* The files in chunks *)

LEMMA CeilFacts ==
  ASSUME NEW a \in Nat, NEW b \in Nat, b > 0
  PROVE  /\ CeilDiv(a, b) \in Nat
         /\ CeilDiv(a, b) * b < a + b /\ a <= CeilDiv(a, b) * b
<1> DEFINE m == (a + b) - 1
           q == m \div b
<1>1. m \in Nat
  OBVIOUS
<1> HIDE DEF m
<1>2. q \in Nat /\ q * b <= m /\ m < (q * b) + b
  BY <1>1, QuotientFacts
<1>3. CeilDiv(a, b) = q
  BY DEF CeilDiv, m
<1> HIDE DEF q
<1>4. q * b \in Nat
  BY <1>2
<1> QED BY <1>2, <1>3, <1>4 DEF m
\* The chunks are the files of the walk, one piece of it after the other.
Pieces(files, cs, base) ==
    /\ base \in [DOMAIN cs -> Nat]
    /\ \A c \in DOMAIN cs : /\ base[c] + Len(cs[c]) <= Len(files)
                            /\ \A j \in DOMAIN cs[c] : cs[c][j] = files[base[c] + j]
    /\ \A c, d \in DOMAIN cs : c < d => base[c] + Len(cs[c]) <= base[d]
    /\ \A k \in DOMAIN files : \E c \in DOMAIN cs : base[c] < k /\ k <= base[c] + Len(cs[c])

LEMMA SliceFacts ==
  ASSUME NEW S, NEW files \in Seq(S), NEW i \in Nat \ {0}, NEW t \in Nat, i <= t, t <= Len(files)
  PROVE  /\ SubSeq(files, i, t) \in Seq(S) /\ Len(SubSeq(files, i, t)) = (t - i) + 1
         /\ \A j \in DOMAIN SubSeq(files, i, t) : SubSeq(files, i, t)[j] = files[i + j - 1]
<1>1. Len(SubSeq(files, i, t)) = (t - i) + 1
  OBVIOUS
<1> QED BY <1>1, PartFacts

\* Where the m pieces begin and end.
Cuts(n, m, base, last) ==
    /\ base \in [1 .. m -> Nat] /\ last \in [1 .. m -> Nat]
    /\ \A c \in 1 .. m : base[c] < last[c] /\ last[c] <= n
    /\ \A c, d \in 1 .. m : c < d => last[c] <= base[d]
    /\ \A k \in 1 .. n : \E c \in 1 .. m : base[c] < k /\ k <= last[c]

Slices(files, m, base, last) == [c \in 1 .. m |-> SubSeq(files, base[c] + 1, last[c])]

\* A piece s of the files that begins after b and ends with l.
IsSlice(S, files, s, b, l) ==
    /\ s \in Seq(S) /\ b + Len(s) = l /\ l <= Len(files)
    /\ \A j \in DOMAIN s : s[j] = files[b + j]

LEMMA SliceOf ==
  ASSUME NEW S, NEW files \in Seq(S), NEW m \in Nat, NEW base, NEW last,
         Cuts(Len(files), m, base, last), NEW c \in 1 .. m
  PROVE  IsSlice(S, files, Slices(files, m, base, last)[c], base[c], last[c])
<1>1. base[c] \in Nat /\ last[c] \in Nat /\ base[c] < last[c] /\ last[c] <= Len(files)
  BY DEF Cuts
<1>2. Slices(files, m, base, last)[c] = SubSeq(files, base[c] + 1, last[c])
  BY DEF Slices
<1> PICK i : i = base[c] + 1
  OBVIOUS
<1> PICK t : t = last[c]
  OBVIOUS
<1>3. i \in Nat \ {0} /\ t \in Nat /\ i <= t /\ t <= Len(files)
  BY <1>1
<1>4. /\ SubSeq(files, i, t) \in Seq(S) /\ Len(SubSeq(files, i, t)) = (t - i) + 1
      /\ \A j \in DOMAIN SubSeq(files, i, t) : SubSeq(files, i, t)[j] = files[i + j - 1]
  BY <1>3, SliceFacts
<1> PICK s : s = Slices(files, m, base, last)[c]
  OBVIOUS
<1>5. s = SubSeq(files, i, t)
  BY <1>2
<1>6. /\ s \in Seq(S) /\ Len(s) = (t - i) + 1
      /\ \A j \in DOMAIN s : s[j] = files[i + j - 1]
  BY <1>4, <1>5
<1>7. base[c] + Len(s) = last[c]
  BY <1>1, <1>6
<1>8. \A j \in DOMAIN s : i + j - 1 = base[c] + j
  <2>1. \A j \in DOMAIN s : j \in Nat
    BY <1>6
  <2>2. \A j \in Nat : i + j - 1 = base[c] + j
    BY <1>1
  <2> QED BY <2>1, <2>2
<1> QED BY <1>1, <1>6, <1>7, <1>8 DEF IsSlice

LEMMA SlicesOf ==
  ASSUME NEW S, NEW files \in Seq(S), NEW m \in Nat, NEW base, NEW last,
         Cuts(Len(files), m, base, last)
  PROVE  /\ Slices(files, m, base, last) \in Seq(Seq(S))
         /\ Pieces(files, Slices(files, m, base, last), base)
<1> PICK cs : cs = Slices(files, m, base, last)
  OBVIOUS
<1> PICK n : n = Len(files)
  OBVIOUS
<1>1. \A c \in 1 .. m : /\ cs[c] \in Seq(S) /\ base[c] + Len(cs[c]) = last[c] /\ last[c] <= n
                        /\ \A j \in DOMAIN cs[c] : cs[c][j] = files[base[c] + j]
  <2> TAKE c \in 1 .. m
  <2>1. IsSlice(S, files, cs[c], base[c], last[c])
    BY SliceOf
  <2> QED BY <2>1 DEF IsSlice
<1>2. DOMAIN cs = 1 .. m /\ cs \in Seq(Seq(S)) /\ DOMAIN files = 1 .. n
  <2>1. cs \in [1 .. m -> Seq(S)]
    BY <1>1 DEF Slices
  <2> QED BY <2>1
<1>3. \A c \in DOMAIN cs : /\ base[c] + Len(cs[c]) <= Len(files)
                           /\ \A j \in DOMAIN cs[c] : cs[c][j] = files[base[c] + j]
  BY <1>1, <1>2
<1>4. \A c, d \in DOMAIN cs : c < d => base[c] + Len(cs[c]) <= base[d]
  BY <1>1, <1>2 DEF Cuts
<1>5. \A k \in DOMAIN files : \E c \in DOMAIN cs : base[c] < k /\ k <= base[c] + Len(cs[c])
  <2> TAKE k \in DOMAIN files
  <2>1. k \in 1 .. n
    BY <1>2
  <2> PICK c \in 1 .. m : base[c] < k /\ k <= last[c]
    BY <2>1 DEF Cuts
  <2>2. c \in DOMAIN cs /\ base[c] + Len(cs[c]) = last[c]
    BY <1>1, <1>2
  <2> QED BY <2>2
<1> QED BY <1>2, <1>3, <1>4, <1>5 DEF Pieces, Cuts

EvenSlices(files, size, n, m) ==
    [c \in 1 .. m |-> SubSeq(files, ((c - 1) * size) + 1, IF c * size < n THEN c * size ELSE n)]

LEMMA SlicesArePieces ==
  ASSUME NEW S, NEW files \in Seq(S), NEW size \in Nat, size > 0, NEW n \in Nat, n = Len(files),
         NEW m \in Nat, m * size < n + size, n <= m * size
  PROVE  /\ EvenSlices(files, size, n, m) \in Seq(Seq(S))
         /\ \E base : Pieces(files, EvenSlices(files, size, n, m), base)
<1> DEFINE base == [c \in 1 .. m |-> (c - 1) * size]
           Bound(c) == IF c * size < n THEN c * size ELSE n
           last == [c \in 1 .. m |-> Bound(c)]
<1>1. ASSUME NEW c \in 1 .. m
      PROVE  /\ base[c] \in Nat /\ c * size \in Nat /\ c * size = base[c] + size
             /\ base[c] < n /\ base[c] = (c - 1) * size
  <2>1. c - 1 \in Nat /\ m \in Nat /\ c = (c - 1) + 1
    OBVIOUS
  <2> PICK b \in Nat : b = c - 1
    BY <2>1
  <2>2. b * size \in Nat /\ (b + 1) * size = (b * size) + size
    BY TimesFacts
  <2>3. (b + 1) * size <= m * size
    <3>1. b + 1 \in Nat /\ b + 1 <= m
      BY <2>1
    <3> QED BY <3>1, TimesFacts
  <2>4. b * size < n
    <3>1. m * size \in Nat
      BY TimesFacts
    <3> QED BY <2>2, <2>3, <3>1
  <2>5. c = b + 1 /\ base[c] = b * size
    BY <2>1
  <2> HIDE DEF base
  <2> QED BY <2>2, <2>4, <2>5
<1>2. ASSUME NEW c \in 1 .. m
      PROVE  /\ Bound(c) \in Nat /\ Bound(c) <= n /\ Bound(c) >= base[c] + 1 /\ Bound(c) <= base[c] + size
             /\ c * size < n => Bound(c) = base[c] + size
             /\ ~(c * size < n) => Bound(c) = n
  <2> PICK b \in Nat : b = base[c]
    BY <1>1
  <2> PICK t \in Nat : t = c * size
    BY <1>1
  <2>1. t = b + size /\ b < n
    BY <1>1
  <2>2. Bound(c) = IF t < n THEN t ELSE n
    OBVIOUS
  <2> HIDE DEF Bound, base
  <2> QED BY <2>1, <2>2
<1>3. EvenSlices(files, size, n, m) = Slices(files, m, base, last)
  BY DEF Bound, Slices, EvenSlices
<1>4. base \in [1 .. m -> Nat] /\ last \in [1 .. m -> Nat]
  BY <1>1, <1>2
<1>5. \A c \in 1 .. m : base[c] < last[c] /\ last[c] <= Len(files)
  <2> TAKE c \in 1 .. m
  <2> PICK b, t \in Nat : b = base[c] /\ t = Bound(c)
    BY <1>1, <1>2
  <2>1. t >= b + 1 /\ t <= n
    BY <1>2
  <2>2. b < t
    BY <2>1
  <2>3. last[c] = t
    OBVIOUS
  <2> QED BY <2>1, <2>2, <2>3
<1> HIDE DEF base, Bound
<1>7. \A c, d \in 1 .. m : c < d => Bound(c) <= base[d]
  <2> SUFFICES ASSUME NEW c \in 1 .. m, NEW d \in 1 .. m, c < d PROVE Bound(c) <= base[d]
    OBVIOUS
  <2>1. c \in Nat /\ d - 1 \in Nat /\ c <= d - 1
    OBVIOUS
  <2>2. c * size <= (d - 1) * size
    BY <2>1, TimesFacts
  <2>3. Bound(c) <= c * size
    BY <1>1, <1>2
  <2>4. Bound(c) \in Nat /\ c * size \in Nat /\ base[d] \in Nat /\ base[d] = (d - 1) * size
    BY <1>1, <1>2
  <2> QED BY <2>2, <2>3, <2>4
<1>8. \A k \in 1 .. n : \E c \in 1 .. m : base[c] < k /\ k <= Bound(c)
  <2> TAKE k \in 1 .. n
  <2> PICK l \in Nat : l = k - 1
    OBVIOUS
  <2> PICK b \in Nat : b = l \div size /\ b * size <= l /\ l < (b * size) + size
    BY QuotientFacts
  <2>1. b * size \in Nat /\ (b + 1) * size = (b * size) + size
    BY TimesFacts
  <2>2. b + 1 \in 1 .. m
    <3>1. l < n /\ m * size \in Nat
      BY TimesFacts
    <3>2. b * size < m * size
      BY <2>1, <3>1
    <3>3. b < m
      BY <3>2, TimesFacts
    <3> QED BY <3>3
  <2>3. base[b + 1] = b * size
    <3>1. base[b + 1] = ((b + 1) - 1) * size
      BY <1>1, <2>2
    <3>2. (b + 1) - 1 = b
      OBVIOUS
    <3> QED BY <3>1, <3>2
  <2>4. k <= Bound(b + 1)
    BY <1>2, <2>1, <2>2, <2>3
  <2>5. base[b + 1] < k
    BY <2>1, <2>3
  <2> QED BY <2>2, <2>4, <2>5
<1> QED
  <2>1. \A c, d \in 1 .. m : c < d => last[c] <= base[d]
    BY <1>7
  <2>2. \A k \in 1 .. Len(files) : \E c \in 1 .. m : base[c] < k /\ k <= last[c]
    BY <1>8
  <2>3. Cuts(Len(files), m, base, last)
    BY <1>4, <1>5, <2>1, <2>2 DEF Cuts
  <2> HIDE DEF last
  <2>4. /\ Slices(files, m, base, last) \in Seq(Seq(S))
        /\ Pieces(files, Slices(files, m, base, last), base)
    BY <2>3, SlicesOf
  <2> QED BY <1>3, <2>4
LEMMA ChunksArePieces ==
  ASSUME NEW S, NEW files \in Seq(S), NEW requested \in Nat
  PROVE  /\ ChunksOf(files, requested) \in Seq(Seq(S))
         /\ \E base : Pieces(files, ChunksOf(files, requested), base)
<1> DEFINE n == Len(files)
           workers == WorkerCount(requested, n)
           size == CeilDiv(n, workers)
           m == CeilDiv(n, size)
<1>1. n \in Nat /\ DOMAIN files = 1 .. n
  OBVIOUS
<1>2. CASE workers <= 1
  <2>1. ChunksOf(files, requested) = <<files>>
    BY <1>2 DEF ChunksOf
  <2> PICK cs : cs = <<files>>
    OBVIOUS
  <2> PICK base : base = [c \in {1} |-> 0]
    OBVIOUS
  <2>2. cs \in Seq(Seq(S)) /\ DOMAIN cs = {1} /\ cs[1] = files /\ base[1] = 0 /\ base \in [{1} -> Nat]
    OBVIOUS
  <2>3. \A c \in DOMAIN cs : /\ base[c] + Len(cs[c]) <= Len(files)
                             /\ \A j \in DOMAIN cs[c] : cs[c][j] = files[base[c] + j]
    <3>1. 0 + n <= n /\ \A j \in 1 .. n : 0 + j = j
      BY <1>1
    <3> QED BY <1>1, <2>2, <3>1
  <2>4. \A c, d \in DOMAIN cs : ~(c < d)
    BY <2>2
  <2>5. \A k \in DOMAIN files : \E c \in DOMAIN cs : base[c] < k /\ k <= base[c] + Len(cs[c])
    <3>1. \A k \in 1 .. n : 0 < k /\ k <= 0 + n
      BY <1>1
    <3> QED BY <1>1, <2>2, <3>1
  <2> QED BY <2>1, <2>2, <2>3, <2>4, <2>5 DEF Pieces
<1>3. CASE ~(workers <= 1)
  <2>1. ChunksOf(files, requested) =
           [d \in 1 .. m |->
               SubSeq(files, ((d - 1) * size) + 1, IF d * size < n THEN d * size ELSE n)]
    BY <1>3 DEF ChunksOf
  <2>2. FilesPerWorker \in Nat /\ FilesPerWorker > 0
    BY InspectionConstants
  <2>3. CeilDiv(n, FilesPerWorker) \in Nat
    BY <1>1, <2>2, CeilFacts
  <2>4. workers \in Nat /\ workers > 1 /\ CeilDiv(n, FilesPerWorker) > 1
    BY <1>3, <2>3 DEF WorkerCount
  <2>5. n > 0
    <3>1. CeilDiv(n, FilesPerWorker) * FilesPerWorker < n + FilesPerWorker
      BY <1>1, <2>2, CeilFacts
    <3>2. 1 * FilesPerWorker <= CeilDiv(n, FilesPerWorker) * FilesPerWorker
      BY <2>2, <2>3, <2>4, TimesFacts
    <3> QED BY <1>1, <2>2, <2>3, <3>1, <3>2
  <2> HIDE DEF workers
  <2> PICK w \in Nat : w = workers /\ w > 0
    BY <2>4
  <2>6. size \in Nat /\ n <= size * w
    <3>1. CeilDiv(n, w) \in Nat /\ n <= CeilDiv(n, w) * w
      BY <1>1, CeilFacts
    <3> QED BY <3>1
  <2> HIDE DEF size, n
  <2>7. size > 0
    <3>1. size # 0
      <4> SUFFICES ASSUME size = 0 PROVE FALSE
        OBVIOUS
      <4>1. size * w = 0
        OBVIOUS
      <4> QED BY <1>1, <2>5, <2>6, <4>1
    <3> QED BY <2>6, <3>1
  <2>8. m \in Nat /\ m * size < n + size /\ n <= m * size
    BY <1>1, <2>6, <2>7, CeilFacts
  <2> HIDE DEF m
  <2>9. n = Len(files)
    BY DEF n
  <2>10. ChunksOf(files, requested) = EvenSlices(files, size, n, m)
    BY <2>1 DEF EvenSlices
  <2>11. /\ EvenSlices(files, size, n, m) \in Seq(Seq(S))
         /\ \E base : Pieces(files, EvenSlices(files, size, n, m), base)
    BY <1>1, <2>6, <2>7, <2>8, <2>9, SlicesArePieces
  <2> QED BY <2>10, <2>11
<1> QED BY <1>2, <1>3

\* Each path has one place, and the pieces follow each other.
Distinct(F) == \A k, l \in DOMAIN F : F[k].path = F[l].path => k = l

LEMMA AtIs ==
  ASSUME NEW F, Distinct(F), NEW k \in DOMAIN F
  PROVE  At(F, F[k].path) = k
<1> DEFINE j == CHOOSE l \in DOMAIN F : F[l].path = F[k].path
<1>1. j \in DOMAIN F /\ F[j].path = F[k].path
  OBVIOUS
<1> HIDE DEF j
<1>2. j = k
  BY <1>1 DEF Distinct
<1> QED BY <1>2 DEF At, j

LEMMA PlacesInPieces ==
  ASSUME NEW F \in Seq(FileRec), Distinct(F), NEW cs \in Seq(Seq(FileRec)), NEW base,
         Pieces(F, cs, base)
  PROVE  /\ \A c \in DOMAIN cs : /\ Rising(F, cs[c])
                                 /\ \A p \in PathsOf(cs[c]) : At(F, p) \in Nat
         /\ \A c, d \in DOMAIN cs : c < d =>
              \A p \in PathsOf(cs[c]), q \in PathsOf(cs[d]) : At(F, p) < At(F, q)
         /\ \A k \in DOMAIN F : \E c \in DOMAIN cs : F[k].path \in PathsOf(cs[c])
<1>1. ASSUME NEW c \in DOMAIN cs
      PROVE  cs[c] \in Seq(FileRec) /\ base[c] \in Nat /\ Len(cs[c]) \in Nat
             /\ DOMAIN cs[c] = 1 .. Len(cs[c])
  <2>1. cs[c] \in Seq(FileRec) /\ base[c] \in Nat
    BY DEF Pieces
  <2> QED BY <2>1
<1>2. ASSUME NEW c \in DOMAIN cs, NEW j \in DOMAIN cs[c]
      PROVE  /\ base[c] + j \in DOMAIN F /\ At(F, cs[c][j].path) = base[c] + j
             /\ base[c] < base[c] + j /\ base[c] + j <= base[c] + Len(cs[c]) /\ j \in Nat
  <2>1. j \in Nat /\ j >= 1 /\ j <= Len(cs[c])
    BY <1>1
  <2>2. base[c] + Len(cs[c]) <= Len(F) /\ cs[c][j] = F[base[c] + j]
    BY DEF Pieces
  <2>3. base[c] + j \in DOMAIN F
    <3>1. base[c] + j >= 1 /\ base[c] + j <= Len(F) /\ base[c] + j \in Nat
      BY <1>1, <2>1, <2>2
    <3> QED BY <3>1
  <2>4. At(F, F[base[c] + j].path) = base[c] + j
    BY <2>3, AtIs
  <2>5. base[c] < base[c] + j /\ base[c] + j <= base[c] + Len(cs[c])
    BY <1>1, <2>1
  <2> QED BY <2>1, <2>2, <2>3, <2>4, <2>5
<1>3. ASSUME NEW c \in DOMAIN cs
      PROVE  /\ Rising(F, cs[c])
             /\ \A p \in PathsOf(cs[c]) :
                   At(F, p) \in Nat /\ base[c] < At(F, p) /\ At(F, p) <= base[c] + Len(cs[c])
  <2>1. Rising(F, cs[c])
    <3> SUFFICES ASSUME NEW i \in DOMAIN cs[c], NEW j \in DOMAIN cs[c], i < j
                 PROVE  At(F, cs[c][i].path) < At(F, cs[c][j].path)
      BY DEF Rising
    <3>1. base[c] + i < base[c] + j
      BY <1>1, <1>2
    <3> QED BY <1>2, <3>1
  <2>2. ASSUME NEW p \in PathsOf(cs[c])
        PROVE  At(F, p) \in Nat /\ base[c] < At(F, p) /\ At(F, p) <= base[c] + Len(cs[c])
    <3> PICK j \in DOMAIN cs[c] : p = cs[c][j].path
      BY DEF PathsOf
    <3>1. base[c] + j \in Nat
      BY <1>1, <1>2
    <3> QED BY <1>2, <3>1
  <2> QED BY <2>1, <2>2
<1>4. ASSUME NEW c \in DOMAIN cs, NEW d \in DOMAIN cs, c < d,
             NEW p \in PathsOf(cs[c]), NEW q \in PathsOf(cs[d])
      PROVE  At(F, p) < At(F, q)
  <2>1. base[c] + Len(cs[c]) <= base[d]
    BY <1>4 DEF Pieces
  <2>2. At(F, p) \in Nat /\ At(F, p) <= base[c] + Len(cs[c])
    BY <1>3
  <2>3. At(F, q) \in Nat /\ base[d] < At(F, q)
    BY <1>3
  <2>4. base[c] + Len(cs[c]) \in Nat /\ base[d] \in Nat
    BY <1>1
  <2> QED BY <2>1, <2>2, <2>3, <2>4
<1>5. ASSUME NEW k \in DOMAIN F PROVE \E c \in DOMAIN cs : F[k].path \in PathsOf(cs[c])
  <2> PICK c \in DOMAIN cs : base[c] < k /\ k <= base[c] + Len(cs[c])
    BY DEF Pieces
  <2> PICK b, n \in Nat : b = base[c] /\ n = Len(cs[c])
    BY <1>1
  <2> PICK j : j = k - b
    OBVIOUS
  <2>1. j \in 1 .. n /\ b + j = k
    BY SMT
  <2>2. j \in DOMAIN cs[c]
    BY <1>1, <2>1
  <2>3. cs[c][j] = F[base[c] + j] /\ base[c] + j = k
    BY <2>1, <2>2 DEF Pieces
  <2>4. cs[c][j] = F[k]
    BY <2>3
  <2> QED BY <2>2, <2>4 DEF PathsOf
<1> QED BY <1>3, <1>4, <1>5
-----------------------------------------------------------------------------
(* The caller's steps *)

\* Nothing is told yet of a chunk that nobody has begun.
LEMMA FreshAccount ==
  ASSUME NEW F, NEW todo, Rising(F, todo), NEW complete
  PROVE  Account(F, PathsOf(todo), complete, todo, Nothing)
<1>1. /\ Nothing.files = <<>> /\ Nothing.skipped = <<>> /\ Nothing.warnings = <<>>
      /\ Nothing.termination = None
  BY DEF Nothing
<1> PICK none : none = <<>>
  OBVIOUS
<1>2. DOMAIN none = {}
  OBVIOUS
<1>3. PathsOf(none) = {} /\ \A K : OfKind(none, K) = {}
  BY <1>2 DEF PathsOf, OfKind
<1>4. Listed(F, PathsOf(todo), todo, none)
  BY <1>2, <1>3 DEF Listed, Rising, Before
<1>5. AllTold(F, PathsOf(todo), todo, Nothing)
  BY <1>1, <1>3 DEF AllTold, Limited
<1> QED BY <1>1, <1>4, <1>5 DEF Account

LEMMA InitCounts == Init => AccountInv
<1> SUFFICES ASSUME Init PROVE AccountInv
  OBVIOUS
<1>1. stop = None /\ scan = 0 /\ phase = "idle" /\ worker = <<>>
  BY DEF Init
<1>2. Chunks = {}
  BY <1>1 DEF Chunks
<1> QED BY <1>1, <1>2, NoReason DEF AccountInv, ReportOK, Reports

\* The lists of a report, in the order of the walk.
LEMMA InOrder ==
  ASSUME NEW s
  PROVE  InWalkOrder(s) <=> /\ \A j \in DOMAIN s : \E k \in DOMAIN input : input[k].path = s[j].path
                            /\ Rising(input, s)
BY DEF InWalkOrder, Place, Rising, At

LEMMA BeginsCounts == ASSUME IInv, AccountInv, Begins PROVE AccountInv'
<1>1. /\ phase = "idle" /\ scan < Len(plan) /\ scan' = scan + 1 /\ input' = Selected /\ stop' = None
      /\ plan' = plan
  BY DEF Begins
<1>2. plan \in Seq(Option) /\ scan \in Nat /\ DOMAIN worker = {}
  BY <1>1 DEF IInv, CallOK
<1> PICK o : o = plan[scan + 1]
  OBVIOUS
<1> PICK F : F = Selected
  OBVIOUS
<1> PICK chunks : chunks = ChunksOf(F, o.workers)
  OBVIOUS
<1>3. o \in Option /\ o.workers \in Nat /\ options' = o
  <2>1. scan' \in DOMAIN plan
    BY <1>1, <1>2
  <2>2. plan[scan'] \in Option
    BY <1>2, <2>1
  <2>3. o \in Option
    BY <1>1, <2>2
  <2>4. options' = o
    BY <1>1 DEF options
  <2> QED BY <2>3, <2>4 DEF Option
<1>4. F \in Seq(FileRec) /\ Distinct(F)
  BY SelectedOK DEF IInv, Distinct
<1>5. /\ chunks \in Seq(Seq(FileRec))
      /\ \A c \in DOMAIN chunks : Rising(F, chunks[c])
  BY <1>3, <1>4, ChunksArePieces, PlacesInPieces
<1>6. Occurred(None)'
  BY InspectionConstants DEF Occurred
<1>7. CASE o.hash \/ o.detect
  <2>1. /\ phase' = "inspecting"
        /\ worker' = [c \in DOMAIN chunks |-> AtRest(chunks[c])]
        /\ out' = [c \in DOMAIN chunks |-> Nothing]
    BY <1>7 DEF Begins
  <2>2. Chunks' = DOMAIN chunks /\ ChunksOf(input, options.workers)' = chunks
    BY <1>1, <1>3, <2>1 DEF Chunks
  <2>3. ASSUME NEW c \in DOMAIN chunks PROVE ChunkOK(c, worker[c], out[c], stop)'
    <3> PICK w : w = AtRest(chunks[c])
      OBVIOUS
    <3>1. w.pc = "takes" /\ w.own = None /\ w.todo = chunks[c]
      BY DEF AtRest
    <3>2. worker'[c] = w /\ out'[c] = Nothing
      BY <2>1
    <3>3. ChunkPaths(c)' = PathsOf(chunks[c]) /\ input' = F
      BY <1>1, <2>2 DEF ChunkPaths
    <3>4. Account(F, PathsOf(chunks[c]), o.complete, chunks[c], Nothing)
      BY <1>5, FreshAccount
    <3>5. ReasonsOK(w, Nothing, None)'
      BY <1>6, <3>1 DEF ReasonsOK, Nothing
    <3>6. Account(input, ChunkPaths(c), options.complete, w.todo, Nothing)'
      BY <1>3, <3>1, <3>3, <3>4
    <3>7. ChunkOK(c, w, Nothing, None)'
      BY <3>1, <3>5, <3>6 DEF ChunkOK
    <3> QED BY <1>1, <3>2, <3>7
  <2>4. ReportOK'
    BY <2>1 DEF ReportOK, Reports
  <2> QED BY <1>1, <1>6, <2>2, <2>3, <2>4 DEF AccountInv
<1>8. CASE ~(o.hash \/ o.detect)
  <2>1. phase' = phase /\ worker' = worker /\ out' = out /\ result' = [Nothing EXCEPT !.files = F]
    BY <1>8 DEF Begins
  <2> PICK r : r = [Nothing EXCEPT !.files = F]
    OBVIOUS
  <2> PICK none : none = <<>>
    OBVIOUS
  <2>2. /\ r.files = F /\ r.skipped = none /\ r.warnings = none /\ r.termination = None
    BY DEF Nothing
  <2>3. DOMAIN none = {} /\ PathsOf(none) = {} /\ \A K : OfKind(none, K) = {}
    BY DEF PathsOf, OfKind
  <2>4. Rising(F, F)
    <3> SUFFICES ASSUME NEW i \in DOMAIN F, NEW j \in DOMAIN F, i < j
                 PROVE  At(F, F[i].path) < At(F, F[j].path)
      BY DEF Rising
    <3>1. At(F, F[i].path) = i /\ At(F, F[j].path) = j
      BY <1>4, AtIs
    <3> QED BY <3>1
  <2>5. InWalkOrder(F)' /\ InWalkOrder(none)'
    <3>1. input' = F
      BY <1>1
    <3>3. \A j \in DOMAIN F : \E k \in DOMAIN input' : input'[k].path = F[j].path
      BY <3>1
    <3>4. InWalkOrder(F)'
      <4>1. \A p : Place(p)' = At(input', p)
        BY DEF Place, At
      <4>2. \A p : Place(p)' = At(F, p)
        BY <3>1, <4>1
      <4> QED BY <2>4, <3>3, <4>2 DEF InWalkOrder, Rising
    <3>5. InWalkOrder(none)'
      BY <2>3 DEF InWalkOrder
    <3> QED BY <3>4, <3>5
  <2>6. \A k \in DOMAIN F : F[k].path \in PathsOf(F)
    BY DEF PathsOf
  <2>7. ReportOK'
    <3>1. result' = r /\ input' = F
      BY <1>1, <2>1
    <3>2. InWalkOrder(result.files)' /\ InWalkOrder(result.skipped)' /\ InWalkOrder(result.warnings)'
      BY <2>2, <2>5, <3>1
    <3>3. Occurred(result.termination)'
      BY <1>6, <2>2, <3>1
    <3>4. /\ \A k \in DOMAIN input' : (input'[k].path \in PathsOf(result'.files))
                                        # (input'[k].path \in PathsOf(result'.skipped))
          /\ PathsOf(result'.warnings) = OfKind(result'.skipped, Errors)
          /\ Limited(result'.skipped) = {} /\ result'.termination = None
      BY <2>2, <2>3, <2>6, <3>1 DEF Limited
    <3> QED BY <3>2, <3>3, <3>4 DEF ReportOK
  <2>8. Chunks' = {}
    BY <1>2, <2>1 DEF Chunks
  <2> QED BY <1>1, <1>6, <2>1, <2>7, <2>8 DEF AccountInv
<1> QED BY <1>7, <1>8

\* The steps of the writers, of the token and of the clock.
LEMMA OutsideCounts ==
  ASSUME IInv, AccountInv,
         UNCHANGED <<plan, scan, phase, input, result, worker, out, stop>>,
         cancelled => cancelled', expired => expired'
  PROVE  AccountInv'
<1>1. \A r : Occurred(r) => Occurred(r)'
  BY DEF Occurred
<1>2. options' = options /\ Chunks' = Chunks
  BY DEF options, Chunks
<1>3. ASSUME NEW c \in Chunks PROVE ChunkOK(c, worker[c], out[c], stop)'
  <2> PICK w, o, s : w = worker[c] /\ o = out[c] /\ s = stop
    OBVIOUS
  <2>1. ChunkOK(c, w, o, s)
    BY DEF AccountInv
  <2>2. ChunkOK(c, w, o, s)'
    BY <1>1, <1>2, <2>1 DEF ChunkOK, ReasonsOK, ChunkPaths
  <2> QED BY <2>2
<1>4. ReportOK'
  <2>1. Reports' = Reports /\ \A s : InWalkOrder(s)' = InWalkOrder(s)
    BY DEF Reports, InWalkOrder, Place
  <2> QED BY <1>1, <1>2, <2>1 DEF ReportOK, AccountInv
<1> QED BY <1>1, <1>2, <1>3, <1>4 DEF AccountInv
-----------------------------------------------------------------------------
(* The chunks are joined *)

LEMMA JoinTwo ==
  ASSUME NEW S, NEW a \in Seq(S), NEW b \in Seq(S)
  PROVE  /\ a \o b \in Seq(S)
         /\ PathsOf(a \o b) = PathsOf(a) \cup PathsOf(b)
         /\ \A K : OfKind(a \o b, K) = OfKind(a, K) \cup OfKind(b, K)
         /\ \A F : /\ Rising(F, a) /\ Rising(F, b)
                   /\ \A p \in PathsOf(a), q \in PathsOf(b) : At(F, p) < At(F, q)
                   => Rising(F, a \o b)
<1> PICK j : j = a \o b
  OBVIOUS
<1> PICK n \in Nat, m \in Nat : n = Len(a) /\ m = Len(b)
  OBVIOUS
<1>1. j \in Seq(S) /\ DOMAIN j = 1 .. (n + m) /\ DOMAIN a = 1 .. n /\ DOMAIN b = 1 .. m
  OBVIOUS
<1>2. \A k \in 1 .. n : j[k] = a[k]
  OBVIOUS
<1>3. \A k \in 1 .. m : j[n + k] = b[k]
  OBVIOUS
<1>4. \A k \in 1 .. n : k \in 1 .. (n + m)
  OBVIOUS
<1>5. \A k \in 1 .. m : n + k \in 1 .. (n + m)
  OBVIOUS
<1>6. \A k \in 1 .. (n + m) : k \in 1 .. n \/ (k - n \in 1 .. m /\ n + (k - n) = k)
  OBVIOUS
<1>7. PathsOf(j) = PathsOf(a) \cup PathsOf(b)
  <2>1. ASSUME NEW p \in PathsOf(j) PROVE p \in PathsOf(a) \cup PathsOf(b)
    BY <1>1, <1>2, <1>3, <1>6 DEF PathsOf
  <2>2. ASSUME NEW p \in PathsOf(a) PROVE p \in PathsOf(j)
    BY <1>1, <1>2, <1>4 DEF PathsOf
  <2>3. ASSUME NEW p \in PathsOf(b) PROVE p \in PathsOf(j)
    <3> PICK k \in 1 .. m : b[k].path = p
      BY <1>1, <2>3 DEF PathsOf
    <3>1. n + k \in DOMAIN j /\ j[n + k].path = p
      BY <1>1, <1>3, <1>5
    <3> QED BY <3>1 DEF PathsOf
  <2> QED BY <2>1, <2>2, <2>3
<1>8. ASSUME NEW K PROVE OfKind(j, K) = OfKind(a, K) \cup OfKind(b, K)
  <2>1. ASSUME NEW p \in OfKind(j, K) PROVE p \in OfKind(a, K) \cup OfKind(b, K)
    BY <1>1, <1>2, <1>3, <1>6 DEF OfKind
  <2>2. ASSUME NEW p \in OfKind(a, K) PROVE p \in OfKind(j, K)
    BY <1>1, <1>2, <1>4 DEF OfKind
  <2>3. ASSUME NEW p \in OfKind(b, K) PROVE p \in OfKind(j, K)
    <3> PICK k \in 1 .. m : b[k].path = p /\ b[k].kind \in K
      BY <1>1, <2>3 DEF OfKind
    <3>1. n + k \in DOMAIN j /\ j[n + k].path = p /\ j[n + k].kind \in K
      BY <1>1, <1>3, <1>5
    <3> QED BY <3>1 DEF OfKind
  <2> QED BY <2>1, <2>2, <2>3
<1>9. ASSUME NEW F, Rising(F, a), Rising(F, b),
             \A p \in PathsOf(a), q \in PathsOf(b) : At(F, p) < At(F, q),
             NEW k \in 1 .. (n + m), NEW l \in 1 .. (n + m), k < l
      PROVE  At(F, j[k].path) < At(F, j[l].path)
  <2>1. CASE k \in 1 .. n /\ l \in 1 .. n
    BY <1>1, <1>2, <1>9, <2>1 DEF Rising
  <2>2. CASE k \in 1 .. n /\ l \notin 1 .. n
    <3> PICK e \in 1 .. m : n + e = l
      BY <1>6, <2>2
    <3>1. a[k].path \in PathsOf(a) /\ b[e].path \in PathsOf(b)
      BY <1>1, <2>2 DEF PathsOf
    <3>2. j[k] = a[k] /\ j[l] = b[e]
      BY <1>2, <1>3, <2>2
    <3> QED BY <1>9, <3>1, <3>2
  <2>3. CASE k \notin 1 .. n
    <3> PICK d \in 1 .. m : n + d = k
      BY <1>6, <2>3
    <3>1. l \notin 1 .. n
      BY <1>9, <2>3
    <3> PICK e \in 1 .. m : n + e = l
      BY <1>6, <3>1
    <3>2. d < e
      BY <1>9
    <3>3. j[k] = b[d] /\ j[l] = b[e]
      BY <1>3
    <3> QED BY <1>1, <1>9, <3>2, <3>3 DEF Rising
  <2> QED BY <2>1, <2>2, <2>3
<1>10. \A F : /\ Rising(F, a) /\ Rising(F, b)
              /\ \A p \in PathsOf(a), q \in PathsOf(b) : At(F, p) < At(F, q)
              => Rising(F, j)
  BY <1>1, <1>9 DEF Rising
<1> QED BY <1>1, <1>7, <1>8, <1>10

\* Each piece in the order of the walk, and one after the other.
Follows(F, s) ==
    /\ \A c \in DOMAIN s : Rising(F, s[c])
    /\ \A c, d \in DOMAIN s : c < d =>
         \A p \in PathsOf(s[c]), q \in PathsOf(s[d]) : At(F, p) < At(F, q)

\* What the first i pieces joined are.
Joined(S, s, i, j) ==
    /\ j \in Seq(S)
    /\ \A p : p \in PathsOf(j) <=> \E c \in 1 .. i : p \in PathsOf(s[c])
    /\ \A K, p : p \in OfKind(j, K) <=> \E c \in 1 .. i : p \in OfKind(s[c], K)
    /\ \A F : Follows(F, s) => Rising(F, j)

LEMMA JoinOne ==
  ASSUME NEW S, NEW s \in Seq(Seq(S)), 1 \in DOMAIN s
  PROVE  Joined(S, s, 1, s[1])
<1>1. s[1] \in Seq(S) /\ \A c : c \in 1 .. 1 <=> c = 1
  OBVIOUS
<1> QED BY <1>1 DEF Joined, Follows

LEMMA JoinNext ==
  ASSUME NEW S, NEW s \in Seq(Seq(S)), NEW i \in Nat \ {0}, i + 1 \in DOMAIN s,
         NEW j, Joined(S, s, i, j)
  PROVE  Joined(S, s, i + 1, j \o s[i + 1])
<1> PICK e \in Nat : e = i + 1
  OBVIOUS
<1> PICK r : r = s[e]
  OBVIOUS
<1>1. e \in DOMAIN s /\ r \in Seq(S) /\ j \in Seq(S)
  BY DEF Joined
<1> PICK t : t = j \o r
  OBVIOUS
<1>2. /\ t \in Seq(S)
      /\ PathsOf(t) = PathsOf(j) \cup PathsOf(r)
      /\ \A K : OfKind(t, K) = OfKind(j, K) \cup OfKind(r, K)
      /\ \A F : /\ Rising(F, j) /\ Rising(F, r)
                /\ \A p \in PathsOf(j), q \in PathsOf(r) : At(F, p) < At(F, q)
                => Rising(F, t)
  BY <1>1, JoinTwo
<1>3. \A c : c \in 1 .. e <=> c \in 1 .. i \/ c = e
  OBVIOUS
<1>4. \A p : p \in PathsOf(t) <=> \E c \in 1 .. e : p \in PathsOf(s[c])
  BY <1>2, <1>3 DEF Joined
<1>5. \A K, p : p \in OfKind(t, K) <=> \E c \in 1 .. e : p \in OfKind(s[c], K)
  BY <1>2, <1>3 DEF Joined
<1>6. ASSUME NEW F, Follows(F, s) PROVE Rising(F, t)
  <2>1. Rising(F, j) /\ Rising(F, r)
    BY <1>1, <1>6 DEF Joined, Follows
  <2>2. ASSUME NEW p \in PathsOf(j), NEW q \in PathsOf(r) PROVE At(F, p) < At(F, q)
    <3> PICK c \in 1 .. i : p \in PathsOf(s[c])
      BY <2>2 DEF Joined
    <3>1. c \in DOMAIN s /\ c < e
      BY <1>1
    <3> QED BY <1>1, <1>6, <2>2, <3>1 DEF Follows
  <2> QED BY <1>2, <2>1, <2>2
<1>7. Joined(S, s, e, t)
  BY <1>2, <1>4, <1>5, <1>6 DEF Joined
<1> QED BY <1>7

LEMMA JoinsAreJoined ==
  ASSUME NEW S, NEW s \in Seq(Seq(S)), NEW n \in Nat, n = Len(s), NEW g, Joins(s, n, g)
  PROVE  \A i \in 1 .. n : Joined(S, s, i, g[i])
<1> DEFINE Bad == {i \in 1 .. n : ~ Joined(S, s, i, g[i])}
<1> SUFFICES ASSUME Bad # {} PROVE FALSE
  OBVIOUS
<1>1. PICK m \in Bad : \A x \in Bad : ~(x < m)
  BY LeastNumber
<1>2. m \in 1 .. n /\ DOMAIN s = 1 .. n
  OBVIOUS
<1>3. g[m] = IF m = 1 THEN s[m] ELSE g[m - 1] \o s[m]
  BY <1>2 DEF Joins
<1>4. CASE m = 1
  BY <1>2, <1>3, <1>4, JoinOne
<1>5. CASE m # 1
  <2> PICK i \in Nat \ {0} : i + 1 = m /\ i = m - 1
    BY <1>2, <1>5
  <2>1. i \in 1 .. n /\ i < m
    BY <1>2
  <2>2. Joined(S, s, i, g[i])
    BY <1>1, <2>1
  <2>3. Joined(S, s, i + 1, g[i] \o s[i + 1])
    BY <1>2, <2>2, JoinNext
  <2> QED BY <1>3, <1>5, <2>3
<1> QED BY <1>4, <1>5

LEMMA FlattenIsJoined ==
  ASSUME NEW S, NEW s \in Seq(Seq(S)), NEW n \in Nat, n = Len(s)
  PROVE  Joined(S, s, n, FlattenSeq(s))
<1>1. CASE n # 0
  <2>1. PICK g : Joins(s, n, g) /\ FlattenSeq(s) = g[n]
    BY <1>1, FlattenIs
  <2>2. n \in 1 .. n
    BY <1>1
  <2> QED BY <2>1, <2>2, JoinsAreJoined
<1>2. CASE n = 0
  <2>1. FlattenSeq(s) = s
    BY <1>2 DEF FlattenSeq
  <2>2. s \in Seq(S) /\ DOMAIN s = {} /\ 1 .. n = {}
    <3>1. s = << >>
      BY <1>2, NothingThere
    <3>2. << >> \in Seq(S)
      OBVIOUS
    <3>3. DOMAIN s = {} /\ 1 .. n = {}
      BY <1>2, <3>1
    <3> QED BY <3>1, <3>2, <3>3
  <2> QED BY <2>1, <2>2 DEF Joined, PathsOf, OfKind, Rising
<1> QED BY <1>1, <1>2

\* Lists of the pieces of the walk, and what they are together.
Parts(F, cs, s) ==
    /\ DOMAIN s = DOMAIN cs
    /\ \A c \in DOMAIN cs : PathsOf(s[c]) \subseteq PathsOf(cs[c]) /\ Rising(F, s[c])

Whole(F, cs, s, j) ==
    /\ Rising(F, j)
    /\ \A p : p \in PathsOf(j) <=> \E c \in DOMAIN cs : p \in PathsOf(s[c])
    /\ \A K, p : p \in OfKind(j, K) <=> \E c \in DOMAIN cs : p \in OfKind(s[c], K)
    /\ \A c \in DOMAIN cs : \A p \in PathsOf(cs[c]) : p \in PathsOf(j) => p \in PathsOf(s[c])
    /\ \A c \in DOMAIN cs : \A p \in PathsOf(cs[c]) : \A K :
         p \in OfKind(j, K) => p \in OfKind(s[c], K)

LEMMA JoinedLists ==
  ASSUME NEW F \in Seq(FileRec), Distinct(F), NEW cs \in Seq(Seq(FileRec)), NEW base,
         Pieces(F, cs, base), NEW S, NEW s \in Seq(Seq(S)), Parts(F, cs, s)
  PROVE  Whole(F, cs, s, FlattenSeq(s))
<1>0. /\ DOMAIN s = DOMAIN cs
      /\ \A c \in DOMAIN cs : PathsOf(s[c]) \subseteq PathsOf(cs[c]) /\ Rising(F, s[c])
  BY DEF Parts
<1> PICK n \in Nat : n = Len(s) /\ DOMAIN s = 1 .. n
  OBVIOUS
<1> PICK j : j = FlattenSeq(s)
  OBVIOUS
<1>1. Joined(S, s, n, j)
  BY FlattenIsJoined
<1>2. /\ \A c \in DOMAIN cs : \A p \in PathsOf(cs[c]) : At(F, p) \in Nat
      /\ \A c, d \in DOMAIN cs : c < d =>
           \A p \in PathsOf(cs[c]), q \in PathsOf(cs[d]) : At(F, p) < At(F, q)
  BY PlacesInPieces
<1>3. Follows(F, s)
  BY <1>0, <1>2 DEF Follows
<1>4. ASSUME NEW c \in DOMAIN cs, NEW d \in DOMAIN cs, NEW p \in PathsOf(cs[c]), p \in PathsOf(cs[d])
      PROVE  c = d
  <2>1. At(F, p) \in Nat /\ c \in Nat /\ d \in Nat
    BY <1>2
  <2>2. c < d => At(F, p) < At(F, p)
    BY <1>2, <1>4
  <2>3. d < c => At(F, p) < At(F, p)
    BY <1>2, <1>4
  <2>4. ~(At(F, p) < At(F, p))
    BY <2>1
  <2> QED BY <2>1, <2>2, <2>3, <2>4
<1>5. \A c \in DOMAIN cs : \A p \in PathsOf(cs[c]) : p \in PathsOf(j) => p \in PathsOf(s[c])
  BY <1>0, <1>1, <1>4 DEF Joined
<1>6. ASSUME NEW c \in DOMAIN cs, NEW p \in PathsOf(cs[c]), NEW K, p \in OfKind(j, K)
      PROVE  p \in OfKind(s[c], K)
  <2> PICK d \in DOMAIN cs : p \in OfKind(s[d], K)
    BY <1>0, <1>1, <1>6 DEF Joined
  <2>1. p \in PathsOf(s[d])
    BY DEF OfKind, PathsOf
  <2> QED BY <1>0, <1>4, <2>1
<1> QED BY <1>0, <1>1, <1>3, <1>5, <1>6 DEF Joined, Whole
\* The results of the chunks of a complete scan, told together.
Results(F, cs, o, fs, ss, ws, stopped) ==
    /\ DOMAIN fs = DOMAIN cs /\ DOMAIN ss = DOMAIN cs /\ DOMAIN ws = DOMAIN cs
    /\ \A c \in DOMAIN cs : /\ fs[c] = o[c].files /\ ss[c] = o[c].skipped /\ ws[c] = o[c].warnings
                            /\ o[c].termination # None <=> c \in stopped
                            /\ Account(F, PathsOf(cs[c]), TRUE, << >>, o[c])

Total(F, cs, f, s, w, stopped) ==
    /\ \A k \in DOMAIN F : (F[k].path \in PathsOf(f)) # (F[k].path \in PathsOf(s))
    /\ PathsOf(w) = OfKind(s, Errors)
    /\ (\E c \in DOMAIN cs : c \in stopped) <=> (Limited(s) # {})
    /\ \A c \in DOMAIN cs : \A i, j \in DOMAIN cs[c] :
         i < j /\ cs[c][i].path \in Limited(s) => cs[c][j].path \in Limited(s)

LEMMA Together ==
  ASSUME NEW F \in Seq(FileRec), Distinct(F), NEW cs \in Seq(Seq(FileRec)), NEW base,
         Pieces(F, cs, base), NEW o, NEW stopped,
         NEW fs \in Seq(Seq(FileRec)), NEW ss \in Seq(Seq(Skip)), NEW ws \in Seq(Seq(Skip)),
         Results(F, cs, o, fs, ss, ws, stopped)
  PROVE  Total(F, cs, FlattenSeq(fs), FlattenSeq(ss), FlattenSeq(ws), stopped)
<1> PICK f, s, w : f = FlattenSeq(fs) /\ s = FlattenSeq(ss) /\ w = FlattenSeq(ws)
  OBVIOUS
<1> PICK done : done = << >>
  OBVIOUS
<1>1. PathsOf(done) = {} /\ DOMAIN done = {}
  BY DEF PathsOf
<1>2. Parts(F, cs, fs) /\ Parts(F, cs, ss) /\ Parts(F, cs, ws)
  BY DEF Results, Parts, Account, Listed
<1>3. ASSUME NEW c \in DOMAIN cs
      PROVE  /\ \A p \in PathsOf(cs[c]) : (p \in PathsOf(fs[c])) # (p \in PathsOf(ss[c]))
             /\ PathsOf(ws[c]) = OfKind(ss[c], Errors)
             /\ c \in stopped <=> OfKind(ss[c], {"ScanLimit"}) # {}
             /\ \A p \in OfKind(ss[c], {"ScanLimit"}), q \in PathsOf(cs[c]) :
                  At(F, p) < At(F, q) => q \in OfKind(ss[c], {"ScanLimit"})
  <2>1. AllTold(F, PathsOf(cs[c]), done, o[c])
    BY DEF Results, Account
  <2> QED BY <1>1, <2>1 DEF Results, AllTold, Limited
<1>4. Whole(F, cs, fs, f)
  BY <1>2, JoinedLists
<1>5. Whole(F, cs, ss, s)
  BY <1>2, JoinedLists
<1>6. Whole(F, cs, ws, w)
  BY <1>2, JoinedLists
<1>7. \A p : p \in PathsOf(w) <=> \E c \in DOMAIN cs : p \in PathsOf(ws[c])
  BY <1>6 DEF Whole
<1>8. /\ \A c \in DOMAIN cs : Rising(F, cs[c])
      /\ \A k \in DOMAIN F : \E c \in DOMAIN cs : F[k].path \in PathsOf(cs[c])
  BY PlacesInPieces
<1>9. ASSUME NEW k \in DOMAIN F PROVE (F[k].path \in PathsOf(f)) # (F[k].path \in PathsOf(s))
  <2> PICK c \in DOMAIN cs : F[k].path \in PathsOf(cs[c])
    BY <1>8
  <2>1. (F[k].path \in PathsOf(fs[c])) # (F[k].path \in PathsOf(ss[c]))
    BY <1>3
  <2>2. F[k].path \in PathsOf(f) <=> F[k].path \in PathsOf(fs[c])
    BY <1>4 DEF Whole
  <2>3. F[k].path \in PathsOf(s) <=> F[k].path \in PathsOf(ss[c])
    BY <1>5 DEF Whole
  <2> QED BY <2>1, <2>2, <2>3
<1>10. PathsOf(w) = OfKind(s, Errors)
  <2>1. \A p : p \in PathsOf(w) <=> p \in OfKind(s, Errors)
    BY <1>3, <1>5, <1>7 DEF Whole
  <2> QED BY <2>1
<1>11. (\E c \in DOMAIN cs : c \in stopped) <=> (Limited(s) # {})
  <2>1. \A p : p \in Limited(s) <=> \E c \in DOMAIN cs : p \in OfKind(ss[c], {"ScanLimit"})
    BY <1>5 DEF Limited, Whole
  <2>2. ASSUME NEW c \in DOMAIN cs, c \in stopped PROVE Limited(s) # {}
    <3> PICK p : p \in OfKind(ss[c], {"ScanLimit"})
      BY <1>3, <2>2
    <3> QED BY <2>1
  <2>3. ASSUME NEW p \in Limited(s) PROVE \E c \in DOMAIN cs : c \in stopped
    <3> PICK c \in DOMAIN cs : p \in OfKind(ss[c], {"ScanLimit"})
      BY <2>1
    <3> QED BY <1>3
  <2> QED BY <2>2, <2>3
<1>12. ASSUME NEW c \in DOMAIN cs, NEW i \in DOMAIN cs[c], NEW j \in DOMAIN cs[c], i < j,
              cs[c][i].path \in Limited(s)
       PROVE  cs[c][j].path \in Limited(s)
  <2>1. cs[c][i].path \in PathsOf(cs[c]) /\ cs[c][j].path \in PathsOf(cs[c])
    BY DEF PathsOf
  <2>2. cs[c][i].path \in OfKind(ss[c], {"ScanLimit"})
    BY <1>5, <1>12, <2>1 DEF Limited, Whole
  <2>3. At(F, cs[c][i].path) < At(F, cs[c][j].path)
    BY <1>8, <1>12 DEF Rising
  <2>4. cs[c][j].path \in OfKind(ss[c], {"ScanLimit"})
    BY <1>3, <2>1, <2>2, <2>3
  <2> QED BY <1>5, <2>4 DEF Limited, Whole
<1> QED BY <1>9, <1>10, <1>11, <1>12 DEF Total

\* A joined list is in the order of the walk.
LEMMA JoinedInOrder ==
  ASSUME InputOK, NEW cs \in Seq(Seq(FileRec)), NEW base, Pieces(input, cs, base),
         NEW S, NEW s \in Seq(Seq(S)), Parts(input, cs, s)
  PROVE  InWalkOrder(FlattenSeq(s))
<1> PICK j : j = FlattenSeq(s)
  OBVIOUS
<1>1. input \in Seq(FileRec) /\ Distinct(input)
  BY DEF InputOK, Distinct
<1>2. Whole(input, cs, s, j)
  BY <1>1, JoinedLists
<1>3. ASSUME NEW k \in DOMAIN j PROVE \E l \in DOMAIN input : input[l].path = j[k].path
  <2>1. j[k].path \in PathsOf(j)
    BY DEF PathsOf
  <2> PICK c \in DOMAIN cs : j[k].path \in PathsOf(cs[c])
    BY <1>2, <2>1 DEF Parts, Whole
  <2> PICK i \in DOMAIN cs[c] : cs[c][i].path = j[k].path
    BY DEF PathsOf
  <2>2. base[c] \in Nat /\ base[c] + Len(cs[c]) <= Len(input) /\ cs[c][i] = input[base[c] + i]
    BY DEF Pieces
  <2>3. cs[c] \in Seq(FileRec) /\ i \in 1 .. Len(cs[c]) /\ Len(cs[c]) \in Nat
    OBVIOUS
  <2>4. base[c] + i \in DOMAIN input
    BY <1>1, <2>2, <2>3
  <2> QED BY <2>2, <2>4
<1> QED BY <1>2, <1>3, InOrder DEF Whole
-----------------------------------------------------------------------------
(* The scan returns *)

\* The least of some chunks is one of them.
LEMMA FirstIsOne ==
  ASSUME NEW n \in Nat, NEW C \in SUBSET (1 .. n), C # {}
  PROVE  (CHOOSE c \in C : \A d \in C : c <= d) \in C
<1>1. PICK m \in C : \A x \in C : ~(x < m)
  BY LeastNumber
<1>2. \A x \in C : m <= x
  BY <1>1
<1> QED BY <1>2

\* What the scan puts together, when no chunk failed.
LEMMA MergedIs ==
  ASSUME NEW n \in Nat, Chunks = 1 .. n, Merged.error = None
  PROVE  /\ \A c \in Chunks : out[c].error = None
         /\ Merged.files = FlattenSeq([c \in Chunks |-> out[c].files])
         /\ Merged.skipped = FlattenSeq([c \in Chunks |-> out[c].skipped])
         /\ Merged.warnings = FlattenSeq([c \in Chunks |-> out[c].warnings])
         /\ (Merged.termination # None) <=> \E c \in Chunks : out[c].termination # None
         /\ Merged.termination # None => \E c \in Chunks : Merged.termination = out[c].termination
<1> DEFINE failed == {c \in Chunks : out[c].error # None}
           stopped == {c \in Chunks : out[c].termination # None}
           one == CHOOSE c \in failed : \A d \in failed : c <= d
           two == CHOOSE c \in stopped : \A d \in stopped : c <= d
           joined == [files |-> FlattenSeq([c \in Chunks |-> out[c].files]),
                      skipped |-> FlattenSeq([c \in Chunks |-> out[c].skipped]),
                      warnings |-> FlattenSeq([c \in Chunks |-> out[c].warnings]),
                      termination |-> IF stopped = {} THEN None ELSE out[two].termination,
                      error |-> None]
<1>1. Merged = IF failed # {} THEN [Nothing EXCEPT !.error = out[one].error] ELSE joined
  BY DEF Merged
<1>2. failed # {} => one \in failed
  BY FirstIsOne
<1>3. stopped # {} => two \in stopped
  BY FirstIsOne
<1>4. failed = {}
  <2> SUFFICES ASSUME failed # {} PROVE FALSE
    OBVIOUS
  <2>1. out[one].error # None
    BY <1>2
  <2> HIDE DEF one, failed, joined
  <2>2. Merged.error = out[one].error
    BY <1>1 DEF Nothing
  <2> QED BY <2>1, <2>2
<1>5. Merged = joined
  BY <1>1, <1>4
<1>6. \A c \in Chunks : out[c].error = None
  BY <1>4
<1>7. CASE stopped = {}
  BY <1>5, <1>6, <1>7
<1>8. CASE stopped # {}
  <2>1. two \in Chunks /\ out[two].termination # None
    BY <1>3, <1>8
  <2> HIDE DEF two
  <2>2. Merged.termination = out[two].termination
    BY <1>5, <1>8
  <2> QED BY <1>5, <1>6, <2>1, <2>2
<1> QED BY <1>7, <1>8

LEMMA ReturnsCounts == ASSUME IInv, AccountInv, Returns PROVE AccountInv'
<1>1. /\ phase = "inspecting" /\ \A c \in Chunks : worker[c].pc = "ended"
      /\ plan' = plan /\ scan' = scan /\ input' = input /\ stop' = stop /\ phase' = "idle"
      /\ worker' = <<>> /\ result' = Merged /\ cancelled' = cancelled /\ expired' = expired
  BY DEF Returns
<1>2. Chunks' = {}
  BY <1>1 DEF Chunks
<1>3. Occurred(stop)' /\ options' = options
  BY <1>1 DEF AccountInv, Occurred, options
<1>4. SUFFICES ReportOK'
  BY <1>1, <1>2, <1>3 DEF AccountInv
<1>5. CASE Merged.error # None
  BY <1>1, <1>5 DEF ReportOK, Reports
<1>6. CASE Merged.error = None
  <2> PICK cs : cs = ChunksOf(input, options.workers)
    OBVIOUS
  <2>1. options.workers \in Nat /\ options.complete \in BOOLEAN
    <3>1. options \in Option
      BY <1>1 DEF IInv, CallOK, options
    <3> QED BY <3>1 DEF Option
  <2>2. input \in Seq(FileRec) /\ Distinct(input) /\ InputOK
    BY DEF IInv, InputOK, Distinct
  <2>3. cs \in Seq(Seq(FileRec)) /\ \E base : Pieces(input, cs, base)
    BY <2>1, <2>2, ChunksArePieces
  <2> PICK base : Pieces(input, cs, base)
    BY <2>3
  <2> PICK n \in Nat : DOMAIN cs = 1 .. n
    BY <2>3
  <2>4. Chunks = 1 .. n /\ Chunks = DOMAIN cs
    BY <1>1 DEF AccountInv
  <2> PICK fs : fs = [c \in Chunks |-> out[c].files]
    OBVIOUS
  <2> PICK ss : ss = [c \in Chunks |-> out[c].skipped]
    OBVIOUS
  <2> PICK ws : ws = [c \in Chunks |-> out[c].warnings]
    OBVIOUS
  <2> PICK r : r = Merged
    OBVIOUS
  <2>5. /\ \A c \in Chunks : out[c].error = None
        /\ r.files = FlattenSeq(fs) /\ r.skipped = FlattenSeq(ss) /\ r.warnings = FlattenSeq(ws)
        /\ (r.termination # None) <=> \E c \in Chunks : out[c].termination # None
        /\ r.termination # None => \E c \in Chunks : r.termination = out[c].termination
    BY <1>6, <2>4, MergedIs
  <2>6. ASSUME NEW c \in Chunks
        PROVE  /\ out[c].files \in Seq(FileRec) /\ out[c].skipped \in Seq(Skip)
               /\ out[c].warnings \in Seq(Skip)
               /\ Occurred(out[c].termination)
               /\ Account(input, PathsOf(cs[c]), options.complete, << >>, out[c])
    <3>1. out[c] \in OutRec
      BY DEF IInv, WorkersOK, OutOK
    <3>2. ChunkOK(c, worker[c], out[c], stop)
      BY DEF AccountInv
    <3>3. worker[c].todo = << >>
      BY <1>1, <3>2 DEF ChunkOK
    <3>4. Account(input, PathsOf(cs[c]), options.complete, << >>, out[c])
      BY <2>5, <3>2, <3>3 DEF ChunkOK, ChunkPaths
    <3> QED BY <3>1, <3>2, <3>4 DEF OutRec, ChunkOK, ReasonsOK
  <2>7. fs \in Seq(Seq(FileRec)) /\ ss \in Seq(Seq(Skip)) /\ ws \in Seq(Seq(Skip))
    BY <2>4, <2>6
  <2>8. Parts(input, cs, fs) /\ Parts(input, cs, ss) /\ Parts(input, cs, ws)
    BY <2>4, <2>6 DEF Parts, Account, Listed
  <2>9. InWalkOrder(r.files) /\ InWalkOrder(r.skipped) /\ InWalkOrder(r.warnings)
    BY <2>2, <2>3, <2>5, <2>7, <2>8, JoinedInOrder
  <2>10. Occurred(r.termination)
    BY <2>5, <2>6, NoReason
  <2> PICK stopped : stopped = {c \in Chunks : out[c].termination # None}
    OBVIOUS
  <2>11. ASSUME options.complete
         PROVE  /\ \A k \in DOMAIN input : (input[k].path \in PathsOf(r.files))
                                             # (input[k].path \in PathsOf(r.skipped))
                /\ PathsOf(r.warnings) = OfKind(r.skipped, Errors)
                /\ (r.termination # None) <=> (Limited(r.skipped) # {})
                /\ \A c \in DOMAIN cs : \A i, j \in DOMAIN cs[c] :
                     i < j /\ cs[c][i].path \in Limited(r.skipped)
                       => cs[c][j].path \in Limited(r.skipped)
    <3>1. options.complete = TRUE
      BY <2>1, <2>11
    <3>2. Results(input, cs, out, fs, ss, ws, stopped)
      BY <2>4, <2>6, <3>1 DEF Results
    <3>3. (r.termination # None) <=> (\E c \in DOMAIN cs : c \in stopped)
      BY <2>4, <2>5
    <3>5. /\ input \in Seq(FileRec) /\ Distinct(input) /\ cs \in Seq(Seq(FileRec))
          /\ Pieces(input, cs, base)
      BY <2>2, <2>3
    <3>6. Total(input, cs, FlattenSeq(fs), FlattenSeq(ss), FlattenSeq(ws), stopped)
      BY <2>7, <3>2, <3>5, Together
    <3> QED BY <2>5, <3>3, <3>6 DEF Total
  <2>12. /\ result' = r /\ input' = input /\ ChunksOf(input, options.workers)' = cs
         /\ options' = options
    BY <1>1, <1>3
  <2>13. InWalkOrder(r.files)' /\ InWalkOrder(r.skipped)' /\ InWalkOrder(r.warnings)'
    BY <1>1, <2>9 DEF InWalkOrder, Place
  <2>14. Occurred(r.termination)'
    BY <1>1, <2>10 DEF Occurred
  <2>15. /\ (InWalkOrder(result.files) /\ InWalkOrder(result.skipped) /\ InWalkOrder(result.warnings))'
         /\ Occurred(result.termination)'
    BY <2>12, <2>13, <2>14
  <2> QED BY <2>11, <2>12, <2>15 DEF ReportOK
<1> QED BY <1>5, <1>6
LEMMA StepCounts == ASSUME IInv, AccountInv, [Next]_vars PROVE AccountInv'
<1>1. CASE Writes
  <2>1. UNCHANGED <<plan, scan, phase, input, result, worker, out, stop, cancelled, expired>>
    BY <1>1 DEF Writes, Removes, WritesInPlace, Replaces, Records, call
  <2> QED BY <2>1, OutsideCounts
<1>2. CASE Cancels \/ Expires
  <2>1. /\ UNCHANGED <<plan, scan, phase, input, result, worker, out, stop>>
        /\ (cancelled => cancelled') /\ (expired => expired')
    BY <1>2 DEF Cancels, Expires, call
  <2> QED BY <2>1, OutsideCounts
<1>3. CASE Begins
  BY <1>3, BeginsCounts
<1>4. CASE Returns
  BY <1>4, ReturnsCounts
<1>5. ASSUME NEW c \in Chunks, WorkerStep(c) PROVE AccountInv'
  BY <1>5, EndsCounts, TakesCounts, PublishesCounts, OpensCounts, ReadsCounts, RechecksCounts
     DEF WorkerStep
<1>6. CASE UNCHANGED vars
  <2>1. UNCHANGED <<plan, scan, phase, input, result, worker, out, stop, cancelled, expired>>
    BY <1>6 DEF vars, call
  <2> QED BY <2>1, OutsideCounts
<1> QED BY <1>1, <1>2, <1>3, <1>4, <1>5, <1>6 DEF Next

\* The accounts of the chunks and of the report hold throughout.
LEMMA InspectionAccounts == Spec => []AccountInv
<1>1. Init => AccountInv
  BY InitCounts
<1>2. IInv /\ AccountInv /\ [Next]_vars => AccountInv'
  BY StepCounts
<1> QED BY <1>1, <1>2, InspectionInvariant, PTL DEF Spec

\* Every file once (inspect_files, inspect_chunk): whatever the number of the
\* workers, whatever the writers do and wherever a scan is interrupted, a report
\* lists its files, the files it left out and its warnings in the order of the
\* walk; under EvidenceMode::Complete each selected file is in exactly one of the
\* first two, and the files that were left out because of an error are those
\* that there is a warning of.
THEOREM EveryFileOnce == Spec => []AccountedOnce
<1>1. AccountInv /\ TypeOK => AccountedOnce
  BY DEF AccountInv, ReportOK, AccountedOnce, Errors, Limited
<1> QED BY <1>1, InspectionAccounts, InspectionTypeCorrect, PTL

\* Termination is true (InspectionStop, inspect_chunk): the termination a report
\* names did occur in its scan, it names one if and only if a file was left out
\* because of it, and a worker that has left one out leaves out the rest of its
\* chunk.
THEOREM TerminationHolds == Spec => []TerminationIsTrue
<1>1. AccountInv => TerminationIsTrue
  BY DEF AccountInv, ReportOK, Occurred, TerminationIsTrue, Limited
<1> QED BY <1>1, InspectionAccounts, PTL
=============================================================================
